----------------------- MODULE FileStorageRefinement -----------------------
(***************************************************************************)
(* FileStorage implements FileLifecycle, for every value of the constants: *)
(* under the mapping LifeOf each step of the transactions, jobs and        *)
(* failures is a step of the lifecycle or changes nothing there.           *)
(***************************************************************************)
EXTENDS FileStorageProofs, SequenceTheorems

(* The abstract state: what LifeOf shows of each committed row. *)
Lives == [f \in Files |-> LifeOf(files[f])]
History(row) == [i \in 1..Len(row.versions) |-> row.versions[i].content]

(* What the mapping shows of a row the code may hold. *)
LEMMA LifeOfGoodRow ==
    ASSUME NEW row \in GoodRow
    PROVE  /\ LifeOf(row) = [status |-> row.status, slot |-> row.slot,
                             history |-> History(row)]
           /\ LifeOf(row) # Nil
           /\ History(row) \in Seq(Contents)
           /\ Len(History(row)) = Len(row.versions)
           /\ Len(row.versions) \in Nat \ {0}
           /\ \A i \in 1..Len(row.versions) :
                 /\ History(row)[i] = row.versions[i].content
                 /\ row.versions[i].content \in Contents
  <1> DEFINE n == Len(row.versions)
             h == History(row)
  <1>1. /\ row \in Row /\ row.versions \in Seq(Version) /\ row.versions # <<>>
        /\ row.status \in Statuses /\ row.slot \in Slots
    BY DEF GoodRow, Consistent, Row
  <1>2. n \in Nat \ {0} /\ \A i \in 1..n : row.versions[i].content \in Contents
    <2>1. n \in Nat \ {0} /\ \A i \in 1..n : row.versions[i] \in Version
      BY <1>1
    <2> QED BY <2>1 DEF Version
  <1>3. h \in [1..n -> Contents] /\ \A i \in 1..n : h[i] = row.versions[i].content
    BY <1>2 DEF History
  <1> HIDE DEF n, h
  <1>4. h \in Seq(Contents) /\ Len(h) = n
    <2>1. h \in Seq(Contents)
      BY <1>2, <1>3, SeqDef
    <2> QED BY <1>2, <1>3, <2>1, LenProperties
  <1>5. LifeOf(row) = [status |-> row.status, slot |-> row.slot, history |-> h]
    BY GoodRowIsNotNil DEF LifeOf, h, History
  <1>6. LifeOf(row) # Nil
    BY <1>1, <1>4, <1>5, NilIsFresh
  <1> QED BY <1>2, <1>3, <1>4, <1>5, <1>6 DEF n, h

(* A row with the versions of another, as far as the mapping shows them. *)
LEMMA SameHistory ==
    ASSUME NEW old \in GoodRow, NEW new \in GoodRow,
           Legal(old, new), Len(new.versions) = Len(old.versions)
    PROVE  History(new) = History(old)
  BY LifeOfGoodRow, SeqEqual DEF Legal

(* A row with one version more. *)
LEMMA LongerHistory ==
    ASSUME NEW old \in GoodRow, NEW new \in GoodRow,
           Legal(old, new), Len(new.versions) = Len(old.versions) + 1
    PROVE  \E c \in Contents : History(new) = Append(History(old), c)
  <1> DEFINE n == Len(old.versions)
             c == new.versions[n + 1].content
             h == History(old)
             k == History(new)
  <1>1. /\ h \in Seq(Contents) /\ Len(h) = n /\ n \in Nat \ {0}
        /\ k \in Seq(Contents) /\ Len(k) = n + 1
        /\ \A i \in 1..n : k[i] = h[i]
        /\ c \in Contents /\ k[n + 1] = c
    BY LifeOfGoodRow DEF Legal
  <1> HIDE DEF n, c, h, k
  <1>2. k = Append(h, c)
    BY <1>1, AppendProperties, SeqEqual
  <1> QED BY <1>1, <1>2 DEF c, h, k

-----------------------------------------------------------------------------
(* A committed row is created or legally replaced: a lifecycle step, or none. *)
LEMMA NewRowIsLifecycleStep ==
    ASSUME RowInv, NEW f \in Files, NEW row \in GoodRow,
           files' = [files EXCEPT ![f] = row],
           SlotFree(row.slot, f),
           files[f] = Nil => Newborn(row),
           files[f] # Nil => Legal(files[f], row)
    PROVE  Abstract!Next \/ Lives' = Lives
  <1> DEFINE new == LifeOf(row)
             old == LifeOf(files[f])
             h == History(row)
  <1>1. /\ new = [status |-> row.status, slot |-> row.slot, history |-> h]
        /\ row.slot \in Slots /\ new # Nil
    BY LifeOfGoodRow, GoodRowIsNotNil
  <1>2. Lives' = [Lives EXCEPT ![f] = new] /\ Lives[f] = old
    BY DEF Lives, RowInv, FilesOK
  <1>3. \A g \in Files : Live(files[g]) <=> Abstract!Live(g)
    BY LifeOfGoodRow DEF RowInv, FilesOK, Live, Abstract!Live, LifeOf
  <1>4. \A g \in Files \ {f} : Abstract!Live(g) => LifeOf(files[g]).slot # row.slot
    BY <1>3 DEF SlotFree, Live, LifeOf
  <1>5. CASE files[f] = Nil
    <2>1. old = Nil /\ ~Abstract!Live(f)
      BY <1>3, <1>5 DEF LifeOf, Live
    <2>2. h \in Seq(Contents) /\ Len(h) = 1 /\ h[1] \in Contents
          /\ row.status = "PENDING"
      BY <1>5, LifeOfGoodRow DEF Newborn
    <2>3. h = <<h[1]>>
      BY <2>2
    <2>4. Abstract!Free(row.slot)
      BY <1>4, <2>1 DEF Abstract!Free
    <2>5. Abstract!Create(f, row.slot, h[1])
      BY <1>1, <1>2, <2>1, <2>2, <2>3, <2>4 DEF Abstract!Create, Lives
    <2> QED BY <1>1, <2>2, <2>5 DEF Abstract!Next
  <1>6. CASE files[f] # Nil
    <2> DEFINE k == History(files[f])
    <2>1. /\ files[f] \in GoodRow /\ files[f].status # "DELETED"
          /\ Evolves(files[f], row) /\ Legal(files[f], row)
      BY <1>6 DEF RowInv, FilesOK, Legal
    <2>2. /\ old = [status |-> files[f].status, slot |-> files[f].slot, history |-> k]
          /\ old # Nil
      BY <2>1, LifeOfGoodRow
    <2>3. Abstract!Live(f)
      BY <1>3, <1>6, <2>1 DEF Live
    <2> HIDE DEF old, new, h, k
    <2>4. CASE /\ Len(row.versions) = Len(files[f].versions)
               /\ row.slot = files[f].slot
               /\ \/ row.status \in {files[f].status, "DELETED"}
                  \/ files[f].status = "PENDING" /\ row.status \in {"READY", "INFECTED"}
                  \/ files[f].status = "READY" /\ row.status = "INFECTED"
      <3>1. new = [old EXCEPT !.status = row.status]
        BY <1>1, <2>1, <2>2, <2>4, SameHistory DEF h, k
      <3>2. CASE row.status = files[f].status
        BY <1>2, <2>2, <3>1, <3>2 DEF Lives
      <3>3. CASE row.status = "DELETED"
        <4>1. Abstract!Remove(f)
          BY <1>2, <2>3, <3>1, <3>3 DEF Abstract!Remove, Lives
        <4> QED BY <4>1 DEF Abstract!Next
      <3>4. CASE files[f].status = "PENDING" /\ row.status \in {"READY", "INFECTED"}
        <4>1. old # Nil /\ old.status = "PENDING"
          BY <2>2, <3>4
        <4>2. Abstract!Judge(f, row.status)
          BY <1>2, <3>1, <4>1 DEF Abstract!Judge, Lives
        <4> QED BY <3>4, <4>2 DEF Abstract!Next
      <3>5. CASE files[f].status = "READY" /\ row.status = "INFECTED"
        <4>1. old # Nil /\ old.status = "READY"
          BY <2>2, <3>5
        <4>2. Abstract!Condemn(f)
          BY <1>2, <3>1, <3>5, <4>1 DEF Abstract!Condemn, Lives
        <4> QED BY <4>2 DEF Abstract!Next
      <3> QED BY <2>4, <3>2, <3>3, <3>4, <3>5
    <2>5. CASE /\ Len(row.versions) = Len(files[f].versions) + 1
               /\ row.slot = files[f].slot
               /\ Judged(files[f]) /\ row.status = "PENDING"
      <3>1. PICK c \in Contents : h = Append(k, c)
        BY <2>1, <2>5, LongerHistory DEF h, k
      <3>2. new = [old EXCEPT !.status = "PENDING", !.history = Append(@, c)]
        <4> DEFINE longer == Append(old.history, c)
        <4>1. new = [status |-> "PENDING", slot |-> old.slot, history |-> longer]
          BY <1>1, <2>2, <2>5, <3>1
        <4> HIDE DEF longer
        <4>2. new = [old EXCEPT !.status = "PENDING", !.history = longer]
          <5> DEFINE mid == [old EXCEPT !.status = "PENDING"]
          <5>1. mid = [status |-> "PENDING", slot |-> old.slot, history |-> old.history]
            BY <2>2
          <5> HIDE DEF mid
          <5>2. new = [mid EXCEPT !.history = longer]
            BY <4>1, <5>1
          <5> QED BY <5>2 DEF mid
        <4> QED BY <4>2 DEF longer
      <3>3. Abstract!Judged(f)
        BY <1>2, <2>2, <2>5 DEF Abstract!Judged, Judged, Lives
      <3>4. Abstract!Replace(f, c)
        BY <1>2, <3>2, <3>3 DEF Abstract!Replace, Lives
      <3> QED BY <3>4 DEF Abstract!Next
    <2>6. CASE /\ Len(row.versions) = Len(files[f].versions)
               /\ Judged(files[f]) /\ row.status = files[f].status
      <3>1. new = [old EXCEPT !.slot = row.slot]
        BY <1>1, <2>1, <2>2, <2>6, SameHistory DEF h, k
      <3>2. CASE row.slot = files[f].slot
        BY <1>2, <2>2, <3>1, <3>2 DEF Lives
      <3>3. CASE row.slot # files[f].slot
        <4>1. Abstract!Judged(f)
          BY <1>2, <2>2, <2>6 DEF Abstract!Judged, Judged, Lives
        <4>2. Abstract!Free(row.slot)
          BY <1>2, <1>4, <2>2, <3>3 DEF Abstract!Free, Lives
        <4>3. Abstract!Move(f, row.slot)
          BY <1>2, <3>1, <4>1, <4>2 DEF Abstract!Move, Lives
        <4> QED BY <1>1, <4>3 DEF Abstract!Next
      <3> QED BY <3>2, <3>3
    <2> QED BY <2>1, <2>4, <2>5, <2>6 DEF Evolves
  <1> QED BY <1>5, <1>6

(* Every shape of a step is one: the slot it takes is free by the invariant. *)
LEMMA RowStepIsLifecycleStep ==
    ASSUME RowInv, RowStep
    PROVE  Abstract!Next \/ Lives' = Lives
  <1>1. CASE files' = files
    BY <1>1 DEF Lives
  <1>2. ASSUME NEW f \in Files, NEW row \in GoodRow, Writes(f, row)
        PROVE  Abstract!Next \/ Lives' = Lives
    <2>1. /\ files[f] # Nil /\ Legal(files[f], row) /\ Live(files[f])
          /\ files' = [files EXCEPT ![f] = row]
      BY <1>2 DEF Writes, Advances, Legal, Live
    <2>2. SlotFree(row.slot, f)
      BY <1>2, <2>1 DEF Writes, RowInv, OneLiveFilePerSlot, SlotFree
    <2> QED BY <2>1, <2>2, NewRowIsLifecycleStep
  <1>3. CASE Lands
    BY <1>3, NewRowIsLifecycleStep DEF Lands, RowInv, TxOK, TxSlotFree
  <1> QED BY <1>1, <1>2, <1>3 DEF RowStep, StaysPut, Opens

(* Seen from outside, the rows of the files behave as FileLifecycle says:    *)
(* whatever transactions, scans, jobs and failures interleave, every commit  *)
(* is one legal step of one file's life.                                     *)
THEOREM Refinement == Spec => Lifecycle
  <1>1. Init => Abstract!Init
    BY DEF Init, Abstract!Init, LifeOf
  <1>2. Inv /\ [Next]_vars => [Abstract!Next]_Lives
    BY NextStep, RowStepIsLifecycleStep DEF Inv
  <1>3. Inv /\ [Next]_vars => [Abstract!Next]_([f \in Files |-> LifeOf(files[f])])
    BY <1>2 DEF Lives
  <1> QED BY <1>1, <1>3, Invariance, PTL DEF Spec, Lifecycle, Abstract!Spec
=============================================================================
