------------------------- MODULE FileStorageProofs -------------------------
(* Theorems about the rows of FileStorage, for every value of its constants. *)
EXTENDS FileStorage, TLAPS

-----------------------------------------------------------------------------
(* The entity's methods *)

(* A row the code may hold: typed, with a version, and with the status its  *)
(* latest scan calls for.                                                   *)
Consistent(row) ==
    /\ row.versions # <<>>
    /\ row.status = "PENDING" => Latest(row).scan \in {"NONE", "ERROR"}
    /\ row.status = "READY" => Latest(row).scan \in {"CLEAN", "ERROR"}
    /\ row.status = "INFECTED" => Latest(row).scan = "INFECTED"
GoodRow == {row \in Row : Consistent(row)}

(* How status, slot and number of versions of a row may change together. *)
Evolves(old, new) ==
    \/ /\ Len(new.versions) = Len(old.versions) /\ new.slot = old.slot
       /\ \/ new.status \in {old.status, "DELETED"}
          \/ old.status = "PENDING" /\ new.status \in {"READY", "INFECTED"}
          \/ old.status = "READY" /\ new.status = "INFECTED"
    \/ /\ Len(new.versions) = Len(old.versions) + 1 /\ new.slot = old.slot
       /\ Judged(old) /\ new.status = "PENDING"
    \/ /\ Len(new.versions) = Len(old.versions)
       /\ Judged(old) /\ new.status = old.status

(* What one write may do to a row that exists. *)
Legal(old, new) ==
    /\ old.status # "DELETED"
    /\ new.slot \in Slots
    /\ Evolves(old, new)
    /\ Len(old.versions) <= Len(new.versions)
    /\ \A i \in 1..Len(old.versions) :
          /\ new.versions[i].key = old.versions[i].key
          /\ new.versions[i].content = old.versions[i].content
    /\ \/ Len(new.versions) # Len(old.versions)
       \/ Latest(old).scan = "NONE"
       \/ Latest(new).scan = Latest(old).scan
       \/ old.status = "READY"

(* An upload's first row is typed and waits for its scan. *)
LEMMA NewFileGood ==
    ASSUME NEW slot \in Slots, NEW v \in Version, v.scan = "NONE"
    PROVE  NewFile(slot, v) \in GoodRow
  <1> DEFINE new == NewFile(slot, v)
  <1>1. <<v>> \in Seq(Version) /\ <<v>> # <<>> /\ Len(<<v>>) = 1 /\ <<v>>[1] = v
    OBVIOUS
  <1>2. /\ new.versions = <<v>> /\ new.status = "PENDING"
        /\ new.slot = slot /\ new.lock = 0
    BY DEF NewFile
  <1>3. new \in Row
    <2> HIDE DEF new
    <2> DEFINE s == <<v>>
    <2>1. s \in Seq(Version)
      BY <1>1
    <2>2. new = [status |-> "PENDING", slot |-> slot, versions |-> s, lock |-> 0]
      BY DEF NewFile, new
    <2> HIDE DEF s
    <2> QED BY <2>1, <2>2 DEF Row, Statuses
  <1> QED BY <1>1, <1>2, <1>3 DEF GoodRow, Consistent, Latest

(* Appending a version keeps the history and waits for a scan. *)
LEMMA AddVersionGood ==
    ASSUME NEW row \in GoodRow, NEW v \in Version, v.scan = "NONE", Judged(row)
    PROVE  AddVersion(row, v) \in GoodRow /\ Legal(row, AddVersion(row, v))
  <1> DEFINE new == AddVersion(row, v)
  <1>1. row \in Row /\ row.versions \in Seq(Version)
    BY DEF GoodRow, Row
  <1>2. /\ new.versions = Append(row.versions, v)
        /\ new.status = "PENDING" /\ new.slot = row.slot /\ new.lock = row.lock
    BY <1>1 DEF AddVersion, Row
  <1>3. new \in Row
    <2> DEFINE s == Append(row.versions, v)
    <2>1. s \in Seq(Version)
      BY <1>1
    <2>2. new = [row EXCEPT !.status = "PENDING", !.versions = s]
      BY <1>1 DEF AddVersion, Row
    <2> HIDE DEF s, new
    <2> QED BY <1>1, <2>1, <2>2 DEF Row, Statuses
  <1>4. /\ Len(new.versions) = Len(row.versions) + 1
        /\ new.versions[Len(new.versions)] = v
        /\ \A i \in 1..Len(row.versions) : new.versions[i] = row.versions[i]
    BY <1>1, <1>2
  <1>5. new \in GoodRow
    BY <1>1, <1>2, <1>3, <1>4 DEF GoodRow, Consistent, Latest
  <1>6. Legal(row, new)
    BY <1>1, <1>2, <1>4 DEF Legal, Evolves, Judged, Row
  <1> QED BY <1>5, <1>6

(* Adding a scan changes the scan of the latest version and nothing else. *)
LEMMA AddScanEffect ==
    ASSUME NEW row \in GoodRow, NEW verdict \in AllVerdicts
    PROVE  /\ AddScan(row, verdict) \in Row
           /\ AddScan(row, verdict).status = row.status
           /\ AddScan(row, verdict).slot = row.slot
           /\ AddScan(row, verdict).lock = row.lock
           /\ AddScan(row, verdict).versions # <<>>
           /\ Len(AddScan(row, verdict).versions) = Len(row.versions)
           /\ Latest(AddScan(row, verdict)).scan = verdict
           /\ \A i \in 1..Len(row.versions) :
                /\ AddScan(row, verdict).versions[i].key = row.versions[i].key
                /\ AddScan(row, verdict).versions[i].content = row.versions[i].content
  <1> DEFINE vs == row.versions
             n == Len(vs)
             ws == [vs EXCEPT ![n].scan = verdict]
             new == AddScan(row, verdict)
  <1>1. row \in Row /\ vs \in Seq(Version) /\ vs # <<>> /\ n \in Nat /\ n \in 1..n
    BY DEF GoodRow, Row, Consistent
  <1>2. /\ new.versions = ws /\ new.status = row.status
        /\ new.slot = row.slot /\ new.lock = row.lock
    BY <1>1 DEF AddScan, Row
  <1>3. \A i \in 1..n : vs[i] \in Version
    BY <1>1
  <1>4. [vs[n] EXCEPT !.scan = verdict] \in Version
    BY <1>1, <1>3 DEF Version, Scans, AllVerdicts
  <1>5. ws \in Seq(Version) /\ Len(ws) = n
    BY <1>1, <1>3, <1>4
  <1>6. \A i \in 1..n : ws[i].key = vs[i].key /\ ws[i].content = vs[i].content
    BY <1>1, <1>3 DEF Version
  <1>7. ws[n].scan = verdict
    BY <1>1, <1>3 DEF Version
  <1>8. new \in Row
    BY <1>1, <1>5 DEF AddScan, Row
  <1> HIDE DEF ws, vs, new, n
  <1>9. ws # <<>>
    BY <1>1, <1>5
  <1> QED BY <1>1, <1>2, <1>5, <1>6, <1>7, <1>8, <1>9 DEF Latest, new, vs, n

(* The scan handler's write: a PENDING, unscanned row gets its first verdict. *)
LEMMA ScanResultGood ==
    ASSUME NEW row \in GoodRow, NEW verdict \in AllVerdicts,
           row.status = "PENDING", Latest(row).scan = "NONE"
    PROVE  /\ ScanResult(row, verdict) \in GoodRow
           /\ Legal(row, ScanResult(row, verdict))
           /\ ScanResult(row, verdict).slot = row.slot
  <1> DEFINE mid == AddScan(row, verdict)
             new == ScanResult(row, verdict)
             status == StatusAfterScan(verdict)
  <1>1. row \in Row /\ mid \in Row
    BY AddScanEffect DEF GoodRow
  <1>2. /\ verdict = "CLEAN" => status = "READY"
        /\ verdict = "INFECTED" => status = "INFECTED"
        /\ verdict = "ERROR" => status = "PENDING"
        /\ status \in Statuses
    BY DEF StatusAfterScan, AllVerdicts, Statuses
  <1>3. /\ new \in Row
        /\ new.status = status /\ new.slot = mid.slot /\ new.versions = mid.versions
    <2> HIDE DEF mid, status
    <2>1. new = [mid EXCEPT !.status = status]
      BY DEF ScanResult, mid, status
    <2> QED BY <1>1, <1>2, <2>1 DEF Row
  <1>4. /\ new.versions # <<>> /\ Len(new.versions) = Len(row.versions)
        /\ Latest(new).scan = verdict /\ new.slot = row.slot
        /\ \A i \in 1..Len(row.versions) :
              /\ new.versions[i].key = row.versions[i].key
              /\ new.versions[i].content = row.versions[i].content
    BY <1>3, AddScanEffect DEF Latest
  <1>5. new \in GoodRow
    <2> HIDE DEF new, status
    <2> QED BY <1>2, <1>3, <1>4 DEF GoodRow, Consistent, AllVerdicts
  <1>6. Legal(row, new)
    <2> HIDE DEF new, status
    <2> QED BY <1>1, <1>2, <1>3, <1>4 DEF Legal, Evolves, Row, AllVerdicts
  <1> QED BY <1>4, <1>5, <1>6

(* The rescan's write: a READY row gets another verdict. *)
LEMMA RescanResultGood ==
    ASSUME NEW row \in GoodRow, NEW verdict \in AllVerdicts, row.status = "READY"
    PROVE  /\ RescanResult(row, verdict) \in GoodRow
           /\ Legal(row, RescanResult(row, verdict))
           /\ RescanResult(row, verdict).slot = row.slot
  <1> DEFINE mid == AddScan(row, verdict)
             new == RescanResult(row, verdict)
             status == IF verdict = "INFECTED" THEN "INFECTED" ELSE "READY"
  <1>1. row \in Row /\ mid \in Row /\ mid.status = "READY"
    BY AddScanEffect DEF GoodRow
  <1>2. /\ new \in Row
        /\ new.status = status /\ new.slot = mid.slot /\ new.versions = mid.versions
    <2> HIDE DEF mid
    <2>1. new = [mid EXCEPT !.status = status]
      BY <1>1 DEF RescanResult, mid
    <2> QED BY <1>1, <2>1 DEF Row, Statuses
  <1>3. /\ new.versions # <<>> /\ Len(new.versions) = Len(row.versions)
        /\ Latest(new).scan = verdict /\ new.slot = row.slot
        /\ \A i \in 1..Len(row.versions) :
              /\ new.versions[i].key = row.versions[i].key
              /\ new.versions[i].content = row.versions[i].content
    BY <1>2, AddScanEffect DEF Latest
  <1>4. new \in GoodRow
    <2> HIDE DEF new
    <2> QED BY <1>2, <1>3 DEF GoodRow, Consistent, AllVerdicts
  <1>5. Legal(row, new)
    <2> HIDE DEF new
    <2> QED BY <1>1, <1>2, <1>3 DEF Legal, Evolves, Row
  <1> QED BY <1>3, <1>4, <1>5

(* Deletion, by the owner or as an orphan, touches the status alone. *)
LEMMA MarkDeletedGood ==
    ASSUME NEW row \in GoodRow, row.status # "DELETED"
    PROVE  /\ MarkDeleted(row) \in GoodRow
           /\ Legal(row, MarkDeleted(row))
           /\ MarkDeleted(row).status = "DELETED"
           /\ MarkDeleted(row).slot = row.slot
  <1> DEFINE new == MarkDeleted(row)
  <1>1. row \in Row /\ row.versions \in Seq(Version) /\ Len(row.versions) \in Nat
    BY DEF GoodRow, Row
  <1>2. /\ new \in Row /\ new.status = "DELETED" /\ new.slot = row.slot
        /\ new.versions = row.versions
    BY <1>1 DEF MarkDeleted, Row, Statuses
  <1> HIDE DEF new
  <1> QED BY <1>1, <1>2 DEF GoodRow, Consistent, Latest, Legal, Evolves, Judged, Row, new

(* A change of resource touches the slot alone. *)
LEMMA MovedGood ==
    ASSUME NEW row \in GoodRow, NEW slot \in Slots, Judged(row)
    PROVE  /\ [row EXCEPT !.slot = slot] \in GoodRow
           /\ Legal(row, [row EXCEPT !.slot = slot])
           /\ [row EXCEPT !.slot = slot].slot = slot
  <1> DEFINE new == [row EXCEPT !.slot = slot]
  <1>1. row \in Row /\ row.versions \in Seq(Version) /\ Len(row.versions) \in Nat
    BY DEF GoodRow, Row
  <1>2. /\ new \in Row /\ new.status = row.status /\ new.slot = slot
        /\ new.versions = row.versions
    BY <1>1 DEF Row
  <1> HIDE DEF new
  <1> QED BY <1>1, <1>2 DEF GoodRow, Consistent, Latest, Legal, Evolves, Judged, Row, new

(* A write that leaves the row as it was read (a rename). *)
LEMMA SameGood ==
    ASSUME NEW row \in GoodRow, row.status # "DELETED"
    PROVE  Legal(row, row)
  <1>1. row \in Row /\ row.versions \in Seq(Version) /\ Len(row.versions) \in Nat
    BY DEF GoodRow, Row
  <1> QED BY <1>1 DEF Legal, Evolves, Row

(* The repository raises the lock of what it writes. *)
LEMMA SavedGood ==
    ASSUME NEW p, NEW f, NEW new \in GoodRow, seen[p][f] \in GoodRow,
           Legal(seen[p][f], new)
    PROVE  /\ Saved(p, f, new) \in GoodRow
           /\ Legal(seen[p][f], Saved(p, f, new))
           /\ Saved(p, f, new).lock = seen[p][f].lock + 1
           /\ Saved(p, f, new).status = new.status
           /\ Saved(p, f, new).slot = new.slot
  <1> DEFINE old == seen[p][f]
             saved == Saved(p, f, new)
  <1>1. old \in Row /\ new \in Row /\ old.lock + 1 \in Nat
    BY DEF GoodRow, Row
  <1>2. /\ saved \in Row /\ saved.status = new.status /\ saved.slot = new.slot
        /\ saved.versions = new.versions /\ saved.lock = old.lock + 1
    BY <1>1 DEF Saved, Row
  <1> HIDE DEF old, saved
  <1>3. saved \in GoodRow
    BY <1>2 DEF GoodRow, Consistent, Latest
  <1>4. Legal(old, saved)
    BY <1>2 DEF Legal, Evolves, Latest, old
  <1> QED BY <1>2, <1>3, <1>4 DEF old, saved

-----------------------------------------------------------------------------
(* The invariant.  Its first half is about the rows, wherever a copy of one *)
(* is; its second half is what each process knows where it stands.          *)

FilesOK == files \in [Files -> GoodRow \cup {Nil}]
SeenOK == seen \in [Procs -> [Files -> GoodRow \cup {Nil}]]

(* The first row of a file. *)
Newborn(row) == row.status = "PENDING" /\ Len(row.versions) = 1

(* The uncommitted row is the next state of the committed one. *)
TxOK == tx # Nil =>
    /\ tx \in [client : Clients, file : Files, row : GoodRow]
    /\ files[tx.file] # Nil =>
          tx.row.lock = files[tx.file].lock + 1 /\ Legal(files[tx.file], tx.row)
    /\ files[tx.file] = Nil => Newborn(tx.row)
TxSlotFree == tx # Nil => SlotFree(tx.row.slot, tx.file)

RowInv == FilesOK /\ SeenOK /\ TxOK /\ SnapshotCoherent /\ TxSlotFree /\ OneLiveFilePerSlot

ClientKnows(p) ==
    /\ req[p].op \in {"upload", "replace"} =>
          req[p].file \in Files /\ req[p].version \in Version /\ req[p].version.scan = "NONE"
    /\ req[p].op = "upload" => req[p].slot \in Slots
    /\ req[p].op \in {"replace", "delete", "rename", "changeResource"} =>
          req[p].file \in Files /\ Judged(seen[p][req[p].file])
    /\ req[p].op = "changeResource" => req[p].slot \in Slots
    /\ pc[p] = "commit" => tx # Nil /\ tx.client = p

WorkerKnows(p) ==
    /\ pc[p] \in {"find", "download", "write"} => req[p].job \in JobIds
    /\ pc[p] \in {"download", "write"} =>
          LET row == seen[p][req[p].job[1]]
          IN  row # Nil /\ row.status = "PENDING" /\ Latest(row).scan = "NONE"
    /\ pc[p] = "write" => req[p].verdict \in AllVerdicts

JobKnows(p) ==
    /\ pc[p] = "work" =>
          req[p].batch \subseteq Files /\ \A f \in req[p].batch : Live(seen[p][f])
    /\ p = Rescanner /\ pc[p] \in {"download", "write"} =>
          /\ req[p].batch \subseteq Files
          /\ \A f \in req[p].batch : seen[p][f] # Nil /\ seen[p][f].status = "READY"
    /\ p = Rescanner /\ pc[p] = "write" =>
          req[p].file \in req[p].batch /\ req[p].verdict \in AllVerdicts

LocalInv ==
    /\ DOMAIN req = Procs /\ DOMAIN pc = Procs
    /\ \A p \in Clients : ClientKnows(p)
    /\ \A p \in ScanWorkers : WorkerKnows(p)
    /\ \A p \in Jobs : JobKnows(p)

Inv == RowInv /\ LocalInv

-----------------------------------------------------------------------------
(* The shapes of a step, as far as rows go. *)

Advances(old, new) == new.lock = old.lock + 1 /\ Legal(old, new)

(* A snapshot is kept, dropped or taken of the committed row. *)
Looks == /\ seen' \in [Procs -> [Files -> GoodRow \cup {Nil}]]
         /\ \A p \in Procs, f \in Files : seen'[p][f] \in {seen[p][f], Nil, files[f]}
Forgets == /\ seen' \in [Procs -> [Files -> GoodRow \cup {Nil}]]
           /\ \A p \in Procs, f \in Files : seen'[p][f] \in {seen[p][f], Nil}

StaysPut == files' = files /\ tx' \in {tx, Nil} /\ Looks
Opens(c, f, row) ==
    /\ tx = Nil /\ files' = files /\ Looks
    /\ tx' = [client |-> c, file |-> f, row |-> row]
    /\ c \in Clients /\ f \in Files /\ row \in GoodRow
    /\ \/ files[f] = Nil /\ SlotFree(row.slot, f) /\ Newborn(row)
       \/ files[f] # Nil /\ Advances(files[f], row) /\ row.slot = files[f].slot
Writes(f, row) ==
    /\ tx' = tx /\ files' = [files EXCEPT ![f] = row] /\ Forgets
    /\ f \in Files /\ RowUnlocked(f) /\ row \in GoodRow
    /\ files[f] # Nil /\ Advances(files[f], row)
    /\ \/ row.slot = files[f].slot
       \/ SlotFree(row.slot, f) /\ SlotUnlocked(row.slot)
Lands ==
    /\ tx # Nil /\ tx' = Nil /\ files' = [files EXCEPT ![tx.file] = tx.row] /\ Forgets

RowStep ==
    \/ StaysPut
    \/ \E c \in Clients, f \in Files, row \in GoodRow : Opens(c, f, row)
    \/ \E f \in Files, row \in GoodRow : Writes(f, row)
    \/ Lands

LEMMA GoodRowIsNotNil == \A row \in GoodRow : row # Nil /\ row.lock \in Nat /\ row.slot \in Slots
  BY NilIsFresh DEF GoodRow, Row

LEMMA StaysPutKeepsRowInv ==
    ASSUME RowInv, StaysPut
    PROVE  RowInv'
  <1>1. FilesOK' /\ SeenOK' /\ OneLiveFilePerSlot'
    BY DEF RowInv, StaysPut, Looks, FilesOK, SeenOK, OneLiveFilePerSlot
  <1>2. TxOK' /\ TxSlotFree'
    BY DEF RowInv, StaysPut, TxOK, TxSlotFree, SlotFree
  <1>3. SnapshotCoherent'
    <2> SUFFICES ASSUME NEW p \in Procs, NEW f \in Files, seen'[p][f] # Nil
                 PROVE  /\ files[f] # Nil
                        /\ seen'[p][f].lock <= files[f].lock
                        /\ seen'[p][f].lock = files[f].lock => seen'[p][f] = files[f]
      BY DEF SnapshotCoherent, StaysPut
    <2>1. CASE seen'[p][f] = seen[p][f]
      BY <2>1 DEF RowInv, SnapshotCoherent
    <2>2. CASE seen'[p][f] = files[f]
      BY <2>2, GoodRowIsNotNil DEF RowInv, FilesOK
    <2> QED BY <2>1, <2>2 DEF StaysPut, Looks
  <1> QED BY <1>1, <1>2, <1>3 DEF RowInv

LEMMA OpensKeepsRowInv ==
    ASSUME RowInv, NEW c \in Clients, NEW f \in Files, NEW row \in GoodRow, Opens(c, f, row)
    PROVE  RowInv'
  <1> DEFINE t == [client |-> c, file |-> f, row |-> row]
  <1>1. /\ t.client = c /\ t.file = f /\ t.row = row
        /\ t \in [client : Clients, file : Files, row : GoodRow]
    OBVIOUS
  <1>2. tx' = t /\ files' = files /\ tx = Nil /\ Looks
    BY DEF Opens
  <1> HIDE DEF t
  <1>3. /\ FilesOK' /\ SeenOK' /\ OneLiveFilePerSlot'
    BY <1>2 DEF RowInv, Looks, FilesOK, SeenOK, OneLiveFilePerSlot
  <1>4. TxOK'
    BY <1>1, <1>2 DEF Opens, TxOK, Advances
  <1>5. TxSlotFree'
    <2>1. CASE files[f] = Nil
      BY <1>1, <1>2, <2>1 DEF Opens, TxSlotFree, SlotFree
    <2>2. CASE files[f] # Nil
      <3>1. Live(files[f]) /\ row.slot = files[f].slot
        BY <2>2 DEF Opens, Advances, Legal, Live
      <3> QED BY <1>1, <1>2, <3>1 DEF RowInv, OneLiveFilePerSlot, TxSlotFree, SlotFree
    <2> QED BY <2>1, <2>2
  <1>6. SnapshotCoherent'
    <2> SUFFICES ASSUME NEW p \in Procs, NEW g \in Files, seen'[p][g] # Nil
                 PROVE  /\ files[g] # Nil
                        /\ seen'[p][g].lock <= files[g].lock
                        /\ seen'[p][g].lock = files[g].lock => seen'[p][g] = files[g]
      BY <1>2 DEF SnapshotCoherent
    <2>1. CASE seen'[p][g] = seen[p][g]
      BY <2>1 DEF RowInv, SnapshotCoherent
    <2>2. CASE seen'[p][g] = files[g]
      BY <2>2, GoodRowIsNotNil DEF RowInv, FilesOK
    <2> QED BY <1>2, <2>1, <2>2 DEF Looks
  <1> QED BY <1>3, <1>4, <1>5, <1>6 DEF RowInv

(* A row replaces the committed one: snapshots of the old row are now stale, *)
(* and the lock tells.                                                       *)
LEMMA NewRowKeepsSnapshots ==
    ASSUME RowInv, Forgets, NEW f \in Files, NEW row \in GoodRow,
           files' = [files EXCEPT ![f] = row],
           files[f] # Nil => row.lock = files[f].lock + 1
    PROVE  FilesOK' /\ SeenOK' /\ SnapshotCoherent'
  <1>1. FilesOK' /\ SeenOK'
    BY DEF RowInv, Forgets, FilesOK, SeenOK
  <1>2. SnapshotCoherent'
    <2> SUFFICES ASSUME NEW p \in Procs, NEW g \in Files, seen'[p][g] # Nil
                 PROVE  /\ files'[g] # Nil
                        /\ seen'[p][g].lock <= files'[g].lock
                        /\ seen'[p][g].lock = files'[g].lock => seen'[p][g] = files'[g]
      BY DEF SnapshotCoherent
    <2>1. /\ seen'[p][g] = seen[p][g] /\ seen[p][g] \in GoodRow
          /\ files[g] # Nil /\ files[g] \in GoodRow
          /\ seen[p][g].lock <= files[g].lock
          /\ seen[p][g].lock = files[g].lock => seen[p][g] = files[g]
      BY DEF RowInv, Forgets, SnapshotCoherent, SeenOK, FilesOK
    <2>2. CASE g # f
      <3>1. files'[g] = files[g]
        BY <2>2 DEF RowInv, FilesOK
      <3> QED BY <2>1, <3>1
    <2>3. CASE g = f
      <3>1. files'[g] = row /\ row # Nil /\ row.lock = files[g].lock + 1
        BY <2>1, <2>3, GoodRowIsNotNil DEF RowInv, FilesOK
      <3> QED BY <2>1, <3>1, GoodRowIsNotNil
    <2> QED BY <2>2, <2>3
  <1> QED BY <1>1, <1>2

LEMMA WritesKeepsRowInv ==
    ASSUME RowInv, NEW f \in Files, NEW row \in GoodRow, Writes(f, row)
    PROVE  RowInv'
  <1>1. FilesOK' /\ SeenOK' /\ SnapshotCoherent'
    BY NewRowKeepsSnapshots DEF Writes, Advances
  <1>2. /\ tx' = tx /\ files'[f] = row
        /\ \A g \in Files : g # f => files'[g] = files[g]
        /\ Live(files[f]) /\ row # Nil
    BY GoodRowIsNotNil DEF Writes, RowInv, FilesOK, Advances, Legal, Live
  <1>3. TxOK'
    <2> SUFFICES ASSUME tx # Nil
                 PROVE  TxOK'
      BY <1>2 DEF TxOK
    <2>1. tx.file \in Files /\ tx.file # f
      BY DEF RowInv, TxOK, Writes, RowUnlocked
    <2>2. files'[tx.file] = files[tx.file]
      BY <1>2, <2>1
    <2> QED BY <1>2, <2>2 DEF RowInv, TxOK
  <1>4. OneLiveFilePerSlot'
    <2> SUFFICES ASSUME NEW g \in Files, NEW h \in Files, g # h,
                        Live(files'[g]), Live(files'[h])
                 PROVE  files'[g].slot # files'[h].slot
      BY DEF OneLiveFilePerSlot, Live
    <2>1. CASE g # f /\ h # f
      BY <1>2, <2>1 DEF RowInv, OneLiveFilePerSlot
    <2>2. CASE g = f
      BY <1>2, <2>2 DEF RowInv, OneLiveFilePerSlot, Writes, SlotFree
    <2>3. CASE h = f
      BY <1>2, <2>3 DEF RowInv, OneLiveFilePerSlot, Writes, SlotFree
    <2> QED BY <2>1, <2>2, <2>3
  <1>5. TxSlotFree'
    <2> SUFFICES ASSUME tx # Nil, NEW g \in Files \ {tx.file}, Live(files'[g])
                 PROVE  files'[g].slot # tx.row.slot
      BY <1>2 DEF TxSlotFree, SlotFree, Live
    <2>1. CASE g # f
      BY <1>2, <2>1 DEF RowInv, TxSlotFree, SlotFree
    <2>2. CASE g = f
      BY <1>2, <2>2 DEF RowInv, TxSlotFree, SlotFree, Writes, SlotUnlocked
    <2> QED BY <2>1, <2>2
  <1> QED BY <1>1, <1>3, <1>4, <1>5 DEF RowInv

LEMMA LandsKeepsRowInv ==
    ASSUME RowInv, Lands
    PROVE  RowInv'
  <1>1. /\ tx # Nil /\ tx.file \in Files /\ tx.row \in GoodRow
        /\ files' = [files EXCEPT ![tx.file] = tx.row] /\ tx' = Nil /\ Forgets
    BY DEF RowInv, Lands, TxOK
  <1>2. FilesOK' /\ SeenOK' /\ SnapshotCoherent'
    BY <1>1, NewRowKeepsSnapshots DEF RowInv, TxOK
  <1>3. TxOK' /\ TxSlotFree'
    BY <1>1 DEF TxOK, TxSlotFree
  <1>4. OneLiveFilePerSlot'
    <2> SUFFICES ASSUME NEW g \in Files, NEW h \in Files, g # h,
                        Live(files'[g]), Live(files'[h])
                 PROVE  files'[g].slot # files'[h].slot
      BY DEF OneLiveFilePerSlot, Live
    <2>1. /\ files'[tx.file] = tx.row
          /\ \A k \in Files : k # tx.file => files'[k] = files[k]
      BY <1>1 DEF RowInv, FilesOK
    <2>2. CASE g # tx.file /\ h # tx.file
      BY <2>1, <2>2 DEF RowInv, OneLiveFilePerSlot
    <2>3. CASE g = tx.file
      BY <1>1, <2>1, <2>3 DEF RowInv, TxSlotFree, SlotFree
    <2>4. CASE h = tx.file
      BY <1>1, <2>1, <2>4 DEF RowInv, TxSlotFree, SlotFree
    <2> QED BY <2>2, <2>3, <2>4
  <1> QED BY <1>2, <1>3, <1>4 DEF RowInv

LEMMA RowStepKeepsRowInv == RowInv /\ RowStep => RowInv'
  BY StaysPutKeepsRowInv, OpensKeepsRowInv, WritesKeepsRowInv, LandsKeepsRowInv DEF RowStep

(* Whatever the step, a row that existed is as it was or legally changed. *)
LEMMA RowStepIsLegal ==
    ASSUME RowInv, RowStep, NEW f \in Files, files[f] # Nil
    PROVE  files'[f] = files[f] \/ (files'[f] # Nil /\ Legal(files[f], files'[f]))
  <1>1. CASE StaysPut
    BY <1>1 DEF StaysPut
  <1>2. ASSUME NEW c \in Clients, NEW g \in Files, NEW row \in GoodRow, Opens(c, g, row)
        PROVE  files'[f] = files[f]
    BY <1>2 DEF Opens
  <1>3. ASSUME NEW g \in Files, NEW row \in GoodRow, Writes(g, row)
        PROVE  files'[f] = files[f] \/ (files'[f] # Nil /\ Legal(files[f], files'[f]))
    BY <1>3, GoodRowIsNotNil DEF Writes, Advances, RowInv, FilesOK
  <1>4. CASE Lands
    BY <1>4, GoodRowIsNotNil DEF Lands, RowInv, FilesOK, TxOK
  <1> QED BY <1>1, <1>2, <1>3, <1>4 DEF RowStep

-----------------------------------------------------------------------------
(* The step of one process leaves the others' locals alone. *)

Knows(p) == /\ p \in Clients => ClientKnows(p)
            /\ p \in ScanWorkers => WorkerKnows(p)
            /\ p \in Jobs => JobKnows(p)

OnlyMoves(p) ==
    /\ DOMAIN pc' = Procs /\ DOMAIN req' = Procs
    /\ \A q \in Procs \ {p} : pc'[q] = pc[q] /\ req'[q] = req[q] /\ seen'[q] = seen[q]
    /\ \A c \in Clients \ {p} : pc[c] = "commit" => tx' = tx

LEMMA OthersKnow ==
    ASSUME Inv, NEW p \in Procs, OnlyMoves(p), Knows(p)'
    PROVE  LocalInv'
  <1>1. \A c \in Clients : ClientKnows(c)'
    <2> SUFFICES ASSUME NEW c \in Clients PROVE ClientKnows(c)'
      OBVIOUS
    <2>1. CASE c = p
      BY <2>1 DEF Knows
    <2>2. CASE c # p
      BY <2>2 DEF Inv, LocalInv, ClientKnows, OnlyMoves, Procs
    <2> QED BY <2>1, <2>2
  <1>2. \A w \in ScanWorkers : WorkerKnows(w)'
    <2> SUFFICES ASSUME NEW w \in ScanWorkers PROVE WorkerKnows(w)'
      OBVIOUS
    <2>1. CASE w = p
      BY <2>1 DEF Knows
    <2>2. CASE w # p
      BY <2>2 DEF Inv, LocalInv, WorkerKnows, OnlyMoves, Procs
    <2> QED BY <2>1, <2>2
  <1>3. \A r \in Jobs : JobKnows(r)'
    <2> SUFFICES ASSUME NEW r \in Jobs PROVE JobKnows(r)'
      OBVIOUS
    <2>1. CASE r = p
      BY <2>1 DEF Knows
    <2>2. CASE r # p
      BY <2>2 DEF Inv, LocalInv, JobKnows, OnlyMoves, Procs
    <2> QED BY <2>1, <2>2
  <1> QED BY <1>1, <1>2, <1>3 DEF LocalInv, OnlyMoves

LEMMA NilIsNoOp == Nil \notin AllOps
  BY NilIsFresh

(* A process that returns or throws keeps no locals. *)
LEMMA FinishForgets ==
    ASSUME Inv, NEW p \in Procs, Finish(p),
           \A c \in Clients \ {p} : pc[c] = "commit" => tx' = tx
    PROVE  Looks /\ Forgets /\ LocalInv'
  <1>1. /\ pc'[p] = "idle" /\ req'[p] = NoRequest /\ seen'[p] = NothingSeen
        /\ OnlyMoves(p)
    BY DEF Finish, Goto, OnlyMoves, Inv, LocalInv, RowInv, SeenOK
  <1>2. Looks /\ Forgets
    BY DEF Finish, Inv, RowInv, SeenOK, Looks, Forgets, NothingSeen
  <1>3. req'[p].op \notin AllOps
    BY <1>1, NilIsNoOp DEF NoRequest
  <1>4. Knows(p)'
    BY <1>1, <1>3 DEF Knows, ClientKnows, WorkerKnows, JobKnows, AllOps
  <1> QED BY <1>1, <1>2, <1>4, OthersKnow

LEMMA UnchangedForgets == Inv /\ seen' = seen => Looks /\ Forgets
  BY DEF Inv, RowInv, SeenOK, Looks, Forgets

LEMMA ReadLooks ==
    ASSUME Inv, NEW p \in Procs, NEW f \in Files, Read(p, f)
    PROVE  /\ Looks /\ seen'[p][f] = files[f]
           /\ \A q \in Procs \ {p} : seen'[q] = seen[q]
  BY DEF Read, Inv, RowInv, SeenOK, FilesOK, Looks

(* A step that commits nothing and leaves the open transaction alone. *)
LEMMA QuietStep ==
    ASSUME Inv, files' = files, tx' = tx, Looks
    PROVE  RowStep
  BY DEF RowStep, StaysPut

LEMMA KeyTyped ==
    ASSUME NEW f \in Files, NEW n \in 1..MaxVersions, NEW name \in Names,
           NEW content \in Contents
    PROVE  [key |-> StorageKey(f, n, name), content |-> content, scan |-> "NONE"] \in Version
  BY DEF StorageKey, Version, Keys, Scans

-----------------------------------------------------------------------------
(* One lemma per action: what it does to rows has one of the shapes, and its *)
(* process knows what its next action relies on.                             *)

LEMMA UploadFindStep ==
    ASSUME Inv, NEW c \in Clients, UploadFind(c)
    PROVE  RowStep /\ LocalInv'
  <1>1. PICK f \in Files \ issued, slot \in Slots, name \in NamesOf[c], content \in Contents :
            req' = [req EXCEPT ![c] = [NoRequest EXCEPT
                    !.op = "upload", !.file = f, !.slot = slot,
                    !.version = [key |-> StorageKey(f, 1, name),
                                 content |-> content, scan |-> "NONE"]]]
    BY DEF UploadFind
  <1> DEFINE v == [key |-> StorageKey(f, 1, name), content |-> content, scan |-> "NONE"]
  <1>2. v \in Version /\ v.scan = "NONE"
    BY KeyTyped, NamesAreNames, BoundsAreNat
  <1>3. c \in Procs /\ tx' = tx /\ files' = files /\ seen' = seen
        /\ pc' = [pc EXCEPT ![c] = "verify"]
    BY DEF UploadFind, Goto, Procs
  <1>4. RowStep
    BY <1>3, UnchangedForgets, QuietStep
  <1> HIDE DEF v
  <1>5. /\ req'[c].op = "upload" /\ req'[c].file = f /\ req'[c].slot = slot
        /\ req'[c].version = v
    BY <1>1, <1>3 DEF Inv, LocalInv, NoRequest, v
  <1>6. OnlyMoves(c)
    BY <1>1, <1>3 DEF OnlyMoves, Inv, LocalInv
  <1>7. pc'[c] = "verify"
    BY <1>3 DEF Inv, LocalInv
  <1>8. Knows(c)'
    BY <1>2, <1>5, <1>7, RolesAreDistinct DEF Knows, ClientKnows
  <1> QED BY <1>3, <1>4, <1>6, <1>8, OthersKnow

LEMMA ReplaceFindStep ==
    ASSUME Inv, NEW c \in Clients, ReplaceFind(c)
    PROVE  RowStep /\ LocalInv'
  <1>1. PICK f \in Files, name \in NamesOf[c], content \in Contents :
            /\ Judged(files[f])
            /\ Len(files[f].versions) < MaxVersions
            /\ Read(c, f)
            /\ req' = [req EXCEPT ![c] = [NoRequest EXCEPT
                    !.op = "replace", !.file = f,
                    !.version = [key |-> StorageKey(f, Len(files[f].versions) + 1, name),
                                 content |-> content, scan |-> "NONE"]]]
    BY DEF ReplaceFind
  <1> DEFINE n == Len(files[f].versions) + 1
             v == [key |-> StorageKey(f, n, name), content |-> content, scan |-> "NONE"]
  <1>2. n \in 1..MaxVersions
    BY <1>1, BoundsAreNat DEF Inv, RowInv, FilesOK, GoodRow, Row, Judged
  <1>3. v \in Version /\ v.scan = "NONE"
    <2> HIDE DEF n
    <2> QED BY <1>2, KeyTyped, NamesAreNames
  <1>4. c \in Procs /\ tx' = tx /\ files' = files
        /\ pc' = [pc EXCEPT ![c] = "verify"]
    BY DEF ReplaceFind, Goto, Procs
  <1>5. /\ Looks /\ seen'[c][f] = files[f]
        /\ \A q \in Procs \ {c} : seen'[q] = seen[q]
    BY <1>1, <1>4, ReadLooks
  <1>6. RowStep
    BY <1>4, <1>5, QuietStep
  <1>7. req' = [req EXCEPT ![c] = [NoRequest EXCEPT !.op = "replace", !.file = f, !.version = v]]
    BY <1>1
  <1> HIDE DEF v
  <1>8. req'[c].op = "replace" /\ req'[c].file = f /\ req'[c].version = v
    BY <1>4, <1>7 DEF Inv, LocalInv, NoRequest
  <1>9. OnlyMoves(c)
    BY <1>4, <1>5, <1>7 DEF OnlyMoves, Inv, LocalInv
  <1>10. pc'[c] = "verify"
    BY <1>4 DEF Inv, LocalInv
  <1>11. Knows(c)'
    BY <1>1, <1>3, <1>5, <1>8, <1>10, RolesAreDistinct DEF Knows, ClientKnows
  <1> QED BY <1>4, <1>6, <1>9, <1>11, OthersKnow

(* A step that only moves the client's program counter, within a use case *)
(* and not into a commit.                                                 *)
LEMMA MovesOnStep ==
    ASSUME Inv, NEW c \in Clients, NEW label, label # "commit", Goto(c, label),
           files' = files, tx' = tx, seen' = seen, req' = req
    PROVE  RowStep /\ LocalInv'
  <1>1. c \in Procs /\ OnlyMoves(c) /\ pc'[c] = label
    BY DEF Procs, Goto, OnlyMoves, Inv, LocalInv
  <1>2. Knows(c)'
    BY <1>1, RolesAreDistinct DEF Knows, ClientKnows, Inv, LocalInv
  <1>3. RowStep
    BY UnchangedForgets, QuietStep
  <1> QED BY <1>1, <1>2, <1>3, OthersKnow

LEMMA EndsStep ==
    ASSUME Inv, NEW p \in Procs, Finish(p), files' = files, tx' = tx
    PROVE  RowStep /\ LocalInv'
  BY FinishForgets, QuietStep

LEMMA CreateQuotaStep ==
    ASSUME Inv, NEW c \in Clients, CreateQuota(c)
    PROVE  RowStep /\ LocalInv'
  <1>1. UNCHANGED <<files, tx, pc, seen, req>>
    BY DEF CreateQuota
  <1>2. LocalInv'
    BY <1>1 DEF Inv, LocalInv, ClientKnows, WorkerKnows, JobKnows
  <1> QED BY <1>1, <1>2, UnchangedForgets, QuietStep

LEMMA VerifyLimitStep ==
    ASSUME Inv, NEW c \in Clients, VerifyLimit(c)
    PROVE  RowStep /\ LocalInv'
  <1>1. files' = files /\ tx' = tx /\ c \in Procs
    BY DEF VerifyLimit, Procs
  <1>2. CASE Goto(c, "store") /\ UNCHANGED <<seen, req>>
    BY <1>1, <1>2, MovesOnStep
  <1>3. CASE Finish(c)
    BY <1>1, <1>3, EndsStep
  <1> QED BY <1>2, <1>3 DEF VerifyLimit

LEMMA StoreBinaryStep ==
    ASSUME Inv, NEW c \in Clients, StoreBinary(c)
    PROVE  RowStep /\ LocalInv'
  <1>1. files' = files /\ tx' = tx /\ c \in Procs
    BY DEF StoreBinary, Procs
  <1>2. CASE Goto(c, "persist") /\ UNCHANGED <<seen, req>>
    BY <1>1, <1>2, MovesOnStep
  <1>3. CASE Finish(c)
    BY <1>1, <1>3, EndsStep
  <1> QED BY <1>2, <1>3 DEF StoreBinary

(* The transaction of client c opens with the next state of a row. *)
LEMMA OpensStep ==
    ASSUME Inv, NEW c \in Clients, NEW f \in Files, NEW row \in GoodRow,
           tx = Nil, tx' = [client |-> c, file |-> f, row |-> row],
           files' = files, seen' = seen, req' = req, Goto(c, "commit"),
           \/ files[f] = Nil /\ SlotFree(row.slot, f) /\ Newborn(row)
           \/ files[f] # Nil /\ Advances(files[f], row) /\ row.slot = files[f].slot
    PROVE  RowStep /\ LocalInv'
  <1>1. Opens(c, f, row)
    BY UnchangedForgets DEF Opens
  <1>2. RowStep
    BY <1>1 DEF RowStep
  <1>3. tx' \in Transaction /\ tx'.client = c
    BY DEF Transaction, GoodRow
  <1>4. tx' # Nil
    BY <1>3, NilIsFresh
  <1>5. c \in Procs /\ OnlyMoves(c) /\ pc'[c] = "commit"
    BY DEF Procs, Goto, OnlyMoves, Inv, LocalInv, ClientKnows
  <1>6. Knows(c)'
    BY <1>3, <1>4, <1>5, RolesAreDistinct DEF Knows, ClientKnows, Inv, LocalInv
  <1> QED BY <1>2, <1>5, <1>6, OthersKnow

LEMMA PersistStep ==
    ASSUME Inv, NEW c \in Clients, NEW row \in GoodRow, PersistAndEnqueue(c, row),
           req[c].file \in Files,
           \/ files[req[c].file] = Nil /\ SlotFree(row.slot, req[c].file) /\ Newborn(row)
           \/ /\ files[req[c].file] # Nil
              /\ Advances(files[req[c].file], row) /\ row.slot = files[req[c].file].slot
    PROVE  RowStep /\ LocalInv'
  <1>1. tx = Nil /\ files' = files /\ seen' = seen /\ req' = req
    BY DEF PersistAndEnqueue
  <1>2. CASE /\ tx' = [client |-> c, file |-> req[c].file, row |-> row]
             /\ Goto(c, "commit")
    BY <1>1, <1>2, OpensStep
  <1>3. CASE Goto(c, "compensate") /\ UNCHANGED tx
    BY <1>1, <1>3, MovesOnStep
  <1> QED BY <1>2, <1>3 DEF PersistAndEnqueue

LEMMA UploadPersistStep ==
    ASSUME Inv, NEW c \in Clients, UploadPersist(c)
    PROVE  RowStep /\ LocalInv'
  <1> DEFINE f == req[c].file
             slot == req[c].slot
             row == NewFile(slot, req[c].version)
  <1>1. /\ f \in Files /\ slot \in Slots
        /\ req[c].version \in Version /\ req[c].version.scan = "NONE"
    BY DEF UploadPersist, At, Inv, LocalInv, ClientKnows
  <1>2. row \in GoodRow /\ row.slot = slot /\ Newborn(row)
    BY <1>1, NewFileGood DEF NewFile, Newborn
  <1>3. CASE files[f] = Nil /\ SlotFree(slot, f)
    <2>1. PersistAndEnqueue(c, row)
      BY <1>3 DEF UploadPersist
    <2> HIDE DEF row
    <2> QED BY <1>1, <1>2, <1>3, <2>1, PersistStep
  <1>4. CASE ~(files[f] = Nil /\ SlotFree(slot, f))
    <2>1. PersistFails(c)
      BY <1>4 DEF UploadPersist
    <2> QED BY <2>1, MovesOnStep DEF PersistFails
  <1> QED BY <1>3, <1>4

(* What the version check gives: the row written is the one that was read. *)
LEMMA LockedRow ==
    ASSUME Inv, NEW p \in Procs, NEW f \in Files, LockMatches(p, f), seen[p][f] # Nil
    PROVE  files[f] = seen[p][f] /\ seen[p][f] \in GoodRow
  BY DEF Inv, RowInv, SnapshotCoherent, SeenOK, LockMatches

LEMMA ReplacePersistStep ==
    ASSUME Inv, NEW c \in Clients, ReplacePersist(c)
    PROVE  RowStep /\ LocalInv'
  <1> DEFINE f == req[c].file
             v == req[c].version
             old == seen[c][f]
             new == AddVersion(old, v)
             row == Saved(c, f, new)
  <1>1. /\ f \in Files /\ v \in Version /\ v.scan = "NONE" /\ Judged(old) /\ c \in Procs
    BY DEF ReplacePersist, At, Inv, LocalInv, ClientKnows, Procs
  <1>2. CASE LockMatches(c, f)
    <2>1. files[f] = old /\ old \in GoodRow /\ old.status # "DELETED"
      BY <1>1, <1>2, LockedRow DEF Judged
    <2>2. new \in GoodRow /\ Legal(old, new) /\ new.slot = old.slot
      <3>1. new \in GoodRow /\ Legal(old, new)
        BY <1>1, <2>1, AddVersionGood
      <3>2. new.slot = old.slot
        BY <2>1 DEF AddVersion, GoodRow, Row
      <3> QED BY <3>1, <3>2
    <2>3. row \in GoodRow /\ Advances(files[f], row) /\ row.slot = files[f].slot
      <3> HIDE DEF new
      <3> QED BY <2>1, <2>2, SavedGood DEF Advances
    <2>4. PersistAndEnqueue(c, row)
      BY <1>2 DEF ReplacePersist
    <2> HIDE DEF row, new
    <2> QED BY <1>1, <2>1, <2>3, <2>4, PersistStep, GoodRowIsNotNil
  <1>3. CASE ~LockMatches(c, f)
    <2>1. PersistFails(c)
      BY <1>3 DEF ReplacePersist
    <2> QED BY <2>1, MovesOnStep DEF PersistFails
  <1> QED BY <1>2, <1>3

(* Once the transaction of c is over, c moves on or returns. *)
LEMMA EndOfTransaction ==
    ASSUME Inv, NEW c \in Clients, pc[c] = "commit", tx' = Nil,
           \/ Finish(c)
           \/ Goto(c, "compensate") /\ UNCHANGED <<seen, req>>
    PROVE  Looks /\ Forgets /\ LocalInv'
  <1>1. c \in Procs /\ \A d \in Clients \ {c} : pc[d] # "commit"
    BY DEF Procs, Inv, LocalInv, ClientKnows
  <1>2. CASE Finish(c)
    BY <1>1, <1>2, FinishForgets
  <1>3. CASE Goto(c, "compensate") /\ UNCHANGED <<seen, req>>
    <2>1. OnlyMoves(c) /\ pc'[c] = "compensate"
      BY <1>1, <1>3 DEF Goto, OnlyMoves, Inv, LocalInv
    <2>2. Knows(c)'
      BY <1>3, <2>1, RolesAreDistinct DEF Knows, ClientKnows, Inv, LocalInv
    <2> QED BY <1>1, <1>3, <2>1, <2>2, OthersKnow, UnchangedForgets
  <1> QED BY <1>2, <1>3

LEMMA CommitStep ==
    ASSUME Inv, NEW c \in Clients, Commit(c)
    PROVE  RowStep /\ LocalInv'
  <1>1. pc[c] = "commit" /\ tx' = Nil /\ files' = [files EXCEPT ![tx.file] = tx.row]
    BY DEF Commit
  <1>2. tx # Nil
    BY <1>1 DEF Inv, LocalInv, ClientKnows
  <1>3. Forgets /\ LocalInv'
    BY <1>1, EndOfTransaction DEF Commit
  <1> QED BY <1>1, <1>2, <1>3 DEF RowStep, Lands

LEMMA RollbackStep ==
    ASSUME Inv, NEW c \in Clients, Rollback(c)
    PROVE  RowStep /\ LocalInv'
  <1>1. pc[c] = "commit" /\ tx' = Nil /\ files' = files
    BY DEF Rollback
  <1>2. Looks /\ LocalInv'
    BY <1>1, EndOfTransaction DEF Rollback
  <1> QED BY <1>1, <1>2 DEF RowStep, StaysPut

LEMMA CompensateStep ==
    ASSUME Inv, NEW c \in Clients, Compensate(c)
    PROVE  RowStep /\ LocalInv'
  BY EndsStep DEF Compensate, Procs

LEMMA BeginUpdateStep ==
    ASSUME Inv, NEW c \in Clients, NEW op \in {"delete", "rename", "changeResource"},
           NEW f \in Files, NEW slot, NEW label \in {"write", "check"},
           op = "changeResource" => slot \in Slots,
           BeginUpdate(c, op, f, slot, label)
    PROVE  RowStep /\ LocalInv'
  <1>1. c \in Procs /\ tx' = tx /\ files' = files /\ Judged(files[f])
        /\ pc' = [pc EXCEPT ![c] = label]
        /\ req' = [req EXCEPT ![c] = [NoRequest EXCEPT !.op = op, !.file = f, !.slot = slot]]
    BY DEF BeginUpdate, Goto, Procs
  <1>2. /\ Looks /\ seen'[c][f] = files[f]
        /\ \A q \in Procs \ {c} : seen'[q] = seen[q]
    BY ReadLooks, <1>1 DEF BeginUpdate
  <1>3. RowStep
    BY <1>1, <1>2, QuietStep
  <1>4. req'[c].op = op /\ req'[c].file = f /\ req'[c].slot = slot
    BY <1>1 DEF Inv, LocalInv, NoRequest
  <1>5. OnlyMoves(c) /\ pc'[c] = label
    BY <1>1, <1>2 DEF OnlyMoves, Inv, LocalInv
  <1>6. Knows(c)'
    BY <1>1, <1>2, <1>4, <1>5, RolesAreDistinct DEF Knows, ClientKnows
  <1> QED BY <1>1, <1>3, <1>5, <1>6, OthersKnow

(* A write of a row that was read: with the lock it becomes the row, and     *)
(* without it nothing changes.                                               *)
LEMMA UpdateRowStep ==
    ASSUME Inv, NEW p \in Procs, NEW f \in Files, NEW new, UpdateRow(p, f, new),
           seen[p][f] # Nil, new \in GoodRow, Legal(seen[p][f], new),
           \/ new.slot = seen[p][f].slot
           \/ SlotFree(new.slot, f) /\ SlotUnlocked(new.slot),
           tx' = tx, Forgets
    PROVE  RowStep
  <1> DEFINE row == Saved(p, f, new)
  <1>1. CASE LockMatches(p, f)
    <2>1. files[f] = seen[p][f] /\ seen[p][f] \in GoodRow
      BY <1>1, LockedRow
    <2>2. row \in GoodRow /\ Advances(files[f], row) /\ row.slot = new.slot
      BY <2>1, SavedGood DEF Advances
    <2>3. files' = [files EXCEPT ![f] = row] /\ RowUnlocked(f)
      BY <1>1 DEF UpdateRow
    <2> HIDE DEF row
    <2>4. Writes(f, row)
      BY <2>1, <2>2, <2>3 DEF Writes
    <2> QED BY <2>2, <2>4 DEF RowStep
  <1>2. CASE ~LockMatches(p, f)
    <2>1. files' = files /\ Looks
      BY <1>2 DEF UpdateRow, Forgets, Looks
    <2> QED BY <2>1 DEF RowStep, StaysPut
  <1> QED BY <1>1, <1>2

LEMMA DeleteWriteStep ==
    ASSUME Inv, NEW c \in Clients, DeleteWrite(c)
    PROVE  RowStep /\ LocalInv'
  <1> DEFINE f == req[c].file
             old == seen[c][f]
             new == MarkDeleted(old)
             row == Saved(c, f, new)
  <1>1. /\ f \in Files /\ Judged(old) /\ c \in Procs /\ files' = files
    BY DEF DeleteWrite, At, Inv, LocalInv, ClientKnows, Procs
  <1>2. CASE Finish(c) /\ UNCHANGED tx
    BY <1>1, <1>2, EndsStep
  <1>3. CASE ~(Finish(c) /\ UNCHANGED tx)
    <2>1. /\ LockMatches(c, f) /\ tx = Nil
          /\ tx' = [client |-> c, file |-> f, row |-> row]
          /\ Goto(c, "commit") /\ seen' = seen /\ req' = req
      BY <1>3 DEF DeleteWrite
    <2>2. files[f] = old /\ old \in GoodRow /\ old.status # "DELETED"
      BY <1>1, <2>1, LockedRow DEF Judged
    <2>3. new \in GoodRow /\ Legal(old, new) /\ new.slot = old.slot
      BY <2>2, MarkDeletedGood
    <2>4. row \in GoodRow /\ Advances(files[f], row) /\ row.slot = files[f].slot
      <3> HIDE DEF new
      <3> QED BY <2>2, <2>3, SavedGood DEF Advances
    <2> HIDE DEF row, new
    <2> QED BY <1>1, <2>1, <2>2, <2>4, OpensStep, GoodRowIsNotNil
  <1> QED BY <1>2, <1>3

LEMMA RenameWriteStep ==
    ASSUME Inv, NEW c \in Clients, RenameWrite(c)
    PROVE  RowStep /\ LocalInv'
  <1> DEFINE f == req[c].file
             old == seen[c][f]
  <1>1. /\ f \in Files /\ Judged(old) /\ c \in Procs /\ tx' = tx
        /\ Finish(c) /\ UpdateRow(c, f, old)
    BY DEF RenameWrite, At, Inv, LocalInv, ClientKnows, Procs
  <1>2. Looks /\ Forgets /\ LocalInv'
    BY <1>1, FinishForgets
  <1>3. old # Nil /\ old \in GoodRow /\ old.status # "DELETED"
    BY <1>1 DEF Judged, Inv, RowInv, SeenOK
  <1>4. Legal(old, old)
    BY <1>3, SameGood
  <1>5. RowStep
    BY <1>1, <1>2, <1>3, <1>4, UpdateRowStep
  <1> QED BY <1>2, <1>5

LEMMA ChangeResourceCheckStep ==
    ASSUME Inv, NEW c \in Clients, ChangeResourceCheck(c)
    PROVE  RowStep /\ LocalInv'
  <1>1. files' = files /\ tx' = tx /\ c \in Procs
    BY DEF ChangeResourceCheck, Procs
  <1>2. CASE Goto(c, "write") /\ UNCHANGED <<seen, req>>
    BY <1>1, <1>2, MovesOnStep
  <1>3. CASE Finish(c)
    BY <1>1, <1>3, EndsStep
  <1> QED BY <1>2, <1>3 DEF ChangeResourceCheck

LEMMA ChangeResourceWriteStep ==
    ASSUME Inv, NEW c \in Clients, ChangeResourceWrite(c)
    PROVE  RowStep /\ LocalInv'
  <1> DEFINE f == req[c].file
             slot == req[c].slot
             old == seen[c][f]
             new == [old EXCEPT !.slot = slot]
  <1>1. /\ f \in Files /\ slot \in Slots /\ Judged(old) /\ c \in Procs
        /\ tx' = tx /\ Finish(c) /\ SlotUnlocked(slot)
    BY DEF ChangeResourceWrite, At, Inv, LocalInv, ClientKnows, Procs
  <1>2. Looks /\ Forgets /\ LocalInv'
    BY <1>1, FinishForgets
  <1>3. old # Nil /\ old \in GoodRow /\ old.status # "DELETED"
    BY <1>1 DEF Judged, Inv, RowInv, SeenOK
  <1>4. new \in GoodRow /\ Legal(old, new) /\ new.slot = slot
    BY <1>1, <1>3, MovedGood
  <1>5. CASE SlotFree(slot, f)
    <2>1. UpdateRow(c, f, new)
      BY <1>5 DEF ChangeResourceWrite
    <2> HIDE DEF new
    <2> QED BY <1>1, <1>2, <1>3, <1>4, <1>5, <2>1, UpdateRowStep
  <1>6. CASE ~SlotFree(slot, f)
    <2>1. files' = files
      BY <1>6 DEF ChangeResourceWrite
    <2> QED BY <1>1, <1>2, <2>1, QuietStep
  <1> QED BY <1>5, <1>6

LEMMA AdjustLimitFindStep ==
    ASSUME Inv, NEW c \in Clients, AdjustLimitFind(c)
    PROVE  RowStep /\ LocalInv'
  <1>1. PICK limit \in Limits :
            req' = [req EXCEPT ![c] = [NoRequest EXCEPT
                    !.op = "adjustLimit", !.quota = [quota EXCEPT !.limit = limit]]]
    BY DEF AdjustLimitFind
  <1> DEFINE q == [quota EXCEPT !.limit = limit]
  <1>2. /\ c \in Procs /\ files' = files /\ tx' = tx /\ seen' = seen
        /\ pc' = [pc EXCEPT ![c] = "write"]
    BY DEF AdjustLimitFind, Goto, Procs
  <1>3. req' = [req EXCEPT ![c] = [NoRequest EXCEPT !.op = "adjustLimit", !.quota = q]]
    BY <1>1
  <1> HIDE DEF q
  <1>4. req'[c].op = "adjustLimit" /\ pc'[c] = "write" /\ OnlyMoves(c)
    BY <1>2, <1>3 DEF OnlyMoves, Inv, LocalInv, NoRequest
  <1>5. Knows(c)'
    BY <1>4, RolesAreDistinct DEF Knows, ClientKnows
  <1>6. RowStep
    BY <1>2, UnchangedForgets, QuietStep
  <1> QED BY <1>2, <1>4, <1>5, <1>6, OthersKnow

LEMMA ServeStep ==
    ASSUME Inv, NEW c \in Clients, Serve(c)
    PROVE  RowStep /\ LocalInv'
  <1>1. CASE DeleteFind(c)
    BY <1>1, BeginUpdateStep DEF DeleteFind
  <1>2. CASE RenameFind(c)
    BY <1>2, BeginUpdateStep DEF RenameFind
  <1>3. CASE ChangeResourceFind(c)
    BY <1>3, BeginUpdateStep DEF ChangeResourceFind
  <1>4. CASE AdjustLimitWrite(c)
    BY <1>4, EndsStep DEF AdjustLimitWrite, Procs
  <1> QED
    BY <1>1, <1>2, <1>3, <1>4, UploadFindStep, ReplaceFindStep, CreateQuotaStep,
       VerifyLimitStep, StoreBinaryStep, UploadPersistStep, ReplacePersistStep,
       CommitStep, RollbackStep, CompensateStep, DeleteWriteStep, RenameWriteStep,
       ChangeResourceCheckStep, ChangeResourceWriteStep, AdjustLimitFindStep
       DEF Serve

LEMMA TakeJobStep ==
    ASSUME Inv, NEW w \in ScanWorkers, TakeJob(w)
    PROVE  RowStep /\ LocalInv'
  <1>1. PICK j \in JobIds : req' = [req EXCEPT ![w] = [NoRequest EXCEPT !.job = j]]
    BY DEF TakeJob
  <1>2. /\ w \in Procs /\ files' = files /\ tx' = tx /\ seen' = seen
        /\ pc' = [pc EXCEPT ![w] = "find"]
    BY DEF TakeJob, Goto, Procs
  <1>3. req'[w].job = j /\ pc'[w] = "find" /\ OnlyMoves(w)
    BY <1>1, <1>2 DEF OnlyMoves, Inv, LocalInv, NoRequest
  <1>4. Knows(w)'
    BY <1>3, RolesAreDistinct DEF Knows, WorkerKnows
  <1> QED BY <1>2, <1>3, <1>4, OthersKnow, UnchangedForgets, QuietStep

LEMMA ScanFindStep ==
    ASSUME Inv, NEW w \in ScanWorkers, ScanFind(w)
    PROVE  RowStep /\ LocalInv'
  <1> DEFINE f == req[w].job[1]
             row == files[f]
  <1>1. w \in Procs /\ files' = files /\ tx' = tx /\ req[w].job \in JobIds /\ f \in Files
    BY DEF ScanFind, Procs, Inv, LocalInv, WorkerKnows, JobIds
  <1>2. CASE Finish(w)
    BY <1>1, <1>2, EndsStep
  <1>3. CASE ~Finish(w)
    <2>1. /\ row # Nil /\ row.status = "PENDING" /\ Latest(row).scan = "NONE"
          /\ Read(w, f) /\ pc' = [pc EXCEPT ![w] = "download"] /\ req' = req
      BY <1>3 DEF ScanFind, ThrowScan, ReturnScan, Goto
    <2>2. /\ Looks /\ seen'[w][f] = row
          /\ \A q \in Procs \ {w} : seen'[q] = seen[q]
      BY <1>1, <2>1, ReadLooks
    <2>3. OnlyMoves(w) /\ pc'[w] = "download"
      BY <1>1, <2>1, <2>2 DEF OnlyMoves, Inv, LocalInv
    <2>4. Knows(w)'
      BY <1>1, <2>1, <2>2, <2>3, RolesAreDistinct DEF Knows, WorkerKnows
    <2> QED BY <1>1, <2>2, <2>3, <2>4, OthersKnow, QuietStep
  <1> QED BY <1>2, <1>3

LEMMA ScanDownloadStep ==
    ASSUME Inv, NEW w \in ScanWorkers, ScanDownload(w)
    PROVE  RowStep /\ LocalInv'
  <1>1. w \in Procs /\ files' = files /\ tx' = tx
    BY DEF ScanDownload, Procs
  <1>2. CASE Finish(w)
    BY <1>1, <1>2, EndsStep
  <1>3. CASE ~Finish(w)
    <2>1. PICK verdict \in Verdicts :
            req' = [req EXCEPT ![w] = [NoRequest EXCEPT
                        !.job = req[w].job, !.verdict = verdict]]
      BY <1>3 DEF ScanDownload, ThrowScan
    <2>2. pc[w] = "download" /\ pc' = [pc EXCEPT ![w] = "write"] /\ seen' = seen
      BY <1>3 DEF ScanDownload, ThrowScan, Goto
    <2>3. /\ req'[w].job = req[w].job /\ req'[w].verdict = verdict
          /\ pc'[w] = "write" /\ OnlyMoves(w) /\ verdict \in AllVerdicts
      BY <1>1, <2>1, <2>2, KnownSwitches DEF OnlyMoves, Inv, LocalInv, NoRequest
    <2>4. Knows(w)'
      BY <2>2, <2>3, RolesAreDistinct DEF Knows, WorkerKnows, Inv, LocalInv
    <2> QED BY <1>1, <2>2, <2>3, <2>4, OthersKnow, UnchangedForgets, QuietStep
  <1> QED BY <1>2, <1>3

LEMMA ScanWriteStep ==
    ASSUME Inv, NEW w \in ScanWorkers, ScanWrite(w)
    PROVE  RowStep /\ LocalInv'
  <1> DEFINE f == req[w].job[1]
             old == seen[w][f]
             new == ScanResult(old, req[w].verdict)
  <1>1. /\ w \in Procs /\ tx' = tx /\ f \in Files /\ req[w].verdict \in AllVerdicts
        /\ old # Nil /\ old.status = "PENDING" /\ Latest(old).scan = "NONE"
    BY DEF ScanWrite, Procs, Inv, LocalInv, WorkerKnows, JobIds
  <1>2. Finish(w) /\ UpdateRow(w, f, new)
    BY DEF ScanWrite, ReturnScan, ThrowScan
  <1>3. Looks /\ Forgets /\ LocalInv'
    BY <1>1, <1>2, FinishForgets
  <1>4. old \in GoodRow
    BY <1>1 DEF Inv, RowInv, SeenOK
  <1>5. new \in GoodRow /\ Legal(old, new) /\ new.slot = old.slot
    BY <1>1, <1>4, ScanResultGood
  <1> HIDE DEF new
  <1>6. RowStep
    BY <1>1, <1>2, <1>3, <1>5, UpdateRowStep
  <1> QED BY <1>3, <1>6

LEMMA ReconcileReadStep ==
    ASSUME Inv, NEW r \in Jobs, ReconcileRead(r)
    PROVE  RowStep /\ LocalInv'
  <1>1. /\ r \in Procs /\ files' = files /\ tx' = tx /\ req' = req
        /\ seen' = [seen EXCEPT ![r] = files] /\ pc' = [pc EXCEPT ![r] = "list"]
    BY DEF ReconcileRead, Procs, Goto
  <1>2. Looks
    BY <1>1 DEF Inv, RowInv, SeenOK, FilesOK, Looks
  <1>3. OnlyMoves(r) /\ pc'[r] = "list"
    BY <1>1 DEF OnlyMoves, Inv, LocalInv, RowInv, SeenOK
  <1>4. Knows(r)'
    BY <1>1, <1>3, RolesAreDistinct DEF Knows, JobKnows
  <1> QED BY <1>1, <1>2, <1>3, <1>4, OthersKnow, QuietStep

(* A maintenance job goes on with live files of its snapshot, or returns. *)
LEMMA ContinueForgets ==
    ASSUME Inv, NEW r \in Jobs, NEW keys, NEW batch, Continue(r, keys, batch), tx' = tx,
           batch \subseteq Files, \A f \in batch : Live(seen[r][f]), r # Rescanner
    PROVE  Looks /\ Forgets /\ LocalInv'
  <1>1. r \in Procs
    BY DEF Procs
  <1>2. CASE Finish(r)
    BY <1>1, <1>2, FinishForgets
  <1>3. CASE ~Finish(r)
    <2>1. /\ req' = [req EXCEPT ![r] = [NoRequest EXCEPT !.keys = keys, !.batch = batch]]
          /\ pc' = [pc EXCEPT ![r] = "work"] /\ seen' = seen
      BY <1>3 DEF Continue, Goto
    <2>2. req'[r].batch = batch /\ OnlyMoves(r) /\ pc'[r] = "work"
      BY <1>1, <2>1 DEF OnlyMoves, Inv, LocalInv, NoRequest
    <2>3. Knows(r)'
      BY <2>1, <2>2, RolesAreDistinct DEF Knows, JobKnows
    <2> QED BY <1>1, <2>1, <2>2, <2>3, OthersKnow, UnchangedForgets
  <1> QED BY <1>2, <1>3

LEMMA ReconcileListStep ==
    ASSUME Inv, NEW r \in Jobs, r # Rescanner, ReconcileList(r)
    PROVE  RowStep /\ LocalInv'
  <1> DEFINE rows == {f \in Files : seen[r][f] # Nil}
             known == UNION {KeysOf(seen[r][f]) : f \in rows}
             lost == {f \in rows : /\ Live(seen[r][f])
                                   /\ KeysOf(seen[r][f]) \cap Stored(storage) = {}}
  <1>1. files' = files /\ tx' = tx /\ Continue(r, Stored(storage) \ known, lost)
    BY DEF ReconcileList
  <1>2. lost \subseteq Files /\ \A f \in lost : Live(seen[r][f])
    OBVIOUS
  <1> HIDE DEF known, lost
  <1>3. Looks /\ LocalInv'
    BY <1>1, <1>2, ContinueForgets
  <1> QED BY <1>1, <1>3, QuietStep

LEMMA PurgeListStep ==
    ASSUME Inv, NEW r \in Jobs, r # Rescanner, PurgeList(r)
    PROVE  RowStep /\ LocalInv'
  <1>1. files' = files /\ tx' = tx /\ \E keys : Continue(r, keys, {})
    BY DEF PurgeList
  <1>2. Looks /\ LocalInv'
    BY <1>1, ContinueForgets
  <1> QED BY <1>1, <1>2, QuietStep

LEMMA DeleteBinaryStep ==
    ASSUME Inv, NEW r \in Jobs, r # Rescanner, DeleteBinary(r)
    PROVE  RowStep /\ LocalInv'
  <1>1. /\ files' = files /\ tx' = tx /\ r \in Procs
        /\ req[r].batch \subseteq Files /\ \A f \in req[r].batch : Live(seen[r][f])
    BY DEF DeleteBinary, Procs, Inv, LocalInv, JobKnows
  <1>2. CASE Finish(r)
    BY <1>1, <1>2, EndsStep
  <1>3. CASE \E keys : Continue(r, keys, req[r].batch)
    BY <1>1, <1>3, ContinueForgets, QuietStep
  <1> QED BY <1>2, <1>3 DEF DeleteBinary

LEMMA MarkOrphanStep ==
    ASSUME Inv, NEW r \in Jobs, r # Rescanner, MarkOrphan(r)
    PROVE  RowStep /\ LocalInv'
  <1>1. PICK f \in req[r].batch :
            /\ UpdateRow(r, f, MarkDeleted(seen[r][f]))
            /\ Continue(r, {}, req[r].batch \ {f}) \/ Finish(r)
    BY DEF MarkOrphan
  <1> DEFINE old == seen[r][f]
             new == MarkDeleted(old)
  <1>2. /\ r \in Procs /\ tx' = tx /\ req[r].batch \subseteq Files
        /\ \A g \in req[r].batch : Live(seen[r][g])
    BY DEF MarkOrphan, Procs, Inv, LocalInv, JobKnows
  <1>3. Forgets /\ LocalInv'
    BY <1>1, <1>2, FinishForgets, ContinueForgets
  <1>4. f \in Files /\ old # Nil /\ old \in GoodRow /\ old.status # "DELETED"
    BY <1>2 DEF Live, Inv, RowInv, SeenOK
  <1>5. new \in GoodRow /\ Legal(old, new) /\ new.slot = old.slot
    BY <1>4, MarkDeletedGood
  <1>6. UpdateRow(r, f, new)
    BY <1>1
  <1> HIDE DEF new
  <1>7. RowStep
    BY <1>2, <1>3, <1>4, <1>5, <1>6, UpdateRowStep
  <1> QED BY <1>3, <1>7

LEMMA RescanFindStep ==
    ASSUME Inv, RescanFind(Rescanner)
    PROVE  RowStep /\ LocalInv'
  <1> DEFINE r == Rescanner
  <1>1. PICK old \in SUBSET {f \in Files : files[f] # Nil /\ files[f].status = "READY"} :
            /\ seen' = [seen EXCEPT ![r] = [f \in Files |-> IF f \in old THEN files[f] ELSE Nil]]
            /\ req' = [req EXCEPT ![r] = [NoRequest EXCEPT !.batch = old]]
    BY DEF RescanFind
  <1>2. /\ r \in Procs /\ r \in Jobs /\ files' = files /\ tx' = tx
        /\ pc' = [pc EXCEPT ![r] = "download"]
    BY DEF RescanFind, Procs, Jobs, Goto
  <1>3. Looks
    BY <1>1, <1>2 DEF Inv, RowInv, SeenOK, FilesOK, Looks
  <1>4. /\ OnlyMoves(r) /\ pc'[r] = "download" /\ req'[r].batch = old
        /\ \A f \in old : seen'[r][f] = files[f]
    BY <1>1, <1>2 DEF OnlyMoves, Inv, LocalInv, RowInv, SeenOK, NoRequest
  <1>5. Knows(r)'
    BY <1>2, <1>4, RolesAreDistinct DEF Knows, JobKnows
  <1> QED BY <1>2, <1>3, <1>4, <1>5, OthersKnow, QuietStep

LEMMA RescanDownloadStep ==
    ASSUME Inv, RescanDownload(Rescanner)
    PROVE  RowStep /\ LocalInv'
  <1> DEFINE r == Rescanner
  <1>1. /\ r \in Procs /\ r \in Jobs /\ files' = files /\ tx' = tx
        /\ pc[r] = "download"
    BY DEF RescanDownload, Procs, Jobs
  <1>2. CASE Finish(r)
    BY <1>1, <1>2, EndsStep
  <1>3. CASE ~Finish(r)
    <2>1. PICK f \in req[r].batch, verdict \in Verdicts :
            req' = [req EXCEPT ![r] = [NoRequest EXCEPT
                        !.batch = req[r].batch, !.file = f, !.verdict = verdict]]
      BY <1>3 DEF RescanDownload
    <2>2. pc' = [pc EXCEPT ![r] = "write"] /\ seen' = seen
      BY <1>3 DEF RescanDownload, Goto
    <2>3. /\ req'[r].batch = req[r].batch /\ req'[r].file = f
          /\ req'[r].verdict = verdict /\ verdict \in AllVerdicts
          /\ pc'[r] = "write" /\ OnlyMoves(r)
      BY <1>1, <2>1, <2>2, KnownSwitches DEF OnlyMoves, Inv, LocalInv, NoRequest
    <2>4. Knows(r)'
      BY <1>1, <2>2, <2>3, RolesAreDistinct DEF Knows, JobKnows, Inv, LocalInv
    <2> QED BY <1>1, <2>2, <2>3, <2>4, OthersKnow, UnchangedForgets, QuietStep
  <1> QED BY <1>2, <1>3

LEMMA RescanWriteStep ==
    ASSUME Inv, RescanWrite(Rescanner)
    PROVE  RowStep /\ LocalInv'
  <1> DEFINE r == Rescanner
             f == req[r].file
             rest == req[r].batch \ {f}
             old == seen[r][f]
             new == RescanResult(old, req[r].verdict)
  <1>1. /\ r \in Procs /\ r \in Jobs /\ tx' = tx /\ UpdateRow(r, f, new)
        /\ f \in Files /\ req[r].verdict \in AllVerdicts
        /\ old # Nil /\ old.status = "READY" /\ rest \subseteq Files
        /\ \A g \in rest : seen[r][g] # Nil /\ seen[r][g].status = "READY"
    BY DEF RescanWrite, Procs, Jobs, Inv, LocalInv, JobKnows
  <1>2. Forgets /\ LocalInv'
    <2>1. CASE Finish(r)
      BY <1>1, <2>1, FinishForgets
    <2>2. CASE ~Finish(r)
      <3>1. /\ req' = [req EXCEPT ![r] = [NoRequest EXCEPT !.batch = rest]]
            /\ pc' = [pc EXCEPT ![r] = "download"] /\ seen' = seen
        BY <2>2 DEF RescanWrite, Goto
      <3>2. req'[r].batch = rest /\ pc'[r] = "download" /\ OnlyMoves(r)
        BY <1>1, <3>1 DEF OnlyMoves, Inv, LocalInv, NoRequest
      <3>3. Knows(r)'
        BY <1>1, <3>1, <3>2, RolesAreDistinct DEF Knows, JobKnows
      <3> QED BY <1>1, <3>1, <3>2, <3>3, OthersKnow, UnchangedForgets
    <2> QED BY <2>1, <2>2
  <1>3. old \in GoodRow
    BY <1>1 DEF Inv, RowInv, SeenOK
  <1>4. new \in GoodRow /\ Legal(old, new) /\ new.slot = old.slot
    BY <1>1, <1>3, RescanResultGood
  <1> HIDE DEF new
  <1>5. RowStep
    BY <1>1, <1>2, <1>4, UpdateRowStep
  <1> QED BY <1>2, <1>5

(* A process that dies takes its own transaction with it, no other's. *)
LEMMA CrashStep ==
    ASSUME Inv, NEW p \in Procs, Crash(p)
    PROVE  RowStep /\ LocalInv'
  <1>1. files' = files /\ Finish(p) /\ tx' = IF tx # Nil /\ tx.client = p THEN Nil ELSE tx
    BY DEF Crash
  <1>2. \A c \in Clients \ {p} : pc[c] = "commit" => tx' = tx
    BY <1>1 DEF Inv, LocalInv, ClientKnows
  <1>3. Looks /\ LocalInv'
    BY <1>1, <1>2, FinishForgets
  <1> QED BY <1>1, <1>3 DEF RowStep, StaysPut

LEMMA NothingMovesStep ==
    ASSUME Inv, UNCHANGED <<files, tx, pc, seen, req>>
    PROVE  RowStep /\ LocalInv'
  <1>1. LocalInv'
    BY DEF Inv, LocalInv, ClientKnows, WorkerKnows, JobKnows
  <1> QED BY <1>1, UnchangedForgets, QuietStep

-----------------------------------------------------------------------------
(* The inductive invariant *)

LEMMA InitInv == Init => Inv
  <1> SUFFICES ASSUME Init PROVE Inv
    OBVIOUS
  <1>1. FilesOK /\ SeenOK /\ TxOK /\ TxSlotFree
    BY DEF Init, FilesOK, SeenOK, NothingSeen, TxOK, TxSlotFree
  <1>2. SnapshotCoherent /\ OneLiveFilePerSlot
    BY DEF Init, NothingSeen, SnapshotCoherent, OneLiveFilePerSlot, Live
  <1>3. \A p \in Procs : pc[p] = "idle" /\ req[p].op \notin AllOps
    BY NilIsNoOp DEF Init, NoRequest
  <1>4. LocalInv
    BY <1>3 DEF Init, LocalInv, ClientKnows, WorkerKnows, JobKnows, Procs, AllOps
  <1> QED BY <1>1, <1>2, <1>4 DEF Inv, RowInv

LEMMA NextStep == Inv /\ [Next]_vars => RowStep /\ LocalInv'
  <1> SUFFICES ASSUME Inv, [Next]_vars PROVE RowStep /\ LocalInv'
    OBVIOUS
  <1>1. ASSUME NEW c \in Clients, Serve(c) PROVE RowStep /\ LocalInv'
    BY <1>1, ServeStep
  <1>2. ASSUME NEW w \in ScanWorkers, Scan(w) PROVE RowStep /\ LocalInv'
    BY <1>2, TakeJobStep, ScanFindStep, ScanDownloadStep, ScanWriteStep DEF Scan
  <1>3. ASSUME NEW j \in JobIds, JobBackoff(j) \/ JobStalls(j) PROVE RowStep /\ LocalInv'
    BY <1>3, NothingMovesStep DEF JobBackoff, JobStalls
  <1>4. CASE Reconcile(Reconciler)
    BY <1>4, RolesAreDistinct, ReconcileReadStep, ReconcileListStep, DeleteBinaryStep,
       MarkOrphanStep DEF Reconcile, Jobs
  <1>5. CASE Purge(Purger)
    BY <1>5, RolesAreDistinct, PurgeListStep, DeleteBinaryStep DEF Purge, Jobs
  <1>6. CASE Rescan(Rescanner)
    BY <1>6, RescanFindStep, RescanDownloadStep, RescanWriteStep DEF Rescan
  <1>7. ASSUME NEW p \in Procs, Crash(p) PROVE RowStep /\ LocalInv'
    BY <1>7, CrashStep
  <1>8. CASE UNCHANGED vars
    BY <1>8, NothingMovesStep DEF vars
  <1> QED BY <1>1, <1>2, <1>3, <1>4, <1>5, <1>6, <1>7, <1>8 DEF Next

(* Inv is inductive, hence always true: rows are consistent wherever a copy  *)
(* of one is held, and each process stands where its locals allow.           *)
THEOREM Invariance == Spec => []Inv
  <1>1. Inv /\ [Next]_vars => Inv'
    BY NextStep, RowStepKeepsRowInv DEF Inv
  <1> QED BY <1>1, InitInv, PTL DEF Spec

-----------------------------------------------------------------------------
(* What the invariant gives *)

(* The rows in the table, in the processes' hands and in the open            *)
(* transaction always have the types declared for them.                      *)
THEOREM RowsTyped == Spec => []RowsTypeOK
  <1>1. Inv => RowsTypeOK
    BY DEF Inv, RowInv, FilesOK, SeenOK, TxOK, GoodRow, RowsTypeOK, Transaction
  <1> QED BY <1>1, Invariance, PTL

(* However many clients upload, move and delete at once, a slot never holds  *)
(* two live files.                                                           *)
THEOREM OneLiveFile == Spec => []OneLiveFilePerSlot
  <1>1. Inv => OneLiveFilePerSlot
    BY DEF Inv, RowInv
  <1> QED BY <1>1, Invariance, PTL

(* The row a process still holds is either the committed one or older, and   *)
(* its lock tells which.                                                     *)
THEOREM CoherentSnapshots == Spec => []SnapshotCoherent
  <1>1. Inv => SnapshotCoherent
    BY DEF Inv, RowInv
  <1> QED BY <1>1, Invariance, PTL

(* The status of a file always agrees with the latest scan of its latest     *)
(* version, whatever scans, replacements and rescans are in progress.        *)
THEOREM StatusFollowsScan == Spec => []ScanDecidesStatus
  <1>1. Inv => ScanDecidesStatus
    BY DEF Inv, RowInv, FilesOK, GoodRow, Consistent, ScanDecidesStatus
  <1> QED BY <1>1, Invariance, PTL

(* No step removes a row or a version, changes what a version is, or touches *)
(* a deleted file.                                                           *)
THEOREM HistoryKept == Spec => HistoryIsFinal
  <1> DEFINE Kept == \A f \in Files : files[f] # Nil =>
         /\ files'[f] # Nil
         /\ files[f].status = "DELETED" => files'[f] = files[f]
         /\ Len(files[f].versions) <= Len(files'[f].versions)
         /\ \A i \in DOMAIN files[f].versions :
               /\ files'[f].versions[i].key = files[f].versions[i].key
               /\ files'[f].versions[i].content = files[f].versions[i].content
  <1>1. Inv /\ [Next]_vars => Kept
    <2> SUFFICES ASSUME Inv, [Next]_vars, NEW f \in Files, files[f] # Nil
                 PROVE  /\ files'[f] # Nil
                        /\ files[f].status = "DELETED" => files'[f] = files[f]
                        /\ Len(files[f].versions) <= Len(files'[f].versions)
                        /\ \A i \in DOMAIN files[f].versions :
                             /\ files'[f].versions[i].key = files[f].versions[i].key
                             /\ files'[f].versions[i].content = files[f].versions[i].content
      OBVIOUS
    <2>1. files'[f] = files[f] \/ (files'[f] # Nil /\ Legal(files[f], files'[f]))
      BY NextStep, RowStepIsLegal DEF Inv
    <2>2. files[f].versions \in Seq(Version)
      BY DEF Inv, RowInv, FilesOK, GoodRow, Row
    <2>3. DOMAIN files[f].versions = 1..Len(files[f].versions)
          /\ Len(files[f].versions) \in Nat
      BY <2>2
    <2> QED BY <2>1, <2>3 DEF Legal
  <1>2. Inv /\ [Next]_vars => [Kept]_vars
    BY <1>1
  <1> QED BY <1>2, Invariance, PTL DEF Spec, HistoryIsFinal

(* A verdict is never overwritten by another scan of the same version unless *)
(* the file is READY, that is by the rescan.                                 *)
THEOREM VerdictStands == Spec => VerdictStandsUnlessReady
  <1> DEFINE Stands == \A f \in Files :
         /\ files[f] # Nil
         /\ Latest(files[f]).scan # "NONE"
         /\ Len(files'[f].versions) = Len(files[f].versions)
         /\ Latest(files'[f]).scan # Latest(files[f]).scan
         => files[f].status = "READY"
  <1>1. Inv /\ [Next]_vars => [Stands]_vars
    <2>1. ASSUME Inv, [Next]_vars, NEW f \in Files, files[f] # Nil
          PROVE  files'[f] = files[f] \/ Legal(files[f], files'[f])
      BY <2>1, NextStep, RowStepIsLegal DEF Inv
    <2> QED BY <2>1 DEF Legal
  <1> QED BY <1>1, Invariance, PTL DEF Spec, VerdictStandsUnlessReady
=============================================================================
