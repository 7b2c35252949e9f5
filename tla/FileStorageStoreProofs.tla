---------------------- MODULE FileStorageStoreProofs ----------------------
(***************************************************************************)
(* Theorems about the binary store, the scan queue and the quota of        *)
(* FileStorage, for every value of its constants: the remaining types, and *)
(* how stored binaries and counted bytes agree with the rows.              *)
(***************************************************************************)
EXTENDS FileStorageProofs, Sums

-----------------------------------------------------------------------------
(* The invariant about types and processes *)

Labels == {"idle", "verify", "store", "persist", "commit", "compensate",
           "check", "write", "find", "download", "list", "work"}

(* A client that has a binary to store, or has stored it. *)
Writing(c) == req[c].op \in {"upload", "replace"}
KeyOf(c) == req[c].version.key

(* What a client works on where it stands. *)
ClientStage(c) ==
    /\ pc[c] \in {"verify", "store", "persist", "compensate"} => Writing(c)
    /\ pc[c] = "commit" => req[c].op \in {"upload", "replace", "delete"}
    /\ pc[c] = "idle" => req[c].op = Nil
    /\ req[c].op = "adjustLimit" => req[c].quota \in Quota
WorkerStage(w) == pc[w] \in {"find", "download", "write"} => queue[req[w].job] # Nil
Stage(p) == (p \in Clients => ClientStage(p)) /\ (p \in ScanWorkers => WorkerStage(p))

LocalsOK == /\ req \in [Procs -> Request]
            /\ pc \in [Procs -> Labels]
            /\ \A p \in Procs : Stage(p)

(* A job is given up before its attempts exceed the limit, and only an active *)
(* one has a worker.                                                          *)
GoodJob == {job \in ScanJob : /\ job.state \in {"waiting", "active", "delayed"} =>
                                    job.attempts < MaxAttempts
                              /\ job.worker # Nil => job.state = "active"}
QueueOK == queue \in [JobIds -> GoodJob \cup {Nil}]

(* The quota exists before anything is counted in it. *)
QuotaOK == /\ quota \in Quota \cup {Nil}
           /\ quota = Nil =>
                /\ tx = Nil
                /\ \A f \in Files : files[f] = Nil
                /\ \A c \in Clients : pc[c] \notin {"store", "persist"}

TypeInv == /\ LocalsOK
           /\ storage \in [Keys -> Contents \cup {Nil}]
           /\ QueueOK /\ QuotaOK
           /\ issued \subseteq Files /\ IsFiniteSet(issued)

-----------------------------------------------------------------------------
(* The invariant about keys and the open transaction *)

(* The key of version i of file f names both. *)
Numbered(f, row) == \A i \in 1..Len(row.versions) :
    row.versions[i].key[1] = f /\ row.versions[i].key[2] = i

(* The binary of a client goes where its version will be. *)
KeyFits(c) ==
    /\ Writing(c) => KeyOf(c)[1] = req[c].file /\ req[c].file \in issued
    /\ req[c].op = "upload" => KeyOf(c)[2] = 1
    /\ req[c].op = "replace" => KeyOf(c)[2] = Len(seen[c][req[c].file].versions) + 1

(* The uncommitted row is the committed one, which its client has read, with *)
(* what that client adds.                                                    *)
TxShape == tx # Nil =>
    LET c == tx.client
        f == tx.file
    IN  /\ pc[c] = "commit" /\ f = req[c].file
        /\ \/ /\ req[c].op = "upload" /\ files[f] = Nil
              /\ tx.row.versions = <<req[c].version>> /\ tx.row.status = "PENDING"
           \/ /\ req[c].op = "replace" /\ Live(files[f]) /\ files[f] = seen[c][f]
              /\ tx.row.versions = Append(files[f].versions, req[c].version)
              /\ tx.row.status = "PENDING"
           \/ /\ req[c].op = "delete" /\ Live(files[f])
              /\ tx.row.versions = files[f].versions /\ tx.row.status = "DELETED"

KeyInv == /\ \A f \in Files : files[f] # Nil => Numbered(f, files[f]) /\ f \in issued
          /\ \A c \in Clients : KeyFits(c)
          /\ TxShape

-----------------------------------------------------------------------------
(* What the properties need besides *)

(* A binary no row knows belongs to a client that will commit or remove it. *)
LeakInv ==
    \A k \in Keys : storage[k] # Nil =>
        \/ \E f \in Files : files[f] # Nil /\ k \in KeysOf(files[f])
        \/ \E c \in Clients : /\ pc[c] \in {"persist", "commit", "compensate"}
                              /\ Writing(c) /\ KeyOf(c) = k

(* Clients send different names at a time. *)
DistinctNames == \A c, d \in Clients : c # d => NamesOf[c] \cap NamesOf[d] = {}

Doomed(k) == \E f \in Files : /\ files[f] # Nil /\ files[f].status = "DELETED"
                              /\ k \in KeysOf(files[f])
StoreInv ==
    /\ LiveBinariesStored
    /\ pc[Reconciler] = "idle"
    /\ \A k \in req[Purger].keys : Doomed(k)
    /\ \A c \in Clients : Writing(c) =>
          /\ KeyOf(c)[3] \in NamesOf[c]
          /\ \A f \in Files : files[f] # Nil => KeyOf(c) \notin KeysOf(files[f])
          /\ pc[c] \in {"persist", "commit"} => storage[KeyOf(c)] = req[c].version.content

NoAdjustment == \A c \in Clients : req[c].op # "adjustLimit"
QuotaInv == QuotaExact /\ pc[Reconciler] = "idle" /\ NoAdjustment

(* The bytes verified but not yet counted. *)
Charge(c) == IF Writing(c) /\ pc[c] \in {"store", "persist", "commit"}
             THEN SizeOf[req[c].version.content] ELSE 0
Charges == [c \in Clients |-> Charge(c)]
SumOfCharges == SumFunctionOnSet(Charges, Clients)
Excess == (Cardinality(Clients) - 1) * LargestSize
ChargeInv ==
    /\ NoAdjustment
    /\ quota # Nil =>
          Contents # {} /\ quota.used + SumOfCharges <= quota.limit + Excess

-----------------------------------------------------------------------------
(* The scan queue *)

QueueKept == /\ queue' \in [JobIds -> GoodJob \cup {Nil}]
             /\ \A j \in JobIds : queue[j] # Nil => queue'[j] # Nil

LEMMA JobIsNotNil == Nil \notin GoodJob
  BY NilIsFresh DEF GoodJob

LEMMA NewJobGood == NewJob \in GoodJob
  BY BoundsAreNat DEF NewJob, GoodJob, ScanJob

LEMMA EnqueuedKept ==
    ASSUME QueueOK, NEW j, queue' \in {queue, Enqueued(j)}
    PROVE  QueueKept
  BY NewJobGood, JobIsNotNil DEF QueueOK, QueueKept, Enqueued

LEMMA JobAsKept ==
    ASSUME QueueOK, NEW j \in JobIds, NEW job \in GoodJob, queue' = JobAs(j, job)
    PROVE  QueueKept
  BY JobIsNotNil DEF QueueOK, QueueKept, JobAs

(* The end of an attempt: reported by its worker, or refused. *)
LEMMA CompletedKept ==
    ASSUME QueueOK, NEW w \in ScanWorkers, NEW j \in JobIds, queue[j] # Nil,
           queue' = Completed(w, j)
    PROVE  QueueKept
  <1> DEFINE job == [queue[j] EXCEPT !.state = "completed", !.worker = Nil]
  <1>1. job \in GoodJob
    BY DEF QueueOK, GoodJob, ScanJob
  <1> HIDE DEF job
  <1>2. queue' = queue \/ queue' = JobAs(j, job)
    BY DEF Completed, job
  <1>3. CASE queue' = queue
    BY <1>3 DEF QueueKept, QueueOK
  <1> QED BY <1>1, <1>2, <1>3, JobAsKept

LEMMA AttemptFailedKept ==
    ASSUME QueueOK, NEW w \in ScanWorkers, NEW j \in JobIds, queue[j] # Nil,
           queue' = AttemptFailed(w, j)
    PROVE  QueueKept
  <1> DEFINE n == queue[j].attempts + 1
             state == IF n < MaxAttempts THEN "delayed" ELSE "failed"
             job == [queue[j] EXCEPT !.state = state, !.attempts = n, !.worker = Nil]
  <1>1. CASE queue[j].worker # w
    BY <1>1 DEF AttemptFailed, QueueKept, QueueOK
  <1>2. CASE queue[j].worker = w
    <2>1. queue[j] \in GoodJob /\ w # Nil
      BY NilIsFresh DEF QueueOK
    <2>2. queue[j].attempts < MaxAttempts /\ queue[j].attempts \in 0..MaxAttempts
      BY <1>2, <2>1 DEF GoodJob, ScanJob
    <2>3. n \in 0..MaxAttempts /\ state \in {"delayed", "failed"}
          /\ (state = "delayed" => n < MaxAttempts)
      BY <2>2, BoundsAreNat
    <2>4. job \in GoodJob
      <3> HIDE DEF n, state
      <3> QED BY <2>1, <2>3 DEF GoodJob, ScanJob
    <2>5. queue' = JobAs(j, job)
      BY <1>2 DEF AttemptFailed
    <2> HIDE DEF job
    <2> QED BY <2>4, <2>5, JobAsKept
  <1> QED BY <1>1, <1>2

(* What a worker does to its job. *)
LEMMA WorkerKeepsQueue ==
    ASSUME Inv, TypeInv, NEW w \in ScanWorkers, Scan(w)
    PROVE  QueueKept
  <1>1. CASE TakeJob(w)
    <2>1. PICK j \in JobIds :
            /\ queue[j] # Nil /\ queue[j].state = "waiting"
            /\ queue' = JobAs(j, [queue[j] EXCEPT !.state = "active", !.worker = w])
      BY <1>1 DEF TakeJob
    <2> DEFINE job == [queue[j] EXCEPT !.state = "active", !.worker = w]
    <2>2. job \in GoodJob
      BY <2>1 DEF TypeInv, QueueOK, GoodJob, ScanJob
    <2>3. queue' = JobAs(j, job)
      BY <2>1
    <2> HIDE DEF job
    <2> QED BY <2>2, <2>3, JobAsKept DEF TypeInv
  <1>2. CASE ~TakeJob(w)
    <2>1. pc[w] \in {"find", "download", "write"} /\ w \in Procs
      BY <1>2 DEF Scan, ScanFind, ScanDownload, ScanWrite, Procs
    <2>2. req[w].job \in JobIds /\ queue[req[w].job] # Nil
      BY <2>1 DEF Inv, LocalInv, WorkerKnows, TypeInv, LocalsOK, Stage, WorkerStage
    <2>3. \/ queue' = queue
          \/ queue' = Completed(w, req[w].job)
          \/ queue' = AttemptFailed(w, req[w].job)
      BY <1>2 DEF Scan, ScanFind, ScanDownload, ScanWrite, ThrowScan, ReturnScan
    <2> QED BY <2>2, <2>3, CompletedKept, AttemptFailedKept DEF TypeInv, QueueKept, QueueOK
  <1> QED BY <1>1, <1>2

(* What Redis does to a job by itself. *)
LEMMA RedisKeepsQueue ==
    ASSUME TypeInv, NEW j \in JobIds, JobBackoff(j) \/ JobStalls(j)
    PROVE  QueueKept
  <1>1. queue[j] # Nil /\ queue[j] \in GoodJob
    BY DEF JobBackoff, JobStalls, TypeInv, QueueOK
  <1>2. CASE JobBackoff(j)
    <2> DEFINE job == [queue[j] EXCEPT !.state = "waiting"]
    <2>1. job \in GoodJob /\ queue' = JobAs(j, job)
      BY <1>1, <1>2 DEF JobBackoff, GoodJob, ScanJob
    <2> HIDE DEF job
    <2> QED BY <2>1, JobAsKept DEF TypeInv
  <1>3. CASE JobStalls(j)
    <2> DEFINE again == [queue[j] EXCEPT !.state = "waiting", !.worker = Nil, !.stalls = @ + 1]
               over == [queue[j] EXCEPT !.state = "failed", !.worker = Nil]
    <2>1. queue[j].state = "active"
          /\ queue' = JobAs(j, IF queue[j].stalls < MaxStalls THEN again ELSE over)
      BY <1>3 DEF JobStalls
    <2>2. over \in GoodJob
      BY <1>1 DEF GoodJob, ScanJob
    <2>3. queue[j].stalls < MaxStalls => again \in GoodJob
      <3> SUFFICES ASSUME queue[j].stalls < MaxStalls PROVE again \in GoodJob
        OBVIOUS
      <3> DEFINE n == queue[j].stalls + 1
      <3>1. n \in 0..MaxStalls
        BY <1>1, BoundsAreNat DEF GoodJob, ScanJob
      <3>2. again = [queue[j] EXCEPT !.state = "waiting", !.worker = Nil, !.stalls = n]
        BY <1>1 DEF GoodJob, ScanJob
      <3> HIDE DEF n, again
      <3> QED BY <1>1, <2>1, <3>1, <3>2 DEF GoodJob, ScanJob
    <2> HIDE DEF again, over
    <2> QED BY <2>1, <2>2, <2>3, JobAsKept DEF TypeInv
  <1> QED BY <1>2, <1>3

LEMMA SameQueueKept == TypeInv /\ queue' = queue => QueueKept
  BY DEF TypeInv, QueueOK, QueueKept

(* A client only ever adds a job. *)
LEMMA ClientKeepsQueue ==
    ASSUME TypeInv, NEW c \in Clients, Serve(c)
    PROVE  QueueKept
  <1>1. CASE UploadPersist(c) \/ ReplacePersist(c)
    <2>1. PICK j : queue' \in {queue, Enqueued(j)}
      BY <1>1 DEF UploadPersist, ReplacePersist, PersistAndEnqueue, PersistFails
    <2> QED BY <2>1, EnqueuedKept DEF TypeInv
  <1>2. CASE ~(UploadPersist(c) \/ ReplacePersist(c))
    <2>1. queue' = queue
      BY <1>2 DEF Serve, UploadFind, ReplaceFind, CreateQuota, VerifyLimit, StoreBinary,
         Commit, Rollback, Compensate, DeleteFind, RenameFind, ChangeResourceFind,
         BeginUpdate, DeleteWrite, RenameWrite, ChangeResourceCheck, ChangeResourceWrite,
         AdjustLimitFind, AdjustLimitWrite
    <2> QED BY <2>1, SameQueueKept
  <1> QED BY <1>1, <1>2

LEMMA QueueStep ==
    ASSUME Inv, TypeInv, [Next]_vars
    PROVE  QueueKept
  <1>1. CASE Reconcile(Reconciler) \/ Purge(Purger) \/ Rescan(Rescanner)
    <2>1. queue' = queue
      BY <1>1 DEF Reconcile, Purge, Rescan, ReconcileRead, ReconcileList, DeleteBinary,
         MarkOrphan, PurgeList, RescanFind, RescanDownload, RescanWrite
    <2> QED BY <2>1, SameQueueKept
  <1>2. CASE (\E p \in Procs : Crash(p)) \/ UNCHANGED vars
    <2>1. queue' = queue
      BY <1>2 DEF Crash, vars
    <2> QED BY <2>1, SameQueueKept
  <1> QED BY <1>1, <1>2, ClientKeepsQueue, WorkerKeepsQueue, RedisKeepsQueue DEF Next

-----------------------------------------------------------------------------
(* The processes *)

LEMMA NoRequestTyped == NoRequest \in Request
  BY DEF NoRequest, Request

(* Process p moves on with other locals, and the other processes stay. *)
Sets(p, label, r) == /\ pc' = [pc EXCEPT ![p] = label]
                     /\ req' = [req EXCEPT ![p] = r]

LEMMA SetsKeepsLocals ==
    ASSUME Inv, TypeInv, QueueKept, NEW p \in Procs, NEW label \in Labels, NEW r \in Request,
           Sets(p, label, r),
           p \in Clients =>
              /\ label \in {"verify", "store", "persist", "compensate"} =>
                    r.op \in {"upload", "replace"}
              /\ label = "commit" => r.op \in {"upload", "replace", "delete"}
              /\ label = "idle" => r.op = Nil
              /\ r.op = "adjustLimit" => r.quota \in Quota,
           p \in ScanWorkers =>
              (label \in {"find", "download", "write"} => queue'[r.job] # Nil)
    PROVE  LocalsOK'
  <1>1. req' \in [Procs -> Request] /\ pc' \in [Procs -> Labels]
    BY DEF Sets, TypeInv, LocalsOK
  <1>2. /\ req'[p] = r /\ pc'[p] = label
        /\ \A q \in Procs \ {p} : req'[q] = req[q] /\ pc'[q] = pc[q]
    BY DEF Sets, TypeInv, LocalsOK
  <1>3. ASSUME NEW q \in Procs PROVE Stage(q)'
    <2>1. CASE q = p
      BY <1>2, <2>1 DEF Stage, ClientStage, WorkerStage, Writing
    <2>2. CASE q # p
      <3>1. q \in Clients => ClientStage(q)'
        BY <1>2, <1>3, <2>2 DEF TypeInv, LocalsOK, Stage, ClientStage, Writing
      <3>2. q \in ScanWorkers => WorkerStage(q)'
        BY <1>2, <1>3, <2>2 DEF TypeInv, LocalsOK, Stage, WorkerStage, QueueKept, Inv,
           LocalInv, WorkerKnows
      <3> QED BY <3>1, <3>2 DEF Stage
    <2> QED BY <2>1, <2>2
  <1> QED BY <1>1, <1>3 DEF LocalsOK

LEMMA FinishKeepsLocals ==
    ASSUME Inv, TypeInv, QueueKept, NEW p \in Procs, Finish(p)
    PROVE  LocalsOK'
  <1>1. Sets(p, "idle", NoRequest) /\ NoRequest.op = Nil
    BY DEF Finish, Goto, Sets, NoRequest
  <1>2. NoRequest.op # "adjustLimit"
    BY <1>1, NilIsNoOp DEF AllOps
  <1> HIDE DEF NoRequest
  <1> QED BY <1>1, <1>2, NoRequestTyped, SetsKeepsLocals DEF Labels

(* A client that goes on with the same locals. *)
LEMMA GotoKeepsLocals ==
    ASSUME Inv, TypeInv, QueueKept, NEW c \in Clients, NEW label \in Labels,
           Goto(c, label), req' = req, label # "idle",
           label \in {"verify", "store", "persist", "compensate"} => Writing(c),
           label = "commit" => req[c].op \in {"upload", "replace", "delete"}
    PROVE  LocalsOK'
  <1>1. c \in Procs /\ req[c] \in Request /\ c \notin ScanWorkers
    BY RolesAreDistinct DEF Procs, TypeInv, LocalsOK
  <1>2. Sets(c, label, req[c])
    BY <1>1 DEF Sets, Goto, TypeInv, LocalsOK
  <1>3. req[c].op = "adjustLimit" => req[c].quota \in Quota
    BY <1>1 DEF TypeInv, LocalsOK, Stage, ClientStage
  <1> QED BY <1>1, <1>2, <1>3, SetsKeepsLocals DEF Writing

LEMMA StayKeepsLocals ==
    ASSUME Inv, TypeInv, QueueKept, pc' = pc, req' = req
    PROVE  LocalsOK'
  <1>1. ASSUME NEW q \in Procs PROVE Stage(q)'
    <2>1. q \in Clients => ClientStage(q)'
      BY <1>1 DEF TypeInv, LocalsOK, Stage, ClientStage, Writing
    <2>2. q \in ScanWorkers => WorkerStage(q)'
      BY <1>1 DEF TypeInv, LocalsOK, Stage, WorkerStage, QueueKept, Inv, LocalInv, WorkerKnows
    <2> QED BY <2>1, <2>2 DEF Stage
  <1> QED BY <1>1 DEF TypeInv, LocalsOK

LEMMA UploadFindLocals ==
    ASSUME Inv, TypeInv, QueueKept, NEW c \in Clients, UploadFind(c)
    PROVE  LocalsOK'
  <1>1. PICK f \in Files \ issued, slot \in Slots, name \in NamesOf[c], content \in Contents :
            req' = [req EXCEPT ![c] = [NoRequest EXCEPT
                    !.op = "upload", !.file = f, !.slot = slot,
                    !.version = [key |-> StorageKey(f, 1, name),
                                 content |-> content, scan |-> "NONE"]]]
    BY DEF UploadFind
  <1> DEFINE v == [key |-> StorageKey(f, 1, name), content |-> content, scan |-> "NONE"]
             r == [NoRequest EXCEPT !.op = "upload", !.file = f, !.slot = slot, !.version = v]
  <1>2. v \in Version
    BY KeyTyped, NamesAreNames, BoundsAreNat
  <1>3. c \in Procs /\ c \notin ScanWorkers /\ Sets(c, "verify", r)
    BY <1>1, RolesAreDistinct DEF UploadFind, Goto, Sets, Procs
  <1> HIDE DEF v
  <1>4. r \in Request /\ r.op = "upload"
    BY <1>2 DEF NoRequest, Request, AllOps
  <1> HIDE DEF r
  <1> QED BY <1>3, <1>4, SetsKeepsLocals DEF Labels

LEMMA ReplaceFindLocals ==
    ASSUME Inv, TypeInv, QueueKept, NEW c \in Clients, ReplaceFind(c)
    PROVE  LocalsOK'
  <1>1. PICK f \in Files, name \in NamesOf[c], content \in Contents :
            /\ Judged(files[f])
            /\ Len(files[f].versions) < MaxVersions
            /\ req' = [req EXCEPT ![c] = [NoRequest EXCEPT
                    !.op = "replace", !.file = f,
                    !.version = [key |-> StorageKey(f, Len(files[f].versions) + 1, name),
                                 content |-> content, scan |-> "NONE"]]]
    BY DEF ReplaceFind
  <1> DEFINE n == Len(files[f].versions) + 1
             v == [key |-> StorageKey(f, n, name), content |-> content, scan |-> "NONE"]
             r == [NoRequest EXCEPT !.op = "replace", !.file = f, !.version = v]
  <1>2. n \in 1..MaxVersions
    BY <1>1, BoundsAreNat DEF Inv, RowInv, FilesOK, GoodRow, Row, Judged
  <1>3. c \in Procs /\ c \notin ScanWorkers /\ Sets(c, "verify", r)
    BY <1>1, RolesAreDistinct DEF ReplaceFind, Goto, Sets, Procs
  <1> HIDE DEF n
  <1>4. v \in Version
    BY <1>2, KeyTyped, NamesAreNames
  <1> HIDE DEF v
  <1>5. r \in Request /\ r.op = "replace"
    BY <1>4 DEF NoRequest, Request, AllOps
  <1> HIDE DEF r
  <1> QED BY <1>3, <1>5, SetsKeepsLocals DEF Labels

LEMMA BeginUpdateLocals ==
    ASSUME Inv, TypeInv, QueueKept, NEW c \in Clients,
           NEW op \in {"delete", "rename", "changeResource"}, NEW f \in Files,
           NEW slot \in Slots \cup {Nil}, NEW label \in {"write", "check"},
           BeginUpdate(c, op, f, slot, label)
    PROVE  LocalsOK'
  <1> DEFINE r == [NoRequest EXCEPT !.op = op, !.file = f, !.slot = slot]
  <1>1. c \in Procs /\ c \notin ScanWorkers /\ Sets(c, label, r)
    BY RolesAreDistinct DEF BeginUpdate, Goto, Sets, Procs
  <1>2. r \in Request /\ r.op = op
    BY DEF NoRequest, Request, AllOps
  <1> HIDE DEF r
  <1> QED BY <1>1, <1>2, SetsKeepsLocals DEF Labels

LEMMA AdjustLimitFindLocals ==
    ASSUME Inv, TypeInv, QueueKept, NEW c \in Clients, AdjustLimitFind(c)
    PROVE  LocalsOK'
  <1>1. PICK limit \in Limits :
            req' = [req EXCEPT ![c] = [NoRequest EXCEPT
                    !.op = "adjustLimit", !.quota = [quota EXCEPT !.limit = limit]]]
    BY DEF AdjustLimitFind
  <1> DEFINE q == [quota EXCEPT !.limit = limit]
             r == [NoRequest EXCEPT !.op = "adjustLimit", !.quota = q]
  <1>2. q \in Quota
    BY LimitsArePositive DEF AdjustLimitFind, TypeInv, QuotaOK, Quota
  <1>3. c \in Procs /\ c \notin ScanWorkers /\ Sets(c, "write", r)
    BY <1>1, RolesAreDistinct DEF AdjustLimitFind, Goto, Sets, Procs
  <1> HIDE DEF q
  <1>4. r \in Request /\ r.quota \in Quota
    BY <1>2 DEF NoRequest, Request, AllOps
  <1>5. r.op = "adjustLimit"
    BY DEF NoRequest
  <1> HIDE DEF r
  <1> QED BY <1>3, <1>4, <1>5, SetsKeepsLocals DEF Labels

LEMMA WriterLocals ==
    ASSUME Inv, TypeInv, QueueKept, NEW c \in Clients,
           \/ VerifyLimit(c) \/ StoreBinary(c) \/ UploadPersist(c) \/ ReplacePersist(c)
           \/ Commit(c) \/ Rollback(c) \/ Compensate(c)
    PROVE  LocalsOK'
  <1>1. /\ c \in Procs
        /\ pc[c] \in {"verify", "store", "persist", "compensate"} => Writing(c)
        /\ pc[c] = "commit" => req[c].op \in {"upload", "replace", "delete"}
    BY DEF Procs, TypeInv, LocalsOK, Stage, ClientStage
  <1>2. CASE Finish(c)
    BY <1>1, <1>2, FinishKeepsLocals
  <1>3. CASE ~Finish(c)
    <2>1. PICK label \in {"store", "persist", "commit", "compensate"} :
            Goto(c, label) /\ req' = req /\ Writing(c)
      <3>1. CASE VerifyLimit(c)
        BY <1>1, <1>3, <3>1 DEF VerifyLimit
      <3>2. CASE StoreBinary(c)
        BY <1>1, <1>3, <3>2 DEF StoreBinary
      <3>3. CASE UploadPersist(c) \/ ReplacePersist(c)
        BY <1>1, <3>3 DEF UploadPersist, ReplacePersist, At, PersistAndEnqueue, PersistFails
      <3>4. CASE Commit(c) \/ Rollback(c)
        BY <1>1, <1>3, <3>4 DEF Commit, Rollback, Writing
      <3>5. CASE Compensate(c)
        BY <1>3, <3>5 DEF Compensate
      <3> QED BY <3>1, <3>2, <3>3, <3>4, <3>5
    <2> QED BY <2>1, GotoKeepsLocals DEF Labels, Writing
  <1> QED BY <1>2, <1>3

LEMMA UpdaterLocals ==
    ASSUME Inv, TypeInv, QueueKept, NEW c \in Clients,
           \/ CreateQuota(c) \/ DeleteWrite(c) \/ RenameWrite(c) \/ ChangeResourceCheck(c)
           \/ ChangeResourceWrite(c) \/ AdjustLimitWrite(c)
    PROVE  LocalsOK'
  <1>1. CASE Finish(c)
    BY <1>1, FinishKeepsLocals DEF Procs
  <1>2. CASE CreateQuota(c)
    BY <1>2, StayKeepsLocals DEF CreateQuota
  <1>3. CASE ~Finish(c) /\ ~CreateQuota(c)
    <2>1. \/ Goto(c, "commit") /\ req' = req /\ req[c].op = "delete"
          \/ Goto(c, "write") /\ req' = req
      BY <1>3 DEF DeleteWrite, RenameWrite, ChangeResourceCheck, ChangeResourceWrite,
         AdjustLimitWrite, At
    <2> QED BY <2>1, GotoKeepsLocals DEF Labels
  <1> QED BY <1>1, <1>2, <1>3

LEMMA ServeLocals ==
    ASSUME Inv, TypeInv, QueueKept, NEW c \in Clients, Serve(c)
    PROVE  LocalsOK'
  <1>1. CASE DeleteFind(c) \/ RenameFind(c)
    <2>1. PICK op \in {"delete", "rename"}, f \in Files : BeginUpdate(c, op, f, Nil, "write")
      BY <1>1 DEF DeleteFind, RenameFind
    <2> QED BY <2>1, BeginUpdateLocals
  <1>2. CASE ChangeResourceFind(c)
    BY <1>2, BeginUpdateLocals DEF ChangeResourceFind
  <1> QED BY <1>1, <1>2, UploadFindLocals, ReplaceFindLocals, AdjustLimitFindLocals,
             WriterLocals, UpdaterLocals DEF Serve

LEMMA ScanLocals ==
    ASSUME Inv, TypeInv, QueueKept, NEW w \in ScanWorkers, Scan(w)
    PROVE  LocalsOK'
  <1>1. w \in Procs /\ w \notin Clients
    BY RolesAreDistinct DEF Procs
  <1>2. CASE Finish(w)
    BY <1>1, <1>2, FinishKeepsLocals
  <1>3. CASE TakeJob(w)
    <2>1. PICK j \in JobIds :
            /\ queue[j] # Nil
            /\ req' = [req EXCEPT ![w] = [NoRequest EXCEPT !.job = j]]
      BY <1>3 DEF TakeJob
    <2> DEFINE r == [NoRequest EXCEPT !.job = j]
    <2>2. Sets(w, "find", r)
      BY <1>3, <2>1 DEF TakeJob, Goto, Sets
    <2>3. r \in Request /\ r.job = j
      BY DEF NoRequest, Request
    <2>4. queue'[j] # Nil
      BY <2>1 DEF QueueKept
    <2> HIDE DEF r
    <2> QED BY <1>1, <2>2, <2>3, <2>4, SetsKeepsLocals DEF Labels
  <1>4. CASE ~Finish(w) /\ ~TakeJob(w)
    <2>1. pc[w] \in {"find", "download", "write"}
      BY <1>4 DEF Scan, ScanFind, ScanDownload, ScanWrite
    <2>2. req[w].job \in JobIds /\ queue[req[w].job] # Nil /\ req[w] \in Request
      BY <1>1, <2>1 DEF Inv, LocalInv, WorkerKnows, TypeInv, LocalsOK, Stage, WorkerStage
    <2>3. queue'[req[w].job] # Nil
      BY <2>2 DEF QueueKept
    <2>4. CASE Goto(w, "download") /\ req' = req
      <3>1. Sets(w, "download", req[w])
        BY <1>1, <2>4 DEF Sets, Goto, TypeInv, LocalsOK
      <3> QED BY <1>1, <2>2, <2>3, <3>1, SetsKeepsLocals DEF Labels
    <2>5. CASE ScanDownload(w)
      <3>1. PICK verdict \in Verdicts :
              req' = [req EXCEPT ![w] = [NoRequest EXCEPT
                          !.job = req[w].job, !.verdict = verdict]]
        BY <1>4, <2>5 DEF ScanDownload, ThrowScan
      <3> DEFINE r == [NoRequest EXCEPT !.job = req[w].job, !.verdict = verdict]
      <3>2. r \in Request /\ r.job = req[w].job
        BY <2>2, KnownSwitches DEF NoRequest, Request
      <3>3. Sets(w, "write", r)
        BY <1>4, <2>5, <3>1 DEF ScanDownload, ThrowScan, Sets, Goto
      <3> HIDE DEF r
      <3> QED BY <1>1, <2>3, <3>2, <3>3, SetsKeepsLocals DEF Labels
    <2> QED BY <1>4, <2>4, <2>5 DEF Scan, ScanFind, ScanWrite, ThrowScan, ReturnScan
  <1> QED BY <1>2, <1>3, <1>4

(* The keys of a typed row are keys. *)
LEMMA KeysTyped ==
    ASSUME NEW row \in GoodRow
    PROVE  KeysOf(row) \subseteq Keys
  <1>1. row.versions \in Seq(Version)
    BY DEF GoodRow, Row
  <1>2. \A i \in DOMAIN row.versions : row.versions[i] \in Version
    BY <1>1
  <1>3. \A v \in Version : v.key \in Keys
    BY DEF Version
  <1> QED BY <1>2, <1>3 DEF KeysOf

LEMMA ContinueLocals ==
    ASSUME Inv, TypeInv, QueueKept, NEW r \in Jobs, NEW keys \in SUBSET Keys,
           NEW batch \in SUBSET Files, Continue(r, keys, batch)
    PROVE  LocalsOK'
  <1>1. r \in Procs /\ r \notin Clients /\ r \notin ScanWorkers
    BY RolesAreDistinct DEF Procs
  <1>2. CASE Finish(r)
    BY <1>1, <1>2, FinishKeepsLocals
  <1>3. CASE ~Finish(r)
    <2> DEFINE q == [NoRequest EXCEPT !.keys = keys, !.batch = batch]
    <2>1. Sets(r, "work", q)
      BY <1>3 DEF Continue, Goto, Sets
    <2>2. q \in Request
      BY DEF NoRequest, Request
    <2> HIDE DEF q
    <2> QED BY <1>1, <2>1, <2>2, SetsKeepsLocals DEF Labels
  <1> QED BY <1>2, <1>3

LEMMA StoreJobLocals ==
    ASSUME Inv, TypeInv, QueueKept, NEW r \in Jobs, r # Rescanner,
           ReconcileRead(r) \/ ReconcileList(r) \/ DeleteBinary(r) \/ MarkOrphan(r) \/ PurgeList(r)
    PROVE  LocalsOK'
  <1>1. /\ r \in Procs /\ r \notin Clients /\ r \notin ScanWorkers
        /\ req[r] \in Request /\ req[r].keys \in SUBSET Keys /\ req[r].batch \in SUBSET Files
    BY RolesAreDistinct DEF Procs, TypeInv, LocalsOK, Request
  <1>2. CASE Finish(r)
    BY <1>1, <1>2, FinishKeepsLocals
  <1>3. CASE ReconcileRead(r)
    <2>1. Sets(r, "list", req[r])
      BY <1>3 DEF ReconcileRead, Goto, Sets, TypeInv, LocalsOK
    <2> QED BY <1>1, <2>1, SetsKeepsLocals DEF Labels
  <1>4. CASE ReconcileList(r)
    <2>1. PICK keys, batch : /\ Continue(r, keys, batch)
                             /\ keys \subseteq Stored(storage) /\ batch \subseteq Files
      <3> DEFINE rows == {f \in Files : seen[r][f] # Nil}
                 known == UNION {KeysOf(seen[r][f]) : f \in rows}
                 lost == {f \in rows : /\ Live(seen[r][f])
                                       /\ KeysOf(seen[r][f]) \cap Stored(storage) = {}}
      <3>1. Continue(r, Stored(storage) \ known, lost)
        BY <1>4 DEF ReconcileList
      <3>2. lost \subseteq Files
        OBVIOUS
      <3> HIDE DEF known, lost
      <3> QED BY <3>1, <3>2
    <2>2. keys \in SUBSET Keys
      BY <2>1 DEF Stored
    <2> QED BY <2>1, <2>2, ContinueLocals
  <1>5. CASE DeleteBinary(r)
    <2>1. PICK k : Continue(r, req[r].keys \ {k}, req[r].batch) \/ Finish(r)
      BY <1>5 DEF DeleteBinary
    <2>2. req[r].keys \ {k} \in SUBSET Keys
      BY <1>1
    <2> QED BY <1>1, <1>2, <2>1, <2>2, ContinueLocals
  <1>6. CASE MarkOrphan(r)
    <2>1. PICK f : Continue(r, {}, req[r].batch \ {f}) \/ Finish(r)
      BY <1>6 DEF MarkOrphan
    <2>2. req[r].batch \ {f} \in SUBSET Files
      BY <1>1
    <2> QED BY <1>2, <2>1, <2>2, ContinueLocals
  <1>7. CASE PurgeList(r)
    <2>1. PICK old \in SUBSET {f \in Files : files[f] # Nil /\ ~Live(files[f])} :
            LET stored == {f \in old : KeysOf(files[f]) \cap Stored(storage) # {}}
            IN  Continue(r, UNION {KeysOf(files[f]) : f \in stored}, {})
      BY <1>7 DEF PurgeList
    <2> DEFINE stored == {f \in old : KeysOf(files[f]) \cap Stored(storage) # {}}
               keys == UNION {KeysOf(files[f]) : f \in stored}
    <2>2. Continue(r, keys, {})
      BY <2>1
    <2>3. \A f \in stored : KeysOf(files[f]) \subseteq Keys
      BY KeysTyped DEF Inv, RowInv, FilesOK
    <2>4. keys \in SUBSET Keys
      <3> HIDE DEF stored
      <3> QED BY <2>3
    <2> HIDE DEF keys
    <2> QED BY <2>2, <2>4, ContinueLocals
  <1> QED BY <1>3, <1>4, <1>5, <1>6, <1>7

LEMMA RescanLocals ==
    ASSUME Inv, TypeInv, QueueKept, Rescan(Rescanner)
    PROVE  LocalsOK'
  <1> DEFINE r == Rescanner
  <1>1. /\ r \in Procs /\ r \notin Clients /\ r \notin ScanWorkers
        /\ req[r] \in Request /\ req[r].batch \in SUBSET Files
    BY RolesAreDistinct DEF Procs, Jobs, TypeInv, LocalsOK, Request
  <1> HIDE DEF r
  <1>2. CASE Finish(r)
    BY <1>1, <1>2, FinishKeepsLocals
  <1>3. CASE RescanFind(r)
    <2>1. PICK old \in SUBSET Files : req' = [req EXCEPT ![r] = [NoRequest EXCEPT !.batch = old]]
      BY <1>3 DEF RescanFind
    <2> DEFINE q == [NoRequest EXCEPT !.batch = old]
    <2>2. q \in Request
      BY DEF NoRequest, Request
    <2>3. Sets(r, "download", q)
      BY <1>3, <2>1 DEF RescanFind, Goto, Sets
    <2> HIDE DEF q
    <2> QED BY <1>1, <2>2, <2>3, SetsKeepsLocals DEF Labels
  <1>4. CASE RescanDownload(r) /\ ~Finish(r)
    <2>1. PICK f \in req[r].batch, verdict \in Verdicts :
            req' = [req EXCEPT ![r] = [NoRequest EXCEPT
                        !.batch = req[r].batch, !.file = f, !.verdict = verdict]]
      BY <1>4 DEF RescanDownload
    <2> DEFINE q == [NoRequest EXCEPT !.batch = req[r].batch, !.file = f, !.verdict = verdict]
    <2>2. q \in Request
      BY <1>1, KnownSwitches DEF NoRequest, Request
    <2>3. Sets(r, "write", q)
      BY <1>4, <2>1 DEF RescanDownload, Goto, Sets
    <2> HIDE DEF q
    <2> QED BY <1>1, <2>2, <2>3, SetsKeepsLocals DEF Labels
  <1>5. CASE RescanWrite(r) /\ ~Finish(r)
    <2> DEFINE rest == req[r].batch \ {req[r].file}
               q == [NoRequest EXCEPT !.batch = rest]
    <2>1. Sets(r, "download", q)
      BY <1>5 DEF RescanWrite, Goto, Sets
    <2>2. rest \in SUBSET Files
      BY <1>1
    <2> HIDE DEF rest
    <2>3. q \in Request
      BY <2>2 DEF NoRequest, Request
    <2> HIDE DEF q
    <2> QED BY <1>1, <2>1, <2>3, SetsKeepsLocals DEF Labels
  <1> QED BY <1>2, <1>3, <1>4, <1>5 DEF Rescan, r

LEMMA LocalsStep ==
    ASSUME Inv, TypeInv, [Next]_vars
    PROVE  LocalsOK'
  <1>1. QueueKept
    BY QueueStep
  <1>2. CASE UNCHANGED vars
    BY <1>1, <1>2, StayKeepsLocals DEF vars
  <1>3. CASE \E j \in JobIds : JobBackoff(j) \/ JobStalls(j)
    BY <1>1, <1>3, StayKeepsLocals DEF JobBackoff, JobStalls
  <1>4. CASE \E p \in Procs : Crash(p)
    BY <1>1, <1>4, FinishKeepsLocals DEF Crash
  <1>5. CASE Reconcile(Reconciler) \/ Purge(Purger)
    BY <1>1, <1>5, StoreJobLocals, RolesAreDistinct DEF Reconcile, Purge, Jobs
  <1> QED BY <1>1, <1>2, <1>3, <1>4, <1>5, ServeLocals, ScanLocals, RescanLocals DEF Next

-----------------------------------------------------------------------------
(* The binary store and the identifiers *)

LEMMA WriterHasVersion ==
    ASSUME Inv, NEW c \in Clients, Writing(c)
    PROVE  /\ req[c].version \in Version /\ req[c].version.scan = "NONE"
           /\ KeyOf(c) \in Keys /\ req[c].version.content \in Contents
           /\ req[c].file \in Files
  <1>1. req[c].version \in Version /\ req[c].version.scan = "NONE" /\ req[c].file \in Files
    BY DEF Inv, LocalInv, ClientKnows, Writing
  <1> QED BY <1>1 DEF Version, KeyOf

(* What a step may do to the store: a client puts or removes its binary, or *)
(* a maintenance job removes one of those it has listed.                    *)
StoresFor(c) == /\ pc[c] = "store" /\ Writing(c)
                /\ storage' = Put(KeyOf(c), req[c].version.content)
RemovesFor(c) == pc[c] = "compensate" /\ Writing(c) /\ storage' = Without(KeyOf(c))
Sweeps(r, k) == k \in req[r].keys /\ storage' = Without(k)

LEMMA StorageStep ==
    ASSUME TypeInv, [Next]_vars
    PROVE  \/ storage' = storage
           \/ \E c \in Clients : StoreBinary(c) /\ StoresFor(c)
           \/ \E c \in Clients : Compensate(c) /\ RemovesFor(c)
           \/ \E r \in {Reconciler, Purger} : DeleteBinary(r) /\ \E k : Sweeps(r, k)
  <1>1. ASSUME NEW c \in Clients, Serve(c), storage' # storage
        PROVE  \/ StoreBinary(c) /\ StoresFor(c)
               \/ Compensate(c) /\ RemovesFor(c)
    <2>1. StoreBinary(c) \/ Compensate(c)
      BY <1>1 DEF Serve, UploadFind, ReplaceFind, CreateQuota, VerifyLimit, UploadPersist,
         ReplacePersist, PersistAndEnqueue, PersistFails, Commit, Rollback, DeleteFind,
         RenameFind, ChangeResourceFind, BeginUpdate, DeleteWrite, RenameWrite,
         ChangeResourceCheck, ChangeResourceWrite, AdjustLimitFind, AdjustLimitWrite
    <2>2. pc[c] \in {"store", "compensate"} => Writing(c)
      BY DEF TypeInv, LocalsOK, Stage, ClientStage, Procs
    <2>3. CASE StoreBinary(c)
      BY <1>1, <2>2, <2>3 DEF StoreBinary, StoresFor, KeyOf
    <2>4. CASE Compensate(c)
      BY <1>1, <2>2, <2>4 DEF Compensate, RemovesFor, KeyOf
    <2> QED BY <2>1, <2>3, <2>4
  <1>2. ASSUME NEW w \in ScanWorkers, Scan(w) PROVE storage' = storage
    BY <1>2 DEF Scan, TakeJob, ScanFind, ScanDownload, ScanWrite
  <1>3. ASSUME NEW j \in JobIds, JobBackoff(j) \/ JobStalls(j) PROVE storage' = storage
    BY <1>3 DEF JobBackoff, JobStalls
  <1>4. ASSUME NEW r \in {Reconciler, Purger}, Reconcile(r) \/ Purge(r), storage' # storage
        PROVE  DeleteBinary(r) /\ \E k : Sweeps(r, k)
    <2>1. DeleteBinary(r)
      BY <1>4 DEF Reconcile, Purge, ReconcileRead, ReconcileList, MarkOrphan, PurgeList
    <2> QED BY <1>4, <2>1 DEF DeleteBinary, Sweeps
  <1>5. CASE Rescan(Rescanner)
    BY <1>5 DEF Rescan, RescanFind, RescanDownload, RescanWrite
  <1>6. CASE (\E p \in Procs : Crash(p)) \/ UNCHANGED vars
    BY <1>6 DEF Crash, vars
  <1> QED BY <1>1, <1>2, <1>3, <1>4, <1>5, <1>6 DEF Next

LEMMA StorageTyped ==
    ASSUME Inv, TypeInv, [Next]_vars
    PROVE  storage' \in [Keys -> Contents \cup {Nil}]
  <1>1. storage \in [Keys -> Contents \cup {Nil}]
    BY DEF TypeInv
  <1>2. ASSUME NEW k PROVE Without(k) \in [Keys -> Contents \cup {Nil}]
    BY <1>1 DEF Without
  <1>3. ASSUME NEW c \in Clients, StoresFor(c)
        PROVE  storage' \in [Keys -> Contents \cup {Nil}]
    BY <1>1, <1>3, WriterHasVersion DEF StoresFor, Put
  <1> QED BY <1>1, <1>2, <1>3, StorageStep DEF RemovesFor, Sweeps

(* Identifiers are handed out one at a time, by uploads. *)
LEMMA IssuedStep ==
    ASSUME [Next]_vars
    PROVE  \/ issued' = issued
           \/ \E c \in Clients, f \in Files : UploadFind(c) /\ issued' = issued \cup {f}
  <1>1. ASSUME NEW c \in Clients, Serve(c), issued' # issued PROVE UploadFind(c)
    BY <1>1 DEF Serve, ReplaceFind, CreateQuota, VerifyLimit, StoreBinary, UploadPersist,
       ReplacePersist, PersistAndEnqueue, PersistFails, Commit, Rollback, Compensate,
       DeleteFind, RenameFind, ChangeResourceFind, BeginUpdate, DeleteWrite, RenameWrite,
       ChangeResourceCheck, ChangeResourceWrite, AdjustLimitFind, AdjustLimitWrite
  <1>2. ASSUME NEW w \in ScanWorkers, Scan(w) PROVE issued' = issued
    BY <1>2 DEF Scan, TakeJob, ScanFind, ScanDownload, ScanWrite
  <1>3. ASSUME NEW j \in JobIds, JobBackoff(j) \/ JobStalls(j) PROVE issued' = issued
    BY <1>3 DEF JobBackoff, JobStalls
  <1>4. CASE Reconcile(Reconciler) \/ Purge(Purger) \/ Rescan(Rescanner)
    BY <1>4 DEF Reconcile, Purge, Rescan, ReconcileRead, ReconcileList, DeleteBinary,
       MarkOrphan, PurgeList, RescanFind, RescanDownload, RescanWrite
  <1>5. CASE (\E p \in Procs : Crash(p)) \/ UNCHANGED vars
    BY <1>5 DEF Crash, vars
  <1>6. ASSUME NEW c \in Clients, UploadFind(c)
        PROVE  \E f \in Files : issued' = issued \cup {f}
    BY <1>6 DEF UploadFind
  <1> QED BY <1>1, <1>2, <1>3, <1>4, <1>5, <1>6 DEF Next

LEMMA IssuedTyped ==
    ASSUME TypeInv, [Next]_vars
    PROVE  issued' \subseteq Files /\ IsFiniteSet(issued')
  BY IssuedStep, FS_AddElement DEF TypeInv

-----------------------------------------------------------------------------
(* Who moves in a step *)

StepOf(p) == \/ p \in Clients /\ Serve(p)
             \/ p \in ScanWorkers /\ Scan(p)
             \/ p = Reconciler /\ Reconcile(p)
             \/ p = Purger /\ Purge(p)
             \/ p = Rescanner /\ Rescan(p)
             \/ Crash(p)
Stays(p) == pc'[p] = pc[p] /\ req'[p] = req[p] /\ seen'[p] = seen[p]

LEMMA ServeFrame ==
    ASSUME Inv, NEW c \in Clients, Serve(c), NEW q \in Procs, q # c
    PROVE  Stays(q)
  <1>1. /\ DOMAIN pc = Procs /\ DOMAIN req = Procs
        /\ seen \in [Procs -> [Files -> GoodRow \cup {Nil}]]
    BY DEF Inv, LocalInv, RowInv, SeenOK
  <1>2. CASE \/ UploadFind(c) \/ ReplaceFind(c) \/ CreateQuota(c) \/ VerifyLimit(c)
             \/ StoreBinary(c) \/ UploadPersist(c) \/ ReplacePersist(c)
    BY <1>1, <1>2 DEF UploadFind, ReplaceFind, CreateQuota, VerifyLimit, StoreBinary,
       UploadPersist, ReplacePersist, PersistAndEnqueue, PersistFails, Goto, Finish, Read, Stays
  <1>3. CASE \/ Commit(c) \/ Rollback(c) \/ Compensate(c) \/ DeleteFind(c) \/ DeleteWrite(c)
             \/ RenameFind(c) \/ RenameWrite(c)
    BY <1>1, <1>3 DEF Commit, Rollback, Compensate, DeleteFind, DeleteWrite, RenameFind,
       RenameWrite, BeginUpdate, Goto, Finish, Read, Stays
  <1>4. CASE \/ ChangeResourceFind(c) \/ ChangeResourceCheck(c) \/ ChangeResourceWrite(c)
             \/ AdjustLimitFind(c) \/ AdjustLimitWrite(c)
    BY <1>1, <1>4 DEF ChangeResourceFind, ChangeResourceCheck, ChangeResourceWrite,
       AdjustLimitFind, AdjustLimitWrite, BeginUpdate, Goto, Finish, Read, Stays
  <1> QED BY <1>2, <1>3, <1>4 DEF Serve

LEMMA OtherFrame ==
    ASSUME Inv, NEW p \in Procs, StepOf(p), p \notin Clients \/ ~Serve(p),
           NEW q \in Procs, q # p
    PROVE  Stays(q)
  <1>1. /\ DOMAIN pc = Procs /\ DOMAIN req = Procs
        /\ seen \in [Procs -> [Files -> GoodRow \cup {Nil}]]
    BY DEF Inv, LocalInv, RowInv, SeenOK
  <1>2. CASE Scan(p)
    BY <1>1, <1>2 DEF Scan, TakeJob, ScanFind, ScanDownload, ScanWrite, ThrowScan, ReturnScan,
       Goto, Finish, Read, Stays
  <1>3. CASE Reconcile(p) \/ Purge(p)
    BY <1>1, <1>3 DEF Reconcile, Purge, ReconcileRead, ReconcileList, DeleteBinary, MarkOrphan,
       PurgeList, Continue, Goto, Finish, Stays
  <1>4. CASE Rescan(p)
    BY <1>1, <1>4 DEF Rescan, RescanFind, RescanDownload, RescanWrite, Goto, Finish, Stays
  <1>5. CASE Crash(p)
    BY <1>1, <1>5 DEF Crash, Goto, Finish, Stays
  <1> QED BY <1>2, <1>3, <1>4, <1>5 DEF StepOf

LEMMA Frame ==
    ASSUME Inv, [Next]_vars
    PROVE  \/ /\ \A q \in Procs : Stays(q)
              /\ \/ UNCHANGED vars
                 \/ \E j \in JobIds : JobBackoff(j) \/ JobStalls(j)
           \/ \E p \in Procs : StepOf(p) /\ \A q \in Procs \ {p} : Stays(q)
  <1>1. CASE UNCHANGED vars
    BY <1>1 DEF vars, Stays
  <1>2. CASE \E j \in JobIds : JobBackoff(j) \/ JobStalls(j)
    BY <1>2 DEF JobBackoff, JobStalls, Stays
  <1>3. ASSUME NEW p \in Procs, StepOf(p)
        PROVE  \A q \in Procs \ {p} : Stays(q)
    BY <1>3, ServeFrame, OtherFrame
  <1> QED BY <1>1, <1>2, <1>3 DEF Next, StepOf, Procs, Jobs

(* A client moves by a step of its own alone. *)
LEMMA ClientMoves ==
    ASSUME Inv, [Next]_vars, NEW c \in Clients, ~Serve(c), ~Crash(c)
    PROVE  Stays(c)
  BY Frame, RolesAreDistinct DEF StepOf, Procs, Jobs

-----------------------------------------------------------------------------
(* The quota *)

SizesOf(row) == [i \in DOMAIN row.versions |-> SizeOf[row.versions[i].content]]

LEMMA RowSizes ==
    ASSUME NEW row \in GoodRow
    PROVE  /\ TotalSize(row) = SumFunctionOnSet(SizesOf(row), 1..Len(row.versions))
           /\ DOMAIN row.versions = 1..Len(row.versions)
           /\ Len(row.versions) \in Nat \ {0} /\ IsFiniteSet(1..Len(row.versions))
           /\ \A i \in 1..Len(row.versions) :
                 /\ row.versions[i] \in Version
                 /\ SizesOf(row)[i] = SizeOf[row.versions[i].content]
                 /\ SizesOf(row)[i] \in Nat
           /\ Latest(row) \in Version /\ SizeOf[Latest(row).content] \in Nat
  <1> DEFINE n == Len(row.versions)
  <1>1. row.versions \in Seq(Version) /\ row.versions # <<>>
    BY DEF GoodRow, Row, Consistent
  <1>2. /\ DOMAIN row.versions = 1..n /\ n \in Nat \ {0}
        /\ \A i \in 1..n : row.versions[i] \in Version
    BY <1>1
  <1>3. IsFiniteSet(1..n)
    BY <1>2, FS_Interval
  <1>4. \A v \in Version : SizeOf[v.content] \in Nat
    BY SizesAreNat DEF Version
  <1>5. \A i \in 1..n : /\ SizesOf(row)[i] = SizeOf[row.versions[i].content]
                       /\ SizesOf(row)[i] \in Nat
    BY <1>2, <1>4 DEF SizesOf
  <1>6. TotalSize(row) = SumFunctionOnSet(SizesOf(row), 1..n)
    <2>1. DOMAIN SizesOf(row) = 1..n
      BY <1>2 DEF SizesOf
    <2> QED BY <2>1 DEF TotalSize, SumFunction, SizesOf
  <1>7. Latest(row) \in Version
    BY <1>2 DEF Latest
  <1>8. SizeOf[Latest(row).content] \in Nat
    BY <1>4, <1>7
  <1> QED BY <1>2, <1>3, <1>5, <1>6, <1>7, <1>8

LEMMA TotalSizeNat ==
    ASSUME NEW row \in GoodRow
    PROVE  TotalSize(row) \in Nat /\ UsageDelta(row) \in Int
  <1> DEFINE n == Len(row.versions)
  <1>1. /\ IsFiniteSet(1..n) /\ \A i \in 1..n : SizesOf(row)[i] \in Nat
        /\ TotalSize(row) = SumFunctionOnSet(SizesOf(row), 1..n)
    BY RowSizes
  <1> HIDE DEF n
  <1>2. TotalSize(row) \in Nat
    BY <1>1, SumNat
  <1> QED BY <1>2, RowSizes DEF UsageDelta

LEMMA QuotaMoves ==
    ASSUME [Next]_vars
    PROVE  \/ quota' = quota
           \/ \E c \in Clients : CreateQuota(c) \/ Commit(c) \/ AdjustLimitWrite(c)
  <1>1. ASSUME NEW c \in Clients, Serve(c), quota' # quota
        PROVE  CreateQuota(c) \/ Commit(c) \/ AdjustLimitWrite(c)
    BY <1>1 DEF Serve, UploadFind, ReplaceFind, VerifyLimit, StoreBinary, UploadPersist,
       ReplacePersist, PersistAndEnqueue, PersistFails, Rollback, Compensate,
       DeleteFind, RenameFind, ChangeResourceFind, BeginUpdate, DeleteWrite, RenameWrite,
       ChangeResourceCheck, ChangeResourceWrite, AdjustLimitFind
  <1>2. ASSUME NEW w \in ScanWorkers, Scan(w) PROVE quota' = quota
    BY <1>2 DEF Scan, TakeJob, ScanFind, ScanDownload, ScanWrite
  <1>3. ASSUME NEW j \in JobIds, JobBackoff(j) \/ JobStalls(j) PROVE quota' = quota
    BY <1>3 DEF JobBackoff, JobStalls
  <1>4. CASE Reconcile(Reconciler) \/ Purge(Purger) \/ Rescan(Rescanner)
    BY <1>4 DEF Reconcile, Purge, Rescan, ReconcileRead, ReconcileList, DeleteBinary,
       MarkOrphan, PurgeList, RescanFind, RescanDownload, RescanWrite
  <1>5. CASE (\E p \in Procs : Crash(p)) \/ UNCHANGED vars
    BY <1>5 DEF Crash, vars
  <1> QED BY <1>1, <1>2, <1>3, <1>4, <1>5 DEF Next

(* How the open transaction may change. *)
LEMMA TxMoves ==
    ASSUME [Next]_vars
    PROVE  \/ tx' = tx
           \/ tx = Nil /\ \E c \in Clients : UploadPersist(c) \/ ReplacePersist(c) \/ DeleteWrite(c)
           \/ tx' = Nil /\ \E c \in Clients : Commit(c) \/ Rollback(c)
           \/ tx' = Nil /\ \E p \in Procs : Crash(p) /\ tx.client = p
  <1>1. ASSUME NEW c \in Clients, Serve(c), tx' # tx
        PROVE  \/ tx = Nil /\ (UploadPersist(c) \/ ReplacePersist(c) \/ DeleteWrite(c))
               \/ tx' = Nil /\ (Commit(c) \/ Rollback(c))
    BY <1>1 DEF Serve, UploadFind, ReplaceFind, CreateQuota, VerifyLimit, StoreBinary,
       UploadPersist, ReplacePersist, PersistAndEnqueue, PersistFails, Commit, Rollback,
       Compensate, DeleteFind, RenameFind, ChangeResourceFind, BeginUpdate, DeleteWrite,
       RenameWrite, ChangeResourceCheck, ChangeResourceWrite, AdjustLimitFind, AdjustLimitWrite
  <1>2. ASSUME NEW w \in ScanWorkers, Scan(w) PROVE tx' = tx
    BY <1>2 DEF Scan, TakeJob, ScanFind, ScanDownload, ScanWrite
  <1>3. ASSUME NEW j \in JobIds, JobBackoff(j) \/ JobStalls(j) PROVE tx' = tx
    BY <1>3 DEF JobBackoff, JobStalls
  <1>4. CASE Reconcile(Reconciler) \/ Purge(Purger) \/ Rescan(Rescanner)
    BY <1>4 DEF Reconcile, Purge, Rescan, ReconcileRead, ReconcileList, DeleteBinary,
       MarkOrphan, PurgeList, RescanFind, RescanDownload, RescanWrite
  <1>5. ASSUME NEW p \in Procs, Crash(p), tx' # tx PROVE tx' = Nil /\ tx.client = p
    BY <1>5 DEF Crash
  <1>6. CASE UNCHANGED vars
    BY <1>6 DEF vars
  <1> QED BY <1>1, <1>2, <1>3, <1>4, <1>5, <1>6 DEF Next

LEMMA CommitOpen ==
    ASSUME Inv, TypeInv, NEW c \in Clients, pc[c] = "commit"
    PROVE  /\ tx # Nil /\ tx.client = c /\ tx.row \in GoodRow /\ tx.file \in Files
           /\ quota \in Quota
  BY DEF Inv, LocalInv, ClientKnows, RowInv, TxOK, TypeInv, QuotaOK

LEMMA QuotaStep ==
    ASSUME Inv, TypeInv, [Next]_vars
    PROVE  QuotaOK'
  <1>1. quota' \in Quota \/ quota' = quota
    <2>1. ASSUME NEW c \in Clients, CreateQuota(c) PROVE quota' \in Quota
      BY <2>1, LimitsArePositive DEF CreateQuota, Quota
    <2>2. ASSUME NEW c \in Clients, Commit(c) PROVE quota' \in Quota
      <3> DEFINE delta == UsageDelta(tx.row)
      <3>1. quota \in Quota /\ delta \in Int
        BY <2>2, CommitOpen, TotalSizeNat DEF Commit
      <3>2. quota' = [quota EXCEPT !.used = @ + delta]
        BY <2>2 DEF Commit
      <3> HIDE DEF delta
      <3> QED BY <3>1, <3>2 DEF Quota
    <2>3. ASSUME NEW c \in Clients, AdjustLimitWrite(c) PROVE quota' \in Quota
      BY <2>3 DEF AdjustLimitWrite, At, TypeInv, LocalsOK, Stage, ClientStage, Procs
    <2> QED BY <2>1, <2>2, <2>3, QuotaMoves
  <1>2. quota' \in Quota \cup {Nil}
    BY <1>1 DEF TypeInv, QuotaOK
  <1>3. CASE quota' # Nil
    BY <1>2, <1>3 DEF QuotaOK
  <1>4. CASE quota' = Nil
    <2>1. /\ quota = Nil /\ tx = Nil /\ \A f \in Files : files[f] = Nil
          /\ \A c \in Clients : pc[c] \notin {"store", "persist"}
      BY <1>1, <1>4, NilIsFresh DEF TypeInv, QuotaOK
    <2>2. ASSUME NEW c \in Clients PROVE ~UploadPersist(c) /\ ~ReplacePersist(c) /\ ~DeleteWrite(c)
      <3>1. ~UploadPersist(c) /\ ~ReplacePersist(c)
        BY <2>1 DEF UploadPersist, ReplacePersist, At
      <3>2. ~DeleteWrite(c)
        <4> SUFFICES ASSUME DeleteWrite(c) PROVE FALSE
          OBVIOUS
        <4>1. req[c].file \in Files /\ seen[c][req[c].file] # Nil
          BY DEF DeleteWrite, At, Inv, LocalInv, ClientKnows, Judged
        <4> QED BY <2>1, <4>1 DEF Inv, RowInv, SnapshotCoherent, Procs
      <3> QED BY <3>1, <3>2
    <2>3. tx' = Nil
      BY <2>1, <2>2, TxMoves
    <2>4. \A f \in Files : files'[f] = Nil
      <3>1. RowStep
        BY NextStep
      <3>2. CASE StaysPut
        BY <2>1, <3>2 DEF StaysPut
      <3>3. ASSUME NEW c \in Clients, NEW f \in Files, NEW row \in GoodRow, Opens(c, f, row)
            PROVE  files' = files
        BY <3>3 DEF Opens
      <3>4. ASSUME NEW f \in Files, NEW row \in GoodRow, Writes(f, row) PROVE FALSE
        BY <2>1, <3>4 DEF Writes
      <3>5. ~Lands
        BY <2>1 DEF Lands
      <3> QED BY <2>1, <3>1, <3>2, <3>3, <3>4, <3>5 DEF RowStep
    <2>5. ASSUME NEW c \in Clients PROVE pc'[c] \notin {"store", "persist"}
      <3>1. c \in Procs /\ DOMAIN pc = Procs
        BY DEF Procs, Inv, LocalInv
      <3>2. CASE Stays(c)
        BY <2>1, <3>2 DEF Stays
      <3>3. CASE Crash(c)
        BY <3>1, <3>3 DEF Crash, Finish, Goto
      <3>4. CASE Serve(c)
        <4>1. ~VerifyLimit(c) /\ ~StoreBinary(c) /\ ~UploadPersist(c) /\ ~ReplacePersist(c)
          BY <2>1, <2>2 DEF VerifyLimit, StoreBinary
        <4>2. CASE \/ UploadFind(c) \/ ReplaceFind(c) \/ CreateQuota(c)
                   \/ Commit(c) \/ Rollback(c) \/ Compensate(c)
          BY <2>1, <3>1, <4>2 DEF UploadFind, ReplaceFind, CreateQuota, Commit, Rollback,
             Compensate, Goto, Finish
        <4>3. CASE \/ DeleteFind(c) \/ DeleteWrite(c) \/ RenameFind(c) \/ RenameWrite(c)
                   \/ ChangeResourceFind(c) \/ ChangeResourceCheck(c)
                   \/ ChangeResourceWrite(c) \/ AdjustLimitFind(c) \/ AdjustLimitWrite(c)
          BY <2>1, <3>1, <4>3 DEF DeleteFind, DeleteWrite, RenameFind, RenameWrite,
             ChangeResourceFind, ChangeResourceCheck, ChangeResourceWrite, AdjustLimitFind,
             AdjustLimitWrite, BeginUpdate, Goto, Finish
        <4> QED BY <3>4, <4>1, <4>2, <4>3 DEF Serve
      <3> QED BY <3>2, <3>3, <3>4, ClientMoves
    <2> QED BY <1>2, <2>3, <2>4, <2>5 DEF QuotaOK
  <1> QED BY <1>3, <1>4

-----------------------------------------------------------------------------

LEMMA InitTypeInv == Init => TypeInv
  <1> SUFFICES ASSUME Init PROVE TypeInv
    OBVIOUS
  <1>1. LocalsOK
    <2>1. req \in [Procs -> Request] /\ pc \in [Procs -> Labels]
      BY NoRequestTyped DEF Init, Labels
    <2>2. \A p \in Procs : pc[p] = "idle" /\ req[p].op = Nil
      BY DEF Init, NoRequest
    <2> QED BY <2>1, <2>2, NilIsNoOp DEF LocalsOK, Stage, ClientStage, WorkerStage, AllOps, Procs
  <1>2. storage \in [Keys -> Contents \cup {Nil}] /\ QueueOK
    BY DEF Init, QueueOK
  <1>3. QuotaOK
    BY DEF Init, QuotaOK, Procs
  <1>4. issued \subseteq Files /\ IsFiniteSet(issued)
    BY FS_EmptySet DEF Init
  <1> QED BY <1>1, <1>2, <1>3, <1>4 DEF TypeInv

LEMMA InvStep == Inv /\ [Next]_vars => Inv'
  BY NextStep, RowStepKeepsRowInv DEF Inv

LEMMA TypeInvStep == Inv /\ TypeInv /\ [Next]_vars => TypeInv'
  BY LocalsStep, QueueStep, QuotaStep, StorageTyped, IssuedTyped DEF TypeInv, QueueKept, QueueOK

(* Every variable always has the values declared for it: no attempt is       *)
(* counted past its limit, no version past its bound, no byte in a quota     *)
(* that does not exist.                                                      *)
THEOREM TypesOK == Spec => []TypeOK
  <1>1. Inv /\ TypeInv /\ [Next]_vars => TypeInv'
    BY TypeInvStep
  <1>2. Inv => RowsTypeOK
    BY DEF Inv, RowInv, FilesOK, SeenOK, TxOK, GoodRow, RowsTypeOK, Transaction
  <1>3. Inv /\ TypeInv => TypeOK
    <2> SUFFICES ASSUME Inv, TypeInv PROVE TypeOK
      OBVIOUS
    <2>1. queue \in [JobIds -> ScanJob \cup {Nil}]
      BY DEF TypeInv, QueueOK, GoodJob
    <2> QED BY <1>2, <2>1 DEF TypeInv, LocalsOK, Labels, QuotaOK, TypeOK
  <1> QED BY <1>1, <1>3, InitTypeInv, Invariance, PTL DEF Spec

-----------------------------------------------------------------------------
(* What a step may do to the rows *)

(* A row locked by the open transaction is written by nobody else. *)
LEMMA LockedStays ==
    ASSUME Inv, [Next]_vars, tx # Nil, tx' = tx
    PROVE  files'[tx.file] = files[tx.file]
  <1>1. RowStep /\ tx.file \in Files
    BY NextStep DEF Inv, RowInv, TxOK
  <1>2. CASE StaysPut
    BY <1>2 DEF StaysPut
  <1>3. ~\E c \in Clients, f \in Files, row \in GoodRow : Opens(c, f, row)
    BY DEF Opens
  <1>4. ASSUME NEW f \in Files, NEW row \in GoodRow, Writes(f, row)
        PROVE  files'[tx.file] = files[tx.file]
    BY <1>4 DEF Writes, RowUnlocked, Inv, RowInv, FilesOK
  <1>5. ~Lands
    BY DEF Lands
  <1> QED BY <1>1, <1>2, <1>3, <1>4, <1>5 DEF RowStep

(* A file keeps its versions' keys and contents. *)
Extends(old, new) ==
    /\ new # Nil
    /\ Len(old.versions) <= Len(new.versions)
    /\ \A i \in 1..Len(old.versions) : /\ new.versions[i].key = old.versions[i].key
                                       /\ new.versions[i].content = old.versions[i].content
    /\ old.status = "DELETED" => new = old

LEMMA RowsExtend ==
    ASSUME Inv, [Next]_vars, NEW f \in Files, files[f] # Nil
    PROVE  Extends(files[f], files'[f])
  <1>1. files'[f] = files[f] \/ (files'[f] # Nil /\ Legal(files[f], files'[f]))
    BY NextStep, RowStepIsLegal DEF Inv
  <1>2. Len(files[f].versions) \in Nat
    BY RowSizes DEF Inv, RowInv, FilesOK
  <1> QED BY <1>1, <1>2 DEF Extends, Legal

(* A write that adds no version, and one that keeps a live file alive. *)
SameLength == \A f \in Files : files[f] # Nil =>
    Len(files'[f].versions) = Len(files[f].versions)
SameLife == \A f \in Files : files[f] # Nil =>
    (files'[f].status = "DELETED" <=> files[f].status = "DELETED")

(* One row is written, by a process that has read it. *)
Rewrites(f, new) ==
    /\ f \in Files /\ files[f] \in GoodRow
    /\ new \in GoodRow /\ Len(new.versions) = Len(files[f].versions)
    /\ files' = [files EXCEPT ![f] = new]

LEMMA RewritesKeep ==
    ASSUME Inv, NEW f, NEW new, Rewrites(f, new)
    PROVE  /\ SameLength /\ \A g \in Files : files[g] = Nil => files'[g] = Nil
           /\ (new.status = "DELETED" <=> files[f].status = "DELETED") => SameLife
  BY NilIsFresh DEF Inv, RowInv, FilesOK, Rewrites, SameLength, SameLife, GoodRow

LEMMA UpdateRewrites ==
    ASSUME Inv, NEW p \in Procs, NEW f \in Files, NEW new \in GoodRow, UpdateRow(p, f, new),
           seen[p][f] # Nil, Len(new.versions) = Len(seen[p][f].versions)
    PROVE  \/ files' = files
           \/ /\ files[f] = seen[p][f]
              /\ \E row : Rewrites(f, row) /\ row.status = new.status
  <1> DEFINE row == Saved(p, f, new)
  <1>1. CASE LockMatches(p, f)
    <2>1. files[f] = seen[p][f] /\ seen[p][f] \in GoodRow
      BY <1>1, LockedRow
    <2>2. row = [new EXCEPT !.lock = seen[p][f].lock + 1] /\ new \in Row
          /\ seen[p][f].lock + 1 \in Nat
      BY <2>1 DEF Saved, GoodRow, Row
    <2>3. files' = [files EXCEPT ![f] = row]
      BY <1>1 DEF UpdateRow
    <2> HIDE DEF row
    <2>4. row \in GoodRow /\ row.versions = new.versions /\ row.status = new.status
      BY <2>2 DEF GoodRow, Row, Consistent, Latest
    <2> QED BY <2>1, <2>3, <2>4 DEF Rewrites
  <1>2. CASE ~LockMatches(p, f)
    BY <1>2 DEF UpdateRow
  <1> QED BY <1>1, <1>2

(* The writes outside the open transaction. *)
Touches == /\ SameLength /\ \A g \in Files : files[g] = Nil => files'[g] = Nil
           /\ SameLife \/ MarkOrphan(Reconciler)

LEMMA SameTouches == files' = files => Touches
  BY DEF Touches, SameLength, SameLife

LEMMA RenameTouches ==
    ASSUME Inv, NEW c \in Clients, RenameWrite(c)
    PROVE  Touches
  <1> DEFINE f == req[c].file
             old == seen[c][f]
  <1>1. f \in Files /\ Judged(old) /\ c \in Procs /\ UpdateRow(c, f, old)
    BY DEF RenameWrite, At, Inv, LocalInv, ClientKnows, Procs
  <1>2. old # Nil /\ old \in GoodRow
    BY <1>1 DEF Judged, Inv, RowInv, SeenOK
  <1> QED BY <1>1, <1>2, UpdateRewrites, RewritesKeep, SameTouches DEF Touches

LEMMA ChangeResourceTouches ==
    ASSUME Inv, NEW c \in Clients, ChangeResourceWrite(c)
    PROVE  Touches
  <1> DEFINE f == req[c].file
             slot == req[c].slot
             old == seen[c][f]
             new == [old EXCEPT !.slot = slot]
  <1>1. f \in Files /\ slot \in Slots /\ Judged(old) /\ c \in Procs
    BY DEF ChangeResourceWrite, At, Inv, LocalInv, ClientKnows, Procs
  <1>2. old # Nil /\ old \in GoodRow /\ old.status # "DELETED"
    BY <1>1 DEF Judged, Inv, RowInv, SeenOK
  <1>3. new \in GoodRow /\ new.versions = old.versions /\ new.status = old.status
    BY <1>1, <1>2, MovedGood DEF GoodRow, Row
  <1>4. UpdateRow(c, f, new) \/ files' = files
    BY DEF ChangeResourceWrite
  <1> HIDE DEF new
  <1> QED BY <1>1, <1>2, <1>3, <1>4, UpdateRewrites, RewritesKeep, SameTouches DEF Touches

LEMMA ScanTouches ==
    ASSUME Inv, NEW w \in ScanWorkers, ScanWrite(w)
    PROVE  Touches
  <1> DEFINE f == req[w].job[1]
             old == seen[w][f]
             new == ScanResult(old, req[w].verdict)
  <1>1. /\ w \in Procs /\ req[w].job \in JobIds /\ req[w].verdict \in AllVerdicts
        /\ old # Nil /\ old.status = "PENDING" /\ Latest(old).scan = "NONE"
        /\ UpdateRow(w, f, new)
    BY DEF ScanWrite, Inv, LocalInv, WorkerKnows, Procs
  <1>2. f \in Files
    BY <1>1 DEF JobIds
  <1>3. old \in GoodRow
    BY <1>1, <1>2 DEF Inv, RowInv, SeenOK
  <1>4. new \in GoodRow
    BY <1>1, <1>3, ScanResultGood
  <1>5. Len(new.versions) = Len(old.versions) /\ new.status # "DELETED"
    <2> DEFINE mid == AddScan(old, req[w].verdict)
    <2>1. mid \in Row /\ Len(mid.versions) = Len(old.versions)
      BY <1>1, <1>3, AddScanEffect
    <2>2. new = [mid EXCEPT !.status = StatusAfterScan(req[w].verdict)]
      BY DEF ScanResult
    <2>3. StatusAfterScan(req[w].verdict) # "DELETED"
      BY <1>1 DEF StatusAfterScan, AllVerdicts
    <2> HIDE DEF mid, new
    <2> QED BY <2>1, <2>2, <2>3 DEF Row
  <1> HIDE DEF new
  <1> QED BY <1>1, <1>2, <1>3, <1>4, <1>5, UpdateRewrites, RewritesKeep, SameTouches DEF Touches

LEMMA RescanTouches ==
    ASSUME Inv, RescanWrite(Rescanner)
    PROVE  Touches
  <1> DEFINE r == Rescanner
             f == req[r].file
             old == seen[r][f]
             new == RescanResult(old, req[r].verdict)
  <1>1. /\ r \in Procs /\ f \in Files /\ req[r].verdict \in AllVerdicts
        /\ old # Nil /\ old.status = "READY" /\ UpdateRow(r, f, new)
    BY DEF RescanWrite, Inv, LocalInv, JobKnows, Procs, Jobs
  <1>2. old \in GoodRow
    BY <1>1 DEF Inv, RowInv, SeenOK
  <1>3. new \in GoodRow
    BY <1>1, <1>2, RescanResultGood
  <1>4. Len(new.versions) = Len(old.versions) /\ new.status # "DELETED"
    <2> DEFINE mid == AddScan(old, req[r].verdict)
    <2>1. mid \in Row /\ Len(mid.versions) = Len(old.versions) /\ mid.status = old.status
      BY <1>1, <1>2, AddScanEffect
    <2>2. new = [mid EXCEPT !.status = IF req[r].verdict = "INFECTED" THEN "INFECTED" ELSE @]
      BY DEF RescanResult
    <2> HIDE DEF mid, new
    <2> QED BY <1>1, <2>1, <2>2 DEF Row
  <1> HIDE DEF new
  <1> QED BY <1>1, <1>2, <1>3, <1>4, UpdateRewrites, RewritesKeep, SameTouches DEF Touches

LEMMA OrphanTouches ==
    ASSUME Inv, MarkOrphan(Reconciler)
    PROVE  Touches
  <1> DEFINE r == Reconciler
  <1>1. r \in Procs /\ req[r].batch \subseteq Files /\ \A f \in req[r].batch : Live(seen[r][f])
    BY DEF MarkOrphan, Inv, LocalInv, JobKnows, Procs, Jobs
  <1>2. PICK f \in req[r].batch : UpdateRow(r, f, MarkDeleted(seen[r][f]))
    BY DEF MarkOrphan
  <1> DEFINE old == seen[r][f]
             new == MarkDeleted(old)
  <1>3. f \in Files /\ old # Nil /\ old \in GoodRow /\ old.status # "DELETED"
    BY <1>1, <1>2 DEF Live, Inv, RowInv, SeenOK
  <1>4. new \in GoodRow /\ new.versions = old.versions
    BY <1>3, MarkDeletedGood DEF MarkDeleted, GoodRow, Row
  <1>5. UpdateRow(r, f, new)
    BY <1>2
  <1> HIDE DEF new
  <1> QED BY <1>1, <1>3, <1>4, <1>5, UpdateRewrites, RewritesKeep, SameTouches DEF Touches

LEMMA FilesMove ==
    ASSUME Inv, [Next]_vars
    PROVE  Touches \/ \E c \in Clients : Commit(c)
  <1>1. ASSUME NEW c \in Clients, Serve(c), files' # files
        PROVE  Commit(c) \/ RenameWrite(c) \/ ChangeResourceWrite(c)
    BY <1>1 DEF Serve, UploadFind, ReplaceFind, CreateQuota, VerifyLimit, StoreBinary,
       UploadPersist, ReplacePersist, PersistAndEnqueue, PersistFails, Rollback, Compensate,
       DeleteFind, RenameFind, ChangeResourceFind, BeginUpdate, DeleteWrite,
       ChangeResourceCheck, AdjustLimitFind, AdjustLimitWrite
  <1>2. ASSUME NEW w \in ScanWorkers, Scan(w), files' # files PROVE ScanWrite(w)
    BY <1>2 DEF Scan, TakeJob, ScanFind, ScanDownload
  <1>3. ASSUME NEW j \in JobIds, JobBackoff(j) \/ JobStalls(j) PROVE files' = files
    BY <1>3 DEF JobBackoff, JobStalls
  <1>4. ASSUME Reconcile(Reconciler) \/ Purge(Purger) \/ Rescan(Rescanner), files' # files
        PROVE  MarkOrphan(Reconciler) \/ RescanWrite(Rescanner)
    BY <1>4 DEF Reconcile, Purge, Rescan, ReconcileRead, ReconcileList, DeleteBinary,
       PurgeList, RescanFind, RescanDownload
  <1>5. CASE (\E p \in Procs : Crash(p)) \/ UNCHANGED vars
    BY <1>5, SameTouches DEF Crash, vars
  <1> QED BY <1>1, <1>2, <1>3, <1>4, <1>5, SameTouches, RenameTouches, ChangeResourceTouches,
       ScanTouches, RescanTouches, OrphanTouches DEF Next

-----------------------------------------------------------------------------
(* Clients with a binary *)

(* A client with a binary has just drawn its key, or had it before. *)
LEMMA WriterStep ==
    ASSUME Inv, [Next]_vars, NEW c \in Clients, Writing(c)'
    PROVE  \/ UploadFind(c) \/ ReplaceFind(c)
           \/ req'[c] = req[c] /\ seen'[c] = seen[c] /\ Writing(c)
  <1>1. /\ c \in Procs /\ DOMAIN req = Procs
        /\ seen \in [Procs -> [Files -> GoodRow \cup {Nil}]]
    BY DEF Procs, Inv, LocalInv, RowInv, SeenOK
  <1>2. NoRequest.op \notin {"upload", "replace"}
    BY NilIsNoOp DEF NoRequest, AllOps
  <1>3. ~Finish(c)
    BY <1>1, <1>2 DEF Finish, Writing
  <1>4. CASE Stays(c)
    BY <1>4 DEF Stays, Writing
  <1>5. ~Crash(c)
    BY <1>3 DEF Crash
  <1>6. ASSUME NEW op \in {"delete", "rename", "changeResource"}, NEW f, NEW slot, NEW label
        PROVE  ~BeginUpdate(c, op, f, slot, label)
    BY <1>1 DEF BeginUpdate, NoRequest, Writing
  <1>7. CASE \/ CreateQuota(c) \/ VerifyLimit(c) \/ StoreBinary(c)
             \/ UploadPersist(c) \/ ReplacePersist(c)
    BY <1>3, <1>7 DEF Writing, CreateQuota, VerifyLimit, StoreBinary, UploadPersist,
       ReplacePersist, PersistAndEnqueue, PersistFails
  <1>8. CASE \/ Commit(c) \/ Rollback(c) \/ Compensate(c) \/ DeleteWrite(c) \/ RenameWrite(c)
             \/ ChangeResourceCheck(c) \/ ChangeResourceWrite(c) \/ AdjustLimitWrite(c)
    BY <1>3, <1>8 DEF Writing, Commit, Rollback, Compensate, DeleteWrite, RenameWrite,
       ChangeResourceCheck, ChangeResourceWrite, AdjustLimitWrite
  <1>9. ~DeleteFind(c) /\ ~RenameFind(c) /\ ~ChangeResourceFind(c)
    BY <1>6 DEF DeleteFind, RenameFind, ChangeResourceFind
  <1>10. ~AdjustLimitFind(c)
    <2> SUFFICES ASSUME AdjustLimitFind(c) PROVE FALSE
      OBVIOUS
    <2>1. PICK limit \in Limits :
            req' = [req EXCEPT ![c] = [NoRequest EXCEPT
                    !.op = "adjustLimit", !.quota = [quota EXCEPT !.limit = limit]]]
      BY DEF AdjustLimitFind
    <2>2. req'[c].op = "adjustLimit"
      BY <1>1, <2>1 DEF NoRequest
    <2> QED BY <2>2 DEF Writing
  <1> QED BY <1>4, <1>5, <1>7, <1>8, <1>9, <1>10, ClientMoves DEF Serve

(* What it draws. *)
LEMMA UploadDraws ==
    ASSUME Inv, NEW c \in Clients, UploadFind(c)
    PROVE  \E f \in Files \ issued, name \in NamesOf[c] :
              /\ issued' = issued \cup {f} /\ req'[c].op = "upload" /\ req'[c].file = f
              /\ req'[c].version.key = <<f, 1, name>> /\ pc'[c] = "verify"
              /\ files' = files /\ tx' = tx
  <1>1. c \in Procs /\ DOMAIN req = Procs /\ DOMAIN pc = Procs
    BY DEF Procs, Inv, LocalInv
  <1>2. PICK f \in Files \ issued, slot \in Slots, name \in NamesOf[c], content \in Contents :
            /\ issued' = issued \cup {f}
            /\ req' = [req EXCEPT ![c] = [NoRequest EXCEPT
                    !.op = "upload", !.file = f, !.slot = slot,
                    !.version = [key |-> StorageKey(f, 1, name),
                                 content |-> content, scan |-> "NONE"]]]
    BY DEF UploadFind
  <1> DEFINE v == [key |-> StorageKey(f, 1, name), content |-> content, scan |-> "NONE"]
  <1>3. v.key = <<f, 1, name>>
    BY DEF StorageKey
  <1>4. req' = [req EXCEPT ![c] = [NoRequest EXCEPT
                    !.op = "upload", !.file = f, !.slot = slot, !.version = v]]
    BY <1>2
  <1> HIDE DEF v
  <1>5. req'[c].op = "upload" /\ req'[c].file = f /\ req'[c].version = v
    BY <1>1, <1>4 DEF NoRequest
  <1> QED BY <1>1, <1>2, <1>3, <1>5 DEF UploadFind, Goto

LEMMA ReplaceDraws ==
    ASSUME Inv, NEW c \in Clients, ReplaceFind(c)
    PROVE  \E f \in Files, name \in NamesOf[c] :
              /\ files[f] # Nil /\ seen'[c][f] = files[f]
              /\ req'[c].op = "replace" /\ req'[c].file = f
              /\ req'[c].version.key = <<f, Len(files[f].versions) + 1, name>>
              /\ pc'[c] = "verify" /\ files' = files /\ tx' = tx
  <1>1. c \in Procs /\ DOMAIN req = Procs /\ DOMAIN pc = Procs
    BY DEF Procs, Inv, LocalInv
  <1>2. PICK f \in Files, name \in NamesOf[c], content \in Contents :
            /\ Judged(files[f]) /\ Read(c, f)
            /\ req' = [req EXCEPT ![c] = [NoRequest EXCEPT
                    !.op = "replace", !.file = f,
                    !.version = [key |-> StorageKey(f, Len(files[f].versions) + 1, name),
                                 content |-> content, scan |-> "NONE"]]]
    BY DEF ReplaceFind
  <1> DEFINE v == [key |-> StorageKey(f, Len(files[f].versions) + 1, name),
                   content |-> content, scan |-> "NONE"]
  <1>3. v.key = <<f, Len(files[f].versions) + 1, name>>
    BY DEF StorageKey
  <1>4. req' = [req EXCEPT ![c] = [NoRequest EXCEPT
                    !.op = "replace", !.file = f, !.version = v]]
    BY <1>2
  <1> HIDE DEF v
  <1>5. req'[c].op = "replace" /\ req'[c].file = f /\ req'[c].version = v
    BY <1>1, <1>4 DEF NoRequest
  <1>6. seen'[c][f] = files[f]
    BY <1>1, <1>2, ReadLooks
  <1> QED BY <1>1, <1>2, <1>3, <1>5, <1>6 DEF ReplaceFind, Goto, Judged

(* Where it stands next, if it is past the check of the limit. *)
LEMMA WriterMoves ==
    ASSUME Inv, TypeInv, [Next]_vars, NEW c \in Clients, Writing(c)',
           pc'[c] \in {"store", "persist", "commit", "compensate"}
    PROVE  /\ req'[c] = req[c] /\ seen'[c] = seen[c] /\ Writing(c)
           /\ \/ pc'[c] = pc[c]
              \/ pc[c] = "verify" /\ pc'[c] = "store" /\ VerifyLimit(c)
              \/ pc[c] = "store" /\ pc'[c] = "persist" /\ StoresFor(c)
              \/ pc[c] = "persist" /\ pc'[c] \in {"commit", "compensate"}
              \/ pc[c] = "commit" /\ pc'[c] = "compensate"
  <1>1. ~UploadFind(c) /\ ~ReplaceFind(c)
    BY UploadDraws, ReplaceDraws
  <1>2. req'[c] = req[c] /\ seen'[c] = seen[c] /\ Writing(c)
    BY <1>1, WriterStep
  <1>3. c \in Procs /\ DOMAIN pc = Procs /\ DOMAIN req = Procs
    BY DEF Procs, Inv, LocalInv
  <1>4. ~Finish(c)
    BY <1>3 DEF Finish, Goto
  <1>5. pc[c] # "idle"
    BY <1>2, NilIsNoOp DEF Writing, TypeInv, LocalsOK, Stage, ClientStage, Procs, AllOps
  <1>6. CASE Stays(c)
    BY <1>2, <1>6 DEF Stays
  <1>7. ~Crash(c)
    BY <1>4 DEF Crash
  <1>8. CASE Serve(c)
    <2>1. CASE CreateQuota(c)
      BY <1>2, <2>1 DEF CreateQuota
    <2>2. CASE VerifyLimit(c)
      BY <1>2, <1>3, <1>4, <2>2 DEF VerifyLimit, Goto
    <2>3. CASE StoreBinary(c)
      BY <1>2, <1>3, <1>4, <2>3 DEF StoreBinary, Goto, StoresFor, KeyOf
    <2>4. CASE UploadPersist(c) \/ ReplacePersist(c)
      BY <1>2, <1>3, <1>4, <2>4 DEF UploadPersist, ReplacePersist, PersistAndEnqueue,
         PersistFails, Goto, At
    <2>5. CASE Commit(c) \/ Rollback(c) \/ Compensate(c)
      BY <1>2, <1>3, <1>4, <2>5 DEF Commit, Rollback, Compensate, Goto
    <2>6. ~DeleteWrite(c) /\ ~RenameWrite(c) /\ ~ChangeResourceCheck(c)
          /\ ~ChangeResourceWrite(c) /\ ~AdjustLimitWrite(c)
      BY <1>2 DEF DeleteWrite, RenameWrite, ChangeResourceCheck, ChangeResourceWrite,
         AdjustLimitWrite, At, Writing
    <2>7. ~DeleteFind(c) /\ ~RenameFind(c) /\ ~ChangeResourceFind(c) /\ ~AdjustLimitFind(c)
      BY <1>5 DEF DeleteFind, RenameFind, ChangeResourceFind, BeginUpdate, AdjustLimitFind, Idle
    <2> QED BY <1>1, <1>8, <2>1, <2>2, <2>3, <2>4, <2>5, <2>6, <2>7 DEF Serve
  <1> QED BY <1>2, <1>6, <1>7, <1>8, ClientMoves

-----------------------------------------------------------------------------
(* Keys and the open transaction *)

LEMMA RowHasVersions ==
    ASSUME Inv, NEW f \in Files, files[f] # Nil
    PROVE  /\ files[f] \in GoodRow /\ files[f].versions \in Seq(Version)
           /\ DOMAIN files[f].versions = 1..Len(files[f].versions)
           /\ Len(files[f].versions) \in Nat \ {0}
  <1>1. files[f] \in GoodRow
    BY DEF Inv, RowInv, FilesOK
  <1> QED BY <1>1, RowSizes DEF GoodRow, Row

LEMMA IssuedGrows ==
    ASSUME [Next]_vars
    PROVE  issued \subseteq issued'
  BY IssuedStep

(* What a transaction writes when it commits. *)
LEMMA CommitWrites ==
    ASSUME Inv, TypeInv, KeyInv, NEW c \in Clients, Commit(c)
    PROVE  /\ tx # Nil /\ tx.client = c /\ tx.file = req[c].file /\ tx.file \in Files
           /\ tx.row \in GoodRow /\ files' = [files EXCEPT ![tx.file] = tx.row] /\ tx' = Nil
           /\ quota \in Quota /\ quota' = [quota EXCEPT !.used = @ + UsageDelta(tx.row)]
           /\ \/ /\ req[c].op = "upload" /\ files[tx.file] = Nil
                 /\ tx.row.versions = <<req[c].version>> /\ tx.row.status = "PENDING"
              \/ /\ req[c].op = "replace" /\ Live(files[tx.file])
                 /\ files[tx.file] = seen[c][tx.file]
                 /\ tx.row.versions = Append(files[tx.file].versions, req[c].version)
                 /\ tx.row.status = "PENDING"
              \/ /\ req[c].op = "delete" /\ Live(files[tx.file])
                 /\ tx.row.versions = files[tx.file].versions /\ tx.row.status = "DELETED"
  <1>1. /\ tx # Nil /\ tx.client = c /\ tx.row \in GoodRow /\ tx.file \in Files
        /\ quota \in Quota
    BY CommitOpen DEF Commit
  <1>2. TxShape
    BY DEF KeyInv
  <1> QED BY <1>1, <1>2 DEF TxShape, Commit

LEMMA NumberedStep ==
    ASSUME Inv, TypeInv, KeyInv, [Next]_vars, NEW f \in Files, files'[f] # Nil
    PROVE  Numbered(f, files'[f]) /\ f \in issued'
  <1>1. CASE Touches
    <2>1. files[f] # Nil /\ Numbered(f, files[f]) /\ f \in issued
      BY <1>1 DEF Touches, KeyInv
    <2>2. Extends(files[f], files'[f]) /\ Len(files'[f].versions) = Len(files[f].versions)
      BY <1>1, <2>1, RowsExtend DEF Touches, SameLength
    <2> QED BY <2>1, <2>2, IssuedGrows DEF Numbered, Extends
  <1>2. ASSUME NEW c \in Clients, Commit(c)
        PROVE  Numbered(f, files'[f]) /\ f \in issued'
    <2>1. /\ tx.file = req[c].file /\ tx.file \in Files
          /\ files' = [files EXCEPT ![tx.file] = tx.row] /\ issued' = issued
      BY <1>2, CommitWrites DEF Commit
    <2>2. CASE f # tx.file
      BY <2>1, <2>2 DEF KeyInv, Inv, RowInv, FilesOK
    <2>3. CASE f = tx.file
      <3>1. files'[f] = tx.row /\ KeyFits(c)
        BY <2>1, <2>3 DEF Inv, RowInv, FilesOK, KeyInv
      <3> DEFINE v == req[c].version
      <3>2. CASE /\ req[c].op = "upload" /\ tx.row.versions = <<v>>
        <4>1. v.key[1] = f /\ v.key[2] = 1 /\ f \in issued
          BY <2>1, <2>3, <3>1, <3>2 DEF KeyFits, KeyOf, Writing
        <4> QED BY <2>1, <3>1, <3>2, <4>1 DEF Numbered
      <3>3. CASE /\ req[c].op = "replace" /\ Live(files[f]) /\ files[f] = seen[c][f]
                 /\ tx.row.versions = Append(files[f].versions, v)
        <4> DEFINE vs == files[f].versions
        <4>1. v.key[1] = f /\ v.key[2] = Len(vs) + 1 /\ f \in issued
          BY <2>1, <2>3, <3>1, <3>3 DEF KeyFits, KeyOf, Writing
        <4>2. vs \in Seq(Version) /\ Numbered(f, files[f]) /\ v \in Version
          BY <1>2, <3>3, RowHasVersions, WriterHasVersion DEF Live, KeyInv, Writing
        <4>3. /\ Len(tx.row.versions) = Len(vs) + 1
              /\ tx.row.versions[Len(vs) + 1] = v
              /\ \A i \in 1..Len(vs) : tx.row.versions[i] = vs[i]
          BY <3>3, <4>2
        <4>4. \A i \in 1..Len(vs) : vs[i].key[1] = f /\ vs[i].key[2] = i
          BY <4>2 DEF Numbered
        <4>5. Len(vs) \in Nat
          BY <4>2
        <4> HIDE DEF v, vs
        <4>6. \A i \in 1..(Len(vs) + 1) : /\ tx.row.versions[i].key[1] = f
                                         /\ tx.row.versions[i].key[2] = i
          BY <4>1, <4>3, <4>4, <4>5
        <4> QED BY <2>1, <3>1, <4>1, <4>3, <4>6 DEF Numbered
      <3>4. CASE Live(files[f]) /\ tx.row.versions = files[f].versions
        BY <2>1, <3>1, <3>4 DEF KeyInv, Numbered, Live
      <3> QED BY <1>2, <2>3, <3>2, <3>3, <3>4, CommitWrites
    <2> QED BY <2>2, <2>3
  <1> QED BY <1>1, <1>2, FilesMove

LEMMA KeyFitsStep ==
    ASSUME Inv, KeyInv, [Next]_vars, NEW c \in Clients
    PROVE  KeyFits(c)'
  <1>1. CASE ~Writing(c)'
    BY <1>1 DEF KeyFits, Writing
  <1>2. CASE req'[c] = req[c] /\ seen'[c] = seen[c] /\ Writing(c)
    <2>1. KeyFits(c)
      BY DEF KeyInv
    <2> QED BY <1>2, <2>1, IssuedGrows DEF KeyFits, KeyOf, Writing
  <1>3. CASE UploadFind(c)
    <2>1. PICK f \in Files \ issued, name \in NamesOf[c] :
              /\ issued' = issued \cup {f} /\ req'[c].op = "upload" /\ req'[c].file = f
              /\ req'[c].version.key = <<f, 1, name>>
      BY <1>3, UploadDraws
    <2> QED BY <2>1 DEF KeyFits, KeyOf, Writing
  <1>4. CASE ReplaceFind(c)
    <2>1. PICK f \in Files, name \in NamesOf[c] :
              /\ files[f] # Nil /\ seen'[c][f] = files[f]
              /\ req'[c].op = "replace" /\ req'[c].file = f
              /\ req'[c].version.key = <<f, Len(files[f].versions) + 1, name>>
      BY <1>4, ReplaceDraws
    <2>2. f \in issued'
      BY <2>1, IssuedGrows DEF KeyInv
    <2> QED BY <2>1, <2>2 DEF KeyFits, KeyOf, Writing
  <1> QED BY <1>1, <1>2, <1>3, <1>4, WriterStep

LEMMA OwnerStays ==
    ASSUME Inv, KeyInv, [Next]_vars, tx # Nil, tx' = tx
    PROVE  tx.client \in Clients /\ Stays(tx.client)
  <1> DEFINE c == tx.client
  <1>1. c \in Clients /\ pc[c] = "commit"
    BY DEF KeyInv, TxShape, Inv, RowInv, TxOK
  <1>2. ~Crash(c)
    BY <1>1, NilIsFresh DEF Crash
  <1>3. ~Serve(c)
    BY <1>1 DEF Serve, UploadFind, ReplaceFind, CreateQuota, VerifyLimit, StoreBinary,
       UploadPersist, ReplacePersist, Commit, Rollback, Compensate,
       DeleteFind, RenameFind, ChangeResourceFind, BeginUpdate, DeleteWrite, RenameWrite,
       ChangeResourceCheck, ChangeResourceWrite, AdjustLimitFind, AdjustLimitWrite, At, Idle
  <1> QED BY <1>1, <1>2, <1>3, ClientMoves

LEMMA TxShapeStep ==
    ASSUME Inv, TypeInv, KeyInv, [Next]_vars
    PROVE  TxShape'
  <1>1. CASE tx' = Nil
    BY <1>1 DEF TxShape
  <1>2. CASE tx' = tx /\ tx # Nil
    <2>1. Stays(tx.client) /\ files'[tx.file] = files[tx.file]
      BY <1>2, OwnerStays, LockedStays
    <2> QED BY <1>2, <2>1 DEF KeyInv, TxShape, Stays, Live
  <1>3. ASSUME NEW c \in Clients, NEW f, NEW row, tx' # Nil,
               /\ tx' = [client |-> c, file |-> f, row |-> row]
               /\ pc'[c] = "commit" /\ f = req'[c].file
               /\ \/ /\ req'[c].op = "upload" /\ files'[f] = Nil
                     /\ row.versions = <<req'[c].version>> /\ row.status = "PENDING"
                  \/ /\ req'[c].op = "replace" /\ Live(files'[f]) /\ files'[f] = seen'[c][f]
                     /\ row.versions = Append(files'[f].versions, req'[c].version)
                     /\ row.status = "PENDING"
                  \/ /\ req'[c].op = "delete" /\ Live(files'[f])
                     /\ row.versions = files'[f].versions /\ row.status = "DELETED"
        PROVE  TxShape'
    BY <1>3 DEF TxShape
  <1>4. ASSUME NEW c \in Clients, UploadPersist(c), tx' # tx PROVE TxShape'
    <2> DEFINE f == req[c].file
               row == NewFile(req[c].slot, req[c].version)
    <2>1. /\ c \in Procs /\ DOMAIN pc = Procs /\ files[f] = Nil /\ req[c].op = "upload"
          /\ PersistAndEnqueue(c, row)
      BY <1>4 DEF UploadPersist, PersistFails, At, Procs, Inv, LocalInv
    <2>2. /\ tx' = [client |-> c, file |-> f, row |-> row] /\ pc'[c] = "commit"
          /\ req' = req /\ files' = files
      BY <1>4, <2>1 DEF PersistAndEnqueue, Goto
    <2>3. row.versions = <<req[c].version>> /\ row.status = "PENDING"
      BY DEF NewFile
    <2> HIDE DEF row
    <2> QED BY <1>1, <1>3, <2>1, <2>2, <2>3
  <1>5. ASSUME NEW c \in Clients, ReplacePersist(c), tx' # tx PROVE TxShape'
    <2> DEFINE f == req[c].file
               new == AddVersion(seen[c][f], req[c].version)
               row == Saved(c, f, new)
    <2>1. /\ c \in Procs /\ DOMAIN pc = Procs /\ req[c].op = "replace" /\ LockMatches(c, f)
          /\ PersistAndEnqueue(c, row)
      BY <1>5 DEF ReplacePersist, PersistFails, At, Procs, Inv, LocalInv
    <2>2. /\ tx' = [client |-> c, file |-> f, row |-> row] /\ pc'[c] = "commit"
          /\ req' = req /\ files' = files /\ seen' = seen
      BY <1>5, <2>1 DEF PersistAndEnqueue, Goto
    <2>3. f \in Files /\ Judged(seen[c][f])
      BY <2>1 DEF Inv, LocalInv, ClientKnows
    <2>4. files[f] = seen[c][f] /\ seen[c][f] \in GoodRow /\ Live(files[f])
      BY <2>1, <2>3, LockedRow DEF Judged, Live
    <2>5. new.versions = Append(seen[c][f].versions, req[c].version)
          /\ new = [seen[c][f] EXCEPT !.status = "PENDING",
                        !.versions = Append(seen[c][f].versions, req[c].version)]
      BY <2>4 DEF AddVersion, GoodRow, Row
    <2>6. row.versions = new.versions /\ row.status = "PENDING"
      BY <2>4, <2>5 DEF Saved, GoodRow, Row
    <2> HIDE DEF row, new
    <2> QED BY <1>1, <1>3, <2>1, <2>2, <2>4, <2>5, <2>6 DEF Live
  <1>6. ASSUME NEW c \in Clients, DeleteWrite(c), tx' # tx PROVE TxShape'
    <2> DEFINE f == req[c].file
               row == Saved(c, f, MarkDeleted(seen[c][f]))
    <2>1. /\ c \in Procs /\ DOMAIN pc = Procs /\ req[c].op = "delete" /\ LockMatches(c, f)
          /\ tx' = [client |-> c, file |-> f, row |-> row] /\ Goto(c, "commit")
          /\ req' = req /\ files' = files /\ seen' = seen
      BY <1>6 DEF DeleteWrite, At, Procs, Inv, LocalInv
    <2>2. f \in Files /\ Judged(seen[c][f])
      BY <2>1 DEF Inv, LocalInv, ClientKnows
    <2>3. files[f] = seen[c][f] /\ seen[c][f] \in GoodRow /\ Live(files[f])
      BY <2>1, <2>2, LockedRow DEF Judged, Live
    <2>4. row.versions = files[f].versions /\ row.status = "DELETED"
      BY <2>3 DEF Saved, MarkDeleted, GoodRow, Row
    <2>5. pc'[c] = "commit"
      BY <2>1 DEF Goto
    <2> HIDE DEF row
    <2> QED BY <1>1, <1>3, <2>1, <2>3, <2>4, <2>5 DEF Live
  <1>7. CASE tx = Nil /\ tx' # tx
    BY <1>1, <1>4, <1>5, <1>6, <1>7, TxMoves
  <1> QED BY <1>1, <1>2, <1>7, TxMoves

LEMMA KeyInvStep ==
    ASSUME Inv, TypeInv, KeyInv, [Next]_vars
    PROVE  KeyInv'
  <1>1. \A f \in Files : files'[f] # Nil => Numbered(f, files'[f]) /\ f \in issued'
    BY NumberedStep
  <1> QED BY <1>1, KeyFitsStep, TxShapeStep DEF KeyInv

LEMMA InitKeyInv == Init => KeyInv
  <1> SUFFICES ASSUME Init PROVE KeyInv
    OBVIOUS
  <1>1. \A c \in Clients : req[c].op \notin AllOps
    BY NilIsNoOp DEF Init, NoRequest, Procs
  <1> QED BY <1>1 DEF Init, KeyInv, KeyFits, Writing, TxShape, AllOps

-----------------------------------------------------------------------------
(* No binary leaks *)

LEMMA KnownKeysStay ==
    ASSUME Inv, [Next]_vars, NEW f \in Files, files[f] # Nil
    PROVE  files'[f] # Nil /\ KeysOf(files[f]) \subseteq KeysOf(files'[f])
  <1>1. Extends(files[f], files'[f])
    BY RowsExtend
  <1>2. files'[f] \in GoodRow
    BY <1>1, NextStep, RowStepKeepsRowInv DEF Extends, Inv, RowInv, FilesOK
  <1>3. /\ DOMAIN files[f].versions = 1..Len(files[f].versions)
        /\ DOMAIN files'[f].versions = 1..Len(files'[f].versions)
        /\ Len(files[f].versions) \in Nat /\ Len(files'[f].versions) \in Nat
    BY <1>2, RowHasVersions, RowSizes
  <1> QED BY <1>1, <1>3 DEF Extends, KeysOf

Known(k) == \E f \in Files : files[f] # Nil /\ k \in KeysOf(files[f])
Carried(c, k) == /\ pc[c] \in {"persist", "commit", "compensate"}
                 /\ Writing(c) /\ KeyOf(c) = k

LEMMA CommitKnows ==
    ASSUME Inv, TypeInv, KeyInv, NEW c \in Clients, Commit(c), Writing(c),
           NEW k, k = KeyOf(c)
    PROVE  Known(k)'
  <1> DEFINE v == req[c].version
  <1>1. PICK f \in Files : /\ f = tx.file /\ tx.row \in GoodRow
                           /\ files' = [files EXCEPT ![f] = tx.row]
    BY CommitWrites
  <1>2. files'[f] = tx.row /\ tx.row # Nil
    BY <1>1, GoodRowIsNotNil DEF Inv, RowInv, FilesOK
  <1>3. \E i \in DOMAIN tx.row.versions : tx.row.versions[i] = v
    <2>1. CASE tx.row.versions = <<v>>
      <3>1. 1 \in DOMAIN <<v>> /\ <<v>>[1] = v
        OBVIOUS
      <3> QED BY <2>1, <3>1
    <2>2. CASE Live(files[f]) /\ tx.row.versions = Append(files[f].versions, v)
      <3> DEFINE vs == files[f].versions
      <3>1. vs \in Seq(Version) /\ v \in Version
        BY <1>1, <2>2, RowHasVersions, WriterHasVersion DEF Live
      <3>2. Len(vs) + 1 \in DOMAIN Append(vs, v) /\ Append(vs, v)[Len(vs) + 1] = v
        BY <3>1
      <3> QED BY <2>2, <3>2
    <2> QED BY <1>1, <2>1, <2>2, CommitWrites DEF Writing
  <1>4. k \in KeysOf(files'[f])
    BY <1>2, <1>3 DEF KeysOf, KeyOf
  <1> QED BY <1>1, <1>2, <1>4 DEF Known

LEMMA CarriedStep ==
    ASSUME Inv, TypeInv, KeyInv, [Next]_vars, "storage" \notin Faults, "crash" \notin Faults,
           NEW c \in Clients, NEW k \in Keys, Carried(c, k), storage'[k] # Nil
    PROVE  Carried(c, k)' \/ Known(k)'
  <1>1. /\ c \in Procs /\ DOMAIN pc = Procs /\ DOMAIN req = Procs
        /\ storage \in [Keys -> Contents \cup {Nil}]
    BY DEF Procs, Inv, LocalInv, TypeInv
  <1>2. ~Crash(c)
    BY DEF Crash, CanFail
  <1>3. CASE Stays(c)
    BY <1>3 DEF Stays, Carried, Writing, KeyOf
  <1>4. CASE UploadPersist(c) \/ ReplacePersist(c)
    BY <1>1, <1>4 DEF UploadPersist, ReplacePersist, PersistAndEnqueue, PersistFails, Goto,
       Carried, Writing, KeyOf
  <1>5. CASE Commit(c)
    BY <1>5, CommitKnows DEF Carried
  <1>6. CASE Rollback(c)
    BY <1>1, <1>6 DEF Rollback, Goto, Carried, Writing, KeyOf
  <1>7. ~Compensate(c)
    BY <1>1 DEF Compensate, CanFail, Carried, KeyOf, Without
  <1>8. CASE CreateQuota(c)
    BY <1>8 DEF CreateQuota, Carried, Writing, KeyOf
  <1>9. /\ ~UploadFind(c) /\ ~ReplaceFind(c) /\ ~VerifyLimit(c) /\ ~StoreBinary(c)
        /\ ~DeleteFind(c) /\ ~DeleteWrite(c) /\ ~RenameFind(c) /\ ~RenameWrite(c)
        /\ ~ChangeResourceFind(c) /\ ~ChangeResourceCheck(c) /\ ~ChangeResourceWrite(c)
        /\ ~AdjustLimitFind(c) /\ ~AdjustLimitWrite(c)
    BY DEF Carried, UploadFind, ReplaceFind, VerifyLimit, StoreBinary, DeleteFind, DeleteWrite,
       RenameFind, RenameWrite, ChangeResourceFind, ChangeResourceCheck, ChangeResourceWrite,
       AdjustLimitFind, AdjustLimitWrite, BeginUpdate, At, Idle
  <1> QED BY <1>2, <1>3, <1>4, <1>5, <1>6, <1>7, <1>8, <1>9, ClientMoves DEF Serve

LEMMA LeakStep ==
    ASSUME Inv, TypeInv, KeyInv, LeakInv, [Next]_vars,
           "storage" \notin Faults, "crash" \notin Faults
    PROVE  LeakInv'
  <1> SUFFICES ASSUME NEW k \in Keys, storage'[k] # Nil
               PROVE  Known(k)' \/ \E c \in Clients : Carried(c, k)'
    BY DEF LeakInv, Known, Carried
  <1>1. CASE storage[k] # Nil
    <2>1. Known(k) \/ \E c \in Clients : Carried(c, k)
      BY <1>1 DEF LeakInv, Known, Carried
    <2>2. Known(k) => Known(k)'
      BY KnownKeysStay DEF Known
    <2> QED BY <2>1, <2>2, CarriedStep
  <1>2. CASE storage[k] = Nil
    <2>1. storage \in [Keys -> Contents \cup {Nil}]
      BY DEF TypeInv
    <2>2. PICK c \in Clients : StoreBinary(c) /\ StoresFor(c)
      BY <1>2, <2>1, StorageStep DEF RemovesFor, Sweeps, Without
    <2>3. k = KeyOf(c) /\ Writing(c)
      BY <1>2, <2>1, <2>2 DEF StoresFor, Put
    <2>4. pc'[c] = "persist" /\ req' = req
      BY <2>2 DEF StoreBinary, CanFail, Goto, Inv, LocalInv, Procs
    <2>5. Carried(c, k)'
      BY <2>3, <2>4 DEF Carried, Writing, KeyOf
    <2> QED BY <2>5
  <1> QED BY <1>1, <1>2

(* As long as the store and the processes do not fail, every binary of a     *)
(* request that did not commit has been removed when no request is in        *)
(* flight, whatever transactions rolled back and whatever ran beside it.     *)
THEOREM NothingLeaks ==
    ASSUME "storage" \notin Faults, "crash" \notin Faults
    PROVE  Spec => []NoLeakedBinary
  <1> DEFINE I == Inv /\ TypeInv /\ KeyInv /\ LeakInv
  <1>1. Init => I
    <2>1. Init => LeakInv
      BY DEF Init, LeakInv
    <2> QED BY <2>1, InitInv, InitTypeInv, InitKeyInv
  <1>2. I /\ [Next]_vars => I'
    BY InvStep, TypeInvStep, KeyInvStep, LeakStep
  <1>3. I => NoLeakedBinary
    BY DEF LeakInv, NoLeakedBinary, Idle, Stored
  <1> QED BY <1>1, <1>2, <1>3, PTL DEF Spec

-----------------------------------------------------------------------------
(* The binaries of live files stay *)

(* A step leaves the keys of each file but that of a commit as they were. *)
LEMMA SameKeys ==
    ASSUME Inv, [Next]_vars, Touches, NEW f \in Files, files'[f] # Nil
    PROVE  /\ files[f] # Nil /\ KeysOf(files'[f]) = KeysOf(files[f])
           /\ DOMAIN files'[f].versions = DOMAIN files[f].versions
           /\ \A i \in DOMAIN files[f].versions :
                 /\ files'[f].versions[i].key = files[f].versions[i].key
                 /\ files'[f].versions[i].content = files[f].versions[i].content
  <1>1. files[f] # Nil /\ Len(files'[f].versions) = Len(files[f].versions)
    BY DEF Touches, SameLength
  <1>2. Extends(files[f], files'[f])
    BY <1>1, RowsExtend
  <1>3. files'[f] \in GoodRow
    BY InvStep DEF Inv, RowInv, FilesOK
  <1>4. /\ DOMAIN files[f].versions = 1..Len(files[f].versions)
        /\ DOMAIN files'[f].versions = 1..Len(files'[f].versions)
    BY <1>1, <1>3, RowHasVersions, RowSizes
  <1>5. /\ DOMAIN files'[f].versions = DOMAIN files[f].versions
        /\ \A i \in DOMAIN files[f].versions :
              /\ files'[f].versions[i].key = files[f].versions[i].key
              /\ files'[f].versions[i].content = files[f].versions[i].content
    BY <1>1, <1>2, <1>4 DEF Extends
  <1> QED BY <1>1, <1>5 DEF KeysOf

(* The versions of the row that commits. *)
LEMMA CommitVersions ==
    ASSUME Inv, TypeInv, KeyInv, NEW c \in Clients, Commit(c), NEW f \in Files, f = tx.file
    PROVE  /\ files'[f] = tx.row /\ \A g \in Files : g # f => files'[g] = files[g]
           /\ \A i \in DOMAIN tx.row.versions :
                \/ Writing(c) /\ tx.row.versions[i] = req[c].version
                \/ /\ files[f] # Nil /\ Live(files[f]) /\ i \in DOMAIN files[f].versions
                   /\ tx.row.versions[i] = files[f].versions[i]
  <1> DEFINE v == req[c].version
  <1>1. files' = [files EXCEPT ![f] = tx.row]
    BY CommitWrites
  <1>2. CASE req[c].op = "upload" /\ tx.row.versions = <<v>>
    BY <1>1, <1>2 DEF Writing, Inv, RowInv, FilesOK
  <1>3. CASE /\ req[c].op = "replace" /\ Live(files[f])
             /\ tx.row.versions = Append(files[f].versions, v)
    <2> DEFINE vs == files[f].versions
    <2>1. vs \in Seq(Version) /\ v \in Version /\ DOMAIN vs = 1..Len(vs)
      BY <1>3, RowHasVersions, WriterHasVersion DEF Live, Writing
    <2>2. \A i \in DOMAIN Append(vs, v) :
            \/ Append(vs, v)[i] = v
            \/ i \in DOMAIN vs /\ Append(vs, v)[i] = vs[i]
      <3> HIDE DEF v, vs
      <3>1. /\ DOMAIN Append(vs, v) = 1..(Len(vs) + 1) /\ Len(vs) \in Nat
            /\ Append(vs, v)[Len(vs) + 1] = v
            /\ \A i \in 1..Len(vs) : Append(vs, v)[i] = vs[i]
        BY <2>1
      <3> QED BY <2>1, <3>1
    <2> QED BY <1>1, <1>3, <2>2 DEF Writing, Inv, RowInv, FilesOK, Live
  <1>4. CASE Live(files[f]) /\ tx.row.versions = files[f].versions
    BY <1>1, <1>4 DEF Live, Inv, RowInv, FilesOK
  <1> QED BY <1>2, <1>3, <1>4, CommitWrites

(* The binaries clients bring are apart from each other and from the rows'. *)
Apart(c) == /\ KeyOf(c)[3] \in NamesOf[c]
            /\ \A f \in Files : files[f] # Nil => KeyOf(c) \notin KeysOf(files[f])

LEMMA ApartFromOthers ==
    ASSUME DistinctNames, NEW c \in Clients, NEW d \in Clients, c # d,
           KeyOf(c)[3] \in NamesOf[c], KeyOf(d)[3] \in NamesOf[d]
    PROVE  KeyOf(c) # KeyOf(d)
  BY DEF DistinctNames

LEMMA NumberedKeys ==
    ASSUME Inv, KeyInv, NEW f \in Files, files[f] # Nil, NEW k \in KeysOf(files[f])
    PROVE  \E i \in 1..Len(files[f].versions) : k[1] = f /\ k[2] = i
  <1>1. Numbered(f, files[f]) /\ DOMAIN files[f].versions = 1..Len(files[f].versions)
    BY RowHasVersions DEF KeyInv
  <1> QED BY <1>1 DEF Numbered, KeysOf

LEMMA ApartStep ==
    ASSUME Inv, TypeInv, KeyInv, [Next]_vars, DistinctNames, "ambiguousCommit" \notin Faults,
           \A d \in Clients : Writing(d) => Apart(d),
           NEW c \in Clients, Writing(c)'
    PROVE  Apart(c)'
  <1>1. CASE UploadFind(c)
    <2>1. PICK f \in Files \ issued, name \in NamesOf[c] :
              req'[c].version.key = <<f, 1, name>> /\ files' = files
      BY <1>1, UploadDraws
    <2>2. KeyOf(c)' = <<f, 1, name>>
      BY <2>1 DEF KeyOf
    <2>3. ASSUME NEW g \in Files, files[g] # Nil PROVE <<f, 1, name>> \notin KeysOf(files[g])
      <3>1. g # f
        BY <2>1, <2>3 DEF KeyInv
      <3> QED BY <2>3, <3>1, NumberedKeys
    <2> QED BY <2>1, <2>2, <2>3 DEF Apart
  <1>2. CASE ReplaceFind(c)
    <2>1. PICK f \in Files, name \in NamesOf[c] :
              /\ files[f] # Nil /\ files' = files
              /\ req'[c].version.key = <<f, Len(files[f].versions) + 1, name>>
      BY <1>2, ReplaceDraws
    <2> DEFINE k == <<f, Len(files[f].versions) + 1, name>>
    <2>2. KeyOf(c)' = k
      BY <2>1 DEF KeyOf
    <2>3. ASSUME NEW g \in Files, files[g] # Nil, k \in KeysOf(files[g]) PROVE FALSE
      <3>1. PICK i \in 1..Len(files[g].versions) : k[1] = g /\ k[2] = i
        BY <2>3, NumberedKeys
      <3>2. g = f /\ Len(files[f].versions) + 1 = i
        BY <3>1
      <3>3. Len(files[f].versions) \in Nat
        BY <2>1, RowHasVersions
      <3> QED BY <3>1, <3>2, <3>3
    <2> QED BY <2>1, <2>2, <2>3 DEF Apart
  <1>3. CASE req'[c] = req[c] /\ Writing(c)
    <2>1. KeyOf(c)' = KeyOf(c) /\ Apart(c)
      BY <1>3 DEF KeyOf
    <2>2. PICK k : k = KeyOf(c)
      OBVIOUS
    <2>3. ASSUME NEW f \in Files, files'[f] # Nil PROVE k \notin KeysOf(files'[f])
      <3>1. CASE Touches
        BY <2>1, <2>2, <2>3, <3>1, SameKeys DEF Apart
      <3>2. ASSUME NEW d \in Clients, Commit(d) PROVE k \notin KeysOf(files'[f])
        <4>1. CASE f # tx.file
          <5>1. files'[f] = files[f]
            BY <3>2, <4>1, CommitVersions, CommitWrites
          <5> QED BY <2>1, <2>2, <2>3, <5>1 DEF Apart
        <4>2. CASE f = tx.file
          <5>1. /\ files'[f] = tx.row
                /\ \A i \in DOMAIN tx.row.versions :
                      \/ Writing(d) /\ tx.row.versions[i] = req[d].version
                      \/ /\ files[f] # Nil /\ i \in DOMAIN files[f].versions
                         /\ tx.row.versions[i] = files[f].versions[i]
            BY <3>2, <4>2, CommitVersions
          <5>2. Writing(d) => k # KeyOf(d)
            <6>1. c # d
              <7>1. CASE Writing(d) /\ d = c
                <8>1. Finish(d)
                  BY <3>2 DEF Commit, CanFail
                <8> QED BY <1>3, <7>1, <8>1, NilIsNoOp
                     DEF Finish, NoRequest, Writing, Inv, LocalInv, Procs, AllOps
              <7> QED BY <1>3, <7>1
            <6> QED BY <2>1, <2>2, <6>1, ApartFromOthers DEF Apart
          <5>3. files[f] # Nil => k \notin KeysOf(files[f])
            BY <2>1, <2>2 DEF Apart
          <5> QED BY <5>1, <5>2, <5>3 DEF KeysOf, KeyOf
        <4> QED BY <4>1, <4>2
      <3> QED BY <3>1, <3>2, FilesMove
    <2> QED BY <2>1, <2>2, <2>3 DEF Apart
  <1> QED BY <1>1, <1>2, <1>3, WriterStep

(* Nothing but the purge removes binaries of rows, and of deleted ones only. *)
LEMMA ReconcilerRests ==
    ASSUME Inv, [Next]_vars, "reconcile" \notin Ops, pc[Reconciler] = "idle"
    PROVE  /\ pc'[Reconciler] = "idle" /\ ~Reconcile(Reconciler)
           /\ req'[Reconciler] = req[Reconciler]
  <1>1. ~Reconcile(Reconciler) /\ ~Crash(Reconciler)
    BY DEF Reconcile, ReconcileRead, ReconcileList, DeleteBinary, MarkOrphan, May, Idle, Crash
  <1>2. Stays(Reconciler)
    BY <1>1, Frame, RolesAreDistinct DEF StepOf, Procs, Jobs
  <1> QED BY <1>1, <1>2 DEF Stays

LEMMA DoomedStays ==
    ASSUME Inv, [Next]_vars, NEW k, Doomed(k)
    PROVE  Doomed(k)'
  BY RowsExtend DEF Doomed, Extends

LEMMA PurgerKeys ==
    ASSUME Inv, TypeInv, [Next]_vars, \A k \in req[Purger].keys : Doomed(k),
           NEW k \in req'[Purger].keys
    PROVE  Doomed(k)
  <1> DEFINE r == Purger
  <1>1. r \in Procs /\ DOMAIN req = Procs /\ r \notin Clients /\ r \notin ScanWorkers
        /\ r # Reconciler /\ r # Rescanner
    BY RolesAreDistinct DEF Procs, Jobs, Inv, LocalInv
  <1>2. CASE Stays(r)
    BY <1>2 DEF Stays
  <1>3. ~Finish(r)
    BY <1>1 DEF Finish, NoRequest
  <1>4. ASSUME NEW keys, Continue(r, keys, {}) \/ Continue(r, keys, req[r].batch)
        PROVE  k \in keys
    BY <1>1, <1>3, <1>4 DEF Continue, NoRequest
  <1>5. CASE PurgeList(r)
    <2>1. PICK old \in SUBSET {f \in Files : files[f] # Nil /\ ~Live(files[f])} :
            LET stored == {f \in old : KeysOf(files[f]) \cap Stored(storage) # {}}
            IN  Continue(r, UNION {KeysOf(files[f]) : f \in stored}, {})
      BY <1>5 DEF PurgeList
    <2> DEFINE stored == {f \in old : KeysOf(files[f]) \cap Stored(storage) # {}}
               keys == UNION {KeysOf(files[f]) : f \in stored}
    <2>2. Continue(r, keys, {})
      BY <2>1
    <2>3. k \in keys
      <3> HIDE DEF keys
      <3> QED BY <1>4, <2>2
    <2>4. PICK f \in stored : k \in KeysOf(files[f])
      BY <2>3
    <2> QED BY <2>4 DEF Doomed, Live
  <1>6. CASE DeleteBinary(r)
    <2>1. PICK j \in req[r].keys : Continue(r, req[r].keys \ {j}, req[r].batch)
      BY <1>3, <1>6 DEF DeleteBinary
    <2> QED BY <1>4, <2>1
  <1>7. ~Crash(r)
    BY <1>3 DEF Crash
  <1>8. CASE StepOf(r)
    BY <1>1, <1>5, <1>6, <1>7, <1>8 DEF StepOf, Purge
  <1> QED BY <1>1, <1>2, <1>8, Frame

LEMMA StoredStep ==
    ASSUME Inv, TypeInv, KeyInv, StoreInv, [Next]_vars, DistinctNames,
           NEW c \in Clients, Writing(c)', pc'[c] \in {"persist", "commit"}
    PROVE  storage'[KeyOf(c)'] = req'[c].version.content
  <1>1. /\ req'[c] = req[c] /\ Writing(c)
        /\ pc[c] \in {"persist", "commit"} \/ StoresFor(c)
    BY WriterMoves
  <1> DEFINE k == KeyOf(c)
             content == req[c].version.content
  <1>2. KeyOf(c)' = k /\ req'[c].version.content = content
    BY <1>1 DEF KeyOf
  <1>3. k \in Keys /\ storage \in [Keys -> Contents \cup {Nil}]
    BY <1>1, WriterHasVersion DEF TypeInv
  <1>4. /\ k[3] \in NamesOf[c]
        /\ \A f \in Files : files[f] # Nil => k \notin KeysOf(files[f])
        /\ pc[c] \in {"persist", "commit"} => storage[k] = content
    BY <1>1 DEF StoreInv
  <1>5. CASE StoresFor(c)
    BY <1>2, <1>3, <1>5 DEF StoresFor, Put
  <1>6. CASE pc[c] \in {"persist", "commit"}
    <2>1. storage[k] = content
      BY <1>4, <1>6
    <2>2. ASSUME NEW d \in Clients, Writing(d), pc[d] \in {"store", "compensate"}
          PROVE  KeyOf(d) # k
      <3>1. d # c
        BY <1>6, <2>2
      <3>2. KeyOf(d)[3] \in NamesOf[d]
        BY <2>2 DEF StoreInv
      <3> QED BY <1>4, <3>1, <3>2, ApartFromOthers
    <2>3. ASSUME NEW d \in Clients, StoresFor(d) \/ RemovesFor(d)
          PROVE  storage'[k] = storage[k]
      BY <1>3, <2>2, <2>3 DEF StoresFor, RemovesFor, Put, Without
    <2>4. ASSUME NEW r \in {Reconciler, Purger}, DeleteBinary(r), NEW j, Sweeps(r, j)
          PROVE  storage'[k] = storage[k]
      <3>1. r = Purger
        BY <2>4 DEF DeleteBinary, StoreInv
      <3>2. Doomed(j)
        BY <2>4, <3>1 DEF Sweeps, StoreInv
      <3>3. j # k
        BY <1>4, <3>2 DEF Doomed
      <3> QED BY <1>3, <2>4, <3>3 DEF Sweeps, Without
    <2> QED BY <1>2, <2>1, <2>3, <2>4, StorageStep
  <1> QED BY <1>1, <1>5, <1>6

(* The store keeps what is under the keys of a live row. *)
LEMMA LiveKeySafe ==
    ASSUME Inv, TypeInv, KeyInv, StoreInv, [Next]_vars,
           NEW f \in Files, Live(files[f]), NEW k \in KeysOf(files[f])
    PROVE  storage'[k] = storage[k]
  <1>1. storage \in [Keys -> Contents \cup {Nil}] /\ files[f] # Nil /\ k \in Keys
    BY KeysTyped DEF TypeInv, Live, Inv, RowInv, FilesOK
  <1>2. ASSUME NEW d \in Clients, StoresFor(d) \/ RemovesFor(d)
        PROVE  storage'[k] = storage[k]
    <2>1. KeyOf(d) # k
      BY <1>1, <1>2 DEF StoresFor, RemovesFor, StoreInv
    <2> QED BY <1>1, <1>2, <2>1 DEF StoresFor, RemovesFor, Put, Without
  <1>3. ASSUME NEW r \in {Reconciler, Purger}, DeleteBinary(r), NEW j, Sweeps(r, j)
        PROVE  storage'[k] = storage[k]
    <2>1. r = Purger
      BY <1>3 DEF DeleteBinary, StoreInv
    <2>2. PICK g \in Files : files[g] # Nil /\ files[g].status = "DELETED" /\ j \in KeysOf(files[g])
      BY <1>3, <2>1 DEF Sweeps, StoreInv, Doomed
    <2>3. g # f
      BY <2>2 DEF Live
    <2>4. j[1] = g /\ k[1] = f
      BY <1>1, <2>2, NumberedKeys
    <2>5. j # k
      BY <2>3, <2>4
    <2> QED BY <1>1, <1>3, <2>5 DEF Sweeps, Without
  <1> QED BY <1>2, <1>3, StorageStep

LEMMA LiveStoredStep ==
    ASSUME Inv, TypeInv, KeyInv, StoreInv, [Next]_vars,
           NEW f \in Files, Live(files[f])', NEW i \in DOMAIN files'[f].versions
    PROVE  storage'[files'[f].versions[i].key] = files'[f].versions[i].content
  <1>1. ASSUME files[f] # Nil, Live(files[f]), NEW j \in DOMAIN files[f].versions
        PROVE  storage'[files[f].versions[j].key] = files[f].versions[j].content
    <2>1. files[f].versions[j].key \in KeysOf(files[f])
      BY <1>1 DEF KeysOf
    <2>2. storage[files[f].versions[j].key] = files[f].versions[j].content
      BY <1>1 DEF StoreInv, LiveBinariesStored
    <2> QED BY <1>1, <2>1, <2>2, LiveKeySafe
  <1>2. files'[f] # Nil /\ files'[f].status # "DELETED"
    BY DEF Live
  <1>3. CASE Touches
    <2>1. /\ files[f] # Nil /\ i \in DOMAIN files[f].versions
          /\ files'[f].versions[i].key = files[f].versions[i].key
          /\ files'[f].versions[i].content = files[f].versions[i].content
      BY <1>2, <1>3, SameKeys
    <2>2. Live(files[f])
      BY <1>2, <2>1, RowsExtend DEF Extends, Live
    <2> QED BY <1>1, <2>1, <2>2
  <1>4. ASSUME NEW c \in Clients, Commit(c)
        PROVE  storage'[files'[f].versions[i].key] = files'[f].versions[i].content
    <2>1. CASE f # tx.file
      <3>1. files'[f] = files[f]
        BY <1>4, <2>1, CommitVersions, CommitWrites
      <3> QED BY <1>1, <1>2, <3>1 DEF Live
    <2>2. CASE f = tx.file
      <3>1. /\ files'[f] = tx.row
            /\ \/ Writing(c) /\ tx.row.versions[i] = req[c].version
               \/ /\ files[f] # Nil /\ Live(files[f]) /\ i \in DOMAIN files[f].versions
                  /\ tx.row.versions[i] = files[f].versions[i]
        BY <1>4, <2>2, CommitVersions
      <3>2. CASE Writing(c) /\ tx.row.versions[i] = req[c].version
        <4>1. storage[KeyOf(c)] = req[c].version.content /\ storage' = storage
          BY <1>4, <3>2 DEF Commit, StoreInv
        <4> QED BY <3>1, <3>2, <4>1 DEF KeyOf
      <3> QED BY <1>1, <3>1, <3>2
    <2> QED BY <2>1, <2>2
  <1> QED BY <1>3, <1>4, FilesMove

LEMMA StoreInvStep ==
    ASSUME Inv, TypeInv, KeyInv, StoreInv, [Next]_vars, DistinctNames,
           "ambiguousCommit" \notin Faults, "reconcile" \notin Ops
    PROVE  StoreInv'
  <1>1. LiveBinariesStored'
    BY LiveStoredStep DEF LiveBinariesStored
  <1>2. pc'[Reconciler] = "idle"
    BY ReconcilerRests DEF StoreInv
  <1>3. \A k \in req'[Purger].keys : Doomed(k)'
    BY PurgerKeys, DoomedStays DEF StoreInv
  <1>4. ASSUME NEW c \in Clients, Writing(c)' PROVE Apart(c)'
    BY <1>4, ApartStep DEF StoreInv, Apart
  <1>5. ASSUME NEW c \in Clients, Writing(c)', pc'[c] \in {"persist", "commit"}
        PROVE  storage'[KeyOf(c)'] = req'[c].version.content
    BY <1>5, StoredStep
  <1> QED BY <1>1, <1>2, <1>3, <1>4, <1>5 DEF StoreInv, Apart

(* As long as clients send different names at a time, no commit is           *)
(* ambiguous and the reconciliation does not run, no compensation, purge or  *)
(* replacement removes or overwrites a binary that a live file refers to.    *)
THEOREM LiveBinariesKept ==
    ASSUME DistinctNames, "ambiguousCommit" \notin Faults, "reconcile" \notin Ops
    PROVE  Spec => []LiveBinariesStored
  <1> DEFINE I == Inv /\ TypeInv /\ KeyInv /\ StoreInv
  <1>1. Init => I
    <2>1. Init => StoreInv
      <3> SUFFICES ASSUME Init PROVE StoreInv
        OBVIOUS
      <3>1. \A p \in Procs : req[p] = NoRequest /\ pc[p] = "idle"
        BY DEF Init
      <3>2. \A c \in Clients : ~Writing(c)
        BY <3>1, NilIsNoOp DEF Writing, NoRequest, AllOps, Procs
      <3>3. LiveBinariesStored
        BY DEF Init, LiveBinariesStored, Live
      <3> QED BY <3>1, <3>2, <3>3 DEF StoreInv, Procs, Jobs, NoRequest
    <2> QED BY <2>1, InitInv, InitTypeInv, InitKeyInv
  <1>2. I /\ [Next]_vars => I'
    BY InvStep, TypeInvStep, KeyInvStep, StoreInvStep
  <1>3. I => LiveBinariesStored
    BY DEF StoreInv
  <1> QED BY <1>1, <1>2, <1>3, PTL DEF Spec

-----------------------------------------------------------------------------
(* Sizes of rows *)

LEMMA SameSize ==
    ASSUME NEW old \in GoodRow, NEW new \in GoodRow,
           Len(new.versions) = Len(old.versions),
           \A i \in 1..Len(old.versions) : new.versions[i].content = old.versions[i].content
    PROVE  TotalSize(new) = TotalSize(old)
  <1> DEFINE n == Len(old.versions)
             f == SizesOf(old)
             g == SizesOf(new)
  <1>1. /\ IsFiniteSet(1..n) /\ \A i \in 1..n : f[i] = SizeOf[old.versions[i].content]
        /\ TotalSize(old) = SumFunctionOnSet(f, 1..n)
    BY RowSizes
  <1>2. /\ \A i \in 1..n : g[i] = SizeOf[new.versions[i].content]
        /\ TotalSize(new) = SumFunctionOnSet(g, 1..n)
    BY RowSizes
  <1>3. \A i \in 1..n : f[i] = g[i]
    BY <1>1, <1>2
  <1> HIDE DEF n, f, g
  <1> QED BY <1>1, <1>2, <1>3, SumCongruence

LEMMA AppendedSize ==
    ASSUME NEW old \in GoodRow, NEW new \in GoodRow, NEW v \in Version,
           new.versions = Append(old.versions, v)
    PROVE  /\ TotalSize(new) = TotalSize(old) + SizeOf[v.content]
           /\ SizeOf[Latest(new).content] = SizeOf[v.content]
  <1> DEFINE n == Len(old.versions)
             f == SizesOf(old)
             g == SizesOf(new)
  <1>1. old.versions \in Seq(Version)
    BY DEF GoodRow, Row
  <1>2. /\ n \in Nat /\ Len(new.versions) = n + 1 /\ new.versions[n + 1] = v
        /\ \A i \in 1..n : new.versions[i] = old.versions[i]
    BY <1>1
  <1>3. /\ IsFiniteSet(1..n) /\ \A i \in 1..n : f[i] = SizeOf[old.versions[i].content]
        /\ TotalSize(old) = SumFunctionOnSet(f, 1..n)
    BY RowSizes
  <1>4. /\ IsFiniteSet(1..(n + 1))
        /\ \A i \in 1..(n + 1) : /\ g[i] = SizeOf[new.versions[i].content]
                                 /\ g[i] \in Nat
        /\ TotalSize(new) = SumFunctionOnSet(g, 1..(n + 1))
    BY <1>2, RowSizes
  <1>5. /\ \A i \in 1..n : f[i] = g[i]
        /\ g[n + 1] = SizeOf[v.content] /\ g[n + 1] \in Int
    BY <1>2, <1>3, <1>4
  <1>6. n + 1 \in 1..(n + 1) /\ (1..(n + 1)) \ {n + 1} = 1..n
    BY <1>2
  <1>7. SizeOf[Latest(new).content] = SizeOf[v.content]
    BY <1>2 DEF Latest
  <1> HIDE DEF n, f, g
  <1>8. SumFunctionOnSet(g, 1..n) = SumFunctionOnSet(f, 1..n)
    BY <1>3, <1>5, SumCongruence
  <1>9. \A i \in 1..(n + 1) : g[i] \in Int
    BY <1>4
  <1>10. SumFunctionOnSet(g, 1..(n + 1)) = g[n + 1] + SumFunctionOnSet(g, (1..(n + 1)) \ {n + 1})
    BY <1>4, <1>6, <1>9, SumRemove
  <1>11. TotalSize(old) \in Nat
    BY TotalSizeNat
  <1>12. SumFunctionOnSet(g, (1..(n + 1)) \ {n + 1}) = TotalSize(old)
    BY <1>3, <1>6, <1>8
  <1>13. TotalSize(new) = SizeOf[v.content] + TotalSize(old)
    BY <1>4, <1>5, <1>10, <1>12
  <1>14. SizeOf[v.content] \in Int
    BY <1>5
  <1> QED BY <1>7, <1>11, <1>13, <1>14

LEMMA FirstSize ==
    ASSUME NEW new \in GoodRow, NEW v \in Version, new.versions = <<v>>
    PROVE  /\ TotalSize(new) = SizeOf[v.content]
           /\ SizeOf[Latest(new).content] = SizeOf[v.content]
  <1> DEFINE g == SizesOf(new)
  <1>1. Len(new.versions) = 1 /\ new.versions[1] = v
    OBVIOUS
  <1>2. /\ IsFiniteSet(1..1) /\ g[1] = SizeOf[v.content] /\ g[1] \in Nat
        /\ TotalSize(new) = SumFunctionOnSet(g, 1..1)
    <2> DEFINE n == Len(new.versions)
    <2>1. /\ TotalSize(new) = SumFunctionOnSet(g, 1..n) /\ IsFiniteSet(1..n)
          /\ \A i \in 1..n : g[i] = SizeOf[new.versions[i].content] /\ g[i] \in Nat
      BY RowSizes
    <2>2. n = 1 /\ new.versions[1] = v
      BY <1>1
    <2> HIDE DEF n, g
    <2> QED BY <2>1, <2>2
  <1>3. 1..1 = {1}
    OBVIOUS
  <1>4. SizeOf[Latest(new).content] = SizeOf[v.content]
    BY <1>1 DEF Latest
  <1> HIDE DEF g
  <1>5. IsFiniteSet({1}) /\ 1 \in {1} /\ {1} \ {1} = {} /\ \A i \in {1} : g[i] \in Int
    BY <1>2, <1>3
  <1>6. SumFunctionOnSet(g, {1}) = g[1] + SumFunctionOnSet(g, {1} \ {1})
    BY <1>5, SumRemove
  <1>7. SumFunctionOnSet(g, {1}) = g[1] + 0
    BY <1>5, <1>6, SumEmpty
  <1> QED BY <1>2, <1>3, <1>4, <1>7

-----------------------------------------------------------------------------
(* The counter of the quota *)

LiveFiles == {g \in Files : Live(files[g])}
Bytes == [f \in LiveFiles |-> TotalSize(files[f])]

LEMMA LiveBytesIsSum == /\ LiveBytes = SumFunctionOnSet(Bytes, LiveFiles)
                        /\ LiveBytes' = SumFunctionOnSet(Bytes', LiveFiles')
  <1>1. DOMAIN Bytes = LiveFiles /\ DOMAIN Bytes' = LiveFiles'
    BY DEF Bytes
  <1>2. LiveBytes = SumFunctionOnSet(Bytes, LiveFiles)
    BY <1>1 DEF LiveBytes, SumFunction, Bytes, LiveFiles
  <1>3. LiveBytes' = SumFunctionOnSet(Bytes', LiveFiles')
    BY <1>1 DEF LiveBytes, SumFunction, Bytes, LiveFiles
  <1> QED BY <1>2, <1>3

LEMMA LiveBytesFinite ==
    ASSUME Inv, TypeInv, KeyInv
    PROVE  IsFiniteSet(LiveFiles) /\ \A f \in LiveFiles : Bytes[f] \in Int
  <1>1. LiveFiles \subseteq issued /\ IsFiniteSet(issued)
    BY DEF LiveFiles, Live, KeyInv, TypeInv
  <1>2. IsFiniteSet(LiveFiles)
    BY <1>1, FS_Subset
  <1>3. ASSUME NEW f \in LiveFiles PROVE Bytes[f] \in Int
    <2>1. files[f] \in GoodRow
      BY <1>3 DEF LiveFiles, Live, Inv, RowInv, FilesOK
    <2> QED BY <1>3, <2>1, TotalSizeNat DEF Bytes
  <1> QED BY <1>2, <1>3

(* A step that neither creates nor deletes files nor adds versions. *)
LEMMA SameLiveBytes ==
    ASSUME Inv, TypeInv, KeyInv, [Next]_vars, Touches, SameLife
    PROVE  LiveBytes' = LiveBytes
  <1>1. Inv' /\ TypeInv' /\ KeyInv'
    BY InvStep, TypeInvStep, KeyInvStep
  <1>2. ASSUME NEW f \in Files, files[f] # Nil
        PROVE  files'[f] # Nil /\ TotalSize(files'[f]) = TotalSize(files[f])
    <2>1. Extends(files[f], files'[f]) /\ Len(files'[f].versions) = Len(files[f].versions)
      BY <1>2, RowsExtend DEF Touches, SameLength
    <2>2. files[f] \in GoodRow /\ files'[f] \in GoodRow
      BY <1>1, <1>2, <2>1 DEF Extends, Inv, RowInv, FilesOK
    <2> QED BY <2>1, <2>2, SameSize DEF Extends
  <1>3. \A f \in Files : Live(files'[f]) <=> Live(files[f])
    BY <1>2 DEF Touches, SameLife, Live
  <1>4. LiveFiles' = LiveFiles
    BY <1>3 DEF LiveFiles
  <1>5. \A f \in LiveFiles : Bytes'[f] = Bytes[f]
    BY <1>2, <1>4 DEF Bytes, LiveFiles, Live
  <1>6. IsFiniteSet(LiveFiles)
    BY LiveBytesFinite
  <1>7. LiveBytes' = SumFunctionOnSet(Bytes', LiveFiles')
    BY LiveBytesIsSum
  <1> DEFINE a == Bytes
             b == Bytes'
             S == LiveFiles
  <1>8. /\ \A f \in S : a[f] = b[f]
        /\ IsFiniteSet(S)
    BY <1>5, <1>6
  <1> HIDE DEF a, b, S
  <1>9. SumFunctionOnSet(a, S) = SumFunctionOnSet(b, S)
    BY <1>8, SumCongruence
  <1> QED BY <1>4, <1>7, <1>9, LiveBytesIsSum DEF a, b, S

(* A commit changes one file. *)
LEMMA OtherBytes ==
    ASSUME Inv, TypeInv, KeyInv, NEW c \in Clients, Commit(c), NEW f \in Files, f = tx.file
    PROVE  /\ LiveFiles' \ {f} = LiveFiles \ {f}
           /\ SumFunctionOnSet(Bytes', LiveFiles' \ {f}) = SumFunctionOnSet(Bytes, LiveFiles \ {f})
           /\ IsFiniteSet(LiveFiles \ {f})
  <1>1. \A g \in Files \ {f} : files'[g] = files[g]
    BY CommitVersions
  <1>2. LiveFiles' \ {f} = LiveFiles \ {f}
    BY <1>1 DEF LiveFiles
  <1>3. \A g \in LiveFiles \ {f} : Bytes'[g] = Bytes[g]
    BY <1>1, <1>2 DEF Bytes, LiveFiles
  <1>4. IsFiniteSet(LiveFiles \ {f})
    BY LiveBytesFinite, FS_Difference
  <1> DEFINE a == Bytes
             b == Bytes'
             S == LiveFiles \ {f}
  <1>5. (\A g \in S : b[g] = a[g]) /\ IsFiniteSet(S)
    BY <1>3, <1>4
  <1> HIDE DEF a, b, S
  <1>6. SumFunctionOnSet(b, S) = SumFunctionOnSet(a, S)
    BY <1>5, SumCongruence
  <1> QED BY <1>2, <1>4, <1>6 DEF a, b, S

(* The part of one live file in the sum. *)
LEMMA OneOfLiveBytes ==
    ASSUME Inv, TypeInv, KeyInv, NEW f \in LiveFiles
    PROVE  /\ LiveBytes = TotalSize(files[f]) + SumFunctionOnSet(Bytes, LiveFiles \ {f})
           /\ SumFunctionOnSet(Bytes, LiveFiles \ {f}) \in Int
  <1>1. /\ LiveBytes = SumFunctionOnSet(Bytes, LiveFiles) /\ IsFiniteSet(LiveFiles)
        /\ \A g \in LiveFiles : Bytes[g] \in Int
    BY LiveBytesIsSum, LiveBytesFinite
  <1>2. Bytes[f] = TotalSize(files[f])
    BY DEF Bytes
  <1>3. IsFiniteSet(LiveFiles \ {f})
    BY <1>1, FS_Difference
  <1>4. SumFunctionOnSet(Bytes, LiveFiles \ {f}) \in Int
    BY <1>1, <1>3, SumInt
  <1> QED BY <1>1, <1>2, <1>4, SumRemove

LEMMA OneOfNextLiveBytes ==
    ASSUME Inv', TypeInv', KeyInv', NEW f \in LiveFiles'
    PROVE  LiveBytes' = TotalSize(files'[f]) + SumFunctionOnSet(Bytes', LiveFiles' \ {f})
  <1>1. LiveBytes' = SumFunctionOnSet(Bytes', LiveFiles')
    BY LiveBytesIsSum
  <1>2. LiveFiles' \subseteq issued' /\ IsFiniteSet(issued')
    BY DEF LiveFiles, Live, KeyInv, TypeInv
  <1>3. IsFiniteSet(LiveFiles')
    BY <1>2, FS_Subset
  <1>4. ASSUME NEW g \in LiveFiles' PROVE Bytes'[g] \in Int
    <2>1. files'[g] \in GoodRow
      BY <1>4 DEF LiveFiles, Live, Inv, RowInv, FilesOK
    <2> QED BY <1>4, <2>1, TotalSizeNat DEF Bytes
  <1>5. Bytes'[f] = TotalSize(files'[f])
    BY DEF Bytes
  <1> QED BY <1>1, <1>3, <1>4, <1>5, SumRemove

LEMMA CommitCounts ==
    ASSUME Inv, TypeInv, KeyInv, NEW c \in Clients, Commit(c), [Next]_vars, QuotaExact
    PROVE  QuotaExact'
  <1>1. Inv' /\ TypeInv' /\ KeyInv'
    BY InvStep, TypeInvStep, KeyInvStep
  <1>2. PICK f \in Files : f = tx.file
    BY CommitWrites
  <1>3. /\ tx.row \in GoodRow /\ files'[f] = tx.row /\ tx.row # Nil
        /\ quota \in Quota /\ quota' = [quota EXCEPT !.used = @ + UsageDelta(tx.row)]
    BY <1>2, CommitWrites, CommitVersions, GoodRowIsNotNil
  <1> DEFINE rest == SumFunctionOnSet(Bytes, LiveFiles \ {f})
  <1>4. /\ SumFunctionOnSet(Bytes', LiveFiles' \ {f}) = rest
        /\ LiveFiles' \ {f} = LiveFiles \ {f}
    BY <1>2, OtherBytes
  <1>5. quota.used = LiveBytes /\ quota.used \in Int /\ UsageDelta(tx.row) \in Int
    BY <1>3, NilIsFresh, TotalSizeNat DEF QuotaExact, Quota
  <1>6. quota'.used = LiveBytes + UsageDelta(tx.row)
    BY <1>3, <1>5 DEF Quota
  <1>7. SUFFICES LiveBytes' = LiveBytes + UsageDelta(tx.row)
    BY <1>6 DEF QuotaExact
  <1>8. TotalSize(tx.row) \in Nat
    BY <1>3, TotalSizeNat
  <1>9. CASE /\ req[c].op = "upload" /\ files[f] = Nil
             /\ tx.row.versions = <<req[c].version>> /\ tx.row.status = "PENDING"
    <2>1. f \in LiveFiles' /\ LiveFiles \ {f} = LiveFiles
      BY <1>3, <1>9 DEF LiveFiles, Live
    <2>2. LiveBytes' = TotalSize(tx.row) + rest
      BY <1>1, <1>3, <1>4, <2>1, OneOfNextLiveBytes
    <2>3. LiveBytes = rest
      BY <2>1, LiveBytesIsSum
    <2>4. req[c].version \in Version
      BY <1>9, WriterHasVersion DEF Writing
    <2>5. UsageDelta(tx.row) = TotalSize(tx.row)
      BY <1>3, <1>9, <2>4, FirstSize DEF UsageDelta
    <2> HIDE DEF rest
    <2> QED BY <1>5, <1>8, <2>2, <2>3, <2>5
  <1>10. ASSUME Live(files[f])
         PROVE  /\ LiveBytes = TotalSize(files[f]) + rest /\ rest \in Int
                /\ files[f] \in GoodRow /\ TotalSize(files[f]) \in Nat
    <2>1. f \in LiveFiles /\ files[f] \in GoodRow
      BY <1>10 DEF LiveFiles, Live, Inv, RowInv, FilesOK
    <2> QED BY <2>1, OneOfLiveBytes, TotalSizeNat
  <1>11. CASE /\ req[c].op = "replace" /\ Live(files[f])
              /\ tx.row.versions = Append(files[f].versions, req[c].version)
              /\ tx.row.status = "PENDING"
    <2>1. f \in LiveFiles'
      BY <1>3, <1>11 DEF LiveFiles, Live
    <2>2. LiveBytes' = TotalSize(tx.row) + rest
      BY <1>1, <1>3, <1>4, <2>1, OneOfNextLiveBytes
    <2>3. req[c].version \in Version
      BY <1>11, WriterHasVersion DEF Writing
    <2>4. TotalSize(tx.row) = TotalSize(files[f]) + UsageDelta(tx.row)
      BY <1>3, <1>10, <1>11, <2>3, AppendedSize DEF UsageDelta
    <2> HIDE DEF rest
    <2> QED BY <1>5, <1>10, <1>11, <2>2, <2>4
  <1>12. CASE /\ req[c].op = "delete" /\ Live(files[f])
              /\ tx.row.versions = files[f].versions /\ tx.row.status = "DELETED"
    <2>1. f \notin LiveFiles' /\ LiveFiles' \ {f} = LiveFiles'
      BY <1>3, <1>12 DEF LiveFiles, Live
    <2>2. LiveBytes' = rest
      BY <1>4, <2>1, LiveBytesIsSum
    <2>3. TotalSize(tx.row) = TotalSize(files[f])
      BY <1>12 DEF TotalSize
    <2>4. UsageDelta(tx.row) = -TotalSize(files[f])
      BY <1>12, <2>3 DEF UsageDelta
    <2> HIDE DEF rest
    <2> QED BY <1>10, <1>12, <2>2, <2>4
  <1> QED BY <1>2, <1>9, <1>11, <1>12, CommitWrites

(* No adjustment of the limit is in progress when none may begin. *)
LEMMA NoAdjustmentStep ==
    ASSUME Inv, [Next]_vars, "adjustLimit" \notin Ops, NoAdjustment
    PROVE  NoAdjustment'
  <1> SUFFICES ASSUME NEW c \in Clients, req'[c].op = "adjustLimit" PROVE FALSE
    BY DEF NoAdjustment
  <1>1. /\ c \in Procs /\ DOMAIN req = Procs /\ req[c].op # "adjustLimit"
    BY DEF Procs, Inv, LocalInv, NoAdjustment
  <1>2. ~Finish(c) /\ ~Stays(c) /\ req'[c] # req[c]
    BY <1>1, NilIsNoOp DEF Finish, Stays, NoRequest, AllOps
  <1>3. ~UploadFind(c) /\ ~ReplaceFind(c)
    BY UploadDraws, ReplaceDraws
  <1>4. ASSUME NEW op \in {"delete", "rename", "changeResource"}, NEW f, NEW slot, NEW label
        PROVE  ~BeginUpdate(c, op, f, slot, label)
    BY <1>1 DEF BeginUpdate, NoRequest
  <1>5. ~DeleteFind(c) /\ ~RenameFind(c) /\ ~ChangeResourceFind(c) /\ ~AdjustLimitFind(c)
    BY <1>4 DEF DeleteFind, RenameFind, ChangeResourceFind, AdjustLimitFind, May
  <1>6. /\ ~CreateQuota(c) /\ ~VerifyLimit(c) /\ ~StoreBinary(c)
        /\ ~UploadPersist(c) /\ ~ReplacePersist(c)
    BY <1>2 DEF CreateQuota, VerifyLimit, StoreBinary, UploadPersist, ReplacePersist,
       PersistAndEnqueue, PersistFails
  <1>7. /\ ~Commit(c) /\ ~Rollback(c) /\ ~Compensate(c) /\ ~DeleteWrite(c) /\ ~RenameWrite(c)
        /\ ~ChangeResourceCheck(c) /\ ~ChangeResourceWrite(c) /\ ~AdjustLimitWrite(c)
        /\ ~Crash(c)
    BY <1>2 DEF Commit, Rollback, Compensate, DeleteWrite, RenameWrite, ChangeResourceCheck,
       ChangeResourceWrite, AdjustLimitWrite, Crash
  <1> QED BY <1>2, <1>3, <1>5, <1>6, <1>7, ClientMoves DEF Serve

LEMMA QuotaExactStep ==
    ASSUME Inv, TypeInv, KeyInv, QuotaInv, [Next]_vars,
           "adjustLimit" \notin Ops, "reconcile" \notin Ops
    PROVE  QuotaInv'
  <1>1. NoAdjustment' /\ pc'[Reconciler] = "idle" /\ ~MarkOrphan(Reconciler)
    BY NoAdjustmentStep, ReconcilerRests DEF QuotaInv, Reconcile
  <1> SUFFICES QuotaExact'
    BY <1>1 DEF QuotaInv
  <1>2. ASSUME NEW c \in Clients, Commit(c) PROVE QuotaExact'
    BY <1>2, CommitCounts DEF QuotaInv
  <1>3. CASE Touches
    <2>1. LiveBytes' = LiveBytes
      BY <1>1, <1>3, SameLiveBytes DEF Touches
    <2>2. CASE quota' = quota
      BY <2>1, <2>2 DEF QuotaInv, QuotaExact
    <2>3. ASSUME NEW c \in Clients, CreateQuota(c) PROVE QuotaExact'
      <3>1. quota = Nil /\ quota'.used = 0
        BY <2>3 DEF CreateQuota
      <3>2. LiveFiles = {}
        BY <3>1 DEF TypeInv, QuotaOK, LiveFiles, Live
      <3>3. LiveBytes = 0
        BY <3>2, LiveBytesIsSum, SumEmpty
      <3> QED BY <2>1, <3>1, <3>3 DEF QuotaExact
    <2>4. ASSUME NEW c \in Clients PROVE ~AdjustLimitWrite(c)
      BY DEF AdjustLimitWrite, At, QuotaInv, NoAdjustment
    <2> QED BY <1>2, <2>2, <2>3, <2>4, QuotaMoves
  <1> QED BY <1>2, <1>3, FilesMove

(* As long as no limit is adjusted and no file is found orphaned meanwhile,  *)
(* the counter of the quota is the sum of the sizes of all versions of the   *)
(* live files, whatever uploads, replacements, deletions, rollbacks and      *)
(* crashes interleave.                                                       *)
THEOREM QuotaCountsLiveBytes ==
    ASSUME "adjustLimit" \notin Ops, "reconcile" \notin Ops
    PROVE  Spec => []QuotaExact
  <1> DEFINE I == Inv /\ TypeInv /\ KeyInv /\ QuotaInv
  <1>1. Init => I
    <2>1. Init => QuotaInv
      <3> SUFFICES ASSUME Init PROVE QuotaInv
        OBVIOUS
      <3>1. LiveFiles = {}
        BY DEF Init, LiveFiles, Live
      <3>2. LiveBytes = 0
        BY <3>1, LiveBytesIsSum, SumEmpty
      <3>3. NoAdjustment
        BY NilIsNoOp DEF Init, NoAdjustment, NoRequest, AllOps, Procs
      <3> QED BY <3>2, <3>3 DEF Init, QuotaInv, QuotaExact, Procs, Jobs
    <2> QED BY <2>1, InitInv, InitTypeInv, InitKeyInv
  <1>2. I /\ [Next]_vars => I'
    BY InvStep, TypeInvStep, KeyInvStep, QuotaExactStep
  <1>3. I => QuotaExact
    BY DEF QuotaInv
  <1> QED BY <1>1, <1>2, <1>3, PTL DEF Spec

-----------------------------------------------------------------------------
(* Verified but uncounted bytes *)

LEMMA LargestExists ==
    ASSUME IsFiniteSet(Contents), Contents # {}
    PROVE  \E c \in Contents : \A d \in Contents : SizeOf[d] <= SizeOf[c]
  <1> DEFINE Largest(s) == \E c \in s : \A d \in s : SizeOf[d] <= SizeOf[c]
             Bad == {s \in SUBSET Contents : s # {} /\ ~Largest(s)}
  <1>1. SUFFICES ASSUME Bad # {} PROVE FALSE
    OBVIOUS
  <1>2. Bad \in SUBSET (SUBSET Contents)
    OBVIOUS
  <1>3. PICK s \in Bad : \A t \in SUBSET s : t # s => t \notin Bad
    <2> HIDE DEF Bad
    <2> QED BY <1>1, <1>2, SmallestSubset
  <1>4. s \in SUBSET Contents /\ s # {} /\ ~Largest(s)
    BY <1>3
  <1>5. \A c \in s : SizeOf[c] \in Int
    BY <1>4, SizesAreNat
  <1>6. PICK x \in s : TRUE
    BY <1>4
  <1>7. CASE s \ {x} = {}
    <2>1. \A d \in s : d = x
      BY <1>7
    <2> QED BY <1>4, <1>5, <1>6, <2>1
  <1>8. CASE s \ {x} # {}
    <2>1. Largest(s \ {x})
      BY <1>3, <1>4, <1>8
    <2>2. PICK y \in s \ {x} : \A d \in s \ {x} : SizeOf[d] <= SizeOf[y]
      BY <2>1
    <2>3. SizeOf[x] \in Int /\ SizeOf[y] \in Int
      BY <1>5
    <2>4. CASE SizeOf[x] <= SizeOf[y]
      BY <1>4, <2>2, <2>4
    <2>5. CASE SizeOf[y] <= SizeOf[x]
      <3>1. \A d \in s : SizeOf[d] <= SizeOf[x]
        BY <1>5, <2>2, <2>3, <2>5
      <3> QED BY <1>4, <3>1
    <2> QED BY <2>3, <2>4, <2>5
  <1> QED BY <1>7, <1>8

LEMMA LargestIsLargest ==
    ASSUME IsFiniteSet(Contents), Contents # {}
    PROVE  LargestSize \in Nat /\ \A c \in Contents : SizeOf[c] <= LargestSize
  <1> DEFINE Sizes == {SizeOf[c] : c \in Contents}
  <1>1. \E n \in Sizes : \A c \in Contents : SizeOf[c] <= n
    BY LargestExists
  <1>2. Sizes \subseteq Nat
    BY SizesAreNat
  <1>3. LargestSize \in Sizes /\ \A c \in Contents : SizeOf[c] <= LargestSize
    BY <1>1 DEF LargestSize
  <1> QED BY <1>2, <1>3

LEMMA ChargeTyped ==
    ASSUME Inv, NEW c \in Clients
    PROVE  /\ Charge(c) \in Nat
           /\ Charge(c) = 0 \/ \E content \in Contents : Charge(c) = SizeOf[content]
  <1>1. CASE Writing(c) /\ pc[c] \in {"store", "persist", "commit"}
    <2>1. Charge(c) = SizeOf[req[c].version.content]
      BY <1>1 DEF Charge
    <2>2. req[c].version.content \in Contents
      BY <1>1, WriterHasVersion
    <2> QED BY <2>1, <2>2, SizesAreNat
  <1>2. CASE ~(Writing(c) /\ pc[c] \in {"store", "persist", "commit"})
    BY <1>2 DEF Charge
  <1> QED BY <1>1, <1>2

LEMMA NextChargeTyped ==
    ASSUME Inv', NEW c \in Clients
    PROVE  /\ Charge(c)' \in Nat
           /\ Charge(c)' = 0 \/ \E content \in Contents : Charge(c)' = SizeOf[content]
  <1>1. CASE Writing(c)' /\ pc'[c] \in {"store", "persist", "commit"}
    <2>1. Charge(c)' = SizeOf[req'[c].version.content]
      BY <1>1 DEF Charge
    <2>2. req'[c].version \in Version
      BY <1>1 DEF Inv, LocalInv, ClientKnows, Writing
    <2>3. req'[c].version.content \in Contents
      BY <2>2 DEF Version
    <2> QED BY <2>1, <2>3, SizesAreNat
  <1>2. CASE ~(Writing(c)' /\ pc'[c] \in {"store", "persist", "commit"})
    BY <1>2 DEF Charge
  <1> QED BY <1>1, <1>2

(* The check of the limit alone raises what a client is about to add. *)
LEMMA ChargeStep ==
    ASSUME Inv, TypeInv, [Next]_vars, NEW c \in Clients
    PROVE  \/ Charge(c)' = Charge(c)
           \/ Charge(c)' = 0
           \/ /\ VerifyLimit(c) /\ Writing(c) /\ pc'[c] = "store"
              /\ Charge(c)' = SizeOf[req[c].version.content]
  <1>1. CASE Writing(c)' /\ pc'[c] \in {"store", "persist", "commit"}
    <2>1. /\ req'[c] = req[c] /\ Writing(c)
          /\ \/ pc'[c] = pc[c]
             \/ pc[c] = "verify" /\ pc'[c] = "store" /\ VerifyLimit(c)
             \/ pc[c] = "store" /\ pc'[c] = "persist"
             \/ pc[c] = "persist" /\ pc'[c] \in {"commit", "compensate"}
      BY <1>1, WriterMoves
    <2>2. Charge(c)' = SizeOf[req[c].version.content]
      BY <1>1, <2>1 DEF Charge
    <2>3. CASE pc[c] \in {"store", "persist", "commit"}
      BY <2>1, <2>2, <2>3 DEF Charge
    <2> QED BY <1>1, <2>1, <2>2, <2>3
  <1>2. CASE ~(Writing(c)' /\ pc'[c] \in {"store", "persist", "commit"})
    BY <1>2 DEF Charge
  <1> QED BY <1>1, <1>2

LEMMA SumWithout ==
    ASSUME IsFiniteSet(Clients), Inv, NEW c \in Clients
    PROVE  /\ SumOfCharges = Charge(c) + SumFunctionOnSet(Charges, Clients \ {c})
           /\ SumFunctionOnSet(Charges, Clients \ {c}) \in Nat
  <1>1. \A d \in Clients : Charges[d] = Charge(d) /\ Charges[d] \in Nat
    BY ChargeTyped DEF Charges
  <1>2. IsFiniteSet(Clients \ {c})
    BY FS_Difference
  <1>3. \A d \in Clients : Charges[d] \in Int
    BY <1>1
  <1>4. SumFunctionOnSet(Charges, Clients \ {c}) \in Nat
    BY <1>1, <1>2, SumNat
  <1>5. SumFunctionOnSet(Charges, Clients) =
            Charges[c] + SumFunctionOnSet(Charges, Clients \ {c})
    BY <1>3, SumRemove
  <1> QED BY <1>1, <1>4, <1>5 DEF SumOfCharges

LEMMA NextSumWithout ==
    ASSUME IsFiniteSet(Clients), Inv', NEW c \in Clients
    PROVE  SumOfCharges' = Charge(c)' + SumFunctionOnSet(Charges', Clients \ {c})
  <1>1. \A d \in Clients : Charges'[d] = Charge(d)' /\ Charges'[d] \in Int
    BY NextChargeTyped DEF Charges
  <1>2. SumFunctionOnSet(Charges', Clients) =
            Charges'[c] + SumFunctionOnSet(Charges', Clients \ {c})
    BY <1>1, SumRemove
  <1> QED BY <1>1, <1>2 DEF SumOfCharges

(* Clients are charged one at a time. *)
LEMMA SumOfChargesStep ==
    ASSUME IsFiniteSet(Clients), Inv, TypeInv, [Next]_vars,
           NEW c \in Clients, \A d \in Clients \ {c} : Stays(d)
    PROVE  SumOfCharges' = SumOfCharges - Charge(c) + Charge(c)'
  <1>1. Inv'
    BY InvStep
  <1>2. \A d \in Clients \ {c} : Charges'[d] = Charges[d]
    BY DEF Charges, Charge, Stays, Writing
  <1>3. IsFiniteSet(Clients \ {c})
    BY FS_Difference
  <1> DEFINE a == Charges
             b == Charges'
             S == Clients \ {c}
  <1>4. (\A d \in S : b[d] = a[d]) /\ IsFiniteSet(S)
    BY <1>2, <1>3
  <1> HIDE DEF a, b, S
  <1>5. SumFunctionOnSet(b, S) = SumFunctionOnSet(a, S)
    BY <1>4, SumCongruence
  <1>6. SumOfCharges' = Charge(c)' + SumFunctionOnSet(a, S)
    BY <1>1, <1>5, NextSumWithout DEF a, b, S
  <1>7. /\ SumOfCharges = Charge(c) + SumFunctionOnSet(a, S)
        /\ SumFunctionOnSet(a, S) \in Nat
    BY SumWithout DEF a, S
  <1>8. Charge(c) \in Nat /\ Charge(c)' \in Nat
    BY <1>1, ChargeTyped, NextChargeTyped
  <1> QED BY <1>6, <1>7, <1>8

LEMMA SumOfChargesStays ==
    ASSUME IsFiniteSet(Clients), Inv, \A d \in Clients : Stays(d)
    PROVE  SumOfCharges' = SumOfCharges
  <1> DEFINE a == Charges
             b == Charges'
  <1>1. \A d \in Clients : b[d] = a[d]
    BY DEF Charges, Charge, Stays, Writing
  <1> HIDE DEF a, b
  <1>2. SumFunctionOnSet(b, Clients) = SumFunctionOnSet(a, Clients)
    BY <1>1, SumCongruence
  <1> QED BY <1>2 DEF a, b, SumOfCharges

LEMMA ExcessTyped ==
    ASSUME IsFiniteSet(Clients), IsFiniteSet(Contents), Contents # {}, Inv, NEW c \in Clients
    PROVE  /\ Excess \in Int
           /\ SumFunctionOnSet(Charges, Clients \ {c}) <= Excess
           /\ 0 <= Excess
  <1>1. LargestSize \in Nat /\ \A content \in Contents : SizeOf[content] <= LargestSize
    BY LargestIsLargest
  <1>2. \A d \in Clients : Charges[d] \in 0..LargestSize
    <2> SUFFICES ASSUME NEW d \in Clients PROVE Charge(d) \in 0..LargestSize
      BY DEF Charges
    <2> QED BY <1>1, ChargeTyped
  <1>3. IsFiniteSet(Clients \ {c}) /\ Cardinality(Clients \ {c}) = Cardinality(Clients) - 1
    BY FS_RemoveElement
  <1>4. Cardinality(Clients \ {c}) \in Nat
    BY <1>3, FS_CardinalityType
  <1> DEFINE S == Clients \ {c}
  <1>5. \A d \in S : Charges[d] \in 0..LargestSize
    BY <1>2
  <1> HIDE DEF S
  <1>6. /\ SumFunctionOnSet(Charges, S) \in Int
        /\ 0 <= SumFunctionOnSet(Charges, S)
        /\ SumFunctionOnSet(Charges, S) <= Cardinality(S) * LargestSize
    BY <1>1, <1>3, <1>5, SumBounded DEF S
  <1>7. Excess = Cardinality(S) * LargestSize
    BY <1>3 DEF Excess, S
  <1>8. Cardinality(S) * LargestSize \in Int
    BY <1>1, <1>4, TimesOneMore DEF S
  <1> QED BY <1>6, <1>7, <1>8 DEF S

LEMMA CommitCharges ==
    ASSUME Inv, TypeInv, KeyInv, [Next]_vars, NEW c \in Clients, Commit(c)
    PROVE  /\ Charge(c)' = 0 /\ UsageDelta(tx.row) \in Int /\ UsageDelta(tx.row) <= Charge(c)
           /\ quota \in Quota /\ quota' \in Quota
           /\ quota'.limit = quota.limit
           /\ quota'.used = quota.used + UsageDelta(tx.row)
  <1>1. tx.row \in GoodRow /\ quota \in Quota
        /\ quota' = [quota EXCEPT !.used = @ + UsageDelta(tx.row)]
    BY CommitWrites
  <1>2. UsageDelta(tx.row) \in Int /\ TotalSize(tx.row) \in Nat
    BY <1>1, TotalSizeNat
  <1>3. quota' \in Quota /\ quota'.limit = quota.limit
        /\ quota'.used = quota.used + UsageDelta(tx.row)
    <2> DEFINE delta == UsageDelta(tx.row)
    <2> HIDE DEF delta
    <2>1. delta \in Int /\ quota' = [quota EXCEPT !.used = @ + delta]
      BY <1>1, <1>2 DEF delta
    <2> QED BY <1>1, <2>1 DEF Quota, delta
  <1>4. Charge(c)' = 0
    BY DEF Commit, Finish, Goto, Charge, Procs, Inv, LocalInv
  <1> SUFFICES UsageDelta(tx.row) <= Charge(c)
    BY <1>1, <1>2, <1>3, <1>4
  <1>5. CASE tx.row.status = "PENDING" /\ Writing(c)
    <2>1. Charge(c) = SizeOf[req[c].version.content] /\ req[c].version \in Version
      BY <1>5, WriterHasVersion DEF Charge, Commit
    <2>2. UsageDelta(tx.row) = SizeOf[Latest(tx.row).content]
      BY <1>5 DEF UsageDelta
    <2>3. Charge(c) \in Nat
      BY ChargeTyped
    <2>4. CASE tx.row.versions = <<req[c].version>>
      BY <1>1, <2>1, <2>2, <2>3, <2>4, FirstSize
    <2>5. CASE /\ Live(files[tx.file])
               /\ tx.row.versions = Append(files[tx.file].versions, req[c].version)
      <3>1. files[tx.file] \in GoodRow
        BY <2>5, CommitWrites, RowHasVersions DEF Live
      <3> DEFINE old == files[tx.file]
                 new == tx.row
                 v == req[c].version
      <3>2. old \in GoodRow /\ new \in GoodRow /\ v \in Version
            /\ new.versions = Append(old.versions, v)
        BY <1>1, <2>1, <2>5, <3>1
      <3> HIDE DEF old, new, v
      <3>3. SizeOf[Latest(new).content] = SizeOf[v.content]
        BY <3>2, AppendedSize
      <3> QED BY <2>1, <2>2, <2>3, <3>3 DEF new, v
    <2> QED BY <1>5, <2>4, <2>5, CommitWrites DEF Writing
  <1>6. CASE tx.row.status = "DELETED"
    BY <1>2, <1>6, ChargeTyped DEF UsageDelta
  <1> QED BY <1>5, <1>6, CommitWrites DEF Writing

LEMMA NothingCharged ==
    ASSUME IsFiniteSet(Clients), Inv, TypeInv, quota = Nil
    PROVE  SumOfCharges = 0
  <1>1. tx = Nil /\ \A c \in Clients : pc[c] \notin {"store", "persist"}
    BY DEF TypeInv, QuotaOK
  <1>2. \A c \in Clients : Charges[c] = 0
    BY <1>1 DEF Charges, Charge, Inv, LocalInv, ClientKnows
  <1>3. \A c \in Clients : Charges[c] \in 0..0
    BY <1>2
  <1>4. /\ SumOfCharges \in Int /\ 0 <= SumOfCharges
        /\ SumOfCharges <= Cardinality(Clients) * 0
    BY <1>3, SumBounded DEF SumOfCharges
  <1>5. Cardinality(Clients) \in Nat
    BY FS_CardinalityType
  <1> QED BY <1>4, <1>5

LEMMA SumOfChargesNat ==
    ASSUME IsFiniteSet(Clients), Inv
    PROVE  SumOfCharges \in Nat
  <1>1. \A c \in Clients : Charges[c] \in Nat
    BY ChargeTyped DEF Charges
  <1> QED BY <1>1, SumNat DEF SumOfCharges

LEMMA ChargeInvStep ==
    ASSUME Inv, TypeInv, KeyInv, ChargeInv, [Next]_vars, "adjustLimit" \notin Ops,
           IsFiniteSet(Clients), IsFiniteSet(Contents)
    PROVE  ChargeInv'
  <1>1. NoAdjustment'
    BY NoAdjustmentStep DEF ChargeInv
  <1> SUFFICES ASSUME quota' # Nil
               PROVE  Contents # {} /\ quota'.used + SumOfCharges' <= quota'.limit + Excess
    BY <1>1 DEF ChargeInv
  <1>2. /\ SumOfCharges \in Nat
        /\ \A c \in Clients : Charge(c) \in Nat /\ Charge(c)' \in Nat
    BY SumOfChargesNat, InvStep, ChargeTyped, NextChargeTyped
  <1>3. ASSUME quota # Nil
        PROVE  /\ quota.used \in Int /\ quota.limit \in Int /\ Contents # {}
               /\ quota.used + SumOfCharges <= quota.limit + Excess
    BY <1>3 DEF ChargeInv, TypeInv, QuotaOK, Quota
  <1>4. CASE quota' = quota /\ \A d \in Clients : Stays(d)
    BY <1>3, <1>4, SumOfChargesStays
  <1>5. ASSUME NEW c \in Clients, \A d \in Clients \ {c} : Stays(d), quota' = quota
        PROVE  quota'.used + SumOfCharges' <= quota'.limit + Excess
    <2>1. quota # Nil /\ Contents # {}
      BY <1>3, <1>5
    <2>2. SumOfCharges' = SumOfCharges - Charge(c) + Charge(c)'
      BY <1>5, SumOfChargesStep
    <2>3. Excess \in Int
      BY <2>1, ExcessTyped
    <2>4. CASE Charge(c)' = Charge(c) \/ Charge(c)' = 0
      BY <1>2, <1>3, <1>5, <2>1, <2>2, <2>3, <2>4
    <2>5. CASE /\ VerifyLimit(c) /\ Writing(c) /\ pc'[c] = "store"
               /\ Charge(c)' = SizeOf[req[c].version.content]
      <3> DEFINE size == SizeOf[req[c].version.content]
                 rest == SumFunctionOnSet(Charges, Clients \ {c})
      <3>1. quota.used + size <= quota.limit
        BY <2>5 DEF VerifyLimit, CanAccommodate, Finish, Goto, Procs, Inv, LocalInv
      <3>2. SumOfCharges = Charge(c) + rest /\ rest \in Nat
        BY SumWithout
      <3>3. rest <= Excess
        BY <2>1, ExcessTyped
      <3>4. size \in Nat
        BY <1>2, <2>5
      <3> HIDE DEF size, rest
      <3>5. SumOfCharges' = size + rest
        BY <1>2, <2>2, <2>5, <3>2, <3>4 DEF size
      <3> QED BY <1>3, <1>5, <2>1, <2>3, <3>1, <3>2, <3>3, <3>4, <3>5
    <2> QED BY <2>4, <2>5, ChargeStep
  <1>6. ASSUME NEW c \in Clients, CreateQuota(c)
        PROVE  Contents # {} /\ quota'.used + SumOfCharges' <= quota'.limit + Excess
    <2>1. /\ quota = Nil /\ quota' = [used |-> 0, limit |-> DefaultLimit]
          /\ \A d \in Clients : Stays(d)
      BY <1>6 DEF CreateQuota, Stays
    <2>2. Contents # {}
      BY <1>6, WriterHasVersion DEF CreateQuota, At, Writing
    <2>3. Excess \in Int /\ 0 <= Excess
      BY <2>2, ExcessTyped
    <2>4. SumOfCharges' = 0
      BY <2>1, NothingCharged, SumOfChargesStays
    <2> QED BY <2>1, <2>2, <2>3, <2>4, LimitsArePositive
  <1>7. ASSUME NEW c \in Clients, Commit(c)
        PROVE  Contents # {} /\ quota'.used + SumOfCharges' <= quota'.limit + Excess
    <2>1. quota # Nil
      BY <1>7, CommitWrites, NilIsFresh
    <2>2. /\ Charge(c)' = 0 /\ UsageDelta(tx.row) \in Int /\ UsageDelta(tx.row) <= Charge(c)
          /\ quota'.limit = quota.limit
          /\ quota'.used = quota.used + UsageDelta(tx.row)
      BY <1>7, CommitCharges
    <2>3. \A d \in Clients \ {c} : Stays(d)
      BY <1>7, ServeFrame DEF Serve, Procs
    <2>4. SumOfCharges' = SumOfCharges - Charge(c) + Charge(c)'
      BY <2>3, SumOfChargesStep
    <2>5. Excess \in Int
      BY <1>3, <2>1, ExcessTyped
    <2> QED BY <1>2, <1>3, <2>1, <2>2, <2>4, <2>5
  <1>8. ASSUME NEW c \in Clients PROVE ~AdjustLimitWrite(c)
    BY DEF AdjustLimitWrite, At, ChargeInv, NoAdjustment
  <1>9. CASE quota' = quota
    <2>1. Contents # {}
      BY <1>3, <1>9
    <2>2. (\A d \in Clients : Stays(d)) \/ \E c \in Clients : \A d \in Clients \ {c} : Stays(d)
      BY Frame, RolesAreDistinct DEF Procs
    <2> QED BY <1>4, <1>5, <1>9, <2>1, <2>2
  <1> QED BY <1>6, <1>7, <1>8, <1>9, QuotaMoves

(* The limit is checked before the transaction, so requests in flight        *)
(* together may exceed it: by no more than the largest binary each, the last *)
(* of them excepted, as long as no limit is adjusted meanwhile.              *)
THEOREM OvershootStaysBounded ==
    ASSUME "adjustLimit" \notin Ops, IsFiniteSet(Clients), IsFiniteSet(Contents)
    PROVE  Spec => []OvershootBounded
  <1> DEFINE I == Inv /\ TypeInv /\ KeyInv /\ ChargeInv
  <1>1. Init => I
    <2>1. Init => ChargeInv
      BY NilIsNoOp DEF Init, ChargeInv, NoAdjustment, NoRequest, AllOps, Procs
    <2> QED BY <2>1, InitInv, InitTypeInv, InitKeyInv
  <1>2. I /\ [Next]_vars => I'
    BY InvStep, TypeInvStep, KeyInvStep, ChargeInvStep
  <1>3. I => OvershootBounded
    <2> SUFFICES ASSUME I, quota # Nil
                 PROVE  quota.used <= quota.limit + Excess
      BY DEF OvershootBounded, Excess
    <2>1. /\ Contents # {} /\ quota.used + SumOfCharges <= quota.limit + Excess
          /\ quota.used \in Int /\ quota.limit \in Int
      BY DEF ChargeInv, TypeInv, QuotaOK, Quota
    <2>2. SumOfCharges \in Nat
      BY SumOfChargesNat
    <2>3. Excess \in Int
      <3>1. LargestSize \in Nat /\ Cardinality(Clients) \in Nat
        BY <2>1, LargestIsLargest, FS_CardinalityType
      <3> QED BY <3>1, TimesOneMore DEF Excess
    <2> QED BY <2>1, <2>2, <2>3
  <1> QED BY <1>1, <1>2, <1>3, PTL DEF Spec
=============================================================================
