---------------------------- MODULE FileStorage ----------------------------
(***************************************************************************)
(* The file-storage module of one tenant: the use cases behind the HTTP    *)
(* API, the antivirus scan workers, and the three scheduled maintenance    *)
(* jobs, over PostgreSQL (files, file_quotas), the binary store (B2 or the *)
(* local disk) and the BullMQ scan queue in Redis.                         *)
(*                                                                         *)
(* A process is an asynchronous function; between two of its awaits on     *)
(* shared state every other process may run, so there is one action per    *)
(* such await.  A path that ends in an exception before it changed         *)
(* anything is left out: the process stays where it is.                    *)
(***************************************************************************)
EXTENDS Integers, Sequences, FiniteSets, Functions

CONSTANTS
    Files,         \* identifiers the IdGenerator may hand out
    Slots,         \* resources a file of one purpose can be attached to
    Names,         \* file names a client may send
    Contents,      \* binaries, told apart by their checksum
    SizeOf,        \* SizeOf[c]: bytes of binary c
    Clients,       \* HTTP requests being served, one at a time each
    NamesOf,       \* NamesOf[c]: the names client c uses
    ScanWorkers,   \* concurrent executions of the scan handler
    Reconciler, Purger, Rescanner,  \* the scheduled jobs
    DefaultLimit,  \* DEFAULT_FILE_QUOTA_LIMIT_BYTES
    Limits,        \* limits an administrator may set
    Ops,           \* the use cases and jobs that run in this instance
    Faults,        \* the failures that may happen in this instance
    Verdicts,      \* the results the antivirus may return
    MaxAttempts,   \* FILE_SCAN_JOB_OPTIONS.attempts
    MaxStalls,     \* BullMQ's maxStalledCount
    MaxVersions,   \* bound: versions of a file
    MaxLock,       \* bound: no optional write begins at or above this row version
    Nil            \* absent row, binary, job, transaction or field

AllOps == {"upload", "replace", "delete", "rename", "changeResource",
           "adjustLimit", "reconcile", "purge", "rescan"}
AllFaults == {"storage", "redis", "rollback", "ambiguousCommit", "crash", "stall"}
AllVerdicts == {"CLEAN", "INFECTED", "ERROR"}

Jobs == {Reconciler, Purger, Rescanner}
Procs == Clients \cup ScanWorkers \cup Jobs

ASSUME SizesAreNat == SizeOf \in [Contents -> Nat \ {0}]
ASSUME NamesAreNames == NamesOf \in [Clients -> SUBSET Names]
(* No limit is below MIN_FILE_QUOTA_LIMIT_BYTES, which equals the default. *)
ASSUME LimitsArePositive == /\ DefaultLimit \in Nat \ {0}
                            /\ Limits \subseteq {n \in Nat : n >= DefaultLimit}
ASSUME KnownSwitches == /\ Ops \subseteq AllOps
                        /\ Faults \subseteq AllFaults
                        /\ Verdicts \subseteq AllVerdicts
ASSUME BoundsAreNat == /\ MaxAttempts \in Nat \ {0} /\ MaxStalls \in Nat
                       /\ MaxVersions \in Nat \ {0} /\ MaxLock \in Nat
ASSUME RolesAreDistinct ==
    /\ Clients \cap ScanWorkers = {}
    /\ Jobs \cap (Clients \cup ScanWorkers) = {}
    /\ Reconciler # Purger /\ Purger # Rescanner /\ Reconciler # Rescanner

VARIABLES
    files,    \* table files: committed row of each identifier, or Nil
    quota,    \* table file_quotas: the tenant's row, or Nil
    storage,  \* binary store: content under each key, or Nil
    queue,    \* Redis: the scan job of each (file, version), or Nil
    issued,   \* identifiers the IdGenerator has handed out
    tx,       \* the open transaction that holds the quota row's lock, or Nil
    pc,       \* where each process stands
    seen,     \* the rows each process has read and still works with
    req       \* the locals of each process

vars == <<files, quota, storage, queue, issued, tx, pc, seen, req>>

-----------------------------------------------------------------------------
(* Types *)

Keys == Files \X (1..MaxVersions) \X Names   \* tenants/_/files/<id>/v<n>/<name>
JobIds == Files \X (1..MaxVersions)          \* file-scan:<id>:v<n>
Statuses == {"PENDING", "READY", "INFECTED", "DELETED"}
Scans == {"NONE"} \cup AllVerdicts

(* scan is the latest entry of the version's scan history *)
Version == [key : Keys, content : Contents, scan : Scans]

(* lock is the column "version" that PrismaFileRepository.update compares *)
Row == [status : Statuses, slot : Slots, versions : Seq(Version), lock : Nat]
Quota == [used : Int, limit : Nat]
ScanJob == [state : {"waiting", "active", "delayed", "completed", "failed"},
            attempts : 0..MaxAttempts, stalls : 0..MaxStalls,
            worker : ScanWorkers \cup {Nil}]
Transaction == [client : Clients, file : Files, row : Row]  \* the uncommitted row

Request == [op : AllOps \cup {Nil}, file : Files \cup {Nil}, job : JobIds \cup {Nil},
            slot : Slots \cup {Nil}, version : Version \cup {Nil},
            quota : Quota \cup {Nil}, verdict : AllVerdicts \cup {Nil},
            keys : SUBSET Keys, batch : SUBSET Files]

ASSUME NilIsFresh == /\ Nil \notin Files \cup Slots \cup Contents \cup ScanWorkers \cup AllOps
                     /\ Nil \notin Row /\ Nil \notin Transaction
                     /\ Nil \notin ScanJob /\ Nil \notin Quota
                     /\ Nil \notin [status : Statuses, slot : Slots, history : Seq(Contents)]

NoRequest == [op |-> Nil, file |-> Nil, job |-> Nil, slot |-> Nil, version |-> Nil,
              quota |-> Nil, verdict |-> Nil, keys |-> {}, batch |-> {}]
NothingSeen == [f \in Files |-> Nil]

-----------------------------------------------------------------------------
(* The entity File: one operator per method *)

Live(row) == row # Nil /\ row.status # "DELETED"
(* Variant: a PENDING file is accepted too. *)
JudgedOrPending(row) == row # Nil /\ row.status # "DELETED"
Judged(row) == row # Nil /\ row.status \in {"READY", "INFECTED"}
Latest(row) == row.versions[Len(row.versions)]
KeysOf(row) == {row.versions[i].key : i \in DOMAIN row.versions}

NewFile(slot, version) ==
    [status |-> "PENDING", slot |-> slot, versions |-> <<version>>, lock |-> 0]
(* Variant: the new version takes the place of the latest. *)
OverwriteVersion(row, version) ==
    [row EXCEPT !.status = "PENDING", !.versions = [@ EXCEPT ![Len(row.versions)] = version]]
AddVersion(row, version) ==
    [row EXCEPT !.status = "PENDING", !.versions = Append(@, version)]
AddScan(row, verdict) ==
    [row EXCEPT !.versions = [@ EXCEPT ![Len(row.versions)].scan = verdict]]
MarkDeleted(row) == [row EXCEPT !.status = "DELETED"]

(* ScanFileJobsUseCase: an ERROR leaves the status as it was. *)
StatusAfterScan(verdict) ==
    CASE verdict = "CLEAN"    -> "READY"
      [] verdict = "INFECTED" -> "INFECTED"
      [] verdict = "ERROR"    -> "PENDING"
ScanResult(row, verdict) ==
    [AddScan(row, verdict) EXCEPT !.status = StatusAfterScan(verdict)]

(* RescanFilesJobsUseCase: only malware changes the status. *)
(* Variant: markAsInfectedByRescan forgotten. *)
RescanWithoutMark(row, verdict) == AddScan(row, verdict)
RescanResult(row, verdict) ==
    [AddScan(row, verdict) EXCEPT
        !.status = IF verdict = "INFECTED" THEN "INFECTED" ELSE @]

(* getTotalSize: what the file's versions occupy, all of them. *)
(* Variant: only the size of the latest version (File.size). *)
LatestSize(row) == SizeOf[Latest(row).content]
TotalSize(row) ==
    SumFunction([i \in DOMAIN row.versions |-> SizeOf[row.versions[i].content]])

(* What the transaction that writes this row adds to the quota's counter. *)
UsageDelta(row) ==
    IF row.status = "DELETED" THEN -TotalSize(row) ELSE SizeOf[Latest(row).content]

-----------------------------------------------------------------------------
(* PostgreSQL *)

(* The partial unique index on (tenant, resource, purpose) of live rows.  A  *)
(* file keeps its purpose, so files of different purposes never meet in it.  *)
(* Variant: an index over READY rows only. *)
SlotFreeOfReady(slot, f) ==
    \A g \in Files \ {f} :
        files[g] # Nil /\ files[g].status = "READY" => files[g].slot # slot
SlotFree(slot, f) == \A g \in Files \ {f} : Live(files[g]) => files[g].slot # slot

(* A row written in the open transaction is locked until it ends; so is the *)
(* index entry of the slot it takes or leaves.                              *)
RowUnlocked(f) == tx # Nil => tx.file # f
SlotUnlocked(slot) == tx # Nil => tx.row.slot # slot

(* PrismaFileRepository.update: WHERE id = ? AND version = <the one read>. *)
(* Variant: WHERE id = ? alone. *)
RowExists(p, f) == files[f] # Nil
LockMatches(p, f) == files[f] # Nil /\ files[f].lock = seen[p][f].lock
(* Variant: the version column is written back as read. *)
SavedSameLock(p, f, row) == [row EXCEPT !.lock = seen[p][f].lock]
Saved(p, f, row) == [row EXCEPT !.lock = seen[p][f].lock + 1]

(* FileQuota.canAccommodate *)
(* Variant: the size of the new binary is not counted. *)
NotYetOver(size) == quota.used <= quota.limit
CanAccommodate(size) == quota.used + size <= quota.limit

-----------------------------------------------------------------------------
(* The binary store *)

(* Variant: the version number is not a part of the key. *)
KeyWithoutVersion(f, n, name) == <<f, 1, name>>
StorageKey(f, n, name) == <<f, n, name>>
Stored(store) == {k \in Keys : store[k] # Nil}
Put(k, content) == [storage EXCEPT ![k] = content]
Without(k) == [storage EXCEPT ![k] = Nil]

CanFail(fault) == fault \in Faults

-----------------------------------------------------------------------------
(* The scan queue.  BullMQ keeps finished jobs (no removeOnComplete or       *)
(* removeOnFail is set) and ignores an add whose jobId it already knows.     *)

NewJob == [state |-> "waiting", attempts |-> 0, stalls |-> 0, worker |-> Nil]
Enqueued(j) == IF queue[j] = Nil THEN [queue EXCEPT ![j] = NewJob] ELSE queue

(* The worker reports the end of an attempt; a job it lost to a stall is no *)
(* longer its own, and the report is refused.                               *)
JobAs(j, job) == [queue EXCEPT ![j] = job]
Completed(w, j) ==
    IF queue[j].worker # w THEN queue
    ELSE JobAs(j, [queue[j] EXCEPT !.state = "completed", !.worker = Nil])
(* Variant: one attempt too many. *)
AttemptFailedLate(w, j) ==
    IF queue[j].worker # w THEN queue
    ELSE JobAs(j, [queue[j] EXCEPT
            !.state = IF queue[j].attempts <= MaxAttempts THEN "delayed" ELSE "failed",
            !.attempts = @ + 1, !.worker = Nil])
(* Variant: no attempts option, so a job that fails is not tried again. *)
FailedForGood(w, j) ==
    IF queue[j].worker # w THEN queue
    ELSE JobAs(j, [queue[j] EXCEPT !.state = "failed", !.attempts = @ + 1, !.worker = Nil])
AttemptFailed(w, j) ==
    IF queue[j].worker # w THEN queue
    ELSE LET n == queue[j].attempts + 1
         IN  JobAs(j, [queue[j] EXCEPT
                !.state = IF n < MaxAttempts THEN "delayed" ELSE "failed",
                !.attempts = n, !.worker = Nil])

-----------------------------------------------------------------------------
(* Processes *)

Goto(p, label) == pc' = [pc EXCEPT ![p] = label]

(* The function of process p returns or throws: its locals are gone. *)
Finish(p) ==
    /\ Goto(p, "idle")
    /\ seen' = [seen EXCEPT ![p] = NothingSeen]
    /\ req' = [req EXCEPT ![p] = NoRequest]

Read(p, f) == seen' = [seen EXCEPT ![p][f] = files[f]]
May(op) == op \in Ops
Room(row) == row.lock < MaxLock   \* the bound on optional writes

Init ==
    /\ files = [f \in Files |-> Nil]
    /\ quota = Nil
    /\ storage = [k \in Keys |-> Nil]
    /\ queue = [j \in JobIds |-> Nil]
    /\ issued = {}
    /\ tx = Nil
    /\ pc = [p \in Procs |-> "idle"]
    /\ seen = [p \in Procs |-> NothingSeen]
    /\ req = [p \in Procs |-> NoRequest]
-----------------------------------------------------------------------------
(* Use cases: upload and replace.  Both verify the quota, store the binary, *)
(* and then persist under CompensatingOperationService.                     *)

At(c, label, op) == pc[c] = label /\ req[c].op = op
Idle(p) == pc[p] = "idle"

(* findByResourceAndPurpose finds nothing; the identifier is drawn. *)
UploadFind(c) ==
    /\ Idle(c) /\ May("upload")
    /\ \E f \in Files \ issued, slot \in Slots, name \in NamesOf[c], content \in Contents :
        /\ SlotFree(slot, f)
        /\ issued' = issued \cup {f}
        /\ req' = [req EXCEPT ![c] = [NoRequest EXCEPT
                    !.op = "upload", !.file = f, !.slot = slot,
                    !.version = [key |-> StorageKey(f, 1, name),
                                 content |-> content, scan |-> "NONE"]]]
    /\ Goto(c, "verify")
    /\ UNCHANGED <<files, quota, storage, queue, tx, seen>>

ReplaceFind(c) ==
    /\ Idle(c) /\ May("replace")
    /\ \E f \in Files, name \in NamesOf[c], content \in Contents :
        /\ Judged(files[f])
        /\ Len(files[f].versions) < MaxVersions /\ Room(files[f])
        /\ Read(c, f)
        /\ req' = [req EXCEPT ![c] = [NoRequest EXCEPT
                    !.op = "replace", !.file = f,
                    !.version = [key |-> StorageKey(f, Len(files[f].versions) + 1, name),
                                 content |-> content, scan |-> "NONE"]]]
    /\ Goto(c, "verify")
    /\ UNCHANGED <<files, quota, storage, queue, issued, tx>>

(* CreateOrGetQuota: the tenant's first upload creates its quota. *)
CreateQuota(c) ==
    /\ At(c, "verify", "upload")
    /\ quota = Nil
    /\ quota' = [used |-> 0, limit |-> DefaultLimit]
    /\ UNCHANGED <<files, storage, queue, issued, tx, pc, seen, req>>

VerifyLimit(c) ==
    /\ pc[c] = "verify"
    /\ quota # Nil
    /\ IF CanAccommodate(SizeOf[req[c].version.content])
       THEN Goto(c, "store") /\ UNCHANGED <<seen, req>>
       ELSE Finish(c)
    /\ UNCHANGED <<files, quota, storage, queue, issued, tx>>

(* A PUT that fails, whether or not it reached the store, is not compensated. *)
StoreBinary(c) ==
    /\ pc[c] = "store"
    /\ \/ /\ storage' = Put(req[c].version.key, req[c].version.content)
          /\ Goto(c, "persist")
          /\ UNCHANGED <<seen, req>>
       \/ /\ CanFail("storage")
          /\ storage' \in {storage, Put(req[c].version.key, req[c].version.content)}
          /\ Finish(c)
    /\ UNCHANGED <<files, quota, queue, issued, tx>>

(* Inside the transaction: the row is written, the quota's counter raised    *)
(* (which waits for the quota row's lock) and the scan enqueued: the job is  *)
(* in Redis before the transaction commits.  A failed add rolls back.        *)
PersistAndEnqueue(c, row) ==
    LET f == req[c].file
        j == <<f, Len(row.versions)>>
    IN  /\ tx = Nil
        /\ \/ /\ tx' = [client |-> c, file |-> f, row |-> row]
              /\ queue' = Enqueued(j)
              /\ Goto(c, "commit")
           \/ /\ CanFail("redis")
              /\ queue' \in {queue, Enqueued(j)}
              /\ Goto(c, "compensate")
              /\ UNCHANGED tx
        /\ UNCHANGED <<files, quota, storage, issued, seen, req>>

(* Variant: no compensation. *)
PersistFailsSilently(c) ==
    /\ Finish(c)
    /\ UNCHANGED <<files, quota, storage, queue, issued, tx>>

PersistFails(c) ==
    /\ Goto(c, "compensate")
    /\ UNCHANGED <<files, quota, storage, queue, issued, tx, seen, req>>

UploadPersist(c) ==
    LET f == req[c].file
        slot == req[c].slot
    IN  /\ At(c, "persist", "upload")
        /\ SlotUnlocked(slot)
        /\ IF files[f] = Nil /\ SlotFree(slot, f)
           THEN PersistAndEnqueue(c, NewFile(slot, req[c].version))
           ELSE PersistFails(c)

ReplacePersist(c) ==
    LET f == req[c].file
    IN  /\ At(c, "persist", "replace")
        /\ RowUnlocked(f)
        /\ IF LockMatches(c, f)
           THEN PersistAndEnqueue(c, Saved(c, f, AddVersion(seen[c][f], req[c].version)))
           ELSE PersistFails(c)

(* The commit of an upload, a replace or a delete.  A commit whose answer is *)
(* lost looks like a failure to the client.                                  *)
Commit(c) ==
    /\ pc[c] = "commit"
    /\ files' = [files EXCEPT ![tx.file] = tx.row]
    /\ quota' = [quota EXCEPT !.used = @ + UsageDelta(tx.row)]
    /\ tx' = Nil
    /\ \/ Finish(c)
       \/ /\ CanFail("ambiguousCommit") /\ req[c].op # "delete"
          /\ Goto(c, "compensate")
          /\ UNCHANGED <<seen, req>>
    /\ UNCHANGED <<storage, queue, issued>>

Rollback(c) ==
    /\ CanFail("rollback")
    /\ pc[c] = "commit"
    /\ tx' = Nil
    /\ IF req[c].op = "delete"
       THEN Finish(c)
       ELSE Goto(c, "compensate") /\ UNCHANGED <<seen, req>>
    /\ UNCHANGED <<files, quota, storage, queue, issued>>

(* storagePort.delete; a failure is logged and left to the reconciliation. *)
Compensate(c) ==
    /\ pc[c] = "compensate"
    /\ \/ storage' = Without(req[c].version.key)
       \/ CanFail("storage") /\ UNCHANGED storage
    /\ Finish(c)
    /\ UNCHANGED <<files, quota, queue, issued, tx>>
-----------------------------------------------------------------------------
(* Use cases: delete, rename, change of resource, adjustment of the limit. *)

(* Reads file f, which entity methods accept only when it has been judged. *)
BeginUpdate(c, op, f, slot, label) ==
    /\ Idle(c) /\ May(op)
    /\ Judged(files[f])
    /\ op # "delete" => Room(files[f])
    /\ Read(c, f)
    /\ req' = [req EXCEPT ![c] = [NoRequest EXCEPT !.op = op, !.file = f, !.slot = slot]]
    /\ Goto(c, label)
    /\ UNCHANGED <<files, quota, storage, queue, issued, tx>>

DeleteFind(c) == \E f \in Files : BeginUpdate(c, "delete", f, Nil, "write")
RenameFind(c) == \E f \in Files : BeginUpdate(c, "rename", f, Nil, "write")
ChangeResourceFind(c) ==
    \E f \in Files, slot \in Slots :
        BeginUpdate(c, "changeResource", f, slot, "check")

(* update with the version read: zero rows matched is an OptimisticLockError. *)
UpdateRow(p, f, row) ==
    /\ RowUnlocked(f)
    /\ files' = IF LockMatches(p, f) THEN [files EXCEPT ![f] = Saved(p, f, row)] ELSE files

(* In one transaction: the row, then the counter, which may not go below 0. *)
DeleteWrite(c) ==
    LET f == req[c].file
        size == TotalSize(seen[c][f])
    IN  /\ At(c, "write", "delete")
        /\ RowUnlocked(f)
        /\ IF LockMatches(c, f)
           THEN /\ tx = Nil
                /\ IF quota.used >= size
                   THEN /\ tx' = [client |-> c, file |-> f,
                                  row |-> Saved(c, f, MarkDeleted(seen[c][f]))]
                        /\ Goto(c, "commit")
                        /\ UNCHANGED <<seen, req>>
                   ELSE Finish(c) /\ UNCHANGED tx
           ELSE Finish(c) /\ UNCHANGED tx
        /\ UNCHANGED <<files, quota, storage, queue, issued>>

(* The name of the file is not a part of its versions or of their keys. *)
RenameWrite(c) ==
    /\ At(c, "write", "rename")
    /\ UpdateRow(c, req[c].file, seen[c][req[c].file])
    /\ Finish(c)
    /\ UNCHANGED <<quota, storage, queue, issued, tx>>

ChangeResourceCheck(c) ==
    /\ At(c, "check", "changeResource")
    /\ IF SlotFree(req[c].slot, req[c].file)
       THEN Goto(c, "write") /\ UNCHANGED <<seen, req>>
       ELSE Finish(c)
    /\ UNCHANGED <<files, quota, storage, queue, issued, tx>>

ChangeResourceWrite(c) ==
    LET f == req[c].file
    IN  /\ At(c, "write", "changeResource")
        /\ RowUnlocked(f) /\ SlotUnlocked(req[c].slot)
        /\ IF SlotFree(req[c].slot, f)
           THEN UpdateRow(c, f, [seen[c][f] EXCEPT !.slot = req[c].slot])
           ELSE UNCHANGED files
        /\ Finish(c)
        /\ UNCHANGED <<quota, storage, queue, issued, tx>>

(* AdjustQuotaLimit reads the whole quota row ... *)
AdjustLimitFind(c) ==
    /\ Idle(c) /\ May("adjustLimit")
    /\ quota # Nil
    /\ \E limit \in Limits :
         req' = [req EXCEPT ![c] = [NoRequest EXCEPT
                    !.op = "adjustLimit", !.quota = [quota EXCEPT !.limit = limit]]]
    /\ Goto(c, "write")
    /\ UNCHANGED <<files, quota, storage, queue, issued, tx, seen>>

(* ... and writes it back, the counter it read included. *)
AdjustLimitWrite(c) ==
    /\ At(c, "write", "adjustLimit")
    /\ tx = Nil
    /\ quota' = req[c].quota
    /\ Finish(c)
    /\ UNCHANGED <<files, storage, queue, issued, tx>>

-----------------------------------------------------------------------------
(* The scan handler *)

TakeJob(w) ==
    /\ Idle(w)
    /\ \E j \in JobIds :
        /\ queue[j] # Nil
        /\ queue[j].state = "waiting"
        /\ queue' = JobAs(j, [queue[j] EXCEPT !.state = "active", !.worker = w])
        /\ req' = [req EXCEPT ![w] = [NoRequest EXCEPT !.job = j]]
    /\ Goto(w, "find")
    /\ UNCHANGED <<files, quota, storage, issued, tx, seen>>

ThrowScan(w) == queue' = AttemptFailed(w, req[w].job) /\ Finish(w)
ReturnScan(w) == queue' = Completed(w, req[w].job) /\ Finish(w)

(* Not found: throws.  Not PENDING: returns.  Another version is the latest: *)
(* throws.  Scanned already: returns.                                        *)
ScanFind(w) ==
    LET row == files[req[w].job[1]]
        n == req[w].job[2]
    IN  /\ pc[w] = "find"
        /\ \/ /\ row = Nil
              /\ ThrowScan(w)
           \/ /\ row # Nil
              /\ row.status # "PENDING"
              /\ ReturnScan(w)
           \/ /\ row # Nil
              /\ row.status = "PENDING" /\ Len(row.versions) # n
              /\ ThrowScan(w)
           \/ /\ row # Nil
              /\ row.status = "PENDING" /\ Len(row.versions) = n
              /\ Latest(row).scan # "NONE"
              /\ ReturnScan(w)
           \/ /\ row # Nil
              /\ row.status = "PENDING" /\ Len(row.versions) = n
              /\ Latest(row).scan = "NONE"
              /\ Read(w, req[w].job[1])
              /\ Goto(w, "download")
              /\ UNCHANGED <<queue, req>>
        /\ UNCHANGED <<files, quota, storage, issued, tx>>

(* storagePort.download and antivirusPort.scan; a missing binary throws. *)
ScanDownload(w) ==
    /\ pc[w] = "download"
    /\ \/ /\ storage[Latest(seen[w][req[w].job[1]]).key] # Nil
          /\ \E verdict \in Verdicts :
                req' = [req EXCEPT ![w] = [NoRequest EXCEPT
                            !.job = req[w].job, !.verdict = verdict]]
          /\ Goto(w, "write")
          /\ UNCHANGED <<queue, seen>>
       \/ /\ storage[Latest(seen[w][req[w].job[1]]).key] = Nil \/ CanFail("storage")
          /\ ThrowScan(w)
    /\ UNCHANGED <<files, quota, storage, issued, tx>>

ScanWrite(w) ==
    LET f == req[w].job[1]
    IN  /\ pc[w] = "write"
        /\ UpdateRow(w, f, ScanResult(seen[w][f], req[w].verdict))
        /\ IF LockMatches(w, f) THEN ReturnScan(w) ELSE ThrowScan(w)
        /\ UNCHANGED <<quota, storage, issued, tx>>

(* The delay before another attempt.  It starts at 5 s, which is Prisma's    *)
(* limit for the transaction that enqueued the job: that one is over by then. *)
JobBackoff(j) ==
    /\ queue[j] # Nil
    /\ queue[j].state = "delayed"
    /\ RowUnlocked(j[1])
    /\ queue' = JobAs(j, [queue[j] EXCEPT !.state = "waiting"])
    /\ UNCHANGED <<files, quota, storage, issued, tx, pc, seen, req>>

(* BullMQ finds an active job whose worker does not renew its lock: it died, *)
(* or it is only too busy to renew it and works on.                          *)
JobStalls(j) ==
    /\ queue[j] # Nil
    /\ queue[j].state = "active"
    /\ CanFail("stall") \/ req[queue[j].worker].job # j
    /\ queue' = JobAs(j, IF queue[j].stalls < MaxStalls
                         THEN [queue[j] EXCEPT !.state = "waiting", !.worker = Nil,
                                               !.stalls = @ + 1]
                         ELSE [queue[j] EXCEPT !.state = "failed", !.worker = Nil])
    /\ UNCHANGED <<files, quota, storage, issued, tx, pc, seen, req>>

-----------------------------------------------------------------------------
(* Maintenance jobs, as they run when their dry-run switch is off. *)

ReconcileRead(r) ==
    /\ Idle(r) /\ May("reconcile")
    /\ seen' = [seen EXCEPT ![r] = files]
    /\ Goto(r, "list")
    /\ UNCHANGED <<files, quota, storage, queue, issued, tx, req>>

(* Works through r's keys, then its batch, and returns at the end of both. *)
Continue(r, keys, batch) ==
    IF keys = {} /\ batch = {} THEN Finish(r)
    ELSE /\ req' = [req EXCEPT ![r] = [NoRequest EXCEPT !.keys = keys, !.batch = batch]]
         /\ Goto(r, "work")
         /\ UNCHANGED seen

(* Orphan binaries: keys of no row read before.  Orphan files: no binary. *)
ReconcileList(r) ==
    LET rows == {f \in Files : seen[r][f] # Nil}
        known == UNION {KeysOf(seen[r][f]) : f \in rows}
        lost == {f \in rows : /\ Live(seen[r][f])
                              /\ KeysOf(seen[r][f]) \cap Stored(storage) = {}}
    IN  /\ pc[r] = "list"
        /\ Continue(r, Stored(storage) \ known, lost)
        /\ UNCHANGED <<files, quota, storage, queue, issued, tx>>

(* PurgeDeletedFiles: the files some time after their deletion, and of those *)
(* the ones with a binary left; all their keys.  Deleted rows never change,  *)
(* so reading them and listing the store is one step.                        *)
PurgeList(r) ==
    /\ Idle(r) /\ May("purge")
    /\ \E old \in SUBSET {f \in Files : files[f] # Nil /\ ~Live(files[f])} :
         LET stored == {f \in old : KeysOf(files[f]) \cap Stored(storage) # {}}
         IN  /\ stored # {}
             /\ Continue(r, UNION {KeysOf(files[f]) : f \in stored}, {})
    /\ UNCHANGED <<files, quota, storage, queue, issued, tx>>

DeleteBinary(r) ==
    /\ pc[r] = "work"
    /\ \E k \in req[r].keys :
        \/ /\ storage' = Without(k)
           /\ Continue(r, req[r].keys \ {k}, req[r].batch)
        \/ /\ CanFail("storage")
           /\ Finish(r)
           /\ UNCHANGED storage
    /\ UNCHANGED <<files, quota, queue, issued, tx>>

(* markAsOrphan and update; an OptimisticLockError ends the job. *)
MarkOrphan(r) ==
    /\ pc[r] = "work"
    /\ req[r].keys = {}
    /\ \E f \in req[r].batch :
        /\ UpdateRow(r, f, MarkDeleted(seen[r][f]))
        /\ IF LockMatches(r, f) THEN Continue(r, {}, req[r].batch \ {f}) ELSE Finish(r)
    /\ UNCHANGED <<quota, storage, queue, issued, tx>>

(* findReadyForRescan: some of the READY files, whose last scan is old. *)
RescanFind(r) ==
    /\ Idle(r) /\ May("rescan")
    /\ \E old \in SUBSET {f \in Files : /\ files[f] # Nil
                                        /\ files[f].status = "READY" /\ Room(files[f])} :
        /\ old # {}
        /\ seen' = [seen EXCEPT ![r] = [f \in Files |-> IF f \in old THEN files[f] ELSE Nil]]
        /\ req' = [req EXCEPT ![r] = [NoRequest EXCEPT !.batch = old]]
    /\ Goto(r, "download")
    /\ UNCHANGED <<files, quota, storage, queue, issued, tx>>

RescanDownload(r) ==
    /\ pc[r] = "download"
    /\ \E f \in req[r].batch :
        \/ /\ storage[Latest(seen[r][f]).key] # Nil
           /\ \E verdict \in Verdicts :
                req' = [req EXCEPT ![r] = [NoRequest EXCEPT
                            !.batch = req[r].batch, !.file = f, !.verdict = verdict]]
           /\ Goto(r, "write")
           /\ UNCHANGED seen
        \/ /\ storage[Latest(seen[r][f]).key] = Nil \/ CanFail("storage")
           /\ Finish(r)
    /\ UNCHANGED <<files, quota, storage, queue, issued, tx>>

RescanWrite(r) ==
    LET f == req[r].file
        rest == req[r].batch \ {f}
    IN  /\ pc[r] = "write"
        /\ UpdateRow(r, f, RescanResult(seen[r][f], req[r].verdict))
        /\ IF LockMatches(r, f) /\ rest # {}
           THEN /\ req' = [req EXCEPT ![r] = [NoRequest EXCEPT !.batch = rest]]
                /\ Goto(r, "download")
                /\ UNCHANGED seen
           ELSE Finish(r)
        /\ UNCHANGED <<quota, storage, queue, issued, tx>>

(* The process dies.  Its open transaction is rolled back; a job it was at  *)
(* stays active in Redis until it is found stalled.                         *)
Crash(p) ==
    /\ CanFail("crash")
    /\ ~Idle(p)
    /\ tx' = IF tx # Nil /\ tx.client = p THEN Nil ELSE tx
    /\ Finish(p)
    /\ UNCHANGED <<files, quota, storage, queue, issued>>

-----------------------------------------------------------------------------
Serve(c) ==
    \/ UploadFind(c) \/ ReplaceFind(c) \/ CreateQuota(c) \/ VerifyLimit(c)
    \/ StoreBinary(c) \/ UploadPersist(c) \/ ReplacePersist(c)
    \/ Commit(c) \/ Rollback(c) \/ Compensate(c)
    \/ DeleteFind(c) \/ DeleteWrite(c)
    \/ RenameFind(c) \/ RenameWrite(c)
    \/ ChangeResourceFind(c) \/ ChangeResourceCheck(c) \/ ChangeResourceWrite(c)
    \/ AdjustLimitFind(c) \/ AdjustLimitWrite(c)

Scan(w) == TakeJob(w) \/ ScanFind(w) \/ ScanDownload(w) \/ ScanWrite(w)
Reconcile(r) == ReconcileRead(r) \/ ReconcileList(r) \/ DeleteBinary(r) \/ MarkOrphan(r)
Purge(r) == PurgeList(r) \/ DeleteBinary(r)
Rescan(r) == RescanFind(r) \/ RescanDownload(r) \/ RescanWrite(r)

Next ==
    \/ \E c \in Clients : Serve(c)
    \/ \E w \in ScanWorkers : Scan(w)
    \/ \E j \in JobIds : JobBackoff(j) \/ JobStalls(j)
    \/ Reconcile(Reconciler) \/ Purge(Purger) \/ Rescan(Rescanner)
    \/ \E p \in Procs : Crash(p)

Spec == Init /\ [][Next]_vars

(* Node runs the continuation of every answered await; the queue's workers  *)
(* poll, and a delayed job becomes due.                                     *)
Fairness ==
    /\ \A c \in Clients : WF_vars(Commit(c))
    /\ \A w \in ScanWorkers : WF_vars(Scan(w))
    /\ \A j \in JobIds : WF_vars(JobBackoff(j)) /\ WF_vars(JobStalls(j))

FairSpec == Spec /\ Fairness
-----------------------------------------------------------------------------
(* Properties *)

(* The values every variable takes: first those that hold rows. *)
RowsTypeOK ==
    /\ files \in [Files -> Row \cup {Nil}]
    /\ seen \in [Procs -> [Files -> Row \cup {Nil}]]
    /\ tx \in Transaction \cup {Nil}
TypeOK ==
    /\ RowsTypeOK
    /\ req \in [Procs -> Request]
    /\ quota \in Quota \cup {Nil}
    /\ storage \in [Keys -> Contents \cup {Nil}]
    /\ queue \in [JobIds -> ScanJob \cup {Nil}]
    /\ issued \subseteq Files
    /\ pc \in [Procs -> {"idle", "verify", "store", "persist", "commit", "compensate",
                         "check", "write", "find", "download", "list", "work"}]

(* A slot holds at most one live file, however uploads, changes of resource  *)
(* and deletions interleave (file.md 4.1; the check in the use cases alone   *)
(* cannot give it: the row may appear between the check and the write).      *)
OneLiveFilePerSlot ==
    \A f, g \in Files :
        f # g /\ Live(files[f]) /\ Live(files[g]) => files[f].slot # files[g].slot

(* The status of a live file is the one the latest scan of its latest        *)
(* version calls for: no file is READY on an unscanned or infected version,  *)
(* whatever scan, replace, rename and rescan work on the row at a time.      *)
ScanDecidesStatus ==
    \A f \in Files : files[f] # Nil =>
        CASE files[f].status = "PENDING"  -> Latest(files[f]).scan \in {"NONE", "ERROR"}
          [] files[f].status = "READY"    -> Latest(files[f]).scan \in {"CLEAN", "ERROR"}
          [] files[f].status = "INFECTED" -> Latest(files[f]).scan = "INFECTED"
          [] OTHER -> TRUE

(* What makes the version check of PrismaFileRepository.update sufficient: a *)
(* row with the version a process has read is the row it has read, and none  *)
(* is older than a row read before.                                          *)
SnapshotCoherent ==
    \A p \in Procs, f \in Files : seen[p][f] # Nil =>
        /\ files[f] # Nil
        /\ seen[p][f].lock <= files[f].lock
        /\ seen[p][f].lock = files[f].lock => seen[p][f] = files[f]

(* A verdict is revised on a READY file only (by the rescan): a redelivered  *)
(* or stalled scan job never overwrites the verdict another one has written, *)
(* and an infected version never becomes clean.                              *)
VerdictStandsUnlessReady ==
    [][\A f \in Files :
         /\ files[f] # Nil
         /\ Latest(files[f]).scan # "NONE"
         /\ Len(files'[f].versions) = Len(files[f].versions)
         /\ Latest(files'[f]).scan # Latest(files[f]).scan
         => files[f].status = "READY"]_vars

(* Recorded versions keep their key and content for ever, and a deleted file *)
(* keeps its whole row: no stale writer resurrects it or drops a version.    *)
HistoryIsFinal ==
    [][\A f \in Files : files[f] # Nil =>
         /\ files'[f] # Nil
         /\ files[f].status = "DELETED" => files'[f] = files[f]
         /\ Len(files[f].versions) <= Len(files'[f].versions)
         /\ \A i \in DOMAIN files[f].versions :
               /\ files'[f].versions[i].key = files[f].versions[i].key
               /\ files'[f].versions[i].content = files[f].versions[i].content]_vars

(* The rows, seen without versions' keys and locks, behave as FileLifecycle. *)
LifeOf(row) ==
    IF row = Nil THEN Nil
    ELSE [status |-> row.status, slot |-> row.slot,
          history |-> [i \in 1..Len(row.versions) |-> row.versions[i].content]]
Abstract == INSTANCE FileLifecycle WITH
    life <- [f \in Files |-> LifeOf(files[f])], NoFile <- Nil
Lifecycle == Abstract!Spec

(* Every version of a live file is in the store with the content whose       *)
(* checksum the row holds: no compensation, purge or replacement has removed *)
(* or overwritten it (file.md 3.2: versions are not removed while the File   *)
(* exists, and are immutable).                                               *)
LiveBinariesStored ==
    \A f \in Files : Live(files[f]) =>
        \A i \in DOMAIN files[f].versions :
            storage[files[f].versions[i].key] = files[f].versions[i].content

(* With no request in flight, the store holds no binary that no row knows:   *)
(* every rolled back upload or replacement was compensated.                  *)
NoLeakedBinary ==
    (\A c \in Clients : Idle(c)) =>
        Stored(storage) \subseteq
            UNION {KeysOf(files[f]) : f \in {g \in Files : files[g] # Nil}}

(* The counter of the quota is the total size of all versions of the live    *)
(* files (file-quota.md 2 and 4.2-4.3).                                      *)
LiveBytes == SumFunction([f \in {g \in Files : Live(files[g])} |-> TotalSize(files[f])])
QuotaExact == (quota = Nil /\ LiveBytes = 0) \/ quota.used = LiveBytes

(* The limit is checked before the transaction: requests that verify before  *)
(* the others commit may exceed it, each by one binary at most and the last  *)
(* of them not at all.                                                       *)
LargestSize == CHOOSE n \in {SizeOf[c] : c \in Contents} : \A c \in Contents : SizeOf[c] <= n
OvershootBounded ==
    quota # Nil => quota.used <= quota.limit + (Cardinality(Clients) - 1) * LargestSize

(* A file does not stay PENDING (file.md 4.3: the scan takes it to READY or   *)
(* INFECTED), though its job may run before the row it is about is committed.*)
PendingIsJudged ==
    \A f \in Files :
        (files[f] # Nil /\ files[f].status = "PENDING")
            ~> (files[f] # Nil /\ files[f].status # "PENDING")
=============================================================================
