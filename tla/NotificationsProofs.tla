------------------------- MODULE NotificationsProofs -------------------------
(* Theorems about Notifications, for every value of its constants. *)
EXTENDS Notifications, FiniteSetTheorems, TLAPS

-----------------------------------------------------------------------------
(* The inductive invariant *)

(* The job of a stored notification, which has an attempt left until it fails. *)
JobsConsistent ==
    \A n \in Ids : queue[n] # Nil =>
        /\ notification[n] # Nil
        /\ queue[n].worker # Nil => queue[n].state = "active"
        /\ queue[n].state = "active" => queue[n].worker # Nil
        /\ queue[n].state # "failed" => queue[n].attempts < MaxAttempts

SentIsSettled ==
    \A n \in Ids : notification[n] # Nil /\ notification[n].status = "SENT" => n \in settled

(* Requests that are about to insert a row work on identifiers of their own. *)
Building(p) == p \in Requests /\ pc[p] \in {"resolve", "fallback", "create"}
Sending(p) == Building(p) \/ pc[p] = "enqueue"
Inserting(p) == pc[p] = "insertTemplate"
Apart ==
    \A p, q \in Requests :
        /\ (Sending(p) /\ Sending(q)) \/ (Inserting(p) /\ Inserting(q))
        /\ loc[p].id = loc[q].id
        => p = q

(* What a process knows of what it works on, by where it stands. *)
SenderKnows(p) ==
    /\ Building(p) => /\ loc[p].id \in Ids /\ notification[loc[p].id] = Nil
                      /\ loc[p].row \in Notification /\ loc[p].row.status = "PENDING"
    /\ pc[p] = "create" => p \in Requests
    /\ pc[p] = "enqueue" => /\ p \in Requests /\ loc[p].id \in Ids
                            /\ notification[loc[p].id] # Nil /\ queue[loc[p].id] = Nil
ReaderKnows(p) ==
    pc[p] = "read" =>
        /\ loc[p].id \in Ids /\ loc[p].row \in Notification
        /\ notification[loc[p].id] # Nil
        /\ loc[p].row.channels = notification[loc[p].id].channels
        /\ loc[p].row.status = "SENT" =>
                /\ loc[p].id \in settled
                /\ "EMAIL" \in loc[p].row.channels => mailed[loc[p].id] > 0
Delivering(p) ==
    pc[p] \in {"mail", "fail", "settle"} \/ (p \in Workers /\ pc[p] \in {"resolve", "fallback"})
WorkerKnows(p) ==
    /\ Delivering(p) \/ pc[p] = "find" =>
            p \in Workers /\ loc[p].id \in Ids /\ queue[loc[p].id] # Nil
    /\ Delivering(p) => /\ loc[p].row \in Notification /\ loc[p].row.status # "SENT"
                        /\ loc[p].row.channels = notification[loc[p].id].channels
    /\ pc[p] = "settle" /\ "EMAIL" \in loc[p].row.channels => mailed[loc[p].id] > 0
EditorKnows(p) ==
    /\ Inserting(p) =>
            /\ p \in Requests /\ loc[p].id \in Templates
            /\ template[loc[p].id] = Nil /\ loc[p].row \in Template
    /\ pc[p] \in {"candidates", "activate", "desactivate", "updateContent"} =>
            /\ loc[p].id \in Templates /\ template[loc[p].id] # Nil
            /\ loc[p].row \in Template /\ loc[p].row.version < MaxVersion
            /\ loc[p].row.version <= template[loc[p].id].version
            /\ loc[p].row.version = template[loc[p].id].version =>
                    loc[p].row = template[loc[p].id]
PreferenceKnown(p) ==
    /\ pc[p] \in {"updatePreference", "deletePreference"} =>
            /\ loc[p].row \in Preference
            /\ IsStored(loc[p].row) =>
                    /\ loc[p].row.version <= preference.version
                    /\ loc[p].row.version = preference.version => loc[p].row = preference
    /\ pc[p] = "updatePreference" => loc[p].row.version < MaxVersion
Knows(p) ==
    /\ SenderKnows(p) /\ ReaderKnows(p) /\ WorkerKnows(p)
    /\ EditorKnows(p) /\ PreferenceKnown(p)

(* The runs of a job that have begun, and the workers that are in one and    *)
(* have not mailed yet: each of them may still send one e-mail.              *)
RunsOf(job) ==
    job.attempts + job.stalls +
        (IF \/ job.state \in {"active", "completed"}
            \/ job.state = "failed" /\ job.attempts < MaxAttempts
         THEN 1 ELSE 0)
Runs(n) == IF queue[n] = Nil THEN 0 ELSE RunsOf(queue[n])
BeforeMail(n) ==
    {w \in Workers : loc[w].id = n /\ pc[w] \in {"find", "resolve", "fallback", "mail"}}
MailsCounted ==
    \A n \in Ids : /\ IsFiniteSet(BeforeMail(n))
                   /\ mailed[n] + Cardinality(BeforeMail(n)) <= Runs(n)

Inv ==
    /\ TypeOK /\ JobsConsistent /\ SentIsSettled /\ Apart
    /\ SentWasMailed /\ UnsentIsAccountedFor /\ OneActiveTemplate /\ MailsCounted
    /\ \A p \in Procs : Knows(p)

-----------------------------------------------------------------------------
(* Types *)

(* The locals of a process, idle or not. *)
LEMMA LocalType ==
    /\ NoLocals \in Local
    /\ \A n \in Ids, row \in Notification \cup {Nil} : [id |-> n, row |-> row] \in Local
    /\ \A t \in Templates, row \in Template : [id |-> t, row |-> row] \in Local
    /\ \A row \in Preference : [id |-> Nil, row |-> row] \in Local
  BY DEF NoLocals, Local

(* The rows a process builds from those it holds. *)
LEMMA RowTypes ==
    /\ \A channels \in (SUBSET Channels) \ {{}} :
            /\ NewNotification(channels) \in Notification
            /\ NewNotification(channels).status = "PENDING"
    /\ \A row \in Notification :
            /\ MarkedSent(row) \in Notification /\ MarkedSent(row).status = "SENT"
            /\ MarkedSent(row).channels = row.channels /\ MarkedSent(row).read = row.read
            /\ MarkedFailed(row) \in Notification /\ MarkedFailed(row).status = "FAILED"
            /\ MarkedFailed(row).channels = row.channels /\ MarkedFailed(row).read = row.read
            /\ MarkedRead(row) \in Notification /\ MarkedRead(row).status = row.status
            /\ MarkedRead(row).channels = row.channels /\ MarkedRead(row).read
  BY DEF NewNotification, MarkedSent, MarkedFailed, MarkedRead, Notification, Channels

(* The rows of the settings a request writes. *)
LEMMA SettingTypes ==
    /\ \A scope \in {"OWN", "GLOBAL"} : NewTemplate(scope) \in Template
    /\ \A row \in Template : row.version < MaxVersion =>
            /\ Bumped(row) \in Template /\ Bumped(row).version = row.version + 1
            /\ Bumped(row).scope = row.scope /\ Bumped(row).active = row.active
    /\ \A id \in Preferences : NewPreference(id) \in Preference /\ NewPreference(id).id = id
    /\ \A row \in Preference : row.version < MaxVersion =>
            /\ Bumped(row) \in Preference /\ Bumped(row).version = row.version + 1
            /\ Bumped(row).id = row.id
  BY BoundsAreNat DEF NewTemplate, Template, Bumped, NewPreference, Preference

(* The row an update of a template writes. *)
LEMMA NextTemplateType ==
    ASSUME NEW p \in Requests, pc[p] \in {"activate", "desactivate", "updateContent"},
           loc[p].row \in Template
    PROVE  /\ NextTemplate(p) \in Template
           /\ NextTemplate(p).version = loc[p].row.version
           /\ NextTemplate(p).scope = loc[p].row.scope
<1>1. CASE pc[p] = "activate"
  BY <1>1 DEF NextTemplate, Template
<1>2. CASE pc[p] = "desactivate"
  BY <1>2 DEF NextTemplate, Template
<1>3. CASE pc[p] = "updateContent"
  BY <1>3 DEF NextTemplate, Template
<1> QED
  BY <1>1, <1>2, <1>3

(* Of a report of a worker Redis keeps that the attempt is over, if the job  *)
(* is still that worker's; no run of the job is won or lost by it.           *)
Reported(w, job, done) ==
    /\ job \in Job /\ job.worker = Nil /\ job.state \in {"delayed", "completed", "failed"}
    /\ RunsOf(job) = RunsOf(queue[loc[w].id])
    /\ job.state # "failed" => job.attempts < MaxAttempts
    /\ job.state = "completed" => done

(* A worker that reports leaves its job settled, or waiting to be run again. *)
LEMMA Reports ==
    ASSUME TypeOK, JobsConsistent, NEW w \in Workers, WorkerKnows(w),
           Delivering(w) \/ pc[w] = "find",
           NEW done \in BOOLEAN, IF done THEN ReturnJob(w) ELSE ThrowJob(w)
    PROVE  /\ Finish(w)
           /\ \/ queue' = queue
              \/ \E job : /\ Reported(w, job, done)
                          /\ queue' = [queue EXCEPT ![loc[w].id] = job]
<1>1. PICK n \in Ids : /\ n = loc[w].id
                       /\ queue[n] # Nil /\ queue[n] \in Job
  BY DEF WorkerKnows, TypeOK
<1>2. Finish(w)
  BY DEF ReturnJob, ThrowJob, Report
<1>3. CASE queue[n].worker # w
  BY <1>1, <1>2, <1>3 DEF ReturnJob, ThrowJob, Report
<1>4. CASE queue[n].worker = w
  <2>1. queue[n].state = "active" /\ queue[n].attempts < MaxAttempts
    BY <1>1, <1>4, NilIsFresh DEF JobsConsistent
  <2>2. CASE done /\ ReturnJob(w)
    <3> DEFINE job == [[queue[n] EXCEPT !.state = "completed"] EXCEPT !.worker = Nil]
    <3>1. queue' = [queue EXCEPT ![n] = job]
      BY <1>1, <1>4, <2>2 DEF ReturnJob, Report, JobAs
    <3>2. /\ job \in Job /\ job.worker = Nil /\ job.state = "completed"
          /\ job.attempts = queue[n].attempts /\ job.stalls = queue[n].stalls
      BY <1>1 DEF Job
    <3>3. Reported(w, job, done)
      BY <1>1, <2>1, <2>2, <3>2 DEF Reported, RunsOf
    <3> QED
      BY <1>1, <1>2, <3>1, <3>3
  <2>3. CASE ThrowJob(w)
    <3> DEFINE next == IF queue[n].attempts + 1 < MaxAttempts THEN "delayed" ELSE "failed"
               job == [[queue[n] EXCEPT !.attempts = @ + 1, !.state = next] EXCEPT !.worker = Nil]
    <3>1. queue' = [queue EXCEPT ![n] = job]
      BY <1>1, <1>4, <2>3 DEF ThrowJob, Report, JobAs
    <3>2. /\ job \in Job /\ job.worker = Nil /\ job.state = next
          /\ job.attempts = queue[n].attempts + 1 /\ job.stalls = queue[n].stalls
      <4>1. queue[n].attempts + 1 \in 0..MaxAttempts
        BY <1>1, <2>1, BoundsAreNat DEF Job
      <4>2. PICK attempts \in 0..MaxAttempts, state \in {"delayed", "failed"} :
                attempts = queue[n].attempts + 1 /\ state = next
        BY <4>1
      <4>3. job = [[queue[n] EXCEPT !.attempts = attempts, !.state = state] EXCEPT !.worker = Nil]
        BY <4>2
      <4> HIDE DEF job, next
      <4>4. /\ job \in Job /\ job.worker = Nil /\ job.state = state
            /\ job.attempts = attempts /\ job.stalls = queue[n].stalls
        BY <1>1, <4>3 DEF Job
      <4> QED
        BY <4>2, <4>4
    <3>3. Reported(w, job, done)
      BY <1>1, <2>1, <3>2, BoundsAreNat DEF Reported, RunsOf, Job
    <3> QED
      BY <1>1, <1>2, <3>1, <3>3
  <2> QED
    BY <2>2, <2>3
<1> QED
  BY <1>3, <1>4

(* A report keeps the types. *)
LEMMA ReportType ==
    ASSUME Inv, NEW w \in Workers, Delivering(w) \/ pc[w] = "find", ReturnJob(w) \/ ThrowJob(w)
    PROVE  /\ queue' \in [Ids -> Job \cup {Nil}]
           /\ pc' \in [Procs -> Labels] /\ loc' \in [Procs -> Local]
<1>1. WorkerKnows(w)
  BY DEF Inv, Knows, Procs
<1>2. PICK done \in BOOLEAN : IF done THEN ReturnJob(w) ELSE ThrowJob(w)
  OBVIOUS
<1> QED
  BY <1>1, <1>2, Reports, LocalType DEF Inv, TypeOK, Reported, Finish, Goto, Labels

(* What the request that sends has built once its channels are known. *)
Filtered(p, n, row) ==
    /\ notification[n] = Nil /\ \A q \in Procs : loc[q].id # n
    /\ row.status = "PENDING" /\ Holding(p, n, row)
    /\ \/ Goto(p, "resolve")
       \/ Goto(p, "create")

(* A notification that passes the filter is a new one, not built by another. *)
LEMMA Filters ==
    ASSUME NEW p, SendFilter(p)
    PROVE  \E n \in Ids, row \in Notification : Filtered(p, n, row)
<1>1. PICK n \in Ids, marketing \in BOOLEAN, wanted \in SUBSET Channels :
          /\ notification[n] = Nil /\ \A q \in Procs : loc[q].id # n
          /\ \E channels \in AllowedChannels(marketing, wanted) \ {{}} :
                  /\ Holding(p, n, NewNotification(channels))
                  /\ Goto(p, IF "EMAIL" \in channels THEN "resolve" ELSE "create")
  BY DEF SendFilter
<1>2. PICK channels \in AllowedChannels(marketing, wanted) \ {{}} :
          /\ Holding(p, n, NewNotification(channels))
          /\ Goto(p, IF "EMAIL" \in channels THEN "resolve" ELSE "create")
  BY <1>1
<1>3. channels \in (SUBSET Channels) \ {{}}
  BY <1>2 DEF AllowedChannels
<1>4. Goto(p, "resolve") \/ Goto(p, "create")
  BY <1>2
<1> QED
  BY <1>1, <1>2, <1>3, <1>4, RowTypes DEF Filtered

(* Every step keeps the types; what a process knows of the row it holds is   *)
(* what makes the row it writes well-formed.                                 *)
LEMMA TypeStep ==
    ASSUME Inv, Next
    PROVE  TypeOK'
<1> USE DEF TypeOK, delivery, settings, Labels, Finish, Goto, Procs
<1>1. ASSUME NEW p \in Requests, SendFilter(p) PROVE TypeOK'
  <2>1. PICK n \in Ids, row \in Notification : Filtered(p, n, row)
    BY <1>1, Filters
  <2>2. [id |-> n, row |-> row] \in Local
    BY LocalType
  <2> QED
    BY <1>1, <2>1, <2>2 DEF SendFilter, Filtered, Inv, Holding
<1>2. ASSUME NEW p \in Procs, ResolveOwn(p) \/ ResolveGlobal(p) PROVE TypeOK'
  BY <1>2, LocalType DEF ResolveOwn, ResolveGlobal, Rendered, Inv
<1>3. ASSUME NEW p \in Requests, SendCreate(p) PROVE TypeOK'
  <2>1. loc[p].id \in Ids /\ loc[p].row \in Notification
    BY <1>3 DEF SendCreate, Inv, Knows, SenderKnows, Building
  <2> QED
    BY <1>3, <2>1, LocalType DEF SendCreate, Stored, Inv, Holding
<1>4. ASSUME NEW p \in Requests, SendEnqueue(p) PROVE TypeOK'
  <2>1. loc[p].id \in Ids
    BY <1>4 DEF SendEnqueue, Inv, Knows, SenderKnows
  <2>2. NewJob \in Job
    BY BoundsAreNat DEF NewJob, Job
  <2> QED
    BY <1>4, <2>1, <2>2, LocalType DEF SendEnqueue, JobAs, Inv
<1>5. ASSUME NEW p \in Requests, MarkReadFind(p) PROVE TypeOK'
  BY <1>5, LocalType DEF MarkReadFind, Inv, Holding
<1>6. ASSUME NEW p \in Requests, MarkReadWrite(p) PROVE TypeOK'
  <2>1. loc[p].id \in Ids /\ MarkedRead(loc[p].row) \in Notification
    BY <1>6, RowTypes DEF MarkReadWrite, Inv, Knows, ReaderKnows
  <2> QED
    BY <1>6, <2>1, LocalType DEF MarkReadWrite, Stored, Inv
<1>7. ASSUME NEW p \in Requests, MarkAllRead(p) PROVE TypeOK'
  BY <1>7, RowTypes DEF MarkAllRead, Inv
<1>8. ASSUME NEW p \in Requests, CreateTemplateCheck(p) PROVE TypeOK'
  BY <1>8, SettingTypes, LocalType DEF CreateTemplateCheck, Inv, Holding
<1>9. ASSUME NEW p \in Requests, CreateTemplateInsert(p) PROVE TypeOK'
  <2>1. loc[p].id \in Templates /\ loc[p].row \in Template
    BY <1>9 DEF CreateTemplateInsert, Inv, Knows, EditorKnows, Inserting
  <2> QED
    BY <1>9, <2>1, LocalType DEF CreateTemplateInsert, WriteTemplate, Inv
<1>10. ASSUME NEW p \in Requests, TemplateFind(p) PROVE TypeOK'
  BY <1>10, LocalType DEF TemplateFind, Inv, Holding
<1>11. ASSUME NEW p \in Requests, ActivateCheck(p) PROVE TypeOK'
  BY <1>11, LocalType DEF ActivateCheck, Inv
<1>12. ASSUME NEW p \in Requests, UpdateTemplate(p) PROVE TypeOK'
  <2>1. /\ loc[p].id \in Templates /\ loc[p].row \in Template /\ loc[p].row.version < MaxVersion
    BY <1>12 DEF UpdateTemplate, Inv, Knows, EditorKnows
  <2>2. Bumped(NextTemplate(p)) \in Template
    BY <1>12, <2>1, NextTemplateType, SettingTypes DEF UpdateTemplate
  <2> QED
    BY <1>12, <2>1, <2>2, LocalType DEF UpdateTemplate, WriteTemplate, Inv
<1>13. ASSUME NEW p \in Requests, CreatePreferenceFind(p) \/ CreatePreferenceInsert(p) PROVE TypeOK'
  BY <1>13, SettingTypes, LocalType DEF CreatePreferenceFind, CreatePreferenceInsert, Inv
<1>14. ASSUME NEW p \in Requests, PreferenceFind(p) PROVE TypeOK'
  BY <1>14, LocalType DEF PreferenceFind, Inv, Holding
<1>15. ASSUME NEW p \in Requests, UpdatePreference(p) PROVE TypeOK'
  <2>1. \A enabled \in BOOLEAN :
            /\ [loc[p].row EXCEPT !.enabled = enabled] \in Preference
            /\ [loc[p].row EXCEPT !.enabled = enabled].version < MaxVersion
    BY <1>15 DEF UpdatePreference, Preference, Inv, Knows, PreferenceKnown
  <2>2. \A enabled \in BOOLEAN : Bumped([loc[p].row EXCEPT !.enabled = enabled]) \in Preference
    BY <2>1, SettingTypes
  <2>3. preference' \in Preference \cup {Nil}
    BY <1>15, <2>2 DEF UpdatePreference, Inv
  <2> QED
    BY <1>15, <2>3, LocalType DEF UpdatePreference, Inv
<1>16. ASSUME NEW p \in Requests, DeletePreference(p) PROVE TypeOK'
  BY <1>16, LocalType DEF DeletePreference, Inv
<1>17. ASSUME NEW w \in Workers, TakeJob(w) PROVE TypeOK'
  <2>1. \A n \in Ids : queue[n] # Nil =>
            [queue[n] EXCEPT !.state = "active", !.worker = w] \in Job
    BY DEF Job, Inv
  <2>2. PICK n \in Ids, job \in Job : JobAs(n, job) /\ Holding(w, n, Nil)
    BY <1>17, <2>1 DEF TakeJob
  <2>3. [id |-> n, row |-> Nil] \in Local
    BY LocalType
  <2> QED
    BY <1>17, <2>2, <2>3 DEF TakeJob, JobAs, Inv, Holding
<1>18. ASSUME NEW w \in Workers, JobFind(w) PROVE TypeOK'
  <2>1. loc[w].id \in Ids /\ notification[loc[w].id] \in Notification
    BY <1>18 DEF JobFind, Inv, Knows, WorkerKnows, JobsConsistent
  <2>2. CASE ReturnJob(w) \/ ThrowJob(w)
    BY <1>18, <2>2, ReportType DEF JobFind, Inv
  <2> QED
    BY <1>18, <2>1, <2>2, LocalType DEF JobFind, Inv, Holding
<1>19. ASSUME NEW w \in Workers, JobMail(w) PROVE TypeOK'
  BY <1>19 DEF JobMail, Inv
<1>20. ASSUME NEW w \in Workers, JobFail(w) PROVE TypeOK'
  <2>1. loc[w].id \in Ids /\ MarkedFailed(loc[w].row) \in Notification /\ Delivering(w)
    BY <1>20, RowTypes DEF JobFail, Inv, Knows, WorkerKnows, Delivering
  <2>2. /\ queue' \in [Ids -> Job \cup {Nil}]
        /\ pc' \in [Procs -> Labels] /\ loc' \in [Procs -> Local]
    BY <1>20, <2>1, ReportType DEF JobFail
  <2> QED
    BY <1>20, <2>1, <2>2 DEF JobFail, Stored, Inv
<1>21. ASSUME NEW w \in Workers, JobSettle(w) PROVE TypeOK'
  <2>1. loc[w].id \in Ids /\ MarkedSent(loc[w].row) \in Notification /\ Delivering(w)
    BY <1>21, RowTypes DEF JobSettle, Inv, Knows, WorkerKnows, Delivering
  <2>2. /\ queue' \in [Ids -> Job \cup {Nil}]
        /\ pc' \in [Procs -> Labels] /\ loc' \in [Procs -> Local]
    BY <1>21, <2>1, ReportType DEF JobSettle
  <2> QED
    BY <1>21, <2>1, <2>2 DEF JobSettle, Stored, Inv
<1>22. ASSUME NEW n \in Ids, JobBackoff(n) PROVE TypeOK'
  <2>1. [queue[n] EXCEPT !.state = "waiting"] \in Job
    BY <1>22 DEF JobBackoff, Job, Inv
  <2> QED
    BY <1>22, <2>1 DEF JobBackoff, JobAs, Inv
<1>23. ASSUME NEW n \in Ids, JobStalls(n) PROVE TypeOK'
  <2>1. queue[n] \in Job
    BY <1>23 DEF JobStalls, Running, Inv
  <2>2. [queue[n] EXCEPT !.state = "failed", !.worker = Nil] \in Job
    BY <2>1 DEF Job
  <2>3. ASSUME queue[n].stalls < MaxStalls
        PROVE  [queue[n] EXCEPT !.state = "waiting", !.stalls = @ + 1, !.worker = Nil] \in Job
    <3>1. queue[n].stalls + 1 \in 0..MaxStalls
      BY <2>1, <2>3, BoundsAreNat DEF Job
    <3> QED
      BY <2>1, <3>1 DEF Job
  <2>4. PICK job \in Job : JobAs(n, job)
    BY <1>23, <2>2, <2>3 DEF JobStalls
  <2> QED
    BY <1>23, <2>4 DEF JobStalls, JobAs, Inv
<1>24. ASSUME NEW p \in Procs, Crash(p) PROVE TypeOK'
  BY <1>24, LocalType DEF Crash, Inv, Knows, SenderKnows
<1> QED
  BY <1>1, <1>2, <1>3, <1>4, <1>5, <1>6, <1>7, <1>8, <1>9, <1>10, <1>11, <1>12, <1>13, <1>14,
     <1>15, <1>16, <1>17, <1>18, <1>19, <1>20, <1>21, <1>22, <1>23, <1>24 DEF Next, WorkerStep

-----------------------------------------------------------------------------
(* What a step may do to the tables *)

(* The writes of a notification: a request inserts it, the recipient reads   *)
(* it, alone or with all others, and a worker settles it either way.         *)
Creates(p) ==
    /\ pc[p] = "create" /\ pc'[p] = "enqueue" /\ loc'[p].id = loc[p].id
    /\ notification' = [notification EXCEPT ![loc[p].id] = loc[p].row]
Reads(p) ==
    /\ pc[p] = "read" /\ pc'[p] = "idle"
    /\ notification' = [notification EXCEPT ![loc[p].id] = MarkedRead(loc[p].row)]
ReadsAll ==
    notification' = [n \in Ids |->
        IF notification[n] # Nil /\ "IN_APP" \in notification[n].channels
        THEN MarkedRead(notification[n]) ELSE notification[n]]
Fails(w) ==
    /\ pc[w] = "fail" /\ pc'[w] = "idle"
    /\ notification' = [notification EXCEPT ![loc[w].id] = MarkedFailed(loc[w].row)]
Settles(w) ==
    /\ pc[w] = "settle" /\ pc'[w] = "idle"
    /\ notification' = [notification EXCEPT ![loc[w].id] = MarkedSent(loc[w].row)]
    /\ settled' = settled \cup {loc[w].id}

(* Every step is one of these for the notifications. *)
LEMMA NotificationSteps ==
    ASSUME TypeOK, Next
    PROVE  \/ UNCHANGED <<notification, settled>>
           \/ settled' = settled /\ (ReadsAll \/ \E p \in Requests : Creates(p) \/ Reads(p))
           \/ \E w \in Workers : (settled' = settled /\ Fails(w)) \/ Settles(w)
<1> USE DEF TypeOK, delivery, Procs, Goto, Finish
<1>1. ASSUME NEW p \in Requests, SendCreate(p) PROVE settled' = settled /\ Creates(p)
  BY <1>1 DEF SendCreate, Stored, Holding, Creates
<1>2. ASSUME NEW p \in Requests, MarkReadWrite(p) PROVE settled' = settled /\ Reads(p)
  BY <1>2 DEF MarkReadWrite, Stored, Reads
<1>3. ASSUME NEW w \in Workers, JobFail(w)
      PROVE  settled' = settled /\ (notification' = notification \/ Fails(w))
  BY <1>3 DEF JobFail, Stored, Fails, ThrowJob, Report
<1>4. ASSUME NEW w \in Workers, JobSettle(w)
      PROVE  UNCHANGED <<notification, settled>> \/ Settles(w)
  BY <1>4 DEF JobSettle, Stored, Settles, ReturnJob, ThrowJob, Report
<1>5. ASSUME NEW p \in Requests, MarkAllRead(p) PROVE settled' = settled /\ ReadsAll
  BY <1>5 DEF MarkAllRead, ReadsAll
<1>6. ASSUME NEW p \in Requests,
             \/ SendFilter(p) \/ SendEnqueue(p) \/ MarkReadFind(p)
             \/ CreateTemplateCheck(p) \/ CreateTemplateInsert(p)
             \/ TemplateFind(p) \/ ActivateCheck(p) \/ UpdateTemplate(p)
             \/ CreatePreferenceFind(p) \/ CreatePreferenceInsert(p)
             \/ PreferenceFind(p) \/ UpdatePreference(p) \/ DeletePreference(p)
      PROVE  UNCHANGED <<notification, settled>>
  BY <1>6 DEF SendFilter, SendEnqueue, MarkReadFind, CreateTemplateCheck, CreateTemplateInsert,
              WriteTemplate, TemplateFind, ActivateCheck, UpdateTemplate, CreatePreferenceFind,
              CreatePreferenceInsert, PreferenceFind, UpdatePreference, DeletePreference
<1>7. ASSUME NEW p \in Procs,
             ResolveOwn(p) \/ ResolveGlobal(p) \/ TakeJob(p) \/ JobFind(p) \/ JobMail(p) \/ Crash(p)
      PROVE  UNCHANGED <<notification, settled>>
  BY <1>7 DEF ResolveOwn, ResolveGlobal, TakeJob, JobFind, JobMail, Crash
<1>8. ASSUME NEW n \in Ids, JobBackoff(n) \/ JobStalls(n)
      PROVE  UNCHANGED <<notification, settled>>
  BY <1>8 DEF JobBackoff, JobStalls
<1> QED
  BY <1>1, <1>2, <1>3, <1>4, <1>5, <1>6, <1>7, <1>8 DEF Next, WorkerStep

(* The moves of a job: it is enqueued, taken by a worker, given back, or     *)
(* taken away from a worker that stalls.  All but the second keep the number *)
(* of runs that have begun.                                                  *)
Enqueues(p) == pc[p] = "enqueue" /\ queue' = [queue EXCEPT ![loc[p].id] = NewJob]
Takes(w, n, job) ==
    /\ queue[n].state = "waiting" /\ job.state = "active" /\ job.worker = w
    /\ pc[w] = "idle" /\ pc'[w] = "find" /\ loc'[w].id = n
    /\ RunsOf(job) = RunsOf(queue[n]) + 1
Moves(n, job) ==
    /\ job.state # "active" /\ job.worker = Nil
    /\ RunsOf(job) = RunsOf(queue[n])
    /\ job.state = "completed" => n \in settled'
JobStep(n, job) ==
    /\ queue[n] # Nil /\ queue' = [queue EXCEPT ![n] = job]
    /\ job.state # "failed" => job.attempts < MaxAttempts
    /\ Moves(n, job) \/ \E w \in Workers : Takes(w, n, job)

(* A worker's report is a move of its job, which is completed only when the  *)
(* notification was SENT at some time.                                       *)
LEMMA ReportStep ==
    ASSUME Inv, NEW w \in Workers, JobFind(w) \/ JobFail(w) \/ JobSettle(w)
    PROVE  queue' = queue \/ \E n \in Ids, job \in Job : JobStep(n, job)
<1>1. /\ WorkerKnows(w)
      /\ Delivering(w) \/ pc[w] = "find"
      /\ TypeOK /\ JobsConsistent /\ SentIsSettled
  BY DEF Inv, Knows, Procs, Delivering, JobFind, JobFail, JobSettle
<1>2. PICK n \in Ids : n = loc[w].id /\ queue[n] # Nil
  BY <1>1 DEF WorkerKnows
<1>3. ASSUME NEW done \in BOOLEAN, IF done THEN ReturnJob(w) ELSE ThrowJob(w),
             done => n \in settled'
      PROVE  queue' = queue \/ \E job \in Job : JobStep(n, job)
  <2>1. ASSUME NEW job, Reported(w, job, done), queue' = [queue EXCEPT ![n] = job]
        PROVE  job \in Job /\ JobStep(n, job)
    BY <1>2, <1>3, <2>1 DEF Reported, JobStep, Moves
  <2>2. queue' = queue \/ \E job : Reported(w, job, done) /\ queue' = [queue EXCEPT ![n] = job]
    BY <1>1, <1>2, <1>3, Reports
  <2> QED
    BY <2>1, <2>2
<1>4. CASE JobFind(w)
  BY <1>1, <1>2, <1>3, <1>4 DEF JobFind, IsSent, SentIsSettled, JobsConsistent
<1>5. CASE JobFail(w)
  BY <1>3, <1>5 DEF JobFail
<1>6. CASE JobSettle(w)
  BY <1>2, <1>3, <1>6 DEF JobSettle
<1> QED
  BY <1>4, <1>5, <1>6

(* Every step is one of these for the queue. *)
LEMMA QueueSteps ==
    ASSUME Inv, Next
    PROVE  \/ queue' = queue
           \/ \E p \in Requests : Enqueues(p) /\ pc'[p] = "idle"
           \/ \E n \in Ids, job \in Job : JobStep(n, job)
<1> USE DEF delivery, Procs
<1>1. ASSUME NEW p \in Requests, SendEnqueue(p)
      PROVE  queue' = queue \/ (Enqueues(p) /\ pc'[p] = "idle")
  BY <1>1 DEF SendEnqueue, JobAs, Enqueues, Finish, Goto, Inv, TypeOK
<1>2. ASSUME NEW w \in Workers, TakeJob(w) PROVE \E n \in Ids, job \in Job : JobStep(n, job)
  <2>1. PICK n \in Ids : /\ queue[n] # Nil /\ queue[n].state = "waiting"
                         /\ JobAs(n, [queue[n] EXCEPT !.state = "active", !.worker = w])
                         /\ Holding(w, n, Nil)
    BY <1>2 DEF TakeJob
  <2> DEFINE job == [queue[n] EXCEPT !.state = "active", !.worker = w]
  <2>2. /\ queue[n] \in Job /\ queue[n].attempts < MaxAttempts
    BY <2>1 DEF Inv, TypeOK, JobsConsistent
  <2>3. /\ job \in Job /\ job.state = "active" /\ job.worker = w
        /\ job.attempts = queue[n].attempts /\ job.stalls = queue[n].stalls
    BY <2>2 DEF Job
  <2>4. pc[w] = "idle" /\ pc'[w] = "find" /\ loc'[w].id = n
    BY <1>2, <2>1 DEF TakeJob, Idle, Goto, Holding, Inv, TypeOK
  <2>5. RunsOf(job) = RunsOf(queue[n]) + 1
    BY <2>1, <2>2, <2>3, BoundsAreNat DEF RunsOf, Job
  <2> HIDE DEF job
  <2>6. queue' = [queue EXCEPT ![n] = job]
    BY <2>1 DEF JobAs, job
  <2> QED
    BY <2>1, <2>2, <2>3, <2>4, <2>5, <2>6 DEF JobStep, Takes
<1>3. ASSUME NEW n \in Ids, JobBackoff(n) PROVE \E job \in Job : JobStep(n, job)
  <2> DEFINE job == [queue[n] EXCEPT !.state = "waiting"]
  <2>1. /\ queue[n] # Nil /\ queue[n] \in Job /\ queue[n].state = "delayed"
        /\ queue[n].attempts < MaxAttempts /\ queue[n].worker = Nil
    BY <1>3 DEF JobBackoff, Inv, TypeOK, JobsConsistent
  <2>2. /\ job \in Job /\ job.state = "waiting" /\ job.worker = Nil
        /\ job.attempts = queue[n].attempts /\ job.stalls = queue[n].stalls
    BY <2>1 DEF Job
  <2>3. queue' = [queue EXCEPT ![n] = job]
    BY <1>3 DEF JobBackoff, JobAs
  <2> HIDE DEF job
  <2> QED
    BY <2>1, <2>2, <2>3, BoundsAreNat DEF JobStep, Moves, RunsOf, Job
<1>4. ASSUME NEW n \in Ids, JobStalls(n) PROVE \E job \in Job : JobStep(n, job)
  <2>1. /\ queue[n] # Nil /\ queue[n] \in Job /\ queue[n].state = "active"
        /\ queue[n].attempts < MaxAttempts
    BY <1>4 DEF JobStalls, Running, Inv, TypeOK, JobsConsistent
  <2>2. CASE queue[n].stalls < MaxStalls
    <3>1. PICK stalls \in 0..MaxStalls : stalls = queue[n].stalls + 1
      BY <2>1, <2>2, BoundsAreNat DEF Job
    <3> DEFINE job == [queue[n] EXCEPT !.state = "waiting", !.stalls = stalls, !.worker = Nil]
    <3>2. /\ job \in Job /\ job.state = "waiting" /\ job.worker = Nil
          /\ job.attempts = queue[n].attempts /\ job.stalls = stalls
      BY <2>1 DEF Job
    <3>3. queue' = [queue EXCEPT ![n] = job]
      BY <1>4, <2>2, <3>1 DEF JobStalls, JobAs
    <3> HIDE DEF job
    <3>4. queue[n].attempts \in Nat /\ queue[n].stalls \in Nat
      BY <2>1, BoundsAreNat DEF Job
    <3>5. RunsOf(job) = RunsOf(queue[n])
      BY <2>1, <3>1, <3>2, <3>4 DEF RunsOf
    <3> QED
      BY <2>1, <3>2, <3>3, <3>5 DEF JobStep, Moves
  <2>3. CASE ~(queue[n].stalls < MaxStalls)
    <3> DEFINE job == [queue[n] EXCEPT !.state = "failed", !.worker = Nil]
    <3>1. /\ job \in Job /\ job.state = "failed" /\ job.worker = Nil
          /\ job.attempts = queue[n].attempts /\ job.stalls = queue[n].stalls
      BY <2>1 DEF Job
    <3>2. queue' = [queue EXCEPT ![n] = job]
      BY <1>4, <2>3 DEF JobStalls, JobAs
    <3> HIDE DEF job
    <3>3. RunsOf(job) = RunsOf(queue[n])
      BY <2>1, <3>1 DEF RunsOf
    <3> QED
      BY <2>1, <3>1, <3>2, <3>3 DEF JobStep, Moves
  <2> QED
    BY <2>2, <2>3
<1>5. ASSUME NEW p \in Requests,
             \/ SendFilter(p) \/ SendCreate(p) \/ MarkReadFind(p) \/ MarkReadWrite(p)
             \/ MarkAllRead(p) \/ CreateTemplateCheck(p) \/ CreateTemplateInsert(p)
             \/ TemplateFind(p) \/ ActivateCheck(p) \/ UpdateTemplate(p)
             \/ CreatePreferenceFind(p) \/ CreatePreferenceInsert(p)
             \/ PreferenceFind(p) \/ UpdatePreference(p) \/ DeletePreference(p)
      PROVE  queue' = queue
  BY <1>5 DEF SendFilter, SendCreate, MarkReadFind, MarkReadWrite, MarkAllRead, CreateTemplateCheck,
              CreateTemplateInsert, WriteTemplate, TemplateFind, ActivateCheck, UpdateTemplate,
              CreatePreferenceFind, CreatePreferenceInsert, PreferenceFind, UpdatePreference,
              DeletePreference
<1>6. ASSUME NEW p \in Procs, ResolveOwn(p) \/ ResolveGlobal(p) \/ JobMail(p) \/ Crash(p)
      PROVE  queue' = queue
  BY <1>6 DEF ResolveOwn, ResolveGlobal, JobMail, Crash
<1> QED
  BY <1>1, <1>2, <1>3, <1>4, <1>5, <1>6, ReportStep DEF Next, WorkerStep

(* The writes of a template: an insertion, or the update of the row that was *)
(* read; the partial index allows both.                                      *)
Edits(p, row) ==
    /\ loc[p].id \in Templates /\ UniqueIndexAllows(loc[p].id, row)
    /\ template' = [template EXCEPT ![loc[p].id] = row]
    /\ pc'[p] = "idle"
    /\ \/ Inserting(p) /\ template[loc[p].id] = Nil
       \/ /\ template[loc[p].id] # Nil /\ loc[p].row = template[loc[p].id]
          /\ row.version = template[loc[p].id].version + 1

(* Every step is one of these for the templates. *)
LEMMA TemplateSteps ==
    ASSUME Inv, Next
    PROVE  template' = template \/ \E p \in Requests, row \in Template : Edits(p, row)
<1> USE DEF delivery, settings, Procs
<1>1. ASSUME NEW p \in Requests, CreateTemplateInsert(p)
      PROVE  template' = template \/ \E row \in Template : Edits(p, row)
  <2>1. /\ loc[p].id \in Templates /\ template[loc[p].id] = Nil
        /\ loc[p].row \in Template /\ Inserting(p)
    BY <1>1 DEF CreateTemplateInsert, Inserting, Inv, Knows, EditorKnows
  <2>2. pc'[p] = "idle" /\ template \in [Templates -> Template \cup {Nil}]
    BY <1>1 DEF CreateTemplateInsert, WriteTemplate, Finish, Goto, Inv, TypeOK
  <2> QED
    BY <1>1, <2>1, <2>2 DEF CreateTemplateInsert, WriteTemplate, Edits
<1>2. ASSUME NEW p \in Requests, UpdateTemplate(p)
      PROVE  template' = template \/ \E row \in Template : Edits(p, row)
  <2>1. /\ loc[p].id \in Templates /\ template[loc[p].id] # Nil
        /\ loc[p].row \in Template /\ loc[p].row.version < MaxVersion
        /\ loc[p].row.version = template[loc[p].id].version => loc[p].row = template[loc[p].id]
    BY <1>2 DEF UpdateTemplate, Inv, Knows, EditorKnows
  <2>2. pc'[p] = "idle" /\ template \in [Templates -> Template \cup {Nil}]
    BY <1>2 DEF UpdateTemplate, WriteTemplate, Finish, Goto, Inv, TypeOK
  <2>3. CASE Unchanged(template[loc[p].id], loc[p].row)
    <3>1. loc[p].row = template[loc[p].id]
      BY <2>1, <2>3 DEF Unchanged
    <3>2. /\ Bumped(NextTemplate(p)) \in Template
          /\ Bumped(NextTemplate(p)).version = template[loc[p].id].version + 1
      BY <1>2, <2>1, <3>1, NextTemplateType, SettingTypes DEF UpdateTemplate
    <3>3. WriteTemplate(p, Bumped(NextTemplate(p)))
      BY <1>2, <2>3 DEF UpdateTemplate
    <3> QED
      BY <2>1, <2>2, <3>1, <3>2, <3>3 DEF WriteTemplate, Edits
  <2> QED
    BY <1>2, <2>3 DEF UpdateTemplate
<1>3. ASSUME NEW p \in Procs,
             \/ SendFilter(p) \/ ResolveOwn(p) \/ ResolveGlobal(p) \/ SendCreate(p)
             \/ SendEnqueue(p) \/ MarkReadFind(p) \/ MarkReadWrite(p) \/ MarkAllRead(p)
             \/ CreateTemplateCheck(p) \/ TemplateFind(p) \/ ActivateCheck(p)
             \/ CreatePreferenceFind(p) \/ CreatePreferenceInsert(p)
             \/ PreferenceFind(p) \/ UpdatePreference(p) \/ DeletePreference(p)
             \/ TakeJob(p) \/ JobFind(p) \/ JobMail(p) \/ JobFail(p) \/ JobSettle(p) \/ Crash(p)
      PROVE  template' = template
  BY <1>3 DEF SendFilter, ResolveOwn, ResolveGlobal, SendCreate, SendEnqueue, MarkReadFind,
              MarkReadWrite, MarkAllRead, CreateTemplateCheck, TemplateFind, ActivateCheck,
              CreatePreferenceFind, CreatePreferenceInsert, PreferenceFind, UpdatePreference,
              DeletePreference, TakeJob, JobFind, JobMail, JobFail, JobSettle, Crash
<1>4. ASSUME NEW n \in Ids, JobBackoff(n) \/ JobStalls(n) PROVE template' = template
  BY <1>4 DEF JobBackoff, JobStalls
<1> QED
  BY <1>1, <1>2, <1>3, <1>4 DEF Next, WorkerStep

(* The writes of the preference: an insertion under an identifier that no    *)
(* request holds, the update of the very row that was read, or a deletion.   *)
Prefers(p) ==
    /\ preference # Nil /\ preference' # Nil /\ loc[p].row = preference /\ pc'[p] = "idle"
    /\ preference'.id = preference.id /\ preference'.version = preference.version + 1

(* Every step is one of these for the preference. *)
LEMMA PreferenceSteps ==
    ASSUME Inv, Next
    PROVE  \/ preference' \in {preference, Nil}
           \/ /\ preference = Nil
              /\ \A q \in Procs : loc[q].row \in Preference => loc[q].row.id # preference'.id
           \/ \E p \in Requests : Prefers(p)
<1> USE DEF delivery, settings, Procs
<1>1. ASSUME NEW p \in Requests, CreatePreferenceInsert(p)
      PROVE  \/ preference' = preference
             \/ /\ preference = Nil
                /\ \A q \in Procs : loc[q].row \in Preference => loc[q].row.id # preference'.id
  BY <1>1, SettingTypes DEF CreatePreferenceInsert
<1>2. ASSUME NEW p \in Requests, UpdatePreference(p) PROVE preference' = preference \/ Prefers(p)
  <2>1. CASE IsStored(loc[p].row) /\ Unchanged(preference, loc[p].row)
    <3>1. /\ preference # Nil /\ loc[p].row = preference
          /\ loc[p].row \in Preference /\ loc[p].row.version < MaxVersion
      BY <1>2, <2>1 DEF UpdatePreference, Unchanged, IsStored, Inv, Knows, PreferenceKnown
    <3>2. PICK enabled \in BOOLEAN : preference' = Bumped([loc[p].row EXCEPT !.enabled = enabled])
      BY <1>2, <2>1 DEF UpdatePreference
    <3> DEFINE next == [loc[p].row EXCEPT !.enabled = enabled]
    <3>3. /\ next \in Preference /\ next.version = preference.version
          /\ next.id = preference.id
      BY <3>1 DEF Preference
    <3> HIDE DEF next
    <3>4. /\ Bumped(next) \in Preference /\ Bumped(next).version = preference.version + 1
          /\ Bumped(next).id = preference.id
      BY <3>1, <3>3, SettingTypes
    <3>5. pc'[p] = "idle"
      BY <1>2 DEF UpdatePreference, Finish, Goto, Inv, TypeOK
    <3> QED
      BY <3>1, <3>2, <3>4, <3>5, NilIsFresh DEF Prefers, next
  <2> QED
    BY <1>2, <2>1 DEF UpdatePreference
<1>3. ASSUME NEW p \in Requests, DeletePreference(p) PROVE preference' \in {preference, Nil}
  BY <1>3 DEF DeletePreference
<1>4. ASSUME NEW p \in Procs,
             \/ SendFilter(p) \/ ResolveOwn(p) \/ ResolveGlobal(p) \/ SendCreate(p)
             \/ SendEnqueue(p) \/ MarkReadFind(p) \/ MarkReadWrite(p) \/ MarkAllRead(p)
             \/ CreateTemplateCheck(p) \/ CreateTemplateInsert(p) \/ TemplateFind(p)
             \/ ActivateCheck(p) \/ UpdateTemplate(p) \/ CreatePreferenceFind(p)
             \/ PreferenceFind(p) \/ TakeJob(p) \/ JobFind(p) \/ JobMail(p) \/ JobFail(p)
             \/ JobSettle(p) \/ Crash(p)
      PROVE  preference' = preference
  BY <1>4 DEF SendFilter, ResolveOwn, ResolveGlobal, SendCreate, SendEnqueue, MarkReadFind,
              MarkReadWrite, MarkAllRead, CreateTemplateCheck, CreateTemplateInsert, WriteTemplate,
              TemplateFind, ActivateCheck, UpdateTemplate, CreatePreferenceFind, PreferenceFind,
              TakeJob, JobFind, JobMail, JobFail, JobSettle, Crash
<1>5. ASSUME NEW n \in Ids, JobBackoff(n) \/ JobStalls(n) PROVE preference' = preference
  BY <1>5 DEF JobBackoff, JobStalls
<1> QED
  BY <1>1, <1>2, <1>3, <1>4, <1>5 DEF Next, WorkerStep

-----------------------------------------------------------------------------
(* What a step leaves to the processes that do not take it *)

Stays(q) == pc'[q] = pc[q] /\ loc'[q] = loc[q]

DeliveryEvolves ==
    /\ \A n \in Ids :
        /\ notification[n] # Nil => /\ notification'[n] # Nil
                                    /\ notification'[n].channels = notification[n].channels
        /\ queue[n] # Nil => queue'[n] # Nil
        /\ mailed[n] > 0 => mailed'[n] > 0
    /\ settled \subseteq settled'
SettingsEvolve ==
    /\ \A t \in Templates :
        template[t] # Nil =>
            /\ template'[t] # Nil
            /\ template'[t] = template[t] \/ template'[t].version > template[t].version
    /\ \A q \in Procs :
        loc[q].row \in Preference /\ preference' # Nil /\ preference'.id = loc[q].row.id =>
            /\ preference # Nil /\ preference.id = loc[q].row.id
            /\ preference' = preference \/ preference'.version > preference.version

(* What a process is about to insert nobody else inserts. *)
InsertionsStay ==
    \A q \in Procs : Stays(q) =>
        /\ Building(q) => notification'[loc[q].id] = Nil
        /\ pc[q] = "enqueue" => queue'[loc[q].id] = Nil
        /\ Inserting(q) => template'[loc[q].id] = Nil

(* A write of a notification that is there keeps its channels. *)
LEMMA NotificationsEvolve ==
    ASSUME Inv, Next
    PROVE  /\ \A n \in Ids : notification[n] # Nil =>
                  /\ notification'[n] # Nil
                  /\ notification'[n].channels = notification[n].channels
           /\ settled \subseteq settled'
<1> USE NilIsFresh, RowTypes DEF Inv, TypeOK, Procs
<1>1. CASE UNCHANGED <<notification, settled>>
  BY <1>1
<1>2. CASE ReadsAll /\ settled' = settled
  BY <1>2 DEF ReadsAll
<1>3. ASSUME NEW p \in Requests, Creates(p) PROVE \A n \in Ids : notification[n] # Nil =>
                  /\ notification'[n] # Nil
                  /\ notification'[n].channels = notification[n].channels
  BY <1>3 DEF Creates, Knows, SenderKnows, Building
<1>4. ASSUME NEW p \in Requests, Reads(p) PROVE \A n \in Ids : notification[n] # Nil =>
                  /\ notification'[n] # Nil
                  /\ notification'[n].channels = notification[n].channels
  BY <1>4 DEF Reads, Knows, ReaderKnows
<1>5. ASSUME NEW w \in Workers, Fails(w) \/ Settles(w)
      PROVE  \A n \in Ids : notification[n] # Nil =>
                  /\ notification'[n] # Nil
                  /\ notification'[n].channels = notification[n].channels
  BY <1>5 DEF Fails, Settles, Knows, WorkerKnows, Delivering
<1>6. settled \subseteq settled'
  BY NotificationSteps DEF Settles
<1> QED
  BY <1>1, <1>2, <1>3, <1>4, <1>5, <1>6, NotificationSteps

(* Only the workers send e-mails. *)
LEMMA MailSteps ==
    ASSUME Next
    PROVE  mailed' = mailed \/ \E w \in Workers : JobMail(w)
<1> USE DEF delivery, Procs
<1>1. ASSUME NEW p \in Procs,
             \/ SendFilter(p) \/ ResolveOwn(p) \/ ResolveGlobal(p) \/ SendCreate(p)
             \/ SendEnqueue(p) \/ MarkReadFind(p) \/ MarkReadWrite(p) \/ MarkAllRead(p)
             \/ CreateTemplateCheck(p) \/ CreateTemplateInsert(p) \/ TemplateFind(p)
             \/ ActivateCheck(p) \/ UpdateTemplate(p) \/ CreatePreferenceFind(p)
             \/ CreatePreferenceInsert(p) \/ PreferenceFind(p) \/ UpdatePreference(p)
             \/ DeletePreference(p) \/ TakeJob(p) \/ JobFind(p) \/ JobFail(p) \/ JobSettle(p)
             \/ Crash(p)
      PROVE  mailed' = mailed
  BY <1>1 DEF SendFilter, ResolveOwn, ResolveGlobal, SendCreate, SendEnqueue, MarkReadFind,
              MarkReadWrite, MarkAllRead, CreateTemplateCheck, CreateTemplateInsert, WriteTemplate,
              TemplateFind, ActivateCheck, UpdateTemplate, CreatePreferenceFind,
              CreatePreferenceInsert, PreferenceFind, UpdatePreference, DeletePreference, TakeJob,
              JobFind, JobFail, JobSettle, Crash
<1>2. ASSUME NEW n \in Ids, JobBackoff(n) \/ JobStalls(n) PROVE mailed' = mailed
  BY <1>2 DEF JobBackoff, JobStalls
<1> QED
  BY <1>1, <1>2 DEF Next, WorkerStep

(* An e-mail that was sent stays sent. *)
LEMMA MailsStay ==
    ASSUME Inv, Next, NEW n \in Ids
    PROVE  mailed[n] > 0 => mailed'[n] > 0
<1>1. mailed \in [Ids -> Nat]
  BY DEF Inv, TypeOK
<1> QED
  BY <1>1, MailSteps DEF JobMail

(* Rows and jobs do not disappear. *)
LEMMA DeliveryStep ==
    ASSUME Inv, Next
    PROVE  DeliveryEvolves
<1>1. \A n \in Ids : queue[n] # Nil => queue'[n] # Nil
  <2>1. NewJob # Nil
    BY NilIsFresh, BoundsAreNat DEF NewJob, Job
  <2> QED
    BY <2>1, QueueSteps, NilIsFresh DEF Enqueues, JobStep, Inv, TypeOK
<1> QED
  BY <1>1, NotificationsEvolve, MailsStay DEF DeliveryEvolves

(* A setting that changes gets a new version, or a new identifier. *)
LEMMA SettingsStep ==
    ASSUME Inv, Next, TypeOK'
    PROVE  SettingsEvolve
<1>1. ASSUME NEW t \in Templates, template[t] # Nil
      PROVE  /\ template'[t] # Nil
             /\ template'[t] = template[t] \/ template'[t].version > template[t].version
  <2>1. CASE template' = template
    BY <1>1, <2>1
  <2>2. ASSUME NEW p \in Requests, NEW row \in Template, Edits(p, row)
        PROVE  /\ template'[t] # Nil
               /\ template'[t] = template[t] \/ template'[t].version > template[t].version
    BY <1>1, <2>2, NilIsFresh, BoundsAreNat DEF Edits, Inv, TypeOK, Template
  <2> QED
    BY <2>1, <2>2, TemplateSteps
<1>2. ASSUME NEW q \in Procs, loc[q].row \in Preference,
             preference' # Nil, preference'.id = loc[q].row.id
      PROVE  /\ preference # Nil /\ preference.id = loc[q].row.id
             /\ preference' = preference \/ preference'.version > preference.version
  <2>1. preference # Nil => preference.version \in Nat
    BY BoundsAreNat DEF Inv, TypeOK, Preference
  <2> QED
    BY <1>2, <2>1, PreferenceSteps DEF Prefers
<1> QED
  BY <1>1, <1>2 DEF SettingsEvolve

(* Two processes that insert work on identifiers of their own. *)
LEMMA InsertionsStep ==
    ASSUME Inv, Next
    PROVE  InsertionsStay
<1> SUFFICES ASSUME NEW q \in Procs, Stays(q)
             PROVE  /\ Building(q) => notification'[loc[q].id] = Nil
                    /\ pc[q] = "enqueue" => queue'[loc[q].id] = Nil
                    /\ Inserting(q) => template'[loc[q].id] = Nil
  BY DEF InsertionsStay
<1> USE DEF Inv, TypeOK, Procs
<1>1. Building(q) => notification'[loc[q].id] = Nil
  <2> SUFFICES ASSUME Building(q) PROVE notification'[loc[q].id] = Nil
    OBVIOUS
  <2>1. PICK n \in Ids : n = loc[q].id /\ notification[n] = Nil
    BY DEF Knows, SenderKnows
  <2>2. CASE UNCHANGED notification \/ ReadsAll
    BY <2>1, <2>2 DEF ReadsAll
  <2>3. ASSUME NEW p \in Requests, Creates(p) PROVE notification'[n] = Nil
    <3>1. p # q /\ Sending(p) /\ Sending(q) /\ q \in Requests
      BY <2>3 DEF Creates, Sending, Building, Stays
    <3>2. loc[p].id # n
      BY <2>1, <3>1 DEF Apart
    <3> QED
      BY <2>1, <2>3, <3>2 DEF Creates
  <2>4. ASSUME NEW p \in Requests, Reads(p) PROVE notification'[n] = Nil
    BY <2>1, <2>4 DEF Reads, Knows, ReaderKnows
  <2>5. ASSUME NEW w \in Workers, Fails(w) \/ Settles(w) PROVE notification'[n] = Nil
    BY <2>1, <2>5 DEF Fails, Settles, Knows, WorkerKnows, Delivering, JobsConsistent
  <2> QED
    BY <2>1, <2>2, <2>3, <2>4, <2>5, NotificationSteps
<1>2. pc[q] = "enqueue" => queue'[loc[q].id] = Nil
  <2> SUFFICES ASSUME pc[q] = "enqueue" PROVE queue'[loc[q].id] = Nil
    OBVIOUS
  <2>1. PICK n \in Ids : n = loc[q].id /\ queue[n] = Nil
    BY DEF Knows, SenderKnows
  <2>2. ASSUME NEW p \in Requests, Enqueues(p), pc'[p] = "idle" PROVE queue'[n] = Nil
    <3>1. p # q /\ Sending(p) /\ Sending(q) /\ q \in Requests
      BY <2>2 DEF Enqueues, Sending, Stays, Knows, SenderKnows
    <3>2. loc[p].id # n
      BY <2>1, <3>1 DEF Apart
    <3> QED
      BY <2>1, <2>2, <3>2 DEF Enqueues
  <2> QED
    BY <2>1, <2>2, QueueSteps DEF JobStep
<1>3. Inserting(q) => template'[loc[q].id] = Nil
  <2> SUFFICES ASSUME Inserting(q) PROVE template'[loc[q].id] = Nil
    OBVIOUS
  <2>1. PICK t \in Templates : t = loc[q].id /\ template[t] = Nil /\ q \in Requests
    BY DEF Knows, EditorKnows
  <2>2. ASSUME NEW p \in Requests, NEW row \in Template, Edits(p, row) PROVE template'[t] = Nil
    <3>1. loc[p].id # t
      BY <2>1, <2>2 DEF Edits, Inserting, Stays, Apart
    <3> QED
      BY <2>1, <2>2, <3>1 DEF Edits
  <2> QED
    BY <2>1, <2>2, TemplateSteps
<1> QED
  BY <1>1, <1>2, <1>3

-----------------------------------------------------------------------------
(* What processes know *)

(* The knowledge of a process that does not take the step. *)
LEMMA StayersKnow ==
    ASSUME Inv, TypeOK', DeliveryEvolves, SettingsEvolve, InsertionsStay, NEW q \in Procs, Stays(q)
    PROVE  Knows(q)'
<1>1. Knows(q) /\ pc'[q] = pc[q] /\ loc'[q] = loc[q]
  BY DEF Inv, Stays
<1>2. SenderKnows(q)'
  BY <1>1 DEF Knows, SenderKnows, Building, DeliveryEvolves, InsertionsStay
<1>3. ReaderKnows(q)'
  BY <1>1 DEF Knows, ReaderKnows, DeliveryEvolves
<1>4. WorkerKnows(q)'
  BY <1>1 DEF Knows, WorkerKnows, Delivering, DeliveryEvolves, Inv, JobsConsistent
<1>5. EditorKnows(q)'
  <2>1. ASSUME pc[q] \in {"candidates", "activate", "desactivate", "updateContent"}
        PROVE  /\ template'[loc[q].id] # Nil
               /\ loc[q].row.version <= template'[loc[q].id].version
               /\ loc[q].row.version = template'[loc[q].id].version =>
                       loc[q].row = template'[loc[q].id]
    <3>1. PICK t \in Templates : t = loc[q].id
      BY <1>1, <2>1 DEF Knows, EditorKnows
    <3>2. /\ template[t] # Nil /\ template[t] \in Template /\ loc[q].row \in Template
          /\ loc[q].row.version <= template[t].version
          /\ loc[q].row.version = template[t].version => loc[q].row = template[t]
      BY <1>1, <2>1, <3>1 DEF Knows, EditorKnows, Inv, TypeOK
    <3>3. /\ template'[t] # Nil /\ template'[t] \in Template
          /\ template'[t] = template[t] \/ template'[t].version > template[t].version
      BY <3>2 DEF SettingsEvolve, TypeOK
    <3>4. /\ loc[q].row.version \in Nat /\ template[t].version \in Nat
          /\ template'[t].version \in Nat
      BY <3>2, <3>3, BoundsAreNat DEF Template
    <3> QED
      BY <3>1, <3>2, <3>3, <3>4
  <2> QED
    BY <1>1, <2>1 DEF Knows, EditorKnows, Inserting, InsertionsStay
<1>6. PreferenceKnown(q)'
  <2>1. ASSUME pc[q] \in {"updatePreference", "deletePreference"},
               preference' # Nil, preference'.id = loc[q].row.id
        PROVE  /\ loc[q].row.version <= preference'.version
               /\ loc[q].row.version = preference'.version => loc[q].row = preference'
    <3>1. /\ loc[q].row \in Preference
          /\ preference # Nil /\ preference.id = loc[q].row.id
          /\ preference' = preference \/ preference'.version > preference.version
      BY <1>1, <2>1 DEF Knows, PreferenceKnown, SettingsEvolve
    <3>2. /\ loc[q].row.version <= preference.version
          /\ loc[q].row.version = preference.version => loc[q].row = preference
      BY <1>1, <2>1, <3>1 DEF Knows, PreferenceKnown, IsStored
    <3>3. /\ loc[q].row.version \in Nat /\ preference.version \in Nat
          /\ preference'.version \in Nat
      BY <2>1, <3>1, BoundsAreNat DEF Inv, TypeOK, Preference
    <3> QED
      BY <3>1, <3>2, <3>3
  <2> QED
    BY <1>1, <2>1 DEF Knows, PreferenceKnown, IsStored
<1> QED
  BY <1>2, <1>3, <1>4, <1>5, <1>6 DEF Knows

(* The identifiers a process claims after its step it claimed before, or     *)
(* nobody holds them.                                                        *)
ClaimsStay(p) ==
    /\ Sending(p)' => \/ Sending(p) /\ loc'[p].id = loc[p].id
                      \/ \A q \in Procs : loc[q].id # loc'[p].id
    /\ Inserting(p)' => \/ Inserting(p) /\ loc'[p].id = loc[p].id
                        \/ \A q \in Procs : loc[q].id # loc'[p].id
StepOf(p) == (\A q \in Procs \ {p} : Stays(q)) /\ Knows(p)' /\ ClaimsStay(p)

(* A process that is through knows and claims nothing. *)
LEMMA IdleStep ==
    ASSUME TypeOK, NEW p \in Procs, Finish(p)
    PROVE  StepOf(p)
<1>1. /\ pc'[p] = "idle"
      /\ \A q \in Procs \ {p} : Stays(q)
  BY DEF Finish, Goto, Stays, TypeOK
<1> QED
  BY <1>1 DEF StepOf, Knows, SenderKnows, Building, ReaderKnows, WorkerKnows, Delivering,
              EditorKnows, Inserting, PreferenceKnown, ClaimsStay, Sending

(* The resolution of a template, in a request or in a worker. *)
LEMMA ResolutionStep ==
    ASSUME Inv, TypeOK', NEW p \in Procs, ResolveOwn(p) \/ ResolveGlobal(p)
    PROVE  StepOf(p)
<1>1. CASE Finish(p)
  BY <1>1, IdleStep DEF Inv
<1>2. CASE ~Finish(p)
  <2>1. /\ UNCHANGED <<delivery, settings, loc>>
        /\ pc[p] \in {"resolve", "fallback"}
        /\ pc'[p] \in IF p \in Requests THEN {"fallback", "create"}
                                          ELSE {"fallback", "mail", "fail"}
        /\ \A q \in Procs \ {p} : pc'[q] = pc[q]
    BY <1>2, SeparateProcs DEF ResolveOwn, ResolveGlobal, Rendered, Goto, Inv, TypeOK
  <2>2. \A q \in Procs \ {p} : Stays(q)
    BY <2>1 DEF Stays
  <2>3. Knows(p)'
    BY <2>1, SeparateProcs DEF Inv, Procs, delivery, Knows, SenderKnows, Building, ReaderKnows,
       WorkerKnows, Delivering, EditorKnows, Inserting, PreferenceKnown
  <2>4. ClaimsStay(p)
    BY <2>1, SeparateProcs DEF Procs, ClaimsStay, Sending, Building, Inserting
  <2> QED
    BY <2>2, <2>3, <2>4 DEF StepOf
<1> QED
  BY <1>1, <1>2

(* The requests that send. *)
LEMMA SenderStep ==
    ASSUME Inv, TypeOK', NEW p \in Requests, SendFilter(p) \/ SendCreate(p)
    PROVE  StepOf(p)
<1> USE SeparateProcs DEF Procs, Knows, SenderKnows, Building, ReaderKnows, WorkerKnows, Delivering,
        EditorKnows, Inserting, PreferenceKnown, ClaimsStay, Sending, Stays, Goto, Holding
<1>1. CASE SendFilter(p)
  <2>1. PICK n \in Ids, row \in Notification : Filtered(p, n, row)
    BY <1>1, Filters
  <2>2. /\ pc[p] = "idle" /\ pc'[p] \in {"resolve", "create"}
        /\ loc'[p].id = n /\ loc'[p].row = row
        /\ UNCHANGED <<delivery, settings>>
        /\ \A q \in Procs \ {p} : Stays(q)
    BY <1>1, <2>1 DEF SendFilter, Idle, Filtered, Inv, TypeOK
  <2>3. Knows(p)'
    BY <2>1, <2>2 DEF Filtered, delivery
  <2>4. ClaimsStay(p)
    BY <2>1, <2>2 DEF Filtered
  <2> QED
    BY <2>2, <2>3, <2>4 DEF StepOf
<1>2. CASE SendCreate(p)
  <2>1. PICK n \in Ids : /\ n = loc[p].id /\ notification[n] = Nil
                         /\ loc[p].row \in Notification
    BY <1>2 DEF SendCreate, Inv
  <2>2. /\ pc[p] = "create" /\ pc'[p] = "enqueue" /\ loc'[p].id = n
        /\ notification'[n] # Nil /\ queue' = queue
        /\ \A q \in Procs \ {p} : Stays(q)
    BY <1>2, <2>1, NilIsFresh DEF SendCreate, Stored, Inv, TypeOK
  <2>3. queue[n] = Nil
    BY <2>1 DEF Inv, JobsConsistent
  <2>4. Knows(p)'
    BY <2>1, <2>2, <2>3
  <2>5. ClaimsStay(p)
    BY <2>1, <2>2
  <2> QED
    BY <2>2, <2>4, <2>5 DEF StepOf
<1> QED
  BY <1>1, <1>2

(* The recipient, who reads what is there. *)
LEMMA ReaderStep ==
    ASSUME Inv, TypeOK', NEW p \in Requests, MarkReadFind(p)
    PROVE  StepOf(p)
<1>1. PICK n \in Ids : notification[n] # Nil /\ Holding(p, n, notification[n])
  BY DEF MarkReadFind
<1>2. /\ pc'[p] = "read" /\ loc'[p].id = n /\ loc'[p].row = notification[n]
      /\ UNCHANGED <<delivery, settings>>
      /\ \A q \in Procs \ {p} : Stays(q)
  BY <1>1 DEF MarkReadFind, Goto, Holding, Stays, Procs, Inv, TypeOK
<1>3. Knows(p)'
  BY <1>1, <1>2 DEF delivery, Inv, TypeOK, SentIsSettled, SentWasMailed, Knows, SenderKnows,
     Building, ReaderKnows, WorkerKnows, Delivering, EditorKnows, Inserting, PreferenceKnown
<1>4. ClaimsStay(p)
  BY <1>2 DEF ClaimsStay, Sending, Building, Inserting
<1> QED
  BY <1>2, <1>3, <1>4 DEF StepOf

(* The workers. *)
LEMMA WorkerStepOf ==
    ASSUME Inv, TypeOK', NEW w \in Workers, TakeJob(w) \/ JobFind(w) \/ JobMail(w)
    PROVE  StepOf(w)
<1> USE SeparateProcs DEF Procs, Knows, SenderKnows, Building, ReaderKnows, WorkerKnows, Delivering,
        EditorKnows, Inserting, PreferenceKnown, ClaimsStay, Sending, Stays, Goto, Holding
<1>1. CASE TakeJob(w)
  <2>1. PICK n \in Ids : /\ queue[n] # Nil
                         /\ JobAs(n, [queue[n] EXCEPT !.state = "active", !.worker = w])
                         /\ Holding(w, n, Nil)
    BY <1>1 DEF TakeJob
  <2>2. [queue[n] EXCEPT !.state = "active", !.worker = w] # Nil
    <3>1. queue[n] \in Job
      BY <2>1 DEF Inv, TypeOK
    <3>2. [queue[n] EXCEPT !.state = "active", !.worker = w] \in Job
      BY <3>1 DEF Job
    <3> QED
      BY <3>2, NilIsFresh
  <2>3. /\ pc'[w] = "find" /\ loc'[w].id = n /\ queue'[n] # Nil
        /\ \A q \in Procs \ {w} : Stays(q)
    BY <1>1, <2>1, <2>2 DEF TakeJob, JobAs, Inv, TypeOK
  <2> QED
    BY <2>1, <2>3 DEF StepOf
<1>2. CASE JobFind(w) /\ Finish(w)
  BY <1>2, IdleStep DEF Inv
<1>3. CASE JobFind(w) /\ ~Finish(w)
  <2>1. PICK n \in Ids : n = loc[w].id /\ queue[n] # Nil
    BY <1>3 DEF JobFind, Inv
  <2>2. notification[n] \in Notification
    BY <2>1 DEF Inv, TypeOK, JobsConsistent
  <2>3. /\ ~IsSent(notification[n]) /\ Holding(w, n, notification[n])
        /\ Goto(w, IF "EMAIL" \in notification[n].channels THEN "resolve" ELSE "settle")
        /\ UNCHANGED <<notification, queue, mailed>>
    BY <1>3, <2>1 DEF JobFind, ReturnJob, ThrowJob, Report
  <2>4. /\ pc'[w] = IF "EMAIL" \in notification[n].channels THEN "resolve" ELSE "settle"
        /\ loc'[w].id = n /\ loc'[w].row = notification[n]
        /\ \A q \in Procs \ {w} : Stays(q)
    BY <2>3 DEF Inv, TypeOK
  <2> QED
    BY <2>1, <2>2, <2>3, <2>4 DEF StepOf, IsSent
<1>4. CASE JobMail(w)
  <2>1. PICK n \in Ids : n = loc[w].id
    BY <1>4 DEF JobMail, Inv
  <2>2. /\ pc[w] = "mail" /\ pc'[w] \in {"settle", "fail"}
        /\ UNCHANGED <<notification, queue, loc>>
        /\ \A q \in Procs \ {w} : Stays(q)
    BY <1>4 DEF JobMail, Inv, TypeOK
  <2>3. pc'[w] = "settle" => mailed'[n] > 0
    BY <1>4, <2>1 DEF JobMail, Inv, TypeOK
  <2> QED
    BY <2>1, <2>2, <2>3 DEF StepOf, Inv
<1> QED
  BY <1>1, <1>2, <1>3, <1>4

(* The requests about the settings. *)
LEMMA EditorStep ==
    ASSUME Inv, TypeOK', NEW p \in Requests,
           CreateTemplateCheck(p) \/ TemplateFind(p) \/ ActivateCheck(p)
    PROVE  StepOf(p)
<1> USE SeparateProcs DEF Procs, Knows, SenderKnows, Building, ReaderKnows, WorkerKnows, Delivering,
        EditorKnows, Inserting, PreferenceKnown, ClaimsStay, Sending, Stays, Goto, Holding
<1>1. CASE CreateTemplateCheck(p)
  <2>1. PICK t \in Templates, row \in Template :
            /\ template[t] = Nil /\ \A q \in Procs : loc[q].id # t
            /\ Holding(p, t, row)
    BY <1>1, SettingTypes DEF CreateTemplateCheck
  <2>2. /\ pc'[p] = "insertTemplate" /\ loc'[p].id = t /\ loc'[p].row = row
        /\ template' = template
        /\ \A q \in Procs \ {p} : Stays(q)
    BY <1>1, <2>1 DEF CreateTemplateCheck, settings, Inv, TypeOK
  <2> QED
    BY <2>1, <2>2 DEF StepOf
<1>2. CASE TemplateFind(p)
  <2>1. PICK t \in Templates : /\ template[t] # Nil /\ template[t].version < MaxVersion
                               /\ Holding(p, t, template[t])
                               /\ \/ Goto(p, "candidates")
                                  \/ Goto(p, "desactivate")
                                  \/ Goto(p, "updateContent")
    BY <1>2 DEF TemplateFind
  <2>2. /\ pc'[p] \in {"candidates", "desactivate", "updateContent"}
        /\ loc'[p].id = t /\ loc'[p].row = template[t]
        /\ template' = template
        /\ \A q \in Procs \ {p} : Stays(q)
    BY <1>2, <2>1 DEF TemplateFind, settings, Inv, TypeOK
  <2>3. template[t] \in Template /\ template[t].version \in Nat
    BY <2>1, BoundsAreNat DEF Inv, TypeOK, Template
  <2> QED
    BY <2>1, <2>2, <2>3 DEF StepOf
<1>3. CASE ActivateCheck(p) /\ Finish(p)
  BY <1>3, IdleStep DEF Inv
<1>4. CASE ActivateCheck(p) /\ ~Finish(p)
  <2>1. /\ pc[p] = "candidates" /\ pc'[p] = "activate" /\ UNCHANGED <<template, loc>>
        /\ \A q \in Procs \ {p} : Stays(q)
    BY <1>4 DEF ActivateCheck, settings, Inv, TypeOK
  <2> QED
    BY <2>1 DEF StepOf, Inv
<1> QED
  BY <1>1, <1>2, <1>3, <1>4

(* Likewise for the preference. *)
LEMMA PreferenceStep ==
    ASSUME Inv, TypeOK', NEW p \in Requests, CreatePreferenceFind(p) \/ PreferenceFind(p)
    PROVE  StepOf(p)
<1> USE SeparateProcs DEF Procs, Knows, SenderKnows, Building, ReaderKnows, WorkerKnows, Delivering,
        EditorKnows, Inserting, PreferenceKnown, ClaimsStay, Sending, Stays, Goto, Holding
<1>1. CASE CreatePreferenceFind(p)
  <2>1. /\ pc'[p] = "insertPreference"
        /\ \A q \in Procs \ {p} : Stays(q)
    BY <1>1 DEF CreatePreferenceFind, Inv, TypeOK
  <2> QED
    BY <2>1 DEF StepOf
<1>2. CASE PreferenceFind(p)
  <2>1. /\ pc'[p] \in {"updatePreference", "deletePreference"}
        /\ pc'[p] = "updatePreference" => preference.version < MaxVersion
        /\ loc'[p].row = preference /\ preference' = preference
        /\ \A q \in Procs \ {p} : Stays(q)
    BY <1>2 DEF PreferenceFind, settings, Inv, TypeOK
  <2>2. preference \in Preference /\ preference.version \in Nat
    BY <1>2, BoundsAreNat DEF PreferenceFind, Inv, TypeOK, Preference
  <2> QED
    BY <2>1, <2>2 DEF StepOf
<1> QED
  BY <1>1, <1>2

(* Every step is nobody's or one process's, which knows what it needs next. *)
LEMMA ActorStep ==
    ASSUME Inv, Next, TypeOK'
    PROVE  (\A q \in Procs : Stays(q)) \/ \E p \in Procs : StepOf(p)
<1>1. ASSUME NEW p \in Procs,
             \/ SendEnqueue(p) \/ MarkReadWrite(p) \/ CreateTemplateInsert(p) \/ UpdateTemplate(p)
             \/ CreatePreferenceInsert(p) \/ UpdatePreference(p) \/ DeletePreference(p)
             \/ JobFail(p) \/ JobSettle(p) \/ Crash(p)
      PROVE  StepOf(p)
  <2>1. Finish(p)
    BY <1>1 DEF SendEnqueue, MarkReadWrite, CreateTemplateInsert, WriteTemplate, UpdateTemplate,
                CreatePreferenceInsert, UpdatePreference, DeletePreference, JobFail, JobSettle,
                ReturnJob, ThrowJob, Report, Crash
  <2> QED
    BY <2>1, IdleStep DEF Inv
<1>2. ASSUME NEW p \in Requests, MarkAllRead(p) PROVE \A q \in Procs : Stays(q)
  BY <1>2 DEF MarkAllRead, Stays
<1>3. ASSUME NEW n \in Ids, JobBackoff(n) \/ JobStalls(n) PROVE \A q \in Procs : Stays(q)
  BY <1>3 DEF JobBackoff, JobStalls, Stays
<1>4. ASSUME NEW p \in Requests,
             \/ SendFilter(p) \/ SendCreate(p) \/ MarkReadFind(p) \/ CreateTemplateCheck(p)
             \/ TemplateFind(p) \/ ActivateCheck(p) \/ CreatePreferenceFind(p) \/ PreferenceFind(p)
      PROVE  StepOf(p)
  BY <1>4, SenderStep, ReaderStep, EditorStep, PreferenceStep
<1> QED
  BY <1>1, <1>2, <1>3, <1>4, ResolutionStep, WorkerStepOf DEF Next, WorkerStep, Procs

(* So every process knows after a step what its place in the code needs ... *)
LEMMA KnowsStep ==
    ASSUME Inv, Next, TypeOK'
    PROVE  \A q \in Procs : Knows(q)'
<1>1. \A q \in Procs : Stays(q) => Knows(q)'
  BY DeliveryStep, SettingsStep, InsertionsStep, StayersKnow
<1> QED
  BY <1>1, ActorStep DEF StepOf

(* ... and what it is about to insert is still its own. *)
LEMMA ApartStep ==
    ASSUME Inv, Next, TypeOK'
    PROVE  Apart'
<1>1. ASSUME NEW q \in Procs, Stays(q)
      PROVE  /\ Sending(q)' <=> Sending(q)
             /\ Inserting(q)' <=> Inserting(q)
             /\ loc'[q].id = loc[q].id
  BY <1>1 DEF Stays, Sending, Building, Inserting
<1>2. CASE \A q \in Procs : Stays(q)
  BY <1>1, <1>2 DEF Apart, Inv, Procs
<1>3. ASSUME NEW p \in Procs, StepOf(p) PROVE Apart'
  <2>1. ASSUME NEW q \in Requests, q # p, p \in Requests,
               (Sending(p)' /\ Sending(q)') \/ (Inserting(p)' /\ Inserting(q)')
        PROVE  loc'[p].id # loc'[q].id
    <3>1. Stays(q)
      BY <1>3, <2>1 DEF StepOf, Procs
    <3>2. (Sending(p)' /\ Sending(q)) \/ (Inserting(p)' /\ Inserting(q))
      BY <1>1, <2>1, <3>1 DEF Procs
    <3>3. CASE \A r \in Procs : loc[r].id # loc'[p].id
      BY <1>1, <2>1, <3>1, <3>3 DEF Procs
    <3>4. CASE /\ (Sending(p) /\ Sending(q)) \/ (Inserting(p) /\ Inserting(q))
               /\ loc'[p].id = loc[p].id
      BY <1>1, <2>1, <3>1, <3>4 DEF Apart, Inv, Procs
    <3> QED
      BY <1>3, <3>2, <3>3, <3>4 DEF StepOf, ClaimsStay
  <2>2. \A q \in Requests : q # p => Stays(q)
    BY <1>3 DEF StepOf, Procs
  <2> QED
    BY <1>1, <2>1, <2>2 DEF Apart, Inv, Procs
<1> QED
  BY <1>2, <1>3, ActorStep

-----------------------------------------------------------------------------
(* Whose step it is *)

(* A process that does not stay where it was took one of its own actions. *)
LEMMA OwnActions ==
    ASSUME TypeOK, Next, NEW q \in Procs, ~Stays(q)
    PROVE  \/ q \in Requests /\ \/ SendFilter(q) \/ ResolveOwn(q) \/ ResolveGlobal(q)
                                \/ SendCreate(q) \/ SendEnqueue(q)
                                \/ MarkReadFind(q) \/ MarkReadWrite(q)
                                \/ CreateTemplateCheck(q) \/ CreateTemplateInsert(q)
                                \/ TemplateFind(q) \/ ActivateCheck(q) \/ UpdateTemplate(q)
                                \/ CreatePreferenceFind(q) \/ CreatePreferenceInsert(q)
                                \/ PreferenceFind(q) \/ UpdatePreference(q) \/ DeletePreference(q)
           \/ q \in Workers /\ (TakeJob(q) \/ WorkerStep(q))
           \/ Crash(q)
<1> USE DEF TypeOK, Stays, Goto, Finish, Holding
<1>1. ASSUME NEW p \in Procs, p # q,
             \/ SendFilter(p) \/ ResolveOwn(p) \/ ResolveGlobal(p)
             \/ SendCreate(p) \/ SendEnqueue(p) \/ MarkReadFind(p) \/ MarkReadWrite(p)
             \/ CreateTemplateCheck(p) \/ CreateTemplateInsert(p)
             \/ TemplateFind(p) \/ ActivateCheck(p) \/ UpdateTemplate(p)
             \/ CreatePreferenceFind(p) \/ CreatePreferenceInsert(p)
             \/ PreferenceFind(p) \/ UpdatePreference(p) \/ DeletePreference(p)
      PROVE  FALSE
  BY <1>1 DEF SendFilter, ResolveOwn, ResolveGlobal, Rendered, SendCreate, SendEnqueue,
              MarkReadFind, MarkReadWrite, CreateTemplateCheck, CreateTemplateInsert,
              WriteTemplate, TemplateFind, ActivateCheck, UpdateTemplate, CreatePreferenceFind,
              CreatePreferenceInsert, PreferenceFind, UpdatePreference, DeletePreference
<1>2. ASSUME NEW p \in Procs, p # q,
             TakeJob(p) \/ JobFind(p) \/ JobMail(p) \/ JobFail(p) \/ JobSettle(p) \/ Crash(p)
      PROVE  FALSE
  BY <1>2 DEF TakeJob, JobFind, JobMail, JobFail, JobSettle, ReturnJob, ThrowJob, Report, Crash
<1>3. ASSUME NEW p \in Procs, MarkAllRead(p) PROVE FALSE
  BY <1>3 DEF MarkAllRead
<1>4. ASSUME NEW n \in Ids, JobBackoff(n) \/ JobStalls(n) PROVE FALSE
  BY <1>4 DEF JobBackoff, JobStalls
<1> QED
  BY <1>1, <1>2, <1>3, <1>4 DEF Next, WorkerStep, Procs

-----------------------------------------------------------------------------
(* The queue *)

(* The job of a notification is consistent after every move. *)
LEMMA JobsStep ==
    ASSUME Inv, Next
    PROVE  JobsConsistent'
<1> USE NilIsFresh, BoundsAreNat DEF Inv, TypeOK, JobsConsistent
<1>1. \A n \in Ids : notification[n] # Nil => notification'[n] # Nil
  BY NotificationsEvolve
<1>2. CASE queue' = queue
  BY <1>1, <1>2
<1>3. ASSUME NEW p \in Requests, Enqueues(p) PROVE JobsConsistent'
  <2>1. PICK n \in Ids : n = loc[p].id /\ notification[n] # Nil
    BY <1>3 DEF Enqueues, Knows, SenderKnows, Procs
  <2> QED
    BY <1>1, <1>3, <2>1 DEF Enqueues, NewJob
<1>4. ASSUME NEW n \in Ids, NEW job \in Job, JobStep(n, job) PROVE JobsConsistent'
  BY <1>1, <1>4 DEF JobStep, Moves, Takes
<1> QED
  BY <1>2, <1>3, <1>4, QueueSteps

(* A worker that has its e-mail before it took a job in this step, or had it *)
(* before it already.                                                        *)
LEMMA BeforeMailStep ==
    ASSUME TypeOK, Next, NEW n \in Ids, NEW w \in BeforeMail(n)'
    PROVE  TakeJob(w) \/ (w \in BeforeMail(n) /\ ~JobMail(w))
<1> USE SeparateProcs DEF TypeOK, BeforeMail, Procs, Goto, Finish, Holding
<1>1. w \in Workers /\ loc'[w].id = n /\ pc'[w] \in {"find", "resolve", "fallback", "mail"}
  OBVIOUS
<1>2. CASE Stays(w)
  BY <1>1, <1>2 DEF Stays, JobMail
<1>3. CASE ~Stays(w)
  <2>1. CASE Crash(w)
    BY <1>1, <2>1 DEF Crash
  <2>2. CASE TakeJob(w)
    BY <2>2
  <2>3. CASE JobFind(w)
    BY <1>1, <2>3 DEF JobFind, ReturnJob, ThrowJob, Report, JobMail
  <2>4. CASE ResolveOwn(w) \/ ResolveGlobal(w)
    BY <1>1, <2>4 DEF ResolveOwn, ResolveGlobal, Rendered, JobMail
  <2>5. CASE JobMail(w)
    BY <1>1, <2>5 DEF JobMail
  <2>6. CASE JobFail(w) \/ JobSettle(w)
    BY <1>1, <2>6 DEF JobFail, JobSettle, ReturnJob, ThrowJob, Report
  <2> QED
    BY <1>1, <1>3, <2>1, <2>2, <2>3, <2>4, <2>5, <2>6, OwnActions DEF WorkerStep
<1> QED
  BY <1>2, <1>3

(* The runs that have begun: one more for the job that is taken. *)
LEMMA RunsStep ==
    ASSUME Inv, Next, NEW n \in Ids
    PROVE  \/ Runs(n)' = Runs(n)
           \/ /\ Runs(n)' = Runs(n) + 1
              /\ \E w \in Workers : TakeJob(w) /\ loc'[w].id = n
<1> USE NilIsFresh DEF Inv, TypeOK
<1>1. CASE queue' = queue
  BY <1>1 DEF Runs
<1>2. ASSUME NEW p \in Requests, Enqueues(p) PROVE Runs(n)' = Runs(n)
  <2>1. PICK m \in Ids : m = loc[p].id /\ queue[m] = Nil
    BY <1>2 DEF Enqueues, Knows, SenderKnows, Procs
  <2>2. NewJob # Nil /\ RunsOf(NewJob) = 0
    BY BoundsAreNat DEF NewJob, RunsOf, Job
  <2> QED
    BY <1>2, <2>1, <2>2 DEF Enqueues, Runs
<1>3. ASSUME NEW m \in Ids, NEW job \in Job, JobStep(m, job)
      PROVE  \/ Runs(n)' = Runs(n)
             \/ /\ Runs(n)' = Runs(n) + 1
                /\ \E w \in Workers : TakeJob(w) /\ loc'[w].id = n
  <2>1. queue[m] # Nil /\ job # Nil /\ queue' = [queue EXCEPT ![m] = job]
    BY <1>3 DEF JobStep
  <2>2. n # m => Runs(n)' = Runs(n)
    BY <2>1 DEF Runs
  <2>3. n = m => Runs(n) = RunsOf(queue[m]) /\ Runs(n)' = RunsOf(job)
    BY <2>1 DEF Runs
  <2>4. CASE Moves(m, job)
    BY <2>2, <2>3, <2>4 DEF Moves
  <2>5. ASSUME NEW w \in Workers, Takes(w, m, job)
        PROVE  TakeJob(w) /\ loc'[w].id = m /\ RunsOf(job) = RunsOf(queue[m]) + 1
    <3>1. ~Stays(w) /\ w \in Procs
      BY <2>5 DEF Takes, Stays, Procs
    <3>2. ~Crash(w) /\ ~WorkerStep(w)
      BY <2>5 DEF Takes, Crash, Idle, WorkerStep, JobFind, ResolveOwn, ResolveGlobal, JobMail,
                  JobFail, JobSettle
    <3> QED
      BY <2>5, <3>1, <3>2, OwnActions, SeparateProcs DEF Takes
  <2> QED
    BY <1>3, <2>2, <2>3, <2>4, <2>5 DEF JobStep
<1> QED
  BY <1>1, <1>2, <1>3, QueueSteps

(* A job is taken by one worker at a time, and a run of it begins. *)
LEMMA TakenAlone ==
    ASSUME Inv, TypeOK', Next, NEW w \in Workers, TakeJob(w)
    PROVE  /\ \A v \in Workers : TakeJob(v) => v = w
           /\ mailed' = mailed
           /\ loc'[w].id \in Ids
           /\ \A n \in Ids : loc'[w].id = n => Runs(n)' = Runs(n) + 1
<1>1. (\A v \in Workers : TakeJob(v) => v = w) /\ mailed' = mailed
  BY DEF TakeJob, Idle, Goto, Inv, TypeOK, Procs
<1>2. PICK m \in Ids :
          /\ queue[m] # Nil /\ queue[m].state = "waiting"
          /\ queue' = [queue EXCEPT ![m] = [queue[m] EXCEPT !.state = "active", !.worker = w]]
          /\ loc' = [loc EXCEPT ![w] = [id |-> m, row |-> Nil]]
  BY DEF TakeJob, JobAs, Holding
<1>3. loc'[w].id = m
  BY <1>2 DEF Inv, TypeOK, Procs
<1>4. Runs(m)' = Runs(m) + 1
  <2> DEFINE job == [queue[m] EXCEPT !.state = "active", !.worker = w]
  <2>1. /\ queue[m] \in Job /\ queue[m].attempts \in Nat /\ queue[m].stalls \in Nat
        /\ queue[m].attempts < MaxAttempts
    BY <1>2, BoundsAreNat DEF Job, Inv, TypeOK, JobsConsistent
  <2>2. /\ job \in Job /\ job.state = "active"
        /\ job.attempts = queue[m].attempts /\ job.stalls = queue[m].stalls
    BY <2>1 DEF Job
  <2>3. queue'[m] = job
    BY <1>2 DEF Inv, TypeOK
  <2> HIDE DEF job
  <2>4. Runs(m)' = RunsOf(job) /\ Runs(m) = RunsOf(queue[m])
    BY <1>2, <2>2, <2>3, NilIsFresh DEF Runs
  <2> QED
    BY <1>2, <2>1, <2>2, <2>4 DEF RunsOf
<1> QED
  BY <1>1, <1>3, <1>4

(* How many e-mails a step adds. *)
LEMMA MailGrows ==
    ASSUME Inv, Next, NEW n \in Ids, NEW w \in Workers, JobMail(w)
    PROVE  /\ loc[w].id = n => w \in BeforeMail(n) /\ mailed'[n] <= mailed[n] + 1
           /\ loc[w].id # n => mailed'[n] = mailed[n]
<1>1. mailed[n] \in Nat /\ mailed \in [Ids -> Nat]
  BY DEF Inv, TypeOK
<1>2. \/ mailed' = mailed
      \/ mailed' = [mailed EXCEPT ![loc[w].id] = @ + 1]
  BY DEF JobMail
<1>3. loc[w].id = n => w \in BeforeMail(n)
  BY DEF JobMail, BeforeMail
<1> QED
  BY <1>1, <1>2, <1>3

(* Every run of a job sends one e-mail at the most. *)
LEMMA CountStep ==
    ASSUME Inv, TypeOK', Next
    PROVE  MailsCounted'
<1> SUFFICES ASSUME NEW n \in Ids
             PROVE  /\ IsFiniteSet(BeforeMail(n)')
                    /\ mailed'[n] + Cardinality(BeforeMail(n)') <= Runs(n)'
  BY DEF MailsCounted
<1> DEFINE before == BeforeMail(n)
           after == BeforeMail(n)'
<1>1. /\ IsFiniteSet(before) /\ mailed[n] + Cardinality(before) <= Runs(n)
      /\ mailed[n] \in Nat /\ mailed'[n] \in Nat /\ Cardinality(before) \in Nat
  BY FS_CardinalityType DEF Inv, TypeOK, MailsCounted
<1>2. \A w \in after : TakeJob(w) \/ (w \in before /\ ~JobMail(w))
  BY BeforeMailStep DEF Inv
<1>3. Runs(n) \in Nat /\ Runs(n)' >= Runs(n)
  <2>1. Runs(n) \in Nat
    BY BoundsAreNat DEF Runs, RunsOf, Job, Inv, TypeOK
  <2> QED
    BY <2>1, RunsStep
<1>4. \A w \in after : w \in Workers /\ loc'[w].id = n
  BY DEF BeforeMail
<1>5. \A w \in Workers : JobMail(w) =>
          /\ loc[w].id = n => w \in before /\ mailed'[n] <= mailed[n] + 1
          /\ loc[w].id # n => mailed'[n] = mailed[n]
  BY MailGrows
<1> HIDE DEF before, after
<1> SUFFICES IsFiniteSet(after) /\ mailed'[n] + Cardinality(after) <= Runs(n)'
  BY DEF after
<1>6. ASSUME after \subseteq before, mailed'[n] = mailed[n]
      PROVE  IsFiniteSet(after) /\ mailed'[n] + Cardinality(after) <= Runs(n)'
  <2>1. IsFiniteSet(after) /\ Cardinality(after) <= Cardinality(before)
    BY <1>1, <1>6, FS_Subset
  <2>2. Cardinality(after) \in Nat
    BY <2>1, FS_CardinalityType
  <2> QED
    BY <1>1, <1>3, <1>6, <2>1, <2>2, RunsStep
<1>7. CASE \E w \in Workers : TakeJob(w)
  <2>1. PICK w \in Workers : TakeJob(w)
    BY <1>7
  <2>2. /\ \A v \in Workers : TakeJob(v) => v = w
        /\ mailed' = mailed
        /\ loc'[w].id = n => Runs(n)' = Runs(n) + 1
    BY <2>1, TakenAlone
  <2>3. after \subseteq before \cup {w}
    BY <1>2, <1>4, <2>2
  <2>4. CASE w \in after
    <3>1. Runs(n)' = Runs(n) + 1
      BY <1>4, <2>2, <2>4
    <3>2. IsFiniteSet(before \cup {w}) /\ Cardinality(before \cup {w}) <= Cardinality(before) + 1
      <4>1. /\ IsFiniteSet(before \cup {w})
            /\ Cardinality(before \cup {w}) =
                    IF w \in before THEN Cardinality(before) ELSE Cardinality(before) + 1
        BY <1>1, FS_AddElement
      <4> QED
        BY <1>1, <4>1
    <3>3. after \in SUBSET (before \cup {w})
      BY <2>3
    <3>4. IsFiniteSet(after) /\ Cardinality(after) <= Cardinality(before \cup {w})
      BY <3>2, <3>3, FS_Subset
    <3>5. Cardinality(after) \in Nat /\ Cardinality(before \cup {w}) \in Nat
      BY <3>2, <3>4, FS_CardinalityType
    <3>6. Cardinality(after) <= Cardinality(before) + 1
      BY <1>1, <3>2, <3>4, <3>5
    <3> QED
      BY <1>1, <1>3, <2>2, <3>1, <3>4, <3>5, <3>6
  <2>5. CASE w \notin after
    BY <1>6, <2>2, <2>3, <2>5
  <2> QED
    BY <2>4, <2>5
<1>8. CASE ~\E w \in Workers : TakeJob(w)
  <2>1. after \subseteq before /\ \A w \in after : ~JobMail(w)
    BY <1>2, <1>4, <1>8
  <2>2. ASSUME NEW w \in Workers, JobMail(w), loc[w].id = n
        PROVE  IsFiniteSet(after) /\ mailed'[n] + Cardinality(after) <= Runs(n)'
    <3>1. w \in before /\ mailed'[n] <= mailed[n] + 1
      BY <1>5, <2>2
    <3>2. after \in SUBSET (before \ {w})
      BY <2>1, <2>2
    <3>3. IsFiniteSet(before \ {w}) /\ Cardinality(before \ {w}) = Cardinality(before) - 1
      BY <1>1, <3>1, FS_RemoveElement
    <3>4. IsFiniteSet(after) /\ Cardinality(after) <= Cardinality(before \ {w})
      BY <3>2, <3>3, FS_Subset
    <3>5. Cardinality(after) \in Nat
      BY <3>4, FS_CardinalityType
    <3>6. Cardinality(after) + 1 <= Cardinality(before)
      BY <1>1, <3>3, <3>4, <3>5
    <3> QED
      BY <1>1, <1>3, <3>1, <3>4, <3>5, <3>6, RunsStep
  <2>3. CASE mailed'[n] = mailed[n]
    BY <1>6, <2>1, <2>3
  <2> QED
    BY <1>5, <2>2, <2>3, MailSteps
<1> QED
  BY <1>7, <1>8

-----------------------------------------------------------------------------
(* What is claimed of a notification, and of a template *)

(* SENT is written by the worker that has it mailed, or by a reader that     *)
(* found it.                                                                 *)
LEMMA SentStep ==
    ASSUME Inv, Next, TypeOK'
    PROVE  SentIsSettled' /\ SentWasMailed'
<1> USE NilIsFresh, RowTypes DEF Inv, TypeOK, Procs
<1> SUFFICES ASSUME NEW n \in Ids, notification'[n] # Nil, notification'[n].status = "SENT"
             PROVE  /\ n \in settled'
                    /\ "EMAIL" \in notification'[n].channels => mailed'[n] > 0
  BY DEF SentIsSettled, SentWasMailed
<1>1. settled \subseteq settled' /\ (mailed[n] > 0 => mailed'[n] > 0)
  BY NotificationsEvolve, MailsStay
<1>2. CASE notification'[n] = notification[n]
  BY <1>1, <1>2 DEF SentIsSettled, SentWasMailed
<1>3. CASE ReadsAll
  <2>1. /\ notification[n] # Nil /\ notification[n].status = "SENT"
        /\ notification'[n].channels = notification[n].channels
    BY <1>3 DEF ReadsAll
  <2> QED
    BY <1>1, <2>1 DEF SentIsSettled, SentWasMailed
<1>4. ASSUME NEW p \in Requests, Creates(p), notification'[n] # notification[n] PROVE FALSE
  <2>1. loc[p].id = n /\ notification'[n] = loc[p].row
    BY <1>4 DEF Creates
  <2>2. loc[p].row.status = "PENDING"
    BY <1>4 DEF Creates, Knows, SenderKnows, Building
  <2> QED
    BY <2>1, <2>2
<1>5. ASSUME NEW p \in Requests, Reads(p), notification'[n] # notification[n]
      PROVE  /\ n \in settled'
             /\ "EMAIL" \in notification'[n].channels => mailed'[n] > 0
  <2>1. loc[p].id = n /\ notification'[n] = MarkedRead(loc[p].row)
    BY <1>5 DEF Reads
  <2>2. /\ loc[p].row \in Notification
        /\ loc[p].row.status = "SENT" =>
                n \in settled /\ ("EMAIL" \in loc[p].row.channels => mailed[n] > 0)
    BY <1>5, <2>1 DEF Reads, Knows, ReaderKnows
  <2> QED
    BY <1>1, <2>1, <2>2
<1>6. ASSUME NEW w \in Workers, Fails(w), notification'[n] # notification[n] PROVE FALSE
  <2>1. loc[w].id = n /\ notification'[n] = MarkedFailed(loc[w].row)
    BY <1>6 DEF Fails
  <2>2. loc[w].row \in Notification
    BY <1>6 DEF Fails, Knows, WorkerKnows, Delivering
  <2> QED
    BY <2>1, <2>2
<1>7. ASSUME NEW w \in Workers, Settles(w), notification'[n] # notification[n]
      PROVE  /\ n \in settled'
             /\ "EMAIL" \in notification'[n].channels => mailed'[n] > 0
  <2>1. loc[w].id = n /\ notification'[n] = MarkedSent(loc[w].row) /\ n \in settled'
    BY <1>7 DEF Settles
  <2>2. /\ loc[w].row \in Notification
        /\ "EMAIL" \in loc[w].row.channels => mailed[n] > 0
    BY <1>7, <2>1 DEF Settles, Knows, WorkerKnows, Delivering
  <2> QED
    BY <1>1, <2>1, <2>2
<1> QED
  BY <1>2, <1>3, <1>4, <1>5, <1>6, <1>7, NotificationSteps

(* What accounts for a notification that is not SENT. *)
Accounted(n) ==
    \/ n \in unqueued \cup settled
    \/ \E p \in Requests : pc[p] = "enqueue" /\ loc[p].id = n
    \/ queue[n] # Nil /\ queue[n].state # "completed"

(* A request leaves the row it has just inserted to the queue, or breaks off. *)
LEMMA EnqueueStep ==
    ASSUME Inv, Next, TypeOK', NEW p \in Requests, NEW n \in Ids,
           pc[p] = "enqueue", loc[p].id = n
    PROVE  Accounted(n)'
<1> USE DEF Inv, TypeOK, Procs
<1>1. CASE Stays(p)
  BY <1>1 DEF Stays, Accounted
<1>2. CASE Crash(p)
  BY <1>2 DEF Crash, Accounted
<1>3. CASE SendEnqueue(p)
  <2>1. NewJob # Nil /\ NewJob.state = "waiting"
    BY NilIsFresh, BoundsAreNat DEF NewJob, Job
  <2> QED
    BY <1>3, <2>1 DEF SendEnqueue, JobAs, Accounted
<1> QED
  <2>1. ~TakeJob(p) /\ ~WorkerStep(p)
    BY DEF TakeJob, Idle, WorkerStep, JobFind, ResolveOwn, ResolveGlobal, JobMail, JobFail,
           JobSettle
  <2>2. /\ ~SendFilter(p) /\ ~ResolveOwn(p) /\ ~ResolveGlobal(p) /\ ~SendCreate(p)
        /\ ~MarkReadFind(p) /\ ~MarkReadWrite(p)
        /\ ~CreateTemplateCheck(p) /\ ~CreateTemplateInsert(p)
        /\ ~TemplateFind(p) /\ ~ActivateCheck(p) /\ ~UpdateTemplate(p)
        /\ ~CreatePreferenceFind(p) /\ ~CreatePreferenceInsert(p)
        /\ ~PreferenceFind(p) /\ ~UpdatePreference(p) /\ ~DeletePreference(p)
    BY DEF SendFilter, ResolveOwn, ResolveGlobal, SendCreate, MarkReadFind, MarkReadWrite,
           CreateTemplateCheck, CreateTemplateInsert, TemplateFind, ActivateCheck, UpdateTemplate,
           CreatePreferenceFind, CreatePreferenceInsert, PreferenceFind, UpdatePreference,
           DeletePreference, Idle
  <2> QED
    BY <1>1, <1>2, <1>3, <2>1, <2>2, OwnActions

(* No notification is given up once it is on record as unqueued. *)
LEMMA UnqueuedStay ==
    ASSUME Next
    PROVE  unqueued \subseteq unqueued'
<1> USE DEF delivery, Procs
<1>1. ASSUME NEW p \in Procs,
             \/ SendFilter(p) \/ ResolveOwn(p) \/ ResolveGlobal(p) \/ SendCreate(p)
             \/ SendEnqueue(p) \/ MarkReadFind(p) \/ MarkReadWrite(p) \/ MarkAllRead(p)
             \/ CreateTemplateCheck(p) \/ CreateTemplateInsert(p) \/ TemplateFind(p)
             \/ ActivateCheck(p) \/ UpdateTemplate(p) \/ CreatePreferenceFind(p)
             \/ CreatePreferenceInsert(p) \/ PreferenceFind(p) \/ UpdatePreference(p)
             \/ DeletePreference(p)
      PROVE  unqueued \subseteq unqueued'
  BY <1>1 DEF SendFilter, ResolveOwn, ResolveGlobal, SendCreate, SendEnqueue, MarkReadFind,
              MarkReadWrite, MarkAllRead, CreateTemplateCheck, CreateTemplateInsert, WriteTemplate,
              TemplateFind, ActivateCheck, UpdateTemplate, CreatePreferenceFind,
              CreatePreferenceInsert, PreferenceFind, UpdatePreference, DeletePreference
<1>2. ASSUME NEW w \in Procs,
             TakeJob(w) \/ JobFind(w) \/ JobMail(w) \/ JobFail(w) \/ JobSettle(w) \/ Crash(w)
      PROVE  unqueued \subseteq unqueued'
  BY <1>2 DEF TakeJob, JobFind, JobMail, JobFail, JobSettle, Crash
<1>3. ASSUME NEW n \in Ids, JobBackoff(n) \/ JobStalls(n) PROVE unqueued \subseteq unqueued'
  BY <1>3 DEF JobBackoff, JobStalls
<1> QED
  BY <1>1, <1>2, <1>3 DEF Next, WorkerStep

(* A step that writes a notification leaves it SENT, or accounted for. *)
LEMMA UnsentStep ==
    ASSUME Inv, Next, TypeOK'
    PROVE  UnsentIsAccountedFor'
<1> USE NilIsFresh, RowTypes DEF Inv, TypeOK, Procs
<1> SUFFICES ASSUME NEW n \in Ids, notification'[n] # Nil, notification'[n].status # "SENT"
             PROVE  Accounted(n)'
  BY DEF UnsentIsAccountedFor, Accounted
<1>1. settled \subseteq settled' /\ unqueued \subseteq unqueued'
  BY NotificationsEvolve, UnqueuedStay
<1>2. Accounted(n) => Accounted(n)'
  <2>1. CASE n \in unqueued \cup settled
    BY <1>1, <2>1 DEF Accounted
  <2>2. CASE \E p \in Requests : pc[p] = "enqueue" /\ loc[p].id = n
    BY <2>2, EnqueueStep
  <2>3. CASE queue[n] # Nil /\ queue[n].state # "completed"
    <3>1. CASE queue'[n] = queue[n]
      BY <2>3, <3>1 DEF Accounted
    <3>2. ASSUME NEW p \in Requests, Enqueues(p) PROVE queue'[n] = queue[n]
      BY <2>3, <3>2 DEF Enqueues, Knows, SenderKnows
    <3>3. ASSUME NEW job \in Job, JobStep(n, job) PROVE Accounted(n)'
      <4>1. queue'[n] = job /\ job # Nil
        BY <3>3 DEF JobStep
      <4>2. job.state = "completed" => n \in settled'
        BY <3>3 DEF JobStep, Moves, Takes
      <4> QED
        BY <4>1, <4>2 DEF Accounted
    <3>4. ASSUME NEW m \in Ids, NEW job \in Job, JobStep(m, job), m # n PROVE queue'[n] = queue[n]
      BY <3>4 DEF JobStep
    <3> QED
      BY <3>1, <3>2, <3>3, <3>4, QueueSteps
  <2> QED
    BY <2>1, <2>2, <2>3 DEF Accounted
<1>3. CASE notification[n] # Nil /\ notification[n].status # "SENT"
  BY <1>2, <1>3 DEF UnsentIsAccountedFor, Accounted
<1>4. CASE notification[n] # Nil /\ notification[n].status = "SENT"
  BY <1>1, <1>4 DEF SentIsSettled, Accounted
<1>5. CASE notification[n] = Nil
  <2>1. PICK p \in Requests : Creates(p) /\ loc[p].id = n
    <3>1. ~ReadsAll /\ notification' # notification
      BY <1>5 DEF ReadsAll
    <3>2. ASSUME NEW p \in Requests, Reads(p) PROVE FALSE
      BY <1>5, <3>2 DEF Reads, Knows, ReaderKnows
    <3>3. ASSUME NEW w \in Workers, Fails(w) \/ Settles(w) PROVE FALSE
      BY <1>5, <3>3 DEF Fails, Settles, Knows, WorkerKnows, Delivering, JobsConsistent
    <3>4. ASSUME NEW p \in Requests, Creates(p) PROVE loc[p].id = n
      BY <1>5, <3>4 DEF Creates
    <3> QED
      BY <3>1, <3>2, <3>3, <3>4, NotificationSteps
  <2> QED
    BY <2>1 DEF Creates, Accounted
<1> QED
  BY <1>3, <1>4, <1>5

(* The partial index refuses the second active template of a combination. *)
LEMMA OneActiveStep ==
    ASSUME Inv, Next
    PROVE  OneActiveTemplate'
<1>1. CASE template' = template
  BY <1>1 DEF Inv, OneActiveTemplate, Active
<1>2. ASSUME NEW p \in Requests, NEW row \in Template, Edits(p, row) PROVE OneActiveTemplate'
  <2>1. /\ template' = [template EXCEPT ![loc[p].id] = row]
        /\ \A u \in Templates \ {loc[p].id} :
                row.active /\ Active(u) => template[u].scope # row.scope
    BY <1>2 DEF Edits, UniqueIndexAllows, Conflict
  <2>2. template \in [Templates -> Template \cup {Nil}] /\ loc[p].id \in Templates
    BY <1>2 DEF Edits, Inv, TypeOK
  <2> QED
    BY <2>1, <2>2, NilIsFresh DEF Inv, OneActiveTemplate, Active
<1> QED
  BY <1>1, <1>2, TemplateSteps

-----------------------------------------------------------------------------
(* The invariant holds *)

(* At first at most a template is stored, and every process is idle. *)
LEMMA InitInv == Init => Inv
<1> SUFFICES ASSUME Init PROVE Inv
  OBVIOUS
<1> USE NilIsFresh DEF Init
<1>1. TypeOK
  <2>1. template \in [Templates -> Template \cup {Nil}]
    BY SettingTypes
  <2> QED
    BY <2>1, LocalType DEF TypeOK, Labels
<1>2. JobsConsistent /\ SentIsSettled /\ SentWasMailed /\ UnsentIsAccountedFor
  BY DEF JobsConsistent, SentIsSettled, SentWasMailed, UnsentIsAccountedFor
<1>3. Apart
  BY DEF Apart, Sending, Building, Inserting, Procs
<1>4. OneActiveTemplate
  BY DEF OneActiveTemplate, Active
<1>5. MailsCounted
  <2>1. \A n \in Ids : BeforeMail(n) = {}
    BY DEF BeforeMail, Procs
  <2> QED
    BY <2>1, FS_EmptySet DEF MailsCounted, Runs
<1>6. \A p \in Procs : Knows(p)
  BY DEF Knows, SenderKnows, Building, ReaderKnows, WorkerKnows, Delivering, EditorKnows,
         Inserting, PreferenceKnown
<1> QED
  BY <1>1, <1>2, <1>3, <1>4, <1>5, <1>6 DEF Inv

(* Every step keeps it. *)
LEMMA NextInv == Inv /\ [Next]_vars => Inv'
<1>1. ASSUME Inv, Next PROVE Inv'
  <2>1. TypeOK'
    BY <1>1, TypeStep
  <2> QED
    BY <1>1, <2>1, JobsStep, SentStep, ApartStep, UnsentStep, OneActiveStep, CountStep, KnowsStep
    DEF Inv
<1>2. ASSUME Inv, UNCHANGED vars PROVE Inv'
  BY <1>2 DEF vars, Inv, TypeOK, JobsConsistent, SentIsSettled, Apart, Sending, Building, Inserting,
              SentWasMailed, UnsentIsAccountedFor, OneActiveTemplate, Active, MailsCounted,
              BeforeMail, Runs, Knows, SenderKnows, ReaderKnows, WorkerKnows, Delivering,
              EditorKnows, PreferenceKnown, IsStored
<1> QED
  BY <1>1, <1>2

(* Every reachable state satisfies the invariant. *)
THEOREM Invariance == Spec => []Inv
  BY InitInv, NextInv, PTL DEF Spec

-----------------------------------------------------------------------------
(* The theorems *)

(* Every row, job and local has the type the code gives it. *)
THEOREM TypeCorrect == Spec => []TypeOK
<1>1. Inv => TypeOK
  BY DEF Inv
<1> QED
  BY <1>1, Invariance, PTL

(* A notification is SENT by e-mail only if the SMTP server accepted it. *)
THEOREM SentSafe == Spec => []SentWasMailed
<1>1. Inv => SentWasMailed
  BY DEF Inv
<1> QED
  BY <1>1, Invariance, PTL

(* No interleaving of retries, stalls, crashes and reads sends a             *)
(* notification more often than the queue runs its job.                      *)
THEOREM MailsSafe == Spec => []MailsBounded
<1>1. Inv => MailsBounded
  <2> SUFFICES ASSUME Inv, NEW n \in Ids PROVE mailed[n] <= MaxAttempts + MaxStalls
    BY DEF MailsBounded
  <2>1. Runs(n) \in Nat /\ Runs(n) <= MaxAttempts + MaxStalls
    <3>1. CASE queue[n] = Nil
      BY <3>1, BoundsAreNat DEF Runs
    <3>2. CASE queue[n] # Nil
      <4>1. /\ queue[n].attempts \in 0..MaxAttempts /\ queue[n].stalls \in 0..MaxStalls
            /\ queue[n].state # "failed" => queue[n].attempts < MaxAttempts
        BY <3>2 DEF Inv, TypeOK, JobsConsistent, Job
      <4> QED
        BY <3>2, <4>1, BoundsAreNat DEF Runs, RunsOf
    <3> QED
      BY <3>1, <3>2
  <2>2. Cardinality(BeforeMail(n)) \in Nat /\ mailed[n] + Cardinality(BeforeMail(n)) <= Runs(n)
    BY FS_CardinalityType DEF Inv, MailsCounted
  <2>3. mailed[n] \in Nat
    BY DEF Inv, TypeOK
  <2> QED
    BY <2>1, <2>2, <2>3, BoundsAreNat
<1> QED
  BY <1>1, Invariance, PTL

(* No notification that is not SENT is forgotten. *)
THEOREM UnsentSafe == Spec => []UnsentIsAccountedFor
<1>1. Inv => UnsentIsAccountedFor
  BY DEF Inv
<1> QED
  BY <1>1, Invariance, PTL

(* Two requests never leave two active templates of one combination. *)
THEOREM ActiveSafe == Spec => []OneActiveTemplate
<1>1. Inv => OneActiveTemplate
  BY DEF Inv
<1> QED
  BY <1>1, Invariance, PTL

(* SENT is lost only to a whole-row write of a row that was read before.     *)
THEOREM SentUndone == Spec => SentUndoneOnlyByOverlap
<1> DEFINE A ==
        \A n \in Ids :
            notification[n] # Nil /\ notification[n].status = "SENT"
                /\ notification'[n].status # "SENT" =>
            \E p \in Procs : /\ loc[p].id = n /\ pc'[p] = "idle"
                             /\ loc[p].row \in Notification /\ loc[p].row.status # "SENT"
<1>1. ASSUME Inv, [Next]_vars PROVE [A]_vars
  <2> SUFFICES ASSUME Next, NEW n \in Ids, notification[n] # Nil, notification[n].status = "SENT",
                      notification'[n].status # "SENT"
               PROVE  \E p \in Procs :
                          /\ loc[p].id = n /\ pc'[p] = "idle"
                          /\ loc[p].row \in Notification /\ loc[p].row.status # "SENT"
    BY <1>1
  <2> USE <1>1, RowTypes DEF Inv, TypeOK, Procs
  <2>1. ~ReadsAll
    BY DEF ReadsAll
  <2>2. ASSUME NEW p \in Requests, Creates(p) PROVE FALSE
    BY <2>2, NilIsFresh DEF Creates, Knows, SenderKnows, Building
  <2>3. ASSUME NEW p \in Requests, Reads(p)
        PROVE  /\ loc[p].id = n /\ pc'[p] = "idle"
               /\ loc[p].row \in Notification /\ loc[p].row.status # "SENT"
    BY <2>3 DEF Reads, Knows, ReaderKnows
  <2>4. ASSUME NEW w \in Workers, Fails(w) \/ Settles(w)
        PROVE  /\ loc[w].id = n /\ pc'[w] = "idle"
               /\ loc[w].row \in Notification /\ loc[w].row.status # "SENT"
    BY <2>4 DEF Fails, Settles, Knows, WorkerKnows, Delivering
  <2> QED
    BY <2>1, <2>2, <2>3, <2>4, NotificationSteps
<1> QED
  BY <1>1, Invariance, PTL DEF Spec, SentUndoneOnlyByOverlap

(* A notification becomes unread only by a job that had read it before. *)
THEOREM UnreadExplained == Spec => UnreadOnlyByOverlap
<1> DEFINE A ==
        \A n \in Ids :
            notification[n] # Nil /\ notification[n].read /\ ~notification'[n].read =>
            \E w \in Workers : /\ loc[w].id = n /\ pc'[w] = "idle"
                               /\ ~loc[w].row.read
<1>1. ASSUME Inv, [Next]_vars PROVE [A]_vars
  <2> SUFFICES ASSUME Next, NEW n \in Ids, notification[n] # Nil, notification[n].read,
                      ~notification'[n].read
               PROVE  \E w \in Workers :
                          loc[w].id = n /\ pc'[w] = "idle" /\ ~loc[w].row.read
    BY <1>1
  <2> USE <1>1, RowTypes DEF Inv, TypeOK, Procs
  <2>1. ~ReadsAll
    BY DEF ReadsAll
  <2>2. ASSUME NEW p \in Requests, Creates(p) PROVE FALSE
    BY <2>2, NilIsFresh DEF Creates, Knows, SenderKnows, Building
  <2>3. ASSUME NEW p \in Requests, Reads(p) PROVE FALSE
    BY <2>3 DEF Reads, Knows, ReaderKnows
  <2>4. ASSUME NEW w \in Workers, Fails(w) \/ Settles(w)
        PROVE  loc[w].id = n /\ pc'[w] = "idle" /\ ~loc[w].row.read
    BY <2>4 DEF Fails, Settles, Knows, WorkerKnows, Delivering
  <2> QED
    BY <2>1, <2>2, <2>3, <2>4, NotificationSteps
<1> QED
  BY <1>1, Invariance, PTL DEF Spec, UnreadOnlyByOverlap

(* A template or a preference is replaced only by the request that read it   *)
(* as it still is.                                                           *)
THEOREM SettingsSafe == Spec => NoSettingLost
<1> DEFINE A ==
        /\ \A t \in Templates :
            template[t] # Nil /\ template'[t] # template[t] =>
                \E p \in Requests : loc[p] = [id |-> t, row |-> template[t]] /\ pc'[p] = "idle"
        /\ preference # Nil /\ preference' # Nil /\ preference' # preference =>
                \E p \in Requests : loc[p].row = preference /\ pc'[p] = "idle"
<1>1. ASSUME Inv, [Next]_vars PROVE [A]_vars
  <2> SUFFICES ASSUME Next PROVE A
    BY <1>1
  <2>1. ASSUME NEW t \in Templates, template[t] # Nil, template'[t] # template[t]
        PROVE  \E p \in Requests : loc[p] = [id |-> t, row |-> template[t]] /\ pc'[p] = "idle"
    <3>1. PICK p \in Requests, row \in Template : Edits(p, row)
      BY <1>1, <2>1, TemplateSteps
    <3>2. loc[p].id = t /\ loc[p].row = template[t] /\ pc'[p] = "idle"
      BY <1>1, <2>1, <3>1 DEF Edits, Inv, TypeOK
    <3>3. loc[p] \in Local
      BY <1>1 DEF Inv, TypeOK, Procs
    <3>4. loc[p] = [id |-> t, row |-> template[t]]
      BY <3>2, <3>3 DEF Local
    <3> QED
      BY <3>2, <3>4
  <2>2. preference # Nil /\ preference' # Nil /\ preference' # preference =>
            \E p \in Requests : loc[p].row = preference /\ pc'[p] = "idle"
    BY <1>1, PreferenceSteps DEF Prefers
  <2> QED
    BY <2>1, <2>2
<1> QED
  BY <1>1, Invariance, PTL DEF Spec, NoSettingLost
=============================================================================
