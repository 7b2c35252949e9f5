---------------------------- MODULE Notifications ----------------------------
(***************************************************************************)
(* Notifications of one recipient of a tenant: the request that stores a   *)
(* notification and enqueues its job, the workers of the BullMQ queue that *)
(* resolve the template, send the e-mail and settle the row, the reads by  *)
(* the recipient, and the two settings a delivery depends on, the          *)
(* templates and the recipient's preference.                               *)
(*                                                                         *)
(* One code and locale: a template is the tenant's own or the global one   *)
(* of the channel EMAIL, a preference that of the category MARKETING on    *)
(* the channel EMAIL.  IN_APP needs no delivery; its template is only      *)
(* looked up, and its preference is an answer of the environment.          *)
(* attempts, lastError and the dates are left out of the row.              *)
(*                                                                         *)
(* A process is a request or a worker, with one action per await on shared *)
(* state.  A path that ends in an exception before it changed anything is  *)
(* left out, or ends the request (Finish) when it is one of several        *)
(* outcomes of the await.                                                  *)
(***************************************************************************)
EXTENDS Naturals, FiniteSets

CONSTANTS
    Ids,          \* identifiers of notifications
    Templates,    \* identifiers of templates
    Preferences,  \* identifiers of preferences
    Requests,     \* HTTP requests being served
    Workers,      \* workers of the queue send-notification
    MaxAttempts,  \* attempts of the job
    MaxStalls,    \* BullMQ's maxStalledCount
    MaxVersion,   \* bound: updates of one template or preference
    Scenarios,    \* the use cases and failures that may meet in one behaviour
    Nil           \* absent row, job, worker or local

Ops == {"send", "read", "readAll", "template", "preference"}
Faults == {"smtp", "content", "database", "redis", "crash", "stall"}

Procs == Requests \cup Workers

ASSUME KnownSwitches == Scenarios \subseteq SUBSET (Ops \cup Faults)
ASSUME BoundsAreNat == MaxAttempts \in Nat \ {0} /\ MaxStalls \in Nat /\ MaxVersion \in Nat
ASSUME SeparateProcs == Requests \cap Workers = {}

VARIABLES
    scenario,     \* the use cases and failures of this behaviour
    notification, \* table notifications
    queue,        \* Redis: the job of each notification, or Nil
    template,     \* table notification_templates
    preference,   \* the recipient's row of notification_preferences, or Nil
    mailed,       \* e-mails the SMTP server accepted for each notification
    unqueued,     \* notifications stored and never enqueued (history)
    settled,      \* notifications that have been SENT at some time (history)
    pc,           \* where each process stands
    loc           \* the locals of each process

vars == <<scenario, notification, queue, template, preference, mailed, unqueued, settled, pc, loc>>
delivery == <<notification, queue, mailed, unqueued, settled>>
settings == <<scenario, template, preference>>

-----------------------------------------------------------------------------
(* Types *)

Channels == {"EMAIL", "IN_APP"}
Notification == [channels : (SUBSET Channels) \ {{}},
                 status : {"PENDING", "SENT", "FAILED"}, read : BOOLEAN]
Job == [state : {"waiting", "active", "delayed", "completed", "failed"},
        attempts : 0..MaxAttempts, stalls : 0..MaxStalls, worker : Workers \cup {Nil}]

Template == [scope : {"OWN", "GLOBAL"}, active : BOOLEAN, version : 0..MaxVersion]
Preference == [id : Preferences, enabled : BOOLEAN, version : 0..MaxVersion]

(* Nil is no row, and no identifier either. *)
ASSUME NilIsFresh == Nil \notin Ids \cup Templates \cup Workers
                                \cup Notification \cup Job \cup Template \cup Preference

(* What a process works on (id), and the row of it that it read or builds. *)
Local == [id : Ids \cup Templates \cup {Nil},
          row : Notification \cup Template \cup Preference \cup {Nil}]
NoLocals == [id |-> Nil, row |-> Nil]

Labels == {"idle", "resolve", "fallback", "create", "enqueue", "read",
           "find", "mail", "fail", "settle",
           "insertTemplate", "candidates", "activate", "desactivate", "updateContent",
           "insertPreference", "updatePreference", "deletePreference"}

TypeOK ==
    /\ scenario \in Scenarios
    /\ notification \in [Ids -> Notification \cup {Nil}]
    /\ queue \in [Ids -> Job \cup {Nil}]
    /\ template \in [Templates -> Template \cup {Nil}]
    /\ preference \in Preference \cup {Nil}
    /\ mailed \in [Ids -> Nat]
    /\ unqueued \subseteq Ids /\ settled \subseteq Ids
    /\ pc \in [Procs -> Labels]
    /\ loc \in [Procs -> Local]

-----------------------------------------------------------------------------
(* The entities *)

NewNotification(channels) == [channels |-> channels, status |-> "PENDING", read |-> FALSE]
(* Variant: only a PENDING notification is still to be sent. *)
NotPending(row) == row.status # "PENDING"
(* Variant: an object that was sent is not recognised. *)
NeverSent(row) == FALSE
IsSent(row) == row.status = "SENT"
(* Variant: sending again makes the notification unread. *)
SentUnread(row) == [row EXCEPT !.status = "SENT", !.read = FALSE]
MarkedSent(row) == [row EXCEPT !.status = "SENT"]
(* Variant: the status takes the name of the error. *)
MarkedWithError(row) == [row EXCEPT !.status = "TemplateVariableMissingError"]
MarkedFailed(row) == [row EXCEPT !.status = "FAILED"]
MarkedRead(row) == [row EXCEPT !.read = TRUE]

NewTemplate(scope) == [scope |-> scope, active |-> TRUE, version |-> 0]
Active(t) == template[t] # Nil /\ template[t].active

(* hasConflict with a candidate of findActiveByCombinationCandidates. *)
Conflict(t, scope) == \E u \in Templates \ {t} : Active(u) /\ template[u].scope = scope
(* Variant: the partial index notification_templates_active_unique is missing. *)
NoUniqueIndex(t, row) == TRUE
UniqueIndexAllows(t, row) == row.active => ~Conflict(t, row.scope)

NewPreference(id) == [id |-> id, enabled |-> TRUE, version |-> 0]
Accepted == preference = Nil \/ preference.enabled

(* updateMany of the repositories of both settings: the version must still  *)
(* be the one that was read.                                                *)
(* Variant: updated by id alone. *)
SameId(current, read) == current # Nil
Unchanged(current, read) == current # Nil /\ current.version = read.version
Bumped(row) == [row EXCEPT !.version = @ + 1]

(* Where no use case changes the templates the global one is there. *)
Init ==
    /\ scenario \in Scenarios
    /\ notification = [n \in Ids |-> Nil] /\ queue = [n \in Ids |-> Nil]
    /\ IF "template" \in scenario
       THEN template = [t \in Templates |-> Nil]
       ELSE \E g \in Templates : template = [t \in Templates |->
                IF t = g THEN NewTemplate("GLOBAL") ELSE Nil]
    /\ preference = Nil
    /\ mailed = [n \in Ids |-> 0] /\ unqueued = {} /\ settled = {}
    /\ pc = [p \in Procs |-> "idle"]
    /\ loc = [p \in Procs |-> NoLocals]

-----------------------------------------------------------------------------
(* Processes and the queue *)

May(op) == op \in scenario
CanFail(fault) == fault \in scenario
Idle(p) == pc[p] = "idle"
Goto(p, label) == pc' = [pc EXCEPT ![p] = label]
Holding(p, id, row) == loc' = [loc EXCEPT ![p] = [id |-> id, row |-> row]]
Finish(p) == Goto(p, "idle") /\ loc' = [loc EXCEPT ![p] = NoLocals]

Stored(row) == notification' = [notification EXCEPT ![row.id] = row.row]

NewJob == [state |-> "waiting", attempts |-> 0, stalls |-> 0, worker |-> Nil]
JobAs(n, job) == queue' = [queue EXCEPT ![n] = job]

(* A worker reports how its attempt ended; the report is refused when the   *)
(* job was taken from it after a stall.                                     *)
Report(w, job) ==
    /\ IF queue[loc[w].id].worker = w
       THEN JobAs(loc[w].id, [job EXCEPT !.worker = Nil])
       ELSE UNCHANGED queue
    /\ Finish(w)
ReturnJob(w) == Report(w, [queue[loc[w].id] EXCEPT !.state = "completed"])
ThrowJob(w) ==
    LET job == queue[loc[w].id]
    IN  Report(w, [job EXCEPT !.attempts = @ + 1,
                    !.state = IF job.attempts + 1 < MaxAttempts THEN "delayed" ELSE "failed"])

(* The process of a request or of a worker dies. *)
Crash(p) ==
    /\ CanFail("crash") /\ ~Idle(p)
    /\ unqueued' = IF pc[p] = "enqueue" THEN unqueued \cup {loc[p].id} ELSE unqueued
    /\ Finish(p)
    /\ UNCHANGED <<notification, queue, mailed, settled, settings>>

-----------------------------------------------------------------------------
(* ResolveNotificationTemplateInternalUseCase: the tenant's own template    *)
(* first, the global one in a second query.                                 *)

HasActive(scope) == \E t \in Templates : Active(t) /\ template[t].scope = scope

(* What follows in the request that sends and in the job that delivers; the  *)
(* content may ask for a variable that the payload does not have.            *)
Rendered(p) ==
    \/ p \in Requests /\ Goto(p, "create")
    \/ p \in Workers /\ Goto(p, "mail")
    \/ p \in Workers /\ CanFail("content") /\ Goto(p, "fail")

ResolveOwn(p) ==
    /\ pc[p] = "resolve"
    /\ IF HasActive("OWN") THEN Rendered(p) ELSE Goto(p, "fallback")
    /\ UNCHANGED <<delivery, settings, loc>>

ResolveGlobal(p) ==
    /\ pc[p] = "fallback"
    /\ \/ HasActive("GLOBAL") /\ Rendered(p) /\ UNCHANGED loc
       \/ /\ ~HasActive("GLOBAL")
          /\ IF p \in Requests THEN Finish(p) ELSE Goto(p, "fail") /\ UNCHANGED loc
    /\ UNCHANGED <<delivery, settings>>

-----------------------------------------------------------------------------
(* SendNotificationOhsUseCase *)

(* filterChannels: what may be left of the channels of a request. *)
AllowedChannels(marketing, channels) ==
    IF marketing
    THEN {c \in SUBSET channels : "EMAIL" \in c <=> "EMAIL" \in channels /\ Accepted}
    ELSE {channels}

SendFilter(p) ==
    /\ Idle(p) /\ May("send")
    /\ \E n \in Ids, marketing \in BOOLEAN, wanted \in SUBSET Channels :
        /\ notification[n] = Nil /\ \A q \in Procs : loc[q].id # n
        /\ \E channels \in AllowedChannels(marketing, wanted) \ {{}} :
            /\ Holding(p, n, NewNotification(channels))
            /\ Goto(p, IF "EMAIL" \in channels THEN "resolve" ELSE "create")
    /\ UNCHANGED <<delivery, settings>>

SendCreate(p) ==
    /\ pc[p] = "create"
    /\ Stored(loc[p])
    /\ Goto(p, "enqueue") /\ Holding(p, loc[p].id, Nil)
    /\ UNCHANGED <<queue, mailed, unqueued, settled, settings>>

(* The row is committed: when the queue cannot be reached it stays. *)
SendEnqueue(p) ==
    /\ pc[p] = "enqueue"
    /\ \/ JobAs(loc[p].id, NewJob) /\ UNCHANGED unqueued
       \/ /\ CanFail("redis")
          /\ unqueued' = unqueued \cup {loc[p].id}
          /\ UNCHANGED queue
    /\ Finish(p)
    /\ UNCHANGED <<notification, mailed, settled, settings>>

-----------------------------------------------------------------------------
(* SendNotificationJobsUseCase *)

TakeJob(w) ==
    /\ Idle(w)
    /\ \E n \in Ids :
        /\ queue[n] # Nil /\ queue[n].state = "waiting"
        /\ JobAs(n, [queue[n] EXCEPT !.state = "active", !.worker = w])
        /\ Holding(w, n, Nil)
    /\ Goto(w, "find")
    /\ UNCHANGED <<notification, mailed, unqueued, settled, settings>>

JobFind(w) ==
    LET row == notification[loc[w].id]
    IN  /\ pc[w] = "find"
        /\ \/ IsSent(row) /\ ReturnJob(w)
           \/ /\ ~IsSent(row)
              /\ Holding(w, loc[w].id, row)
              /\ Goto(w, IF "EMAIL" \in row.channels THEN "resolve" ELSE "settle")
              /\ UNCHANGED queue
           \/ CanFail("database") /\ ThrowJob(w)
        /\ UNCHANGED <<notification, mailed, unqueued, settled, settings>>

(* emailSender.send; an answer that is lost is an error, too. *)
(* Variant: the sender asks the server a second time. *)
JobMailTwice(w) ==
    /\ pc[w] = "mail"
    /\ mailed' = [mailed EXCEPT ![loc[w].id] = @ + 2]
    /\ Goto(w, "settle") \/ (CanFail("smtp") /\ Goto(w, "fail"))
    /\ UNCHANGED <<notification, queue, unqueued, settled, settings, loc>>
JobMail(w) ==
    /\ pc[w] = "mail"
    /\ \/ /\ mailed' = [mailed EXCEPT ![loc[w].id] = @ + 1]
          /\ Goto(w, "settle")
       \/ /\ CanFail("smtp")
          /\ mailed' \in {mailed, [mailed EXCEPT ![loc[w].id] = @ + 1]}
          /\ Goto(w, "fail")
    /\ UNCHANGED <<notification, queue, unqueued, settled, settings, loc>>

(* The catch of sendEmail: the row as read, FAILED, is written back and the *)
(* error thrown on.                                                         *)
(* Variant: the error is not thrown on. *)
JobFailQuietly(w) ==
    /\ pc[w] = "fail"
    /\ Goto(w, "settle")
    /\ UNCHANGED <<delivery, settings, loc>>
JobFail(w) ==
    /\ pc[w] = "fail"
    /\ \/ Stored([id |-> loc[w].id, row |-> MarkedFailed(loc[w].row)])
       \/ CanFail("database") /\ UNCHANGED notification
    /\ ThrowJob(w)
    /\ UNCHANGED <<mailed, unqueued, settled, settings>>

JobSettle(w) ==
    /\ pc[w] = "settle"
    /\ \/ /\ Stored([id |-> loc[w].id, row |-> MarkedSent(loc[w].row)])
          /\ settled' = settled \cup {loc[w].id}
          /\ ReturnJob(w)
       \/ CanFail("database") /\ UNCHANGED <<notification, settled>> /\ ThrowJob(w)
    /\ UNCHANGED <<mailed, unqueued, settings>>

JobBackoff(n) ==
    /\ queue[n] # Nil /\ queue[n].state = "delayed"
    /\ JobAs(n, [queue[n] EXCEPT !.state = "waiting"])
    /\ UNCHANGED <<notification, mailed, unqueued, settled, settings, pc, loc>>

(* BullMQ finds an active job whose worker does not renew its lock: it died, *)
(* or it is only too busy to renew it and works on.                          *)
Running(n) == queue[n] # Nil /\ queue[n].state = "active"
Abandoned(n) == Running(n) /\ loc[queue[n].worker].id # n
(* Variant: only a worker that is alive can lose its job. *)
JobStallsIfBusy(n) ==
    /\ Running(n) /\ ~Abandoned(n) /\ CanFail("stall")
    /\ JobAs(n, [queue[n] EXCEPT !.state = "failed", !.worker = Nil])
    /\ UNCHANGED <<notification, mailed, unqueued, settled, settings, pc, loc>>
JobStalls(n) ==
    /\ Running(n)
    /\ CanFail("stall") \/ Abandoned(n)
    /\ JobAs(n, IF queue[n].stalls < MaxStalls
                THEN [queue[n] EXCEPT !.state = "waiting", !.stalls = @ + 1, !.worker = Nil]
                ELSE [queue[n] EXCEPT !.state = "failed", !.worker = Nil])
    /\ UNCHANGED <<notification, mailed, unqueued, settled, settings, pc, loc>>

-----------------------------------------------------------------------------
(* The recipient reads *)

MarkReadFind(p) ==
    /\ Idle(p) /\ May("read")
    /\ \E n \in Ids : /\ notification[n] # Nil /\ "IN_APP" \in notification[n].channels
                      /\ Holding(p, n, notification[n])
    /\ Goto(p, "read")
    /\ UNCHANGED <<delivery, settings>>

(* NotificationRepository.update writes the whole row, by id. *)
MarkReadWrite(p) ==
    /\ pc[p] = "read"
    /\ Stored([id |-> loc[p].id, row |-> MarkedRead(loc[p].row)])
    /\ Finish(p)
    /\ UNCHANGED <<queue, mailed, unqueued, settled, settings>>

(* MarkAllNotificationsAsReadUseCase is a single updateMany of one column. *)
MarkAllRead(p) ==
    /\ Idle(p) /\ May("readAll")
    /\ notification' = [n \in Ids |->
            IF notification[n] # Nil /\ "IN_APP" \in notification[n].channels
            THEN MarkedRead(notification[n]) ELSE notification[n]]
    /\ UNCHANGED <<queue, mailed, unqueued, settled, settings, pc, loc>>

-----------------------------------------------------------------------------
(* Templates *)

(* CreateNotificationTemplateUseCase looks for a conflict ... *)
CreateTemplateCheck(p) ==
    /\ Idle(p) /\ May("template")
    /\ \E t \in Templates, scope \in {"OWN", "GLOBAL"} :
        /\ template[t] = Nil /\ \A q \in Procs : loc[q].id # t
        /\ ~Conflict(t, scope)
        /\ Holding(p, t, NewTemplate(scope))
    /\ Goto(p, "insertTemplate")
    /\ UNCHANGED <<delivery, settings>>

WriteTemplate(p, row) ==
    /\ template' = [template EXCEPT ![loc[p].id] =
            IF UniqueIndexAllows(loc[p].id, row) THEN row ELSE @]
    /\ Finish(p)
    /\ UNCHANGED <<delivery, scenario, preference>>

(* ... and inserts, which the partial index may refuse. *)
CreateTemplateInsert(p) == pc[p] = "insertTemplate" /\ WriteTemplate(p, loc[p].row)

(* activate and desactivate return at once when there is nothing to do. *)
TemplateFind(p) ==
    /\ Idle(p) /\ May("template")
    /\ \E t \in Templates :
        /\ template[t] # Nil /\ template[t].version < MaxVersion
        /\ Holding(p, t, template[t])
        /\ \/ ~Active(t) /\ Goto(p, "candidates")
           \/ Active(t) /\ Goto(p, "desactivate")
           \/ Goto(p, "updateContent")
    /\ UNCHANGED <<delivery, settings>>

ActivateCheck(p) ==
    /\ pc[p] = "candidates"
    /\ IF Conflict(loc[p].id, loc[p].row.scope)
       THEN Finish(p)
       ELSE Goto(p, "activate") /\ UNCHANGED loc
    /\ UNCHANGED <<delivery, settings>>

(* The row a request writes; its subject and body are not modelled. *)
NextTemplate(p) ==
    CASE pc[p] = "activate"      -> [loc[p].row EXCEPT !.active = TRUE]
      [] pc[p] = "desactivate"   -> [loc[p].row EXCEPT !.active = FALSE]
      [] pc[p] = "updateContent" -> loc[p].row

UpdateTemplate(p) ==
    /\ pc[p] \in {"activate", "desactivate", "updateContent"}
    /\ IF Unchanged(template[loc[p].id], loc[p].row)
       THEN WriteTemplate(p, Bumped(NextTemplate(p)))
       ELSE Finish(p) /\ UNCHANGED <<delivery, settings>>

-----------------------------------------------------------------------------
(* Preferences *)

CreatePreferenceFind(p) ==
    /\ Idle(p) /\ May("preference")
    /\ preference = Nil
    /\ Goto(p, "insertPreference")
    /\ UNCHANGED <<delivery, settings, loc>>

(* createOrGet: the row another request inserted is returned as it is. *)
CreatePreferenceInsert(p) ==
    /\ pc[p] = "insertPreference"
    /\ \/ /\ preference = Nil
          /\ \E id \in Preferences :
                /\ \A q \in Procs : loc[q].row \in Preference => loc[q].row.id # id
                /\ preference' = NewPreference(id)
       \/ preference # Nil /\ UNCHANGED preference
    /\ Finish(p)
    /\ UNCHANGED <<delivery, scenario, template>>

PreferenceFind(p) ==
    /\ Idle(p) /\ May("preference")
    /\ preference # Nil
    /\ Holding(p, Nil, preference)
    /\ \/ preference.version < MaxVersion /\ Goto(p, "updatePreference")
       \/ Goto(p, "deletePreference")
    /\ UNCHANGED <<delivery, settings>>

IsStored(row) == preference # Nil /\ preference.id = row.id

UpdatePreference(p) ==
    /\ pc[p] = "updatePreference"
    /\ IF IsStored(loc[p].row) /\ Unchanged(preference, loc[p].row)
       THEN \E enabled \in BOOLEAN :
                preference' = Bumped([loc[p].row EXCEPT !.enabled = enabled])
       ELSE UNCHANGED preference
    /\ Finish(p)
    /\ UNCHANGED <<delivery, scenario, template>>

DeletePreference(p) ==
    /\ pc[p] = "deletePreference"
    /\ preference' = IF IsStored(loc[p].row) THEN Nil ELSE preference
    /\ Finish(p)
    /\ UNCHANGED <<delivery, scenario, template>>

-----------------------------------------------------------------------------
WorkerStep(w) ==
    JobFind(w) \/ ResolveOwn(w) \/ ResolveGlobal(w) \/ JobMail(w) \/ JobFail(w) \/ JobSettle(w)

Next ==
    \/ \E p \in Requests :
        \/ SendFilter(p) \/ ResolveOwn(p) \/ ResolveGlobal(p) \/ SendCreate(p) \/ SendEnqueue(p)
        \/ MarkReadFind(p) \/ MarkReadWrite(p) \/ MarkAllRead(p)
        \/ CreateTemplateCheck(p) \/ CreateTemplateInsert(p)
        \/ TemplateFind(p) \/ ActivateCheck(p) \/ UpdateTemplate(p)
        \/ CreatePreferenceFind(p) \/ CreatePreferenceInsert(p)
        \/ PreferenceFind(p) \/ UpdatePreference(p) \/ DeletePreference(p)
    \/ \E w \in Workers : TakeJob(w) \/ WorkerStep(w)
    \/ \E n \in Ids : JobBackoff(n) \/ JobStalls(n)
    \/ \E p \in Procs : Crash(p)

(* Redis hands out what waits, wakes what is delayed and looks for stalled   *)
(* jobs; a worker that does not die goes on.                                 *)
Fairness ==
    /\ WF_vars(\E w \in Workers : TakeJob(w))
    /\ \A w \in Workers : WF_vars(WorkerStep(w))
    /\ \A n \in Ids : WF_vars(JobBackoff(n)) /\ WF_vars(Abandoned(n) /\ JobStalls(n))

Spec == Init /\ [][Next]_vars /\ Fairness

-----------------------------------------------------------------------------
(* Properties *)

(* SENT is never claimed of an e-mail the SMTP server did not accept.        *)
SentWasMailed ==
    \A n \in Ids :
        notification[n] # Nil /\ notification[n].status = "SENT"
            /\ "EMAIL" \in notification[n].channels => mailed[n] > 0

(* Retries, stalled workers and reads that overwrite the status may send an  *)
(* e-mail again, but never more often than the queue runs the job.           *)
MailsBounded == \A n \in Ids : mailed[n] <= MaxAttempts + MaxStalls

(* A notification that is not SENT is still on its way, has used up its job, *)
(* or its request broke off between the row and the queue; or it has been    *)
(* SENT and lost that to a whole-row write.  A job is never done with a      *)
(* notification that was not sent.                                           *)
UnsentIsAccountedFor ==
    \A n \in Ids :
        notification[n] # Nil /\ notification[n].status # "SENT" =>
            \/ n \in unqueued \cup settled
            \/ \E p \in Requests : pc[p] = "enqueue" /\ loc[p].id = n
            \/ queue[n] # Nil /\ queue[n].state # "completed"

(* SENT is final but for one race: the process that takes it back had read   *)
(* the row before it was SENT (the whole row is written by id).              *)
SentUndoneOnlyByOverlap ==
    [][ \A n \in Ids :
            notification[n] # Nil /\ notification[n].status = "SENT"
                /\ notification'[n].status # "SENT" =>
            \E p \in Procs : /\ loc[p].id = n /\ pc'[p] = "idle"
                             /\ loc[p].row \in Notification /\ loc[p].row.status # "SENT" ]_vars

(* Likewise a notification becomes unread only by a job that had read the    *)
(* row before the recipient did.                                             *)
UnreadOnlyByOverlap ==
    [][ \A n \in Ids :
            notification[n] # Nil /\ notification[n].read /\ ~notification'[n].read =>
            \E w \in Workers : /\ loc[w].id = n /\ pc'[w] = "idle"
                               /\ ~loc[w].row.read ]_vars

(* Two requests that both found no conflict never leave two active templates *)
(* of one combination, so a resolution has one answer per scope.             *)
OneActiveTemplate ==
    \A t, u \in Templates :
        Active(t) /\ Active(u) /\ template[t].scope = template[u].scope => t = u

(* No setting is lost: an update replaces the very row its request read,     *)
(* although a request waits between the read and the write.                  *)
NoSettingLost ==
    [][ /\ \A t \in Templates :
            template[t] # Nil /\ template'[t] # template[t] =>
                \E p \in Requests : loc[p] = [id |-> t, row |-> template[t]] /\ pc'[p] = "idle"
        /\ preference # Nil /\ preference' # Nil /\ preference' # preference =>
                \E p \in Requests : loc[p].row = preference /\ pc'[p] = "idle" ]_vars

(* Every job ends: it completes, or it uses up its attempts or its stalls.   *)
JobsEnd ==
    \A n \in Ids : queue[n] # Nil ~> queue[n] # Nil /\ queue[n].state \in {"completed", "failed"}
=============================================================================
