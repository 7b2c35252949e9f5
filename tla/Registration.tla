---------------------------- MODULE Registration ----------------------------
(***************************************************************************)
(* How a person enters a tenant: the tenant's invitations, and the saga    *)
(* that turns one into a user (Identity) and an authentication account     *)
(* (Authentication) before it consumes the invitation (Tenants).  The      *)
(* three contexts share no transaction; SagaOrchestrator undoes the steps  *)
(* already done, last first, when one throws, and stops undoing when a     *)
(* compensation throws.  Who knows of the new account may log in, or ask   *)
(* for a new password, before the saga is over.                            *)
(*                                                                         *)
(* A request is an asynchronous handler with one action per await on       *)
(* shared state.  A path that ends in an exception before it changed       *)
(* anything is left out, or ends the request (Finish) when it is one of    *)
(* several outcomes of the await.                                          *)
(***************************************************************************)
EXTENDS Naturals, FiniteSets

CONSTANTS
    Invitations,  \* identifiers (and tokens) the IdGenerator may hand out
    Recipients,   \* e-mail addresses
    Ids,          \* identifiers of users; an account is named after its user
    Requests,     \* HTTP requests being served
    Ops,          \* the use cases that run in this instance
    Faults,       \* the failures that may happen in this instance
    Nil           \* absent row or local

AllOps == {"invite", "revoke", "register", "login", "reset"}
AllFaults == {"database", "crash"}

ASSUME KnownSwitches == Ops \subseteq AllOps /\ Faults \subseteq AllFaults

VARIABLES
    invitation,  \* table invitations of the tenant: row of each identifier, or Nil
    expired,     \* invitations whose expires_at has passed
    user,        \* table users: the e-mail of each identifier, or Nil
    account,     \* table authentication_accounts: the users that have one
    session,     \* users that own at least one row of authentication_sessions
    reset,       \* users whose account has at least one row of password_resets
    issued,      \* identifiers of users handed out
    admitted,    \* the users whose saga consumed each invitation (history)
    broken,      \* users whose saga died, or could not be undone (history)
    pc,          \* where each request stands
    loc          \* the locals of each request

vars == <<invitation, expired, user, account, session, reset, issued, admitted, broken,
          pc, loc>>
tables == <<invitation, user, account, session, reset, issued, admitted>>

-----------------------------------------------------------------------------
(* Types *)

(* EXPIRED is a status of the object in memory; no use case ever writes it. *)
Statuses == {"PENDING", "USED", "REVOKED"}
Row == [recipient : Recipients, status : Statuses]
ASSUME NilIsFresh == Nil \notin Invitations \cup Recipients \cup Ids \cup Row

Local == [invitation : Invitations \cup {Nil}, row : Row \cup {Nil},
          id : Ids \cup {Nil}, recipient : Recipients \cup {Nil},
          known : SUBSET Invitations]
NoLocals == [invitation |-> Nil, row |-> Nil, id |-> Nil, recipient |-> Nil, known |-> {}]

Labels == {"idle", "invite", "revoke", "createUser", "insertUser", "createAccount",
           "consume", "use", "deleteAccount", "deleteUser", "login", "reset"}

SagaSteps == {"createAccount", "consume", "use", "deleteAccount", "deleteUser"}

TypeOK ==
    /\ invitation \in [Invitations -> Row \cup {Nil}]
    /\ expired \subseteq Invitations
    /\ user \in [Ids -> Recipients \cup {Nil}]
    /\ account \subseteq Ids /\ session \subseteq Ids /\ reset \subseteq Ids
    /\ issued \subseteq Ids /\ broken \subseteq Ids
    /\ admitted \in [Invitations -> SUBSET Ids]
    /\ pc \in [Requests -> Labels]
    /\ loc \in [Requests -> Local]

Init ==
    /\ invitation = [i \in Invitations |-> Nil] /\ expired = {}
    /\ user = [u \in Ids |-> Nil]
    /\ account = {} /\ session = {} /\ reset = {} /\ issued = {}
    /\ admitted = [i \in Invitations |-> {}] /\ broken = {}
    /\ pc = [p \in Requests |-> "idle"]
    /\ loc = [p \in Requests |-> NoLocals]

-----------------------------------------------------------------------------
(* The entity Invitation *)

NewInvitation(recipient) == [recipient |-> recipient, status |-> "PENDING"]
Used(row) == [row EXCEPT !.status = "USED"]
(* Variant: a status of its own, that the table's type does not know. *)
Cancelled(row) == [row EXCEPT !.status = "CANCELLED"]
RevokedRow(row) == [row EXCEPT !.status = "REVOKED"]

(* The checks of validate, consume and revoke: pending in the database, and  *)
(* not turned into EXPIRED on its way into memory.                           *)
(* Variant: only the expiration is checked. *)
Unexpired(i) == invitation[i] # Nil /\ i \notin expired
Open(i) == invitation[i] # Nil /\ invitation[i].status = "PENDING" /\ i \notin expired

(* findPendingByTenantAndRecipient goes by the stored status alone. *)
(* Variant: what has expired is not looked at. *)
PendingUnexpired(recipient) ==
    {i \in Invitations \ expired : invitation[i] # Nil /\ invitation[i].recipient = recipient
                                     /\ invitation[i].status = "PENDING"}
PendingFor(recipient) ==
    {i \in Invitations : invitation[i] # Nil /\ invitation[i].recipient = recipient
                            /\ invitation[i].status = "PENDING"}
Written == {i \in Invitations : invitation[i] # Nil}

(* users.email is unique. *)
EmailTaken(recipient) == \E u \in Ids : user[u] = recipient

(* Users whose registration ran to its end. *)
Consumed == UNION {admitted[i] : i \in Invitations}

(* An account is deleted only if no row refers to it (ON DELETE RESTRICT of  *)
(* authentication_sessions and password_resets; a row of email_verifications *)
(* is made in a session, so it comes with one).  A user is referred to by    *)
(* sessions alone.                                                           *)
Referenced(u) == u \in session \cup reset

-----------------------------------------------------------------------------
(* Requests *)

May(op) == op \in Ops
CanFail(fault) == fault \in Faults
Idle(p) == pc[p] = "idle"
Goto(p, label) == pc' = [pc EXCEPT ![p] = label]
Holding(p, locals) == loc' = [loc EXCEPT ![p] = locals]
Finish(p) == Goto(p, "idle") /\ Holding(p, NoLocals)

(* A statement fails before it changed anything.  (An answer that is lost    *)
(* after its statement took effect is left out.)                             *)
Fails(p, label) ==
    /\ CanFail("database")
    /\ Goto(p, label)
    /\ UNCHANGED <<tables, loc>>

(* The process dies: what is left is never undone. *)
Crash(p) ==
    /\ CanFail("crash") /\ ~Idle(p)
    /\ broken' = IF pc[p] \in SagaSteps THEN broken \cup {loc[p].id} ELSE broken
    /\ Finish(p)
    /\ UNCHANGED <<tables, expired>>

Expire(i) ==
    /\ invitation[i] # Nil /\ i \notin expired
    /\ expired' = expired \cup {i}
    /\ UNCHANGED <<tables, broken, pc, loc>>

-----------------------------------------------------------------------------
(* Invitations *)

(* CreateInvitationUseCase: the search for a pending one ... *)
InviteFind(p) ==
    /\ Idle(p) /\ May("invite")
    /\ \E recipient \in Recipients :
        /\ PendingFor(recipient) = {}
        /\ Holding(p, [NoLocals EXCEPT !.recipient = recipient, !.known = Written])
    /\ Goto(p, "invite")
    /\ UNCHANGED <<tables, expired, broken>>

(* ... and the insert, whose magic link goes back to the caller. *)
InviteCreate(p) ==
    /\ pc[p] = "invite"
    /\ \E i \in Invitations \ Written :
        invitation' = [invitation EXCEPT ![i] = NewInvitation(loc[p].recipient)]
    /\ Finish(p)
    /\ UNCHANGED <<expired, user, account, session, reset, issued, admitted, broken>>

RevokeFind(p) ==
    /\ Idle(p) /\ May("revoke")
    /\ \E i \in Invitations :
        Open(i) /\ Holding(p, [NoLocals EXCEPT !.invitation = i, !.row = invitation[i]])
    /\ Goto(p, "revoke")
    /\ UNCHANGED <<tables, expired, broken>>

(* InvitationRepository.update writes the whole row, by id. *)
RevokeWrite(p) ==
    /\ pc[p] = "revoke"
    /\ invitation' = [invitation EXCEPT ![loc[p].invitation] = RevokedRow(loc[p].row)]
    /\ Finish(p)
    /\ UNCHANGED <<expired, user, account, session, reset, issued, admitted, broken>>

-----------------------------------------------------------------------------
(* The saga of RegisterUseCase *)

(* invitationApi.validate; the e-mail sent must be the recipient. *)
RegisterValidate(p) ==
    /\ Idle(p) /\ May("register")
    /\ \E i \in Invitations :
        /\ Open(i)
        /\ Holding(p, [NoLocals EXCEPT !.invitation = i,
                                       !.recipient = invitation[i].recipient])
    /\ Goto(p, "createUser")
    /\ UNCHANGED <<tables, expired, broken>>

(* userApi.create: existsByEmail ... *)
CreateUserFind(p) ==
    /\ pc[p] = "createUser"
    /\ IF EmailTaken(loc[p].recipient)
       THEN Finish(p)
       ELSE Goto(p, "insertUser") /\ UNCHANGED loc
    /\ UNCHANGED <<tables, expired, broken>>

(* ... and the insert, which the unique index may refuse. *)
CreateUserInsert(p) ==
    /\ pc[p] = "insertUser"
    /\ \/ /\ ~EmailTaken(loc[p].recipient)
          /\ \E u \in Ids \ issued :
                /\ user' = [user EXCEPT ![u] = loc[p].recipient]
                /\ issued' = issued \cup {u}
                /\ Holding(p, [loc[p] EXCEPT !.id = u])
          /\ Goto(p, "createAccount")
          /\ UNCHANGED <<invitation, account, session, reset, admitted>>
       \/ /\ EmailTaken(loc[p].recipient) \/ CanFail("database")
          /\ Finish(p)
          /\ UNCHANGED tables
    /\ UNCHANGED <<expired, broken>>

(* strategy.register hashes the password; the account is inserted. *)
CreateAccount(p) ==
    /\ pc[p] = "createAccount"
    /\ \/ /\ account' = account \cup {loc[p].id}
          /\ Goto(p, "consume")
          /\ UNCHANGED <<invitation, user, session, reset, issued, admitted, loc>>
       \/ Fails(p, "deleteUser")
    /\ UNCHANGED <<expired, broken>>

(* invitationApi.consume: the invitation is read again ... *)
ConsumeFind(p) ==
    /\ pc[p] = "consume"
    /\ \/ /\ Open(loc[p].invitation)
          /\ Holding(p, [loc[p] EXCEPT !.row = invitation[loc[p].invitation]])
          /\ Goto(p, "use")
          /\ UNCHANGED tables
       \/ /\ ~Open(loc[p].invitation)
          /\ Goto(p, "deleteAccount")
          /\ UNCHANGED <<tables, loc>>
       \/ Fails(p, "deleteAccount")
    /\ UNCHANGED <<expired, broken>>

(* ... and written back as a whole, used. *)
(* Variant: the step goes on after the write, and may still fail. *)
ConsumeAndGoOn(p) ==
    /\ pc[p] = "use"
    /\ invitation' = [invitation EXCEPT ![loc[p].invitation] = Used(loc[p].row)]
    /\ \/ /\ admitted' = [admitted EXCEPT ![loc[p].invitation] = @ \cup {loc[p].id}]
          /\ Finish(p)
       \/ /\ CanFail("database")
          /\ Goto(p, "deleteAccount")
          /\ UNCHANGED <<admitted, loc>>
    /\ UNCHANGED <<user, account, session, reset, issued, expired, broken>>
ConsumeWrite(p) ==
    /\ pc[p] = "use"
    /\ \/ /\ invitation' = [invitation EXCEPT ![loc[p].invitation] = Used(loc[p].row)]
          /\ admitted' = [admitted EXCEPT ![loc[p].invitation] = @ \cup {loc[p].id}]
          /\ Finish(p)
          /\ UNCHANGED <<user, account, session, reset, issued>>
       \/ Fails(p, "deleteAccount")
    /\ UNCHANGED <<expired, broken>>

(* A compensation throws: the orchestrator stops, the rest is never undone. *)
CompensationFails(p) ==
    /\ CanFail("database")
    /\ broken' = broken \cup {loc[p].id}
    /\ Finish(p)
    /\ UNCHANGED tables

(* Compensations.  A session opened or a password reset requested meanwhile  *)
(* refers to the account: the delete throws and the orchestrator stops there.*)
(* Variant: the steps are undone in the order they were done. *)
DeleteAccountLast(p) ==
    /\ pc[p] = "deleteAccount"
    /\ IF loc[p].id \in session
       THEN Finish(p) /\ UNCHANGED <<user, account>>
       ELSE /\ user' = [user EXCEPT ![loc[p].id] = Nil]
            /\ Goto(p, "deleteUser")
            /\ UNCHANGED <<account, loc>>
    /\ UNCHANGED <<invitation, session, reset, issued, admitted, expired, broken>>
DeleteAccount(p) ==
    /\ pc[p] = "deleteAccount"
    /\ \/ /\ ~Referenced(loc[p].id)
          /\ account' = account \ {loc[p].id}
          /\ Goto(p, "deleteUser")
          /\ UNCHANGED <<invitation, user, session, reset, issued, admitted, broken, loc>>
       \/ /\ Referenced(loc[p].id)
          /\ Finish(p)
          /\ UNCHANGED <<tables, broken>>
       \/ CompensationFails(p)
    /\ UNCHANGED expired

(* Variant: the step has no compensation. *)
KeepUser(p) ==
    /\ pc[p] = "deleteUser"
    /\ Finish(p)
    /\ UNCHANGED <<tables, expired, broken>>
DeleteUser(p) ==
    /\ pc[p] = "deleteUser"
    /\ \/ /\ user' = [user EXCEPT ![loc[p].id] = Nil]
          /\ Finish(p)
          /\ UNCHANGED <<invitation, account, session, reset, issued, admitted, broken>>
       \/ CompensationFails(p)
    /\ UNCHANGED expired

-----------------------------------------------------------------------------
(* Login, which asks for an account and a user, not for a consumed invitation. *)

LoginFind(p) ==
    /\ Idle(p) /\ May("login")
    /\ \E u \in account : user[u] # Nil /\ Holding(p, [NoLocals EXCEPT !.id = u])
    /\ Goto(p, "login")
    /\ UNCHANGED <<tables, expired, broken>>

(* The foreign keys of authentication_sessions. *)
References(u) == u \in account /\ user[u] # Nil

LoginCreate(p) ==
    /\ pc[p] = "login"
    /\ session' = IF References(loc[p].id) THEN session \cup {loc[p].id} ELSE session
    /\ Finish(p)
    /\ UNCHANGED <<invitation, user, account, reset, issued, admitted, expired, broken>>

-----------------------------------------------------------------------------
(* RequestPasswordResetUseCase, public, goes by the e-mail of the account.   *)

RequestResetFind(p) ==
    /\ Idle(p) /\ May("reset")
    /\ \E u \in account : Holding(p, [NoLocals EXCEPT !.id = u])
    /\ Goto(p, "reset")
    /\ UNCHANGED <<tables, expired, broken>>

(* The transaction that inserts the row, which the foreign key may refuse. *)
RequestResetCommit(p) ==
    /\ pc[p] = "reset"
    /\ reset' = IF loc[p].id \in account THEN reset \cup {loc[p].id} ELSE reset
    /\ Finish(p)
    /\ UNCHANGED <<invitation, user, account, session, issued, admitted, expired, broken>>

-----------------------------------------------------------------------------
Next ==
    \/ \E p \in Requests :
        \/ InviteFind(p) \/ InviteCreate(p) \/ RevokeFind(p) \/ RevokeWrite(p)
        \/ RegisterValidate(p) \/ CreateUserFind(p) \/ CreateUserInsert(p)
        \/ CreateAccount(p) \/ ConsumeFind(p) \/ ConsumeWrite(p)
        \/ DeleteAccount(p) \/ DeleteUser(p)
        \/ LoginFind(p) \/ LoginCreate(p)
        \/ RequestResetFind(p) \/ RequestResetCommit(p)
        \/ Crash(p)
    \/ \E i \in Invitations : Expire(i)

Spec == Init /\ [][Next]_vars

-----------------------------------------------------------------------------
(* Properties *)

(* Users whose registration is still in progress. *)
Registering == {loc[p].id : p \in {q \in Requests : pc[q] \in SagaSteps}}

(* Nothing in the database ties an account to its user, only the order of    *)
(* the saga's steps and of their compensations does: no account, and nothing *)
(* that refers to one, is ever without its user, whichever statement is      *)
(* refused, whoever logs in and whoever asks for a new password.             *)
AccountsHaveUsers ==
    /\ \A u \in account : user[u] # Nil
    /\ session \cup reset \subseteq account

(* An invitation is spent only on a member: when one is USED its recipient   *)
(* has a user and an account, and nobody lost the invitation to a            *)
(* registration that was undone.  And it is spent on one (Invitation.md 4.3),*)
(* although nothing in consume keeps two sagas that both found it PENDING    *)
(* from both using it: only the unique e-mail of users does, as a member's   *)
(* user is never deleted.                                                    *)
UsedInvitationAdmits ==
    \A i \in Invitations :
        /\ invitation[i] # Nil /\ invitation[i].status = "USED" =>
               \E u \in account : user[u] = invitation[i].recipient
        /\ \A u, v \in admitted[i] : u = v

(* A registration that is over left a member who consumed the invitation, or *)
(* nothing, with these exceptions: the process died on the way, the database *)
(* refused a compensation for no reason of the rows, or the compensation met *)
(* a session or a password reset of the new account, opened in between.      *)
LeftoversExplained ==
    \A u \in Ids \ Registering :
        user[u] # Nil => \/ u \in Consumed /\ u \in account
                         \/ u \in broken
                         \/ u \in session \cup reset

(* The requests that hold invitation i, which they found PENDING, to write it *)
(* back.                                                                      *)
Holders(i) == {p \in Requests : pc[p] \in {"use", "revoke"} /\ loc[p].invitation = i}
Closed(i) == invitation[i] # Nil /\ invitation[i].status # "PENDING"

(* Consume and revoke both write back, by id alone, a row they read as        *)
(* PENDING, so that a REVOKED invitation may turn USED and a USED one         *)
(* REVOKED, which Invitation.md rules out.  What remains true: a closed       *)
(* invitation is never PENDING again, and is changed only by requests that    *)
(* held it already when it was closed; no request comes to hold it            *)
(* afterwards, and each change costs one of those that did.                   *)
ClosedChangesOnlyByOverlap ==
    [][ \A i \in Invitations : Closed(i) =>
            /\ Closed(i)'
            /\ Holders(i)' \subseteq Holders(i)
            /\ invitation'[i] # invitation[i] => Holders(i)' # Holders(i) ]_vars

(* A recipient gets a second pending invitation only from a request that     *)
(* looked for one before the first was written: once a pending invitation is *)
(* stored, no later request adds another.                                    *)
SecondInvitationOnlyByOverlap ==
    [][ \A i \in Invitations :
            invitation[i] = Nil /\ invitation'[i] # Nil =>
                \E p \in Requests : /\ pc[p] = "invite" /\ pc'[p] = "idle"
                                    /\ \A j \in loc[p].known :
                                         invitation[j] # NewInvitation(loc[p].recipient) ]_vars
=============================================================================
