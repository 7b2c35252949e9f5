--------------------------- MODULE Authentication ---------------------------
(***************************************************************************)
(* The credentials of the platform: authentication accounts, the sessions  *)
(* opened on them, and the two one-time links mailed to their owners       *)
(* (password reset and e-mail verification), all rows of PostgreSQL.       *)
(*                                                                         *)
(* A request is an asynchronous handler.  The repositories of this context *)
(* write whole rows by id, without a version column, so what matters is    *)
(* which rows a request read before which of its awaits: there is one      *)
(* action per await on shared state.  A path that ends in an exception     *)
(* before it changed anything is left out, or is Abort when the request    *)
(* already holds rows it read.  A transaction is one action, at its        *)
(* commit, unless its own statements read what another one may insert      *)
(* meanwhile (the two requests for a link, which are split).               *)
(*                                                                         *)
(* The clock is left out: an expires_at that has passed makes requests end *)
(* in exceptions, so a behaviour with expiries is one of this module       *)
(* without those requests.  (A session expires 15 minutes after its login, *)
(* and RefreshTokenUseCase keeps that moment when it renews.)              *)
(***************************************************************************)
EXTENDS Naturals, FiniteSets

CONSTANTS
    Accounts,       \* registered accounts, one per user
    Admins,         \* accounts whose user is a PLATFORM_ADMIN
    Sessions,       \* identifiers the IdGenerator may hand out
    Tokens,         \* refresh tokens, told apart by their SHA-256
    Passwords,      \* passwords, told apart by bcrypt.compare
    FirstPassword,  \* the password every account was registered with
    Resets,         \* identifiers (and tokens) of password resets
    Verifications,  \* identifiers (and tokens) of e-mail verifications
    Requests,       \* HTTP requests being served
    Ops,            \* the use cases that run in this instance
    Nil             \* absent row or local

AllOps == {"login", "refresh", "logout", "revoke", "revokeAll", "requestReset",
           "reset", "requestVerification", "verify"}

ASSUME KnownOps == Ops \subseteq AllOps
ASSUME AdminsAreAccounts == Admins \subseteq Accounts
ASSUME FirstIsPassword == FirstPassword \in Passwords
ASSUME TablesAreDisjoint == /\ Sessions \cap Resets = {} /\ Sessions \cap Verifications = {}
                            /\ Resets \cap Verifications = {}

VARIABLES
    account,       \* table authentication_accounts
    session,       \* table authentication_sessions: row of each identifier, or Nil
    reset,         \* table password_resets
    verification,  \* table email_verifications
    mailed,        \* the links whose e-mail has been handed to Notifications
    retired,       \* refresh tokens that some write has replaced (history)
    pc,            \* where each request stands
    loc            \* the locals of each request: the rows it has read

vars == <<account, session, reset, verification, mailed, retired, pc, loc>>
tables == <<account, session, reset, verification, mailed, retired>>

-----------------------------------------------------------------------------
(* Types *)

AccountRow == [password : Passwords, verified : BOOLEAN]
SessionRow == [account : Accounts, token : Tokens, revoked : BOOLEAN]

(* A one-time link.  used is used_at or verified_at; cut says expires_at was *)
(* brought forward to the moment a newer link was asked for.                 *)
Link == [account : Accounts, used : BOOLEAN, cut : BOOLEAN]
Links == Resets \cup Verifications

(* Nil is no row, and no identifier either. *)
ASSUME NilIsFresh == Nil \notin Accounts \cup Sessions \cup Links
                                    \cup AccountRow \cup SessionRow \cup Link

Local == [actor : Accounts \cup {Nil}, own : Sessions \cup {Nil},
          session : Sessions \cup {Nil}, sessionRow : SessionRow \cup {Nil},
          link : Links \cup {Nil}, linkRow : Link \cup {Nil},
          account : Accounts \cup {Nil}, accountRow : AccountRow \cup {Nil},
          pending : SUBSET Links]
NoLocals == [actor |-> Nil, own |-> Nil, session |-> Nil, sessionRow |-> Nil,
             link |-> Nil, linkRow |-> Nil, account |-> Nil, accountRow |-> Nil,
             pending |-> {}]

Labels == {"idle", "authenticated", "opening", "renewing", "revoking", "revokingAll",
           "requestReset", "resetAccount", "resetting", "requestVerification",
           "verifyAccount", "verifying", "mail"}

TypeOK ==
    /\ account \in [Accounts -> AccountRow]
    /\ session \in [Sessions -> SessionRow \cup {Nil}]
    /\ reset \in [Resets -> Link \cup {Nil}]
    /\ verification \in [Verifications -> Link \cup {Nil}]
    /\ mailed \subseteq Links
    /\ retired \subseteq Tokens
    /\ pc \in [Requests -> Labels]
    /\ loc \in [Requests -> Local]

Init ==
    /\ account = [a \in Accounts |-> [password |-> FirstPassword, verified |-> FALSE]]
    /\ session = [s \in Sessions |-> Nil]
    /\ reset = [r \in Resets |-> Nil]
    /\ verification = [v \in Verifications |-> Nil]
    /\ mailed = {} /\ retired = {}
    /\ pc = [p \in Requests |-> "idle"]
    /\ loc = [p \in Requests |-> NoLocals]

-----------------------------------------------------------------------------
(* The entities: one operator per method *)

(* AuthenticationSession.canBeRenewed, of the copy in memory. *)
CanBeRenewed(row) == ~row.revoked
Opened(a, t) == [account |-> a, token |-> t, revoked |-> FALSE]
Renewed(row, t) == [row EXCEPT !.token = t]
(* Variant: revoked_at is not set. *)
Touched(row) == row
Revoked(row) == [row EXCEPT !.revoked = TRUE]

(* PasswordReset.canBeUsed, EmailVerification.canBeCompleted, likewise. *)
(* Variant: the expiry alone decides. *)
UnexpiredLink(row) == ~row.cut
Usable(row) == ~row.used /\ ~row.cut
(* Variant: the expiry is left unset. *)
LinkWithoutEnd(a) == [account |-> a, used |-> FALSE]
NewLink(a) == [account |-> a, used |-> FALSE, cut |-> FALSE]
Spent(row) == [row EXCEPT !.used = TRUE]

(* AuthenticationAccount.update, verifyEmail *)
WithPassword(row, password) == [row EXCEPT !.password = password]
VerifiedAccount(row) == [row EXCEPT !.verified = TRUE]

-----------------------------------------------------------------------------
(* The repositories *)

(* PrismaService adds "ownerId = current user" to what a request reads and    *)
(* writes in authentication_sessions, except for a platform administrator     *)
(* and for routes without a user.                                             *)
(* Variant: no ownership filter. *)
AnyoneSees(actor, row) == row # Nil
OwnerSees(actor, row) == row # Nil /\ (actor \in Admins \cup {Nil} \/ row.account = actor)

(* AuthenticationSessionRepository.update: the whole row, by id. *)
Save(s, row) ==
    /\ session' = [session EXCEPT ![s] = row]
    /\ retired' = retired \cup ({session[s].token} \ {row.token})

(* invalidateByAccount, revokeAllExcept: one updateMany over unrevoked rows. *)
(* Variant: the kept session is written as well, as not revoked. *)
RestoreKept(a, kept) ==
    [s \in Sessions |-> IF session[s] = Nil \/ session[s].account # a THEN session[s]
                        ELSE [session[s] EXCEPT !.revoked = s # kept]]
RevokedExcept(a, kept) ==
    [s \in Sessions |-> IF session[s] # Nil /\ session[s].account = a /\ s # kept
                        THEN Revoked(session[s]) ELSE session[s]]

(* Refresh tokens are random and were never seen before. *)
FreshTokens ==
    Tokens \ (retired \cup {session[s].token : s \in {x \in Sessions : session[x] # Nil}})

(* invalidatePendingByAccount: updateMany WHERE used_at IS NULL.  found are   *)
(* the rows its snapshot held; each is written if it is still unused.         *)
PendingOf(table, a) == {i \in DOMAIN table : table[i] # Nil /\ table[i].account = a
                                                /\ ~table[i].used}
CutPending(table, found) ==
    [i \in DOMAIN table |-> IF i \in found /\ ~table[i].used
                            THEN [table[i] EXCEPT !.cut = TRUE] ELSE table[i]]
Unissued(table) == {i \in DOMAIN table : table[i] = Nil}

-----------------------------------------------------------------------------
(* Requests *)

May(op) == op \in Ops
Idle(p) == pc[p] = "idle"
Goto(p, label) == pc' = [pc EXCEPT ![p] = label]
Holding(p, locals) == loc' = [loc EXCEPT ![p] = locals]
Finish(p) == Goto(p, "idle") /\ Holding(p, NoLocals)

(* AuthenticationGuard: the JWT names the session, SessionValidator.resolve   *)
(* finds it neither revoked nor expired.                                      *)
Resolve(s) == session[s] # Nil /\ ~session[s].revoked

Authenticate(p) ==
    /\ Idle(p)
    /\ \E s \in Sessions :
        /\ Resolve(s)
        /\ Holding(p, [NoLocals EXCEPT !.actor = session[s].account, !.own = s])
    /\ Goto(p, "authenticated")
    /\ UNCHANGED tables

(* The user, the role or the tenant cannot be read, or the process dies. *)
Abort(p) == ~Idle(p) /\ Finish(p) /\ UNCHANGED tables

-----------------------------------------------------------------------------
(* Login and refresh *)

(* findByEmail and EmailPasswordStrategy.authenticate: the password sent is   *)
(* the one whose hash the row read holds.                                     *)
LoginFind(p) ==
    /\ Idle(p) /\ May("login")
    /\ \E a \in Accounts :
        Holding(p, [NoLocals EXCEPT !.account = a])
    /\ Goto(p, "opening")
    /\ UNCHANGED tables

LoginCreate(p) ==
    /\ pc[p] = "opening"
    /\ \E s \in Unissued(session), t \in FreshTokens :
        session' = [session EXCEPT ![s] = Opened(loc[p].account, t)]
    /\ Finish(p)
    /\ UNCHANGED <<account, reset, verification, mailed, retired>>

(* findByRefreshTokenHash and the checks; the account, the user and the role  *)
(* are read before the row is written back.                                   *)
RefreshFind(p) ==
    /\ Idle(p) /\ May("refresh")
    /\ \E s \in Sessions :
        /\ session[s] # Nil /\ CanBeRenewed(session[s])
        /\ Holding(p, [NoLocals EXCEPT !.session = s, !.sessionRow = session[s]])
    /\ Goto(p, "renewing")
    /\ UNCHANGED tables

RefreshWrite(p) ==
    LET s == loc[p].session
        row == loc[p].sessionRow
    IN  /\ pc[p] = "renewing"
        /\ CanBeRenewed(row)
        /\ \E t \in FreshTokens : Save(s, Renewed(row, t))
        /\ Finish(p)
        /\ UNCHANGED <<account, reset, verification, mailed>>

-----------------------------------------------------------------------------
(* Logout and revocation *)

(* LogoutUseCase finds the session by its refresh token, RevokeSessionUseCase *)
(* by its id: an unrevoked session the requester may see, in both.            *)
RevokeFind(p) ==
    /\ pc[p] = "authenticated" /\ (May("logout") \/ May("revoke"))
    /\ \E s \in Sessions :
        /\ OwnerSees(loc[p].actor, session[s]) /\ ~session[s].revoked
        /\ Holding(p, [NoLocals EXCEPT !.actor = loc[p].actor,
                                       !.session = s, !.sessionRow = session[s]])
    /\ Goto(p, "revoking")
    /\ UNCHANGED tables

RevokeWrite(p) ==
    /\ pc[p] = "revoking"
    /\ Save(loc[p].session, Revoked(loc[p].sessionRow))
    /\ Finish(p)
    /\ UNCHANGED <<account, reset, verification, mailed>>

RevokeAllFind(p) ==
    /\ pc[p] = "authenticated" /\ May("revokeAll")
    /\ Holding(p, [loc[p] EXCEPT !.account = loc[p].actor])
    /\ Goto(p, "revokingAll")
    /\ UNCHANGED tables

RevokeAllExcept(p) ==
    /\ pc[p] = "revokingAll"
    /\ session' = RevokedExcept(loc[p].account, loc[p].own)
    /\ Finish(p)
    /\ UNCHANGED <<account, reset, verification, mailed, retired>>

-----------------------------------------------------------------------------
(* Password reset *)

(* The transaction's updateMany sees the links committed by now ... *)
RequestReset(p) ==
    /\ Idle(p) /\ May("requestReset")
    /\ \E a \in Accounts :
        Holding(p, [NoLocals EXCEPT !.account = a, !.pending = PendingOf(reset, a)])
    /\ Goto(p, "requestReset")
    /\ UNCHANGED tables

(* ... and commits with the new one. *)
CommitReset(p) ==
    /\ pc[p] = "requestReset"
    /\ \E r \in Unissued(reset) :
        /\ reset' = [CutPending(reset, loc[p].pending) EXCEPT ![r] = NewLink(loc[p].account)]
        /\ Holding(p, [NoLocals EXCEPT !.link = r])
    /\ Goto(p, "mail")
    /\ UNCHANGED <<account, session, verification, mailed, retired>>

(* notificationApi.send, after the commit: nothing sends it again if it fails. *)
SendLink(p) ==
    /\ pc[p] = "mail"
    /\ mailed' = mailed \cup {loc[p].link}
    /\ Finish(p)
    /\ UNCHANGED <<account, session, reset, verification, retired>>

ResetFind(p) ==
    /\ Idle(p) /\ May("reset")
    /\ \E r \in Resets \cap mailed :
        /\ Usable(reset[r])
        /\ Holding(p, [NoLocals EXCEPT !.link = r, !.linkRow = reset[r]])
    /\ Goto(p, "resetAccount")
    /\ UNCHANGED tables

ResetReadAccount(p) ==
    LET a == loc[p].linkRow.account
    IN  /\ pc[p] = "resetAccount"
        /\ Holding(p, [loc[p] EXCEPT !.account = a, !.accountRow = account[a]])
        /\ Goto(p, "resetting")
        /\ UNCHANGED tables

(* The transaction: the link, the account and its sessions. *)
ResetWrite(p) ==
    LET r == loc[p].link
        a == loc[p].account
    IN  /\ pc[p] = "resetting"
        /\ Usable(loc[p].linkRow)
        /\ reset' = [reset EXCEPT ![r] = Spent(loc[p].linkRow)]
        /\ \E password \in Passwords :
            account' = [account EXCEPT ![a] = WithPassword(loc[p].accountRow, password)]
        /\ session' = RevokedExcept(a, Nil)
        /\ Finish(p)
        /\ UNCHANGED <<verification, mailed, retired>>

-----------------------------------------------------------------------------
(* E-mail verification *)

RequestVerification(p) ==
    LET a == loc[p].actor
    IN  /\ pc[p] = "authenticated" /\ May("requestVerification")
        /\ ~account[a].verified
        /\ Holding(p, [NoLocals EXCEPT !.account = a, !.pending = PendingOf(verification, a)])
        /\ Goto(p, "requestVerification")
        /\ UNCHANGED tables

CommitVerification(p) ==
    /\ pc[p] = "requestVerification"
    /\ \E v \in Unissued(verification) :
        /\ verification' = [CutPending(verification, loc[p].pending)
                                EXCEPT ![v] = NewLink(loc[p].account)]
        /\ Holding(p, [NoLocals EXCEPT !.link = v])
    /\ Goto(p, "mail")
    /\ UNCHANGED <<account, session, reset, mailed, retired>>

VerifyFind(p) ==
    /\ Idle(p) /\ May("verify")
    /\ \E v \in Verifications \cap mailed :
        /\ Usable(verification[v])
        /\ Holding(p, [NoLocals EXCEPT !.link = v, !.linkRow = verification[v]])
    /\ Goto(p, "verifyAccount")
    /\ UNCHANGED tables

VerifyReadAccount(p) ==
    LET a == loc[p].linkRow.account
    IN  /\ pc[p] = "verifyAccount"
        /\ ~account[a].verified
        /\ Holding(p, [loc[p] EXCEPT !.account = a, !.accountRow = account[a]])
        /\ Goto(p, "verifying")
        /\ UNCHANGED tables

(* The transaction: the link and the whole row of the account. *)
(* Variant: the account's row is written, the link's is not. *)
VerifyWithoutLink(p) ==
    /\ pc[p] = "verifying"
    /\ Usable(loc[p].linkRow)
    /\ account' = [account EXCEPT ![loc[p].account] = VerifiedAccount(loc[p].accountRow)]
    /\ Finish(p)
    /\ UNCHANGED <<session, reset, verification, mailed, retired>>
VerifyWrite(p) ==
    LET v == loc[p].link
        a == loc[p].account
    IN  /\ pc[p] = "verifying"
        /\ Usable(loc[p].linkRow)
        /\ verification' = [verification EXCEPT ![v] = Spent(loc[p].linkRow)]
        /\ account' = [account EXCEPT ![a] = VerifiedAccount(loc[p].accountRow)]
        /\ Finish(p)
        /\ UNCHANGED <<session, reset, mailed, retired>>

-----------------------------------------------------------------------------
Next ==
    \E p \in Requests :
        \/ Authenticate(p) \/ Abort(p)
        \/ LoginFind(p) \/ LoginCreate(p)
        \/ RefreshFind(p) \/ RefreshWrite(p)
        \/ RevokeFind(p) \/ RevokeWrite(p)
        \/ RevokeAllFind(p) \/ RevokeAllExcept(p)
        \/ RequestReset(p) \/ CommitReset(p) \/ SendLink(p)
        \/ ResetFind(p) \/ ResetReadAccount(p) \/ ResetWrite(p)
        \/ RequestVerification(p) \/ CommitVerification(p)
        \/ VerifyFind(p) \/ VerifyReadAccount(p) \/ VerifyWrite(p)

Spec == Init /\ [][Next]_vars

-----------------------------------------------------------------------------
(* Properties *)

(* Token rotation: whatever refreshes, logouts and revocations of one session *)
(* overlap, the token of a session that can still be renewed was never        *)
(* replaced before: a token somebody has already exchanged opens nothing.     *)
RotatedTokenIsDead ==
    \A s \in Sessions : session[s] # Nil /\ ~session[s].revoked => session[s].token \notin retired

(* A mailed link that was used or superseded by a newer one is never usable   *)
(* again, although the late write of a request that read it       *)
(* before restores its expires_at.                                             *)
DeadLink(table, i) == table[i] # Nil /\ ~Usable(table[i])
SpentLinksStaySpent ==
    [][ /\ \A r \in Resets : DeadLink(reset, r) => DeadLink(reset, r)'
        /\ \A v \in Verifications : DeadLink(verification, v) => DeadLink(verification, v)' ]_vars

(* An account is only ever verified through a link mailed to its owner: a     *)
(* completed verification of that very account exists, and was mailed.        *)
VerifiedHasProof ==
    \A a \in Accounts : account[a].verified =>
        \E v \in Verifications \cap mailed :
            verification[v].account = a /\ verification[v].used

(* The ways a revoked session comes back: one, a refresh that was under way   *)
(* when the session was revoked.  No other write revives it, so once the      *)
(* refreshes that overlapped a revocation are over, it is final.              *)
RevivedOnlyByOverlappingRefresh ==
    [][ \A s \in Sessions :
            session[s] # Nil /\ session[s].revoked /\ ~session'[s].revoked =>
                \E p \in Requests : /\ pc[p] = "renewing" /\ pc'[p] = "idle"
                                    /\ loc[p].session = s /\ ~loc[p].sessionRow.revoked ]_vars

(* A session is ended by its owner, by a platform administrator, or by the    *)
(* reset of its owner's password; another user's requests never end it, even  *)
(* with rows read long before.                                                *)
EndedByItsOwner ==
    [][ \A s \in Sessions :
            session[s] # Nil /\ ~session[s].revoked /\ session'[s].revoked =>
                \E p \in Requests :
                    /\ pc[p] \in {"revoking", "revokingAll", "resetting"} /\ pc'[p] = "idle"
                    /\ session[s].account \in {loc[p].actor, loc[p].account}
                        \/ loc[p].actor \in Admins ]_vars

(* authentication-session.md: a revoked session cannot be used to renew the   *)
(* access.  Violated: RefreshWrite writes back a row read before.             *)
RevocationIsFinal ==
    [][ \A s \in Sessions : session[s] # Nil /\ session[s].revoked => session'[s].revoked ]_vars
=============================================================================
