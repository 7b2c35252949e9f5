------------------------ MODULE AuthenticationProofs ------------------------
(* Theorems about Authentication, for every value of its constants. *)
EXTENDS Authentication, TLAPS

-----------------------------------------------------------------------------
(* The inductive invariant *)

LinkRow(l) == IF l \in Resets THEN reset[l] ELSE verification[l]

(* A link is mailed after its row was committed. *)
MailedLinksExist == \A l \in mailed : LinkRow(l) # Nil

(* A completed verification of the account, which was mailed. *)
Proven(a) ==
    \E v \in Verifications \cap mailed :
        verification[v].account = a /\ verification[v].used

(* What a request knows of the rows it has read, by where it stands. *)
HoldsSession(p) == pc[p] \in {"renewing", "revoking"}
UserKnows(p) ==
    /\ pc[p] \in {"authenticated", "revoking", "revokingAll"} => loc[p].actor \in Accounts
    /\ pc[p] \in {"opening", "revokingAll", "requestReset", "requestVerification"} =>
            loc[p].account \in Accounts
SessionKnown(p) ==
    /\ HoldsSession(p) =>
            /\ loc[p].session \in Sessions /\ loc[p].sessionRow \in SessionRow
            /\ session[loc[p].session] # Nil
            /\ session[loc[p].session].account = loc[p].sessionRow.account
            /\ ~loc[p].sessionRow.revoked
    /\ pc[p] = "revoking" =>
            loc[p].actor \in Admins \/ loc[p].sessionRow.account = loc[p].actor
PendingKnown(p) ==
    /\ pc[p] = "requestReset" => \A r \in loc[p].pending : r \in Resets /\ reset[r] # Nil
    /\ pc[p] = "requestVerification" =>
            \A v \in loc[p].pending : v \in Verifications /\ verification[v] # Nil
    /\ pc[p] = "mail" => loc[p].link \in Links /\ LinkRow(loc[p].link) # Nil
ResetKnown(p) ==
    /\ pc[p] \in {"resetAccount", "resetting"} =>
            /\ loc[p].link \in Resets /\ loc[p].linkRow \in Link
            /\ reset[loc[p].link] # Nil
            /\ reset[loc[p].link].account = loc[p].linkRow.account
    /\ pc[p] = "resetting" =>
            /\ loc[p].account \in Accounts /\ loc[p].accountRow \in AccountRow
            /\ loc[p].accountRow.verified => Proven(loc[p].account)
VerificationKnown(p) ==
    /\ pc[p] \in {"verifyAccount", "verifying"} =>
            /\ loc[p].link \in Verifications \cap mailed /\ loc[p].linkRow \in Link
            /\ verification[loc[p].link] # Nil
            /\ verification[loc[p].link].account = loc[p].linkRow.account
    /\ pc[p] = "verifying" =>
            /\ loc[p].account = loc[p].linkRow.account
            /\ loc[p].accountRow \in AccountRow
Knows(p) ==
    /\ UserKnows(p) /\ SessionKnown(p) /\ PendingKnown(p)
    /\ ResetKnown(p) /\ VerificationKnown(p)

(* The tokens a session bears: the one in its row, and those in the copies   *)
(* of the row that requests still hold and may write back.                   *)
Bears(s, t) ==
    \/ session[s] # Nil /\ session[s].token = t
    \/ \E p \in Requests :
            HoldsSession(p) /\ loc[p].session = s /\ loc[p].sessionRow.token = t

(* No token is borne by two sessions, and one that is no longer in the row   *)
(* is retired: no token handed out later equals it.                          *)
OneBearer == \A s, u \in Sessions, t \in Tokens : Bears(s, t) /\ Bears(u, t) => s = u
BornTokens ==
    \A s \in Sessions, t \in Tokens :
        Bears(s, t) => t \in retired \/ (session[s] # Nil /\ session[s].token = t)

Inv ==
    /\ TypeOK /\ MailedLinksExist /\ OneBearer /\ BornTokens
    /\ RotatedTokenIsDead /\ VerifiedHasProof
    /\ \A p \in Requests : Knows(p)
-----------------------------------------------------------------------------
(* Types *)

(* The locals of a request that is not being served. *)
LEMMA NoLocalsType == NoLocals \in Local
  BY DEF NoLocals, Local

(* What the updateMany over sessions writes are rows of that table. *)
LEMMA RevokedExceptType ==
    ASSUME TypeOK, NEW a, NEW kept
    PROVE  RevokedExcept(a, kept) \in [Sessions -> SessionRow \cup {Nil}]
  BY DEF RevokedExcept, Revoked, SessionRow, TypeOK
(* Likewise for the links that are superseded. *)
LEMMA CutPendingType ==
    ASSUME NEW S, NEW table \in [S -> Link \cup {Nil}],
           NEW found, \A i \in found : i \in S /\ table[i] # Nil
    PROVE  CutPending(table, found) \in [S -> Link \cup {Nil}]
  BY DEF CutPending, Link

(* A save of a session that exists, with a well-formed row. *)
LEMMA SaveType ==
    ASSUME TypeOK, NEW s \in Sessions, NEW row \in SessionRow, session[s] # Nil, Save(s, row)
    PROVE  /\ session' \in [Sessions -> SessionRow \cup {Nil}]
           /\ retired' \subseteq Tokens
  BY DEF Save, SessionRow, TypeOK

(* Every step keeps the types of the rows and of the locals; what a request  *)
(* knows of its locals is what makes the rows it writes well-formed.         *)
LEMMA TypeStep ==
    ASSUME Inv, Next
    PROVE  TypeOK'
<1> USE DEF TypeOK, tables, Labels, Finish
<1>1. ASSUME NEW p \in Requests, Authenticate(p) PROVE TypeOK'
  <2>1. PICK s \in Sessions :
            /\ session[s] # Nil
            /\ Holding(p, [NoLocals EXCEPT !.actor = session[s].account, !.own = s])
    BY <1>1 DEF Authenticate, Resolve
  <2>2. [NoLocals EXCEPT !.actor = session[s].account, !.own = s] \in Local
    BY <2>1 DEF Local, NoLocals, SessionRow, Inv
  <2> QED
    BY <1>1, <2>1, <2>2 DEF Authenticate, Inv, Goto, Holding
<1>2. ASSUME NEW p \in Requests, Abort(p) PROVE TypeOK'
  BY <1>2, NoLocalsType DEF Abort, Inv, Goto, Holding
<1>3. ASSUME NEW p \in Requests, LoginFind(p) PROVE TypeOK'
  <2>1. \A a \in Accounts : [NoLocals EXCEPT !.account = a] \in Local
    BY DEF Local, NoLocals
  <2> QED
    BY <1>3, <2>1 DEF LoginFind, Inv, Goto, Holding
<1>4. ASSUME NEW p \in Requests, LoginCreate(p) PROVE TypeOK'
  <2>1. PICK s \in Sessions, t \in Tokens :
            session' = [session EXCEPT ![s] = Opened(loc[p].account, t)]
    BY <1>4 DEF LoginCreate, Unissued, FreshTokens, Inv
  <2>2. Opened(loc[p].account, t) \in SessionRow
    BY <1>4 DEF LoginCreate, Opened, SessionRow, Inv, Knows, UserKnows
  <2> QED
    BY <1>4, <2>1, <2>2, NoLocalsType DEF LoginCreate, Inv, Goto, Holding
<1>5. ASSUME NEW p \in Requests, RefreshFind(p) PROVE TypeOK'
  <2>1. \A s \in Sessions : [NoLocals EXCEPT !.session = s, !.sessionRow = session[s]] \in Local
    BY DEF Local, NoLocals, Inv
  <2> QED
    BY <1>5, <2>1 DEF RefreshFind, Inv, Goto, Holding
<1>6. ASSUME NEW p \in Requests, RefreshWrite(p) PROVE TypeOK'
  <2>1. PICK t \in Tokens : Save(loc[p].session, Renewed(loc[p].sessionRow, t))
    BY <1>6 DEF RefreshWrite, FreshTokens
  <2>2. /\ Renewed(loc[p].sessionRow, t) \in SessionRow
        /\ loc[p].session \in Sessions /\ session[loc[p].session] # Nil
    BY <1>6 DEF RefreshWrite, Renewed, SessionRow, Inv, Knows, SessionKnown, HoldsSession
  <2> QED
    BY <1>6, <2>1, <2>2, SaveType, NoLocalsType DEF RefreshWrite, Inv, Goto, Holding
<1>7. ASSUME NEW p \in Requests, RevokeFind(p) PROVE TypeOK'
  <2>1. \A s \in Sessions : [NoLocals EXCEPT !.actor = loc[p].actor, !.session = s,
                                             !.sessionRow = session[s]] \in Local
    BY DEF Local, NoLocals, Inv
  <2> QED
    BY <1>7, <2>1 DEF RevokeFind, Inv, Goto, Holding
<1>8. ASSUME NEW p \in Requests, RevokeWrite(p) PROVE TypeOK'
  <2>1. /\ Revoked(loc[p].sessionRow) \in SessionRow
        /\ loc[p].session \in Sessions /\ session[loc[p].session] # Nil
    BY <1>8 DEF RevokeWrite, Revoked, SessionRow, Inv, Knows, SessionKnown, HoldsSession
  <2> QED
    BY <1>8, <2>1, SaveType, NoLocalsType DEF RevokeWrite, Inv, Goto, Holding
<1>9. ASSUME NEW p \in Requests, RevokeAllFind(p) PROVE TypeOK'
  <2>1. [loc[p] EXCEPT !.account = loc[p].actor] \in Local
    BY DEF Local, Inv
  <2> QED
    BY <1>9, <2>1 DEF RevokeAllFind, Inv, Goto, Holding
<1>10. ASSUME NEW p \in Requests, RevokeAllExcept(p) PROVE TypeOK'
  BY <1>10, RevokedExceptType, NoLocalsType DEF RevokeAllExcept, Inv, Goto, Holding
<1>11. ASSUME NEW p \in Requests, RequestReset(p) PROVE TypeOK'
  <2>1. \A a \in Accounts :
            [NoLocals EXCEPT !.account = a, !.pending = PendingOf(reset, a)] \in Local
    BY DEF Local, NoLocals, PendingOf, Links, Inv
  <2> QED
    BY <1>11, <2>1 DEF RequestReset, Inv, Goto, Holding
<1>12. ASSUME NEW p \in Requests, CommitReset(p) PROVE TypeOK'
  <2>1. PICK r \in Resets :
            /\ reset' = [CutPending(reset, loc[p].pending) EXCEPT ![r] = NewLink(loc[p].account)]
            /\ Holding(p, [NoLocals EXCEPT !.link = r])
    BY <1>12 DEF CommitReset, Unissued, Inv
  <2>2. CutPending(reset, loc[p].pending) \in [Resets -> Link \cup {Nil}]
    BY <1>12, CutPendingType DEF CommitReset, Inv, Knows, PendingKnown
  <2>3. NewLink(loc[p].account) \in Link
    BY <1>12 DEF CommitReset, NewLink, Link, Inv, Knows, UserKnows
  <2>4. [NoLocals EXCEPT !.link = r] \in Local
    BY DEF Local, NoLocals, Links
  <2> QED
    BY <1>12, <2>1, <2>2, <2>3, <2>4 DEF CommitReset, Inv, Goto, Holding
<1>13. ASSUME NEW p \in Requests, SendLink(p) PROVE TypeOK'
  BY <1>13, NoLocalsType DEF SendLink, Inv, Knows, PendingKnown, Goto, Holding
<1>14. ASSUME NEW p \in Requests, ResetFind(p) PROVE TypeOK'
  <2>1. \A r \in Resets : [NoLocals EXCEPT !.link = r, !.linkRow = reset[r]] \in Local
    BY DEF Local, NoLocals, Links, Inv
  <2> QED
    BY <1>14, <2>1 DEF ResetFind, Inv, Goto, Holding
<1>15. ASSUME NEW p \in Requests, ResetReadAccount(p) PROVE TypeOK'
  <2>1. loc[p].linkRow.account \in Accounts
    BY <1>15 DEF ResetReadAccount, Link, Inv, Knows, ResetKnown
  <2>2. [loc[p] EXCEPT !.account = loc[p].linkRow.account,
                       !.accountRow = account[loc[p].linkRow.account]] \in Local
    BY <2>1 DEF Local, Inv
  <2> QED
    BY <1>15, <2>2 DEF ResetReadAccount, Inv, Goto, Holding
<1>16. ASSUME NEW p \in Requests, ResetWrite(p) PROVE TypeOK'
  <2>1. /\ loc[p].link \in Resets /\ Spent(loc[p].linkRow) \in Link
        /\ loc[p].account \in Accounts
        /\ \A password \in Passwords : WithPassword(loc[p].accountRow, password) \in AccountRow
    BY <1>16 DEF ResetWrite, Spent, Link, WithPassword, AccountRow, Inv, Knows, ResetKnown
  <2>2. RevokedExcept(loc[p].account, Nil) \in [Sessions -> SessionRow \cup {Nil}]
    BY RevokedExceptType DEF Inv
  <2> QED
    BY <1>16, <2>1, <2>2, NoLocalsType DEF ResetWrite, Inv, Goto, Holding
<1>17. ASSUME NEW p \in Requests, RequestVerification(p) PROVE TypeOK'
  <2>1. loc[p].actor \in Accounts
    BY <1>17 DEF RequestVerification, Inv, Knows, UserKnows
  <2>2. [NoLocals EXCEPT !.account = loc[p].actor,
                         !.pending = PendingOf(verification, loc[p].actor)] \in Local
    BY <2>1 DEF Local, NoLocals, PendingOf, Links, Inv
  <2> QED
    BY <1>17, <2>2 DEF RequestVerification, Inv, Goto, Holding
<1>18. ASSUME NEW p \in Requests, CommitVerification(p) PROVE TypeOK'
  <2>1. PICK v \in Verifications :
            /\ verification' = [CutPending(verification, loc[p].pending)
                                    EXCEPT ![v] = NewLink(loc[p].account)]
            /\ Holding(p, [NoLocals EXCEPT !.link = v])
    BY <1>18 DEF CommitVerification, Unissued, Inv
  <2>2. CutPending(verification, loc[p].pending) \in [Verifications -> Link \cup {Nil}]
    BY <1>18, CutPendingType DEF CommitVerification, Inv, Knows, PendingKnown
  <2>3. NewLink(loc[p].account) \in Link
    BY <1>18 DEF CommitVerification, NewLink, Link, Inv, Knows, UserKnows
  <2>4. [NoLocals EXCEPT !.link = v] \in Local
    BY DEF Local, NoLocals, Links
  <2> QED
    BY <1>18, <2>1, <2>2, <2>3, <2>4 DEF CommitVerification, Inv, Goto, Holding
<1>19. ASSUME NEW p \in Requests, VerifyFind(p) PROVE TypeOK'
  <2>1. \A v \in Verifications : [NoLocals EXCEPT !.link = v, !.linkRow = verification[v]] \in Local
    BY DEF Local, NoLocals, Links, Inv
  <2> QED
    BY <1>19, <2>1 DEF VerifyFind, Inv, Goto, Holding
<1>20. ASSUME NEW p \in Requests, VerifyReadAccount(p) PROVE TypeOK'
  <2>1. loc[p].linkRow.account \in Accounts
    BY <1>20 DEF VerifyReadAccount, Link, Inv, Knows, VerificationKnown
  <2>2. [loc[p] EXCEPT !.account = loc[p].linkRow.account,
                       !.accountRow = account[loc[p].linkRow.account]] \in Local
    BY <2>1 DEF Local, Inv
  <2> QED
    BY <1>20, <2>2 DEF VerifyReadAccount, Inv, Goto, Holding
<1>21. ASSUME NEW p \in Requests, VerifyWrite(p) PROVE TypeOK'
  <2>1. /\ loc[p].link \in Verifications /\ Spent(loc[p].linkRow) \in Link
        /\ VerifiedAccount(loc[p].accountRow) \in AccountRow
    BY <1>21 DEF VerifyWrite, Spent, Link, VerifiedAccount, AccountRow, Inv, Knows,
                 VerificationKnown
  <2> QED
    BY <1>21, <2>1, NoLocalsType DEF VerifyWrite, Inv, Goto, Holding
<1> QED
  BY <1>1, <1>2, <1>3, <1>4, <1>5, <1>6, <1>7, <1>8, <1>9, <1>10, <1>11, <1>12, <1>13, <1>14,
     <1>15, <1>16, <1>17, <1>18, <1>19, <1>20, <1>21 DEF Next

-----------------------------------------------------------------------------
(* What a step may do to the tables *)

LinkEvolves(row, next) ==
    row # Nil =>
        /\ next # Nil /\ next.account = row.account
        /\ row.used => next.used
        /\ ~Usable(row) => ~Usable(next)
SessionEvolves(s) ==
    session[s] # Nil =>
        /\ session'[s] # Nil /\ session'[s].account = session[s].account
        /\ session'[s].token # session[s].token => session[s].token \in retired'
RowsEvolve ==
    /\ \A s \in Sessions : SessionEvolves(s)
    /\ \A r \in Resets : LinkEvolves(reset[r], reset'[r])
    /\ \A v \in Verifications : LinkEvolves(verification[v], verification'[v])
    /\ mailed \subseteq mailed' /\ retired \subseteq retired'

(* Which actions write the sessions. *)
LEMMA SessionWriters ==
    ASSUME Next
    PROVE  \/ UNCHANGED <<session, retired>>
           \/ \E p \in Requests : \/ LoginCreate(p) \/ RefreshWrite(p) \/ RevokeWrite(p)
                                  \/ RevokeAllExcept(p) \/ ResetWrite(p)
  BY DEF Next, Authenticate, Abort, LoginFind, RefreshFind, RevokeFind, RevokeAllFind,
         RequestReset, CommitReset, SendLink, ResetFind, ResetReadAccount, RequestVerification,
         CommitVerification, VerifyFind, VerifyReadAccount, VerifyWrite, tables
(* Likewise for the links and their mails. *)
LEMMA LinkWriters ==
    ASSUME Next
    PROVE  /\ reset' = reset \/ \E p \in Requests : CommitReset(p) \/ ResetWrite(p)
           /\ \/ verification' = verification
              \/ \E p \in Requests : CommitVerification(p) \/ VerifyWrite(p)
           /\ mailed' = mailed \/ \E p \in Requests : SendLink(p)
  BY DEF Next, Authenticate, Abort, LoginFind, LoginCreate, RefreshFind, RefreshWrite, RevokeFind,
         RevokeWrite, RevokeAllFind, RevokeAllExcept, RequestReset, CommitReset, SendLink,
         ResetFind, ResetReadAccount, ResetWrite, RequestVerification, CommitVerification,
         VerifyFind, VerifyReadAccount, VerifyWrite, tables

(* The sessions of an account, but one, end with one statement. *)
LEMMA RevokedExceptRows ==
    ASSUME TypeOK, NEW a, NEW kept, NEW s \in Sessions
    PROVE  LET next == RevokedExcept(a, kept)[s] IN
           /\ session[s] = Nil => next = Nil
           /\ session[s] # Nil =>
                  /\ next # Nil /\ next.account = session[s].account
                  /\ next.token = session[s].token
                  /\ session[s].revoked => next.revoked
                  /\ next.revoked => session[s].revoked \/ session[s].account = a
  BY NilIsFresh DEF RevokedExcept, Revoked, SessionRow, TypeOK

(* What the statements write to the sessions: an unused identifier gets a    *)
(* new row with a fresh token; the row of a session is saved from a copy,    *)
(* with a fresh token or as revoked; or an account's sessions are revoked.   *)
Opens(s) ==
    /\ session[s] = Nil /\ retired' = retired
    /\ \E t \in FreshTokens, a \in Accounts : session' = [session EXCEPT ![s] = Opened(a, t)]
Renews(p) ==
    /\ pc[p] = "renewing"
    /\ \E t \in FreshTokens : Save(loc[p].session, Renewed(loc[p].sessionRow, t))
Ends(p) == pc[p] = "revoking" /\ Save(loc[p].session, Revoked(loc[p].sessionRow))
EndsAll(a) == retired' = retired /\ \E kept : session' = RevokedExcept(a, kept)

(* Every step is one of these for the sessions. *)
LEMMA SessionSteps ==
    ASSUME Inv, Next
    PROVE  \/ UNCHANGED <<session, retired>>
           \/ \E s \in Sessions : Opens(s)
           \/ \E p \in Requests : pc'[p] = "idle" /\ (Renews(p) \/ Ends(p))
           \/ \E p \in Requests : /\ pc[p] \in {"revokingAll", "resetting"} /\ pc'[p] = "idle"
                                  /\ EndsAll(loc[p].account)
<1>1. ASSUME NEW p \in Requests, LoginCreate(p) PROVE \E s \in Sessions : Opens(s)
  <2>1. loc[p].account \in Accounts
    BY <1>1 DEF LoginCreate, Inv, Knows, UserKnows
  <2> QED
    BY <1>1, <2>1 DEF LoginCreate, Unissued, Opens, Inv, TypeOK
<1>2. ASSUME NEW p \in Requests, RefreshWrite(p) PROVE pc'[p] = "idle" /\ Renews(p)
  BY <1>2 DEF RefreshWrite, Finish, Goto, Renews, Inv, TypeOK
<1>3. ASSUME NEW p \in Requests, RevokeWrite(p) PROVE pc'[p] = "idle" /\ Ends(p)
  BY <1>3 DEF RevokeWrite, Finish, Goto, Ends, Inv, TypeOK
<1>4. ASSUME NEW p \in Requests, RevokeAllExcept(p) \/ ResetWrite(p)
      PROVE  pc[p] \in {"revokingAll", "resetting"} /\ pc'[p] = "idle" /\ EndsAll(loc[p].account)
  BY <1>4 DEF RevokeAllExcept, ResetWrite, Finish, Goto, EndsAll, Inv, TypeOK
<1> QED
  BY <1>1, <1>2, <1>3, <1>4, SessionWriters

(* A save replaces the token of the row, or keeps it. *)
LEMMA SaveRows ==
    ASSUME Inv, NEW p \in Requests, HoldsSession(p), NEW row \in SessionRow,
           row.account = loc[p].sessionRow.account, Save(loc[p].session, row)
    PROVE  /\ loc[p].session \in Sessions /\ session[loc[p].session] # Nil
           /\ session'[loc[p].session] = row
           /\ \A u \in Sessions \ {loc[p].session} : session'[u] = session[u]
           /\ retired' = retired \cup ({session[loc[p].session].token} \ {row.token})
           /\ \A s \in Sessions : SessionEvolves(s)
  BY NilIsFresh DEF Save, SessionEvolves, Inv, Knows, SessionKnown, TypeOK

(* No row of a session disappears or changes its account, and a token that   *)
(* leaves its row is retired.                                                *)
LEMMA SessionsEvolve ==
    ASSUME Inv, Next
    PROVE  (\A s \in Sessions : SessionEvolves(s)) /\ retired \subseteq retired'
<1>1. CASE UNCHANGED <<session, retired>>
  BY <1>1 DEF SessionEvolves
<1>2. ASSUME NEW u \in Sessions, Opens(u) PROVE (\A s \in Sessions : SessionEvolves(s))
  BY <1>2 DEF Opens, SessionEvolves, Inv, TypeOK
<1>3. ASSUME NEW p \in Requests, Renews(p)
      PROVE  (\A s \in Sessions : SessionEvolves(s)) /\ retired \subseteq retired'
  <2>1. PICK t \in FreshTokens : Save(loc[p].session, Renewed(loc[p].sessionRow, t))
    BY <1>3 DEF Renews
  <2>2. /\ HoldsSession(p) /\ Renewed(loc[p].sessionRow, t) \in SessionRow
        /\ Renewed(loc[p].sessionRow, t).account = loc[p].sessionRow.account
    BY <1>3 DEF Renews, Renewed, FreshTokens, SessionRow, HoldsSession, Inv, Knows, SessionKnown
  <2> QED
    BY <2>1, <2>2, SaveRows
<1>4. ASSUME NEW p \in Requests, Ends(p)
      PROVE  (\A s \in Sessions : SessionEvolves(s)) /\ retired \subseteq retired'
  <2>1. /\ HoldsSession(p) /\ Revoked(loc[p].sessionRow) \in SessionRow
        /\ Revoked(loc[p].sessionRow).account = loc[p].sessionRow.account
    BY <1>4 DEF Ends, Revoked, SessionRow, HoldsSession, Inv, Knows, SessionKnown
  <2> QED
    BY <1>4, <2>1, SaveRows DEF Ends
<1>5. ASSUME NEW a, EndsAll(a)
      PROVE  (\A s \in Sessions : SessionEvolves(s)) /\ retired \subseteq retired'
  BY <1>5, RevokedExceptRows DEF EndsAll, SessionEvolves, Inv
<1> QED
  BY <1>1, <1>2, <1>3, <1>4, <1>5, SessionSteps DEF Opens

(* A newer link cuts older ones and is inserted under an unused identifier. *)
LEMMA CommittedLinks ==
    ASSUME NEW S, NEW table \in [S -> Link \cup {Nil}], NEW found, NEW a \in Accounts,
           \A i \in found : i \in S /\ table[i] # Nil, NEW new \in Unissued(table),
           NEW i \in S
    PROVE  LinkEvolves(table[i], [CutPending(table, found) EXCEPT ![new] = NewLink(a)][i])
  BY NilIsFresh DEF CutPending, Unissued, LinkEvolves, Usable, Link

(* A link that is spent stays spent, whatever copy of its row is written. *)
LEMMA SpentLink ==
    ASSUME NEW S, NEW table \in [S -> Link \cup {Nil}], NEW l \in S, NEW row \in Link,
           table[l] # Nil, row.account = table[l].account, NEW i \in S
    PROVE  LinkEvolves(table[i], [table EXCEPT ![l] = Spent(row)][i])
  BY NilIsFresh DEF Spent, LinkEvolves, Usable, Link

(* Links keep their account, and no dead link is revived. *)
LEMMA LinksEvolve ==
    ASSUME Inv, Next
    PROVE  /\ \A r \in Resets : LinkEvolves(reset[r], reset'[r])
           /\ \A v \in Verifications : LinkEvolves(verification[v], verification'[v])
           /\ mailed \subseteq mailed'
<1> USE DEF TypeOK
<1>1. ASSUME NEW p \in Requests, CommitReset(p)
      PROVE  \A r \in Resets : LinkEvolves(reset[r], reset'[r])
  <2>1. /\ loc[p].account \in Accounts
        /\ \A r \in loc[p].pending : r \in Resets /\ reset[r] # Nil
    BY <1>1 DEF CommitReset, Inv, Knows, UserKnows, PendingKnown
  <2>2. PICK new \in Unissued(reset) :
            reset' = [CutPending(reset, loc[p].pending) EXCEPT ![new] = NewLink(loc[p].account)]
    BY <1>1 DEF CommitReset
  <2> QED
    BY <2>1, <2>2, CommittedLinks DEF Inv
<1>2. ASSUME NEW p \in Requests, ResetWrite(p)
      PROVE  \A r \in Resets : LinkEvolves(reset[r], reset'[r])
  BY <1>2, SpentLink DEF ResetWrite, Inv, Knows, ResetKnown
<1>3. ASSUME NEW p \in Requests, CommitVerification(p)
      PROVE  \A v \in Verifications : LinkEvolves(verification[v], verification'[v])
  <2>1. /\ loc[p].account \in Accounts
        /\ \A v \in loc[p].pending : v \in Verifications /\ verification[v] # Nil
    BY <1>3 DEF CommitVerification, Inv, Knows, UserKnows, PendingKnown
  <2>2. PICK new \in Unissued(verification) :
            verification' = [CutPending(verification, loc[p].pending)
                                EXCEPT ![new] = NewLink(loc[p].account)]
    BY <1>3 DEF CommitVerification
  <2> QED
    BY <2>1, <2>2, CommittedLinks DEF Inv
<1>4. ASSUME NEW p \in Requests, VerifyWrite(p)
      PROVE  \A v \in Verifications : LinkEvolves(verification[v], verification'[v])
  BY <1>4, SpentLink DEF VerifyWrite, Inv, Knows, VerificationKnown
<1>5. ASSUME reset' = reset PROVE \A r \in Resets : LinkEvolves(reset[r], reset'[r])
  BY <1>5 DEF LinkEvolves
<1>6. ASSUME verification' = verification
      PROVE  \A v \in Verifications : LinkEvolves(verification[v], verification'[v])
  BY <1>6 DEF LinkEvolves
<1>7. mailed \subseteq mailed'
  BY LinkWriters DEF SendLink
<1> QED
  BY <1>1, <1>2, <1>3, <1>4, <1>5, <1>6, <1>7, LinkWriters

(* What every step keeps of the rows others may have read. *)
LEMMA EvolveStep ==
    ASSUME Inv, Next
    PROVE  RowsEvolve
  BY SessionsEvolve, LinksEvolve DEF RowsEvolve

-----------------------------------------------------------------------------
(* What requests know *)

(* The other requests stand where they stood. *)
OthersStay(p) == \A q \in Requests \ {p} : pc'[q] = pc[q] /\ loc'[q] = loc[q]

(* Every action is a step of one request, and two of them read a session to  *)
(* write it back.                                                            *)
LEMMA ActorStep ==
    ASSUME TypeOK, Next
    PROVE  \E p \in Requests :
               /\ OthersStay(p)
               /\ pc'[p] \in {"renewing", "revoking"} => RefreshFind(p) \/ RevokeFind(p)
<1> USE DEF TypeOK, Goto, Holding, OthersStay
<1>1. ASSUME NEW p \in Requests, Finish(p) PROVE OthersStay(p) /\ pc'[p] = "idle"
  BY <1>1 DEF Finish
<1>2. ASSUME NEW p \in Requests, RefreshFind(p) \/ RevokeFind(p) PROVE OthersStay(p)
  BY <1>2 DEF RefreshFind, RevokeFind
<1>3. ASSUME NEW p \in Requests,
             \/ Authenticate(p) \/ LoginFind(p) \/ RevokeAllFind(p)
             \/ RequestReset(p) \/ CommitReset(p) \/ ResetFind(p) \/ ResetReadAccount(p)
             \/ RequestVerification(p) \/ CommitVerification(p)
             \/ VerifyFind(p) \/ VerifyReadAccount(p)
      PROVE  OthersStay(p) /\ pc'[p] \notin {"renewing", "revoking"}
  BY <1>3 DEF Authenticate, LoginFind, RevokeAllFind, RequestReset, CommitReset, ResetFind,
              ResetReadAccount, RequestVerification, CommitVerification, VerifyFind,
              VerifyReadAccount
<1>4. PICK p \in Requests :
          \/ Finish(p) \/ RefreshFind(p) \/ RevokeFind(p)
          \/ Authenticate(p) \/ LoginFind(p) \/ RevokeAllFind(p)
          \/ RequestReset(p) \/ CommitReset(p) \/ ResetFind(p) \/ ResetReadAccount(p)
          \/ RequestVerification(p) \/ CommitVerification(p)
          \/ VerifyFind(p) \/ VerifyReadAccount(p)
  BY DEF Next, Abort, LoginCreate, RefreshWrite, RevokeWrite, RevokeAllExcept, SendLink,
         ResetWrite, VerifyWrite
<1> QED
  BY <1>1, <1>2, <1>3, <1>4

(* A new row is a row. *)
LEMMA NewRows ==
    ASSUME NEW a \in Accounts
    PROVE  /\ NewLink(a) # Nil
           /\ \A t \in Tokens : Opened(a, t) # Nil
<1>1. NewLink(a) \in Link /\ \A t \in Tokens : Opened(a, t) \in SessionRow
  BY DEF NewLink, Link, Opened, SessionRow
<1> QED
  BY <1>1, NilIsFresh

(* The links that were mailed or are about to be exist. *)
LEMMA LinkRowStays ==
    ASSUME TypeOK, RowsEvolve, NEW l \in Links, LinkRow(l) # Nil
    PROVE  LinkRow(l)' # Nil
  BY DEF LinkRow, Links, RowsEvolve, LinkEvolves

(* Only links of stored rows are mailed. *)
LEMMA MailedStep ==
    ASSUME Inv, Next, RowsEvolve
    PROVE  MailedLinksExist'
<1> SUFFICES ASSUME NEW l \in mailed' PROVE LinkRow(l)' # Nil
  BY DEF MailedLinksExist
<1>1. l \in Links /\ LinkRow(l) # Nil
  <2>1. CASE l \in mailed
    BY <2>1 DEF Inv, TypeOK, MailedLinksExist
  <2>2. CASE l \notin mailed
    <3>1. PICK p \in Requests : SendLink(p)
      BY <2>2, LinkWriters
    <3>2. pc[p] = "mail" /\ l = loc[p].link
      BY <2>2, <3>1 DEF SendLink
    <3> QED
      BY <3>2 DEF Inv, Knows, PendingKnown
  <2> QED
    BY <2>1, <2>2
<1> QED
  BY <1>1, LinkRowStays DEF Inv

(* A proof that an account's e-mail is its owner's is never lost. *)
LEMMA ProofStays ==
    ASSUME Inv, RowsEvolve, NEW a, Proven(a)
    PROVE  Proven(a)'
<1>1. PICK v \in Verifications \cap mailed : verification[v].account = a /\ verification[v].used
  BY DEF Proven
<1>2. verification[v] # Nil
  BY <1>1, TablesAreDisjoint DEF Inv, MailedLinksExist, LinkRow
<1> QED
  BY <1>1, <1>2 DEF Proven, RowsEvolve, LinkEvolves

(* What a request knows is not disturbed by the steps of the others. *)
LEMMA OthersKnow ==
    ASSUME Inv, RowsEvolve, NEW p, OthersStay(p)
    PROVE  \A q \in Requests \ {p} : Knows(q)'
<1> SUFFICES ASSUME NEW q \in Requests \ {p} PROVE Knows(q)'
  OBVIOUS
<1>1. Knows(q) /\ pc'[q] = pc[q] /\ loc'[q] = loc[q]
  BY DEF Inv, OthersStay
<1>2. UserKnows(q)'
  BY <1>1 DEF Knows, UserKnows
<1>3. SessionKnown(q)'
  BY <1>1 DEF Knows, SessionKnown, HoldsSession, RowsEvolve, SessionEvolves
<1>4. PendingKnown(q)'
  <2>1. pc[q] = "mail" => loc[q].link \in Links /\ LinkRow(loc[q].link)' # Nil
    <3> SUFFICES ASSUME pc[q] = "mail" PROVE loc[q].link \in Links /\ LinkRow(loc[q].link)' # Nil
      OBVIOUS
    <3>1. PICK l \in Links : l = loc[q].link /\ LinkRow(l) # Nil
      BY <1>1 DEF Knows, PendingKnown
    <3>2. LinkRow(l)' # Nil
      BY <3>1, LinkRowStays DEF Inv
    <3> QED
      BY <1>1, <3>1, <3>2
  <2> QED
    BY <1>1, <2>1 DEF Knows, PendingKnown, RowsEvolve, LinkEvolves
<1>5. ResetKnown(q)'
  <2>1. pc[q] = "resetting" /\ loc[q].accountRow.verified => Proven(loc[q].account)'
    <3> SUFFICES ASSUME pc[q] = "resetting", loc[q].accountRow.verified
                 PROVE  Proven(loc[q].account)'
      OBVIOUS
    <3>1. PICK a : a = loc[q].account
      OBVIOUS
    <3>2. Proven(a)'
      BY <1>1, <3>1, ProofStays DEF Knows, ResetKnown
    <3> QED
      BY <1>1, <3>1, <3>2
  <2> QED
    BY <1>1, <2>1 DEF Knows, ResetKnown, RowsEvolve, LinkEvolves
<1>6. VerificationKnown(q)'
  BY <1>1 DEF Knows, VerificationKnown, RowsEvolve, LinkEvolves
<1> QED
  BY <1>2, <1>3, <1>4, <1>5, <1>6 DEF Knows

(* A request that is over knows nothing. *)
LEMMA IdleKnows ==
    ASSUME NEW p, pc'[p] = "idle"
    PROVE  Knows(p)'
  BY DEF Knows, UserKnows, SessionKnown, HoldsSession, PendingKnown, ResetKnown, VerificationKnown

(* The step of a request: it is over, or what it read now holds. *)
LEMMA OwnStep ==
    ASSUME Inv, TypeOK', RowsEvolve, Next
    PROVE  \E p \in Requests : OthersStay(p) /\ Knows(p)'
<1> USE DEF TypeOK, tables, Knows, UserKnows, SessionKnown, HoldsSession, PendingKnown, ResetKnown,
            VerificationKnown, Goto, Holding, OthersStay, Inv
<1>1. ASSUME NEW p \in Requests,
             \/ Abort(p) \/ LoginCreate(p) \/ RefreshWrite(p) \/ RevokeWrite(p)
             \/ RevokeAllExcept(p) \/ SendLink(p) \/ ResetWrite(p) \/ VerifyWrite(p)
      PROVE  OthersStay(p) /\ Knows(p)'
  <2>1. Finish(p)
    BY <1>1 DEF Abort, LoginCreate, RefreshWrite, RevokeWrite, RevokeAllExcept, SendLink,
                ResetWrite, VerifyWrite
  <2> QED
    BY <2>1, IdleKnows DEF Finish
<1>2. ASSUME NEW p \in Requests, Authenticate(p) PROVE OthersStay(p) /\ Knows(p)'
  BY <1>2 DEF Authenticate, Resolve, NoLocals, SessionRow
<1>3. ASSUME NEW p \in Requests, LoginFind(p) PROVE OthersStay(p) /\ Knows(p)'
  BY <1>3 DEF LoginFind, NoLocals
<1>4. ASSUME NEW p \in Requests, RefreshFind(p) PROVE OthersStay(p) /\ Knows(p)'
  BY <1>4 DEF RefreshFind, CanBeRenewed, NoLocals
<1>5. ASSUME NEW p \in Requests, RevokeFind(p) PROVE OthersStay(p) /\ Knows(p)'
  BY <1>5, NilIsFresh DEF RevokeFind, OwnerSees, NoLocals
<1>6. ASSUME NEW p \in Requests, RevokeAllFind(p) PROVE OthersStay(p) /\ Knows(p)'
  BY <1>6 DEF RevokeAllFind, Local
<1>7. ASSUME NEW p \in Requests, RequestReset(p) PROVE OthersStay(p) /\ Knows(p)'
  BY <1>7 DEF RequestReset, PendingOf, NoLocals
<1>8. ASSUME NEW p \in Requests, CommitReset(p) PROVE OthersStay(p) /\ Knows(p)'
  <2>1. PICK r \in Resets :
            /\ reset' = [CutPending(reset, loc[p].pending) EXCEPT ![r] = NewLink(loc[p].account)]
            /\ loc' = [loc EXCEPT ![p] = [NoLocals EXCEPT !.link = r]]
    BY <1>8 DEF CommitReset, Unissued
  <2>2. pc'[p] = "mail" /\ loc'[p].link = r /\ OthersStay(p)
    BY <1>8, <2>1 DEF CommitReset, NoLocals
  <2>3. DOMAIN CutPending(reset, loc[p].pending) = Resets
    BY DEF CutPending
  <2>4. reset'[r] # Nil
    BY <1>8, <2>1, <2>3, NewRows DEF CommitReset
  <2> QED
    BY <2>2, <2>4 DEF LinkRow, Links
<1>9. ASSUME NEW p \in Requests, ResetFind(p) PROVE OthersStay(p) /\ Knows(p)'
  BY <1>9, TablesAreDisjoint DEF ResetFind, MailedLinksExist, LinkRow, NoLocals
<1>10. ASSUME NEW p \in Requests, ResetReadAccount(p) PROVE OthersStay(p) /\ Knows(p)'
  <2>1. PICK a \in Accounts : a = loc[p].linkRow.account
    BY <1>10 DEF ResetReadAccount, Link
  <2>2. /\ pc'[p] = "resetting" /\ UNCHANGED tables
        /\ loc'[p] = [loc[p] EXCEPT !.account = a, !.accountRow = account[a]]
    BY <1>10, <2>1 DEF ResetReadAccount
  <2>3. /\ loc'[p].link = loc[p].link /\ loc'[p].linkRow = loc[p].linkRow
        /\ loc'[p].account = a /\ loc'[p].accountRow = account[a]
    BY <2>2 DEF Local
  <2>4. account[a].verified => Proven(a)'
    BY <2>2, ProofStays DEF VerifiedHasProof, Proven
  <2>5. ResetKnown(p)'
    BY <1>10, <2>2, <2>3, <2>4 DEF ResetReadAccount
  <2>6. OthersStay(p)
    BY <1>10 DEF ResetReadAccount
  <2> QED
    BY <2>2, <2>5, <2>6
<1>11. ASSUME NEW p \in Requests, RequestVerification(p) PROVE OthersStay(p) /\ Knows(p)'
  BY <1>11 DEF RequestVerification, PendingOf, NoLocals
<1>12. ASSUME NEW p \in Requests, CommitVerification(p) PROVE OthersStay(p) /\ Knows(p)'
  <2>1. PICK v \in Verifications :
            /\ verification' = [CutPending(verification, loc[p].pending)
                                    EXCEPT ![v] = NewLink(loc[p].account)]
            /\ loc' = [loc EXCEPT ![p] = [NoLocals EXCEPT !.link = v]]
    BY <1>12 DEF CommitVerification, Unissued
  <2>2. pc'[p] = "mail" /\ loc'[p].link = v /\ OthersStay(p)
    BY <1>12, <2>1 DEF CommitVerification, NoLocals
  <2>3. DOMAIN CutPending(verification, loc[p].pending) = Verifications
    BY DEF CutPending
  <2>4. verification'[v] # Nil
    BY <1>12, <2>1, <2>3, NewRows DEF CommitVerification
  <2> QED
    BY <2>2, <2>4, TablesAreDisjoint DEF LinkRow, Links
<1>13. ASSUME NEW p \in Requests, VerifyFind(p) PROVE OthersStay(p) /\ Knows(p)'
  BY <1>13, TablesAreDisjoint DEF VerifyFind, MailedLinksExist, LinkRow, NoLocals
<1>14. ASSUME NEW p \in Requests, VerifyReadAccount(p) PROVE OthersStay(p) /\ Knows(p)'
  BY <1>14 DEF VerifyReadAccount, Local, Link
<1> QED
  BY <1>1, <1>2, <1>3, <1>4, <1>5, <1>6, <1>7, <1>8, <1>9, <1>10, <1>11, <1>12, <1>13, <1>14
  DEF Next

(* So every request knows after a step what its place in the code needs. *)
LEMMA KnowsStep ==
    ASSUME Inv, TypeOK', RowsEvolve, Next
    PROVE  \A q \in Requests : Knows(q)'
<1>1. PICK p \in Requests : OthersStay(p) /\ Knows(p)'
  BY OwnStep
<1> QED
  BY <1>1, OthersKnow

-----------------------------------------------------------------------------
(* Tokens *)

(* A token that was never handed out has no bearer. *)
LEMMA FreshIsUnborne ==
    ASSUME Inv, NEW t \in FreshTokens, NEW s \in Sessions
    PROVE  ~Bears(s, t)
  BY DEF FreshTokens, Inv, BornTokens

(* Who bears a token after a step bore it before, but for one session that   *)
(* got a fresh one.                                                          *)
BearersStay == \A s \in Sessions, t \in Tokens : Bears(s, t)' => Bears(s, t)
FreshBearer(u, f) ==
    /\ session'[u] # Nil /\ session'[u].token = f
    /\ \A s \in Sessions, t \in Tokens : Bears(s, t)' => Bears(s, t) \/ (s = u /\ t = f)

(* A copy of a row that a request holds after a step, or the token that the  *)
(* row has got, bears on a session that bore it.                             *)
LEMMA CopiesStay ==
    ASSUME Inv, Next, TypeOK', NEW q \in Requests, HoldsSession(q)', NEW s \in Sessions,
           loc'[q].session = s
    PROVE  Bears(s, loc'[q].sessionRow.token)
<1> USE DEF TypeOK, HoldsSession, Bears, Goto, Holding, Inv
<1>1. PICK p \in Requests :
          /\ OthersStay(p)
          /\ pc'[p] \in {"renewing", "revoking"} => RefreshFind(p) \/ RevokeFind(p)
  BY ActorStep
<1>2. CASE q # p
  BY <1>1, <1>2 DEF OthersStay
<1>3. CASE q = p /\ RefreshFind(p)
  BY <1>3 DEF RefreshFind, NoLocals
<1>4. CASE q = p /\ RevokeFind(p)
  BY <1>4 DEF RevokeFind, OwnerSees, NoLocals
<1> QED
  BY <1>1, <1>2, <1>3, <1>4

(* Every step is one of these two. *)
LEMMA BearersStep ==
    ASSUME Inv, Next, TypeOK'
    PROVE  BearersStay \/ \E u \in Sessions, f \in FreshTokens : FreshBearer(u, f)
<1> USE DEF TypeOK, Inv
<1>1. ASSUME NEW u, NEW f,
             \A s \in Sessions \ {u} : session'[s] # Nil => Bears(s, session'[s].token),
             session'[u] # Nil, session'[u].token = f
      PROVE  FreshBearer(u, f)
  BY <1>1, CopiesStay DEF FreshBearer, Bears
<1>2. ASSUME \A s \in Sessions : session'[s] # Nil => Bears(s, session'[s].token)
      PROVE  BearersStay
  BY <1>2, CopiesStay DEF BearersStay, Bears
<1>3. CASE UNCHANGED <<session, retired>>
  BY <1>2, <1>3 DEF Bears
<1>4. ASSUME NEW u \in Sessions, Opens(u)
      PROVE  \E f \in FreshTokens : FreshBearer(u, f)
  <2>1. PICK f \in FreshTokens, a \in Accounts : session' = [session EXCEPT ![u] = Opened(a, f)]
    BY <1>4 DEF Opens
  <2>2. session'[u] # Nil /\ session'[u].token = f
    <3>1. Opened(a, f) # Nil /\ Opened(a, f).token = f
      BY NewRows DEF FreshTokens, Opened
    <3> QED
      BY <2>1, <3>1
  <2> QED
    BY <1>1, <2>1, <2>2 DEF Bears
<1>5. ASSUME NEW p \in Requests, Renews(p)
      PROVE  \E u \in Sessions, f \in FreshTokens : FreshBearer(u, f)
  <2>1. PICK f \in FreshTokens : Save(loc[p].session, Renewed(loc[p].sessionRow, f))
    BY <1>5 DEF Renews
  <2>2. /\ HoldsSession(p) /\ Renewed(loc[p].sessionRow, f) \in SessionRow
        /\ Renewed(loc[p].sessionRow, f).account = loc[p].sessionRow.account
        /\ Renewed(loc[p].sessionRow, f).token = f
    BY <1>5 DEF Renews, Renewed, FreshTokens, SessionRow, HoldsSession, Knows, SessionKnown
  <2>3. PICK u \in Sessions : /\ u = loc[p].session
                              /\ session'[u] # Nil /\ session'[u].token = f
                              /\ \A s \in Sessions \ {u} : session'[s] = session[s]
    BY <2>1, <2>2, SaveRows, NilIsFresh
  <2> QED
    BY <1>1, <2>3 DEF Bears
<1>6. ASSUME NEW p \in Requests, Ends(p) PROVE BearersStay
  <2>1. /\ HoldsSession(p) /\ Revoked(loc[p].sessionRow) \in SessionRow
        /\ Revoked(loc[p].sessionRow).account = loc[p].sessionRow.account
        /\ Revoked(loc[p].sessionRow).token = loc[p].sessionRow.token
    BY <1>6 DEF Ends, Revoked, SessionRow, HoldsSession, Knows, SessionKnown
  <2>2. PICK u \in Sessions : /\ u = loc[p].session
                              /\ session'[u].token = loc[p].sessionRow.token
                              /\ \A s \in Sessions \ {u} : session'[s] = session[s]
    BY <1>6, <2>1, SaveRows DEF Ends
  <2> QED
    BY <1>2, <2>1, <2>2 DEF Bears
<1>7. ASSUME NEW a, EndsAll(a) PROVE BearersStay
  <2>1. \A s \in Sessions : session'[s] # Nil =>
            session[s] # Nil /\ session'[s].token = session[s].token
    BY <1>7, RevokedExceptRows DEF EndsAll
  <2> QED
    BY <1>2, <2>1 DEF Bears
<1> QED
  BY <1>3, <1>4, <1>5, <1>6, <1>7, SessionSteps

(* Each token keeps its one bearer, and one that left its row is retired. *)
LEMMA TokenStep ==
    ASSUME Inv, Next, TypeOK', RowsEvolve
    PROVE  OneBearer' /\ BornTokens'
<1>1. ASSUME NEW s \in Sessions, NEW t \in Tokens, Bears(s, t)
      PROVE  t \in retired' \/ (session'[s] # Nil /\ session'[s].token = t)
  BY <1>1 DEF Inv, BornTokens, RowsEvolve, SessionEvolves
<1>2. CASE BearersStay
  <2>1. OneBearer'
    BY <1>2 DEF OneBearer, BearersStay, Inv
  <2>2. BornTokens'
    BY <1>1, <1>2 DEF BornTokens, BearersStay
  <2> QED
    BY <2>1, <2>2
<1>3. ASSUME NEW u \in Sessions, NEW f \in FreshTokens, FreshBearer(u, f)
      PROVE  OneBearer' /\ BornTokens'
  <2>1. OneBearer'
    BY <1>3, FreshIsUnborne DEF OneBearer, FreshBearer, Inv
  <2>2. BornTokens'
    BY <1>1, <1>3 DEF BornTokens, FreshBearer
  <2> QED
    BY <2>1, <2>2
<1> QED
  BY <1>2, <1>3, BearersStep

(* A token that is retired left the row of a session that does not get it    *)
(* back while it is open, and is no other session's.                         *)
LEMMA RotationStep ==
    ASSUME Inv, Next, TypeOK'
    PROVE  RotatedTokenIsDead'
<1> USE NilIsFresh DEF TypeOK, Inv
<1>1. CASE UNCHANGED <<session, retired>>
  BY <1>1 DEF RotatedTokenIsDead
<1>2. ASSUME NEW u \in Sessions, Opens(u) PROVE RotatedTokenIsDead'
  BY <1>2 DEF Opens, Opened, FreshTokens, RotatedTokenIsDead
<1>3. ASSUME NEW p \in Requests, HoldsSession(p), NEW row \in SessionRow,
             row.account = loc[p].sessionRow.account, Save(loc[p].session, row),
             row.token \in FreshTokens \/ row.revoked
      PROVE  RotatedTokenIsDead'
  <2>1. PICK u \in Sessions :
            /\ u = loc[p].session /\ session[u] # Nil /\ session'[u] = row
            /\ \A s \in Sessions \ {u} : session'[s] = session[s]
            /\ retired' = retired \cup ({session[u].token} \ {row.token})
    BY <1>3, SaveRows
  <2>2. ASSUME NEW s \in Sessions \ {u}, session[s] # Nil PROVE session[s].token # session[u].token
    <3>1. session[s].token \in Tokens /\ session[u].token \in Tokens
      BY <2>1, <2>2 DEF SessionRow
    <3>2. Bears(s, session[s].token) /\ Bears(u, session[u].token)
      BY <2>1, <2>2 DEF Bears
    <3> QED
      BY <2>2, <3>1, <3>2 DEF OneBearer
  <2>3. row.token \in FreshTokens => row.token \notin retired'
    BY <2>1 DEF FreshTokens
  <2> QED
    BY <1>3, <2>1, <2>2, <2>3 DEF RotatedTokenIsDead
<1>4. ASSUME NEW p \in Requests, Renews(p) PROVE RotatedTokenIsDead'
  <2>1. PICK f \in FreshTokens : Save(loc[p].session, Renewed(loc[p].sessionRow, f))
    BY <1>4 DEF Renews
  <2>2. /\ HoldsSession(p) /\ Renewed(loc[p].sessionRow, f) \in SessionRow
        /\ Renewed(loc[p].sessionRow, f).account = loc[p].sessionRow.account
        /\ Renewed(loc[p].sessionRow, f).token \in FreshTokens
    BY <1>4 DEF Renews, Renewed, FreshTokens, SessionRow, HoldsSession, Knows, SessionKnown
  <2> QED
    BY <1>3, <2>1, <2>2
<1>5. ASSUME NEW p \in Requests, Ends(p) PROVE RotatedTokenIsDead'
  <2>1. /\ HoldsSession(p) /\ Revoked(loc[p].sessionRow) \in SessionRow
        /\ Revoked(loc[p].sessionRow).account = loc[p].sessionRow.account
        /\ Revoked(loc[p].sessionRow).revoked
    BY <1>5 DEF Ends, Revoked, SessionRow, HoldsSession, Knows, SessionKnown
  <2> QED
    BY <1>3, <1>5, <2>1 DEF Ends
<1>6. ASSUME NEW a, EndsAll(a) PROVE RotatedTokenIsDead'
  BY <1>6, RevokedExceptRows DEF EndsAll, RotatedTokenIsDead
<1> QED
  BY <1>1, <1>2, <1>4, <1>5, <1>6, SessionSteps

-----------------------------------------------------------------------------
(* Verified accounts *)

(* Two transactions write accounts. *)
LEMMA AccountWriters ==
    ASSUME Next
    PROVE  account' = account \/ \E p \in Requests : ResetWrite(p) \/ VerifyWrite(p)
  BY DEF Next, Authenticate, Abort, LoginFind, LoginCreate, RefreshFind, RefreshWrite, RevokeFind,
         RevokeWrite, RevokeAllFind, RevokeAllExcept, RequestReset, CommitReset, SendLink,
         ResetFind, ResetReadAccount, RequestVerification, CommitVerification, VerifyFind,
         VerifyReadAccount, tables

(* A password reset writes the account back from a copy of its row: if the   *)
(* copy says verified, the proof existed when it was read, and still does.   *)
LEMMA ProofStep ==
    ASSUME Inv, Next, TypeOK', RowsEvolve
    PROVE  VerifiedHasProof'
<1> SUFFICES ASSUME NEW a \in Accounts, account'[a].verified PROVE Proven(a)'
  BY DEF VerifiedHasProof, Proven
<1> USE DEF TypeOK, Inv
<1>1. CASE account[a].verified
  BY <1>1, ProofStays DEF VerifiedHasProof, Proven
<1>2. ASSUME NEW p \in Requests, ResetWrite(p), ~account[a].verified PROVE Proven(a)'
  <2>1. PICK password \in Passwords :
                account' = [account EXCEPT ![loc[p].account] =
                                WithPassword(loc[p].accountRow, password)]
    BY <1>2 DEF ResetWrite
  <2>2. /\ a = loc[p].account
        /\ WithPassword(loc[p].accountRow, password).verified
    BY <1>2, <2>1
  <2>3. loc[p].accountRow \in AccountRow /\ (loc[p].accountRow.verified => Proven(a))
    BY <1>2, <2>2 DEF ResetWrite, Knows, ResetKnown
  <2>4. loc[p].accountRow.verified
    BY <2>2, <2>3 DEF WithPassword, AccountRow
  <2> QED
    BY <2>3, <2>4, ProofStays
<1>3. ASSUME NEW p \in Requests, VerifyWrite(p), ~account[a].verified PROVE Proven(a)'
  <2>1. a = loc[p].account
    BY <1>3 DEF VerifyWrite
  <2>2. PICK v \in Verifications \cap mailed :
            /\ v = loc[p].link /\ loc[p].linkRow \in Link
            /\ loc[p].linkRow.account = a
    BY <1>3, <2>1 DEF VerifyWrite, Knows, VerificationKnown
  <2>3. verification'[v] = Spent(loc[p].linkRow) /\ mailed' = mailed
    BY <1>3, <2>2 DEF VerifyWrite
  <2>4. verification'[v].account = a /\ verification'[v].used
    BY <2>2, <2>3 DEF Spent, Link
  <2> QED
    BY <2>2, <2>3, <2>4 DEF Proven
<1> QED
  BY <1>1, <1>2, <1>3, AccountWriters

-----------------------------------------------------------------------------
(* Invariance *)

(* At first there are no links, no sessions and no requests. *)
LEMMA InitInv == Init => Inv
<1> SUFFICES ASSUME Init PROVE Inv
  OBVIOUS
<1>1. TypeOK
  BY FirstIsPassword, NoLocalsType DEF Init, TypeOK, AccountRow, Labels
<1>2. MailedLinksExist /\ RotatedTokenIsDead /\ VerifiedHasProof
  BY DEF Init, MailedLinksExist, RotatedTokenIsDead, VerifiedHasProof
<1>3. \A s \in Sessions, t \in Tokens : ~Bears(s, t)
  BY DEF Init, Bears, HoldsSession
<1>4. \A p \in Requests : Knows(p)
  BY DEF Init, Knows, UserKnows, SessionKnown, HoldsSession, PendingKnown, ResetKnown,
         VerificationKnown
<1> QED
  BY <1>1, <1>2, <1>3, <1>4 DEF Inv, OneBearer, BornTokens

(* Every step keeps the invariant. *)
LEMMA NextInv == Inv /\ [Next]_vars => Inv'
<1>1. ASSUME Inv, Next PROVE Inv'
  <2>1. TypeOK' /\ RowsEvolve
    BY <1>1, TypeStep, EvolveStep
  <2>2. MailedLinksExist' /\ VerifiedHasProof'
    BY <1>1, <2>1, MailedStep, ProofStep
  <2>3. OneBearer' /\ BornTokens' /\ RotatedTokenIsDead'
    BY <1>1, <2>1, TokenStep, RotationStep
  <2>4. \A p \in Requests : Knows(p)'
    BY <1>1, <2>1, KnowsStep
  <2> QED
    BY <2>1, <2>2, <2>3, <2>4 DEF Inv
<1>2. ASSUME Inv, UNCHANGED vars PROVE Inv'
  <2>1. /\ TypeOK' /\ MailedLinksExist' /\ RotatedTokenIsDead' /\ VerifiedHasProof'
    BY <1>2 DEF Inv, vars, TypeOK, MailedLinksExist, LinkRow, RotatedTokenIsDead, VerifiedHasProof
  <2>2. \A s \in Sessions, t \in Tokens : Bears(s, t)' <=> Bears(s, t)
    BY <1>2 DEF vars, Bears, HoldsSession
  <2>3. OneBearer' /\ BornTokens'
    BY <1>2, <2>2 DEF Inv, vars, OneBearer, BornTokens
  <2>4. \A p \in Requests : Knows(p)'
    BY <1>2 DEF Inv, vars, Knows, UserKnows, SessionKnown, HoldsSession, PendingKnown, LinkRow,
                ResetKnown, Proven, VerificationKnown
  <2> QED
    BY <2>1, <2>3, <2>4 DEF Inv
<1> QED
  BY <1>1, <1>2

(* The invariant holds in every reachable state. *)
THEOREM Invariance == Spec => []Inv
  BY InitInv, NextInv, PTL DEF Spec

-----------------------------------------------------------------------------
(* The invariants of the module *)

(* Every write of a row by id leaves well-formed rows: the copies requests   *)
(* hold are of the table they are written to.                                *)
THEOREM TypeCorrect == Spec => []TypeOK
<1>1. Inv => TypeOK
  BY DEF Inv
<1> QED
  BY <1>1, Invariance, PTL

(* Token rotation, whatever refreshes, logouts and revocations overlap: the  *)
(* token of a session that can be renewed was never replaced before.         *)
THEOREM RotationSafe == Spec => []RotatedTokenIsDead
<1>1. Inv => RotatedTokenIsDead
  BY DEF Inv
<1> QED
  BY <1>1, Invariance, PTL

(* An account is only verified through a link that was mailed to its owner,  *)
(* although a password reset writes the whole row of an account.             *)
THEOREM VerifiedSafe == Spec => []VerifiedHasProof
<1>1. Inv => VerifiedHasProof
  BY DEF Inv
<1> QED
  BY <1>1, Invariance, PTL

-----------------------------------------------------------------------------
(* The action properties of the module *)

(* No write of an old copy revives a link that was used or superseded. *)
THEOREM SpentSafe == Spec => SpentLinksStaySpent
<1>1. ASSUME Inv, [Next]_vars
      PROVE  [/\ \A r \in Resets : DeadLink(reset, r) => DeadLink(reset, r)'
              /\ \A v \in Verifications :
                    DeadLink(verification, v) => DeadLink(verification, v)']_vars
  <2> SUFFICES ASSUME Next
               PROVE  /\ \A r \in Resets : DeadLink(reset, r) => DeadLink(reset, r)'
                      /\ \A v \in Verifications :
                             DeadLink(verification, v) => DeadLink(verification, v)'
    BY <1>1
  <2> QED
    BY <1>1, LinksEvolve DEF DeadLink, LinkEvolves
<1> QED
  BY <1>1, Invariance, PTL DEF Spec, SpentLinksStaySpent

(* A revoked session comes back only when a refresh that was under way writes *)
(* the row it had read before.                                               *)
THEOREM RevivalExplained == Spec => RevivedOnlyByOverlappingRefresh
<1> DEFINE Explained ==
        \A s \in Sessions :
            session[s] # Nil /\ session[s].revoked /\ ~session'[s].revoked =>
                \E p \in Requests : /\ pc[p] = "renewing" /\ pc'[p] = "idle"
                                    /\ loc[p].session = s /\ ~loc[p].sessionRow.revoked
<1>1. ASSUME Inv, [Next]_vars PROVE [Explained]_vars
  <2> SUFFICES ASSUME Next PROVE Explained
    BY <1>1
  <2>1. CASE UNCHANGED <<session, retired>>
    BY <2>1
  <2>2. ASSUME NEW u \in Sessions, Opens(u) PROVE Explained
    BY <1>1, <2>2 DEF Opens, Inv, TypeOK
  <2>3. ASSUME NEW p \in Requests, pc'[p] = "idle", Renews(p) PROVE Explained
    BY <1>1, <2>3 DEF Renews, Save, Inv, TypeOK, Knows, SessionKnown, HoldsSession
  <2>4. ASSUME NEW p \in Requests, Ends(p) PROVE Explained
    <3>1. Revoked(loc[p].sessionRow).revoked
      BY <1>1, <2>4 DEF Ends, Revoked, SessionRow, Inv, Knows, SessionKnown, HoldsSession
    <3> QED
      BY <1>1, <2>4, <3>1 DEF Ends, Save, Inv, TypeOK
  <2>5. ASSUME NEW a, EndsAll(a) PROVE Explained
    BY <1>1, <2>5, RevokedExceptRows DEF EndsAll, Inv
  <2> QED
    BY <1>1, <2>1, <2>2, <2>3, <2>4, <2>5, SessionSteps
<1> QED
  BY <1>1, Invariance, PTL DEF Spec, RevivedOnlyByOverlappingRefresh

(* A session is ended by its owner, by an administrator or by the reset of   *)
(* its owner's password, even by rows read long before.                      *)
THEOREM EndSafe == Spec => EndedByItsOwner
<1> DEFINE Owned ==
        \A s \in Sessions :
            session[s] # Nil /\ ~session[s].revoked /\ session'[s].revoked =>
                \E p \in Requests :
                    /\ pc[p] \in {"revoking", "revokingAll", "resetting"} /\ pc'[p] = "idle"
                    /\ session[s].account \in {loc[p].actor, loc[p].account}
                        \/ loc[p].actor \in Admins
<1>1. ASSUME Inv, [Next]_vars PROVE [Owned]_vars
  <2> SUFFICES ASSUME Next PROVE Owned
    BY <1>1
  <2>1. CASE UNCHANGED <<session, retired>>
    BY <2>1
  <2>2. ASSUME NEW u \in Sessions, Opens(u) PROVE Owned
    BY <1>1, <2>2 DEF Opens, Inv, TypeOK
  <2>3. ASSUME NEW p \in Requests, Renews(p) PROVE Owned
    <3>1. PICK t \in FreshTokens : Save(loc[p].session, Renewed(loc[p].sessionRow, t))
      BY <2>3 DEF Renews
    <3>2. ~Renewed(loc[p].sessionRow, t).revoked
      BY <1>1, <2>3 DEF Renews, Renewed, SessionRow, Inv, Knows, SessionKnown, HoldsSession
    <3> QED
      BY <1>1, <3>1, <3>2 DEF Save, Inv, TypeOK
  <2>4. ASSUME NEW p \in Requests, pc'[p] = "idle", Ends(p) PROVE Owned
    <3>1. /\ pc[p] = "revoking"
          /\ \A u \in Sessions \ {loc[p].session} : session'[u] = session[u]
      BY <1>1, <2>4 DEF Ends, Save, Inv, TypeOK
    <3>2. \/ session[loc[p].session].account = loc[p].actor
          \/ loc[p].actor \in Admins
      BY <1>1, <3>1 DEF Inv, Knows, SessionKnown, HoldsSession
    <3> QED
      BY <2>4, <3>1, <3>2
  <2>5. ASSUME NEW p \in Requests, pc[p] \in {"revokingAll", "resetting"}, pc'[p] = "idle",
               EndsAll(loc[p].account)
        PROVE  Owned
    BY <1>1, <2>5, RevokedExceptRows DEF EndsAll, Inv
  <2> QED
    BY <1>1, <2>1, <2>2, <2>3, <2>4, <2>5, SessionSteps
<1> QED
  BY <1>1, Invariance, PTL DEF Spec, EndedByItsOwner
=============================================================================
