------------------------- MODULE RegistrationProofs -------------------------
(* Theorems about Registration, for every value of its constants. *)
EXTENDS Registration, TLAPS

-----------------------------------------------------------------------------
(* The inductive invariant *)

(* The rows of users, accounts, sessions and password resets fit together. *)
Members ==
    /\ session \cup reset \subseteq account
    /\ account \subseteq issued /\ Consumed \subseteq account
    /\ \A u \in account : user[u] # Nil
    /\ \A u \in Ids : user[u] # Nil => u \in issued

InSaga(p) == pc[p] \in SagaSteps

(* Each saga works on a user of its own. *)
Separate == \A p, q \in Requests : InSaga(p) /\ InSaga(q) /\ loc[p].id = loc[q].id => p = q

(* What a request knows of the rows it has read, by where it stands. *)
Names(p) ==
    /\ loc[p].invitation \in Invitations
    /\ invitation[loc[p].invitation] # Nil
    /\ loc[p].recipient = invitation[loc[p].invitation].recipient
InviterKnows(p) ==
    pc[p] = "invite" =>
        /\ loc[p].recipient \in Recipients
        /\ \A i \in loc[p].known : /\ invitation[i] # Nil
                                   /\ invitation[i] # NewInvitation(loc[p].recipient)
WriterKnows(p) ==
    pc[p] \in {"revoke", "use"} =>
        /\ loc[p].invitation \in Invitations /\ loc[p].row \in Row
        /\ invitation[loc[p].invitation] # Nil
        /\ loc[p].row.recipient = invitation[loc[p].invitation].recipient
SagaKnows(p) ==
    /\ pc[p] \in {"createUser", "insertUser"} \cup SagaSteps => Names(p)
    /\ InSaga(p) => /\ loc[p].id \in Ids
                    /\ loc[p].id \in issued \ Consumed
                    /\ user[loc[p].id] = loc[p].recipient
    /\ pc[p] \in {"consume", "use", "deleteAccount"} => loc[p].id \in account
    /\ pc[p] \in {"createAccount", "deleteUser"} => loc[p].id \notin account
    /\ pc[p] \in {"login", "reset"} => loc[p].id \in Ids
Knows(p) == InviterKnows(p) /\ WriterKnows(p) /\ SagaKnows(p)

(* A used invitation admitted somebody whose saga ran to its end. *)
Admits ==
    \A i \in Invitations :
        invitation[i] # Nil /\ invitation[i].status = "USED" =>
            \E u \in Consumed : user[u] = invitation[i].recipient

Inv ==
    /\ TypeOK /\ Members /\ Separate /\ Admits /\ LeftoversExplained
    /\ \A p \in Requests : Knows(p)

-----------------------------------------------------------------------------
(* Types *)

(* The locals of a request that is not being served. *)
LEMMA NoLocalsType == NoLocals \in Local
  BY DEF NoLocals, Local

(* Every step keeps the types of the rows and of the locals; what a request  *)
(* knows of its locals is what makes the rows it writes well-formed.         *)
LEMMA TypeStep ==
    ASSUME Inv, Next
    PROVE  TypeOK'
<1> USE DEF TypeOK, tables, Labels, SagaSteps, Finish, Fails
<1>1. ASSUME NEW p \in Requests, InviteFind(p) PROVE TypeOK'
  <2>1. PICK recipient \in Recipients :
            Holding(p, [NoLocals EXCEPT !.recipient = recipient, !.known = Written])
    BY <1>1 DEF InviteFind
  <2>2. [NoLocals EXCEPT !.recipient = recipient, !.known = Written] \in Local
    BY DEF Local, NoLocals, Written
  <2> QED
    BY <1>1, <2>1, <2>2 DEF InviteFind, Inv, Goto, Holding
<1>2. ASSUME NEW p \in Requests, InviteCreate(p) PROVE TypeOK'
  <2>1. NewInvitation(loc[p].recipient) \in Row
    BY <1>2 DEF InviteCreate, NewInvitation, Row, Statuses, Inv, Knows, InviterKnows
  <2> QED
    BY <1>2, <2>1, NoLocalsType DEF InviteCreate, Written, Inv, Goto, Holding
<1>3. ASSUME NEW p \in Requests, RevokeFind(p) PROVE TypeOK'
  <2>1. PICK i \in Invitations :
            invitation[i] # Nil /\ Holding(p, [NoLocals EXCEPT !.invitation = i, !.row = invitation[i]])
    BY <1>3 DEF RevokeFind, Open
  <2>2. [NoLocals EXCEPT !.invitation = i, !.row = invitation[i]] \in Local
    BY <2>1 DEF Local, NoLocals, Inv
  <2> QED
    BY <1>3, <2>1, <2>2 DEF RevokeFind, Inv, Goto, Holding
<1>4. ASSUME NEW p \in Requests, RevokeWrite(p) PROVE TypeOK'
  <2>1. RevokedRow(loc[p].row) \in Row
    BY <1>4 DEF RevokeWrite, RevokedRow, Row, Statuses, Inv, Knows, WriterKnows
  <2> QED
    BY <1>4, <2>1, NoLocalsType DEF RevokeWrite, Inv, Goto, Holding
<1>5. ASSUME NEW p \in Requests, RegisterValidate(p) PROVE TypeOK'
  <2>1. PICK i \in Invitations :
            /\ invitation[i] # Nil
            /\ Holding(p, [NoLocals EXCEPT !.invitation = i, !.recipient = invitation[i].recipient])
    BY <1>5 DEF RegisterValidate, Open
  <2>2. [NoLocals EXCEPT !.invitation = i, !.recipient = invitation[i].recipient] \in Local
    BY <2>1 DEF Local, NoLocals, Row, Inv
  <2> QED
    BY <1>5, <2>1, <2>2 DEF RegisterValidate, Inv, Goto, Holding
<1>6. ASSUME NEW p \in Requests, CreateUserFind(p) PROVE TypeOK'
  BY <1>6, NoLocalsType DEF CreateUserFind, Inv, Goto, Holding
<1>7. ASSUME NEW p \in Requests, CreateUserInsert(p) PROVE TypeOK'
  <2>1. loc[p].recipient \in Recipients
    BY <1>7 DEF CreateUserInsert, Row, Inv, Knows, SagaKnows, Names
  <2>2. \A u \in Ids : [loc[p] EXCEPT !.id = u] \in Local
    BY DEF Local, Inv
  <2> QED
    BY <1>7, <2>1, <2>2, NoLocalsType DEF CreateUserInsert, Inv, Goto, Holding
<1>8. ASSUME NEW p \in Requests, CreateAccount(p) PROVE TypeOK'
  BY <1>8, NoLocalsType DEF CreateAccount, Inv, Knows, SagaKnows, InSaga, Goto, Holding
<1>9. ASSUME NEW p \in Requests, ConsumeFind(p) PROVE TypeOK'
  <2>1. CASE Open(loc[p].invitation)
    <3>1. [loc[p] EXCEPT !.row = invitation[loc[p].invitation]] \in Local
      BY <1>9, <2>1 DEF ConsumeFind, Open, Local, Inv, Knows, SagaKnows, Names
    <3> QED
      BY <1>9, <2>1, <3>1 DEF ConsumeFind, Inv, Goto, Holding
  <2> QED
    BY <1>9, <2>1 DEF ConsumeFind, Inv, Goto, Holding
<1>10. ASSUME NEW p \in Requests, ConsumeWrite(p) PROVE TypeOK'
  <2>1. Used(loc[p].row) \in Row /\ loc[p].id \in Ids /\ loc[p].invitation \in Invitations
    BY <1>10 DEF ConsumeWrite, Used, Row, Statuses, Inv, Knows, WriterKnows, SagaKnows, InSaga
  <2> QED
    BY <1>10, <2>1, NoLocalsType DEF ConsumeWrite, Inv, Goto, Holding
<1>11. ASSUME NEW p \in Requests, DeleteAccount(p) PROVE TypeOK'
  <2>1. loc[p].id \in Ids
    BY <1>11 DEF DeleteAccount, Inv, Knows, SagaKnows, InSaga
  <2> QED
    BY <1>11, <2>1, NoLocalsType DEF DeleteAccount, CompensationFails, Inv, Goto, Holding
<1>12. ASSUME NEW p \in Requests, DeleteUser(p) PROVE TypeOK'
  <2>1. loc[p].id \in Ids
    BY <1>12 DEF DeleteUser, Inv, Knows, SagaKnows, InSaga
  <2> QED
    BY <1>12, <2>1, NoLocalsType DEF DeleteUser, CompensationFails, Inv, Goto, Holding
<1>13. ASSUME NEW p \in Requests, LoginFind(p) PROVE TypeOK'
  <2>1. PICK u \in account : Holding(p, [NoLocals EXCEPT !.id = u])
    BY <1>13 DEF LoginFind
  <2>2. [NoLocals EXCEPT !.id = u] \in Local
    BY DEF Local, NoLocals, Inv
  <2> QED
    BY <1>13, <2>1, <2>2 DEF LoginFind, Inv, Goto, Holding
<1>14. ASSUME NEW p \in Requests, LoginCreate(p) PROVE TypeOK'
  BY <1>14, NoLocalsType DEF LoginCreate, Inv, Knows, SagaKnows, Goto, Holding
<1>15. ASSUME NEW p \in Requests, Crash(p) PROVE TypeOK'
  BY <1>15, NoLocalsType DEF Crash, Inv, Knows, SagaKnows, InSaga, Goto, Holding
<1>16. ASSUME NEW i \in Invitations, Expire(i) PROVE TypeOK'
  BY <1>16, NoLocalsType DEF Expire, Inv, Goto, Holding
<1>17. ASSUME NEW p \in Requests, RequestResetFind(p) PROVE TypeOK'
  <2>1. PICK u \in account : Holding(p, [NoLocals EXCEPT !.id = u])
    BY <1>17 DEF RequestResetFind
  <2>2. [NoLocals EXCEPT !.id = u] \in Local
    BY DEF Local, NoLocals, Inv
  <2> QED
    BY <1>17, <2>1, <2>2 DEF RequestResetFind, Inv, Goto, Holding
<1>18. ASSUME NEW p \in Requests, RequestResetCommit(p) PROVE TypeOK'
  BY <1>18, NoLocalsType DEF RequestResetCommit, Inv, Knows, SagaKnows, Goto, Holding
<1> QED
  BY <1>1, <1>2, <1>3, <1>4, <1>5, <1>6, <1>7, <1>8, <1>9, <1>10, <1>11, <1>12, <1>13,
     <1>14, <1>15, <1>16, <1>17, <1>18 DEF Next

-----------------------------------------------------------------------------
(* The invitations *)

(* What a step may do to the invitations. *)
InvitationsEvolve ==
    \A i \in Invitations :
        invitation[i] # Nil =>
            /\ invitation'[i] # Nil
            /\ invitation'[i].recipient = invitation[i].recipient
            /\ invitation[i].status # "PENDING" => invitation'[i].status # "PENDING"

(* Three actions write invitations. *)
LEMMA InvitationWriters ==
    ASSUME Next
    PROVE  invitation' = invitation \/ \E p \in Requests :
               InviteCreate(p) \/ RevokeWrite(p) \/ ConsumeWrite(p)
  BY DEF Next, InviteFind, RevokeFind, RegisterValidate, CreateUserFind, CreateUserInsert,
         CreateAccount, ConsumeFind, DeleteAccount, DeleteUser, CompensationFails, LoginFind,
         LoginCreate, RequestResetFind, RequestResetCommit, Crash, Expire, Fails, tables

(* Invitations are inserted under new identifiers, keep their recipient, and *)
(* are written back with a status that is final.                             *)
LEMMA EvolveStep ==
    ASSUME Inv, Next
    PROVE  InvitationsEvolve
<1> USE NilIsFresh DEF TypeOK, Row, Statuses, tables
<1>1. ASSUME invitation' = invitation PROVE InvitationsEvolve
  BY <1>1 DEF InvitationsEvolve
<1>2. ASSUME NEW p \in Requests, InviteCreate(p) PROVE InvitationsEvolve
  BY <1>2 DEF InviteCreate, Written, NewInvitation, Inv, InvitationsEvolve
<1>3. ASSUME NEW p \in Requests, RevokeWrite(p) PROVE InvitationsEvolve
  BY <1>3 DEF RevokeWrite, RevokedRow, Inv, Knows, WriterKnows, InvitationsEvolve
<1>4. ASSUME NEW p \in Requests, ConsumeWrite(p) PROVE InvitationsEvolve
  <2>1. CASE invitation' = [invitation EXCEPT ![loc[p].invitation] = Used(loc[p].row)]
    BY <1>4, <2>1 DEF ConsumeWrite, Used, Inv, Knows, WriterKnows, InvitationsEvolve
  <2> QED
    BY <1>1, <1>4, <2>1 DEF ConsumeWrite, Fails
<1>5. invitation' = invitation \/ \E p \in Requests :
          InviteCreate(p) \/ RevokeWrite(p) \/ ConsumeWrite(p)
  BY InvitationWriters
<1> QED
  BY <1>1, <1>2, <1>3, <1>4, <1>5

-----------------------------------------------------------------------------
(* Frames: what a step of p leaves to the others *)

(* The other requests stand where they stood. *)
OthersStay(p) == \A q \in Requests \ {p} : pc'[q] = pc[q] /\ loc'[q] = loc[q]

(* The rows of other requests' users stay. *)
OthersUsersStay(p) ==
    \A q \in Requests \ {p} : InSaga(q) =>
        LET u == loc[q].id IN
        /\ user'[u] = user[u]
        /\ u \in account' <=> u \in account
        /\ u \in Consumed' <=> u \in Consumed

(* What a request knows is not disturbed by the steps of the others.         *)
LEMMA OthersKnow ==
    ASSUME Inv, TypeOK', InvitationsEvolve, issued \subseteq issued',
           NEW p, OthersStay(p), OthersUsersStay(p)
    PROVE  \A q \in Requests \ {p} : Knows(q)'
<1> SUFFICES ASSUME NEW q \in Requests \ {p} PROVE Knows(q)'
  OBVIOUS
<1>1. Knows(q) /\ pc'[q] = pc[q] /\ loc'[q] = loc[q]
  BY DEF Inv, OthersStay
<1>2. InviterKnows(q)'
  BY <1>1, NilIsFresh DEF Knows, InviterKnows, InvitationsEvolve, NewInvitation, Inv, TypeOK, Row,
                          Local, Statuses
<1>3. WriterKnows(q)'
  BY <1>1 DEF Knows, WriterKnows, InvitationsEvolve
<1>4. pc[q] \in {"createUser", "insertUser"} \cup SagaSteps => Names(q)'
  BY <1>1 DEF Knows, SagaKnows, Names, InvitationsEvolve
<1>5. InSaga(q) => /\ loc[q].id \in Ids
                   /\ loc[q].id \in issued' \ Consumed'
                   /\ user'[loc[q].id] = loc[q].recipient
  BY <1>1 DEF Knows, SagaKnows, OthersUsersStay
<1>6. /\ pc[q] \in {"consume", "use", "deleteAccount"} => loc[q].id \in account'
      /\ pc[q] \in {"createAccount", "deleteUser"} => loc[q].id \notin account'
      /\ pc[q] \in {"login", "reset"} => loc[q].id \in Ids
  BY <1>1 DEF Knows, SagaKnows, OthersUsersStay, InSaga, SagaSteps
<1> QED
  BY <1>1, <1>2, <1>3, <1>4, <1>5, <1>6 DEF Knows, SagaKnows, InSaga

(* The user of a saga in progress is nobody else's. *)
LEMMA OwnUser ==
    ASSUME Inv, NEW p \in Requests, InSaga(p),
           \A u \in Ids \ {loc[p].id} :
               /\ user'[u] = user[u]
               /\ u \in account' <=> u \in account
               /\ u \in Consumed' <=> u \in Consumed
    PROVE  OthersUsersStay(p)
  BY DEF OthersUsersStay, Inv, Separate, Knows, SagaKnows

(* Whose registration ran to its end is a matter of the history alone. *)
LEMMA ConsumedStays ==
    ASSUME admitted' = admitted
    PROVE  Consumed' = Consumed
  BY DEF Consumed

(* Users, accounts, what refers to them and histories stay as they are. *)
RowsStay == UNCHANGED <<user, account, session, reset, issued, admitted>>

(* A saga that goes on works on the user it worked on. *)
SagaGoesOn(p) == (InSaga(p) => InSaga(p)') /\ (InSaga(p)' => InSaga(p) /\ loc'[p].id = loc[p].id)

(* Such a step keeps the invariant when it keeps what p knows. *)
LEMMA QuietStep ==
    ASSUME Inv, TypeOK', InvitationsEvolve, NEW p \in Requests, OthersStay(p), RowsStay,
           broken' = broken, SagaGoesOn(p), Knows(p)', Admits'
    PROVE  Inv'
<1>1. Members' /\ OthersUsersStay(p)
  BY ConsumedStays DEF Inv, Members, RowsStay, OthersUsersStay
<1>2. \A q \in Requests : Knows(q)'
  BY <1>1, OthersKnow DEF RowsStay
<1>3. \A q \in Requests :
          /\ InSaga(q)' <=> InSaga(q)
          /\ InSaga(q) => loc'[q].id = loc[q].id
  BY DEF OthersStay, SagaGoesOn, InSaga
<1>4. Separate'
  BY <1>3 DEF Separate, Inv
<1>5. Registering' = Registering
  BY <1>3 DEF Registering, InSaga
<1>6. LeftoversExplained'
  BY <1>5, ConsumedStays DEF LeftoversExplained, Inv, RowsStay
<1> QED
  BY <1>1, <1>2, <1>4, <1>6 DEF Inv

(* A used invitation keeps its member as long as the invitations stay. *)
LEMMA AdmitsStays ==
    ASSUME Admits, invitation' = invitation,
           \A u \in Consumed : u \in Consumed' /\ user'[u] = user[u]
    PROVE  Admits'
  BY DEF Admits

-----------------------------------------------------------------------------
(* Steps about the invitations *)

(* A request that is no saga, before and after its step. *)
LEMMA InviteFindInv ==
    ASSUME Inv, TypeOK', InvitationsEvolve, NEW p \in Requests, InviteFind(p)
    PROVE  Inv'
<1>1. PICK recipient \in Recipients :
          /\ PendingFor(recipient) = {}
          /\ loc' = [loc EXCEPT ![p] = [NoLocals EXCEPT !.recipient = recipient, !.known = Written]]
  BY DEF InviteFind, Holding
<1>2. /\ pc[p] = "idle" /\ pc'[p] = "invite"
      /\ loc'[p].recipient = recipient /\ loc'[p].known = Written
      /\ UNCHANGED <<tables, broken>>
  BY <1>1 DEF InviteFind, Idle, Goto, Inv, TypeOK, NoLocals
<1>3. OthersStay(p)
  BY <1>1 DEF InviteFind, Goto, OthersStay, Inv, TypeOK
<1>4. Knows(p)'
  BY <1>1, <1>2 DEF Knows, InviterKnows, WriterKnows, SagaKnows, InSaga, SagaSteps,
                    PendingFor, Written, NewInvitation, tables
<1>5. Admits' /\ RowsStay /\ SagaGoesOn(p)
  BY <1>2, AdmitsStays, ConsumedStays DEF Inv, RowsStay, SagaGoesOn, InSaga, SagaSteps, tables
<1> QED
  BY <1>2, <1>3, <1>4, <1>5, QuietStep

(* An insertion adds a pending invitation, which says nothing of members. *)
LEMMA InviteCreateInv ==
    ASSUME Inv, TypeOK', InvitationsEvolve, NEW p \in Requests, InviteCreate(p)
    PROVE  Inv'
<1>1. PICK i \in Invitations : invitation' = [invitation EXCEPT ![i] = NewInvitation(loc[p].recipient)]
  BY DEF InviteCreate
<1>2. /\ pc[p] = "invite" /\ pc'[p] = "idle" /\ OthersStay(p) /\ RowsStay /\ broken' = broken
  BY DEF InviteCreate, Finish, Goto, Holding, OthersStay, RowsStay, Inv, TypeOK
<1>3. Knows(p)' /\ SagaGoesOn(p)
  BY <1>2 DEF Knows, InviterKnows, WriterKnows, SagaKnows, InSaga, SagaSteps, SagaGoesOn
<1>4. Admits'
  BY <1>1, <1>2, ConsumedStays DEF Admits, Inv, TypeOK, NewInvitation, RowsStay
<1> QED
  BY <1>2, <1>3, <1>4, QuietStep

(* A revocation remembers the row it read as pending. *)
LEMMA RevokeFindInv ==
    ASSUME Inv, TypeOK', InvitationsEvolve, NEW p \in Requests, RevokeFind(p)
    PROVE  Inv'
<1>1. PICK i \in Invitations :
          /\ invitation[i] # Nil
          /\ loc' = [loc EXCEPT ![p] = [NoLocals EXCEPT !.invitation = i, !.row = invitation[i]]]
  BY DEF RevokeFind, Open, Holding
<1>2. /\ pc[p] = "idle" /\ pc'[p] = "revoke"
      /\ loc'[p].invitation = i /\ loc'[p].row = invitation[i]
      /\ UNCHANGED <<tables, broken>>
  BY <1>1 DEF RevokeFind, Idle, Goto, Inv, TypeOK, NoLocals
<1>3. OthersStay(p)
  BY <1>1 DEF RevokeFind, Goto, OthersStay, Inv, TypeOK
<1>4. Knows(p)'
  BY <1>1, <1>2 DEF Knows, InviterKnows, WriterKnows, SagaKnows, InSaga, SagaSteps, Inv, TypeOK,
                    tables
<1>5. Admits' /\ RowsStay /\ SagaGoesOn(p)
  BY <1>2, AdmitsStays, ConsumedStays DEF Inv, RowsStay, SagaGoesOn, InSaga, SagaSteps, tables
<1> QED
  BY <1>2, <1>3, <1>4, <1>5, QuietStep

(* A revocation writes a status that is not USED. *)
LEMMA RevokeWriteInv ==
    ASSUME Inv, TypeOK', InvitationsEvolve, NEW p \in Requests, RevokeWrite(p)
    PROVE  Inv'
<1>1. /\ pc[p] = "revoke" /\ pc'[p] = "idle" /\ OthersStay(p) /\ RowsStay /\ broken' = broken
  BY DEF RevokeWrite, Finish, Goto, Holding, OthersStay, RowsStay, Inv, TypeOK
<1>2. Knows(p)' /\ SagaGoesOn(p)
  BY <1>1 DEF Knows, InviterKnows, WriterKnows, SagaKnows, InSaga, SagaSteps, SagaGoesOn
<1>3. loc[p].row \in Row /\ loc[p].invitation \in Invitations
  BY <1>1 DEF Inv, Knows, WriterKnows
<1>4. Admits'
  BY <1>1, <1>3, ConsumedStays DEF RevokeWrite, RevokedRow, Row, Admits, Inv, TypeOK, RowsStay
<1> QED
  BY <1>1, <1>2, <1>4, QuietStep

(* The time an invitation expires changes no row. *)
LEMMA ExpireInv ==
    ASSUME Inv, TypeOK', NEW i \in Invitations, Expire(i)
    PROVE  Inv'
  BY ConsumedStays DEF Expire, tables, Inv, Members, Separate, Admits, LeftoversExplained,
         Registering, InSaga, Knows, InviterKnows, WriterKnows, SagaKnows, Names

-----------------------------------------------------------------------------
(* The steps of the saga that write nothing *)

(* The saga starts from an invitation that exists. *)
LEMMA RegisterValidateInv ==
    ASSUME Inv, TypeOK', InvitationsEvolve, NEW p \in Requests, RegisterValidate(p)
    PROVE  Inv'
<1>1. PICK i \in Invitations :
          /\ invitation[i] # Nil
          /\ loc' = [loc EXCEPT ![p] = [NoLocals EXCEPT !.invitation = i,
                                                        !.recipient = invitation[i].recipient]]
  BY DEF RegisterValidate, Open, Holding
<1>2. /\ pc[p] = "idle" /\ pc'[p] = "createUser"
      /\ loc'[p].invitation = i /\ loc'[p].recipient = invitation[i].recipient
      /\ UNCHANGED <<tables, broken>>
  BY <1>1 DEF RegisterValidate, Idle, Goto, Inv, TypeOK, NoLocals
<1>3. OthersStay(p)
  BY <1>1 DEF RegisterValidate, Goto, OthersStay, Inv, TypeOK
<1>4. Knows(p)'
  BY <1>1, <1>2 DEF Knows, InviterKnows, WriterKnows, SagaKnows, InSaga, SagaSteps, Names, tables
<1>5. Admits' /\ RowsStay /\ SagaGoesOn(p)
  BY <1>2, AdmitsStays, ConsumedStays DEF Inv, RowsStay, SagaGoesOn, InSaga, SagaSteps, tables
<1> QED
  BY <1>2, <1>3, <1>4, <1>5, QuietStep

(* The first look for the e-mail decides nothing yet. *)
LEMMA CreateUserFindInv ==
    ASSUME Inv, TypeOK', InvitationsEvolve, NEW p \in Requests, CreateUserFind(p)
    PROVE  Inv'
<1>1. /\ pc[p] = "createUser" /\ OthersStay(p) /\ UNCHANGED <<tables, broken>>
      /\ pc'[p] \in {"idle", "insertUser"}
      /\ pc'[p] = "insertUser" => loc'[p] = loc[p]
  BY DEF CreateUserFind, Finish, Goto, Holding, OthersStay, Inv, TypeOK
<1>2. Knows(p)'
  BY <1>1 DEF Inv, Knows, InviterKnows, WriterKnows, SagaKnows, InSaga, SagaSteps, Names, tables
<1>3. Admits' /\ RowsStay /\ SagaGoesOn(p)
  BY <1>1, AdmitsStays, ConsumedStays DEF Inv, RowsStay, SagaGoesOn, InSaga, SagaSteps, tables
<1> QED
  BY <1>1, <1>2, <1>3, QuietStep

(* A step of the saga that fails before it changed anything, or finds the    *)
(* invitation: the saga goes on, forward or back, from the rows it had.      *)
LEMMA SagaStays ==
    ASSUME Inv, TypeOK', InvitationsEvolve, NEW p \in Requests, OthersStay(p),
           UNCHANGED <<tables, broken>>, Knows(p)',
           InSaga(p), pc'[p] \in SagaSteps, loc'[p].id = loc[p].id
    PROVE  Inv'
<1>1. Admits' /\ RowsStay /\ SagaGoesOn(p)
  BY AdmitsStays, ConsumedStays DEF Inv, RowsStay, SagaGoesOn, InSaga, tables
<1> QED
  BY <1>1, QuietStep DEF tables

(* A statement that fails sends the saga back. *)
LEMMA FailsInv ==
    ASSUME Inv, TypeOK', InvitationsEvolve, NEW p \in Requests, broken' = broken,
           \/ pc[p] = "createAccount" /\ Fails(p, "deleteUser")
           \/ pc[p] \in {"consume", "use"} /\ Fails(p, "deleteAccount")
    PROVE  Inv'
<1>1. /\ OthersStay(p) /\ UNCHANGED <<tables, broken, loc>>
      /\ \/ pc[p] = "createAccount" /\ pc'[p] = "deleteUser"
         \/ pc[p] \in {"consume", "use"} /\ pc'[p] = "deleteAccount"
  BY DEF Fails, Goto, OthersStay, Inv, TypeOK
<1>2. Knows(p)'
  BY <1>1, ConsumedStays DEF Inv, Knows, InviterKnows, WriterKnows, SagaKnows, InSaga, SagaSteps,
                            Names, tables
<1> QED
  BY <1>1, <1>2, SagaStays DEF InSaga, SagaSteps

(* consume reads the invitation again: it may have been closed meanwhile. *)
LEMMA ConsumeFindInv ==
    ASSUME Inv, TypeOK', InvitationsEvolve, NEW p \in Requests, ConsumeFind(p)
    PROVE  Inv'
<1>1. /\ pc[p] = "consume" /\ Knows(p) /\ broken' = broken
      /\ loc[p].invitation \in Invitations /\ loc[p] \in Local
  BY DEF ConsumeFind, Inv, TypeOK, Knows, SagaKnows, SagaSteps, Names
<1>2. CASE Fails(p, "deleteAccount")
  BY <1>1, <1>2, FailsInv
<1>3. CASE ~Open(loc[p].invitation) /\ Goto(p, "deleteAccount") /\ UNCHANGED <<tables, loc>>
  <2>1. OthersStay(p) /\ UNCHANGED <<tables, broken, loc>> /\ pc'[p] = "deleteAccount"
    BY <1>1, <1>3 DEF Goto, OthersStay, Inv, TypeOK
  <2>2. Knows(p)'
    BY <1>1, <2>1, ConsumedStays DEF Knows, InviterKnows, WriterKnows, SagaKnows, InSaga, SagaSteps,
                                     Names, tables
  <2> QED
    BY <1>1, <2>1, <2>2, SagaStays DEF InSaga, SagaSteps
<1>4. CASE /\ Open(loc[p].invitation)
           /\ Holding(p, [loc[p] EXCEPT !.row = invitation[loc[p].invitation]])
           /\ Goto(p, "use")
           /\ UNCHANGED tables
  <2>1. /\ OthersStay(p) /\ UNCHANGED <<tables, broken>> /\ pc'[p] = "use"
        /\ loc'[p] = [loc[p] EXCEPT !.row = invitation[loc[p].invitation]]
    BY <1>1, <1>4 DEF Goto, Holding, OthersStay, Inv, TypeOK
  <2>2. /\ loc'[p].id = loc[p].id /\ loc'[p].invitation = loc[p].invitation
        /\ loc'[p].recipient = loc[p].recipient
        /\ loc'[p].row = invitation[loc[p].invitation]
    BY <1>1, <2>1 DEF Local
  <2>3. invitation[loc[p].invitation] \in Row
    BY <1>1, <1>4 DEF Open, Inv, TypeOK
  <2>4. Knows(p)'
    BY <1>1, <2>1, <2>2, <2>3, ConsumedStays
       DEF Knows, InviterKnows, WriterKnows, SagaKnows, InSaga, SagaSteps,
           Names, tables
  <2> QED
    BY <1>1, <2>1, <2>2, <2>4, SagaStays DEF InSaga, SagaSteps
<1> QED
  BY <1>2, <1>3, <1>4 DEF ConsumeFind

(* A login finds a user and an account, of which it keeps the name. *)
LEMMA LoginFindInv ==
    ASSUME Inv, TypeOK', InvitationsEvolve, NEW p \in Requests, LoginFind(p)
    PROVE  Inv'
<1>1. PICK u \in account : loc' = [loc EXCEPT ![p] = [NoLocals EXCEPT !.id = u]]
  BY DEF LoginFind, Holding
<1>2. /\ pc[p] = "idle" /\ pc'[p] = "login" /\ loc'[p].id = u /\ u \in Ids
      /\ OthersStay(p) /\ UNCHANGED <<tables, broken>>
  BY <1>1 DEF LoginFind, Idle, Goto, OthersStay, Inv, TypeOK, NoLocals
<1>3. Knows(p)'
  BY <1>2 DEF Knows, InviterKnows, WriterKnows, SagaKnows, InSaga, SagaSteps
<1>4. Admits' /\ RowsStay /\ SagaGoesOn(p)
  BY <1>2, AdmitsStays, ConsumedStays DEF Inv, RowsStay, SagaGoesOn, InSaga, SagaSteps, tables
<1> QED
  BY <1>2, <1>3, <1>4, QuietStep

(* A password reset finds an account, of which it keeps the name. *)
LEMMA RequestResetFindInv ==
    ASSUME Inv, TypeOK', InvitationsEvolve, NEW p \in Requests, RequestResetFind(p)
    PROVE  Inv'
<1>1. PICK u \in account : loc' = [loc EXCEPT ![p] = [NoLocals EXCEPT !.id = u]]
  BY DEF RequestResetFind, Holding
<1>2. /\ pc[p] = "idle" /\ pc'[p] = "reset" /\ loc'[p].id = u /\ u \in Ids
      /\ OthersStay(p) /\ UNCHANGED <<tables, broken>>
  BY <1>1 DEF RequestResetFind, Idle, Goto, OthersStay, Inv, TypeOK, NoLocals
<1>3. Knows(p)'
  BY <1>2 DEF Knows, InviterKnows, WriterKnows, SagaKnows, InSaga, SagaSteps
<1>4. Admits' /\ RowsStay /\ SagaGoesOn(p)
  BY <1>2, AdmitsStays, ConsumedStays DEF Inv, RowsStay, SagaGoesOn, InSaga, SagaSteps, tables
<1> QED
  BY <1>2, <1>3, <1>4, QuietStep

-----------------------------------------------------------------------------
(* The steps that write users, accounts and what refers to them *)

(* What remains of a registration that is over. *)
Explained(u) ==
    user[u] # Nil => \/ u \in Consumed /\ u \in account
                     \/ u \in broken
                     \/ u \in session \cup reset

(* The user a saga leaves behind when it ends is explained; users that are   *)
(* not the saga's stay as they were.                                         *)
LEMMA LeftoversStay ==
    ASSUME Inv, TypeOK', NEW p \in Requests, OthersStay(p), NEW u \in Ids,
           InSaga(p) => loc[p].id = u, InSaga(p)' => loc'[p].id = u,
           InSaga(p)' \/ Explained(u)' \/ (~InSaga(p) /\ (Explained(u) => Explained(u)')),
           \A v \in Ids \ {u} : Explained(v) => Explained(v)'
    PROVE  LeftoversExplained'
<1>1. \A v \in Ids \ {u} : v \in Registering => v \in Registering'
  BY DEF Registering, InSaga, OthersStay
<1>2. ~InSaga(p)' /\ u \in Registering /\ ~InSaga(p) => u \in Registering'
  BY DEF Registering, InSaga, OthersStay
<1>3. InSaga(p)' => u \in Registering'
  BY DEF Registering, InSaga
<1>4. \A v \in Ids \ Registering : Explained(v)
  BY DEF Inv, LeftoversExplained, Explained
<1>5. \A v \in Ids \ Registering' : Explained(v)'
  BY <1>1, <1>2, <1>3, <1>4
<1> QED
  BY <1>5 DEF LeftoversExplained, Explained

(* The steps of other sagas stay apart when p works on a user nobody has. *)
LEMMA SeparateStays ==
    ASSUME Inv, NEW p \in Requests, OthersStay(p),
           InSaga(p)' => \A q \in Requests \ {p} : InSaga(q) => loc[q].id # loc'[p].id
    PROVE  Separate'
  BY DEF Separate, OthersStay, InSaga, Inv

(* The unique index of users admits one e-mail once; the identifier is new,  *)
(* so it is no other saga's.                                                 *)
LEMMA CreateUserInsertInv ==
    ASSUME Inv, TypeOK', InvitationsEvolve, NEW p \in Requests, CreateUserInsert(p)
    PROVE  Inv'
<1>1. pc[p] = "insertUser" /\ broken' = broken /\ Knows(p) /\ loc[p] \in Local /\ ~InSaga(p)
  BY DEF CreateUserInsert, Inv, TypeOK, InSaga, SagaSteps
<1>2. CASE Finish(p) /\ UNCHANGED tables
  <2>1. pc'[p] = "idle" /\ OthersStay(p) /\ UNCHANGED <<tables, broken>>
    BY <1>1, <1>2 DEF Finish, Goto, Holding, OthersStay, Inv, TypeOK
  <2>2. Knows(p)' /\ SagaGoesOn(p)
    BY <1>1, <2>1 DEF Knows, InviterKnows, WriterKnows, SagaKnows, InSaga, SagaSteps, SagaGoesOn
  <2>3. Admits' /\ RowsStay
    BY <2>1, AdmitsStays, ConsumedStays DEF Inv, RowsStay, tables
  <2> QED
    BY <2>1, <2>2, <2>3, QuietStep
<1>3. CASE /\ \E u \in Ids \ issued :
                /\ user' = [user EXCEPT ![u] = loc[p].recipient]
                /\ issued' = issued \cup {u}
                /\ Holding(p, [loc[p] EXCEPT !.id = u])
           /\ Goto(p, "createAccount")
           /\ UNCHANGED <<invitation, account, session, reset, admitted>>
  <2>1. PICK u \in Ids \ issued :
                /\ user' = [user EXCEPT ![u] = loc[p].recipient]
                /\ issued' = issued \cup {u}
                /\ Holding(p, [loc[p] EXCEPT !.id = u])
    BY <1>3
  <2>2. /\ OthersStay(p) /\ pc'[p] = "createAccount" /\ loc'[p] = [loc[p] EXCEPT !.id = u]
    BY <1>3, <2>1 DEF Goto, Holding, OthersStay, Inv, TypeOK
  <2>3. /\ loc'[p].id = u /\ loc'[p].invitation = loc[p].invitation
        /\ loc'[p].recipient = loc[p].recipient
    BY <1>1, <2>2 DEF Local
  <2>4. /\ u \notin account /\ u \notin Consumed /\ user'[u] = loc[p].recipient
        /\ \A v \in Ids \ {u} : user'[v] = user[v]
        /\ UNCHANGED <<invitation, account, session, reset, Consumed, broken>>
    BY <1>1, <1>3, <2>1, ConsumedStays DEF Inv, Members, TypeOK
  <2>5. \A q \in Requests : InSaga(q) => loc[q].id \in Ids \ {u}
    BY <2>1 DEF Inv, Knows, SagaKnows
  <2>6. OthersUsersStay(p)
    BY <2>4, <2>5 DEF OthersUsersStay
  <2>7. Knows(p)'
    BY <1>1, <2>1, <2>2, <2>3, <2>4 DEF Knows, InviterKnows, WriterKnows, SagaKnows, InSaga,
                                        SagaSteps, Names
  <2>8. \A q \in Requests : Knows(q)'
    BY <2>1, <2>2, <2>6, <2>7, OthersKnow
  <2>9. Members'
    <3>1. \A v \in account : v \in Ids \ {u}
      BY <2>4 DEF Inv, TypeOK
    <3> QED
      BY <2>1, <2>4, <3>1 DEF Inv, Members
  <2>10. Separate'
    BY <2>2, <2>3, <2>5, SeparateStays
  <2>11. Admits'
    <3>1. \A v \in Consumed : v \in Consumed' /\ user'[v] = user[v]
      BY <2>4 DEF Inv, Members, TypeOK
    <3> QED
      BY <2>4, <3>1, AdmitsStays, ConsumedStays DEF Inv
  <2>12. LeftoversExplained'
    <3>1. InSaga(p)'
      BY <2>2 DEF InSaga, SagaSteps
    <3>2. \A v \in Ids \ {u} : Explained(v) => Explained(v)'
      BY <2>4 DEF Explained
    <3> QED
      BY <1>1, <2>1, <2>2, <2>3, <3>1, <3>2, LeftoversStay
  <2> QED
    BY <2>8, <2>9, <2>10, <2>11, <2>12 DEF Inv
<1> QED
  BY <1>2, <1>3 DEF CreateUserInsert

(* A saga that is left half-way, by a process that dies or a compensation    *)
(* that throws, leaves a user that is accounted for.                         *)
LEMMA SagaGivesUp ==
    ASSUME Inv, TypeOK', InvitationsEvolve, NEW p \in Requests, InSaga(p), Finish(p),
           UNCHANGED tables, broken \subseteq broken',
           loc[p].id \in broken' \cup session \cup reset
    PROVE  Inv'
<1>1. OthersStay(p) /\ pc'[p] = "idle"
  BY DEF Finish, Goto, Holding, OthersStay, Inv, TypeOK
<1>2. Knows(p)' /\ ~InSaga(p)'
  BY <1>1 DEF Knows, InviterKnows, WriterKnows, SagaKnows, InSaga, SagaSteps
<1>3. PICK u \in Ids : u = loc[p].id
  BY DEF Inv, Knows, SagaKnows
<1>4. Explained(u)' /\ \A v \in Ids : Explained(v) => Explained(v)'
  BY <1>3, ConsumedStays DEF Explained, tables
<1>5. LeftoversExplained'
  BY <1>1, <1>2, <1>3, <1>4, LeftoversStay
<1>6. Admits' /\ OthersUsersStay(p) /\ Separate' /\ Members'
  BY <1>1, <1>2, AdmitsStays, SeparateStays, ConsumedStays
     DEF Inv, OthersUsersStay, Members, tables
<1>7. \A q \in Requests : Knows(q)'
  BY <1>1, <1>2, <1>6, OthersKnow DEF tables
<1> QED
  BY <1>5, <1>6, <1>7 DEF Inv

(* A compensation that the database refuses. *)
LEMMA CompensationFailsInv ==
    ASSUME Inv, TypeOK', InvitationsEvolve, NEW p \in Requests, InSaga(p), CompensationFails(p)
    PROVE  Inv'
  BY SagaGivesUp DEF CompensationFails

(* A step of the saga of p, on its user u, that leaves the table of users    *)
(* alone; what it does to the account is what the next step expects.         *)
LEMMA SagaWrite ==
    ASSUME Inv, TypeOK', InvitationsEvolve, NEW p \in Requests, OthersStay(p), InSaga(p),
           NEW u, u = loc[p].id,
           UNCHANGED <<user, session, reset, issued, broken>>,
           InSaga(p)' => loc'[p].id = u,
           InSaga(p)' \/ Explained(u)',
           \A v \in Ids \ {u} :
               /\ v \in account' <=> v \in account
               /\ v \in Consumed' <=> v \in Consumed,
           session \cup reset \subseteq account', Consumed' \subseteq account',
           Knows(p)', Admits'
    PROVE  Inv'
<1>1. u \in Ids /\ u \in issued /\ user[u] # Nil
  <2>1. SagaKnows(p)
    BY DEF Inv, Knows
  <2>2. invitation[loc[p].invitation] \in Row /\ loc[p].recipient \in Recipients
    BY <2>1 DEF SagaKnows, InSaga, Names, Inv, TypeOK, Row
  <2> QED
    BY <2>1, <2>2, NilIsFresh DEF SagaKnows
<1>2. OthersUsersStay(p)
  BY OwnUser
<1>3. \A q \in Requests : Knows(q)'
  BY <1>2, OthersKnow
<1>4. Members'
  BY <1>1 DEF Inv, Members, TypeOK
<1>5. Separate'
  BY SeparateStays DEF Inv, Separate
<1>6. LeftoversExplained'
  <2>1. \A v \in Ids \ {u} : Explained(v) => Explained(v)'
    BY DEF Explained
  <2> QED
    BY <1>1, <2>1, LeftoversStay
<1> QED
  BY <1>3, <1>4, <1>5, <1>6 DEF Inv

(* The account is inserted for a user that exists. *)
LEMMA CreateAccountInv ==
    ASSUME Inv, TypeOK', InvitationsEvolve, NEW p \in Requests, CreateAccount(p)
    PROVE  Inv'
<1>1. pc[p] = "createAccount" /\ broken' = broken /\ Knows(p) /\ InSaga(p)
  BY DEF CreateAccount, Inv, InSaga, SagaSteps
<1>2. CASE Fails(p, "deleteUser")
  BY <1>1, <1>2, FailsInv
<1>3. CASE /\ account' = account \cup {loc[p].id}
           /\ Goto(p, "consume")
           /\ UNCHANGED <<invitation, user, session, reset, issued, admitted, loc>>
  <2>1. OthersStay(p) /\ pc'[p] = "consume" /\ Consumed' = Consumed
    BY <1>3, ConsumedStays DEF Goto, OthersStay, Inv, TypeOK
  <2>2. Knows(p)'
    BY <1>1, <1>3, <2>1 DEF Knows, InviterKnows, WriterKnows, SagaKnows, InSaga, SagaSteps, Names
  <2>3. Admits'
    BY <1>3, AdmitsStays, ConsumedStays DEF Inv
  <2>4. InSaga(p)' /\ session \cup reset \subseteq account' /\ Consumed' \subseteq account'
    BY <1>3, <2>1 DEF InSaga, SagaSteps, Inv, Members
  <2> QED
    BY <1>1, <1>3, <2>1, <2>2, <2>3, <2>4, SagaWrite
<1> QED
  BY <1>2, <1>3 DEF CreateAccount

(* The registration is over and its invitation USED in one step. *)
LEMMA ConsumeWriteInv ==
    ASSUME Inv, TypeOK', InvitationsEvolve, NEW p \in Requests, ConsumeWrite(p)
    PROVE  Inv'
<1>1. /\ pc[p] = "use" /\ broken' = broken /\ Knows(p) /\ InSaga(p)
      /\ loc[p].id \in account /\ loc[p].id \in Ids
  BY DEF ConsumeWrite, Inv, InSaga, SagaSteps, Knows, SagaKnows
<1>2. CASE Fails(p, "deleteAccount")
  BY <1>1, <1>2, FailsInv
<1>3. CASE /\ invitation' = [invitation EXCEPT ![loc[p].invitation] = Used(loc[p].row)]
           /\ admitted' = [admitted EXCEPT ![loc[p].invitation] = @ \cup {loc[p].id}]
           /\ Finish(p)
           /\ UNCHANGED <<user, account, session, reset, issued>>
  <2>0. Consumed' = Consumed \cup {loc[p].id}
    <3>1. loc[p].invitation \in Invitations
      BY <1>1 DEF Knows, WriterKnows
    <3>2. \A i \in Invitations : admitted'[i] = IF i = loc[p].invitation
                                               THEN admitted[i] \cup {loc[p].id} ELSE admitted[i]
      BY <1>3 DEF Inv, TypeOK
    <3>3. ASSUME NEW u \in Consumed' PROVE u \in Consumed \cup {loc[p].id}
      <4>1. PICK i \in Invitations : u \in admitted'[i]
        BY <3>3 DEF Consumed
      <4>2. u \in admitted[i] \/ u = loc[p].id
        BY <3>2, <4>1
      <4> QED
        BY <4>1, <4>2 DEF Consumed
    <3>4. ASSUME NEW u \in Consumed \cup {loc[p].id} PROVE u \in Consumed'
      <4>1. CASE u = loc[p].id
        <5>1. u \in admitted'[loc[p].invitation]
          BY <3>1, <3>2, <4>1
        <5> QED
          BY <3>1, <5>1 DEF Consumed
      <4>2. CASE u \in Consumed
        <5>1. PICK i \in Invitations : u \in admitted[i]
          BY <4>2 DEF Consumed
        <5>2. u \in admitted'[i]
          BY <3>2, <5>1
        <5> QED
          BY <5>1, <5>2 DEF Consumed
      <4> QED
        BY <4>1, <4>2
    <3> QED
      BY <3>3, <3>4
  <2>1. OthersStay(p) /\ pc'[p] = "idle"
    BY <1>3 DEF Finish, Goto, Holding, OthersStay, Inv, TypeOK
  <2>2. Knows(p)' /\ ~InSaga(p)'
    BY <2>1 DEF Knows, InviterKnows, WriterKnows, SagaKnows, InSaga, SagaSteps
  <2>3. /\ loc[p].invitation \in Invitations /\ loc[p].row \in Row
        /\ user[loc[p].id] = invitation[loc[p].invitation].recipient
        /\ loc[p].row.recipient = invitation[loc[p].invitation].recipient
    BY <1>1 DEF Knows, WriterKnows, SagaKnows, InSaga, Names
  <2>4. Used(loc[p].row).recipient = user[loc[p].id]
    BY <2>3 DEF Used, Row
  <2>5. Admits'
    <3> SUFFICES ASSUME NEW i \in Invitations, invitation'[i] # Nil, invitation'[i].status = "USED"
                 PROVE  \E u \in Consumed' : user'[u] = invitation'[i].recipient
      BY DEF Admits
    <3>1. CASE i = loc[p].invitation
      BY <1>3, <2>0, <2>4, <3>1 DEF Inv, TypeOK
    <3>2. CASE i # loc[p].invitation
      BY <1>3, <2>0, <3>2 DEF Inv, TypeOK, Admits
    <3> QED
      BY <3>1, <3>2
  <2>6. PICK u : u = loc[p].id
    OBVIOUS
  <2>7. Explained(u)' /\ session \cup reset \subseteq account' /\ Consumed' \subseteq account'
    BY <1>1, <1>3, <2>0, <2>6 DEF Explained, Inv, Members
  <2> QED
    BY <1>1, <1>3, <2>0, <2>1, <2>2, <2>5, <2>6, <2>7, SagaWrite
<1> QED
  BY <1>2, <1>3 DEF ConsumeWrite

(* An account goes when nothing refers to it; otherwise the saga ends there. *)
LEMMA DeleteAccountInv ==
    ASSUME Inv, TypeOK', InvitationsEvolve, NEW p \in Requests, DeleteAccount(p)
    PROVE  Inv'
<1>1. /\ pc[p] = "deleteAccount" /\ Knows(p) /\ InSaga(p)
      /\ loc[p].id \in Ids /\ loc[p].id \notin Consumed
  BY DEF DeleteAccount, Inv, InSaga, SagaSteps, Knows, SagaKnows
<1>2. CASE CompensationFails(p)
  BY <1>1, <1>2, CompensationFailsInv
<1>3. CASE Referenced(loc[p].id) /\ Finish(p) /\ UNCHANGED <<tables, broken>>
  BY <1>1, <1>3, SagaGivesUp DEF Referenced
<1>4. CASE /\ ~Referenced(loc[p].id)
           /\ account' = account \ {loc[p].id}
           /\ Goto(p, "deleteUser")
           /\ UNCHANGED <<invitation, user, session, reset, issued, admitted, broken, loc>>
  <2>1. OthersStay(p) /\ pc'[p] = "deleteUser" /\ Consumed' = Consumed
    BY <1>4, ConsumedStays DEF Goto, OthersStay, Inv, TypeOK
  <2>2. Knows(p)'
    BY <1>1, <1>4, <2>1 DEF Knows, InviterKnows, WriterKnows, SagaKnows, InSaga, SagaSteps, Names
  <2>3. InSaga(p)' /\ session \cup reset \subseteq account' /\ Consumed' \subseteq account'
    BY <1>1, <1>4, <2>1 DEF Referenced, InSaga, SagaSteps, Inv, Members
  <2>4. Admits'
    BY <1>4, <2>1, AdmitsStays DEF Inv
  <2> QED
    BY <1>1, <1>4, <2>1, <2>2, <2>3, <2>4, SagaWrite
<1> QED
  BY <1>2, <1>3, <1>4 DEF DeleteAccount

(* By then the account is gone, hence whatever referred to it. *)
LEMMA DeleteUserInv ==
    ASSUME Inv, TypeOK', InvitationsEvolve, NEW p \in Requests, DeleteUser(p)
    PROVE  Inv'
<1>1. PICK u : u = loc[p].id
  OBVIOUS
<1>2. /\ pc[p] = "deleteUser" /\ Knows(p) /\ InSaga(p)
      /\ u \in Ids /\ u \notin Consumed /\ u \notin account
  BY <1>1 DEF DeleteUser, Inv, InSaga, SagaSteps, Knows, SagaKnows
<1>3. CASE CompensationFails(p)
  BY <1>2, <1>3, CompensationFailsInv
<1>4. CASE /\ user' = [user EXCEPT ![u] = Nil]
           /\ Finish(p)
           /\ UNCHANGED <<invitation, account, session, reset, issued, admitted, broken>>
  <2>1. /\ user'[u] = Nil /\ \A v \in Ids \ {u} : user'[v] = user[v]
        /\ Consumed' = Consumed
    BY <1>2, <1>4, ConsumedStays DEF Inv, TypeOK
  <2>2. OthersStay(p) /\ pc'[p] = "idle"
    BY <1>4 DEF Finish, Goto, Holding, OthersStay, Inv, TypeOK
  <2>3. Knows(p)' /\ ~InSaga(p)'
    BY <2>2 DEF Knows, InviterKnows, WriterKnows, SagaKnows, InSaga, SagaSteps
  <2>4. OthersUsersStay(p)
    BY <1>1, <1>2, <1>4, <2>1, OwnUser
  <2>5. \A q \in Requests : Knows(q)'
    BY <1>4, <2>2, <2>3, <2>4, OthersKnow
  <2>6. Members'
    <3>1. \A v \in account : v \in Ids \ {u}
      BY <1>2 DEF Inv, TypeOK
    <3> QED
      BY <1>2, <1>4, <2>1, <3>1 DEF Inv, Members
  <2>7. Separate'
    BY <2>2, <2>3, SeparateStays
  <2>8. Admits'
    <3>1. \A v \in Consumed : v \in Consumed' /\ user'[v] = user[v]
      BY <1>2, <2>1 DEF Inv, Members, TypeOK
    <3> QED
      BY <1>4, <3>1, AdmitsStays DEF Inv
  <2>9. LeftoversExplained'
    <3>1. Explained(u)' /\ \A v \in Ids \ {u} : Explained(v) => Explained(v)'
      BY <1>4, <2>1 DEF Explained
    <3> QED
      BY <1>1, <1>2, <2>2, <2>3, <3>1, LeftoversStay
  <2> QED
    BY <2>5, <2>6, <2>7, <2>8, <2>9 DEF Inv
<1> QED
  BY <1>1, <1>3, <1>4 DEF DeleteUser

(* A request that adds a row referring to an account that is there. *)
LEMMA ReferenceWrite ==
    ASSUME Inv, TypeOK', InvitationsEvolve, NEW p \in Requests, pc[p] \in {"login", "reset"},
           Finish(p), UNCHANGED <<invitation, user, account, issued, admitted, broken>>,
           session \cup reset \subseteq session' \cup reset', session' \cup reset' \subseteq account
    PROVE  Inv'
<1>1. Consumed' = Consumed /\ ~InSaga(p)
  BY ConsumedStays DEF InSaga, SagaSteps
<1>2. OthersStay(p) /\ pc'[p] = "idle"
  BY DEF Finish, Goto, Holding, OthersStay, Inv, TypeOK
<1>3. Knows(p)' /\ ~InSaga(p)'
  BY <1>2 DEF Knows, InviterKnows, WriterKnows, SagaKnows, InSaga, SagaSteps
<1>4. Admits' /\ OthersUsersStay(p) /\ Separate' /\ Members'
  BY <1>1, <1>2, <1>3, AdmitsStays, SeparateStays DEF Inv, OthersUsersStay, Members
<1>5. \A q \in Requests : Knows(q)'
  BY <1>1, <1>2, <1>3, <1>4, OthersKnow
<1>6. LeftoversExplained'
  <2>1. \A v \in Ids : Explained(v) => Explained(v)'
    BY <1>1 DEF Explained
  <2>2. loc[p].id \in Ids
    BY DEF Inv, Knows, SagaKnows
  <2> QED
    BY <1>1, <1>2, <1>3, <2>1, <2>2, LeftoversStay
<1> QED
  BY <1>4, <1>5, <1>6 DEF Inv

(* The foreign keys: a session is inserted for a user and an account. *)
LEMMA LoginCreateInv ==
    ASSUME Inv, TypeOK', InvitationsEvolve, NEW p \in Requests, LoginCreate(p)
    PROVE  Inv'
<1>1. session \subseteq session' /\ session' \cup reset' \subseteq account
  BY DEF LoginCreate, References, Inv, Members
<1> QED
  BY <1>1, ReferenceWrite DEF LoginCreate

(* The foreign key: a password reset is inserted for an account. *)
LEMMA RequestResetCommitInv ==
    ASSUME Inv, TypeOK', InvitationsEvolve, NEW p \in Requests, RequestResetCommit(p)
    PROVE  Inv'
<1>1. reset \subseteq reset' /\ session' \cup reset' \subseteq account
  BY DEF RequestResetCommit, Inv, Members
<1> QED
  BY <1>1, ReferenceWrite DEF RequestResetCommit

(* A crash is remembered when it leaves a registration half-way. *)
LEMMA CrashInv ==
    ASSUME Inv, TypeOK', InvitationsEvolve, NEW p \in Requests, Crash(p)
    PROVE  Inv'
<1>1. /\ UNCHANGED tables /\ broken \subseteq broken'
      /\ InSaga(p) => loc[p].id \in broken'
      /\ OthersStay(p) /\ pc'[p] = "idle"
  BY DEF Crash, InSaga, Finish, Goto, Holding, OthersStay, Inv, TypeOK
<1>2. Knows(p)' /\ ~InSaga(p)'
  BY <1>1 DEF Knows, InviterKnows, WriterKnows, SagaKnows, InSaga, SagaSteps
<1>3. CASE InSaga(p)
  BY <1>1, <1>3, SagaGivesUp DEF Crash
<1>4. CASE ~InSaga(p)
  <2>1. broken' = broken /\ RowsStay /\ SagaGoesOn(p)
    BY <1>1, <1>2, <1>4 DEF Crash, InSaga, RowsStay, SagaGoesOn, tables
  <2>2. Admits'
    BY <1>1, AdmitsStays, ConsumedStays DEF Inv, tables
  <2> QED
    BY <1>1, <1>2, <2>1, <2>2, QuietStep
<1> QED
  BY <1>3, <1>4

-----------------------------------------------------------------------------
(* Theorems *)

(* Nobody is registered and nobody is being served. *)
LEMMA InitInv == Init => Inv
<1> SUFFICES ASSUME Init PROVE Inv
  OBVIOUS
<1>1. TypeOK
  BY NoLocalsType DEF Init, TypeOK, Labels
<1>2. \A p \in Requests : ~InSaga(p) /\ pc[p] = "idle"
  BY DEF Init, InSaga, SagaSteps
<1>3. Members /\ Separate /\ Admits /\ LeftoversExplained
  BY <1>2 DEF Init, Members, Separate, Admits, LeftoversExplained, Consumed
<1>4. \A p \in Requests : Knows(p)
  BY <1>2 DEF Init, Knows, InviterKnows, WriterKnows, SagaKnows, SagaSteps
<1> QED
  BY <1>1, <1>3, <1>4 DEF Inv

(* Every step keeps the invariant: one lemma per action. *)
LEMMA NextInv == Inv /\ [Next]_vars => Inv'
<1> SUFFICES ASSUME Inv, [Next]_vars PROVE Inv'
  OBVIOUS
<1>1. CASE Next
  <2>1. TypeOK' /\ InvitationsEvolve
    BY <1>1, TypeStep, EvolveStep
  <2> QED
    BY <1>1, <2>1, InviteFindInv, InviteCreateInv, RevokeFindInv, RevokeWriteInv,
       RegisterValidateInv, CreateUserFindInv, CreateUserInsertInv, CreateAccountInv,
       ConsumeFindInv, ConsumeWriteInv, DeleteAccountInv, DeleteUserInv, LoginFindInv,
       LoginCreateInv, RequestResetFindInv, RequestResetCommitInv, CrashInv, ExpireInv DEF Next
<1>2. CASE UNCHANGED vars
  BY <1>2, ConsumedStays
     DEF vars, Inv, TypeOK, Members, Separate, Admits, LeftoversExplained, Registering, InSaga,
         Knows, InviterKnows, WriterKnows, SagaKnows, Names
<1> QED
  BY <1>1, <1>2

(* The invariant holds for any invitations, people, requests and faults. *)
LEMMA Invariance == Spec => []Inv
  BY InitInv, NextInv, PTL DEF Spec

(* The tables and the locals of every request keep their types, for any      *)
(* number of invitations, people and concurrent requests.                    *)
THEOREM TypeCorrect == Spec => []TypeOK
<1>1. Inv => TypeOK
  BY DEF Inv
<1> QED
  BY <1>1, Invariance, PTL

(* Whichever statement is refused, whoever logs in and whoever asks for a    *)
(* new password, no account, session or password reset is without its user:  *)
(* the compensations undo the saga in an order that never uncovers a         *)
(* reference.                                                                *)
THEOREM AccountsKeepUsers == Spec => []AccountsHaveUsers
<1>1. Inv => AccountsHaveUsers
  BY DEF Inv, Members, AccountsHaveUsers
<1> QED
  BY <1>1, Invariance, PTL

(* What an ended registration leaves behind is a member, or is due to a      *)
(* process that died or a database that refused a compensation, or is held   *)
(* by a session or a password reset that somebody opened on the way.         *)
THEOREM LeftoversAreExplained == Spec => []LeftoversExplained
<1>1. Inv => LeftoversExplained
  BY DEF Inv
<1> QED
  BY <1>1, Invariance, PTL

(* Where the next step of a request comes from: it is another's, or, when it *)
(* takes hold of an invitation to write it back, it found it open.           *)
LEMMA TakesHoldOfOpen ==
    ASSUME Inv, Next
    PROVE  \A q \in Requests :
               \/ pc'[q] = pc[q] /\ loc'[q] = loc[q]
               \/ pc'[q] \in {"use", "revoke"} => Open(loc'[q].invitation)
<1> SUFFICES ASSUME NEW q \in Requests, pc'[q] \in {"use", "revoke"},
                    ~(pc'[q] = pc[q] /\ loc'[q] = loc[q])
             PROVE  Open(loc'[q].invitation)
  OBVIOUS
<1> USE DEF Inv, TypeOK, Goto, Holding, Finish, Fails
<1>1. ASSUME NEW p \in Requests,
             \/ InviteFind(p) \/ InviteCreate(p) \/ RevokeWrite(p) \/ RegisterValidate(p)
             \/ CreateUserFind(p) \/ CreateUserInsert(p) \/ CreateAccount(p)
             \/ ConsumeWrite(p) \/ DeleteAccount(p) \/ DeleteUser(p)
             \/ LoginFind(p) \/ LoginCreate(p) \/ RequestResetFind(p)
             \/ RequestResetCommit(p) \/ Crash(p)
      PROVE  FALSE
  BY <1>1 DEF InviteFind, InviteCreate, RevokeWrite, RegisterValidate, CreateUserFind,
              CreateUserInsert, CreateAccount, ConsumeWrite, DeleteAccount, DeleteUser,
              CompensationFails, LoginFind, LoginCreate, RequestResetFind, RequestResetCommit,
              Crash
<1>2. ASSUME NEW p \in Requests, RevokeFind(p) PROVE Open(loc'[q].invitation)
  <2>1. PICK i \in Invitations :
            /\ Open(i)
            /\ loc' = [loc EXCEPT ![p] = [NoLocals EXCEPT !.invitation = i, !.row = invitation[i]]]
    BY <1>2 DEF RevokeFind
  <2>2. p = q /\ loc'[q].invitation = i
    BY <1>2, <2>1 DEF RevokeFind, NoLocals
  <2> QED
    BY <2>1, <2>2
<1>3. ASSUME NEW p \in Requests, ConsumeFind(p) PROVE Open(loc'[q].invitation)
  <2>1. p = q /\ loc[q] \in Local
    BY <1>3 DEF ConsumeFind
  <2>2. /\ Open(loc[q].invitation)
        /\ loc'[q] = [loc[q] EXCEPT !.row = invitation[loc[q].invitation]]
    BY <1>3, <2>1 DEF ConsumeFind
  <2>3. loc'[q].invitation = loc[q].invitation
    BY <2>1, <2>2 DEF Local
  <2> QED
    BY <2>2, <2>3
<1>4. ASSUME NEW i \in Invitations, Expire(i) PROVE FALSE
  BY <1>4 DEF Expire
<1> QED
  BY <1>1, <1>2, <1>3, <1>4 DEF Next

(* Once closed, an invitation is changed only by requests that overlapped    *)
(* with its closing, each of which writes it at most once: who comes later   *)
(* never takes hold of it.                                                   *)
THEOREM ClosedChangesExplained == Spec => ClosedChangesOnlyByOverlap
<1>1. ASSUME Inv, Next, NEW i \in Invitations, Closed(i)
      PROVE  /\ Closed(i)'
             /\ Holders(i)' \subseteq Holders(i)
             /\ invitation'[i] # invitation[i] => Holders(i)' # Holders(i)
  <2>1. Closed(i)'
    BY <1>1, EvolveStep DEF Closed, InvitationsEvolve
  <2>2. ~Open(i)
    BY <1>1 DEF Closed, Open
  <2>3. Holders(i)' \subseteq Holders(i)
    BY <1>1, <2>2, TakesHoldOfOpen DEF Holders
  <2>4. ASSUME NEW p \in Requests, InviteCreate(p) PROVE invitation'[i] = invitation[i]
    BY <1>1, <2>4 DEF InviteCreate, Written, Closed, Inv, TypeOK
  <2>5. ASSUME NEW p \in Requests, RevokeWrite(p) \/ ConsumeWrite(p),
               invitation'[i] # invitation[i]
        PROVE  p \in Holders(i) /\ p \notin Holders(i)'
    <3>1. /\ pc[p] \in {"use", "revoke"} /\ Finish(p)
          /\ invitation' \in {[invitation EXCEPT ![loc[p].invitation] = Used(loc[p].row)],
                              [invitation EXCEPT ![loc[p].invitation] = RevokedRow(loc[p].row)]}
      BY <2>5 DEF RevokeWrite, ConsumeWrite, Fails, tables
    <3>2. loc[p].invitation = i /\ pc'[p] = "idle"
      BY <1>1, <2>5, <3>1 DEF Finish, Goto, Inv, TypeOK
    <3> QED
      BY <3>1, <3>2 DEF Holders
  <2> QED
    BY <1>1, <2>1, <2>3, <2>4, <2>5, InvitationWriters
<1>2. Inv /\ [Next]_vars =>
        [\A i \in Invitations : Closed(i) =>
            /\ Closed(i)'
            /\ Holders(i)' \subseteq Holders(i)
            /\ invitation'[i] # invitation[i] => Holders(i)' # Holders(i) ]_vars
  BY <1>1
<1> QED
  BY <1>2, Invariance, PTL DEF Spec, ClosedChangesOnlyByOverlap

(* What the unique index of users gives: an e-mail has one user, and whoever *)
(* an invitation admitted has the e-mail it was made for.                    *)
OneEmail == \A u, v \in Ids : user[u] # Nil /\ user[u] = user[v] => u = v
AdmittedFit ==
    \A i \in Invitations : \A u \in admitted[i] :
        invitation[i] # Nil /\ user[u] = invitation[i].recipient

(* A step inserts a user under a new identifier, when no user has the        *)
(* e-mail, or deletes the user of a saga that did not run to its end.        *)
LEMMA UsersStep ==
    ASSUME Inv, Next
    PROVE  /\ OneEmail => OneEmail'
           /\ \A u \in Consumed : user'[u] = user[u]
<1> USE DEF Inv, TypeOK
<1>1. CASE user' = user
  BY <1>1 DEF OneEmail
<1>2. ASSUME NEW p \in Requests, CreateUserInsert(p), user' # user
      PROVE  /\ OneEmail => OneEmail'
             /\ \A u \in Consumed : user'[u] = user[u]
  <2>1. /\ ~EmailTaken(loc[p].recipient)
        /\ \E u \in Ids \ issued : user' = [user EXCEPT ![u] = loc[p].recipient]
    BY <1>2 DEF CreateUserInsert, tables
  <2>2. PICK u \in Ids \ issued : user' = [user EXCEPT ![u] = loc[p].recipient]
    BY <2>1
  <2>3. u \notin Consumed /\ \A v \in Ids : user[v] # loc[p].recipient
    BY <2>1, <2>2 DEF EmailTaken, Members
  <2> QED
    BY <2>2, <2>3 DEF OneEmail, Members
<1>3. ASSUME NEW p \in Requests, DeleteUser(p), user' # user
      PROVE  /\ OneEmail => OneEmail'
             /\ \A u \in Consumed : user'[u] = user[u]
  <2>1. user' = [user EXCEPT ![loc[p].id] = Nil]
    BY <1>3 DEF DeleteUser, CompensationFails, tables
  <2>2. loc[p].id \in Ids \ Consumed
    BY <1>3 DEF DeleteUser, Knows, SagaKnows, InSaga, SagaSteps
  <2> QED
    BY <2>1, <2>2 DEF OneEmail, Members
<1>4. user' = user \/ \E p \in Requests : CreateUserInsert(p) \/ DeleteUser(p)
  BY DEF Next, InviteFind, InviteCreate, RevokeFind, RevokeWrite, RegisterValidate,
         CreateUserFind, CreateAccount, ConsumeFind, ConsumeWrite, DeleteAccount,
         CompensationFails, LoginFind, LoginCreate, RequestResetFind, RequestResetCommit, Crash,
         Expire, Fails, tables
<1> QED
  BY <1>1, <1>2, <1>3, <1>4

(* Who an invitation admitted keeps its e-mail, and so does the invitation;  *)
(* who it admits now was registered with the e-mail it was made for.         *)
LEMMA FitStep ==
    ASSUME Inv, AdmittedFit, Next
    PROVE  AdmittedFit'
<1>1. ASSUME NEW i \in Invitations, NEW u \in admitted[i]
      PROVE  invitation'[i] # Nil /\ user'[u] = invitation'[i].recipient
  <2>1. u \in Consumed /\ invitation[i] # Nil /\ user[u] = invitation[i].recipient
    BY <1>1 DEF AdmittedFit, Consumed
  <2> QED
    BY <2>1, UsersStep, EvolveStep DEF InvitationsEvolve
<1>2. ASSUME NEW p \in Requests, ConsumeWrite(p), admitted' # admitted
      PROVE  AdmittedFit'
  <2>1. /\ loc[p].invitation \in Invitations /\ loc[p].id \in Ids
        /\ invitation[loc[p].invitation] # Nil
        /\ user[loc[p].id] = invitation[loc[p].invitation].recipient
    BY <1>2 DEF ConsumeWrite, Inv, Knows, SagaKnows, WriterKnows, InSaga, SagaSteps, Names
  <2>2. /\ admitted' = [admitted EXCEPT ![loc[p].invitation] = @ \cup {loc[p].id}]
        /\ user' = user
    BY <1>2 DEF ConsumeWrite, Fails, tables
  <2>3. /\ invitation'[loc[p].invitation] # Nil
        /\ user'[loc[p].id] = invitation'[loc[p].invitation].recipient
    BY <2>1, <2>2, EvolveStep DEF InvitationsEvolve
  <2>4. \A i \in Invitations : \A u \in admitted'[i] :
            u \in admitted[i] \/ (i = loc[p].invitation /\ u = loc[p].id)
    BY <2>1, <2>2 DEF Inv, TypeOK
  <2> QED
    BY <1>1, <2>3, <2>4 DEF AdmittedFit
<1>3. admitted' = admitted \/ \E p \in Requests : ConsumeWrite(p)
  BY DEF Next, InviteFind, InviteCreate, RevokeFind, RevokeWrite, RegisterValidate,
         CreateUserFind, CreateUserInsert, CreateAccount, ConsumeFind, DeleteAccount, DeleteUser,
         CompensationFails, LoginFind, LoginCreate, RequestResetFind, RequestResetCommit, Crash,
         Expire, Fails, tables
<1>4. CASE admitted' = admitted
  BY <1>1, <1>4 DEF AdmittedFit
<1> QED
  BY <1>2, <1>3, <1>4

(* An invitation is spent only on a member: consume is the last step of the  *)
(* saga, after which nothing is undone.  And two sagas may find one          *)
(* invitation PENDING, and both would write it USED; yet only one of them    *)
(* can have got as far, because the user it made keeps the e-mail of the     *)
(* recipient taken.                                                          *)
THEOREM InvitationsAdmit == Spec => []UsedInvitationAdmits
<1>1. Init => OneEmail /\ AdmittedFit
  BY DEF Init, OneEmail, AdmittedFit
<1>2. Inv /\ OneEmail /\ AdmittedFit /\ [Next]_vars => OneEmail' /\ AdmittedFit'
  <2>1. CASE UNCHANGED vars
    BY <2>1 DEF vars, OneEmail, AdmittedFit
  <2> QED
    BY <2>1, UsersStep, FitStep
<1>3. Inv /\ OneEmail /\ AdmittedFit => UsedInvitationAdmits
  <2> SUFFICES ASSUME Inv, OneEmail, AdmittedFit, NEW i \in Invitations
               PROVE  /\ invitation[i] # Nil /\ invitation[i].status = "USED" =>
                             \E u \in account : user[u] = invitation[i].recipient
                      /\ \A u, v \in admitted[i] : u = v
    BY DEF UsedInvitationAdmits
  <2>1. invitation[i] # Nil /\ invitation[i].status = "USED" =>
            \E u \in account : user[u] = invitation[i].recipient
    BY DEF Inv, Members, Admits
  <2>2. ASSUME NEW u \in admitted[i], NEW v \in admitted[i] PROVE u = v
    <3>1. u \in Consumed /\ v \in Consumed
      BY DEF Consumed
    <3>2. u \in Ids /\ v \in Ids /\ user[u] # Nil
      BY <3>1 DEF Inv, Members, TypeOK
    <3> QED
      BY <3>2 DEF OneEmail, AdmittedFit
  <2> QED
    BY <2>1, <2>2
<1> QED
  BY <1>1, <1>2, <1>3, Invariance, PTL DEF Spec

(* A second pending invitation of one recipient comes only from two requests *)
(* that overlapped.                                                          *)
THEOREM SecondOnlyByOverlap == Spec => SecondInvitationOnlyByOverlap
<1>1. ASSUME Inv, Next, NEW i \in Invitations, invitation[i] = Nil, invitation'[i] # Nil
      PROVE  \E p \in Requests : InviteCreate(p)
  <2>1. ASSUME NEW p \in Requests, RevokeWrite(p) \/ ConsumeWrite(p) PROVE FALSE
    BY <1>1, <2>1 DEF RevokeWrite, ConsumeWrite, Fails, tables, Inv, TypeOK, Knows, WriterKnows
  <2>2. invitation' = invitation \/ \E p \in Requests :
            InviteCreate(p) \/ RevokeWrite(p) \/ ConsumeWrite(p)
    BY <1>1, InvitationWriters
  <2> QED
    BY <1>1, <2>1, <2>2
<1>2. ASSUME Inv, NEW p \in Requests, InviteCreate(p)
      PROVE  /\ pc[p] = "invite" /\ pc'[p] = "idle"
             /\ \A j \in loc[p].known : invitation[j] # NewInvitation(loc[p].recipient)
  BY <1>2 DEF InviteCreate, Finish, Goto, Inv, TypeOK, Knows, InviterKnows
<1>3. Inv /\ [Next]_vars =>
        [\A i \in Invitations :
            invitation[i] = Nil /\ invitation'[i] # Nil =>
                \E p \in Requests : /\ pc[p] = "invite" /\ pc'[p] = "idle"
                                    /\ \A j \in loc[p].known :
                                         invitation[j] # NewInvitation(loc[p].recipient) ]_vars
  BY <1>1, <1>2
<1> QED
  BY <1>3, Invariance, PTL DEF Spec, SecondInvitationOnlyByOverlap
=============================================================================
