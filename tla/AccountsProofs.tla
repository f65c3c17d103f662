--------------------------- MODULE AccountsProofs ---------------------------
(* Proofs about Accounts, for every set of addresses, identities, browsers   *)
(* and web processes.  The inductive invariant says what a request under way *)
(* may rely on: there are users, the one it names among them (KnownInv); who it may sign in or *)
(* leave enabled was vouched for (VouchInv); and unless it is late, the row  *)
(* it read is still the user's, and the admin it counted besides the one it  *)
(* removes is still one (FreshInv).                                         *)
EXTENDS Accounts, TLAPS

USE AccountsAssumption

Saves(b) == requests[b].op \in {"update", "saving"}

KnownInv ==
    \A b \in Browser :
        /\ requests[b].op # "none" => Serving
        /\ requests[b].op \in {"authorized", "update", "saving"} => users[requests[b].user].exists

VouchInv ==
    /\ OnlyVouchedUsers
    /\ \A b \in Browser :
          /\ requests[b].op \in {"signin", "authorized"} => requests[b].user \in vouched
          /\ Saves(b) /\ requests[b].row.enabled => requests[b].user \in vouched
          /\ requests[b].op = "callback" /\ requests[b].user # NULL /\ requests[b].enabled
                => requests[b].user \in vouched

FreshInv ==
    \A b \in Browser \ late :
        /\ requests[b].op = "authorized" => requests[b].user \in EnabledAdmins
        /\ requests[b].op = "update" => requests[b].actor \in EnabledAdmins
        /\ Saves(b) => StandingOf(users[requests[b].user]) = requests[b].row
        /\ requests[b].op = "saving" =>
              /\ EnabledAdmins # {}
              /\ RemovesAdmin(requests[b], requests[b].form) =>
                    \E v \in EnabledAdmins : v # requests[b].user

Inv == /\ AccountsTypeOK /\ KnownInv /\ VouchInv
       /\ FreshInv /\ StandsAsAsked /\ OverlapsLoseAdmins

-----------------------------------------------------------------------------
(* Types.                                                                  *)

LEMMA RequestFields ==
    ASSUME NEW q \in Request
    PROVE  /\ q.op \in {"none", "away", "signin", "authorized", "update", "saving", "callback"}
           /\ q.op \in {"signin", "authorized"} => q.user \in Email
           /\ q.op = "update" => q.actor \in Email /\ q.user \in Email /\ q.row \in Standing
           /\ q.op = "saving" => q.user \in Email /\ q.row \in Standing /\ q.form \in Standing
           /\ q.op = "callback" => /\ q.identity \in Identity
                                   /\ q.user \in Email \cup {NULL}
                                   /\ q.linked \in BOOLEAN /\ q.enabled \in BOOLEAN
BY DEF Request, NoRequest, Away

LEMMA IdentityParts ==
    ASSUME NEW identity \in Identity
    PROVE  identity[1] \in Subject /\ identity[2] \in Email
OBVIOUS

LEMMA NewRequests ==
    /\ NoRequest \in Request /\ Away \in Request
    /\ NoRequest.op = "none" /\ Away.op = "away"
    /\ \A u \in Email : /\ [op |-> "signin", user |-> u] \in Request
                        /\ [op |-> "authorized", user |-> u] \in Request
    /\ \A a, u \in Email, row \in Standing :
          [op |-> "update", actor |-> a, user |-> u, row |-> row] \in Request
    /\ \A u \in Email, row, form \in Standing :
          [op |-> "saving", user |-> u, row |-> row, form |-> form] \in Request
    /\ \A i \in Identity, u \in Email \cup {NULL}, linked, enabled \in BOOLEAN :
          [op |-> "callback", identity |-> i, user |-> u, linked |-> linked,
           enabled |-> enabled] \in Request
BY DEF Request, NoRequest, Away

LEMMA Standings ==
    /\ \A row \in UserRow : StandingOf(row) \in Standing
    /\ [admin |-> TRUE, enabled |-> TRUE] \in Standing
    /\ NoUser \in UserRow
BY DEF UserRow, Standing, StandingOf, NoUser

LEMMA TypeInit == Init => AccountsTypeOK
BY NewRequests, Standings DEF Init, AccountsTypeOK

-----------------------------------------------------------------------------
(* Steps that leave users and history alone and move on one request.        *)

\* What the invariant asks of request q of a browser that is late or not.
Sound(q, isLate) ==
    /\ q.op # "none" => Serving
    /\ q.op \in {"authorized", "update", "saving"} => users[q.user].exists
    /\ q.op \in {"signin", "authorized"} => q.user \in vouched
    /\ q.op \in {"update", "saving"} /\ q.row.enabled => q.user \in vouched
    /\ q.op = "callback" /\ q.user # NULL /\ q.enabled => q.user \in vouched
    /\ ~ isLate =>
          /\ q.op = "authorized" => q.user \in EnabledAdmins
          /\ q.op = "update" => q.actor \in EnabledAdmins
          /\ q.op \in {"update", "saving"} => StandingOf(users[q.user]) = q.row
          /\ q.op = "saving" =>
                /\ EnabledAdmins # {}
                /\ RemovesAdmin(q, q.form) => \E v \in EnabledAdmins : v # q.user

LEMMA SoundRequests ==
    KnownInv /\ VouchInv /\ FreshInv <=>
        /\ OnlyVouchedUsers
        /\ \A b \in Browser : Sound(requests[b], b \in late)
BY DEF KnownInv, VouchInv, FreshInv, Sound, Saves

LEMMA QuietStep ==
    ASSUME Inv, NEW b \in Browser, NEW q \in Request,
           UNCHANGED <<users, asked, overlapped, vouched>>,
           requests' = [requests EXCEPT ![b] = q],
           late' = late \/ (late' = late \ {b} /\ q = NoRequest),
           sessions' \in [Browser -> Email \cup {NULL}],
           \A c \in Browser : sessions'[c] # NULL => sessions'[c] \in vouched,
           oidc' \in BOOLEAN, starting' \subseteq Process,
           Sound(q, b \in late)
    PROVE  Inv'
<1>1. AccountsTypeOK'
  BY DEF Inv, AccountsTypeOK
<1>2. OnlyVouchedUsers' /\ StandsAsAsked' /\ OverlapsLoseAdmins'
  BY DEF Inv, VouchInv, OnlyVouchedUsers, StandsAsAsked, OverlapsLoseAdmins, EnabledAdmins
<1>3. EnabledAdmins' = EnabledAdmins /\ Serving' = Serving
  BY DEF EnabledAdmins, Serving
<1>4. \A c \in Browser \ {b} : requests'[c] = requests[c] /\ (c \in late' <=> c \in late)
  BY DEF Inv, AccountsTypeOK
<1>5. requests'[b] = q
  BY DEF Inv, AccountsTypeOK
<1>6. \A c \in Browser : Sound(requests[c], c \in late)
  BY SoundRequests DEF Inv
<1>7. ASSUME NEW c \in Browser \ {b} PROVE Sound(requests[c], c \in late)'
  BY <1>3, <1>4, <1>6 DEF Sound
<1>8. Sound(requests[b], b \in late)'
  <2>1. CASE late' = late
    BY <1>3, <1>5, <2>1 DEF Sound
  <2>2. CASE q = NoRequest
    BY <1>5, <2>2, NewRequests DEF Sound
  <2> QED BY <2>1, <2>2
<1>9. \A c \in Browser : Sound(requests[c], c \in late)'
  BY <1>7, <1>8
<1>10. (KnownInv /\ VouchInv /\ FreshInv)'
  BY <1>2, <1>9 DEF KnownInv, VouchInv, FreshInv, Sound, Saves
<1> QED BY <1>1, <1>2, <1>10 DEF Inv

\* A browser without a request: nothing is asked of it.
LEMMA IdleStep ==
    ASSUME Inv, NEW b \in Browser, UNCHANGED <<users, asked, overlapped, vouched>>,
           End(b) \/ (requests' = requests /\ late' = late),
           sessions' \in [Browser -> Email \cup {NULL}],
           \A c \in Browser : sessions'[c] # NULL => sessions'[c] \in vouched,
           oidc' \in BOOLEAN, starting' \subseteq Process
    PROVE  Inv'
<1>1. CASE End(b)
  <2>1. NoRequest \in Request /\ Sound(NoRequest, b \in late)
    BY NewRequests DEF Sound
  <2> QED BY <1>1, <2>1, QuietStep DEF End
<1>2. CASE requests' = requests /\ late' = late
  <2>1. requests[b] \in Request /\ requests' = [requests EXCEPT ![b] = requests[b]]
    BY <1>2 DEF Inv, AccountsTypeOK
  <2>2. Sound(requests[b], b \in late)
    BY SoundRequests DEF Inv
  <2> QED BY <1>2, <2>1, <2>2, QuietStep
<1> QED BY <1>1, <1>2

LEMMA SessionsHold ==
    ASSUME Inv
    PROVE  /\ sessions \in [Browser -> Email \cup {NULL}]
           /\ \A c \in Browser : sessions[c] # NULL => sessions[c] \in vouched
           /\ oidc \in BOOLEAN /\ starting \subseteq Process
           /\ \A b \in Browser : requests[b] \in Request
           /\ \A u \in Email : users[u] \in UserRow
BY DEF Inv, AccountsTypeOK, VouchInv, OnlyVouchedUsers

LEMMA QuietSteps ==
    ASSUME Inv, NEW b \in Browser,
           \/ Logout(b) \/ SessionExpires(b) \/ CommitSignIn(b) \/ Authorize(b)
           \/ OidcStart(b) \/ OidcExpires(b) \/ CallbackFails(b)
           \/ \E u \in Email : LoadSignIn(b, u) \/ LoadUser(b, u)
           \/ \E form \in Standing : Decide(b, form) \/ RefuseUpdate(b, form)
           \/ \E enabled \in BOOLEAN : SaveOidc(b, enabled)
           \/ \E identity \in Identity : LoadCallback(b, identity)
    PROVE  Inv'
<1>s. Sound(requests[b], b \in late)
  BY SoundRequests DEF Inv
<1>0. Sound(NoRequest, b \in late) /\ (Serving => Sound(Away, b \in late))
  BY NewRequests DEF Sound
<1>1. CASE Logout(b) \/ SessionExpires(b)
  <2>1. /\ UNCHANGED <<users, asked, overlapped, vouched>>
        /\ requests' = requests /\ late' = late /\ oidc' = oidc /\ starting' = starting
        /\ sessions' = [sessions EXCEPT ![b] = NULL]
    BY <1>1 DEF Logout, SessionExpires, history
  <2>2. /\ sessions' \in [Browser -> Email \cup {NULL}]
        /\ \A c \in Browser : sessions'[c] # NULL => sessions'[c] \in vouched
    BY <2>1, SessionsHold
  <2> QED BY <2>1, <2>2, IdleStep, SessionsHold
<1>2. CASE CommitSignIn(b)
  <2>1. /\ UNCHANGED <<users, asked, overlapped, vouched>>
        /\ End(b) /\ oidc' = oidc /\ starting' = starting
        /\ sessions' = [sessions EXCEPT ![b] = requests[b].user]
        /\ requests[b].op = "signin"
    BY <1>2 DEF CommitSignIn
  <2>2. requests[b].user \in Email /\ requests[b].user \in vouched
    BY <1>s, <2>1, RequestFields, SessionsHold DEF Sound
  <2>3. /\ sessions' \in [Browser -> Email \cup {NULL}]
        /\ \A c \in Browser : sessions'[c] # NULL => sessions'[c] \in vouched
    BY <2>1, <2>2, SessionsHold
  <2> QED BY <2>1, <2>3, IdleStep, SessionsHold
<1>3. ASSUME NEW q \in Request, Sound(q, b \in late),
             requests' = [requests EXCEPT ![b] = q],
             UNCHANGED <<tables, starting, history>>
      PROVE  Inv'
  BY <1>3, QuietStep, SessionsHold DEF tables, history
<1>4. CASE OidcStart(b) \/ OidcExpires(b) \/ CallbackFails(b)
  <2>0. Serving
    BY <1>s, <1>4, NewRequests DEF OidcStart, OidcExpires, CallbackFails, Begin, Sound
  <2>1. \E q \in {NoRequest, Away} : requests' = [requests EXCEPT ![b] = q]
    BY <1>4 DEF OidcStart, OidcExpires, CallbackFails, Begin
  <2>2. UNCHANGED <<tables, starting, history>>
    BY <1>4 DEF OidcStart, OidcExpires, CallbackFails, Begin
  <2> QED BY <1>0, <1>3, <2>0, <2>1, <2>2, NewRequests
<1>5. ASSUME NEW u \in Email, LoadSignIn(b, u) PROVE Inv'
  <2> DEFINE q == [op |-> "signin", user |-> u]
  <2>1. u \in vouched
    BY <1>5 DEF LoadSignIn, Inv, VouchInv, OnlyVouchedUsers
  <2>2. q \in Request /\ Sound(q, b \in late)
    BY <2>1, <1>5, NewRequests DEF Sound, LoadSignIn, Begin
  <2>3. requests' = [requests EXCEPT ![b] = q] /\ UNCHANGED <<tables, starting, history>>
    BY <1>5 DEF LoadSignIn, Begin
  <2> QED BY <1>3, <2>2, <2>3
<1>6. CASE Authorize(b)
  <2> DEFINE u == sessions[b]
             q == [op |-> "authorized", user |-> u]
  <2>1. u \in Email /\ users[u].exists /\ u \in vouched /\ u \in EnabledAdmins
    BY <1>6, SessionsHold DEF Authorize, EnabledAdmins
  <2>2. q \in Request /\ Sound(q, b \in late)
    BY <2>1, <1>6, NewRequests DEF Sound, Authorize, Begin
  <2>3. requests' = [requests EXCEPT ![b] = q] /\ UNCHANGED <<tables, starting, history>>
    BY <1>6 DEF Authorize, Begin
  <2> QED BY <1>3, <2>2, <2>3
<1>7. ASSUME NEW u \in Email, LoadUser(b, u) PROVE Inv'
  <2> DEFINE a == requests[b].user
             row == IF u = a THEN [admin |-> TRUE, enabled |-> TRUE] ELSE StandingOf(users[u])
             q == [op |-> "update", actor |-> a, user |-> u, row |-> row]
  <2>1. requests[b].op = "authorized" /\ users[u].exists
    BY <1>7 DEF LoadUser
  <2>2. a \in Email /\ a \in vouched /\ (b \notin late => a \in EnabledAdmins)
    BY <1>s, <2>1, RequestFields, SessionsHold DEF Sound
  <2>3. row \in Standing
    BY Standings, SessionsHold
  <2>4. row.enabled => u \in vouched
    BY <2>1, <2>2 DEF Inv, VouchInv, OnlyVouchedUsers, StandingOf
  <2>5. b \notin late => StandingOf(users[u]) = row
    <3>1. u \in EnabledAdmins => StandingOf(users[u]) = [admin |-> TRUE, enabled |-> TRUE]
      BY SessionsHold DEF EnabledAdmins, StandingOf, UserRow
    <3> QED BY <2>2, <3>1
  <2>6. q \in Request
    BY <2>2, <2>3, NewRequests
  <2>7. requests' = [requests EXCEPT ![b] = q] /\ UNCHANGED <<tables, starting, history>>
    BY <1>7 DEF LoadUser
  <2>8. q.op = "update" /\ q.actor = a /\ q.user = u /\ q.row = row
    OBVIOUS
  <2> HIDE DEF q, row
  <2>9. Sound(q, b \in late)
    BY <1>s, <2>1, <2>2, <2>4, <2>5, <2>8 DEF Sound
  <2> QED BY <1>3, <2>6, <2>7, <2>9
<1>8. ASSUME NEW form \in Standing, Decide(b, form) PROVE Inv'
  <2> DEFINE p == requests[b]
             q == [op |-> "saving", user |-> p.user, row |-> p.row, form |-> form]
  <2>1. p.op = "update" /\ ~ Objection(p, form)
    BY <1>8 DEF Decide
  <2>2. p.user \in Email /\ p.row \in Standing /\ p.actor \in Email
    BY <2>1, RequestFields, SessionsHold
  <2>3. q \in Request
    BY <2>2, NewRequests
  <2>4. requests' = [requests EXCEPT ![b] = q] /\ UNCHANGED <<tables, starting, history>>
    BY <1>8 DEF Decide
  <2>5. q.op = "saving" /\ q.user = p.user /\ q.row = p.row /\ q.form = form
    OBVIOUS
  <2> HIDE DEF q
  <2>6. RemovesAdmin(q, q.form) => \E v \in EnabledAdmins : v # q.user
    <3>1. RemovesAdmin(q, q.form) => ~ AtMostOneAdmin
      BY <2>1, <2>5 DEF Objection, RemovesAdmin
    <3> QED BY <3>1 DEF AtMostOneAdmin
  <2>7. Sound(q, b \in late)
    BY <1>s, <2>1, <2>5, <2>6 DEF Sound
  <2> QED BY <1>3, <2>3, <2>4, <2>7
<1>9. ASSUME NEW form \in Standing, RefuseUpdate(b, form) PROVE Inv'
  <2>1. /\ UNCHANGED <<users, asked, overlapped, vouched, sessions, oidc, starting>>
        /\ End(b)
    BY <1>9 DEF RefuseUpdate, tables
  <2> QED BY <2>1, IdleStep, SessionsHold
<1>10. ASSUME NEW enabled \in BOOLEAN, SaveOidc(b, enabled) PROVE Inv'
  <2>1. /\ UNCHANGED <<users, asked, overlapped, vouched, sessions, starting>>
        /\ End(b) /\ oidc' \in BOOLEAN
    BY <1>10 DEF SaveOidc
  <2> QED BY <2>1, IdleStep, SessionsHold
<1>11. ASSUME NEW identity \in Identity, LoadCallback(b, identity) PROVE Inv'
  <2>1. PICK u \in Email \cup {NULL}, linked \in BOOLEAN, enabled \in BOOLEAN :
            /\ requests' = [requests EXCEPT ![b] =
                   [op |-> "callback", identity |-> identity, user |-> u,
                    linked |-> linked, enabled |-> enabled]]
            /\ u # NULL /\ enabled => u \in Email /\ users[u].exists /\ users[u].enabled
    <3>1. ASSUME NEW u \in Matches(identity) PROVE u \in Email /\ users[u].exists
      BY <3>1, IdentityParts DEF Matches
    <3>2. \A u \in Email : users[u].enabled \in BOOLEAN
      BY SessionsHold DEF UserRow
    <3> QED BY <1>11, <3>1, <3>2 DEF LoadCallback
  <2> DEFINE q == [op |-> "callback", identity |-> identity, user |-> u,
                   linked |-> linked, enabled |-> enabled]
  <2>2. u # NULL /\ enabled => u \in vouched
    BY <2>1 DEF Inv, VouchInv, OnlyVouchedUsers
  <2>3. q \in Request
    BY <2>1, NewRequests
  <2>4. q.op = "callback" /\ q.user = u /\ q.enabled = enabled
    OBVIOUS
  <2>5. requests' = [requests EXCEPT ![b] = q] /\ UNCHANGED <<tables, starting, history>>
    BY <1>11, <2>1 DEF LoadCallback
  <2> HIDE DEF q
  <2>6. Sound(q, b \in late)
    BY <1>s, <1>11, <2>2, <2>4, NewRequests DEF Sound, LoadCallback
  <2> QED BY <1>3, <2>3, <2>5, <2>6
<1> QED BY <1>1, <1>2, <1>4, <1>5, <1>6, <1>7, <1>8, <1>9, <1>10, <1>11

-----------------------------------------------------------------------------
(* Starting processes.                                                     *)

\* A row is inserted where there was none; the request of browser b, if it is
\* one's, is answered.
LEMMA InsertStep ==
    ASSUME Inv, NEW u \in Email, NEW row \in UserRow, Insert(u, row),
           row.exists, row.enabled => u \in vouched',
           vouched \subseteq vouched', vouched' \subseteq Email,
           EnabledAdmins # {} \/ overlapped # {} \/ (row.admin /\ row.enabled),
           UNCHANGED <<oidc, sessions, overlapped>>, starting' \subseteq Process,
           \/ requests' = requests /\ late' = late
           \/ \E b \in Browser : End(b)
    PROVE  Inv'
<1>1. /\ users' = [users EXCEPT ![u] = row] /\ ~ users[u].exists
      /\ asked' = [asked EXCEPT ![u] = StandingOf(row)]
  BY DEF Insert
<1>2. \A c \in Browser : \/ requests'[c] = NoRequest
                         \/ requests'[c] = requests[c] /\ (c \in late' <=> c \in late)
  BY DEF End, Inv, AccountsTypeOK
<1>3. requests' \in [Browser -> Request] /\ late' \subseteq Browser
  BY NewRequests DEF End, Inv, AccountsTypeOK
<1>4. AccountsTypeOK'
  BY <1>1, <1>3, Standings DEF Inv, AccountsTypeOK
<1>5. \A v \in Email : users'[v] = IF v = u THEN row ELSE users[v]
  BY <1>1 DEF Inv, AccountsTypeOK
<1>6. EnabledAdmins \subseteq EnabledAdmins' /\ u \notin EnabledAdmins
  BY <1>1, <1>5 DEF EnabledAdmins
<1>7. OnlyVouchedUsers'
  BY <1>5 DEF OnlyVouchedUsers, Inv, VouchInv
<1>8. StandsAsAsked'
  BY <1>1, <1>5 DEF StandsAsAsked, Inv, AccountsTypeOK
<1>9. OverlapsLoseAdmins'
  <2>1. row.admin /\ row.enabled => u \in EnabledAdmins'
    BY <1>5 DEF EnabledAdmins
  <2> QED BY <1>6, <2>1 DEF OverlapsLoseAdmins
<1>10. ASSUME NEW c \in Browser PROVE Sound(requests[c], c \in late)'
  <2>1. CASE requests'[c] = NoRequest
    BY <2>1, NewRequests DEF Sound
  <2>2. CASE requests'[c] = requests[c] /\ (c \in late' <=> c \in late)
    <3> DEFINE q == requests[c]
    <3>1. Sound(q, c \in late)
      BY SoundRequests DEF Inv
    <3>2. q.op \in {"authorized", "update", "saving"} =>
              q.user \in Email /\ q.user # u /\ users[q.user].exists
      BY <1>1, <3>1, RequestFields, SessionsHold DEF Sound
    <3>3. q.op \in {"authorized", "update", "saving"} => users'[q.user] = users[q.user]
      BY <1>5, <3>2
    <3>4. Serving'
      BY <1>5 DEF Serving, UserRow
    <3> QED BY <1>6, <2>2, <3>1, <3>3, <3>4 DEF Sound
  <2> QED BY <1>2, <2>1, <2>2
<1>11. (KnownInv /\ VouchInv /\ FreshInv)'
  BY <1>7, <1>10 DEF KnownInv, VouchInv, FreshInv, Sound, Saves
<1> QED BY <1>4, <1>8, <1>9, <1>11 DEF Inv

LEMMA StartSteps ==
    ASSUME Inv, NEW p \in Process, CountNobody(p) \/ InsertFirstAdmin(p) \/ InsertFails(p)
    PROVE  Inv'
<1>1. CASE InsertFirstAdmin(p)
  <2> DEFINE row == [exists |-> TRUE, admin |-> TRUE, enabled |-> TRUE,
                     subject |-> NULL, password |-> TRUE]
  <2>1. /\ Insert(FirstAdmin, row) /\ vouched' = vouched \cup {FirstAdmin}
        /\ starting' \subseteq Process /\ requests' = requests /\ late' = late
        /\ UNCHANGED <<oidc, sessions, overlapped>>
    BY <1>1, SessionsHold DEF InsertFirstAdmin
  <2>2. row \in UserRow /\ row.exists /\ row.admin /\ row.enabled
    BY DEF UserRow
  <2>3. vouched' \subseteq Email
    BY <2>1 DEF Inv, AccountsTypeOK
  <2> HIDE DEF row
  <2> QED BY <2>1, <2>2, <2>3, InsertStep
<1>2. CASE CountNobody(p) \/ InsertFails(p)
  <2>1. /\ UNCHANGED <<users, oidc, sessions, requests, late, asked, overlapped, vouched>>
        /\ starting' \subseteq Process
    BY <1>2, SessionsHold DEF CountNobody, InsertFails, tables, history
  <2> QED BY <2>1 DEF Inv, AccountsTypeOK, KnownInv, VouchInv, OnlyVouchedUsers, FreshInv,
       Serving, Saves, StandsAsAsked, OverlapsLoseAdmins, EnabledAdmins
<1> QED BY <1>1, <1>2

-----------------------------------------------------------------------------
(* Committing.                                                             *)

LEMMA NewUserStep ==
    ASSUME Inv, NEW b \in Browser, CommitNewUser(b)
    PROVE  Inv'
<1> DEFINE q == requests[b]
           row == [exists |-> TRUE, admin |-> FALSE, enabled |-> FALSE,
                   subject |-> q.identity[1], password |-> FALSE]
<1>1. q.op = "callback" /\ Insert(q.identity[2], row) /\ End(b)
  BY DEF CommitNewUser
<1>2. q.identity[1] \in Subject /\ q.identity[2] \in Email
  BY <1>1, RequestFields, IdentityParts, SessionsHold
<1>3. row \in UserRow /\ row.exists /\ ~ row.enabled
  BY <1>2 DEF UserRow
<1>4. /\ vouched' = vouched /\ UNCHANGED <<oidc, sessions, overlapped, starting>>
      /\ vouched \subseteq Email
  BY DEF CommitNewUser, Inv, AccountsTypeOK
<1>5. EnabledAdmins # {} \/ overlapped # {}
  BY <1>1 DEF Inv, KnownInv, Serving, OverlapsLoseAdmins
<1> HIDE DEF row
<1> QED BY <1>1, <1>2, <1>3, <1>4, <1>5, InsertStep, SessionsHold

LEMMA KnownUserStep ==
    ASSUME Inv, NEW b \in Browser, CommitKnownUser(b)
    PROVE  Inv'
<1> DEFINE q == requests[b]
           u == q.user
<1>1. /\ q.op = "callback" /\ u # NULL /\ End(b)
      /\ users' = [users EXCEPT ![u].subject = IF q.linked THEN @ ELSE q.identity[1]]
      /\ sessions' = [sessions EXCEPT ![b] = IF q.enabled THEN u ELSE @]
      /\ UNCHANGED <<oidc, starting, asked, overlapped, vouched>>
  BY DEF CommitKnownUser
<1>2. u \in Email /\ q.identity[1] \in Subject /\ q.enabled \in BOOLEAN
  BY <1>1, RequestFields, IdentityParts, SessionsHold
<1>s. \A c \in Browser : Sound(requests[c], c \in late)
  BY SoundRequests DEF Inv
<1>3. q.enabled => u \in vouched
  BY <1>1, <1>s DEF Sound
<1>4. /\ users' \in [Email -> UserRow]
      /\ \A v \in Email : /\ users'[v].exists = users[v].exists
                          /\ users'[v].admin = users[v].admin
                          /\ users'[v].enabled = users[v].enabled
  BY <1>1, <1>2 DEF Inv, AccountsTypeOK, UserRow
<1>5. /\ sessions' \in [Browser -> Email \cup {NULL}]
      /\ \A c \in Browser : sessions'[c] # NULL => sessions'[c] \in vouched
  BY <1>1, <1>2, <1>3, SessionsHold
<1>6. /\ EnabledAdmins' = EnabledAdmins /\ (Serving' <=> Serving)
      /\ \A v \in Email : StandingOf(users'[v]) = StandingOf(users[v])
  BY <1>4 DEF EnabledAdmins, Serving, StandingOf
<1>7. /\ requests' \in [Browser -> Request] /\ late' \subseteq Browser
      /\ \A c \in Browser : \/ requests'[c] = NoRequest
                            \/ requests'[c] = requests[c] /\ (c \in late' <=> c \in late)
  BY <1>1, NewRequests DEF End, Inv, AccountsTypeOK
<1>8. AccountsTypeOK'
  BY <1>1, <1>4, <1>5, <1>7 DEF Inv, AccountsTypeOK
<1>9. OnlyVouchedUsers' /\ StandsAsAsked' /\ OverlapsLoseAdmins'
  BY <1>1, <1>4, <1>5, <1>6 DEF OnlyVouchedUsers, StandsAsAsked, OverlapsLoseAdmins, Inv,
     VouchInv
<1>10. ASSUME NEW c \in Browser PROVE Sound(requests[c], c \in late)'
  <2>1. CASE requests'[c] = NoRequest
    BY <2>1, NewRequests DEF Sound
  <2>2. CASE requests'[c] = requests[c] /\ (c \in late' <=> c \in late)
    <3>1. requests[c].op \in {"authorized", "update", "saving"} => requests[c].user \in Email
      BY RequestFields, SessionsHold
    <3> QED BY <1>1, <1>4, <1>6, <1>s, <2>2, <3>1 DEF Sound
  <2> QED BY <1>7, <2>1, <2>2
<1>11. (KnownInv /\ VouchInv /\ FreshInv)'
  BY <1>9, <1>10 DEF KnownInv, VouchInv, FreshInv, Sound, Saves
<1> QED BY <1>8, <1>9, <1>11 DEF Inv

\* Whoever writes last and read before an update is in overlapped; who was not
\* overtaken leaves the admin it counted besides the one it removed.
LEMMA UpdateStep ==
    ASSUME Inv, NEW b \in Browser, CommitUpdate(b)
    PROVE  Inv'
<1> DEFINE q == requests[b]
           u == q.user
<1>s. \A c \in Browser : Sound(requests[c], c \in late)
  BY SoundRequests DEF Inv
<1>1. /\ q.op = "saving"
      /\ users' = [users EXCEPT ![u] = Updated(@, q)]
      /\ requests' = [requests EXCEPT ![b] = NoRequest]
      /\ late' = {c \in Browser \ {b} : requests[c].op \in {"authorized", "update", "saving"}}
      /\ asked' = [asked EXCEPT ![u] = q.form]
      /\ overlapped' = IF b \in late THEN overlapped \cup {u} ELSE overlapped \ {u}
      /\ vouched' = IF q.form.enabled /\ ~ q.row.enabled THEN vouched \cup {u} ELSE vouched
      /\ UNCHANGED <<oidc, sessions, starting>>
  BY DEF CommitUpdate
<1>2. /\ u \in Email /\ q.row \in Standing /\ q.form \in Standing
      /\ q.row.admin \in BOOLEAN /\ q.row.enabled \in BOOLEAN
      /\ q.form.admin \in BOOLEAN /\ q.form.enabled \in BOOLEAN
  BY <1>1, RequestFields, SessionsHold DEF Standing
<1>3. Sound(q, b \in late)
  BY <1>s
<1> HIDE DEF q, u
<1>4. /\ Updated(users[u], q) \in UserRow
      /\ users'[u].exists
      /\ users'[u].admin = Column(users[u].admin, q.row.admin, q.form.admin)
      /\ users'[u].enabled = Column(users[u].enabled, q.row.enabled, q.form.enabled)
  BY <1>1, <1>2, <1>3 DEF Inv, AccountsTypeOK, UserRow, Updated, Column, Sound, u
<1>5. \A v \in Email \ {u} : users'[v] = users[v]
  BY <1>1, <1>2 DEF Inv, AccountsTypeOK
<1>6. /\ requests' \in [Browser -> Request] /\ requests'[b] = NoRequest
      /\ \A c \in Browser \ {b} : requests'[c] = requests[c]
  BY <1>1, NewRequests DEF Inv, AccountsTypeOK
<1>7. AccountsTypeOK'
  BY <1>1, <1>2, <1>4, <1>6 DEF Inv, AccountsTypeOK
<1>8. vouched \subseteq vouched'
  BY <1>1
<1>9. OnlyVouchedUsers'
  <2>1. users'[u].enabled => u \in vouched'
    BY <1>1, <1>2, <1>3, <1>4 DEF Column, Inv, VouchInv, OnlyVouchedUsers, Sound, u
  <2> QED BY <1>1, <1>5, <1>8, <2>1 DEF OnlyVouchedUsers, Inv, VouchInv
<1>10. b \notin late => StandingOf(users[u]) = q.row /\ StandingOf(users'[u]) = q.form
  <2>1. b \notin late => StandingOf(users[u]) = q.row
    BY <1>1, <1>3 DEF Sound, u
  <2>2. b \notin late => users'[u].admin = q.form.admin /\ users'[u].enabled = q.form.enabled
    BY <1>2, <1>4, <2>1 DEF StandingOf, Column
  <2> QED BY <1>2, <2>1, <2>2 DEF StandingOf, Standing
<1>11. StandsAsAsked'
  BY <1>1, <1>2, <1>5, <1>10 DEF StandsAsAsked, Inv, AccountsTypeOK
<1>12. OverlapsLoseAdmins'
  <2>1. CASE b \in late
    BY <1>1, <2>1 DEF OverlapsLoseAdmins
  <2>2. CASE b \notin late
    <3>1. PICK v \in EnabledAdmins : RemovesAdmin(q, q.form) => v # u
      BY <1>1, <1>3, <2>2 DEF Sound, u
    <3>2. v # u => v \in EnabledAdmins'
      BY <1>5 DEF EnabledAdmins
    <3>3. v = u => u \in EnabledAdmins'
      <4>1. ASSUME v = u PROVE users[u].admin /\ users[u].enabled /\ ~ RemovesAdmin(q, q.form)
        BY <3>1, <4>1 DEF EnabledAdmins
      <4>2. ASSUME v = u PROVE q.form.admin /\ q.form.enabled
        BY <1>2, <1>10, <2>2, <4>1, <4>2 DEF RemovesAdmin, StandingOf
      <4>3. ASSUME v = u PROVE users'[u].admin /\ users'[u].enabled
        BY <1>4, <4>1, <4>2, <4>3 DEF Column
      <4> QED BY <1>2, <1>4, <4>3 DEF EnabledAdmins
    <3> QED BY <3>2, <3>3 DEF OverlapsLoseAdmins
  <2> QED BY <2>1, <2>2
<1>13. ASSUME NEW c \in Browser PROVE Sound(requests[c], c \in late)'
  <2>1. CASE c = b
    BY <1>6, <2>1, NewRequests DEF Sound
  <2>2. CASE c # b
    <3>1. requests[c].op \in {"authorized", "update", "saving"} =>
              requests[c].user \in Email /\ users'[requests[c].user].exists
      BY <1>4, <1>5, <1>s, RequestFields, SessionsHold DEF Sound
    <3>2. requests[c].op \in {"authorized", "update", "saving"} => c \in late'
      BY <1>1, <2>2
    <3>3. Serving'
      BY <1>2, <1>4 DEF Serving
    <3> QED BY <1>6, <1>8, <1>s, <2>2, <3>1, <3>2, <3>3 DEF Sound
  <2> QED BY <2>1, <2>2
<1>14. (KnownInv /\ VouchInv /\ FreshInv)'
  BY <1>9, <1>13 DEF KnownInv, VouchInv, FreshInv, Sound, Saves
<1> QED BY <1>7, <1>11, <1>12, <1>14 DEF Inv

-----------------------------------------------------------------------------
LEMMA AccountsInvariant == Spec => []Inv
<1>1. Init => Inv
  BY TypeInit, NewRequests DEF Init, Inv, KnownInv, VouchInv, OnlyVouchedUsers, FreshInv, Saves,
     StandsAsAsked, OverlapsLoseAdmins, NoUser
<1>2. Inv /\ [Next]_vars => Inv'
  <2> SUFFICES ASSUME Inv, [Next]_vars PROVE Inv'
    OBVIOUS
  <2>1. CASE Next
    BY <2>1, StartSteps, QuietSteps, NewUserStep, KnownUserStep, UpdateStep DEF Next
  <2>2. CASE UNCHANGED vars
    BY <2>2 DEF vars, tables, history, Inv, AccountsTypeOK, KnownInv, VouchInv,
       OnlyVouchedUsers, FreshInv, Serving, Saves, StandsAsAsked, OverlapsLoseAdmins,
       EnabledAdmins
  <2> QED BY <2>1, <2>2
<1> QED BY <1>1, <1>2, PTL DEF Spec

\* Rows, requests and cookies keep their types.
THEOREM AccountsTypeCorrect == Spec => []AccountsTypeOK
<1>1. Inv => AccountsTypeOK
  BY DEF Inv
<1> QED BY <1>1, AccountsInvariant, PTL

\* Nobody is enabled, or has a session, whom no admin and no bootstrap enabled.
THEOREM UsersAreVouchedFor == Spec => []OnlyVouchedUsers
<1>1. Inv => OnlyVouchedUsers
  BY DEF Inv, VouchInv
<1> QED BY <1>1, AccountsInvariant, PTL

\* Role and enabled are those of the last form about the user, unless it
\* overlapped another update.
THEOREM UsersStandAsAsked == Spec => []StandsAsAsked
<1>1. Inv => StandsAsAsked
  BY DEF Inv
<1> QED BY <1>1, AccountsInvariant, PTL

\* The last enabled admin is lost to overlapping updates only.
THEOREM AdminsAreLostToOverlaps == Spec => []OverlapsLoseAdmins
<1>1. Inv => OverlapsLoseAdmins
  BY DEF Inv
<1> QED BY <1>1, AccountsInvariant, PTL
=============================================================================
