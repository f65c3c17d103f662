------------------------------ MODULE Accounts ------------------------------
(***************************************************************************)
(* User accounts: the first admin that a starting web process inserts       *)
(* (web.py bootstrap), signing in with a password or through OIDC, and what *)
(* admins change about users (auth/service.py and its routes).              *)
(*                                                                         *)
(* A request is one transaction at READ COMMITTED and takes no lock before  *)
(* it writes: it reads the actor, the user its form is about and the number *)
(* of enabled admins by one statement each, and its UPDATE writes the       *)
(* columns whose value differs from the row it read.                        *)
(*                                                                         *)
(* A user is named by the e-mail address, which is unique and never changed.*)
(* Names and groups are left out, and so are passwords but for who has one. *)
(***************************************************************************)
CONSTANTS
    Email,
    FirstAdmin,     \* settings.admin_email
    Subject,        \* "sub" claims of the identity provider
    Identity,       \* the <<subject, e-mail>> pairs it vouches for
    NULL,
    Browser,        \* each with a cookie jar, and one request at a time
    Process         \* web processes

ASSUME AccountsAssumption ==
    /\ FirstAdmin \in Email
    /\ Identity \subseteq Subject \X Email
    /\ NULL \notin Email \cup Subject

VARIABLES
    users,          \* table users
    oidc,           \* oidc_settings.enabled
    sessions,       \* per browser, the user of the session row its cookie names
    requests,       \* the request, or the way to OIDC, each browser has begun
    starting,       \* processes whose bootstrap found no user
    late,           \* browsers whose request began before the last update of a user
    asked,          \* history: role and enabled as they were last asked for
    overlapped,     \* users last updated by a late request
    vouched         \* history: users enabled by an admin, or by bootstrap

tables == <<users, oidc, sessions>>
history == <<late, asked, overlapped, vouched>>
vars == <<tables, requests, starting, history>>

-----------------------------------------------------------------------------
Standing == [admin : BOOLEAN, enabled : BOOLEAN]

\* No column of a row that is not there has a meaning.
UserRow == [exists : BOOLEAN, admin : BOOLEAN, enabled : BOOLEAN,
            subject : Subject \cup {NULL}, password : BOOLEAN]

NoUser == [exists |-> FALSE, admin |-> FALSE, enabled |-> FALSE,
           subject |-> NULL, password |-> FALSE]

StandingOf(row) == [admin |-> row.admin, enabled |-> row.enabled]

NoRequest == [op |-> "none"]

\* oidc_start has sent the browser to the identity provider with a state cookie.
Away == [op |-> "away"]

\* signin: the password was right;  authorized: require_admin let it pass;
\* update: the user was read;  saving: update_user has no objection to the form;
\* callback: the user of the identity was looked for, and read if there is one.
Request ==
    {NoRequest, Away}
    \cup [op : {"signin", "authorized"}, user : Email]
    \cup [op : {"update"}, actor : Email, user : Email, row : Standing]
    \cup [op : {"saving"}, user : Email, row : Standing, form : Standing]
    \cup [op : {"callback"}, identity : Identity, user : Email \cup {NULL},
          linked : BOOLEAN, enabled : BOOLEAN]

AccountsTypeOK ==
    /\ users \in [Email -> UserRow]
    /\ oidc \in BOOLEAN
    /\ sessions \in [Browser -> Email \cup {NULL}]
    /\ requests \in [Browser -> Request]
    /\ starting \subseteq Process
    /\ late \subseteq Browser
    /\ asked \in [Email -> Standing]
    /\ overlapped \subseteq Email
    /\ vouched \subseteq Email

Init ==
    /\ users = [u \in Email |-> NoUser]
    /\ oidc = FALSE
    /\ sessions = [b \in Browser |-> NULL]
    /\ requests = [b \in Browser |-> NoRequest]
    /\ starting = {}
    /\ late = {}
    /\ asked = [u \in Email |-> StandingOf(NoUser)]
    /\ overlapped = {}
    /\ vouched = {}

EnabledAdmins == {u \in Email : users[u].exists /\ users[u].admin /\ users[u].enabled}

-----------------------------------------------------------------------------
(* Starting a web process.                                                 *)

Insert(u, row) ==
    /\ ~ users[u].exists
    /\ users' = [users EXCEPT ![u] = row]
    /\ asked' = [asked EXCEPT ![u] = StandingOf(row)]

\* The count of users is zero.  A process that finds users starts as well, and
\* changes nothing.
CountNobody(p) ==
    /\ \A u \in Email : ~ users[u].exists
    /\ starting' = starting \cup {p}
    /\ UNCHANGED <<tables, requests, history>>

InsertFirstAdmin(p) ==
    /\ p \in starting
    /\ Insert(FirstAdmin, [exists |-> TRUE, admin |-> TRUE, enabled |-> TRUE,
                           subject |-> NULL, password |-> TRUE])
    /\ vouched' = vouched \cup {FirstAdmin}
    /\ starting' = starting \ {p}
    /\ UNCHANGED <<oidc, sessions, requests, late, overlapped>>

\* Another process was faster: the unique index ends this one.
InsertFails(p) ==
    /\ p \in starting
    /\ users[FirstAdmin].exists
    /\ starting' = starting \ {p}
    /\ UNCHANGED <<tables, requests, history>>

-----------------------------------------------------------------------------
(* Requests.  A process serves them once bootstrap has returned.           *)

Serving == \E u \in Email : users[u].exists

Begin(b, request) ==
    /\ Serving
    /\ requests[b] = NoRequest
    /\ requests' = [requests EXCEPT ![b] = request]
    /\ UNCHANGED <<tables, starting, history>>

\* b's request is answered, with or without having written.
End(b) ==
    /\ requests' = [requests EXCEPT ![b] = NoRequest]
    /\ late' = late \ {b}

LoadSignIn(b, u) ==
    /\ users[u].exists /\ users[u].password /\ users[u].enabled
    /\ Begin(b, [op |-> "signin", user |-> u])

CommitSignIn(b) ==
    /\ requests[b].op = "signin"
    /\ sessions' = [sessions EXCEPT ![b] = requests[b].user]
    /\ End(b)
    /\ UNCHANGED <<users, oidc, starting, asked, overlapped, vouched>>

Logout(b) ==
    /\ Serving /\ requests[b] = NoRequest
    /\ sessions' = [sessions EXCEPT ![b] = NULL]
    /\ UNCHANGED <<users, oidc, requests, starting, history>>

\* Fourteen days after start_session.
SessionExpires(b) ==
    /\ sessions[b] # NULL
    /\ sessions' = [sessions EXCEPT ![b] = NULL]
    /\ UNCHANGED <<users, oidc, requests, starting, history>>

\* current_user and require_admin.
Authorize(b) ==
    /\ sessions[b] # NULL
    /\ sessions[b] \in EnabledAdmins
    /\ Begin(b, [op |-> "authorized", user |-> sessions[b]])

SaveOidc(b, enabled) ==
    /\ requests[b].op = "authorized"
    /\ oidc' = enabled
    /\ End(b)
    /\ UNCHANGED <<users, sessions, starting, asked, overlapped, vouched>>

-----------------------------------------------------------------------------
(* users_update.                                                           *)

\* An admin's own row is read but once, by require_admin.
LoadUser(b, u) ==
    /\ requests[b].op = "authorized"
    /\ users[u].exists
    /\ requests' = [requests EXCEPT ![b] =
           [op |-> "update", actor |-> @.user, user |-> u,
            row |-> IF u = @.user THEN [admin |-> TRUE, enabled |-> TRUE]
                                  ELSE StandingOf(users[u])]]
    /\ UNCHANGED <<tables, starting, history>>

\* Only a form that disables an admin is counted as removing one.
BugRemovesAdmin(q, form) == q.row.admin /\ q.row.enabled /\ ~ form.enabled

RemovesAdmin(q, form) ==
    q.row.admin /\ q.row.enabled /\ (~ form.enabled \/ ~ form.admin)

\* The count comes out as one, or as none.
AtMostOneAdmin == \A u, v \in EnabledAdmins : u = v

DisablesItself(q, form) == q.actor = q.user /\ ~ form.enabled

Objection(q, form) ==
    \/ RemovesAdmin(q, form) /\ AtMostOneAdmin
    \/ DisablesItself(q, form)

Decide(b, form) ==
    LET q == requests[b] IN
    /\ q.op = "update"
    /\ ~ Objection(q, form)
    /\ requests' = [requests EXCEPT ![b] =
           [op |-> "saving", user |-> q.user, row |-> q.row, form |-> form]]
    /\ UNCHANGED <<tables, starting, history>>

RefuseUpdate(b, form) ==
    /\ requests[b].op = "update"
    /\ Objection(requests[b], form)
    /\ End(b)
    /\ UNCHANGED <<tables, starting, asked, overlapped, vouched>>

Column(now, old, new) == IF new = old THEN now ELSE new

Updated(row, q) ==
    [row EXCEPT !.admin = Column(@, q.row.admin, q.form.admin),
                !.enabled = Column(@, q.row.enabled, q.form.enabled)]

\* Every admin's request that has begun is late from now on.
CommitUpdate(b) ==
    LET q == requests[b] IN
    /\ q.op = "saving"
    /\ users' = [users EXCEPT ![q.user] = Updated(@, q)]
    /\ requests' = [requests EXCEPT ![b] = NoRequest]
    /\ late' = {c \in Browser \ {b} : requests[c].op \in {"authorized", "update", "saving"}}
    /\ asked' = [asked EXCEPT ![q.user] = q.form]
    /\ overlapped' = IF b \in late THEN overlapped \cup {q.user}
                                   ELSE overlapped \ {q.user}
    /\ vouched' = IF q.form.enabled /\ ~ q.row.enabled THEN vouched \cup {q.user}
                                                       ELSE vouched
    /\ UNCHANGED <<oidc, sessions, starting>>

-----------------------------------------------------------------------------
(* Signing in through OIDC.                                                *)

OidcStart(b) == oidc /\ Begin(b, Away)

\* The state cookie expires, or the browser never comes back.
OidcExpires(b) ==
    /\ requests[b] = Away
    /\ requests' = [requests EXCEPT ![b] = NoRequest]
    /\ UNCHANGED <<tables, starting, history>>

\* The user with the subject, or else the one with the e-mail address.
Matches(identity) ==
    LET linked == {u \in Email : users[u].exists /\ users[u].subject = identity[1]}
    IN  IF linked # {} THEN linked ELSE {u \in {identity[2]} : users[u].exists}

\* oidc_callback up to accept_oidc_user; it does not ask whether OIDC is still
\* enabled.
LoadCallback(b, identity) ==
    /\ requests[b] = Away
    /\ \/ /\ Matches(identity) = {}
          /\ requests' = [requests EXCEPT ![b] =
                 [op |-> "callback", identity |-> identity, user |-> NULL,
                  linked |-> FALSE, enabled |-> FALSE]]
       \/ \E u \in Matches(identity) :
             requests' = [requests EXCEPT ![b] =
                 [op |-> "callback", identity |-> identity, user |-> u,
                  linked |-> users[u].subject # NULL, enabled |-> users[u].enabled]]
    /\ UNCHANGED <<tables, starting, history>>

SubjectIsFree(subject, u) ==
    \A v \in Email \ {u} : ~ (users[v].exists /\ users[v].subject = subject)

\* The model's default for enabled, which is true, is not overridden.
BugCommitNewUser(b) ==
    LET q == requests[b] IN
    /\ q.op = "callback" /\ q.user = NULL
    /\ SubjectIsFree(q.identity[1], q.identity[2])
    /\ Insert(q.identity[2], [exists |-> TRUE, admin |-> FALSE, enabled |-> TRUE,
                              subject |-> q.identity[1], password |-> FALSE])
    /\ End(b)
    /\ UNCHANGED <<oidc, sessions, starting, overlapped, vouched>>

\* Subject and address come back from the identity provider in the wrong order.
BugNewUserSwapped(b) ==
    LET q == requests[b] IN
    /\ q.op = "callback" /\ q.user = NULL
    /\ Insert(q.identity[2], [exists |-> TRUE, admin |-> FALSE, enabled |-> FALSE,
                              subject |-> q.identity[2], password |-> FALSE])
    /\ End(b)
    /\ UNCHANGED <<oidc, sessions, starting, overlapped, vouched>>

\* A new user is disabled and gets no session.
CommitNewUser(b) ==
    LET q == requests[b] IN
    /\ q.op = "callback" /\ q.user = NULL
    /\ SubjectIsFree(q.identity[1], q.identity[2])
    /\ Insert(q.identity[2], [exists |-> TRUE, admin |-> FALSE, enabled |-> FALSE,
                              subject |-> q.identity[1], password |-> FALSE])
    /\ End(b)
    /\ UNCHANGED <<oidc, sessions, starting, overlapped, vouched>>

\* The row is written as it was read, its enabled column included.
BugCommitKnownUser(b) ==
    LET q == requests[b] IN
    /\ q.op = "callback" /\ q.user # NULL
    /\ q.linked \/ SubjectIsFree(q.identity[1], q.user)
    /\ users' = [users EXCEPT ![q.user].subject = IF q.linked THEN @ ELSE q.identity[1],
                              ![q.user].enabled = q.enabled]
    /\ sessions' = [sessions EXCEPT ![b] = IF q.enabled THEN q.user ELSE @]
    /\ End(b)
    /\ UNCHANGED <<oidc, starting, asked, overlapped, vouched>>

\* The user is linked if the row that was read was not, and signed in if it was
\* enabled.
CommitKnownUser(b) ==
    LET q == requests[b] IN
    /\ q.op = "callback" /\ q.user # NULL
    /\ q.linked \/ SubjectIsFree(q.identity[1], q.user)
    /\ users' = [users EXCEPT ![q.user].subject = IF q.linked THEN @ ELSE q.identity[1]]
    /\ sessions' = [sessions EXCEPT ![b] = IF q.enabled THEN q.user ELSE @]
    /\ End(b)
    /\ UNCHANGED <<oidc, starting, asked, overlapped, vouched>>

\* A unique index, of subjects or of e-mail addresses, fails the transaction;
\* the browser keeps its state cookie.
CallbackFails(b) ==
    LET q == requests[b] IN
    /\ q.op = "callback"
    /\ IF q.user = NULL
       THEN users[q.identity[2]].exists \/ ~ SubjectIsFree(q.identity[1], q.identity[2])
       ELSE ~ q.linked /\ ~ SubjectIsFree(q.identity[1], q.user)
    /\ requests' = [requests EXCEPT ![b] = Away]
    /\ UNCHANGED <<tables, starting, history>>

-----------------------------------------------------------------------------
Next ==
    \/ \E p \in Process : \/ CountNobody(p) \/ InsertFirstAdmin(p) \/ InsertFails(p)
    \/ \E b \in Browser :
          \/ CommitSignIn(b) \/ Logout(b) \/ SessionExpires(b) \/ Authorize(b)
          \/ CommitUpdate(b)
          \/ OidcStart(b) \/ OidcExpires(b)
          \/ CommitNewUser(b) \/ CommitKnownUser(b) \/ CallbackFails(b)
          \/ \E u \in Email : LoadSignIn(b, u) \/ LoadUser(b, u)
          \/ \E form \in Standing : Decide(b, form) \/ RefuseUpdate(b, form)
          \/ \E enabled \in BOOLEAN : SaveOidc(b, enabled)
          \/ \E identity \in Identity : LoadCallback(b, identity)

Spec == Init /\ [][Next]_vars

-----------------------------------------------------------------------------
(* Properties.                                                             *)

\* "OIDC users stay disabled until an admin enables them" (README.md): whoever
\* is enabled, or has a session, was once enabled by an admin or inserted by
\* bootstrap, however sign-ins and updates overlap.
OnlyVouchedUsers ==
    /\ \A u \in Email : users[u].exists /\ users[u].enabled => u \in vouched
    /\ \A b \in Browser : sessions[b] # NULL => sessions[b] \in vouched

\* Role and enabled stand as the last form about the user asked, unless that
\* form's request overlapped another update: a sign-in that read the row
\* before an update does not undo it.
StandsAsAsked ==
    \A u \in Email : u \in overlapped \/ StandingOf(users[u]) = asked[u]

\* Once there are users there is an enabled admin, unless some user was last
\* updated by a request that overlapped another update.
OverlapsLoseAdmins ==
    (\E u \in Email : users[u].exists) => EnabledAdmins # {} \/ overlapped # {}

\* Claimed by the message "Keep at least one enabled admin." of update_user:
\* once there are users there is an enabled admin.
AnAdminRemains ==
    (\E u \in Email : users[u].exists) => EnabledAdmins # {}
=============================================================================
