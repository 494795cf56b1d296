------------------------------ MODULE Accounts ------------------------------
(***************************************************************************)
(* Users, groups and sessions of the REST API: registration, log in and    *)
(* out, change of name, mail address and password, and deletion of one's   *)
(* own account.                                                            *)
(*                                                                         *)
(* A session is a cookie in a client's jar that carries the user's         *)
(* alternative id, here a number never handed out before.  A request with  *)
(* a cookie first loads the user it belongs to, then makes its checks and  *)
(* then commits; another worker process may commit between these steps,    *)
(* and neither user names nor group names are unique in the database.      *)
(* Every group is one that a registration made as the default group: the   *)
(* services can create, rename and delete others, but no route of the API  *)
(* leads there.                                                            *)
(***************************************************************************)
EXTENDS Naturals, FiniteSets

CONSTANTS
  Users, Groups,    \* ids the database can hand out
  Names, Mails,     \* what a registration may ask for
  NewNames,         \* names a user may change to
  Passwords,
  Jars,             \* cookie jars of clients
  Workers,          \* worker processes of the REST API
  MaxRequests,      \* bound: requests received in one behaviour
  MaxExpiries,      \* bound: passwords that expire in one behaviour
  None

ASSUME NoneAssumption ==
  /\ None \notin Users /\ None \notin Names \cup NewNames /\ None \notin Mails
  /\ None \notin Passwords
ASSUME BoundAssumption == MaxRequests \in Nat /\ MaxExpiries \in Nat

VARIABLES
  user,      \* rows of users with their delete locks; None if not registered
  group,     \* rows of groups with their members; None if not created
  jar,       \* the cookie in each jar, and the password it was obtained with
  request,   \* what each worker is serving
  uuids,     \* alternative ids handed out
  received, expiries

database == <<user, group>>
vars == <<user, group, jar, request, uuids, received, expiries>>

User == [name : Names \cup NewNames, mail : Mails, password : Passwords,
         alternative_id : Nat, deleted : BOOLEAN, expired : BOOLEAN]
Group == [creator : Users, members : SUBSET Users]
Cookie == [alternative_id : Nat, presented : Passwords]
SignedIn == {"modify", "delete", "change", "change_by_id", "logout", "logout_everywhere"}
Request ==
  [op : {"register", "login"} \cup SignedIn, jar : Jars \cup {None},
   cookie : Nat,                                \* alternative id of the cookie
   name : Names \cup NewNames \cup {None},
   mail : Mails \cup {None}, password : Passwords \cup {None},
   new : Passwords \cup {None}, target : Users \cup {None},
   current : Users \cup {None},                 \* the user loaded, and the
   seen : Passwords \cup {None},                \* password of its row then
   phase : {"received", "loaded", "checked"}]
ASSUME RecordAssumption ==
  None \notin User /\ None \notin Group /\ None \notin Cookie /\ None \notin Request

TypeOK ==
  /\ user \in [Users -> User \cup {None}]
  /\ group \in [Groups -> Group \cup {None}]
  /\ jar \in [Jars -> Cookie \cup {None}]
  /\ request \in [Workers -> Request \cup {None}]
  /\ uuids \in Nat /\ received \in Nat /\ expiries \in Nat

Init ==
  /\ user = [u \in Users |-> None]
  /\ group = [g \in Groups |-> None]
  /\ jar = [j \in Jars |-> None]
  /\ request = [w \in Workers |-> None]
  /\ uuids = 0 /\ received = 0 /\ expiries = 0

-----------------------------------------------------------------------------
(* What a query sees                                                       *)

Registered == {u \in Users : user[u] # None}
Created == {g \in Groups : group[g] # None}
\* Mutant: the deletion policy is not applied.
LiveOrDeleted == Registered
Live == {u \in Registered : ~user[u].deleted}

\* load_user(): the session names a user that is not deleted.
LoadedBy(id) == {u \in Live : user[u].alternative_id = id}

\* check_user_collision(): deleted users keep their name and mail address.
Collides(n, m) == \E u \in Registered : user[u].name = n \/ user[u].mail = m

\* authenticate(): the right password, not expired.
Authenticates(u, p) == user[u].password = p /\ ~user[u].expired

-----------------------------------------------------------------------------
(* Requests                                                                *)

Blank(op, j, id) ==
  [op |-> op, jar |-> j, cookie |-> id, name |-> None, mail |-> None,
   password |-> None, new |-> None, target |-> None, current |-> None,
   seen |-> None, phase |-> "received"]

Send(w, q) == request' = [request EXCEPT ![w] = q]

\* What a client sends with the cookie of its jar.  Requests whose password
\* confirmation differs are refused without any effect and are left out.
SendWithCookie(w, j) ==
  LET base(op) == Blank(op, j, jar[j].alternative_id) IN
  \/ \E n \in NewNames, m \in Mails :
        Send(w, [base("modify") EXCEPT !.name = n, !.mail = m])
  \/ \E p \in Passwords : Send(w, [base("delete") EXCEPT !.password = p])
  \/ \E p, q \in Passwords :
        Send(w, [base("change") EXCEPT !.password = p, !.new = q])
  \/ \E u \in Users, p, q \in Passwords :
        Send(w, [base("change_by_id") EXCEPT !.target = u, !.password = p, !.new = q])
  \/ Send(w, base("logout"))
  \/ Send(w, base("logout_everywhere"))

\* Registration and log in need no cookie.
Receive(w) ==
  /\ request[w] = None /\ received < MaxRequests
  /\ received' = received + 1
  /\ \/ \E n \in Names, m \in Mails, p \in Passwords :
           Send(w, [Blank("register", None, 0) EXCEPT !.name = n, !.mail = m,
                                                      !.password = p])
     \/ \E j \in Jars, n \in Names \cup NewNames, p \in Passwords :
           Send(w, [Blank("login", j, 0) EXCEPT !.name = n, !.password = p])
     \/ \E j \in Jars : jar[j] # None /\ SendWithCookie(w, j)
  /\ UNCHANGED <<user, group, jar, uuids, expiries>>

Serving(w, ops, phase) ==
  request[w] # None /\ request[w].op \in ops /\ request[w].phase = phase

\* The worker has answered, with an error or with success.
Done(w) == request' = [request EXCEPT ![w] = None]

\* The login manager loads the user of the cookie, or answers "unauthorized".
Load(w) ==
  /\ Serving(w, SignedIn, "received")
  /\ LET loaded == LoadedBy(request[w].cookie) IN
     \/ \E u \in loaded :
           request' = [request EXCEPT ![w].phase = "loaded", ![w].current = u,
                                      ![w].seen = user[u].password]
     \/ loaded = {} /\ Done(w)
  /\ UNCHANGED <<database, jar, uuids, received, expiries>>

Checked(w) == request' = [request EXCEPT ![w].phase = "checked"]

-----------------------------------------------------------------------------
(* Registration                                                            *)

\* The default group is looked for, or prepared; so is the new user.
CheckRegister(w) ==
  /\ Serving(w, {"register"}, "received")
  /\ LET q == request[w] IN
     IF Collides(q.name, q.mail) THEN Done(w)
     ELSE \/ /\ Created = {}
             /\ request' = [request EXCEPT ![w].phase = "loaded"]
          \/ Created # {} /\ Checked(w)
  /\ UNCHANGED <<database, jar, uuids, received, expiries>>

\* Mutant: a default that is computed once and not at every call.
NewIdOnce == 1

\* uuid4(): an alternative id never handed out before.
NewId == uuids + 1

NewUser(q) ==
  [name |-> q.name, mail |-> q.mail, password |-> q.password,
   alternative_id |-> NewId, deleted |-> FALSE, expired |-> FALSE]

Joined(row, u) == [row EXCEPT !.members = @ \cup {u}]

\* The user joins the default group it has found ...
CommitRegister(w) ==
  /\ Serving(w, {"register"}, "checked")
  /\ \E u \in Users \ Registered, g \in Created :
        /\ user' = [user EXCEPT ![u] = NewUser(request[w])]
        /\ group' = [group EXCEPT ![g] = Joined(@, u)]
  /\ uuids' = uuids + 1
  /\ Done(w)
  /\ UNCHANGED <<jar, received, expiries>>

\* ... or, having found none, creates it with itself as creator and member.
CommitFirstRegister(w) ==
  /\ Serving(w, {"register"}, "loaded")
  /\ \E u \in Users \ Registered, g \in Groups \ Created :
        /\ user' = [user EXCEPT ![u] = NewUser(request[w])]
        /\ group' = [group EXCEPT ![g] = [creator |-> u, members |-> {u}]]
  /\ uuids' = uuids + 1
  /\ Done(w)
  /\ UNCHANGED <<jar, received, expiries>>

-----------------------------------------------------------------------------
(* Log in and log out                                                      *)

\* The cookie is made of the row that was read; a name that several live
\* users have leads to any of them.
CheckLogin(w) ==
  /\ Serving(w, {"login"}, "received")
  /\ LET q == request[w]
         named == {u \in Live : user[u].name = q.name}
     IN \/ named = {} /\ Done(w)
        \/ \E u \in named :
             IF Authenticates(u, q.password)
             THEN request' = [request EXCEPT ![w].phase = "checked",
                                             ![w].current = u,
                                             ![w].cookie = user[u].alternative_id]
             ELSE Done(w)
  /\ UNCHANGED <<database, jar, uuids, received, expiries>>

\* The time of the login is stored and the answer sets the cookie.
CommitLogin(w) ==
  /\ Serving(w, {"login"}, "checked")
  /\ LET q == request[w] IN
     jar' = [jar EXCEPT ![q.jar] = [alternative_id |-> q.cookie,
                                    presented |-> q.password]]
  /\ Done(w)
  /\ UNCHANGED <<database, uuids, received, expiries>>

Logout(w) ==
  /\ Serving(w, {"logout"}, "loaded")
  /\ jar' = [jar EXCEPT ![request[w].jar] = None]
  /\ Done(w)
  /\ UNCHANGED <<database, uuids, received, expiries>>

LogoutEverywhere(w) ==
  /\ Serving(w, {"logout_everywhere"}, "loaded")
  /\ user' = [user EXCEPT ![request[w].current].alternative_id = NewId]
  /\ jar' = [jar EXCEPT ![request[w].jar] = None]
  /\ uuids' = uuids + 1
  /\ Done(w)
  /\ UNCHANGED <<group, received, expiries>>

-----------------------------------------------------------------------------
(* Changes of an account                                                   *)

\* modify() of the current user looks neither the name nor the address up.
CommitModify(w) ==
  /\ Serving(w, {"modify"}, "loaded")
  /\ LET q == request[w] IN
     user' = [user EXCEPT ![q.current].name = q.name, ![q.current].mail = q.mail]
  /\ Done(w)
  /\ UNCHANGED <<group, jar, uuids, received, expiries>>

\* delete() of the current user asks for the password, then for the lock.
CheckDelete(w) ==
  /\ Serving(w, {"delete"}, "loaded")
  /\ LET q == request[w] IN
     IF q.seen = q.password /\ ~user[q.current].expired /\ ~user[q.current].deleted
     THEN Checked(w) ELSE Done(w)
  /\ UNCHANGED <<database, jar, uuids, received, expiries>>

\* The lock is a primary key: a second one is a conflict and changes nothing.
CommitDelete(w) ==
  /\ Serving(w, {"delete"}, "checked")
  /\ user' = [user EXCEPT ![request[w].current].deleted = TRUE]
  /\ Done(w)
  /\ UNCHANGED <<group, jar, uuids, received, expiries>>

\* The password a change compares with: that of the row read, which for the
\* current user is the row loaded with the cookie.
StoredPassword(q, u) == IF u = q.current THEN q.seen ELSE user[u].password

\* change(): the current password must be right, expired or not, and the new
\* one different.  The change by id looks for a user that is not deleted.
CheckChange(w) ==
  /\ Serving(w, {"change", "change_by_id"}, "loaded")
  /\ LET q == request[w]
         u == IF q.op = "change" THEN q.current ELSE q.target
         found == q.op = "change" \/ u \in Live
     IN IF found /\ StoredPassword(q, u) = q.password /\ q.new # q.password
        THEN request' = [request EXCEPT ![w].phase = "checked", ![w].target = u]
        ELSE Done(w)
  /\ UNCHANGED <<database, jar, uuids, received, expiries>>

\* Mutant: the sessions of the old password stay open.
ChangedKeepingSessions(row, p, id) == [row EXCEPT !.password = p, !.expired = FALSE]

\* A new password comes with a new alternative id, which ends all sessions.
Changed(row, p, id) ==
  [row EXCEPT !.password = p, !.alternative_id = id, !.expired = FALSE]

CommitChange(w) ==
  /\ Serving(w, {"change", "change_by_id"}, "checked")
  /\ LET q == request[w] IN
     user' = [user EXCEPT ![q.target] = Changed(@, q.new, NewId)]
  /\ uuids' = uuids + 1
  /\ Done(w)
  /\ UNCHANGED <<group, jar, received, expiries>>

-----------------------------------------------------------------------------
\* The worker dies, or its commit fails: the transaction is rolled back.
Lose(w) ==
  /\ request[w] # None
  /\ Done(w)
  /\ UNCHANGED <<database, jar, uuids, received, expiries>>

\* A year passes without a change of the password.
Expire(u) ==
  /\ u \in Registered /\ ~user[u].expired /\ expiries < MaxExpiries
  /\ user' = [user EXCEPT ![u].expired = TRUE]
  /\ expiries' = expiries + 1
  /\ UNCHANGED <<group, jar, request, uuids, received>>

Serve(w) ==
  \/ Load(w) \/ CheckRegister(w) \/ CommitRegister(w) \/ CommitFirstRegister(w)
  \/ CheckLogin(w) \/ CommitLogin(w) \/ Logout(w) \/ LogoutEverywhere(w)
  \/ CommitModify(w) \/ CheckDelete(w) \/ CommitDelete(w)
  \/ CheckChange(w) \/ CommitChange(w)

Next ==
  \/ \E w \in Workers : Receive(w) \/ Serve(w) \/ Lose(w)
  \/ \E u \in Users : Expire(u)

Spec == Init /\ [][Next]_vars
-----------------------------------------------------------------------------
(* Correctness                                                             *)

\* The user that a request with the cookie of this jar would act as.
ActsAs(j) == IF jar[j] = None THEN {} ELSE LoadedBy(jar[j].alternative_id)

\* Whoever can act as a user has presented the user's present password: a
\* change of the password closes every session opened with the old one, also
\* those of logins and changes that are under way at that moment.
SessionsHoldThePassword ==
  \A j \in Jars : \A u \in ActsAs(j) : jar[j].presented = user[u].password

\* A cookie leads to one user, and one that no longer works never works again
\* (the reason load_user() looks for the alternative id).
ClosedSessionsStayClosed ==
  [][\A j \in Jars : jar[j] # None /\ jar'[j] = jar[j] =>
        ActsAs(j)' \subseteq ActsAs(j) /\ Cardinality(ActsAs(j)) <= 1]_vars

\* Every registered user, and nobody else, belongs to a default group, and so
\* does the user that created it.
UsersBelongToPublic ==
  /\ \A u \in Registered : \E g \in Created : u \in group[g].members
  /\ \A g \in Created : group[g].members \subseteq Registered
                        /\ group[g].creator \in group[g].members

\* The worker serves a request in the name of the user, or has found the user
\* whose password it is about to change.
Engaged(w, u) ==
  /\ request[w] # None
  /\ request[w].current = u \/ (request[w].phase = "checked" /\ request[w].target = u)

\* Nothing new is begun for a deleted user, whatever cookies and passwords its
\* clients still hold: its row changes, but for the age of the password, only
\* by requests that were under way when it was deleted.
DeletedUsersActNoMore ==
  [][\A u \in Registered : user[u].deleted =>
        /\ \A w \in Workers : Engaged(w, u)' => Engaged(w, u)
        /\ user'[u] # [user[u] EXCEPT !.expired = user'[u].expired] =>
              \E w \in Workers : Engaged(w, u)]_vars

\* The variables of Sessions: a user that is not there has no password, and a
\* session is a cookie that leads to a user.
PasswordInForce == [u \in Users |-> IF u \in Live THEN user[u].password ELSE None]
OpenSessions ==
  UNION {{[jar |-> j, user |-> u, presented |-> jar[j].presented] : u \in ActsAs(j)} :
           j \in Jars}
Promise == INSTANCE Sessions WITH
  password <- PasswordInForce, deleted <- Registered \ Live, sessions <- OpenSessions

\* Requests are loaded, checked and committed in steps of several workers, and
\* yet to register, log in and out, change the password and delete the account
\* are each as one step: a login whose user got a new password meanwhile opens
\* nothing, and no session ends but by its own client or user.
ImplementsSessions == Promise!Spec

=============================================================================
