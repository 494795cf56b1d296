------------------------------ MODULE Sessions ------------------------------
(***************************************************************************)
(* What the API promises about accounts and the sessions of their users:   *)
(* to register, log in, log out, change a password and delete an account   *)
(* are each one step, whatever the requests do in between.  A session is   *)
(* opened with the password of that moment, never passes to another user,  *)
(* and ends by the actions of its own user or client alone; a new password *)
(* and the deletion of the account end all sessions of the user at once.   *)
(***************************************************************************)
CONSTANTS Users, Passwords, Jars, None

VARIABLES
  password,   \* of each user, None if there is no such user (any more)
  deleted,    \* users that deleted their account
  sessions    \* open sessions

vars == <<password, deleted, sessions>>

\* The client with the cookie jar acts as the user, having presented the password.
Session == [jar : Jars, user : Users, presented : Passwords]

\* At most one session in a jar.
OfOther(j) == {s \in sessions : s.jar # j}
EndAll(u) == sessions' = {s \in sessions : s.user # u}

Init ==
  /\ password = [u \in Users |-> None]
  /\ deleted = {} /\ sessions = {}

Register(u, p) ==
  /\ password[u] = None /\ u \notin deleted
  /\ password' = [password EXCEPT ![u] = p]
  /\ UNCHANGED <<deleted, sessions>>

LogIn(j, u, p) ==
  /\ password[u] = p
  /\ sessions' = OfOther(j) \cup {[jar |-> j, user |-> u, presented |-> p]}
  /\ UNCHANGED <<password, deleted>>

LogOut(j) ==
  /\ sessions' = OfOther(j)
  /\ UNCHANGED <<password, deleted>>

LogOutEverywhere(j, u) ==
  /\ sessions' = {s \in OfOther(j) : s.user # u}
  /\ UNCHANGED <<password, deleted>>

ChangePassword(u, p) ==
  /\ password[u] # None
  /\ password' = [password EXCEPT ![u] = p]
  /\ EndAll(u)
  /\ UNCHANGED deleted

DeleteAccount(u) ==
  /\ password[u] # None
  /\ password' = [password EXCEPT ![u] = None]
  /\ deleted' = deleted \cup {u}
  /\ EndAll(u)

Next ==
  \/ \E j \in Jars : LogOut(j) \/ \E u \in Users : LogOutEverywhere(j, u)
  \/ \E j \in Jars, u \in Users, p \in Passwords : LogIn(j, u, p)
  \/ \E u \in Users, p \in Passwords : Register(u, p) \/ ChangePassword(u, p)
  \/ \E u \in Users : DeleteAccount(u)

Spec == Init /\ [][Next]_vars
=============================================================================
