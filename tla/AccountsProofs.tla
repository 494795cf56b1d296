--------------------------- MODULE AccountsProofs ---------------------------
(***************************************************************************)
(* Theorems about Accounts, for every value of its constants.              *)
(*                                                                         *)
(* The argument is about pairs of an alternative id and a password.  A     *)
(* cookie, and a login about to set one, carries such a pair; the pair is  *)
(* sound if every row with the id has the password.  A step either leaves  *)
(* the pair of a row alone or gives the row an id never handed out, so a   *)
(* sound pair stays sound, and a cookie that leads nowhere leads nowhere   *)
(* for good.  On the same invariant rest the facts about memberships, and, *)
(* with AimsOK (only a change of password aims at a user), those about     *)
(* deleted users.  The last part shows that Accounts implements Sessions:  *)
(* one row changes in a step, and what its cookies led to is all that ends.*)
(***************************************************************************)
EXTENDS Accounts, FiniteSetTheorems, TLAPS

\* Every row with the alternative id has the password.
Sound(id, p) ==
  id <= uuids /\ \A u \in Registered : user[u].alternative_id = id => user[u].password = p

RequestOK(q) ==
  /\ q.op = "register" => q.name \in Names /\ q.mail \in Mails /\ q.password \in Passwords
  /\ q.op = "login" => q.jar \in Jars /\ q.password \in Passwords
  /\ q.op = "login" /\ q.phase = "checked" => Sound(q.cookie, q.password)
  /\ q.op \in SignedIn => q.jar \in Jars
  /\ q.op \in SignedIn /\ q.phase # "received" => q.current \in Registered
  /\ q.op = "modify" => q.name \in NewNames /\ q.mail \in Mails
  /\ q.op \in {"change", "change_by_id"} => q.new \in Passwords
  /\ q.op \in {"change", "change_by_id"} /\ q.phase = "checked" => q.target \in Registered

\* Alternative ids are those handed out and lead to one user.
IdsApart ==
  \A u \in Registered :
     /\ user[u].alternative_id <= uuids
     /\ \A v \in Registered : user[u].alternative_id = user[v].alternative_id => u = v

AccountsInv ==
  /\ TypeOK
  /\ IdsApart
  /\ \A j \in Jars : jar[j] # None => Sound(jar[j].alternative_id, jar[j].presented)
  /\ \A w \in Workers : request[w] # None => RequestOK(request[w])

-----------------------------------------------------------------------------
(* What a step does to the rows                                            *)

Absent(u) == user[u] = None /\ user'[u] = None
SamePair(u) ==
  /\ user[u] # None /\ user'[u] # None
  /\ user'[u].alternative_id = user[u].alternative_id
  /\ user'[u].password = user[u].password
NewPair(u) ==
  user'[u] # None /\ user'[u].alternative_id = uuids + 1 /\ uuids' = uuids + 1

\* At most one row gets a new pair, and no row disappears.
RowsStep ==
  /\ user' \in [Users -> User \cup {None}]
  /\ uuids' \in Nat /\ uuids <= uuids'
  /\ \A u \in Users : Absent(u) \/ SamePair(u) \/ NewPair(u)
  /\ \A u, v \in Users : NewPair(u) /\ NewPair(v) => SamePair(u) \/ SamePair(v) \/ u = v
  /\ Registered \subseteq Registered'

\* A sound pair stays sound.
LEMMA SoundStays ==
  ASSUME TypeOK, IdsApart, RowsStep, NEW id \in Nat, NEW p, Sound(id, p)
  PROVE  Sound(id, p)'
BY DEF TypeOK, RowsStep, Sound, Registered, Absent, SamePair, NewPair

LEMMA IdsStayApart ==
  ASSUME TypeOK, IdsApart, RowsStep
  PROVE  IdsApart'
PROOF
<1>1. \A u \in Users : user'[u] # None => SamePair(u) \/ NewPair(u)
  BY DEF RowsStep, Absent
<1>2. \A u \in Users : SamePair(u) => user[u].alternative_id <= uuids /\ u \in Registered
  BY DEF SamePair, IdsApart, Registered
<1>3. uuids \in Nat /\ uuids' \in Nat /\ uuids <= uuids'
      /\ \A u \in Registered : user[u].alternative_id \in Nat
  BY DEF TypeOK, RowsStep, Registered, User
<1>4. ASSUME NEW u \in Registered', NEW v \in Registered',
             user'[u].alternative_id = user'[v].alternative_id
      PROVE  u = v
  BY <1>1, <1>2, <1>3, <1>4 DEF RowsStep, SamePair, NewPair, IdsApart, Registered
<1>5. \A u \in Registered' : user'[u].alternative_id <= uuids'
  BY <1>1, <1>2, <1>3 DEF SamePair, NewPair, Registered
<1> QED
  BY <1>4, <1>5 DEF IdsApart

LEMMA RequestsStayGood ==
  ASSUME TypeOK, IdsApart, RowsStep, NEW q \in Request, RequestOK(q)
  PROVE  RequestOK(q)'
PROOF
<1>1. Sound(q.cookie, q.password) => Sound(q.cookie, q.password)'
  BY SoundStays DEF Request
<1>2. Registered \subseteq Registered'
  BY DEF RowsStep
<1> QED
  BY <1>1, <1>2 DEF RequestOK

\* Nothing happens to the rows.
LEMMA RowsKept ==
  ASSUME TypeOK, user' = user, uuids' = uuids
  PROVE  RowsStep
BY DEF TypeOK, RowsStep, Absent, SamePair, NewPair, Registered

\* One row changes and keeps its pair.
LEMMA RowChanged ==
  ASSUME TypeOK, NEW t \in Registered, NEW row \in User, uuids' = uuids,
         user' = [user EXCEPT ![t] = row],
         row.alternative_id = user[t].alternative_id, row.password = user[t].password
  PROVE  RowsStep
PROOF
<1>1. t \in Users /\ user \in [Users -> User \cup {None}] /\ row # None
      /\ uuids \in Nat /\ user[t] # None
  BY RecordAssumption DEF TypeOK, Registered
<1>2. \A u \in Users : Absent(u) \/ SamePair(u)
  BY <1>1 DEF Absent, SamePair
<1>3. \A u \in Users : ~NewPair(u)
  BY <1>1 DEF NewPair
<1> QED
  BY <1>1, <1>2, <1>3 DEF RowsStep, Registered

\* One row, new or old, gets a new pair.
LEMMA RowRenewed ==
  ASSUME TypeOK, IdsApart, NEW t \in Users, NEW row \in User, uuids' = uuids + 1,
         user' = [user EXCEPT ![t] = row], row.alternative_id = uuids + 1
  PROVE  RowsStep
PROOF
<1>1. user \in [Users -> User \cup {None}] /\ row # None /\ uuids \in Nat
  BY RecordAssumption DEF TypeOK
<1>2. \A u \in Users \ {t} : Absent(u) \/ SamePair(u)
  BY <1>1 DEF Absent, SamePair
<1>3. NewPair(t)
  BY <1>1 DEF NewPair
<1>4. \A u, v \in Users : NewPair(u) /\ NewPair(v) => SamePair(u) \/ SamePair(v) \/ u = v
  BY <1>2 DEF NewPair, Absent
<1> QED
  BY <1>1, <1>2, <1>3, <1>4 DEF RowsStep, Registered

-----------------------------------------------------------------------------
(* Putting a step together                                                 *)

\* The other workers' requests stay; this one is over or well formed.
RequestsStep(w) ==
  /\ request' \in [Workers -> Request \cup {None}]
  /\ \A v \in Workers \ {w} : request'[v] = request[v]
  /\ request'[w] = None \/ RequestOK(request[w])'

\* Cookies stay, are dropped, or carry a sound pair.
JarsStep ==
  /\ jar' \in [Jars -> Cookie \cup {None}]
  /\ \A j \in Jars : jar'[j] # None =>
        jar'[j] = jar[j] \/ Sound(jar'[j].alternative_id, jar'[j].presented)

LEMMA Assemble ==
  ASSUME AccountsInv, RowsStep, NEW w \in Workers, RequestsStep(w), JarsStep,
         group' \in [Groups -> Group \cup {None}], received' \in Nat, expiries' \in Nat
  PROVE  AccountsInv'
PROOF
<1>1. TypeOK /\ IdsApart
  BY DEF AccountsInv
<1>2. TypeOK'
  BY DEF TypeOK, RowsStep, RequestsStep, JarsStep
<1>3. IdsApart'
  BY <1>1, IdsStayApart
<1>4. ASSUME NEW j \in Jars, jar'[j] # None
      PROVE  Sound(jar[j].alternative_id, jar[j].presented)'
  <2>1. jar'[j].alternative_id \in Nat
    BY <1>2, <1>4 DEF TypeOK, Cookie
  <2>2. Sound(jar'[j].alternative_id, jar'[j].presented)
    BY <1>4 DEF AccountsInv, JarsStep
  <2> QED
    BY <1>1, <2>1, <2>2, SoundStays DEF Sound
<1>5. ASSUME NEW v \in Workers, request'[v] # None
      PROVE  RequestOK(request[v])'
  <2>1. CASE v = w
    BY <1>5, <2>1 DEF RequestsStep
  <2>2. CASE v # w
    <3>1. request'[v] = request[v] /\ request[v] \in Request /\ RequestOK(request[v])
      BY <1>1, <1>5, <2>2 DEF RequestsStep, AccountsInv, TypeOK
    <3> QED
      BY <1>1, <3>1, RequestsStayGood DEF RequestOK
  <2> QED
    BY <2>1, <2>2
<1> QED
  BY <1>2, <1>3, <1>4, <1>5 DEF AccountsInv

LEMMA DoneStep ==
  ASSUME TypeOK, NEW w \in Workers, Done(w)
  PROVE  RequestsStep(w)
BY DEF TypeOK, Done, RequestsStep

\* A request is replaced by a well-formed one, and the rows are left alone.
LEMMA ReplaceStep ==
  ASSUME TypeOK, NEW w \in Workers, NEW q \in Request, RequestOK(q),
         request' = [request EXCEPT ![w] = q], user' = user, uuids' = uuids
  PROVE  RequestsStep(w)
BY DEF TypeOK, RequestsStep, RequestOK, Sound, Registered

LEMMA JarsKept ==
  ASSUME TypeOK, jar' = jar
  PROVE  JarsStep
BY DEF TypeOK, JarsStep

\* A step that only moves a request on, or ends it.
LEMMA RequestOnly ==
  ASSUME AccountsInv, NEW w \in Workers, RequestsStep(w),
         UNCHANGED <<database, jar, uuids, received, expiries>>
  PROVE  AccountsInv'
PROOF
<1>1. TypeOK /\ UNCHANGED <<user, group, jar, uuids, received, expiries>>
  BY DEF AccountsInv, database
<1>2. RowsStep /\ JarsStep
  BY <1>1, RowsKept, JarsKept
<1> QED
  BY <1>1, <1>2, Assemble DEF TypeOK

LEMMA AccountsInit == Init => AccountsInv
BY DEF Init, AccountsInv, TypeOK, IdsApart, Registered

-----------------------------------------------------------------------------
(* The steps                                                               *)

LEMMA ReceiveStep ==
  ASSUME AccountsInv, NEW w \in Workers, Receive(w)
  PROVE  AccountsInv'
PROOF
<1>1. TypeOK /\ UNCHANGED <<user, group, jar, uuids, expiries>> /\ received' \in Nat
  <2>1. UNCHANGED <<user, group, jar, uuids, expiries>> /\ received' = received + 1
    BY ZenonT(20) DEF Receive
  <2> QED
    BY <2>1 DEF AccountsInv, TypeOK
<1> DEFINE Good(q) == q \in Request /\ RequestOK(q)
<1>2. ASSUME NEW n \in Names, NEW m \in Mails, NEW p \in Passwords
      PROVE  Good([Blank("register", None, 0) EXCEPT !.name = n, !.mail = m,
                                                     !.password = p])
  BY DEF Blank, Request, RequestOK, SignedIn
<1>3. ASSUME NEW j \in Jars, NEW n \in Names \cup NewNames, NEW p \in Passwords
      PROVE  Good([Blank("login", j, 0) EXCEPT !.name = n, !.password = p])
  BY DEF Blank, Request, RequestOK, SignedIn
<1>4. ASSUME NEW j \in Jars, jar[j] # None, SendWithCookie(w, j)
      PROVE  \E q : Good(q) /\ Send(w, q)
  <2> DEFINE base(op) == Blank(op, j, jar[j].alternative_id)
  <2>0. jar[j].alternative_id \in Nat
    BY <1>1, <1>4 DEF TypeOK, Cookie
  <2>1. ASSUME NEW n \in NewNames, NEW m \in Mails
        PROVE  Good([base("modify") EXCEPT !.name = n, !.mail = m])
    BY <2>0 DEF Blank, Request, RequestOK, SignedIn
  <2>2. ASSUME NEW p \in Passwords
        PROVE  Good([base("delete") EXCEPT !.password = p])
    BY <2>0 DEF Blank, Request, RequestOK, SignedIn
  <2>3. ASSUME NEW p \in Passwords, NEW q \in Passwords
        PROVE  Good([base("change") EXCEPT !.password = p, !.new = q])
    BY <2>0 DEF Blank, Request, RequestOK, SignedIn
  <2>4. ASSUME NEW u \in Users, NEW p \in Passwords, NEW q \in Passwords
        PROVE  Good([base("change_by_id") EXCEPT !.target = u, !.password = p,
                                                 !.new = q])
    BY <2>0 DEF Blank, Request, RequestOK, SignedIn
  <2>5. Good(base("logout")) /\ Good(base("logout_everywhere"))
    BY <2>0 DEF Blank, Request, RequestOK, SignedIn
  <2> HIDE DEF Good
  <2> QED
    BY <1>4, <2>1, <2>2, <2>3, <2>4, <2>5 DEF SendWithCookie
<1> HIDE DEF Good
<1>5. \E q : Good(q) /\ Send(w, q)
  BY <1>2, <1>3, <1>4 DEF Receive
<1>6. RequestsStep(w)
  BY <1>1, <1>5, ReplaceStep DEF Good, Send
<1> QED
  BY <1>1, <1>6, RowsKept, JarsKept, Assemble DEF TypeOK

\* The steps that load, look up and compare.
LEMMA ReadStep ==
  ASSUME AccountsInv, NEW w \in Workers,
         \/ Load(w) \/ CheckRegister(w) \/ CheckLogin(w) \/ CheckDelete(w)
         \/ CheckChange(w) \/ Lose(w)
  PROVE  AccountsInv'
PROOF
<1> DEFINE q == request[w]
<1>1. /\ TypeOK /\ IdsApart /\ q # None /\ q \in Request /\ RequestOK(q)
      /\ request \in [Workers -> Request \cup {None}]
      /\ UNCHANGED <<database, jar, uuids, received, expiries>>
      /\ UNCHANGED <<user, uuids>>
  BY DEF AccountsInv, TypeOK, Load, CheckRegister, CheckLogin, CheckDelete, CheckChange,
         Lose, Serving, database
<1>2. CASE Done(w)
  BY <1>1, <1>2, DoneStep, RequestOnly
<1>3. ASSUME Load(w), ~Done(w) PROVE RequestsStep(w)
  <2>1. PICK u \in LoadedBy(q.cookie) :
          request' = [request EXCEPT ![w].phase = "loaded", ![w].current = u,
                                     ![w].seen = user[u].password]
    BY <1>3 DEF Load
  <2>r. PICK r : r = [q EXCEPT !.phase = "loaded", !.current = u,
                              !.seen = user[u].password]
    OBVIOUS
  <2>2. u \in Registered /\ u \in Users /\ user[u].password \in Passwords
    BY <1>1, <2>1 DEF LoadedBy, Live, Registered, TypeOK, User
  <2>3. request' = [request EXCEPT ![w] = r]
    BY <1>1, <2>1, <2>r DEF Request
  <2>4. q.op \in SignedIn /\ q.phase = "received"
    BY <1>3 DEF Load, Serving
  <2>5. r \in Request /\ r.phase = "loaded" /\ r.current = u
        /\ r.op = q.op /\ r.jar = q.jar /\ r.name = q.name /\ r.mail = q.mail
        /\ r.new = q.new
    <3>1. q \in Request
      BY <1>1
    <3> HIDE DEF q
    <3>2. r \in Request
      BY <3>1, <2>2, <2>r, ZenonT(60) DEF Request
    <3> QED
      BY <3>1, <3>2, <2>2, <2>r DEF Request
  <2>6. RequestOK(r)
    BY <1>1, <2>2, <2>4, <2>5 DEF RequestOK, SignedIn
  <2> QED
    BY <1>1, <2>3, <2>5, <2>6, ReplaceStep
<1>4. ASSUME CheckRegister(w), ~Done(w) PROVE RequestsStep(w)
  <2>1. \/ request' = [request EXCEPT ![w] = [q EXCEPT !.phase = "loaded"]]
        \/ request' = [request EXCEPT ![w] = [q EXCEPT !.phase = "checked"]]
    BY <1>1, <1>4 DEF CheckRegister, Checked, Request
  <2>2. q.op = "register"
    BY <1>4 DEF CheckRegister, Serving
  <2>3. \A ph \in {"loaded", "checked"} :
           [q EXCEPT !.phase = ph] \in Request /\ RequestOK([q EXCEPT !.phase = ph])
    BY <1>1, <2>2 DEF Request, RequestOK, SignedIn
  <2> QED
    BY <1>1, <2>1, <2>3, ReplaceStep
<1>5. ASSUME CheckLogin(w), ~Done(w) PROVE RequestsStep(w)
  <2>0. q.op = "login"
    BY <1>5 DEF CheckLogin, Serving
  <2>1. PICK u \in Live :
          /\ Authenticates(u, q.password)
          /\ request' = [request EXCEPT ![w].phase = "checked", ![w].current = u,
                                        ![w].cookie = user[u].alternative_id]
    BY <1>5 DEF CheckLogin
  <2>r. PICK r : r = [q EXCEPT !.phase = "checked", !.current = u,
                              !.cookie = user[u].alternative_id]
    OBVIOUS
  <2>2. u \in Registered /\ u \in Users /\ user[u].alternative_id \in Nat
    BY <1>1, <2>1 DEF Live, Registered, TypeOK, User
  <2>3. Sound(user[u].alternative_id, q.password)
    BY <1>1, <2>1, <2>2 DEF Sound, IdsApart, Authenticates
  <2>4. request' = [request EXCEPT ![w] = r]
    BY <1>1, <2>1, <2>r DEF Request
  <2>5. r \in Request /\ r.op = "login" /\ r.jar = q.jar /\ r.password = q.password
        /\ r.cookie = user[u].alternative_id
    <3>1. q \in Request
      BY <1>1
    <3> HIDE DEF q
    <3>2. r \in Request
      BY <3>1, <2>0, <2>2, <2>r, ZenonT(60) DEF Request
    <3> QED
      BY <3>1, <3>2, <2>0, <2>2, <2>r DEF Request
  <2>6. RequestOK(r)
    BY <1>1, <2>0, <2>3, <2>5 DEF RequestOK, SignedIn
  <2> QED
    BY <1>1, <2>4, <2>5, <2>6, ReplaceStep
<1>6. ASSUME CheckDelete(w), ~Done(w) PROVE RequestsStep(w)
  <2>1. request' = [request EXCEPT ![w] = [q EXCEPT !.phase = "checked"]]
    BY <1>1, <1>6 DEF CheckDelete, Checked, Request
  <2>2. q.op = "delete" /\ q.phase = "loaded"
    BY <1>6 DEF CheckDelete, Serving
  <2>3. [q EXCEPT !.phase = "checked"] \in Request
        /\ RequestOK([q EXCEPT !.phase = "checked"])
    BY <1>1, <2>2 DEF Request, RequestOK, SignedIn
  <2> QED
    BY <1>1, <2>1, <2>3, ReplaceStep
<1>7. ASSUME CheckChange(w), ~Done(w) PROVE RequestsStep(w)
  <2>u. PICK u : u = IF q.op = "change" THEN q.current ELSE q.target
    OBVIOUS
  <2>r. PICK r : r = [q EXCEPT !.phase = "checked", !.target = u]
    OBVIOUS
  <2>1. q.op \in {"change", "change_by_id"} /\ q.phase = "loaded"
    BY <1>7 DEF CheckChange, Serving
  <2>2. request' = [request EXCEPT ![w] = r] /\ (q.op = "change" \/ u \in Live)
    BY <1>1, <1>7, <2>u, <2>r DEF CheckChange, Request
  <2>3. u \in Registered /\ u \in Users
    BY <1>1, <2>1, <2>2, <2>u DEF Live, Registered, RequestOK, SignedIn
  <2>4. r \in Request /\ r.op = q.op /\ r.jar = q.jar /\ r.new = q.new
        /\ r.current = q.current /\ r.target = u
    <3>1. q \in Request
      BY <1>1
    <3> HIDE DEF q
    <3>2. r \in Request
      BY <3>1, <2>3, <2>r, ZenonT(60) DEF Request
    <3> QED
      BY <3>1, <3>2, <2>3, <2>r DEF Request
  <2>5. RequestOK(r)
    BY <1>1, <2>1, <2>3, <2>4 DEF RequestOK, SignedIn
  <2> QED
    BY <1>1, <2>2, <2>4, <2>5, ReplaceStep
<1>8. Done(w) \/ RequestsStep(w)
  BY <1>3, <1>4, <1>5, <1>6, <1>7 DEF Lose
<1> QED
  BY <1>1, <1>2, <1>8, RequestOnly


\* A new row is a user and carries an id of its own.
LEMMA NewUserTyped ==
  ASSUME TypeOK, NEW q \in Request, q.op = "register", RequestOK(q)
  PROVE  NewUser(q) \in User /\ NewUser(q).alternative_id = uuids + 1
BY DEF TypeOK, RequestOK, NewUser, NewId, User

LEMMA RegisterStep ==
  ASSUME AccountsInv, NEW w \in Workers, CommitRegister(w) \/ CommitFirstRegister(w)
  PROVE  AccountsInv'
PROOF
<1> DEFINE q == request[w]
<1>1. /\ TypeOK /\ IdsApart /\ q \in Request /\ RequestOK(q) /\ q.op = "register"
      /\ uuids' = uuids + 1 /\ Done(w)
      /\ UNCHANGED <<jar, received, expiries>>
  BY DEF AccountsInv, TypeOK, CommitRegister, CommitFirstRegister, Serving
<1>2. NewUser(q) \in User /\ NewUser(q).alternative_id = uuids + 1
  BY <1>1, NewUserTyped
<1>3. PICK u \in Users \ Registered : user' = [user EXCEPT ![u] = NewUser(q)]
  BY DEF CommitRegister, CommitFirstRegister
<1>4. RowsStep
  BY <1>1, <1>2, <1>3, RowRenewed
<1>5. group' \in [Groups -> Group \cup {None}]
  <2>1. CASE CommitRegister(w)
    <3>1. PICK v \in Users, g \in Created :
             group' = [group EXCEPT ![g] = Joined(group[g], v)]
      BY <2>1 DEF CommitRegister
    <3>2. g \in Groups /\ group[g] \in Group
      BY <1>1 DEF Created, TypeOK
    <3>3. Joined(group[g], v) \in Group
      BY <3>2 DEF Joined, Group
    <3> QED
      BY <1>1, <3>1, <3>2, <3>3 DEF TypeOK
  <2>2. CASE CommitFirstRegister(w)
    <3>1. PICK v \in Users, g \in Groups :
             group' = [group EXCEPT ![g] = [creator |-> v, members |-> {v}]]
      BY <2>2 DEF CommitFirstRegister
    <3>2. [creator |-> v, members |-> {v}] \in Group
      BY DEF Group
    <3> QED
      BY <1>1, <3>1, <3>2 DEF TypeOK
  <2> QED
    BY <2>1, <2>2
<1> QED
  BY <1>1, <1>4, <1>5, DoneStep, JarsKept, Assemble DEF TypeOK

LEMMA SessionStep ==
  ASSUME AccountsInv, NEW w \in Workers,
         CommitLogin(w) \/ Logout(w) \/ LogoutEverywhere(w)
  PROVE  AccountsInv'
PROOF
<1> DEFINE q == request[w]
<1>1. /\ TypeOK /\ IdsApart /\ q \in Request /\ RequestOK(q) /\ Done(w)
      /\ UNCHANGED <<group, received, expiries>>
  BY DEF AccountsInv, TypeOK, CommitLogin, Logout, LogoutEverywhere, Serving, database
<1>2. CASE CommitLogin(w)
  <2>1. q.op = "login" /\ q.phase = "checked" /\ UNCHANGED <<user, uuids>>
        /\ jar' = [jar EXCEPT ![q.jar] = [alternative_id |-> q.cookie,
                                          presented |-> q.password]]
    BY <1>2 DEF CommitLogin, Serving, database
  <2>2. q.jar \in Jars /\ q.password \in Passwords /\ q.cookie \in Nat
        /\ Sound(q.cookie, q.password)
    BY <1>1, <2>1 DEF RequestOK, Request
  <2>3. JarsStep
    BY <1>1, <2>1, <2>2 DEF JarsStep, TypeOK, Cookie
  <2> QED
    BY <1>1, <2>1, <2>3, RowsKept, DoneStep, Assemble DEF TypeOK
<1>3. ASSUME jar' = [jar EXCEPT ![q.jar] = None] PROVE JarsStep
  BY <1>1, <1>3 DEF JarsStep, TypeOK
<1>4. CASE Logout(w)
  <2>1. JarsStep /\ UNCHANGED <<user, uuids>>
    BY <1>3, <1>4 DEF Logout, database
  <2> QED
    BY <1>1, <2>1, RowsKept, DoneStep, Assemble DEF TypeOK
<1>5. CASE LogoutEverywhere(w)
  <2>1. /\ JarsStep /\ uuids' = uuids + 1 /\ q.op \in SignedIn /\ q.phase = "loaded"
        /\ user' = [user EXCEPT ![q.current].alternative_id = uuids + 1]
    BY <1>3, <1>5 DEF LogoutEverywhere, Serving, SignedIn, NewId
  <2>2. q.current \in Users /\ user[q.current] \in User
    BY <1>1, <2>1 DEF RequestOK, Registered, TypeOK
  <2> DEFINE row == [user[q.current] EXCEPT !.alternative_id = uuids + 1]
  <2>3. row \in User /\ row.alternative_id = uuids + 1
    BY <1>1, <2>2 DEF User, TypeOK
  <2>4. user' = [user EXCEPT ![q.current] = row]
    BY <1>1, <2>1, <2>2 DEF TypeOK
  <2> HIDE DEF row
  <2>5. RowsStep
    BY <1>1, <2>1, <2>2, <2>3, <2>4, RowRenewed
  <2> QED
    BY <1>1, <2>1, <2>5, DoneStep, Assemble DEF TypeOK
<1> QED
  BY <1>2, <1>4, <1>5

LEMMA ChangeStep ==
  ASSUME AccountsInv, NEW w \in Workers,
         CommitModify(w) \/ CommitDelete(w) \/ CommitChange(w)
  PROVE  AccountsInv'
PROOF
<1> DEFINE q == request[w]
<1>1. /\ TypeOK /\ IdsApart /\ q \in Request /\ RequestOK(q) /\ Done(w)
      /\ UNCHANGED <<group, jar, received, expiries>>
  BY DEF AccountsInv, TypeOK, CommitModify, CommitDelete, CommitChange, Serving
<1>2. CASE CommitModify(w) \/ CommitDelete(w)
  <2>1. q.op \in SignedIn /\ q.phase # "received" /\ uuids' = uuids
    BY <1>2 DEF CommitModify, CommitDelete, Serving, SignedIn
  <2>2. q.current \in Registered /\ q.current \in Users /\ user[q.current] \in User
    BY <1>1, <2>1 DEF RequestOK, Registered, TypeOK
  <2>3. PICK row : /\ row \in User /\ user' = [user EXCEPT ![q.current] = row]
                   /\ row.alternative_id = user[q.current].alternative_id
                   /\ row.password = user[q.current].password
    <3>1. CASE CommitModify(w)
      <4>1. q.name \in NewNames /\ q.mail \in Mails
        BY <1>1, <3>1 DEF CommitModify, Serving, RequestOK
      <4>2. user' = [user EXCEPT ![q.current] =
                       [user[q.current] EXCEPT !.name = q.name, !.mail = q.mail]]
        BY <1>1, <2>2, <3>1 DEF CommitModify, TypeOK, User
      <4> DEFINE r == [user[q.current] EXCEPT !.name = q.name, !.mail = q.mail]
      <4>3. r \in User
        BY <2>2, <4>1, ZenonT(30) DEF User
      <4>4. r.alternative_id = user[q.current].alternative_id
            /\ r.password = user[q.current].password
        BY <2>2 DEF User
      <4>5. user' = [user EXCEPT ![q.current] = r]
        BY <4>2
      <4> HIDE DEF r
      <4> QED
        BY <4>3, <4>4, <4>5
    <3>2. CASE CommitDelete(w)
      <4>1. user' = [user EXCEPT ![q.current] = [user[q.current] EXCEPT !.deleted = TRUE]]
        BY <1>1, <2>2, <3>2 DEF CommitDelete, TypeOK
      <4> DEFINE r == [user[q.current] EXCEPT !.deleted = TRUE]
      <4>2. r \in User /\ r.alternative_id = user[q.current].alternative_id
            /\ r.password = user[q.current].password
        BY <2>2 DEF User
      <4>3. user' = [user EXCEPT ![q.current] = r]
        BY <4>1
      <4> HIDE DEF r
      <4> QED
        BY <4>2, <4>3
    <3> QED
      BY <1>2, <3>1, <3>2
  <2>4. RowsStep
    BY <1>1, <2>1, <2>2, <2>3, RowChanged
  <2> QED
    BY <1>1, <2>4, DoneStep, JarsKept, Assemble DEF TypeOK
<1>3. CASE CommitChange(w)
  <2>1. /\ q.op \in {"change", "change_by_id"} /\ q.phase = "checked"
        /\ uuids' = uuids + 1
        /\ user' = [user EXCEPT ![q.target] = Changed(user[q.target], q.new, uuids + 1)]
    BY <1>3 DEF CommitChange, Serving, NewId
  <2>2. q.target \in Users /\ user[q.target] \in User /\ q.new \in Passwords
    BY <1>1, <2>1 DEF RequestOK, Registered, TypeOK
  <2>3. \A row \in User, p \in Passwords, id \in Nat :
           Changed(row, p, id) \in User /\ Changed(row, p, id).alternative_id = id
    BY DEF Changed, User
  <2> DEFINE row == Changed(user[q.target], q.new, uuids + 1)
  <2>4. row \in User /\ row.alternative_id = uuids + 1
    BY <1>1, <2>2, <2>3 DEF TypeOK
  <2> HIDE DEF row
  <2>5. user' = [user EXCEPT ![q.target] = row]
    BY <2>1 DEF row
  <2>6. RowsStep
    BY <1>1, <2>1, <2>2, <2>4, <2>5, RowRenewed
  <2> QED
    BY <1>1, <2>1, <2>6, DoneStep, JarsKept, Assemble DEF TypeOK
<1> QED
  BY <1>2, <1>3

LEMMA ExpireStep ==
  ASSUME AccountsInv, NEW t \in Users, Expire(t)
  PROVE  AccountsInv'
PROOF
<1>1. TypeOK /\ IdsApart /\ t \in Registered /\ UNCHANGED <<group, jar, request, uuids, received>>
      /\ expiries' \in Nat /\ user[t] \in User
  BY DEF AccountsInv, TypeOK, Expire, Registered
<1>2. PICK row : /\ row \in User /\ user' = [user EXCEPT ![t] = row]
                 /\ row.alternative_id = user[t].alternative_id
                 /\ row.password = user[t].password
  <2>1. user' = [user EXCEPT ![t] = [user[t] EXCEPT !.expired = TRUE]]
    BY <1>1 DEF Expire, TypeOK
  <2> DEFINE r == [user[t] EXCEPT !.expired = TRUE]
  <2>2. r \in User /\ r.alternative_id = user[t].alternative_id
        /\ r.password = user[t].password
    BY <1>1 DEF User
  <2>3. user' = [user EXCEPT ![t] = r]
    BY <2>1
  <2> HIDE DEF r
  <2> QED
    BY <2>2, <2>3
<1>3. RowsStep /\ JarsStep
  BY <1>1, <1>2, RowChanged, JarsKept
<1>4. ASSUME NEW w \in Workers PROVE RequestsStep(w)
  <2>1. ASSUME request'[w] # None PROVE RequestOK(request[w])'
    <3>1. request'[w] = request[w] /\ request[w] \in Request /\ RequestOK(request[w])
      BY <1>1, <2>1 DEF AccountsInv, TypeOK
    <3> QED
      BY <1>1, <1>3, <3>1, RequestsStayGood DEF RequestOK
  <2> QED
    BY <1>1, <2>1 DEF RequestsStep, TypeOK
<1>5. CASE Workers # {}
  BY <1>1, <1>3, <1>4, <1>5, Assemble DEF TypeOK
<1>6. CASE Workers = {}
  <2>1. ASSUME NEW j \in Jars, jar'[j] # None
        PROVE  Sound(jar[j].alternative_id, jar[j].presented)'
    <3>1. jar[j].alternative_id \in Nat /\ Sound(jar[j].alternative_id, jar[j].presented)
      BY <1>1, <2>1 DEF AccountsInv, TypeOK, Cookie
    <3> QED
      BY <1>1, <1>3, <3>1, SoundStays DEF Sound
  <2>2. TypeOK' /\ IdsApart'
    BY <1>1, <1>3, IdsStayApart DEF TypeOK, RowsStep
  <2> QED
    BY <1>6, <2>1, <2>2 DEF AccountsInv
<1> QED
  BY <1>5, <1>6

LEMMA AccountsStep == AccountsInv /\ [Next]_vars => AccountsInv'
PROOF
<1> SUFFICES ASSUME AccountsInv, [Next]_vars PROVE AccountsInv'
  OBVIOUS
<1>1. CASE UNCHANGED vars
  BY <1>1 DEF vars, AccountsInv, TypeOK, IdsApart, Sound, RequestOK, Registered
<1>2. ASSUME NEW w \in Workers, Receive(w) \/ Serve(w) \/ Lose(w) PROVE AccountsInv'
  BY <1>2, ReceiveStep, ReadStep, RegisterStep, SessionStep, ChangeStep
  DEF Serve
<1>3. ASSUME NEW u \in Users, Expire(u) PROVE AccountsInv'
  BY <1>3, ExpireStep
<1> QED
  BY <1>1, <1>2, <1>3 DEF Next

\* Whoever can act as a user has presented its present password, for any
\* number of users, clients and workers and however their requests overlap.
THEOREM OnlyThePasswordOpensASession == Spec => []SessionsHoldThePassword
PROOF
<1>1. AccountsInv => SessionsHoldThePassword
  BY DEF AccountsInv, Sound, SessionsHoldThePassword, ActsAs, LoadedBy, Live
<1> QED
  BY <1>1, AccountsInit, AccountsStep, PTL DEF Spec
-----------------------------------------------------------------------------
(* Sessions that are closed                                                *)

\* The alternative id of a registered user stays or was never handed out
\* before, that of a new user was not either, and a lock on a row stays.
RowsAge ==
  \A u \in Users :
    \/ user'[u] = None
    \/ user'[u].alternative_id = uuids + 1
    \/ /\ user[u] # None
       /\ user'[u].alternative_id = user[u].alternative_id
       /\ user[u].deleted => user'[u].deleted

LEMMA OneRowAges ==
  ASSUME TypeOK, NEW t \in Users, NEW row \in User,
         user' = [user EXCEPT ![t] = row],
         \/ row.alternative_id = uuids + 1
         \/ /\ user[t] # None
            /\ row.alternative_id = user[t].alternative_id
            /\ user[t].deleted => row.deleted
  PROVE  RowsAge
BY DEF TypeOK, RowsAge

LEMMA RowsDoAge ==
  ASSUME AccountsInv, NEW w \in Workers, Receive(w) \/ Serve(w) \/ Lose(w)
  PROVE  RowsAge
PROOF
<1> DEFINE q == request[w]
<1>0. TypeOK /\ user \in [Users -> User \cup {None}] /\ uuids \in Nat
  BY DEF AccountsInv, TypeOK
<1>1. CASE user' = user
  BY <1>0, <1>1 DEF RowsAge
<1>2. ASSUME q # None PROVE q \in Request /\ RequestOK(q)
  BY <1>2 DEF AccountsInv, TypeOK
<1>3. CASE CommitRegister(w) \/ CommitFirstRegister(w)
  <2>1. q # None /\ q.op = "register"
    BY <1>3 DEF CommitRegister, CommitFirstRegister, Serving
  <2>2. NewUser(q) \in User /\ NewUser(q).alternative_id = uuids + 1
    BY <1>0, <1>2, <2>1, NewUserTyped
  <2>3. PICK u \in Users \ Registered : user' = [user EXCEPT ![u] = NewUser(q)]
    BY <1>3 DEF CommitRegister, CommitFirstRegister
  <2> QED
    BY <1>0, <2>2, <2>3, OneRowAges
<1>4. CASE LogoutEverywhere(w) \/ CommitModify(w) \/ CommitDelete(w)
  <2>1. q # None /\ q.op \in SignedIn /\ q.phase # "received"
    BY <1>4 DEF LogoutEverywhere, CommitModify, CommitDelete, Serving, SignedIn
  <2>2. q.current \in Users /\ user[q.current] \in User /\ user[q.current] # None
    BY <1>0, <1>2, <2>1 DEF RequestOK, Registered
  <2> DEFINE old == user[q.current]
  <2>3. CASE LogoutEverywhere(w)
    <3> DEFINE row == [old EXCEPT !.alternative_id = uuids + 1]
    <3>1. row \in User /\ row.alternative_id = uuids + 1
      BY <1>0, <2>2 DEF User
    <3>2. user' = [user EXCEPT ![q.current] = row]
      BY <1>0, <2>2, <2>3 DEF LogoutEverywhere, NewId
    <3> HIDE DEF row
    <3> QED
      BY <1>0, <2>2, <3>1, <3>2, OneRowAges
  <2>4. CASE CommitModify(w)
    <3>1. q.name \in NewNames /\ q.mail \in Mails
      BY <1>2, <2>1, <2>4 DEF CommitModify, Serving, RequestOK
    <3> DEFINE row == [old EXCEPT !.name = q.name, !.mail = q.mail]
    <3>2. row \in User
      BY <2>2, <3>1, ZenonT(30) DEF User
    <3>3. row.alternative_id = old.alternative_id /\ row.deleted = old.deleted
      BY <2>2 DEF User
    <3>4. user' = [user EXCEPT ![q.current] = row]
      BY <1>0, <2>2, <2>4 DEF CommitModify, User
    <3> HIDE DEF row
    <3> QED
      BY <1>0, <2>2, <3>2, <3>3, <3>4, OneRowAges
  <2>5. CASE CommitDelete(w)
    <3> DEFINE row == [old EXCEPT !.deleted = TRUE]
    <3>1. row \in User /\ row.alternative_id = old.alternative_id /\ row.deleted
      BY <2>2 DEF User
    <3>2. user' = [user EXCEPT ![q.current] = row]
      BY <1>0, <2>2, <2>5 DEF CommitDelete
    <3> HIDE DEF row
    <3> QED
      BY <1>0, <2>2, <3>1, <3>2, OneRowAges
  <2> QED
    BY <1>4, <2>3, <2>4, <2>5
<1>5. CASE CommitChange(w)
  <2>1. /\ q # None /\ q.op \in {"change", "change_by_id"} /\ q.phase = "checked"
        /\ user' = [user EXCEPT ![q.target] = Changed(user[q.target], q.new, uuids + 1)]
    BY <1>5 DEF CommitChange, Serving, NewId
  <2>2. q.target \in Users /\ user[q.target] \in User /\ q.new \in Passwords
    BY <1>0, <1>2, <2>1 DEF RequestOK, Registered
  <2>c. \A row \in User, p \in Passwords, id \in Nat :
           Changed(row, p, id) \in User /\ Changed(row, p, id).alternative_id = id
    BY DEF Changed, User
  <2> DEFINE row == Changed(user[q.target], q.new, uuids + 1)
  <2>3. row \in User /\ row.alternative_id = uuids + 1
    BY <1>0, <2>2, <2>c
  <2>4. user' = [user EXCEPT ![q.target] = row]
    BY <2>1
  <2> HIDE DEF row
  <2> QED
    BY <1>0, <2>2, <2>3, <2>4, OneRowAges
<1> QED
  BY <1>1, <1>3, <1>4, <1>5
  DEF Serve, Receive, Lose, Load, CheckRegister, CheckLogin, CommitLogin, Logout,
      CheckDelete, CheckChange, database

LEMMA RowsAgeAtAnyStep ==
  ASSUME AccountsInv, [Next]_vars
  PROVE  RowsAge
PROOF
<1>0. TypeOK /\ user \in [Users -> User \cup {None}]
  BY DEF AccountsInv, TypeOK
<1>1. CASE UNCHANGED vars
  BY <1>0, <1>1 DEF vars, RowsAge
<1>2. ASSUME NEW w \in Workers, Receive(w) \/ Serve(w) \/ Lose(w) PROVE RowsAge
  BY <1>2, RowsDoAge
<1>3. ASSUME NEW t \in Users, Expire(t) PROVE RowsAge
  <2> DEFINE row == [user[t] EXCEPT !.expired = TRUE]
  <2>1. user[t] \in User /\ user[t] # None
    BY <1>0, <1>3 DEF Expire, Registered
  <2>2. row \in User /\ row.alternative_id = user[t].alternative_id
        /\ row.deleted = user[t].deleted
    BY <2>1 DEF User
  <2>3. user' = [user EXCEPT ![t] = row]
    BY <1>0, <1>3 DEF Expire
  <2> HIDE DEF row
  <2> QED
    BY <1>0, <2>1, <2>2, <2>3, OneRowAges
<1> QED
  BY <1>1, <1>2, <1>3 DEF Next

\* Two users never answer to one cookie.
LEMMA OneUserPerCookie ==
  ASSUME AccountsInv, NEW j \in Jars
  PROVE  Cardinality(ActsAs(j)) <= 1
PROOF
<1>1. \A u, v \in ActsAs(j) : u = v
  BY DEF AccountsInv, IdsApart, ActsAs, LoadedBy, Live
<1>2. CASE ActsAs(j) = {}
  BY <1>2, FS_EmptySet
<1>3. ASSUME NEW u \in ActsAs(j) PROVE Cardinality(ActsAs(j)) <= 1
  <2>1. ActsAs(j) = {u}
    BY <1>1, <1>3
  <2>2. Cardinality({u}) = 1
    BY FS_Singleton
  <2> QED
    BY <2>1, <2>2
<1> QED
  BY <1>2, <1>3

\* A cookie that no longer leads to a user never does again, and leads to one
\* user while it works (load_user() and the new alternative id of a password
\* change or of a log out everywhere).
THEOREM ClosedForGood == Spec => ClosedSessionsStayClosed
PROOF
<1> DEFINE Step == \A j \in Jars : jar[j] # None /\ jar'[j] = jar[j] =>
                      ActsAs(j)' \subseteq ActsAs(j) /\ Cardinality(ActsAs(j)) <= 1
<1>1. AccountsInv /\ [Next]_vars => Step
  <2> SUFFICES ASSUME AccountsInv, [Next]_vars, NEW j \in Jars, jar[j] # None,
                      jar'[j] = jar[j]
               PROVE  ActsAs(j)' \subseteq ActsAs(j) /\ Cardinality(ActsAs(j)) <= 1
    OBVIOUS
  <2>1. RowsAge
    BY RowsAgeAtAnyStep
  <2>2. jar[j].alternative_id <= uuids /\ jar[j].alternative_id \in Nat /\ uuids \in Nat
    BY DEF AccountsInv, TypeOK, Cookie, Sound
  <2>3. AccountsInv'
    BY AccountsStep
  <2>4. ASSUME NEW u \in ActsAs(j)' PROVE u \in ActsAs(j)
    <3>1. /\ u \in Users /\ user'[u] # None /\ ~user'[u].deleted
          /\ user'[u].alternative_id = jar[j].alternative_id
      BY <2>4 DEF ActsAs, LoadedBy, Live, Registered
    <3>2. user'[u].alternative_id # uuids + 1
      BY <2>2, <3>1
    <3>3. /\ user[u] # None /\ user'[u].alternative_id = user[u].alternative_id
          /\ user[u].deleted => user'[u].deleted
      BY <2>1, <3>1, <3>2 DEF RowsAge
    <3> QED
      BY <3>1, <3>3 DEF ActsAs, LoadedBy, Live, Registered
  <2> QED
    BY <2>4, OneUserPerCookie
<1>2. Step => [Step]_vars
  OBVIOUS
<1> QED
  BY <1>1, AccountsInit, AccountsStep, PTL DEF Spec, ClosedSessionsStayClosed

-----------------------------------------------------------------------------
(* Membership of the default group                                         *)

\* Only a registration touches the groups: a new user joins one, or makes one.
LEMMA MembersStep ==
  ASSUME AccountsInv, UsersBelongToPublic, NEW w \in Workers,
         CommitRegister(w) \/ CommitFirstRegister(w)
  PROVE  UsersBelongToPublic'
PROOF
<1> DEFINE q == request[w]
<1>0. /\ TypeOK /\ user \in [Users -> User \cup {None}]
      /\ group \in [Groups -> Group \cup {None}]
      /\ q \in Request /\ RequestOK(q) /\ q.op = "register"
  BY DEF AccountsInv, TypeOK, CommitRegister, CommitFirstRegister, Serving
<1>1. NewUser(q) \in User /\ NewUser(q) # None
  BY <1>0, NewUserTyped, RecordAssumption
<1>2. \A x \in Users, m \in SUBSET Users : [creator |-> x, members |-> m] # None
  BY RecordAssumption DEF Group
<1>3. CASE CommitRegister(w)
  <2>1. PICK u \in Users \ Registered, g \in Created :
           /\ user' = [user EXCEPT ![u] = NewUser(q)]
           /\ group' = [group EXCEPT ![g] = Joined(group[g], u)]
    BY <1>3 DEF CommitRegister
  <2>2. g \in Groups /\ group[g] \in Group
    BY <1>0, <2>1 DEF Created
  <2> DEFINE row == Joined(group[g], u)
  <2>3. /\ row.members = group[g].members \cup {u}
        /\ row.creator = group[g].creator /\ row \in Group
    BY <2>1, <2>2 DEF Joined, Group
  <2>4. row # None /\ group' = [group EXCEPT ![g] = row]
    BY <2>1, <2>3, RecordAssumption
  <2> HIDE DEF row
  <2>5. Registered' = Registered \cup {u}
    BY <1>0, <1>1, <2>1 DEF Registered
  <2>6. Created' = Created
    BY <1>0, <2>1, <2>2, <2>4 DEF Created
  <2>7. \A h \in Created : group[h].members \subseteq group'[h].members
    BY <1>0, <2>2, <2>3, <2>4 DEF Created
  <2>8. u \in group'[g].members
    BY <1>0, <2>2, <2>3, <2>4
  <2>9. ASSUME NEW h \in Created
        PROVE  group'[h].members \subseteq Registered'
               /\ group'[h].creator \in group'[h].members
    BY <1>0, <2>2, <2>3, <2>4, <2>5 DEF Created, UsersBelongToPublic
  <2>10. ASSUME NEW x \in Registered'
         PROVE  \E h \in Created : x \in group'[h].members
    BY <2>1, <2>5, <2>7, <2>8 DEF UsersBelongToPublic
  <2> QED
    BY <2>6, <2>9, <2>10 DEF UsersBelongToPublic
<1>4. CASE CommitFirstRegister(w)
  <2>1. PICK u \in Users \ Registered, g \in Groups \ Created :
           /\ user' = [user EXCEPT ![u] = NewUser(q)]
           /\ group' = [group EXCEPT ![g] = [creator |-> u, members |-> {u}]]
    BY <1>4 DEF CommitFirstRegister
  <2>2. Registered' = Registered \cup {u}
    BY <1>0, <1>1, <2>1 DEF Registered
  <2>3. Created' = Created \cup {g}
    BY <1>0, <1>2, <2>1 DEF Created
  <2>4. \A h \in Created : group'[h] = group[h]
    BY <1>0, <2>1 DEF Created
  <2>5. group'[g].members = {u} /\ group'[g].creator = u
    BY <1>0, <2>1
  <2> QED
    BY <2>2, <2>3, <2>4, <2>5 DEF UsersBelongToPublic
<1> QED
  BY <1>3, <1>4

\* Every other step leaves the groups, and who is registered, alone.
LEMMA MembersKept ==
  ASSUME UsersBelongToPublic, group' = group, Registered' = Registered
  PROVE  UsersBelongToPublic'
BY DEF UsersBelongToPublic, Created

LEMMA RegisteredKept ==
  ASSUME AccountsInv, NEW w \in Workers,
         \/ LogoutEverywhere(w) \/ CommitModify(w) \/ CommitDelete(w)
         \/ CommitChange(w)
  PROVE  Registered' = Registered
PROOF
<1> DEFINE q == request[w]
<1>1. /\ user \in [Users -> User \cup {None}] /\ q # None /\ q \in Request
      /\ RequestOK(q)
  BY DEF AccountsInv, TypeOK, LogoutEverywhere, CommitModify, CommitDelete,
         CommitChange, Serving
<1>2. q.current \in Registered \/ CommitChange(w)
  BY <1>1 DEF LogoutEverywhere, CommitModify, CommitDelete, Serving, RequestOK, SignedIn
<1>3. CommitChange(w) => q.target \in Registered
  BY <1>1 DEF CommitChange, Serving, RequestOK
<1>4. ASSUME NEW t \in Registered, NEW row, row # None,
             user' = [user EXCEPT ![t] = row]
      PROVE  Registered' = Registered
  BY <1>1, <1>4 DEF Registered
<1>5. AccountsInv'
  BY SessionStep, ChangeStep
<1>6. user' \in [Users -> User \cup {None}]
  BY <1>5 DEF AccountsInv, TypeOK
<1>7. CASE CommitChange(w)
  <2>1. user' = [user EXCEPT ![q.target] = Changed(user[q.target], q.new, NewId)]
    BY <1>7 DEF CommitChange
  <2>2. user[q.target] \in User /\ q.new \in Passwords
    BY <1>1, <1>3, <1>7 DEF CommitChange, Serving, RequestOK, Registered
  <2>3. NewId \in Nat
    BY DEF AccountsInv, TypeOK, NewId
  <2>4. Changed(user[q.target], q.new, NewId) \in User
    BY <2>2, <2>3 DEF Changed, User
  <2> QED
    BY <1>3, <1>4, <1>7, <2>1, <2>4, RecordAssumption
<1>8. CASE ~CommitChange(w)
  <2>1. q.current \in Registered /\ user[q.current] \in User
    BY <1>1, <1>2, <1>8 DEF Registered
  <2>2. \A x \in Users \ {q.current} : user'[x] = user[x]
    BY <1>1, <1>8, <2>1 DEF LogoutEverywhere, CommitModify, CommitDelete, Registered
  <2>3. user'[q.current] # None
    <3>1. CASE LogoutEverywhere(w)
      <4>1. user'[q.current] = [user[q.current] EXCEPT !.alternative_id = NewId]
        BY <1>1, <2>1, <3>1 DEF LogoutEverywhere, Registered
      <4>2. NewId \in Nat
        BY DEF AccountsInv, TypeOK, NewId
      <4>3. [user[q.current] EXCEPT !.alternative_id = NewId] \in User
        BY <2>1, <4>2 DEF User
      <4> QED
        BY <4>1, <4>3, RecordAssumption
    <3>2. CASE CommitModify(w)
      <4>1. user'[q.current] = [user[q.current] EXCEPT !.name = q.name, !.mail = q.mail]
        BY <1>1, <2>1, <3>2 DEF CommitModify, Registered, User
      <4>2. q.name \in NewNames /\ q.mail \in Mails
        BY <1>1, <3>2 DEF CommitModify, Serving, RequestOK
      <4>3. [user[q.current] EXCEPT !.name = q.name, !.mail = q.mail] \in User
        BY <2>1, <4>2, ZenonT(30) DEF User
      <4> QED
        BY <4>1, <4>3, RecordAssumption
    <3>3. CASE CommitDelete(w)
      <4>1. user'[q.current] = [user[q.current] EXCEPT !.deleted = TRUE]
        BY <1>1, <2>1, <3>3 DEF CommitDelete, Registered
      <4>2. [user[q.current] EXCEPT !.deleted = TRUE] \in User
        BY <2>1 DEF User
      <4> QED
        BY <4>1, <4>2, RecordAssumption
    <3> QED
      BY <1>8, <3>1, <3>2, <3>3
  <2> QED
    BY <2>1, <2>2, <2>3 DEF Registered
<1> QED
  BY <1>7, <1>8

LEMMA MembersInductive ==
  ASSUME AccountsInv, UsersBelongToPublic, [Next]_vars
  PROVE  UsersBelongToPublic'
PROOF
<1>1. CASE UNCHANGED vars
  BY <1>1, MembersKept DEF vars, Registered
<1>2. ASSUME NEW w \in Workers, Receive(w) \/ Serve(w) \/ Lose(w)
      PROVE  UsersBelongToPublic'
  <2>1. CASE CommitRegister(w) \/ CommitFirstRegister(w)
    BY <2>1, MembersStep
  <2>2. CASE LogoutEverywhere(w) \/ CommitModify(w) \/ CommitDelete(w) \/ CommitChange(w)
    <3>1. group' = group
      BY <2>2 DEF LogoutEverywhere, CommitModify, CommitDelete, CommitChange
    <3> QED
      BY <2>2, <3>1, RegisteredKept, MembersKept
  <2>3. CASE user' = user /\ group' = group
    BY <2>3, MembersKept DEF Registered
  <2> QED
    BY <1>2, <2>1, <2>2, <2>3
    DEF Serve, Receive, Lose, Load, CheckRegister, CheckLogin, CommitLogin, Logout,
        CheckDelete, CheckChange, database
<1>3. ASSUME NEW t \in Users, Expire(t) PROVE UsersBelongToPublic'
  <2>1. user \in [Users -> User \cup {None}] /\ t \in Registered /\ user[t] \in User
        /\ group' = group
    BY <1>3 DEF AccountsInv, TypeOK, Expire, Registered
  <2>2. [user[t] EXCEPT !.expired = TRUE] \in User
    BY <2>1 DEF User
  <2>3. user' = [user EXCEPT ![t] = [user[t] EXCEPT !.expired = TRUE]]
    BY <2>1, <1>3 DEF Expire
  <2>4. Registered' = Registered
    BY <2>1, <2>2, <2>3, RecordAssumption DEF Registered
  <2> QED
    BY <2>1, <2>4, MembersKept
<1> QED
  BY <1>1, <1>2, <1>3 DEF Next

\* Every registered user, and nobody else, belongs to a default group, however
\* many registrations overlap: the user and its membership are committed at
\* once (UserService.create()).
THEOREM EveryUserBelongs == Spec => []UsersBelongToPublic
PROOF
<1>1. Init => UsersBelongToPublic
  BY DEF Init, UsersBelongToPublic, Registered, Created
<1> QED
  BY <1>1, AccountsInit, AccountsStep, MembersInductive, PTL DEF Spec
-----------------------------------------------------------------------------
(* Deleted users                                                           *)

\* Only a change of password aims at a user, and one's own change not before
\* it has been checked.
Aim(q) ==
  q.target = None \/ q.op = "change_by_id" \/ (q.op = "change" /\ q.phase = "checked")

AimsOK == \A w \in Workers : request[w] # None => Aim(request[w])

\* A request as it is received: nobody is loaded yet.
LEMMA ReceivedRequest ==
  ASSUME NEW w \in Workers, Receive(w)
  PROVE  \E r : /\ Send(w, r) /\ Aim(r)
               /\ r.current = None /\ r.phase = "received"
PROOF
<1> DEFINE Fresh(q) == Aim(q) /\ q.current = None /\ q.phase = "received"
<1>1. \A n \in Names, m \in Mails, p \in Passwords :
        Fresh([Blank("register", None, 0) EXCEPT !.name = n, !.mail = m, !.password = p])
  BY DEF Blank, Aim
<1>2. \A j \in Jars, n \in Names \cup NewNames, p \in Passwords :
        Fresh([Blank("login", j, 0) EXCEPT !.name = n, !.password = p])
  BY DEF Blank, Aim
<1>3. ASSUME NEW j \in Jars, SendWithCookie(w, j)
      PROVE  \E r : Fresh(r) /\ Send(w, r)
  <2> DEFINE base(op) == Blank(op, j, jar[j].alternative_id)
  <2>1. \A n \in NewNames, m \in Mails :
          Fresh([base("modify") EXCEPT !.name = n, !.mail = m])
    BY DEF Blank, Aim
  <2>2. \A p \in Passwords : Fresh([base("delete") EXCEPT !.password = p])
    BY DEF Blank, Aim
  <2>3. \A p, q \in Passwords :
          Fresh([base("change") EXCEPT !.password = p, !.new = q])
    BY DEF Blank, Aim
  <2>4. \A u \in Users, p, q \in Passwords :
          Fresh([base("change_by_id") EXCEPT !.target = u, !.password = p, !.new = q])
    BY DEF Blank, Aim
  <2>5. Fresh(base("logout")) /\ Fresh(base("logout_everywhere"))
    BY DEF Blank, Aim
  <2> HIDE DEF Fresh
  <2> QED
    BY <1>3, <2>1, <2>2, <2>3, <2>4, <2>5 DEF SendWithCookie
<1> HIDE DEF Fresh
<1>4. \E r : Fresh(r) /\ Send(w, r)
  BY <1>1, <1>2, <1>3 DEF Receive
<1> QED
  BY <1>4 DEF Fresh

LEMMA AimsStay ==
  ASSUME AccountsInv, AimsOK, [Next]_vars
  PROVE  AimsOK'
PROOF
<1>0. request \in [Workers -> Request \cup {None}]
  BY DEF AccountsInv, TypeOK
<1>1. CASE request' = request
  BY <1>1 DEF AimsOK
<1>2. ASSUME NEW w \in Workers, Receive(w) \/ Serve(w) \/ Lose(w) PROVE AimsOK'
  <2> DEFINE q == request[w]
  <2>1. ASSUME NEW r, request' = [request EXCEPT ![w] = r], r = None \/ Aim(r)
        PROVE  AimsOK'
    BY <1>0, <2>1 DEF AimsOK
  <2>2. CASE Done(w)
    BY <2>1, <2>2 DEF Done
  <2>3. CASE Receive(w)
    <3>1. PICK r : Send(w, r) /\ Aim(r)
      BY <2>3, ReceivedRequest
    <3> QED
      BY <2>1, <3>1 DEF Send
  <2>4. CASE ~Done(w) /\ ~Receive(w)
    <3>1. q # None /\ q \in Request /\ Aim(q)
      BY <1>0, <1>2, <2>4 DEF AimsOK, Serve, Lose, Load, CheckRegister, CommitRegister,
           CommitFirstRegister, CheckLogin, CommitLogin, Logout, LogoutEverywhere,
           CommitModify, CheckDelete, CommitDelete, CheckChange, CommitChange, Serving
    <3>2. CASE Load(w)
      <4>1. PICK u \in Users : request' = [request EXCEPT ![w].phase = "loaded",
                 ![w].current = u, ![w].seen = user[u].password]
        BY <2>4, <3>2 DEF Load, LoadedBy, Live, Registered
      <4> DEFINE r == [q EXCEPT !.phase = "loaded", !.current = u,
                                !.seen = user[u].password]
      <4>2. request' = [request EXCEPT ![w] = r]
        BY <1>0, <3>1, <4>1 DEF Request
      <4>3. q.phase = "received" /\ r.target = q.target /\ r.op = q.op
        BY <3>1, <3>2 DEF Load, Serving, Request
      <4>4. Aim(r)
        BY <3>1, <4>3 DEF Aim
      <4> HIDE DEF r
      <4> QED
        BY <2>1, <4>2, <4>4
    <3>3. CASE CheckRegister(w) \/ CheckDelete(w)
      <4>1. PICK ph \in {"loaded", "checked"} :
               request' = [request EXCEPT ![w] = [q EXCEPT !.phase = ph]]
        BY <1>0, <2>4, <3>1, <3>3 DEF CheckRegister, CheckDelete, Checked, Request
      <4>2. q.op \in {"register", "delete"}
        BY <3>3 DEF CheckRegister, CheckDelete, Serving
      <4> DEFINE r == [q EXCEPT !.phase = ph]
      <4>3. Aim(r)
        BY <3>1, <4>2 DEF Aim, Request
      <4>4. request' = [request EXCEPT ![w] = r]
        BY <4>1
      <4> HIDE DEF r
      <4> QED
        BY <2>1, <4>3, <4>4
    <3>4. CASE CheckLogin(w)
      <4>1. PICK u \in Users : request' = [request EXCEPT ![w].phase = "checked",
                 ![w].current = u, ![w].cookie = user[u].alternative_id]
        BY <2>4, <3>4 DEF CheckLogin, Live, Registered
      <4> DEFINE r == [q EXCEPT !.phase = "checked", !.current = u,
                                !.cookie = user[u].alternative_id]
      <4>2. request' = [request EXCEPT ![w] = r]
        BY <1>0, <3>1, <4>1 DEF Request
      <4>3. q.op = "login" /\ r.target = q.target
        BY <3>1, <3>4 DEF CheckLogin, Serving, Request
      <4>4. Aim(r)
        BY <3>1, <4>3 DEF Aim
      <4> HIDE DEF r
      <4> QED
        BY <2>1, <4>2, <4>4
    <3>5. CASE CheckChange(w)
      <4>1. PICK u : request' = [request EXCEPT ![w].phase = "checked", ![w].target = u]
        BY <2>4, <3>5 DEF CheckChange
      <4> DEFINE r == [q EXCEPT !.phase = "checked", !.target = u]
      <4>2. request' = [request EXCEPT ![w] = r]
        BY <1>0, <3>1, <4>1 DEF Request
      <4>3. q.op \in {"change", "change_by_id"} /\ r.op = q.op /\ r.phase = "checked"
        BY <3>1, <3>5 DEF CheckChange, Serving, Request
      <4>4. Aim(r)
        BY <4>3 DEF Aim
      <4> HIDE DEF r
      <4> QED
        BY <2>1, <4>2, <4>4
    <3> QED
      BY <1>2, <2>4, <3>2, <3>3, <3>4, <3>5
      DEF Serve, Lose, CommitRegister, CommitFirstRegister, CommitLogin, Logout,
          LogoutEverywhere, CommitModify, CommitDelete, CommitChange
  <2> QED
    BY <2>2, <2>3, <2>4
<1> QED
  BY <1>1, <1>2 DEF Next, Expire, vars

\* No worker turns to a user that is deleted.
LEMMA NobodyTurnsToTheDeleted ==
  ASSUME AccountsInv, AimsOK, [Next]_vars, NEW u \in Registered, user[u].deleted,
         NEW v \in Workers, Engaged(v, u)'
  PROVE  Engaged(v, u)
PROOF
<1>0. request \in [Workers -> Request \cup {None}] /\ u \in Users /\ u # None
      /\ u \notin Live
  BY NoneAssumption DEF AccountsInv, TypeOK, Registered, Live
<1>1. CASE request'[v] = request[v]
  BY <1>1 DEF Engaged
<1>2. ASSUME NEW w \in Workers, Receive(w) \/ Serve(w) \/ Lose(w), v # w
      PROVE  request'[v] = request[v]
  BY <1>0, <1>2, ZenonT(30)
  DEF Serve, Receive, SendWithCookie, Send, Lose, Load, CheckRegister, CommitRegister,
      CommitFirstRegister, CheckLogin, CommitLogin, Logout, LogoutEverywhere,
      CommitModify, CheckDelete, CommitDelete, CheckChange, CommitChange, Checked, Done
<1>3. CASE Receive(v)
  <2>1. PICK r : Send(v, r) /\ r.current = None /\ r.phase = "received"
    BY <1>3, ReceivedRequest
  <2>2. request'[v] = r
    BY <1>0, <2>1 DEF Send
  <2> QED
    BY <1>0, <2>1, <2>2 DEF Engaged
<1>4. CASE Serve(v) \/ Lose(v)
  <2> DEFINE q == request[v]
  <2>1. CASE Done(v)
    BY <1>0, <2>1 DEF Done, Engaged
  <2>2. CASE ~Done(v)
    <3>1. q # None /\ q \in Request /\ Aim(q)
      BY <1>0, <1>4 DEF AimsOK, Serve, Lose, Load, CheckRegister, CommitRegister,
           CommitFirstRegister, CheckLogin, CommitLogin, Logout, LogoutEverywhere,
           CommitModify, CheckDelete, CommitDelete, CheckChange, CommitChange, Serving
    <3>2. CASE Load(v)
      <4>1. PICK x \in Live : request' = [request EXCEPT ![v].phase = "loaded",
                 ![v].current = x, ![v].seen = user[x].password]
        BY <2>2, <3>2 DEF Load, LoadedBy
      <4>2. request'[v].current = x /\ request'[v].phase = "loaded"
        BY <1>0, <3>1, <4>1 DEF Request
      <4> QED
        BY <1>0, <4>1, <4>2 DEF Engaged
    <3>3. CASE CheckRegister(v) \/ CheckDelete(v)
      <4>1. PICK ph \in {"loaded", "checked"} :
               request' = [request EXCEPT ![v] = [q EXCEPT !.phase = ph]]
        BY <1>0, <2>2, <3>1, <3>3 DEF CheckRegister, CheckDelete, Checked, Request
      <4>2. q.op \in {"register", "delete"}
        BY <3>3 DEF CheckRegister, CheckDelete, Serving
      <4>3. request'[v].current = q.current /\ request'[v].target = None
        BY <1>0, <3>1, <4>1, <4>2 DEF Aim, Request
      <4> QED
        BY <1>0, <3>1, <4>3 DEF Engaged
    <3>4. CASE CheckLogin(v)
      <4>1. PICK x \in Live : request' = [request EXCEPT ![v].phase = "checked",
                 ![v].current = x, ![v].cookie = user[x].alternative_id]
        BY <2>2, <3>4 DEF CheckLogin
      <4>2. q.op = "login"
        BY <3>4 DEF CheckLogin, Serving
      <4>3. request'[v].current = x /\ request'[v].target = None
        BY <1>0, <3>1, <4>1, <4>2 DEF Aim, Request
      <4> QED
        BY <1>0, <4>1, <4>3 DEF Engaged
    <3>5. CASE CheckChange(v)
      <4> DEFINE x == IF q.op = "change" THEN q.current ELSE q.target
      <4>1. /\ request' = [request EXCEPT ![v].phase = "checked", ![v].target = x]
            /\ q.op = "change" \/ x \in Live
        BY <2>2, <3>5 DEF CheckChange
      <4>2. request'[v].current = q.current /\ request'[v].target = x
        BY <1>0, <3>1, <4>1 DEF Request
      <4>3. x = q.current \/ x # u
        BY <1>0, <4>1
      <4> HIDE DEF x
      <4> QED
        BY <3>1, <4>2, <4>3 DEF Engaged
    <3> QED
      BY <1>4, <2>2, <3>2, <3>3, <3>4, <3>5
      DEF Serve, Lose, CommitRegister, CommitFirstRegister, CommitLogin, Logout,
          LogoutEverywhere, CommitModify, CommitDelete, CommitChange
  <2> QED
    BY <2>1, <2>2
<1> QED
  BY <1>1, <1>2, <1>3, <1>4 DEF Next, Expire, vars

\* A row of a registered user is changed only for the user, or by a change of
\* its password that is under way.
LEMMA OnlyTheEngagedChangeRows ==
  ASSUME AccountsInv, [Next]_vars, NEW u \in Registered,
         user'[u] # [user[u] EXCEPT !.expired = user'[u].expired]
  PROVE  \E w \in Workers : Engaged(w, u)
PROOF
<1>0. user \in [Users -> User \cup {None}] /\ u \in Users /\ user[u] \in User
  BY DEF AccountsInv, TypeOK, Registered
<1>1. user'[u] # user[u]
  <2>1. user[u] = [user[u] EXCEPT !.expired = user[u].expired]
    BY <1>0 DEF User
  <2> QED
    BY <2>1
<1>2. ASSUME NEW w \in Workers, Receive(w) \/ Serve(w) \/ Lose(w) PROVE Engaged(w, u)
  <2>1. CASE CommitRegister(w) \/ CommitFirstRegister(w)
    BY <1>0, <1>1, <2>1 DEF CommitRegister, CommitFirstRegister
  <2>2. CASE LogoutEverywhere(w) \/ CommitModify(w) \/ CommitDelete(w)
    BY <1>0, <1>1, <2>2 DEF LogoutEverywhere, CommitModify, CommitDelete, Serving, Engaged
  <2>3. CASE CommitChange(w)
    BY <1>0, <1>1, <2>3 DEF CommitChange, Serving, Engaged
  <2> QED
    BY <1>1, <1>2, <2>1, <2>2, <2>3
    DEF Serve, Receive, Lose, Load, CheckRegister, CheckLogin, CommitLogin, Logout,
        CheckDelete, CheckChange, database
<1>3. ASSUME NEW t \in Users, Expire(t) PROVE FALSE
  <2>1. user' = [user EXCEPT ![t] = [user[t] EXCEPT !.expired = TRUE]]
    BY <1>0, <1>3 DEF Expire, Registered
  <2>2. user'[u] = [user[u] EXCEPT !.expired = TRUE]
    BY <1>0, <1>1, <2>1
  <2>3. user'[u].expired = TRUE
    BY <1>0, <2>2 DEF User
  <2> QED
    BY <2>2, <2>3
<1> QED
  BY <1>1, <1>2, <1>3 DEF Next, vars

\* Nothing new is begun for a deleted user, whatever cookies and passwords its
\* clients hold: load_user() and the lookups of the services pass it over.
THEOREM TheDeletedAreLeftAlone == Spec => DeletedUsersActNoMore
PROOF
<1> DEFINE Step ==
      \A u \in Registered : user[u].deleted =>
        /\ \A w \in Workers : Engaged(w, u)' => Engaged(w, u)
        /\ user'[u] # [user[u] EXCEPT !.expired = user'[u].expired] =>
              \E w \in Workers : Engaged(w, u)
<1>1. AccountsInv /\ AimsOK /\ [Next]_vars => Step
  BY NobodyTurnsToTheDeleted, OnlyTheEngagedChangeRows
<1>2. Step => [Step]_vars
  OBVIOUS
<1>3. Init => AimsOK
  BY DEF Init, AimsOK
<1>4. AccountsInv /\ AimsOK /\ [Next]_vars => AimsOK'
  BY AimsStay
<1> QED
  BY <1>1, <1>3, <1>4, AccountsInit, AccountsStep, PTL DEF Spec, DeletedUsersActNoMore

-----------------------------------------------------------------------------
(* The promise of Sessions                                                 *)

GoneUsers == Registered \ Live

\* When a cookie leads to a user.
LEMMA LeadsTo ==
  ASSUME TypeOK, NEW j \in Jars, NEW u
  PROVE  u \in ActsAs(j) <=>
           /\ jar[j] # None /\ u \in Users /\ user[u] # None /\ ~user[u].deleted
           /\ user[u].alternative_id = jar[j].alternative_id
BY DEF ActsAs, LoadedBy, Live, Registered

\* One row is written, and cookies stay.
LEMMA OneRowWritten ==
  ASSUME TypeOK, TypeOK', NEW t \in Users, NEW row \in User,
         user' = [user EXCEPT ![t] = row]
  PROVE  /\ PasswordInForce' = [PasswordInForce EXCEPT
                                   ![t] = IF row.deleted THEN None ELSE row.password]
         /\ GoneUsers' = IF row.deleted THEN GoneUsers \cup {t} ELSE GoneUsers \ {t}
         /\ \A j \in Jars : jar'[j] = jar[j] =>
              /\ \A u : u # t => (u \in ActsAs(j)' <=> u \in ActsAs(j))
              /\ t \in ActsAs(j)' <=> /\ jar[j] # None /\ ~row.deleted
                                      /\ row.alternative_id = jar[j].alternative_id
PROOF
<1>1. /\ user \in [Users -> User \cup {None}] /\ row # None /\ user'[t] = row
      /\ \A u \in Users : u # t => user'[u] = user[u]
  BY RecordAssumption DEF TypeOK
<1>2. PasswordInForce' = [PasswordInForce EXCEPT
                            ![t] = IF row.deleted THEN None ELSE row.password]
  BY <1>1 DEF PasswordInForce, Live, Registered
<1>3. GoneUsers' = IF row.deleted THEN GoneUsers \cup {t} ELSE GoneUsers \ {t}
  BY <1>1 DEF GoneUsers, Live, Registered
<1>4. ASSUME NEW j \in Jars, jar'[j] = jar[j]
      PROVE  /\ \A u : u # t => (u \in ActsAs(j)' <=> u \in ActsAs(j))
             /\ t \in ActsAs(j)' <=> /\ jar[j] # None /\ ~row.deleted
                                     /\ row.alternative_id = jar[j].alternative_id
  BY <1>1, <1>4 DEF ActsAs, LoadedBy, Live, Registered
<1> QED
  BY <1>2, <1>3, <1>4

\* Sessions end where the pair of cookie jar and user is among those of C.
LEMMA SessionsEnd ==
  ASSUME NEW C,
         \A j \in Jars : \A u :
            u \in ActsAs(j)' <=> u \in ActsAs(j) /\ <<j, u>> \notin C,
         \A j \in Jars : ActsAs(j)' # {} => jar'[j] = jar[j]
  PROVE  OpenSessions' = {s \in OpenSessions : <<s.jar, s.user>> \notin C}
PROOF
<1>1. ASSUME NEW s \in OpenSessions'
      PROVE  s \in OpenSessions /\ <<s.jar, s.user>> \notin C
  <2>0. PICK j \in Jars : \E u \in ActsAs(j)' :
           s = [jar |-> j, user |-> u, presented |-> jar'[j].presented]
    BY <1>1 DEF OpenSessions
  <2>1. PICK u \in ActsAs(j)' :
           s = [jar |-> j, user |-> u, presented |-> jar'[j].presented]
    BY <2>0
  <2>2. u \in ActsAs(j) /\ <<j, u>> \notin C /\ jar'[j] = jar[j]
    BY <2>1
  <2>3. s = [jar |-> j, user |-> u, presented |-> jar[j].presented]
    BY <2>1, <2>2
  <2> QED
    BY <2>2, <2>3 DEF OpenSessions
<1>2. ASSUME NEW s \in OpenSessions, <<s.jar, s.user>> \notin C
      PROVE  s \in OpenSessions'
  <2>0. PICK j \in Jars : \E u \in ActsAs(j) :
           s = [jar |-> j, user |-> u, presented |-> jar[j].presented]
    BY <1>2 DEF OpenSessions
  <2>1. PICK u \in ActsAs(j) :
           s = [jar |-> j, user |-> u, presented |-> jar[j].presented]
    BY <2>0
  <2>2. s.jar = j /\ s.user = u
    BY <2>1
  <2>3. u \in ActsAs(j)'
    BY <1>2, <2>2
  <2>4. s = [jar |-> j, user |-> u, presented |-> jar'[j].presented]
    BY <2>1, <2>3
  <2> QED
    BY <2>3, <2>4 DEF OpenSessions
<1> QED
  BY <1>1, <1>2

\* An open session is of a user its cookie leads to.
LEMMA OpenTyped ==
  ASSUME TypeOK, NEW s \in OpenSessions
  PROVE  s.jar \in Jars /\ s.user \in Users /\ s.user \in ActsAs(s.jar)
BY DEF OpenSessions, ActsAs, LoadedBy, Live, Registered

\* Rows that lead the same cookies to the same users change nothing in Sessions.
LEMMA NoSessionEnds ==
  ASSUME PasswordInForce' = PasswordInForce, GoneUsers' = GoneUsers, jar' = jar,
         \A j \in Jars : \A u : u \in ActsAs(j)' <=> u \in ActsAs(j)
  PROVE  UNCHANGED Promise!vars
PROOF
<1>c. PICK C : C = {}
  OBVIOUS
<1>0. \A j \in Jars : \A u :
         u \in ActsAs(j)' <=> u \in ActsAs(j) /\ <<j, u>> \notin C
  BY <1>c
<1>1. OpenSessions' = {s \in OpenSessions : <<s.jar, s.user>> \notin C}
  BY <1>0, SessionsEnd
<1> QED
  BY <1>c, <1>1 DEF Promise!vars, GoneUsers

\* A login opens a session with the password in force, or, if the cookie was
\* made of a row that has changed since, only ends the one in the jar.
LEMMA LoginImplements ==
  ASSUME AccountsInv, NEW w \in Workers, CommitLogin(w)
  PROVE  Promise!Next
PROOF
<1>q. PICK q : q = request[w]
  OBVIOUS
<1>j. PICK j : j = q.jar
  OBVIOUS
<1>c. PICK c : c = [alternative_id |-> q.cookie, presented |-> q.password]
  OBVIOUS
<1>1. /\ TypeOK /\ q \in Request /\ RequestOK(q) /\ q.op = "login" /\ q.phase = "checked"
      /\ user' = user /\ jar' = [jar EXCEPT ![j] = c]
  BY <1>q, <1>j, <1>c DEF AccountsInv, TypeOK, CommitLogin, Serving, database
<1>2. j \in Jars /\ q.password \in Passwords /\ Sound(q.cookie, q.password)
  BY <1>1, <1>j DEF RequestOK
<1>3. c \in Cookie /\ c # None /\ c.presented = q.password /\ c.alternative_id = q.cookie
  BY <1>1, <1>2, <1>c, RecordAssumption DEF Cookie, Request
<1>4. jar'[j] = c /\ \A i \in Jars : i # j => jar'[i] = jar[i]
  BY <1>1, <1>2 DEF TypeOK
<1>5. \A i \in Jars : i # j => ActsAs(i)' = ActsAs(i)
  BY <1>1, <1>4 DEF ActsAs, LoadedBy, Live, Registered
<1>6. ActsAs(j)' = LoadedBy(q.cookie)
  BY <1>1, <1>3, <1>4 DEF ActsAs, LoadedBy, Live, Registered
<1>7. PasswordInForce' = PasswordInForce /\ GoneUsers' = GoneUsers
  BY <1>1 DEF PasswordInForce, GoneUsers, Live, Registered
<1>8. CASE LoadedBy(q.cookie) = {}
  <2> DEFINE C == {j} \X Users
  <2>1. \A i \in Jars : \A u : u \in ActsAs(i) => u \in Users
    BY DEF ActsAs, LoadedBy, Live, Registered
  <2>2. \A i \in Jars : \A u :
            u \in ActsAs(i)' <=> u \in ActsAs(i) /\ <<i, u>> \notin C
    BY <1>5, <1>6, <1>8, <2>1
  <2>3. \A i \in Jars : ActsAs(i)' # {} => jar'[i] = jar[i]
    BY <1>4, <1>6, <1>8
  <2>4. OpenSessions' = {s \in OpenSessions : <<s.jar, s.user>> \notin C}
    <3> HIDE DEF C
    <3> QED
      BY <2>2, <2>3, SessionsEnd
  <2>5. OpenSessions' = {s \in OpenSessions : s.jar # j}
    BY <1>1, <2>4, OpenTyped
  <2>6. Promise!LogOut(j)
    BY <1>7, <2>5 DEF Promise!LogOut, Promise!OfOther, GoneUsers
  <2> QED
    BY <1>2, <2>6 DEF Promise!Next
<1>9. ASSUME NEW u \in LoadedBy(q.cookie) PROVE Promise!Next
  <2>p. PICK p : p = q.password
    OBVIOUS
  <2> DEFINE new == [jar |-> j, user |-> u, presented |-> p]
  <2>1. /\ u \in Users /\ u \in Live /\ user[u].alternative_id = q.cookie
        /\ user[u].password = p
    BY <1>2, <1>9, <2>p DEF LoadedBy, Live, Registered, Sound
  <2>2. ActsAs(j)' = {u}
    BY <1>6, <1>9 DEF LoadedBy, Live, AccountsInv, IdsApart
  <2>3. ASSUME NEW s \in OpenSessions'
        PROVE  (s \in OpenSessions /\ s.jar # j) \/ s = new
    <3>1. PICK i \in Jars : \E v \in ActsAs(i)' :
             s = [jar |-> i, user |-> v, presented |-> jar'[i].presented]
      BY <2>3 DEF OpenSessions
    <3>2. PICK v \in ActsAs(i)' :
             s = [jar |-> i, user |-> v, presented |-> jar'[i].presented]
      BY <3>1
    <3>3. CASE i = j
      BY <1>3, <1>4, <2>p, <2>2, <3>2, <3>3
    <3>4. CASE i # j
      <4>1. s = [jar |-> i, user |-> v, presented |-> jar[i].presented] /\ v \in ActsAs(i)
        BY <1>4, <1>5, <3>2, <3>4
      <4> QED
        BY <3>4, <4>1 DEF OpenSessions
    <3> QED
      BY <3>3, <3>4
  <2>4. ASSUME NEW s \in OpenSessions, s.jar # j PROVE s \in OpenSessions'
    <3>1. PICK i \in Jars : \E v \in ActsAs(i) :
             s = [jar |-> i, user |-> v, presented |-> jar[i].presented]
      BY <2>4 DEF OpenSessions
    <3>2. PICK v \in ActsAs(i) :
             s = [jar |-> i, user |-> v, presented |-> jar[i].presented]
      BY <3>1
    <3>3. i # j
      BY <2>4, <3>2
    <3>4. s = [jar |-> i, user |-> v, presented |-> jar'[i].presented] /\ v \in ActsAs(i)'
      BY <1>4, <1>5, <3>2, <3>3
    <3> QED
      BY <3>4 DEF OpenSessions
  <2>5. new \in OpenSessions'
    <3>1. new = [jar |-> j, user |-> u, presented |-> jar'[j].presented] /\ u \in ActsAs(j)'
      BY <1>3, <1>4, <2>p, <2>2
    <3> HIDE DEF new
    <3> QED
      BY <1>2, <3>1 DEF OpenSessions
  <2>6. OpenSessions' = {s \in OpenSessions : s.jar # j} \cup {new}
    <3> HIDE DEF new
    <3> QED
      BY <2>3, <2>4, <2>5
  <2>7. PasswordInForce[u] = p
    BY <2>1 DEF PasswordInForce
  <2>8. Promise!LogIn(j, u, p)
    BY <1>7, <2>6, <2>7 DEF Promise!LogIn, Promise!OfOther, GoneUsers
  <2> QED
    BY <1>2, <2>p, <2>1, <2>8 DEF Promise!Next
<1> QED
  BY <1>8, <1>9

\* A step that changes no row and no cookie.
LEMMA QuietStep ==
  ASSUME UNCHANGED <<user, jar>>
  PROVE  UNCHANGED Promise!vars
PROOF
<1>1. PasswordInForce' = PasswordInForce /\ GoneUsers' = GoneUsers
  BY DEF PasswordInForce, GoneUsers, Live, Registered
<1>2. \A j \in Jars : \A u : u \in ActsAs(j)' <=> u \in ActsAs(j)
  BY DEF ActsAs, LoadedBy, Live, Registered
<1> QED
  BY <1>1, <1>2, NoSessionEnds

\* A row is rewritten with the id, the password and the lock it has.
LEMMA ModifyImplements ==
  ASSUME AccountsInv, AccountsInv', NEW t \in Registered, NEW row \in User,
         user' = [user EXCEPT ![t] = row], jar' = jar,
         row.alternative_id = user[t].alternative_id,
         row.password = user[t].password, row.deleted = user[t].deleted
  PROVE  UNCHANGED Promise!vars
PROOF
<1>1. TypeOK /\ TypeOK' /\ t \in Users /\ user[t] # None
  BY DEF AccountsInv, Registered
<1>2. /\ PasswordInForce' = [PasswordInForce EXCEPT
                                ![t] = IF row.deleted THEN None ELSE row.password]
      /\ GoneUsers' = IF row.deleted THEN GoneUsers \cup {t} ELSE GoneUsers \ {t}
      /\ \A j \in Jars :
            /\ \A u : u # t => (u \in ActsAs(j)' <=> u \in ActsAs(j))
            /\ t \in ActsAs(j)' <=> /\ jar[j] # None /\ ~row.deleted
                                    /\ row.alternative_id = jar[j].alternative_id
  BY <1>1, OneRowWritten
<1>3. PasswordInForce' = PasswordInForce
  BY <1>1, <1>2 DEF PasswordInForce, Live, Registered
<1>4. GoneUsers' = GoneUsers
  BY <1>1, <1>2 DEF GoneUsers, Live, Registered
<1>5. \A j \in Jars : t \in ActsAs(j)' <=> t \in ActsAs(j)
  BY <1>1, <1>2, LeadsTo
<1>6. \A j \in Jars : \A u : u \in ActsAs(j)' <=> u \in ActsAs(j)
  BY <1>2, <1>5
<1> QED
  BY <1>3, <1>4, <1>6, NoSessionEnds

\* A row that is new, or has a new id, leads nowhere yet: sessions of its user
\* end, if there are any, and with them the one in the jar that is emptied.
LEMMA RenewalEnds ==
  ASSUME AccountsInv, AccountsInv', NEW t \in Users, NEW row \in User, NEW J,
         user' = [user EXCEPT ![t] = row],
         row.alternative_id = uuids + 1 \/ row.deleted,
         \A j \in Jars : IF j \in J THEN jar'[j] = None ELSE jar'[j] = jar[j]
  PROVE  /\ PasswordInForce' = [PasswordInForce EXCEPT
                                   ![t] = IF row.deleted THEN None ELSE row.password]
         /\ GoneUsers' = IF row.deleted THEN GoneUsers \cup {t} ELSE GoneUsers \ {t}
         /\ OpenSessions' = {s \in OpenSessions : s.jar \notin J /\ s.user # t}
PROOF
<1>0. TypeOK /\ TypeOK' /\ uuids \in Nat
      /\ \A j \in Jars : jar[j] # None => jar[j].alternative_id \in Nat
                                          /\ jar[j].alternative_id <= uuids
  BY DEF AccountsInv, TypeOK, Sound, Cookie
<1>1. /\ PasswordInForce' = [PasswordInForce EXCEPT
                                ![t] = IF row.deleted THEN None ELSE row.password]
      /\ GoneUsers' = IF row.deleted THEN GoneUsers \cup {t} ELSE GoneUsers \ {t}
      /\ \A j \in Jars : jar'[j] = jar[j] =>
            /\ \A u : u # t => (u \in ActsAs(j)' <=> u \in ActsAs(j))
            /\ t \in ActsAs(j)' <=> /\ jar[j] # None /\ ~row.deleted
                                    /\ row.alternative_id = jar[j].alternative_id
  BY <1>0, OneRowWritten
<1>2. \A j \in Jars : j \in J => ActsAs(j)' = {}
  BY DEF ActsAs
<1>3. \A j \in Jars : j \notin J => t \notin ActsAs(j)'
  BY <1>0, <1>1
<1>c. PICK C : \A j, u : <<j, u>> \in C <=> j \in Jars /\ u \in Users /\ (j \in J \/ u = t)
  <2> DEFINE D == {x \in Jars \X Users : x[1] \in J \/ x[2] = t}
  <2>1. \A j, u : <<j, u>> \in D <=> j \in Jars /\ u \in Users /\ (j \in J \/ u = t)
    OBVIOUS
  <2> QED
    BY <2>1
<1>4. \A j \in Jars : \A u :
         u \in ActsAs(j)' <=> u \in ActsAs(j) /\ <<j, u>> \notin C
  <2> TAKE j \in Jars
  <2> TAKE u
  <2>1. u \in ActsAs(j) => u \in Users
    BY DEF ActsAs, LoadedBy, Live, Registered
  <2>2. CASE j \in J
    BY <1>2, <1>c, <2>1, <2>2
  <2>3. CASE j \notin J /\ u = t
    BY <1>3, <1>c, <2>1, <2>3
  <2>4. CASE j \notin J /\ u # t
    BY <1>1, <1>c, <2>4
  <2> QED
    BY <2>2, <2>3, <2>4
<1>5. \A j \in Jars : ActsAs(j)' # {} => jar'[j] = jar[j]
  BY <1>2
<1>6. OpenSessions' = {s \in OpenSessions : <<s.jar, s.user>> \notin C}
  BY <1>4, <1>5, SessionsEnd
<1>7. OpenSessions' = {s \in OpenSessions : s.jar \notin J /\ s.user # t}
  BY <1>0, <1>6, <1>c, OpenTyped
<1> QED
  BY <1>1, <1>7

\* Nobody acts as a user that is not registered or is deleted.
LEMMA NoSessionsOf ==
  ASSUME TypeOK, NEW t, t \notin Live
  PROVE  OpenSessions = {s \in OpenSessions : s.user # t}
PROOF
<1>1. \A s \in OpenSessions : s.user # t
  BY OpenTyped DEF ActsAs, LoadedBy
<1> QED
  BY <1>1

\* The commit of a registration, also the one that creates the default group.
LEMMA RegisterImplements ==
  ASSUME AccountsInv, AccountsInv', NEW w \in Workers,
         CommitRegister(w) \/ CommitFirstRegister(w)
  PROVE  Promise!Next
PROOF
<1>q. PICK q : q = request[w]
  OBVIOUS
<1>1. /\ TypeOK /\ q \in Request /\ RequestOK(q) /\ q.op = "register" /\ jar' = jar
  BY <1>q DEF AccountsInv, TypeOK, CommitRegister, CommitFirstRegister, Serving
<1>2. PICK t \in Users \ Registered : user' = [user EXCEPT ![t] = NewUser(q)]
  BY <1>q DEF CommitRegister, CommitFirstRegister
<1>r. PICK row : row = NewUser(q)
  OBVIOUS
<1>3. row \in User /\ row.alternative_id = uuids + 1 /\ ~row.deleted
      /\ row.password = q.password /\ q.password \in Passwords
      /\ user' = [user EXCEPT ![t] = row]
  BY <1>1, <1>2, <1>r, NewUserTyped DEF NewUser, RequestOK
<1>j. PICK J : J = {}
  OBVIOUS
<1>4. \A j \in Jars : IF j \in J THEN jar'[j] = None ELSE jar'[j] = jar[j]
  BY <1>1, <1>j
<1>5. /\ PasswordInForce' = [PasswordInForce EXCEPT
                                ![t] = IF row.deleted THEN None ELSE row.password]
      /\ GoneUsers' = IF row.deleted THEN GoneUsers \cup {t} ELSE GoneUsers \ {t}
      /\ OpenSessions' = {s \in OpenSessions : s.jar \notin J /\ s.user # t}
  BY <1>2, <1>3, <1>4, RenewalEnds
<1>6. t \notin Live /\ t \notin GoneUsers
  BY <1>2 DEF Live, GoneUsers
<1>7. OpenSessions' = OpenSessions
  BY <1>1, <1>5, <1>6, <1>j, NoSessionsOf
<1>8. PasswordInForce[t] = None
  BY <1>2, <1>6 DEF PasswordInForce
<1>9. Promise!Register(t, q.password)
  BY <1>3, <1>5, <1>6, <1>7, <1>8 DEF Promise!Register, GoneUsers
<1> QED
  BY <1>2, <1>3, <1>9 DEF Promise!Next

\* The cookie is taken from the jar, and the row of the user stays.
LEMMA LogoutImplements ==
  ASSUME AccountsInv, NEW w \in Workers, Logout(w)
  PROVE  Promise!Next
PROOF
<1>j. PICK j : j = request[w].jar
  OBVIOUS
<1>1. TypeOK /\ user' = user /\ j \in Jars /\ jar' = [jar EXCEPT ![j] = None]
  BY <1>j DEF AccountsInv, TypeOK, Logout, Serving, database, RequestOK, SignedIn
<1>2. PasswordInForce' = PasswordInForce /\ GoneUsers' = GoneUsers
  BY <1>1 DEF PasswordInForce, GoneUsers, Live, Registered
<1>c. PICK C : C = {j} \X Users
  OBVIOUS
<1>3. ActsAs(j)' = {} /\ \A i \in Jars : i # j => jar'[i] = jar[i] /\ ActsAs(i)' = ActsAs(i)
  BY <1>1 DEF ActsAs, LoadedBy, Live, Registered, TypeOK
<1>4. \A i \in Jars : \A u : u \in ActsAs(i) => u \in Users
  BY DEF ActsAs, LoadedBy, Live, Registered
<1>5. \A i \in Jars : \A u : u \in ActsAs(i)' <=> u \in ActsAs(i) /\ <<i, u>> \notin C
  BY <1>c, <1>3, <1>4
<1>6. \A i \in Jars : ActsAs(i)' # {} => jar'[i] = jar[i]
  BY <1>3
<1>7. OpenSessions' = {s \in OpenSessions : <<s.jar, s.user>> \notin C}
  BY <1>5, <1>6, SessionsEnd
<1>8. OpenSessions' = {s \in OpenSessions : s.jar # j}
  BY <1>1, <1>7, <1>c, OpenTyped
<1>9. Promise!LogOut(j)
  BY <1>2, <1>8 DEF Promise!LogOut, Promise!OfOther, GoneUsers
<1> QED
  BY <1>1, <1>9 DEF Promise!Next

\* All sessions of the user end, and whatever the jar has held meanwhile.
LEMMA LogoutEverywhereImplements ==
  ASSUME AccountsInv, AccountsInv', NEW w \in Workers, LogoutEverywhere(w)
  PROVE  Promise!Next
PROOF
<1>j. PICK j : j = request[w].jar
  OBVIOUS
<1>t. PICK t : t = request[w].current
  OBVIOUS
<1>1. /\ TypeOK /\ j \in Jars /\ jar' = [jar EXCEPT ![j] = None]
      /\ t \in Registered /\ user' = [user EXCEPT ![t].alternative_id = uuids + 1]
  BY <1>j, <1>t DEF AccountsInv, TypeOK, LogoutEverywhere, Serving, RequestOK, SignedIn, NewId
<1>2. t \in Users /\ user[t] \in User /\ user[t] # None /\ uuids \in Nat
  BY <1>1 DEF TypeOK, Registered
<1>r. PICK row : row = [user[t] EXCEPT !.alternative_id = uuids + 1]
  OBVIOUS
<1>3. /\ row \in User /\ row.alternative_id = uuids + 1 /\ row.deleted = user[t].deleted
      /\ row.password = user[t].password
  BY <1>2, <1>r DEF User
<1>4. user' = [user EXCEPT ![t] = row]
  BY <1>1, <1>2, <1>r DEF TypeOK
<1>J. PICK J : J = {j}
  OBVIOUS
<1>5. \A i \in Jars : IF i \in J THEN jar'[i] = None ELSE jar'[i] = jar[i]
  BY <1>1, <1>J DEF TypeOK
<1>6. /\ PasswordInForce' = [PasswordInForce EXCEPT
                                ![t] = IF row.deleted THEN None ELSE row.password]
      /\ GoneUsers' = IF row.deleted THEN GoneUsers \cup {t} ELSE GoneUsers \ {t}
      /\ OpenSessions' = {s \in OpenSessions : s.jar \notin J /\ s.user # t}
  <2>1. row.alternative_id = uuids + 1 \/ row.deleted
    BY <1>3
  <2>2. row \in User /\ t \in Users
    BY <1>2, <1>3
  <2> QED
    BY <1>4, <1>5, <2>1, <2>2, RenewalEnds
<1>7. PasswordInForce' = PasswordInForce /\ GoneUsers' = GoneUsers
  BY <1>2, <1>3, <1>6 DEF PasswordInForce, GoneUsers, Live, Registered
<1>8. OpenSessions' = {s \in {r \in OpenSessions : r.jar # j} : s.user # t}
  BY <1>6, <1>J
<1>9. Promise!LogOutEverywhere(j, t)
  BY <1>7, <1>8 DEF Promise!LogOutEverywhere, Promise!OfOther, GoneUsers
<1> QED
  BY <1>1, <1>2, <1>9 DEF Promise!Next

\* A change ends all sessions of the user; that of a deleted user is no step.
LEMMA ChangeImplements ==
  ASSUME AccountsInv, AccountsInv', NEW w \in Workers, CommitChange(w)
  PROVE  Promise!Next \/ UNCHANGED Promise!vars
PROOF
<1>q. PICK q : q = request[w]
  OBVIOUS
<1>t. PICK t : t = q.target
  OBVIOUS
<1>1. /\ TypeOK /\ t \in Registered /\ q.new \in Passwords /\ jar' = jar
      /\ user' = [user EXCEPT ![t] = Changed(user[t], q.new, uuids + 1)]
  BY <1>q, <1>t DEF AccountsInv, TypeOK, CommitChange, Serving, RequestOK, NewId
<1>2. t \in Users /\ user[t] \in User /\ user[t] # None /\ uuids \in Nat
  BY <1>1 DEF TypeOK, Registered
<1>r. PICK row : row = Changed(user[t], q.new, uuids + 1)
  OBVIOUS
<1>3. /\ row \in User /\ row.alternative_id = uuids + 1 /\ row.deleted = user[t].deleted
      /\ row.password = q.new /\ user' = [user EXCEPT ![t] = row]
  <2>1. \A old \in User, p \in Passwords, id \in Nat :
           LET new == Changed(old, p, id)
           IN  /\ new \in User /\ new.alternative_id = id /\ new.deleted = old.deleted
               /\ new.password = p
    BY DEF User, Changed
  <2>2. uuids + 1 \in Nat
    BY <1>2
  <2> QED
    BY <1>1, <1>2, <1>r, <2>1, <2>2
<1>J. PICK J : J = {}
  OBVIOUS
<1>4. \A i \in Jars : IF i \in J THEN jar'[i] = None ELSE jar'[i] = jar[i]
  BY <1>1, <1>J
<1>5. /\ PasswordInForce' = [PasswordInForce EXCEPT
                                ![t] = IF row.deleted THEN None ELSE row.password]
      /\ GoneUsers' = IF row.deleted THEN GoneUsers \cup {t} ELSE GoneUsers \ {t}
      /\ OpenSessions' = {s \in OpenSessions : s.jar \notin J /\ s.user # t}
  <2>1. row.alternative_id = uuids + 1 \/ row.deleted
    BY <1>3
  <2>2. row \in User /\ t \in Users /\ user' = [user EXCEPT ![t] = row]
    BY <1>2, <1>3
  <2> QED
    BY <1>4, <2>1, <2>2, RenewalEnds
<1>6. OpenSessions' = {s \in OpenSessions : s.user # t}
  BY <1>5, <1>J
<1>7. CASE ~user[t].deleted
  <2>1. PasswordInForce' = [PasswordInForce EXCEPT ![t] = q.new] /\ GoneUsers' = GoneUsers
    BY <1>2, <1>3, <1>5, <1>7 DEF GoneUsers, Live
  <2>2. PasswordInForce[t] # None
    BY <1>1, <1>2, <1>7, NoneAssumption DEF PasswordInForce, Live, User
  <2>3. Promise!ChangePassword(t, q.new)
    BY <1>6, <2>1, <2>2 DEF Promise!ChangePassword, Promise!EndAll, GoneUsers
  <2> QED
    BY <1>1, <1>2, <2>3 DEF Promise!Next
<1>8. CASE user[t].deleted
  <2>1. PasswordInForce' = PasswordInForce /\ GoneUsers' = GoneUsers
    BY <1>1, <1>2, <1>3, <1>5, <1>8 DEF PasswordInForce, GoneUsers, Live
  <2>2. t \notin Live
    BY <1>8 DEF Live
  <2>3. OpenSessions' = OpenSessions
    BY <1>1, <1>6, <2>2, NoSessionsOf
  <2> QED
    BY <2>1, <2>3 DEF Promise!vars, GoneUsers
<1> QED
  BY <1>2, <1>7, <1>8 DEF User

\* A deletion ends all sessions of the user; the second one is no step.
LEMMA DeleteImplements ==
  ASSUME AccountsInv, AccountsInv', NEW w \in Workers, CommitDelete(w)
  PROVE  Promise!Next \/ UNCHANGED Promise!vars
PROOF
<1>t. PICK t : t = request[w].current
  OBVIOUS
<1>1. /\ TypeOK /\ t \in Registered /\ jar' = jar
      /\ user' = [user EXCEPT ![t].deleted = TRUE]
  BY <1>t DEF AccountsInv, TypeOK, CommitDelete, Serving, RequestOK, SignedIn
<1>2. t \in Users /\ user[t] \in User /\ user[t] # None
  BY <1>1 DEF TypeOK, Registered
<1>r. PICK row : row = [user[t] EXCEPT !.deleted = TRUE]
  OBVIOUS
<1>3. /\ row \in User /\ row.alternative_id = user[t].alternative_id /\ row.deleted
      /\ row.password = user[t].password
  BY <1>2, <1>r DEF User
<1>4. user' = [user EXCEPT ![t] = row]
  BY <1>1, <1>2, <1>r DEF TypeOK
<1>5. CASE user[t].deleted
  <2>1. row.deleted = user[t].deleted
    BY <1>2, <1>5, <1>r DEF User
  <2> QED
    BY <1>1, <1>3, <1>4, <2>1, ModifyImplements
<1>6. CASE ~user[t].deleted
  <2>J. PICK J : J = {}
    OBVIOUS
  <2>1. \A i \in Jars : IF i \in J THEN jar'[i] = None ELSE jar'[i] = jar[i]
    BY <1>1, <2>J
  <2>2. /\ PasswordInForce' = [PasswordInForce EXCEPT
                                  ![t] = IF row.deleted THEN None ELSE row.password]
        /\ GoneUsers' = IF row.deleted THEN GoneUsers \cup {t} ELSE GoneUsers \ {t}
        /\ OpenSessions' = {s \in OpenSessions : s.jar \notin J /\ s.user # t}
    <3>1. row.alternative_id = uuids + 1 \/ row.deleted
      BY <1>3
    <3>2. row \in User /\ t \in Users
      BY <1>2, <1>3
    <3> QED
      BY <1>4, <2>1, <3>1, <3>2, RenewalEnds
  <2>3. PasswordInForce[t] # None
    BY <1>1, <1>2, <1>6, NoneAssumption DEF PasswordInForce, Live, User
  <2>4. Promise!DeleteAccount(t)
    BY <1>3, <2>2, <2>3, <2>J DEF Promise!DeleteAccount, Promise!EndAll, GoneUsers
  <2> QED
    BY <1>2, <2>4 DEF Promise!Next
<1> QED
  BY <1>5, <1>6

\* Names, mail addresses and the age of a password open and end no session.
LEMMA ModifyOrExpireImplements ==
  ASSUME AccountsInv, AccountsInv',
         (\E w \in Workers : CommitModify(w)) \/ (\E u \in Users : Expire(u))
  PROVE  UNCHANGED Promise!vars
PROOF
<1>1. ASSUME NEW w \in Workers, CommitModify(w) PROVE UNCHANGED Promise!vars
  <2>q. PICK q : q = request[w]
    OBVIOUS
  <2>t. PICK t : t = q.current
    OBVIOUS
  <2>1. /\ TypeOK /\ t \in Registered /\ jar' = jar /\ q.name \in NewNames /\ q.mail \in Mails
        /\ user' = [user EXCEPT ![t].name = q.name, ![t].mail = q.mail]
    BY <1>1, <2>q, <2>t DEF AccountsInv, TypeOK, CommitModify, Serving, RequestOK, SignedIn
  <2>2. t \in Users /\ user[t] \in User /\ user \in [Users -> User \cup {None}]
    BY <2>1 DEF TypeOK, Registered
  <2>r. PICK row : row = [user[t] EXCEPT !.name = q.name, !.mail = q.mail]
    OBVIOUS
  <2>3. row \in User
    BY <2>1, <2>2, <2>r, ZenonT(30) DEF User
  <2>4. /\ row.alternative_id = user[t].alternative_id /\ row.deleted = user[t].deleted
        /\ row.password = user[t].password
    BY <2>2, <2>r DEF User
  <2>5. user' = [user EXCEPT ![t] = row]
    BY <2>1, <2>2, <2>r DEF User
  <2> QED
    BY <2>1, <2>3, <2>4, <2>5, ModifyImplements
<1>2. ASSUME NEW t \in Users, Expire(t) PROVE UNCHANGED Promise!vars
  <2>1. /\ TypeOK /\ t \in Registered /\ jar' = jar /\ user[t] \in User
        /\ user' = [user EXCEPT ![t].expired = TRUE]
    BY <1>2 DEF AccountsInv, TypeOK, Expire, Registered
  <2>r. PICK row : row = [user[t] EXCEPT !.expired = TRUE]
    OBVIOUS
  <2>2. /\ row \in User /\ row.alternative_id = user[t].alternative_id
        /\ row.deleted = user[t].deleted /\ row.password = user[t].password
    BY <2>1, <2>r DEF User
  <2>3. user' = [user EXCEPT ![t] = row]
    BY <2>1, <2>r DEF TypeOK
  <2> QED
    BY <2>1, <2>2, <2>3, ModifyImplements
<1> QED
  BY <1>1, <1>2

\* Every step of the requests is one step of the promise, or none.
LEMMA StepsImplement ==
  ASSUME AccountsInv, [Next]_vars
  PROVE  [Promise!Next]_(Promise!vars)
PROOF
<1>0. AccountsInv'
  BY AccountsStep
<1>1. CASE UNCHANGED <<user, jar>>
  BY <1>1, QuietStep
<1>2. ASSUME NEW w \in Workers, Receive(w) \/ Serve(w) \/ Lose(w),
             ~UNCHANGED <<user, jar>>
      PROVE  Promise!Next \/ UNCHANGED Promise!vars
  <2>1. \/ CommitRegister(w) \/ CommitFirstRegister(w) \/ CommitLogin(w) \/ Logout(w)
        \/ LogoutEverywhere(w) \/ CommitModify(w) \/ CommitDelete(w) \/ CommitChange(w)
    BY <1>2 DEF Serve, Receive, Lose, Load, CheckRegister, CheckLogin, CheckDelete,
                CheckChange, database
  <2> QED
    BY <1>0, <2>1, RegisterImplements, LoginImplements, LogoutImplements,
       LogoutEverywhereImplements, ModifyOrExpireImplements, DeleteImplements,
       ChangeImplements
<1>3. ASSUME NEW u \in Users, Expire(u) PROVE UNCHANGED Promise!vars
  BY <1>0, <1>3, ModifyOrExpireImplements
<1> QED
  BY <1>1, <1>2, <1>3 DEF Next, vars

\* The requests of any number of users, clients and workers, in steps that mix,
\* keep the promise of Sessions: each operation is as if done in one step.
THEOREM AccountsImplementSessions == Spec => ImplementsSessions
PROOF
<1>1. Init => Promise!Init
  BY DEF Init, Promise!Init, PasswordInForce, OpenSessions, ActsAs, Live, Registered
<1>2. AccountsInv /\ [Next]_vars => [Promise!Next]_(Promise!vars)
  BY StepsImplement
<1> QED
  BY <1>1, <1>2, AccountsInit, AccountsStep, PTL
  DEF Spec, ImplementsSessions, Promise!Spec
=============================================================================
