------------------------ MODULE ResourceStoreProofs -------------------------
(***************************************************************************)
(* Theorems about ResourceStore, for every value of its constants.         *)
(*                                                                         *)
(* BaseInv says that what is stored and what is requested is well formed.  *)
(* On it rest ReadonlyInv (no request that passed its checks aims at a     *)
(* read-only resource) and BuiltinsInv (the built-in parameter types are   *)
(* made once and are the only holders of their names), which hold for any  *)
(* number of workers, and DirectoryInv (a name that was found free is free *)
(* until the commit), which needs that there is only one.                  *)
(***************************************************************************)
EXTENDS ResourceStore, TLAPS

RequestOK(q) ==
  /\ q.op = "create" => q.kind \in Kinds /\ q.group \in Groups /\ q.name \in Names
  /\ q.op = "create_all" => q.kind = ParameterType /\ q.group \in Groups
  /\ q.op \in {"modify", "delete"} =>
        /\ q.target \in Stored
        /\ q.kind = kind[q.target] /\ q.group = group[q.target]
  /\ q.op = "modify" => q.name \in Names

StoredOK == \A r \in Stored : group[r] \in Groups /\ latest[r].name \in Names

BaseInv ==
  /\ TypeOK
  /\ StoredOK
  /\ \A w \in Workers : request[w] # None => RequestOK(request[w])

-----------------------------------------------------------------------------
(* What each step does to the requests                                     *)

\* Every other request stays, and this one keeps what it asks for.
SameOrder(w) ==
  /\ request' \in [Workers -> Request \cup {None}]
  /\ \A v \in Workers \ {w} : request'[v] = request[v]
  /\ request'[w] \in Request
  /\ request'[w].op = request[w].op
  /\ request'[w].kind = request[w].kind
  /\ request'[w].group = request[w].group
  /\ request'[w].target = request[w].target
  /\ request'[w].name = request[w].name

\* An answered request is over and still names what it asked for.
LEMMA Answering ==
  ASSUME NEW w \in Workers, NEW a \in Answers, TypeOK,
         request[w] # None, Answer(w, a)
  PROVE  SameOrder(w) /\ request'[w].phase = "answered"
PROOF
<1>1. request \in [Workers -> Request \cup {None}] /\ request[w] \in Request
  BY DEF TypeOK
<1>2. request' = [request EXCEPT ![w] = [request[w] EXCEPT !.phase = "answered",
                                                           !.answer = a]]
  BY <1>1 DEF Answer, Request
<1>3. [request[w] EXCEPT !.phase = "answered", !.answer = a] \in Request
  BY <1>1 DEF Request
<1> QED
  BY <1>1, <1>2, <1>3 DEF SameOrder, Request

\* A verdict that is not "accepted" is an answer.
LEMMA VerdictsAnswer ==
  ASSUME NEW q, q.op \in Operations
  PROVE  Verdict(q) \in Answers \cup {"accepted"}
BY DEF Verdict, CreateVerdict, SnapshotVerdict, ServiceModifyVerdict,
       DeleteResourceVerdict, AddLockVerdict, ServiceDeleteVerdict, CreateAllVerdict, Answers,
       Operations

\* The request that is received is well formed.
LEMMA Receiving ==
  ASSUME NEW w \in Workers, BaseInv, Receive(w)
  PROVE  /\ request' \in [Workers -> Request \cup {None}]
         /\ \A v \in Workers \ {w} : request'[v] = request[v]
         /\ request'[w] \in Request /\ request'[w].phase = "received"
         /\ RequestOK(request'[w])
PROOF
<1>1. request \in [Workers -> Request \cup {None}] /\ StoredOK
      /\ kind \in [Resources -> Kinds \cup {None}]
      /\ group \in [Resources -> Groups \cup {None}]
  BY DEF BaseInv, TypeOK
<1> DEFINE Good(q) == q \in Request /\ q.phase = "received" /\ RequestOK(q)
<1>2. Good(CreateAllRequest)
  BY KindsAssumption, GroupsAssumption
  DEF CreateAllRequest, Order, Request, RequestOK, Operations, ParameterType
<1>3. \A k \in Kinds, g \in Groups, n \in Names : Good(CreateRequest(k, g, n))
  BY DEF CreateRequest, Order, Request, RequestOK, Operations
<1>4. \A r \in Stored, n \in Names : Good(ModifyRequest(r, n))
  BY <1>1 DEF ModifyRequest, Order, Request, RequestOK, Operations, Stored
<1>5. \A r \in Stored : Good(DeleteRequest(r))
  BY <1>1 DEF DeleteRequest, Order, Request, RequestOK, Operations, Stored
<1> HIDE DEF Good
<1>6. \E q : Good(q) /\ request' = [request EXCEPT ![w] = q]
  BY <1>2, <1>3, <1>4, <1>5 DEF Receive, Serve
<1> QED
  BY <1>1, <1>6 DEF Good

-----------------------------------------------------------------------------
(* Well-formedness is preserved                                            *)

\* Nothing stored before the step changes its type or owner, and requests
\* that stay or are answered remain well formed.
LEMMA OrdersStayGood ==
  ASSUME BaseInv, NEW w \in Workers, request[w] # None, SameOrder(w),
         \A r \in Stored : r \in Stored' /\ kind'[r] = kind[r] /\ group'[r] = group[r]
  PROVE  \A v \in Workers : request'[v] # None => RequestOK(request[v])' 
PROOF
<1> SUFFICES ASSUME NEW v \in Workers, request'[v] # None
             PROVE  RequestOK(request[v])'
  OBVIOUS
<1>1. request[v] # None
  BY DEF SameOrder
<1>2. RequestOK(request[v])
  BY <1>1 DEF BaseInv
<1>3. /\ request'[v].op = request[v].op /\ request'[v].kind = request[v].kind
      /\ request'[v].group = request[v].group
      /\ request'[v].target = request[v].target
      /\ request'[v].name = request[v].name
  BY DEF SameOrder
<1> QED
  BY <1>2, <1>3 DEF RequestOK

LEMMA BaseInit == Init => BaseInv
BY DEF Init, BaseInv, TypeOK, StoredOK, Stored, Snapshot, LockTypes

\* modify() either ends here or has read a live resource.
LEMMA Fetching ==
  ASSUME NEW w \in Workers, BaseInv, Fetch(w)
  PROVE  /\ SameOrder(w) /\ request[w] \in Request /\ request[w].op = "modify"
         /\ \/ request'[w].phase = "answered"
            \/ /\ request'[w].phase = "fetched" /\ request[w].target \in Live
               /\ request'[w].seen = latest[request[w].target].name
PROOF
<1> DEFINE q == request[w]
<1>1. q \in Request /\ q.op = "modify" /\ RequestOK(q) /\ TypeOK /\ request[w] # None
  BY DEF BaseInv, TypeOK, Fetch, Serving
<1>2. q.target \in Resources /\ latest[q.target].name \in Names \cup {None}
  BY <1>1 DEF RequestOK, Stored, TypeOK, Snapshot
<1>3. CASE FetchVerdict(q) = "accepted"
  <2>1. request' = [request EXCEPT ![w] = [q EXCEPT !.phase = "fetched",
                                                    !.seen = latest[q.target].name]]
    BY <1>1, <1>3 DEF Fetch, TypeOK, Request
  <2>2. [q EXCEPT !.phase = "fetched", !.seen = latest[q.target].name] \in Request
    BY <1>1, <1>2 DEF Request
  <2>3. q.target \in Live
    BY <1>3 DEF FetchVerdict
  <2>4. SameOrder(w)
    BY <1>1, <2>1, <2>2 DEF SameOrder, TypeOK, Request
  <2> QED
    BY <1>1, <2>1, <2>3, <2>4 DEF TypeOK, Request
<1>4. CASE FetchVerdict(q) # "accepted"
  <2>1. FetchVerdict(q) \in Answers /\ Answer(w, FetchVerdict(q))
    BY <1>4 DEF FetchVerdict, Answers, Fetch
  <2> QED
    BY <1>1, <2>1, Answering
<1> QED
  BY <1>3, <1>4

\* After the checks the request is answered, or they all passed.
LEMMA Checking ==
  ASSUME NEW w \in Workers, BaseInv, Check(w)
  PROVE  /\ SameOrder(w) /\ request[w] \in Request /\ clock' \in Nat
         /\ request[w].op = "modify" => request[w].phase = "fetched"
         /\ \/ request'[w].phase = "answered"
            \/ request'[w].phase = "checked" /\ Verdict(request[w]) = "accepted"
PROOF
<1> DEFINE q == request[w]
<1>1. q \in Request /\ TypeOK /\ request[w] # None /\ clock + 1 \in Nat
      /\ (q.op = "modify" => q.phase = "fetched")
  BY DEF BaseInv, TypeOK, Check, Serving
<1>2. CASE Verdict(q) = "accepted"
  <2>1. clock' = clock + 1
        /\ request' = [request EXCEPT ![w] = [q EXCEPT !.phase = "checked",
                                                       !.at = clock + 1]]
    BY <1>1, <1>2 DEF Check, TypeOK, Request
  <2>2. [q EXCEPT !.phase = "checked", !.at = clock + 1] \in Request
    BY <1>1 DEF Request
  <2>3. SameOrder(w)
    BY <1>1, <2>1, <2>2 DEF SameOrder, TypeOK, Request
  <2> QED
    BY <1>1, <1>2, <2>1, <2>3 DEF TypeOK, Request
<1>3. CASE Verdict(q) # "accepted"
  <2>1. Verdict(q) \in Answers
    BY <1>1, <1>3, VerdictsAnswer DEF Request
  <2>2. Answer(w, Verdict(q)) /\ clock' = clock
    BY <1>3 DEF Check
  <2> QED
    BY <1>1, <2>1, <2>2, Answering DEF TypeOK
<1> QED
  BY <1>2, <1>3

\* A commit or a loss answers the request; a commit had passed its checks.
LEMMA Committing ==
  ASSUME NEW w \in Workers, BaseInv, Commit(w) \/ Lose(w)
  PROVE  /\ SameOrder(w) /\ request'[w].phase = "answered"
         /\ request[w] # None /\ request[w] \in Request
         /\ Commit(w) => request[w].phase = "checked"
PROOF
<1>1. request[w] # None /\ TypeOK /\ request[w] \in Request
      /\ (Commit(w) => request[w].phase = "checked")
  BY DEF BaseInv, TypeOK, Commit, CommitCreate, CommitSnapshot, CommitDelete,
         CommitCreateAll, Lose, Serving
<1>2. Answer(w, "ok") \/ Answer(w, "conflict") \/ Answer(w, "lost")
  BY DEF Commit, CommitCreate, CommitSnapshot, CommitDelete, CommitCreateAll, Lose
<1> QED
  BY <1>1, <1>2, Answering DEF Answers

\* What a commit does to one resource: nothing, or it hands out the id, gives
\* the name of the request, or adds the delete lock.
NothingTo(r) ==
  kind'[r] = kind[r] /\ group'[r] = group[r] /\ latest'[r] = latest[r]
  /\ locks'[r] = locks[r]

Created(r, q) ==
  /\ r \notin Stored /\ q.op = "create"
  /\ kind'[r] = q.kind /\ group'[r] = q.group
  /\ latest'[r].name = q.name /\ latest'[r] \in Snapshot /\ locks'[r] = locks[r]

Builtin(r, q) ==
  /\ r \notin Stored /\ q.op = "create_all"
  /\ kind'[r] = ParameterType /\ group'[r] = q.group /\ locks'[r] = {"readonly"}
  /\ latest'[r] \in Snapshot /\ latest'[r].name \in BuiltinNames

Renamed(r, q) ==
  /\ r = q.target /\ q.op = "modify"
  /\ kind'[r] = kind[r] /\ group'[r] = group[r] /\ locks'[r] = locks[r]
  /\ latest'[r] \in Snapshot /\ latest'[r].name = q.name

Deleted(r, q) ==
  /\ r = q.target /\ q.op = "delete"
  /\ kind'[r] = kind[r] /\ group'[r] = group[r] /\ latest'[r] = latest[r]
  /\ locks'[r] = locks[r] \cup {"delete"}

SameShape ==
  /\ kind' \in [Resources -> Kinds \cup {None}]
  /\ group' \in [Resources -> Groups \cup {None}]
  /\ latest' \in [Resources -> Snapshot]
  /\ locks' \in [Resources -> SUBSET LockTypes]
  /\ builtins' \in {"none", "registering", "registered"}
  /\ clock' \in Nat /\ received' \in Nat

LEMMA CommitsByResource ==
  ASSUME NEW w \in Workers, BaseInv, Commit(w)
  PROVE  /\ SameShape
         /\ \A r \in Resources :
              LET q == request[w] IN
              NothingTo(r) \/ Created(r, q) \/ Builtin(r, q) \/ Renamed(r, q)
                           \/ Deleted(r, q)
PROOF
<1> DEFINE q == request[w]
<1>1. q \in Request /\ RequestOK(q) /\ TypeOK /\ q.phase = "checked"
  BY Committing DEF BaseInv
<1>2. CASE CommitCreate(w)
  <2>1. q.op = "create"
    BY <1>2 DEF CommitCreate
  <2>2. q.kind \in Kinds /\ q.group \in Groups /\ q.name \in Names /\ q.at \in Nat
    BY <1>1, <2>1 DEF RequestOK, Request
  <2>3. PICK s \in Resources \ Stored :
          /\ kind' = [kind EXCEPT ![s] = q.kind]
          /\ group' = [group EXCEPT ![s] = q.group]
          /\ latest' = [latest EXCEPT ![s] = [name |-> q.name, at |-> q.at]]
    BY <1>2 DEF CommitCreate
  <2>4. UNCHANGED <<locks, builtins, clock, received>>
    BY <1>2 DEF CommitCreate
  <2>5. [name |-> q.name, at |-> q.at] \in Snapshot
    BY <2>2 DEF Snapshot
  <2>6. SameShape
    BY <1>1, <2>2, <2>3, <2>4, <2>5 DEF SameShape, TypeOK
  <2>7. Created(s, q)
    BY <1>1, <2>1, <2>3, <2>4, <2>5 DEF Created, TypeOK
  <2>8. \A r \in Resources \ {s} : NothingTo(r)
    BY <1>1, <2>3, <2>4 DEF NothingTo, TypeOK
  <2> QED
    BY <2>6, <2>7, <2>8
<1>3. CASE CommitSnapshot(w)
  <2>1. q.op = "modify"
    BY <1>3 DEF CommitSnapshot
  <2>2. q.target \in Resources /\ q.name \in Names /\ q.at \in Nat
    BY <1>1, <2>1 DEF RequestOK, Request, Stored
  <2>3. UNCHANGED <<kind, group, locks, builtins, clock, received>>
    BY <1>3 DEF CommitSnapshot
  <2>4. [name |-> q.name, at |-> q.at] \in Snapshot
    BY <2>2 DEF Snapshot
  <2>5. \/ latest' = latest
        \/ latest' = [latest EXCEPT ![q.target] = [name |-> q.name, at |-> q.at]]
    BY <1>3 DEF CommitSnapshot
  <2>6. SameShape
    BY <1>1, <2>3, <2>4, <2>5 DEF SameShape, TypeOK
  <2>7. NothingTo(q.target) \/ Renamed(q.target, q)
    BY <1>1, <2>1, <2>2, <2>3, <2>4, <2>5 DEF NothingTo, Renamed, TypeOK
  <2>8. \A r \in Resources \ {q.target} : NothingTo(r)
    BY <1>1, <2>3, <2>5 DEF NothingTo, TypeOK
  <2> QED
    BY <2>6, <2>7, <2>8
<1>4. CASE CommitDelete(w)
  <2>1. q.op = "delete"
    BY <1>4 DEF CommitDelete
  <2>2. q.target \in Resources
    BY <1>1, <2>1 DEF RequestOK, Request, Stored
  <2>3. UNCHANGED <<kind, group, latest, builtins, clock, received>>
    BY <1>4 DEF CommitDelete
  <2>4. locks' = locks \/ locks' = [locks EXCEPT ![q.target] = @ \cup {"delete"}]
    BY <1>4 DEF CommitDelete
  <2>5. SameShape
    BY <1>1, <2>2, <2>3, <2>4 DEF SameShape, TypeOK, LockTypes
  <2>6. NothingTo(q.target) \/ Deleted(q.target, q)
    BY <1>1, <2>1, <2>2, <2>3, <2>4 DEF NothingTo, Deleted, TypeOK
  <2>7. \A r \in Resources \ {q.target} : NothingTo(r)
    BY <1>1, <2>3, <2>4 DEF NothingTo, TypeOK
  <2> QED
    BY <2>5, <2>6, <2>7
<1>5. CASE CommitCreateAll(w)
  <2>1. q.op = "create_all" /\ q.group \in Groups /\ q.at \in Nat
    BY <1>1, <1>5 DEF CommitCreateAll, RequestOK, Request
  <2>2. UNCHANGED <<clock, received>> /\ builtins' = "registered"
    BY <1>5 DEF CommitCreateAll
  <2>3. PICK new \in [BuiltinNames -> Resources \ Stored] :
          LET ids == {new[b] : b \in BuiltinNames}
              nameOf(r) == CHOOSE b \in BuiltinNames : new[b] = r
          IN /\ kind' = [r \in Resources |->
                           IF r \in ids THEN ParameterType ELSE kind[r]]
             /\ group' = [r \in Resources |-> IF r \in ids THEN q.group ELSE group[r]]
             /\ latest' = [r \in Resources |->
                             IF r \in ids THEN [name |-> nameOf(r), at |-> q.at]
                             ELSE latest[r]]
             /\ locks' = [r \in Resources |->
                            IF r \in ids THEN {"readonly"} ELSE locks[r]]
    BY <1>5 DEF CommitCreateAll
  <2> DEFINE ids == {new[b] : b \in BuiltinNames}
             nameOf(r) == CHOOSE b \in BuiltinNames : new[b] = r
  <2>4. \A r \in ids : r \in Resources \ Stored /\ nameOf(r) \in BuiltinNames
                       /\ new[nameOf(r)] = r
    OBVIOUS
  <2>5. \A r \in ids : [name |-> nameOf(r), at |-> q.at] \in Snapshot
    BY <2>1, <2>4, NamesAssumption DEF Snapshot
  <2>6. ParameterType \in Kinds
    BY KindsAssumption
  <2>7. /\ kind' = [r \in Resources |-> IF r \in ids THEN ParameterType ELSE kind[r]]
        /\ group' = [r \in Resources |-> IF r \in ids THEN q.group ELSE group[r]]
        /\ latest' = [r \in Resources |->
                        IF r \in ids THEN [name |-> nameOf(r), at |-> q.at]
                        ELSE latest[r]]
        /\ locks' = [r \in Resources |-> IF r \in ids THEN {"readonly"} ELSE locks[r]]
    BY <2>3
  <2> HIDE DEF ids, nameOf
  <2>8. SameShape
    BY <1>1, <2>1, <2>2, <2>5, <2>6, <2>7 DEF SameShape, TypeOK, LockTypes
  <2>9. \A r \in Resources : r \notin ids => NothingTo(r)
    BY <2>7 DEF NothingTo
  <2>10. \A r \in ids : Builtin(r, q)
    BY <2>1, <2>4, <2>5, <2>7 DEF Builtin
  <2> QED
    BY <2>8, <2>9, <2>10
<1> QED
  BY <1>2, <1>3, <1>4, <1>5 DEF Commit

\* Nothing stored is forgotten, given away or made of another type.
Kept(r) == r \in Stored' /\ kind'[r] = kind[r] /\ group'[r] = group[r]

LEMMA CommitsKeep ==
  ASSUME NEW w \in Workers, BaseInv, Commit(w)
  PROVE  StoredOK' /\ \A r \in Stored : Kept(r)
PROOF
<1> DEFINE q == request[w]
<1>1. q \in Request /\ RequestOK(q) /\ TypeOK /\ StoredOK
  BY Committing DEF BaseInv
<1>2. ASSUME NEW r \in Resources
      PROVE  NothingTo(r) \/ Created(r, q) \/ Builtin(r, q) \/ Renamed(r, q)
             \/ Deleted(r, q)
  BY CommitsByResource
<1>3. \A r \in Stored : Kept(r)
  BY <1>2 DEF Kept, Stored, NothingTo, Created, Builtin, Renamed, Deleted
<1>4. ASSUME NEW r \in Resources, kind'[r] # None
      PROVE  group'[r] \in Groups /\ latest'[r].name \in Names
  <2>1. CASE NothingTo(r) \/ Renamed(r, q) \/ Deleted(r, q)
    BY <1>1, <1>4, <2>1
    DEF NothingTo, Renamed, Deleted, StoredOK, Stored, RequestOK
  <2>2. CASE Created(r, q) \/ Builtin(r, q)
    BY <1>1, <2>2, NamesAssumption DEF Created, Builtin, RequestOK
  <2> QED
    BY <1>2, <2>1, <2>2
<1> QED
  BY <1>3, <1>4 DEF StoredOK, Stored

LEMMA BaseStep == BaseInv /\ [Next]_vars => BaseInv'
PROOF
<1> SUFFICES ASSUME BaseInv, [Next]_vars PROVE BaseInv'
  OBVIOUS
<1>1. TypeOK /\ StoredOK /\ \A v \in Workers : request[v] # None => RequestOK(request[v])
  BY DEF BaseInv
<1>2. CASE UNCHANGED vars
  BY <1>1, <1>2 DEF vars, BaseInv, TypeOK, StoredOK, Stored, RequestOK
<1>3. ASSUME NEW w \in Workers, Receive(w) PROVE BaseInv'
  <2>1. /\ UNCHANGED <<kind, group, latest, locks, clock>>
        /\ received' \in Nat /\ builtins' \in {"none", "registering", "registered"}
    BY <1>1, <1>3 DEF Receive, TypeOK
  <2>2. \A q : RequestOK(q) => RequestOK(q)'
    BY <2>1 DEF RequestOK, Stored
  <2>3. ASSUME NEW v \in Workers, request'[v] # None
        PROVE  RequestOK(request[v])'
    <3>1. RequestOK(request'[v])
      BY <1>1, <1>3, <2>3, Receiving
    <3> QED
      BY <2>1, <3>1 DEF RequestOK, Stored
  <2> QED
    BY <1>1, <1>3, <2>1, <2>3, Receiving DEF BaseInv, TypeOK, StoredOK, Stored
<1>4. ASSUME NEW w \in Workers, Fetch(w) \/ Check(w) \/ Lose(w) PROVE BaseInv'
  <2>1. SameOrder(w) /\ request[w] # None /\ clock' \in Nat
    BY <1>1, <1>4, Fetching, Checking, Committing
    DEF Fetch, Check, Lose, Serving, TypeOK
  <2>2. UNCHANGED <<database, received>>
    BY <1>4 DEF Fetch, Check, Lose
  <2>3. \A v \in Workers : request'[v] # None => RequestOK(request[v])'
    BY <2>1, <2>2, OrdersStayGood DEF database, Stored
  <2> QED
    BY <1>1, <2>1, <2>2, <2>3 DEF BaseInv, TypeOK, StoredOK, Stored, database, SameOrder
<1>5. ASSUME NEW w \in Workers, Commit(w) PROVE BaseInv'
  <2>1. SameOrder(w) /\ request[w] # None /\ SameShape /\ StoredOK'
        /\ \A r \in Stored : Kept(r)
    BY <1>5, Committing, CommitsByResource, CommitsKeep
  <2>2. \A v \in Workers : request'[v] # None => RequestOK(request[v])'
    BY <2>1, OrdersStayGood DEF Kept
  <2> QED
    BY <2>1, <2>2 DEF BaseInv, TypeOK, SameShape, SameOrder
<1> QED
  BY <1>2, <1>3, <1>4, <1>5 DEF Next

\* What is stored and what is being served stay well formed.
THEOREM BaseCorrect == Spec => []BaseInv
BY BaseInit, BaseStep, PTL DEF Spec


-----------------------------------------------------------------------------
(* Read-only resources                                                     *)

ReadonlyInv ==
  /\ \A r \in Resources : IsReadonly(r) => r \in Stored /\ kind[r] = ParameterType
  /\ \A w \in Workers :
        Serving(w, {"checked"}) /\ request[w].op \in {"modify", "delete"} =>
           ~IsReadonly(request[w].target)

\* The checks of a rename or a deletion turn a read-only resource away.
LEMMA ChecksRefuseReadonly ==
  ASSUME NEW w \in Workers, BaseInv, ReadonlyInv, request[w] # None,
         request[w].op \in {"modify", "delete"}, Verdict(request[w]) = "accepted"
  PROVE  ~IsReadonly(request[w].target)
PROOF
<1> DEFINE q == request[w]
<1>1. q.target \in Stored /\ q.target \in Resources /\ q.kind = kind[q.target]
  BY DEF BaseInv, RequestOK, Stored
<1> SUFFICES ASSUME IsReadonly(q.target) PROVE FALSE
  OBVIOUS
<1>2. q.kind \in RepositoryKinds
  BY <1>1 DEF ReadonlyInv, RepositoryKinds, ParameterType
<1>3. ResourceExists(q.target) # "EXISTS"
  BY DEF ResourceExists, IsReadonly, IsDeleted
<1>4. CASE q.op = "modify"
  <2>1. SnapshotVerdict(q) = "accepted"
    BY <1>2, <1>4 DEF Verdict
  <2> QED
    BY <1>3, <2>1 DEF SnapshotVerdict, ResourceExists
<1>5. CASE q.op = "delete"
  <2>1. DeleteResourceVerdict(q) = "accepted"
    BY <1>2, <1>5 DEF Verdict
  <2> QED
    BY <1>3, <2>1 DEF DeleteResourceVerdict, ResourceExists
<1> QED
  BY <1>4, <1>5

LEMMA ReadonlyInit == Init => ReadonlyInv
BY DEF Init, ReadonlyInv, IsReadonly, Serving

LEMMA ReadonlyStep == BaseInv /\ ReadonlyInv /\ [Next]_vars => ReadonlyInv'
PROOF
<1> SUFFICES ASSUME BaseInv, ReadonlyInv, [Next]_vars PROVE ReadonlyInv'
  OBVIOUS
<1>0. TypeOK /\ \A v \in Workers : request[v] # None => RequestOK(request[v])
  BY DEF BaseInv
<1>1. CASE UNCHANGED vars
  BY <1>1 DEF vars, ReadonlyInv, IsReadonly, Stored, Serving
<1>2. ASSUME NEW w \in Workers, Receive(w) PROVE ReadonlyInv'
  <2>1. UNCHANGED <<kind, locks>>
    BY <1>2 DEF Receive
  <2>2. request'[w].phase = "received"
        /\ \A v \in Workers \ {w} : request'[v] = request[v]
    BY <1>2, Receiving
  <2> QED
    BY <2>1, <2>2 DEF ReadonlyInv, IsReadonly, Stored, Serving
<1>3. ASSUME NEW w \in Workers, Fetch(w) \/ Check(w) \/ Lose(w) PROVE ReadonlyInv'
  <2>1. UNCHANGED <<kind, locks>>
    BY <1>3 DEF Fetch, Check, Lose, database
  <2>2. SameOrder(w)
    BY <1>3, Fetching, Checking, Committing
  <2>3. request'[w].phase = "checked" =>
           request[w] # None /\ Verdict(request[w]) = "accepted"
    BY <1>0, <1>3, Fetching, Checking, Committing DEF Check, Serving
  <2>4. request'[w].phase = "checked" /\ request[w].op \in {"modify", "delete"} =>
           ~IsReadonly(request[w].target)
    BY <2>3, ChecksRefuseReadonly
  <2> QED
    BY <2>1, <2>2, <2>4 DEF ReadonlyInv, IsReadonly, Stored, Serving, SameOrder
<1>4. ASSUME NEW w \in Workers, Commit(w) PROVE ReadonlyInv'
  <2> DEFINE q == request[w]
  <2>1. /\ SameOrder(w) /\ request'[w].phase = "answered" /\ SameShape
        /\ \A r \in Stored : Kept(r)
    BY <1>4, Committing, CommitsByResource, CommitsKeep
  <2>2. ASSUME NEW r \in Resources
        PROVE  NothingTo(r) \/ Created(r, q) \/ Builtin(r, q) \/ Renamed(r, q)
               \/ Deleted(r, q)
    BY <1>4, CommitsByResource
  <2>3. \A r \in Resources : IsReadonly(r)' => IsReadonly(r) \/ r \notin Stored
    BY <2>2 DEF NothingTo, Created, Builtin, Renamed, Deleted, IsReadonly
  <2>4. ASSUME NEW r \in Resources, IsReadonly(r)'
        PROVE  r \in Stored' /\ kind'[r] = ParameterType
    <3>1. CASE IsReadonly(r)
      BY <2>1, <3>1 DEF ReadonlyInv, Kept
    <3>2. CASE r \notin Stored
      <4>1. Builtin(r, q)
        BY <1>0, <2>2, <2>4, <3>2 DEF ReadonlyInv, NothingTo, Created, Renamed, Deleted,
                            Builtin, IsReadonly
      <4> QED
        BY <4>1, KindsAssumption, NoneAssumption DEF Builtin, Stored
    <3> QED
      BY <2>3, <2>4, <3>1, <3>2
  <2>5. ASSUME NEW v \in Workers, Serving(v, {"checked"})',
               request'[v].op \in {"modify", "delete"}
        PROVE  ~IsReadonly(request[v].target)'
    <3>1. request'[v] = request[v] /\ Serving(v, {"checked"})
      BY <2>1, <2>5 DEF Serving, SameOrder
    <3>2. request[v].target \in Stored /\ request[v].target \in Resources
          /\ ~IsReadonly(request[v].target)
      BY <1>0, <2>5, <3>1 DEF ReadonlyInv, RequestOK, Stored, Serving
    <3> QED
      BY <2>3, <3>1, <3>2 DEF IsReadonly
  <2> QED
    BY <2>4, <2>5 DEF ReadonlyInv
<1> QED
  BY <1>1, <1>2, <1>3, <1>4 DEF Next

\* A read-only resource is never renamed nor deleted, whatever the number of
\* workers: its lock is stored with it, and every check of a parameter type
\* turns it away.
THEOREM ReadonlyResourcesKept == Spec => ReadonlyKept
PROOF
<1> DEFINE Same == \A r \in Resources : IsReadonly(r) =>
                      latest'[r] = latest[r] /\ locks'[r] = locks[r]
<1>1. BaseInv /\ ReadonlyInv /\ [Next]_vars => [Same]_vars
  <2> SUFFICES ASSUME BaseInv, ReadonlyInv, Next, NEW r \in Resources, IsReadonly(r)
               PROVE  latest'[r] = latest[r] /\ locks'[r] = locks[r]
    OBVIOUS
  <2>1. ASSUME NEW w \in Workers, Receive(w) \/ Fetch(w) \/ Check(w) \/ Lose(w)
        PROVE  UNCHANGED <<latest, locks>>
    BY <2>1 DEF Receive, Fetch, Check, Lose, database
  <2>2. ASSUME NEW w \in Workers, Commit(w)
        PROVE  NothingTo(r)
    <3>1. request[w] # None /\ request[w].phase = "checked" /\ r \in Stored
      BY <2>2, Committing DEF ReadonlyInv
    <3>2. request[w].op \in {"modify", "delete"} => request[w].target # r
      BY <3>1 DEF ReadonlyInv, Serving
    <3> QED
      BY <2>2, <3>1, <3>2, CommitsByResource DEF Created, Builtin, Renamed, Deleted
  <2> QED
    BY <2>1, <2>2 DEF Next, NothingTo
<1> QED
  BY <1>1, BaseInit, BaseStep, ReadonlyInit, ReadonlyStep, PTL DEF Spec, ReadonlyKept

-----------------------------------------------------------------------------
(* The built-in parameter types                                            *)

\* The resource has, or the request asks for, a parameter type whose name
\* reads as a built-in one.
ReadsBuiltin(k, n) == k = ParameterType /\ n \in Names /\ Normal[n] \in BuiltinNames
Holder(r) == r \in Stored /\ ReadsBuiltin(kind[r], latest[r].name)

Asking(w) == Serving(w, {"received", "fetched", "checked"})
             /\ request[w].op = "create_all"

\* The one holder of a built-in name.
Sole(b, r) ==
  /\ Holder(r) /\ group[r] = DefaultGroup /\ ~IsDeleted(r) /\ latest[r].name = b
  /\ \A s \in Resources : Holder(s) /\ Normal[latest[s].name] = b => s = r

\* No request that passed its checks writes a built-in name but the one that
\* creates them all, of which there is at most one, and only before the types
\* are registered.  Until then no resource reads as one, and from then on each
\* name has one holder, read-only and so never touched again.
BuiltinsInv ==
  /\ \A w \in Workers :
        Serving(w, {"checked"}) /\ request[w].op \in {"create", "modify"} =>
           ~ReadsBuiltin(request[w].kind, request[w].name)
  /\ \A w \in Workers :
        Asking(w) => builtins = "registering" /\ request[w].group = DefaultGroup
  /\ \A v, w \in Workers : Asking(v) /\ Asking(w) => v = w
  /\ builtins # "registered" => \A r \in Resources : ~Holder(r)
  /\ \A r \in Resources : Holder(r) => IsReadonly(r)
  /\ builtins = "registered" =>
        \A b \in BuiltinNames : \E r \in Resources : Sole(b, r)

LEMMA BuiltinsInit == Init => BuiltinsInv
BY NoneAssumption
DEF Init, BuiltinsInv, Serving, Asking, Holder, Stored, ReadsBuiltin

\* A create or a rename that passed its checks does not read as built-in.
LEMMA ChecksRefuseBuiltins ==
  ASSUME NEW w \in Workers, BaseInv, request[w] # None,
         request[w].op \in {"create", "modify"}, Verdict(request[w]) = "accepted"
  PROVE  ~ReadsBuiltin(request[w].kind, request[w].name)
PROOF
<1> DEFINE q == request[w]
<1> SUFFICES ASSUME q.kind = ParameterType, Normal[q.name] \in BuiltinNames
             PROVE  FALSE
  BY DEF ReadsBuiltin
<1>1. q.kind \in RepositoryKinds
  BY DEF RepositoryKinds, ParameterType
<1>2. CASE q.op = "create"
  <2>1. CreateVerdict(q) = "accepted"
    BY <1>2 DEF Verdict
  <2> QED
    BY <2>1 DEF CreateVerdict
<1>3. CASE q.op = "modify"
  <2>1. SnapshotVerdict(q) = "accepted"
    BY <1>1, <1>3 DEF Verdict
  <2> QED
    BY <2>1 DEF SnapshotVerdict
<1> QED
  BY <1>2, <1>3

\* A step that leaves the resources alone keeps what is said of them.
LEMMA HoldersStay ==
  ASSUME UNCHANGED <<kind, group, latest, locks>>
  PROVE  /\ \A r \in Resources : Holder(r)' <=> Holder(r)
         /\ \A r \in Resources : IsReadonly(r)' <=> IsReadonly(r)
         /\ \A b \in BuiltinNames, r \in Resources : Sole(b, r) => Sole(b, r)'
BY DEF Holder, Stored, IsReadonly, IsDeleted, Sole

\* The commit of another request than create_all makes no holder and touches
\* none.
LEMMA OtherCommits ==
  ASSUME NEW w \in Workers, BaseInv, ReadonlyInv, BuiltinsInv, Commit(w),
         request[w].op # "create_all"
  PROVE  /\ UNCHANGED builtins
         /\ \A r \in Resources : Holder(r) => NothingTo(r)
         /\ \A r \in Resources : Holder(r)' => Holder(r)
PROOF
<1> DEFINE q == request[w]
<1>1. q \in Request /\ RequestOK(q) /\ TypeOK /\ Serving(w, {"checked"})
  BY Committing DEF BaseInv, Serving
<1>2. UNCHANGED builtins
  BY DEF Commit, CommitCreate, CommitSnapshot, CommitDelete, CommitCreateAll
<1>3. ASSUME NEW r \in Resources
      PROVE  NothingTo(r) \/ Created(r, q) \/ Renamed(r, q) \/ Deleted(r, q)
  BY CommitsByResource DEF Builtin
<1>4. ASSUME NEW r \in Resources, Holder(r) PROVE NothingTo(r)
  <2>1. IsReadonly(r) /\ r \in Stored
    BY <1>4 DEF BuiltinsInv, Holder
  <2>2. q.op \in {"modify", "delete"} => q.target # r
    BY <1>1, <2>1 DEF ReadonlyInv
  <2> QED
    BY <1>3, <2>1, <2>2 DEF Created, Renamed, Deleted
<1>5. ASSUME NEW r \in Resources, Holder(r)' PROVE Holder(r)
  <2>1. CASE NothingTo(r) \/ Deleted(r, q)
    BY <1>5, <2>1 DEF NothingTo, Deleted, Holder, Stored
  <2>2. CASE Created(r, q)
    <3>1. ~ReadsBuiltin(q.kind, q.name)
      BY <1>1, <2>2 DEF BuiltinsInv, Created
    <3> QED
      BY <1>5, <2>2, <3>1 DEF Created, Holder
  <2>3. CASE Renamed(r, q)
    <3>1. ~ReadsBuiltin(q.kind, q.name) /\ q.kind = kind[r]
      BY <1>1, <2>3 DEF BuiltinsInv, Renamed, RequestOK
    <3> QED
      BY <1>5, <2>3, <3>1 DEF Renamed, Holder
  <2> QED
    BY <1>3, <2>1, <2>2, <2>3
<1> QED
  BY <1>2, <1>4, <1>5

\* The commit of create_all, while nothing reads as built-in, gives each
\* built-in name its holder.
LEMMA BuiltinsCommitted ==
  ASSUME NEW w \in Workers, BaseInv, CommitCreateAll(w),
         request[w].group = DefaultGroup, \A r \in Resources : ~Holder(r)
  PROVE  /\ \A r \in Resources : Holder(r)' => IsReadonly(r)'
         /\ \A b \in BuiltinNames : \E r \in Resources : Sole(b, r)'
PROOF
<1> DEFINE q == request[w]
<1>1. PICK new \in [BuiltinNames -> Resources \ Stored] :
        /\ \A b, c \in BuiltinNames : new[b] = new[c] => b = c
        /\ LET ids == {new[b] : b \in BuiltinNames}
               nameOf(r) == CHOOSE b \in BuiltinNames : new[b] = r
           IN /\ kind' = [r \in Resources |->
                            IF r \in ids THEN ParameterType ELSE kind[r]]
              /\ group' = [r \in Resources |-> IF r \in ids THEN q.group ELSE group[r]]
              /\ latest' = [r \in Resources |->
                              IF r \in ids THEN [name |-> nameOf(r), at |-> q.at]
                              ELSE latest[r]]
              /\ locks' = [r \in Resources |->
                             IF r \in ids THEN {"readonly"} ELSE locks[r]]
  BY DEF CommitCreateAll
<1> DEFINE ids == {new[b] : b \in BuiltinNames}
           nameOf(r) == CHOOSE b \in BuiltinNames : new[b] = r
<1>2. \A r \in ids : r \in Resources /\ nameOf(r) \in BuiltinNames /\ new[nameOf(r)] = r
  OBVIOUS
<1>3. \A b \in BuiltinNames : new[b] \in ids /\ nameOf(new[b]) = b
  BY <1>1
<1>4. /\ kind' = [r \in Resources |-> IF r \in ids THEN ParameterType ELSE kind[r]]
      /\ group' = [r \in Resources |-> IF r \in ids THEN q.group ELSE group[r]]
      /\ latest' = [r \in Resources |->
                      IF r \in ids THEN [name |-> nameOf(r), at |-> q.at]
                      ELSE latest[r]]
      /\ locks' = [r \in Resources |-> IF r \in ids THEN {"readonly"} ELSE locks[r]]
  BY <1>1
<1> HIDE DEF ids, nameOf
<1>5. ParameterType # None /\ ParameterType \in Kinds
  BY KindsAssumption, NoneAssumption
<1>6. ASSUME NEW r \in ids
      PROVE  /\ Holder(r)' /\ group'[r] = DefaultGroup /\ locks'[r] = {"readonly"}
             /\ latest'[r].name = nameOf(r)
  BY <1>2, <1>4, <1>5, NamesAssumption DEF Holder, Stored, ReadsBuiltin
<1>7. ASSUME NEW r \in Resources, Holder(r)' PROVE r \in ids
  <2> SUFFICES ASSUME r \notin ids PROVE Holder(r)
    OBVIOUS
  <2> QED
    BY <1>4, <1>7 DEF Holder, Stored
<1>8. ASSUME NEW b \in BuiltinNames PROVE Sole(b, new[b])'
  <2>1. new[b] \in ids /\ nameOf(new[b]) = b
    BY <1>3
  <2>2. ASSUME NEW s \in Resources, Holder(s)', Normal[latest'[s].name] = b
        PROVE  s = new[b]
    <3>1. s \in ids /\ latest'[s].name = nameOf(s)
      BY <1>6, <1>7, <2>2
    <3>2. nameOf(s) = b
      BY <1>2, <2>2, <3>1, NamesAssumption
    <3> QED
      BY <1>2, <3>1, <3>2
  <2> QED
    BY <1>6, <2>1, <2>2 DEF Sole, IsDeleted
<1>9. \A b \in BuiltinNames : new[b] \in Resources
  OBVIOUS
<1> QED
  BY <1>6, <1>7, <1>8, <1>9 DEF IsReadonly

\* Steps that commit nothing: the request that moves keeps what it asks for,
\* and passes its checks only with a name that does not read as built-in.
LEMMA MovesKeepBuiltins ==
  ASSUME NEW w \in Workers, BaseInv, BuiltinsInv, SameOrder(w),
         UNCHANGED <<kind, group, latest, locks, builtins>>,
         Asking(w)' => Asking(w),
         Serving(w, {"checked"})' /\ request[w].op \in {"create", "modify"} =>
           ~ReadsBuiltin(request[w].kind, request[w].name)
  PROVE  BuiltinsInv'
PROOF
<1>1. \A v \in Workers : Asking(v)' => Asking(v) /\ request'[v].group = request[v].group
  BY DEF SameOrder, Asking, Serving
<1>2. \A v \in Workers :
        Serving(v, {"checked"})' /\ request'[v].op \in {"create", "modify"} =>
          ~ReadsBuiltin(request'[v].kind, request'[v].name)
  BY DEF SameOrder, Serving, BuiltinsInv
<1>3. /\ \A r \in Resources : Holder(r)' <=> Holder(r)
      /\ \A r \in Resources : IsReadonly(r)' <=> IsReadonly(r)
      /\ \A b \in BuiltinNames, r \in Resources : Sole(b, r) => Sole(b, r)'
  BY HoldersStay
<1> QED
  BY <1>1, <1>2, <1>3 DEF BuiltinsInv, ReadsBuiltin

LEMMA BuiltinsStep == BaseInv /\ ReadonlyInv /\ BuiltinsInv /\ [Next]_vars => BuiltinsInv'
PROOF
<1> SUFFICES ASSUME BaseInv, ReadonlyInv, BuiltinsInv, [Next]_vars PROVE BuiltinsInv'
  OBVIOUS
<1>0. TypeOK
  BY DEF BaseInv
<1>1. CASE UNCHANGED vars
  <2>1. UNCHANGED <<kind, group, latest, locks, builtins, request>>
    BY <1>1 DEF vars
  <2> QED
    BY <2>1, HoldersStay DEF BuiltinsInv, Asking, Serving, ReadsBuiltin
<1>2. ASSUME NEW w \in Workers, Receive(w) PROVE BuiltinsInv'
  <2>1. UNCHANGED <<kind, group, latest, locks>>
    BY <1>2 DEF Receive
  <2>2. request'[w].phase = "received"
        /\ \A v \in Workers \ {w} : request'[v] = request[v]
    BY <1>2, Receiving
  <2>3. CASE builtins = "none"
    <3>1. builtins' = "registering"
          /\ request' = [request EXCEPT ![w] = CreateAllRequest]
      BY <1>2, <2>3 DEF Receive, Serve
    <3>2. request'[w].group = DefaultGroup
      BY <1>0, <3>1 DEF TypeOK, CreateAllRequest, Order
    <3>3. \A v \in Workers : ~Asking(v)
      BY <2>3 DEF BuiltinsInv
    <3>4. \A v \in Workers : Asking(v)' => v = w
      BY <2>2, <3>3 DEF Asking, Serving
    <3>5. \A v \in Workers : ~(Serving(v, {"checked"})' /\ ~Serving(v, {"checked"}))
      BY <2>2 DEF Serving
    <3>6. \A v \in Workers : Serving(v, {"checked"})' => request'[v] = request[v]
      BY <2>2 DEF Serving
    <3> QED
      BY <2>1, <2>3, <3>1, <3>2, <3>4, <3>5, <3>6, HoldersStay DEF BuiltinsInv, ReadsBuiltin
  <2>4. CASE builtins # "none"
    <3>1. UNCHANGED builtins
      BY <1>2, <2>4 DEF Receive
    <3>2. request'[w].op # "create_all"
      BY <1>0, <1>2, <2>4
      DEF Receive, Serve, CreateRequest, ModifyRequest, DeleteRequest, Order, TypeOK
    <3>3. \A v \in Workers : Asking(v)' => Asking(v) /\ request'[v] = request[v]
      BY <2>2, <3>2 DEF Asking, Serving
    <3>4. \A v \in Workers :
            Serving(v, {"checked"})' => Serving(v, {"checked"}) /\ request'[v] = request[v]
      BY <2>2 DEF Serving
    <3> QED
      BY <2>1, <3>1, <3>3, <3>4, HoldersStay DEF BuiltinsInv, ReadsBuiltin
  <2> QED
    BY <2>3, <2>4
<1>3. ASSUME NEW w \in Workers, Fetch(w) \/ Check(w) \/ Lose(w) PROVE BuiltinsInv'
  <2>1. UNCHANGED <<kind, group, latest, locks, builtins>> /\ SameOrder(w)
    BY <1>3, Fetching, Checking, Committing DEF Fetch, Check, Lose, database
  <2>2. Serving(w, {"received", "fetched", "checked"})
    BY <1>3 DEF Fetch, Check, Lose, Serving
  <2>3. Asking(w)' => Asking(w)
    BY <2>1, <2>2 DEF Asking, SameOrder
  <2>4. request'[w].phase = "checked" => Verdict(request[w]) = "accepted"
    BY <1>3, Fetching, Checking, Committing
  <2>5. Serving(w, {"checked"})' /\ request[w].op \in {"create", "modify"} =>
          ~ReadsBuiltin(request[w].kind, request[w].name)
    BY <2>2, <2>4, ChecksRefuseBuiltins DEF Serving
  <2> QED
    BY <2>1, <2>3, <2>5, MovesKeepBuiltins
<1>4. ASSUME NEW w \in Workers, Commit(w) PROVE BuiltinsInv'
  <2>1. SameOrder(w) /\ request'[w].phase = "answered" /\ Serving(w, {"checked"})
    BY <1>4, Committing DEF Serving
  <2>2. \A v \in Workers : Asking(v)' => v # w /\ Asking(v) /\ request'[v] = request[v]
    BY <2>1 DEF SameOrder, Asking, Serving
  <2>3. \A v \in Workers :
          Serving(v, {"checked"})' => Serving(v, {"checked"}) /\ request'[v] = request[v]
    BY <2>1 DEF SameOrder, Serving
  <2>4. CASE request[w].op # "create_all"
    <3>1. /\ UNCHANGED builtins
          /\ \A r \in Resources : Holder(r) => NothingTo(r)
          /\ \A r \in Resources : Holder(r)' => Holder(r)
      BY <1>4, <2>4, OtherCommits
    <3>2. \A r \in Resources : Holder(r)' => IsReadonly(r)'
      BY <3>1 DEF BuiltinsInv, NothingTo, IsReadonly
    <3>3. ASSUME NEW b \in BuiltinNames, NEW r \in Resources, Sole(b, r)
          PROVE  Sole(b, r)'
      <4>1. \A s \in Resources : Holder(s)' => Holder(s) /\ latest'[s] = latest[s]
        BY <3>1 DEF NothingTo
      <4>2. NothingTo(r) /\ Holder(r)'
        BY <3>1, <3>3 DEF Sole, NothingTo, Holder, Stored
      <4> QED
        BY <3>3, <4>1, <4>2 DEF Sole, NothingTo, IsDeleted
    <3> QED
      BY <2>2, <2>3, <3>1, <3>2, <3>3 DEF BuiltinsInv, ReadsBuiltin
  <2>5. CASE request[w].op = "create_all"
    <3>1. Asking(w) /\ CommitCreateAll(w)
      BY <1>4, <2>1, <2>5
      DEF Asking, Serving, Commit, CommitCreate, CommitSnapshot, CommitDelete
    <3>2. builtins = "registering" /\ request[w].group = DefaultGroup
      BY <3>1 DEF BuiltinsInv
    <3>3. \A r \in Resources : ~Holder(r)
      BY <3>2 DEF BuiltinsInv
    <3>4. /\ \A r \in Resources : Holder(r)' => IsReadonly(r)'
          /\ \A b \in BuiltinNames : \E r \in Resources : Sole(b, r)'
      BY <3>1, <3>2, <3>3, BuiltinsCommitted
    <3>5. \A v \in Workers : ~Asking(v)'
      BY <2>2, <3>1 DEF BuiltinsInv
    <3>6. builtins' = "registered"
      BY <3>1 DEF CommitCreateAll
    <3> QED
      BY <2>3, <3>4, <3>5, <3>6 DEF BuiltinsInv, ReadsBuiltin
  <2> QED
    BY <2>4, <2>5
<1> QED
  BY <1>1, <1>2, <1>3, <1>4 DEF Next

\* Once registered, every built-in type is found by its name and no other type
\* of its group reads as one, however many workers overlap.
THEOREM BuiltinsStayComplete == Spec => []BuiltinsComplete
PROOF
<1>1. BaseInv /\ BuiltinsInv => BuiltinsComplete
  <2> SUFFICES ASSUME BaseInv, BuiltinsInv, builtins = "registered"
               PROVE  /\ \A r \in BuiltinHolders : IsReadonly(r)
                      /\ \A b \in BuiltinNames : \E r \in BuiltinHolders :
                            /\ latest[r].name = b
                            /\ \A s \in BuiltinHolders :
                                  Normal[latest[s].name] = b => s = r
    BY DEF BuiltinsComplete
  <2>1. ASSUME NEW r \in BuiltinHolders PROVE r \in Resources /\ Holder(r)
    BY DEF BuiltinHolders, Live, Stored, BaseInv, StoredOK, Holder, ReadsBuiltin
  <2>2. ASSUME NEW b \in BuiltinNames
        PROVE  \E r \in BuiltinHolders :
                 /\ latest[r].name = b
                 /\ \A s \in BuiltinHolders : Normal[latest[s].name] = b => s = r
    <3>1. PICK r \in Resources : Sole(b, r)
      BY DEF BuiltinsInv
    <3>2. r \in BuiltinHolders
      BY <3>1 DEF Sole, Holder, ReadsBuiltin, BuiltinHolders, Live
    <3> QED
      BY <2>1, <3>1, <3>2 DEF Sole
  <2> QED
    BY <2>1, <2>2 DEF BuiltinsInv
<1> QED
  BY <1>1, BaseInit, BaseStep, ReadonlyInit, ReadonlyStep, BuiltinsInit, BuiltinsStep, PTL
  DEF Spec


-----------------------------------------------------------------------------
(* One worker: a free name stays free                                      *)

OneWorker == \A v, w \in Workers : v = w

\* A live resource holds the name.
Holds(s, k, g, n) == s \in Live /\ kind[s] = k /\ group[s] = g /\ latest[s].name = n

\* What the checks of a request found still holds when it commits.
Ready(q) ==
  /\ q.op = "create" => \A s \in Live : ~Holds(s, q.kind, q.group, q.name)
  /\ q.op = "modify" =>
        /\ q.target \in Live
        /\ \A s \in Live \ {q.target} : ~Holds(s, q.kind, q.group, q.name)
  /\ q.op = "create_all" =>
        \A b \in BuiltinNames, s \in Live : ~Holds(s, ParameterType, q.group, b)

\* A rename that read its resource has seen its present name.
Fetched(q) == q.target \in Live /\ q.seen = latest[q.target].name

DirectoryInv ==
  /\ NamesUnique
  /\ \A w \in Workers :
        /\ Serving(w, {"fetched"}) => Fetched(request[w])
        /\ Serving(w, {"checked"}) => Ready(request[w])

\* A name that no other resource holds is free.
LEMMA Untaken ==
  ASSUME NEW k, NEW g, NEW n, NEW r, ~NameTaken(k, g, n, r)
  PROVE  \A s \in Live \ {r} : ~Holds(s, k, g, n)
BY DEF NameTaken, Holds

\* The checks make a request ready.
LEMMA ChecksMakeReady ==
  ASSUME NEW w \in Workers, BaseInv, DirectoryInv, request[w] # None,
         request[w].op = "modify" => request[w].phase = "fetched",
         Verdict(request[w]) = "accepted"
  PROVE  Ready(request[w])
PROOF
<1> DEFINE q == request[w]
<1>1. TypeOK /\ RequestOK(q) /\ NamesUnique
  BY DEF BaseInv, DirectoryInv
<1>2. \A s \in Live : s # None
  BY NoneAssumption DEF Live, Stored
<1>3. ASSUME q.op = "create" PROVE \A s \in Live : ~Holds(s, q.kind, q.group, q.name)
  <2>1. CreateVerdict(q) = "accepted"
    BY <1>3 DEF Verdict
  <2>2. ~NameTaken(q.kind, q.group, q.name, None)
    BY <2>1 DEF CreateVerdict
  <2> QED
    BY <1>2, <2>2, Untaken
<1>4. ASSUME q.op = "create_all"
      PROVE  \A b \in BuiltinNames, s \in Live : ~Holds(s, ParameterType, q.group, b)
  <2>1. CreateAllVerdict(q) = "accepted"
    BY <1>4 DEF Verdict
  <2>2. \A b \in BuiltinNames : ~NameTaken(ParameterType, q.group, b, None)
    BY <2>1 DEF CreateAllVerdict
  <2> QED
    BY <1>2, <2>2, Untaken
<1>5. ASSUME q.op = "modify"
      PROVE  /\ q.target \in Live
             /\ \A s \in Live \ {q.target} : ~Holds(s, q.kind, q.group, q.name)
  <2>1. Fetched(q)
    BY <1>5 DEF DirectoryInv, Serving
  <2>2. CASE q.kind \in RepositoryKinds
    <3>1. SnapshotVerdict(q) = "accepted"
      BY <1>5, <2>2 DEF Verdict
    <3>2. ~NameTaken(q.kind, q.group, q.name, q.target)
      BY <3>1 DEF SnapshotVerdict
    <3> QED
      BY <2>1, <3>2, Untaken DEF Fetched
  <2>3. CASE q.kind \notin RepositoryKinds
    <3>1. ServiceModifyVerdict(q) = "accepted"
      BY <1>5, <2>3 DEF Verdict
    <3>2. CASE q.name = q.seen
      BY <1>1, <1>5, <2>1, <3>2 DEF Fetched, NamesUnique, Holds, RequestOK
    <3>3. CASE q.name # q.seen
      <4>1. ~NameTaken(q.kind, q.group, q.name, None)
        BY <3>1, <3>3 DEF ServiceModifyVerdict
      <4> QED
        BY <1>2, <2>1, <4>1, Untaken DEF Fetched
    <3> QED
      BY <3>2, <3>3
  <2> QED
    BY <2>2, <2>3
<1> QED
  BY <1>3, <1>4, <1>5 DEF Ready

\* Two ids handed out by one commit get different names.
LEMMA CommitsApart ==
  ASSUME NEW w \in Workers, BaseInv, Commit(w),
         NEW r \in Resources \ Stored, NEW s \in Resources \ Stored,
         r \in Stored', s \in Stored', latest'[r].name = latest'[s].name
  PROVE  r = s
PROOF
<1>1. kind[r] = None /\ kind[s] = None /\ kind'[r] # None /\ kind'[s] # None /\ TypeOK
  BY DEF Stored, BaseInv
<1>2. CASE CommitCreate(w)
  BY <1>1, <1>2 DEF CommitCreate, TypeOK
<1>3. CASE CommitSnapshot(w) \/ CommitDelete(w)
  BY <1>1, <1>3 DEF CommitSnapshot, CommitDelete
<1>4. CASE CommitCreateAll(w)
  <2>1. PICK new \in [BuiltinNames -> Resources \ Stored] :
          LET ids == {new[b] : b \in BuiltinNames}
              nameOf(x) == CHOOSE b \in BuiltinNames : new[b] = x
          IN /\ kind' = [x \in Resources |->
                           IF x \in ids THEN ParameterType ELSE kind[x]]
             /\ latest' = [x \in Resources |->
                             IF x \in ids
                             THEN [name |-> nameOf(x), at |-> request[w].at]
                             ELSE latest[x]]
    BY <1>4 DEF CommitCreateAll
  <2> DEFINE ids == {new[b] : b \in BuiltinNames}
             nameOf(x) == CHOOSE b \in BuiltinNames : new[b] = x
  <2>2. r \in ids /\ s \in ids
    BY <1>1, <2>1
  <2>3. latest'[r].name = nameOf(r) /\ latest'[s].name = nameOf(s)
    BY <2>1, <2>2
  <2>4. new[nameOf(r)] = r /\ new[nameOf(s)] = s
    BY <2>2
  <2> QED
    BY <2>3, <2>4
<1> QED
  BY <1>2, <1>3, <1>4 DEF Commit

\* The commit of a ready request leaves the names apart.
LEMMA ReadyCommitsKeepNames ==
  ASSUME NEW w \in Workers, BaseInv, NamesUnique, Ready(request[w]), Commit(w)
  PROVE  NamesUnique'
PROOF
<1> DEFINE q == request[w]
<1>1. RequestOK(q) /\ TypeOK
  BY Committing DEF BaseInv
<1>2. ASSUME NEW r \in Resources
      PROVE  NothingTo(r) \/ Created(r, q) \/ Builtin(r, q) \/ Renamed(r, q)
             \/ Deleted(r, q)
  BY CommitsByResource
\* A resource that is live afterwards stayed as it was, or is the one renamed,
\* or has just been handed out.
<1> DEFINE Stays(r) == r \in Live /\ NothingTo(r)
           Moves(r) == r \in Live /\ Renamed(r, q)
           Enters(r) == r \in Resources \ Stored /\ (Created(r, q) \/ Builtin(r, q))
<1>3. ASSUME NEW r \in Live'
      PROVE  Stays(r) \/ Moves(r) \/ Enters(r)
  BY <1>2, <1>3 DEF Live, Stored, IsDeleted, NothingTo, Created, Builtin, Renamed, Deleted
<1>4. ASSUME NEW r \in Live', NEW s \in Live', Stays(r), Moves(s) \/ Enters(s),
             kind'[r] = kind'[s], group'[r] = group'[s],
             latest'[r].name = latest'[s].name
      PROVE  r = s
  <2> SUFFICES ASSUME r # s PROVE FALSE
    OBVIOUS
  <2>1. Holds(r, kind'[s], group'[s], latest'[s].name)
    BY <1>4 DEF Holds, NothingTo
  <2>2. CASE Moves(s)
    BY <1>1, <2>1, <2>2 DEF Ready, Renamed, RequestOK, Holds
  <2>3. CASE Enters(s)
    BY <2>1, <2>3 DEF Ready, Created, Builtin, Holds
  <2> QED
    BY <1>4, <2>2, <2>3
<1>5. ASSUME NEW r \in Live', NEW s \in Live', Enters(r), Enters(s),
             latest'[r].name = latest'[s].name
      PROVE  r = s
  <2>1. r \in Resources \ Stored /\ s \in Resources \ Stored
    BY <1>5
  <2>2. r \in Stored' /\ s \in Stored'
    BY <1>5 DEF Live
  <2> QED
    BY <1>5, <2>1, <2>2, CommitsApart
<1>6. ASSUME NEW r \in Live', NEW s \in Live', Moves(r), Moves(s) \/ Enters(s)
      PROVE  r = s
  BY <1>6 DEF Renamed, Created, Builtin
<1>7. ASSUME NEW r \in Live', NEW s \in Live', Stays(r), Stays(s),
             kind'[r] = kind'[s], group'[r] = group'[s],
             latest'[r].name = latest'[s].name
      PROVE  r = s
  BY <1>7 DEF NamesUnique, NothingTo
<1> HIDE DEF Stays, Moves, Enters
<1>8. \A r, s \in Live' : kind'[r] = kind'[s] /\ group'[r] = group'[s]
                         /\ latest'[r].name = latest'[s].name => r = s
  BY <1>3, <1>4, <1>5, <1>6, <1>7
<1> QED
  BY <1>8 DEF NamesUnique

LEMMA DirectoryInit == Init => DirectoryInv
BY DEF Init, DirectoryInv, NamesUnique, Live, Stored, Serving

LEMMA DirectoryStep ==
  ASSUME OneWorker
  PROVE  BaseInv /\ DirectoryInv /\ [Next]_vars => DirectoryInv'
PROOF
<1> SUFFICES ASSUME BaseInv, DirectoryInv, [Next]_vars PROVE DirectoryInv'
  OBVIOUS
<1>0. TypeOK
  BY DEF BaseInv
<1>1. CASE UNCHANGED vars
  BY <1>1 DEF vars, DirectoryInv, NamesUnique, Live, Stored, IsDeleted, Serving,
              Fetched, Ready, Holds
<1>2. ASSUME NEW w \in Workers, Receive(w) PROVE DirectoryInv'
  <2>1. UNCHANGED <<kind, group, latest, locks>>
    BY <1>2 DEF Receive
  <2>2. request'[w].phase = "received" /\ \A v \in Workers : v = w
    BY <1>2, Receiving DEF OneWorker
  <2> QED
    BY <2>1, <2>2 DEF DirectoryInv, NamesUnique, Live, Stored, IsDeleted, Serving
<1>3. ASSUME NEW w \in Workers, Fetch(w) \/ Check(w) \/ Lose(w) PROVE DirectoryInv'
  <2>1. UNCHANGED <<kind, group, latest, locks>> /\ SameOrder(w)
        /\ \A v \in Workers : v = w
    BY <1>3, Fetching, Checking, Committing DEF Fetch, Check, Lose, database, OneWorker
  <2>2. NamesUnique'
    BY <2>1 DEF DirectoryInv, NamesUnique, Live, Stored, IsDeleted
  <2>3. request'[w].phase = "fetched" => Fetched(request[w])'
    BY <1>3, <2>1, Fetching, Checking, Committing
    DEF Fetched, Live, Stored, IsDeleted, SameOrder
  <2>4. request'[w].phase = "checked" => Ready(request[w])
    BY <1>3, Fetching, Checking, Committing, ChecksMakeReady DEF Check, Serving
  <2>5. Ready(request[w]) => Ready(request[w])'
    BY <2>1 DEF SameOrder, Ready, Holds, Live, Stored, IsDeleted
  <2> QED
    BY <2>1, <2>2, <2>3, <2>4, <2>5 DEF DirectoryInv, Serving
<1>4. ASSUME NEW w \in Workers, Commit(w) PROVE DirectoryInv'
  <2>1. request[w] # None /\ request[w].phase = "checked"
        /\ request'[w].phase = "answered" /\ \A v \in Workers : v = w
    BY <1>4, Committing DEF OneWorker
  <2>2. NamesUnique'
    BY <1>4, <2>1, ReadyCommitsKeepNames DEF DirectoryInv, Serving
  <2> QED
    BY <2>1, <2>2 DEF DirectoryInv, Serving
<1> QED
  BY <1>1, <1>2, <1>3, <1>4 DEF Next

\* With one worker, a name leads to at most one live resource of a type and
\* group: what a request finds free nobody else can take before its commit.
THEOREM OneWorkerKeepsNamesUnique ==
  ASSUME OneWorker
  PROVE  Spec => []NamesUnique
PROOF
<1>1. BaseInv /\ DirectoryInv /\ [Next]_vars => DirectoryInv'
  BY DirectoryStep
<1>2. DirectoryInv => NamesUnique
  BY DEF DirectoryInv
<1> QED
  BY <1>1, <1>2, BaseInit, BaseStep, DirectoryInit, PTL DEF Spec


-----------------------------------------------------------------------------
(* One worker: the store is a directory of names                           *)

LEMMA EntriesTyped ==
  ASSUME BaseInv, NEW r \in Live
  PROVE  EntryOf(r) \in Directory!Entry
BY DEF BaseInv, TypeOK, StoredOK, Live, Stored, EntryOf, Directory!Entry

LEMMA EntriesUnambiguous ==
  ASSUME NamesUnique
  PROVE  Directory!Unambiguous(Entries)
BY DEF NamesUnique, Entries, EntryOf, Directory!Unambiguous, Directory!SameKey

\* What stays as it was keeps its entry.
LEMMA EntriesStay ==
  ASSUME NEW r \in Resources, NothingTo(r)
  PROVE  /\ (r \in Live') <=> (r \in Live)
         /\ EntryOf(r)' = EntryOf(r)
BY DEF NothingTo, Live, Stored, IsDeleted, EntryOf

\* Handing out ids registers them.
LEMMA CreationsRegister ==
  ASSUME BaseInv', NamesUnique', Live \subseteq Live',
         \A r \in Live : EntryOf(r)' = EntryOf(r),
         \A r \in Live' : r \in Live \/ r \notin Stored
  PROVE  Directory!Register
PROOF
<1>1. Entries \subseteq Entries'
  BY DEF Entries
<1>2. ASSUME NEW e \in Entries' \ Entries
      PROVE  e \in Directory!Entry /\ \A d \in Entries : d.id # e.id
  <2>1. PICK r \in Live' : e = EntryOf(r)'
    BY <1>2 DEF Entries
  <2>2. r \notin Stored
    BY <1>2, <2>1 DEF Entries
  <2>3. e.id = r /\ \A d \in Entries : d.id \in Stored
    BY <2>1 DEF EntryOf, Entries, Live
  <2>4. e \in Directory!Entry
    BY <2>1 DEF BaseInv, TypeOK, StoredOK, Live, Stored, EntryOf, Directory!Entry
  <2> QED
    BY <2>2, <2>3, <2>4
<1>3. Directory!Unambiguous(Entries')
  BY DEF NamesUnique, Entries, EntryOf, Directory!Unambiguous, Directory!SameKey
<1> QED
  BY <1>1, <1>2, <1>3 DEF Directory!Register

\* A snapshot under another name moves an entry.
LEMMA SnapshotsRename ==
  ASSUME BaseInv, BaseInv', NamesUnique', NEW t \in Live, Live' = Live,
         \A r \in Live \ {t} : EntryOf(r)' = EntryOf(r),
         kind'[t] = kind[t], group'[t] = group[t]
  PROVE  Directory!Rename
PROOF
<1> DEFINE n == latest'[t].name
           moved == (Entries \ {EntryOf(t)}) \cup {[EntryOf(t) EXCEPT !.name = n]}
<1>1. n \in Names /\ EntryOf(t) \in Entries
  BY DEF BaseInv, StoredOK, Live, Entries
<1>2. [EntryOf(t) EXCEPT !.name = n] = EntryOf(t)'
  BY DEF EntryOf
<1>3. \A r \in Live \ {t} : EntryOf(r) # EntryOf(t)
  BY DEF EntryOf
<1>4. Entries' = moved
  BY <1>2, <1>3 DEF Entries
<1>5. Directory!Unambiguous(Entries')
  BY DEF NamesUnique, Entries, EntryOf, Directory!Unambiguous, Directory!SameKey
<1> QED
  BY <1>1, <1>4, <1>5 DEF Directory!Rename

\* A delete lock removes an entry.
LEMMA LocksRemove ==
  ASSUME NEW t \in Live, Live' = Live \ {t},
         \A r \in Live \ {t} : EntryOf(r)' = EntryOf(r)
  PROVE  Directory!Remove
PROOF
<1>1. EntryOf(t) \in Entries /\ \A r \in Live \ {t} : EntryOf(r) # EntryOf(t)
  BY DEF Entries, EntryOf
<1>2. Entries' = Entries \ {EntryOf(t)}
  BY <1>1 DEF Entries
<1> QED
  BY <1>1, <1>2 DEF Directory!Remove

LEMMA StoreStepsAreDirectorySteps ==
  ASSUME BaseInv, BaseInv', DirectoryInv, NamesUnique', [Next]_vars
  PROVE  [Directory!Next]_Entries
PROOF
<1>1. CASE \A r \in Resources : NothingTo(r)
  <2>1. Live' = Live /\ \A r \in Live : EntryOf(r)' = EntryOf(r)
    BY <1>1, EntriesStay DEF Live, Stored
  <2> QED
    BY <2>1 DEF Entries
<1>2. ASSUME NEW w \in Workers, Commit(w) PROVE [Directory!Next]_Entries
  <2> DEFINE q == request[w]
  <2>1. /\ q \in Request /\ RequestOK(q) /\ TypeOK /\ Ready(q)
        /\ \A r \in Stored : Kept(r)
    BY <1>2, Committing, CommitsKeep DEF BaseInv, DirectoryInv, Serving
  <2>2. ASSUME NEW r \in Resources
        PROVE  NothingTo(r) \/ Created(r, q) \/ Builtin(r, q) \/ Renamed(r, q)
               \/ Deleted(r, q)
    BY <1>2, CommitsByResource
  <2>3. CASE q.op \in {"create", "create_all"}
    <3>1. \A r \in Stored : NothingTo(r)
      BY <2>2, <2>3 DEF Created, Builtin, Renamed, Deleted, Stored
    <3>2. \A r \in Live : r \in Live' /\ EntryOf(r)' = EntryOf(r)
      BY <3>1, EntriesStay DEF Live, Stored
    <3>3. \A r \in Live' : r \in Live \/ r \notin Stored
      BY <3>1, EntriesStay DEF Live, Stored
    <3>4. Directory!Register
      BY <3>2, <3>3, CreationsRegister
    <3> QED
      BY <3>4 DEF Directory!Next
  <2>4. CASE q.op = "modify"
    <3>1. \A r \in Resources \ {q.target} : NothingTo(r)
      BY <2>2, <2>4 DEF Created, Builtin, Renamed, Deleted
    <3>2. q.target \in Live /\ q.target \in Resources
      BY <2>1, <2>4 DEF Ready, Live, Stored
    <3>3. NothingTo(q.target) \/ Renamed(q.target, q)
      BY <2>2, <2>4, <3>2 DEF Created, Builtin, Deleted
    <3>4. (q.target \in Live') /\ kind'[q.target] = kind[q.target]
          /\ group'[q.target] = group[q.target]
      BY <3>2, <3>3 DEF NothingTo, Renamed, Live, Stored, IsDeleted
    <3>5. \A r \in Resources \ {q.target} :
             (r \in Live' <=> r \in Live) /\ EntryOf(r)' = EntryOf(r)
      BY <3>1, EntriesStay
    <3>6. Live' = Live
      BY <3>2, <3>4, <3>5 DEF Live, Stored
    <3>7. Directory!Rename
      BY <3>2, <3>4, <3>5, <3>6, SnapshotsRename DEF Live, Stored
    <3> QED
      BY <3>7 DEF Directory!Next
  <2>5. CASE q.op = "delete"
    <3>1. \A r \in Resources \ {q.target} : NothingTo(r)
      BY <2>2, <2>5 DEF Created, Builtin, Renamed, Deleted
    <3>2. q.target \in Resources
      BY <2>1, <2>5 DEF RequestOK, Stored
    <3>3. NothingTo(q.target) \/ Deleted(q.target, q)
      BY <2>2, <2>5, <3>2 DEF Created, Builtin, Renamed
    <3>4. CASE q.target \in Live /\ Deleted(q.target, q)
      <4>1. \A r \in Resources \ {q.target} :
               (r \in Live' <=> r \in Live) /\ EntryOf(r)' = EntryOf(r)
        BY <3>1, EntriesStay
      <4>2. q.target \notin Live'
        BY <3>4 DEF Deleted, Live, IsDeleted
      <4>3. Live' = Live \ {q.target}
        BY <4>1, <4>2 DEF Live, Stored
      <4>4. Directory!Remove
        BY <3>4, <4>1, <4>3, LocksRemove DEF Live, Stored
      <4> QED
        BY <4>4 DEF Directory!Next
    <3>5. CASE q.target \notin Live \/ NothingTo(q.target)
      <4>1. q.target \in Stored /\ (q.target \notin Live => IsDeleted(q.target))
        BY <2>1, <2>5 DEF RequestOK, Live
      <4>2. \A r \in Resources : NothingTo(r)
        BY <2>1, <3>1, <3>2, <3>3, <3>5, <4>1 DEF Deleted, NothingTo, IsDeleted
      <4> QED
        BY <1>1, <4>2
    <3> QED
      BY <3>3, <3>4, <3>5
  <2> QED
    BY <2>1, <2>3, <2>4, <2>5 DEF Request, Operations
<1>3. ASSUME NEW w \in Workers, Receive(w) \/ Fetch(w) \/ Check(w) \/ Lose(w)
      PROVE  \A r \in Resources : NothingTo(r)
  BY <1>3 DEF Receive, Fetch, Check, Lose, database, NothingTo
<1>4. CASE UNCHANGED vars
  BY <1>1, <1>4 DEF vars, NothingTo
<1> QED
  BY <1>1, <1>2, <1>3, <1>4 DEF Next

\* With one worker the store implements the directory of names: every commit
\* registers, renames or removes entries, and every other step changes none.
THEOREM OneWorkerImplementsDirectory ==
  ASSUME OneWorker
  PROVE  Spec => ImplementsDirectory
PROOF
<1>1. BaseInv /\ DirectoryInv /\ [Next]_vars => DirectoryInv'
  BY DirectoryStep
<1>2. Init => Directory!Init
  BY DEF Init, Directory!Init, Entries, Live, Stored
<1>3. BaseInv /\ BaseInv' /\ DirectoryInv /\ DirectoryInv' /\ [Next]_vars
      => [Directory!Next]_Entries
  BY StoreStepsAreDirectorySteps DEF DirectoryInv
<1> QED
  BY <1>1, <1>2, <1>3, BaseInit, BaseStep, DirectoryInit, PTL
  DEF Spec, ImplementsDirectory, Directory!Spec
-----------------------------------------------------------------------------
(* One worker: deleted resources                                           *)

\* Only what is stored is deleted.
DeletedWereStored == \A r \in Resources : IsDeleted(r) => r \in Stored

LEMMA DeletedWereStoredStep ==
  ASSUME BaseInv, DeletedWereStored, [Next]_vars
  PROVE  DeletedWereStored'
PROOF
<1>1. CASE UNCHANGED <<kind, group, latest, locks>>
  BY <1>1 DEF DeletedWereStored, IsDeleted, Stored
<1>2. ASSUME NEW w \in Workers, Commit(w) PROVE DeletedWereStored'
  <2> DEFINE q == request[w]
  <2>1. q \in Request /\ RequestOK(q) /\ \A r \in Stored : Kept(r)
    BY <1>2, Committing, CommitsKeep DEF BaseInv
  <2>2. ASSUME NEW r \in Resources, IsDeleted(r)' PROVE r \in Stored'
    <3>1. r \in Stored => r \in Stored'
      BY <2>1 DEF Kept
    <3>2. CASE IsDeleted(r)
      BY <3>1, <3>2 DEF DeletedWereStored
    <3>3. CASE ~IsDeleted(r) /\ Deleted(r, q)
      BY <2>1, <3>1, <3>3 DEF Deleted, RequestOK
    <3>4. CASE ~IsDeleted(r) /\ ~Deleted(r, q)
      <4>1. NothingTo(r) \/ Created(r, q) \/ Builtin(r, q) \/ Renamed(r, q)
        BY <1>2, <3>4, CommitsByResource
      <4> QED
        BY <2>2, <3>4, <4>1 DEF NothingTo, Created, Builtin, Renamed, IsDeleted
    <3> QED
      BY <3>2, <3>3, <3>4
  <2> QED
    BY <2>2 DEF DeletedWereStored
<1>3. ASSUME NEW w \in Workers, Receive(w) \/ Fetch(w) \/ Check(w) \/ Lose(w)
      PROVE  UNCHANGED <<kind, group, latest, locks>>
  BY <1>3 DEF Receive, Fetch, Check, Lose, database
<1> QED
  BY <1>1, <1>2, <1>3 DEF Next, vars

\* With one worker a deleted resource gets no further snapshot: a rename that
\* found its resource commits before a deletion can.
THEOREM OneWorkerKeepsTheDeleted ==
  ASSUME OneWorker
  PROVE  Spec => DeletedKept
PROOF
<1> DEFINE Same == \A r \in Resources : IsDeleted(r) => latest'[r] = latest[r]
<1>1. BaseInv /\ DirectoryInv /\ [Next]_vars => DirectoryInv'
  BY DirectoryStep
<1>2. Init => DeletedWereStored
  BY DEF Init, DeletedWereStored, IsDeleted
<1>3. BaseInv /\ DirectoryInv /\ DeletedWereStored /\ [Next]_vars => [Same]_vars
  <2> SUFFICES ASSUME BaseInv, DirectoryInv, DeletedWereStored, Next,
                      NEW r \in Resources, IsDeleted(r)
               PROVE  latest'[r] = latest[r]
    OBVIOUS
  <2>1. ASSUME NEW w \in Workers, Receive(w) \/ Fetch(w) \/ Check(w) \/ Lose(w)
        PROVE  latest' = latest
    BY <2>1 DEF Receive, Fetch, Check, Lose, database
  <2>2. ASSUME NEW w \in Workers, Commit(w)
        PROVE  latest'[r] = latest[r]
    <3> DEFINE q == request[w]
    <3>1. Ready(q) /\ r \in Stored /\ r \notin Live
      BY <2>2, Committing DEF DirectoryInv, Serving, DeletedWereStored, Live
    <3>2. ~Renamed(r, q)
      BY <3>1 DEF Ready, Renamed
    <3>3. NothingTo(r) \/ Deleted(r, q)
      BY <2>2, <3>1, <3>2, CommitsByResource DEF Created, Builtin
    <3> QED
      BY <3>3 DEF NothingTo, Deleted
  <2> QED
    BY <2>1, <2>2 DEF Next
<1> QED
  BY <1>1, <1>2, <1>3, DeletedWereStoredStep, BaseInit, BaseStep, DirectoryInit, PTL
  DEF Spec, DeletedKept
=============================================================================
