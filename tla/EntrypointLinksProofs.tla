----------------------- MODULE EntrypointLinksProofs ------------------------
(***************************************************************************)
(* Theorems about EntrypointLinks, for every value of its constants.       *)
(*                                                                         *)
(* LinksInv holds however requests overlap: snapshots pin one version per  *)
(* role and plugin, none newer than the plugin, and a request inserts only *)
(* links that it lists or pins.  Upon it, AloneInv speaks of the parents   *)
(* whose requests never overlapped: what a request loaded is still what is *)
(* linked when it commits, and its snapshot is newer than all others.      *)
(***************************************************************************)
EXTENDS EntrypointLinks, TLAPS

Parents == Experiments \cup Entrypoints
Rows(r, links) == {c \in Ids : <<r, c>> \in links}
AllListed(given) == {g.id : g \in given}

OnePin(pins) ==
  \A m, n \in pins : m.role = n.role /\ m.plugin = n.plugin => m = n
SnapshotOK(s, versions, now) ==
  /\ OnePin(s.pins)
  /\ \A n \in s.pins : n.version <= versions[n.plugin]
  /\ s.at <= now

\* No snapshot of the set is newer than s.
Newest(s, S) == s \in S /\ \A t \in S : t.at <= s.at

EntrypointOK(e) ==
  /\ snapshots[e] # {} <=> e \in created
  /\ snapshots[e] # {} => \E s \in snapshots[e] : Newest(s, snapshots[e])
  /\ \A s \in snapshots[e] : SnapshotOK(s, version, clock)

GivenOK(given) == \A g \in given :
  /\ g.role \in Roles => g.id \in Plugins
  /\ g.role = "queue" => g.id \in Queues
  /\ g.role = "entrypoint" => g.id \in Entrypoints

IsRun(given) == \E e \in Entrypoints, u \in Queues :
  given = {[role |-> "entrypoint", id |-> e], [role |-> "queue", id |-> u]}

\* What a request that waits for its commit is about to write.
BuiltOK(q, snaps, versions, now) ==
  IF q.op = "run"
  THEN q.built # None /\ \A e \in Listed(q.given, {"entrypoint"}) : q.built \in snaps[e]
  ELSE /\ q.op # "delete"
       /\ q.built # None <=> q.on \in Entrypoints /\ q.op \in Rewriting \cup {"create"}
       /\ q.built # None => SnapshotOK(q.built, versions, now)
       /\ \A c \in q.wanted \ q.loaded :
            \/ c \in AllListed(q.given)
            \/ q.built # None /\ c \in PinnedBy(q.built)

\* A request q, with the entrypoints, the plugins and the clock as they are.
RequestOK(q, made, snaps, versions, now) ==
  /\ GivenOK(q.given)
  /\ q.op = "run" => IsRun(q.given)
  /\ q.op \in Grouping \cup {"run"} => q.on \in Experiments
  /\ q.op \in Rewriting \cup Relinking => q.on \in Entrypoints
  /\ IF q.op = "create" THEN q.on \notin made ELSE q.on \in made
  /\ q.seen # None => q.on \in Entrypoints /\ q.seen \in snaps[q.on]
  /\ q.on \in Entrypoints /\ q.op # "create" => q.seen # None
  /\ q.phase = "received" => q.loaded = {}
  /\ q.phase # "built" => q.built = None
  /\ q.phase = "loaded" => q.op \in Rewriting \cup Relinking
  /\ q.phase = "built" => BuiltOK(q, snaps, versions, now)

On(w, r) == request[w] # None /\ request[w].on = r

LinksInv ==
  /\ TypeOK
  /\ \A e \in Entrypoints : EntrypointOK(e)
  /\ \A w \in Workers :
       request[w] # None => RequestOK(request[w], created, snapshots, version, clock)
  /\ \A v, w \in Workers : \A r \in Parents :
       On(w, r) /\ request[w].op = "create" /\ On(v, r) => v = w
  /\ \A l \in linked : l[1] \in created

-----------------------------------------------------------------------------
(* The latest snapshot, and what is pinned                                 *)

LEMMA LatestIsNewest ==
  ASSUME NEW e \in Entrypoints, EntrypointOK(e), snapshots[e] # {}
  PROVE  Newest(Latest(e), snapshots[e])
PROOF
<1>1. PICK s \in snapshots[e] : Newest(s, snapshots[e])
  BY DEF EntrypointOK
<1>2. s \in snapshots[e] /\ \A t \in snapshots[e] : t.at <= s.at
  BY <1>1 DEF Newest
<1>3. Latest(e) \in snapshots[e] /\ \A t \in snapshots[e] : t.at <= Latest(e).at
  BY <1>2 DEF Latest
<1> QED
  BY <1>3 DEF Newest

\* A set of snapshots with a newest one has one when a snapshot is added.
LEMMA NewestStays ==
  ASSUME NEW S \in SUBSET Snapshot, NEW b \in Snapshot,
         S # {} => \E s \in S : Newest(s, S)
  PROVE  \E s \in S \cup {b} : Newest(s, S \cup {b})
PROOF
<1>0. \A s \in S \cup {b} : s.at \in Nat
  BY DEF Snapshot
<1>1. CASE S = {}
  <2>1. Newest(b, S \cup {b})
    BY <1>0, <1>1 DEF Newest
  <2> QED
    BY <2>1
<1>2. CASE S # {}
  <2>1. PICK s \in S : Newest(s, S)
    BY <1>2
  <2>2. CASE b.at <= s.at
    BY <2>1, <2>2 DEF Newest
  <2>3. CASE ~(b.at <= s.at)
    <3>1. \A t \in S : t.at <= b.at
      BY <1>0, <2>1, <2>3 DEF Newest
    <3>2. Newest(b, S \cup {b})
      BY <1>0, <3>1 DEF Newest
    <3> QED
      BY <3>2
  <2> QED
    BY <2>2, <2>3
<1> QED
  BY <1>1, <1>2

\* The latest versions of what is given: one pin per role and plugin.
LEMMA LatestPinsOK ==
  ASSUME NEW given \in SUBSET Given, GivenOK(given), version \in [Plugins -> Nat]
  PROVE  /\ LatestPins(given) \in SUBSET Pin
         /\ OnePin(LatestPins(given))
         /\ \A n \in LatestPins(given) : /\ n.version = version[n.plugin]
                                         /\ [role |-> n.role, id |-> n.plugin] \in given
PROOF
<1>1. ASSUME NEW n \in LatestPins(given)
      PROVE  \E g \in given : /\ g.role \in Roles /\ g.id \in Plugins
                              /\ n = [role |-> g.role, plugin |-> g.id,
                                      version |-> version[g.id]]
  BY <1>1 DEF LatestPins, GivenOK
<1>2. ASSUME NEW n \in LatestPins(given)
      PROVE  /\ n \in Pin /\ n.version = version[n.plugin]
             /\ [role |-> n.role, id |-> n.plugin] \in given
             /\ n = [role |-> n.role, plugin |-> n.plugin, version |-> version[n.plugin]]
  <2>1. PICK g \in given : /\ g.role \in Roles /\ g.id \in Plugins
                           /\ n = [role |-> g.role, plugin |-> g.id,
                                   version |-> version[g.id]]
    BY <1>1
  <2>2. g = [role |-> g.role, id |-> g.id]
    BY DEF Given
  <2>3. n.role = g.role /\ n.plugin = g.id /\ n.version = version[g.id]
    BY <2>1
  <2> QED
    BY <2>1, <2>2, <2>3 DEF Pin
<1>3. OnePin(LatestPins(given))
  BY <1>2 DEF OnePin
<1> QED
  BY <1>2, <1>3

\* The pins of a new snapshot: one per role and plugin, each kept from the
\* snapshot that was read or as new as the plugin.
LEMMA BuiltPinsOK ==
  ASSUME NEW q \in Request, GivenOK(q.given), version \in [Plugins -> Nat],
         q.op \in Rewriting \cup {"create"},
         q.op # "create" => q.seen \in Snapshot /\ OnePin(q.seen.pins)
  PROVE  /\ BuiltPins(q) \in SUBSET Pin
         /\ OnePin(BuiltPins(q))
         /\ \A n \in BuiltPins(q) : \/ q.op # "create" /\ n \in q.seen.pins
                                    \/ n.version = version[n.plugin]
PROOF
<1> DEFINE new == LatestPins(q.given)
           kept == {n \in q.seen.pins : [role |-> n.role, id |-> n.plugin] \notin q.given}
<1>1. q.given \in SUBSET Given
  BY DEF Request
<1>2. /\ new \in SUBSET Pin /\ OnePin(new)
      /\ \A n \in new : /\ n.version = version[n.plugin]
                        /\ [role |-> n.role, id |-> n.plugin] \in q.given
  BY <1>1, LatestPinsOK
<1>3. CASE q.op = "create"
  <2>1. BuiltPins(q) = new
    BY <1>3 DEF BuiltPins
  <2> QED
    BY <1>2, <2>1
<1>4. CASE q.op # "create"
  <2>1. q.seen.pins \in SUBSET Pin /\ OnePin(q.seen.pins)
    BY <1>4 DEF Snapshot
  <2>2. CASE q.op = "modify"
    <3>1. BuiltPins(q) = q.seen.pins
      BY <2>2 DEF BuiltPins
    <3> QED
      BY <1>4, <2>1, <3>1
  <2>3. CASE q.op = "append_plugins"
    <3>1. BuiltPins(q) = kept \cup new
      BY <2>3 DEF BuiltPins
    <3>2. OnePin(kept \cup new)
      BY <1>2, <2>1 DEF OnePin
    <3> QED
      BY <1>2, <1>4, <2>1, <3>1, <3>2
  <2>4. CASE q.op = "remove_plugin"
    <3>1. BuiltPins(q) = kept
      BY <2>4 DEF BuiltPins
    <3>2. OnePin(kept)
      BY <2>1 DEF OnePin
    <3> QED
      BY <1>4, <2>1, <3>1, <3>2
  <2> QED
    BY <1>4, <2>2, <2>3, <2>4 DEF Rewriting
<1> QED
  BY <1>3, <1>4

-----------------------------------------------------------------------------
(* LinksInv: requests move, children change, links are committed           *)

\* What was well formed stays so while entrypoints and snapshots are only
\* added, plugins only get newer versions and the clock goes on.
LEMMA RequestStaysOK ==
  ASSUME NEW q \in Request, NEW now \in Nat, NEW later \in Nat, now <= later,
         NEW versions \in [Plugins -> Nat], NEW newer \in [Plugins -> Nat],
         \A p \in Plugins : versions[p] <= newer[p],
         NEW made, NEW more, made \subseteq more,
         q.op = "create" => q.on \notin more,
         NEW snaps, NEW added, \A e \in Entrypoints : snaps[e] \subseteq added[e],
         RequestOK(q, made, snaps, versions, now)
  PROVE  RequestOK(q, more, added, newer, later)
PROOF
<1>1. q.built # None => q.built \in Snapshot
  BY DEF Request
<1>2. ASSUME NEW s \in Snapshot, SnapshotOK(s, versions, now)
      PROVE  SnapshotOK(s, newer, later)
  <2>1. \A n \in s.pins : n.version \in Nat /\ n.plugin \in Plugins
    BY DEF Snapshot, Pin
  <2>2. s.at \in Nat
    BY DEF Snapshot
  <2>3. \A n \in s.pins : n.version <= newer[n.plugin]
    BY <1>2, <2>1 DEF SnapshotOK
  <2> QED
    BY <1>2, <2>2, <2>3 DEF SnapshotOK
<1>3. ASSUME BuiltOK(q, snaps, versions, now), q.op = "run" => IsRun(q.given)
      PROVE  BuiltOK(q, added, newer, later)
  <2>1. CASE q.op = "run"
    <3>1. PICK e \in Entrypoints, u \in Queues :
            q.given = {[role |-> "entrypoint", id |-> e], [role |-> "queue", id |-> u]}
      BY <1>3, <2>1 DEF IsRun
    <3>2. Listed(q.given, {"entrypoint"}) \subseteq Entrypoints
      BY <3>1 DEF Listed
    <3> QED
      BY <1>3, <2>1, <3>2 DEF BuiltOK
  <2>2. CASE q.op # "run"
    BY <1>1, <1>2, <1>3, <2>2 DEF BuiltOK
  <2> QED
    BY <2>1, <2>2
<1> QED
  BY <1>3 DEF RequestOK

LEMMA EntrypointStaysOK ==
  ASSUME NEW e \in Entrypoints, TypeOK, EntrypointOK(e),
         clock' \in Nat, clock <= clock', version' \in [Plugins -> Nat],
         \A p \in Plugins : version[p] <= version'[p],
         snapshots'[e] = snapshots[e], e \in created <=> e \in created'
  PROVE  EntrypointOK(e)'
PROOF
<1>1. ASSUME NEW s \in snapshots[e] PROVE SnapshotOK(s, version', clock')
  <2>1. s \in Snapshot /\ SnapshotOK(s, version, clock)
    BY DEF EntrypointOK, TypeOK
  <2>2. s.at \in Nat /\ \A n \in s.pins : n.version \in Nat /\ n.plugin \in Plugins
    BY <2>1 DEF Snapshot, Pin
  <2>3. version \in [Plugins -> Nat] /\ clock \in Nat
    BY DEF TypeOK
  <2>4. \A n \in s.pins : n.version <= version'[n.plugin]
    BY <2>1, <2>2, <2>3 DEF SnapshotOK
  <2> QED
    BY <2>1, <2>2, <2>3, <2>4 DEF SnapshotOK
<1> QED
  BY <1>1 DEF EntrypointOK

\* The request of w becomes q, or is answered; no link is committed.
LEMMA RequestMoves ==
  ASSUME LinksInv, NEW w \in Workers, NEW q \in Request \cup {None},
         UNCHANGED <<created, version, snapshots, linked>>,
         clock' \in Nat, clock <= clock', received' \in Nat,
         deleted' \in SUBSET Ids, jobs' \in SUBSET Job, overlapped' \in SUBSET Parents,
         request' = [request EXCEPT ![w] = q],
         q # None => RequestOK(q, created, snapshots, version, clock'),
         q # None => \A v \in Workers \ {w} : On(v, q.on) =>
                       q.op # "create" /\ request[v].op # "create"
  PROVE  LinksInv'
PROOF
<1>1. TypeOK /\ request \in [Workers -> Request \cup {None}]
      /\ clock \in Nat /\ version \in [Plugins -> Nat]
  BY DEF LinksInv, TypeOK
<1>2. TypeOK'
  BY <1>1 DEF TypeOK, Parents
<1>3. \A e \in Entrypoints : EntrypointOK(e)'
  BY <1>1, EntrypointStaysOK DEF LinksInv
<1>4. ASSUME NEW v \in Workers, request'[v] # None
      PROVE  RequestOK(request'[v], created, snapshots, version, clock')
  <2>1. CASE v = w
    BY <1>1, <1>4, <2>1
  <2>2. CASE v # w
    <3>1. request'[v] = request[v] /\ request[v] \in Request
          /\ RequestOK(request[v], created, snapshots, version, clock)
      BY <1>1, <1>4, <2>2 DEF LinksInv
    <3>2. request[v].op = "create" => request[v].on \notin created
      BY <3>1 DEF RequestOK
    <3> QED
      BY <1>1, <3>1, <3>2, RequestStaysOK
  <2> QED
    BY <2>1, <2>2
<1>5. ASSUME NEW u \in Workers, NEW v \in Workers, NEW r \in Parents,
             On(u, r)', request'[u].op = "create", On(v, r)'
      PROVE  u = v
  <2>1. request'[w] = q /\ \A x \in Workers \ {w} : request'[x] = request[x]
    BY <1>1
  <2>2. CASE u # w /\ v # w
    BY <1>5, <2>1, <2>2 DEF LinksInv, On
  <2>3. CASE u = w /\ v # w
    BY <1>5, <2>1, <2>3 DEF On
  <2>4. CASE u # w /\ v = w
    BY <1>5, <2>1, <2>4 DEF On
  <2> QED
    BY <2>2, <2>3, <2>4
<1> QED
  BY <1>2, <1>3, <1>4, <1>5 DEF LinksInv

LEMMA AnswerKeepsLinks ==
  ASSUME LinksInv, NEW w \in Workers, Answered(w),
         UNCHANGED <<created, version, snapshots, linked, clock, received, overlapped>>,
         deleted' \in SUBSET Ids, jobs' \in SUBSET Job
  PROVE  LinksInv'
PROOF
<1>1. clock' \in Nat /\ clock <= clock' /\ received' \in Nat
      /\ overlapped' \in SUBSET Parents
  BY DEF LinksInv, TypeOK, Parents
<1>2. request' = [request EXCEPT ![w] = None]
  BY DEF Answered
<1> QED
  BY <1>1, <1>2, RequestMoves

\* A request moves on to q, with the operation, the parent and the list it has.
LEMMA ServingKeepsLinks ==
  ASSUME LinksInv, NEW w \in Workers, request[w] # None, NEW q \in Request,
         UNCHANGED <<created, deleted, version, snapshots, linked, jobs, received,
                     overlapped>>,
         clock' \in Nat, clock <= clock',
         request' = [request EXCEPT ![w] = q],
         q.op = request[w].op, q.on = request[w].on,
         RequestOK(q, created, snapshots, version, clock')
  PROVE  LinksInv'
PROOF
<1>1. received' \in Nat /\ deleted' \in SUBSET Ids /\ jobs' \in SUBSET Job
      /\ overlapped' \in SUBSET Parents /\ request[w] \in Request
  BY DEF LinksInv, TypeOK, Parents
<1>2. ASSUME NEW v \in Workers \ {w}, On(v, q.on)
      PROVE  q.op # "create" /\ request[v].op # "create"
  <2>1. On(w, q.on) /\ q.on \in Parents
    BY <1>1 DEF On, Request, Parents
  <2> QED
    BY <1>2, <2>1 DEF LinksInv
<1> QED
  BY <1>1, <1>2, RequestMoves

-----------------------------------------------------------------------------
(* LinksInv: receiving                                                     *)

Asked(op, r, given) ==
  /\ given \in SUBSET Given /\ GivenOK(given)
  /\ op = "run" => IsRun(given)
  /\ \/ op \in Rewriting \cup Relinking /\ r \in Entrypoints
     \/ op \in Grouping \cup {"run"} /\ r \in Experiments
     \/ op \in {"create", "delete"} /\ r \in Parents
  /\ IF op = "create" THEN r \notin created ELSE r \in created

LEMMA OrderOK ==
  ASSUME LinksInv, NEW op, NEW r, NEW given, Asked(op, r, given)
  PROVE  /\ Order(op, r, given) \in Request
         /\ RequestOK(Order(op, r, given), created, snapshots, version, clock)
PROOF
<1> DEFINE read == r \in Entrypoints /\ snapshots[r] # {}
           q == Order(op, r, given)
<1>1. ASSUME read PROVE Latest(r) \in snapshots[r] /\ Latest(r) \in Snapshot
  <2>1. EntrypointOK(r) /\ snapshots[r] \in SUBSET Snapshot
    BY <1>1 DEF LinksInv, TypeOK
  <2>2. Newest(Latest(r), snapshots[r])
    BY <1>1, <2>1, LatestIsNewest
  <2> QED
    BY <2>1, <2>2 DEF Newest
<1>2. /\ q.op = op /\ q.on = r /\ q.given = given /\ q.loaded = {} /\ q.phase = "received"
      /\ q.built = None
      /\ q.seen = IF read THEN Latest(r) ELSE None
  BY DEF Order
<1>3. op \in Rewriting \cup Relinking \cup Grouping \cup {"create", "delete", "run"}
      /\ r \in Experiments \cup Entrypoints /\ given \in SUBSET Given
  BY DEF Asked, Parents
<1>4. q \in Request
  BY <1>1, <1>3 DEF Order, Request
<1>5. q.seen # None => q.on \in Entrypoints /\ q.seen \in snapshots[q.on]
  BY <1>1, <1>2
<1>6. q.on \in Entrypoints /\ q.op # "create" => q.seen # None
  <2> SUFFICES ASSUME r \in Entrypoints, op # "create" PROVE q.seen # None
    BY <1>2
  <2>1. r \in created /\ EntrypointOK(r)
    BY DEF Asked, LinksInv
  <2>2. read
    BY <2>1 DEF EntrypointOK
  <2> QED
    BY <1>1, <1>2, <2>2, RecordAssumption
<1>7. /\ GivenOK(q.given) /\ (q.op = "run" => IsRun(q.given))
      /\ IF q.op = "create" THEN q.on \notin created ELSE q.on \in created
  BY <1>2 DEF Asked
<1>8. (q.op \in Grouping \cup {"run"} => q.on \in Experiments)
      /\ (q.op \in Rewriting \cup Relinking => q.on \in Entrypoints)
  BY <1>2 DEF Asked, Grouping, Rewriting, Relinking
<1>9. q.phase # "loaded" /\ q.phase # "built" /\ q.loaded = {} /\ q.built = None
  BY <1>2
<1>10. RequestOK(q, created, snapshots, version, clock)
  <2> HIDE DEF q
  <2> QED
    BY <1>5, <1>6, <1>7, <1>8, <1>9 DEF RequestOK
<1> QED
  BY <1>4, <1>10

\* A parent is created by one request at a time.
LEMMA ReceiveKeepsLinks ==
  ASSUME LinksInv, NEW w \in Workers, NEW op, NEW r, NEW given, Asked(op, r, given),
         op = "create" => \A v \in Workers : ~On(v, r),
         Receive(w, Order(op, r, given))
  PROVE  LinksInv'
PROOF
<1> DEFINE q == Order(op, r, given)
<1>1. q \in Request /\ RequestOK(q, created, snapshots, version, clock)
  BY OrderOK
<1>2. q.op = op /\ q.on = r
  BY DEF Order
<1>3. r \in Parents
  BY DEF Asked, Parents
<1>4. UNCHANGED <<created, version, snapshots, linked, deleted, jobs, clock>>
  BY DEF Receive
<1>5. request' = [request EXCEPT ![w] = q]
  BY DEF Receive
<1>6. clock' \in Nat /\ clock <= clock' /\ received' \in Nat
      /\ deleted' \in SUBSET Ids /\ jobs' \in SUBSET Job
  BY <1>4 DEF LinksInv, TypeOK, Receive
<1>7. overlapped' \in SUBSET Parents
  BY <1>2, <1>3 DEF LinksInv, TypeOK, Receive, Parents
<1>8. ASSUME NEW v \in Workers \ {w}, On(v, q.on)
      PROVE  q.op # "create" /\ request[v].op # "create"
  <2>1. RequestOK(request[v], created, snapshots, version, clock)
    BY <1>8 DEF LinksInv, On
  <2>2. op # "create"
    BY <1>2, <1>8
  <2>3. request[v].on = r /\ r \in created
    BY <1>2, <1>8, <2>2 DEF On, Asked
  <2> QED
    BY <1>2, <2>1, <2>2, <2>3 DEF RequestOK
<1>9. RequestOK(q, created, snapshots, version, clock')
  BY <1>1, <1>4
<1> HIDE DEF q
<1> QED
  BY <1>1, <1>4, <1>5, <1>6, <1>7, <1>8, <1>9, RequestMoves

\* The lists that requests may carry.
LEMMA ListsAreGiven ==
  /\ \A list \in QueueLists \cup EntrypointLists \cup PluginLists(Roles) :
       list \in SUBSET Given /\ GivenOK(list)
  /\ \A pins \in PluginLists(Roles), queues \in QueueLists :
       pins \cup queues \in SUBSET Given /\ GivenOK(pins \cup queues)
  /\ \A role \in Roles : PluginLists({role}) \subseteq PluginLists(Roles)
PROOF
<1>1. ASSUME NEW list \in QueueLists PROVE list \in SUBSET Given /\ GivenOK(list)
  <2>1. PICK S \in SUBSET Queues : list = {[role |-> "queue", id |-> q] : q \in S}
    BY DEF QueueLists
  <2> QED
    BY <2>1 DEF Given, GivenOK, Ids, Roles
<1>2. ASSUME NEW list \in EntrypointLists PROVE list \in SUBSET Given /\ GivenOK(list)
  <2>1. PICK S \in SUBSET Entrypoints :
          list = {[role |-> "entrypoint", id |-> e] : e \in S}
    BY DEF EntrypointLists
  <2> QED
    BY <2>1 DEF Given, GivenOK, Ids, Roles
<1>3. ASSUME NEW list \in PluginLists(Roles) PROVE list \in SUBSET Given /\ GivenOK(list)
  BY <1>3 DEF PluginLists, GivenOK, Roles
<1>4. ASSUME NEW pins \in PluginLists(Roles), NEW queues \in QueueLists
      PROVE  pins \cup queues \in SUBSET Given /\ GivenOK(pins \cup queues)
  BY <1>1, <1>3 DEF GivenOK
<1>5. \A role \in Roles : PluginLists({role}) \subseteq PluginLists(Roles)
  BY DEF PluginLists
<1> QED
  BY <1>1, <1>2, <1>3, <1>4, <1>5

\* Whatever arrives was asked of a parent that fits it.
LEMMA Arriving ==
  ASSUME LinksInv, NEW w \in Workers, Arrive(w)
  PROVE  \E op, r, given :
           /\ Asked(op, r, given)
           /\ op = "create" => \A v \in Workers : ~On(v, r)
           /\ Receive(w, Order(op, r, given))
           /\ op = "run" => \A e \in Listed(given, {"entrypoint"}) : <<r, e>> \in linked
PROOF
<1> DEFINE Good(op, r, given) ==
             /\ Asked(op, r, given)
             /\ op = "create" => \A v \in Workers : ~On(v, r)
             /\ Receive(w, Order(op, r, given))
             /\ op = "run" => \A e \in Listed(given, {"entrypoint"}) : <<r, e>> \in linked
<1> SUFFICES \E op, r, given : Good(op, r, given)
  OBVIOUS
<1>0. {} \in SUBSET Given /\ GivenOK({})
  BY DEF GivenOK
<1>1. ASSUME NEW e \in Entrypoints, CreateEntrypoint(w, e)
      PROVE  \E op, r, given : Good(op, r, given)
  <2>1. PICK pins \in PluginLists(Roles), queues \in QueueLists :
          Receive(w, Order("create", e, pins \cup queues))
    BY <1>1 DEF CreateEntrypoint
  <2>2. e \in Entrypoints \ created /\ \A v \in Workers : ~On(v, e)
    BY <1>1 DEF CreateEntrypoint, On
  <2>3. Asked("create", e, pins \cup queues)
    BY <2>2, ListsAreGiven DEF Asked, Parents
  <2>4. Good("create", e, pins \cup queues)
    BY <2>1, <2>2, <2>3
  <2> QED
    BY <2>4
<1>2. ASSUME NEW x \in Experiments, CreateExperiment(w, x)
      PROVE  \E op, r, given : Good(op, r, given)
  <2>1. PICK list \in EntrypointLists : Receive(w, Order("create", x, list))
    BY <1>2 DEF CreateExperiment
  <2>2. x \in Experiments \ created /\ \A v \in Workers : ~On(v, x)
    BY <1>2 DEF CreateExperiment, On
  <2>3. Asked("create", x, list)
    BY <2>2, ListsAreGiven DEF Asked, Parents
  <2>4. Good("create", x, list)
    BY <2>1, <2>2, <2>3
  <2> QED
    BY <2>4
<1>3. \A r \in Parents \cap Live : r \in created
  BY IdsAssumption DEF Parents, Live
<1>4. ASSUME NEW e \in Entrypoints, ChangeEntrypoint(w, e)
      PROVE  \E op, r, given : Good(op, r, given)
  <2>1. e \in created
    BY <1>3, <1>4 DEF ChangeEntrypoint, Parents
  <2>2. ASSUME NEW op \in (Rewriting \cup Relinking) \cup {"delete"}, NEW given,
               given \in SUBSET Given, GivenOK(given), Receive(w, Order(op, e, given))
        PROVE  Good(op, e, given)
    <3>1. op # "create" /\ op # "run"
      BY <2>2 DEF Rewriting, Relinking
    <3>2. Asked(op, e, given)
      BY <2>1, <2>2, <3>1 DEF Asked, Parents
    <3> QED
      BY <2>2, <3>1, <3>2
  <2>3. CASE \E list \in QueueLists, op \in {"modify", "set_queues", "append_queues"} :
               Receive(w, Order(op, e, list))
    <3>1. PICK list \in QueueLists, op \in {"modify", "set_queues", "append_queues"} :
            Receive(w, Order(op, e, list))
      BY <2>3
    <3>2. op \in (Rewriting \cup Relinking) \cup {"delete"}
          /\ list \in SUBSET Given /\ GivenOK(list)
      BY ListsAreGiven DEF Rewriting, Relinking
    <3> QED
      BY <2>2, <3>1, <3>2
  <2>4. CASE \E role \in Roles : \E list \in PluginLists({role}) :
               list # {} /\ Receive(w, Order("append_plugins", e, list))
    <3>1. PICK role \in Roles : \E list \in PluginLists({role}) :
            Receive(w, Order("append_plugins", e, list))
      BY <2>4
    <3>2. PICK list \in PluginLists({role}) : Receive(w, Order("append_plugins", e, list))
      BY <3>1
    <3>3. list \in SUBSET Given /\ GivenOK(list)
      BY ListsAreGiven
    <3>4. "append_plugins" \in (Rewriting \cup Relinking) \cup {"delete"}
      BY DEF Rewriting
    <3> QED
      BY <2>2, <3>2, <3>3, <3>4
  <2>5. CASE \E n \in Latest(e).pins :
               Receive(w, Order("remove_plugin", e, {[role |-> n.role, id |-> n.plugin]}))
    <3>1. PICK n \in Latest(e).pins :
            Receive(w, Order("remove_plugin", e, {[role |-> n.role, id |-> n.plugin]}))
      BY <2>5
    <3>2. EntrypointOK(e) /\ snapshots[e] \in SUBSET Snapshot
      BY DEF LinksInv, TypeOK
    <3>3. Newest(Latest(e), snapshots[e])
      BY <2>1, <3>2, LatestIsNewest DEF EntrypointOK
    <3>4. Latest(e) \in Snapshot
      BY <3>2, <3>3 DEF Newest
    <3>5. n \in Pin
      BY <3>4 DEF Snapshot
    <3>6. [role |-> n.role, id |-> n.plugin] \in Given /\ n.role \in Roles
          /\ n.plugin \in Plugins
      BY <3>5 DEF Pin, Given, Ids
    <3>7. {[role |-> n.role, id |-> n.plugin]} \in SUBSET Given
          /\ GivenOK({[role |-> n.role, id |-> n.plugin]})
      BY <3>6 DEF GivenOK, Roles
    <3>8. "remove_plugin" \in (Rewriting \cup Relinking) \cup {"delete"}
      BY DEF Rewriting
    <3> QED
      BY <2>2, <3>1, <3>7, <3>8
  <2>6. CASE \E q \in Queues :
               Receive(w, Order("unlink_queue", e, {[role |-> "queue", id |-> q]}))
    <3>1. PICK q \in Queues :
            Receive(w, Order("unlink_queue", e, {[role |-> "queue", id |-> q]}))
      BY <2>6
    <3>2. {[role |-> "queue", id |-> q]} \in SUBSET Given
          /\ GivenOK({[role |-> "queue", id |-> q]})
      BY DEF Given, GivenOK, Ids, Roles
    <3>3. "unlink_queue" \in (Rewriting \cup Relinking) \cup {"delete"}
      BY DEF Relinking
    <3> QED
      BY <2>2, <3>1, <3>2, <3>3
  <2>7. CASE \E op \in {"clear_queues", "delete"} : Receive(w, Order(op, e, {}))
    <3>1. PICK op \in {"clear_queues", "delete"} : Receive(w, Order(op, e, {}))
      BY <2>7
    <3>2. op \in (Rewriting \cup Relinking) \cup {"delete"}
      BY DEF Relinking
    <3> QED
      BY <1>0, <2>2, <3>1, <3>2
  <2> QED
    BY <1>4, <2>3, <2>4, <2>5, <2>6, <2>7 DEF ChangeEntrypoint
<1>5. ASSUME NEW x \in Experiments, ChangeExperiment(w, x)
      PROVE  \E op, r, given : Good(op, r, given)
  <2>1. x \in created
    BY <1>3, <1>5 DEF ChangeExperiment, Parents
  <2>2. ASSUME NEW op \in Grouping \cup {"delete"}, NEW given,
               given \in SUBSET Given, GivenOK(given), Receive(w, Order(op, x, given))
        PROVE  Good(op, x, given)
    <3>1. op # "create" /\ op # "run"
      BY <2>2 DEF Grouping
    <3>2. Asked(op, x, given)
      BY <2>1, <2>2, <3>1 DEF Asked, Parents
    <3> QED
      BY <2>2, <3>1, <3>2
  <2>3. CASE \E list \in EntrypointLists, op \in {"set_entrypoints", "append_entrypoints"} :
               /\ Listed(list, {"entrypoint"}) \subseteq Live
               /\ Receive(w, Order(op, x, list))
    <3>1. PICK list \in EntrypointLists, op \in {"set_entrypoints", "append_entrypoints"} :
            Receive(w, Order(op, x, list))
      BY <2>3
    <3>2. op \in Grouping \cup {"delete"} /\ list \in SUBSET Given /\ GivenOK(list)
      BY ListsAreGiven DEF Grouping
    <3> QED
      BY <2>2, <3>1, <3>2
  <2>4. CASE \E e \in Entrypoints \cap created :
               Receive(w, Order("unlink_entrypoint", x, {[role |-> "entrypoint", id |-> e]}))
    <3>1. PICK e \in Entrypoints :
            Receive(w, Order("unlink_entrypoint", x, {[role |-> "entrypoint", id |-> e]}))
      BY <2>4
    <3>2. {[role |-> "entrypoint", id |-> e]} \in SUBSET Given
          /\ GivenOK({[role |-> "entrypoint", id |-> e]})
      BY DEF Given, GivenOK, Ids, Roles
    <3>3. "unlink_entrypoint" \in Grouping \cup {"delete"}
      BY DEF Grouping
    <3> QED
      BY <2>2, <3>1, <3>2, <3>3
  <2>5. CASE \E op \in {"clear_entrypoints", "delete"} : Receive(w, Order(op, x, {}))
    <3>1. PICK op \in {"clear_entrypoints", "delete"} : Receive(w, Order(op, x, {}))
      BY <2>5
    <3>2. op \in Grouping \cup {"delete"}
      BY DEF Grouping
    <3> QED
      BY <1>0, <2>2, <3>1, <3>2
  <2> QED
    BY <1>5, <2>3, <2>4, <2>5 DEF ChangeExperiment
<1>6. ASSUME NEW x \in Experiments, RunEntrypoint(w, x)
      PROVE  \E op, r, given : Good(op, r, given)
  <2>1. PICK e \in Entrypoints, u \in Queues :
          /\ MayRun(x, e, u)
          /\ Receive(w, Order("run", x, {[role |-> "entrypoint", id |-> e],
                                         [role |-> "queue", id |-> u]}))
    BY <1>6 DEF RunEntrypoint
  <2> DEFINE given == {[role |-> "entrypoint", id |-> e], [role |-> "queue", id |-> u]}
  <2>2. x \in created /\ <<x, e>> \in linked
    BY <1>3, <2>1 DEF MayRun, Parents
  <2>3. given \in SUBSET Given /\ GivenOK(given) /\ IsRun(given)
    BY DEF Given, GivenOK, Ids, Roles, IsRun
  <2>4. Listed(given, {"entrypoint"}) = {e}
    <3>1. {h \in given : h.role \in {"entrypoint"}} = {[role |-> "entrypoint", id |-> e]}
      OBVIOUS
    <3>2. {g.id : g \in {[role |-> "entrypoint", id |-> e]}} = {e}
      OBVIOUS
    <3>3. Listed(given, {"entrypoint"}) =
            {g.id : g \in {h \in given : h.role \in {"entrypoint"}}}
      BY DEF Listed
    <3> HIDE DEF given
    <3> QED
      BY <3>1, <3>2, <3>3
  <2>5. Asked("run", x, given)
    BY <2>2, <2>3 DEF Asked
  <2>6. Good("run", x, given)
    BY <2>1, <2>2, <2>4, <2>5
  <2> QED
    BY <2>6
<1> QED
  BY <1>1, <1>2, <1>4, <1>5, <1>6 DEF Arrive

-----------------------------------------------------------------------------
(* LinksInv: loading and building                                          *)

\* The request of w becomes q and nothing else changes but the clock.
MovesTo(w, q) ==
  /\ request[w] # None
  /\ request' = [request EXCEPT ![w] = q]
  /\ q \in Request
  /\ q.op = request[w].op /\ q.on = request[w].on
  /\ q.given = request[w].given /\ q.seen = request[w].seen
  /\ RequestOK(q, created, snapshots, version, clock')
  /\ clock' \in Nat /\ clock <= clock'
  /\ UNCHANGED <<created, deleted, version, snapshots, linked, jobs, received, overlapped>>

\* What it loaded, and what it will write.
LoadedOK(q) == q.loaded = Rows(q.on, linked)
AppendOK(q) ==
  q.op = "append_entrypoints" => q.wanted = q.loaded \cup Listed(q.given, {"entrypoint"})
SnapshotBuilt(q) ==
  IF q.built = None
  THEN q.wanted \cap Plugins = q.loaded \cap Plugins
  ELSE /\ q.wanted \cap Plugins = PinnedBy(q.built)
       /\ q.built.at = clock + 1
       /\ \A n \in q.built.pins : \/ q.op # "create" /\ n \in q.seen.pins
                                  \/ n.version = version[n.plugin]

LEMMA Plain ==
  ASSUME LinksInv, NEW w \in Workers, request[w] # None
  PROVE  /\ request[w] \in Request /\ TypeOK
         /\ RequestOK(request[w], created, snapshots, version, clock)
BY DEF LinksInv, TypeOK

LEMMA LoadingEntrypoint ==
  ASSUME LinksInv, NEW w \in Workers, LoadEntrypoint(w)
  PROVE  \/ Answered(w) /\ UNCHANGED <<created, deleted, version, snapshots, linked, jobs,
                                       clock, received, overlapped>>
         \/ \E q : MovesTo(w, q) /\ q.phase = "loaded" /\ LoadedOK(q)
PROOF
<1> DEFINE p == request[w]
           q == [p EXCEPT !.phase = "loaded", !.loaded = Children(p.on)]
<1>1. p # None /\ p.phase = "received" /\ p.op \in Rewriting \cup Relinking
      /\ UNCHANGED <<created, deleted, version, snapshots, linked, jobs, clock, received,
                     overlapped>>
  BY DEF LoadEntrypoint, Serving
<1>2. p \in Request /\ RequestOK(p, created, snapshots, version, clock)
      /\ clock \in Nat /\ request \in [Workers -> Request \cup {None}]
  BY <1>1, Plain DEF TypeOK
<1>3. Answered(w) \/ request' = [request EXCEPT ![w].phase = "loaded",
                                                ![w].loaded = Children(p.on)]
  BY DEF LoadEntrypoint
<1>4. CASE Answered(w)
  BY <1>1, <1>4
<1>5. CASE request' = [request EXCEPT ![w].phase = "loaded", ![w].loaded = Children(p.on)]
  <2>1. request' = [request EXCEPT ![w] = q]
    BY <1>2, <1>5
  <2>2. Children(p.on) \in SUBSET Ids
    BY DEF Children
  <2>3. q \in Request
    BY <1>2, <2>2 DEF Request
  <2>4. /\ q.op = p.op /\ q.on = p.on /\ q.given = p.given /\ q.seen = p.seen
        /\ q.built = p.built /\ q.phase = "loaded" /\ q.loaded = Children(p.on)
    BY <1>2 DEF Request
  <2>5. RequestOK(q, created, snapshots, version, clock)
    <3> HIDE DEF q
    <3> QED
      BY <1>1, <1>2, <2>4 DEF RequestOK
  <2>6. MovesTo(w, q) /\ LoadedOK(q)
    <3> HIDE DEF q
    <3> QED
      BY <1>1, <1>2, <2>1, <2>3, <2>4, <2>5 DEF MovesTo, LoadedOK, Rows, Children
  <2> QED
    BY <2>4, <2>6
<1> QED
  BY <1>3, <1>4, <1>5

LEMMA LoadingExperiment ==
  ASSUME LinksInv, NEW w \in Workers, LoadExperiment(w)
  PROVE  \E q : /\ MovesTo(w, q) /\ q.phase = "built" /\ q.op \in Grouping
                /\ LoadedOK(q) /\ AppendOK(q)
PROOF
<1> DEFINE p == request[w]
           rows == Children(p.on)
           wanted == WantedEntrypoints(p, rows)
           q == [p EXCEPT !.phase = "built", !.loaded = rows, !.wanted = wanted]
<1>1. p # None /\ p.phase = "received" /\ p.op \in Grouping
      /\ UNCHANGED <<created, deleted, version, snapshots, linked, jobs, clock, received,
                     overlapped>>
  BY DEF LoadExperiment, Serving
<1>2. p \in Request /\ RequestOK(p, created, snapshots, version, clock)
      /\ clock \in Nat /\ request \in [Workers -> Request \cup {None}]
  BY <1>1, Plain DEF TypeOK
<1>3. request' = [request EXCEPT ![w] = q]
  BY <1>2 DEF LoadExperiment
<1>4. p.given \in SUBSET Given /\ rows \in SUBSET Ids
  BY <1>2 DEF Request, Children
<1>5. Listed(p.given, {"entrypoint"}) \subseteq AllListed(p.given)
      /\ AllListed(p.given) \subseteq Ids
  BY <1>4 DEF Listed, AllListed, Given
<1>6. /\ wanted \subseteq rows \cup AllListed(p.given)
      /\ p.op = "append_entrypoints" => wanted = rows \cup Listed(p.given, {"entrypoint"})
  <2> HIDE DEF rows
  <2>1. CASE p.op = "set_entrypoints"
    BY <1>5, <2>1 DEF WantedEntrypoints
  <2>2. CASE p.op = "append_entrypoints"
    BY <1>5, <2>2 DEF WantedEntrypoints
  <2>3. CASE p.op = "clear_entrypoints"
    BY <2>3 DEF WantedEntrypoints
  <2>4. CASE p.op = "unlink_entrypoint"
    BY <2>4 DEF WantedEntrypoints
  <2> QED
    BY <1>1, <2>1, <2>2, <2>3, <2>4 DEF Grouping
<1>7. q \in Request
  <2>1. wanted \in SUBSET Ids
    BY <1>4, <1>5, <1>6
  <2> HIDE DEF wanted, rows
  <2> QED
    BY <1>2, <1>4, <2>1 DEF Request
<1>8. /\ q.op = p.op /\ q.on = p.on /\ q.given = p.given /\ q.seen = p.seen
      /\ q.built = p.built /\ q.phase = "built" /\ q.loaded = rows /\ q.wanted = wanted
  BY <1>2 DEF Request
<1>9. p.op # "create" /\ p.op # "run" /\ p.op # "delete" /\ p.op \notin Rewriting \cup Relinking
      /\ p.op \notin Rewriting
  BY <1>1 DEF Grouping, Rewriting, Relinking
<1> HIDE DEF q, wanted
<1>10. BuiltOK(q, snapshots, version, clock)
  <2>1. q.op # "run" /\ q.op # "delete" /\ q.op \notin Rewriting \cup {"create"}
    BY <1>8, <1>9
  <2>2. q.built = None
    BY <1>1, <1>2, <1>8 DEF RequestOK
  <2>3. \A c \in q.wanted \ q.loaded : c \in AllListed(q.given)
    BY <1>6, <1>8
  <2> QED
    BY <2>1, <2>2, <2>3 DEF BuiltOK
<1>11. RequestOK(q, created, snapshots, version, clock)
  BY <1>1, <1>2, <1>8, <1>9, <1>10 DEF RequestOK
<1>12. MovesTo(w, q)
  BY <1>1, <1>2, <1>3, <1>7, <1>8, <1>11 DEF MovesTo
<1>13. LoadedOK(q) /\ AppendOK(q)
  BY <1>6, <1>8 DEF LoadedOK, AppendOK, Rows, Children
<1> QED
  BY <1>1, <1>8, <1>12, <1>13

LEMMA BuildingExperiment ==
  ASSUME LinksInv, NEW w \in Workers, BuildExperiment(w)
  PROVE  \/ Answered(w) /\ UNCHANGED <<created, deleted, version, snapshots, linked, jobs,
                                       clock, received, overlapped>>
         \/ \E q : /\ MovesTo(w, q) /\ q.phase = "built" /\ q.op = "create"
                   /\ q.loaded = {} /\ q.on \in Experiments
PROOF
<1> DEFINE p == request[w]
           wanted == Listed(p.given, {"entrypoint"})
           q == [p EXCEPT !.phase = "built", !.wanted = wanted]
<1>1. p # None /\ p.phase = "received" /\ p.op = "create" /\ p.on \in Experiments
      /\ UNCHANGED <<created, deleted, version, snapshots, linked, jobs, clock, received,
                     overlapped>>
  BY DEF BuildExperiment, Serving
<1>2. p \in Request /\ RequestOK(p, created, snapshots, version, clock)
      /\ clock \in Nat /\ request \in [Workers -> Request \cup {None}]
  BY <1>1, Plain DEF TypeOK
<1>3. Answered(w) \/ request' = [request EXCEPT ![w].phase = "built", ![w].wanted = wanted]
  BY DEF BuildExperiment
<1>4. CASE Answered(w)
  BY <1>1, <1>4
<1>5. CASE request' = [request EXCEPT ![w].phase = "built", ![w].wanted = wanted]
  <2>1. request' = [request EXCEPT ![w] = q]
    BY <1>2, <1>5
  <2>2. p.given \in SUBSET Given
    BY <1>2 DEF Request
  <2>3. wanted \subseteq AllListed(p.given) /\ wanted \in SUBSET Ids
    BY <2>2 DEF Listed, AllListed, Given
  <2>4. q \in Request
    <3> HIDE DEF wanted
    <3> QED
      BY <1>2, <2>3 DEF Request
  <2>5. /\ q.op = p.op /\ q.on = p.on /\ q.given = p.given /\ q.seen = p.seen
        /\ q.built = p.built /\ q.phase = "built" /\ q.loaded = p.loaded /\ q.wanted = wanted
    BY <1>2 DEF Request
  <2>6. p.on \notin Entrypoints /\ p.loaded = {} /\ p.built = None
    BY <1>1, <1>2, IdsAssumption DEF RequestOK
  <2> HIDE DEF q, wanted
  <2>7. BuiltOK(q, snapshots, version, clock)
    <3>1. q.op # "run" /\ q.op # "delete" /\ q.on \notin Entrypoints /\ q.built = None
      BY <1>1, <2>5, <2>6
    <3>2. \A c \in q.wanted \ q.loaded : c \in AllListed(q.given)
      BY <2>3, <2>5
    <3> QED
      BY <3>1, <3>2 DEF BuiltOK
  <2>8. RequestOK(q, created, snapshots, version, clock)
    BY <1>1, <1>2, <2>5, <2>6, <2>7 DEF RequestOK
  <2>9. MovesTo(w, q)
    BY <1>1, <1>2, <2>1, <2>4, <2>5, <2>8 DEF MovesTo
  <2> QED
    BY <1>1, <2>5, <2>6, <2>9
<1> QED
  BY <1>3, <1>4, <1>5

LEMMA BuildingJob ==
  ASSUME LinksInv, NEW w \in Workers, BuildJob(w)
  PROVE  \/ Answered(w) /\ UNCHANGED <<created, deleted, version, snapshots, linked, jobs,
                                       clock, received, overlapped>>
         \/ \E q : MovesTo(w, q) /\ q.phase = "built" /\ q.op = "run"
PROOF
<1> DEFINE p == request[w]
<1>1. p # None /\ p.phase = "received" /\ p.op = "run"
      /\ UNCHANGED <<created, deleted, version, snapshots, linked, jobs, clock, received,
                     overlapped>>
  BY DEF BuildJob, Serving
<1>2. p \in Request /\ RequestOK(p, created, snapshots, version, clock)
      /\ clock \in Nat /\ request \in [Workers -> Request \cup {None}]
      /\ snapshots \in [Entrypoints -> SUBSET Snapshot]
  BY <1>1, Plain DEF TypeOK
<1>3. PICK e \in Entrypoints, u \in Queues :
        p.given = {[role |-> "entrypoint", id |-> e], [role |-> "queue", id |-> u]}
  BY <1>1, <1>2 DEF RequestOK, IsRun
<1>4. \A d \in Listed(p.given, {"entrypoint"}) : d = e
  BY <1>3 DEF Listed
<1>5. Answered(w) \/ \E s \in snapshots[e] :
        request' = [request EXCEPT ![w].phase = "built", ![w].built = s]
  BY <1>4 DEF BuildJob
<1>6. CASE Answered(w)
  BY <1>1, <1>6
<1>7. ASSUME NEW s \in snapshots[e],
             request' = [request EXCEPT ![w].phase = "built", ![w].built = s]
      PROVE  \E q : MovesTo(w, q) /\ q.phase = "built" /\ q.op = "run"
  <2> DEFINE q == [p EXCEPT !.phase = "built", !.built = s]
  <2>1. request' = [request EXCEPT ![w] = q]
    BY <1>2, <1>7
  <2>2. s \in Snapshot /\ s # None
    BY <1>2, RecordAssumption
  <2>3. q \in Request
    BY <1>2, <2>2 DEF Request
  <2>4. /\ q.op = p.op /\ q.on = p.on /\ q.given = p.given /\ q.seen = p.seen
        /\ q.built = s /\ q.phase = "built" /\ q.loaded = p.loaded
    BY <1>2 DEF Request
  <2> HIDE DEF q
  <2>5. BuiltOK(q, snapshots, version, clock)
    BY <1>1, <1>4, <1>7, <2>2, <2>4 DEF BuiltOK
  <2>6. RequestOK(q, created, snapshots, version, clock)
    BY <1>1, <1>2, <2>4, <2>5 DEF RequestOK
  <2>7. MovesTo(w, q)
    BY <1>1, <1>2, <2>1, <2>3, <2>4, <2>6 DEF MovesTo
  <2> QED
    BY <1>1, <2>4, <2>7
<1> QED
  BY <1>5, <1>6, <1>7

\* The plugins among the children that an entrypoint is to have, and where
\* the new ones come from.
LEMMA WantedOK ==
  ASSUME NEW q \in Request, GivenOK(q.given), NEW pinned \in SUBSET Plugins,
         q.op \in Rewriting \cup Relinking \cup {"create"},
         q.op \in Relinking => pinned = {}
  PROVE  /\ Wanted(q, pinned) \in SUBSET Ids
         /\ \A c \in Wanted(q, pinned) \ q.loaded : c \in AllListed(q.given) \cup pinned
         /\ Wanted(q, pinned) \cap Plugins =
              IF q.op \in Relinking THEN q.loaded \cap Plugins ELSE pinned
PROOF
<1> DEFINE queues == Listed(q.given, {"queue"})
<1>1. q.given \in SUBSET Given /\ q.loaded \in SUBSET Ids
  BY DEF Request
<1>2. queues \subseteq Queues /\ queues \subseteq AllListed(q.given)
  BY <1>1 DEF Listed, AllListed, GivenOK
<1>3. Queues \cap Plugins = {} /\ Queues \subseteq Ids /\ Plugins \subseteq Ids
  BY IdsAssumption DEF Ids
<1> DEFINE Good(S) == /\ S \in SUBSET Ids
                      /\ \A c \in S \ q.loaded : c \in AllListed(q.given) \cup pinned
                      /\ S \cap Plugins =
                           IF q.op \in Relinking THEN q.loaded \cap Plugins ELSE pinned
<1> SUFFICES Good(Wanted(q, pinned))
  OBVIOUS
<1>4. Wanted(q, pinned) =
        CASE q.op \in {"create", "modify"} -> pinned \cup queues
          [] q.op \in {"append_plugins", "remove_plugin"} -> pinned \cup (q.loaded \cap Queues)
          [] q.op = "set_queues" -> (q.loaded \cap Plugins) \cup queues
          [] q.op = "append_queues" -> q.loaded \cup queues
          [] q.op = "clear_queues" -> q.loaded \cap Plugins
          [] q.op = "unlink_queue" -> q.loaded \ queues
  BY DEF Wanted
<1> HIDE DEF queues
<1>5. CASE q.op \in {"create", "modify"}
  <2>1. q.op \notin Relinking /\ Wanted(q, pinned) = pinned \cup queues
    BY <1>4, <1>5 DEF Relinking
  <2> QED
    BY <1>2, <1>3, <2>1
<1>6. CASE q.op \in {"append_plugins", "remove_plugin"}
  <2>1. q.op \notin Relinking /\ Wanted(q, pinned) = pinned \cup (q.loaded \cap Queues)
    BY <1>4, <1>6 DEF Relinking
  <2> QED
    BY <1>1, <1>3, <2>1
<1>7. CASE q.op = "set_queues"
  <2>1. q.op \in Relinking /\ Wanted(q, pinned) = (q.loaded \cap Plugins) \cup queues
    BY <1>4, <1>7 DEF Relinking
  <2> QED
    BY <1>2, <1>3, <2>1
<1>8. CASE q.op = "append_queues"
  <2>1. q.op \in Relinking /\ Wanted(q, pinned) = q.loaded \cup queues
    BY <1>4, <1>8 DEF Relinking
  <2> QED
    BY <1>1, <1>2, <1>3, <2>1
<1>9. CASE q.op = "clear_queues"
  <2>1. q.op \in Relinking /\ Wanted(q, pinned) = q.loaded \cap Plugins
    BY <1>4, <1>9 DEF Relinking
  <2> QED
    BY <1>3, <2>1
<1>10. CASE q.op = "unlink_queue"
  <2>1. q.op \in Relinking /\ Wanted(q, pinned) = q.loaded \ queues
    BY <1>4, <1>10 DEF Relinking
  <2> QED
    BY <1>1, <1>2, <1>3, <2>1
<1> QED
  BY <1>5, <1>6, <1>7, <1>8, <1>9, <1>10 DEF Rewriting, Relinking

\* What was loaded before is kept; what is written is built now.
LEMMA Building ==
  ASSUME LinksInv, NEW w \in Workers, Build(w)
  PROVE  \/ Answered(w) /\ UNCHANGED <<created, deleted, version, snapshots, linked, jobs,
                                       clock, received, overlapped>>
         \/ \E q : /\ MovesTo(w, q) /\ q.phase = "built" /\ q.on \in Entrypoints
                   /\ q.op \in Rewriting \cup Relinking \cup {"create"}
                   /\ q.op # "create" => request[w].phase = "loaded"
                   /\ q.loaded = request[w].loaded
                   /\ q.op = "create" => q.loaded = {}
                   /\ SnapshotBuilt(q)
PROOF
<1> DEFINE p == request[w]
           rewrites == p.op \in Rewriting \cup {"create"}
           snapshot == [pins |-> BuiltPins(p), at |-> clock + 1]
           pinned == IF rewrites THEN PinnedBy(snapshot) ELSE {}
           built == IF rewrites THEN snapshot ELSE None
           wanted == Wanted(p, pinned)
           q == [p EXCEPT !.phase = "built", !.built = built, !.wanted = wanted]
<1>1. /\ p # None /\ p.phase \in {"received", "loaded"}
      /\ p.phase = "received" => p.op = "create" /\ p.on \in Entrypoints
      /\ UNCHANGED <<created, deleted, version, snapshots, linked, jobs, received, overlapped>>
  BY DEF Build, Serving
<1>2. p \in Request /\ RequestOK(p, created, snapshots, version, clock)
      /\ clock \in Nat /\ request \in [Workers -> Request \cup {None}]
      /\ snapshots \in [Entrypoints -> SUBSET Snapshot] /\ version \in [Plugins -> Nat]
  BY <1>1, Plain DEF TypeOK
<1>3. /\ p.op \in Rewriting \cup Relinking \cup {"create"} /\ p.on \in Entrypoints
      /\ p.op # "create" => p.phase = "loaded"
      /\ p.op = "create" => p.loaded = {}
      /\ GivenOK(p.given)
  BY <1>1, <1>2 DEF RequestOK, Rewriting, Relinking
<1>4. \/ Answered(w) /\ UNCHANGED clock
      \/ /\ clock' = IF rewrites THEN clock + 1 ELSE clock
         /\ request' = [request EXCEPT ![w].phase = "built", ![w].built = built,
                                       ![w].wanted = wanted]
  BY DEF Build
<1>5. CASE Answered(w) /\ UNCHANGED clock
  BY <1>1, <1>5
<1>6. CASE /\ clock' = IF rewrites THEN clock + 1 ELSE clock
           /\ request' = [request EXCEPT ![w].phase = "built", ![w].built = built,
                                         ![w].wanted = wanted]
  <2>1. request' = [request EXCEPT ![w] = q]
    BY <1>2, <1>6
  <2>2. ASSUME p.op # "create" PROVE p.seen \in Snapshot /\ SnapshotOK(p.seen, version, clock)
    <3>1. p.seen \in snapshots[p.on] /\ EntrypointOK(p.on)
      BY <1>2, <1>3, <2>2 DEF RequestOK, LinksInv
    <3> QED
      BY <1>2, <1>3, <3>1 DEF EntrypointOK
  <2>3. ASSUME rewrites
        PROVE  /\ BuiltPins(p) \in SUBSET Pin /\ OnePin(BuiltPins(p))
               /\ \A n \in BuiltPins(p) : \/ p.op # "create" /\ n \in p.seen.pins
                                          \/ n.version = version[n.plugin]
    <3>1. p.op # "create" => p.seen \in Snapshot /\ OnePin(p.seen.pins)
      BY <2>2 DEF SnapshotOK
    <3> QED
      BY <1>2, <1>3, <2>3, <3>1, BuiltPinsOK
  <2>4. ASSUME rewrites PROVE snapshot \in Snapshot /\ SnapshotOK(snapshot, version, clock')
    <3>1. snapshot.pins = BuiltPins(p) /\ snapshot.at = clock + 1 /\ clock' = clock + 1
      BY <1>6, <2>4
    <3>2. snapshot \in Snapshot
      BY <1>2, <2>3, <2>4 DEF Snapshot
    <3>3. \A n \in BuiltPins(p) : n \in Pin /\ n.version <= version[n.plugin]
      <4> SUFFICES ASSUME NEW n \in BuiltPins(p) PROVE n \in Pin /\ n.version <= version[n.plugin]
        OBVIOUS
      <4>1. n \in Pin
        BY <2>3, <2>4
      <4>2. n.plugin \in Plugins /\ version[n.plugin] \in Nat
        BY <1>2, <4>1 DEF Pin
      <4>3. CASE n.version = version[n.plugin]
        BY <4>1, <4>2, <4>3
      <4>4. CASE p.op # "create" /\ n \in p.seen.pins
        BY <2>2, <4>1, <4>4 DEF SnapshotOK
      <4> QED
        BY <2>3, <2>4, <4>3, <4>4
    <3> HIDE DEF snapshot
    <3> QED
      BY <1>2, <2>3, <2>4, <3>1, <3>2, <3>3 DEF SnapshotOK
  <2>5. pinned \in SUBSET Plugins /\ (p.op \in Relinking => pinned = {})
        /\ (p.op \in Relinking <=> ~rewrites)
    <3>1. p.op \in Relinking <=> ~rewrites
      BY <1>3 DEF Rewriting, Relinking
    <3>2. ASSUME rewrites PROVE PinnedBy(snapshot) \in SUBSET Plugins
      BY <2>4, <3>2 DEF Snapshot, PinnedBy, Pin
    <3> QED
      BY <3>1, <3>2
  <2>6. /\ wanted \in SUBSET Ids
        /\ \A c \in wanted \ p.loaded : c \in AllListed(p.given) \cup pinned
        /\ wanted \cap Plugins = IF p.op \in Relinking THEN p.loaded \cap Plugins ELSE pinned
    <3> HIDE DEF pinned
    <3> QED
      BY <1>2, <1>3, <2>5, WantedOK
  <2>7. built \in Snapshot \cup {None} /\ (built # None <=> rewrites)
        /\ (rewrites => built = snapshot)
    BY <2>4, RecordAssumption
  <2>8. q \in Request
    <3> HIDE DEF built, wanted
    <3> QED
      BY <1>2, <2>6, <2>7 DEF Request
  <2>9. /\ q.op = p.op /\ q.on = p.on /\ q.given = p.given /\ q.seen = p.seen
        /\ q.built = built /\ q.phase = "built" /\ q.loaded = p.loaded /\ q.wanted = wanted
    BY <1>2 DEF Request
  <2>10. rewrites => pinned = PinnedBy(built)
    BY <2>7
  <2>11. rewrites => built.at = clock + 1 /\ built.pins = BuiltPins(p)
    BY <2>7
  <2> HIDE DEF q, wanted, built, pinned, snapshot
  <2>12. BuiltOK(q, snapshots, version, clock')
    <3>1. q.op # "run" /\ q.op # "delete"
      BY <1>3, <2>9 DEF Rewriting, Relinking
    <3>2. q.built # None <=> q.on \in Entrypoints /\ q.op \in Rewriting \cup {"create"}
      BY <1>3, <2>7, <2>9
    <3>3. q.built # None => SnapshotOK(q.built, version, clock')
      BY <2>4, <2>7, <2>9
    <3>4. \A c \in q.wanted \ q.loaded :
            \/ c \in AllListed(q.given)
            \/ q.built # None /\ c \in PinnedBy(q.built)
      BY <2>5, <2>6, <2>7, <2>9, <2>10
    <3> QED
      BY <3>1, <3>2, <3>3, <3>4 DEF BuiltOK
  <2>13. RequestOK(q, created, snapshots, version, clock')
    BY <1>2, <1>3, <2>9, <2>12 DEF RequestOK
  <2>14. MovesTo(w, q)
    <3>1. clock' \in Nat /\ clock <= clock'
      BY <1>2, <1>6
    <3> QED
      BY <1>1, <2>1, <2>8, <2>9, <2>13, <3>1 DEF MovesTo
  <2>15. SnapshotBuilt(q)
    <3>1. CASE rewrites
      BY <2>3, <2>5, <2>6, <2>7, <2>9, <2>10, <2>11, <3>1 DEF SnapshotBuilt
    <3>2. CASE ~rewrites
      BY <2>5, <2>6, <2>7, <2>9, <3>2 DEF SnapshotBuilt
    <3> QED
      BY <3>1, <3>2
  <2> QED
    BY <1>3, <2>9, <2>14, <2>15
<1> QED
  BY <1>4, <1>5, <1>6

-----------------------------------------------------------------------------
(* LinksInv: commits                                                       *)

LEMMA Committing ==
  ASSUME LinksInv, NEW w \in Workers, CommitLinks(w)
  PROVE  /\ Serving(w, {"built"}) /\ request[w] # None /\ request[w] \in Request
         /\ RequestOK(request[w], created, snapshots, version, clock)
         /\ BuiltOK(request[w], snapshots, version, clock)
         /\ request[w].op # "run" /\ request[w].on \in Parents
         /\ Answered(w) /\ UNCHANGED <<deleted, version, jobs, clock, received, overlapped>>
         /\ \/ UNCHANGED <<created, snapshots, linked>>
            \/ /\ ~Conflicts(request[w]) /\ linked' = Flushed(request[w])
               /\ created' = IF request[w].op = "create"
                             THEN created \cup {request[w].on} ELSE created
               /\ snapshots' = IF request[w].built # None
                               THEN [snapshots EXCEPT ![request[w].on] = @ \cup {request[w].built}]
                               ELSE snapshots
PROOF
<1>1. Serving(w, {"built"}) /\ request[w] # None /\ request[w].phase = "built"
      /\ request[w].op # "run"
  BY DEF CommitLinks, Serving
<1>2. request[w] \in Request /\ RequestOK(request[w], created, snapshots, version, clock)
  BY <1>1, Plain
<1>3. BuiltOK(request[w], snapshots, version, clock) /\ request[w].on \in Parents
  BY <1>1, <1>2 DEF RequestOK, Request, Parents
<1> QED
  BY <1>1, <1>2, <1>3 DEF CommitLinks

LEMMA CommitKeepsLinks ==
  ASSUME LinksInv, NEW w \in Workers, CommitLinks(w)
  PROVE  LinksInv'
PROOF
<1> DEFINE p == request[w]
<1>1. /\ Serving(w, {"built"}) /\ p # None /\ p \in Request
      /\ RequestOK(p, created, snapshots, version, clock)
      /\ BuiltOK(p, snapshots, version, clock) /\ p.op # "run" /\ p.on \in Parents
      /\ Answered(w) /\ UNCHANGED <<deleted, version, jobs, clock, received, overlapped>>
  BY Committing
<1>2. TypeOK /\ request \in [Workers -> Request \cup {None}]
      /\ clock \in Nat /\ version \in [Plugins -> Nat]
      /\ snapshots \in [Entrypoints -> SUBSET Snapshot]
  BY DEF LinksInv, TypeOK
<1>3. CASE UNCHANGED <<created, snapshots, linked>>
  <2>1. deleted' \in SUBSET Ids /\ jobs' \in SUBSET Job
    BY <1>1, <1>2 DEF TypeOK
  <2> QED
    BY <1>1, <1>3, <2>1, AnswerKeepsLinks
<1>4. CASE /\ linked' = Flushed(p)
           /\ created' = IF p.op = "create" THEN created \cup {p.on} ELSE created
           /\ snapshots' = IF p.built # None
                           THEN [snapshots EXCEPT ![p.on] = @ \cup {p.built}]
                           ELSE snapshots
  <2>1. p.wanted \in SUBSET Ids /\ p.loaded \in SUBSET Ids
        /\ (p.built # None => p.built \in Snapshot /\ p.on \in Entrypoints)
    BY <1>1 DEF Request, BuiltOK
  <2>2. request' = [request EXCEPT ![w] = None]
    BY <1>1 DEF Answered
  <2>3. linked' \in SUBSET (Parents \X Ids)
    BY <1>1, <1>2, <1>4, <2>1 DEF Flushed, TypeOK, Parents
  <2>4. created' \in SUBSET Parents /\ created \subseteq created' /\ p.on \in created'
    BY <1>1, <1>2, <1>4 DEF TypeOK, Parents, RequestOK
  <2>5. snapshots' \in [Entrypoints -> SUBSET Snapshot]
    BY <1>2, <1>4, <2>1
  <2>6. TypeOK'
    BY <1>1, <1>2, <2>2, <2>3, <2>4, <2>5 DEF TypeOK, Parents
  <2>7. ASSUME NEW e \in Entrypoints PROVE EntrypointOK(e)'
    <3>1. EntrypointOK(e)
      BY DEF LinksInv
    <3>2. CASE e # p.on
      <4>1. snapshots'[e] = snapshots[e] /\ (e \in created <=> e \in created')
        BY <1>2, <1>4, <3>2
      <4> QED
        BY <1>1, <1>2, <3>1, <4>1, EntrypointStaysOK
    <3>3. CASE e = p.on /\ p.built = None
      <4>1. p.op # "create"
        BY <1>1, <3>3 DEF BuiltOK
      <4>2. snapshots'[e] = snapshots[e] /\ (e \in created <=> e \in created')
        BY <1>4, <3>3, <4>1
      <4> QED
        BY <1>1, <1>2, <3>1, <4>2, EntrypointStaysOK
    <3>4. CASE e = p.on /\ p.built # None
      <4>1. snapshots'[e] = snapshots[e] \cup {p.built}
        BY <1>2, <1>4, <3>4
      <4>2. p.built \in Snapshot /\ SnapshotOK(p.built, version, clock)
        BY <1>1, <2>1, <3>4 DEF BuiltOK
      <4>3. snapshots[e] \in SUBSET Snapshot
        BY <1>2
      <4>4. \E s \in snapshots'[e] : Newest(s, snapshots'[e])
        <5>1. snapshots[e] # {} => \E s \in snapshots[e] : Newest(s, snapshots[e])
          BY <3>1 DEF EntrypointOK
        <5>2. \E s \in snapshots[e] \cup {p.built} : Newest(s, snapshots[e] \cup {p.built})
          BY <4>2, <4>3, <5>1, NewestStays
        <5> QED
          BY <4>1, <5>2
      <4>5. \A s \in snapshots'[e] : SnapshotOK(s, version, clock)
        BY <3>1, <4>1, <4>2 DEF EntrypointOK
      <4>6. e \in created' /\ snapshots'[e] # {}
        BY <2>4, <3>4, <4>1
      <4> QED
        BY <1>1, <4>4, <4>5, <4>6 DEF EntrypointOK
    <3> QED
      BY <3>2, <3>3, <3>4
  <2>8. \A e \in Entrypoints : snapshots[e] \subseteq snapshots'[e]
    BY <1>2, <1>4, <2>1
  <2>9. ASSUME NEW v \in Workers, request'[v] # None
        PROVE  RequestOK(request'[v], created', snapshots', version, clock)
    <3>1. v # w /\ request'[v] = request[v] /\ request[v] # None
      BY <1>2, <2>2, <2>9
    <3>2. request[v] \in Request /\ RequestOK(request[v], created, snapshots, version, clock)
      BY <3>1, Plain
    <3>3. request[v].on = p.on => p.op # "create" /\ request[v].op # "create"
      BY <1>1, <3>1 DEF LinksInv, On
    <3>4. request[v].op = "create" => request[v].on \notin created'
      BY <1>4, <3>2, <3>3 DEF RequestOK
    <3> QED
      BY <1>2, <2>4, <2>8, <3>1, <3>2, <3>4, RequestStaysOK
  <2>10. \A u \in Workers, r \in Parents : On(u, r)' => u # w /\ On(u, r) /\ request'[u] = request[u]
    BY <1>2, <2>2 DEF On
  <2>11. \A l \in linked' : l[1] \in created'
    BY <1>4, <2>4 DEF Flushed, LinksInv
  <2>12. \A u, v \in Workers : \A r \in Parents :
           On(u, r)' /\ request'[u].op = "create" /\ On(v, r)' => u = v
    BY <2>10 DEF LinksInv
  <2> QED
    BY <1>1, <2>6, <2>7, <2>9, <2>11, <2>12 DEF LinksInv
<1> QED
  BY <1>3, <1>4, Committing

\* Jobs and deletions are committed without a change of links.
LEMMA OtherCommitsKeepLinks ==
  ASSUME LinksInv, NEW w \in Workers, CommitJob(w) \/ CommitDeletion(w)
  PROVE  LinksInv'
PROOF
<1>1. CASE CommitDeletion(w)
  <2>1. request[w] # None /\ Answered(w) /\ deleted' = deleted \cup {request[w].on}
        /\ UNCHANGED <<created, version, snapshots, linked, jobs, clock, received, overlapped>>
    BY <1>1 DEF CommitDeletion, Serving
  <2>2. request[w].on \in Ids /\ TypeOK
    BY <2>1, Plain DEF Request, Ids
  <2>3. deleted' \in SUBSET Ids /\ jobs' \in SUBSET Job
    BY <2>1, <2>2 DEF TypeOK
  <2> QED
    BY <2>1, <2>3, AnswerKeepsLinks
<1>2. CASE CommitJob(w)
  <2> DEFINE p == request[w]
  <2>1. p # None /\ Answered(w) /\ p.op = "run" /\ p.phase = "built"
        /\ UNCHANGED <<created, deleted, version, snapshots, linked, clock, received,
                       overlapped>>
    BY <1>2 DEF CommitJob, Serving
  <2>2. p \in Request /\ RequestOK(p, created, snapshots, version, clock) /\ TypeOK
    BY <2>1, Plain
  <2>3. p.built \in Snapshot /\ p.on \in Experiments /\ GivenOK(p.given)
    BY <2>1, <2>2 DEF RequestOK, BuiltOK, Request
  <2>4. PICK e \in Listed(p.given, {"entrypoint"}), u \in Listed(p.given, {"queue"}) :
          jobs' = jobs \cup {[experiment |-> p.on, entrypoint |-> e, queue |-> u,
                              snapshot |-> p.built]}
    BY <1>2 DEF CommitJob
  <2>5. e \in Entrypoints /\ u \in Queues
    BY <2>3 DEF Listed, GivenOK
  <2>6. jobs' \in SUBSET Job /\ deleted' \in SUBSET Ids
    BY <2>1, <2>2, <2>3, <2>4, <2>5 DEF TypeOK, Job
  <2> QED
    BY <2>1, <2>6, AnswerKeepsLinks
<1> QED
  BY <1>1, <1>2

LEMMA ChildrenKeepLinks == LinksInv /\ ChangeChild => LinksInv'
PROOF
<1> SUFFICES ASSUME LinksInv, ChangeChild PROVE LinksInv'
  OBVIOUS
<1>1. TypeOK /\ request \in [Workers -> Request \cup {None}]
      /\ clock \in Nat /\ version \in [Plugins -> Nat] /\ deleted \in SUBSET Ids
      /\ received \in Nat
  BY DEF LinksInv, TypeOK
<1>2. UNCHANGED <<created, snapshots, linked, jobs, request, clock, overlapped>>
      /\ received' = received + 1
  BY DEF ChangeChild
<1>3. deleted' \in SUBSET Ids /\ version' \in [Plugins -> Nat]
      /\ \A p \in Plugins : version[p] <= version'[p]
  <2>1. CASE /\ \E c \in (Queues \cup Plugins) \ deleted : deleted' = deleted \cup {c}
             /\ UNCHANGED version
    BY <1>1, <2>1 DEF Ids
  <2>2. CASE /\ \E p \in Plugins \ deleted : version' = [version EXCEPT ![p] = @ + 1]
             /\ UNCHANGED deleted
    BY <1>1, <2>2
  <2> QED
    BY <2>1, <2>2 DEF ChangeChild
<1>4. TypeOK'
  BY <1>1, <1>2, <1>3 DEF TypeOK
<1>5. \A e \in Entrypoints : EntrypointOK(e)'
  BY <1>1, <1>2, <1>3, EntrypointStaysOK DEF LinksInv
<1>6. ASSUME NEW v \in Workers, request[v] # None
      PROVE  RequestOK(request[v], created, snapshots, version', clock)
  <2>1. request[v] \in Request /\ RequestOK(request[v], created, snapshots, version, clock)
    BY <1>6, Plain
  <2>2. request[v].op = "create" => request[v].on \notin created
    BY <2>1 DEF RequestOK
  <2> QED
    BY <1>1, <1>3, <2>1, <2>2, RequestStaysOK
<1> QED
  BY <1>2, <1>4, <1>5, <1>6 DEF LinksInv, On

LEMMA LinksInit == Init => LinksInv
BY DEF Init, LinksInv, TypeOK, EntrypointOK, On

\* Every step of a worker but the commits leaves links, plugins and snapshots
\* alone and answers or moves the request.
LEMMA ServingSteps ==
  ASSUME LinksInv, NEW w \in Workers,
         \/ LoadEntrypoint(w) \/ LoadExperiment(w)
         \/ Build(w) \/ BuildExperiment(w) \/ BuildJob(w)
  PROVE  LinksInv'
PROOF
<1>1. \/ Answered(w) /\ UNCHANGED <<created, deleted, version, snapshots, linked, jobs,
                                    clock, received, overlapped>>
      \/ \E q : MovesTo(w, q)
  BY LoadingEntrypoint, LoadingExperiment, Building, BuildingExperiment, BuildingJob
<1>2. CASE Answered(w) /\ UNCHANGED <<created, deleted, version, snapshots, linked, jobs,
                                      clock, received, overlapped>>
  <2>1. deleted' \in SUBSET Ids /\ jobs' \in SUBSET Job
    BY <1>2 DEF LinksInv, TypeOK
  <2> QED
    BY <1>2, <2>1, AnswerKeepsLinks
<1>3. ASSUME NEW q, MovesTo(w, q) PROVE LinksInv'
  <2>1. /\ request[w] # None /\ request' = [request EXCEPT ![w] = q] /\ q \in Request
        /\ q.op = request[w].op /\ q.on = request[w].on
        /\ RequestOK(q, created, snapshots, version, clock')
        /\ clock' \in Nat /\ clock <= clock'
        /\ UNCHANGED <<created, deleted, version, snapshots, linked, jobs, received, overlapped>>
    BY <1>3 DEF MovesTo
  <2> QED
    BY <2>1, ServingKeepsLinks
<1> QED
  BY <1>1, <1>2, <1>3

LEMMA LinksStep == LinksInv /\ [Next]_vars => LinksInv'
PROOF
<1> SUFFICES ASSUME LinksInv, [Next]_vars PROVE LinksInv'
  OBVIOUS
<1>1. CASE UNCHANGED vars
  BY <1>1 DEF vars, LinksInv, TypeOK, EntrypointOK, On
<1>2. CASE ChangeChild
  BY <1>2, ChildrenKeepLinks
<1>3. ASSUME NEW w \in Workers, Arrive(w) PROVE LinksInv'
  BY <1>3, Arriving, ReceiveKeepsLinks
<1>4. ASSUME NEW w \in Workers, Serve(w) PROVE LinksInv'
  BY <1>4, ServingSteps, CommitKeepsLinks, OtherCommitsKeepLinks DEF Serve
<1> QED
  BY <1>1, <1>2, <1>3, <1>4 DEF Next

\* Links, snapshots and requests are well formed, however requests overlap.
THEOREM LinksCorrect == Spec => []LinksInv
BY LinksInit, LinksStep, PTL DEF Spec

\* The variables keep their types.
THEOREM LinksTyped == Spec => []TypeOK
BY LinksCorrect, PTL DEF LinksInv

\* A snapshot never pins two versions of a plugin in one role.
THEOREM PinsAreUnique == Spec => []OnePinPerRole
PROOF
<1>1. LinksInv => OnePinPerRole
  BY DEF LinksInv, EntrypointOK, SnapshotOK, OnePin, OnePinPerRole
<1> QED
  BY <1>1, LinksCorrect, PTL

-----------------------------------------------------------------------------
(* Who changes links                                                       *)

\* A step changes the links of a parent only as the commit of a request for
\* that parent, and only those that the request lists, pins or loaded.
THEOREM LinksChangeOnRequest == Spec => LinksFollowRequests
PROOF
<1> DEFINE Followed == \A r \in created, c \in Ids :
             (<<r, c>> \in linked) # (<<r, c>> \in linked') =>
               \E w \in Workers :
                 /\ request[w] # None /\ request'[w] = None /\ request[w].on = r
                 /\ IF <<r, c>> \in linked
                    THEN c \in request[w].loaded
                    ELSE \/ c \in {g.id : g \in request[w].given}
                         \/ request[w].built # None /\ c \in PinnedBy(request[w].built)
<1>1. LinksInv /\ [Next]_vars => [Followed]_vars
  <2> SUFFICES ASSUME LinksInv, Next, NEW r \in created, NEW c \in Ids,
                      (<<r, c>> \in linked) # (<<r, c>> \in linked')
               PROVE  \E w \in Workers :
                        /\ request[w] # None /\ request'[w] = None /\ request[w].on = r
                        /\ IF <<r, c>> \in linked
                           THEN c \in request[w].loaded
                           ELSE \/ c \in {g.id : g \in request[w].given}
                                \/ request[w].built # None /\ c \in PinnedBy(request[w].built)
    OBVIOUS
  <2>1. PICK w \in Workers : CommitLinks(w)
    <3>1. linked' # linked
      OBVIOUS
    <3>2. ~ChangeChild
      BY <3>1 DEF ChangeChild
    <3>3. \A w \in Workers : ~Arrive(w)
      BY <3>1, Arriving DEF Receive
    <3>4. \A w \in Workers : Serve(w) => CommitLinks(w)
      BY <3>1 DEF Serve, LoadEntrypoint, LoadExperiment, Build, BuildExperiment, BuildJob,
                  CommitJob, CommitDeletion
    <3> QED
      BY <3>2, <3>3, <3>4 DEF Next
  <2> DEFINE p == request[w]
  <2>2. /\ p # None /\ p \in Request /\ p.op # "run" /\ Answered(w)
        /\ BuiltOK(p, snapshots, version, clock) /\ linked' = Flushed(p)
    BY <2>1, Committing
  <2>3. request'[w] = None
    BY <2>2 DEF Answered, LinksInv, TypeOK
  <2>4. CASE <<r, c>> \in linked
    <3>1. r = p.on /\ c \in p.loaded
      BY <2>2, <2>4 DEF Flushed
    <3> QED
      BY <2>2, <2>3, <2>4, <3>1
  <2>5. CASE <<r, c>> \notin linked
    <3>1. r = p.on /\ c \in p.wanted \ p.loaded
      BY <2>2, <2>5 DEF Flushed
    <3>2. \/ c \in AllListed(p.given)
          \/ p.built # None /\ c \in PinnedBy(p.built)
      BY <2>2, <3>1 DEF BuiltOK
    <3> QED
      BY <2>2, <2>3, <2>5, <3>1, <3>2 DEF AllListed
  <2> QED
    BY <2>4, <2>5
<1> QED
  BY <1>1, LinksCorrect, PTL DEF Spec, LinksFollowRequests

-----------------------------------------------------------------------------
(* AloneInv: parents whose requests never overlapped                       *)

NoOlder(old, new) ==
  \A m \in old, n \in new :
    m.role = n.role /\ m.plugin = n.plugin => m.version <= n.version

\* The snapshot that a request is to commit is newer than the others.
PinsReady(q, snaps) ==
  IF q.built = None
  THEN q.wanted \cap Plugins = q.loaded \cap Plugins
  ELSE /\ q.wanted \cap Plugins = PinnedBy(q.built)
       /\ \A s \in snaps : s.at < q.built.at /\ NoOlder(s.pins, q.built.pins)

\* A request q for a parent with these rows and, of an entrypoint, snapshots.
AloneOK(q, rows, snaps) ==
  /\ q.seen # None => Newest(q.seen, snaps)
  /\ q.op = "run" => Listed(q.given, {"entrypoint"}) \subseteq rows
  /\ q.phase = "loaded" => q.loaded = rows
  /\ q.phase = "built" /\ q.op # "run" =>
       /\ q.loaded = rows
       /\ AppendOK(q)
       /\ q.on \in Entrypoints => PinsReady(q, snaps)

EntrypointAlone(rows, snaps) ==
  /\ \A s, t \in snaps : s.at = t.at => s = t
  /\ \A s, t \in snaps : s.at < t.at => NoOlder(s.pins, t.pins)
  /\ \A s \in snaps : Newest(s, snaps) => rows \cap Plugins = PinnedBy(s)

AloneInv ==
  \A r \in Parents \ overlapped :
    /\ \A v, w \in Workers : On(v, r) /\ On(w, r) => v = w
    /\ \A w \in Workers : On(w, r) => AloneOK(request[w], Rows(r, linked), snapshots[r])
    /\ r \in Entrypoints => EntrypointAlone(Rows(r, linked), snapshots[r])

LEMMA AloneInit == Init => AloneInv
BY DEF Init, AloneInv, On, EntrypointAlone

\* No link is committed, and of a parent that stays alone each request stays,
\* ends, or moves to one that is well informed.
LEMMA AloneMoves ==
  ASSUME AloneInv, UNCHANGED <<linked, snapshots>>, overlapped \subseteq overlapped',
         NEW w \in Workers, \A v \in Workers \ {w} : request'[v] = request[v],
         \A r \in Parents \ overlapped' : On(w, r)' =>
            /\ AloneOK(request'[w], Rows(r, linked), snapshots[r])
            /\ On(w, r) \/ \A v \in Workers \ {w} : ~On(v, r)
  PROVE  AloneInv'
PROOF
<1> SUFFICES ASSUME NEW r \in Parents \ overlapped'
             PROVE  /\ \A u, v \in Workers : On(u, r)' /\ On(v, r)' => u = v
                    /\ \A v \in Workers : On(v, r)' =>
                         AloneOK(request'[v], Rows(r, linked), snapshots[r])
                    /\ r \in Entrypoints => EntrypointAlone(Rows(r, linked), snapshots[r])
  BY DEF AloneInv, Rows
<1>1. r \in Parents \ overlapped
  OBVIOUS
<1>2. \A v \in Workers \ {w} : On(v, r)' <=> On(v, r)
  BY DEF On
<1>3. \A u, v \in Workers : On(u, r) /\ On(v, r) => u = v
  BY <1>1 DEF AloneInv
<1>4. \A v \in Workers : On(v, r)' => AloneOK(request'[v], Rows(r, linked), snapshots[r])
  BY <1>1, <1>2 DEF AloneInv
<1>5. \A u, v \in Workers : On(u, r)' /\ On(v, r)' => u = v
  BY <1>2, <1>3
<1> QED
  BY <1>1, <1>4, <1>5 DEF AloneInv

LEMMA AnswerKeepsAlone ==
  ASSUME LinksInv, AloneInv, NEW w \in Workers, Answered(w),
         UNCHANGED <<linked, snapshots, overlapped>>
  PROVE  AloneInv'
PROOF
<1>1. request'[w] = None /\ \A v \in Workers \ {w} : request'[v] = request[v]
  BY DEF Answered, LinksInv, TypeOK
<1>2. \A r \in Parents : ~On(w, r)'
  BY <1>1 DEF On
<1> QED
  BY <1>1, <1>2, AloneMoves

\* A request that moves keeps its parent.
LEMMA MoveKeepsAlone ==
  ASSUME LinksInv, AloneInv, NEW w \in Workers, NEW q, MovesTo(w, q),
         q.on \notin overlapped => AloneOK(q, Rows(q.on, linked), snapshots[q.on])
  PROVE  AloneInv'
PROOF
<1>1. request'[w] = q /\ q.on = request[w].on /\ request[w] # None /\ q # None
      /\ \A v \in Workers \ {w} : request'[v] = request[v]
  BY RecordAssumption DEF MovesTo, LinksInv, TypeOK
<1>2. UNCHANGED <<linked, snapshots, overlapped>>
  BY DEF MovesTo
<1>3. \A r \in Parents \ overlapped' : On(w, r)' =>
        /\ AloneOK(request'[w], Rows(r, linked), snapshots[r])
        /\ On(w, r)
  BY <1>1, <1>2 DEF On
<1> QED
  BY <1>1, <1>2, <1>3, AloneMoves

\* What is received knows the latest snapshot; nobody else is at the parent
\* unless the parent is overlapped from now on.
LEMMA ReceiveKeepsAlone ==
  ASSUME LinksInv, AloneInv, NEW w \in Workers, NEW op, NEW r, NEW given,
         Asked(op, r, given), Receive(w, Order(op, r, given)),
         op = "run" => \A e \in Listed(given, {"entrypoint"}) : <<r, e>> \in linked
  PROVE  AloneInv'
PROOF
<1> DEFINE q == Order(op, r, given)
<1>1. /\ q.op = op /\ q.on = r /\ q.given = given /\ q.phase = "received"
      /\ q.seen = IF r \in Entrypoints /\ snapshots[r] # {} THEN Latest(r) ELSE None
  BY DEF Order
<1>2. q \in Request /\ q # None
  BY OrderOK, RecordAssumption
<1>3. /\ request[w] = None /\ request'[w] = q
      /\ \A v \in Workers \ {w} : request'[v] = request[v]
      /\ UNCHANGED <<linked, snapshots>>
      /\ overlapped' = IF \E v \in Workers : request[v] # None /\ request[v].on = q.on
                       THEN overlapped \cup {q.on} ELSE overlapped
  BY DEF Receive, LinksInv, TypeOK
<1>4. q.seen # None => Newest(q.seen, snapshots[r])
  <2> SUFFICES ASSUME r \in Entrypoints, snapshots[r] # {} PROVE Newest(Latest(r), snapshots[r])
    BY <1>1
  <2> QED
    BY LatestIsNewest DEF LinksInv
<1>5. op = "run" => Listed(given, {"entrypoint"}) \subseteq Rows(r, linked)
  <2>1. AllListed(given) \subseteq Ids /\ Listed(given, {"entrypoint"}) \subseteq AllListed(given)
    BY DEF Asked, Given, AllListed, Listed
  <2> QED
    BY <2>1 DEF Rows
<1> HIDE DEF q
<1>6. AloneOK(q, Rows(r, linked), snapshots[r])
  BY <1>1, <1>4, <1>5 DEF AloneOK
<1>7. \A x \in Parents \ overlapped' : On(w, x)' =>
        /\ AloneOK(request'[w], Rows(x, linked), snapshots[x])
        /\ On(w, x) \/ \A v \in Workers \ {w} : ~On(v, x)
  <2> SUFFICES ASSUME NEW x \in Parents \ overlapped', On(w, x)'
               PROVE  /\ AloneOK(request'[w], Rows(x, linked), snapshots[x])
                      /\ \A v \in Workers \ {w} : ~On(v, x)
    OBVIOUS
  <2>1. x = r
    BY <1>1, <1>3 DEF On
  <2> QED
    BY <1>1, <1>3, <1>6, <2>1 DEF On
<1>8. overlapped \subseteq overlapped'
  BY <1>3
<1> QED
  BY <1>3, <1>7, <1>8, AloneMoves

\* What the request of a parent that was never overlapped knows.
LEMMA AloneKnows ==
  ASSUME LinksInv, AloneInv, NEW w \in Workers, request[w] # None,
         request[w].on \notin overlapped
  PROVE  /\ AloneOK(request[w], Rows(request[w].on, linked), snapshots[request[w].on])
         /\ \A v \in Workers \ {w} : ~On(v, request[w].on)
         /\ request[w].on \in Entrypoints =>
              EntrypointAlone(Rows(request[w].on, linked), snapshots[request[w].on])
PROOF
<1>1. request[w].on \in Parents \ overlapped /\ On(w, request[w].on)
  BY Plain DEF Request, Parents, On
<1> QED
  BY <1>1 DEF AloneInv

\* A snapshot that is built from the latest one is newer in every pin.
LEMMA BuiltIsNewer ==
  ASSUME LinksInv, NEW q, NEW e \in Entrypoints, q.on = e,
         q.op # "create" => Newest(q.seen, snapshots[e]),
         EntrypointAlone(Rows(e, linked), snapshots[e]), SnapshotBuilt(q)
  PROVE  PinsReady(q, snapshots[e])
PROOF
<1>1. CASE q.built = None
  BY <1>1 DEF SnapshotBuilt, PinsReady
<1>2. CASE q.built # None
  <2>1. /\ q.wanted \cap Plugins = PinnedBy(q.built)
        /\ q.built.at = clock + 1
        /\ \A n \in q.built.pins : \/ q.op # "create" /\ n \in q.seen.pins
                                   \/ n.version = version[n.plugin]
    BY <1>2 DEF SnapshotBuilt
  <2>2. snapshots[e] \in SUBSET Snapshot /\ EntrypointOK(e) /\ clock \in Nat
        /\ version \in [Plugins -> Nat]
    BY DEF LinksInv, TypeOK
  <2>3. ASSUME NEW s \in snapshots[e] PROVE s.at < q.built.at
    <3>1. s.at \in Nat /\ s.at <= clock
      BY <2>2 DEF Snapshot, EntrypointOK, SnapshotOK
    <3> QED
      BY <2>1, <2>2, <3>1
  <2>4. ASSUME NEW s \in snapshots[e] PROVE NoOlder(s.pins, q.built.pins)
    <3> SUFFICES ASSUME NEW m \in s.pins, NEW n \in q.built.pins,
                        m.role = n.role, m.plugin = n.plugin
                 PROVE  m.version <= n.version
      BY DEF NoOlder
    <3>1. m \in Pin /\ m.version <= version[m.plugin] /\ s.at \in Nat
      BY <2>2 DEF EntrypointOK, SnapshotOK, Snapshot
    <3>2. CASE n.version = version[n.plugin]
      BY <3>1, <3>2
    <3>3. CASE q.op # "create" /\ n \in q.seen.pins
      <4>1. q.seen \in snapshots[e] /\ s.at <= q.seen.at /\ q.seen.at \in Nat
        BY <2>2, <3>3 DEF Newest, Snapshot
      <4>2. CASE s.at = q.seen.at
        <5>1. s = q.seen
          BY <4>1, <4>2 DEF EntrypointAlone
        <5>2. m = n
          BY <2>2, <3>3, <5>1 DEF EntrypointOK, SnapshotOK, OnePin
        <5>3. m.version \in Nat
          BY <3>1 DEF Pin
        <5> QED
          BY <5>2, <5>3
      <4>3. CASE s.at # q.seen.at
        <5>1. s.at < q.seen.at
          BY <3>1, <4>1, <4>3
        <5> QED
          BY <3>3, <4>1, <5>1 DEF EntrypointAlone, NoOlder
      <4> QED
        BY <4>2, <4>3
    <3> QED
      BY <2>1, <3>2, <3>3
  <2> QED
    BY <1>2, <2>1, <2>3, <2>4 DEF PinsReady
<1> QED
  BY <1>1, <1>2

\* The requests that load and build stay well informed.
LEMMA ServingKeepsAlone ==
  ASSUME LinksInv, AloneInv, NEW w \in Workers,
         \/ LoadEntrypoint(w) \/ LoadExperiment(w)
         \/ Build(w) \/ BuildExperiment(w) \/ BuildJob(w)
  PROVE  AloneInv'
PROOF
<1>1. CASE Answered(w) /\ UNCHANGED <<linked, snapshots, overlapped>>
  BY <1>1, AnswerKeepsAlone
<1>2. ASSUME NEW q, MovesTo(w, q), q.on \notin overlapped
      PROVE  /\ q.seen # None => Newest(q.seen, snapshots[q.on])
             /\ q.op = "run" => Listed(q.given, {"entrypoint"}) \subseteq Rows(q.on, linked)
  <2>1. /\ request[w] # None /\ q.on = request[w].on /\ q.seen = request[w].seen
        /\ q.op = request[w].op /\ q.given = request[w].given
    BY <1>2 DEF MovesTo
  <2>2. AloneOK(request[w], Rows(request[w].on, linked), snapshots[request[w].on])
    BY <1>2, <2>1, AloneKnows
  <2> QED
    BY <2>1, <2>2 DEF AloneOK
<1>3. CASE LoadEntrypoint(w)
  <2>1. ASSUME NEW q, MovesTo(w, q), q.phase = "loaded", LoadedOK(q) PROVE AloneInv'
    <3>1. q.on \notin overlapped => AloneOK(q, Rows(q.on, linked), snapshots[q.on])
      BY <1>2, <2>1 DEF AloneOK, LoadedOK
    <3> QED
      BY <2>1, <3>1, MoveKeepsAlone
  <2> QED
    BY <1>1, <1>3, <2>1, LoadingEntrypoint
<1>4. CASE LoadExperiment(w)
  <2>1. PICK q : /\ MovesTo(w, q) /\ q.phase = "built" /\ q.op \in Grouping
                 /\ LoadedOK(q) /\ AppendOK(q)
    BY <1>4, LoadingExperiment
  <2>2. q.on \notin Entrypoints
    BY <2>1, IdsAssumption DEF MovesTo, RequestOK
  <2>3. q.on \notin overlapped => AloneOK(q, Rows(q.on, linked), snapshots[q.on])
    BY <1>2, <2>1, <2>2 DEF AloneOK, LoadedOK
  <2> QED
    BY <2>1, <2>3, MoveKeepsAlone
<1>5. CASE BuildExperiment(w)
  <2>1. ASSUME NEW q, MovesTo(w, q), q.phase = "built", q.op = "create", q.loaded = {},
               q.on \in Experiments
        PROVE  AloneInv'
    <3>1. q.on \notin Entrypoints /\ q.on \notin created
      BY <2>1, IdsAssumption DEF MovesTo, RequestOK
    <3>2. Rows(q.on, linked) = {}
      BY <3>1 DEF Rows, LinksInv
    <3>3. q.on \notin overlapped => AloneOK(q, Rows(q.on, linked), snapshots[q.on])
      BY <1>2, <2>1, <3>1, <3>2 DEF AloneOK, AppendOK
    <3> QED
      BY <2>1, <3>3, MoveKeepsAlone
  <2> QED
    BY <1>1, <1>5, <2>1, BuildingExperiment
<1>6. CASE BuildJob(w)
  <2>1. ASSUME NEW q, MovesTo(w, q), q.phase = "built", q.op = "run" PROVE AloneInv'
    <3>1. q.on \notin overlapped => AloneOK(q, Rows(q.on, linked), snapshots[q.on])
      BY <1>2, <2>1 DEF AloneOK
    <3> QED
      BY <2>1, <3>1, MoveKeepsAlone
  <2> QED
    BY <1>1, <1>6, <2>1, BuildingJob
<1>7. CASE Build(w)
  <2>1. ASSUME NEW q, MovesTo(w, q), q.phase = "built", q.on \in Entrypoints,
               q.op \in Rewriting \cup Relinking \cup {"create"},
               q.op # "create" => request[w].phase = "loaded",
               q.loaded = request[w].loaded, q.op = "create" => q.loaded = {},
               SnapshotBuilt(q)
        PROVE  AloneInv'
    <3>1. ASSUME q.on \notin overlapped
          PROVE  AloneOK(q, Rows(q.on, linked), snapshots[q.on])
      <4>1. request[w] # None /\ q.on = request[w].on /\ q.op = request[w].op
            /\ RequestOK(q, created, snapshots, version, clock')
        BY <2>1 DEF MovesTo
      <4>2. AloneOK(request[w], Rows(q.on, linked), snapshots[q.on])
            /\ EntrypointAlone(Rows(q.on, linked), snapshots[q.on])
        BY <2>1, <3>1, <4>1, AloneKnows
      <4>3. q.loaded = Rows(q.on, linked)
        <5>1. CASE q.op = "create"
          <6>1. Rows(q.on, linked) = {}
            BY <4>1, <5>1 DEF RequestOK, Rows, LinksInv
          <6> QED
            BY <2>1, <5>1, <6>1
        <5>2. CASE q.op # "create"
          BY <2>1, <4>2, <5>2 DEF AloneOK
        <5> QED
          BY <5>1, <5>2
      <4>4. q.op # "create" => Newest(q.seen, snapshots[q.on])
        BY <1>2, <2>1, <3>1, <4>1 DEF RequestOK
      <4>5. PinsReady(q, snapshots[q.on])
        BY <2>1, <4>2, <4>4, BuiltIsNewer
      <4>6. q.op # "run" /\ q.op # "append_entrypoints"
        BY <2>1 DEF Rewriting, Relinking
      <4> QED
        BY <1>2, <2>1, <3>1, <4>3, <4>5, <4>6 DEF AloneOK, AppendOK
    <3> QED
      BY <2>1, <3>1, MoveKeepsAlone
  <2> QED
    BY <1>1, <1>7, <2>1, Building
<1> QED
  BY <1>3, <1>4, <1>5, <1>6, <1>7

\* A newer snapshot joins those of an entrypoint, with the plugins it pins.
LEMMA NewerJoins ==
  ASSUME NEW S \in SUBSET Snapshot, NEW b \in Snapshot, NEW rows, NEW wanted,
         EntrypointAlone(rows, S),
         \A s \in S : s.at < b.at /\ NoOlder(s.pins, b.pins),
         wanted \cap Plugins = PinnedBy(b)
  PROVE  EntrypointAlone(wanted, S \cup {b})
PROOF
<1>1. \A s \in S \cup {b} : s.at \in Nat
  BY DEF Snapshot
<1>2. \A s, t \in S \cup {b} : s.at = t.at => s = t
  BY <1>1 DEF EntrypointAlone
<1>3. ASSUME NEW s \in S \cup {b}, NEW t \in S \cup {b}, s.at < t.at
      PROVE  NoOlder(s.pins, t.pins)
  <2>1. CASE s \in S /\ t \in S
    BY <1>3, <2>1 DEF EntrypointAlone
  <2>2. CASE s \in S /\ t = b
    BY <2>2
  <2>3. CASE s = b
    BY <1>1, <1>3, <2>3
  <2> QED
    BY <2>1, <2>2, <2>3
<1>4. ASSUME NEW s \in S \cup {b}, Newest(s, S \cup {b})
      PROVE  s = b
  <2>1. b.at <= s.at
    BY <1>4 DEF Newest
  <2> QED
    BY <1>1, <2>1
<1> QED
  BY <1>2, <1>3, <1>4 DEF EntrypointAlone

LEMMA CommitKeepsAlone ==
  ASSUME LinksInv, AloneInv, NEW w \in Workers, CommitLinks(w)
  PROVE  AloneInv'
PROOF
<1> DEFINE p == request[w]
<1>1. /\ p # None /\ p \in Request /\ p.phase = "built" /\ p.op # "run" /\ p.on \in Parents
      /\ BuiltOK(p, snapshots, version, clock)
      /\ Answered(w) /\ UNCHANGED <<deleted, version, jobs, clock, received, overlapped>>
  BY Committing DEF Serving
<1>2. snapshots \in [Entrypoints -> SUBSET Snapshot] /\ request \in [Workers -> Request \cup {None}]
  BY DEF LinksInv, TypeOK
<1>3. CASE UNCHANGED <<created, snapshots, linked>>
  BY <1>1, <1>3, AnswerKeepsAlone
<1>4. CASE /\ linked' = Flushed(p)
           /\ snapshots' = IF p.built # None
                           THEN [snapshots EXCEPT ![p.on] = @ \cup {p.built}]
                           ELSE snapshots
  <2>1. request'[w] = None /\ \A v \in Workers \ {w} : request'[v] = request[v]
    BY <1>1, <1>2 DEF Answered
  <2>2. \A v \in Workers, r \in Parents : On(v, r)' => v # w /\ On(v, r) /\ request'[v] = request[v]
    BY <2>1 DEF On
  <2> SUFFICES ASSUME NEW r \in Parents \ overlapped
               PROVE  /\ \A u, v \in Workers : On(u, r)' /\ On(v, r)' => u = v
                      /\ \A v \in Workers : On(v, r)' =>
                           AloneOK(request'[v], Rows(r, linked'), snapshots'[r])
                      /\ r \in Entrypoints => EntrypointAlone(Rows(r, linked'), snapshots'[r])
    BY <1>1 DEF AloneInv
  <2>3. \A u, v \in Workers : On(u, r)' /\ On(v, r)' => u = v
    BY <2>2 DEF AloneInv
  <2>4. CASE r # p.on
    <3>1. Rows(r, linked') = Rows(r, linked)
      BY <1>4, <2>4 DEF Rows, Flushed
    <3>2. snapshots'[r] = snapshots[r]
      BY <1>2, <1>4, <2>4
    <3> QED
      BY <2>2, <2>3, <3>1, <3>2 DEF AloneInv
  <2>5. CASE r = p.on
    <3>1. AloneOK(p, Rows(r, linked), snapshots[r])
          /\ (r \in Entrypoints => EntrypointAlone(Rows(r, linked), snapshots[r]))
          /\ \A v \in Workers \ {w} : ~On(v, r)
      BY <1>1, <2>5, AloneKnows
    <3>2. p.loaded = Rows(r, linked) /\ (r \in Entrypoints => PinsReady(p, snapshots[r]))
      BY <1>1, <2>5, <3>1 DEF AloneOK
    <3>3. p.wanted \in SUBSET Ids
      BY <1>1 DEF Request
    <3>4. Rows(r, linked') = p.wanted
      BY <1>4, <2>5, <3>2, <3>3 DEF Rows, Flushed
    <3>5. \A v \in Workers : ~On(v, r)'
      BY <2>2, <3>1
    <3>6. ASSUME r \in Entrypoints
          PROVE  EntrypointAlone(Rows(r, linked'), snapshots'[r])
      <4>1. CASE p.built = None
        <5>1. snapshots'[r] = snapshots[r]
              /\ Rows(r, linked') \cap Plugins = Rows(r, linked) \cap Plugins
          BY <1>4, <3>2, <3>4, <3>6, <4>1 DEF PinsReady
        <5> QED
          BY <3>1, <3>6, <5>1 DEF EntrypointAlone
      <4>2. CASE p.built # None
        <5>1. /\ p.wanted \cap Plugins = PinnedBy(p.built)
              /\ \A s \in snapshots[r] : s.at < p.built.at /\ NoOlder(s.pins, p.built.pins)
          BY <3>2, <3>6, <4>2 DEF PinsReady
        <5>2. snapshots'[r] = snapshots[r] \cup {p.built}
          BY <1>2, <1>4, <2>5, <3>6, <4>2
        <5>3. p.built \in Snapshot /\ snapshots[r] \in SUBSET Snapshot
          BY <1>1, <1>2, <3>6, <4>2 DEF Request
        <5>4. EntrypointAlone(p.wanted, snapshots[r] \cup {p.built})
          BY <3>1, <3>6, <5>1, <5>3, NewerJoins
        <5> QED
          BY <3>4, <5>2, <5>4
      <4> QED
        BY <4>1, <4>2
    <3> QED
      BY <2>3, <3>5, <3>6
  <2> QED
    BY <2>4, <2>5
<1> QED
  BY <1>3, <1>4, Committing

LEMMA AloneStep == LinksInv /\ AloneInv /\ [Next]_vars => AloneInv'
PROOF
<1> SUFFICES ASSUME LinksInv, AloneInv, [Next]_vars PROVE AloneInv'
  OBVIOUS
<1>1. CASE UNCHANGED <<linked, snapshots, request, overlapped>>
  BY <1>1 DEF AloneInv, On
<1>2. CASE ChangeChild
  BY <1>1, <1>2 DEF ChangeChild
<1>3. ASSUME NEW w \in Workers, Arrive(w) PROVE AloneInv'
  BY <1>3, Arriving, ReceiveKeepsAlone
<1>4. ASSUME NEW w \in Workers, CommitJob(w) \/ CommitDeletion(w) PROVE AloneInv'
  BY <1>4, AnswerKeepsAlone DEF CommitJob, CommitDeletion
<1>5. ASSUME NEW w \in Workers, Serve(w) PROVE AloneInv'
  BY <1>4, <1>5, ServingKeepsAlone, CommitKeepsAlone DEF Serve
<1> QED
  BY <1>1, <1>2, <1>3, <1>5 DEF Next, vars

\* The requests of a parent that were never overlapped know what is stored.
THEOREM AloneCorrect == Spec => [](LinksInv /\ AloneInv)
BY LinksInit, LinksStep, AloneInit, AloneStep, PTL DEF Spec

\* An entrypoint links the plugins its latest snapshot pins, and its snapshots
\* never go back to an older plugin, while its requests do not overlap.
THEOREM PinsAndLinksAgree == Spec => [](PinnedPluginsAreLinked /\ PinsNeverGoBack)
PROOF
<1>1. LinksInv /\ AloneInv => PinnedPluginsAreLinked
  <2> SUFFICES ASSUME LinksInv, AloneInv, NEW e \in (Entrypoints \cap created) \ overlapped
               PROVE  Children(e) \cap Plugins = PinnedBy(Latest(e))
    BY DEF PinnedPluginsAreLinked
  <2>1. EntrypointOK(e) /\ EntrypointAlone(Rows(e, linked), snapshots[e])
    BY DEF LinksInv, AloneInv, Parents
  <2>2. Newest(Latest(e), snapshots[e])
    BY <2>1, LatestIsNewest DEF EntrypointOK
  <2>3. Latest(e) \in snapshots[e] /\ Children(e) = Rows(e, linked)
    BY <2>2 DEF Newest, Children, Rows
  <2> QED
    BY <2>1, <2>2, <2>3 DEF EntrypointAlone
<1>2. AloneInv => PinsNeverGoBack
  BY DEF AloneInv, EntrypointAlone, NoOlder, PinsNeverGoBack, Parents
<1> QED
  BY <1>1, <1>2, AloneCorrect, PTL

\* A job is registered with a snapshot of its entrypoint and, unless another
\* request for the experiment overlapped, while the two are linked.
THEOREM JobsRunWhatIsLinked == Spec => JobsRunLinkedEntrypoints
PROOF
<1> DEFINE Linked == \A j \in jobs' \ jobs :
             /\ j.snapshot \in snapshots[j.entrypoint]
             /\ j.experiment \notin overlapped => <<j.experiment, j.entrypoint>> \in linked
<1>1. LinksInv /\ AloneInv /\ [Next]_vars => [Linked]_vars
  <2> SUFFICES ASSUME LinksInv, AloneInv, Next, NEW j \in jobs' \ jobs
               PROVE  /\ j.snapshot \in snapshots[j.entrypoint]
                      /\ j.experiment \notin overlapped =>
                           <<j.experiment, j.entrypoint>> \in linked
    OBVIOUS
  <2>1. PICK w \in Workers : CommitJob(w)
    <3>1. jobs' # jobs
      OBVIOUS
    <3>2. ~ChangeChild
      BY <3>1 DEF ChangeChild
    <3>3. \A w \in Workers : ~Arrive(w)
      BY <3>1, Arriving DEF Receive
    <3>4. \A w \in Workers : Serve(w) => CommitJob(w)
      BY <3>1 DEF Serve, LoadEntrypoint, LoadExperiment, Build, BuildExperiment, BuildJob,
                  CommitLinks, CommitDeletion
    <3> QED
      BY <3>2, <3>3, <3>4 DEF Next
  <2> DEFINE p == request[w]
  <2>2. p # None /\ p.op = "run" /\ p.phase = "built"
    BY <2>1 DEF CommitJob, Serving
  <2>3. p \in Request /\ RequestOK(p, created, snapshots, version, clock)
    BY <2>2, Plain
  <2>4. PICK e \in Listed(p.given, {"entrypoint"}), u \in Listed(p.given, {"queue"}) :
          j = [experiment |-> p.on, entrypoint |-> e, queue |-> u, snapshot |-> p.built]
    BY <2>1 DEF CommitJob
  <2>5. j.experiment = p.on /\ j.entrypoint = e /\ j.snapshot = p.built
    BY <2>4
  <2>6. p.built \in snapshots[e]
    BY <2>2, <2>3, <2>4 DEF RequestOK, BuiltOK
  <2>7. p.on \notin overlapped => e \in Rows(p.on, linked)
    BY <2>2, <2>4, AloneKnows DEF AloneOK
  <2> QED
    BY <2>5, <2>6, <2>7 DEF Rows
<1> QED
  BY <1>1, AloneCorrect, PTL DEF Spec, JobsRunLinkedEntrypoints

\* An entrypoint appended to an experiment that nobody else is changing is in
\* its list beside those that were there.
THEOREM AppendsAdd == Spec => AppendKeepsTheOthers
PROOF
<1> DEFINE Added == \A w \in Workers :
             LET q == request[w] IN
             /\ q # None /\ request'[w] = None
             /\ q.phase = "built" /\ q.op = "append_entrypoints"
             /\ q.on \notin overlapped
             => {c \in Ids : <<q.on, c>> \in linked'} =
                  Children(q.on) \cup Listed(q.given, {"entrypoint"})
<1>1. LinksInv /\ AloneInv /\ [Next]_vars => [Added]_vars
  <2> SUFFICES ASSUME LinksInv, AloneInv, Next, NEW w \in Workers,
                      request[w] # None, request'[w] = None,
                      request[w].phase = "built", request[w].op = "append_entrypoints",
                      request[w].on \notin overlapped
               PROVE  {c \in Ids : <<request[w].on, c>> \in linked'} =
                        Children(request[w].on) \cup Listed(request[w].given, {"entrypoint"})
    OBVIOUS
  <2> DEFINE p == request[w]
  <2>0. request \in [Workers -> Request \cup {None}]
    BY DEF LinksInv, TypeOK
  <2>1. CommitLinks(w)
    <3>1. request' # request
      OBVIOUS
    <3>2. ~ChangeChild
      BY <3>1 DEF ChangeChild
    <3>3. \A v \in Workers : ~Arrive(v)
      <4> SUFFICES ASSUME NEW v \in Workers, Arrive(v) PROVE FALSE
        OBVIOUS
      <4>1. PICK op, r, given : Asked(op, r, given) /\ Receive(v, Order(op, r, given))
        BY Arriving
      <4>2. request[v] = None /\ request' = [request EXCEPT ![v] = Order(op, r, given)]
        BY <4>1 DEF Receive
      <4> QED
        BY <2>0, <4>2
    <3>4. PICK v \in Workers : Serve(v)
      BY <3>2, <3>3 DEF Next
    <3>5. v = w
      <4>1. CASE Answered(v) \/ \E q : MovesTo(v, q)
        BY <2>0, <4>1 DEF Answered, MovesTo
      <4> QED
        BY <3>4, <4>1, LoadingEntrypoint, LoadingExperiment, Building, BuildingExperiment,
           BuildingJob DEF Serve, CommitLinks, CommitJob, CommitDeletion
    <3> QED
      BY <3>4, <3>5 DEF Serve, LoadEntrypoint, LoadExperiment, Build, BuildExperiment,
                        BuildJob, CommitJob, CommitDeletion, Serving
  <2>2. AloneOK(p, Rows(p.on, linked), snapshots[p.on])
    BY AloneKnows
  <2>3. p.loaded = Rows(p.on, linked)
        /\ p.wanted = p.loaded \cup Listed(p.given, {"entrypoint"})
    BY <2>2 DEF AloneOK, AppendOK
  <2>4. p \in Request
    BY <2>1, Committing
  <2>5. ~Conflicts(p)
    BY <2>3, <2>4 DEF Conflicts, Rows, Request
  <2>6. linked' = Flushed(p)
    BY <2>1, <2>5 DEF CommitLinks
  <2>7. {c \in Ids : <<p.on, c>> \in linked'} = p.wanted
    <3>1. p.wanted \in SUBSET Ids
      BY <2>4 DEF Request
    <3>2. p.loaded = Rows(p.on, linked)
      BY <2>3
    <3> QED
      BY <2>6, <3>1, <3>2 DEF Flushed, Rows
  <2> QED
    BY <2>3, <2>7 DEF Rows, Children
<1> QED
  BY <1>1, AloneCorrect, PTL DEF Spec, AppendKeepsTheOthers
=============================================================================
