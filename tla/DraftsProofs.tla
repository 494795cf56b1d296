---------------------------- MODULE DraftsProofs ----------------------------
(***************************************************************************)
(* Theorems about Drafts, for every value of its constants.                *)
(*                                                                         *)
(* The argument has two layers.  DraftInv holds however requests overlap:  *)
(* the base of a draft is a snapshot of its resource, and no id or stamp   *)
(* is ahead of the counters.  Upon it, AloneInv speaks of the resources    *)
(* and drafts whose requests never overlapped: what a request for one of   *)
(* them found at its head is still so when it commits, and ids and stamps  *)
(* put the snapshots in the same order.                                    *)
(***************************************************************************)
EXTENDS Drafts, TLAPS

\* The snapshots of a resource have one that was built last.
LatestExists(r) ==
  \E s \in resource[r].snapshots : \A t \in resource[r].snapshots : t.at <= s.at

ResourceOK(r) ==
  resource[r] # None =>
    /\ LatestExists(r)
    /\ \A s \in resource[r].snapshots : s.id <= ids /\ s.at <= clock

\* The base is a snapshot of the resource.
BaseKnown(r, base) ==
  r # None =>
    /\ resource[r] # None
    /\ \E s \in resource[r].snapshots : s.id = base

DraftOK(d) == draft[d] # None => BaseKnown(draft[d].of, draft[d].base)

RequestOK(q) ==
  /\ q.of # None => resource[q.of] # None
  /\ q.op \in {"create_draft", "modify"} => q.draft = None /\ q.of # None
  /\ q.op = "create_draft" => q.user # None
  /\ q.op \in {"modify_draft", "commit_draft"} =>
       q.draft # None /\ draft[q.draft] # None /\ draft[q.draft].of = q.of
  /\ q.op \in {"create_draft", "modify_draft"} => BaseKnown(q.of, q.base)
  /\ q.at <= clock /\ q.id <= ids

DraftInv ==
  /\ TypeOK
  /\ \A r \in Resources : ResourceOK(r)
  /\ \A d \in DraftIds : DraftOK(d)
  /\ \A w \in Workers : request[w] # None => RequestOK(request[w])

-----------------------------------------------------------------------------
(* What every step keeps                                                   *)

\* Snapshots stay, drafts keep their resource, the counters do not go back.
Grows ==
  /\ ids <= ids' /\ clock <= clock'
  /\ \A r \in Resources : resource[r] # None =>
       /\ resource'[r] # None
       /\ resource[r].snapshots \subseteq resource'[r].snapshots
  /\ \A d \in DraftIds : draft[d] # None =>
       draft'[d] # None /\ draft'[d].of = draft[d].of

LEMMA Typed ==
  ASSUME TypeOK
  PROVE  /\ ids \in Nat /\ clock \in Nat
         /\ \A r \in Resources : resource[r] # None =>
              /\ resource[r] \in Resource /\ resource[r].snapshots \subseteq Snapshot
              /\ resource[r].deleted \in BOOLEAN
         /\ \A s \in Snapshot : s.id \in Nat /\ s.at \in Nat /\ s.follows \in Nat
         /\ \A d \in DraftIds : draft[d] # None =>
              /\ draft[d] \in Draft /\ draft[d].of \in Resources \cup {None}
              /\ draft[d].base \in Nat
         /\ \A w \in Workers : request[w] # None =>
              /\ request[w] \in Request
              /\ request[w].draft \in DraftIds \cup {None}
              /\ request[w].of \in Resources \cup {None}
              /\ request[w].at \in Nat /\ request[w].id \in Nat
BY DEF TypeOK, Resource, Snapshot, Draft, Request

LEMMA KnownBaseStays ==
  ASSUME Grows, NEW r \in Resources \cup {None}, NEW base, BaseKnown(r, base)
  PROVE  BaseKnown(r, base)'
BY DEF Grows, BaseKnown

LEMMA ResourceKept ==
  ASSUME TypeOK, TypeOK', Grows, NEW r \in Resources, resource'[r] = resource[r],
         ResourceOK(r)
  PROVE  ResourceOK(r)'
PROOF
<1> SUFFICES ASSUME resource[r] # None PROVE ResourceOK(r)'
  BY DEF ResourceOK
<1>1. \A s \in resource[r].snapshots : s.id \in Nat /\ s.at \in Nat
  BY Typed
<1>2. ids \in Nat /\ ids' \in Nat /\ clock \in Nat /\ clock' \in Nat
  BY DEF TypeOK
<1>3. \A s \in resource[r].snapshots : s.id <= ids' /\ s.at <= clock'
  BY <1>1, <1>2 DEF ResourceOK, Grows
<1> QED
  BY <1>3 DEF ResourceOK, LatestExists

LEMMA DraftKept ==
  ASSUME TypeOK, Grows, NEW d \in DraftIds, draft'[d] = draft[d], DraftOK(d)
  PROVE  DraftOK(d)'
PROOF
<1> SUFFICES ASSUME draft[d] # None PROVE DraftOK(d)'
  BY DEF DraftOK
<1>1. draft[d].of \in Resources \cup {None}
  BY Typed
<1>2. BaseKnown(draft[d].of, draft[d].base)
  BY DEF DraftOK
<1> QED
  BY <1>1, <1>2 DEF DraftOK, Grows, BaseKnown

LEMMA RequestKept ==
  ASSUME TypeOK, TypeOK', Grows, NEW w \in Workers, request[w] # None,
         request'[w] = request[w], RequestOK(request[w])
  PROVE  RequestOK(request[w])'
PROOF
<1>1. PICK q \in Request : q = request[w]
  BY Typed
<1>2. q.of \in Resources \cup {None} /\ q.draft \in DraftIds \cup {None}
      /\ q.at \in Nat /\ q.id \in Nat
  BY <1>1 DEF Request
<1>3. BaseKnown(q.of, q.base) => BaseKnown(q.of, q.base)'
  BY <1>2, KnownBaseStays
<1>4. q.at <= clock' /\ q.id <= ids'
  BY <1>1, <1>2 DEF Grows, RequestOK, TypeOK
<1>5. RequestOK(q)'
  BY <1>1, <1>2, <1>3, <1>4 DEF RequestOK, Grows
<1> QED
  BY <1>1, <1>5

\* A step keeps DraftInv when what it changes is right.
LEMMA StepKeeps ==
  ASSUME DraftInv, Grows, TypeOK',
         \A r \in Resources : resource'[r] = resource[r] \/ ResourceOK(r)',
         \A d \in DraftIds : draft'[d] = draft[d] \/ DraftOK(d)',
         \A w \in Workers : request'[w] # None =>
           request'[w] = request[w] \/ RequestOK(request[w])'
  PROVE  DraftInv'
PROOF
<1>1. \A r \in Resources : ResourceOK(r)'
  BY ResourceKept DEF DraftInv
<1>2. \A d \in DraftIds : DraftOK(d)'
  BY DraftKept DEF DraftInv
<1>3. \A w \in Workers : request'[w] # None => RequestOK(request[w])'
  BY RequestKept DEF DraftInv
<1> QED
  BY <1>1, <1>2, <1>3 DEF DraftInv

LEMMA LatestFound ==
  ASSUME DraftInv, NEW r \in Resources, resource[r] # None
  PROVE  /\ Latest(r) \in resource[r].snapshots
         /\ \A t \in resource[r].snapshots : t.at <= Latest(r).at
         /\ Latest(r).id \in Nat
PROOF
<1>1. LatestExists(r)
  BY DEF DraftInv, ResourceOK
<1>2. Latest(r) \in resource[r].snapshots
      /\ \A t \in resource[r].snapshots : t.at <= Latest(r).at
  BY <1>1 DEF LatestExists, Latest, LatestOf
<1> QED
  BY <1>2, Typed DEF DraftInv

LEMMA DraftInit == Init => DraftInv
BY DEF Init, DraftInv, TypeOK, ResourceOK, DraftOK

-----------------------------------------------------------------------------
(* Requests arrive, build and flush                                        *)

LEMMA RequestMoves ==
  ASSUME DraftInv, NEW w \in Workers, NEW q \in Request \cup {None},
         request' = [request EXCEPT ![w] = q], UNCHANGED <<resource, draft>>,
         ids' \in Nat, ids <= ids', clock' \in Nat, clock <= clock', received' \in Nat,
         overlapped' \in SUBSET (Resources \cup DraftIds),
         q # None => RequestOK(q)'
  PROVE  DraftInv'
PROOF
<1>1. TypeOK' /\ Grows
  BY DEF DraftInv, TypeOK, Grows
<1>2. request'[w] = q /\ \A v \in Workers \ {w} : request'[v] = request[v]
  BY DEF DraftInv, TypeOK
<1>3. \A v \in Workers : request'[v] # None =>
        request'[v] = request[v] \/ RequestOK(request[v])'
  BY <1>2 DEF RequestOK
<1> QED
  BY <1>1, <1>3, StepKeeps

LEMMA AnsweredKeeps ==
  ASSUME DraftInv, NEW w \in Workers, Answered(w),
         UNCHANGED <<resource, draft, ids, clock, received, overlapped>>
  PROVE  DraftInv'
PROOF
<1>1. /\ ids' \in Nat /\ ids <= ids' /\ clock' \in Nat /\ clock <= clock'
      /\ received' \in Nat /\ overlapped' \in SUBSET (Resources \cup DraftIds)
      /\ UNCHANGED <<resource, draft>> /\ request' = [request EXCEPT ![w] = None]
  BY DEF DraftInv, TypeOK, Answered
<1> QED
  BY <1>1, RequestMoves

LEMMA ReceiveKeeps ==
  ASSUME DraftInv, NEW w \in Workers, NEW q \in Request, Receive(w, q), RequestOK(q)
  PROVE  DraftInv'
PROOF
<1>1. /\ ids' \in Nat /\ ids <= ids' /\ clock' \in Nat /\ clock <= clock'
      /\ received' \in Nat
  BY DEF Receive, DraftInv, TypeOK
<1>2. overlapped' \in SUBSET (Resources \cup DraftIds)
  BY DEF Receive, DraftInv, TypeOK, Subjects, Request
<1>3. RequestOK(q)'
  BY DEF RequestOK, BaseKnown, Receive
<1> QED
  BY <1>1, <1>2, <1>3, RequestMoves DEF Receive

\* What a request finds at its head.
Fresh(q) ==
  /\ q.op = "create_draft" => ModificationsBy(q.user, q.of) = {}
  /\ q.op = "commit_draft" =>
       draft[q.draft].open /\ (q.of # None => q.base = Latest(q.of).id)
  /\ q.op = "modify" => q.base = 0

\* A request as it arrives.
Received(w, q) ==
  Receive(w, q) /\ RequestOK(q) /\ Fresh(q) /\ q.phase = "fetched"

\* Each request that arrives is one of five.
LEMMA ArrivalOK ==
  ASSUME DraftInv, NEW w \in Workers, Arrive(w)
  PROVE  \E q \in Request : Received(w, q)
PROOF
<1>0. TypeOK /\ ids \in Nat /\ clock \in Nat /\ 0 \in Nat
  BY DEF DraftInv, TypeOK
<1>1. ASSUME NEW u \in Users, NEW r \in Resources, StartModification(w, u, r)
      PROVE  \E q \in Request : Received(w, q)
  <2> DEFINE q == Order("create_draft", None, u, r, Latest(r).id)
  <2>1. resource[r] # None /\ Latest(r) \in resource[r].snapshots /\ Latest(r).id \in Nat
    BY <1>1, LatestFound DEF StartModification, Live
  <2>2. q \in Request
    BY <2>1 DEF Order, Request, Operations
  <2>3. RequestOK(q)
    BY <1>0, <2>1, RecordAssumption DEF RequestOK, Order, BaseKnown
  <2> QED
    BY <1>1, <2>2, <2>3 DEF StartModification, NoModification, Order, Received, Fresh
<1>2. ASSUME NEW d \in DraftIds, NEW base \in Nat, draft[d] # None,
             BaseKnown(draft[d].of, base),
             Receive(w, Order("modify_draft", d, None, draft[d].of, base))
      PROVE  \E q \in Request : Received(w, q)
  <2> DEFINE q == Order("modify_draft", d, None, draft[d].of, base)
  <2>1. draft[d].of \in Resources \cup {None}
    BY <1>0, <1>2, Typed
  <2>2. q \in Request
    BY <1>2, <2>1 DEF Order, Request, Operations
  <2>3. RequestOK(q)
    BY <1>0, <1>2, <2>1, RecordAssumption DEF RequestOK, Order, BaseKnown
  <2> QED
    BY <1>2, <2>2, <2>3 DEF Order, Received, Fresh
<1>3. ASSUME NEW d \in DraftIds, NEW base \in 1..ids, CatchUp(w, d, base)
      PROVE  \E q \in Request : Received(w, q)
  BY <1>0, <1>2, <1>3 DEF CatchUp, Open, Live, MayMoveTo, BaseKnown
<1>4. ASSUME NEW d \in DraftIds, Rewrite(w, d)
      PROVE  \E q \in Request : Received(w, q)
  <2>1. draft[d] # None /\ BaseKnown(draft[d].of, draft[d].base) /\ draft[d].base \in Nat
    BY <1>0, <1>4, Typed DEF Rewrite, Open, DraftInv, DraftOK
  <2> QED
    BY <1>2, <1>4, <2>1 DEF Rewrite
<1>5. ASSUME NEW d \in DraftIds, CommitDraft(w, d)
      PROVE  \E q \in Request : Received(w, q)
  <2> DEFINE q == Order("commit_draft", d, None, draft[d].of, draft[d].base)
  <2>1. draft[d] # None /\ draft[d].of \in Resources \cup {None} /\ draft[d].base \in Nat
    BY <1>0, <1>5, Typed DEF CommitDraft, Open
  <2>2. q \in Request
    BY <2>1 DEF Order, Request, Operations
  <2>3. RequestOK(q)
    BY <1>0, <1>5, <2>1, RecordAssumption
       DEF RequestOK, Order, CommitDraft, UpToDate, Live
  <2> QED
    BY <1>5, <2>2, <2>3 DEF CommitDraft, Order, Received, Fresh, UpToDate, Open
<1>6. ASSUME NEW r \in Resources, Modify(w, r)
      PROVE  \E q \in Request : Received(w, q)
  <2> DEFINE q == Order("modify", None, None, r, 0)
  <2>1. q \in Request
    BY DEF Order, Request, Operations
  <2>2. RequestOK(q)
    BY <1>0, <1>6, RecordAssumption DEF RequestOK, Order, Modify, Live
  <2> QED
    BY <1>6, <2>1, <2>2 DEF Modify, Order, Received, Fresh
<1> QED
  BY <1>1, <1>3, <1>4, <1>5, <1>6 DEF Arrive

LEMMA BuildKeeps ==
  ASSUME DraftInv, NEW w \in Workers, Build(w)
  PROVE  DraftInv'
PROOF
<1>1. PICK q \in Request : q = request[w] /\ RequestOK(q)
  BY RecordAssumption DEF Build, Serving, DraftInv, TypeOK
<1>2. ids \in Nat /\ clock \in Nat /\ clock + 1 \in Nat /\ q.at \in Nat /\ q.id \in Nat
      /\ received' \in Nat /\ overlapped' \in SUBSET (Resources \cup DraftIds)
      /\ ids' = ids /\ ids' \in Nat /\ ids <= ids' /\ UNCHANGED <<resource, draft>>
  BY DEF DraftInv, TypeOK, Request, Build
<1>3. ASSUME NEW p \in Request, RequestOK(p)', request' = [request EXCEPT ![w] = p],
             clock' \in Nat, clock <= clock'
      PROVE  DraftInv'
  BY <1>2, <1>3, RequestMoves
<1>4. CASE clock' = clock + 1
           /\ request' = [request EXCEPT ![w].phase = "built", ![w].at = clock + 1]
  <2>1. PICK p \in Request : p = [q EXCEPT !.phase = "built", !.at = clock + 1]
    BY <1>2 DEF Request
  <2>2. request' = [request EXCEPT ![w] = p]
    BY <1>1, <1>4, <2>1 DEF DraftInv, TypeOK
  <2>3. /\ p.op = q.op /\ p.of = q.of /\ p.draft = q.draft /\ p.user = q.user
        /\ p.base = q.base /\ p.id = q.id /\ p.at = clock + 1
    BY <2>1 DEF Request
  <2>4. RequestOK(p)'
    BY <1>1, <1>2, <1>4, <2>3 DEF RequestOK, BaseKnown, Build
  <2> QED
    <3>1. clock' \in Nat /\ clock <= clock'
      BY <1>2, <1>4
    <3> QED
      BY <1>3, <2>2, <2>4, <3>1
<1>5. CASE request' = [request EXCEPT ![w].phase = "nothing"] /\ clock' = clock
  <2>1. PICK p \in Request : p = [q EXCEPT !.phase = "nothing"]
    BY <1>2 DEF Request
  <2>2. request' = [request EXCEPT ![w] = p]
    BY <1>1, <1>5, <2>1 DEF DraftInv, TypeOK
  <2>3. /\ p.op = q.op /\ p.of = q.of /\ p.draft = q.draft /\ p.user = q.user
        /\ p.base = q.base /\ p.id = q.id /\ p.at = q.at
    BY <2>1 DEF Request
  <2>4. RequestOK(p)'
    BY <1>1, <1>2, <1>5, <2>3 DEF RequestOK, BaseKnown, Build
  <2> QED
    <3>1. clock' \in Nat /\ clock <= clock'
      BY <1>2, <1>5
    <3> QED
      BY <1>3, <2>2, <2>4, <3>1
<1>6. CASE Answered(w) /\ UNCHANGED clock
  BY <1>6, AnsweredKeeps DEF Build
<1> QED
  BY <1>4, <1>5, <1>6 DEF Build

LEMMA FlushKeeps ==
  ASSUME DraftInv, NEW w \in Workers, Flush(w)
  PROVE  DraftInv'
PROOF
<1>1. PICK q \in Request : q = request[w] /\ RequestOK(q)
  BY RecordAssumption DEF Flush, Serving, DraftInv, TypeOK
<1>2. /\ ids \in Nat /\ ids + 1 \in Nat /\ clock \in Nat /\ q.at \in Nat /\ ids' = ids + 1 /\ clock' = clock
      /\ received' \in Nat /\ overlapped' \in SUBSET (Resources \cup DraftIds)
      /\ UNCHANGED <<resource, draft>>
  BY DEF DraftInv, TypeOK, Request, Flush
<1>3. PICK p \in Request : p = [q EXCEPT !.phase = "flushed", !.id = ids + 1]
  BY <1>2 DEF Request
<1>4. request' = [request EXCEPT ![w] = p]
  BY <1>1, <1>3 DEF Flush, DraftInv, TypeOK
<1>5. /\ p.op = q.op /\ p.of = q.of /\ p.draft = q.draft /\ p.user = q.user
      /\ p.base = q.base /\ p.id = ids + 1 /\ p.at = q.at
  BY <1>3 DEF Request
<1>6. RequestOK(p)'
  BY <1>1, <1>2, <1>5 DEF RequestOK, BaseKnown
<1>7. ids' \in Nat /\ ids <= ids' /\ clock' \in Nat /\ clock <= clock'
  BY <1>2
<1> QED
  BY <1>2, <1>4, <1>6, <1>7, RequestMoves

-----------------------------------------------------------------------------
(* Requests that are one step                                              *)

LEMMA CreateResourceKeeps ==
  ASSUME DraftInv, NEW r \in Resources, CreateResource(r)
  PROVE  DraftInv'
PROOF
<1> DEFINE s == [id |-> ids + 1, at |-> clock + 1, follows |-> 0]
           new == [deleted |-> FALSE, snapshots |-> {s}]
<1>1. ids \in Nat /\ clock \in Nat /\ ids + 1 \in Nat /\ clock + 1 \in Nat
      /\ received \in Nat /\ resource \in [Resources -> Resource \cup {None}]
      /\ overlapped \in SUBSET (Resources \cup DraftIds)
  BY DEF DraftInv, TypeOK
<1>2. new \in Resource /\ new # None
  <2>1. s \in Snapshot
    BY <1>1 DEF Snapshot
  <2>2. new \in Resource
    BY <2>1 DEF Resource
  <2> QED
    BY <2>2, RecordAssumption
<1>3. new.snapshots = {s} /\ s.id = ids + 1 /\ s.at = clock + 1
  OBVIOUS
<1> HIDE DEF new, s
<1>4. /\ resource' = [resource EXCEPT ![r] = new] /\ resource[r] = None
      /\ ids' = ids + 1 /\ clock' = clock + 1 /\ received' = received + 1
      /\ overlapped' \in SUBSET (Resources \cup DraftIds)
      /\ UNCHANGED <<draft, request>>
  BY <1>1 DEF CreateResource, AtOnce, new, s
<1>5. TypeOK'
  BY <1>1, <1>2, <1>4 DEF DraftInv, TypeOK
<1>6. Grows
  BY <1>1, <1>2, <1>4 DEF Grows
<1>7. \A p \in Resources : resource'[p] = resource[p] \/ ResourceOK(p)'
  <2>1. resource'[r] = new /\ \A p \in Resources \ {r} : resource'[p] = resource[p]
    BY <1>1, <1>4
  <2>2. ResourceOK(r)'
    BY <1>1, <1>3, <1>4, <2>1 DEF ResourceOK, LatestExists
  <2> QED
    BY <2>1, <2>2
<1> QED
  BY <1>4, <1>5, <1>6, <1>7, StepKeeps

LEMMA DeleteResourceKeeps ==
  ASSUME DraftInv, NEW r \in Resources, DeleteResource(r)
  PROVE  DraftInv'
PROOF
<1>1. /\ resource \in [Resources -> Resource \cup {None}] /\ resource[r] \in Resource
      /\ received \in Nat /\ overlapped \in SUBSET (Resources \cup DraftIds)
  BY DEF DraftInv, TypeOK, DeleteResource, Live
<1> DEFINE gone == [resource[r] EXCEPT !.deleted = TRUE]
<1>2. gone \in Resource /\ gone # None /\ gone.snapshots = resource[r].snapshots
  <2>1. gone \in Resource /\ gone.snapshots = resource[r].snapshots
    BY <1>1 DEF Resource
  <2> QED
    BY <2>1, RecordAssumption
<1>3. resource' = [resource EXCEPT ![r] = gone]
  BY <1>1 DEF DeleteResource
<1> HIDE DEF gone
<1>4. UNCHANGED <<draft, request, ids, clock>> /\ received' = received + 1
      /\ overlapped' \in SUBSET (Resources \cup DraftIds)
  BY <1>1 DEF DeleteResource, AtOnce
<1>5. TypeOK'
  BY <1>1, <1>2, <1>3, <1>4 DEF DraftInv, TypeOK
<1>6. Grows
  BY <1>1, <1>2, <1>3, <1>4 DEF Grows, DraftInv, TypeOK
<1>7. \A p \in Resources : resource'[p] = resource[p] \/ ResourceOK(p)'
  <2>1. resource'[r] = gone /\ \A p \in Resources \ {r} : resource'[p] = resource[p]
    BY <1>1, <1>3
  <2>2. ResourceOK(r)'
    BY <1>1, <1>2, <1>4, <2>1, RecordAssumption DEF ResourceOK, LatestExists, DraftInv
  <2> QED
    BY <2>1, <2>2
<1> QED
  BY <1>4, <1>5, <1>6, <1>7, StepKeeps

\* A draft gets a new row, or a new base, or is closed.
LEMMA DraftMoves ==
  ASSUME DraftInv, NEW d \in DraftIds, NEW row \in Draft,
         draft' = [draft EXCEPT ![d] = row],
         draft[d] # None => row.of = draft[d].of,
         BaseKnown(row.of, row.base),
         UNCHANGED <<resource, ids, clock>>,
         received' \in Nat, overlapped' \in SUBSET (Resources \cup DraftIds),
         request' \in [Workers -> Request \cup {None}],
         \A w \in Workers : request'[w] # None => request'[w] = request[w]
  PROVE  DraftInv'
PROOF
<1>1. row # None /\ draft'[d] = row /\ \A e \in DraftIds \ {d} : draft'[e] = draft[e]
  BY RecordAssumption DEF DraftInv, TypeOK
<1>2. TypeOK'
  BY DEF DraftInv, TypeOK
<1>3. Grows
  BY <1>1 DEF Grows, DraftInv, TypeOK
<1>4. DraftOK(d)'
  BY <1>1 DEF DraftOK, BaseKnown
<1>5. \A e \in DraftIds : draft'[e] = draft[e] \/ DraftOK(e)'
  BY <1>1, <1>4
<1> QED
  BY <1>2, <1>3, <1>5, StepKeeps

LEMMA StartResourceKeeps ==
  ASSUME DraftInv, NEW d \in DraftIds, NEW u \in Users, StartResource(d, u)
  PROVE  DraftInv'
PROOF
<1> DEFINE row == NewDraft(u, None, 0)
<1>1. row \in Draft /\ row.of = None
  BY DEF NewDraft, Draft
<1>2. /\ draft' = [draft EXCEPT ![d] = row] /\ draft[d] = None
      /\ UNCHANGED <<resource, request, ids, clock>> /\ received' \in Nat
      /\ overlapped' \in SUBSET (Resources \cup DraftIds)
      /\ request' \in [Workers -> Request \cup {None}]
  BY DEF StartResource, AtOnce, DraftInv, TypeOK
<1>3. BaseKnown(row.of, row.base)
  BY <1>1 DEF BaseKnown
<1> HIDE DEF row
<1> QED
  BY <1>1, <1>2, <1>3, DraftMoves

LEMMA DiscardDraftKeeps ==
  ASSUME DraftInv, NEW d \in DraftIds, DiscardDraft(d)
  PROVE  DraftInv'
PROOF
<1>1. draft[d] \in Draft /\ draft[d] # None /\ BaseKnown(draft[d].of, draft[d].base)
  BY DEF DiscardDraft, Open, DraftInv, TypeOK, DraftOK
<1>2. PICK row \in Draft : row = [draft[d] EXCEPT !.open = FALSE, !.dropped = @ + 1]
  <2>1. draft[d].dropped + 1 \in Nat
    BY <1>1 DEF Draft
  <2> QED
    BY <1>1, <2>1 DEF Draft
<1>3. row.of = draft[d].of /\ row.base = draft[d].base
  BY <1>1, <1>2 DEF Draft
<1>4. draft' = [draft EXCEPT ![d] = row]
  BY <1>1, <1>2 DEF DiscardDraft, DraftInv, TypeOK
<1>5. /\ UNCHANGED <<resource, request, ids, clock>> /\ received' \in Nat
      /\ overlapped' \in SUBSET (Resources \cup DraftIds)
      /\ request' \in [Workers -> Request \cup {None}]
  BY DEF DiscardDraft, AtOnce, DraftInv, TypeOK
<1> QED
  BY <1>1, <1>3, <1>4, <1>5, DraftMoves

-----------------------------------------------------------------------------
(* Commits                                                                 *)

\* The request that a worker commits.
LEMMA Committed ==
  ASSUME DraftInv, NEW w \in Workers, NEW op \in Operations, NEW phase,
         Serving(w, op, phase), Answered(w)
  PROVE  /\ request[w] \in Request /\ RequestOK(request[w]) /\ request[w] # None
         /\ request[w].op = op /\ request[w].phase = phase
         /\ request' \in [Workers -> Request \cup {None}]
         /\ request'[w] = None
         /\ \A v \in Workers : request'[v] # None => v # w /\ request'[v] = request[v]
BY DEF DraftInv, TypeOK, Serving, Answered

LEMMA InsertDraftKeeps ==
  ASSUME DraftInv, NEW w \in Workers, NEW d \in DraftIds, InsertDraft(w, d)
  PROVE  DraftInv'
PROOF
<1>1. /\ request[w] \in Request /\ RequestOK(request[w])
      /\ request[w].op = "create_draft"
      /\ request' \in [Workers -> Request \cup {None}]
      /\ \A v \in Workers : request'[v] # None => request'[v] = request[v]
  BY Committed DEF InsertDraft, Operations
<1>2. PICK q \in Request : q = request[w]
  BY <1>1
<1>3. q.user \in Users /\ q.of \in Resources /\ q.base \in Nat
      /\ BaseKnown(q.of, q.base)
  BY <1>1, <1>2 DEF Request, RequestOK
<1>4. PICK row \in Draft : row = NewDraft(q.user, q.of, q.base)
  BY <1>3 DEF NewDraft, Draft
<1>5. row.of = q.of /\ row.base = q.base
  BY <1>4 DEF NewDraft
<1>6. draft' = [draft EXCEPT ![d] = row] /\ draft[d] = None
      /\ UNCHANGED <<resource, ids, clock>> /\ received' \in Nat
      /\ overlapped' \in SUBSET (Resources \cup DraftIds)
  BY <1>2, <1>4 DEF InsertDraft, DraftInv, TypeOK
<1> QED
  BY <1>1, <1>3, <1>5, <1>6, DraftMoves

LEMMA UpdateDraftKeeps ==
  ASSUME DraftInv, NEW w \in Workers, UpdateDraft(w)
  PROVE  DraftInv'
PROOF
<1>1. /\ request[w] \in Request /\ RequestOK(request[w])
      /\ request[w].op = "modify_draft"
      /\ request' \in [Workers -> Request \cup {None}]
      /\ \A v \in Workers : request'[v] # None => request'[v] = request[v]
  BY Committed DEF UpdateDraft, Operations
<1>2. PICK q \in Request : q = request[w]
  BY <1>1
<1>3. PICK d \in DraftIds : d = q.draft
  BY <1>1, <1>2 DEF RequestOK, Request
<1>4. draft[d] \in Draft /\ draft[d].of = q.of /\ q.base \in Nat
      /\ BaseKnown(q.of, q.base)
  BY <1>1, <1>2, <1>3 DEF RequestOK, Request, DraftInv, TypeOK
<1>5. PICK row \in Draft : row = [draft[d] EXCEPT !.base = q.base]
  BY <1>4 DEF Draft
<1>6. row.of = q.of /\ row.base = q.base
  BY <1>4, <1>5 DEF Draft
<1>7. UNCHANGED <<resource, ids, clock, received, overlapped>> /\ received' \in Nat
      /\ overlapped' \in SUBSET (Resources \cup DraftIds)
  BY DEF UpdateDraft, DraftInv, TypeOK
<1>8. CASE ~Open(d)
  BY <1>2, <1>3, <1>7, <1>8, AnsweredKeeps DEF UpdateDraft
<1>9. CASE Open(d)
  <2>1. draft' = [draft EXCEPT ![d] = row]
    BY <1>2, <1>3, <1>5, <1>9 DEF UpdateDraft, DraftInv, TypeOK
  <2> QED
    BY <1>1, <1>4, <1>6, <1>7, <2>1, DraftMoves
<1> QED
  BY <1>8, <1>9

LEMMA CommitNothingKeeps ==
  ASSUME DraftInv, NEW w \in Workers, CommitNothing(w)
  PROVE  DraftInv'
PROOF
<1>1. /\ request[w] \in Request /\ RequestOK(request[w])
      /\ request[w].op = "commit_draft"
      /\ request' \in [Workers -> Request \cup {None}]
      /\ \A v \in Workers : request'[v] # None => request'[v] = request[v]
  BY Committed DEF CommitNothing, Operations
<1>2. PICK d \in DraftIds : d = request[w].draft
  BY <1>1 DEF RequestOK, Request
<1>3. draft[d] \in Draft /\ BaseKnown(draft[d].of, draft[d].base)
  BY <1>1, <1>2 DEF RequestOK, DraftInv, TypeOK, DraftOK
<1>4. PICK n \in Nat : n = IF draft[d].open THEN draft[d].dropped + 1 ELSE draft[d].dropped
  BY <1>3 DEF Draft
<1>5. PICK row \in Draft : row = [draft[d] EXCEPT !.open = FALSE, !.dropped = n]
  BY <1>3 DEF Draft
<1>6. row.of = draft[d].of /\ row.base = draft[d].base
  BY <1>3, <1>5 DEF Draft
<1>7. draft' = [draft EXCEPT ![d] = row]
  BY <1>2, <1>3, <1>4, <1>5 DEF CommitNothing, DraftInv, TypeOK
<1>8. UNCHANGED <<resource, ids, clock>> /\ received' \in Nat
      /\ overlapped' \in SUBSET (Resources \cup DraftIds)
  BY DEF CommitNothing, DraftInv, TypeOK
<1> QED
  BY <1>1, <1>3, <1>6, <1>7, <1>8, DraftMoves

\* The snapshots of a resource, none when it does not exist.
SnapshotsOf(r) == IF resource[r] = None THEN {} ELSE resource[r].snapshots

LEMMA SnapshotAdded ==
  ASSUME DraftInv, NEW q \in Request, NEW r \in Resources, AddSnapshot(q, r),
         IF q.of = None THEN resource[r] = None ELSE r = q.of /\ resource[r] # None
  PROVE  /\ resource' \in [Resources -> Resource \cup {None}]
         /\ resource'[r] # None
         /\ resource'[r].snapshots = SnapshotsOf(r) \cup {Written(q)}
         /\ \A p \in Resources \ {r} : resource'[p] = resource[p]
         /\ Written(q) \in Snapshot
         /\ Written(q).id = q.id /\ Written(q).at = q.at /\ Written(q).follows = q.base
PROOF
<1> DEFINE s == Written(q)
           first == [deleted |-> FALSE, snapshots |-> {s}]
           more == [resource[r] EXCEPT !.snapshots = @ \cup {s}]
<1>1. s \in Snapshot /\ s.id = q.id /\ s.at = q.at /\ s.follows = q.base
  BY DEF Written, Snapshot, Request
<1> HIDE DEF s
<1>2. resource \in [Resources -> Resource \cup {None}]
  BY DEF DraftInv, TypeOK
<1>3. CASE q.of = None
  <2>1. first \in Resource /\ first.snapshots = {s}
    BY <1>1 DEF Resource
  <2>2. resource' = [resource EXCEPT ![r] = first]
    BY <1>3 DEF AddSnapshot, s
  <2> HIDE DEF first
  <2> QED
    BY <1>1, <1>2, <1>3, <2>1, <2>2, RecordAssumption DEF SnapshotsOf, s
<1>4. CASE q.of # None
  <2>1. resource[r] \in Resource
    BY <1>2, <1>4
  <2>2. more \in Resource /\ more.snapshots = resource[r].snapshots \cup {s}
    BY <1>1, <2>1 DEF Resource
  <2>3. resource' = [resource EXCEPT ![r] = more]
    BY <1>2, <1>4, <2>1 DEF AddSnapshot, s
  <2> HIDE DEF more
  <2> QED
    BY <1>1, <1>2, <1>4, <2>2, <2>3, RecordAssumption DEF SnapshotsOf, s
<1> QED
  BY <1>3, <1>4

LEMMA AddedSnapshotOK ==
  ASSUME DraftInv, NEW q \in Request, NEW r \in Resources, AddSnapshot(q, r),
         IF q.of = None THEN resource[r] = None ELSE r = q.of /\ resource[r] # None,
         q.id <= ids, q.at <= clock, UNCHANGED <<ids, clock>>
  PROVE  ResourceOK(r)'
PROOF
<1>1. PICK s \in Snapshot : s = Written(q)
  BY SnapshotAdded
<1>2. /\ resource'[r].snapshots = SnapshotsOf(r) \cup {s}
      /\ s.id <= ids /\ s.at <= clock /\ s.at \in Nat
      /\ \A t \in SnapshotsOf(r) : t.at \in Nat /\ t.id <= ids /\ t.at <= clock
  BY <1>1, SnapshotAdded, Typed DEF SnapshotsOf, DraftInv, ResourceOK, Snapshot
<1>3. \E t \in resource'[r].snapshots : \A u \in resource'[r].snapshots : u.at <= t.at
  <2>1. CASE SnapshotsOf(r) = {}
    BY <1>2, <2>1
  <2>2. CASE SnapshotsOf(r) # {}
    <3>1. PICK t \in SnapshotsOf(r) : \A u \in SnapshotsOf(r) : u.at <= t.at
      BY <2>2 DEF SnapshotsOf, DraftInv, ResourceOK, LatestExists
    <3>2. CASE t.at <= s.at
      BY <1>2, <3>1, <3>2
    <3>3. CASE s.at <= t.at
      BY <1>2, <3>1, <3>3
    <3> QED
      BY <1>2, <3>1, <3>2, <3>3
  <2> QED
    BY <2>1, <2>2
<1> QED
  BY <1>2, <1>3 DEF ResourceOK, LatestExists

LEMMA CommitModifyKeeps ==
  ASSUME DraftInv, NEW w \in Workers, CommitModify(w)
  PROVE  DraftInv'
PROOF
<1>1. /\ request[w] \in Request /\ RequestOK(request[w]) /\ request[w].op = "modify"
      /\ request' \in [Workers -> Request \cup {None}]
      /\ \A v \in Workers : request'[v] # None => request'[v] = request[v]
  BY Committed DEF CommitModify, Operations
<1>2. PICK q \in Request : q = request[w]
  BY <1>1
<1>3. PICK r \in Resources : r = q.of /\ resource[r] # None
  BY <1>1, <1>2 DEF RequestOK, Request
<1>4. AddSnapshot(q, r) /\ q.id <= ids /\ q.at <= clock
      /\ UNCHANGED <<draft, ids, clock, received, overlapped>>
  BY <1>1, <1>2, <1>3 DEF CommitModify, RequestOK
<1>5. /\ resource' \in [Resources -> Resource \cup {None}] /\ resource'[r] # None
      /\ resource'[r].snapshots = SnapshotsOf(r) \cup {Written(q)}
      /\ \A p \in Resources \ {r} : resource'[p] = resource[p]
  BY <1>3, <1>4, SnapshotAdded, RecordAssumption
<1>6. ResourceOK(r)'
  BY <1>3, <1>4, AddedSnapshotOK, RecordAssumption
<1>7. TypeOK'
  BY <1>1, <1>4, <1>5 DEF DraftInv, TypeOK
<1>8. Grows
  BY <1>4, <1>5 DEF Grows, SnapshotsOf, DraftInv, TypeOK
<1> QED
  BY <1>1, <1>4, <1>5, <1>6, <1>7, <1>8, StepKeeps

LEMMA CommitWrittenKeeps ==
  ASSUME DraftInv, NEW w \in Workers, CommitWritten(w)
  PROVE  DraftInv'
PROOF
<1>1. /\ request[w] \in Request /\ RequestOK(request[w])
      /\ request[w].op = "commit_draft"
      /\ request' \in [Workers -> Request \cup {None}]
      /\ \A v \in Workers : request'[v] # None => request'[v] = request[v]
  BY Committed DEF CommitWritten, Operations
<1>2. PICK q \in Request : q = request[w]
  BY <1>1
<1>3. PICK r \in Resources : AddSnapshot(q, r)
                             /\ IF q.of = None THEN resource[r] = None ELSE r = q.of
  BY <1>2 DEF CommitWritten
<1>4. IF q.of = None THEN resource[r] = None ELSE r = q.of /\ resource[r] # None
  BY <1>1, <1>2, <1>3 DEF RequestOK
<1>5. PICK d \in DraftIds : d = q.draft
  BY <1>1, <1>2 DEF RequestOK, Request
<1>6. draft[d] \in Draft /\ BaseKnown(draft[d].of, draft[d].base) /\ draft[d] # None
  BY <1>1, <1>2, <1>5 DEF RequestOK, DraftInv, TypeOK, DraftOK
<1>7. PICK row \in Draft : row = WrittenDraft(d)
  <2>1. draft[d].written + 1 \in Nat
    BY <1>6 DEF Draft
  <2> QED
    BY <1>6, <2>1 DEF Draft, WrittenDraft
<1>8. row.of = draft[d].of /\ row.base = draft[d].base /\ row # None
  BY <1>6, <1>7, RecordAssumption DEF Draft, WrittenDraft
<1>9. /\ draft' = [draft EXCEPT ![d] = row] /\ q.id <= ids /\ q.at <= clock
      /\ UNCHANGED <<ids, clock, received, overlapped>>
  BY <1>1, <1>2, <1>5, <1>7 DEF CommitWritten, RequestOK
<1>10. /\ resource' \in [Resources -> Resource \cup {None}] /\ resource'[r] # None
       /\ resource'[r].snapshots = SnapshotsOf(r) \cup {Written(q)}
       /\ \A p \in Resources \ {r} : resource'[p] = resource[p]
  BY <1>3, <1>4, SnapshotAdded
<1>11. ResourceOK(r)'
  BY <1>3, <1>4, <1>9, AddedSnapshotOK
<1>12. TypeOK'
  BY <1>1, <1>9, <1>10 DEF DraftInv, TypeOK
<1>13. Grows
  BY <1>8, <1>9, <1>10 DEF Grows, SnapshotsOf, DraftInv, TypeOK
<1>14. \A e \in DraftIds : draft'[e] = draft[e] \/ DraftOK(e)'
  <2>1. draft'[d] = row /\ \A e \in DraftIds \ {d} : draft'[e] = draft[e]
    BY <1>9 DEF DraftInv, TypeOK
  <2>2. BaseKnown(row.of, row.base)'
    BY <1>6, <1>8, <1>13, KnownBaseStays DEF Draft
  <2>3. DraftOK(d)'
    BY <2>1, <2>2 DEF DraftOK, BaseKnown
  <2> QED
    BY <2>1, <2>3
<1> QED
  BY <1>1, <1>10, <1>11, <1>12, <1>13, <1>14, StepKeeps

LEMMA DraftNext == DraftInv /\ [Next]_vars => DraftInv'
<1> SUFFICES ASSUME DraftInv, [Next]_vars PROVE DraftInv'
  OBVIOUS
<1>1. ASSUME NEW w \in Workers, Arrive(w) PROVE DraftInv'
  BY <1>1, ArrivalOK, ReceiveKeeps DEF Received
<1>2. ASSUME NEW w \in Workers, Build(w) \/ Flush(w) PROVE DraftInv'
  BY <1>2, BuildKeeps, FlushKeeps
<1>3. ASSUME NEW w \in Workers,
             \/ \E d \in DraftIds : InsertDraft(w, d)
             \/ UpdateDraft(w) \/ CommitModify(w) \/ CommitWritten(w) \/ CommitNothing(w)
      PROVE  DraftInv'
  BY <1>3, InsertDraftKeeps, UpdateDraftKeeps, CommitModifyKeeps, CommitWrittenKeeps,
     CommitNothingKeeps
<1>4. ASSUME NEW r \in Resources, CreateResource(r) \/ DeleteResource(r) PROVE DraftInv'
  BY <1>4, CreateResourceKeeps, DeleteResourceKeeps
<1>5. ASSUME NEW d \in DraftIds, DiscardDraft(d) \/ \E u \in Users : StartResource(d, u)
      PROVE  DraftInv'
  BY <1>5, DiscardDraftKeeps, StartResourceKeeps
<1>6. CASE UNCHANGED vars
  <2>1. TypeOK' /\ Grows
    BY <1>6 DEF vars, DraftInv, TypeOK, Grows
  <2> QED
    BY <1>6, <2>1, StepKeeps DEF vars
<1> QED
  BY <1>1, <1>2, <1>3, <1>4, <1>5, <1>6 DEF Next

-----------------------------------------------------------------------------
(* Resources and drafts whose requests never overlapped                    *)

\* What two requests are served for at a time is noted.
OverlapInv ==
  \A v, w \in Workers : v # w /\ request[v] # None /\ request[w] # None =>
    Subjects(request[v]) \cap Subjects(request[w]) \subseteq overlapped

\* One snapshot was built and flushed before the other.
Before(s, t) == s.id < t.id /\ s.at < t.at

Ordered(S) == \A s, t \in S : s = t \/ Before(s, t) \/ Before(t, s)

FollowsBase(S) ==
  \A s, t \in S : s.follows # 0 => ~(s.follows < t.id /\ t.id < s.id)

\* The snapshot that a request writes comes after those in S, and its base, if
\* it has one, is the last of them.
WriterOK(q, S) ==
  /\ q.phase \in {"built", "flushed"} => \A s \in S : s.at < q.at
  /\ q.phase = "flushed" => \A s \in S : s.id < q.id
  /\ q.base # 0 => \A s \in S : s.id <= q.base

\* What a request found at its head is still so.
RequestAlone(q) ==
  /\ q.op = "create_draft" => ModificationsBy(q.user, q.of) = {}
  /\ q.op \in Writing => WriterOK(q, SnapshotsOf(q.of))

ResourceAlone(r) ==
  /\ Ordered(SnapshotsOf(r)) /\ FollowsBase(SnapshotsOf(r))
  /\ \A u \in Users : \A d, e \in ModificationsBy(u, r) : d = e
  /\ \A w \in Workers :
       request[w] # None /\ request[w].of = r => RequestAlone(request[w])

Commits(q, d) == q # None /\ q.op = "commit_draft" /\ q.draft = d

DraftAlone(d) ==
  draft[d] # None =>
    /\ draft[d].written + draft[d].dropped = IF draft[d].open THEN 0 ELSE 1
    /\ \A w \in Workers : Commits(request[w], d) => draft[d].open

AloneInv ==
  /\ OverlapInv
  /\ \A r \in Resources \ overlapped : ResourceAlone(r)
  /\ \A d \in DraftIds \ overlapped : DraftAlone(d)

LEMMA ResourceStaysAlone ==
  ASSUME DraftInv, DraftInv', NEW r \in Resources, ResourceAlone(r),
         SnapshotsOf(r)' = SnapshotsOf(r),
         \A u \in Users : ModificationsBy(u, r)' \subseteq ModificationsBy(u, r),
         \A w \in Workers : request'[w] # None /\ request'[w].of = r =>
           request'[w] = request[w] \/ RequestAlone(request[w])'
  PROVE  ResourceAlone(r)'
PROOF
<1>1. Ordered(SnapshotsOf(r))' /\ FollowsBase(SnapshotsOf(r))'
  BY DEF ResourceAlone, Ordered, FollowsBase, Before
<1>2. \A u \in Users : \A d, e \in ModificationsBy(u, r)' : d = e
  BY DEF ResourceAlone
<1>3. ASSUME NEW w \in Workers, request'[w] # None, request'[w].of = r,
             request'[w] = request[w]
      PROVE  RequestAlone(request[w])'
  <2>1. PICK q \in Request : q = request[w] /\ q = request'[w]
    BY <1>3 DEF DraftInv, TypeOK
  <2>2. q.of = r /\ RequestAlone(q) /\ RequestOK(q)
    BY <1>3, <2>1 DEF ResourceAlone, DraftInv
  <2>3. q.op = "create_draft" => q.user \in Users
    BY <2>2 DEF RequestOK, Request
  <2>4. (SnapshotsOf(q.of))' = SnapshotsOf(q.of)
    BY <2>2
  <2>5. q.op = "create_draft" => (ModificationsBy(q.user, q.of))' = {}
    BY <2>2, <2>3 DEF RequestAlone
  <2>6. WriterOK(q, SnapshotsOf(q.of)) => WriterOK(q, SnapshotsOf(q.of))'
    BY <2>4 DEF WriterOK
  <2>7. RequestAlone(q)'
    BY <2>2, <2>5, <2>6 DEF RequestAlone
  <2> QED
    BY <2>1, <2>7
<1> QED
  BY <1>1, <1>2, <1>3 DEF ResourceAlone

LEMMA DraftStaysAlone ==
  ASSUME NEW d \in DraftIds, DraftAlone(d),
         IF draft[d] = None THEN draft'[d] = None
           ELSE draft'[d] # None /\ draft'[d].open = draft[d].open
                /\ draft'[d].written = draft[d].written
                /\ draft'[d].dropped = draft[d].dropped,
         \A w \in Workers : Commits(request'[w], d) =>
           Commits(request[w], d) \/ draft[d].open
  PROVE  DraftAlone(d)'
BY DEF DraftAlone, Commits

\* A step adds no request, or none with a new subject.
LEMMA OverlapStays ==
  ASSUME OverlapInv, overlapped \subseteq overlapped',
         \A w \in Workers : request'[w] # None =>
           /\ request[w] # None
           /\ request'[w].draft = request[w].draft /\ request'[w].of = request[w].of
  PROVE  OverlapInv'
BY DEF OverlapInv, Subjects

\* A step answers a request, moves one along, or leaves them all.
LEMMA AloneStep ==
  ASSUME AloneInv, overlapped \subseteq overlapped',
         \A w \in Workers : request'[w] # None =>
           /\ request[w] # None
           /\ request'[w].draft = request[w].draft /\ request'[w].of = request[w].of,
         \A r \in Resources \ overlapped' : ResourceAlone(r) => ResourceAlone(r)',
         \A d \in DraftIds \ overlapped' : DraftAlone(d) => DraftAlone(d)'
  PROVE  AloneInv'
BY OverlapStays DEF AloneInv

\* Alone with its resource or its draft, a request shares it with no other.
LEMMA NoOther ==
  ASSUME OverlapInv, NEW v \in Workers, NEW w \in Workers, v # w,
         request[v] # None, request[w] # None, NEW x, x \notin overlapped, x # None,
         x \in {request[v].draft, request[v].of}
  PROVE  x \notin {request[w].draft, request[w].of}
BY DEF OverlapInv, Subjects

LEMMA AloneInit == Init => AloneInv
BY DEF Init, AloneInv, OverlapInv, ResourceAlone, DraftAlone, SnapshotsOf, Ordered,
       FollowsBase, ModificationsBy, Open

\* The latest snapshot has the largest id too.
LEMMA LatestIsLast ==
  ASSUME DraftInv, NEW r \in Resources, resource[r] # None, Ordered(SnapshotsOf(r))
  PROVE  \A s \in SnapshotsOf(r) : s.id <= Latest(r).id
PROOF
<1>1. PICK l \in Snapshot : l = Latest(r) /\ l \in SnapshotsOf(r)
                           /\ \A t \in SnapshotsOf(r) : t.at <= l.at
  BY LatestFound, Typed DEF SnapshotsOf, DraftInv
<1>2. ASSUME NEW s \in SnapshotsOf(r) PROVE s.id <= l.id
  <2>1. s = l \/ Before(s, l) \/ Before(l, s)
    BY <1>1 DEF Ordered
  <2>2. s.id \in Nat /\ l.id \in Nat /\ s.at \in Nat /\ l.at \in Nat /\ s.at <= l.at
    BY <1>1, Typed DEF SnapshotsOf, DraftInv
  <2> QED
    BY <2>1, <2>2 DEF Before
<1> QED
  BY <1>1, <1>2

LEMMA ReceiveAlone ==
  ASSUME DraftInv, DraftInv', AloneInv, NEW w \in Workers, NEW q \in Request,
         Received(w, q)
  PROVE  AloneInv'
PROOF
<1>1. /\ request[w] = None /\ request' = [request EXCEPT ![w] = q] /\ q # None
      /\ overlapped' = overlapped \cup (Subjects(q) \cap ServedFor)
      /\ UNCHANGED <<resource, draft, ids, clock>>
  BY RecordAssumption DEF Received, Receive
<1>2. request'[w] = q /\ \A v \in Workers \ {w} : request'[v] = request[v]
  BY <1>1 DEF DraftInv, TypeOK
<1>3. \A v \in Workers \ {w} : request[v] # None => Subjects(request[v]) \subseteq ServedFor
  BY DEF ServedFor
<1>4. OverlapInv'
  BY <1>1, <1>2, <1>3 DEF AloneInv, OverlapInv, Subjects
<1>5. ASSUME NEW r \in Resources \ overlapped' PROVE ResourceAlone(r)'
  <2>1. ResourceAlone(r)
    BY <1>1 DEF AloneInv
  <2>2. SnapshotsOf(r)' = SnapshotsOf(r)
        /\ \A u \in Users : ModificationsBy(u, r)' = ModificationsBy(u, r)
    BY <1>1 DEF SnapshotsOf, ModificationsBy, Open
  <2>3. ASSUME q.of = r PROVE RequestAlone(q)'
    <3>1. q.op = "create_draft" => (ModificationsBy(q.user, q.of))' = {}
      BY <1>1 DEF Received, Fresh, ModificationsBy, Open
    <3>2. (SnapshotsOf(q.of))' = SnapshotsOf(q.of)
      BY <1>1 DEF SnapshotsOf
    <3>3. q.op \in Writing => \A s \in SnapshotsOf(q.of) : q.base # 0 => s.id <= q.base
      <4>1. resource[r] # None
        BY <2>3, RecordAssumption DEF Received, RequestOK
      <4>2. \A s \in SnapshotsOf(r) : s.id <= Latest(r).id
        BY <2>1, <4>1, LatestIsLast DEF ResourceAlone
      <4> QED
        BY <2>3, <4>2, RecordAssumption DEF Received, Fresh, Writing
    <3> QED
      BY <3>1, <3>2, <3>3 DEF RequestAlone, WriterOK, Received
  <2>4. \A v \in Workers : request'[v] # None /\ request'[v].of = r =>
          request'[v] = request[v] \/ RequestAlone(request[v])'
    BY <1>2, <2>3
  <2> QED
    BY <2>1, <2>2, <2>4, ResourceStaysAlone
<1>6. ASSUME NEW d \in DraftIds \ overlapped' PROVE DraftAlone(d)'
  <2>1. DraftAlone(d)
    BY <1>1 DEF AloneInv
  <2>2. \A v \in Workers : Commits(request'[v], d) => Commits(request[v], d) \/ draft[d].open
    BY <1>2 DEF Commits, Received, Fresh
  <2> QED
    BY <1>1, <2>1, <2>2, DraftStaysAlone
<1> QED
  BY <1>4, <1>5, <1>6 DEF AloneInv

\* A request is answered, or moves along on what it found.
LEMMA RequestAlong ==
  ASSUME DraftInv, DraftInv', AloneInv, NEW w \in Workers, NEW p \in Request \cup {None},
         request[w] # None, request' = [request EXCEPT ![w] = p],
         UNCHANGED <<resource, draft, overlapped>>,
         p # None =>
           /\ p.op = request[w].op /\ p.draft = request[w].draft /\ p.of = request[w].of
           /\ p.of \in Resources /\ RequestAlone(request[w]) => RequestAlone(p)'
  PROVE  AloneInv'
PROOF
<1>1. request'[w] = p /\ \A v \in Workers \ {w} : request'[v] = request[v]
  BY DEF DraftInv, TypeOK
<1>2. \A v \in Workers : request'[v] # None =>
        /\ request[v] # None
        /\ request'[v].draft = request[v].draft /\ request'[v].of = request[v].of
  BY <1>1
<1>3. ASSUME NEW r \in Resources \ overlapped', ResourceAlone(r) PROVE ResourceAlone(r)'
  <2>1. SnapshotsOf(r)' = SnapshotsOf(r)
        /\ \A u \in Users : ModificationsBy(u, r)' = ModificationsBy(u, r)
    BY DEF SnapshotsOf, ModificationsBy, Open
  <2>2. \A v \in Workers : request'[v] # None /\ request'[v].of = r =>
          request'[v] = request[v] \/ RequestAlone(request[v])'
    <3>1. p # None /\ p.of = r => RequestAlone(p)'
      BY <1>3 DEF ResourceAlone
    <3> QED
      BY <1>1, <3>1
  <2> QED
    BY <1>3, <2>1, <2>2, ResourceStaysAlone
<1>4. ASSUME NEW d \in DraftIds \ overlapped', DraftAlone(d) PROVE DraftAlone(d)'
  <2>1. \A v \in Workers : Commits(request'[v], d) => Commits(request[v], d)
    BY <1>1 DEF Commits
  <2> QED
    BY <1>4, <2>1, DraftStaysAlone
<1> QED
  BY <1>2, <1>3, <1>4, AloneStep

LEMMA BuildAlone ==
  ASSUME DraftInv, DraftInv', AloneInv, NEW w \in Workers, Build(w)
  PROVE  AloneInv'
PROOF
<1>1. PICK q \in Request : q = request[w] /\ q # None /\ q.phase = "fetched"
                          /\ q.op \in Writing
  BY RecordAssumption DEF Build, Serving, DraftInv, TypeOK
<1>2. clock \in Nat /\ clock + 1 \in Nat
      /\ UNCHANGED <<resource, draft, ids, received, overlapped>>
  BY DEF DraftInv, TypeOK, Build
<1>3. (SnapshotsOf(q.of))' = SnapshotsOf(q.of)
  BY <1>2 DEF SnapshotsOf
<1>4. CASE request' = [request EXCEPT ![w].phase = "built", ![w].at = clock + 1]
  <2>1. PICK p \in Request : p = [q EXCEPT !.phase = "built", !.at = clock + 1]
    BY <1>2 DEF Request
  <2>2. request' = [request EXCEPT ![w] = p]
    BY <1>1, <1>4, <2>1 DEF DraftInv, TypeOK
  <2>3. /\ p.op = q.op /\ p.of = q.of /\ p.draft = q.draft /\ p.user = q.user
        /\ p.base = q.base /\ p.at = clock + 1 /\ p.phase = "built"
    BY <2>1 DEF Request
  <2>4. q.of \in Resources => \A s \in SnapshotsOf(q.of) : s.at < clock + 1
    <3>1. \A r \in Resources : \A s \in SnapshotsOf(r) : s.at \in Nat /\ s.at <= clock
      BY Typed DEF DraftInv, ResourceOK, SnapshotsOf
    <3> QED
      BY <1>2, <3>1
  <2>5. q.of \in Resources /\ RequestAlone(q) => RequestAlone(p)'
    BY <1>1, <1>3, <2>3, <2>4 DEF RequestAlone, WriterOK, Writing
  <2> QED
    BY <1>1, <1>2, <2>2, <2>3, <2>5, RequestAlong
<1>5. CASE request' = [request EXCEPT ![w].phase = "nothing"]
  <2>1. PICK p \in Request : p = [q EXCEPT !.phase = "nothing"]
    BY DEF Request
  <2>2. request' = [request EXCEPT ![w] = p]
    BY <1>1, <1>5, <2>1 DEF DraftInv, TypeOK
  <2>3. /\ p.op = q.op /\ p.of = q.of /\ p.draft = q.draft /\ p.user = q.user
        /\ p.base = q.base /\ p.phase = "nothing"
    BY <2>1 DEF Request
  <2>4. q.of \in Resources /\ RequestAlone(q) => RequestAlone(p)'
    BY <1>1, <1>3, <2>3 DEF RequestAlone, WriterOK, Writing
  <2> QED
    BY <1>1, <1>2, <2>2, <2>3, <2>4, RequestAlong
<1>6. CASE Answered(w)
  BY <1>1, <1>2, <1>6, RequestAlong DEF Answered
<1> QED
  BY <1>4, <1>5, <1>6 DEF Build

LEMMA FlushAlone ==
  ASSUME DraftInv, DraftInv', AloneInv, NEW w \in Workers, Flush(w)
  PROVE  AloneInv'
PROOF
<1>1. PICK q \in Request : q = request[w] /\ q # None /\ q.phase = "built"
                          /\ q.op \in Writing
  BY RecordAssumption DEF Flush, Serving, DraftInv, TypeOK
<1>2. ids \in Nat /\ ids + 1 \in Nat
      /\ UNCHANGED <<resource, draft, clock, received, overlapped>>
  BY DEF DraftInv, TypeOK, Flush
<1>3. (SnapshotsOf(q.of))' = SnapshotsOf(q.of)
  BY <1>2 DEF SnapshotsOf
<1>4. PICK p \in Request : p = [q EXCEPT !.phase = "flushed", !.id = ids + 1]
  BY <1>2 DEF Request
<1>5. request' = [request EXCEPT ![w] = p]
  BY <1>1, <1>4 DEF Flush, DraftInv, TypeOK
<1>6. /\ p.op = q.op /\ p.of = q.of /\ p.draft = q.draft /\ p.user = q.user
      /\ p.base = q.base /\ p.at = q.at /\ p.id = ids + 1 /\ p.phase = "flushed"
  BY <1>4 DEF Request
<1>7. q.of \in Resources => \A s \in SnapshotsOf(q.of) : s.id < ids + 1
  <2>1. \A r \in Resources : \A s \in SnapshotsOf(r) : s.id \in Nat /\ s.id <= ids
    BY Typed DEF DraftInv, ResourceOK, SnapshotsOf
  <2> QED
    BY <1>2, <2>1
<1>8. q.of \in Resources /\ RequestAlone(q) => RequestAlone(p)'
  BY <1>1, <1>3, <1>6, <1>7 DEF RequestAlone, WriterOK, Writing
<1> QED
  BY <1>1, <1>2, <1>5, <1>6, <1>8, RequestAlong

\* A row that is no new modification adds to no user's modifications.
LEMMA NoNewModification ==
  ASSUME DraftInv, NEW d \in DraftIds, NEW row \in Draft, draft' = [draft EXCEPT ![d] = row],
         row.open => row.of = None \/ /\ Open(d) /\ row.of = draft[d].of
                                      /\ row.user = draft[d].user,
         NEW u \in Users, NEW r \in Resources
  PROVE  ModificationsBy(u, r)' \subseteq ModificationsBy(u, r)
PROOF
<1>1. draft'[d] = row /\ \A e \in DraftIds \ {d} : draft'[e] = draft[e]
  BY DEF DraftInv, TypeOK
<1> QED
  BY <1>1, RecordAssumption DEF ModificationsBy, Open

\* The row of a draft changes; requests are answered, but none moves along.
LEMMA DraftMovesAlone ==
  ASSUME DraftInv, DraftInv', AloneInv, NEW d \in DraftIds, NEW row \in Draft,
         draft' = [draft EXCEPT ![d] = row], overlapped \subseteq overlapped',
         \A w \in Workers : request'[w] # None => request'[w] = request[w],
         \A r \in Resources \ overlapped' : ResourceAlone(r) =>
           \/ ResourceAlone(r)'
           \/ /\ SnapshotsOf(r)' = SnapshotsOf(r)
              /\ \A u \in Users : ModificationsBy(u, r)' \subseteq ModificationsBy(u, r),
         d \notin overlapped' /\ DraftAlone(d) => DraftAlone(d)'
  PROVE  AloneInv'
PROOF
<1>1. \A e \in DraftIds \ {d} : draft'[e] = draft[e]
  BY DEF DraftInv, TypeOK
<1>2. ASSUME NEW r \in Resources \ overlapped', ResourceAlone(r) PROVE ResourceAlone(r)'
  BY <1>2, ResourceStaysAlone
<1>3. ASSUME NEW e \in DraftIds \ overlapped', DraftAlone(e) PROVE DraftAlone(e)'
  <2>1. CASE e = d
    BY <1>3, <2>1
  <2>2. CASE e # d
    BY <1>1, <1>3, <2>2, DraftStaysAlone DEF Commits
  <2> QED
    BY <2>1, <2>2
<1> QED
  BY <1>2, <1>3, AloneStep

LEMMA StartResourceAlone ==
  ASSUME DraftInv, DraftInv', AloneInv, NEW d \in DraftIds, NEW u \in Users,
         StartResource(d, u)
  PROVE  AloneInv'
PROOF
<1>1. PICK row \in Draft : row = NewDraft(u, None, 0)
  BY DEF NewDraft, Draft
<1>2. /\ draft' = [draft EXCEPT ![d] = row] /\ draft[d] = None
      /\ UNCHANGED <<resource, request>> /\ overlapped \subseteq overlapped'
  BY <1>1 DEF StartResource, AtOnce
<1>3. row.of = None /\ row.written = 0 /\ row.dropped = 0 /\ row.open
  BY <1>1 DEF NewDraft
<1>4. DraftAlone(d)'
  <2>1. draft'[d] = row
    BY <1>2 DEF DraftInv, TypeOK
  <2>2. \A w \in Workers : ~Commits(request'[w], d)
    BY <1>2 DEF Commits, DraftInv, RequestOK
  <2> QED
    BY <1>3, <2>1, <2>2 DEF DraftAlone
<1>5. \A r \in Resources : SnapshotsOf(r)' = SnapshotsOf(r)
        /\ \A x \in Users : ModificationsBy(x, r)' \subseteq ModificationsBy(x, r)
  BY <1>2, <1>3, NoNewModification DEF SnapshotsOf
<1> QED
  BY <1>2, <1>4, <1>5, DraftMovesAlone

LEMMA DiscardDraftAlone ==
  ASSUME DraftInv, DraftInv', AloneInv, NEW d \in DraftIds, DiscardDraft(d)
  PROVE  AloneInv'
PROOF
<1>1. draft[d] \in Draft /\ draft[d] # None /\ draft[d].open
  BY DEF DiscardDraft, Open, DraftInv, TypeOK
<1>2. draft[d].dropped \in Nat /\ draft[d].written \in Nat
      /\ draft[d].dropped + 1 \in Nat
  BY <1>1 DEF Draft
<1>3. PICK row \in Draft : row = [draft[d] EXCEPT !.open = FALSE, !.dropped = @ + 1]
  BY <1>1, <1>2 DEF Draft
<1>4. row.open = FALSE /\ row.dropped = draft[d].dropped + 1
      /\ row.written = draft[d].written
  BY <1>1, <1>3 DEF Draft
<1>5. /\ draft' = [draft EXCEPT ![d] = row] /\ UNCHANGED <<resource, request>>
      /\ overlapped' = overlapped \cup ({d} \cap ServedFor)
  BY <1>1, <1>3 DEF DiscardDraft, AtOnce, DraftInv, TypeOK
<1>6. ASSUME d \notin overlapped', DraftAlone(d) PROVE DraftAlone(d)'
  <2>1. draft'[d] = row /\ d # None
    BY <1>5, RecordAssumption DEF DraftInv, TypeOK
  <2>2. \A w \in Workers : ~Commits(request'[w], d)
    BY <1>5, <1>6, <2>1 DEF Commits, ServedFor, Subjects
  <2>3. draft[d].written = 0 /\ draft[d].dropped = 0
    BY <1>1, <1>2, <1>6 DEF DraftAlone
  <2> QED
    BY <1>4, <2>1, <2>2, <2>3 DEF DraftAlone
<1>7. \A r \in Resources : SnapshotsOf(r)' = SnapshotsOf(r)
        /\ \A x \in Users : ModificationsBy(x, r)' \subseteq ModificationsBy(x, r)
  BY <1>4, <1>5, NoNewModification DEF SnapshotsOf
<1> QED
  BY <1>5, <1>6, <1>7, DraftMovesAlone

LEMMA UpdateDraftAlone ==
  ASSUME DraftInv, DraftInv', AloneInv, NEW w \in Workers, UpdateDraft(w)
  PROVE  AloneInv'
PROOF
<1>1. /\ request[w] \in Request /\ RequestOK(request[w]) /\ request[w] # None
      /\ request[w].op = "modify_draft"
      /\ \A v \in Workers : request'[v] # None => request'[v] = request[v]
  BY Committed DEF UpdateDraft, Operations
<1>2. PICK q \in Request : q = request[w]
  BY <1>1
<1>3. PICK d \in DraftIds : d = q.draft
  BY <1>1, <1>2 DEF RequestOK, Request
<1>4. UNCHANGED <<resource, ids, clock, received, overlapped>>
  BY DEF UpdateDraft
<1>5. CASE ~Open(d)
  <2>1. UNCHANGED draft /\ request' = [request EXCEPT ![w] = None]
    BY <1>2, <1>3, <1>5 DEF UpdateDraft, Answered
  <2> QED
    BY <1>1, <1>4, <2>1, RequestAlong
<1>6. CASE Open(d)
  <2>1. draft[d] \in Draft /\ draft[d] # None
    BY <1>6 DEF Open, DraftInv, TypeOK
  <2>2. PICK row \in Draft : row = [draft[d] EXCEPT !.base = q.base]
    BY <2>1 DEF Draft, Request
  <2>3. /\ row.open = draft[d].open /\ row.of = draft[d].of /\ row.user = draft[d].user
        /\ row.written = draft[d].written /\ row.dropped = draft[d].dropped
    BY <2>1, <2>2 DEF Draft
  <2>4. draft' = [draft EXCEPT ![d] = row]
    BY <1>2, <1>3, <1>6, <2>2 DEF UpdateDraft, DraftInv, TypeOK
  <2>5. \A r \in Resources : SnapshotsOf(r)' = SnapshotsOf(r)
          /\ \A x \in Users : ModificationsBy(x, r)' \subseteq ModificationsBy(x, r)
    BY <1>4, <1>6, <2>3, <2>4, NoNewModification DEF SnapshotsOf
  <2>6. DraftAlone(d) => DraftAlone(d)'
    <3>1. draft'[d] = row /\ row # None
      BY <2>4, RecordAssumption DEF DraftInv, TypeOK
    <3>2. \A v \in Workers : Commits(request'[v], d) => Commits(request[v], d)
      BY <1>1 DEF Commits
    <3> QED
      BY <2>1, <2>3, <3>1, <3>2, DraftStaysAlone
  <2> QED
    BY <1>1, <1>4, <2>4, <2>5, <2>6, DraftMovesAlone
<1> QED
  BY <1>5, <1>6

LEMMA CommitNothingAlone ==
  ASSUME DraftInv, DraftInv', AloneInv, NEW w \in Workers, CommitNothing(w)
  PROVE  AloneInv'
PROOF
<1>1. /\ request[w] \in Request /\ RequestOK(request[w]) /\ request[w] # None
      /\ request[w].op = "commit_draft"
      /\ \A v \in Workers : request'[v] # None => v # w /\ request'[v] = request[v]
  BY Committed DEF CommitNothing, Operations
<1>2. PICK d \in DraftIds : d = request[w].draft
  BY <1>1 DEF RequestOK, Request
<1>3. draft[d] \in Draft /\ draft[d] # None /\ d # None
  BY <1>1, <1>2, RecordAssumption DEF RequestOK, DraftInv, TypeOK
<1>4. PICK n \in Nat : n = IF draft[d].open THEN draft[d].dropped + 1 ELSE draft[d].dropped
  BY <1>3 DEF Draft
<1>5. PICK row \in Draft : row = [draft[d] EXCEPT !.open = FALSE, !.dropped = n]
  BY <1>3 DEF Draft
<1>6. row.open = FALSE /\ row.dropped = n /\ row.written = draft[d].written
      /\ draft[d].dropped \in Nat /\ draft[d].written \in Nat
  BY <1>3, <1>5 DEF Draft
<1>7. draft' = [draft EXCEPT ![d] = row] /\ UNCHANGED <<resource, overlapped>>
  BY <1>2, <1>3, <1>4, <1>5 DEF CommitNothing, DraftInv, TypeOK
<1>8. ASSUME d \notin overlapped', DraftAlone(d) PROVE DraftAlone(d)'
  <2>1. draft'[d] = row
    BY <1>7 DEF DraftInv, TypeOK
  <2>2. \A v \in Workers : ~Commits(request'[v], d)
    BY <1>1, <1>2, <1>3, <1>7, <1>8, NoOther DEF Commits, AloneInv
  <2>3. draft[d].open /\ draft[d].written = 0 /\ draft[d].dropped = 0
    BY <1>1, <1>2, <1>3, <1>6, <1>8 DEF DraftAlone, Commits
  <2> QED
    BY <1>4, <1>6, <2>1, <2>2, <2>3 DEF DraftAlone
<1>9. \A r \in Resources : SnapshotsOf(r)' = SnapshotsOf(r)
        /\ \A x \in Users : ModificationsBy(x, r)' \subseteq ModificationsBy(x, r)
  BY <1>6, <1>7, NoNewModification DEF SnapshotsOf
<1> QED
  BY <1>1, <1>7, <1>8, <1>9, DraftMovesAlone

LEMMA CreateResourceAlone ==
  ASSUME DraftInv, DraftInv', AloneInv, NEW r \in Resources, CreateResource(r)
  PROVE  AloneInv'
PROOF
<1>1. PICK s \in Snapshot : s = [id |-> ids + 1, at |-> clock + 1, follows |-> 0]
  <2>1. ids + 1 \in Nat /\ clock + 1 \in Nat
    BY DEF DraftInv, TypeOK
  <2> QED
    BY <2>1 DEF Snapshot
<1>2. PICK new \in Resource : new = [deleted |-> FALSE, snapshots |-> {s}]
  BY DEF Resource
<1>3. /\ resource' = [resource EXCEPT ![r] = new] /\ resource[r] = None
      /\ UNCHANGED <<draft, request>> /\ overlapped \subseteq overlapped'
      /\ \A w \in Workers : request[w] # None => request[w].of # r
  BY <1>1, <1>2 DEF CreateResource, AtOnce
<1>4. resource'[r] = new /\ \A p \in Resources \ {r} : resource'[p] = resource[p]
  BY <1>3 DEF DraftInv, TypeOK
<1>5. \A p \in Resources, u \in Users : ModificationsBy(u, p)' = ModificationsBy(u, p)
  BY <1>3 DEF ModificationsBy, Open
<1>6. ResourceAlone(r)'
  <2>1. SnapshotsOf(r)' = {s} /\ s.follows = 0
    <3>1. s.follows = 0
      BY <1>1
    <3>2. new.snapshots = {s} /\ new # None
      BY <1>2, RecordAssumption
    <3> QED
      BY <1>4, <3>1, <3>2 DEF SnapshotsOf
  <2>2. Ordered(SnapshotsOf(r))' /\ FollowsBase(SnapshotsOf(r))'
    BY <2>1 DEF Ordered, FollowsBase
  <2>3. \A u \in Users : ModificationsBy(u, r) = {}
    BY <1>3, RecordAssumption DEF ModificationsBy, Open, DraftInv, DraftOK, BaseKnown
  <2> QED
    BY <1>3, <1>5, <2>2, <2>3 DEF ResourceAlone
<1>7. ASSUME NEW p \in Resources \ overlapped', ResourceAlone(p) PROVE ResourceAlone(p)'
  <2>1. CASE p = r
    BY <1>6, <2>1
  <2>2. CASE p # r
    <3>1. SnapshotsOf(p)' = SnapshotsOf(p)
      BY <1>4, <2>2 DEF SnapshotsOf
    <3> QED
      BY <1>3, <1>5, <1>7, <3>1, ResourceStaysAlone
  <2> QED
    BY <2>1, <2>2
<1>8. ASSUME NEW d \in DraftIds \ overlapped', DraftAlone(d) PROVE DraftAlone(d)'
  BY <1>3, <1>8, DraftStaysAlone
<1> QED
  BY <1>3, <1>7, <1>8, AloneStep

LEMMA DeleteResourceAlone ==
  ASSUME DraftInv, DraftInv', AloneInv, NEW r \in Resources, DeleteResource(r)
  PROVE  AloneInv'
PROOF
<1>1. resource[r] \in Resource /\ resource[r] # None
  BY DEF DeleteResource, Live, DraftInv, TypeOK
<1>2. PICK gone \in Resource : gone = [resource[r] EXCEPT !.deleted = TRUE]
  BY <1>1 DEF Resource
<1>3. gone.snapshots = resource[r].snapshots /\ gone # None
  BY <1>1, <1>2, RecordAssumption DEF Resource
<1>4. resource' = [resource EXCEPT ![r] = gone]
      /\ UNCHANGED <<draft, request>> /\ overlapped \subseteq overlapped'
  BY <1>2 DEF DeleteResource, AtOnce, DraftInv, TypeOK
<1>5. \A p \in Resources : SnapshotsOf(p)' = SnapshotsOf(p)
  <2>1. resource'[r] = gone /\ \A p \in Resources \ {r} : resource'[p] = resource[p]
    BY <1>4 DEF DraftInv, TypeOK
  <2> QED
    BY <1>1, <1>3, <2>1 DEF SnapshotsOf
<1>6. ASSUME NEW p \in Resources \ overlapped', ResourceAlone(p) PROVE ResourceAlone(p)'
  <2>1. \A u \in Users : ModificationsBy(u, p)' = ModificationsBy(u, p)
    BY <1>4 DEF ModificationsBy, Open
  <2> QED
    BY <1>4, <1>5, <1>6, <2>1, ResourceStaysAlone
<1>7. ASSUME NEW d \in DraftIds \ overlapped', DraftAlone(d) PROVE DraftAlone(d)'
  BY <1>4, <1>7, DraftStaysAlone
<1> QED
  BY <1>4, <1>6, <1>7, AloneStep

\* The user's look-up found no modification, and no other request of the
\* resource can have inserted one.
LEMMA InsertDraftAlone ==
  ASSUME DraftInv, DraftInv', AloneInv, NEW w \in Workers, NEW d \in DraftIds,
         InsertDraft(w, d)
  PROVE  AloneInv'
PROOF
<1>1. /\ request[w] \in Request /\ RequestOK(request[w]) /\ request[w] # None
      /\ request[w].op = "create_draft"
      /\ \A v \in Workers : request'[v] # None => v # w /\ request'[v] = request[v]
  BY Committed DEF InsertDraft, Operations
<1>2. PICK q \in Request : q = request[w]
  BY <1>1
<1>3. q.user \in Users /\ q.of \in Resources /\ q.of # None /\ q.base \in Nat
  BY <1>1, <1>2 DEF Request, RequestOK
<1>4. PICK row \in Draft : row = NewDraft(q.user, q.of, q.base)
  BY <1>3 DEF NewDraft, Draft
<1>5. row.user = q.user /\ row.of = q.of /\ row.open /\ row.written = 0 /\ row.dropped = 0
  BY <1>4 DEF NewDraft
<1>6. draft' = [draft EXCEPT ![d] = row] /\ draft[d] = None
      /\ UNCHANGED <<resource, overlapped>>
  BY <1>2, <1>4 DEF InsertDraft
<1>7. draft'[d] = row /\ row # None /\ \A e \in DraftIds \ {d} : draft'[e] = draft[e]
  BY <1>6, RecordAssumption DEF DraftInv, TypeOK
<1>8. ASSUME NEW r \in Resources \ overlapped', ResourceAlone(r)
      PROVE  \/ ResourceAlone(r)'
             \/ /\ SnapshotsOf(r)' = SnapshotsOf(r)
                /\ \A u \in Users : ModificationsBy(u, r)' \subseteq ModificationsBy(u, r)
  <2>1. SnapshotsOf(r)' = SnapshotsOf(r)
    BY <1>6 DEF SnapshotsOf
  <2>2. CASE r # q.of
    BY <1>5, <1>7, <2>1, <2>2 DEF ModificationsBy, Open
  <2>3. CASE r = q.of
    <3>1. \A v \in Workers : request'[v] # None => request'[v].of # r
      BY <1>1, <1>2, <1>3, <1>6, <1>8, <2>3, NoOther DEF AloneInv
    <3>2. ModificationsBy(q.user, r) = {}
      BY <1>1, <1>2, <1>8, <2>3 DEF ResourceAlone, RequestAlone
    <3>3. ASSUME NEW u \in Users, NEW x \in ModificationsBy(u, r)',
                 NEW y \in ModificationsBy(u, r)'
          PROVE  x = y
      <4>1. CASE u = q.user
        <5>1. ModificationsBy(u, r)' \subseteq {d}
          BY <1>7, <3>2, <4>1 DEF ModificationsBy, Open
        <5> QED
          BY <3>3, <5>1
      <4>2. CASE u # q.user
        <5>1. ModificationsBy(u, r)' \subseteq ModificationsBy(u, r)
          BY <1>5, <1>7, <4>2 DEF ModificationsBy, Open
        <5> QED
          BY <1>8, <3>3, <5>1 DEF ResourceAlone
      <4> QED
        BY <4>1, <4>2
    <3>4. Ordered(SnapshotsOf(r))' /\ FollowsBase(SnapshotsOf(r))'
      BY <1>8, <2>1 DEF ResourceAlone, Ordered, FollowsBase, Before
    <3> QED
      BY <3>1, <3>3, <3>4 DEF ResourceAlone
  <2> QED
    BY <2>2, <2>3
<1>9. DraftAlone(d)'
  <2>1. \A v \in Workers : ~Commits(request'[v], d)
    BY <1>1, <1>6 DEF Commits, DraftInv, RequestOK
  <2> QED
    BY <1>5, <1>7, <2>1 DEF DraftAlone
<1> QED
  BY <1>1, <1>6, <1>8, <1>9, DraftMovesAlone

\* The snapshot that a request for the resource alone writes is the last in
\* every respect, and follows the base of its draft.
LEMMA SnapshotJoins ==
  ASSUME DraftInv, AloneInv, NEW w \in Workers, NEW q \in Request,
         q = request[w], q # None, RequestOK(q), q.op \in Writing, q.phase = "flushed",
         NEW r \in Resources \ overlapped, AddSnapshot(q, r),
         IF q.of = None THEN resource[r] = None ELSE r = q.of /\ resource[r] # None,
         \A v \in Workers : request'[v] # None => v # w /\ request'[v] = request[v],
         \A u \in Users : ModificationsBy(u, r)' \subseteq ModificationsBy(u, r)
  PROVE  ResourceAlone(r)'
PROOF
<1>1. PICK s \in Snapshot : s = Written(q)
  BY SnapshotAdded
<1>2. SnapshotsOf(r)' = SnapshotsOf(r) \cup {s}
      /\ s.id = q.id /\ s.at = q.at /\ s.follows = q.base
  BY <1>1, SnapshotAdded DEF SnapshotsOf
<1>3. ResourceAlone(r) /\ r # None
  BY RecordAssumption DEF AloneInv
<1>4. \A v \in Workers : request'[v] # None => request'[v].of # r
  <2>1. CASE q.of = None
    BY <1>3, <2>1 DEF DraftInv, RequestOK
  <2>2. CASE q.of # None
    BY <1>3, <2>2, NoOther DEF AloneInv
  <2> QED
    BY <2>1, <2>2
<1>5. \A t \in SnapshotsOf(r) :
        Before(t, s) /\ (s.follows # 0 => t.id <= s.follows)
  <2>1. CASE q.of = None
    BY <2>1 DEF SnapshotsOf
  <2>2. CASE q.of # None
    BY <1>2, <1>3, <2>2 DEF ResourceAlone, RequestAlone, WriterOK, Before
  <2> QED
    BY <2>1, <2>2
<1>6. \A t \in SnapshotsOf(r) \cup {s} : t.id \in Nat /\ t.follows \in Nat
  BY Typed DEF SnapshotsOf, DraftInv
<1>7. Ordered(SnapshotsOf(r) \cup {s})
  BY <1>3, <1>5 DEF ResourceAlone, Ordered
<1>8. FollowsBase(SnapshotsOf(r) \cup {s})
  <2> SUFFICES ASSUME NEW x \in SnapshotsOf(r) \cup {s}, NEW y \in SnapshotsOf(r) \cup {s},
                      x.follows # 0, x.follows < y.id, y.id < x.id
               PROVE  FALSE
    BY DEF FollowsBase
  <2>1. CASE x = s
    BY <1>5, <1>6, <2>1
  <2>2. CASE x # s /\ y = s
    BY <1>5, <1>6, <2>2 DEF Before
  <2>3. CASE x # s /\ y # s
    BY <1>3, <2>3 DEF ResourceAlone, FollowsBase
  <2> QED
    BY <2>1, <2>2, <2>3
<1>9. (Ordered(SnapshotsOf(r)) /\ FollowsBase(SnapshotsOf(r)))'
  BY <1>2, <1>7, <1>8 DEF Ordered, FollowsBase, Before
<1>10. \A u \in Users : \A d, e \in ModificationsBy(u, r)' : d = e
  BY <1>3 DEF ResourceAlone
<1> QED
  BY <1>4, <1>9, <1>10 DEF ResourceAlone

LEMMA CommitModifyAlone ==
  ASSUME DraftInv, DraftInv', AloneInv, NEW w \in Workers, CommitModify(w)
  PROVE  AloneInv'
PROOF
<1>1. /\ request[w] \in Request /\ RequestOK(request[w]) /\ request[w] # None
      /\ request[w].op = "modify" /\ request[w].phase = "flushed"
      /\ \A v \in Workers : request'[v] # None => v # w /\ request'[v] = request[v]
  BY Committed DEF CommitModify, Operations
<1>2. PICK q \in Request : q = request[w]
  BY <1>1
<1>3. PICK r \in Resources : r = q.of /\ resource[r] # None
  BY <1>1, <1>2 DEF RequestOK, Request
<1>4. AddSnapshot(q, r) /\ UNCHANGED <<draft, overlapped>>
  BY <1>2, <1>3 DEF CommitModify
<1>5. \A p \in Resources \ {r} : resource'[p] = resource[p]
  BY <1>3, <1>4, SnapshotAdded, RecordAssumption
<1>6. \A p \in Resources, u \in Users : ModificationsBy(u, p)' = ModificationsBy(u, p)
  BY <1>4 DEF ModificationsBy, Open
<1>7. ASSUME NEW p \in Resources \ overlapped', ResourceAlone(p) PROVE ResourceAlone(p)'
  <2>1. CASE p = r
    BY <1>1, <1>2, <1>3, <1>4, <1>6, <1>7, <2>1, SnapshotJoins, RecordAssumption
       DEF Writing
  <2>2. CASE p # r
    <3>1. SnapshotsOf(p)' = SnapshotsOf(p)
      BY <1>5, <2>2 DEF SnapshotsOf
    <3> QED
      BY <1>1, <1>6, <1>7, <3>1, ResourceStaysAlone
  <2> QED
    BY <2>1, <2>2
<1>8. ASSUME NEW d \in DraftIds \ overlapped', DraftAlone(d) PROVE DraftAlone(d)'
  BY <1>1, <1>4, <1>8, DraftStaysAlone DEF Commits
<1> QED
  BY <1>1, <1>4, <1>7, <1>8, AloneStep

LEMMA CommitWrittenAlone ==
  ASSUME DraftInv, DraftInv', AloneInv, NEW w \in Workers, CommitWritten(w)
  PROVE  AloneInv'
PROOF
<1>1. /\ request[w] \in Request /\ RequestOK(request[w]) /\ request[w] # None
      /\ request[w].op = "commit_draft" /\ request[w].phase = "flushed"
      /\ \A v \in Workers : request'[v] # None => v # w /\ request'[v] = request[v]
  BY Committed DEF CommitWritten, Operations
<1>2. PICK q \in Request : q = request[w]
  BY <1>1
<1>3. PICK r \in Resources : AddSnapshot(q, r)
        /\ IF q.of = None THEN resource[r] = None ELSE r = q.of /\ resource[r] # None
  BY <1>1, <1>2 DEF CommitWritten, RequestOK
<1>4. PICK d \in DraftIds : d = q.draft
  BY <1>1, <1>2 DEF RequestOK, Request
<1>5. draft[d] \in Draft /\ draft[d] # None /\ d # None
  BY <1>1, <1>2, <1>4, RecordAssumption DEF RequestOK, DraftInv, TypeOK
<1>6. draft[d].written \in Nat /\ draft[d].dropped \in Nat /\ draft[d].written + 1 \in Nat
  BY <1>5 DEF Draft
<1>7. PICK row \in Draft : row = WrittenDraft(d)
  BY <1>5, <1>6 DEF Draft, WrittenDraft
<1>8. row.open = FALSE /\ row.written = draft[d].written + 1
      /\ row.dropped = draft[d].dropped
  BY <1>5, <1>7 DEF Draft, WrittenDraft
<1>9. draft' = [draft EXCEPT ![d] = row] /\ UNCHANGED overlapped
  BY <1>2, <1>4, <1>7 DEF CommitWritten
<1>10. \A p \in Resources, u \in Users : ModificationsBy(u, p)' \subseteq ModificationsBy(u, p)
  BY <1>8, <1>9, NoNewModification
<1>11. \A p \in Resources \ {r} : SnapshotsOf(p)' = SnapshotsOf(p)
  BY <1>3, SnapshotAdded DEF SnapshotsOf
<1>12. r \notin overlapped' => ResourceAlone(r)'
  BY <1>1, <1>2, <1>3, <1>9, <1>10, SnapshotJoins DEF Writing
<1>13. ASSUME d \notin overlapped', DraftAlone(d) PROVE DraftAlone(d)'
  <2>1. draft'[d] = row
    BY <1>9 DEF DraftInv, TypeOK
  <2>2. \A v \in Workers : ~Commits(request'[v], d)
    BY <1>1, <1>2, <1>4, <1>5, <1>9, <1>13, NoOther DEF Commits, AloneInv
  <2>3. draft[d].written = 0 /\ draft[d].dropped = 0
    BY <1>1, <1>2, <1>4, <1>5, <1>6, <1>13 DEF DraftAlone, Commits
  <2> QED
    BY <1>8, <2>1, <2>2, <2>3 DEF DraftAlone
<1> QED
  BY <1>1, <1>9, <1>10, <1>11, <1>12, <1>13, DraftMovesAlone

LEMMA AloneNext == DraftInv /\ DraftInv' /\ AloneInv /\ [Next]_vars => AloneInv'
PROOF
<1> SUFFICES ASSUME DraftInv, DraftInv', AloneInv, [Next]_vars PROVE AloneInv'
  OBVIOUS
<1>1. ASSUME NEW w \in Workers, Arrive(w) PROVE AloneInv'
  BY <1>1, ArrivalOK, ReceiveAlone
<1>2. ASSUME NEW w \in Workers, Build(w) \/ Flush(w) PROVE AloneInv'
  BY <1>2, BuildAlone, FlushAlone
<1>3. ASSUME NEW w \in Workers,
             \/ \E d \in DraftIds : InsertDraft(w, d)
             \/ UpdateDraft(w) \/ CommitModify(w) \/ CommitWritten(w) \/ CommitNothing(w)
      PROVE  AloneInv'
  BY <1>3, InsertDraftAlone, UpdateDraftAlone, CommitModifyAlone, CommitWrittenAlone,
     CommitNothingAlone
<1>4. ASSUME NEW r \in Resources, CreateResource(r) \/ DeleteResource(r) PROVE AloneInv'
  BY <1>4, CreateResourceAlone, DeleteResourceAlone
<1>5. ASSUME NEW d \in DraftIds, DiscardDraft(d) \/ \E u \in Users : StartResource(d, u)
      PROVE  AloneInv'
  BY <1>5, DiscardDraftAlone, StartResourceAlone
<1>6. CASE UNCHANGED vars
  BY <1>6 DEF vars, AloneInv, OverlapInv, ResourceAlone, RequestAlone, WriterOK, Ordered,
     FollowsBase, Before, SnapshotsOf, ModificationsBy, Open, DraftAlone, Commits, Subjects
<1> QED
  BY <1>1, <1>2, <1>3, <1>4, <1>5, <1>6 DEF Next

-----------------------------------------------------------------------------
(* Theorems                                                                *)

LEMMA Invariant == Spec => [](DraftInv /\ AloneInv)
<1>1. Init => DraftInv /\ AloneInv
  BY DraftInit, AloneInit
<1>2. DraftInv /\ AloneInv /\ [Next]_vars => (DraftInv /\ AloneInv)'
  BY DraftNext, AloneNext
<1> QED
  BY <1>1, <1>2, PTL DEF Spec

\* Every resource, draft and request keeps the shape of its table.
THEOREM TypeCorrect == Spec => []TypeOK
<1>1. DraftInv => TypeOK
  BY DEF DraftInv
<1> QED
  BY <1>1, Invariant, PTL

\* A user has one open modification of a resource, although nothing but a
\* look-up in an earlier transaction stands in the way of a second one, as
\* long as no two requests for the resource were served at a time.
THEOREM OneDraft == Spec => []OneDraftPerUserAndResource
<1>1. AloneInv => OneDraftPerUserAndResource
  BY DEF AloneInv, ResourceAlone, OneDraftPerUserAndResource
<1> QED
  BY <1>1, Invariant, PTL

\* The snapshot that a draft becomes follows the snapshot its user had seen:
\* no change of somebody else is undone by a commit.
THEOREM NoChangeLost == Spec => []SnapshotsFollowTheirBase
<1>1. AloneInv => SnapshotsFollowTheirBase
  BY DEF AloneInv, ResourceAlone, FollowsBase, SnapshotsOf, SnapshotsFollowTheirBase
<1> QED
  BY <1>1, Invariant, PTL

\* A draft ends once: a commit writes it, or something drops it, never both.
THEOREM DraftsEndOnce == Spec => []DraftsAreWrittenOrDroppedOnce
<1>1. AloneInv => DraftsAreWrittenOrDroppedOnce
  BY DEF AloneInv, DraftAlone, DraftsAreWrittenOrDroppedOnce, Alone
<1> QED
  BY <1>1, Invariant, PTL

\* A modification can always be brought up to date, although the latest
\* snapshot is found by its stamp and the base compared by its id.
THEOREM CatchingUp == Spec => []DraftsCanCatchUp
<1>1. ASSUME DraftInv, AloneInv, NEW d \in DraftIds, Open(d), draft[d].of # None, Alone(d)
      PROVE  draft[d].base <= Latest(draft[d].of).id
  <2>1. PICK r \in Resources : r = draft[d].of
    BY <1>1, Typed DEF Open, DraftInv
  <2>2. PICK s \in SnapshotsOf(r) : s.id = draft[d].base /\ resource[r] # None
    BY <1>1, <2>1 DEF Open, DraftInv, DraftOK, BaseKnown, SnapshotsOf
  <2>3. Ordered(SnapshotsOf(r))
    BY <1>1, <2>1 DEF Alone, AloneInv, ResourceAlone
  <2> QED
    BY <1>1, <2>1, <2>2, <2>3, LatestIsLast
<1>2. DraftInv /\ AloneInv => DraftsCanCatchUp
  BY <1>1 DEF DraftsCanCatchUp
<1> QED
  BY <1>2, Invariant, PTL

=============================================================================
