------------------------------- MODULE Drafts -------------------------------
(***************************************************************************)
(* Drafts: a user prepares a new resource, or a modification of one, and   *)
(* commits it later.  A modification is based on the snapshot that was the *)
(* latest when the draft was made or when its user last caught up; it is   *)
(* committed only if that is still the latest one.                         *)
(*                                                                         *)
(* A worker of the API reads and checks, builds, flushes and commits, and  *)
(* another may commit in between.  A snapshot gets its stamp when it is    *)
(* built and its id when it is flushed; the latest is the one with the     *)
(* largest stamp, while the bases of drafts are compared by id.            *)
(***************************************************************************)
EXTENDS Naturals, FiniteSets

CONSTANTS
  Resources, DraftIds,   \* ids the database can hand out
  Users,
  Workers,               \* worker processes of the REST API
  MaxRequests,           \* bound: requests received in one behaviour
  None

ASSUME BoundAssumption == MaxRequests \in Nat

VARIABLES
  resource,    \* each resource: its delete lock and its snapshots, or None
  draft,       \* each draft that was ever inserted, or None
  request,     \* what each worker is serving, None when idle
  ids, clock, received,
  overlapped   \* history: what two requests were served for at a time

vars == <<resource, draft, request, ids, clock, received, overlapped>>

\* "follows" is the base of the draft that a snapshot was written from, 0
\* when it was not written from a modification.
Snapshot == [id : Nat, at : Nat, follows : Nat]
Resource == [deleted : BOOLEAN, snapshots : SUBSET Snapshot]

\* "written" and "dropped" are history: the commits that wrote the draft, and
\* those that deleted it without writing anything.
Draft ==
  [user : Users, of : Resources \cup {None}, base : Nat, open : BOOLEAN,
   written : Nat, dropped : Nat]
Operations == {"create_draft", "modify_draft", "commit_draft", "modify"}
Request ==
  [op : Operations, draft : DraftIds \cup {None}, user : Users \cup {None},
   of : Resources \cup {None},
   base : Nat,           \* the base read with the draft, or to give to it
   at : Nat, id : Nat,   \* stamp and id of the snapshot it writes
   phase : {"fetched", "built", "nothing", "flushed"}]
ASSUME RecordAssumption ==
  /\ None \notin Resources /\ None \notin DraftIds /\ None \notin Users
  /\ None \notin Resource /\ None \notin Draft /\ None \notin Request

TypeOK ==
  /\ resource \in [Resources -> Resource \cup {None}]
  /\ draft \in [DraftIds -> Draft \cup {None}]
  /\ request \in [Workers -> Request \cup {None}]
  /\ ids \in Nat /\ clock \in Nat /\ received \in Nat
  /\ overlapped \in SUBSET (Resources \cup DraftIds)

Init ==
  /\ resource = [r \in Resources |-> None]
  /\ draft = [d \in DraftIds |-> None]
  /\ request = [w \in Workers |-> None]
  /\ ids = 0 /\ clock = 0 /\ received = 0
  /\ overlapped = {}

-----------------------------------------------------------------------------
(* What a query sees                                                       *)

Live(r) == resource[r] # None /\ ~resource[r].deleted
Open(d) == draft[d] # None /\ draft[d].open

\* Mutant: the snapshots are ordered by their stamps without desc().
EarliestOf(snapshots) ==
  CHOOSE s \in snapshots : \A t \in snapshots : s.at <= t.at

LatestOf(snapshots) ==
  CHOOSE s \in snapshots : \A t \in snapshots : t.at <= s.at
Latest(r) == LatestOf(resource[r].snapshots)

ModificationsBy(u, r) ==
  {d \in DraftIds : Open(d) /\ draft[d].user = u /\ draft[d].of = r}

\* What a request is served for: its draft and its resource.
Subjects(q) == {q.draft, q.of} \ {None}
ServedFor == UNION {Subjects(request[w]) : w \in {v \in Workers : request[v] # None}}

Serving(w, op, phase) ==
  request[w] # None /\ request[w].op = op /\ request[w].phase = phase

Answered(w) == request' = [request EXCEPT ![w] = None]

-----------------------------------------------------------------------------
(* Requests whose reads and writes are apart                               *)

Order(op, d, u, r, base) ==
  [op |-> op, draft |-> d, user |-> u, of |-> r, base |-> base,
   at |-> 0, id |-> 0, phase |-> "fetched"]

Receive(w, q) ==
  /\ request[w] = None
  /\ received < MaxRequests
  /\ received' = received + 1
  /\ request' = [request EXCEPT ![w] = q]
  /\ overlapped' = overlapped \cup (Subjects(q) \cap ServedFor)
  /\ UNCHANGED <<resource, draft, ids, clock>>

\* Mutant: only a draft with the same base counts as a second one.
NoEqualModification(u, r) ==
  \A d \in ModificationsBy(u, r) : draft[d].base # Latest(r).id

NoModification(u, r) == ModificationsBy(u, r) = {}

\* A draft is based on what is the latest snapshot now; a second draft of
\* the user for the resource is refused.
StartModification(w, u, r) ==
  /\ Live(r)
  /\ NoModification(u, r)
  /\ Receive(w, Order("create_draft", None, u, r, Latest(r).id))

\* A draft may move to a snapshot of its resource not below its base.
MayMoveTo(d, base) ==
  /\ draft[d].base <= base
  /\ \E s \in resource[draft[d].of].snapshots : s.id = base

CatchUp(w, d, base) ==
  /\ Open(d) /\ draft[d].of # None /\ Live(draft[d].of)
  /\ MayMoveTo(d, base)
  /\ Receive(w, Order("modify_draft", d, None, draft[d].of, base))

\* The data of any draft is replaced; the payload is one column, so that the
\* base read here is written again.
Rewrite(w, d) ==
  Open(d) /\ Receive(w, Order("modify_draft", d, None, draft[d].of, draft[d].base))

\* Mutant: the base is not compared with the latest snapshot.
UpToDateUnchecked(d) == draft[d].of # None => Live(draft[d].of)

\* A modification must be based on the latest snapshot.
UpToDate(d) ==
  draft[d].of # None =>
    Live(draft[d].of) /\ draft[d].base = Latest(draft[d].of).id

\* Anyone may commit a draft: it is looked up by its id alone.
CommitDraft(w, d) ==
  /\ Open(d)
  /\ UpToDate(d)
  /\ Receive(w, Order("commit_draft", d, None, draft[d].of, draft[d].base))

Modify(w, r) == Live(r) /\ Receive(w, Order("modify", None, None, r, 0))

-----------------------------------------------------------------------------
(* Requests that are one step                                              *)

AtOnce(subjects) ==
  /\ received < MaxRequests
  /\ received' = received + 1
  /\ overlapped' = overlapped \cup (subjects \cap ServedFor)

CreateResource(r) ==
  /\ resource[r] = None
  /\ \A w \in Workers : request[w] # None => request[w].of # r
  /\ AtOnce({r})
  /\ ids' = ids + 1 /\ clock' = clock + 1
  /\ resource' = [resource EXCEPT ![r] =
       [deleted |-> FALSE,
        snapshots |-> {[id |-> ids + 1, at |-> clock + 1, follows |-> 0]}]]
  /\ UNCHANGED <<draft, request>>

NewDraft(u, r, base) ==
  [user |-> u, of |-> r, base |-> base, open |-> TRUE, written |-> 0, dropped |-> 0]

\* The draft of a resource that does not exist yet: nothing to compare.
StartResource(d, u) ==
  /\ draft[d] = None
  /\ AtOnce({})
  /\ draft' = [draft EXCEPT ![d] = NewDraft(u, None, 0)]
  /\ UNCHANGED <<resource, request, ids, clock>>

\* One DELETE; the drafts of a deleted resource are deleted by their id.
DiscardDraft(d) ==
  /\ Open(d)
  /\ AtOnce({d})
  /\ draft' = [draft EXCEPT ![d].open = FALSE, ![d].dropped = @ + 1]
  /\ UNCHANGED <<resource, request, ids, clock>>

\* The resource is locked, its drafts stay.
DeleteResource(r) ==
  /\ Live(r)
  /\ AtOnce({r})
  /\ resource' = [resource EXCEPT ![r].deleted = TRUE]
  /\ UNCHANGED <<draft, request, ids, clock>>

-----------------------------------------------------------------------------
(* Building and flushing a snapshot                                        *)

Writing == {"commit_draft", "modify"}

\* The service of the resource type reads the resource again.  If it is gone
\* by now some services refuse; others return None, and commit_draft(), which
\* does not look at the result before its commit, has nothing to write.
Build(w) ==
  /\ \E op \in Writing : Serving(w, op, "fetched")
  /\ LET q == request[w] IN
     \/ /\ q.of # None => Live(q.of)
        /\ clock' = clock + 1
        /\ request' = [request EXCEPT ![w].phase = "built", ![w].at = clock + 1]
     \/ /\ q.op = "commit_draft" /\ q.of # None /\ ~Live(q.of)
        /\ request' = [request EXCEPT ![w].phase = "nothing"]
        /\ UNCHANGED clock
     \/ Answered(w) /\ UNCHANGED clock   \* refused: a name is taken, ...
  /\ UNCHANGED <<resource, draft, ids, received, overlapped>>

Flush(w) ==
  /\ \E op \in Writing : Serving(w, op, "built")
  /\ ids' = ids + 1
  /\ request' = [request EXCEPT ![w].phase = "flushed", ![w].id = ids + 1]
  /\ UNCHANGED <<resource, draft, clock, received, overlapped>>

-----------------------------------------------------------------------------
(* Commits                                                                 *)

InsertDraft(w, d) ==
  /\ Serving(w, "create_draft", "fetched")
  /\ draft[d] = None
  /\ LET q == request[w] IN
     draft' = [draft EXCEPT ![d] = NewDraft(q.user, q.of, q.base)]
  /\ Answered(w)
  /\ UNCHANGED <<resource, ids, clock, received, overlapped>>

\* The UPDATE of a row that is gone raises StaleDataError.
UpdateDraft(w) ==
  /\ Serving(w, "modify_draft", "fetched")
  /\ LET q == request[w] IN
     IF Open(q.draft) THEN draft' = [draft EXCEPT ![q.draft].base = q.base]
                      ELSE UNCHANGED draft
  /\ Answered(w)
  /\ UNCHANGED <<resource, ids, clock, received, overlapped>>

Written(q) == [id |-> q.id, at |-> q.at, follows |-> q.base]

AddSnapshot(q, r) ==
  resource' = [resource EXCEPT ![r] =
    IF q.of = None THEN [deleted |-> FALSE, snapshots |-> {Written(q)}]
                   ELSE [resource[r] EXCEPT !.snapshots = @ \cup {Written(q)}]]

CommitModify(w) ==
  /\ Serving(w, "modify", "flushed")
  /\ AddSnapshot(request[w], request[w].of)
  /\ Answered(w)
  /\ UNCHANGED <<draft, ids, clock, received, overlapped>>

\* Mutant: the draft that was written is kept.
WrittenDraftKept(d) == [draft[d] EXCEPT !.written = @ + 1]

\* The draft is deleted in the transaction that writes its snapshot; the
\* DELETE of a row that is gone is a warning, not an error.
WrittenDraft(d) == [draft[d] EXCEPT !.open = FALSE, !.written = @ + 1]

CommitWritten(w) ==
  /\ Serving(w, "commit_draft", "flushed")
  /\ LET q == request[w] IN
     /\ \E r \in Resources :
          /\ IF q.of = None THEN resource[r] = None ELSE r = q.of
          /\ AddSnapshot(q, r)
     /\ draft' = [draft EXCEPT ![q.draft] = WrittenDraft(q.draft)]
  /\ Answered(w)
  /\ UNCHANGED <<ids, clock, received, overlapped>>

\* The draft is deleted and committed, and only then is the answer missed.
CommitNothing(w) ==
  /\ Serving(w, "commit_draft", "nothing")
  /\ LET d == request[w].draft IN
     draft' = [draft EXCEPT ![d].open = FALSE,
                            ![d].dropped = IF draft[d].open THEN @ + 1 ELSE @]
  /\ Answered(w)
  /\ UNCHANGED <<resource, ids, clock, received, overlapped>>

Arrive(w) ==
  \/ \E u \in Users, r \in Resources : StartModification(w, u, r)
  \/ \E d \in DraftIds, base \in 1..ids : CatchUp(w, d, base)
  \/ \E d \in DraftIds : Rewrite(w, d) \/ CommitDraft(w, d)
  \/ \E r \in Resources : Modify(w, r)

Next ==
  \/ \E w \in Workers :
       \/ Arrive(w) \/ Build(w) \/ Flush(w)
       \/ \E d \in DraftIds : InsertDraft(w, d)
       \/ UpdateDraft(w) \/ CommitModify(w) \/ CommitWritten(w) \/ CommitNothing(w)
  \/ \E r \in Resources : CreateResource(r) \/ DeleteResource(r)
  \/ \E d \in DraftIds : DiscardDraft(d) \/ \E u \in Users : StartResource(d, u)

Spec == Init /\ [][Next]_vars

-----------------------------------------------------------------------------
(* Properties                                                              *)

Alone(d) == d \notin overlapped /\ draft[d].of \notin overlapped

\* A user has one open modification of a resource, unless requests for the
\* resource overlapped: the look-up before the insert is all there is.
OneDraftPerUserAndResource ==
  \A u \in Users, r \in Resources \ overlapped :
    \A d, e \in ModificationsBy(u, r) : d = e

\* No change is lost to a draft: the snapshot written from it follows its
\* base directly, unless requests for the resource overlapped.
SnapshotsFollowTheirBase ==
  \A r \in Resources \ overlapped : resource[r] # None =>
    \A s, t \in resource[r].snapshots :
      s.follows # 0 => ~(s.follows < t.id /\ t.id < s.id)

\* A draft that is gone was written once or dropped once, and one that is
\* open was never written, unless requests for it or its resource overlapped.
DraftsAreWrittenOrDroppedOnce ==
  \A d \in DraftIds : draft[d] # None /\ Alone(d) =>
    draft[d].written + draft[d].dropped = IF draft[d].open THEN 0 ELSE 1

\* The user of an open modification can bring it up to date: the latest
\* snapshot of its resource, the only base that can be committed, is not
\* below its base.  Ids and stamps may disagree only where requests overlap.
DraftsCanCatchUp ==
  \A d \in DraftIds : Open(d) /\ draft[d].of # None /\ Alone(d) =>
    draft[d].base <= Latest(draft[d].of).id

=============================================================================
