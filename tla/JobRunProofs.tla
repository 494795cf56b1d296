---------------------------- MODULE JobRunProofs ----------------------------
(***************************************************************************)
(* Theorems about one run of a job, for every value of the constants: what *)
(* the task engine does with its entrypoint (TaskEngine), and what its     *)
(* jobs leave behind in the API (JobRecords).  The two share no state.     *)
(***************************************************************************)
EXTENDS TaskEngine, JobRecords, FiniteSetTheorems, TLAPS

-----------------------------------------------------------------------------
(***************************************************************************)
(* The task engine.  The steps of a validated description run in order,    *)
(* each once, all of them, and find every visible reference where          *)
(* validation said.                                                        *)
(***************************************************************************)

(* What holds of the description once it is validated, and of what the run *)
(* has produced.                                                           *)
Accepted == phase \in {"validated", "loaded", "running", "finished"}

LoadedInv ==
  /\ loaded \subseteq Supplied
  /\ phase \in {"loaded", "running"} =>
       /\ \A n \in Names : Len(desc.supplied[n]) = 1 =>
            ValuesOf(n, loaded) = Elements(desc.supplied[n])
       /\ ~short => loaded = Supplied

ProducedInv ==
  /\ registered = {s \in ran : desc.outs[s] # <<>>}
  /\ \A s \in Names, o \in Outputs :
       <<s, o>> \in produced => o \in Elements(desc.outs[s])
  /\ ~short => \A s \in registered : Elements(desc.outs[s]) \subseteq ValuesOf(s, produced)

OrderInv ==
  /\ batch \cap ran = {}
  /\ \A s \in batch : Predecessors(desc, s) \subseteq ran
  /\ phase \notin {"running", "finished", "failed"} => batch = {} /\ ran = {}

EngineInv ==
  /\ EngineTypeOK
  /\ \A n \in Names : Len(desc.supplied[n]) = Len(desc.inputs[n])
  /\ Accepted => Valid(desc)
  /\ phase = "running" => parameters = desc.parameters
  /\ LoadedInv
  /\ ProducedInv
  /\ OrderInv

-----------------------------------------------------------------------------
(* A list of outputs and what zip takes of it.                             *)
LEMMA GivenOfList ==
  ASSUME NEW l \in Seq(Outputs), NEW k \in 0..Len(l)
  PROVE  /\ Given(l, k) \subseteq Elements(l)
         /\ Elements(l) \subseteq Outputs
         /\ ~(k < Len(l)) => Given(l, k) = Elements(l)
  BY DEF Given, Elements

LEMMA ListOfOne ==
  ASSUME NEW l \in Seq(Outputs), Len(l) = 1
  PROVE  \E o \in Outputs : Elements(l) = {o}
  <1>1. l[1] \in Outputs /\ Elements(l) = {l[1]}
    BY DEF Elements
  <1> QED BY <1>1

LEMMA ListOfNone ==
  ASSUME NEW l \in Seq(Outputs), Len(l) = 1 \/ Elements(l) # {}
  PROVE  l # <<>>
  <1> SUFFICES ASSUME l = <<>> PROVE FALSE
    OBVIOUS
  <1>1. Len(l) = 0 /\ 1..Len(l) = {}
    OBVIOUS
  <1> QED BY <1>1 DEF Elements

LEMMA InitEngine == EngineInit => EngineInv
  <1> SUFFICES ASSUME EngineInit PROVE EngineInv
    OBVIOUS
  <1> USE DEF EngineInit
  <1>1. desc \in DescriptionType
    BY ConstantsAssumption
  <1>2. EngineTypeOK
    BY <1>1 DEF EngineTypeOK, Phases
  <1>3. LoadedInv /\ ProducedInv /\ OrderInv
    BY DEF LoadedInv, ProducedInv, OrderInv
  <1>4. \A n \in Names : Len(desc.supplied[n]) = Len(desc.inputs[n])
    BY ConstantsAssumption
  <1> QED BY <1>2, <1>3, <1>4 DEF EngineInv, Accepted

LEMMA NextEngine == EngineInv /\ [EngineNext]_engineVars => EngineInv'
  <1> SUFFICES ASSUME EngineInv, [EngineNext]_engineVars PROVE EngineInv'
    OBVIOUS
  <1> USE DEF EngineInv, EngineTypeOK, Accepted
  <1>0. desc \in DescriptionType /\ desc' = desc
    BY DEF EngineNext, Validate, LoadArtifacts, LoadFails, ResolveParameters,
           ParametersMissing, NextBatch, RunStep, StepFails, SaveArtifacts,
           SaveFails, Ended, engineVars
  <1>1. CASE Validate
    BY <1>1 DEF Validate, engine, Phases, LoadedInv, ProducedInv, OrderInv,
                ValuesOf, Supplied, Predecessors
  <1>2. CASE LoadArtifacts
    <2> USE <1>2 DEF LoadArtifacts
    <2>1. PICK values \in SUBSET Supplied :
            /\ \A n \in Names : \E k \in 0..Len(desc.supplied[n]) :
                 /\ Len(desc.supplied[n]) = 1 => k = 1
                 /\ ValuesOf(n, values) = Given(desc.supplied[n], k)
            /\ loaded' = values
            /\ short' = (values # Supplied)
      OBVIOUS
    <2>2. \A n \in Names : Len(desc.supplied[n]) = 1 =>
            ValuesOf(n, values) = Elements(desc.supplied[n])
      <3> SUFFICES ASSUME NEW n \in Names, Len(desc.supplied[n]) = 1
                   PROVE  ValuesOf(n, values) = Elements(desc.supplied[n])
        OBVIOUS
      <3>1. desc.supplied[n] \in Seq(Outputs)
        BY <1>0 DEF DescriptionType
      <3>2. PICK k \in 0..Len(desc.supplied[n]) :
              k = 1 /\ ValuesOf(n, values) = Given(desc.supplied[n], k)
        BY <2>1
      <3>3. Given(desc.supplied[n], k) = Elements(desc.supplied[n])
        <4>1. ~(k < Len(desc.supplied[n]))
          BY <3>2
        <4> QED BY <3>1, <4>1, GivenOfList
      <3> QED BY <3>2, <3>3
    <2>3. LoadedInv'
      BY <1>0, <2>1, <2>2 DEF LoadedInv, Supplied, ValuesOf
    <2>4. EngineTypeOK'
      BY <1>0, <2>1 DEF Phases, Supplied
    <2>5. registered = {} /\ ran = {} /\ batch = {}
      BY DEF OrderInv, ProducedInv
    <2>6. ProducedInv' /\ OrderInv'
      BY <1>0, <2>5 DEF ProducedInv, OrderInv, ValuesOf, Predecessors
    <2> QED BY <1>0, <2>3, <2>4, <2>6 DEF Valid
  <1>3. CASE ResolveParameters
    <2> USE <1>3 DEF ResolveParameters
    <2>1. parameters' = desc.parameters
      BY DEF WithDefaults
    <2>2. EngineTypeOK'
      BY <1>0, <2>1 DEF Phases
    <2>3. LoadedInv' /\ ProducedInv' /\ OrderInv'
      BY <1>0 DEF LoadedInv, ProducedInv, OrderInv, ValuesOf, Supplied, Predecessors
    <2> QED BY <1>0, <2>1, <2>2, <2>3
  <1>4. CASE NextBatch
    BY <1>0, <1>4 DEF NextBatch, Ready, Phases, LoadedInv, ProducedInv, OrderInv,
                      ValuesOf, Supplied
  <1>5. ASSUME NEW s \in Names, RunStep(s) PROVE EngineInv'
    <2> USE <1>5 DEF RunStep
    <2> DEFINE l == desc.outs[s]
    <2>1. l \in Seq(Outputs)
      BY <1>0 DEF DescriptionType
    <2>2. PICK k \in 0..Len(l) :
            /\ produced' = produced \cup ({s} \X Given(l, k))
            /\ short' = (short \/ k < Len(l))
      OBVIOUS
    <2>3. /\ Given(l, k) \subseteq Elements(l)
          /\ Elements(l) \subseteq Outputs
          /\ ~(k < Len(l)) => Given(l, k) = Elements(l)
      BY <2>1, GivenOfList
    <2>4. s \in desc.steps /\ s \notin ran
      BY DEF OrderInv
    <2>5. EngineTypeOK'
      BY <1>0, <2>2, <2>3, <2>4
    <2>6. LoadedInv'
      BY <1>0, <2>2 DEF LoadedInv, ValuesOf, Supplied
    <2>7. ProducedInv'
      <3>1. registered' = {t \in ran' : desc'.outs[t] # <<>>}
        BY <1>0 DEF ProducedInv
      <3>2. \A t \in Names, o \in Outputs :
              <<t, o>> \in produced' => o \in Elements(desc'.outs[t])
        BY <1>0, <2>2, <2>3 DEF ProducedInv
      <3>3. ASSUME ~short', NEW t \in registered'
            PROVE  Elements(desc'.outs[t]) \subseteq ValuesOf(t, produced')
        <4>1. CASE t = s
          BY <1>0, <2>2, <2>3, <3>3, <4>1 DEF ValuesOf
        <4>2. CASE t # s
          <5>1. t \in registered
            BY <3>3, <4>2
          <5>2. Elements(desc.outs[t]) \subseteq ValuesOf(t, produced)
            BY <2>2, <3>3, <5>1 DEF ProducedInv
          <5> QED BY <1>0, <2>2, <5>2 DEF ValuesOf
        <4> QED BY <4>1, <4>2
      <3>4. ~short' => \A t \in registered' :
              Elements(desc'.outs[t]) \subseteq ValuesOf(t, produced)'
        BY <3>3 DEF ValuesOf
      <3> QED BY <3>1, <3>2, <3>4 DEF ProducedInv
    <2>8. OrderInv'
      BY <1>0 DEF OrderInv, Predecessors
    <2> QED BY <1>0, <2>5, <2>6, <2>7, <2>8
  <1>6. CASE LoadFails \/ ParametersMissing \/ SaveFails \/ SaveArtifacts
             \/ \E s \in Names : StepFails(s)
    <2>1. /\ phase' \in {"failed", "finished"}
          /\ phase' = "finished" => phase = "running"
          /\ UNCHANGED <<desc, engine>>
      BY <1>6 DEF LoadFails, ParametersMissing, SaveFails, SaveArtifacts, StepFails
    <2> QED BY <2>1 DEF engine, Phases, LoadedInv, ProducedInv, OrderInv, ValuesOf,
                        Supplied, Predecessors, Valid
  <1>7. CASE Ended \/ UNCHANGED engineVars
    BY <1>7 DEF Ended, engineVars, LoadedInv, ProducedInv, OrderInv, ValuesOf, Supplied,
                Predecessors, Valid
  <1> QED BY <1>1, <1>2, <1>3, <1>4, <1>5, <1>6, <1>7 DEF EngineNext
-----------------------------------------------------------------------------
(* When the sorter has nothing more to give, every step ran: otherwise the *)
(* steps that did not run would each wait for one another.                 *)
LEMMA NothingReadyNothingLeft ==
  ASSUME EngineInv, phase = "running", Ready = {}
  PROVE  ran = desc.steps
  <1> USE DEF EngineInv, EngineTypeOK, Accepted
  <1> DEFINE left == desc.steps \ ran
  <1> SUFFICES ASSUME left # {} PROVE FALSE
    OBVIOUS
  <1>1. PICK s \in left : Predecessors(desc, s) \cap left = {}
    BY DEF Valid, Acyclic
  <1>2. Predecessors(desc, s) \subseteq desc.steps
    BY <1>1 DEF Valid, Predecessors
  <1>3. s \in Ready
    BY <1>1, <1>2 DEF Ready
  <1> QED BY <1>3

(* A checked reference whose step, if it is to one, has run.               *)
LEMMA CheckedReferenceFound ==
  ASSUME EngineInv, phase = "running",
         NEW r \in Refs, ReferentOf(desc, r) # "nothing",
         r.name \in desc.steps => r.name \in ran
  PROVE  FoundAsChecked(r)
  <1> USE DEF EngineInv, EngineTypeOK, Accepted
  <1> DEFINE n == r.name
             outs == desc.outs[n]
             ins == desc.inputs[n]
             named == desc.supplied[n]
  <1>0. /\ n \in Names /\ r.out \in Outputs \cup {Bare}
        /\ outs \in Seq(Outputs) /\ ins \in Seq(Outputs)
        /\ named \in Seq(Outputs) /\ Len(named) = Len(ins)
        /\ parameters = desc.parameters
        /\ desc.steps \cap desc.parameters = {}
        /\ registered \subseteq desc.steps
    BY DEF Refs, DescriptionType, Valid
  <1>1. CASE n \in desc.steps
    <2>1. /\ \/ r.out = Bare /\ Len(outs) = 1
             \/ r.out \in Elements(outs)
          /\ ReferentOf(desc, r) = "step"
      BY <1>1 DEF ReferentOf
    <2>2. outs # <<>>
      BY <1>0, <2>1, ListOfNone
    <2>3. n \in registered
      BY <1>1, <2>2 DEF ProducedInv
    <2>4. CASE r.out = Bare
      <3>1. PICK o \in Outputs : Elements(outs) = {o}
        <4>1. Len(outs) = 1 \/ Bare \in Elements(outs)
          BY <2>1, <2>4
        <4>2. Elements(outs) \subseteq Outputs
          BY <1>0 DEF Elements
        <4> QED BY <1>0, <4>1, <4>2, ListOfOne, ConstantsAssumption
      <3>2. ~short => ValuesOf(n, produced) = {o}
        BY <1>0, <2>3, <3>1 DEF ProducedInv, ValuesOf
      <3>3. Resolve(r) \in {"step", "nothing"} /\ (~short => Resolve(r) = "step")
        BY <1>0, <1>1, <2>3, <2>4, <3>2 DEF Resolve, ResolveBare, OnlyValue
      <3> QED BY <2>1, <3>3 DEF FoundAsChecked
    <2>5. CASE r.out # Bare
      <3>1. ~short => <<n, r.out>> \in produced
        BY <2>1, <2>3, <2>5 DEF ProducedInv, ValuesOf
      <3>2. Resolve(r) \in {"step", "nothing"} /\ (~short => Resolve(r) = "step")
        BY <2>3, <2>5, <3>1 DEF Resolve, ResolveDotted
      <3> QED BY <2>1, <3>2 DEF FoundAsChecked
    <2> QED BY <2>4, <2>5
  <1>2. CASE n \in desc.parameters
    BY <1>0, <1>2 DEF ReferentOf, FoundAsChecked, Resolve, ResolveBare
  <1>3. CASE n \notin desc.steps \cup desc.parameters
    <2>1. /\ \/ r.out = Bare /\ Len(ins) = 1
             \/ r.out \in Elements(ins)
          /\ ReferentOf(desc, r) = "artifact"
      BY <1>3 DEF ReferentOf
    <2>2. n \notin registered /\ n \notin parameters
      BY <1>0, <1>3
    <2>3. CASE r.out = Bare
      <3>1. Elements(ins) \subseteq Outputs
        BY <1>0 DEF Elements
      <3>2. Len(ins) = 1
        BY <2>1, <2>3, <3>1, ConstantsAssumption
      <3>3. PICK o \in Outputs : Elements(named) = {o}
        BY <1>0, <3>2, ListOfOne
      <3>4. ValuesOf(n, loaded) = {o}
        BY <1>0, <3>2, <3>3 DEF LoadedInv
      <3>5. Resolve(r) = "artifact"
        BY <2>2, <2>3, <3>4 DEF Resolve, ResolveBare, OnlyValue
      <3> QED BY <2>1, <3>5 DEF FoundAsChecked
    <2>4. CASE r.out # Bare
      <3>1. Resolve(r) = IF <<n, r.out>> \in loaded THEN "artifact" ELSE "nothing"
        BY <2>2, <2>4 DEF Resolve, ResolveDotted
      <3>2. CASE r.out \in Elements(named)
        <4>1. r.out \in Outputs
          BY <1>0, <2>4
        <4>2. ~short => <<n, r.out>> \in loaded
          BY <1>0, <3>2, <4>1 DEF LoadedInv, Supplied
        <4> QED BY <2>1, <3>1, <4>2 DEF FoundAsChecked
      <3>3. CASE r.out \notin Elements(named)
        <4>1. Misnamed(r) /\ <<n, r.out>> \notin loaded
          BY <2>1, <2>4, <3>3 DEF Misnamed, LoadedInv, Supplied
        <4> QED BY <3>1, <4>1 DEF FoundAsChecked
      <3> QED BY <3>2, <3>3
    <2> QED BY <2>3, <2>4
  <1> QED BY <1>1, <1>2, <1>3

LEMMA ReferencesFound == EngineInv => ReferencesMeanWhatWasChecked
  <1> SUFFICES ASSUME EngineInv, phase = "running"
               PROVE  /\ \A s \in batch : \A r \in desc.refs[s] : FoundAsChecked(r)
                      /\ batch = {} /\ Ready = {} =>
                           \A r \in desc.contents : FoundAsChecked(r)
    BY DEF ReferencesMeanWhatWasChecked
  <1> USE DEF EngineInv, EngineTypeOK
  <1>0. Valid(desc)
    BY DEF Accepted
  <1>1. ASSUME NEW s \in batch, NEW r \in desc.refs[s] PROVE FoundAsChecked(r)
    <2>1. r \in Refs /\ s \in desc.steps
      BY <1>1 DEF DescriptionType
    <2>2. ReferentOf(desc, r) # "nothing"
      BY <1>0, <1>1, <2>1 DEF Valid, ReferencesResolve
    <2>3. r.name \in desc.steps => r.name \in ran
      BY <1>1 DEF OrderInv, Predecessors
    <2> QED BY <2>1, <2>2, <2>3, CheckedReferenceFound
  <1>2. ASSUME Ready = {}, NEW r \in desc.contents PROVE FoundAsChecked(r)
    <2>1. r \in Refs
      BY <1>2 DEF DescriptionType
    <2>2. ReferentOf(desc, r) # "nothing"
      <3>1. r \in (UNION {desc.refs[s] : s \in desc.steps}) \cup desc.contents
        BY <1>2
      <3> QED BY <1>0, <3>1 DEF Valid, ReferencesResolve
    <2>3. ran = desc.steps
      BY <1>2, NothingReadyNothingLeft
    <2> QED BY <2>1, <2>2, <2>3, CheckedReferenceFound
  <1> QED BY <1>1, <1>2

LEMMA StepsInOrder ==
  EngineInv =>
    \A s \in Names : RunStep(s) =>
      /\ s \notin ran
      /\ desc.after[s] \subseteq ran
      /\ \A r \in desc.refs[s] : r.name \in desc.steps => r.name \in ran
  BY DEF EngineInv, OrderInv, RunStep, Predecessors

-----------------------------------------------------------------------------
(* The invariant of the engine.                                            *)
THEOREM EngineCorrect == EngineSpec => []EngineInv
  BY InitEngine, NextEngine, PTL DEF EngineSpec

(* Every part of the engine's state keeps its type.                        *)
THEOREM EngineTyped == EngineSpec => []EngineTypeOK
  <1>1. EngineInv => EngineTypeOK
    BY DEF EngineInv
  <1> QED BY <1>1, EngineCorrect, PTL

(* Every visible reference of a step that runs, and of an artifact output, *)
(* is found where validation said, unless a value is missing: a task or an *)
(* artifact gave too few, or the artifact's task has no output of the name *)
(* (task_engine.py EngineContext.resolve_reference and                     *)
(* _load_artifact_parameters against validation.py _check_reference).      *)
THEOREM CheckedReferencesAreFound == EngineSpec => []ReferencesMeanWhatWasChecked
  BY EngineCorrect, ReferencesFound, PTL

(* A run that finishes ran every step of the graph.                        *)
THEOREM EveryStepRuns == EngineSpec => []FinishedRunsAreComplete
  <1>1. EngineInv => FinishedRunsAreComplete
    BY NothingReadyNothingLeft DEF FinishedRunsAreComplete
  <1> QED BY <1>1, EngineCorrect, PTL

(* Steps run once, after the steps they refer to and depend on             *)
(* (util.get_sorted_steps).                                                *)
THEOREM StepsRunInOrder == EngineSpec => StepsRunAfterWhatTheyUse
  BY EngineCorrect, StepsInOrder, PTL DEF StepsRunAfterWhatTheyUse

-----------------------------------------------------------------------------
(***************************************************************************)
(* What jobs leave behind.  The four kinds of rows have nothing in common  *)
(* but the workers, so that upon TypeOK the invariant has one part for     *)
(* each: LogInv says where the records of a job are, MetricInv that what a *)
(* report read is still so, RunInv and UriInv which job and which artifact *)
(* a uri belongs to, and VersionInv in which order versions are numbered.  *)
(* OverlapInv ties them to "overlapped": a subject that is not in it has   *)
(* one request at most.                                                    *)
(***************************************************************************)

Requests == LogRequest \cup MetricRequest \cup ArtifactRequest \cup VersionRequest

LEMMA RequestKinds ==
  ASSUME NEW q \in Requests
  PROVE  /\ q.op = "logs" => q \in LogRequest
         /\ q.op = "metric" => q \in MetricRequest
         /\ q.op = "artifact" => q \in ArtifactRequest
         /\ q.op \in {"version", "describe"} => q \in VersionRequest
         /\ q.op \in {"logs", "metric", "artifact", "version", "describe"}
         /\ q # None
PROOF
<1>1. q # None
  BY RecordAssumption DEF Requests
<1>2. CASE q \in LogRequest
  BY <1>1, <1>2 DEF LogRequest
<1>3. CASE q \in MetricRequest
  BY <1>1, <1>3 DEF MetricRequest
<1>4. CASE q \in ArtifactRequest
  BY <1>1, <1>4 DEF ArtifactRequest
<1>5. CASE q \in VersionRequest
  BY <1>1, <1>5 DEF VersionRequest
<1> QED
  BY <1>2, <1>3, <1>4, <1>5 DEF Requests

-----------------------------------------------------------------------------
(* Types                                                                   *)

\* Of the versions of a model one was created last.
LatestExists ==
  \A m \in Models : versions[m] # {} =>
    \E v \in versions[m] : \A u \in versions[m] : u.at <= v.at

\* A row of metrics that was read is still there.
SeenExists(q) == q.op = "metric" /\ q.seen # None => metric[q.metric] # None

BaseInv ==
  /\ TypeOK
  /\ LatestExists
  /\ \A j \in Jobs : emitted[j] <= MaxRecords
  /\ \A w \in Workers : request[w] # None => SeenExists(request[w])

LEMMA Requested ==
  ASSUME TypeOK
  PROVE  /\ request \in [Workers -> Requests \cup {None}]
         /\ \A w \in Workers : request[w] # None => request[w] \in Requests
BY DEF TypeOK, Requests

LEMMA BaseInit == Init => BaseInv
<1> SUFFICES ASSUME Init PROVE BaseInv
  OBVIOUS
<1>1. handler \in [Jobs -> Handler]
  <2>1. <<>> \in Seq(Records)
    OBVIOUS
  <2> QED
    BY <2>1 DEF Init, Handler
<1>2. logs \in [Jobs -> Seq(Records)]
  <2>1. <<>> \in Seq(Records)
    OBVIOUS
  <2> QED
    BY <2>1 DEF Init
<1>3. refused \in [Jobs -> SUBSET Records]
  BY DEF Init
<1> QED
  BY <1>1, <1>2, <1>3, BoundsAssumption DEF Init, BaseInv, TypeOK, LatestExists, SeenExists

\* A step that moves requests, with the rows as they are.
LEMMA BaseRequest ==
  ASSUME BaseInv, NEW w \in Workers, NEW q \in Requests \cup {None},
         request' = [request EXCEPT ![w] = q], q # None => SeenExists(q),
         UNCHANGED <<logVars, metric, artifactVars, versions, described>>,
         clock' \in Nat, received' \in Nat,
         overlapped' \in SUBSET (Metrics \cup Uris \cup Models)
  PROVE  BaseInv'
BY Requested DEF BaseInv, TypeOK, LatestExists, SeenExists, logVars, artifactVars, Requests

LEMMA SubjectTyped ==
  ASSUME NEW q \in Requests
  PROVE  Subject(q) \subseteq Metrics \cup Uris \cup Models
PROOF
<1>1. CASE q.op = "logs"
  BY <1>1 DEF Subject
<1>2. CASE q.op = "metric"
  BY <1>2, RequestKinds DEF Subject, MetricRequest
<1>3. CASE q.op = "artifact"
  <2>1. q.artifact.uri \in Uris
    BY <1>3, RequestKinds DEF ArtifactRequest, Artifact
  <2> QED
    BY <1>3, <2>1 DEF Subject
<1>4. CASE q.op \in {"version", "describe"}
  <2>1. q.model \in Models
    BY <1>4, RequestKinds DEF VersionRequest
  <2> QED
    BY <1>4, <2>1 DEF Subject
<1> QED
  BY <1>1, <1>2, <1>3, <1>4, RequestKinds

LEMMA BaseReceive ==
  ASSUME BaseInv, NEW w \in Workers, NEW q \in Requests, Receive(w, q), SeenExists(q),
         UNCHANGED <<logVars, metric, artifactVars, versions, described>>, clock' \in Nat
  PROVE  BaseInv'
PROOF
<1>1. Subject(q) \subseteq Metrics \cup Uris \cup Models
  BY SubjectTyped
<1>2. overlapped' \in SUBSET (Metrics \cup Uris \cup Models) /\ received' \in Nat
  BY <1>1 DEF Receive, BaseInv, TypeOK
<1> QED
  BY <1>2, BaseRequest DEF Receive

LEMMA NextNumberTyped ==
  ASSUME BaseInv, NEW m \in Models
  PROVE  /\ NextNumber(m) \in Nat
         /\ versions[m] # {} =>
              /\ LatestVersion(m) \in versions[m]
              /\ \A u \in versions[m] : u.at <= LatestVersion(m).at
PROOF
<1>1. CASE versions[m] = {}
  BY <1>1 DEF NextNumber
<1>2. CASE versions[m] # {}
  <2>1. LatestVersion(m) \in versions[m]
        /\ \A u \in versions[m] : u.at <= LatestVersion(m).at
    BY <1>2 DEF BaseInv, LatestExists, LatestVersion
  <2>2. LatestVersion(m).number \in Nat
    BY <2>1 DEF BaseInv, TypeOK, Version
  <2> QED
    BY <1>2, <2>1, <2>2 DEF NextNumber
<1> QED
  BY <1>1, <1>2

LEMMA BaseNext == BaseInv /\ [Next]_vars => BaseInv'
<1> SUFFICES ASSUME BaseInv, [Next]_vars PROVE BaseInv'
  OBVIOUS
<1>0. TypeOK /\ request \in [Workers -> Requests \cup {None}]
      /\ \A w \in Workers : request[w] # None => request[w] \in Requests
  BY Requested DEF BaseInv
<1>1. ASSUME NEW j \in Jobs, NEW severe \in BOOLEAN, Emit(j, severe) PROVE BaseInv'
  <2> DEFINE buffer == Append(handler[j].buffer, emitted[j] + 1)
             h == [handler[j] EXCEPT !.buffer = buffer,
                     !.state = IF ShouldFlush(buffer, severe) THEN "posted" ELSE "open"]
  <2>1. handler[j] \in Handler /\ emitted[j] \in Nat /\ emitted[j] + 1 \in Records
    BY <1>0, <1>1, BoundsAssumption DEF TypeOK, Emit, Records
  <2>2. buffer \in Seq(Records)
    BY <2>1 DEF Handler
  <2>3. h \in Handler
    BY <2>1, <2>2 DEF Handler
  <2>4. handler' = [handler EXCEPT ![j] = h]
    BY <1>0, <1>1 DEF Emit, TypeOK
  <2>5. emitted' \in [Jobs -> Nat] /\ \A i \in Jobs : emitted'[i] <= MaxRecords
    BY <1>0, <1>1, <2>1 DEF Emit, TypeOK, BaseInv, Records
  <2> HIDE DEF h
  <2>6. handler' \in [Jobs -> Handler]
    BY <1>0, <2>3, <2>4 DEF TypeOK
  <2>7. UNCHANGED <<logs, failed, refused, request, rowVars>>
    BY <1>1 DEF Emit
  <2> QED
    BY <1>0, <2>5, <2>6, <2>7 DEF TypeOK, BaseInv, LatestExists, SeenExists, rowVars,
                                  artifactVars
<1>2. ASSUME NEW j \in Jobs, NEW h \in Handler, handler' = [handler EXCEPT ![j] = h],
             request' = request \/ \E w \in Workers, q \in LogRequest \cup {None} :
                                     request' = [request EXCEPT ![w] = q],
             failed' \in SUBSET Jobs, logs' \in [Jobs -> Seq(Records)],
             refused' \in [Jobs -> SUBSET Records],
             UNCHANGED <<emitted, rowVars>>
      PROVE  BaseInv'
  <2>1. request' \in [Workers -> Requests \cup {None}]
    BY <1>0, <1>2 DEF Requests
  <2>2. \A v \in Workers : request'[v] # None =>
          request'[v] = request[v] \/ request'[v].op = "logs"
    BY <1>0, <1>2 DEF LogRequest
  <2> QED
    BY <1>0, <1>2, <2>1, <2>2
       DEF TypeOK, BaseInv, LatestExists, SeenExists, rowVars, artifactVars, Requests
<1>3. ASSUME NEW j \in Jobs, Close(j) PROVE BaseInv'
  <2> DEFINE h == [handler[j] EXCEPT
                     !.state = IF handler[j].buffer = <<>> THEN "closed" ELSE "posted",
                     !.closing = TRUE]
  <2>1. h \in Handler
    BY <1>0 DEF TypeOK, Handler
  <2>2. handler' = [handler EXCEPT ![j] = h]
    BY <1>0, <1>3 DEF Close, TypeOK
  <2> QED
    BY <1>0, <1>2, <1>3, <2>1, <2>2 DEF Close, TypeOK
<1>4. ASSUME NEW h \in Handler, NEW answered PROVE WithoutBuffer(h, answered) \in Handler
  <2>1. <<>> \in Seq(Records)
    OBVIOUS
  <2> QED
    BY <2>1 DEF WithoutBuffer, Handler
<1>5. ASSUME NEW j \in Jobs, PostFails(j) PROVE BaseInv'
  <2>1. WithoutBuffer(handler[j], FALSE) \in Handler
    BY <1>0, <1>4 DEF TypeOK
  <2>2. handler' = [handler EXCEPT ![j] = WithoutBuffer(handler[j], FALSE)]
    BY <1>0, <1>5 DEF PostFails, TypeOK
  <2> QED
    BY <1>0, <1>2, <1>5, <2>1, <2>2 DEF PostFails, TypeOK
<1>6. ASSUME NEW w \in Workers, NEW j \in Jobs, ServeLogs(w, j) PROVE BaseInv'
  <2> DEFINE h == [handler[j] EXCEPT !.state = "served"]
             q == [op |-> "logs", job |-> j, batch |-> handler[j].buffer]
  <2>1. h \in Handler /\ q \in LogRequest
    BY <1>0 DEF TypeOK, Handler, LogRequest
  <2>2. handler' = [handler EXCEPT ![j] = h]
    BY <1>0, <1>6 DEF ServeLogs, TypeOK
  <2> QED
    BY <1>0, <1>2, <1>6, <2>1, <2>2 DEF ServeLogs, TypeOK
<1>7. ASSUME NEW w \in Workers, CommitLogs(w) \/ RejectLogs(w) PROVE BaseInv'
  <2>1. request[w] \in LogRequest
    BY <1>0, <1>7, RequestKinds DEF CommitLogs, RejectLogs, Serving
  <2> DEFINE q == request[w]
  <2>2. q.job \in Jobs /\ q.batch \in Seq(Records)
    BY <2>1 DEF LogRequest
  <2>3. logs' \in [Jobs -> Seq(Records)] /\ refused' \in [Jobs -> SUBSET Records]
    <3>1. logs[q.job] \o q.batch \in Seq(Records) /\ Members(q.batch) \in SUBSET Records
      BY <1>0, <2>2 DEF TypeOK, Members
    <3>2. CASE CommitLogs(w)
      BY <1>0, <2>2, <3>1, <3>2 DEF CommitLogs, TypeOK
    <3>3. CASE RejectLogs(w)
      BY <1>0, <2>2, <3>1, <3>3 DEF RejectLogs, TypeOK
    <3> QED
      BY <1>7, <3>2, <3>3
  <2>4. PICK h \in Handler : handler' = [handler EXCEPT ![q.job] = h]
    <3>1. handler[q.job] \in Handler /\ WithoutBuffer(handler[q.job], TRUE) \in Handler
      BY <1>0, <1>4, <2>2 DEF TypeOK
    <3>2. \/ handler' = [handler EXCEPT ![q.job] = WithoutBuffer(handler[q.job], TRUE)]
          \/ handler' = [handler EXCEPT ![q.job] = handler[q.job]]
      BY <1>0, <1>7, <2>2 DEF CommitLogs, RejectLogs, AnswerHandler, TypeOK
    <3> QED
      BY <3>1, <3>2
  <2> QED
    BY <1>0, <1>2, <1>7, <2>2, <2>3, <2>4 DEF CommitLogs, RejectLogs, TypeOK, Answered
<1>8. ASSUME NEW w \in Workers, WorkerDies(w) PROVE BaseInv'
  BY <1>0, <1>8, BaseRequest DEF WorkerDies, Answered, rowVars, TypeOK
<1>9. ASSUME NEW w \in Workers, NEW m \in Metrics, NEW v \in Values, ReportMetric(w, m, v)
      PROVE  BaseInv'
  <2> DEFINE q == [op |-> "metric", metric |-> m, value |-> v, seen |-> metric[m]]
  <2>1. q \in Requests /\ SeenExists(q)
    BY <1>0 DEF TypeOK, MetricRequest, Requests, SeenExists
  <2> HIDE DEF q
  <2> QED
    BY <1>0, <1>9, <2>1, BaseReceive DEF ReportMetric, TypeOK, q
<1>10. ASSUME NEW w \in Workers, CommitMetric(w) PROVE BaseInv'
  <2>1. request[w] \in MetricRequest /\ SeenExists(request[w])
    BY <1>0, <1>10, RequestKinds DEF CommitMetric, Serving, BaseInv
  <2> DEFINE q == request[w]
  <2>2. q.metric \in Metrics /\ q.value \in Values /\ NewRow(q) \in Row
    BY <2>1, ValuesAssumption DEF MetricRequest, NewRow, SpecialOf, Row
  <2>3. ASSUME NEW row \in Row PROVE ChangedRow(row, q) \in Row
    BY <2>2, <2>3 DEF ChangedRow, SpecialOf, Row
  <2>4. PICK row \in Row \cup {None} : /\ metric' = [metric EXCEPT ![q.metric] = row]
                                       /\ metric[q.metric] # None => row # None
    <3>1. q.op = "metric"
      BY <2>1 DEF MetricRequest
    <3>2. CASE q.seen # None
      <4>1. metric[q.metric] \in Row
        BY <1>0, <2>1, <2>2, <3>1, <3>2 DEF SeenExists, TypeOK
      <4>2. metric' = [metric EXCEPT ![q.metric] = ChangedRow(metric[q.metric], q)]
        BY <1>0, <1>10, <2>2, <3>2 DEF CommitMetric, TypeOK
      <4>3. ChangedRow(metric[q.metric], q) \in Row
        BY <2>3, <4>1
      <4> QED
        BY <4>2, <4>3, RecordAssumption
    <3>3. CASE q.seen = None /\ metric[q.metric] = None
      BY <1>0, <1>10, <2>2, <3>3, RecordAssumption DEF CommitMetric, TypeOK
    <3>4. CASE q.seen = None /\ metric[q.metric] # None
      <4>1. metric' = metric /\ metric[q.metric] \in Row
        BY <1>0, <1>10, <2>2, <3>4 DEF CommitMetric, TypeOK
      <4> QED
        BY <1>0, <4>1 DEF TypeOK
    <3> QED
      BY <3>2, <3>3, <3>4
  <2>5. metric' \in [Metrics -> Row \cup {None}]
        /\ \A m \in Metrics : metric[m] # None => metric'[m] # None
    BY <1>0, <2>2, <2>4 DEF TypeOK
  <2>6. \A v \in Workers : request'[v] # None =>
          request'[v] = request[v] /\ (request[v].op = "metric" => request[v].metric \in Metrics)
    BY <1>0, <1>10, RequestKinds DEF CommitMetric, Answered, MetricRequest
  <2>7. request' \in [Workers -> Requests \cup {None}]
    BY <1>0, <1>10 DEF CommitMetric, Answered
  <2>8. \A v \in Workers : request'[v] # None => SeenExists(request[v])'
    BY <2>5, <2>6 DEF BaseInv, SeenExists
  <2> QED
    BY <1>0, <1>10, <2>5, <2>7, <2>8
       DEF CommitMetric, BaseInv, TypeOK, LatestExists, logVars, artifactVars, Requests
<1>11. ASSUME NEW j \in Jobs, RecordRun(j) \/ DropRun(j) PROVE BaseInv'
  <2>1. runs' \in 0..MaxRuns /\ runs <= runs' /\ received' \in Nat
    BY <1>0, <1>11, BoundsAssumption DEF RecordRun, DropRun, TypeOK
  <2>2. PICK n \in 0..runs' : run' = [run EXCEPT ![j] = n]
    BY <1>0, <1>11, <2>1, BoundsAssumption DEF RecordRun, DropRun, TypeOK
  <2>3. run' \in [Jobs -> 0..runs']
    BY <1>0, <2>1, <2>2, BoundsAssumption DEF TypeOK
  <2> QED
    BY <1>0, <1>11, <2>1, <2>3
       DEF RecordRun, DropRun, BaseInv, TypeOK, LatestExists, SeenExists, logVars
<1>12. ASSUME NEW w \in Workers, NEW j \in Jobs, NEW a \in Artifact,
              Receive(w, [op |-> "artifact", job |-> j, artifact |-> a]),
              UNCHANGED <<logVars, metric, artifactVars, versions, described>>,
              clock' \in Nat
       PROVE  BaseInv'
  <2> DEFINE q == [op |-> "artifact", job |-> j, artifact |-> a]
  <2>1. q \in Requests /\ SeenExists(q)
    BY DEF ArtifactRequest, Requests, SeenExists
  <2> HIDE DEF q
  <2> QED
    BY <1>0, <1>12, <2>1, BaseReceive DEF q
<1>13. ASSUME NEW w \in Workers, NEW j \in Jobs, NEW uri \in Uris, RegisterArtifact(w, j, uri)
       PROVE  BaseInv'
  <2>1. clock' \in Nat /\ [id |-> clock + 1, uri |-> uri, at |-> clock + 1] \in Artifact
    BY <1>0, <1>13 DEF RegisterArtifact, TypeOK, Artifact
  <2> QED
    BY <1>12, <1>13, <2>1 DEF RegisterArtifact
<1>14. ASSUME NEW w \in Workers, NEW j \in Jobs, NEW a \in artifacts[j],
              DescribeArtifact(w, j, a)
       PROVE  BaseInv'
  <2>1. clock' \in Nat /\ clock + 1 \in Nat /\ a \in Artifact
    BY <1>0, <1>14 DEF DescribeArtifact, TypeOK
  <2>2. [a EXCEPT !.at = clock + 1] \in Artifact
    BY <2>1 DEF Artifact
  <2> QED
    BY <1>12, <1>14, <2>1, <2>2 DEF DescribeArtifact
<1>15. ASSUME NEW w \in Workers, CommitArtifact(w) PROVE BaseInv'
  <2>1. request[w] \in ArtifactRequest
    BY <1>0, <1>15, RequestKinds DEF CommitArtifact, Serving
  <2>2. artifacts' \in [Jobs -> SUBSET Artifact]
    BY <1>0, <1>15, <2>1 DEF CommitArtifact, TypeOK, ArtifactRequest
  <2>3. request' \in [Workers -> Requests \cup {None}]
        /\ \A v \in Workers : request'[v] # None => request'[v] = request[v]
    BY <1>0, <1>15 DEF CommitArtifact, Answered
  <2> QED
    BY <1>0, <1>15, <2>2, <2>3
       DEF CommitArtifact, BaseInv, TypeOK, LatestExists, SeenExists, logVars, Requests
<1>16. ASSUME NEW w \in Workers, NEW m \in Models, NEW v \in Version,
              NEW op \in {"version", "describe"},
              Receive(w, [op |-> op, model |-> m, version |-> v]),
              UNCHANGED <<logVars, metric, artifactVars, versions, described>>,
              clock' \in Nat
       PROVE  BaseInv'
  <2> DEFINE q == [op |-> op, model |-> m, version |-> v]
  <2>1. q \in Requests /\ SeenExists(q)
    BY DEF VersionRequest, Requests, SeenExists
  <2> HIDE DEF q
  <2> QED
    BY <1>0, <1>16, <2>1, BaseReceive DEF q
<1>17. ASSUME NEW w \in Workers, NEW m \in Models, CreateVersion(w, m) PROVE BaseInv'
  <2>1. clock' \in Nat
        /\ [number |-> NextNumber(m), id |-> clock + 1, at |-> clock + 1] \in Version
    BY <1>0, <1>17, NextNumberTyped DEF CreateVersion, TypeOK, Version
  <2> QED
    BY <1>16, <1>17, <2>1 DEF CreateVersion
<1>18. ASSUME NEW w \in Workers, NEW m \in Models, NEW v \in versions[m],
              DescribeVersion(w, m, v)
       PROVE  BaseInv'
  <2>1. clock' \in Nat /\ clock + 1 \in Nat /\ v \in Version
    BY <1>0, <1>18 DEF DescribeVersion, TypeOK
  <2>2. [v EXCEPT !.at = clock + 1] \in Version
    BY <2>1 DEF Version
  <2> QED
    BY <1>16, <1>18, <2>1, <2>2 DEF DescribeVersion
<1>19. ASSUME NEW w \in Workers, CommitVersion(w) PROVE BaseInv'
  <2>1. request[w] \in VersionRequest
    BY <1>0, <1>19, RequestKinds DEF CommitVersion, Serving
  <2> DEFINE q == request[w]
             same == {v \in versions[q.model] : v.id = q.version.id}
             new == IF \E v \in same : v.at > q.version.at THEN versions[q.model]
                    ELSE (versions[q.model] \ same) \cup {q.version}
  <2>2. q.model \in Models /\ q.version \in Version /\ versions[q.model] \in SUBSET Version
    BY <1>0, <2>1 DEF VersionRequest, TypeOK
  <2>3. versions' = [versions EXCEPT ![q.model] = new] /\ described' \in SUBSET Models
    BY <1>0, <1>19, <2>2 DEF CommitVersion, TypeOK
  <2>4. new \in SUBSET Version
    BY <2>2
  <2>5. new # {} => \E v \in new : \A u \in new : u.at <= v.at
    <3>1. CASE new = versions[q.model]
      BY <2>2, <3>1 DEF BaseInv, LatestExists
    <3>2. CASE /\ new = (versions[q.model] \ same) \cup {q.version}
               /\ \A v \in same : ~(v.at > q.version.at)
      <4>1. \A v \in Version : v.at \in Nat
        BY DEF Version
      <4>2. CASE versions[q.model] = {}
        BY <2>2, <3>2, <4>1, <4>2
      <4>3. CASE versions[q.model] # {}
        <5>1. PICK o \in versions[q.model] : \A u \in versions[q.model] : u.at <= o.at
          BY <2>2, <4>3 DEF BaseInv, LatestExists
        <5>2. CASE o.at <= q.version.at
          <6>1. \A u \in new : u.at <= q.version.at
            BY <2>2, <3>2, <4>1, <5>1, <5>2
          <6> QED
            BY <3>2, <6>1
        <5>3. CASE o.at > q.version.at
          <6>1. o \in new /\ \A u \in new : u.at <= o.at
            BY <2>2, <3>2, <4>1, <5>1, <5>3
          <6> QED
            BY <6>1
        <5> QED
          BY <2>2, <4>1, <5>1, <5>2, <5>3
      <4> QED
        BY <4>2, <4>3
    <3> QED
      BY <3>1, <3>2
  <2> HIDE DEF new
  <2>6. LatestExists'
    BY <1>0, <2>2, <2>3, <2>5 DEF BaseInv, LatestExists, TypeOK
  <2>7. request' \in [Workers -> Requests \cup {None}]
        /\ \A v \in Workers : request'[v] # None => request'[v] = request[v]
    BY <1>0, <1>19 DEF CommitVersion, Answered
  <2> QED
    BY <1>0, <1>19, <2>2, <2>3, <2>4, <2>6, <2>7
       DEF CommitVersion, BaseInv, TypeOK, SeenExists, logVars, artifactVars, Requests
<1>20. CASE UNCHANGED vars
  BY <1>20 DEF vars, BaseInv, TypeOK, LatestExists, SeenExists
<1> QED
  BY <1>1, <1>3, <1>5, <1>6, <1>7, <1>8, <1>9, <1>10, <1>11, <1>13, <1>14, <1>15, <1>17,
     <1>18, <1>19, <1>20 DEF Next

\* The rows, the buffers and the requests keep their shape, whatever workers
\* and connections fail.
THEOREM TypeCorrect == Spec => []TypeOK
<1>1. BaseInv => TypeOK
  BY DEF BaseInv
<1> QED
  BY BaseInit, BaseNext, <1>1, PTL DEF Spec

-----------------------------------------------------------------------------
(* Sequences without repetitions                                           *)

Distinct(s) == \A i, k \in 1..Len(s) : s[i] = s[k] => i = k
Below(s, t) == \A a \in Members(s), b \in Members(t) : a < b

LEMMA EmptySequence ==
  /\ Members(<<>>) = {} /\ Distinct(<<>>) /\ Increasing(<<>>)
  /\ \A s : Below(s, <<>>) /\ Below(<<>>, s)
BY DEF Members, Distinct, Below, Increasing

LEMMA AppendedSequence ==
  ASSUME NEW S, NEW s \in Seq(S), NEW x \in S
  PROVE  /\ Members(Append(s, x)) = Members(s) \cup {x}
         /\ Distinct(s) /\ x \notin Members(s) => Distinct(Append(s, x))
PROOF
<1> DEFINE t == Append(s, x)
<1>1. Len(s) \in Nat /\ Len(t) = Len(s) + 1 /\ t[Len(s) + 1] = x
      /\ \A i \in 1..Len(s) : t[i] = s[i]
  OBVIOUS
<1> HIDE DEF t
<1>2. Members(t) = Members(s) \cup {x}
  <2>1. \A i \in 1..Len(t) : t[i] \in Members(s) \cup {x}
    BY <1>1 DEF Members
  <2>2. \A i \in 1..Len(s) : s[i] \in Members(t)
    BY <1>1 DEF Members
  <2>3. x \in Members(t)
    BY <1>1 DEF Members
  <2> QED
    BY <2>1, <2>2, <2>3 DEF Members
<1>3. ASSUME Distinct(s), x \notin Members(s) PROVE Distinct(t)
  BY <1>1, <1>3 DEF Distinct, Members
<1> QED
  BY <1>2, <1>3 DEF t

LEMMA JoinedSequence ==
  ASSUME NEW S, NEW s \in Seq(S), NEW t \in Seq(S)
  PROVE  /\ Members(s \o t) = Members(s) \cup Members(t)
         /\ Distinct(s) /\ Distinct(t) /\ Members(s) \cap Members(t) = {}
            => Distinct(s \o t)
PROOF
<1> DEFINE u == s \o t
<1>1. /\ Len(s) \in Nat /\ Len(t) \in Nat /\ Len(u) = Len(s) + Len(t)
      /\ \A i \in 1..Len(u) : u[i] = IF i <= Len(s) THEN s[i] ELSE t[i - Len(s)]
  OBVIOUS
<1> HIDE DEF u
<1>2. /\ \A i \in 1..Len(s) : i \in 1..Len(u) /\ u[i] = s[i]
      /\ \A i \in 1..Len(t) : i + Len(s) \in 1..Len(u) /\ u[i + Len(s)] = t[i]
      /\ \A i \in 1..Len(u) : \/ i \in 1..Len(s) /\ u[i] = s[i]
                              \/ i - Len(s) \in 1..Len(t) /\ u[i] = t[i - Len(s)]
  BY <1>1
<1>3. Members(u) = Members(s) \cup Members(t)
  <2>1. \A i \in 1..Len(u) : u[i] \in Members(s) \cup Members(t)
    BY <1>2 DEF Members
  <2>2. \A i \in 1..Len(s) : s[i] \in Members(u)
    BY <1>2 DEF Members
  <2>3. \A i \in 1..Len(t) : t[i] \in Members(u)
    BY <1>2 DEF Members
  <2> QED
    BY <2>1, <2>2, <2>3 DEF Members
<1>4. ASSUME Distinct(s), Distinct(t), Members(s) \cap Members(t) = {} PROVE Distinct(u)
  <2> SUFFICES ASSUME NEW i \in 1..Len(u), NEW k \in 1..Len(u), u[i] = u[k]
               PROVE  i = k
    BY DEF Distinct
  <2>1. \A a \in 1..Len(s), b \in 1..Len(t) : s[a] # t[b]
    BY <1>4 DEF Members
  <2>2. CASE i \in 1..Len(s) /\ k \in 1..Len(s) /\ u[i] = s[i] /\ u[k] = s[k]
    BY <1>4, <2>2 DEF Distinct
  <2>3. CASE /\ i - Len(s) \in 1..Len(t) /\ u[i] = t[i - Len(s)]
             /\ k - Len(s) \in 1..Len(t) /\ u[k] = t[k - Len(s)]
    <3>1. i - Len(s) = k - Len(s)
      BY <1>4, <2>3 DEF Distinct
    <3> QED
      BY <1>1, <3>1
  <2> QED
    BY <1>2, <2>1, <2>2, <2>3
<1> QED
  BY <1>3, <1>4 DEF u

LEMMA JoinedAppended ==
  ASSUME NEW S, NEW s \in Seq(S), NEW t \in Seq(S), NEW x \in S
  PROVE  s \o Append(t, x) = Append(s \o t, x)
PROOF
<1> DEFINE u == s \o Append(t, x)
           v == Append(s \o t, x)
<1>1. u \in Seq(S) /\ v \in Seq(S) /\ Len(u) = Len(s) + Len(t) + 1 /\ Len(v) = Len(u)
      /\ Len(s) \in Nat /\ Len(t) \in Nat
  OBVIOUS
<1>2. ASSUME NEW i \in 1..Len(u) PROVE u[i] = v[i]
  <2>1. CASE i <= Len(s)
    BY <1>1, <2>1
  <2>2. CASE i > Len(s) /\ i <= Len(s) + Len(t)
    <3>1. i - Len(s) \in 1..Len(t) /\ i \in 1..Len(s \o t)
      BY <1>1, <2>2
    <3>2. u[i] = t[i - Len(s)]
      BY <1>1, <2>2, <3>1
    <3>3. v[i] = t[i - Len(s)]
      BY <1>1, <2>2, <3>1
    <3> QED
      BY <3>2, <3>3
  <2>3. CASE i = Len(s) + Len(t) + 1
    BY <1>1, <2>3
  <2> QED
    BY <1>1, <2>1, <2>2, <2>3
<1> HIDE DEF u, v
<1>3. u = v
  BY <1>1, <1>2
<1> QED
  BY <1>3 DEF u, v

\* A sequence that goes up has no member twice, and goes up when it is
\* continued above all of its members.
LEMMA IncreasingSequences ==
  ASSUME NEW s \in Seq(Nat)
  PROVE  /\ Increasing(s) => Distinct(s)
         /\ \A t \in Seq(Nat) :
              Increasing(s) /\ Increasing(t) /\ Below(s, t) => Increasing(s \o t)
PROOF
<1>1. Len(s) \in Nat /\ \A i \in 1..Len(s) : s[i] \in Nat
  OBVIOUS
<1>2. ASSUME Increasing(s), NEW i \in 1..Len(s), NEW k \in 1..Len(s), s[i] = s[k]
      PROVE  i = k
  <2>1. ~(i < k) /\ ~(k < i)
    BY <1>1, <1>2 DEF Increasing
  <2> QED
    BY <1>1, <2>1
<1>3. ASSUME NEW t \in Seq(Nat), Increasing(s), Increasing(t), Below(s, t)
      PROVE  Increasing(s \o t)
  <2> DEFINE u == s \o t
  <2>1. /\ Len(t) \in Nat /\ Len(u) = Len(s) + Len(t)
        /\ \A i \in 1..Len(u) : u[i] = IF i <= Len(s) THEN s[i] ELSE t[i - Len(s)]
    OBVIOUS
  <2> HIDE DEF u
  <2> SUFFICES ASSUME NEW i \in 1..Len(u), NEW k \in 1..Len(u), i < k
               PROVE  u[i] < u[k]
    BY DEF Increasing, u
  <2>2. CASE k <= Len(s)
    BY <1>1, <1>3, <2>1, <2>2 DEF Increasing
  <2>3. CASE i > Len(s)
    <3>1. i - Len(s) \in 1..Len(t) /\ k - Len(s) \in 1..Len(t) /\ i - Len(s) < k - Len(s)
      BY <1>1, <2>1, <2>3
    <3>2. u[i] = t[i - Len(s)] /\ u[k] = t[k - Len(s)]
      BY <1>1, <2>1, <2>3
    <3> QED
      BY <1>3, <3>1, <3>2 DEF Increasing
  <2>4. CASE i <= Len(s) /\ k > Len(s)
    <3>1. i \in 1..Len(s) /\ k - Len(s) \in 1..Len(t)
      BY <1>1, <2>1, <2>4
    <3>2. u[i] = s[i] /\ u[k] = t[k - Len(s)]
      BY <1>1, <2>1, <2>4
    <3>3. u[i] \in Members(s) /\ u[k] \in Members(t)
      BY <3>1, <3>2 DEF Members
    <3> QED
      BY <1>3, <3>3 DEF Below
  <2> QED
    BY <1>1, <2>2, <2>3, <2>4
<1> QED
  BY <1>2, <1>3 DEF Distinct

LEMMA AppendedIncreases ==
  ASSUME NEW s \in Seq(Nat), NEW x \in Nat, Increasing(s), \A a \in Members(s) : a < x
  PROVE  Increasing(Append(s, x))
PROOF
<1> DEFINE t == Append(s, x)
<1>1. Len(s) \in Nat /\ Len(t) = Len(s) + 1 /\ t[Len(s) + 1] = x
      /\ \A i \in 1..Len(s) : t[i] = s[i] /\ s[i] \in Members(s)
  BY DEF Members
<1> HIDE DEF t
<1>2. \A i, k \in 1..Len(t) : i < k => t[i] < t[k]
  BY <1>1 DEF Increasing
<1> QED
  BY <1>2 DEF Increasing, t

LEMMA DistinctCounted ==
  ASSUME NEW S, NEW s \in Seq(S), Distinct(s)
  PROVE  Cardinality(Members(s)) = Len(s)
PROOF
<1>1. Len(s) \in Nat /\ s \in [1..Len(s) -> S]
  OBVIOUS
<1>2. s \in Bijection(1..Len(s), Members(s))
  BY <1>1 DEF Distinct, Members, Bijection, Injection, Surjection, IsInjective
<1>3. ExistsBijection(1..Len(s), Members(s))
  BY <1>2 DEF ExistsBijection
<1> QED
  BY <1>1, <1>3, FS_CountingElements

LEMMA MembersTyped ==
  ASSUME NEW S, NEW s \in Seq(S)
  PROVE  Members(s) \subseteq S
BY DEF Members

-----------------------------------------------------------------------------
(* Log records                                                             *)

\* Each record of s was logged by the job, and is in s once.
Logged(j, s) == Distinct(s) /\ \A r \in Members(s) : r <= emitted[j]

Posts(w, j) == request[w] # None /\ request[w].op = "logs" /\ request[w].job = j

\* The handler waits for the answer to this post.
Awaited(w, j) == handler[j].state = "served" /\ request[w].batch = handler[j].buffer

\* A post under way: what the handler holds now, or older than all of that.
PostOK(w, j) ==
  /\ Logged(j, request[w].batch)
  /\ Members(request[w].batch) \cap Members(logs[j]) = {}
  /\ Awaited(w, j) \/ Below(request[w].batch, handler[j].buffer)
  /\ j \notin failed => Awaited(w, j)

\* Every record is in the buffer, stored, or in a post answered with an error.
Accounted(j) ==
  /\ Increasing(logs[j])
  /\ Members(logs[j]) \cup Members(handler[j].buffer) = (1..emitted[j]) \ refused[j]

LogsOf(j) ==
  /\ handler[j].state \in {"posted", "served"} => handler[j].buffer # <<>>
  /\ Logged(j, handler[j].buffer) /\ Logged(j, logs[j])
  /\ Below(logs[j], handler[j].buffer)
  /\ Increasing(handler[j].buffer)
  /\ \A r \in refused[j] : r <= emitted[j]
  /\ \A w \in Workers : Posts(w, j) => PostOK(w, j)
  /\ \A v, w \in Workers : Posts(v, j) /\ Posts(w, j) /\ v # w =>
       Members(request[v].batch) \cap Members(request[w].batch) = {}
  /\ j \notin failed => Accounted(j)

LogInv == \A j \in Jobs : LogsOf(j)

LEMMA LogTyped ==
  ASSUME BaseInv, NEW j \in Jobs
  PROVE  /\ handler[j].buffer \in Seq(Records) /\ logs[j] \in Seq(Records)
         /\ handler[j].buffer \in Seq(Nat) /\ logs[j] \in Seq(Nat)
         /\ refused[j] \subseteq Nat
         /\ handler[j].state \in {"open", "posted", "served", "closed"}
         /\ emitted[j] \in Nat
         /\ Members(handler[j].buffer) \subseteq Nat /\ Members(logs[j]) \subseteq Nat
         /\ \A w \in Workers : Posts(w, j) =>
              /\ request[w].batch \in Seq(Records)
              /\ Members(request[w].batch) \subseteq Nat
PROOF
<1>1. handler[j] \in Handler /\ logs[j] \in Seq(Records) /\ emitted[j] \in Nat
      /\ refused[j] \subseteq Records
  BY DEF BaseInv, TypeOK
<1>2. handler[j].buffer \in Seq(Records)
      /\ handler[j].state \in {"open", "posted", "served", "closed"}
  BY <1>1 DEF Handler
<1>3. \A w \in Workers : Posts(w, j) => request[w].batch \in Seq(Records)
  BY Requested, RequestKinds DEF Posts, LogRequest, BaseInv
<1>4. Records \subseteq Nat
  BY DEF Records
<1>5. \A s \in Seq(Records) : Members(s) \subseteq Nat
  BY <1>4, MembersTyped
<1>6. ASSUME NEW s \in Seq(Records) PROVE s \in Seq(Nat)
  <2>1. Len(s) \in Nat /\ s = [i \in 1..Len(s) |-> s[i]]
    OBVIOUS
  <2>2. \A i \in 1..Len(s) : s[i] \in Records
    OBVIOUS
  <2>3. \A i \in 1..Len(s) : s[i] \in Nat
    BY <1>4, <2>2
  <2> QED
    BY <2>1, <2>3
<1> QED
  BY <1>1, <1>2, <1>3, <1>4, <1>5, <1>6

LEMMA LogInit == Init => LogInv
<1> SUFFICES ASSUME Init, NEW j \in Jobs PROVE LogsOf(j)
  BY DEF LogInv
<1>1. /\ handler[j].buffer = <<>> /\ handler[j].state \in {"open", "closed"}
      /\ logs[j] = <<>> /\ emitted[j] = 0 /\ refused[j] = {}
      /\ \A w \in Workers : ~Posts(w, j)
  BY DEF Init, Posts
<1>2. 1..0 = {}
  OBVIOUS
<1> QED
  BY <1>1, <1>2, EmptySequence DEF LogsOf, Logged, Accounted

LEMMA LogsKept ==
  ASSUME NEW j \in Jobs, LogsOf(j), handler'[j] = handler[j], emitted'[j] = emitted[j],
         logs'[j] = logs[j], refused'[j] = refused[j], j \in failed' <=> j \in failed,
         \A w \in Workers : Posts(w, j)' => Posts(w, j) /\ request'[w] = request[w]
  PROVE  LogsOf(j)'
BY DEF LogsOf, PostOK, Logged, Awaited, Accounted

\* Nothing about logs changes, but that posts may be given up.
LEMMA LogQuiet ==
  ASSUME LogInv, UNCHANGED logVars,
         \A w \in Workers, j \in Jobs :
           Posts(w, j)' => Posts(w, j) /\ request'[w] = request[w]
  PROVE  LogInv'
BY LogsKept DEF LogInv, logVars

LEMMA EmitLogs ==
  ASSUME BaseInv, LogInv, NEW j \in Jobs, NEW severe \in BOOLEAN, Emit(j, severe)
  PROVE  LogInv'
PROOF
<1> DEFINE b == handler[j].buffer
           e == emitted[j]
<1>1. LogsOf(j) /\ handler[j].state = "open" /\ e + 1 \in Records /\ e \in Nat
  BY LogTyped, BoundsAssumption DEF LogInv, Emit, Records
<1>2. /\ emitted'[j] = e + 1 /\ handler'[j].buffer = Append(b, e + 1)
      /\ handler'[j].state \in {"open", "posted"}
      /\ logs' = logs /\ request' = request /\ failed' = failed /\ refused' = refused
      /\ \A k \in Jobs \ {j} : emitted'[k] = emitted[k] /\ handler'[k] = handler[k]
  BY DEF Emit, BaseInv, TypeOK, Handler
<1>3. b \in Seq(Records) /\ logs[j] \in Seq(Records) /\ b \in Seq(Nat)
      /\ refused[j] \subseteq Nat /\ Members(b) \subseteq Nat /\ Members(logs[j]) \subseteq Nat
  BY LogTyped
<1>4. Members(Append(b, e + 1)) = Members(b) \cup {e + 1}
      /\ (Distinct(b) /\ e + 1 \notin Members(b) => Distinct(Append(b, e + 1)))
  BY <1>1, <1>3, AppendedSequence
<1>5. \A r \in Members(b) \cup Members(logs[j]) : r < e + 1
  BY <1>1, <1>3 DEF LogsOf, Logged
<1>6. Logged(j, handler[j].buffer)' /\ Logged(j, logs[j])'
  BY <1>1, <1>2, <1>3, <1>4, <1>5 DEF LogsOf, Logged
<1>7. Below(logs[j], handler[j].buffer)'
  BY <1>1, <1>2, <1>4, <1>5 DEF LogsOf, Below
<1>8. ASSUME NEW w \in Workers, Posts(w, j) PROVE PostOK(w, j)'
  <2>1. /\ PostOK(w, j) /\ ~Awaited(w, j) /\ j \in failed
        /\ Members(request[w].batch) \subseteq Nat
    BY <1>1, <1>8, LogTyped DEF LogsOf, PostOK, Awaited
  <2>2. \A r \in Members(request[w].batch) : r < e + 1
    BY <1>1, <2>1 DEF PostOK, Logged
  <2>3. Below(request[w].batch, handler'[j].buffer)
    BY <1>2, <1>4, <2>1, <2>2 DEF PostOK, Below
  <2>4. Logged(j, request[w].batch)'
    BY <1>1, <1>2, <2>1, <2>2 DEF PostOK, Logged
  <2> QED
    BY <1>2, <2>1, <2>3, <2>4 DEF PostOK
<1>9. Increasing(Append(b, e + 1))
  BY <1>1, <1>3, <1>5, AppendedIncreases DEF LogsOf
<1>10. j \notin failed => Accounted(j)'
  <2> SUFFICES ASSUME j \notin failed PROVE Accounted(j)'
    OBVIOUS
  <2>1. e + 1 \notin refused[j] /\ 1..(e + 1) = (1..e) \cup {e + 1}
    BY <1>1, <1>3 DEF LogsOf
  <2>2. Members(logs[j]) \cup Members(Append(b, e + 1)) = (1..(e + 1)) \ refused[j]
    BY <1>1, <1>4, <2>1 DEF LogsOf, Accounted
  <2> QED
    BY <1>1, <1>2, <2>2 DEF LogsOf, Accounted
<1>11. \A r \in refused[j] : r <= e + 1
  BY <1>1, <1>3 DEF LogsOf
<1>12. Append(b, e + 1) # <<>>
  BY <1>1, <1>3
<1>13. LogsOf(j)'
  BY <1>1, <1>2, <1>6, <1>7, <1>8, <1>9, <1>10, <1>11, <1>12 DEF LogsOf, Posts
<1> QED
  BY <1>2, <1>13, LogsKept DEF LogInv, Posts

LEMMA CloseLogs ==
  ASSUME BaseInv, LogInv, NEW j \in Jobs, Close(j)
  PROVE  LogInv'
PROOF
<1>1. LogsOf(j) /\ handler[j].state = "open"
  BY DEF LogInv, Close
<1>2. /\ handler'[j].buffer = handler[j].buffer
      /\ handler'[j].state \in {"closed", "posted"}
      /\ handler'[j].state = "posted" => handler[j].buffer # <<>>
      /\ UNCHANGED <<logs, request, failed, refused, emitted>>
      /\ \A k \in Jobs \ {j} : handler'[k] = handler[k]
  BY DEF Close, BaseInv, TypeOK, Handler
<1>3. \A w \in Workers : Posts(w, j) => PostOK(w, j) /\ ~Awaited(w, j)
  BY <1>1 DEF LogsOf, Awaited
<1>4. LogsOf(j)'
  BY <1>1, <1>2, <1>3 DEF LogsOf, PostOK, Logged, Posts, Accounted
<1> QED
  BY <1>2, <1>4, LogsKept DEF LogInv, Posts

LEMMA ServeLogsKeeps ==
  ASSUME BaseInv, LogInv, NEW w \in Workers, NEW j \in Jobs, ServeLogs(w, j)
  PROVE  LogInv'
PROOF
<1>1. LogsOf(j) /\ handler[j].state = "posted" /\ request[w] = None
  BY DEF LogInv, ServeLogs
<1>2. /\ handler'[j].buffer = handler[j].buffer /\ handler'[j].state = "served"
      /\ request'[w] # None /\ request'[w].op = "logs" /\ request'[w].job = j
      /\ request'[w].batch = handler[j].buffer
      /\ UNCHANGED <<logs, failed, refused, emitted>>
      /\ \A k \in Jobs \ {j} : handler'[k] = handler[k]
      /\ \A v \in Workers \ {w} : request'[v] = request[v]
  <2>1. [op |-> "logs", job |-> j, batch |-> handler[j].buffer] \in Requests
    BY LogTyped DEF Requests, LogRequest
  <2> QED
    BY <2>1, RecordAssumption DEF ServeLogs, BaseInv, TypeOK, Handler, Requests
<1>3. \A v \in Workers : Posts(v, j) =>
        PostOK(v, j) /\ ~Awaited(v, j) /\ Below(request[v].batch, handler[j].buffer)
        /\ j \in failed
  BY <1>1 DEF LogsOf, Awaited, PostOK
<1>4. Members(handler[j].buffer) \subseteq Nat /\ Members(logs[j]) \subseteq Nat
  BY LogTyped
<1>5. Members(handler[j].buffer) \cap Members(logs[j]) = {}
  BY <1>1, <1>4 DEF LogsOf, Below
<1>6. \A v \in Workers : Posts(v, j) =>
        Members(request[v].batch) \cap Members(handler[j].buffer) = {}
  BY <1>3, <1>4 DEF Below
<1>7. PostOK(w, j)'
  BY <1>1, <1>2, <1>5 DEF LogsOf, PostOK, Logged, Awaited
<1>8. \A v \in Workers \ {w} : Posts(v, j)' => Posts(v, j) /\ PostOK(v, j)'
  BY <1>2, <1>3 DEF Posts, PostOK, Logged
<1>9. ASSUME NEW u \in Workers, NEW v \in Workers, Posts(u, j)', Posts(v, j)', u # v
      PROVE  Members(request'[u].batch) \cap Members(request'[v].batch) = {}
  BY <1>1, <1>2, <1>6, <1>8, <1>9 DEF LogsOf
<1>10. LogsOf(j)'
  BY <1>1, <1>2, <1>7, <1>8, <1>9 DEF LogsOf, Logged, Accounted
<1> QED
  BY <1>2, <1>10, LogsKept DEF LogInv, Posts

\* An answer, to records that are now stored or to records that are refused.
LEMMA AnswerLogsKeeps ==
  ASSUME BaseInv, LogInv, NEW w \in Workers, CommitLogs(w) \/ RejectLogs(w)
  PROVE  LogInv'
PROOF
<1>1. PICK j \in Jobs : Posts(w, j)
  BY Requested, RequestKinds DEF CommitLogs, RejectLogs, Serving, Posts, BaseInv, LogRequest
<1> DEFINE sent == request[w].batch
           b == handler[j].buffer
<1>2. LogsOf(j) /\ PostOK(w, j)
  BY <1>1 DEF LogInv, LogsOf
<1>3. /\ sent \in Seq(Records) /\ b \in Seq(Records) /\ logs[j] \in Seq(Records)
      /\ b \in Seq(Nat) /\ logs[j] \in Seq(Nat)
      /\ Members(b) \subseteq Nat /\ Members(logs[j]) \subseteq Nat /\ emitted[j] \in Nat
  BY <1>1, LogTyped
<1>4. /\ \/ logs'[j] = logs[j] \o sent /\ refused'[j] = refused[j]
         \/ logs'[j] = logs[j] /\ refused'[j] = refused[j] \cup Members(sent)
      /\ \A k \in Jobs \ {j} : /\ logs'[k] = logs[k] /\ handler'[k] = handler[k]
                               /\ refused'[k] = refused[k]
      /\ \A v \in Workers \ {w} : request'[v] = request[v]
      /\ request'[w] = None /\ UNCHANGED <<emitted, failed>>
  BY <1>1 DEF CommitLogs, RejectLogs, AnswerHandler, Answered, BaseInv, TypeOK, Posts
<1>5. /\ Members(logs'[j]) \subseteq Members(logs[j]) \cup Members(sent)
      /\ Logged(j, logs'[j]) /\ \A r \in refused'[j] : r <= emitted[j]
  <2>1. CASE logs'[j] = logs[j] \o sent /\ refused'[j] = refused[j]
    BY <1>2, <1>3, <2>1, JoinedSequence DEF LogsOf, PostOK, Logged
  <2>2. CASE logs'[j] = logs[j] /\ refused'[j] = refused[j] \cup Members(sent)
    BY <1>2, <2>2 DEF LogsOf, PostOK, Logged
  <2> QED
    BY <1>4, <2>1, <2>2
<1>6. ASSUME NEW v \in Workers, Posts(v, j)'
      PROVE  /\ v # w /\ Posts(v, j) /\ PostOK(v, j) /\ request'[v] = request[v]
             /\ Logged(j, request[v].batch)
             /\ Members(request[v].batch) \cap Members(logs'[j]) = {}
  <2>1. v # w /\ Posts(v, j) /\ request'[v] = request[v]
    BY <1>4, <1>6 DEF Posts
  <2>2. PostOK(v, j) /\ Members(request[v].batch) \cap Members(sent) = {}
    BY <1>1, <1>2, <2>1 DEF LogsOf
  <2> QED
    BY <1>5, <2>1, <2>2 DEF PostOK
<1>7. ASSUME NEW u \in Workers, NEW v \in Workers, Posts(u, j)', Posts(v, j)', u # v
      PROVE  Members(request'[u].batch) \cap Members(request'[v].batch) = {}
  BY <1>2, <1>6, <1>7 DEF LogsOf
<1>8. CASE Awaited(w, j)
  <2>1. handler'[j] = WithoutBuffer(handler[j], TRUE) /\ handler[j] \in Handler
    BY <1>1, <1>8 DEF Awaited, CommitLogs, RejectLogs, AnswerHandler, BaseInv, TypeOK, Posts
  <2>2. handler'[j].buffer = <<>> /\ handler'[j].state \in {"open", "closed"}
    BY <2>1 DEF WithoutBuffer, Handler
  <2>3. Members(handler[j].buffer) # {}
    <3>1. b # <<>>
      BY <1>2, <1>8 DEF Awaited, LogsOf
    <3>2. 1 \in 1..Len(b)
      BY <1>3, <3>1
    <3> QED
      BY <3>2 DEF Members
  <2>4. \A v \in Workers : Posts(v, j)' => j \in failed
    <3> SUFFICES ASSUME NEW v \in Workers, Posts(v, j)', j \notin failed PROVE FALSE
      OBVIOUS
    <3>1. request[v].batch = b /\ sent = b
      BY <1>6, <1>8 DEF PostOK, Awaited
    <3> QED
      BY <1>1, <1>2, <1>6, <2>3, <3>1 DEF LogsOf
  <2>5. \A v \in Workers : Posts(v, j)' => PostOK(v, j)'
    BY <1>4, <1>6, <2>2, <2>4, EmptySequence DEF PostOK, Logged
  <2>6. j \notin failed => Accounted(j)'
    <3> SUFFICES ASSUME j \notin failed PROVE Accounted(j)'
      OBVIOUS
    <3>1. /\ sent = b /\ Increasing(logs[j]) /\ Increasing(b) /\ Below(logs[j], b)
          /\ Members(logs[j]) \cup Members(b) = (1..emitted[j]) \ refused[j]
      BY <1>2, <1>8 DEF LogsOf, Awaited, Accounted
    <3>2. CASE logs'[j] = logs[j] \o sent /\ refused'[j] = refused[j]
      <4>1. Increasing(logs[j] \o b)
        BY <1>3, <3>1, IncreasingSequences
      <4>2. Members(logs[j] \o b) = Members(logs[j]) \cup Members(b)
        BY <1>3, JoinedSequence
      <4> QED
        BY <1>4, <2>2, <3>1, <3>2, <4>1, <4>2, EmptySequence DEF Accounted
    <3>3. CASE logs'[j] = logs[j] /\ refused'[j] = refused[j] \cup Members(sent)
      <4>1. Members(logs[j]) \cap Members(b) = {}
        BY <1>3, <3>1 DEF Below
      <4>2. Members(logs[j]) = (1..emitted[j]) \ (refused[j] \cup Members(b))
        BY <3>1, <4>1
      <4> QED
        BY <1>4, <2>2, <3>1, <3>3, <4>2, EmptySequence DEF Accounted
    <3> QED
      BY <1>4, <3>2, <3>3
  <2>7. LogsOf(j)'
    BY <1>4, <1>5, <1>7, <2>2, <2>5, <2>6, EmptySequence DEF LogsOf, Logged
  <2> QED
    BY <1>4, <2>7, LogsKept DEF LogInv, Posts
<1>9. CASE ~Awaited(w, j)
  <2>1. handler' = handler /\ j \in failed /\ Below(sent, b)
    BY <1>1, <1>2, <1>9 DEF Awaited, CommitLogs, RejectLogs, AnswerHandler, PostOK, Posts
  <2>2. Below(logs'[j], b)
    BY <1>2, <1>5, <2>1 DEF LogsOf, Below
  <2>3. \A v \in Workers : Posts(v, j)' => PostOK(v, j)'
    BY <1>4, <1>6, <2>1 DEF PostOK, Logged, Awaited
  <2>4. LogsOf(j)'
    BY <1>2, <1>4, <1>5, <1>7, <2>1, <2>2, <2>3 DEF LogsOf, Logged
  <2> QED
    BY <1>4, <2>4, LogsKept DEF LogInv, Posts
<1> QED
  BY <1>8, <1>9

LEMMA PostFailsKeeps ==
  ASSUME BaseInv, LogInv, NEW j \in Jobs, PostFails(j)
  PROVE  LogInv'
PROOF
<1>1. LogsOf(j)
  BY DEF LogInv
<1>2. /\ handler'[j].buffer = <<>> /\ handler'[j].state \in {"open", "closed"}
      /\ j \in failed' /\ UNCHANGED <<logs, request, refused, emitted>>
      /\ \A k \in Jobs \ {j} : handler'[k] = handler[k] /\ (k \in failed' <=> k \in failed)
  BY DEF PostFails, WithoutBuffer, BaseInv, TypeOK, Handler
<1>3. \A w \in Workers : Posts(w, j) => PostOK(w, j)'
  BY <1>1, <1>2, EmptySequence DEF LogsOf, PostOK, Logged
<1>4. LogsOf(j)'
  BY <1>1, <1>2, <1>3, EmptySequence DEF LogsOf, Logged, Posts
<1> QED
  BY <1>2, <1>4, LogsKept DEF LogInv, Posts

LEMMA AnswersPostNothing ==
  ASSUME BaseInv, NEW w \in Workers,
         Answered(w) \/ \E q \in Requests : q.op # "logs" /\ request' = [request EXCEPT ![w] = q]
  PROVE  \A v \in Workers, j \in Jobs :
           Posts(v, j)' => Posts(v, j) /\ request'[v] = request[v]
BY Requested DEF BaseInv, Answered, Posts

LEMMA LogNext == BaseInv /\ LogInv /\ [Next]_vars => LogInv'
<1> SUFFICES ASSUME BaseInv, LogInv, [Next]_vars PROVE LogInv'
  OBVIOUS
<1>1. ASSUME NEW j \in Jobs,
             \/ \E severe \in BOOLEAN : Emit(j, severe)
             \/ Close(j) \/ PostFails(j)
      PROVE  LogInv'
  BY <1>1, EmitLogs, CloseLogs, PostFailsKeeps
<1>2. ASSUME NEW w \in Workers, CommitLogs(w) \/ RejectLogs(w) \/ \E j \in Jobs : ServeLogs(w, j)
      PROVE  LogInv'
  BY <1>2, AnswerLogsKeeps, ServeLogsKeeps
<1>3. ASSUME NEW w \in Workers,
             WorkerDies(w) \/ CommitMetric(w) \/ CommitArtifact(w) \/ CommitVersion(w)
      PROVE  LogInv'
  <2>1. Answered(w) /\ UNCHANGED logVars
    BY <1>3 DEF WorkerDies, CommitMetric, CommitArtifact, CommitVersion
  <2> QED
    BY <2>1, AnswersPostNothing, LogQuiet
<1>4. ASSUME NEW w \in Workers, NEW q, q.op # "logs", Receive(w, q), UNCHANGED logVars
      PROVE  LogInv'
  <2>1. \A v \in Workers, j \in Jobs :
          Posts(v, j)' => Posts(v, j) /\ request'[v] = request[v]
    BY <1>4 DEF Receive, Posts, BaseInv, TypeOK
  <2> QED
    BY <1>4, <2>1, LogQuiet
<1>5. ASSUME NEW w \in Workers, NEW m \in Metrics, NEW v \in Values, ReportMetric(w, m, v)
      PROVE  LogInv'
  BY <1>4, <1>5 DEF ReportMetric
<1>6. ASSUME NEW w \in Workers, NEW j \in Jobs,
             \/ \E uri \in Uris : RegisterArtifact(w, j, uri)
             \/ \E a \in artifacts[j] : DescribeArtifact(w, j, a)
      PROVE  LogInv'
  BY <1>4, <1>6 DEF RegisterArtifact, DescribeArtifact
<1>7. ASSUME NEW w \in Workers, NEW m \in Models,
             CreateVersion(w, m) \/ \E v \in versions[m] : DescribeVersion(w, m, v)
      PROVE  LogInv'
  BY <1>4, <1>7 DEF CreateVersion, DescribeVersion
<1>8. ASSUME NEW j \in Jobs, RecordRun(j) \/ DropRun(j) PROVE LogInv'
  BY <1>8, LogQuiet DEF RecordRun, DropRun, Posts
<1>9. CASE UNCHANGED vars
  BY <1>9, LogQuiet DEF vars, logVars, Posts
<1> QED
  BY <1>1, <1>2, <1>3, <1>5, <1>6, <1>7, <1>8, <1>9 DEF Next

\* No record is stored twice, however posts, answers and workers fail: a post
\* under way shares nothing with what is stored, with other posts or with what
\* the handler will post next.
THEOREM RecordsStoredOnce == Spec => []LogsStoredOnce
<1>1. BaseInv /\ LogInv => LogsStoredOnce
  <2> SUFFICES ASSUME BaseInv, LogInv, NEW j \in Jobs
               PROVE  Cardinality(Members(logs[j])) = Len(logs[j])
    BY DEF LogsStoredOnce
  <2>1. Distinct(logs[j]) /\ logs[j] \in Seq(Records)
    BY LogTyped DEF LogInv, LogsOf, Logged
  <2> QED
    BY <2>1, DistinctCounted
<1> QED
  BY BaseInit, BaseNext, LogInit, LogNext, <1>1, PTL DEF Spec

\* Of a job none of whose posts broke, the records that are stored or still in
\* the buffer are in the order in which they were logged, and they are all but
\* those of the posts that were answered with an error.
THEOREM RecordsCompleteInOrder == Spec => []LogsCompleteInOrder
<1>1. BaseInv /\ LogInv => LogsCompleteInOrder
  <2> SUFFICES ASSUME BaseInv, LogInv, NEW j \in Jobs \ failed
               PROVE  /\ Increasing(logs[j] \o handler[j].buffer)
                      /\ Members(logs[j] \o handler[j].buffer)
                           = (1..emitted[j]) \ refused[j]
    BY DEF LogsCompleteInOrder
  <2> DEFINE b == handler[j].buffer
  <2>1. /\ Below(logs[j], b) /\ Increasing(b) /\ Increasing(logs[j])
        /\ Members(logs[j]) \cup Members(b) = (1..emitted[j]) \ refused[j]
    BY DEF LogInv, LogsOf, Accounted
  <2>2. b \in Seq(Nat) /\ logs[j] \in Seq(Nat)
    BY LogTyped
  <2>3. Increasing(logs[j] \o b)
    BY <2>1, <2>2, IncreasingSequences
  <2>4. Members(logs[j] \o b) = Members(logs[j]) \cup Members(b)
    BY <2>2, JoinedSequence
  <2> QED
    BY <2>1, <2>3, <2>4
<1> QED
  BY BaseInit, BaseNext, LogInit, LogNext, <1>1, PTL DEF Spec

-----------------------------------------------------------------------------
(* Requests for one subject                                                *)

\* Two requests for one subject have made it overlapped.
OverlapInv ==
  \A v, w \in Workers : v # w /\ request[v] # None /\ request[w] # None =>
    Subject(request[v]) \cap Subject(request[w]) \subseteq overlapped

LEMMA OverlapInit == Init => OverlapInv
BY DEF Init, OverlapInv

LEMMA OverlapQuiet ==
  ASSUME OverlapInv, overlapped' = overlapped,
         \A w \in Workers : request'[w] # None => request'[w] = request[w]
  PROVE  OverlapInv'
BY DEF OverlapInv, Subject

LEMMA ReceiveNotes ==
  ASSUME OverlapInv, BaseInv, NEW w \in Workers, NEW q, Receive(w, q)
  PROVE  OverlapInv'
PROOF
<1>1. /\ \A v \in Workers \ {w} : request'[v] = request[v]
      /\ request'[w] = q /\ overlapped \subseteq overlapped'
      /\ Subject(q) \cap InService \subseteq overlapped'
  BY DEF Receive, BaseInv, TypeOK
<1>2. \A v \in Workers : request[v] # None => Subject(request[v]) \subseteq InService
  BY DEF InService
<1>3. request[w] = None
  BY DEF Receive
<1>4. ASSUME NEW u \in Workers, NEW v \in Workers, u # v,
             request'[u] # None, request'[v] # None,
             NEW s \in Subject(request'[u]) \cap Subject(request'[v])
      PROVE  s \in overlapped'
  <2>1. CASE u = w
    BY <1>1, <1>2, <1>4, <2>1
  <2>2. CASE v = w
    BY <1>1, <1>2, <1>4, <2>2
  <2>3. CASE u # w /\ v # w
    BY <1>1, <1>4, <2>3 DEF OverlapInv
  <2> QED
    BY <2>1, <2>2, <2>3
<1>5. \A u, v \in Workers : u # v /\ request'[u] # None /\ request'[v] # None =>
        Subject(request'[u]) \cap Subject(request'[v]) \subseteq overlapped'
  BY <1>4
<1> QED
  BY <1>5 DEF OverlapInv, Subject

\* A step that receives a request.
Starts ==
  \E w \in Workers :
    \/ \E m \in Metrics, v \in Values : ReportMetric(w, m, v)
    \/ \E j \in Jobs : \/ \E uri \in Uris : RegisterArtifact(w, j, uri)
                       \/ \E a \in artifacts[j] : DescribeArtifact(w, j, a)
    \/ \E m \in Models : \/ CreateVersion(w, m)
                         \/ \E v \in versions[m] : DescribeVersion(w, m, v)

LEMMA StartsReceive ==
  ASSUME Starts
  PROVE  /\ \E w \in Workers : \E q : Receive(w, q)
         /\ UNCHANGED <<logVars, metric, artifactVars, versions, described>>
         /\ clock' = clock \/ clock' = clock + 1
BY DEF Starts, ReportMetric, RegisterArtifact, DescribeArtifact, CreateVersion,
       DescribeVersion

LEMMA OverlapNext == BaseInv /\ OverlapInv /\ [Next]_vars => OverlapInv'
<1> SUFFICES ASSUME BaseInv, OverlapInv, [Next]_vars PROVE OverlapInv'
  OBVIOUS
<1>1. CASE Starts
  BY <1>1, StartsReceive, ReceiveNotes
<1>2. ASSUME NEW w \in Workers,
             \/ CommitLogs(w) \/ RejectLogs(w) \/ CommitMetric(w) \/ CommitArtifact(w)
             \/ CommitVersion(w) \/ WorkerDies(w)
      PROVE  OverlapInv'
  <2>1. Answered(w) /\ overlapped' = overlapped
    BY <1>2 DEF CommitLogs, RejectLogs, CommitMetric, CommitArtifact, CommitVersion,
                WorkerDies, rowVars
  <2> QED
    BY <2>1, OverlapQuiet DEF Answered, BaseInv, TypeOK
<1>3. ASSUME NEW w \in Workers, NEW j \in Jobs, ServeLogs(w, j) PROVE OverlapInv'
  <2> DEFINE q == [op |-> "logs", job |-> j, batch |-> handler[j].buffer]
  <2>1. Subject(q) = {} /\ request' = [request EXCEPT ![w] = q] /\ overlapped' = overlapped
    BY <1>3 DEF Subject, ServeLogs, rowVars
  <2> HIDE DEF q
  <2>2. \A v \in Workers \ {w} : request'[v] = request[v]
    BY <2>1 DEF BaseInv, TypeOK
  <2>3. request'[w] = q
    BY <2>1 DEF BaseInv, TypeOK
  <2>4. \A u, v \in Workers : u # v /\ request'[u] # None /\ request'[v] # None =>
          Subject(request'[u]) \cap Subject(request'[v]) \subseteq overlapped'
    BY <2>1, <2>2, <2>3 DEF OverlapInv
  <2> QED
    BY <2>4 DEF OverlapInv, Subject
<1>4. ASSUME NEW j \in Jobs,
             \/ \E severe \in BOOLEAN : Emit(j, severe)
             \/ Close(j) \/ PostFails(j) \/ RecordRun(j) \/ DropRun(j)
      PROVE  OverlapInv'
  <2>1. request' = request /\ overlapped' = overlapped
    BY <1>4 DEF Emit, Close, PostFails, RecordRun, DropRun, rowVars
  <2> QED
    BY <2>1, OverlapQuiet
<1>5. CASE UNCHANGED vars
  BY <1>5, OverlapQuiet DEF vars
<1> QED
  BY <1>1, <1>2, <1>3, <1>4, <1>5 DEF Next, Starts

-----------------------------------------------------------------------------
(* Metrics                                                                 *)

\* What a report read is still the row of its metric.
MetricInv ==
  \A w \in Workers : Serving(w, "metric") /\ request[w].metric \notin overlapped =>
    request[w].seen = metric[request[w].metric]

LEMMA MetricInit == Init => MetricInv
BY DEF Init, MetricInv, Serving

LEMMA MetricQuiet ==
  ASSUME MetricInv, metric' = metric, overlapped \subseteq overlapped',
         \A w \in Workers : Serving(w, "metric")' =>
           Serving(w, "metric") /\ request'[w] = request[w]
  PROVE  MetricInv'
PROOF
<1> SUFFICES ASSUME NEW w \in Workers, Serving(w, "metric")',
                    request'[w].metric \notin overlapped'
             PROVE  request'[w].seen = metric'[request'[w].metric]
  BY DEF MetricInv
<1>1. Serving(w, "metric") /\ request'[w] = request[w]
  OBVIOUS
<1> QED
  BY <1>1 DEF MetricInv

LEMMA MetricNext == BaseInv /\ OverlapInv /\ MetricInv /\ [Next]_vars => MetricInv'
<1> SUFFICES ASSUME BaseInv, OverlapInv, MetricInv, [Next]_vars PROVE MetricInv'
  OBVIOUS
<1>0. request \in [Workers -> Requests \cup {None}]
  BY Requested DEF BaseInv
<1>1. ASSUME NEW w \in Workers, NEW m \in Metrics, NEW v \in Values, ReportMetric(w, m, v)
      PROVE  MetricInv'
  <2>1. /\ metric' = metric /\ overlapped \subseteq overlapped'
        /\ request'[w].metric = m /\ request'[w].seen = metric[m]
        /\ \A u \in Workers \ {w} : request'[u] = request[u]
    BY <1>0, <1>1 DEF ReportMetric, Receive
  <2> QED
    BY <2>1 DEF MetricInv, Serving
<1>2. ASSUME NEW w \in Workers, CommitMetric(w) PROVE MetricInv'
  <2>1. request[w] \in MetricRequest /\ request[w].op = "metric" /\ request[w] # None
    BY <1>0, <1>2, RequestKinds DEF CommitMetric, Serving
  <2>2. /\ \A m \in Metrics \ {request[w].metric} : metric'[m] = metric[m]
        /\ request'[w] = None /\ overlapped' = overlapped
        /\ \A u \in Workers \ {w} : request'[u] = request[u]
    BY <1>0, <1>2, <2>1 DEF CommitMetric, Answered, BaseInv, TypeOK, MetricRequest
  <2> SUFFICES ASSUME NEW u \in Workers, Serving(u, "metric")',
                      request'[u].metric \notin overlapped'
               PROVE  request'[u].seen = metric'[request'[u].metric]
    BY DEF MetricInv
  <2>3. u # w /\ request'[u] = request[u] /\ Serving(u, "metric")
    BY <2>2 DEF Serving
  <2>4. request[u] \in MetricRequest
    BY <1>0, <2>3, RequestKinds DEF Serving
  <2>5. Subject(request[u]) = {request[u].metric} /\ Subject(request[w]) = {request[w].metric}
    BY <2>1, <2>3 DEF Subject, Serving
  <2>6. request[u].metric # request[w].metric
    BY <2>1, <2>2, <2>3, <2>5 DEF OverlapInv, Serving
  <2> QED
    BY <2>2, <2>3, <2>4, <2>6 DEF MetricInv, MetricRequest
<1>3. ASSUME NEW w \in Workers, NEW q, q.op # "metric", Receive(w, q), metric' = metric
      PROVE  MetricInv'
  BY <1>0, <1>3, MetricQuiet DEF Receive, Serving
<1>4. ASSUME NEW w \in Workers, NEW j \in Jobs,
             \/ \E uri \in Uris : RegisterArtifact(w, j, uri)
             \/ \E a \in artifacts[j] : DescribeArtifact(w, j, a)
      PROVE  MetricInv'
  BY <1>3, <1>4 DEF RegisterArtifact, DescribeArtifact
<1>5. ASSUME NEW w \in Workers, NEW m \in Models,
             CreateVersion(w, m) \/ \E v \in versions[m] : DescribeVersion(w, m, v)
      PROVE  MetricInv'
  BY <1>3, <1>5 DEF CreateVersion, DescribeVersion
<1>6. ASSUME NEW w \in Workers,
             \/ CommitLogs(w) \/ RejectLogs(w) \/ CommitArtifact(w) \/ CommitVersion(w)
             \/ WorkerDies(w)
      PROVE  MetricInv'
  <2>1. Answered(w) /\ metric' = metric /\ overlapped' = overlapped
    BY <1>6 DEF CommitLogs, RejectLogs, CommitArtifact, CommitVersion, WorkerDies, rowVars
  <2> QED
    BY <1>0, <2>1, MetricQuiet DEF Answered, Serving
<1>7. ASSUME NEW w \in Workers, NEW j \in Jobs, ServeLogs(w, j) PROVE MetricInv'
  BY <1>0, <1>7, MetricQuiet DEF ServeLogs, Serving, rowVars
<1>8. ASSUME NEW j \in Jobs,
             \/ \E severe \in BOOLEAN : Emit(j, severe)
             \/ Close(j) \/ PostFails(j) \/ RecordRun(j) \/ DropRun(j)
      PROVE  MetricInv'
  <2>1. request' = request /\ metric' = metric /\ overlapped' = overlapped
    BY <1>8 DEF Emit, Close, PostFails, RecordRun, DropRun, rowVars
  <2> QED
    BY <2>1, MetricQuiet DEF Serving
<1>9. CASE UNCHANGED vars
  BY <1>9, MetricQuiet DEF vars, Serving
<1> QED
  BY <1>1, <1>2, <1>4, <1>5, <1>6, <1>7, <1>8, <1>9 DEF Next

LEMMA ReportIsRead ==
  ASSUME BaseInv, MetricInv, NEW w \in Workers, CommitMetric(w),
         request[w].metric \notin overlapped
  PROVE  LET row == metric'[request[w].metric] IN
         (IF row.special # None THEN row.special ELSE row.value) = request[w].value
PROOF
<1> DEFINE q == request[w]
           m == request[w].metric
<1>1. q \in MetricRequest /\ Serving(w, "metric")
  BY Requested, RequestKinds DEF CommitMetric, Serving, BaseInv
<1>2. m \in Metrics /\ q.value \in Values /\ q.seen = metric[m]
  BY <1>1 DEF MetricRequest, MetricInv
<1>3. CASE q.seen = None
  <2>1. metric' = [metric EXCEPT ![m] = NewRow(q)]
    BY <1>1, <1>2, <1>3 DEF CommitMetric
  <2>2. metric'[m] = NewRow(q)
    BY <1>2, <2>1 DEF BaseInv, TypeOK
  <2> QED
    BY <1>2, <2>2, RecordAssumption, ValuesAssumption DEF NewRow, SpecialOf
<1>4. CASE q.seen # None
  <2>1. metric' = [metric EXCEPT ![m] = ChangedRow(metric[m], q)]
    BY <1>1, <1>2, <1>4 DEF CommitMetric
  <2>2. metric'[m] = ChangedRow(metric[m], q)
    BY <1>2, <2>1 DEF BaseInv, TypeOK
  <2>3. metric'[m].value = q.value /\ metric'[m].special = SpecialOf(q.value)
    BY <1>2, <2>2 DEF ChangedRow
  <2> QED
    BY <1>2, <2>3, RecordAssumption, ValuesAssumption DEF SpecialOf
<1> QED
  BY <1>3, <1>4

\* A metric reads as its last report, finite or not, as long as reports of it
\* do not overlap: what a report compares its value with is still the row.
THEOREM ReportsAreRead == Spec => MetricsReadAsReported
<1>1. BaseInv /\ MetricInv /\ [Next]_vars =>
      [\A w \in Workers :
         CommitMetric(w) /\ request[w].metric \notin overlapped
         => LET row == metric'[request[w].metric] IN
            (IF row.special # None THEN row.special ELSE row.value)
              = request[w].value]_vars
  BY ReportIsRead
<1> QED
  BY BaseInit, BaseNext, OverlapInit, OverlapNext, MetricInit, MetricNext, <1>1, PTL
     DEF Spec, MetricsReadAsReported

-----------------------------------------------------------------------------
(* Artifacts                                                               *)

\* The request of w is about an artifact of the job.
Registers(w, j) == Serving(w, "artifact") /\ request[w].job = j

\* The runs a job has anything to do with: the one it records, and those of
\* its artifacts, registered or under way.
RunsOf(j) ==
  ({run[j]} \ {0}) \cup {a.uri[1] : a \in artifacts[j]}
    \cup {request[w].artifact.uri[1] : w \in {v \in Workers : Registers(v, j)}}

RunInv ==
  /\ \A j \in Jobs : RunsOf(j) \subseteq 1..runs
  /\ \A i, j \in Jobs : i # j => RunsOf(i) \cap RunsOf(j) = {}

\* A uri is that of one artifact of its job.
UriInv ==
  \A j \in Jobs : \A a \in artifacts[j] : a.uri \notin overlapped =>
    /\ \A b \in artifacts[j] : a.uri = b.uri => a.id = b.id
    /\ \A w \in Workers : Registers(w, j) /\ request[w].artifact.uri = a.uri
         => a.id = request[w].artifact.id

ArtifactInv == RunInv /\ UriInv

LEMMA ArtifactInit == Init => ArtifactInv
<1> SUFFICES ASSUME Init PROVE ArtifactInv
  OBVIOUS
<1>1. \A j \in Jobs : RunsOf(j) = {}
  BY DEF Init, RunsOf, Registers, Serving
<1> QED
  BY <1>1 DEF ArtifactInv, RunInv, UriInv, Init

\* Nothing about artifacts changes, but that requests may be given up.
LEMMA ArtifactQuiet ==
  ASSUME ArtifactInv, runs' = runs, artifacts' = artifacts, overlapped \subseteq overlapped',
         \A j \in Jobs : run'[j] \in {run[j], 0},
         \A w \in Workers, j \in Jobs : Registers(w, j)' =>
           Registers(w, j) /\ request'[w] = request[w]
  PROVE  ArtifactInv'
PROOF
<1>1. \A j \in Jobs : RunsOf(j)' \subseteq RunsOf(j)
  BY DEF RunsOf
<1>2. RunInv'
  BY <1>1 DEF ArtifactInv, RunInv
<1>3. UriInv'
  BY DEF ArtifactInv, UriInv
<1> QED
  BY <1>2, <1>3 DEF ArtifactInv

\* A request about an artifact of a run that the job has to do with.
LEMMA ReceiveArtifact ==
  ASSUME BaseInv, ArtifactInv, NEW w \in Workers, NEW j \in Jobs, NEW a \in Artifact,
         Receive(w, [op |-> "artifact", job |-> j, artifact |-> a]),
         UNCHANGED <<runs, run, artifacts>>, a.uri[1] \in RunsOf(j),
         \A b \in artifacts[j] : b.uri = a.uri /\ b.uri \notin overlapped => b.id = a.id
  PROVE  ArtifactInv'
PROOF
<1>1. /\ request'[w] = [op |-> "artifact", job |-> j, artifact |-> a]
      /\ \A v \in Workers \ {w} : request'[v] = request[v]
      /\ overlapped \subseteq overlapped'
  BY DEF Receive, BaseInv, TypeOK
<1>2. \A v \in Workers, k \in Jobs : Registers(v, k)' =>
        \/ v # w /\ Registers(v, k) /\ request'[v] = request[v]
        \/ v = w /\ k = j /\ request'[v].artifact = a
  BY <1>1 DEF Registers, Serving
<1>3. \A k \in Jobs : RunsOf(k)' \subseteq RunsOf(k)
  BY <1>2 DEF RunsOf
<1>4. RunInv'
  BY <1>3 DEF ArtifactInv, RunInv
<1>5. UriInv'
  BY <1>1, <1>2 DEF ArtifactInv, UriInv
<1> QED
  BY <1>4, <1>5 DEF ArtifactInv

LEMMA ArtifactNext ==
  BaseInv /\ OverlapInv /\ ArtifactInv /\ [Next]_vars => ArtifactInv'
<1> SUFFICES ASSUME BaseInv, OverlapInv, ArtifactInv, [Next]_vars PROVE ArtifactInv'
  OBVIOUS
<1>0. request \in [Workers -> Requests \cup {None}]
  BY Requested DEF BaseInv
<1>1. ASSUME NEW j \in Jobs, RecordRun(j) PROVE ArtifactInv'
  <2>1. /\ runs \in Nat /\ runs' = runs + 1 /\ run'[j] = runs + 1
        /\ \A k \in Jobs \ {j} : run'[k] = run[k]
        /\ UNCHANGED <<artifacts, request, overlapped>>
    BY <1>1 DEF RecordRun, BaseInv, TypeOK
  <2>2. RunsOf(j)' \subseteq RunsOf(j) \cup {runs + 1}
        /\ \A k \in Jobs \ {j} : RunsOf(k)' = RunsOf(k)
    BY <2>1 DEF RunsOf, Registers, Serving
  <2>3. \A k \in Jobs : runs + 1 \notin RunsOf(k)
    BY <2>1 DEF ArtifactInv, RunInv
  <2>4. RunInv'
    <3>1. \A k \in Jobs : RunsOf(k)' \subseteq 1..runs'
      BY <2>1, <2>2 DEF ArtifactInv, RunInv
    <3>2. \A i, k \in Jobs : i # k => RunsOf(i)' \cap RunsOf(k)' = {}
      BY <2>2, <2>3 DEF ArtifactInv, RunInv
    <3> QED
      BY <3>1, <3>2 DEF RunInv
  <2>5. UriInv'
    BY <2>1 DEF ArtifactInv, UriInv, Registers, Serving
  <2> QED
    BY <2>4, <2>5 DEF ArtifactInv
<1>2. ASSUME NEW j \in Jobs, DropRun(j) PROVE ArtifactInv'
  BY <1>2, ArtifactQuiet DEF DropRun, BaseInv, TypeOK, Registers, Serving
<1>3. ASSUME NEW w \in Workers, NEW j \in Jobs, NEW uri \in Uris, RegisterArtifact(w, j, uri)
      PROVE  ArtifactInv'
  <2> DEFINE a == [id |-> clock + 1, uri |-> uri, at |-> clock + 1]
  <2>1. a \in Artifact /\ a.uri = uri
    BY DEF BaseInv, TypeOK, Artifact
  <2>2. uri[1] \in RunsOf(j)
    BY <1>3 DEF RegisterArtifact, FoundInRun, RunsOf
  <2>3. \A b \in artifacts[j] : b.uri # uri
    BY <1>3 DEF RegisterArtifact
  <2>4. Receive(w, [op |-> "artifact", job |-> j, artifact |-> a])
        /\ UNCHANGED <<runs, run, artifacts>>
    BY <1>3 DEF RegisterArtifact, artifactVars
  <2> HIDE DEF a
  <2> QED
    BY <2>1, <2>2, <2>3, <2>4, ReceiveArtifact
<1>4. ASSUME NEW w \in Workers, NEW j \in Jobs, NEW b \in artifacts[j],
             DescribeArtifact(w, j, b)
      PROVE  ArtifactInv'
  <2> DEFINE a == [b EXCEPT !.at = clock + 1]
  <2>1. b \in Artifact /\ clock + 1 \in Nat
    BY DEF BaseInv, TypeOK
  <2>2. a \in Artifact /\ a.uri = b.uri /\ a.id = b.id
    BY <2>1 DEF Artifact
  <2>3. a.uri[1] \in RunsOf(j)
    BY <2>2 DEF RunsOf
  <2>4. \A c \in artifacts[j] : c.uri = a.uri /\ c.uri \notin overlapped => c.id = a.id
    BY <2>2 DEF ArtifactInv, UriInv
  <2>5. Receive(w, [op |-> "artifact", job |-> j, artifact |-> a])
        /\ UNCHANGED <<runs, run, artifacts>>
    BY <1>4 DEF DescribeArtifact, artifactVars
  <2> HIDE DEF a
  <2> QED
    BY <2>2, <2>3, <2>4, <2>5, ReceiveArtifact
<1>5. ASSUME NEW w \in Workers, CommitArtifact(w) PROVE ArtifactInv'
  <2>1. request[w] \in ArtifactRequest /\ Serving(w, "artifact")
    BY <1>0, <1>5, RequestKinds DEF CommitArtifact, Serving
  <2>2. PICK j \in Jobs : request[w].job = j
    BY <2>1 DEF ArtifactRequest
  <2>3. PICK a \in Artifact : request[w].artifact = a
    BY <2>1 DEF ArtifactRequest
  <2>4. /\ artifacts'[j] = artifacts[j] \cup {a}
        /\ \A k \in Jobs \ {j} : artifacts'[k] = artifacts[k]
        /\ \A v \in Workers \ {w} : request'[v] = request[v]
        /\ request'[w] = None /\ UNCHANGED <<runs, run, overlapped>>
    BY <1>5, <2>2, <2>3 DEF CommitArtifact, Answered, BaseInv, TypeOK
  <2>5. Registers(w, j) /\ \A v \in Workers, k \in Jobs : Registers(v, k)' =>
          v # w /\ Registers(v, k) /\ request'[v] = request[v]
    BY <2>1, <2>2, <2>4 DEF Registers, Serving
  <2>6. \A k \in Jobs : RunsOf(k)' \subseteq RunsOf(k)
    BY <2>3, <2>4, <2>5 DEF RunsOf
  <2>7. RunInv'
    BY <2>4, <2>6 DEF ArtifactInv, RunInv
  <2>8. ASSUME NEW b \in artifacts[j], b.uri = a.uri, b.uri \notin overlapped
        PROVE  b.id = a.id
    BY <2>3, <2>5, <2>8 DEF ArtifactInv, UriInv
  <2>9. ASSUME NEW v \in Workers, Registers(v, j)', request'[v].artifact.uri = a.uri
        PROVE  a.uri \in overlapped
    <3>1. v # w /\ Serving(v, "artifact") /\ request[v].artifact.uri = a.uri
      BY <2>5, <2>9 DEF Registers
    <3>2. Subject(request[v]) = {a.uri} /\ Subject(request[w]) = {a.uri}
      BY <2>1, <2>3, <3>1 DEF Subject, Serving
    <3> QED
      BY <2>1, <3>1, <3>2 DEF OverlapInv, Serving
  <2>10. UriInv'
    <3> SUFFICES ASSUME NEW k \in Jobs, NEW b \in artifacts'[k], b.uri \notin overlapped'
                 PROVE  /\ \A c \in artifacts'[k] : b.uri = c.uri => b.id = c.id
                        /\ \A v \in Workers :
                             Registers(v, k)' /\ request'[v].artifact.uri = b.uri
                             => b.id = request'[v].artifact.id
      BY DEF UriInv
    <3>1. CASE k # j
      BY <2>4, <2>5, <3>1 DEF ArtifactInv, UriInv
    <3>2. CASE k = j /\ b = a
      BY <2>4, <2>8, <2>9, <3>2
    <3>3. CASE k = j /\ b \in artifacts[j]
      <4>1. \A c \in artifacts'[j] : b.uri = c.uri => b.id = c.id
        BY <2>4, <2>8, <3>3 DEF ArtifactInv, UriInv
      <4>2. \A v \in Workers : Registers(v, j)' /\ request'[v].artifact.uri = b.uri
              => b.id = request'[v].artifact.id
        BY <2>4, <2>5, <3>3 DEF ArtifactInv, UriInv
      <4> QED
        BY <3>3, <4>1, <4>2
    <3> QED
      BY <2>4, <3>1, <3>2, <3>3
  <2> QED
    BY <2>7, <2>10 DEF ArtifactInv
<1>6. ASSUME NEW w \in Workers, NEW q, q.op # "artifact", Receive(w, q),
             UNCHANGED artifactVars
      PROVE  ArtifactInv'
  <2>1. \A v \in Workers, j \in Jobs : Registers(v, j)' =>
          Registers(v, j) /\ request'[v] = request[v]
    BY <1>0, <1>6 DEF Receive, Registers, Serving
  <2> QED
    BY <1>6, <2>1, ArtifactQuiet DEF Receive, artifactVars
<1>7. ASSUME NEW w \in Workers, NEW m \in Metrics, NEW v \in Values, ReportMetric(w, m, v)
      PROVE  ArtifactInv'
  BY <1>6, <1>7 DEF ReportMetric
<1>8. ASSUME NEW w \in Workers, NEW m \in Models,
             CreateVersion(w, m) \/ \E v \in versions[m] : DescribeVersion(w, m, v)
      PROVE  ArtifactInv'
  BY <1>6, <1>8 DEF CreateVersion, DescribeVersion
<1>9. ASSUME NEW w \in Workers,
             \/ CommitLogs(w) \/ RejectLogs(w) \/ CommitMetric(w) \/ CommitVersion(w)
             \/ WorkerDies(w)
      PROVE  ArtifactInv'
  <2>1. Answered(w) /\ UNCHANGED artifactVars /\ overlapped' = overlapped
    BY <1>9 DEF CommitLogs, RejectLogs, CommitMetric, CommitVersion, WorkerDies, rowVars
  <2>2. \A v \in Workers, j \in Jobs : Registers(v, j)' =>
          Registers(v, j) /\ request'[v] = request[v]
    BY <1>0, <2>1 DEF Answered, Registers, Serving
  <2> QED
    BY <2>1, <2>2, ArtifactQuiet DEF artifactVars
<1>10. ASSUME NEW w \in Workers, NEW j \in Jobs, ServeLogs(w, j) PROVE ArtifactInv'
  <2>1. \A v \in Workers, k \in Jobs : Registers(v, k)' =>
          Registers(v, k) /\ request'[v] = request[v]
    BY <1>0, <1>10 DEF ServeLogs, Registers, Serving
  <2> QED
    BY <1>10, <2>1, ArtifactQuiet DEF ServeLogs, rowVars, artifactVars
<1>11. ASSUME NEW j \in Jobs,
              (\E severe \in BOOLEAN : Emit(j, severe)) \/ Close(j) \/ PostFails(j)
       PROVE  ArtifactInv'
  <2>1. request' = request /\ UNCHANGED rowVars
    BY <1>11 DEF Emit, Close, PostFails
  <2> QED
    BY <2>1, ArtifactQuiet DEF Registers, Serving, rowVars, artifactVars
<1>12. CASE UNCHANGED vars
  BY <1>12, ArtifactQuiet DEF vars, artifactVars, Registers, Serving
<1> QED
  BY <1>1, <1>2, <1>3, <1>4, <1>5, <1>7, <1>8, <1>9, <1>10, <1>11, <1>12 DEF Next

\* No two artifacts have the same uri, unless requests with it overlapped: a
\* run is recorded for one job ever, also when a reset makes the job forget it.
THEOREM UrisNameOneArtifact == Spec => []ArtifactsHaveTheirUri
<1>1. ArtifactInv => ArtifactsHaveTheirUri
  <2> SUFFICES ASSUME ArtifactInv, NEW i \in Jobs, NEW j \in Jobs,
                      NEW a \in artifacts[i], NEW b \in artifacts[j],
                      a.uri = b.uri, a.uri \notin overlapped
               PROVE  i = j /\ a.id = b.id
    BY DEF ArtifactsHaveTheirUri
  <2>1. a.uri[1] \in RunsOf(i) /\ a.uri[1] \in RunsOf(j)
    BY DEF RunsOf
  <2>2. i = j
    BY <2>1 DEF ArtifactInv, RunInv
  <2> QED
    BY <2>2 DEF ArtifactInv, UriInv
<1> QED
  BY BaseInit, BaseNext, OverlapInit, OverlapNext, ArtifactInit, ArtifactNext, <1>1, PTL
     DEF Spec

-----------------------------------------------------------------------------
(* Versions                                                                *)

\* One was created before the other and has the smaller number.
Ordered(u, v) == u.at < v.at /\ u.number < v.number

\* The request of w creates a version of the model.
Creates(w, m) == Serving(w, "version") /\ request[w].model = m

\* The version comes after all that the model has.
IsNext(v, m) ==
  /\ v.id = v.at /\ v.at <= clock
  /\ \A u \in versions[m] : Ordered(u, v)

VersionsOf(m) ==
  /\ \A v \in versions[m] : v.id = v.at /\ v.at <= clock
  /\ \A u, v \in versions[m] : u = v \/ Ordered(u, v) \/ Ordered(v, u)
  /\ \A w \in Workers : Creates(w, m) => IsNext(request[w].version, m)

VersionInv == \A m \in Models \ (overlapped \cup described) : VersionsOf(m)

LEMMA VersionInit == Init => VersionInv
BY DEF Init, VersionInv, VersionsOf, Creates, Serving

LEMMA VersionTyped ==
  ASSUME BaseInv
  PROVE  /\ clock \in Nat
         /\ \A m \in Models : \A v \in versions[m] :
              v \in Version /\ v.at \in Nat /\ v.number \in Nat /\ v.id \in Nat
         /\ \A w \in Workers, m \in Models : Creates(w, m) =>
              /\ request[w].version \in Version
              /\ request[w].version.at \in Nat
PROOF
<1>1. clock \in Nat /\ \A m \in Models : versions[m] \subseteq Version
  BY DEF BaseInv, TypeOK
<1>2. \A w \in Workers, m \in Models : Creates(w, m) => request[w].version \in Version
  BY Requested, RequestKinds DEF BaseInv, Creates, Serving, VersionRequest
<1>3. \A v \in Version : v.at \in Nat /\ v.number \in Nat /\ v.id \in Nat
  BY DEF Version
<1> QED
  BY <1>1, <1>2, <1>3

\* Nothing about a model changes, but that time goes on and requests may be
\* given up.
LEMMA VersionsKept ==
  ASSUME BaseInv, NEW m \in Models, VersionsOf(m), versions'[m] = versions[m],
         clock' \in Nat, clock <= clock',
         \A w \in Workers : Creates(w, m)' => Creates(w, m) /\ request'[w] = request[w]
  PROVE  VersionsOf(m)'
PROOF
<1>1. \A v \in versions[m] : v.at <= clock'
  BY VersionTyped DEF VersionsOf
<1>2. \A w \in Workers : Creates(w, m) => request[w].version.at <= clock'
  BY VersionTyped DEF VersionsOf, IsNext
<1> QED
  BY <1>1, <1>2 DEF VersionsOf, IsNext, Ordered

LEMMA VersionQuiet ==
  ASSUME BaseInv, VersionInv, versions' = versions, described' = described,
         overlapped \subseteq overlapped', clock' \in Nat, clock <= clock',
         \A w \in Workers, m \in Models : Creates(w, m)' =>
           Creates(w, m) /\ request'[w] = request[w]
  PROVE  VersionInv'
BY VersionsKept DEF VersionInv

LEMMA VersionNext ==
  BaseInv /\ OverlapInv /\ VersionInv /\ [Next]_vars => VersionInv'
<1> SUFFICES ASSUME BaseInv, OverlapInv, VersionInv, [Next]_vars PROVE VersionInv'
  OBVIOUS
<1>0. request \in [Workers -> Requests \cup {None}] /\ clock \in Nat
  BY Requested DEF BaseInv, TypeOK
<1>1. ASSUME NEW w \in Workers, NEW m \in Models, CreateVersion(w, m) PROVE VersionInv'
  <2> DEFINE v == [number |-> NextNumber(m), id |-> clock + 1, at |-> clock + 1]
  <2>1. /\ request'[w].version = v /\ request'[w].model = m
        /\ \A u \in Workers \ {w} : request'[u] = request[u]
        /\ clock' = clock + 1 /\ overlapped \subseteq overlapped'
        /\ UNCHANGED <<versions, described>>
    BY <1>0, <1>1 DEF CreateVersion, Receive
  <2>2. \A u \in Workers, n \in Models : Creates(u, n)' =>
          \/ u # w /\ Creates(u, n) /\ request'[u] = request[u]
          \/ u = w /\ n = m
    BY <2>1 DEF Creates, Serving
  <2> SUFFICES ASSUME NEW n \in Models \ (overlapped' \cup described') PROVE VersionsOf(n)'
    BY DEF VersionInv
  <2>3. VersionsOf(n)
    BY <2>1 DEF VersionInv
  <2>4. CASE n # m
    BY <1>0, <2>1, <2>2, <2>3, <2>4, VersionsKept
  <2>5. CASE n = m
    <3>1. \A u \in versions[m] : u.at <= clock
      BY <2>3, <2>5 DEF VersionsOf
    <3>2. \A u \in versions[m] : u.number < NextNumber(m)
      <4> SUFFICES ASSUME NEW u \in versions[m] PROVE u.number < NextNumber(m)
        OBVIOUS
      <4>1. /\ LatestVersion(m) \in versions[m] /\ u.at <= LatestVersion(m).at
            /\ NextNumber(m) = LatestVersion(m).number + 1
        BY NextNumberTyped DEF NextNumber
      <4>2. u.number <= LatestVersion(m).number
        BY <2>3, <2>5, <4>1, VersionTyped DEF VersionsOf, Ordered
      <4> QED
        BY <4>1, <4>2, VersionTyped
    <3>3. v.id = v.at /\ v.at <= clock' /\ \A u \in versions[m] : Ordered(u, v)
      BY <1>0, <2>1, <3>1, <3>2, VersionTyped DEF Ordered
    <3>4. ASSUME NEW u \in Workers, Creates(u, m)' PROVE IsNext(request[u].version, m)'
      <4>1. CASE u = w
        BY <2>1, <3>3, <4>1 DEF IsNext, Ordered
      <4>2. CASE u # w
        <5>1. IsNext(request[u].version, m) /\ request'[u] = request[u]
              /\ request[u].version.at \in Nat
          BY <2>2, <2>3, <2>5, <3>4, <4>2, VersionTyped DEF VersionsOf
        <5> QED
          BY <1>0, <2>1, <5>1 DEF IsNext, Ordered
      <4> QED
        BY <4>1, <4>2
    <3>5. \A u \in versions[m] : u.id = u.at /\ u.at <= clock'
      BY <1>0, <2>1, <2>3, <2>5, VersionTyped DEF VersionsOf
    <3> QED
      BY <2>1, <2>3, <2>5, <3>4, <3>5 DEF VersionsOf, Ordered
  <2> QED
    BY <2>4, <2>5
<1>2. ASSUME NEW w \in Workers, CommitVersion(w) PROVE VersionInv'
  <2>1. request[w] \in VersionRequest /\ request[w] # None
        /\ request[w].op \in {"version", "describe"}
    BY <1>0, <1>2, RequestKinds DEF CommitVersion, Serving
  <2>2. PICK m \in Models : request[w].model = m
    BY <2>1 DEF VersionRequest
  <2>3. PICK v \in Version : request[w].version = v
    BY <2>1 DEF VersionRequest
  <2> DEFINE same == {u \in versions[m] : u.id = v.id}
  <2>4. /\ versions'[m] = IF \E u \in same : u.at > v.at THEN versions[m]
                          ELSE (versions[m] \ same) \cup {v}
        /\ \A n \in Models \ {m} : versions'[n] = versions[n]
        /\ described' = IF request[w].op = "describe" THEN described \cup {m} ELSE described
        /\ request'[w] = None /\ \A u \in Workers \ {w} : request'[u] = request[u]
        /\ UNCHANGED <<clock, overlapped>>
    BY <1>0, <1>2, <2>2, <2>3 DEF CommitVersion, Answered, BaseInv, TypeOK
  <2>5. \A u \in Workers, n \in Models : Creates(u, n)' =>
          u # w /\ Creates(u, n) /\ request'[u] = request[u]
    BY <2>4 DEF Creates, Serving
  <2> SUFFICES ASSUME NEW n \in Models \ (overlapped' \cup described') PROVE VersionsOf(n)'
    BY DEF VersionInv
  <2>6. VersionsOf(n)
    BY <2>4 DEF VersionInv
  <2>7. CASE n # m
    BY <1>0, <2>4, <2>5, <2>6, <2>7, VersionsKept
  <2>8. CASE n = m
    <3>1. Creates(w, m)
      BY <2>1, <2>2, <2>4, <2>8 DEF Creates, Serving
    <3>2. IsNext(v, m)
      BY <2>3, <2>6, <2>8, <3>1 DEF VersionsOf
    <3>3. same = {}
      BY <2>6, <2>8, <3>2, VersionTyped DEF VersionsOf, IsNext, Ordered, Version
    <3>4. versions'[m] = versions[m] \cup {v}
      BY <2>4, <3>3
    <3>5. ASSUME NEW u \in Workers, Creates(u, m)' PROVE FALSE
      <4>1. u # w /\ Creates(u, m) /\ request[u] # None
        BY <2>5, <3>5 DEF Creates, Serving
      <4>2. Subject(request[u]) = {m} /\ Subject(request[w]) = {m}
        BY <2>1, <2>2, <4>1 DEF Subject, Creates, Serving
      <4> QED
        BY <2>1, <2>4, <2>8, <4>1, <4>2 DEF OverlapInv
    <3>6. \A u \in versions'[m] : u.id = u.at /\ u.at <= clock'
      BY <2>4, <2>6, <2>8, <3>2, <3>4 DEF VersionsOf, IsNext
    <3>7. \A t, u \in versions'[m] : t = u \/ Ordered(t, u) \/ Ordered(u, t)
      BY <2>6, <2>8, <3>2, <3>4 DEF VersionsOf, IsNext
    <3> QED
      BY <2>8, <3>5, <3>6, <3>7 DEF VersionsOf, Ordered
  <2> QED
    BY <2>7, <2>8
<1>3. ASSUME NEW w \in Workers, NEW q, q.op # "version", Receive(w, q),
             UNCHANGED <<versions, described>>, clock' = clock \/ clock' = clock + 1
      PROVE  VersionInv'
  <2>1. \A u \in Workers, m \in Models : Creates(u, m)' =>
          Creates(u, m) /\ request'[u] = request[u]
    BY <1>0, <1>3 DEF Receive, Creates, Serving
  <2>2. clock' \in Nat /\ clock <= clock' /\ overlapped \subseteq overlapped'
    BY <1>0, <1>3 DEF Receive
  <2> QED
    BY <1>3, <2>1, <2>2, VersionQuiet
<1>4. ASSUME NEW w \in Workers, NEW m \in Models, NEW v \in versions[m],
             DescribeVersion(w, m, v)
      PROVE  VersionInv'
  BY <1>3, <1>4 DEF DescribeVersion
<1>5. ASSUME NEW w \in Workers, NEW m \in Metrics, NEW v \in Values, ReportMetric(w, m, v)
      PROVE  VersionInv'
  BY <1>3, <1>5 DEF ReportMetric
<1>6. ASSUME NEW w \in Workers, NEW j \in Jobs,
             \/ \E uri \in Uris : RegisterArtifact(w, j, uri)
             \/ \E a \in artifacts[j] : DescribeArtifact(w, j, a)
      PROVE  VersionInv'
  BY <1>3, <1>6 DEF RegisterArtifact, DescribeArtifact
<1>7. ASSUME NEW w \in Workers,
             \/ CommitLogs(w) \/ RejectLogs(w) \/ CommitMetric(w) \/ CommitArtifact(w)
             \/ WorkerDies(w)
      PROVE  VersionInv'
  <2>1. Answered(w) /\ UNCHANGED <<versions, described, clock, overlapped>>
    BY <1>7 DEF CommitLogs, RejectLogs, CommitMetric, CommitArtifact, WorkerDies, rowVars
  <2>2. \A u \in Workers, m \in Models : Creates(u, m)' =>
          Creates(u, m) /\ request'[u] = request[u]
    BY <1>0, <2>1 DEF Answered, Creates, Serving
  <2> QED
    BY <1>0, <2>1, <2>2, VersionQuiet
<1>8. ASSUME NEW w \in Workers, NEW j \in Jobs, ServeLogs(w, j) PROVE VersionInv'
  <2>1. UNCHANGED <<versions, described, clock, overlapped>>
    BY <1>8 DEF ServeLogs, rowVars
  <2>2. \A u \in Workers, m \in Models : Creates(u, m)' =>
          Creates(u, m) /\ request'[u] = request[u]
    BY <1>0, <1>8 DEF ServeLogs, Creates, Serving
  <2> QED
    BY <1>0, <2>1, <2>2, VersionQuiet
<1>9. ASSUME NEW j \in Jobs,
             \/ \E severe \in BOOLEAN : Emit(j, severe)
             \/ Close(j) \/ PostFails(j) \/ RecordRun(j) \/ DropRun(j)
      PROVE  VersionInv'
  <2>1. UNCHANGED <<request, versions, described, clock, overlapped>>
    BY <1>9 DEF Emit, Close, PostFails, RecordRun, DropRun, rowVars
  <2> QED
    BY <1>0, <2>1, VersionQuiet DEF Creates, Serving
<1>10. CASE UNCHANGED vars
  BY <1>0, <1>10, VersionQuiet DEF vars, Creates, Serving
<1> QED
  BY <1>1, <1>2, <1>4, <1>5, <1>6, <1>7, <1>8, <1>9, <1>10 DEF Next

\* The versions of a model have different numbers, as long as requests for it do
\* not overlap and none of its versions is modified: the number read from the
\* version that was created last is that of all the others at most.
THEOREM VersionsAreNumbered == Spec => []NumbersUnique
<1>1. BaseInv /\ VersionInv => NumbersUnique
  BY VersionTyped DEF VersionInv, VersionsOf, Ordered, NumbersUnique
<1> QED
  BY BaseInit, BaseNext, OverlapInit, OverlapNext, VersionInit, VersionNext, <1>1, PTL
     DEF Spec

=============================================================================
