----------------------------- MODULE TaskEngine -----------------------------
(* One run of an entrypoint by the task engine: the description is         *)
(* validated, the artifact inputs are loaded, the global parameters are    *)
(* resolved, the steps run in a topological order, and the artifact        *)
(* outputs are serialized (task_engine/{validation,util,task_engine}.py,   *)
(* called by sdk/utilities/run_dioptra_job.py).                            *)
(*                                                                         *)
(* The description, and the artifacts the job was given, are chosen in     *)
(* EngineInit.  Of them the model keeps the names and the references;      *)
(* types, plugin coordinates and the number of arguments are taken to be   *)
(* right.  A reference is buried when it lies inside an    *)
(* argument value under a mapping that has a key "task":                   *)
(* util.get_references reads of such a mapping the keys "args" and         *)
(* "kwargs" only.                                                          *)
EXTENDS Naturals, Sequences, FiniteSets

CONSTANTS Names,         \* names of steps, parameters and artifact inputs
          Outputs,       \* names of outputs
          Bare,          \* the output part of a reference without a dot
          Descriptions   \* the descriptions considered

Refs == [name : Names, out : Outputs \cup {Bare}]

DescriptionType ==
  [steps      : SUBSET Names,
   parameters : SUBSET Names,
   defaulted  : SUBSET Names,                \* parameters with a default
   inputs     : [Names -> Seq(Outputs)],     \* artifact inputs; <<>>: not one
   supplied   : [Names -> Seq(Outputs)],     \* outputs of the artifact's own task
   outs       : [Names -> Seq(Outputs)],     \* outputs of the step's task
   listed     : SUBSET Names,                \* tasks with a list of outputs
   refs       : [Names -> SUBSET Refs],      \* those get_references yields
   buried     : [Names -> SUBSET Refs],      \* those it does not
   after      : [Names -> SUBSET Names],     \* declared dependencies
   contents   : SUBSET Refs]                 \* of the artifact outputs

ASSUME ConstantsAssumption ==
  /\ Bare \notin Outputs
  /\ IsFiniteSet(Names)
  /\ Descriptions \subseteq DescriptionType
  /\ \A d \in Descriptions, n \in Names :
       /\ Len(d.outs[n]) # 1 => n \in d.listed
       \* Registration of the job compares number and types, not names.
       /\ Len(d.supplied[n]) = Len(d.inputs[n])

VARIABLES desc,        \* the description
          phase,
          parameters,  \* names in global_parameters
          loaded,      \* <<artifact input, output>> pairs that have a value
          registered,  \* the keys of step_outputs
          produced,    \* <<step, output>> pairs that have a value
          batch,       \* the sorted steps not yet run, of the current group
          ran,         \* the steps that ran
          short        \* a task or an artifact gave fewer values than declared

engineVars == <<desc, phase, parameters, loaded, registered, produced, batch, ran,
          short>>
engine == <<parameters, loaded, registered, produced, batch, ran, short>>

Phases == {"received", "rejected", "validated", "loaded", "running",
           "finished", "failed"}
Elements(l) == {l[i] : i \in 1..Len(l)}

EngineTypeOK ==
  /\ desc \in DescriptionType
  /\ phase \in Phases
  /\ parameters \subseteq desc.parameters
  /\ loaded \subseteq Names \X Outputs
  /\ registered \subseteq desc.steps
  /\ produced \subseteq desc.steps \X Outputs
  /\ batch \subseteq desc.steps
  /\ ran \subseteq desc.steps
  /\ short \in BOOLEAN

-----------------------------------------------------------------------------
(* Validation.  ReferentOf is what _check_reference takes a reference for, *)
(* "nothing" when it reports an error.                                     *)

ReferentOf(d, r) ==
  CASE r.name \in d.steps ->
         IF \/ r.out = Bare /\ Len(d.outs[r.name]) = 1
            \/ r.out \in Elements(d.outs[r.name])
         THEN "step" ELSE "nothing"
    [] r.name \in d.parameters \ d.steps ->
         IF r.out = Bare THEN "parameter" ELSE "nothing"
    [] OTHER ->
         IF \/ r.out = Bare /\ Len(d.inputs[r.name]) = 1
            \/ r.out \in Elements(d.inputs[r.name])
         THEN "artifact" ELSE "nothing"

\* Mutant: declared dependencies do not count.
ReferredTo(d, s) == {r.name : r \in d.refs[s]} \cap d.steps

(* get_sorted_steps: what must run before s.                               *)
Predecessors(d, s) ==
  ({r.name : r \in d.refs[s]} \cap d.steps) \cup d.after[s]

\* Mutant: a step may not wait for itself, longer cycles are not looked for.
NoLoop(d) == \A s \in d.steps : s \notin Predecessors(d, s)

(* Every set of steps has one that waits for none of them: no cycle.       *)
Acyclic(d) ==
  \A C \in (SUBSET d.steps) \ {{}} : \E s \in C : Predecessors(d, s) \cap C = {}

(* The type checker follows every reference, the buried ones too, and      *)
(* raises KeyError or IndexError where there is nothing to look up.        *)
HasType(d, r) ==
  \/ r.name \in d.parameters /\ r.out = Bare
  \/ d.inputs[r.name] # <<>>
  \/ r.name \in d.steps /\ d.outs[r.name] # <<>>

ReferencesResolve(d) ==
  \A r \in (UNION {d.refs[s] : s \in d.steps}) \cup d.contents :
     ReferentOf(d, r) # "nothing"

\* Mutant: a step and a parameter may have the same name.
ValidButForNames(d) ==
  /\ ReferencesResolve(d)
  /\ \A s \in d.steps : d.after[s] \subseteq d.steps
  /\ Acyclic(d)
  /\ \A s \in d.steps : \A r \in d.buried[s] : HasType(d, r)

Valid(d) ==
  /\ d.steps \cap d.parameters = {}
  /\ ReferencesResolve(d)
  /\ \A s \in d.steps : d.after[s] \subseteq d.steps
  /\ Acyclic(d)
  /\ \A s \in d.steps : \A r \in d.buried[s] : HasType(d, r)

EngineInit ==
  /\ desc \in Descriptions
  /\ phase = "received"
  /\ parameters = {} /\ loaded = {} /\ registered = {} /\ produced = {}
  /\ batch = {} /\ ran = {}
  /\ short = FALSE

Validate ==
  /\ phase = "received"
  /\ phase' = IF Valid(desc) THEN "validated" ELSE "rejected"
  /\ UNCHANGED <<desc, engine>>

-----------------------------------------------------------------------------
(* Before the steps.                                                       *)

(* zip pairs the names of a list of outputs with the values returned: with *)
(* k values, the first k names get one.                                    *)
Given(l, k) == {l[i] : i \in 1..k}
ValuesOf(n, values) == {o \in Outputs : <<n, o>> \in values}
Supplied == {p \in Names \X Outputs : p[2] \in Elements(desc.supplied[p[1]])}

(* _load_artifact_parameters: the values get the names that the task of    *)
(* the artifact has for them, whatever the description calls them; an      *)
(* artifact of one output gets its value.                                  *)
LoadArtifacts ==
  /\ phase = "validated"
  /\ \E values \in SUBSET Supplied :
       /\ \A n \in Names : \E k \in 0..Len(desc.supplied[n]) :
            /\ Len(desc.supplied[n]) = 1 => k = 1
            /\ ValuesOf(n, values) = Given(desc.supplied[n], k)
       /\ loaded' = values
       /\ short' = (values # Supplied)
  /\ phase' = "loaded"
  /\ UNCHANGED <<desc, parameters, registered, produced, batch, ran>>

(* deserialize raises, is missing, or gives one value where several are    *)
(* expected.                                                               *)
LoadFails ==
  /\ phase = "validated" /\ Supplied # {}
  /\ phase' = "failed"
  /\ UNCHANGED <<desc, engine>>

(* _resolve_global_parameters: names given for the run that the            *)
(* description does not define are dropped.                                *)
WithDefaults(given) == (given \cup desc.defaulted) \cap desc.parameters

ResolveParameters ==
  /\ phase = "loaded"
  /\ \E given \in SUBSET Names :
       /\ desc.parameters \subseteq given \cup desc.defaulted
       /\ parameters' = WithDefaults(given)
  /\ phase' = "running"
  /\ UNCHANGED <<desc, loaded, registered, produced, batch, ran, short>>

ParametersMissing ==
  /\ phase = "loaded"
  /\ desc.parameters \ desc.defaulted # {}
  /\ phase' = "failed"
  /\ UNCHANGED <<desc, engine>>

-----------------------------------------------------------------------------
(* The steps.                                                              *)

(* graphlib's static_order gives the steps group by group: those whose     *)
(* predecessors were all given before.                                     *)
Ready == {s \in desc.steps \ ran : Predecessors(desc, s) \subseteq ran}

NextBatch ==
  /\ phase = "running" /\ batch = {} /\ Ready # {}
  /\ batch' = Ready
  /\ UNCHANGED <<desc, phase, parameters, loaded, registered, produced, ran,
                 short>>

(* EngineContext.resolve_reference: where the value is found.              *)
ResolveDotted(r) ==
  IF r.name \in registered
  THEN IF <<r.name, r.out>> \in produced THEN "step" ELSE "nothing"
  ELSE IF <<r.name, r.out>> \in loaded THEN "artifact" ELSE "nothing"

OnlyValue(n, values) == \E o \in Outputs : ValuesOf(n, values) = {o}

ResolveBare(r) ==
  IF r.name \in parameters THEN "parameter"
  ELSE IF r.name \in registered
       THEN IF OnlyValue(r.name, produced) THEN "step" ELSE "nothing"
       ELSE IF OnlyValue(r.name, loaded) THEN "artifact" ELSE "nothing"

Resolve(r) == IF r.out = Bare THEN ResolveBare(r) ELSE ResolveDotted(r)
ArgumentsOf(s) == desc.refs[s] \cup desc.buried[s]
Resolved(rs) == \A r \in rs : Resolve(r) # "nothing"

(* _run_steps and _update_output_map: the plugin returned k values for the *)
(* outputs of its task, which are registered unless there are none.        *)
RunStep(s) ==
  /\ phase = "running" /\ s \in batch
  /\ Resolved(ArgumentsOf(s))
  /\ \E k \in 0..Len(desc.outs[s]) :
       /\ s \notin desc.listed => k = 1
       /\ produced' = produced \cup ({s} \X Given(desc.outs[s], k))
       /\ short' = (short \/ k < Len(desc.outs[s]))
  /\ registered' = IF desc.outs[s] = <<>> THEN registered
                   ELSE registered \cup {s}
  /\ batch' = batch \ {s}
  /\ ran' = ran \cup {s}
  /\ UNCHANGED <<desc, phase, parameters, loaded>>

(* A reference of the step does not resolve, its plugin raises, or gives   *)
(* one value where the task lists its outputs.                             *)
StepFails(s) ==
  /\ phase = "running" /\ s \in batch
  /\ phase' = "failed"
  /\ UNCHANGED <<desc, engine>>

(* run_experiment after the loop: the artifact outputs are written.        *)
SaveArtifacts ==
  /\ phase = "running" /\ batch = {} /\ Ready = {}
  /\ Resolved(desc.contents)
  /\ phase' = "finished"
  /\ UNCHANGED <<desc, engine>>

(* A content does not resolve, or serialize raises.                        *)
SaveFails ==
  /\ phase = "running" /\ batch = {} /\ Ready = {}
  /\ desc.contents # {}
  /\ phase' = "failed"
  /\ UNCHANGED <<desc, engine>>

Ended == phase \in {"rejected", "finished", "failed"} /\ UNCHANGED engineVars

EngineNext ==
  \/ Validate \/ LoadArtifacts \/ LoadFails
  \/ ResolveParameters \/ ParametersMissing
  \/ NextBatch
  \/ \E s \in Names : RunStep(s) \/ StepFails(s)
  \/ SaveArtifacts \/ SaveFails
  \/ Ended

EngineSpec == EngineInit /\ [][EngineNext]_engineVars

-----------------------------------------------------------------------------
(* Properties.                                                             *)

(* An output that the description declares of an artifact input and that   *)
(* the task of the given artifact calls by another name.                   *)
Misnamed(r) ==
  ReferentOf(desc, r) = "artifact" /\ r.out # Bare
    /\ r.out \notin Elements(desc.supplied[r.name])

(* A step that runs finds each reference where validation said it would    *)
(* be: a name shared by an artifact input and a step or parameter, or a    *)
(* parameter the job gives and the description lacks, changes nothing.  A  *)
(* reference finds nothing only when a task or an artifact gave fewer      *)
(* values than it declares, or when the task of the artifact has another   *)
(* name for the output (task_engine.py:177 "Assume prior validation        *)
(* ensured the name is unique").                                           *)
FoundAsChecked(r) ==
  \/ Resolve(r) = ReferentOf(desc, r)
  \/ Resolve(r) = "nothing" /\ (short \/ Misnamed(r))

ReferencesMeanWhatWasChecked ==
  phase = "running" =>
    /\ \A s \in batch : \A r \in desc.refs[s] : FoundAsChecked(r)
    /\ batch = {} /\ Ready = {} =>
         \A r \in desc.contents : FoundAsChecked(r)

(* A step runs only when the steps it refers to and those it declares as   *)
(* dependencies have run, and no step runs twice (util.get_sorted_steps).  *)
StepsRunAfterWhatTheyUse ==
  [][\A s \in Names : RunStep(s) =>
       /\ s \notin ran
       /\ desc.after[s] \subseteq ran
       /\ \A r \in desc.refs[s] : r.name \in desc.steps => r.name \in ran]_engineVars

(* The sorter stops when no step is ready: for a validated description     *)
(* that is when all the steps ran, so a job that finishes ran all of them  *)
(* and none is left waiting on a cycle.                                    *)
FinishedRunsAreComplete ==
  phase = "running" /\ batch = {} /\ Ready = {} => ran = desc.steps

=============================================================================
