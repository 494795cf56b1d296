------------------------ MODULE ResourceImportProofs ------------------------
(***************************************************************************)
(* Theorems about ResourceImport, for every value of its constants.        *)
(*                                                                         *)
(* A row that lacks its files is pending in one import only, at the step   *)
(* that registers them, and no service that commits runs at this step.     *)
(* For this the row that an import finds must have the kind of its item,   *)
(* so the invariant follows keys from the look-up to the write.            *)
(* What an import delivers, and what it loses when it fails, follow from a *)
(* second invariant on the sessions of imports that nobody disturbs.       *)
(***************************************************************************)
EXTENDS ResourceImport, FiniteSetTheorems, TLAPS

\* The key that a row of the session or of the database has.
KeyOf(m, rows, i) == IF m.pending[i] # None THEN m.pending[i].key ELSE rows[i].row.key
Underway(m) == m.at <= Len(m.config)
Unwhole(m) == {i \in Ids : m.pending[i] # None /\ ~m.pending[i].whole}

\* An import m, with the database as it is.
ImportOK(m, rows) ==
  /\ m.at \in Nat \ {0}
  /\ \A i \in Ids : m.pending[i] # None /\ rows[i] # None =>
       m.pending[i].key = rows[i].row.key
  /\ m.found # None => rows[m.found] # None \/ m.pending[m.found] # None
  /\ m.found # None /\ Underway(m) => KeyOf(m, rows, m.found) = Current(m).key
  /\ Unwhole(m) # {} => Underway(m) /\ m.step = "files"
                        /\ Unwhole(m) \subseteq {m.made[Current(m).key]}
  /\ m.step = "files" /\ Underway(m) =>
       m.made[Current(m).key] \in Ids /\ m.pending[m.made[Current(m).key]] # None
  /\ m.step \in {"files", "append", "append_artifacts"} /\ Underway(m) => Declared(m)
  /\ m.step \in {"delete", "append", "append_artifacts"} => m.found # None
  /\ m.strategy = "fail" => m.found = None

ImportInv ==
  /\ TypeOK
  /\ \A i \in Ids : res[i] # None => res[i].row.whole
  /\ \A w \in Workers : import[w] # None => ImportOK(import[w], res)
  /\ \A v, w \in Workers : \A i \in Ids :
       /\ res[i] = None
       /\ import[v] # None /\ import[v].pending[i] # None
       /\ import[w] # None /\ import[w].pending[i] # None
       => v = w

-----------------------------------------------------------------------------
(* What a step leaves of the other imports                                 *)

Kept(w) ==
  \/ import'[w] = import[w]
  \/ import[w] # None /\ import'[w] = [import[w] EXCEPT !.disturbed = TRUE]

\* No row disappears or changes its key.
RowsStep ==
  /\ res' \in [Ids -> Resource \cup {None}]
  /\ \A i \in Ids : res[i] # None =>
       res'[i] # None /\ res'[i].row.key = res[i].row.key
  /\ \A i \in Ids : res'[i] # None => res'[i].row.whole

LEMMA ItemOK ==
  ASSUME NEW m \in Import, m.at \in Nat \ {0}, Underway(m)
  PROVE  /\ Current(m) \in Item
         /\ Current(m).key \in Keys
         /\ Current(m).uses \in SUBSET Keys /\ Current(m).artifacts \in SUBSET Keys
PROOF
<1>1. m.config \in Seq(Item)
  BY ConfigsAssumption DEF Import
<1>2. Current(m) \in Item
  BY <1>1 DEF Current, Underway
<1> QED
  BY <1>2 DEF Item

\* An import is as good when others have committed.
LEMMA StaysOK ==
  ASSUME NEW m \in Import, NEW rows \in [Ids -> Resource \cup {None}],
         NEW later \in [Ids -> Resource \cup {None}], ImportOK(m, rows),
         \A i \in Ids : rows[i] # None =>
           later[i] # None /\ later[i].row.key = rows[i].row.key,
         \A i \in Ids : rows[i] = None /\ m.pending[i] # None => later[i] = None,
         NEW n, n = m \/ n = [m EXCEPT !.disturbed = TRUE]
  PROVE  n \in Import /\ n.pending = m.pending /\ ImportOK(n, later)
PROOF
<1>1. /\ n \in Import /\ n.pending = m.pending /\ n.at = m.at /\ n.found = m.found
      /\ n.config = m.config /\ n.step = m.step /\ n.made = m.made
      /\ n.strategy = m.strategy
  BY DEF Import
<1>2. /\ Underway(n) <=> Underway(m)
      /\ Current(n) = Current(m)
      /\ Unwhole(n) = Unwhole(m)
      /\ Declared(m) => Declared(n)
  BY <1>1 DEF Underway, Current, Unwhole, Declared
<1>3. m.found # None => m.found \in Ids
  BY DEF Import
<1>4. m.found # None => KeyOf(n, later, m.found) = KeyOf(m, rows, m.found)
  BY <1>1, <1>3 DEF KeyOf, ImportOK
<1>5. \A i \in Ids : n.pending[i] # None /\ later[i] # None =>
        n.pending[i].key = later[i].row.key
  BY <1>1 DEF ImportOK
<1>6. n.found # None => later[n.found] # None \/ n.pending[n.found] # None
  BY <1>1, <1>3 DEF ImportOK
<1> HIDE DEF ImportOK
<1>7. ImportOK(n, later)
  BY <1>1, <1>2, <1>4, <1>5, <1>6 DEF ImportOK
<1> QED
  BY <1>1, <1>7

LEMMA Assemble ==
  ASSUME ImportInv, NEW W \in SUBSET Workers, RowsStep,
         \A v \in Workers \ W : Kept(v),
         \A v \in Workers \ W : \A i \in Ids :
           res[i] = None /\ import[v] # None /\ import[v].pending[i] # None => res'[i] = None,
         import' \in [Workers -> Import \cup {None}],
         \A w \in W : import'[w] # None => ImportOK(import'[w], res'),
         \A w \in W : \A v \in Workers \ {w} : \A i \in Ids :
           /\ res'[i] = None
           /\ import'[w] # None /\ import'[w].pending[i] # None
           => v \notin W /\ (import[v] # None => import[v].pending[i] = None),
         begun' \in Nat, others' \in Nat
  PROVE  ImportInv'
PROOF
<1>1. TypeOK'
  BY DEF TypeOK, RowsStep
<1>2. ASSUME NEW v \in Workers \ W, import'[v] # None
      PROVE  /\ import[v] # None /\ import'[v].pending = import[v].pending
             /\ ImportOK(import'[v], res')
  <2>1. import[v] # None /\ import[v] \in Import
    BY <1>2 DEF Kept, ImportInv, TypeOK
  <2> DEFINE n == import'[v]
  <2>2. n = import[v] \/ n = [import[v] EXCEPT !.disturbed = TRUE]
    BY DEF Kept
  <2>3. /\ res \in [Ids -> Resource \cup {None}] /\ res' \in [Ids -> Resource \cup {None}]
        /\ ImportOK(import[v], res)
        /\ \A i \in Ids : res[i] # None =>
             res'[i] # None /\ res'[i].row.key = res[i].row.key
        /\ \A i \in Ids : res[i] = None /\ import[v].pending[i] # None => res'[i] = None
    BY <2>1 DEF ImportInv, TypeOK, RowsStep
  <2> HIDE DEF n
  <2>4. n \in Import /\ n.pending = import[v].pending /\ ImportOK(n, res')
    BY <2>1, <2>2, <2>3, StaysOK DEF n
  <2> QED
    BY <2>1, <2>4 DEF n
<1>3. \A v \in Workers : import'[v] # None => ImportOK(import'[v], res')
  BY <1>2
<1>4. ASSUME NEW u \in Workers, NEW v \in Workers, u # v, NEW i \in Ids, res'[i] = None,
             import'[u] # None, import'[u].pending[i] # None,
             import'[v] # None, import'[v].pending[i] # None
      PROVE  FALSE
  <2>1. res[i] = None
    BY <1>4 DEF RowsStep
  <2>2. CASE u \in W
    BY <1>2, <1>4, <2>2
  <2>3. CASE v \in W
    BY <1>2, <1>4, <2>3
  <2>4. CASE u \notin W /\ v \notin W
    BY <1>2, <1>4, <2>1, <2>4 DEF ImportInv
  <2> QED
    BY <2>2, <2>3, <2>4
<1>5. \A i \in Ids : res'[i] # None => res'[i].row.whole
  BY DEF RowsStep
<1> QED
  BY <1>1, <1>3, <1>4, <1>5 DEF ImportInv

\* Nothing is committed, and the import of w goes on as m or is over.
LEMMA Moves ==
  ASSUME ImportInv, NEW w \in Workers, NEW m \in Import \cup {None}, UNCHANGED res,
         import' = [import EXCEPT ![w] = m],
         m # None => ImportOK(m, res),
         m # None => \A i \in Ids : res[i] = None /\ m.pending[i] # None =>
           \/ import[w] # None /\ import[w].pending[i] # None
           \/ \A v \in Workers : import[v] # None => import[v].pending[i] = None,
         begun' \in Nat, others' \in Nat
  PROVE  ImportInv' /\ import'[w] = m
PROOF
<1> DEFINE W == {w}
<1>1. import \in [Workers -> Import \cup {None}] /\ res \in [Ids -> Resource \cup {None}]
  BY DEF ImportInv, TypeOK
<1>2. /\ import' \in [Workers -> Import \cup {None}] /\ import'[w] = m
      /\ \A v \in Workers \ {w} : import'[v] = import[v]
  BY <1>1
<1>3. RowsStep /\ \A v \in Workers \ W : Kept(v)
  BY <1>1, <1>2 DEF RowsStep, Kept, ImportInv
<1>4. \A v \in Workers \ W : \A i \in Ids :
        res'[i] = None /\ m # None /\ m.pending[i] # None =>
          (import[v] # None => import[v].pending[i] = None)
  BY DEF ImportInv
<1>5. W \in SUBSET Workers
  OBVIOUS
<1>6. \A u \in W : \A v \in Workers \ {u} : \A i \in Ids :
        res'[i] = None /\ import'[u] # None /\ import'[u].pending[i] # None =>
          v \notin W /\ (import[v] # None => import[v].pending[i] = None)
  BY <1>2, <1>4
<1>7. /\ \A u \in W : import'[u] # None => ImportOK(import'[u], res')
      /\ \A v \in Workers \ W : \A i \in Ids :
           res[i] = None /\ import[v] # None /\ import[v].pending[i] # None => res'[i] = None
  BY <1>2
<1> HIDE DEF W
<1> QED
  BY <1>2, <1>3, <1>5, <1>6, <1>7, Assemble

\* Everything pending of the import of w is committed, when all is whole, and
\* one resource may be deleted with it.
LEMMA Commits ==
  ASSUME ImportInv, NEW w \in Workers, import[w] # None,
         RowsStep,
         \A i \in Ids : res[i] = None /\ res'[i] # None => import[w].pending[i] # None,
         NEW m \in Import \cup {None}, GoOn(w, m),
         m # None => ImportOK(m, res') /\ m.pending = NothingPending,
         UNCHANGED <<begun, others>>
  PROVE  ImportInv' /\ import'[w] = m
PROOF
<1> DEFINE W == {w}
<1>1. import \in [Workers -> Import \cup {None}] /\ begun' \in Nat /\ others' \in Nat
  BY DEF ImportInv, TypeOK
<1>2. ASSUME NEW v \in Workers \ {w}
      PROVE  Kept(v) /\ import'[v] \in Import \cup {None}
  <2>1. Kept(v)
    BY DEF GoOn, Kept
  <2>2. import[v] # None => [import[v] EXCEPT !.disturbed = TRUE] \in Import
    BY <1>1 DEF Import
  <2> QED
    BY <1>1, <2>1, <2>2 DEF Kept
<1>3. import'[w] = m /\ import' \in [Workers -> Import \cup {None}]
  <2>1. import'[w] = m
    BY DEF GoOn
  <2>2. import' = [v \in Workers |-> import'[v]]
    BY DEF GoOn
  <2> QED
    BY <1>2, <2>1, <2>2
<1>4. \A v \in Workers \ W : \A i \in Ids :
        res[i] = None /\ import[v] # None /\ import[v].pending[i] # None => res'[i] = None
  BY DEF ImportInv
<1>5. m # None => \A i \in Ids : m.pending[i] = None
  BY DEF NothingPending
<1>6. W \in SUBSET Workers
  OBVIOUS
<1>7. \A u \in W : \A v \in Workers \ {u} : \A i \in Ids :
        res'[i] = None /\ import'[u] # None /\ import'[u].pending[i] # None =>
          v \notin W /\ (import[v] # None => import[v].pending[i] = None)
  BY <1>3, <1>5
<1>8. \A u \in W : import'[u] # None => ImportOK(import'[u], res')
  BY <1>3
<1>9. \A v \in Workers \ W : Kept(v)
  BY <1>2
<1> HIDE DEF W
<1> QED
  BY <1>1, <1>9, <1>3, <1>4, <1>6, <1>7, <1>8, Assemble

\* What a commit of n makes of the database when everything in it is whole.
LEMMA CommittedOK ==
  ASSUME ImportInv, NEW n \in Import, Unwhole(n) = {},
         \A i \in Ids : n.pending[i] # None /\ res[i] # None =>
           n.pending[i].key = res[i].row.key
  PROVE  /\ Committed(n) \in [Ids -> Resource \cup {None}]
         /\ \A i \in Ids :
              /\ res[i] # None => Committed(n)[i] # None
                                 /\ Committed(n)[i].row.key = res[i].row.key
              /\ Committed(n)[i] # None => Committed(n)[i].row.whole
              /\ res[i] = None /\ Committed(n)[i] # None => n.pending[i] # None
              /\ n.pending[i] # None => Committed(n)[i] # None
                                       /\ Committed(n)[i].row = n.pending[i]
PROOF
<1>1. res \in [Ids -> Resource \cup {None}] /\ n.pending \in [Ids -> Row \cup {None}]
      /\ \A i \in Ids : res[i] # None => res[i].row.whole
  BY DEF ImportInv, TypeOK, Import
<1>2. ASSUME NEW i \in Ids, n.pending[i] = None
      PROVE  Committed(n)[i] = res[i]
  BY <1>2 DEF Committed
<1>3. ASSUME NEW i \in Ids, n.pending[i] # None
      PROVE  /\ Committed(n)[i] \in Resource /\ Committed(n)[i] # None
             /\ Committed(n)[i].row = n.pending[i] /\ n.pending[i].whole
  <2> DEFINE d == res[i] # None /\ res[i].deleted
             r == [row |-> n.pending[i], deleted |-> d]
  <2>1. d \in BOOLEAN
    BY <1>1 DEF Resource
  <2>2. n.pending[i] \in Row /\ n.pending[i].whole
    BY <1>1, <1>3 DEF Unwhole
  <2> HIDE DEF d
  <2>3. r \in Resource /\ r.row = n.pending[i]
    BY <2>1, <2>2 DEF Resource
  <2>4. Committed(n)[i] = r
    BY <1>3 DEF Committed, d
  <2> QED
    BY <2>2, <2>3, <2>4, RecordAssumption
<1>4. Committed(n) \in [Ids -> Resource \cup {None}]
  <2>1. \A i \in Ids : Committed(n)[i] \in Resource \cup {None}
    BY <1>1, <1>2, <1>3
  <2>2. Committed(n) = [i \in Ids |-> Committed(n)[i]]
    BY DEF Committed
  <2> QED
    BY <2>1, <2>2
<1> QED
  BY <1>1, <1>2, <1>3, <1>4

-----------------------------------------------------------------------------
(* The steps                                                               *)

\* The import that a step of w moves.
LEMMA ServingOK ==
  ASSUME ImportInv, NEW w \in Workers, NEW step, Serving(w, step)
  PROVE  /\ import[w] \in Import /\ import[w] # None /\ ImportOK(import[w], res)
         /\ Underway(import[w]) /\ import[w].step = step
         /\ import[w].at \in Nat \ {0}
         /\ Current(import[w]) \in Item /\ Current(import[w]).key \in Keys
         /\ Current(import[w]).uses \in SUBSET Keys
         /\ Current(import[w]).artifacts \in SUBSET Keys
PROOF
<1>1. /\ import[w] \in Import /\ import[w] # None /\ ImportOK(import[w], res)
      /\ Underway(import[w]) /\ import[w].step = step
  BY DEF Serving, ImportInv, TypeOK, Underway
<1>2. import[w].at \in Nat \ {0}
  BY <1>1 DEF ImportOK
<1> QED
  BY <1>1, <1>2, ItemOK

LEMMA BeginKeeps ==
  ASSUME ImportInv, NEW w \in Workers, NEW strategy \in Strategies,
         NEW config \in Configs, Begin(w, strategy, config)
  PROVE  ImportInv'
PROOF
<1> DEFINE had == {res[i].row.key : i \in {j \in Ids : Live(j)}}
           m == [strategy |-> strategy, config |-> config, at |-> 1, step |-> "look",
                 found |-> None, pending |-> NothingPending,
                 made |-> [k \in Keys |-> None], had |-> had, disturbed |-> FALSE]
<1>1. had \in SUBSET Keys
  BY DEF Live, ImportInv, TypeOK, Resource, Row
<1> HIDE DEF had
<1>2. NothingPending \in [Ids -> Row \cup {None}]
      /\ [k \in Keys |-> None] \in [Keys -> Ids \cup {None}]
  BY DEF NothingPending
<1>3. m \in Import
  BY <1>1, <1>2 DEF Import
<1>4. /\ m.at = 1 /\ m.step = "look" /\ m.found = None /\ m.pending = NothingPending
  OBVIOUS
<1>5. import' = [import EXCEPT ![w] = m] /\ UNCHANGED <<res, others>>
      /\ begun' = begun + 1
  BY DEF Begin, had
<1> HIDE DEF m
<1>6. \A i \in Ids : m.pending[i] = None
  BY <1>4 DEF NothingPending
<1>7. ImportOK(m, res)
  BY <1>4, <1>6 DEF ImportOK, Unwhole
<1>8. begun' \in Nat /\ others' \in Nat
  BY <1>5 DEF ImportInv, TypeOK
<1> QED
  BY <1>3, <1>5, <1>6, <1>7, <1>8, Moves

LEMMA FailKeeps ==
  ASSUME ImportInv, NEW w \in Workers, Fail(w)
  PROVE  ImportInv'
PROOF
<1>1. /\ UNCHANGED res /\ import' = [import EXCEPT ![w] = None]
      /\ begun' \in Nat /\ others' \in Nat
  BY DEF Fail, ImportInv, TypeOK
<1> QED
  BY <1>1, Moves

LEMMA LookKeeps ==
  ASSUME ImportInv, NEW w \in Workers, Look(w)
  PROVE  ImportInv' /\ import'[w] \in Import
PROOF
<1> DEFINE m == import[w]
<1>1. /\ m \in Import /\ m # None /\ ImportOK(m, res) /\ Underway(m) /\ m.step = "look"
      /\ UNCHANGED <<res, begun, others>> /\ begun' \in Nat /\ others' \in Nat
      /\ import \in [Workers -> Import \cup {None}]
  BY ServingOK DEF Look, ImportInv, TypeOK
<1>2. ASSUME NEW n \in Import, import' = [import EXCEPT ![w] = n],
             n.pending = m.pending, n.at = m.at, n.config = m.config, n.made = m.made,
             n.strategy = m.strategy, n.step \in {"write", "delete"},
             n.step = "delete" => n.found # None,
             \/ n.found = m.found
             \/ n.strategy # "fail" /\ n.found \in Named(m, Current(m).key)
      PROVE  ImportInv' /\ import'[w] \in Import
  <2>1. /\ Underway(n) /\ Current(n) = Current(m) /\ Unwhole(n) = Unwhole(m)
    BY <1>1, <1>2 DEF Underway, Current, Unwhole
  <2>2. Unwhole(m) = {}
    BY <1>1 DEF ImportOK
  <2>3. n.found # None => /\ res[n.found] # None \/ n.pending[n.found] # None
                          /\ KeyOf(n, res, n.found) = Current(m).key
    BY <1>1, <1>2 DEF Named, Seen, RowOf, KeyOf, ImportOK
  <2>4. ImportOK(n, res)
    BY <1>1, <1>2, <2>1, <2>2, <2>3 DEF ImportOK
  <2> QED
    BY <1>1, <1>2, <2>4, Moves
<1>3. CASE import' = [import EXCEPT ![w].step = "write"]
  <2> DEFINE n == [m EXCEPT !.step = "write"]
  <2>1. n \in Import
    BY <1>1 DEF Import
  <2>2. /\ n.pending = m.pending /\ n.at = m.at /\ n.config = m.config
        /\ n.made = m.made /\ n.strategy = m.strategy /\ n.step = "write"
        /\ n.found = m.found
    BY <1>1 DEF Import
  <2>3. import' = [import EXCEPT ![w] = n]
    BY <1>1, <1>3
  <2> HIDE DEF n, m
  <2>4. n.step \in {"write", "delete"} /\ n.step # "delete"
    BY <2>2
  <2> QED
    BY <1>2, <2>1, <2>2, <2>3, <2>4
<1>4. ASSUME m.strategy # "fail", NEW i \in Named(m, Current(m).key),
             import' = [import EXCEPT ![w].found = i,
               ![w].step = IF m.strategy = "update" THEN "write" ELSE "delete"]
      PROVE  ImportInv' /\ import'[w] \in Import
  <2> DEFINE step == IF m.strategy = "update" THEN "write" ELSE "delete"
             n == [m EXCEPT !.found = i, !.step = step]
  <2>1. step \in {"write", "delete"} /\ i \in Ids
    BY DEF Named
  <2>2. import' = [import EXCEPT ![w] = n]
    BY <1>1, <1>4
  <2> HIDE DEF step
  <2>3. n \in Import
    BY <1>1, <2>1 DEF Import
  <2>4. /\ n.pending = m.pending /\ n.at = m.at /\ n.config = m.config
        /\ n.made = m.made /\ n.strategy = m.strategy /\ n.step = step /\ n.found = i
    BY <1>1 DEF Import
  <2>5. i # None
    BY <2>1, RecordAssumption
  <2> HIDE DEF n
  <2> QED
    BY <1>2, <1>4, <2>1, <2>2, <2>3, <2>4, <2>5
<1> QED
  BY <1>3, <1>4 DEF Look

LEMMA DeleteKeeps ==
  ASSUME ImportInv, NEW w \in Workers, Delete(w)
  PROVE  ImportInv' /\ import'[w] \in Import
PROOF
<1> DEFINE m == import[w]
           n == [m EXCEPT !.pending = NothingPending, !.found = None, !.step = "write"]
           all == Committed(m)
<1>1. /\ m \in Import /\ m # None /\ ImportOK(m, res) /\ Underway(m)
      /\ m.step = "delete" /\ UNCHANGED <<begun, others>>
  BY ServingOK DEF Delete
<1>2. res' = [all EXCEPT ![m.found].deleted = TRUE] /\ GoOn(w, n)
  BY DEF Delete
<1>3. NothingPending \in [Ids -> Row \cup {None}]
  BY DEF NothingPending
<1>4. n \in Import
  BY <1>1, <1>3 DEF Import
<1>5. n.pending = NothingPending /\ n.found = None /\ n.step = "write" /\ n.at = m.at
  BY <1>1 DEF Import
<1> HIDE DEF n
<1>6. ImportOK(n, res')
  BY <1>1, <1>5 DEF ImportOK, Unwhole, NothingPending
<1>7. m.found \in Ids /\ Unwhole(m) = {}
  BY <1>1 DEF ImportOK, Import
<1>8. /\ all \in [Ids -> Resource \cup {None}]
      /\ \A i \in Ids :
           /\ res[i] # None => all[i] # None /\ all[i].row.key = res[i].row.key
           /\ all[i] # None => all[i].row.whole
           /\ res[i] = None /\ all[i] # None => m.pending[i] # None
           /\ m.pending[i] # None => all[i] # None
  BY <1>1, <1>7, CommittedOK DEF ImportOK
<1> HIDE DEF all
<1>9. all[m.found] # None /\ all[m.found] \in Resource
  BY <1>1, <1>7, <1>8 DEF ImportOK
<1>10. /\ res'[m.found] \in Resource /\ res'[m.found].row = all[m.found].row
       /\ \A i \in Ids \ {m.found} : res'[i] = all[i]
  BY <1>2, <1>7, <1>8, <1>9 DEF Resource
<1>11. res'[m.found] # None
  BY <1>10, RecordAssumption
<1>12. RowsStep
  <2>1. res' \in [Ids -> Resource \cup {None}]
    BY <1>2, <1>8, <1>10
  <2> QED
    BY <1>7, <1>8, <1>9, <1>10, <1>11, <2>1 DEF RowsStep
<1>13. \A i \in Ids : res[i] = None /\ res'[i] # None => m.pending[i] # None
  BY <1>7, <1>8, <1>9, <1>10
<1> QED
  BY <1>1, <1>2, <1>4, <1>5, <1>6, <1>12, <1>13, Commits

\* The row of an item is written, for a new id or for the one found.
LEMMA RowWritten ==
  ASSUME ImportInv, NEW w \in Workers, Serving(w, "write"), Declared(import[w]),
         NEW i \in Ids, NEW row \in Row, WriteRow(w, i, row),
         row.key = Current(import[w]).key, row.whole = (row.key.kind # "plugin"),
         res[i] # None => row.key = res[i].row.key,
         \/ res[i] # None \/ import[w].pending[i] # None
         \/ \A v \in Workers : import[v] # None => import[v].pending[i] = None,
         import[w].found # None => i = import[w].found,
         UNCHANGED <<begun, others>>
  PROVE  ImportInv' /\ import'[w] \in Import
PROOF
<1> DEFINE m == import[w]
           step == StepAfter(m, row.key.kind)
           s == [m EXCEPT !.pending[i] = row, !.made[row.key] = i, !.step = step]
<1>1. /\ m \in Import /\ m # None /\ ImportOK(m, res) /\ Underway(m)
      /\ m.step = "write" /\ m.at \in Nat \ {0} /\ row.key \in Keys
      /\ Current(m).uses \in SUBSET Keys /\ Current(m).artifacts \in SUBSET Keys
  BY ServingOK
<1>2. /\ step \in {"files", "append", "look"}
      /\ step = "files" <=> row.key.kind = "plugin"
      /\ step = "append" => m.found # None
  BY DEF StepAfter
<1>3. /\ [m.pending EXCEPT ![i] = row] \in [Ids -> Row \cup {None}]
      /\ [m.made EXCEPT ![row.key] = i] \in [Keys -> Ids \cup {None}]
      /\ m.pending \in [Ids -> Row \cup {None}] /\ m.made \in [Keys -> Ids \cup {None}]
  BY <1>1 DEF Import
<1>4. /\ import' = [import EXCEPT ![w] = IF step = "look" THEN NextItem(s) ELSE s]
      /\ UNCHANGED res /\ begun' \in Nat /\ others' \in Nat
  <2>1. import' = [import EXCEPT ![w] = WithRow(m, i, row)] /\ UNCHANGED res
    BY DEF WriteRow
  <2>2. s.step = step
    BY <1>1 DEF Import
  <2>3. WithRow(m, i, row) = IF step = "look" THEN NextItem(s) ELSE s
    BY <2>2 DEF WithRow
  <2> QED
    BY <2>1, <2>3 DEF ImportInv, TypeOK
<1> HIDE DEF step
<1>5. s \in Import
  BY <1>1, <1>2, <1>3 DEF Import
<1>6. /\ s.pending = [m.pending EXCEPT ![i] = row] /\ s.made = [m.made EXCEPT ![row.key] = i]
      /\ s.step = step /\ s.at = m.at /\ s.config = m.config /\ s.found = m.found
      /\ s.strategy = m.strategy
  BY <1>1 DEF Import
<1> HIDE DEF s
<1>7. Underway(s) /\ Current(s) = Current(m)
  BY <1>1, <1>6 DEF Underway, Current
<1>8. row # None /\ i # None
  BY RecordAssumption
<1>9. /\ s.pending[i] = row /\ s.made[row.key] = i
      /\ \A j \in Ids \ {i} : s.pending[j] = m.pending[j]
      /\ \A k \in Keys \ {row.key} : s.made[k] = m.made[k]
  BY <1>3, <1>6, <1>1
<1>10. Declared(s)
  BY <1>1, <1>7, <1>8, <1>9 DEF Declared
<1>11. Unwhole(m) = {}
  BY <1>1 DEF ImportOK
<1>12. Unwhole(s) \subseteq {i} /\ (Unwhole(s) # {} => row.key.kind = "plugin")
  BY <1>9, <1>11 DEF Unwhole
<1>13. \A j \in Ids : s.pending[j] # None /\ res[j] # None => s.pending[j].key = res[j].row.key
  BY <1>1, <1>9 DEF ImportOK
<1>14. \A j \in Ids : res[j] = None /\ s.pending[j] # None =>
         \/ m.pending[j] # None
         \/ \A v \in Workers : import[v] # None => import[v].pending[j] = None
  BY <1>9
<1>15. CASE step # "look"
  <2>1. s.found # None => s.pending[s.found] # None /\ KeyOf(s, res, s.found) = Current(s).key
    BY <1>6, <1>7, <1>8, <1>9 DEF KeyOf
  <2>2. ImportOK(s, res)
    BY <1>1, <1>2, <1>6, <1>7, <1>8, <1>9, <1>10, <1>12, <1>13, <1>15, <2>1 DEF ImportOK
  <2>3. import' = [import EXCEPT ![w] = s]
    BY <1>4, <1>15
  <2>4. \A j \in Ids : res[j] = None /\ s.pending[j] # None =>
          \/ import[w] # None /\ import[w].pending[j] # None
          \/ \A v \in Workers : import[v] # None => import[v].pending[j] = None
    BY <1>1, <1>14
  <2>5. ImportInv' /\ import'[w] = s
    BY <1>4, <1>5, <2>2, <2>3, <2>4, Moves
  <2> QED
    BY <1>5, <2>5
<1>16. CASE step = "look"
  <2> DEFINE n == NextItem(s)
  <2>1. n \in Import
    <3>1. s.at + 1 \in Nat
      BY <1>1, <1>6
    <3> QED
      BY <1>5, <3>1 DEF NextItem, Import
  <2>2. n.pending = s.pending /\ n.step = "look" /\ n.found = None /\ n.at = m.at + 1
    BY <1>5, <1>6 DEF NextItem, Import
  <2>3. import' = [import EXCEPT ![w] = n]
    BY <1>4, <1>16
  <2> HIDE DEF n
  <2>4. Unwhole(n) = {}
    BY <1>2, <1>12, <1>16, <2>2 DEF Unwhole
  <2>5. ImportOK(n, res)
    BY <1>1, <1>13, <2>2, <2>4 DEF ImportOK
  <2> QED
    <3>1. \A j \in Ids : res[j] = None /\ n.pending[j] # None =>
            \/ import[w] # None /\ import[w].pending[j] # None
            \/ \A v \in Workers : import[v] # None => import[v].pending[j] = None
      BY <1>1, <1>14, <2>2
    <3> QED
      BY <1>4, <2>1, <2>3, <2>5, <3>1, Moves
<1> QED
  BY <1>15, <1>16

LEMMA ResolvedOK ==
  ASSUME NEW m \in Import, NEW keys \in SUBSET Keys, \A k \in keys : m.made[k] # None
  PROVE  Resolved(m, keys) \in SUBSET Ids
BY DEF Resolved, Import

LEMMA CreateKeeps ==
  ASSUME ImportInv, NEW w \in Workers, Create(w)
  PROVE  ImportInv' /\ import'[w] \in Import
PROOF
<1> DEFINE m == import[w]
           item == Current(m)
<1>1. /\ m \in Import /\ item.key \in Keys /\ Declared(m) /\ Serving(w, "write")
      /\ item.uses \in SUBSET Keys /\ item.artifacts \in SUBSET Keys
      /\ m.found = None /\ UNCHANGED <<begun, others>>
  BY ServingOK DEF Create
<1> DEFINE uses == IF item.key.kind = "entrypoint"
                   THEN Resolved(m, item.uses \cup item.artifacts) ELSE {}
           row == [key |-> item.key, uses |-> uses, whole |-> item.key.kind # "plugin"]
<1>2. PICK i \in Ids : IsNewId(i) /\ WriteRow(w, i, row)
  BY DEF Create
<1>3. uses \in SUBSET Ids
  BY <1>1, ResolvedOK DEF Declared
<1>4. row \in Row /\ row.key = item.key /\ row.whole = (row.key.kind # "plugin")
  BY <1>1, <1>3 DEF Row
<1>5. res[i] = None /\ \A v \in Workers : import[v] # None => import[v].pending[i] = None
  BY <1>2 DEF IsNewId, FreeIds
<1> HIDE DEF row
<1> QED
  BY <1>1, <1>2, <1>4, <1>5, RowWritten

LEMMA ModifyKeeps ==
  ASSUME ImportInv, NEW w \in Workers, Modify(w)
  PROVE  ImportInv' /\ import'[w] \in Import
PROOF
<1> DEFINE m == import[w]
           row == [RowOf(m, m.found) EXCEPT !.whole = Current(m).key.kind # "plugin"]
<1>1. /\ m \in Import /\ ImportOK(m, res) /\ Underway(m) /\ Declared(m)
      /\ Serving(w, "write") /\ m.found # None /\ WriteRow(w, m.found, row)
      /\ UNCHANGED <<begun, others>>
  BY ServingOK DEF Modify
<1>2. /\ m.found \in Ids /\ (res[m.found] # None \/ m.pending[m.found] # None)
      /\ KeyOf(m, res, m.found) = Current(m).key
  BY <1>1 DEF ImportOK, Import
<1>3. RowOf(m, m.found) \in Row /\ RowOf(m, m.found).key = Current(m).key
  BY <1>1, <1>2 DEF RowOf, KeyOf, Import, ImportInv, TypeOK, Resource
<1>4. row \in Row /\ row.key = Current(m).key /\ row.whole = (row.key.kind # "plugin")
  BY <1>3 DEF Row
<1>5. res[m.found] # None => row.key = res[m.found].row.key
  BY <1>1, <1>2, <1>4 DEF KeyOf, ImportOK
<1> HIDE DEF row
<1> QED
  BY <1>1, <1>2, <1>4, <1>5, RowWritten

LEMMA RegisterFilesKeeps ==
  ASSUME ImportInv, NEW w \in Workers, RegisterFiles(w)
  PROVE  ImportInv' /\ import'[w] \in Import
PROOF
<1> DEFINE m == import[w]
           i == m.made[Current(m).key]
           used == Resolved(m, Current(m).uses)
           row == [m.pending[i] EXCEPT !.whole = TRUE, !.uses = @ \cup used]
           s == [m EXCEPT !.pending[i] = row]
           n == NextItem(s)
<1>1. /\ m \in Import /\ m # None /\ ImportOK(m, res) /\ Underway(m) /\ m.step = "files"
      /\ m.at \in Nat \ {0} /\ Declared(m) /\ Current(m).uses \in SUBSET Keys
      /\ UNCHANGED <<res, begun, others>>
  <2>1. Serving(w, "files") /\ UNCHANGED <<res, begun, others>>
    BY DEF RegisterFiles
  <2> QED
    BY <2>1, ServingOK DEF ImportOK
<1>2. i \in Ids /\ m.pending[i] # None /\ Unwhole(m) \subseteq {i}
      /\ m.pending \in [Ids -> Row \cup {None}]
  BY <1>1 DEF ImportOK, Import
<1>3. used \in SUBSET Ids
  BY <1>1, ResolvedOK DEF Declared
<1>4. import' = [import EXCEPT ![w] =
         NextItem([m EXCEPT !.pending[i].whole = TRUE,
                            !.pending[i].uses = @ \cup Resolved(m, Current(m).uses)])]
  BY DEF RegisterFiles
<1> HIDE DEF used
<1>5. row \in Row /\ row.whole /\ row.key = m.pending[i].key /\ row # None
  <2>1. m.pending[i] \in Row
    BY <1>2
  <2>2. row \in Row /\ row.whole /\ row.key = m.pending[i].key
    BY <1>3, <2>1 DEF Row
  <2> QED
    BY <2>2, RecordAssumption
<1>6. [m EXCEPT !.pending[i].whole = TRUE, !.pending[i].uses = @ \cup used] = s
  BY <1>1, <1>2 DEF Import, Row
<1>7. import' = [import EXCEPT ![w] = n]
  BY <1>4, <1>6 DEF used
<1> HIDE DEF row, i
<1>8. s \in Import /\ s.pending = [m.pending EXCEPT ![i] = row] /\ s.at = m.at
  <2>1. [m.pending EXCEPT ![i] = row] \in [Ids -> Row \cup {None}]
    BY <1>2, <1>5
  <2> QED
    BY <1>1, <2>1 DEF Import
<1>9. /\ s.pending[i] = row /\ \A j \in Ids \ {i} : s.pending[j] = m.pending[j]
  BY <1>2, <1>8
<1> HIDE DEF s
<1>10. n \in Import /\ n.pending = s.pending /\ n.step = "look" /\ n.found = None
       /\ n.at = m.at + 1
  <2>1. s.at + 1 \in Nat
    BY <1>1, <1>8
  <2> QED
    BY <1>8, <2>1 DEF NextItem, Import
<1> HIDE DEF n
<1>11. Unwhole(n) = {}
  BY <1>2, <1>5, <1>9, <1>10 DEF Unwhole
<1>12. \A j \in Ids : n.pending[j] # None => m.pending[j] # None /\ n.pending[j].key = m.pending[j].key
  BY <1>2, <1>5, <1>9, <1>10
<1>13. ImportOK(n, res)
  BY <1>1, <1>10, <1>11, <1>12 DEF ImportOK
<1>14. \A j \in Ids : res[j] = None /\ n.pending[j] # None =>
         \/ import[w] # None /\ import[w].pending[j] # None
         \/ \A v \in Workers : import[v] # None => import[v].pending[j] = None
  BY <1>1, <1>12
<1>15. begun' \in Nat /\ others' \in Nat
  BY <1>1 DEF ImportInv, TypeOK
<1> QED
  BY <1>1, <1>7, <1>10, <1>13, <1>14, <1>15, Moves

\* What both services that append plugins commit.
LEMMA AppendCommits ==
  ASSUME ImportInv, NEW w \in Workers, NEW step \in {"append", "append_artifacts"},
         Serving(w, step), NEW keys \in SUBSET Keys,
         \A k \in keys : import[w].made[k] # None, AppendTo(import[w], keys)
  PROVE  /\ RowsStep
         /\ \A i \in Ids : res[i] = None /\ res'[i] # None => import[w].pending[i] # None
         /\ res'[import[w].found] # None
         /\ res'[import[w].found].row.key = Current(import[w]).key
PROOF
<1> DEFINE m == import[w]
           n == Appended(m, keys)
           f == m.found
           row == [RowOf(m, f) EXCEPT !.uses = @ \cup Resolved(m, keys)]
<1>1. /\ m \in Import /\ ImportOK(m, res) /\ Underway(m) /\ m.step = step
      /\ res' = Committed(n)
  BY ServingOK DEF AppendTo
<1>2. /\ f \in Ids /\ (res[f] # None \/ m.pending[f] # None)
      /\ KeyOf(m, res, f) = Current(m).key /\ Unwhole(m) = {}
      /\ m.pending \in [Ids -> Row \cup {None}]
  BY <1>1 DEF ImportOK, Import
<1>3. RowOf(m, f) \in Row /\ RowOf(m, f).key = Current(m).key /\ RowOf(m, f).whole
  BY <1>1, <1>2 DEF RowOf, KeyOf, ImportInv, TypeOK, Resource, Unwhole
<1>4. Resolved(m, keys) \in SUBSET Ids
  BY <1>1, ResolvedOK
<1>5. row \in Row /\ row.key = Current(m).key /\ row.whole /\ row # None
  <2>1. row \in Row /\ row.key = Current(m).key /\ row.whole
    BY <1>3, <1>4 DEF Row
  <2> QED
    BY <2>1, RecordAssumption
<1>6. n = [m EXCEPT !.pending = [m.pending EXCEPT ![f] = row]]
  BY <1>1 DEF Appended, Import
<1> HIDE DEF row, n
<1>7. n \in Import /\ n.pending = [m.pending EXCEPT ![f] = row]
  <2>1. [m.pending EXCEPT ![f] = row] \in [Ids -> Row \cup {None}]
    BY <1>2, <1>5
  <2> QED
    BY <1>1, <1>6, <2>1 DEF Import
<1>8. n.pending[f] = row /\ \A j \in Ids \ {f} : n.pending[j] = m.pending[j]
  BY <1>2, <1>7
<1>9. Unwhole(n) = {}
  BY <1>2, <1>5, <1>8 DEF Unwhole
<1>10. \A j \in Ids : n.pending[j] # None /\ res[j] # None => n.pending[j].key = res[j].row.key
  BY <1>1, <1>2, <1>5, <1>8 DEF ImportOK, KeyOf
<1>11. /\ res' \in [Ids -> Resource \cup {None}]
       /\ \A j \in Ids :
            /\ res[j] # None => res'[j] # None /\ res'[j].row.key = res[j].row.key
            /\ res'[j] # None => res'[j].row.whole
            /\ res[j] = None /\ res'[j] # None => n.pending[j] # None
            /\ n.pending[j] # None => res'[j] # None /\ res'[j].row = n.pending[j]
  BY <1>1, <1>7, <1>9, <1>10, CommittedOK
<1>12. \A j \in Ids : res[j] = None /\ res'[j] # None => m.pending[j] # None
  BY <1>2, <1>8, <1>11
<1> QED
  BY <1>2, <1>5, <1>8, <1>11, <1>12 DEF RowsStep

LEMMA AppendPluginsKeeps ==
  ASSUME ImportInv, NEW w \in Workers, AppendPlugins(w)
  PROVE  ImportInv' /\ import'[w] \in Import
PROOF
<1> DEFINE m == import[w]
           n == [m EXCEPT !.pending = NothingPending, !.step = "append_artifacts"]
<1>1. /\ m \in Import /\ m # None /\ ImportOK(m, res) /\ Underway(m) /\ m.step = "append"
      /\ Serving(w, "append") /\ Declared(m) /\ Current(m).uses \in SUBSET Keys
      /\ AppendTo(m, Current(m).uses) /\ GoOn(w, n) /\ UNCHANGED <<begun, others>>
  <2>1. Serving(w, "append")
    BY DEF AppendPlugins
  <2> QED
    BY <2>1, ServingOK DEF AppendPlugins, ImportOK
<1>2. /\ RowsStep
      /\ \A i \in Ids : res[i] = None /\ res'[i] # None => m.pending[i] # None
      /\ res'[m.found] # None /\ res'[m.found].row.key = Current(m).key
  BY <1>1, AppendCommits DEF Declared
<1>3. n \in Import
  <2>1. NothingPending \in [Ids -> Row \cup {None}]
    BY DEF NothingPending
  <2> QED
    BY <1>1, <2>1 DEF Import
<1>4. /\ n.pending = NothingPending /\ n.step = "append_artifacts" /\ n.at = m.at
      /\ n.config = m.config /\ n.found = m.found /\ n.made = m.made
      /\ n.strategy = m.strategy
  BY <1>1 DEF Import
<1> HIDE DEF n
<1>5. \A i \in Ids : n.pending[i] = None
  BY <1>4 DEF NothingPending
<1>6. Underway(n) /\ Current(n) = Current(m) /\ Declared(n) /\ Unwhole(n) = {}
  BY <1>1, <1>4, <1>5 DEF Underway, Current, Declared, Unwhole
<1>7. m.found \in Ids /\ KeyOf(n, res', n.found) = Current(n).key
  BY <1>1, <1>2, <1>4, <1>5, <1>6 DEF KeyOf, ImportOK, Import
<1>8. ImportOK(n, res')
  BY <1>1, <1>2, <1>4, <1>5, <1>6, <1>7 DEF ImportOK
<1> QED
  BY <1>1, <1>2, <1>3, <1>4, <1>8, Commits

LEMMA AppendArtifactPluginsKeeps ==
  ASSUME ImportInv, NEW w \in Workers, AppendArtifactPlugins(w)
  PROVE  ImportInv' /\ import'[w] \in Import
PROOF
<1> DEFINE m == import[w]
           s == [m EXCEPT !.pending = NothingPending]
           n == NextItem(s)
<1>1. /\ m \in Import /\ m # None /\ ImportOK(m, res) /\ Underway(m)
      /\ m.step = "append_artifacts" /\ m.at \in Nat \ {0}
      /\ Serving(w, "append_artifacts") /\ Declared(m)
      /\ Current(m).artifacts \in SUBSET Keys
      /\ AppendTo(m, Current(m).artifacts) /\ GoOn(w, n) /\ UNCHANGED <<begun, others>>
  <2>1. Serving(w, "append_artifacts")
    BY DEF AppendArtifactPlugins
  <2> QED
    BY <2>1, ServingOK DEF AppendArtifactPlugins, ImportOK
<1>2. /\ RowsStep
      /\ \A i \in Ids : res[i] = None /\ res'[i] # None => m.pending[i] # None
  BY <1>1, AppendCommits DEF Declared
<1>3. s \in Import /\ s.pending = NothingPending /\ s.at = m.at
  <2>1. NothingPending \in [Ids -> Row \cup {None}]
    BY DEF NothingPending
  <2> QED
    BY <1>1, <2>1 DEF Import
<1> HIDE DEF s
<1>4. /\ n \in Import /\ n.pending = NothingPending /\ n.step = "look" /\ n.found = None
      /\ n.at = m.at + 1
  <2>1. s.at + 1 \in Nat
    BY <1>1, <1>3
  <2> QED
    BY <1>3, <2>1 DEF NextItem, Import
<1> HIDE DEF n
<1>5. \A i \in Ids : n.pending[i] = None
  BY <1>4 DEF NothingPending
<1>6. ImportOK(n, res')
  BY <1>1, <1>4, <1>5 DEF ImportOK, Unwhole
<1> QED
  BY <1>1, <1>2, <1>4, <1>6, Commits

LEMMA FinishKeeps ==
  ASSUME ImportInv, NEW w \in Workers, Finish(w)
  PROVE  ImportInv'
PROOF
<1>1. /\ import[w] \in Import /\ ImportOK(import[w], res) /\ import[w] # None
      /\ import[w].at > Len(import[w].config) /\ res' = Committed(import[w])
      /\ GoOn(w, None) /\ UNCHANGED <<begun, others>>
  BY DEF Finish, ImportInv, TypeOK
<1>2. import[w].config \in Seq(Item) /\ import[w].at \in Nat
  BY <1>1, ConfigsAssumption DEF Import
<1>3. ~Underway(import[w])
  BY <1>1, <1>2 DEF Underway
<1>4. Unwhole(import[w]) = {}
  BY <1>1, <1>3 DEF ImportOK
<1>5. RowsStep /\ \A i \in Ids : res[i] = None /\ res'[i] # None =>
                                 import[w].pending[i] # None
  BY <1>1, <1>4, CommittedOK DEF RowsStep, ImportOK
<1> QED
  BY <1>1, <1>5, Commits

LEMMA OthersKeep ==
  ASSUME ImportInv, Other, RowsStep,
         \A v \in Workers : \A i \in Ids :
           res[i] = None /\ import[v] # None /\ import[v].pending[i] # None => res'[i] = None
  PROVE  ImportInv'
PROOF
<1> DEFINE W == {v \in Workers : FALSE}
<1>1. W \in SUBSET Workers /\ W = {}
  OBVIOUS
<1>2. begun' \in Nat /\ others' \in Nat
  BY DEF Other, ImportInv, TypeOK
<1>3. import \in [Workers -> Import \cup {None}]
  BY DEF ImportInv, TypeOK
<1>4. \A v \in Workers : Kept(v)
  BY DEF Kept, Other
<1>5. ASSUME NEW v \in Workers PROVE import'[v] \in Import \cup {None}
  <2>1. import[v] # None => [import[v] EXCEPT !.disturbed = TRUE] \in Import
    BY <1>3 DEF Import
  <2> QED
    BY <1>3, <1>4, <2>1 DEF Kept
<1>6. import' \in [Workers -> Import \cup {None}]
  <2>1. import' = [v \in Workers |-> import'[v]]
    BY DEF Other
  <2> QED
    BY <1>5, <2>1
<1> HIDE DEF W
<1> QED
  BY <1>1, <1>2, <1>4, <1>6, Assemble

LEMMA OtherCreatesKeeps ==
  ASSUME ImportInv, NEW i \in Ids, NEW k \in Keys, OtherCreates(i, k)
  PROVE  ImportInv'
PROOF
<1> DEFINE row == [key |-> k, uses |-> {}, whole |-> TRUE]
           r == [row |-> row, deleted |-> FALSE]
<1>1. row \in Row /\ row.whole
  BY DEF Row
<1> HIDE DEF row
<1>2. r \in Resource /\ r.row = row
  BY <1>1 DEF Resource
<1>3. res' = [res EXCEPT ![i] = r] /\ Other /\ res[i] = None
      /\ \A v \in Workers : import[v] # None => import[v].pending[i] = None
  BY DEF OtherCreates, IsNewId, FreeIds, row
<1> HIDE DEF r
<1>4. res \in [Ids -> Resource \cup {None}]
  BY DEF ImportInv, TypeOK
<1>5. RowsStep
  BY <1>1, <1>2, <1>3, <1>4 DEF RowsStep, ImportInv
<1>6. \A v \in Workers : \A j \in Ids :
        res[j] = None /\ import[v] # None /\ import[v].pending[j] # None => res'[j] = None
  BY <1>3, <1>4
<1> QED
  BY <1>3, <1>5, <1>6, OthersKeep

LEMMA OtherDeletesKeeps ==
  ASSUME ImportInv, NEW i \in Ids, OtherDeletes(i)
  PROVE  ImportInv'
PROOF
<1> DEFINE r == [res[i] EXCEPT !.deleted = TRUE]
<1>1. /\ res' = [res EXCEPT ![i].deleted = TRUE] /\ Other /\ res[i] # None
      /\ res \in [Ids -> Resource \cup {None}]
  BY DEF OtherDeletes, Live, ImportInv, TypeOK
<1>2. r \in Resource /\ r.row = res[i].row
  BY <1>1 DEF Resource
<1>3. r # None
  BY <1>2, RecordAssumption
<1>4. res' = [res EXCEPT ![i] = r]
  BY <1>1
<1> HIDE DEF r
<1>5. RowsStep
  BY <1>1, <1>2, <1>3, <1>4 DEF RowsStep, ImportInv
<1>6. \A v \in Workers : \A j \in Ids :
        res[j] = None /\ import[v] # None /\ import[v].pending[j] # None => res'[j] = None
  BY <1>1, <1>4
<1> QED
  BY <1>1, <1>5, <1>6, OthersKeep

-----------------------------------------------------------------------------
(* Theorems                                                                *)

LEMMA ImportInit == Init => ImportInv
BY DEF Init, ImportInv, TypeOK

LEMMA ImportNext ==
  ASSUME ImportInv, [Next]_vars
  PROVE  ImportInv'
PROOF
<1>1. CASE UNCHANGED vars
  <2>1. UNCHANGED <<res, import, begun, others>>
    BY <1>1 DEF vars
  <2> QED
    BY <2>1 DEF ImportInv, TypeOK
<1>2. ASSUME NEW w \in Workers,
             \/ \E strategy \in Strategies, config \in Configs : Begin(w, strategy, config)
             \/ Fail(w) \/ Look(w) \/ Delete(w) \/ Create(w) \/ Modify(w)
             \/ RegisterFiles(w) \/ AppendPlugins(w) \/ AppendArtifactPlugins(w)
             \/ Finish(w)
      PROVE  ImportInv'
  BY <1>2, BeginKeeps, FailKeeps, LookKeeps, DeleteKeeps, CreateKeeps, ModifyKeeps,
     RegisterFilesKeeps, AppendPluginsKeeps, AppendArtifactPluginsKeeps, FinishKeeps
<1>3. ASSUME NEW i \in Ids, OtherDeletes(i) \/ \E k \in Keys : OtherCreates(i, k)
      PROVE  ImportInv'
  BY <1>3, OtherDeletesKeeps, OtherCreatesKeeps
<1> QED
  BY <1>1, <1>2, <1>3 DEF Next

\* The invariant that the other theorems rest on.
THEOREM ImportCorrect == Spec => []ImportInv
PROOF
<1>1. ImportInv /\ [Next]_vars => ImportInv'
  BY ImportNext
<1> QED
  BY <1>1, ImportInit, PTL DEF Spec

\* Every variable has its type in every reachable state.
THEOREM ImportTyped == Spec => []TypeOK
PROOF
<1>1. ImportInv => TypeOK
  BY DEF ImportInv
<1> QED
  BY <1>1, ImportCorrect, PTL

\* No commit in the middle of an import, by the import itself or by anybody,
\* leaves a plugin in the database without the files of its import.
THEOREM PluginsWhole == Spec => []PluginsAreCommittedWhole
PROOF
<1>1. ImportInv => PluginsAreCommittedWhole
  BY DEF ImportInv, PluginsAreCommittedWhole
<1> QED
  BY <1>1, ImportCorrect, PTL

\* The step and the item of an import change only by its own steps.
LEMMA OnlyItsWorkerAdvances ==
  ASSUME ImportInv, NEW w \in Workers, import[w] # None, Kept(w)
  PROVE  ~Advances(w)
PROOF
<1>1. import[w] \in Import
  BY DEF ImportInv, TypeOK
<1>2. [import[w] EXCEPT !.disturbed = TRUE] \in Import
  BY <1>1 DEF Import
<1>3. [import[w] EXCEPT !.disturbed = TRUE] # None
  BY <1>2, RecordAssumption
<1> QED
  BY <1>1, <1>3 DEF Advances, Kept, Import

LEMMA FailStep ==
  ASSUME ImportInv, [Next]_vars, NEW w \in Workers, Advances(w),
         import[w].strategy = "fail", res' # res
  PROVE  Completes(w)
PROOF
<1>1. import[w] # None /\ import[w] \in Import /\ ImportOK(import[w], res) /\ ~Kept(w)
  BY OnlyItsWorkerAdvances DEF Advances, ImportInv, TypeOK
<1>2. import[w].found = None /\ import[w].step \notin {"delete", "append", "append_artifacts"}
  BY <1>1 DEF ImportOK
<1>3. \A i \in Ids : ~OtherDeletes(i) /\ \A k \in Keys : ~OtherCreates(i, k)
  BY <1>1 DEF OtherDeletes, OtherCreates, Other, Kept
<1>4. PICK v \in Workers :
        \/ \E strategy \in Strategies, config \in Configs : Begin(v, strategy, config)
        \/ Fail(v) \/ Look(v) \/ Delete(v) \/ Create(v) \/ Modify(v)
        \/ RegisterFiles(v) \/ AppendPlugins(v) \/ AppendArtifactPlugins(v)
        \/ Finish(v)
  <2>1. ~UNCHANGED vars
    BY DEF vars
  <2> QED
    BY <1>3, <2>1 DEF Next
<1>5. \/ Delete(v) \/ AppendPlugins(v) \/ AppendArtifactPlugins(v) \/ Finish(v)
  BY <1>4 DEF Begin, Fail, Look, Create, Modify, RegisterFiles, WriteRow
<1>6. PICK m : GoOn(v, m)
  BY <1>5 DEF Delete, AppendPlugins, AppendArtifactPlugins, Finish
<1>7. v = w
  BY <1>1, <1>6 DEF GoOn, Kept
<1>8. Finish(w)
  BY <1>2, <1>5, <1>7 DEF Delete, AppendPlugins, AppendArtifactPlugins, Serving
<1>9. import'[w] = None
  BY <1>8 DEF Finish, GoOn
<1> QED
  BY <1>8, <1>9 DEF Finish, Completes

\* An import under "fail" changes the database only by the step that completes
\* it: none of the services that commit is called under this strategy.
THEOREM FailIsAllOrNothing == Spec => FailImportsAllOrNothing
PROOF
<1>1. ImportInv /\ [Next]_vars =>
        [\A w \in Workers :
           Advances(w) /\ import[w].strategy = "fail" /\ res' # res => Completes(w)]_vars
  BY FailStep
<1> QED
  BY <1>1, ImportCorrect, PTL DEF Spec, FailImportsAllOrNothing

-----------------------------------------------------------------------------
(* What an import loses and delivers.  As long as nobody disturbs it, its  *)
(* session and the database together hold all that it has made, and all of *)
(* what it found but the resource that it is replacing; and what it leaves *)
(* in the database when it fails is what the last deletion committed.      *)

\* What had the name k of the item has been deleted, and is not yet replaced.
JustDeleted(m, k) ==
  Underway(m) /\ m.step = "write" /\ m.found = None /\ k = Current(m).key

\* The dictionaries of the import name resources that are there.
MadeOK(m) ==
  \A k \in Keys : m.made[k] # None =>
    /\ m.pending[m.made[k]] # None \/ res[m.made[k]] # None
    /\ RowOf(m, m.made[k]).key = k
    /\ Seen(m, m.made[k]) \/ JustDeleted(m, k)

HadOK(m) == \A k \in m.had : Named(m, k) # {} \/ JustDeleted(m, k)

\* In the database at most one name is lost.
LiveKey(k) == \E i \in Ids : Live(i) /\ res[i].row.key = k
LossOK(m) == \E l \in Keys \cup {None} : \A k \in m.had \ {l} : LiveKey(k)

\* An item that is dealt with uses what the import made of its names.
Done(m, item) ==
  /\ m.made[item.key] # None
  /\ \A k \in item.uses \cup item.artifacts : m.made[k] # None
  /\ Resolved(m, item.uses \cup item.artifacts) \subseteq RowOf(m, m.made[item.key]).uses

DoneOK(m) ==
  \A n \in 1..Len(m.config) :
    n < m.at /\ Lasting(m.config, n) => Done(m, m.config[n])

\* What the step of an import says about its item.
StepOK(m) ==
  Underway(m) =>
    /\ m.step = "files" => Current(m).key.kind = "plugin"
    /\ m.step \in {"append", "append_artifacts"} =>
         Current(m).key.kind = "entrypoint" /\ m.made[Current(m).key] = m.found
    /\ m.step = "append_artifacts" =>
         Resolved(m, Current(m).uses) \subseteq RowOf(m, m.found).uses

SessionOK(m) == MadeOK(m) /\ HadOK(m) /\ LossOK(m) /\ DoneOK(m) /\ StepOK(m)
SessionInv ==
  \A w \in Workers : import[w] # None /\ ~import[w].disturbed => SessionOK(import[w])

\* Names that an item uses are dealt with before it, and not again after it.
LEMMA ItemOrder ==
  ASSUME NEW m \in Import, m.at \in Nat \ {0}, Underway(m),
         NEW n \in 1..m.at, n = m.at \/ Lasting(m.config, n)
  PROVE  /\ m.config[n] \in Item /\ n \in 1..Len(m.config)
         /\ n # m.at => m.config[n].key # Current(m).key
         /\ \A k \in m.config[n].uses \cup m.config[n].artifacts :
              k \in Keys /\ k # Current(m).key
         /\ m.config[n].key.kind = "type" => m.config[n].uses = {}
         /\ m.config[n].key.kind # "entrypoint" => m.config[n].artifacts = {}
PROOF
<1> DEFINE c == m.config
<1>1. c \in Seq(Item) /\ c \in Configs
  BY ConfigsAssumption DEF Import
<1> HIDE DEF c
<1>2. m.at \in n..Len(c) /\ n \in 1..Len(c) /\ Current(m) = c[m.at]
      /\ (n # m.at => m.at \in (n + 1)..Len(c))
  BY <1>1 DEF Underway, Current, c
<1>3. c[n] \in Item
  BY <1>1, <1>2
<1>4. n # m.at => c[n].key # Current(m).key
  BY <1>2 DEF Lasting, c
<1>5. /\ \A k \in c[n].uses \cup c[n].artifacts : k.kind \in Below(c[n].key.kind)
      /\ \A p \in n..Len(c) : c[p].key.kind \notin Below(c[n].key.kind)
      /\ c[n].key.kind # "entrypoint" => c[n].artifacts = {}
  BY <1>1, <1>2, OrderAssumption
<1>6. Current(m).key.kind \notin Below(c[n].key.kind)
  BY <1>2, <1>5
<1>7. \A k \in c[n].uses \cup c[n].artifacts : k \in Keys /\ k # Current(m).key
  BY <1>3, <1>5, <1>6 DEF Item
<1>8. c[n].key.kind = "type" => c[n].uses = {}
  BY <1>5 DEF Below
<1> QED
  BY <1>2, <1>3, <1>4, <1>5, <1>7, <1>8 DEF c

\* What a session sees when one row is written.
LEMMA OneRowWritten ==
  ASSUME NEW m \in Import, NEW n \in Import, NEW i \in Ids, NEW row \in Row,
         n.pending = [m.pending EXCEPT ![i] = row]
  PROVE  /\ n.pending[i] # None /\ RowOf(n, i) = row
         /\ Seen(n, i) <=> res[i] = None \/ ~res[i].deleted
         /\ Seen(m, i) => Seen(n, i)
         /\ \A j \in Ids \ {i} :
              /\ n.pending[j] = m.pending[j] /\ RowOf(n, j) = RowOf(m, j)
              /\ Seen(n, j) <=> Seen(m, j)
PROOF
<1>1. n.pending[i] = row /\ \A j \in Ids \ {i} : n.pending[j] = m.pending[j]
  BY DEF Import
<1>2. row # None
  BY RecordAssumption
<1> QED
  BY <1>1, <1>2 DEF RowOf, Seen

\* What an import has made for its earlier items is not touched by the
\* current one.
LEMMA DoneStays ==
  ASSUME NEW m \in Import, NEW n \in Import, m.at \in Nat \ {0}, Underway(m),
         DoneOK(m), n.config = m.config,
         \A k \in Keys : k # Current(m).key => n.made[k] = m.made[k],
         \A k \in Keys : k # Current(m).key /\ m.made[k] # None =>
           RowOf(n, m.made[k]) = RowOf(m, m.made[k]),
         NEW p \in 1..Len(m.config), p < m.at, Lasting(m.config, p)
  PROVE  Done(n, n.config[p])
PROOF
<1> DEFINE item == m.config[p]
<1>1. Done(m, item)
  BY DEF DoneOK
<1>2. p \in 1..m.at /\ p # m.at
  OBVIOUS
<1>3. /\ item.key \in Keys /\ item.key # Current(m).key
      /\ \A k \in item.uses \cup item.artifacts : k \in Keys /\ k # Current(m).key
  BY <1>2, ItemOrder DEF Item
<1> HIDE DEF item
<1>4. Resolved(n, item.uses \cup item.artifacts) = Resolved(m, item.uses \cup item.artifacts)
  BY <1>3 DEF Resolved
<1>5. /\ n.made[item.key] = m.made[item.key]
      /\ \A k \in item.uses \cup item.artifacts : n.made[k] = m.made[k]
      /\ RowOf(n, m.made[item.key]) = RowOf(m, m.made[item.key])
  BY <1>1, <1>3 DEF Done
<1>6. Done(n, item)
  BY <1>1, <1>4, <1>5 DEF Done
<1> QED
  BY <1>6 DEF item

\* The row of the current item is written, for a new id or for the one found.
LEMMA RowPlaced ==
  ASSUME NEW m \in Import, NEW n \in Import, m.at \in Nat \ {0}, Underway(m),
         SessionOK(m), m.step = "write", Declared(m),
         NEW i \in Ids, NEW row \in Row, row.key = Current(m).key,
         \/ res[i] = None /\ m.pending[i] = None
         \/ Seen(m, i) /\ RowOf(m, i).key = row.key,
         n.pending = [m.pending EXCEPT ![i] = row],
         n.made = [m.made EXCEPT ![row.key] = i],
         n.config = m.config, n.had = m.had,
         \/ n.at = m.at /\ n.step # "write" /\ StepOK(n)
         \/ /\ n.at = m.at + 1 /\ n.step = "look"
            /\ Resolved(m, Current(m).uses \cup Current(m).artifacts) \subseteq row.uses
  PROVE  SessionOK(n)
PROOF
<1> DEFINE key == row.key
<1>1. /\ n.pending[i] # None /\ RowOf(n, i) = row /\ Seen(n, i)
      /\ \A j \in Ids \ {i} : /\ n.pending[j] = m.pending[j] /\ RowOf(n, j) = RowOf(m, j)
                              /\ Seen(n, j) <=> Seen(m, j)
  <2>1. /\ n.pending[i] # None /\ RowOf(n, i) = row
        /\ Seen(n, i) <=> res[i] = None \/ ~res[i].deleted
        /\ Seen(m, i) => Seen(n, i)
        /\ \A j \in Ids \ {i} :
             /\ n.pending[j] = m.pending[j] /\ RowOf(n, j) = RowOf(m, j)
             /\ Seen(n, j) <=> Seen(m, j)
    BY OneRowWritten, Zenon
  <2> QED
    BY <2>1
<1>2. /\ key \in Keys /\ m.made \in [Keys -> Ids \cup {None}]
      /\ n.made[key] = i /\ \A k \in Keys \ {key} : n.made[k] = m.made[k]
      /\ m.had \in SUBSET Keys
  BY DEF Row, Import
<1>3. \A k \in Keys : k # key /\ m.made[k] # None => m.made[k] # i /\ m.made[k] \in Ids
  BY <1>2 DEF SessionOK, MadeOK, Seen
<1>4. \A k : JustDeleted(m, k) => k = key
  BY DEF JustDeleted
<1>5. MadeOK(n)
  <2> SUFFICES ASSUME NEW k \in Keys, n.made[k] # None
               PROVE  /\ n.pending[n.made[k]] # None \/ res[n.made[k]] # None
                      /\ RowOf(n, n.made[k]).key = k
                      /\ Seen(n, n.made[k])
    BY DEF MadeOK
  <2>1. CASE k = key
    BY <1>1, <1>2, <2>1
  <2>2. CASE k # key
    <3>1. n.made[k] = m.made[k] /\ m.made[k] \in Ids \ {i}
      BY <1>2, <1>3, <2>2
    <3> QED
      BY <1>1, <1>4, <2>2, <3>1 DEF SessionOK, MadeOK
  <2> QED
    BY <2>1, <2>2
<1>6. HadOK(n)
  <2> SUFFICES ASSUME NEW k \in m.had PROVE Named(n, k) # {}
    BY DEF HadOK
  <2>1. CASE k = key
    BY <1>1, <2>1 DEF Named
  <2>2. CASE k # key
    <3>1. PICK j \in Ids : Seen(m, j) /\ RowOf(m, j).key = k
      BY <1>4, <2>2 DEF SessionOK, HadOK, Named
    <3>2. j # i
      BY <2>2, <3>1 DEF Seen
    <3> QED
      BY <1>1, <3>1, <3>2 DEF Named
  <2> QED
    BY <2>1, <2>2
<1>7. LossOK(n)
  BY DEF SessionOK, LossOK
<1>8. ASSUME NEW p \in 1..Len(m.config), p < n.at, Lasting(m.config, p)
      PROVE  Done(n, n.config[p])
  <2>1. CASE p < m.at
    <3>1. \A k \in Keys : k # Current(m).key => n.made[k] = m.made[k]
      BY <1>2
    <3>2. \A k \in Keys : k # Current(m).key /\ m.made[k] # None =>
            RowOf(n, m.made[k]) = RowOf(m, m.made[k])
      BY <1>1, <1>3
    <3> QED
      BY <1>8, <2>1, <3>1, <3>2, DoneStays, Zenon DEF SessionOK
  <2>2. CASE ~(p < m.at)
    <3>1. p = m.at /\ m.config[p] = Current(m)
      BY <1>8, <2>2 DEF Current
    <3>2. /\ Resolved(m, Current(m).uses \cup Current(m).artifacts) \subseteq row.uses
      BY <1>8, <2>2
    <3>3. \A k \in Current(m).uses \cup Current(m).artifacts : k \in Keys /\ k # key
      BY <3>1, ItemOrder
    <3>4. \A k \in Current(m).uses \cup Current(m).artifacts :
            n.made[k] = m.made[k] /\ m.made[k] # None
      BY <1>2, <3>3 DEF Declared
    <3>5. Resolved(n, Current(m).uses \cup Current(m).artifacts)
            = Resolved(m, Current(m).uses \cup Current(m).artifacts)
      BY <3>4 DEF Resolved
    <3>6. n.made[Current(m).key] = i /\ i # None
      BY <1>2, RecordAssumption
    <3>7. Done(n, Current(m))
      BY <1>1, <3>2, <3>4, <3>5, <3>6 DEF Done
    <3> QED
      BY <3>1, <3>7
  <2> QED
    BY <2>1, <2>2
<1>9. DoneOK(n)
  BY <1>8 DEF DoneOK
<1>10. StepOK(n)
  BY DEF StepOK
<1> QED
  BY <1>5, <1>6, <1>7, <1>9, <1>10 DEF SessionOK

\* The row that the import has made for the current item gets what it uses.
LEMMA RowGrows ==
  ASSUME NEW m \in Import, NEW n \in Import, m.at \in Nat \ {0}, Underway(m),
         SessionOK(m), m.step # "write", Declared(m),
         NEW i \in Ids, m.made[Current(m).key] = i, Current(m).key \in Keys,
         NEW row \in Row, row.key = Current(m).key,
         n.pending = [m.pending EXCEPT ![i] = row],
         n.made = m.made, n.config = m.config, n.had = m.had,
         \/ n.at = m.at /\ StepOK(n)
         \/ /\ n.at = m.at + 1 /\ n.step = "look"
            /\ Resolved(m, Current(m).uses \cup Current(m).artifacts) \subseteq row.uses
  PROVE  SessionOK(n) /\ \A k \in n.had : Named(n, k) # {}
PROOF
<1> DEFINE key == row.key
<1>1. /\ n.pending[i] # None /\ RowOf(n, i) = row
      /\ Seen(n, i) <=> res[i] = None \/ ~res[i].deleted
      /\ Seen(m, i) => Seen(n, i)
      /\ \A j \in Ids \ {i} :
           /\ n.pending[j] = m.pending[j] /\ RowOf(n, j) = RowOf(m, j)
           /\ Seen(n, j) <=> Seen(m, j)
  <2>1. n.pending = [m.pending EXCEPT ![i] = row]
    OBVIOUS
  <2> QED
    BY ONLY <2>1, m \in Import, n \in Import, i \in Ids, row \in Row, OneRowWritten, Zenon
<1>2. m.made \in [Keys -> Ids \cup {None}] /\ m.had \in SUBSET Keys /\ i # None
  BY RecordAssumption DEF Import
<1>3. \A k \in Keys : m.made[k] # None =>
        /\ m.made[k] \in Ids
        /\ m.pending[m.made[k]] # None \/ res[m.made[k]] # None
        /\ RowOf(m, m.made[k]).key = k /\ Seen(m, m.made[k])
  BY <1>2 DEF SessionOK, MadeOK, JustDeleted
<1>4. Seen(m, i) /\ RowOf(m, i).key = key
  BY <1>2, <1>3
<1>5. \A k \in Keys : k # key /\ m.made[k] # None => m.made[k] # i
  BY <1>3, <1>4
<1>6. MadeOK(n)
  BY <1>1, <1>3, <1>4, <1>5 DEF MadeOK
<1>7. ASSUME NEW k \in m.had PROVE Named(n, k) # {}
  <2>1. PICK j \in Ids : Seen(m, j) /\ RowOf(m, j).key = k
    BY DEF SessionOK, HadOK, Named, JustDeleted
  <2>2. Seen(n, j) /\ RowOf(n, j).key = k
    BY <1>1, <1>4, <2>1
  <2> QED
    BY <2>2 DEF Named
<1>8. HadOK(n) /\ LossOK(n)
  BY <1>7 DEF SessionOK, LossOK, HadOK
<1>9. ASSUME NEW p \in 1..Len(m.config), p < n.at, Lasting(m.config, p)
      PROVE  Done(n, n.config[p])
  <2>1. CASE p < m.at
    <3>1. \A k \in Keys : k # Current(m).key => n.made[k] = m.made[k]
      OBVIOUS
    <3>2. \A k \in Keys : k # Current(m).key /\ m.made[k] # None =>
            RowOf(n, m.made[k]) = RowOf(m, m.made[k])
      BY <1>1, <1>3, <1>5
    <3> QED
      BY <1>9, <2>1, <3>1, <3>2, DoneStays, Zenon DEF SessionOK
  <2>2. CASE ~(p < m.at)
    <3>1. p = m.at /\ m.config[p] = Current(m)
      BY <1>9, <2>2 DEF Current
    <3>2. Resolved(m, Current(m).uses \cup Current(m).artifacts) \subseteq row.uses
      BY <1>9, <2>2
    <3>3. Resolved(n, Current(m).uses \cup Current(m).artifacts)
            = Resolved(m, Current(m).uses \cup Current(m).artifacts)
      BY DEF Resolved
    <3>4. Done(n, Current(m))
      BY <1>1, <1>2, <3>2, <3>3 DEF Done, Declared
    <3> QED
      BY <3>1, <3>4
  <2> QED
    BY <2>1, <2>2
<1>10. DoneOK(n)
  BY <1>9 DEF DoneOK
<1>11. StepOK(n)
  BY DEF StepOK
<1> QED
  BY <1>6, <1>7, <1>8, <1>10, <1>11 DEF SessionOK

\* What a session sees is what the commit of its rows leaves in the database.
LEMMA CommitSees ==
  ASSUME ImportInv, NEW s \in Import, res' = Committed(s),
         NEW n \in Import, n.pending = NothingPending, NEW i \in Ids
  PROVE  /\ Live(i)' <=> Seen(s, i)
         /\ Seen(n, i)' <=> Seen(s, i)
         /\ s.pending[i] # None \/ res[i] # None =>
              res'[i] # None /\ res'[i].row = RowOf(s, i) /\ RowOf(n, i)' = RowOf(s, i)
PROOF
<1>1. n.pending[i] = None
  BY DEF NothingPending
<1>2. CASE s.pending[i] = None
  <2>1. res'[i] = res[i]
    BY <1>2 DEF Committed
  <2> QED
    BY <1>1, <1>2, <2>1 DEF Live, Seen, RowOf
<1>3. CASE s.pending[i] # None
  <2> DEFINE d == res[i] # None /\ res[i].deleted
             r == [row |-> s.pending[i], deleted |-> d]
  <2>1. res'[i] = r
    BY <1>3 DEF Committed
  <2>2. d \in BOOLEAN /\ s.pending[i] \in Row
    BY <1>3 DEF ImportInv, TypeOK, Resource, Import
  <2>3. Seen(s, i) <=> ~d
    BY <1>3 DEF Seen
  <2> HIDE DEF d
  <2>4. r \in Resource /\ r.row = s.pending[i] /\ r.deleted = d
    BY <2>2 DEF Resource
  <2>5. r # None
    BY <2>4, RecordAssumption
  <2> HIDE DEF r
  <2> QED
    BY <1>1, <1>3, <2>1, <2>3, <2>4, <2>5 DEF Live, Seen, RowOf
<1> QED
  BY <1>2, <1>3

\* An import whose rows are committed is as good as it was.
LEMMA CommitKeepsSession ==
  ASSUME ImportInv, NEW s \in Import, res' = Committed(s),
         NEW n \in Import, n.pending = NothingPending,
         n.made = s.made, n.config = s.config, n.had = s.had, n.at = s.at,
         n.step = s.step, n.found = s.found,
         s.at \in Nat \ {0}, s.step # "write",
         s.step = "append_artifacts" => s.found # None,
         SessionOK(s), \A k \in s.had : Named(s, k) # {}
  PROVE  SessionOK(n)'
PROOF
<1>1. \A i \in Ids :
        /\ Live(i)' <=> Seen(s, i)
        /\ Seen(n, i)' <=> Seen(s, i)
        /\ s.pending[i] # None \/ res[i] # None =>
             res'[i] # None /\ res'[i].row = RowOf(s, i) /\ RowOf(n, i)' = RowOf(s, i)
  BY CommitSees
<1>2. \A k \in Keys : s.made[k] # None =>
        /\ s.made[k] \in Ids
        /\ s.pending[s.made[k]] # None \/ res[s.made[k]] # None
        /\ RowOf(s, s.made[k]).key = k /\ Seen(s, s.made[k])
  <2>1. s.made \in [Keys -> Ids \cup {None}]
    BY DEF Import
  <2> QED
    BY <2>1 DEF SessionOK, MadeOK, JustDeleted
<1>3. MadeOK(n)'
  BY <1>1, <1>2 DEF MadeOK
<1>4. ASSUME NEW k \in s.had
      PROVE  \E i \in Ids : /\ Seen(n, i)' /\ RowOf(n, i)'.key = k
                            /\ Live(i)' /\ res'[i].row.key = k
  <2>1. PICK i \in Ids : Seen(s, i) /\ RowOf(s, i).key = k
    BY DEF Named
  <2> QED
    BY <1>1, <2>1 DEF Seen
<1>5. HadOK(n)'
  BY <1>4 DEF HadOK, Named
<1>6. LossOK(n)'
  <2>1. \A k \in n.had : LiveKey(k)'
    BY <1>4 DEF LiveKey
  <2> QED
    BY <2>1 DEF LossOK
<1>7. ASSUME NEW item \in Item, Done(s, item)
      PROVE  Done(n, item)'
  <2>1. s.made[item.key] # None /\ item.key \in Keys
    BY <1>7 DEF Done, Item
  <2>2. RowOf(n, n.made[item.key])' = RowOf(s, s.made[item.key])
    BY <1>1, <1>2, <2>1
  <2>3. Resolved(n, item.uses \cup item.artifacts) = Resolved(s, item.uses \cup item.artifacts)
    BY DEF Resolved
  <2> QED
    BY <1>7, <2>2, <2>3 DEF Done, Resolved
<1>8. DoneOK(n)'
  <2>1. \A p \in 1..Len(s.config) : s.config[p] \in Item
    BY ConfigsAssumption DEF Import
  <2>2. \A p \in 1..Len(n.config) :
          p < n.at /\ Lasting(n.config, p) => Done(n, n.config[p])'
    BY <1>7, <2>1 DEF SessionOK, DoneOK
  <2> QED
    BY <2>2 DEF DoneOK
<1>9. StepOK(n)'
  <2> SUFFICES ASSUME Underway(n)
               PROVE  /\ n.step = "files" => Current(n).key.kind = "plugin"
                      /\ n.step \in {"append", "append_artifacts"} =>
                           /\ Current(n).key.kind = "entrypoint"
                           /\ n.made[Current(n).key] = n.found
                      /\ n.step = "append_artifacts" =>
                           Resolved(n, Current(n).uses) \subseteq RowOf(n, n.found)'.uses
    BY DEF StepOK, Underway, Current, Resolved
  <2>1. /\ Underway(s) /\ Current(n) = Current(s)
        /\ Resolved(n, Current(n).uses) = Resolved(s, Current(s).uses)
    BY DEF Underway, Current, Resolved
  <2>2. /\ s.step = "files" => Current(s).key.kind = "plugin"
        /\ s.step \in {"append", "append_artifacts"} =>
             Current(s).key.kind = "entrypoint" /\ s.made[Current(s).key] = s.found
        /\ s.step = "append_artifacts" =>
             Resolved(s, Current(s).uses) \subseteq RowOf(s, s.found).uses
    BY <2>1 DEF SessionOK, StepOK
  <2>3. Current(s).key \in Keys
    BY <2>1, ItemOK
  <2>4. n.step = "append_artifacts" => RowOf(n, n.found)' = RowOf(s, s.found)
    BY <1>1, <1>2, <2>2, <2>3
  <2> QED
    BY <2>1, <2>2, <2>4
<1> QED
  BY <1>3, <1>5, <1>6, <1>8, <1>9 DEF SessionOK

LEMMA SameRows ==
  ASSUME NEW n, res' = res, SessionOK(n)
  PROVE  SessionOK(n)'
PROOF
<1>1. \A i : (Seen(n, i)' <=> Seen(n, i)) /\ RowOf(n, i)' = RowOf(n, i)
  BY DEF Seen, RowOf
<1>2. \A k : LiveKey(k)' <=> LiveKey(k)
  BY DEF LiveKey, Live
<1>3. \A k : Named(n, k)' = Named(n, k)
  BY <1>1 DEF Named
<1>4. MadeOK(n)'
  BY <1>1 DEF SessionOK, MadeOK, JustDeleted, Underway, Current
<1>5. HadOK(n)'
  BY <1>3 DEF SessionOK, HadOK, JustDeleted, Underway, Current
<1>6. LossOK(n)'
  BY <1>2 DEF SessionOK, LossOK
<1>7. DoneOK(n)'
  BY <1>1 DEF SessionOK, DoneOK, Done, Resolved, Lasting
<1>8. StepOK(n)'
  BY <1>1 DEF SessionOK, StepOK, Underway, Current, Resolved
<1> QED
  BY <1>4, <1>5, <1>6, <1>7, <1>8 DEF SessionOK

\* The import of w goes on as n, or is over; the others are as they were, or
\* have been disturbed.
LEMMA OneSessionMoves ==
  ASSUME SessionInv, NEW w \in Workers, NEW n, import'[w] = n,
         n # None /\ ~n.disturbed => SessionOK(n)',
         \A v \in Workers \ {w} :
           \/ import'[v] = import[v] /\ res' = res
           \/ import'[v] = None
           \/ import'[v].disturbed
  PROVE  SessionInv'
PROOF
<1> SUFFICES ASSUME NEW v \in Workers, NEW m, import'[v] = m, m # None, ~m.disturbed
             PROVE  SessionOK(m)'
  BY DEF SessionInv
<1>1. CASE v = w
  BY <1>1
<1>2. CASE v # w
  <2>1. import[v] = m /\ res' = res
    BY <1>2
  <2>2. SessionOK(m)
    BY <2>1 DEF SessionInv
  <2> QED
    BY <2>1, <2>2, SameRows
<1> QED
  BY <1>1, <1>2

LEMMA SessionWritten ==
  ASSUME ImportInv, SessionInv, NEW w \in Workers, NEW n, UNCHANGED res,
         import' = [import EXCEPT ![w] = n],
         n # None /\ ~n.disturbed => SessionOK(n)
  PROVE  SessionInv'
PROOF
<1>1. import'[w] = n /\ \A v \in Workers \ {w} : import'[v] = import[v]
  BY DEF ImportInv, TypeOK
<1>2. n # None /\ ~n.disturbed => SessionOK(n)'
  BY SameRows
<1> QED
  BY <1>1, <1>2, OneSessionMoves

LEMMA SessionCommitted ==
  ASSUME ImportInv, SessionInv, NEW w \in Workers, NEW n, GoOn(w, n),
         n # None /\ ~n.disturbed => SessionOK(n)'
  PROVE  SessionInv'
PROOF
<1>1. import'[w] = n
  BY DEF GoOn
<1>2. ASSUME NEW v \in Workers \ {w}
      PROVE  \/ import'[v] = import[v] /\ res' = res
             \/ import'[v] = None
             \/ import'[v].disturbed
  <2>1. CASE import[v] # None /\ res' # res
    <3>1. import'[v] = [import[v] EXCEPT !.disturbed = TRUE]
      BY <2>1 DEF GoOn
    <3>2. import[v] \in Import
      BY <2>1 DEF ImportInv, TypeOK
    <3> QED
      BY <3>1, <3>2 DEF Import
  <2>2. CASE ~(import[v] # None /\ res' # res)
    BY <2>2 DEF GoOn
  <2> QED
    BY <2>1, <2>2
<1> QED
  BY <1>1, <1>2, OneSessionMoves

-----------------------------------------------------------------------------
(* The steps and the sessions                                              *)

LEMMA BeginSession ==
  ASSUME ImportInv, SessionInv, NEW w \in Workers, NEW strategy \in Strategies,
         NEW config \in Configs, Begin(w, strategy, config)
  PROVE  SessionInv'
PROOF
<1> DEFINE had == {res[i].row.key : i \in {j \in Ids : Live(j)}}
           m == [strategy |-> strategy, config |-> config, at |-> 1, step |-> "look",
                 found |-> None, pending |-> NothingPending,
                 made |-> [k \in Keys |-> None], had |-> had, disturbed |-> FALSE]
<1>1. import' = [import EXCEPT ![w] = m] /\ UNCHANGED res
  BY DEF Begin
<1>2. PICK n : n = m
  OBVIOUS
<1>3. /\ n.at = 1 /\ n.step = "look" /\ n.pending = NothingPending /\ n.had = had
      /\ n.config = config /\ \A k \in Keys : n.made[k] = None
  BY <1>2
<1>4. \A i \in Ids : n.pending[i] = None
  BY <1>3 DEF NothingPending
<1>5. \A k \in n.had : Named(n, k) # {} /\ LiveKey(k)
  BY <1>3, <1>4 DEF Named, Seen, RowOf, Live, LiveKey
<1>6. MadeOK(n) /\ HadOK(n) /\ LossOK(n)
  BY <1>3, <1>5 DEF MadeOK, HadOK, LossOK
<1>7. StepOK(n)
  BY <1>3 DEF StepOK
<1>8. DoneOK(n)
  BY <1>3 DEF DoneOK
<1>9. SessionOK(n)
  BY <1>6, <1>7, <1>8 DEF SessionOK
<1> HIDE DEF m
<1> QED
  BY <1>1, <1>2, <1>9, SessionWritten

LEMMA FailSession ==
  ASSUME ImportInv, SessionInv, NEW w \in Workers, Fail(w)
  PROVE  SessionInv'
BY SessionWritten DEF Fail

\* What is looked up says nothing of what the session holds.
LEMMA LookSession ==
  ASSUME ImportInv, SessionInv, NEW w \in Workers, Look(w)
  PROVE  SessionInv'
PROOF
<1>1. PICK m : m = import[w]
  OBVIOUS
<1>2. /\ m \in Import /\ Underway(m) /\ m.step = "look" /\ UNCHANGED res
      /\ import \in [Workers -> Import \cup {None}] /\ import[w] # None
  BY <1>1, ServingOK DEF Look, ImportInv, TypeOK
<1>3. PICK found \in Ids \cup {None}, step \in {"write", "delete"} :
        import' = [import EXCEPT ![w] = [m EXCEPT !.found = found, !.step = step]]
  <2>1. CASE import' = [import EXCEPT ![w].step = "write"]
    <3>1. m.found \in Ids \cup {None} /\ m = [m EXCEPT !.found = m.found]
      BY <1>2 DEF Import
    <3>2. import' = [import EXCEPT ![w] = [m EXCEPT !.found = m.found, !.step = "write"]]
      BY <1>1, <1>2, <2>1, <3>1
    <3> QED
      BY <3>1, <3>2
  <2>2. ASSUME NEW i \in Named(m, Current(m).key),
               import' = [import EXCEPT ![w].found = i,
                 ![w].step = IF m.strategy = "update" THEN "write" ELSE "delete"]
        PROVE  \E found \in Ids \cup {None}, step \in {"write", "delete"} :
                 import' = [import EXCEPT ![w] = [m EXCEPT !.found = found, !.step = step]]
    <3> DEFINE st == IF m.strategy = "update" THEN "write" ELSE "delete"
    <3>1. import' = [import EXCEPT ![w] = [m EXCEPT !.found = i, !.step = st]]
      BY <1>1, <1>2, <2>2
    <3>2. i \in Ids /\ st \in {"write", "delete"}
      BY DEF Named
    <3> HIDE DEF st
    <3> QED
      BY <3>1, <3>2
  <2> QED
    BY <1>1, <2>1, <2>2 DEF Look
<1>4. PICK n : n = [m EXCEPT !.found = found, !.step = step]
  OBVIOUS
<1>5. /\ n.pending = m.pending /\ n.made = m.made /\ n.config = m.config /\ n.at = m.at
      /\ n.had = m.had /\ n.step = step /\ n.disturbed = m.disturbed
  BY <1>2, <1>4 DEF Import
<1>6. ASSUME ~n.disturbed PROVE SessionOK(n)
  <2>1. SessionOK(m)
    BY <1>1, <1>2, <1>5, <1>6 DEF SessionInv
  <2>2. \A i : (Seen(n, i) <=> Seen(m, i)) /\ RowOf(n, i) = RowOf(m, i)
    BY <1>5 DEF Seen, RowOf
  <2>3. \A k : ~JustDeleted(m, k)
    BY <1>2 DEF JustDeleted
  <2>4. \A k : Named(n, k) = Named(m, k)
    BY <2>2 DEF Named
  <2>5. MadeOK(n)
    BY <1>5, <2>1, <2>2, <2>3 DEF SessionOK, MadeOK
  <2>6. HadOK(n)
    BY <1>5, <2>1, <2>3, <2>4 DEF SessionOK, HadOK
  <2>7. LossOK(n)
    BY <1>5, <2>1 DEF SessionOK, LossOK
  <2>8. DoneOK(n)
    BY <1>5, <2>1, <2>2 DEF SessionOK, DoneOK, Done, Resolved
  <2>9. StepOK(n)
    BY <1>5 DEF StepOK
  <2> QED
    BY <2>5, <2>6, <2>7, <2>8, <2>9 DEF SessionOK
<1> QED
  BY <1>2, <1>3, <1>4, <1>6, SessionWritten

\* What create() and modify() write of the current item.
LEMMA PlacedSession ==
  ASSUME ImportInv, SessionInv, NEW w \in Workers, NEW m, m = import[w],
         Serving(w, "write"), Declared(m),
         NEW i \in Ids, NEW row \in Row, WriteRow(w, i, row), row.key = Current(m).key,
         \/ res[i] = None /\ m.pending[i] = None
         \/ Seen(m, i) /\ RowOf(m, i).key = row.key,
         m.found # None => i = m.found,
         StepAfter(m, row.key.kind) = "look" =>
           Resolved(m, Current(m).uses \cup Current(m).artifacts) \subseteq row.uses
  PROVE  SessionInv'
PROOF
<1> DEFINE step == StepAfter(m, row.key.kind)
           s == [m EXCEPT !.pending[i] = row, !.made[row.key] = i, !.step = step]
<1>1. /\ m \in Import /\ m # None /\ Underway(m) /\ m.step = "write" /\ m.at \in Nat \ {0}
      /\ row.key \in Keys /\ row.key.kind \in {"type", "plugin", "entrypoint"}
  BY ServingOK, KeysAssumption
<1>2. /\ step \in {"files", "append", "look"}
      /\ step = "files" => row.key.kind = "plugin"
      /\ step = "append" => m.found # None /\ row.key.kind = "entrypoint"
  BY <1>1 DEF StepAfter
<1>3. PICK n : n = WithRow(m, i, row)
  OBVIOUS
<1>4. n = IF step = "look" THEN NextItem(s) ELSE s
  <2>1. s.step = step
    BY <1>1 DEF Import
  <2> QED
    BY <1>3, <2>1 DEF WithRow
<1>5. import' = [import EXCEPT ![w] = n] /\ UNCHANGED res
  BY <1>3 DEF WriteRow
<1> HIDE DEF step
<1>6. s \in Import
  <2>1. /\ [m.pending EXCEPT ![i] = row] \in [Ids -> Row \cup {None}]
        /\ [m.made EXCEPT ![row.key] = i] \in [Keys -> Ids \cup {None}]
    BY <1>1 DEF Import
  <2> QED
    BY <1>1, <1>2, <2>1 DEF Import
<1>7. /\ s.pending = [m.pending EXCEPT ![i] = row] /\ s.made = [m.made EXCEPT ![row.key] = i]
      /\ s.step = step /\ s.at = m.at /\ s.config = m.config /\ s.had = m.had
      /\ s.disturbed = m.disturbed /\ s.found = m.found
  BY <1>1 DEF Import
<1> HIDE DEF s
<1>8. n.disturbed = m.disturbed
  BY <1>4, <1>6, <1>7 DEF NextItem, Import
<1>9. ASSUME SessionOK(m) PROVE SessionOK(n)
  <2>1. CASE step = "look"
    <3>1. s.at + 1 \in Nat
      BY <1>1, <1>7
    <3>2. /\ n \in Import /\ n.pending = s.pending /\ n.made = s.made /\ n.at = m.at + 1
          /\ n.step = "look" /\ n.config = m.config /\ n.had = m.had
      BY <1>4, <1>6, <1>7, <2>1, <3>1 DEF NextItem, Import
    <3>3. Resolved(m, Current(m).uses \cup Current(m).artifacts) \subseteq row.uses
      BY <2>1 DEF step
    <3>4. /\ n.pending = [m.pending EXCEPT ![i] = row]
          /\ n.made = [m.made EXCEPT ![row.key] = i]
          /\ \/ n.at = m.at /\ n.step # "write" /\ StepOK(n)
             \/ /\ n.at = m.at + 1 /\ n.step = "look"
                /\ Resolved(m, Current(m).uses \cup Current(m).artifacts) \subseteq row.uses
      BY <1>7, <3>2, <3>3
    <3> HIDE DEF step
    <3> QED
      BY <1>1, <1>9, <3>2, <3>4, RowPlaced
  <2>2. CASE step # "look"
    <3>1. n = s
      BY <1>4, <2>2
    <3>2. s.step # "write" /\ Current(s) = Current(m)
      BY <1>2, <1>7 DEF Current
    <3>3. s.made[row.key] = i
      BY <1>1, <1>7 DEF Import
    <3>4. StepOK(s)
      BY <1>2, <1>7, <2>2, <3>2, <3>3 DEF StepOK
    <3>5. /\ n.pending = [m.pending EXCEPT ![i] = row]
          /\ n.made = [m.made EXCEPT ![row.key] = i]
          /\ \/ n.at = m.at /\ n.step # "write" /\ StepOK(n)
             \/ /\ n.at = m.at + 1 /\ n.step = "look"
                /\ Resolved(m, Current(m).uses \cup Current(m).artifacts) \subseteq row.uses
      BY <1>7, <3>1, <3>2, <3>4
    <3>6. n \in Import /\ n.config = m.config /\ n.had = m.had
      BY <1>6, <1>7, <3>1
    <3> QED
      BY <1>1, <1>9, <3>5, <3>6, RowPlaced
  <2> QED
    BY <2>1, <2>2
<1>10. n # None /\ ~n.disturbed => SessionOK(n)
  BY <1>1, <1>8, <1>9 DEF SessionInv
<1> QED
  BY <1>5, <1>10, SessionWritten

LEMMA CreateSession ==
  ASSUME ImportInv, SessionInv, NEW w \in Workers, Create(w)
  PROVE  SessionInv'
PROOF
<1>1. PICK m : m = import[w]
  OBVIOUS
<1> DEFINE item == Current(m)
           uses == IF item.key.kind = "entrypoint"
                   THEN Resolved(m, item.uses \cup item.artifacts) ELSE {}
           row == [key |-> item.key, uses |-> uses, whole |-> item.key.kind # "plugin"]
<1>2. /\ m \in Import /\ item.key \in Keys /\ Declared(m) /\ Serving(w, "write")
      /\ item.uses \in SUBSET Keys /\ item.artifacts \in SUBSET Keys
      /\ m.found = None /\ m.at \in Nat \ {0} /\ Underway(m)
      /\ item.key.kind \in {"type", "plugin", "entrypoint"}
  BY <1>1, ServingOK, KeysAssumption DEF Create
<1>3. PICK i \in Ids : IsNewId(i) /\ WriteRow(w, i, row)
  BY <1>1 DEF Create
<1>4. uses \in SUBSET Ids
  BY <1>2, ResolvedOK DEF Declared
<1>5. row \in Row /\ row.key = item.key /\ row.uses = uses
  BY <1>2, <1>4 DEF Row
<1>6. res[i] = None /\ m.pending[i] = None
  BY <1>1, <1>2, <1>3, RecordAssumption DEF IsNewId, FreeIds
<1>7. StepAfter(m, item.key.kind) = "look" =>
        Resolved(m, item.uses \cup item.artifacts) \subseteq row.uses
  <2>1. CASE item.key.kind = "entrypoint"
    BY <1>5, <2>1
  <2>2. CASE item.key.kind = "type"
    <3>1. item = m.config[m.at] /\ m.at \in 1..m.at
      BY <1>2 DEF Current
    <3>2. item.uses \cup item.artifacts = {}
      BY <1>2, <2>2, <3>1, ItemOrder
    <3> QED
      BY <3>2 DEF Resolved
  <2>3. CASE item.key.kind = "plugin"
    BY <2>3 DEF StepAfter
  <2> QED
    BY <1>2, <2>1, <2>2, <2>3
<1> HIDE DEF row
<1> QED
  BY <1>1, <1>2, <1>3, <1>5, <1>6, <1>7, PlacedSession

LEMMA ModifySession ==
  ASSUME ImportInv, SessionInv, NEW w \in Workers, Modify(w)
  PROVE  SessionInv'
PROOF
<1>1. PICK m : m = import[w]
  OBVIOUS
<1> DEFINE item == Current(m)
           row == [RowOf(m, m.found) EXCEPT !.whole = item.key.kind # "plugin"]
<1>2. /\ m \in Import /\ ImportOK(m, res) /\ Underway(m) /\ Declared(m)
      /\ m.at \in Nat \ {0} /\ Serving(w, "write") /\ m.found # None
      /\ item.key.kind \in {"type", "plugin", "entrypoint"}
  BY <1>1, ServingOK, KeysAssumption DEF Modify
<1>3. Seen(m, m.found) /\ WriteRow(w, m.found, row)
  BY <1>1 DEF Modify
<1>4. /\ m.found \in Ids /\ (res[m.found] # None \/ m.pending[m.found] # None)
      /\ KeyOf(m, res, m.found) = item.key
  BY <1>2 DEF ImportOK, Import
<1>5. RowOf(m, m.found) \in Row /\ RowOf(m, m.found).key = item.key
  BY <1>2, <1>4 DEF RowOf, KeyOf, Import, ImportInv, TypeOK, Resource
<1>6. row \in Row /\ row.key = item.key
  BY <1>5 DEF Row
<1>7. StepAfter(m, item.key.kind) = "look" =>
        Resolved(m, item.uses \cup item.artifacts) \subseteq row.uses
  <2>1. CASE item.key.kind = "entrypoint"
    BY <1>2, <2>1 DEF StepAfter
  <2>2. CASE item.key.kind = "type"
    <3>1. item = m.config[m.at] /\ m.at \in 1..m.at
      BY <1>2 DEF Current
    <3>2. item.uses \cup item.artifacts = {}
      BY <1>2, <2>2, <3>1, ItemOrder
    <3> QED
      BY <3>2 DEF Resolved
  <2>3. CASE item.key.kind = "plugin"
    BY <2>3 DEF StepAfter
  <2> QED
    BY <1>2, <2>1, <2>2, <2>3
<1> HIDE DEF row
<1> QED
  BY <1>1, <1>2, <1>3, <1>4, <1>5, <1>6, <1>7, PlacedSession

LEMMA RegisterFilesSession ==
  ASSUME ImportInv, SessionInv, NEW w \in Workers, RegisterFiles(w)
  PROVE  SessionInv'
PROOF
<1>1. PICK m : m = import[w]
  OBVIOUS
<1>2. PICK i : i = m.made[Current(m).key]
  OBVIOUS
<1> DEFINE used == Resolved(m, Current(m).uses)
           row == [m.pending[i] EXCEPT !.whole = TRUE, !.uses = @ \cup used]
           s == [m EXCEPT !.pending[i] = row]
<1>3. /\ m \in Import /\ m # None /\ ImportOK(m, res) /\ Underway(m) /\ m.step = "files"
      /\ m.at \in Nat \ {0} /\ Declared(m) /\ Current(m).uses \in SUBSET Keys
      /\ Current(m).key \in Keys /\ UNCHANGED res
  <2>1. Serving(w, "files") /\ UNCHANGED res
    BY DEF RegisterFiles
  <2> QED
    BY <1>1, <2>1, ServingOK DEF ImportOK
<1>4. i \in Ids /\ m.pending[i] # None /\ m.pending \in [Ids -> Row \cup {None}]
  BY <1>2, <1>3 DEF ImportOK, Import
<1>5. used \in SUBSET Ids
  BY <1>3, ResolvedOK DEF Declared
<1>6. import' = [import EXCEPT ![w] =
         NextItem([m EXCEPT !.pending[i].whole = TRUE,
                            !.pending[i].uses = @ \cup Resolved(m, Current(m).uses)])]
  BY <1>1, <1>2 DEF RegisterFiles
<1> HIDE DEF used
<1>7. m.pending[i] \in Row /\ row \in Row /\ used \subseteq row.uses
      /\ row.key = m.pending[i].key
  BY <1>4, <1>5 DEF Row
<1>8. [m EXCEPT !.pending[i].whole = TRUE, !.pending[i].uses = @ \cup used] = s
  BY <1>3, <1>4, <1>7 DEF Import, Row
<1>9. PICK n : n = NextItem(s)
  OBVIOUS
<1>10. import' = [import EXCEPT ![w] = n]
  BY <1>6, <1>8, <1>9 DEF used
<1> HIDE DEF row
<1>11. /\ s \in Import /\ s.pending = [m.pending EXCEPT ![i] = row] /\ s.at = m.at
       /\ s.made = m.made /\ s.config = m.config /\ s.had = m.had
       /\ s.disturbed = m.disturbed
  <2>1. [m.pending EXCEPT ![i] = row] \in [Ids -> Row \cup {None}]
    BY <1>4, <1>7
  <2> QED
    BY <1>3, <2>1 DEF Import
<1> HIDE DEF s
<1>12. s.at + 1 \in Nat
  BY <1>3, <1>11
<1>13. /\ n \in Import /\ n.pending = [m.pending EXCEPT ![i] = row] /\ n.made = m.made
       /\ n.at = m.at + 1 /\ n.step = "look" /\ n.config = m.config /\ n.had = m.had
       /\ n.disturbed = m.disturbed
  BY <1>9, <1>11, <1>12 DEF NextItem, Import
<1>14. ASSUME SessionOK(m) PROVE SessionOK(n)
  <2>1. Current(m).key.kind = "plugin"
    BY <1>3, <1>14 DEF SessionOK, StepOK
  <2>2. Current(m) = m.config[m.at] /\ m.at \in 1..m.at
    BY <1>3 DEF Current
  <2>3. Current(m).artifacts = {}
    BY <1>3, <2>1, <2>2, ItemOrder
  <2>4. Resolved(m, Current(m).uses \cup Current(m).artifacts) \subseteq row.uses
    BY <1>7, <2>3 DEF used
  <2>5. RowOf(m, i) = m.pending[i] /\ RowOf(m, i).key = Current(m).key
    BY <1>2, <1>3, <1>4, <1>14, RecordAssumption DEF RowOf, SessionOK, MadeOK
  <2>6. \/ n.at = m.at /\ StepOK(n)
        \/ /\ n.at = m.at + 1 /\ n.step = "look"
           /\ Resolved(m, Current(m).uses \cup Current(m).artifacts) \subseteq row.uses
    BY <1>13, <2>4
  <2>7. m.made[Current(m).key] = i /\ row.key = Current(m).key /\ m.step # "write"
    BY <1>2, <1>3, <1>7, <2>5
  <2> QED
    BY <1>3, <1>4, <1>7, <1>13, <1>14, <2>6, <2>7, RowGrows
<1>15. n # None /\ ~n.disturbed => SessionOK(n)
  BY <1>1, <1>3, <1>13, <1>14 DEF SessionInv
<1> QED
  BY <1>3, <1>10, <1>15, SessionWritten

\* What both services that append plugins leave of the session: s is the import
\* before its rows are committed, n what it is after.
LEMMA AppendSession ==
  ASSUME ImportInv, NEW w \in Workers, NEW m, m = import[w],
         NEW step \in {"append", "append_artifacts"}, Serving(w, step),
         SessionOK(m), NEW keys \in SUBSET Keys, keys \subseteq
           Current(m).uses \cup Current(m).artifacts, AppendTo(m, keys),
         NEW n \in Import, n.pending = NothingPending, n.made = m.made,
         n.config = m.config, n.had = m.had,
         \/ /\ step = "append" /\ keys = Current(m).uses
            /\ n.at = m.at /\ n.step = "append_artifacts" /\ n.found = m.found
         \/ /\ step = "append_artifacts" /\ keys = Current(m).artifacts
            /\ n.at = m.at + 1 /\ n.step = "look"
  PROVE  SessionOK(n)'
PROOF
<1>1. PICK f : f = m.found
  OBVIOUS
<1> DEFINE row == [RowOf(m, f) EXCEPT !.uses = @ \cup Resolved(m, keys)]
<1>2. /\ m \in Import /\ m # None /\ ImportOK(m, res) /\ Underway(m) /\ m.step = step
      /\ m.at \in Nat \ {0} /\ Declared(m) /\ Current(m).key \in Keys
  BY ServingOK DEF ImportOK
<1>3. /\ f \in Ids /\ f # None /\ (res[f] # None \/ m.pending[f] # None)
      /\ KeyOf(m, res, f) = Current(m).key
  BY <1>1, <1>2 DEF ImportOK, Import
<1>4. RowOf(m, f) \in Row /\ RowOf(m, f).key = Current(m).key
  BY <1>2, <1>3 DEF RowOf, KeyOf, ImportInv, TypeOK, Resource, Import
<1>5. Resolved(m, keys) \in SUBSET Ids
  BY <1>2, ResolvedOK DEF Declared
<1>6. row \in Row /\ row.key = Current(m).key
      /\ row.uses = RowOf(m, f).uses \cup Resolved(m, keys)
  BY <1>4, <1>5 DEF Row
<1>7. m.made[Current(m).key] = f /\ Current(m).key.kind = "entrypoint"
      /\ (step = "append_artifacts" =>
            Resolved(m, Current(m).uses) \subseteq RowOf(m, f).uses)
  BY <1>1, <1>2 DEF SessionOK, StepOK
<1>8. /\ Appended(m, keys) = [m EXCEPT !.pending = [m.pending EXCEPT ![f] = row]]
      /\ res' = Committed(Appended(m, keys))
  BY <1>1, <1>2 DEF Appended, AppendTo, Import
<1> HIDE DEF row
<1>9. PICK s : s = [n EXCEPT !.pending = [m.pending EXCEPT ![f] = row]]
  OBVIOUS
<1>10. [m.pending EXCEPT ![f] = row] \in [Ids -> Row \cup {None}]
  BY <1>2, <1>6 DEF Import
<1>11. /\ s \in Import /\ s.pending = [m.pending EXCEPT ![f] = row] /\ s.made = n.made
       /\ s.config = n.config /\ s.had = n.had /\ s.at = n.at /\ s.step = n.step
       /\ s.found = n.found
  BY <1>9, <1>10 DEF Import
<1>12. res' = Committed(s)
  <2>1. Appended(m, keys).pending = s.pending
    BY <1>2, <1>8, <1>11 DEF Import
  <2> QED
    BY <1>8, <2>1 DEF Committed
<1>13. \/ s.at = m.at /\ StepOK(s)
       \/ /\ s.at = m.at + 1 /\ s.step = "look"
          /\ Resolved(m, Current(m).uses \cup Current(m).artifacts) \subseteq row.uses
  <2>1. CASE step = "append"
    <3>1. s.at = m.at /\ s.step = "append_artifacts" /\ s.found = f /\ Current(s) = Current(m)
          /\ s.made = m.made
      BY <1>1, <1>11, <2>1 DEF Current
    <3>2. RowOf(s, f) = row
      BY <1>2, <1>3, <1>6, <1>11, OneRowWritten
    <3>3. Resolved(s, Current(m).uses) \subseteq row.uses
      BY <1>6, <2>1, <3>1 DEF Resolved
    <3> QED
      BY <1>7, <3>1, <3>2, <3>3 DEF StepOK
  <2>2. CASE step = "append_artifacts"
    <3>1. Resolved(m, Current(m).uses \cup Current(m).artifacts)
            = Resolved(m, Current(m).uses) \cup Resolved(m, keys)
      BY <2>2 DEF Resolved
    <3> QED
      BY <1>6, <1>7, <1>11, <2>2, <3>1
  <2> QED
    BY <2>1, <2>2
<1>14. m.step # "write" /\ s.made = m.made /\ s.config = m.config /\ s.had = m.had
  BY <1>2, <1>11
<1>15. SessionOK(s) /\ \A k \in s.had : Named(s, k) # {}
  BY <1>2, <1>3, <1>6, <1>7, <1>11, <1>13, <1>14, RowGrows
<1>16. /\ s.at \in Nat \ {0} /\ s.step # "write"
       /\ s.step = "append_artifacts" => s.found # None
  BY <1>1, <1>2, <1>3, <1>11
<1> QED
  BY <1>11, <1>12, <1>15, <1>16, CommitKeepsSession

LEMMA AppendPluginsSession ==
  ASSUME ImportInv, SessionInv, NEW w \in Workers, AppendPlugins(w)
  PROVE  SessionInv'
PROOF
<1>1. PICK m : m = import[w]
  OBVIOUS
<1>2. PICK n : n = [m EXCEPT !.pending = NothingPending, !.step = "append_artifacts"]
  OBVIOUS
<1>3. /\ m \in Import /\ m # None /\ Serving(w, "append") /\ Current(m).uses \in SUBSET Keys
      /\ AppendTo(m, Current(m).uses) /\ GoOn(w, n)
  <2>1. Serving(w, "append")
    BY DEF AppendPlugins
  <2> QED
    BY <1>1, <1>2, <2>1, ServingOK DEF AppendPlugins
<1>4. NothingPending \in [Ids -> Row \cup {None}]
  BY DEF NothingPending
<1>5. /\ n \in Import /\ n.pending = NothingPending /\ n.made = m.made
      /\ n.config = m.config /\ n.had = m.had /\ n.disturbed = m.disturbed
      /\ n.at = m.at /\ n.step = "append_artifacts" /\ n.found = m.found
  BY <1>2, <1>3, <1>4 DEF Import
<1>6. n # None /\ ~n.disturbed => SessionOK(n)'
  <2>1. ~n.disturbed => SessionOK(m)
    BY <1>1, <1>3, <1>5 DEF SessionInv
  <2> QED
    BY <1>1, <1>3, <1>5, <2>1, AppendSession
<1> QED
  BY <1>1, <1>3, <1>6, SessionCommitted

LEMMA AppendArtifactPluginsSession ==
  ASSUME ImportInv, SessionInv, NEW w \in Workers, AppendArtifactPlugins(w)
  PROVE  SessionInv'
PROOF
<1>1. PICK m : m = import[w]
  OBVIOUS
<1> DEFINE s == [m EXCEPT !.pending = NothingPending]
<1>2. PICK n : n = NextItem(s)
  OBVIOUS
<1>3. /\ m \in Import /\ m # None /\ Serving(w, "append_artifacts") /\ m.at \in Nat \ {0}
      /\ Current(m).artifacts \in SUBSET Keys
      /\ AppendTo(m, Current(m).artifacts) /\ GoOn(w, n)
  <2>1. Serving(w, "append_artifacts")
    BY DEF AppendArtifactPlugins
  <2> QED
    BY <1>1, <1>2, <2>1, ServingOK DEF AppendArtifactPlugins
<1>4. NothingPending \in [Ids -> Row \cup {None}]
  BY DEF NothingPending
<1>5. /\ s \in Import /\ s.pending = NothingPending /\ s.made = m.made
      /\ s.config = m.config /\ s.had = m.had /\ s.disturbed = m.disturbed
      /\ s.at = m.at
  BY <1>3, <1>4 DEF Import
<1> HIDE DEF s
<1>6. s.at + 1 \in Nat
  BY <1>3, <1>5
<1>7. /\ n \in Import /\ n.pending = NothingPending /\ n.made = m.made
      /\ n.config = m.config /\ n.had = m.had /\ n.disturbed = m.disturbed
      /\ n.at = m.at + 1 /\ n.step = "look"
  BY <1>2, <1>5, <1>6 DEF NextItem, Import
<1>8. n # None /\ ~n.disturbed => SessionOK(n)'
  <2>1. ~n.disturbed => SessionOK(m)
    BY <1>1, <1>3, <1>7 DEF SessionInv
  <2> QED
    BY <1>1, <1>3, <1>7, <2>1, AppendSession
<1> QED
  BY <1>1, <1>3, <1>8, SessionCommitted

\* A deletion commits what is pending, so that nothing but what it deletes is
\* lost: what an earlier deletion took from the database is replaced by now.
LEMMA DeleteSession ==
  ASSUME ImportInv, SessionInv, NEW w \in Workers, Delete(w)
  PROVE  SessionInv'
PROOF
<1>1. PICK m : m = import[w]
  OBVIOUS
<1>2. PICK n : n = [m EXCEPT !.pending = NothingPending, !.found = None, !.step = "write"]
  OBVIOUS
<1>3. PICK f : f = m.found
  OBVIOUS
<1> DEFINE all == Committed(m)
           key == Current(m).key
<1>4. /\ m \in Import /\ m # None /\ ImportOK(m, res) /\ Underway(m)
      /\ m.step = "delete" /\ key \in Keys
      /\ res' = [all EXCEPT ![f].deleted = TRUE] /\ GoOn(w, n)
  <2>1. Serving(w, "delete")
    BY DEF Delete
  <2> QED
    BY <1>1, <1>2, <1>3, <2>1, ServingOK DEF Delete
<1>5. f \in Ids /\ (res[f] # None \/ m.pending[f] # None) /\ KeyOf(m, res, f) = key
  BY <1>3, <1>4 DEF ImportOK, Import
<1>6. NothingPending \in [Ids -> Row \cup {None}]
  BY DEF NothingPending
<1>7. /\ n \in Import /\ n.pending = NothingPending /\ n.made = m.made
      /\ n.config = m.config /\ n.had = m.had /\ n.disturbed = m.disturbed
      /\ n.at = m.at /\ n.step = "write" /\ n.found = None
  BY <1>2, <1>4, <1>6 DEF Import
<1>8. JustDeleted(n, key) /\ \A i \in Ids : n.pending[i] = None
  BY <1>4, <1>7 DEF JustDeleted, Underway, Current, NothingPending
<1>9. ASSUME NEW i \in Ids, m.pending[i] # None \/ res[i] # None
      PROVE  /\ res'[i] # None /\ res'[i].row = RowOf(m, i)
             /\ Seen(m, i) /\ i # f => ~res'[i].deleted
  <2> DEFINE d == res[i] # None /\ res[i].deleted
             r == [row |-> m.pending[i], deleted |-> d]
  <2>1. all[i] = IF m.pending[i] = None THEN res[i] ELSE r
    BY DEF Committed
  <2>2. d \in BOOLEAN /\ (m.pending[i] # None => m.pending[i] \in Row)
        /\ (res[i] # None => res[i] \in Resource)
    BY <1>4 DEF ImportInv, TypeOK, Resource, Import
  <2>3. Seen(m, i) => ~d
    BY DEF Seen
  <2> HIDE DEF d
  <2>4. m.pending[i] # None => r \in Resource /\ r.row = m.pending[i] /\ r.deleted = d
    BY <2>2 DEF Resource
  <2> HIDE DEF r
  <2>5. all[i] \in Resource /\ all[i].row = RowOf(m, i) /\ (Seen(m, i) => ~all[i].deleted)
    BY <1>9, <2>1, <2>2, <2>3, <2>4 DEF RowOf, Seen
  <2>6. all = [j \in Ids |-> all[j]]
    BY DEF Committed
  <2> HIDE DEF all
  <2>7. res'[i] = IF i = f THEN [all[i] EXCEPT !.deleted = TRUE] ELSE all[i]
    BY <1>4, <2>6
  <2>8. [all[i] EXCEPT !.deleted = TRUE] \in Resource
        /\ [all[i] EXCEPT !.deleted = TRUE].row = all[i].row
    BY <2>5 DEF Resource
  <2>9. res'[i] \in Resource
    BY <2>5, <2>7, <2>8
  <2> QED
    BY <2>5, <2>7, <2>8, <2>9, RecordAssumption
<1>10. ASSUME NEW i \in Ids, m.pending[i] # None \/ res[i] # None
       PROVE  /\ res'[i] # None /\ res'[i].row = RowOf(m, i) /\ RowOf(n, i)' = RowOf(m, i)
              /\ Seen(m, i) /\ RowOf(m, i).key # key =>
                   Seen(n, i)' /\ Live(i)'
  <2>1. RowOf(m, f).key = key
    BY <1>5 DEF KeyOf, RowOf
  <2> QED
    BY <1>8, <1>9, <1>10, <2>1 DEF RowOf, Seen, Live
<1>11. ASSUME SessionOK(m) PROVE SessionOK(n)'
  <2>1. \A k \in Keys : m.made[k] # None =>
          /\ m.made[k] \in Ids
          /\ m.pending[m.made[k]] # None \/ res[m.made[k]] # None
          /\ RowOf(m, m.made[k]).key = k /\ Seen(m, m.made[k])
    BY <1>4, <1>11 DEF SessionOK, MadeOK, JustDeleted, Import
  <2>2. JustDeleted(n, key)'
    BY <1>8 DEF JustDeleted, Underway, Current
  <2>3. ASSUME NEW k \in Keys, n.made[k] # None
        PROVE  /\ res'[n.made[k]] # None
               /\ RowOf(n, n.made[k])'.key = k
               /\ Seen(n, n.made[k])' \/ k = key
    BY <1>7, <1>10, <2>1, <2>3
  <2>4. MadeOK(n)'
    BY <2>2, <2>3 DEF MadeOK
  <2>5. ASSUME NEW k \in m.had, k # key
        PROVE  \E i \in Ids : /\ Seen(n, i)' /\ RowOf(n, i)'.key = k
                              /\ Live(i)' /\ res'[i].row.key = k
    <3>1. PICK i \in Ids : Seen(m, i) /\ RowOf(m, i).key = k
      BY <1>4, <1>11 DEF SessionOK, HadOK, Named, JustDeleted
    <3>2. m.pending[i] # None \/ res[i] # None
      BY <3>1 DEF Seen
    <3> QED
      BY <1>10, <2>5, <3>1, <3>2
  <2>6. HadOK(n)'
    BY <1>7, <2>2, <2>5 DEF HadOK, Named
  <2>7. LossOK(n)'
    <3>1. \A k \in n.had \ {key} : LiveKey(k)'
      BY <1>7, <2>5 DEF LiveKey
    <3> QED
      BY <1>4, <3>1 DEF LossOK
  <2>8. ASSUME NEW item \in Item, Done(m, item)
        PROVE  Done(n, item)'
    <3>1. m.made[item.key] # None /\ item.key \in Keys
      BY <2>8 DEF Done, Item
    <3>2. RowOf(n, n.made[item.key])' = RowOf(m, m.made[item.key])
      BY <1>7, <1>10, <2>1, <3>1
    <3>3. Resolved(n, item.uses \cup item.artifacts) = Resolved(m, item.uses \cup item.artifacts)
      BY <1>7 DEF Resolved
    <3> QED
      BY <1>7, <2>8, <3>2, <3>3 DEF Done, Resolved
  <2>9. DoneOK(n)'
    <3>1. \A p \in 1..Len(m.config) : m.config[p] \in Item
      BY <1>4, ConfigsAssumption DEF Import
    <3>2. \A p \in 1..Len(n.config) :
            p < n.at /\ Lasting(n.config, p) => Done(n, n.config[p])'
      BY <1>7, <1>11, <2>8, <3>1 DEF SessionOK, DoneOK
    <3> QED
      BY <3>2 DEF DoneOK
  <2>10. StepOK(n)'
    BY <1>7 DEF StepOK
  <2> QED
    BY <2>4, <2>6, <2>7, <2>9, <2>10 DEF SessionOK
<1>12. n # None /\ ~n.disturbed => SessionOK(n)'
  BY <1>1, <1>4, <1>7, <1>11 DEF SessionInv
<1> QED
  BY <1>1, <1>4, <1>12, SessionCommitted

LEMMA FinishSession ==
  ASSUME ImportInv, SessionInv, NEW w \in Workers, Finish(w)
  PROVE  SessionInv'
BY SessionCommitted DEF Finish

LEMMA OtherSession ==
  ASSUME ImportInv, Other
  PROVE  SessionInv'
PROOF
<1> SUFFICES ASSUME NEW w \in Workers, import'[w] # None, ~import'[w].disturbed
             PROVE  FALSE
  BY DEF SessionInv
<1>1. import'[w] = [import[w] EXCEPT !.disturbed = TRUE] /\ import[w] \in Import
  BY DEF Other, ImportInv, TypeOK
<1> QED
  BY <1>1 DEF Import

LEMMA SessionNext ==
  ASSUME ImportInv, SessionInv, [Next]_vars
  PROVE  SessionInv'
PROOF
<1>1. CASE UNCHANGED vars
  <2>1. res' = res /\ import' = import
    BY <1>1 DEF vars
  <2> SUFFICES ASSUME NEW w \in Workers, NEW m, m = import[w], m # None, ~m.disturbed
               PROVE  SessionOK(m)'
    BY <2>1 DEF SessionInv
  <2> QED
    BY <2>1, SameRows DEF SessionInv
<1>2. ASSUME NEW w \in Workers,
             \/ \E strategy \in Strategies, config \in Configs : Begin(w, strategy, config)
             \/ Fail(w) \/ Look(w) \/ Delete(w) \/ Create(w) \/ Modify(w)
             \/ RegisterFiles(w) \/ AppendPlugins(w) \/ AppendArtifactPlugins(w)
             \/ Finish(w)
      PROVE  SessionInv'
  BY <1>2, BeginSession, FailSession, LookSession, DeleteSession, CreateSession,
     ModifySession, RegisterFilesSession, AppendPluginsSession,
     AppendArtifactPluginsSession, FinishSession
<1>3. ASSUME NEW i \in Ids, OtherDeletes(i) \/ \E k \in Keys : OtherCreates(i, k)
      PROVE  SessionInv'
  BY <1>3, OtherSession DEF OtherDeletes, OtherCreates
<1> QED
  BY <1>1, <1>2, <1>3 DEF Next

\* In every reachable state, and for every import that nobody has disturbed.
THEOREM SessionsCorrect == Spec => [](ImportInv /\ SessionInv)
PROOF
<1>1. Init => SessionInv
  BY DEF Init, SessionInv
<1>2. ImportInv /\ SessionInv /\ [Next]_vars => SessionInv'
  BY SessionNext
<1> QED
  BY <1>1, <1>2, ImportCorrect, PTL DEF Spec

\* An import ends by failing or by being committed.
LEMMA OnlyItsWorkerEnds ==
  ASSUME ImportInv, [Next]_vars, NEW w \in Workers, import[w] # None, import'[w] = None
  PROVE  Fail(w) \/ Finish(w)
PROOF
<1>1. import[w] \in Import /\ ~Kept(w) /\ import \in [Workers -> Import \cup {None}]
  BY OnlyItsWorkerAdvances DEF Advances, ImportInv, TypeOK
<1>2. \A i \in Ids : ~OtherDeletes(i) /\ \A k \in Keys : ~OtherCreates(i, k)
  BY <1>1 DEF OtherDeletes, OtherCreates, Other, Kept
<1>3. PICK v \in Workers :
        \/ \E strategy \in Strategies, config \in Configs : Begin(v, strategy, config)
        \/ Fail(v) \/ Look(v) \/ Delete(v) \/ Create(v) \/ Modify(v)
        \/ RegisterFiles(v) \/ AppendPlugins(v) \/ AppendArtifactPlugins(v)
        \/ Finish(v)
  <2>1. ~UNCHANGED vars
    BY DEF vars
  <2> QED
    BY <1>2, <2>1 DEF Next
<1>4. CASE v = w
  <2>1. \A strategy, config : ~Begin(w, strategy, config)
    BY DEF Begin
  <2>2. import'[w] \notin Import
    BY RecordAssumption
  <2> QED
    BY <1>3, <1>4, <2>1, <2>2, LookKeeps, DeleteKeeps, CreateKeeps, ModifyKeeps,
       RegisterFilesKeeps, AppendPluginsKeeps, AppendArtifactPluginsKeeps
<1>5. CASE v # w
  <2>1. \A n : ~GoOn(v, n)
    BY <1>1, <1>5 DEF GoOn, Kept
  <2>2. \A n : import' # [import EXCEPT ![v] = n]
    BY <1>1, <1>5
  <2>3. ~Look(v)
    BY <1>1, <1>5 DEF Look
  <2>4. /\ ~Delete(v) /\ ~AppendPlugins(v) /\ ~AppendArtifactPlugins(v) /\ ~Finish(v)
    BY <2>1 DEF Delete, AppendPlugins, AppendArtifactPlugins, Finish
  <2>5. /\ ~Create(v) /\ ~Modify(v) /\ ~RegisterFiles(v) /\ ~Fail(v)
        /\ \A strategy, config : ~Begin(v, strategy, config)
    BY <2>2 DEF Create, Modify, WriteRow, RegisterFiles, Fail, Begin
  <2> QED
    BY <1>3, <2>3, <2>4, <2>5
<1> QED
  BY <1>4, <1>5

LEMMA LossesOfOneEnd ==
  ASSUME ImportInv, SessionInv, [Next]_vars, NEW w \in Workers, import[w] # None,
         import'[w] = None, ~import[w].disturbed
  PROVE  Cardinality(Lost(import[w])) <= 1
PROOF
<1>1. PICK m : m = import[w]
  OBVIOUS
<1>2. m \in Import /\ SessionOK(m) /\ ImportOK(m, res)
  BY <1>1 DEF ImportInv, TypeOK, SessionInv
<1>3. \E l : Lost(m) \subseteq {l}
  <2>1. CASE Fail(w)
    <3>1. PICK l : \A k \in m.had \ {l} : LiveKey(k)
      BY <1>2 DEF SessionOK, LossOK
    <3>2. res' = res
      BY <2>1 DEF Fail
    <3> QED
      BY <3>1, <3>2 DEF Lost, LiveKey, Live
  <2>2. CASE Finish(w)
    <3>1. /\ res' = Committed(m) /\ m.at > Len(m.config) /\ m.config \in Seq(Item)
          /\ m.at \in Nat
      BY <1>1, <1>2, <2>2, ConfigsAssumption DEF Finish, Import
    <3>2. \A k \in m.had : Named(m, k) # {}
      BY <1>2, <3>1 DEF SessionOK, HadOK, JustDeleted, Underway
    <3>3. PICK n : n = [m EXCEPT !.pending = NothingPending]
      OBVIOUS
    <3>4. NothingPending \in [Ids -> Row \cup {None}]
      BY DEF NothingPending
    <3>5. n \in Import /\ n.pending = NothingPending
      BY <1>2, <3>3, <3>4 DEF Import
    <3>6. ASSUME NEW k \in m.had
          PROVE  \E i \in Ids : res'[i] # None /\ res'[i].row.key = k /\ ~res'[i].deleted
      <4>1. PICK i \in Ids : Seen(m, i) /\ RowOf(m, i).key = k
        BY <3>2 DEF Named
      <4>2. /\ Live(i)' <=> Seen(m, i)
            /\ m.pending[i] # None \/ res[i] # None =>
                 res'[i] # None /\ res'[i].row = RowOf(m, i)
        BY <1>2, <3>1, <3>5, CommitSees
      <4> QED
        BY <4>1, <4>2 DEF Seen, Live
    <3> QED
      BY <3>6 DEF Lost
  <2> QED
    BY <1>1, <2>1, <2>2, OnlyItsWorkerEnds
<1>4. PICK l : Lost(m) \subseteq {l}
  BY <1>3
<1>5. Cardinality(Lost(m)) <= 1
  <2>1. IsFiniteSet({l}) /\ Cardinality({l}) = 1
    BY FS_Singleton
  <2> QED
    BY <1>4, <2>1, FS_Subset
<1> QED
  BY <1>1, <1>5

LEMMA DeliveryOfOneEnd ==
  ASSUME ImportInv, SessionInv, [Next]_vars, NEW w \in Workers, Completes(w),
         ~import[w].disturbed, NEW p \in 1..Len(import[w].config),
         Lasting(import[w].config, p)
  PROVE  Delivered(import[w], import[w].config[p])
PROOF
<1>1. PICK m : m = import[w]
  OBVIOUS
<1> DEFINE item == m.config[p]
<1>2. /\ m \in Import /\ m # None /\ SessionOK(m) /\ ImportOK(m, res)
      /\ m.at > Len(m.config) /\ m.config \in Seq(Item) /\ m.at \in Nat
  BY <1>1, ConfigsAssumption DEF Completes, ImportInv, TypeOK, SessionInv, Import
<1>3. Finish(w)
  BY <1>1, <1>2, OnlyItsWorkerEnds DEF Fail, Completes
<1>4. res' = Committed(m) /\ ~Underway(m)
  BY <1>1, <1>2, <1>3 DEF Finish, Underway
<1>5. p \in 1..Len(m.config) /\ p < m.at /\ item \in Item
  BY <1>1, <1>2
<1>6. Done(m, item)
  BY <1>1, <1>2, <1>5 DEF SessionOK, DoneOK
<1>7. item.key \in Keys /\ \A k \in item.uses \cup item.artifacts : k \in Keys
  BY <1>5 DEF Item
<1> HIDE DEF item
<1>8. ASSUME NEW k \in Keys, m.made[k] # None
      PROVE  /\ Live(m.made[k])' /\ res'[m.made[k]] # None
             /\ res'[m.made[k]].row = RowOf(m, m.made[k])
  <2>1. PICK n : n = [m EXCEPT !.pending = NothingPending]
    OBVIOUS
  <2>2. NothingPending \in [Ids -> Row \cup {None}]
    BY DEF NothingPending
  <2>3. n \in Import /\ n.pending = NothingPending
    BY <1>2, <2>1, <2>2 DEF Import
  <2>4. /\ m.made[k] \in Ids /\ Seen(m, m.made[k])
        /\ m.pending[m.made[k]] # None \/ res[m.made[k]] # None
    BY <1>2, <1>4, <1>8 DEF SessionOK, MadeOK, JustDeleted, Import
  <2> QED
    BY <1>2, <1>4, <2>3, <2>4, CommitSees
<1>9. \A j \in Resolved(m, item.uses \cup item.artifacts) : ~res'[j].deleted
  BY <1>6, <1>7, <1>8 DEF Resolved, Done, Live
<1>10. /\ res'[m.made[item.key]] # None /\ ~res'[m.made[item.key]].deleted
       /\ res'[m.made[item.key]].row = RowOf(m, m.made[item.key])
  BY <1>6, <1>7, <1>8 DEF Done, Live
<1>11. Delivered(m, item)
  BY <1>6, <1>9, <1>10 DEF Delivered, Done
<1> QED
  BY <1>1, <1>11 DEF item

\* An import that completes undisturbed has delivered the last item of every
\* name in its configuration, live and with what it uses: no deletion, commit or
\* rewrite on the way takes back what an earlier item has made.
THEOREM UndisturbedDeliver == Spec => ImportsDeliver
PROOF
<1>1. ImportInv /\ SessionInv /\ [Next]_vars =>
        [\A w \in Workers : Completes(w) /\ ~import[w].disturbed =>
           \A n \in 1..Len(import[w].config) : Lasting(import[w].config, n) =>
             Delivered(import[w], import[w].config[n])]_vars
  BY DeliveryOfOneEnd
<1> QED
  BY <1>1, SessionsCorrect, PTL DEF Spec, ImportsDeliver

\* Wherever an undisturbed import stops, at most one name of what it found is
\* gone from the database: a deletion commits the replacement of the one before.
THEOREM LosesAtMostOne == Spec => FailuresLoseAtMostOne
PROOF
<1>1. ImportInv /\ SessionInv /\ [Next]_vars =>
        [\A w \in Workers :
           import[w] # None /\ import'[w] = None /\ ~import[w].disturbed =>
             Cardinality(Lost(import[w])) <= 1]_vars
  BY LossesOfOneEnd
<1> QED
  BY <1>1, SessionsCorrect, PTL DEF Spec, FailuresLoseAtMostOne
=============================================================================
