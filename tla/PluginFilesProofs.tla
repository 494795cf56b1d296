------------------------- MODULE PluginFilesProofs --------------------------
(***************************************************************************)
(* Theorems about PluginFiles, for every value of its constants.           *)
(*                                                                         *)
(* The argument has two layers.  FilesInv holds however requests overlap:  *)
(* a list has a file at most once, stamps are not ahead of the clock, and  *)
(* no two requests build one new file.  Upon it, AloneInv speaks of the    *)
(* plugins whose requests never overlapped: what a request for one of them *)
(* read at its head is still so when it commits.                           *)
(***************************************************************************)
EXTENDS PluginFiles, TLAPS

AtMostOnce(S) == \A s, t \in S : s.file = t.file => s = t

PluginOK(p) == plugin[p] # None =>
  /\ AtMostOnce(plugin[p].latest.files)
  /\ plugin[p].latest.at <= clock

FileOK(f) == file[f] # None =>
  /\ file[f].latest.file = f
  /\ file[f].latest.at <= clock
  /\ plugin[file[f].plugin] # None

\* What a request for a file of the plugin holds.
FileKnown(q, f, rows) == f \in Files /\ rows[f] # None /\ rows[f].plugin = q.plugin

BuiltOK(q, now) ==
  /\ q.op \in {"create_file", "modify_file"}
  /\ q.file \in Files
  /\ q.built \in FileSnapshot
  /\ q.built.file = q.file /\ q.built.name = q.name /\ q.built.at <= now

\* A request q, with the plugins, the files and the clock as they are.
RequestOK(q, plugins, rows, now) ==
  /\ plugins[q.plugin] # None
  /\ AtMostOnce(q.seen.files)
  /\ q.op \in {"modify_file", "delete_file"} => FileKnown(q, q.file, rows)
  /\ q.op \in {"create_file", "modify_file"} => q.name \in Filenames
  /\ q.phase = "stamped" => q.op \in Rebuilding
  /\ q.phase = "built" => BuiltOK(q, now)
  /\ q.at <= now
  /\ q.op = "create_file" => IF q.phase = "built" THEN rows[q.file] = None
                             ELSE q.file = None
  /\ \A f \in q.doomed : FileKnown(q, f, rows)

Creates(w, f) ==
  request[w] # None /\ request[w].op = "create_file" /\ request[w].file = f

FilesInv ==
  /\ TypeOK
  /\ \A p \in Plugins : PluginOK(p)
  /\ \A f \in Files : FileOK(f)
  /\ \A w \in Workers : request[w] # None => RequestOK(request[w], plugin, file, clock)
  /\ \A v, w \in Workers : \A f \in Files : Creates(v, f) /\ Creates(w, f) => v = w

-----------------------------------------------------------------------------
(* Steps that leave the database alone                                     *)

\* The request of w becomes q, or is answered, and nothing is committed.
LEMMA RequestMoves ==
  ASSUME FilesInv, NEW w \in Workers, NEW q \in Request \cup {None},
         UNCHANGED <<plugin, file>>, clock' \in Nat, clock <= clock',
         request' = [request EXCEPT ![w] = q],
         received' \in Nat, overlapped' \in SUBSET Plugins,
         q # None => RequestOK(q, plugin', file', clock'),
         q # None /\ q.op = "create_file" /\ q.file # None =>
           \A v \in Workers \ {w} : ~Creates(v, q.file)
  PROVE  FilesInv'
PROOF
<1>1. request \in [Workers -> Request \cup {None}] /\ clock \in Nat
      /\ plugin \in [Plugins -> Plugin \cup {None}] /\ file \in [Files -> File \cup {None}]
  BY DEF FilesInv, TypeOK
<1>2. TypeOK'
  BY <1>1 DEF FilesInv, TypeOK
<1>3. \A p \in Plugins : PluginOK(p)'
  <2> SUFFICES ASSUME NEW p \in Plugins, plugin[p] # None
               PROVE  plugin[p].latest.at <= clock' /\ AtMostOnce(plugin[p].latest.files)
    BY DEF PluginOK
  <2>1. plugin[p].latest.at \in Nat
    BY <1>1 DEF Plugin, PluginSnapshot
  <2> QED
    BY <1>1, <2>1 DEF FilesInv, PluginOK
<1>4. \A f \in Files : FileOK(f)'
  <2> SUFFICES ASSUME NEW f \in Files, file[f] # None
               PROVE  FileOK(f)'
    BY DEF FileOK
  <2>1. file[f].latest.at \in Nat
    BY <1>1 DEF File, FileSnapshot
  <2> QED
    BY <1>1, <2>1 DEF FilesInv, FileOK
<1>5. \A v \in Workers \ {w} : request'[v] = request[v]
  BY <1>1
<1>6. ASSUME NEW r \in Request, RequestOK(r, plugin, file, clock) PROVE RequestOK(r, plugin', file', clock')
  <2>1. r.at \in Nat /\ (r.built \in FileSnapshot => r.built.at \in Nat)
    BY DEF Request, FileSnapshot
  <2> QED
    BY <1>1, <1>6, <2>1 DEF RequestOK, BuiltOK, FileKnown
<1>7. \A v \in Workers : request'[v] # None => RequestOK(request'[v], plugin', file', clock')
  BY <1>1, <1>5, <1>6 DEF FilesInv
<1>8. \A v \in Workers, f \in Files :
        Creates(v, f)' <=> IF v = w THEN q # None /\ q.op = "create_file" /\ q.file = f
                           ELSE Creates(v, f)
  BY <1>1 DEF Creates
<1>9. \A u, v \in Workers : \A f \in Files : Creates(u, f)' /\ Creates(v, f)' => u = v
  <2> SUFFICES ASSUME NEW u \in Workers, NEW v \in Workers, NEW f \in Files,
                      Creates(u, f)', Creates(v, f)'
               PROVE  u = v
    OBVIOUS
  <2>1. f # None
    BY NoneAssumption
  <2> QED
    BY <1>8, <2>1 DEF FilesInv
<1> QED
  BY <1>2, <1>3, <1>4, <1>7, <1>9 DEF FilesInv

LEMMA AnsweredKeeps ==
  ASSUME FilesInv, NEW w \in Workers, Answered(w),
         UNCHANGED <<plugin, file, clock, received, overlapped>>
  PROVE  FilesInv'
PROOF
<1>1. clock' \in Nat /\ clock <= clock' /\ received' \in Nat
      /\ overlapped' \in SUBSET Plugins
  BY DEF FilesInv, TypeOK
<1>2. UNCHANGED <<plugin, file>> /\ request' = [request EXCEPT ![w] = None]
  BY DEF Answered
<1> QED
  BY <1>1, <1>2, RequestMoves

LEMMA ReceiveKeeps ==
  ASSUME FilesInv, NEW w \in Workers, NEW q \in Request, Receive(w, q), RequestOK(q, plugin, file, clock),
         q.op = "create_file" => q.file = None
  PROVE  FilesInv'
PROOF
<1>1. clock' \in Nat /\ clock <= clock' /\ received' \in Nat
      /\ overlapped' \in SUBSET Plugins
  BY DEF Receive, FilesInv, TypeOK, Request
<1>2. RequestOK(q, plugin', file', clock')
  BY DEF Receive, RequestOK, BuiltOK, FileKnown
<1> QED
  BY <1>1, <1>2, RequestMoves DEF Receive

LEMMA OrderOK ==
  ASSUME FilesInv, NEW p \in LivePlugins, NEW f \in Files \cup {None},
         f # None => f \in LiveFiles(p), NEW n \in Filenames \cup {None},
         NEW op \in Rebuilding \cup {"delete", "delete_all"},
         NEW doomed \in SUBSET LiveFiles(p),
         op = "create_file" => f = None,
         op \in {"modify_file", "delete_file"} => f # None,
         op \in {"create_file", "modify_file"} => n # None
  PROVE  LET q == Order(op, p, f, n, doomed) IN
         q \in Request /\ RequestOK(q, plugin, file, clock) /\ (q.op = "create_file" => q.file = None)
PROOF
<1> DEFINE q == Order(op, p, f, n, doomed)
<1>1. plugin[p] \in Plugin /\ p \in Plugins /\ PluginOK(p) /\ clock \in Nat /\ plugin[p] # None
  BY RecordAssumption DEF LivePlugins, FilesInv, TypeOK
<1>2. f # None => f \in Files /\ file[f] # None /\ file[f] \in File /\ file[f].plugin = p
  BY DEF LiveFiles, FilesInv, TypeOK
<1>3. \A g \in doomed : g \in Files /\ file[g] # None /\ file[g].plugin = p
  BY DEF LiveFiles
<1>4. /\ q.op = op /\ q.plugin = p /\ q.file = f /\ q.name = n /\ q.doomed = doomed
      /\ q.seen = plugin[p].latest /\ q.phase = "fetched" /\ q.at = 0
  BY DEF Order
<1>5. plugin[p].latest \in PluginSnapshot
  BY <1>1 DEF Plugin
<1>6. q.was \in Filenames \cup {None}
  BY <1>2 DEF Order, File, FileSnapshot
<1>7. q \in Request
  BY <1>1, <1>2, <1>3, <1>5, <1>6 DEF Order, Request
<1>8. RequestOK(q, plugin, file, clock)
  BY <1>1, <1>2, <1>3, <1>4 DEF RequestOK, PluginOK, FileKnown, BuiltOK
<1> QED
  BY <1>4, <1>7, <1>8

LEMMA StampKeeps ==
  ASSUME FilesInv, NEW w \in Workers, Stamp(w)
  PROVE  FilesInv'
PROOF
<1> DEFINE q == [request[w] EXCEPT !.phase = "stamped", !.at = clock + 1]
<1>1. request[w] \in Request /\ RequestOK(request[w], plugin, file, clock) /\ clock \in Nat
      /\ request[w].phase = "fetched" /\ request[w].op \in Rebuilding
      /\ received' \in Nat /\ overlapped' \in SUBSET Plugins
  BY RecordAssumption DEF Stamp, Serving, FilesInv, TypeOK
<1>2. CASE Answered(w) /\ UNCHANGED clock
  BY <1>2, AnsweredKeeps DEF Stamp
<1>3. CASE clock' = clock + 1 /\ request' = [request EXCEPT ![w] = q]
  <2>1. q \in Request /\ q # None
    <3>1. clock + 1 \in Nat
      BY <1>1
    <3>2. q \in Request
      BY <1>1, <3>1 DEF Request
    <3> QED
      BY <3>2, RecordAssumption
  <2>2. /\ q.op = request[w].op /\ q.plugin = request[w].plugin /\ q.file = request[w].file
        /\ q.name = request[w].name /\ q.seen = request[w].seen
        /\ q.doomed = request[w].doomed /\ q.phase = "stamped" /\ q.at = clock + 1
    BY <1>1 DEF Request
  <2>3. RequestOK(q, plugin', file', clock')
    BY <1>1, <1>3, <2>2 DEF RequestOK, FileKnown, Stamp
  <2>4. q.op = "create_file" => q.file = None
    BY <1>1, <2>2 DEF RequestOK
  <2> QED
    <3>1. UNCHANGED <<plugin, file>> /\ clock' \in Nat /\ clock <= clock'
      BY <1>1, <1>3 DEF Stamp
    <3> HIDE DEF q
    <3> QED
      BY <1>1, <1>3, <2>1, <2>3, <2>4, <3>1, RequestMoves
<1> QED
  BY <1>2, <1>3 DEF Stamp

LEMMA BuildFileKeeps ==
  ASSUME FilesInv, NEW w \in Workers, BuildFile(w)
  PROVE  FilesInv'
PROOF
<1>1. request[w] \in Request /\ RequestOK(request[w], plugin, file, clock) /\ clock \in Nat
      /\ request[w].phase = "stamped" /\ request[w].op \in {"create_file", "modify_file"}
      /\ received' \in Nat /\ overlapped' \in SUBSET Plugins
  BY RecordAssumption DEF BuildFile, Serving, FilesInv, TypeOK
<1>2. CASE Answered(w) /\ UNCHANGED clock
  BY <1>2, AnsweredKeeps DEF BuildFile
<1>3. ASSUME clock' = clock + 1,
             NEW f \in IF request[w].op = "create_file" THEN NewFiles
                       ELSE {request[w].file},
             request' = [request EXCEPT
               ![w].phase = "built", ![w].file = f,
               ![w].built = [file |-> f, name |-> request[w].name, at |-> clock + 1]]
      PROVE  FilesInv'
  <2> DEFINE s == [file |-> f, name |-> request[w].name, at |-> clock + 1]
             q == [request[w] EXCEPT !.phase = "built", !.file = f, !.built = s]
  <2>1. request' = [request EXCEPT ![w] = q]
    BY <1>3, <1>1 DEF FilesInv, TypeOK
  <2>2. f \in Files /\ (request[w].op = "modify_file" => f = request[w].file)
        /\ (request[w].op = "create_file" =>
              file[f] = None /\ \A v \in Workers : ~Creates(v, f))
    BY <1>1, <1>3 DEF NewFiles, RequestOK, FileKnown, Creates
  <2>3. s \in FileSnapshot /\ s.file = f /\ s.name = request[w].name /\ s.at = clock + 1
    BY <1>1, <2>2 DEF FileSnapshot, RequestOK
  <2>4. q \in Request /\ q # None
    <3>1. q \in Request
      BY <1>1, <2>2, <2>3 DEF Request
    <3> QED
      BY <3>1, RecordAssumption
  <2>5. /\ q.op = request[w].op /\ q.plugin = request[w].plugin /\ q.file = f
        /\ q.name = request[w].name /\ q.seen = request[w].seen /\ q.built = s
        /\ q.doomed = request[w].doomed /\ q.phase = "built" /\ q.at = request[w].at
        /\ request[w].at \in Nat
    BY <1>1 DEF Request
  <2> HIDE DEF s, q
  <2>6. BuiltOK(q, clock')
    BY <1>1, <1>3, <2>2, <2>3, <2>5 DEF BuiltOK
  <2>7. request[w].at <= clock'
    BY <1>1, <1>3, <2>5 DEF RequestOK
  <2>8. RequestOK(q, plugin', file', clock')
    BY <1>1, <1>3, <2>2, <2>5, <2>6, <2>7 DEF RequestOK, FileKnown, BuildFile
  <2> QED
    <3>1. UNCHANGED <<plugin, file>> /\ clock' \in Nat /\ clock <= clock'
      <4>1. UNCHANGED <<plugin, file>>
        BY DEF BuildFile
      <4> QED
        BY <1>1, <1>3, <4>1
    <3>2. q.op = "create_file" => \A v \in Workers : ~Creates(v, q.file)
      BY <2>2, <2>5
    <3> QED
      BY <1>1, <2>1, <2>4, <2>8, <3>1, <3>2, RequestMoves
<1> QED
  BY <1>2, <1>3 DEF BuildFile

LEMMA ArrivalsKeep ==
  ASSUME FilesInv, NEW w \in Workers, NEW p \in Plugins,
         \/ ModifyPlugin(w, p) \/ DeletePlugin(w, p) \/ DeleteAllFiles(w, p)
         \/ \E n \in Filenames : CreateFile(w, p, n)
         \/ \E f \in Files : DeleteFile(w, p, f)
         \/ \E f \in Files, n \in Filenames : ModifyFile(w, p, f, n)
  PROVE  FilesInv'
PROOF
<1>1. \A op, f, n, doomed : Receive(w, Order(op, p, f, n, doomed)) => p \in LivePlugins
  BY DEF Receive, Order
<1>2. LiveFiles(p) \in SUBSET Files /\ {} \in SUBSET LiveFiles(p)
      /\ LiveFiles(p) \in SUBSET LiveFiles(p)
  BY DEF LiveFiles
<1>3. CASE ModifyPlugin(w, p)
  BY <1>1, <1>2, <1>3, OrderOK, ReceiveKeeps DEF ModifyPlugin, Rebuilding
<1>4. CASE DeletePlugin(w, p)
  BY <1>1, <1>2, <1>4, OrderOK, ReceiveKeeps DEF DeletePlugin
<1>5. CASE DeleteAllFiles(w, p)
  BY <1>1, <1>2, <1>5, OrderOK, ReceiveKeeps DEF DeleteAllFiles
<1>6. ASSUME NEW n \in Filenames, CreateFile(w, p, n) PROVE FilesInv'
  BY <1>1, <1>2, <1>6, OrderOK, ReceiveKeeps, NoneAssumption
  DEF CreateFile, Rebuilding, FileOperations
<1>7. ASSUME NEW f \in Files, DeleteFile(w, p, f) PROVE FilesInv'
  BY <1>1, <1>2, <1>7, OrderOK, ReceiveKeeps, NoneAssumption
  DEF DeleteFile, Rebuilding, FileOperations
<1>8. ASSUME NEW f \in Files, NEW n \in Filenames, ModifyFile(w, p, f, n) PROVE FilesInv'
  BY <1>1, <1>2, <1>8, OrderOK, ReceiveKeeps, NoneAssumption
  DEF ModifyFile, Rebuilding, FileOperations
<1> QED
  BY <1>3, <1>4, <1>5, <1>6, <1>7, <1>8

LEMMA CreatePluginKeeps ==
  ASSUME FilesInv, NEW w \in Workers, NEW p \in Plugins, CreatePlugin(w, p)
  PROVE  FilesInv'
PROOF
<1> DEFINE new == [deleted |-> FALSE, latest |-> [files |-> {}, at |-> clock + 1]]
<1>1. clock \in Nat /\ received \in Nat /\ plugin \in [Plugins -> Plugin \cup {None}]
      /\ file \in [Files -> File \cup {None}] /\ request \in [Workers -> Request \cup {None}]
  BY DEF FilesInv, TypeOK
<1>2. new \in Plugin /\ new # None /\ new.latest.files = {} /\ new.latest.at = clock + 1
  <2>1. [files |-> {}, at |-> clock + 1] \in PluginSnapshot
    BY <1>1 DEF PluginSnapshot
  <2>2. new \in Plugin
    BY <2>1 DEF Plugin
  <2> QED
    BY <2>2, RecordAssumption
<1> HIDE DEF new
<1>3. /\ plugin' = [plugin EXCEPT ![p] = new] /\ clock' = clock + 1
      /\ received' = received + 1 /\ UNCHANGED <<file, request, overlapped>>
  BY DEF CreatePlugin, new
<1>4. TypeOK'
  BY <1>1, <1>2, <1>3 DEF FilesInv, TypeOK
<1>5. \A x \in Plugins : PluginOK(x)'
  <2> SUFFICES ASSUME NEW x \in Plugins, plugin'[x] # None PROVE PluginOK(x)'
    BY DEF PluginOK
  <2>1. CASE x = p
    BY <1>1, <1>2, <1>3, <2>1 DEF PluginOK, AtMostOnce
  <2>2. CASE x # p
    <3>1. plugin'[x] = plugin[x] /\ plugin[x].latest.at \in Nat
      BY <1>1, <1>3, <2>2 DEF Plugin, PluginSnapshot
    <3> QED
      BY <1>1, <1>3, <3>1 DEF PluginOK, FilesInv
  <2> QED
    BY <2>1, <2>2
<1>6. \A x \in Plugins : plugin[x] # None => plugin'[x] # None
  BY <1>1, <1>2, <1>3
<1>7. \A f \in Files : FileOK(f)'
  <2> SUFFICES ASSUME NEW f \in Files, file[f] # None PROVE FileOK(f)'
    BY <1>3 DEF FileOK
  <2>1. file[f].latest.at \in Nat /\ file[f].plugin \in Plugins
    BY <1>1 DEF File, FileSnapshot
  <2> QED
    BY <1>1, <1>3, <1>6, <2>1 DEF FileOK, FilesInv
<1>8. ASSUME NEW v \in Workers, request'[v] # None PROVE RequestOK(request'[v], plugin', file', clock')
  <2>1. request[v] \in Request /\ RequestOK(request[v], plugin, file, clock)
    BY <1>1, <1>3, <1>8 DEF FilesInv
  <2>2. request[v].at \in Nat /\ request[v].plugin \in Plugins
        /\ (request[v].built \in FileSnapshot => request[v].built.at \in Nat)
    BY <2>1 DEF Request, FileSnapshot
  <2> QED
    BY <1>1, <1>3, <1>6, <2>1, <2>2 DEF RequestOK, BuiltOK, FileKnown
<1> QED
  BY <1>3, <1>4, <1>5, <1>7, <1>8 DEF FilesInv, Creates

-----------------------------------------------------------------------------
(* Commits                                                                 *)

\* What a commit of the request of w does to the rows of the database.
RowsStep(w) ==
  /\ plugin' \in [Plugins -> Plugin \cup {None}]
  /\ file' \in [Files -> File \cup {None}]
  /\ \A p \in Plugins : plugin[p] # None => plugin'[p] # None
  /\ \A f \in Files : file[f] # None =>
        file'[f] # None /\ file'[f].plugin = file[f].plugin
  /\ \A f \in Files : file[f] = None /\ file'[f] # None => Creates(w, f)

LEMMA CommitKeeps ==
  ASSUME FilesInv, NEW w \in Workers, Answered(w), RowsStep(w),
         UNCHANGED <<clock, received, overlapped>>,
         \A p \in Plugins : PluginOK(p)', \A f \in Files : FileOK(f)'
  PROVE  FilesInv'
PROOF
<1>1. request \in [Workers -> Request \cup {None}] /\ clock' = clock
      /\ request' = [request EXCEPT ![w] = None]
  BY DEF FilesInv, TypeOK, Answered
<1>2. TypeOK'
  BY <1>1 DEF FilesInv, TypeOK, RowsStep
<1>3. ASSUME NEW v \in Workers, request'[v] # None
      PROVE  RequestOK(request'[v], plugin', file', clock')
  <2>1. /\ v # w /\ request'[v] = request[v] /\ request[v] \in Request
        /\ RequestOK(request[v], plugin, file, clock) /\ request[v] # None
    BY <1>1, <1>3 DEF FilesInv
  <2> DEFINE q == request[v]
  <2>2. q.plugin \in Plugins /\ q.doomed \in SUBSET Files
    BY <2>1 DEF Request
  <2>3. \A f : FileKnown(q, f, file) => FileKnown(q, f, file')
    BY DEF FileKnown, RowsStep
  <2>4. q.op = "create_file" /\ q.phase = "built" => file'[q.file] = None
    <3> SUFFICES ASSUME q.op = "create_file", q.phase = "built"
                 PROVE  file'[q.file] = None
      OBVIOUS
    <3>1. q.file \in Files /\ file[q.file] = None /\ Creates(v, q.file)
      BY <2>1 DEF RequestOK, BuiltOK, Creates
    <3>2. ~Creates(w, q.file)
      BY <2>1, <3>1 DEF FilesInv
    <3> QED
      BY <3>1, <3>2 DEF RowsStep
  <2>5. plugin'[q.plugin] # None
    BY <2>1, <2>2 DEF RequestOK, RowsStep
  <2> HIDE DEF q
  <2>6. RequestOK(q, plugin', file', clock')
    BY <1>1, <2>1, <2>3, <2>4, <2>5 DEF RequestOK, q
  <2> QED
    BY <2>1, <2>6 DEF q
<1>4. \A v \in Workers : \A f \in Files : Creates(v, f)' => Creates(v, f)
  BY <1>1 DEF Creates
<1> QED
  BY <1>2, <1>3, <1>4 DEF FilesInv

\* The list that a request writes has a file at most once.
LEMMA FileListOnce ==
  ASSUME FilesInv, NEW q \in Request, RequestOK(q, plugin, file, clock),
         q.op \in Rebuilding,
         q.op \in {"create_file", "modify_file"} => q.phase = "built"
  PROVE  FileList(q) \in SUBSET FileSnapshot /\ AtMostOnce(FileList(q))
PROOF
<1>1. q.seen.files \in SUBSET FileSnapshot /\ AtMostOnce(q.seen.files)
  BY DEF Request, PluginSnapshot, RequestOK
<1>2. CASE q.op \in {"modify", "delete_file"}
  BY <1>1, <1>2 DEF FileList, AtMostOnce
<1>3. CASE q.op \in {"create_file", "modify_file"}
  <2>1. q.built \in FileSnapshot /\ q.built.file = q.file
    BY <1>3 DEF RequestOK, BuiltOK
  <2>2. FileList(q) = {s \in q.seen.files : s.file # q.file} \cup {q.built}
    BY <1>3 DEF FileList
  <2> QED
    BY <1>1, <2>1, <2>2 DEF AtMostOnce
<1> QED
  BY <1>2, <1>3 DEF Rebuilding, FileOperations

LEMMA ListFilesOK ==
  ASSUME FilesInv, NEW q \in Request, RequestOK(q, plugin, file, clock),
         q.op \in Rebuilding,
         q.op \in {"create_file", "modify_file"} => q.phase = "built",
         ListFiles(q), clock' = clock
  PROVE  /\ plugin' \in [Plugins -> Plugin \cup {None}]
         /\ \A p \in Plugins : plugin[p] # None <=> plugin'[p] # None
         /\ \A p \in Plugins : PluginOK(p)'
         /\ \A p \in Plugins \ {q.plugin} : plugin'[p] = plugin[p]
         /\ plugin'[q.plugin].deleted = plugin[q.plugin].deleted
         /\ plugin'[q.plugin].latest =
              Later(plugin[q.plugin].latest, [files |-> FileList(q), at |-> q.at])
PROOF
<1> DEFINE p0 == q.plugin
           new == [files |-> FileList(q), at |-> q.at]
           last == Later(plugin[p0].latest, new)
           row == [plugin[p0] EXCEPT !.latest = last]
<1>1. /\ plugin \in [Plugins -> Plugin \cup {None}]
      /\ p0 \in Plugins /\ plugin[p0] \in Plugin /\ plugin[p0] # None
      /\ q.at \in Nat /\ q.at <= clock
  BY DEF FilesInv, TypeOK, Request, RequestOK
<1>2. new \in PluginSnapshot /\ AtMostOnce(new.files) /\ new.at <= clock
  BY <1>1, FileListOnce DEF PluginSnapshot
<1>3. plugin[p0].latest \in PluginSnapshot /\ AtMostOnce(plugin[p0].latest.files)
      /\ plugin[p0].latest.at <= clock
  BY <1>1 DEF Plugin, FilesInv, PluginOK
<1> HIDE DEF new
<1>4. last \in PluginSnapshot /\ AtMostOnce(last.files) /\ last.at <= clock
  BY <1>2, <1>3 DEF Later
<1> HIDE DEF last
<1>5. row \in Plugin /\ row.latest = last /\ row.deleted = plugin[p0].deleted
  BY <1>1, <1>4 DEF Plugin
<1>6. row # None
  BY <1>5, RecordAssumption
<1>7. plugin' = [plugin EXCEPT ![p0] = row]
  BY <1>1 DEF ListFiles, new, last
<1> HIDE DEF row, p0
<1>8. \A p \in Plugins \ {p0} : plugin'[p] = plugin[p]
  BY <1>7
<1>9. plugin'[p0] = row
  BY <1>1, <1>7
<1>10. PluginOK(p0)'
  BY <1>4, <1>5, <1>9 DEF PluginOK
<1>11. \A p \in Plugins \ {p0} : PluginOK(p)'
  BY <1>8 DEF FilesInv, PluginOK
<1>12. plugin' \in [Plugins -> Plugin \cup {None}]
  BY <1>1, <1>5, <1>7
<1> QED
  BY <1>1, <1>5, <1>6, <1>8, <1>9, <1>10, <1>11, <1>12 DEF p0, last, new

\* What the commit of w is about.
LEMMA ReadyOK ==
  ASSUME FilesInv, NEW w \in Workers, NEW op, Ready(w, op)
  PROVE  /\ request[w] \in Request /\ RequestOK(request[w], plugin, file, clock)
         /\ request[w].op = op /\ request[w] # None
         /\ op \in {"create_file", "modify_file"} => request[w].phase = "built"
         /\ request[w].plugin \in Plugins
  BY DEF Ready, FilesInv, TypeOK, Request

\* A commit that changes no file.
LEMMA FilesKept ==
  ASSUME FilesInv, UNCHANGED <<file, clock>>,
         \A p \in Plugins : plugin[p] # None => plugin'[p] # None
  PROVE  \A f \in Files : FileOK(f)'
PROOF
<1> SUFFICES ASSUME NEW f \in Files, file[f] # None PROVE FileOK(f)'
  BY DEF FileOK
<1>1. file[f] \in File
  BY DEF FilesInv, TypeOK
<1> QED
  BY <1>1 DEF FileOK, FilesInv, File

\* A commit that leaves the plugins as they are.
LEMMA PluginsKept ==
  ASSUME FilesInv, UNCHANGED <<plugin, clock>>
  PROVE  \A p \in Plugins : PluginOK(p)'
BY DEF FilesInv, PluginOK

\* Files get a delete lock.
LEMMA LockFilesOK ==
  ASSUME FilesInv, NEW S, \A f \in S : file[f] # None, LockFiles(S),
         clock' = clock, \A p \in Plugins : plugin[p] # None => plugin'[p] # None
  PROVE  /\ file' \in [Files -> File \cup {None}]
         /\ \A f \in Files : FileOK(f)'
         /\ \A f \in Files : file[f] # None <=> file'[f] # None
         /\ \A f \in Files : file[f] # None =>
              /\ file'[f].plugin = file[f].plugin /\ file'[f].latest = file[f].latest
              /\ file'[f].deleted = (file[f].deleted \/ f \in S)
PROOF
<1>1. ASSUME NEW f \in Files, file[f] # None
      PROVE  /\ file'[f] \in File /\ file'[f] # None
             /\ file'[f].plugin = file[f].plugin /\ file'[f].latest = file[f].latest
             /\ file'[f].deleted = (file[f].deleted \/ f \in S)
  <2>1. file[f] \in File
    BY <1>1 DEF FilesInv, TypeOK
  <2>2. file'[f] = IF f \in S THEN [file[f] EXCEPT !.deleted = TRUE] ELSE file[f]
    BY DEF LockFiles
  <2>3. /\ file'[f] \in File
        /\ file'[f].plugin = file[f].plugin /\ file'[f].latest = file[f].latest
        /\ file'[f].deleted = (file[f].deleted \/ f \in S)
    BY <2>1, <2>2 DEF File
  <2> QED
    BY <2>3, RecordAssumption
<1>2. ASSUME NEW f \in Files, file[f] = None PROVE file'[f] = None
  BY <1>2 DEF LockFiles
<1>3. file' \in [Files -> File \cup {None}]
  BY <1>1, <1>2 DEF LockFiles
<1>4. ASSUME NEW f \in Files, file'[f] # None PROVE FileOK(f)'
  <2>1. file[f] # None /\ FileOK(f) /\ file[f] \in File
    BY <1>2, <1>4 DEF FilesInv, TypeOK
  <2>2. file'[f].plugin = file[f].plugin /\ file'[f].latest = file[f].latest
    BY <1>1, <2>1
  <2>3. plugin'[file[f].plugin] # None
    BY <2>1 DEF FileOK, File
  <2> QED
    BY <2>1, <2>2, <2>3 DEF FileOK
<1> QED
  BY <1>1, <1>2, <1>3, <1>4 DEF FileOK

LEMMA CommitPluginKeeps ==
  ASSUME FilesInv, NEW w \in Workers, CommitPlugin(w)
  PROVE  FilesInv'
PROOF
<1> DEFINE q == request[w]
<1>1. /\ q \in Request /\ RequestOK(q, plugin, file, clock) /\ q.op = "modify"
      /\ ListFiles(q) /\ Answered(w) /\ UNCHANGED <<file, clock, received, overlapped>>
  BY ReadyOK DEF CommitPlugin
<1> HIDE DEF q
<1>2. /\ plugin' \in [Plugins -> Plugin \cup {None}]
      /\ \A p \in Plugins : plugin[p] # None <=> plugin'[p] # None
      /\ \A p \in Plugins : PluginOK(p)'
  BY <1>1, ListFilesOK DEF Rebuilding
<1>3. \A f \in Files : FileOK(f)'
  BY <1>1, <1>2, FilesKept
<1>4. RowsStep(w)
  BY <1>1, <1>2 DEF RowsStep, FilesInv, TypeOK
<1> QED
  BY <1>1, <1>2, <1>3, <1>4, CommitKeeps

\* The row of a file that is written again, or for the first time.
LEMMA FileWritten ==
  ASSUME FilesInv, NEW g \in Files, NEW row \in File, file' = [file EXCEPT ![g] = row],
         row.latest.file = g, row.latest.at <= clock, plugin[row.plugin] # None,
         clock' = clock, \A p \in Plugins : plugin[p] # None => plugin'[p] # None
  PROVE  /\ file' \in [Files -> File \cup {None}] /\ file'[g] = row /\ row # None
         /\ \A f \in Files \ {g} : file'[f] = file[f]
         /\ \A f \in Files : FileOK(f)'
PROOF
<1>1. file \in [Files -> File \cup {None}] /\ row # None
  BY RecordAssumption DEF FilesInv, TypeOK
<1>2. file'[g] = row /\ \A f \in Files \ {g} : file'[f] = file[f]
  BY <1>1
<1>3. FileOK(g)'
  BY <1>2 DEF FileOK, File
<1>4. ASSUME NEW f \in Files \ {g}, file[f] # None PROVE FileOK(f)'
  BY <1>1, <1>2, <1>4 DEF FileOK, FilesInv, File
<1> QED
  BY <1>1, <1>2, <1>3, <1>4 DEF FileOK

\* What CommitNewFile and CommitFile do to the row of the file.
LEMMA NewFileStep ==
  ASSUME FilesInv, NEW w \in Workers, CommitNewFile(w)
  PROVE  LET q == request[w] IN
         /\ q \in Request /\ RequestOK(q, plugin, file, clock) /\ q.op = "create_file"
         /\ q.phase = "built" /\ BuiltOK(q, clock) /\ ListFiles(q) /\ Answered(w)
         /\ UNCHANGED <<clock, received, overlapped>>
         /\ \A f \in Files : FileOK(f)'
         /\ file' \in [Files -> File \cup {None}] /\ file[q.file] = None
         /\ file'[q.file] = [plugin |-> q.plugin, deleted |-> FALSE, latest |-> q.built]
         /\ file'[q.file] # None
         /\ \A f \in Files \ {q.file} : file'[f] = file[f]
PROOF
<1> DEFINE q == request[w]
           row == [plugin |-> q.plugin, deleted |-> FALSE, latest |-> q.built]
<1>1. /\ q \in Request /\ RequestOK(q, plugin, file, clock) /\ q.op = "create_file"
      /\ ListFiles(q) /\ Answered(w) /\ UNCHANGED <<clock, received, overlapped>>
      /\ q.phase = "built" /\ file' = [file EXCEPT ![q.file] = row] /\ q.plugin \in Plugins
  BY ReadyOK DEF CommitNewFile
<1> HIDE DEF q
<1>2. BuiltOK(q, clock) /\ file[q.file] = None /\ plugin[q.plugin] # None
  BY <1>1 DEF RequestOK
<1>3. row \in File /\ row.latest = q.built /\ row.plugin = q.plugin
  BY <1>1, <1>2 DEF File, BuiltOK
<1> HIDE DEF row
<1>4. \A p \in Plugins : plugin[p] # None => plugin'[p] # None
  BY <1>1, ListFilesOK DEF Rebuilding, FileOperations
<1>5. /\ file' \in [Files -> File \cup {None}] /\ file'[q.file] = row /\ row # None
      /\ \A f \in Files \ {q.file} : file'[f] = file[f]
      /\ \A f \in Files : FileOK(f)'
  <2>1. /\ q.file \in Files /\ file' = [file EXCEPT ![q.file] = row] /\ clock' = clock
        /\ row.latest.file = q.file /\ row.latest.at <= clock /\ plugin[row.plugin] # None
    BY <1>1, <1>2, <1>3 DEF BuiltOK
  <2> QED
    BY <1>3, <1>4, <2>1, FileWritten
<1> QED
  BY <1>1, <1>2, <1>5 DEF q, row

LEMMA FileStep ==
  ASSUME FilesInv, NEW w \in Workers, CommitFile(w)
  PROVE  LET q == request[w] IN
         /\ q \in Request /\ RequestOK(q, plugin, file, clock) /\ q.op = "modify_file"
         /\ q.phase = "built" /\ BuiltOK(q, clock) /\ ListFiles(q) /\ Answered(w)
         /\ UNCHANGED <<clock, received, overlapped>>
         /\ \A f \in Files : FileOK(f)'
         /\ file' \in [Files -> File \cup {None}] /\ FileKnown(q, q.file, file)
         /\ file'[q.file].plugin = q.plugin
         /\ file'[q.file].deleted = file[q.file].deleted
         /\ file'[q.file].latest = Later(file[q.file].latest, q.built)
         /\ file'[q.file] # None
         /\ \A f \in Files \ {q.file} : file'[f] = file[f]
PROOF
<1> DEFINE q == request[w]
           row == [file[q.file] EXCEPT !.latest = Later(@, q.built)]
<1>1. /\ q \in Request /\ RequestOK(q, plugin, file, clock) /\ q.op = "modify_file"
      /\ ListFiles(q) /\ Answered(w) /\ UNCHANGED <<clock, received, overlapped>>
      /\ q.phase = "built" /\ file' = [file EXCEPT ![q.file].latest = Later(@, q.built)]
  BY ReadyOK DEF CommitFile
<1> HIDE DEF q
<1>2. /\ BuiltOK(q, clock) /\ FileKnown(q, q.file, file) /\ plugin[q.plugin] # None
      /\ file[q.file] \in File /\ FileOK(q.file)
  BY <1>1 DEF RequestOK, FileKnown, FilesInv, TypeOK
<1>3. file' = [file EXCEPT ![q.file] = row]
  BY <1>1, <1>2 DEF FilesInv, TypeOK
<1>4. /\ row \in File /\ row.latest = Later(file[q.file].latest, q.built)
      /\ row.plugin = q.plugin /\ row.deleted = file[q.file].deleted
  BY <1>2 DEF File, BuiltOK, FileKnown, Later
<1>5. row.latest.file = q.file /\ row.latest.at <= clock
  BY <1>2, <1>4 DEF BuiltOK, FileKnown, Later, FileOK
<1> HIDE DEF row
<1>6. \A p \in Plugins : plugin[p] # None => plugin'[p] # None
  BY <1>1, ListFilesOK DEF Rebuilding, FileOperations
<1>7. /\ file' \in [Files -> File \cup {None}] /\ file'[q.file] = row /\ row # None
      /\ \A f \in Files \ {q.file} : file'[f] = file[f]
      /\ \A f \in Files : FileOK(f)'
  <2>1. q.file \in Files /\ clock' = clock /\ plugin[row.plugin] # None
    BY <1>1, <1>2, <1>4 DEF BuiltOK
  <2> QED
    BY <1>3, <1>4, <1>5, <1>6, <2>1, FileWritten
<1> QED
  BY <1>1, <1>2, <1>4, <1>7 DEF q

LEMMA CommitNewFileKeeps ==
  ASSUME FilesInv, NEW w \in Workers, CommitNewFile(w)
  PROVE  FilesInv'
PROOF
<1> DEFINE q == request[w]
<1>1. /\ q \in Request /\ RequestOK(q, plugin, file, clock) /\ q.op = "create_file"
      /\ q.phase = "built" /\ BuiltOK(q, clock) /\ ListFiles(q) /\ Answered(w)
      /\ UNCHANGED <<clock, received, overlapped>> /\ \A f \in Files : FileOK(f)'
      /\ file' \in [Files -> File \cup {None}] /\ file[q.file] = None
      /\ \A f \in Files \ {q.file} : file'[f] = file[f]
  BY NewFileStep
<1>2. q # None
  BY <1>1, RecordAssumption
<1>3. Creates(w, q.file)
  BY <1>1, <1>2 DEF Creates
<1> HIDE DEF q
<1>4. /\ plugin' \in [Plugins -> Plugin \cup {None}]
      /\ \A p \in Plugins : plugin[p] # None <=> plugin'[p] # None
      /\ \A p \in Plugins : PluginOK(p)'
  BY <1>1, ListFilesOK DEF Rebuilding, FileOperations
<1>5. RowsStep(w)
  BY <1>1, <1>3, <1>4 DEF RowsStep
<1> QED
  BY <1>1, <1>4, <1>5, CommitKeeps

LEMMA CommitFileKeeps ==
  ASSUME FilesInv, NEW w \in Workers, CommitFile(w)
  PROVE  FilesInv'
PROOF
<1> DEFINE q == request[w]
<1>1. /\ q \in Request /\ RequestOK(q, plugin, file, clock) /\ q.op = "modify_file"
      /\ q.phase = "built" /\ ListFiles(q) /\ Answered(w)
      /\ UNCHANGED <<clock, received, overlapped>> /\ \A f \in Files : FileOK(f)'
      /\ file' \in [Files -> File \cup {None}] /\ FileKnown(q, q.file, file)
      /\ file'[q.file] # None /\ file'[q.file].plugin = q.plugin
      /\ \A f \in Files \ {q.file} : file'[f] = file[f]
  BY FileStep
<1> HIDE DEF q
<1>2. /\ plugin' \in [Plugins -> Plugin \cup {None}]
      /\ \A p \in Plugins : plugin[p] # None <=> plugin'[p] # None
      /\ \A p \in Plugins : PluginOK(p)'
  BY <1>1, ListFilesOK DEF Rebuilding, FileOperations
<1>3. RowsStep(w)
  BY <1>1, <1>2 DEF RowsStep, FileKnown
<1> QED
  BY <1>1, <1>2, <1>3, CommitKeeps

\* The deletion of a file locks one file; it is the LockFiles of one.
LEMMA DeletionStep ==
  ASSUME FilesInv, NEW w \in Workers, CommitFileDeletion(w), ~file[request[w].file].deleted
  PROVE  LET q == request[w] IN
         /\ q \in Request /\ RequestOK(q, plugin, file, clock) /\ q.op = "delete_file"
         /\ ListFiles(q) /\ Answered(w) /\ UNCHANGED <<clock, received, overlapped>>
         /\ FileKnown(q, q.file, file) /\ LockFiles({q.file})
PROOF
<1> DEFINE q == request[w]
<1>1. /\ q \in Request /\ RequestOK(q, plugin, file, clock) /\ q.op = "delete_file"
      /\ ListFiles(q) /\ Answered(w) /\ UNCHANGED <<clock, received, overlapped>>
      /\ file' = [file EXCEPT ![q.file].deleted = TRUE]
  BY ReadyOK DEF CommitFileDeletion
<1> HIDE DEF q
<1>2. FileKnown(q, q.file, file) /\ file \in [Files -> File \cup {None}]
  BY <1>1 DEF RequestOK, FilesInv, TypeOK
<1>3. LockFiles({q.file})
  BY <1>1, <1>2 DEF LockFiles, FileKnown
<1> QED
  BY <1>1, <1>2, <1>3 DEF q

LEMMA CommitFileDeletionKeeps ==
  ASSUME FilesInv, NEW w \in Workers, CommitFileDeletion(w)
  PROVE  FilesInv'
PROOF
<1> DEFINE q == request[w]
<1>1. CASE file[q.file].deleted
  BY <1>1, AnsweredKeeps DEF CommitFileDeletion
<1>2. CASE ~file[q.file].deleted
  <2>1. /\ q \in Request /\ RequestOK(q, plugin, file, clock) /\ q.op = "delete_file"
        /\ ListFiles(q) /\ Answered(w) /\ UNCHANGED <<clock, received, overlapped>>
        /\ FileKnown(q, q.file, file) /\ LockFiles({q.file})
    BY <1>2, DeletionStep
  <2> HIDE DEF q
  <2>2. /\ plugin' \in [Plugins -> Plugin \cup {None}]
        /\ \A p \in Plugins : plugin[p] # None <=> plugin'[p] # None
        /\ \A p \in Plugins : PluginOK(p)'
    BY <2>1, ListFilesOK DEF Rebuilding, FileOperations
  <2>3. /\ file' \in [Files -> File \cup {None}] /\ \A f \in Files : FileOK(f)'
        /\ \A f \in Files : file[f] # None <=> file'[f] # None
        /\ \A f \in Files : file[f] # None => file'[f].plugin = file[f].plugin
    BY <2>1, <2>2, LockFilesOK DEF FileKnown
  <2>4. RowsStep(w)
    BY <2>2, <2>3 DEF RowsStep
  <2> QED
    BY <2>1, <2>2, <2>3, <2>4, CommitKeeps
<1> QED
  BY <1>1, <1>2

LEMMA CommitPluginDeletionKeeps ==
  ASSUME FilesInv, NEW w \in Workers, CommitPluginDeletion(w)
  PROVE  FilesInv'
PROOF
<1> DEFINE q == request[w]
           p0 == q.plugin
           row == [plugin[p0] EXCEPT !.deleted = TRUE]
<1>1. /\ q \in Request /\ RequestOK(q, plugin, file, clock) /\ Answered(w)
      /\ UNCHANGED <<clock, received, overlapped>>
  BY ReadyOK DEF CommitPluginDeletion
<1>2. CASE plugin[p0].deleted \/ \E f \in q.doomed : file[f].deleted
  <2>1. UNCHANGED <<plugin, file>>
    BY <1>2 DEF CommitPluginDeletion
  <2> QED
    BY <1>1, <2>1, AnsweredKeeps
<1>3. CASE ~(plugin[p0].deleted \/ \E f \in q.doomed : file[f].deleted)
  <2>1. plugin' = [plugin EXCEPT ![p0].deleted = TRUE] /\ LockFiles(q.doomed)
    BY <1>3 DEF CommitPluginDeletion
  <2> HIDE DEF q
  <2>2. /\ p0 \in Plugins /\ plugin[p0] \in Plugin /\ plugin[p0] # None
        /\ plugin \in [Plugins -> Plugin \cup {None}]
        /\ \A f \in q.doomed : file[f] # None
    BY <1>1 DEF Request, RequestOK, FileKnown, FilesInv, TypeOK
  <2>3. row \in Plugin /\ row.latest = plugin[p0].latest
    BY <2>2 DEF Plugin
  <2>4. plugin' = [plugin EXCEPT ![p0] = row] /\ row # None
    BY <2>1, <2>2, <2>3, RecordAssumption
  <2> HIDE DEF row, p0
  <2>5. /\ plugin' \in [Plugins -> Plugin \cup {None}]
        /\ \A p \in Plugins : plugin[p] # None => plugin'[p] # None
    BY <2>2, <2>3, <2>4
  <2>6. \A p \in Plugins : PluginOK(p)'
    BY <1>1, <2>2, <2>3, <2>4 DEF PluginOK, FilesInv
  <2>7. /\ file' \in [Files -> File \cup {None}] /\ \A f \in Files : FileOK(f)'
        /\ \A f \in Files : file[f] # None <=> file'[f] # None
        /\ \A f \in Files : file[f] # None => file'[f].plugin = file[f].plugin
    BY <1>1, <2>1, <2>2, <2>5, LockFilesOK
  <2>8. RowsStep(w)
    BY <2>5, <2>7 DEF RowsStep
  <2> QED
    BY <1>1, <2>6, <2>7, <2>8, CommitKeeps
<1> QED
  BY <1>2, <1>3

LEMMA CommitAllDeletionKeeps ==
  ASSUME FilesInv, NEW w \in Workers, CommitAllDeletion(w)
  PROVE  FilesInv'
PROOF
<1> DEFINE q == request[w]
<1>1. /\ q \in Request /\ RequestOK(q, plugin, file, clock) /\ Answered(w)
      /\ UNCHANGED <<plugin, clock, received, overlapped>>
  BY ReadyOK DEF CommitAllDeletion
<1>2. CASE \E f \in q.doomed : file[f].deleted
  BY <1>1, <1>2, AnsweredKeeps DEF CommitAllDeletion
<1>3. CASE ~\E f \in q.doomed : file[f].deleted
  <2>1. LockFiles(q.doomed)
    BY <1>3 DEF CommitAllDeletion
  <2> HIDE DEF q
  <2>2. \A f \in q.doomed : file[f] # None
    BY <1>1 DEF RequestOK, FileKnown
  <2>3. /\ file' \in [Files -> File \cup {None}] /\ \A f \in Files : FileOK(f)'
        /\ \A f \in Files : file[f] # None <=> file'[f] # None
        /\ \A f \in Files : file[f] # None => file'[f].plugin = file[f].plugin
    BY <1>1, <2>1, <2>2, LockFilesOK
  <2>4. RowsStep(w)
    BY <1>1, <2>3 DEF RowsStep, FilesInv, TypeOK
  <2> QED
    BY <1>1, <2>3, <2>4, CommitKeeps, PluginsKept
<1> QED
  BY <1>2, <1>3

-----------------------------------------------------------------------------
(* However requests overlap                                                *)

LEMMA FilesInit == Init => FilesInv
BY NoneAssumption DEF Init, FilesInv, TypeOK, PluginOK, FileOK, Creates

LEMMA FilesNext ==
  ASSUME FilesInv, [Next]_vars
  PROVE  FilesInv'
PROOF
<1>1. CASE UNCHANGED vars
  <2>1. UNCHANGED <<plugin, file, request, clock, received, overlapped>>
    BY <1>1 DEF vars
  <2> QED
    BY <2>1 DEF FilesInv, TypeOK, PluginOK, FileOK, Creates
<1>2. ASSUME NEW w \in Workers, Arrive(w) PROVE FilesInv'
  BY <1>2, CreatePluginKeeps, ArrivalsKeep DEF Arrive
<1>3. ASSUME NEW w \in Workers, Stamp(w) \/ BuildFile(w) PROVE FilesInv'
  BY <1>3, StampKeeps, BuildFileKeeps
<1>4. ASSUME NEW w \in Workers, Commit(w) PROVE FilesInv'
  BY <1>4, CommitPluginKeeps, CommitNewFileKeeps, CommitFileKeeps,
     CommitFileDeletionKeeps, CommitPluginDeletionKeeps, CommitAllDeletionKeeps
  DEF Commit
<1> QED
  BY <1>1, <1>2, <1>3, <1>4 DEF Next

\* The invariant that the other theorems rest on.
THEOREM FilesCorrect == Spec => []FilesInv
PROOF
<1>1. Init => FilesInv
  BY FilesInit
<1>2. FilesInv /\ [Next]_vars => FilesInv'
  BY FilesNext
<1> QED
  BY <1>1, <1>2, PTL DEF Spec

\* Every variable has its type in every reachable state.
THEOREM FilesTyped == Spec => []TypeOK
PROOF
<1>1. FilesInv => TypeOK
  BY DEF FilesInv
<1> QED
  BY <1>1, FilesCorrect, PTL

\* The latest snapshot of a plugin lists no file twice, however requests
\* overlap: a new file has an id nobody else lists, and a modified one is
\* listed in the place of its older snapshot.
THEOREM FilesAreListedOnce == Spec => []FilesListedOnce
PROOF
<1>1. FilesInv => FilesListedOnce
  BY DEF FilesInv, FilesListedOnce, PluginOK, AtMostOnce
<1> QED
  BY <1>1, FilesCorrect, PTL

\* A list that a request writes over the one it read lacks its own file only.
LEMMA FreshListKeeps ==
  ASSUME NEW q \in Request, q.op \in Rebuilding, NEW s \in q.seen.files,
         s \notin FileList(q)
  PROVE  q.file = s.file
BY DEF FileList, Rebuilding, FileOperations

LEMMA ListFilesDrop ==
  ASSUME FilesInv, NEW q \in Request, RequestOK(q, plugin, file, clock),
         q.op \in Rebuilding,
         q.op \in {"create_file", "modify_file"} => q.phase = "built",
         ListFiles(q), clock' = clock, NEW p \in Plugins, NEW s, Dropped(p, s)
  PROVE  p = q.plugin /\ (q.file = s.file \/ q.seen # plugin[p].latest)
PROOF
<1>1. /\ \A x \in Plugins \ {q.plugin} : plugin'[x] = plugin[x]
      /\ plugin'[q.plugin].latest =
           Later(plugin[q.plugin].latest, [files |-> FileList(q), at |-> q.at])
  BY ListFilesOK
<1>2. p = q.plugin
  BY <1>1 DEF Dropped
<1>3. s \notin FileList(q)
  BY <1>1, <1>2 DEF Dropped, Later
<1> QED
  BY <1>2, <1>3, FreshListKeeps DEF Dropped

LEMMA StaleStep ==
  ASSUME FilesInv, [Next]_vars, NEW p \in Plugins, plugin[p] # None, NEW s, Dropped(p, s)
  PROVE  \E w \in Workers :
           /\ request[w] # None /\ request'[w] = None
           /\ request[w].plugin = p
           /\ request[w].file = s.file \/ request[w].seen # plugin[p].latest
PROOF
<1> DEFINE Culprit(w) ==
      /\ request[w] # None /\ request'[w] = None /\ request[w].plugin = p
      /\ request[w].file = s.file \/ request[w].seen # plugin[p].latest
<1>1. plugin' # plugin
  BY DEF Dropped
<1>2. ASSUME NEW w \in Workers, ListFiles(request[w]), Answered(w), clock' = clock,
             NEW op \in Rebuilding, Ready(w, op)
      PROVE  Culprit(w)
  <2>1. /\ request[w] \in Request /\ RequestOK(request[w], plugin, file, clock)
        /\ request[w].op = op /\ request[w] # None
        /\ op \in {"create_file", "modify_file"} => request[w].phase = "built"
    BY <1>2, ReadyOK
  <2>2. request'[w] = None
    BY <1>2 DEF Answered, FilesInv, TypeOK
  <2> QED
    BY <1>2, <2>1, <2>2, ListFilesDrop
<1>3. PICK w \in Workers : Arrive(w) \/ Stamp(w) \/ BuildFile(w) \/ Commit(w)
  BY <1>1 DEF Next, vars
<1>4. CASE Arrive(w)
  <2>1. CASE UNCHANGED plugin
    BY <1>1, <2>1
  <2>2. ASSUME NEW x \in Plugins, CreatePlugin(w, x) PROVE FALSE
    BY <2>2 DEF CreatePlugin, FilesInv, TypeOK, Dropped
  <2> QED
    BY <1>4, <2>1, <2>2
    DEF Arrive, ModifyPlugin, DeletePlugin, DeleteAllFiles, CreateFile, DeleteFile,
        ModifyFile, Receive
<1>5. CASE Stamp(w) \/ BuildFile(w)
  BY <1>1, <1>5 DEF Stamp, BuildFile
<1>6. CASE CommitPlugin(w)
  BY <1>2, <1>6 DEF CommitPlugin, Rebuilding
<1>7. CASE CommitNewFile(w)
  BY <1>2, <1>7 DEF CommitNewFile, Rebuilding, FileOperations
<1>8. CASE CommitFile(w)
  BY <1>2, <1>8 DEF CommitFile, Rebuilding, FileOperations
<1>9. CASE CommitFileDeletion(w)
  BY <1>1, <1>2, <1>9 DEF CommitFileDeletion, Rebuilding, FileOperations
<1>10. CASE CommitPluginDeletion(w)
  <2>1. /\ request[w] \in Request /\ RequestOK(request[w], plugin, file, clock)
    BY <1>10, ReadyOK DEF CommitPluginDeletion
  <2>2. plugin' = [plugin EXCEPT ![request[w].plugin].deleted = TRUE]
    BY <1>1, <1>10 DEF CommitPluginDeletion
  <2>3. plugin'[p].latest = plugin[p].latest
    BY <2>2 DEF FilesInv, TypeOK, Plugin
  <2> QED
    BY <2>3 DEF Dropped
<1>11. CASE CommitAllDeletion(w)
  BY <1>1, <1>11 DEF CommitAllDeletion
<1> QED
  BY <1>3, <1>4, <1>5, <1>6, <1>7, <1>8, <1>9, <1>10, <1>11 DEF Commit

\* A live file leaves the list of its plugin only by a request for the file
\* or by one whose read of the plugin is stale.
THEOREM OnlyStaleDrop == Spec => OnlyStaleCommitsDrop
PROOF
<1>1. FilesInv /\ [Next]_vars =>
        [\A p \in Plugins : plugin[p] # None =>
           \A s \in plugin[p].latest.files : Dropped(p, s) =>
             \E w \in Workers :
               /\ request[w] # None /\ request'[w] = None
               /\ request[w].plugin = p
               /\ request[w].file = s.file \/ request[w].seen # plugin[p].latest]_vars
  BY StaleStep
<1> QED
  BY <1>1, FilesCorrect, PTL DEF Spec, OnlyStaleCommitsDrop

-----------------------------------------------------------------------------
(* Plugins whose requests do not overlap                                   *)

Serves(w, p) == request[w] # None /\ request[w].plugin = p

\* What a request read at its head, and concluded from it, is still so.
Fresh(q) ==
  /\ ~plugin[q.plugin].deleted
  /\ q.seen = plugin[q.plugin].latest
  /\ q.op \in {"modify_file", "delete_file"} => ~file[q.file].deleted
  /\ q.op = "modify_file" => q.was = file[q.file].latest.name
  /\ q.op \in {"delete", "delete_all"} => q.doomed = LiveFiles(q.plugin)
  /\ q.phase # "fetched" =>
       plugin[q.plugin].latest.at < q.at /\ ~FilenameRefused(q)
  /\ q.op = "modify_file" /\ q.phase = "built" => file[q.file].latest.at < q.built.at

Listed(p) == \A f \in LiveFiles(p) : file[f].latest \in plugin[p].latest.files
NamesApart(p) ==
  \A f, g \in LiveFiles(p) : file[f].latest.name = file[g].latest.name => f = g
Emptied(p) == plugin[p].deleted => LiveFiles(p) = {}

Alone(p) ==
  /\ Listed(p) /\ NamesApart(p) /\ Emptied(p)
  /\ \A v, w \in Workers : Serves(v, p) /\ Serves(w, p) => v = w
  /\ \A w \in Workers : Serves(w, p) => Fresh(request[w])

AloneInv == \A p \in Plugins \ overlapped : plugin[p] # None => Alone(p)

\* The step leaves p, its files and the requests that stay for it as they are.
Untouched(p) ==
  /\ plugin'[p] = plugin[p]
  /\ \A f \in Files : \/ file'[f] = file[f]
                      \/ file[f] # None /\ file[f].plugin # p
                         /\ file'[f] # None /\ file'[f].plugin # p
                      \/ file[f] = None /\ file'[f].plugin # p
  /\ \A w \in Workers : Serves(w, p)' => request'[w] = request[w]

LEMMA LiveFilesUntouched ==
  ASSUME NEW p \in Plugins, Untouched(p)
  PROVE  /\ LiveFiles(p)' = LiveFiles(p)
         /\ \A f \in LiveFiles(p) : file'[f] = file[f]
PROOF
<1>1. \A f \in Files :
        (file'[f] # None /\ file'[f].plugin = p) \/ (file[f] # None /\ file[f].plugin = p)
          => file'[f] = file[f]
  BY DEF Untouched
<1> QED
  BY <1>1 DEF LiveFiles

LEMMA UntouchedKeeps ==
  ASSUME FilesInv, NEW p \in Plugins, Alone(p), Untouched(p)
  PROVE  Alone(p)'
PROOF
<1>1. /\ plugin'[p] = plugin[p] /\ LiveFiles(p)' = LiveFiles(p)
      /\ \A f \in LiveFiles(p) : file'[f] = file[f]
  BY LiveFilesUntouched DEF Untouched
<1>2. Listed(p)' /\ NamesApart(p)' /\ Emptied(p)'
  BY <1>1 DEF Alone, Listed, NamesApart, Emptied
<1>3. \A w \in Workers : Serves(w, p)' => Serves(w, p) /\ request'[w] = request[w]
  BY DEF Untouched, Serves
<1>4. ASSUME NEW w \in Workers, Serves(w, p)' PROVE Fresh(request[w])'
  <2> DEFINE q == request[w]
  <2>1. /\ request'[w] = q /\ Fresh(q) /\ q.plugin = p
        /\ q \in Request /\ RequestOK(q, plugin, file, clock)
    BY <1>3, <1>4 DEF Alone, Serves, FilesInv, TypeOK
  <2> HIDE DEF q
  <2>2. q.op \in {"modify_file", "delete_file"} => file'[q.file] = file[q.file]
    BY <2>1 DEF RequestOK, FileKnown, Untouched
  <2>3. FilenameRefused(request[w])' <=> FilenameRefused(request[w])
    BY <1>1, <2>1 DEF FilenameRefused, FilenameTaken, q
  <2>4. q.op = "modify_file" => q.op \in {"modify_file", "delete_file"}
    OBVIOUS
  <2> QED
    BY <1>1, <2>1, <2>2, <2>3, <2>4 DEF Fresh, q
<1> QED
  BY <1>2, <1>3, <1>4 DEF Alone

\* One request for p begins or moves on, and it is the only one.
LEMMA MovedKeeps ==
  ASSUME FilesInv, NEW p \in Plugins, Alone(p), NEW w \in Workers,
         UNCHANGED <<plugin, file>>,
         \A v \in Workers \ {w} : ~Serves(v, p)', Serves(w, p)' => Fresh(request[w])'
  PROVE  Alone(p)'
PROOF
<1>1. LiveFiles(p)' = LiveFiles(p)
  BY DEF LiveFiles
<1>2. Listed(p)' /\ NamesApart(p)' /\ Emptied(p)'
  BY <1>1 DEF Alone, Listed, NamesApart, Emptied
<1> QED
  BY <1>2 DEF Alone

LEMMA ReceiveAlone ==
  ASSUME FilesInv, AloneInv, NEW w \in Workers, NEW q \in Request, Receive(w, q),
         q.phase = "fetched", q.seen = plugin[q.plugin].latest,
         q.op \in {"modify_file", "delete_file"} => ~file[q.file].deleted,
         q.op = "modify_file" => q.was = file[q.file].latest.name,
         q.op \in {"delete", "delete_all"} => q.doomed = LiveFiles(q.plugin)
  PROVE  AloneInv'
PROOF
<1>1. /\ request' = [request EXCEPT ![w] = q] /\ UNCHANGED <<plugin, file, clock>>
      /\ request \in [Workers -> Request \cup {None}] /\ q # None
      /\ q.plugin \in LivePlugins
      /\ overlapped' = IF Busy(q.plugin) THEN overlapped \cup {q.plugin} ELSE overlapped
  BY RecordAssumption DEF Receive, FilesInv, TypeOK
<1>2. request'[w] = q /\ \A v \in Workers \ {w} : request'[v] = request[v]
  BY <1>1
<1> SUFFICES ASSUME NEW p \in Plugins \ overlapped', plugin'[p] # None
             PROVE  Alone(p)'
  BY DEF AloneInv
<1>3. p \notin overlapped /\ Alone(p)
  BY <1>1 DEF AloneInv
<1>4. CASE p = q.plugin
  <2>1. ~Busy(p)
    BY <1>1, <1>4
  <2>2. \A v \in Workers \ {w} : ~Serves(v, p)'
    BY <1>2, <2>1 DEF Busy, Serves
  <2>3. ~plugin[q.plugin].deleted
    BY <1>1 DEF LivePlugins
  <2>4. LiveFiles(q.plugin)' = LiveFiles(q.plugin)
    BY <1>1 DEF LiveFiles
  <2>5. Fresh(request[w])'
    BY <1>1, <1>2, <2>3, <2>4 DEF Fresh
  <2> QED
    BY <1>1, <1>3, <2>2, <2>5, MovedKeeps
<1>5. CASE p # q.plugin
  <2>1. Untouched(p)
    BY <1>1, <1>2, <1>5 DEF Untouched, Serves
  <2> QED
    BY <1>3, <2>1, UntouchedKeeps
<1> QED
  BY <1>4, <1>5

LEMMA ArrivalsAlone ==
  ASSUME FilesInv, AloneInv, NEW w \in Workers, NEW p \in Plugins,
         \/ ModifyPlugin(w, p) \/ DeletePlugin(w, p) \/ DeleteAllFiles(w, p)
         \/ \E n \in Filenames : CreateFile(w, p, n)
         \/ \E f \in Files : DeleteFile(w, p, f)
         \/ \E f \in Files, n \in Filenames : ModifyFile(w, p, f, n)
  PROVE  AloneInv'
PROOF
<1>1. ASSUME NEW op \in Rebuilding \cup {"delete", "delete_all"},
             NEW f \in Files \cup {None}, f # None => f \in LiveFiles(p),
             NEW n \in Filenames \cup {None}, NEW doomed \in SUBSET LiveFiles(p),
             op = "create_file" => f = None,
             op \in {"modify_file", "delete_file"} => f # None,
             op \in {"create_file", "modify_file"} => n # None,
             op \in {"delete", "delete_all"} => doomed = LiveFiles(p),
             Receive(w, Order(op, p, f, n, doomed))
      PROVE  AloneInv'
  <2> DEFINE q == Order(op, p, f, n, doomed)
  <2>1. p \in LivePlugins
    BY <1>1 DEF Receive, Order
  <2>2. q \in Request
    BY <1>1, <2>1, OrderOK
  <2>3. /\ q.op = op /\ q.plugin = p /\ q.file = f /\ q.doomed = doomed
        /\ q.seen = plugin[p].latest /\ q.phase = "fetched"
        /\ f # None => q.was = file[f].latest.name
    BY DEF Order
  <2>4. f # None => ~file[f].deleted
    BY <1>1 DEF LiveFiles
  <2> HIDE DEF q
  <2>5. Receive(w, q)
    BY <1>1 DEF q
  <2>6. /\ q.op \in {"modify_file", "delete_file"} => ~file[q.file].deleted
        /\ q.op = "modify_file" => q.was = file[q.file].latest.name
        /\ q.op \in {"delete", "delete_all"} => q.doomed = LiveFiles(q.plugin)
    BY <1>1, <2>3, <2>4
  <2> QED
    BY <2>2, <2>3, <2>5, <2>6, ReceiveAlone
<1>2. {} \in SUBSET LiveFiles(p) /\ LiveFiles(p) \in SUBSET LiveFiles(p)
  OBVIOUS
<1>3. CASE ModifyPlugin(w, p)
  BY <1>1, <1>2, <1>3 DEF ModifyPlugin, Rebuilding
<1>4. CASE DeletePlugin(w, p)
  BY <1>1, <1>2, <1>4 DEF DeletePlugin
<1>5. CASE DeleteAllFiles(w, p)
  BY <1>1, <1>2, <1>5 DEF DeleteAllFiles
<1>6. ASSUME NEW n \in Filenames, CreateFile(w, p, n) PROVE AloneInv'
  BY <1>1, <1>2, <1>6, NoneAssumption DEF CreateFile, Rebuilding, FileOperations
<1>7. ASSUME NEW f \in Files, DeleteFile(w, p, f) PROVE AloneInv'
  BY <1>1, <1>2, <1>7, NoneAssumption DEF DeleteFile, Rebuilding, FileOperations
<1>8. ASSUME NEW f \in Files, NEW n \in Filenames, ModifyFile(w, p, f, n) PROVE AloneInv'
  BY <1>1, <1>2, <1>8, NoneAssumption DEF ModifyFile, Rebuilding, FileOperations
<1> QED
  BY <1>3, <1>4, <1>5, <1>6, <1>7, <1>8

LEMMA CreatePluginAlone ==
  ASSUME FilesInv, AloneInv, NEW w \in Workers, NEW p \in Plugins, CreatePlugin(w, p)
  PROVE  AloneInv'
PROOF
<1> SUFFICES ASSUME NEW x \in Plugins \ overlapped, plugin'[x] # None
             PROVE  Alone(x)'
  BY DEF AloneInv, CreatePlugin
<1>1. UNCHANGED <<file, request>> /\ plugin \in [Plugins -> Plugin \cup {None}]
      /\ plugin[p] = None
      /\ plugin' = [plugin EXCEPT ![p] =
           [deleted |-> FALSE, latest |-> [files |-> {}, at |-> clock + 1]]]
  BY DEF CreatePlugin, FilesInv, TypeOK
<1>2. CASE x = p
  <2>1. \A v \in Workers : ~Serves(v, p)
    BY <1>1 DEF Serves, FilesInv, RequestOK
  <2>2. LiveFiles(p) = {}
    BY <1>1 DEF LiveFiles, FilesInv, FileOK
  <2>3. LiveFiles(p)' = {} /\ \A v \in Workers : ~Serves(v, p)'
    BY <1>1, <2>1, <2>2 DEF LiveFiles, Serves
  <2> QED
    BY <1>2, <2>3 DEF Alone, Listed, NamesApart, Emptied
<1>3. CASE x # p
  <2>1. Untouched(x) /\ plugin[x] # None
    BY <1>1, <1>3 DEF Untouched
  <2> QED
    BY <2>1, UntouchedKeeps DEF AloneInv
<1> QED
  BY <1>2, <1>3

\* A request moves on or is answered; the plugins of the others are untouched.
LEMMA MoveAlone ==
  ASSUME FilesInv, AloneInv, NEW w \in Workers, request[w] # None,
         NEW q \in Request \cup {None}, request' = [request EXCEPT ![w] = q],
         UNCHANGED <<plugin, file, overlapped>>,
         q # None => q.plugin = request[w].plugin,
         q # None /\ Fresh(request[w]) => Fresh(request[w])'
  PROVE  AloneInv'
PROOF
<1> SUFFICES ASSUME NEW p \in Plugins \ overlapped, plugin[p] # None
             PROVE  Alone(p)'
  BY DEF AloneInv
<1>1. Alone(p) /\ request'[w] = q /\ \A v \in Workers \ {w} : request'[v] = request[v]
  BY DEF AloneInv, FilesInv, TypeOK
<1>2. CASE Serves(w, p) /\ q # None
  <2>1. \A v \in Workers \ {w} : ~Serves(v, p)'
    BY <1>1, <1>2 DEF Alone, Serves
  <2>2. Fresh(request[w])'
    BY <1>1, <1>2 DEF Alone
  <2> QED
    BY <1>1, <2>1, <2>2, MovedKeeps
<1>3. CASE ~(Serves(w, p) /\ q # None)
  <2>1. Untouched(p)
    BY <1>1, <1>3 DEF Untouched, Serves
  <2> QED
    BY <1>1, <2>1, UntouchedKeeps
<1> QED
  BY <1>2, <1>3

LEMMA StampAlone ==
  ASSUME FilesInv, AloneInv, NEW w \in Workers, Stamp(w)
  PROVE  AloneInv'
PROOF
<1> DEFINE q == [request[w] EXCEPT !.phase = "stamped", !.at = clock + 1]
<1>1. request[w] \in Request /\ RequestOK(request[w], plugin, file, clock)
      /\ request[w] # None /\ clock \in Nat /\ request[w].phase = "fetched"
      /\ request \in [Workers -> Request \cup {None}]
      /\ UNCHANGED <<plugin, file, overlapped>>
  BY RecordAssumption DEF Stamp, Serving, FilesInv, TypeOK
<1>2. CASE Answered(w)
  BY <1>1, <1>2, MoveAlone DEF Answered
<1>3. CASE ~FilenameRefused(request[w]) /\ request' = [request EXCEPT ![w] = q]
  <2>1. q \in Request
    <3>1. clock + 1 \in Nat
      BY <1>1
    <3> QED
      BY <1>1, <3>1 DEF Request
  <2>2. /\ q.op = request[w].op /\ q.plugin = request[w].plugin /\ q.file = request[w].file
        /\ q.name = request[w].name /\ q.seen = request[w].seen /\ q.was = request[w].was
        /\ q.doomed = request[w].doomed /\ q.phase = "stamped" /\ q.at = clock + 1
    BY <1>1 DEF Request
  <2>3. request'[w] = q
    BY <1>1, <1>3
  <2> HIDE DEF q
  <2>4. plugin[request[w].plugin].latest.at < q.at
    <3>1. /\ plugin[request[w].plugin] # None /\ request[w].plugin \in Plugins
          /\ plugin[request[w].plugin] \in Plugin
      BY <1>1 DEF RequestOK, Request, FilesInv, TypeOK
    <3>2. plugin[request[w].plugin].latest.at \in Nat
      BY <3>1 DEF Plugin, PluginSnapshot
    <3> QED
      BY <1>1, <2>2, <3>1, <3>2 DEF FilesInv, PluginOK
  <2>5. Fresh(request[w]) => Fresh(request[w])'
    BY <1>1, <1>3, <2>2, <2>3, <2>4
    DEF Fresh, FilenameRefused, FilenameTaken, LiveFiles
  <2> QED
    BY <1>1, <1>3, <2>1, <2>2, <2>5, MoveAlone
<1> QED
  BY <1>2, <1>3 DEF Stamp

LEMMA BuildFileAlone ==
  ASSUME FilesInv, AloneInv, NEW w \in Workers, BuildFile(w)
  PROVE  AloneInv'
PROOF
<1>1. request[w] \in Request /\ RequestOK(request[w], plugin, file, clock)
      /\ request[w] # None /\ clock \in Nat /\ request[w].phase = "stamped"
      /\ request \in [Workers -> Request \cup {None}]
      /\ UNCHANGED <<plugin, file, overlapped>>
      /\ request[w].op \in {"create_file", "modify_file"}
  BY RecordAssumption DEF BuildFile, Serving, FilesInv, TypeOK
<1>2. CASE Answered(w)
  BY <1>1, <1>2, MoveAlone DEF Answered
<1>3. ASSUME NEW f \in IF request[w].op = "create_file" THEN NewFiles
                       ELSE {request[w].file},
             request' = [request EXCEPT
               ![w].phase = "built", ![w].file = f,
               ![w].built = [file |-> f, name |-> request[w].name, at |-> clock + 1]]
      PROVE  AloneInv'
  <2> DEFINE s == [file |-> f, name |-> request[w].name, at |-> clock + 1]
             q == [request[w] EXCEPT !.phase = "built", !.file = f, !.built = s]
  <2>1. f \in Files /\ (request[w].op = "modify_file" => f = request[w].file)
    BY <1>1, <1>3 DEF NewFiles, RequestOK, FileKnown
  <2>2. s \in FileSnapshot /\ s.at = clock + 1
    BY <1>1, <2>1 DEF FileSnapshot, RequestOK
  <2>3. q \in Request
    BY <1>1, <2>1, <2>2 DEF Request
  <2>4. /\ q.op = request[w].op /\ q.plugin = request[w].plugin /\ q.file = f
        /\ q.name = request[w].name /\ q.seen = request[w].seen /\ q.built = s
        /\ q.doomed = request[w].doomed /\ q.phase = "built" /\ q.at = request[w].at
        /\ q.was = request[w].was
    BY <1>1 DEF Request
  <2>5. request' = [request EXCEPT ![w] = q] /\ request'[w] = q
    BY <1>1, <1>3
  <2> HIDE DEF q, s
  <2>6. q.op = "modify_file" => file[f].latest.at < q.built.at
    <3> SUFFICES ASSUME q.op = "modify_file" PROVE file[f].latest.at < q.built.at
      OBVIOUS
    <3>1. file[f] \in File /\ file[f] # None
      BY <1>1, <2>1, <2>4 DEF RequestOK, FileKnown, FilesInv, TypeOK
    <3>2. file[f].latest.at \in Nat /\ file[f].latest.at <= clock
      BY <2>1, <3>1 DEF File, FileSnapshot, FilesInv, FileOK
    <3> QED
      BY <1>1, <2>2, <2>4, <3>2
  <2>7. Fresh(request[w]) => Fresh(request[w])'
    BY <1>1, <2>1, <2>4, <2>5, <2>6
    DEF Fresh, FilenameRefused, FilenameTaken, LiveFiles
  <2> QED
    BY <1>1, <2>3, <2>4, <2>5, <2>7, MoveAlone
<1> QED
  BY <1>2, <1>3 DEF BuildFile

\* A commit is good for every plugin if it is good for the one it is about.
LEMMA CommitAlone ==
  ASSUME FilesInv, AloneInv, NEW w \in Workers, request[w] # None, Answered(w),
         UNCHANGED overlapped, request[w].plugin \in Plugins,
         plugin[request[w].plugin] # None,
         \A x \in Plugins \ {request[w].plugin} : plugin'[x] = plugin[x],
         \A f \in Files : \/ file'[f] = file[f]
                         \/ /\ file'[f] # None /\ file'[f].plugin = request[w].plugin
                            /\ file[f] # None => file[f].plugin = request[w].plugin,
         Alone(request[w].plugin) /\ Fresh(request[w]) =>
           \A p \in {request[w].plugin} : Listed(p)' /\ NamesApart(p)' /\ Emptied(p)'
  PROVE  AloneInv'
PROOF
<1> SUFFICES ASSUME NEW p \in Plugins \ overlapped, plugin'[p] # None
             PROVE  Alone(p)'
  BY DEF AloneInv
<1>1. request'[w] = None /\ \A v \in Workers \ {w} : request'[v] = request[v]
  BY DEF Answered, FilesInv, TypeOK
<1>2. CASE p = request[w].plugin
  <2>1. Alone(p) /\ Serves(w, p)
    BY <1>2 DEF AloneInv, Serves
  <2>2. \A v \in Workers : ~Serves(v, p)'
    BY <1>1, <2>1 DEF Alone, Serves
  <2>3. Listed(p)' /\ NamesApart(p)' /\ Emptied(p)'
    BY <1>2, <2>1 DEF Alone
  <2> QED
    BY <2>2, <2>3 DEF Alone
<1>3. CASE p # request[w].plugin
  <2>1. Untouched(p)
    BY <1>1, <1>3 DEF Untouched, Serves
  <2>2. Alone(p)
    BY <1>3 DEF AloneInv
  <2> QED
    BY <2>1, <2>2, UntouchedKeeps
<1> QED
  BY <1>2, <1>3

\* What a commit lists when its request is fresh: its list is the latest, and
\* has the live files of the plugin except the one that the request is about.
LEMMA FreshList ==
  ASSUME FilesInv, NEW q \in Request, RequestOK(q, plugin, file, clock), Fresh(q),
         Listed(q.plugin), q.op \in Rebuilding, q.phase # "fetched",
         q.op \in {"create_file", "modify_file"} => q.phase = "built",
         ListFiles(q), clock' = clock
  PROVE  /\ ~plugin'[q.plugin].deleted
         /\ plugin'[q.plugin].latest.files = FileList(q)
         /\ \A f \in LiveFiles(q.plugin) \ {q.file} : file[f].latest \in FileList(q)
         /\ q.op = "modify" =>
              \A f \in LiveFiles(q.plugin) : file[f].latest \in FileList(q)
PROOF
<1>1. /\ plugin'[q.plugin].deleted = plugin[q.plugin].deleted
      /\ plugin'[q.plugin].latest =
           Later(plugin[q.plugin].latest, [files |-> FileList(q), at |-> q.at])
  BY ListFilesOK
<1>2. ~plugin[q.plugin].deleted /\ plugin[q.plugin].latest.at < q.at
      /\ q.seen = plugin[q.plugin].latest
  BY DEF Fresh
<1>3. plugin[q.plugin].latest.at \in Nat /\ q.at \in Nat
  <2>1. plugin[q.plugin] \in Plugin
    BY DEF RequestOK, Request, FilesInv, TypeOK
  <2> QED
    BY <2>1 DEF Plugin, PluginSnapshot, Request
<1>4. plugin'[q.plugin].latest = [files |-> FileList(q), at |-> q.at]
  BY <1>1, <1>2, <1>3 DEF Later
<1>5. \A f \in LiveFiles(q.plugin) :
        file[f].latest \in q.seen.files /\ file[f].latest.file = f
  BY <1>2 DEF Listed, LiveFiles, FilesInv, FileOK
<1>6. \A f \in LiveFiles(q.plugin) \ {q.file} : file[f].latest \in FileList(q)
  BY <1>5 DEF FileList, Rebuilding, FileOperations
<1>7. q.op = "modify" => \A f \in LiveFiles(q.plugin) : file[f].latest \in FileList(q)
  BY <1>5 DEF FileList
<1> QED
  BY <1>1, <1>2, <1>4, <1>6, <1>7

LEMMA CommitPluginAlone ==
  ASSUME FilesInv, AloneInv, NEW w \in Workers, CommitPlugin(w)
  PROVE  AloneInv'
PROOF
<1>1. /\ request[w] \in Request /\ RequestOK(request[w], plugin, file, clock)
      /\ request[w].op = "modify" /\ request[w] # None /\ request[w].plugin \in Plugins
      /\ request[w].phase = "stamped"
      /\ ListFiles(request[w]) /\ Answered(w) /\ UNCHANGED <<file, clock, overlapped>>
  BY ReadyOK DEF CommitPlugin, Ready
<1>2. \A x \in Plugins \ {request[w].plugin} : plugin'[x] = plugin[x]
  BY <1>1, ListFilesOK DEF Rebuilding
<1>3. ASSUME Alone(request[w].plugin), Fresh(request[w]), NEW p \in {request[w].plugin}
      PROVE  Listed(p)' /\ NamesApart(p)' /\ Emptied(p)'
  <2>1. /\ ~plugin'[p].deleted
        /\ \A f \in LiveFiles(p) : file[f].latest \in plugin'[p].latest.files
    BY <1>1, <1>3, FreshList DEF Alone, Rebuilding
  <2>2. LiveFiles(p)' = LiveFiles(p)
    BY <1>1 DEF LiveFiles
  <2> QED
    BY <1>1, <1>3, <2>1, <2>2 DEF Listed, NamesApart, Emptied, Alone
<1>4. plugin[request[w].plugin] # None
  BY <1>1 DEF RequestOK
<1> QED
  BY <1>1, <1>2, <1>3, <1>4, CommitAlone

LEMMA CommitNewFileAlone ==
  ASSUME FilesInv, AloneInv, NEW w \in Workers, CommitNewFile(w)
  PROVE  AloneInv'
PROOF
<1> DEFINE q == request[w]
<1>1. /\ q \in Request /\ RequestOK(q, plugin, file, clock) /\ q.op = "create_file"
      /\ q.phase = "built" /\ BuiltOK(q, clock) /\ ListFiles(q) /\ Answered(w)
      /\ UNCHANGED <<clock, overlapped>>
      /\ file' \in [Files -> File \cup {None}] /\ file[q.file] = None
      /\ file'[q.file] = [plugin |-> q.plugin, deleted |-> FALSE, latest |-> q.built]
      /\ file'[q.file] # None
      /\ \A f \in Files \ {q.file} : file'[f] = file[f]
      /\ q # None /\ q.plugin \in Plugins /\ plugin[q.plugin] # None
  BY NewFileStep, ReadyOK DEF CommitNewFile, RequestOK
<1>2. \A x \in Plugins \ {q.plugin} : plugin'[x] = plugin[x]
  BY <1>1, ListFilesOK DEF Rebuilding, FileOperations
<1>3. /\ file'[q.file].plugin = q.plugin /\ ~file'[q.file].deleted
      /\ file'[q.file].latest = q.built /\ q.file \in Files
      /\ q.built.name = q.name
  BY <1>1 DEF BuiltOK
<1>4. ASSUME Alone(q.plugin), Fresh(q), NEW p \in {q.plugin}
      PROVE  Listed(p)' /\ NamesApart(p)' /\ Emptied(p)'
  <2>1. /\ ~plugin'[p].deleted /\ plugin'[p].latest.files = FileList(q)
        /\ \A f \in LiveFiles(p) \ {q.file} : file[f].latest \in FileList(q)
    BY <1>1, <1>4, FreshList DEF Alone, Rebuilding, FileOperations
  <2>2. q.file \notin LiveFiles(p) /\ LiveFiles(p)' = LiveFiles(p) \cup {q.file}
    BY <1>1, <1>3, <1>4 DEF LiveFiles
  <2>3. q.built \in FileList(q)
    BY <1>1 DEF FileList
  <2>4. \A f \in LiveFiles(p) : file[f].latest.name # q.name
    BY <1>1, <1>4 DEF Fresh, FilenameRefused, FilenameTaken
  <2>5. Listed(p)'
    BY <1>1, <1>3, <2>1, <2>2, <2>3 DEF Listed, LiveFiles
  <2>6. \A f \in LiveFiles(p) : file'[f] = file[f]
    BY <1>1, <2>2 DEF LiveFiles
  <2>7. NamesApart(p)'
    BY <1>3, <1>4, <2>2, <2>4, <2>6 DEF NamesApart, Alone
  <2> QED
    BY <2>1, <2>5, <2>7 DEF Emptied
<1>5. \A f \in Files : \/ file'[f] = file[f]
                      \/ /\ file'[f] # None /\ file'[f].plugin = q.plugin
                         /\ file[f] # None => file[f].plugin = q.plugin
  BY <1>1, <1>3
<1> QED
  BY <1>1, <1>2, <1>4, <1>5, CommitAlone

LEMMA CommitFileAlone ==
  ASSUME FilesInv, AloneInv, NEW w \in Workers, CommitFile(w)
  PROVE  AloneInv'
PROOF
<1> DEFINE q == request[w]
<1>1. /\ q \in Request /\ RequestOK(q, plugin, file, clock) /\ q.op = "modify_file"
      /\ q.phase = "built" /\ BuiltOK(q, clock) /\ ListFiles(q) /\ Answered(w)
      /\ UNCHANGED <<clock, overlapped>>
      /\ FileKnown(q, q.file, file) /\ file'[q.file].plugin = q.plugin
      /\ file'[q.file].deleted = file[q.file].deleted
      /\ file'[q.file].latest = Later(file[q.file].latest, q.built)
      /\ file'[q.file] # None /\ \A f \in Files \ {q.file} : file'[f] = file[f]
      /\ q # None /\ q.plugin \in Plugins /\ plugin[q.plugin] # None
  BY FileStep, ReadyOK DEF CommitFile, RequestOK
<1>2. \A x \in Plugins \ {q.plugin} : plugin'[x] = plugin[x]
  BY <1>1, ListFilesOK DEF Rebuilding, FileOperations
<1>3. ASSUME Alone(q.plugin), Fresh(q), NEW p \in {q.plugin}
      PROVE  Listed(p)' /\ NamesApart(p)' /\ Emptied(p)'
  <2>1. /\ ~plugin'[p].deleted /\ plugin'[p].latest.files = FileList(q)
        /\ \A f \in LiveFiles(p) \ {q.file} : file[f].latest \in FileList(q)
    BY <1>1, <1>3, FreshList DEF Alone, Rebuilding, FileOperations
  <2>2. q.file \in LiveFiles(p) /\ LiveFiles(p)' = LiveFiles(p)
    BY <1>1, <1>3 DEF LiveFiles, FileKnown, Fresh
  <2>3. file'[q.file].latest = q.built
    <3>1. file[q.file].latest.at < q.built.at
      BY <1>1, <1>3 DEF Fresh
    <3>2. file[q.file].latest.at \in Nat /\ q.built.at \in Nat
      BY <1>1 DEF FileKnown, FilesInv, TypeOK, File, FileSnapshot, BuiltOK
    <3> QED
      BY <1>1, <3>1, <3>2 DEF Later
  <2>4. q.built \in FileList(q) /\ q.built.name = q.name
    BY <1>1 DEF FileList, BuiltOK
  <2>5. Listed(p)'
    BY <1>1, <2>1, <2>2, <2>3, <2>4 DEF Listed, LiveFiles
  <2>6. \A f \in LiveFiles(p) \ {q.file} : file'[f] = file[f]
    BY <1>1 DEF LiveFiles
  <2>7. q.name = file[q.file].latest.name
        \/ \A f \in LiveFiles(p) : file[f].latest.name # q.name
    BY <1>1, <1>3 DEF Fresh, FilenameRefused, FilenameTaken
  <2>8. NamesApart(p)'
    BY <1>3, <2>2, <2>3, <2>4, <2>6, <2>7 DEF NamesApart, Alone
  <2> QED
    BY <2>1, <2>5, <2>8 DEF Emptied
<1>4. \A f \in Files : \/ file'[f] = file[f]
                      \/ /\ file'[f] # None /\ file'[f].plugin = q.plugin
                         /\ file[f] # None => file[f].plugin = q.plugin
  BY <1>1 DEF FileKnown
<1> QED
  BY <1>1, <1>2, <1>3, <1>4, CommitAlone

LEMMA CommitFileDeletionAlone ==
  ASSUME FilesInv, AloneInv, NEW w \in Workers, CommitFileDeletion(w)
  PROVE  AloneInv'
PROOF
<1> DEFINE q == request[w]
<1>1. /\ q \in Request /\ RequestOK(q, plugin, file, clock) /\ Answered(w)
      /\ UNCHANGED <<clock, overlapped>> /\ q # None /\ q.plugin \in Plugins
      /\ plugin[q.plugin] # None /\ q.phase = "stamped"
  BY ReadyOK DEF CommitFileDeletion, RequestOK, Ready
<1>2. CASE file[q.file].deleted
  <2>1. UNCHANGED <<plugin, file>> /\ request' = [request EXCEPT ![w] = None]
    BY <1>1, <1>2 DEF CommitFileDeletion, Answered
  <2> QED
    BY <1>1, <2>1, MoveAlone
<1>3. CASE ~file[q.file].deleted
  <2>1. /\ q.op = "delete_file" /\ ListFiles(q) /\ clock' = clock
        /\ FileKnown(q, q.file, file) /\ LockFiles({q.file})
    BY <1>3, DeletionStep
  <2>2. /\ \A x \in Plugins \ {q.plugin} : plugin'[x] = plugin[x]
        /\ \A x \in Plugins : plugin[x] # None => plugin'[x] # None
    BY <1>1, <2>1, ListFilesOK DEF Rebuilding, FileOperations
  <2>3. file'[q.file].deleted /\ file'[q.file] # None /\ file'[q.file].plugin = q.plugin
    BY <2>1, <2>2, LockFilesOK DEF FileKnown
  <2>4. \A f \in Files \ {q.file} : file'[f] = file[f]
    BY <2>1 DEF LockFiles
  <2>5. ASSUME Alone(q.plugin), Fresh(q), NEW p \in {q.plugin}
        PROVE  Listed(p)' /\ NamesApart(p)' /\ Emptied(p)'
    <3>1. /\ ~plugin'[p].deleted /\ plugin'[p].latest.files = FileList(q)
          /\ \A f \in LiveFiles(p) \ {q.file} : file[f].latest \in FileList(q)
      BY <1>1, <2>1, <2>5, FreshList DEF Alone, Rebuilding, FileOperations
    <3>2. LiveFiles(p)' = LiveFiles(p) \ {q.file}
      BY <2>3, <2>4 DEF LiveFiles
    <3>3. \A f \in LiveFiles(p) \ {q.file} : file'[f] = file[f]
      BY <2>4 DEF LiveFiles
    <3> QED
      BY <2>5, <3>1, <3>2, <3>3 DEF Listed, NamesApart, Emptied, Alone
  <2>6. \A f \in Files : \/ file'[f] = file[f]
                        \/ /\ file'[f] # None /\ file'[f].plugin = q.plugin
                           /\ file[f] # None => file[f].plugin = q.plugin
    BY <2>1, <2>3, <2>4 DEF FileKnown
  <2> QED
    BY <1>1, <2>2, <2>5, <2>6, CommitAlone
<1> QED
  BY <1>2, <1>3

\* The files that a deletion found, when they are all there is.
LEMMA AllLocked ==
  ASSUME FilesInv, NEW q \in Request, RequestOK(q, plugin, file, clock), LockFiles(q.doomed),
         clock' = clock, \A x \in Plugins : plugin[x] # None => plugin'[x] # None
  PROVE  /\ \A f \in Files : \/ file'[f] = file[f]
                            \/ /\ file'[f] # None /\ file'[f].plugin = q.plugin
                               /\ file[f] # None => file[f].plugin = q.plugin
         /\ q.doomed = LiveFiles(q.plugin) => LiveFiles(q.plugin) \cap {f \in Files :
              file'[f] # None /\ ~file'[f].deleted} = {}
         /\ \A f \in Files \ q.doomed : file'[f] = file[f]
PROOF
<1>1. \A f \in q.doomed : FileKnown(q, f, file)
  BY DEF RequestOK
<1>2. \A f \in Files \ q.doomed : file'[f] = file[f]
  BY DEF LockFiles
<1>3. \A f \in q.doomed : file'[f] # None /\ file'[f].plugin = q.plugin /\ file'[f].deleted
  BY <1>1, LockFilesOK DEF FileKnown
<1> QED
  BY <1>1, <1>2, <1>3 DEF FileKnown, LiveFiles

LEMMA PluginDeletionAlone ==
  ASSUME FilesInv, AloneInv, NEW w \in Workers, CommitPluginDeletion(w)
  PROVE  AloneInv'
PROOF
<1> DEFINE q == request[w]
<1>1. /\ q \in Request /\ RequestOK(q, plugin, file, clock) /\ Answered(w)
      /\ UNCHANGED <<clock, overlapped>> /\ q # None /\ q.plugin \in Plugins
      /\ plugin[q.plugin] # None /\ q.op = "delete"
  BY ReadyOK DEF CommitPluginDeletion, RequestOK
<1>2. CASE plugin[q.plugin].deleted \/ \E f \in q.doomed : file[f].deleted
  <2>1. UNCHANGED <<plugin, file>> /\ request' = [request EXCEPT ![w] = None]
    BY <1>1, <1>2 DEF CommitPluginDeletion, Answered
  <2> QED
    BY <1>1, <2>1, MoveAlone
<1>3. CASE ~(plugin[q.plugin].deleted \/ \E f \in q.doomed : file[f].deleted)
  <2>1. plugin' = [plugin EXCEPT ![q.plugin].deleted = TRUE] /\ LockFiles(q.doomed)
    BY <1>3 DEF CommitPluginDeletion
  <2>2. /\ \A x \in Plugins \ {q.plugin} : plugin'[x] = plugin[x]
        /\ \A x \in Plugins : plugin[x] # None => plugin'[x] # None
    <3>1. plugin' \in [Plugins -> Plugin \cup {None}] /\ plugin'[q.plugin] \in Plugin
      BY <1>1, <2>1 DEF FilesInv, TypeOK, Plugin
    <3>2. plugin'[q.plugin] # None
      BY <3>1, RecordAssumption
    <3> QED
      BY <1>1, <2>1, <3>2 DEF FilesInv, TypeOK
  <2>3. /\ \A f \in Files : \/ file'[f] = file[f]
                           \/ /\ file'[f] # None /\ file'[f].plugin = q.plugin
                              /\ file[f] # None => file[f].plugin = q.plugin
        /\ q.doomed = LiveFiles(q.plugin) => LiveFiles(q.plugin) \cap {f \in Files :
             file'[f] # None /\ ~file'[f].deleted} = {}
        /\ \A f \in Files \ q.doomed : file'[f] = file[f]
    BY <1>1, <2>1, <2>2, AllLocked
  <2>4. ASSUME Alone(q.plugin), Fresh(q), NEW p \in {q.plugin}
        PROVE  Listed(p)' /\ NamesApart(p)' /\ Emptied(p)'
    <3>1. LiveFiles(p)' = {}
      BY <1>1, <2>3, <2>4 DEF Fresh, LiveFiles
    <3> QED
      BY <3>1 DEF Listed, NamesApart, Emptied
  <2> QED
    BY <1>1, <2>2, <2>3, <2>4, CommitAlone
<1> QED
  BY <1>2, <1>3

LEMMA CommitAllDeletionAlone ==
  ASSUME FilesInv, AloneInv, NEW w \in Workers, CommitAllDeletion(w)
  PROVE  AloneInv'
PROOF
<1> DEFINE q == request[w]
<1>1. /\ q \in Request /\ RequestOK(q, plugin, file, clock) /\ Answered(w)
      /\ UNCHANGED <<plugin, clock, overlapped>> /\ q # None /\ q.plugin \in Plugins
      /\ plugin[q.plugin] # None /\ q.op = "delete_all"
  BY ReadyOK DEF CommitAllDeletion, RequestOK
<1>2. CASE \E f \in q.doomed : file[f].deleted
  <2>1. UNCHANGED file /\ request' = [request EXCEPT ![w] = None]
    BY <1>1, <1>2 DEF CommitAllDeletion, Answered
  <2> QED
    BY <1>1, <2>1, MoveAlone
<1>3. CASE ~\E f \in q.doomed : file[f].deleted
  <2>1. LockFiles(q.doomed)
    BY <1>3 DEF CommitAllDeletion
  <2>2. /\ \A f \in Files : \/ file'[f] = file[f]
                           \/ /\ file'[f] # None /\ file'[f].plugin = q.plugin
                              /\ file[f] # None => file[f].plugin = q.plugin
        /\ q.doomed = LiveFiles(q.plugin) => LiveFiles(q.plugin) \cap {f \in Files :
             file'[f] # None /\ ~file'[f].deleted} = {}
        /\ \A f \in Files \ q.doomed : file'[f] = file[f]
    BY <1>1, <2>1, AllLocked
  <2>3. ASSUME Alone(q.plugin), Fresh(q), NEW p \in {q.plugin}
        PROVE  Listed(p)' /\ NamesApart(p)' /\ Emptied(p)'
    <3>1. LiveFiles(p)' = {}
      BY <1>1, <2>2, <2>3 DEF Fresh, LiveFiles
    <3> QED
      BY <3>1 DEF Listed, NamesApart, Emptied
  <2> QED
    BY <1>1, <2>2, <2>3, CommitAlone
<1> QED
  BY <1>2, <1>3

LEMMA AloneInit == Init => AloneInv
BY DEF Init, AloneInv

LEMMA AloneNext ==
  ASSUME FilesInv, AloneInv, [Next]_vars
  PROVE  AloneInv'
PROOF
<1>1. CASE UNCHANGED vars
  <2>1. UNCHANGED <<plugin, file, request, clock, received, overlapped>>
    BY <1>1 DEF vars
  <2>2. \A p \in Plugins : Untouched(p)
    BY <2>1 DEF Untouched
  <2> QED
    BY <2>1, <2>2, UntouchedKeeps DEF AloneInv
<1>2. ASSUME NEW w \in Workers, Arrive(w) PROVE AloneInv'
  BY <1>2, CreatePluginAlone, ArrivalsAlone DEF Arrive
<1>3. ASSUME NEW w \in Workers, Stamp(w) \/ BuildFile(w) PROVE AloneInv'
  BY <1>3, StampAlone, BuildFileAlone
<1>4. ASSUME NEW w \in Workers, Commit(w) PROVE AloneInv'
  BY <1>4, CommitPluginAlone, CommitNewFileAlone, CommitFileAlone,
     CommitFileDeletionAlone, PluginDeletionAlone, CommitAllDeletionAlone
  DEF Commit
<1> QED
  BY <1>1, <1>2, <1>3, <1>4 DEF Next

LEMMA FilesInvariant == Spec => [](FilesInv /\ AloneInv)
PROOF
<1>1. Init => AloneInv
  BY AloneInit
<1>2. FilesInv /\ AloneInv /\ [Next]_vars => AloneInv'
  BY AloneNext
<1> QED
  BY <1>1, <1>2, FilesCorrect, PTL DEF Spec

\* While the requests for a plugin do not overlap, its latest snapshot lists
\* its live files in their latest versions, and none of them outlives the
\* plugin.
THEOREM AloneCorrect == Spec => [](LiveFilesListed /\ NoFileSurvives)
PROOF
<1>1. FilesInv /\ AloneInv => LiveFilesListed
  BY DEF LiveFilesListed, LivePlugins, AloneInv, Alone, Listed
<1>2. FilesInv /\ AloneInv => NoFileSurvives
  BY DEF NoFileSurvives, AloneInv, Alone, Emptied
<1> QED
  BY <1>1, <1>2, FilesInvariant, PTL

\* Its live files have names of their own: what the look-up of the name found
\* is still so at the commit.
THEOREM NamesKeptApart == Spec => []FilenamesUnique
PROOF
<1>1. ASSUME FilesInv, AloneInv, NEW p \in Plugins \ overlapped, plugin[p] = None
      PROVE  LiveFiles(p) = {}
  BY <1>1 DEF FilesInv, FileOK, LiveFiles
<1>2. FilesInv /\ AloneInv => FilenamesUnique
  BY <1>1 DEF FilenamesUnique, AloneInv, Alone, NamesApart
<1> QED
  BY <1>2, FilesInvariant, PTL

=============================================================================
