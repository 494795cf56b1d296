---------------------------- MODULE PluginFiles -----------------------------
(***************************************************************************)
(* Plugins and their files.  A snapshot of a plugin lists snapshots of its *)
(* files, and what a job downloads is what a plugin snapshot lists.  Every *)
(* change of a file therefore writes a new snapshot of the plugin, made    *)
(* from the one that the request read when it began.                       *)
(*                                                                         *)
(* A worker of the API reads, checks, builds and commits, and another      *)
(* worker may commit in between.  Snapshots are stamped when they are      *)
(* built, the plugin's before the file's, and the latest is the one with   *)
(* the largest stamp, whatever the order of the commits.  Only the latest  *)
(* snapshots are kept here: older ones never change.  The name of the      *)
(* plugin itself is left to ResourceStore.                                 *)
(***************************************************************************)
EXTENDS Naturals, FiniteSets

CONSTANTS
  Plugins, Files,   \* resource ids the database can hand out
  Filenames,
  Workers,          \* worker processes of the REST API
  MaxRequests,      \* bound: requests received in one behaviour
  None

ASSUME NoneAssumption == None \notin Files /\ None \notin Filenames
ASSUME BoundAssumption == MaxRequests \in Nat

VARIABLES
  plugin,      \* each plugin: its delete lock and latest snapshot, or None
  file,        \* each file: its plugin, delete lock and latest snapshot, or None
  request,     \* what each worker is serving, None when idle
  clock, received,
  overlapped   \* history: plugins with two requests served at a time

vars == <<plugin, file, request, clock, received, overlapped>>

FileSnapshot == [file : Files, name : Filenames, at : Nat]
PluginSnapshot == [files : SUBSET FileSnapshot, at : Nat]
Plugin == [deleted : BOOLEAN, latest : PluginSnapshot]
File == [plugin : Plugins, deleted : BOOLEAN, latest : FileSnapshot]
NoSnapshot == [files |-> {}, at |-> 0]
FileOperations == {"create_file", "modify_file", "delete_file"}
Rebuilding == FileOperations \cup {"modify"}  \* those that write a plugin snapshot
Request ==
  [op : Rebuilding \cup {"delete", "delete_all"}, plugin : Plugins,
   file : Files \cup {None}, name : Filenames \cup {None},
   was : Filenames \cup {None},  \* the name of the file to modify when it was read
   seen : PluginSnapshot,     \* the plugin's latest snapshot when it was read
   doomed : SUBSET Files,     \* the files that a deletion found
   at : Nat,                  \* stamp of the plugin snapshot it writes
   built : FileSnapshot \cup {None},
   phase : {"fetched", "stamped", "built"}]
ASSUME RecordAssumption ==
  None \notin Plugin /\ None \notin File /\ None \notin Request
  /\ None \notin FileSnapshot

TypeOK ==
  /\ plugin \in [Plugins -> Plugin \cup {None}]
  /\ file \in [Files -> File \cup {None}]
  /\ request \in [Workers -> Request \cup {None}]
  /\ clock \in Nat /\ received \in Nat
  /\ overlapped \in SUBSET Plugins

Init ==
  /\ plugin = [p \in Plugins |-> None]
  /\ file = [f \in Files |-> None]
  /\ request = [w \in Workers |-> None]
  /\ clock = 0 /\ received = 0
  /\ overlapped = {}

-----------------------------------------------------------------------------
(* What a query sees                                                       *)

LivePlugins == {p \in Plugins : plugin[p] # None /\ ~plugin[p].deleted}
LiveFiles(p) ==
  {f \in Files : file[f] # None /\ file[f].plugin = p /\ ~file[f].deleted}

\* PluginFileNameService.get(): a live file whose latest snapshot has the name.
FilenameTaken(p, n) == \E f \in LiveFiles(p) : file[f].latest.name = n

Serving(w, phases) == request[w] # None /\ request[w].phase \in phases
Busy(p) == \E w \in Workers : request[w] # None /\ request[w].plugin = p

-----------------------------------------------------------------------------
(* Receiving a request: the reads at its head                              *)

Order(op, p, f, n, doomed) ==
  [op |-> op, plugin |-> p, file |-> f, name |-> n,
   was |-> IF f = None THEN None ELSE file[f].latest.name,
   seen |-> plugin[p].latest, doomed |-> doomed, at |-> 0, built |-> None,
   phase |-> "fetched"]

Answered(w) == request' = [request EXCEPT ![w] = None]

\* A plugin that is not found, deleted included, is refused here and leaves
\* no trace; so is a file that is not a live file of the plugin.
Receive(w, q) ==
  /\ request[w] = None
  /\ received < MaxRequests
  /\ q.plugin \in LivePlugins
  /\ received' = received + 1
  /\ request' = [request EXCEPT ![w] = q]
  /\ overlapped' = IF Busy(q.plugin) THEN overlapped \cup {q.plugin} ELSE overlapped
  /\ UNCHANGED <<plugin, file, clock>>

ModifyPlugin(w, p) == Receive(w, Order("modify", p, None, None, {}))
CreateFile(w, p, n) == Receive(w, Order("create_file", p, None, n, {}))
ModifyFile(w, p, f, n) ==
  f \in LiveFiles(p) /\ Receive(w, Order("modify_file", p, f, n, {}))
DeleteFile(w, p, f) ==
  f \in LiveFiles(p) /\ Receive(w, Order("delete_file", p, f, None, {}))
\* The deletions find their files here and lock them when they commit.
DeletePlugin(w, p) == Receive(w, Order("delete", p, None, None, LiveFiles(p)))
DeleteAllFiles(w, p) == Receive(w, Order("delete_all", p, None, None, LiveFiles(p)))

\* PluginService.create(); nobody knows the new id before the commit.
CreatePlugin(w, p) ==
  /\ request[w] = None
  /\ received < MaxRequests
  /\ plugin[p] = None
  /\ received' = received + 1
  /\ clock' = clock + 1
  /\ plugin' = [plugin EXCEPT ![p] =
       [deleted |-> FALSE, latest |-> [files |-> {}, at |-> clock + 1]]]
  /\ UNCHANGED <<file, request, overlapped>>

-----------------------------------------------------------------------------
(* Checks, and the snapshots a request builds                              *)

\* Mutant: modify() of a file looks no filename up.
FilenameRefusedOnCreation(q) == q.op = "create_file" /\ FilenameTaken(q.plugin, q.name)

\* create() looks the filename up, modify() only when it is to change.
FilenameRefused(q) ==
  /\ \/ q.op = "create_file"
     \/ q.op = "modify_file" /\ q.name # q.was
  /\ FilenameTaken(q.plugin, q.name)

Stamp(w) ==
  /\ Serving(w, {"fetched"}) /\ request[w].op \in Rebuilding
  /\ IF FilenameRefused(request[w])
     THEN Answered(w) /\ UNCHANGED clock
     ELSE /\ clock' = clock + 1
          /\ request' = [request EXCEPT ![w].phase = "stamped", ![w].at = clock + 1]
  /\ UNCHANGED <<plugin, file, received, overlapped>>

NewFiles == {f \in Files : file[f] = None /\
               \A w \in Workers : request[w] # None =>
                 ~(request[w].op = "create_file" /\ request[w].file = f)}

\* The new snapshot of a file is stamped and its tasks are built, which may
\* fail: task names must differ and the types they name must exist.
BuildFile(w) ==
  /\ Serving(w, {"stamped"}) /\ request[w].op \in {"create_file", "modify_file"}
  /\ \/ /\ clock' = clock + 1
        /\ \E f \in IF request[w].op = "create_file" THEN NewFiles
                    ELSE {request[w].file} :
             request' = [request EXCEPT
               ![w].phase = "built", ![w].file = f,
               ![w].built = [file |-> f, name |-> request[w].name, at |-> clock + 1]]
     \/ Answered(w) /\ UNCHANGED clock
  /\ UNCHANGED <<plugin, file, received, overlapped>>

\* Mutant: modify() of a file adds the new snapshot beside the old one.
FileListAppended(q) ==
  CASE q.op = "modify" -> q.seen.files
    [] q.op = "delete_file" -> {s \in q.seen.files : s.file # q.file}
    [] OTHER -> q.seen.files \cup {q.built}

\* Mutant: modify() of the plugin forgets to copy the files.
FileListForgotten(q) ==
  CASE q.op = "modify" -> {}
    [] q.op = "delete_file" -> {s \in q.seen.files : s.file # q.file}
    [] OTHER -> {s \in q.seen.files : s.file # q.file} \cup {q.built}

\* Mutant: create() of a file lists the new file alone.
FileListOfOne(q) ==
  CASE q.op = "modify" -> q.seen.files
    [] q.op = "delete_file" -> {s \in q.seen.files : s.file # q.file}
    [] OTHER -> {q.built}

\* The list of the new plugin snapshot: the one read, with the file added,
\* replaced or left out.
FileList(q) ==
  CASE q.op = "modify" -> q.seen.files
    [] q.op = "delete_file" -> {s \in q.seen.files : s.file # q.file}
    [] OTHER -> {s \in q.seen.files : s.file # q.file} \cup {q.built}

-----------------------------------------------------------------------------
(* Commits                                                                 *)

Ready(w, op) ==
  /\ request[w] # None /\ request[w].op = op
  /\ request[w].phase = CASE op \in {"create_file", "modify_file"} -> "built"
                          [] op \in {"modify", "delete_file"} -> "stamped"
                          [] OTHER -> "fetched"

\* Of two snapshots the one with the larger stamp is the latest.
Later(old, new) == IF new.at > old.at THEN new ELSE old

ListFiles(q) ==
  plugin' = [plugin EXCEPT ![q.plugin].latest =
               Later(@, [files |-> FileList(q), at |-> q.at])]

CommitPlugin(w) ==
  /\ Ready(w, "modify")
  /\ ListFiles(request[w])
  /\ Answered(w)
  /\ UNCHANGED <<file, clock, received, overlapped>>

CommitNewFile(w) ==
  /\ Ready(w, "create_file")
  /\ LET q == request[w] IN
     /\ ListFiles(q)
     /\ file' = [file EXCEPT ![q.file] =
                   [plugin |-> q.plugin, deleted |-> FALSE, latest |-> q.built]]
  /\ Answered(w)
  /\ UNCHANGED <<clock, received, overlapped>>

CommitFile(w) ==
  /\ Ready(w, "modify_file")
  /\ LET q == request[w] IN
     /\ ListFiles(q)
     /\ file' = [file EXCEPT ![q.file].latest = Later(@, q.built)]
  /\ Answered(w)
  /\ UNCHANGED <<clock, received, overlapped>>

\* A lock row that exists already violates the key of resource_locks, and
\* the whole transaction is rolled back.
CommitFileDeletion(w) ==
  /\ Ready(w, "delete_file")
  /\ LET q == request[w] IN
     IF file[q.file].deleted
     THEN UNCHANGED <<plugin, file>>
     ELSE /\ ListFiles(q)
          /\ file' = [file EXCEPT ![q.file].deleted = TRUE]
  /\ Answered(w)
  /\ UNCHANGED <<clock, received, overlapped>>

LockFiles(files) ==
  file' = [f \in Files |-> IF f \in files THEN [file[f] EXCEPT !.deleted = TRUE]
                           ELSE file[f]]

\* PluginIdService.delete(): the plugin and the files found are locked.
CommitPluginDeletion(w) ==
  /\ Ready(w, "delete")
  /\ LET q == request[w] IN
     IF plugin[q.plugin].deleted \/ \E f \in q.doomed : file[f].deleted
     THEN UNCHANGED <<plugin, file>>
     ELSE /\ plugin' = [plugin EXCEPT ![q.plugin].deleted = TRUE]
          /\ LockFiles(q.doomed)
  /\ Answered(w)
  /\ UNCHANGED <<clock, received, overlapped>>

\* PluginIdFileService.delete(): the files are locked and the plugin keeps
\* the snapshot that lists them.
CommitAllDeletion(w) ==
  /\ Ready(w, "delete_all")
  /\ LET q == request[w] IN
     IF \E f \in q.doomed : file[f].deleted THEN UNCHANGED file ELSE LockFiles(q.doomed)
  /\ Answered(w)
  /\ UNCHANGED <<plugin, clock, received, overlapped>>

Commit(w) ==
  \/ CommitPlugin(w) \/ CommitNewFile(w) \/ CommitFile(w)
  \/ CommitFileDeletion(w) \/ CommitPluginDeletion(w) \/ CommitAllDeletion(w)

Arrive(w) ==
  \E p \in Plugins :
    \/ CreatePlugin(w, p)
    \/ plugin[p] # None /\ \/ ModifyPlugin(w, p) \/ DeletePlugin(w, p)
                           \/ DeleteAllFiles(w, p)
                           \/ \E n \in Filenames : CreateFile(w, p, n)
                           \/ \E f \in Files : DeleteFile(w, p, f)
                           \/ \E f \in Files, n \in Filenames : ModifyFile(w, p, f, n)

Next == \E w \in Workers : Arrive(w) \/ Stamp(w) \/ BuildFile(w) \/ Commit(w)

Spec == Init /\ [][Next]_vars

-----------------------------------------------------------------------------
(* Properties                                                              *)

\* The latest snapshot of a plugin lists no file twice, however requests
\* overlap: the key of plugin_plugin_files would allow two snapshots of one.
FilesListedOnce ==
  \A p \in Plugins : plugin[p] # None =>
    \A s, t \in plugin[p].latest.files : s.file = t.file => s = t

\* A job that runs the latest snapshot of a plugin gets every live file in
\* its latest version, unless requests for the plugin overlapped: the file
\* list is written from a read at the head of the request.
LiveFilesListed ==
  \A p \in LivePlugins \ overlapped :
    \A f \in LiveFiles(p) : file[f].latest \in plugin[p].latest.files

\* No two live files of a plugin have one name, unless requests overlapped:
\* the look-up of the filename is the only thing that keeps them apart.
FilenamesUnique ==
  \A p \in Plugins \ overlapped :
    \A f, g \in LiveFiles(p) : file[f].latest.name = file[g].latest.name => f = g

\* The files of a deleted plugin are deleted, unless requests overlapped:
\* the plugin's deletion locks those it found before it commits.
NoFileSurvives ==
  \A p \in Plugins \ overlapped :
    plugin[p] # None /\ plugin[p].deleted => LiveFiles(p) = {}

Dropped(p, s) ==
  s \in plugin[p].latest.files /\ s \notin plugin'[p].latest.files

\* However requests overlap, a live file leaves the latest snapshot of its
\* plugin only by a request for this file or by one whose read of the
\* plugin is stale when it commits.
OnlyStaleCommitsDrop ==
  [][\A p \in Plugins : plugin[p] # None =>
       \A s \in plugin[p].latest.files : Dropped(p, s) =>
         \E w \in Workers :
           /\ request[w] # None /\ request'[w] = None
           /\ request[w].plugin = p
           /\ request[w].file = s.file \/ request[w].seen # plugin[p].latest]_vars

=============================================================================
