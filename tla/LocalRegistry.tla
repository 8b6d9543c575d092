---------------------------- MODULE LocalRegistry ----------------------------
(***************************************************************************)
(* The registry of a directory tree (registry/local): New walks the spec,  *)
(* source and destination directories and builds three indexes; the        *)
(* Watcher rebuilds them after every event on a .yaml file, while editors  *)
(* keep changing the tree and readers query the index.                     *)
(*                                                                         *)
(* A reload is a walk: a directory is listed when it is entered, a file is *)
(* read when its turn comes, and the tree may change in between.  Only the *)
(* last step, under the write lock, changes the indexes.                   *)
(*                                                                         *)
(* The file system and fsnotify are external: an event is raised for a     *)
(* change in a directory that has been added to the watcher, and it is     *)
(* lost when the kernel's queue is full.                                   *)
(***************************************************************************)
EXTENDS RegistryQueries, TLC

CONSTANTS
  Dirs, Files,      \* the directories and .yaml files that may exist
  SpecsDir,         \* the directory of the events
  Roots,            \* SpecsDir, SourcesDir and DestinationsDir, as far as configured
  Parent,           \* Parent[n]: the directory of a file, or of a directory that is no root
  Rank,             \* Rank[n]: the place of n in a walk of everything that may exist
  KindOf,           \* KindOf[f]: "event", "source" or "destination", by its root
  Versions,         \* Versions[f]: the definitions an editor may save in f
  InitDirs,         \* directories that exist at first
  QueueMax,         \* capacity of the queue of events
  MaxEdits          \* bound on the changes to the tree

Kinds == {"event", "source", "destination"}
Nodes == Dirs \cup Files

\* The roots are apart from each other; an entry comes after its directory.
ASSUME TreeAssumption ==
  /\ Dirs \cap Files = {} /\ SpecsDir \in Roots /\ Roots \subseteq Dirs
  /\ Parent \in [Nodes \ Roots -> Dirs]
  /\ Rank \in [Nodes -> Nat]
  /\ \A m, n \in Nodes : Rank[m] = Rank[n] => m = n
  /\ \A n \in Nodes \ Roots : Rank[Parent[n]] < Rank[n]

\* A walk is depth first: what it meets between a directory and one of its entries
\* is inside that directory.
ASSUME WalkAssumption ==
  \A m \in Nodes, n \in Nodes \ Roots :
    Rank[Parent[n]] < Rank[m] /\ Rank[m] < Rank[n] =>
      m \notin Roots /\ Rank[Parent[n]] <= Rank[Parent[m]]

ASSUME ContentsAssumption ==
  /\ KindOf \in [Files -> Kinds]
  /\ \A f \in Files : KindOf[f] = "event" =>
       \A def \in Versions[f] : def.ver.num \in {<< >>} \cup (Nat \X Nat \X Nat)
  /\ InitDirs \subseteq Dirs /\ \A d \in InitDirs \ Roots : Parent[d] \in InitDirs

ASSUME BoundAssumption == QueueMax \in Nat /\ MaxEdits \in Nat

VARIABLES
  disk,     \* [Files -> what the file holds]
  dirs,     \* directories that exist
  watched,  \* directories added to the fsnotify watcher
  notes,    \* queued fsnotify events
  index,    \* Resolver.events, srcs and dsts
  walk,     \* the walk under way: entries listed and not visited yet, what was loaded
  pc,       \* where New, NewWatcher and Start have got to
  silent,   \* a change raised no event that Start handles, since the last walk began
  edits     \* changes made so far

vars == << disk, dirs, watched, notes, index, walk, pc, silent, edits >>

\* What a file may hold.  An empty file is what an editor leaves between
\* truncating and writing: it parses to a definition without fields.
Absent == [form |-> "absent"]
Empty  == [form |-> "empty"]
Broken == [form |-> "broken"]
Doc(def) == [form |-> "doc", def |-> def]

NoIndex == [k \in Kinds |-> << >>]

\* WalkEventDefs skips a file without $schema; walkSources and walkDestinations
\* index the definition without a name that an empty file parses to.
IndexKey(kind, c) ==
  CASE kind = "event"   -> eventKey(c.def)
    [] c.form = "empty" -> << "" >>
    [] OTHER            -> << c.def.name >>

Indexed(kind, c) == c.form = "doc" \/ (c.form = "empty" /\ kind # "event")

\* A later file with the same key replaces the earlier one.
Store(got, kind, c) ==
  IF Indexed(kind, c)
  THEN [got EXCEPT ![kind] =
          [k \in DOMAIN @ \cup {IndexKey(kind, c)} |->
             IF k = IndexKey(kind, c) THEN c ELSE @[k]]]
  ELSE got

Exists(n) == IF n \in Dirs THEN n \in dirs ELSE disk[n] # Absent

\* The entries WalkDir lists when it enters d.
Entries(d) == {n \in DOMAIN Parent : Parent[n] = d /\ Exists(n)}

\* A missing SourcesDir or DestinationsDir is ignored, a missing SpecsDir is not.
Optional(n) == n \in Roots /\ n # SpecsDir

-----------------------------------------------------------------------------
(* The walk of reload.                                                     *)

\* Mutant: a reload keeps the entries of the index.
KeptWalk == [pending |-> Roots, got |-> index]

\* reload starts from empty indexes.
FreshWalk == [pending |-> Roots, got |-> NoIndex]

Walking == pc \in {"loading", "reloading"}

\* The entry a walk takes up next: the entries of a directory follow it at once.
Turn(n) == n \in walk.pending /\ \A m \in walk.pending : Rank[n] <= Rank[m]

\* A walk that fails leaves the index alone: New returns the error, Start drops it.
WalkFails ==
  /\ pc' = IF pc = "loading" THEN "failed" ELSE "waiting"
  /\ walk' = [pending |-> {}, got |-> NoIndex]

\* Entering a directory lists it; one that has gone since it was listed is an error.
VisitDir(d) ==
  /\ Walking /\ Turn(d)
  /\ \/ /\ d \in dirs
        /\ walk' = [walk EXCEPT !.pending = (@ \ {d}) \cup Entries(d)]
        /\ UNCHANGED pc
     \/ /\ d \notin dirs /\ Optional(d)
        /\ walk' = [walk EXCEPT !.pending = @ \ {d}]
        /\ UNCHANGED pc
     \/ /\ d \notin dirs /\ ~Optional(d)
        /\ WalkFails
  /\ UNCHANGED << disk, dirs, watched, notes, index, silent, edits >>

\* LoadEventDef, LoadSourceDef, LoadDestinationDef: a file that cannot be read or
\* parsed fails the reload (for events once the rest of the tree has been read).
Loadable(c) == c.form \in {"empty", "doc"}

VisitFile(f) ==
  /\ Walking /\ Turn(f)
  /\ \/ /\ Loadable(disk[f])
        /\ walk' = [pending |-> walk.pending \ {f},
                    got     |-> Store(walk.got, KindOf[f], disk[f])]
        /\ UNCHANGED pc
     \/ /\ ~Loadable(disk[f])
        /\ WalkFails
  /\ UNCHANGED << disk, dirs, watched, notes, index, silent, edits >>

\* The write lock: all three indexes at once.
Install ==
  /\ Walking /\ walk.pending = {}
  /\ index' = walk.got
  /\ walk' = [pending |-> IF pc = "loading" THEN Roots ELSE {}, got |-> NoIndex]
  /\ pc' = IF pc = "loading" THEN "adding" ELSE "waiting"
  /\ UNCHANGED << disk, dirs, watched, notes, silent, edits >>

-----------------------------------------------------------------------------
(* The watcher.                                                            *)

\* addDir: every directory of the trees, one fw.Add at a time; files are passed over.
AddDir(n) ==
  /\ pc = "adding" /\ Turn(n)
  /\ \/ /\ n \in dirs
        /\ watched' = watched \cup {n}
        /\ walk' = [walk EXCEPT !.pending = (@ \ {n}) \cup Entries(n)]
        /\ UNCHANGED pc
     \/ /\ n \in Files \/ (n \notin dirs /\ n \in Roots)
        /\ walk' = [walk EXCEPT !.pending = @ \ {n}]
        /\ UNCHANGED << watched, pc >>
     \/ /\ n \in Dirs \ (dirs \cup Roots)
        /\ walk' = [walk EXCEPT !.pending = {}]
        /\ pc' = "failed"
        /\ UNCHANGED watched
  /\ UNCHANGED << disk, dirs, notes, index, silent, edits >>

\* NewWatcher returns and Start enters its loop.
Start ==
  /\ pc = "adding" /\ walk.pending = {}
  /\ pc' = "waiting"
  /\ UNCHANGED << disk, dirs, watched, notes, index, walk, silent, edits >>

\* Mutant: removed files are not looked at.
HandledPresent(note) == note.yaml /\ note.op \in {"write", "create"}

\* The condition of Start: a .yaml name and a Write, Create or Remove.
Handled(note) == note.yaml /\ note.op \in {"write", "create", "remove"}

\* case event := <-w.fw.Events
Receive ==
  /\ pc = "waiting" /\ notes # << >>
  /\ notes' = Tail(notes)
  /\ IF Handled(Head(notes))
     THEN pc' = "reloading" /\ walk' = FreshWalk /\ silent' = FALSE
     ELSE UNCHANGED << pc, walk, silent >>
  /\ UNCHANGED << disk, dirs, watched, index, edits >>

\* ctx is cancelled, or Close closes the channels: seen only in the select.
Stop ==
  /\ pc = "waiting"
  /\ pc' = "stopped"
  /\ UNCHANGED << disk, dirs, watched, notes, index, walk, silent, edits >>

-----------------------------------------------------------------------------
(* The editors (external).                                                 *)

\* fsnotify raises an event for a change in directory d; a full queue loses it.
Notify(d, note) ==
  IF d \in watched /\ Len(notes) < QueueMax
  THEN notes' = Append(notes, note) /\ silent' = (silent \/ note.op = "rename")
  ELSE silent' = TRUE /\ UNCHANGED notes

Edit(f, content, op) ==
  /\ edits < MaxEdits /\ Parent[f] \in dirs
  /\ edits' = edits + 1
  /\ disk' = [disk EXCEPT ![f] = content]
  /\ Notify(Parent[f], [op |-> op, yaml |-> TRUE])
  /\ UNCHANGED << dirs, watched, index, walk, pc >>

\* Opening a file to write it truncates it, the contents follow.
Truncate(f) == Edit(f, Empty, IF disk[f] = Absent THEN "create" ELSE "write")
Fill(f)     == /\ disk[f] = Empty
               /\ \E c \in {Broken} \cup {Doc(d) : d \in Versions[f]} : Edit(f, c, "write")
Delete(f)   == disk[f] # Absent /\ Edit(f, Absent, "remove")

\* A file moved out of the tree raises Rename on its old name; one moved into
\* its place (an editor that saves through a temporary file) raises Create.
MoveAway(f) == disk[f] # Absent /\ Edit(f, Absent, "rename")
MoveIn(f)   == \E d \in Versions[f] : Edit(f, Doc(d), "create")

\* A directory's events do not have a .yaml name.  Removing one under the feet
\* of a walk makes the walk fail, and nothing starts another.
Mkdir(d) ==
  /\ edits < MaxEdits /\ d \notin dirs
  /\ d \notin Roots => Parent[d] \in dirs
  /\ edits' = edits + 1
  /\ dirs' = dirs \cup {d}
  /\ silent' = (silent \/ d = SpecsDir)
  /\ UNCHANGED << disk, watched, notes, index, walk, pc >>

Rmdir(d) ==
  /\ edits < MaxEdits /\ d \in dirs
  /\ Entries(d) = {}
  /\ edits' = edits + 1
  /\ dirs' = dirs \ {d}
  /\ watched' = watched \ {d}
  /\ silent' = TRUE
  /\ UNCHANGED << disk, notes, index, walk, pc >>

-----------------------------------------------------------------------------
Init ==
  /\ dirs = InitDirs
  /\ disk \in [Files -> {Absent} \cup {Doc(d) : d \in UNION {Versions[f] : f \in Files}}]
  /\ \A f \in Files : disk[f] # Absent => Parent[f] \in dirs /\ disk[f].def \in Versions[f]
  /\ watched = {} /\ notes = << >> /\ index = NoIndex
  /\ walk = FreshWalk /\ pc = "loading"
  /\ silent = FALSE /\ edits = 0

Registry ==
  \/ \E d \in Dirs : VisitDir(d)
  \/ \E f \in Files : VisitFile(f)
  \/ \E n \in Nodes : AddDir(n)
  \/ Install \/ Start \/ Receive
Editors ==
  \/ \E f \in Files : Truncate(f) \/ Fill(f) \/ Delete(f) \/ MoveAway(f) \/ MoveIn(f)
  \/ \E d \in Dirs : Mkdir(d) \/ Rmdir(d)

Next == Registry \/ Stop \/ Editors

Spec == Init /\ [][Next]_vars

\* The goroutine of Start keeps running; nothing makes editors go on, or stop.
FairSpec == Spec /\ WF_vars(Registry)

-----------------------------------------------------------------------------
(* Properties.                                                             *)

Contents(f) == {Absent, Empty, Broken} \cup {Doc(d) : d \in Versions[f]}
Holds(kind) == UNION {Contents(f) : f \in {g \in Files : KindOf[g] = kind}}

IndexOK(i) ==
  /\ DOMAIN i = Kinds
  /\ \A k \in Kinds : \A key \in DOMAIN i[k] :
       i[k][key] \in Holds(k) /\ Indexed(k, i[k][key]) /\ IndexKey(k, i[k][key]) = key

\* Every file holds something it may hold, no file is outside an existing directory,
\* and every entry of an index stands under its own key.
TypeOK ==
  /\ \A f \in Files : /\ disk[f] \in Contents(f)
                      /\ disk[f] # Absent => Parent[f] \in dirs
  /\ watched \subseteq dirs /\ dirs \subseteq Dirs
  /\ \A i \in DOMAIN notes : notes[i].op \in {"create", "write", "remove", "rename"}
  /\ IndexOK(index) /\ IndexOK(walk.got)
  /\ walk.pending \subseteq Nodes
  /\ pc \in {"loading", "adding", "waiting", "reloading", "stopped", "failed"}
  /\ silent \in BOOLEAN /\ edits \in 0..MaxEdits

\* What the tree holds, said without a walk.
Loads == SpecsDir \in dirs /\ \A f \in Files : disk[f] # Broken
Winner(kind, key, f) ==
  /\ KindOf[f] = kind /\ Indexed(kind, disk[f]) /\ IndexKey(kind, disk[f]) = key
  /\ \A g \in Files :
       /\ KindOf[g] = kind /\ Indexed(kind, disk[g]) /\ IndexKey(kind, disk[g]) = key
       => Rank[g] <= Rank[f]
KeysOnDisk(kind) ==
  {IndexKey(kind, disk[f]) : f \in {g \in Files : KindOf[g] = kind /\ Indexed(kind, disk[g])}}
OnDisk ==
  [kind \in Kinds |->
     [key \in KeysOnDisk(kind) |-> disk[CHOOSE f \in Files : Winner(kind, key, f)]]]

\* registry/local/watcher.go:60-63: the index is rebuilt "on every write, create, or remove event";
\* "a failed reload leaves the previous index intact".  When the watcher waits with
\* nothing left to handle, every change raised an event it handles, and the tree
\* parses, the index is exactly what the tree holds - whatever changed while a
\* reload was walking, and however many reloads failed on the way.
Fresh ==
  /\ pc = "waiting" /\ ~silent /\ Loads
  /\ \A i \in DOMAIN notes : ~Handled(notes[i])
  => index = OnDisk

\* registry/local/resolver.go:103-105, :115: whatever order the maps are ranged over in, ListEvents
\* answers the highest readable version among the definitions that pass the filter, and
\* GetEvent without a version answers the one ListEvents does for "active" - as long as
\* no two texts of one event's versions read as the same numbers.
EventDefs == {index["event"][k].def : k \in DOMAIN index["event"]}
Distinguishable ==
  \A d, e \in EventDefs :
    Parses(d.ver) /\ d.ver.num = e.ver.num /\ d.ns = e.ns /\ d.name = e.name => d = e
Filters == [ns : {NoFilter}, status : {NoFilter, "active"}, tags : {{}, {"pii"}}]
LatestAgrees ==
  Distinguishable =>
    /\ \A filter \in Filters : \A answer \in ListEvents(EventDefs, filter) :
         answer = Latest(ListAllEvents(EventDefs, filter))
    /\ \A d \in EventDefs : \A best \in GetActive(EventDefs, d.ns, d.name) :
         Range(best) = {e \in Latest({x \in EventDefs : x.status = "active"}) :
                          e.ns = d.ns /\ e.name = d.name}

\* Once every change raises an event that is handled and the tree parses for good,
\* the index becomes what the tree holds and stays so.
EventuallyFresh ==
  <>[](~silent /\ Loads /\ pc \notin {"stopped", "failed"}) => <>[](index = OnDisk)
=============================================================================
