------------------------------- MODULE HotReload -------------------------------
(***************************************************************************)
(* internal/manifest: the watcher of the manifest directories, its         *)
(* debouncer, and the two readers of its changes: the front-ends, which    *)
(* load the whole palette again on every change, and Apply, which keeps a  *)
(* registry up to date one file at a time.                                 *)
(*                                                                         *)
(* Some files lie in a watched root, the user's; the others are those of a *)
(* pack, in a directory below a root that comes and goes with everything   *)
(* in it.                                                                  *)
(***************************************************************************)
EXTENDS Integers, Sequences, SequencesExt, FiniteSets

CONSTANTS Files,      \* the manifest files
          Nested,     \* those in the directory below the root
          Slashes,    \* the slash commands they define
          EventCap,   \* capacity of Watcher.events
          MaxEdits    \* bound of what the user does to the directories

ReloadAssumption == /\ IsFiniteSet(Files) /\ Nested \subseteq Files /\ MaxEdits \in Nat
                    /\ "dir" \notin Files
                    /\ Slashes \cap {"missing", "broken", "none"} = {}

VARIABLES
  disk,      \* what is in each file
  dir,       \* the directory: there, in Watcher.dirs, watched by inotify
  edits,
  raw,       \* fsnotify events not yet handled
  pending,   \* debouncer.pending: the latest op of each path
  flying,    \* changes of timers that have fired, between unlock and send
  events,    \* Watcher.events
  shown,     \* the palette of a front-end: the files it read
  registry,  \* the manifest registered under each slash
  pathTo,    \* Apply's pathToSlash
  blind,     \* history: files changed where inotify did not look
  overtaken, \* history: a change was sent before an older one of its path
  clash      \* history: two files had one slash in pathToSlash at once

vars == <<disk, dir, edits, raw, pending, flying, events, shown, registry, pathTo,
          blind, overtaken, clash>>
histories == <<blind, overtaken, clash>>

\* A file is missing, does not load, or defines a slash; a text is told from
\* the last one by the number of its edit.
Text(slash, n) == [slash |-> slash, n |-> n]
Missing == Text("missing", 0)
Broken(n) == Text("broken", n)
Loads(t) == t.slash \in Slashes
NoManifest == Missing

TypeOK ==
  /\ edits \in 0..MaxEdits
  /\ \A f \in Files : pending[f] \in {"none", "update", "remove"}
  /\ \A f \in Files : pathTo[f] \in Slashes \cup {"none"}
  /\ Len(events) <= EventCap

Init ==
  /\ disk = [f \in Files |-> Missing]
  /\ dir = [there |-> FALSE, known |-> FALSE, watched |-> FALSE]
  /\ edits = 0
  /\ raw = <<>> /\ flying = <<>> /\ events = <<>>
  /\ pending = [f \in Files |-> "none"]
  /\ shown = disk
  /\ registry = [s \in Slashes |-> NoManifest]
  /\ pathTo = [f \in Files |-> "none"]
  /\ blind = {} /\ overtaken = {} /\ clash = FALSE

-----------------------------------------------------------------------------
\* What the user does; inotify reports it from the directories it watches.
Edits(n) == edits < MaxEdits /\ edits' = edits + n
Sees(f) == f \notin Nested \/ dir.watched
Report(f, op) ==
  /\ raw' = IF Sees(f) THEN Append(raw, <<f, op>>) ELSE raw
  /\ blind' = IF Sees(f) THEN blind ELSE blind \cup {f}

WriteFile(f) ==
  /\ Edits(1)
  /\ f \in Nested => dir.there
  /\ \E t \in {Text(s, edits + 1) : s \in Slashes} \cup {Broken(edits + 1)} :
       disk' = [disk EXCEPT ![f] = t]
  /\ Report(f, "update")
  /\ UNCHANGED <<dir, pending, flying, events, shown, registry, pathTo, overtaken, clash>>

DeleteFile(f) ==
  /\ Edits(1)
  /\ disk[f] # Missing
  /\ disk' = [disk EXCEPT ![f] = Missing]
  /\ Report(f, "remove")
  /\ UNCHANGED <<dir, pending, flying, events, shown, registry, pathTo, overtaken, clash>>

MakeDir ==
  /\ Edits(1)
  /\ ~dir.there
  /\ dir' = [dir EXCEPT !.there = TRUE]
  /\ raw' = Append(raw, <<"dir", "create">>)
  /\ UNCHANGED <<disk, pending, flying, events, shown, registry, pathTo, histories>>

\* rm -r: the watch goes with the directory, its entry in dirs stays.
RemoveDir ==
  /\ Edits(1)
  /\ dir.there
  /\ dir' = [dir EXCEPT !.there = FALSE, !.watched = FALSE]
  /\ LET lost == {f \in Nested : disk[f] # Missing}
     IN /\ disk' = [f \in Files |-> IF f \in Nested THEN Missing ELSE disk[f]]
        /\ IF dir.watched
           THEN raw' = raw \o SetToSeq({<<f, "remove">> : f \in lost}) /\ UNCHANGED blind
           ELSE blind' = blind \cup lost /\ UNCHANGED raw
  /\ UNCHANGED <<pending, flying, events, shown, registry, pathTo, overtaken, clash>>

-----------------------------------------------------------------------------
\* walkAdd skips a directory it has added before.
HandleDir ==
  /\ raw # <<>> /\ Head(raw)[1] = "dir"
  /\ raw' = Tail(raw)
  /\ dir' = IF dir.there /\ ~dir.known
            THEN [dir EXCEPT !.known = TRUE, !.watched = TRUE] ELSE dir
  /\ UNCHANGED <<disk, edits, pending, flying, events, shown, registry, pathTo, histories>>

\* debouncer.push: the latest op wins and the quiet window starts again.
HandleFile ==
  /\ raw # <<>> /\ Head(raw)[1] # "dir"
  /\ raw' = Tail(raw)
  /\ pending' = [pending EXCEPT ![Head(raw)[1]] = Head(raw)[2]]
  /\ UNCHANGED <<disk, dir, edits, flying, events, shown, registry, pathTo, histories>>

\* The callback of the timer, up to the unlock.
Fire(f) ==
  /\ pending[f] # "none"
  /\ pending' = [pending EXCEPT ![f] = "none"]
  /\ flying' = Append(flying, <<f, pending[f]>>)
  /\ UNCHANGED <<disk, dir, edits, raw, events, shown, registry, pathTo, histories>>

\* Callbacks send in any order.
Emit(i) ==
  /\ Len(events) < EventCap
  /\ events' = Append(events, flying[i])
  /\ flying' = RemoveAt(flying, i)
  /\ overtaken' = IF \E j \in 1..i - 1 : flying[j][1] = flying[i][1]
                  THEN overtaken \cup {flying[i][1]} ELSE overtaken
  /\ UNCHANGED <<disk, dir, edits, raw, pending, shown, registry, pathTo, blind, clash>>

\* LoadPalette: the root and the pack below it load apart, and a file that does
\* not load takes the others of its place with it.
Place(f) == IF f \in Nested THEN Nested ELSE Files \ Nested
PlaceLoads(f) == \A g \in Place(f) : disk[g] = Missing \/ Loads(disk[g])
Reloaded == [f \in Files |-> IF PlaceLoads(f) THEN disk[f] ELSE Missing]

\* As Signal, but a file that is gone goes unnoticed.
SignalUpdates == shown' = IF Head(events)[2] = "update" THEN Reloaded ELSE shown

\* A change is a signal to the front-end, whatever it says.
Signal == shown' = Reloaded

ApplyRemove ==
  /\ events # <<>> /\ Head(events)[2] = "remove"
  /\ events' = Tail(events)
  /\ Signal
  /\ LET f == Head(events)[1]
     IN IF pathTo[f] = "none" THEN UNCHANGED <<registry, pathTo>>
        ELSE /\ registry' = [registry EXCEPT ![pathTo[f]] = NoManifest]
             /\ pathTo' = [pathTo EXCEPT ![f] = "none"]
  /\ UNCHANGED <<disk, dir, edits, raw, pending, flying, histories>>

\* A file that does not load leaves the last good manifest in place.
ApplyUpdate ==
  /\ events # <<>> /\ Head(events)[2] = "update"
  /\ events' = Tail(events)
  /\ Signal
  /\ LET f == Head(events)[1]
         t == disk[f]
         old == pathTo[f]
     IN IF ~Loads(t) THEN UNCHANGED <<registry, pathTo, clash>>
        ELSE /\ registry' = [s \in Slashes |-> IF s = t.slash THEN t
                                               ELSE IF s = old THEN NoManifest
                                               ELSE registry[s]]
             /\ pathTo' = [pathTo EXCEPT ![f] = t.slash]
             /\ clash' = (clash \/ \E g \in Files \ {f} : pathTo[g] = t.slash)
  /\ UNCHANGED <<disk, dir, edits, raw, pending, flying, blind, overtaken>>

Next ==
  \/ \E f \in Files : WriteFile(f) \/ DeleteFile(f) \/ Fire(f)
  \/ MakeDir \/ RemoveDir \/ HandleDir \/ HandleFile
  \/ \E i \in 1..Len(flying) : Emit(i)
  \/ ApplyRemove \/ ApplyUpdate

Spec == Init /\ [][Next]_vars

-----------------------------------------------------------------------------
Quiet == /\ raw = <<>> /\ flying = <<>> /\ events = <<>>
         /\ \A f \in Files : pending[f] = "none"

\* When everything has settled, the palette shows each file as a reload of the
\* disk would, however its changes were coalesced and whatever overtook what;
\* only a place with a file that inotify did not watch when it changed can be
\* missed (watcher.go:185-210).
PaletteCatchesUp ==
  Quiet => \A f \in Files : Place(f) \cap blind = {} => shown[f] = Reloaded[f]

\* The registry, too, unless a change was overtaken or, as Apply saw the
\* changes, two files had one slash, if only because the one that gave it up
\* was heard of after the one that took it; a file that no longer loads keeps
\* its last good manifest (watcher.go:371-401, debounce.go:86-101).
RegistryCatchesUp ==
  Quiet /\ ~clash =>
    /\ \A s \in Slashes : registry[s] # NoManifest => \E f \in Files : pathTo[f] = s
    /\ \A f \in Files \ (blind \cup overtaken) :
         /\ disk[f] = Missing => pathTo[f] = "none"
         /\ Loads(disk[f]) =>
              pathTo[f] = disk[f].slash /\ registry[disk[f].slash] = disk[f]
         /\ pathTo[f] # "none" => registry[pathTo[f]] # NoManifest
=============================================================================
