----------------------------- MODULE SnapshotCache -----------------------------
(***************************************************************************)
(* internal/audit/cache: one snapshot file of one key, read and refreshed  *)
(* by several processes (two terminals, the command line beside the        *)
(* panel).  A store's mutex orders the calls of one process, so a process  *)
(* does one thing at a time; between processes there is only the file      *)
(* system, with one temporary name for all.                                *)
(*                                                                         *)
(* A name refers to an inode; a process that has opened the temporary file *)
(* keeps writing to its inode wherever the name has gone.  A write over    *)
(* longer content leaves its tail, which no longer parses.                 *)
(***************************************************************************)
EXTENDS Integers, FiniteSets, Functions

CONSTANTS Proc,      \* the processes
          Kinds,     \* the kinds of resources
          Throttle,  \* ticks between two full scans
          MaxTime    \* bound of the clock

ASSUME CacheAssumption == /\ IsFiniteSet(Proc)
                          /\ Throttle \in Nat /\ MaxTime \in Nat

Inodes == 1..Cardinality(Proc) + 2
None == 0

VARIABLES
  now,
  dir,      \* the inodes of the names "path" and "tmp"
  disk,     \* what each inode holds
  pc,       \* what each process is doing
  job,      \* the snapshot it is about to write
  fd,       \* the inode it has opened
  shared    \* history: two processes were between opening and renaming at once

vars == <<now, dir, disk, pc, job, fd, shared>>

\* kindAt is KindScannedAt with ScannersRun as its domain; rows are the kinds
\* the resources are of, with the time they were found.
NoRows == [k \in {} |-> 0]
Snapshot(at, rows, skipped) ==
  [at |-> at, kindAt |-> rows, rows |-> rows, skipped |-> skipped]
Blank == Snapshot(0, NoRows, {})

\* A file: empty, a snapshot of this version or of an older one, or bytes
\* that do not parse.
File(form, snap) == [form |-> form, snap |-> snap]

TypeOK ==
  /\ now \in 0..MaxTime
  /\ dir \in [{"path", "tmp"} -> Inodes \cup {None}]
  /\ \A i \in Inodes : disk[i].form \in {"empty", "whole", "old", "torn"}
  /\ pc \in [Proc -> {"idle", "scanning", "partial", "writing", "opened", "written"}]
  /\ fd \in [Proc -> Inodes \cup {None}]
  /\ shared \in BOOLEAN

\* The directory as an older build, or nobody, left it.
Init ==
  /\ now = 0
  /\ dir \in {[path |-> p, tmp |-> None] : p \in {None, 1}}
  /\ disk = [i \in Inodes |-> File(IF i = dir["path"] THEN "old" ELSE "empty", Blank)]
  /\ pc = [p \in Proc |-> "idle"]
  /\ job = [p \in Proc |-> Blank]
  /\ fd = [p \in Proc |-> None]
  /\ shared = FALSE

Used == Range(dir) \cup Range(fd)
Free == CHOOSE i \in Inodes : i \notin Used

\* An inode without a name and a descriptor is gone.
Kept(content, names, fds) ==
  [i \in Inodes |-> IF i \in Range(names) \cup Range(fds) THEN content[i]
                    ELSE File("empty", Blank)]

Form == IF dir["path"] = None THEN "missing" ELSE disk[dir["path"]].form
OnDisk == disk[dir["path"]].snap

\* readLocked's side effect: another version is moved out of the way.
Archive ==
  /\ dir' = IF Form = "old" THEN [dir EXCEPT !["path"] = None] ELSE dir
  /\ disk' = Kept(disk, dir', fd)

Tick ==
  /\ now < MaxTime
  /\ now' = now + 1
  /\ UNCHANGED <<dir, disk, pc, job, fd, shared>>

Read(p) ==
  /\ pc[p] = "idle"
  /\ Form = "old"
  /\ Archive
  /\ UNCHANGED <<now, pc, job, fd, shared>>

\* Refresh: the throttle is asked of the snapshot on disk; one that cannot be
\* read refuses nothing.
Refresh(p, force) ==
  /\ pc[p] = "idle"
  /\ force \/ ~(Form = "whole" /\ now - OnDisk.at < Throttle)
  /\ IF force THEN UNCHANGED <<dir, disk>> ELSE Archive
  /\ pc' = [pc EXCEPT ![p] = "scanning"]
  /\ UNCHANGED <<now, job, fd, shared>>

\* The scan ends: found are the kinds it has rows of, failed those skipped.
\* The command line asks for all kinds or for one; the rest is not kept.
Scanned(p, found, failed) ==
  /\ pc[p] = "scanning"
  /\ found \cap failed = {}
  /\ job' = [job EXCEPT ![p] = Snapshot(now, [k \in found |-> now], failed)]
  /\ pc' = [pc EXCEPT ![p] = "writing"]
  /\ UNCHANGED <<now, dir, disk, fd, shared>>

\* RefreshKind: merges into what it read before the scan.
RefreshKind(p) ==
  /\ pc[p] = "idle"
  /\ Form \in {"whole", "old"}
  /\ Archive
  /\ IF Form = "whole"
     THEN job' = [job EXCEPT ![p] = OnDisk] /\ pc' = [pc EXCEPT ![p] = "partial"]
     ELSE UNCHANGED <<job, pc>>
  /\ UNCHANGED <<now, fd, shared>>

\* As Merge, but a kind that is scanned after all stays among the skipped.
MergeKeepsSkip(snap, k, any) ==
  [snap EXCEPT
     !.rows = [j \in (DOMAIN snap.rows \ {k}) \cup (IF any THEN {k} ELSE {}) |->
                 IF j = k THEN now ELSE snap.rows[j]],
     !.kindAt = [j \in DOMAIN snap.kindAt \cup {k} |->
                   IF j = k THEN now ELSE snap.kindAt[j]]]

Merge(snap, k, any) ==
  [snap EXCEPT
     !.rows = [j \in (DOMAIN snap.rows \ {k}) \cup (IF any THEN {k} ELSE {}) |->
                 IF j = k THEN now ELSE snap.rows[j]],
     !.kindAt = [j \in DOMAIN snap.kindAt \cup {k} |->
                   IF j = k THEN now ELSE snap.kindAt[j]],
     !.skipped = @ \ {k}]

KindScanned(p, k, any) ==
  /\ pc[p] = "partial"
  /\ job' = [job EXCEPT ![p] = Merge(@, k, any)]
  /\ pc' = [pc EXCEPT ![p] = "writing"]
  /\ UNCHANGED <<now, dir, disk, fd, shared>>

ScanFails(p) ==
  /\ pc[p] \in {"scanning", "partial"}
  /\ pc' = [pc EXCEPT ![p] = "idle"]
  /\ job' = [job EXCEPT ![p] = Blank]
  /\ UNCHANGED <<now, dir, disk, fd, shared>>

\* As OpenTmp, but the snapshot is written in place.
OpenPath(p) ==
  /\ pc[p] = "writing"
  /\ dir["path"] # None
  /\ disk' = [disk EXCEPT ![dir["path"]] = File("empty", Blank)]
  /\ fd' = [fd EXCEPT ![p] = dir["path"]]
  /\ shared' = (shared \/ \E q \in Proc \ {p} : pc[q] \in {"opened", "written"})
  /\ pc' = [pc EXCEPT ![p] = "opened"]
  /\ UNCHANGED <<now, dir, job>>

\* writeLocked: os.WriteFile truncates and writes the temporary file, and
\* os.Rename makes it the snapshot.
OpenTmp(p) ==
  /\ pc[p] = "writing"
  /\ dir["tmp"] = None => Inodes \ Used # {}
  /\ LET i == IF dir["tmp"] = None THEN Free ELSE dir["tmp"]
     IN /\ dir' = [dir EXCEPT !["tmp"] = i]
        /\ disk' = [disk EXCEPT ![i] = File("empty", Blank)]
        /\ fd' = [fd EXCEPT ![p] = i]
        /\ shared' = (shared \/ \E q \in Proc \ {p} : pc[q] \in {"opened", "written"})
  /\ pc' = [pc EXCEPT ![p] = "opened"]
  /\ UNCHANGED <<now, job>>

WriteTmp(p) ==
  /\ pc[p] = "opened"
  /\ fd' = [fd EXCEPT ![p] = None]
  /\ \E form \in {"whole"} \cup (IF disk[fd[p]].form = "empty" THEN {} ELSE {"torn"}) :
       disk' = Kept([disk EXCEPT ![fd[p]] = File(form, IF form = "whole" THEN job[p]
                                                   ELSE Blank)], dir, fd')
  /\ pc' = [pc EXCEPT ![p] = "written"]
  /\ UNCHANGED <<now, dir, job, shared>>

\* The name may have gone with another process's rename.
Rename(p) ==
  /\ pc[p] = "written"
  /\ dir' = IF dir["tmp"] = None THEN dir
            ELSE [dir EXCEPT !["path"] = dir["tmp"], !["tmp"] = None]
  /\ disk' = Kept(disk, dir', fd)
  /\ pc' = [pc EXCEPT ![p] = "idle"]
  /\ job' = [job EXCEPT ![p] = Blank]
  /\ UNCHANGED <<now, fd, shared>>

Wipe(p) ==
  /\ pc[p] = "idle"
  /\ dir["path"] # None
  /\ dir' = [dir EXCEPT !["path"] = None]
  /\ disk' = Kept(disk, dir', fd)
  /\ UNCHANGED <<now, pc, job, fd, shared>>

\* A process dies, perhaps in the middle of its write.
Crash(p) ==
  /\ pc[p] # "idle"
  /\ pc' = [pc EXCEPT ![p] = "idle"]
  /\ fd' = [fd EXCEPT ![p] = None]
  /\ job' = [job EXCEPT ![p] = Blank]
  /\ \/ disk' = Kept(disk, dir, fd')
     \/ pc[p] = "opened"
        /\ disk' = Kept([disk EXCEPT ![fd[p]] = File("torn", Blank)], dir, fd')
  /\ UNCHANGED <<now, dir, shared>>

Step(p) ==
  \/ Read(p)
  \/ \E force \in BOOLEAN : Refresh(p, force)
  \/ \E found, failed \in SUBSET Kinds : Scanned(p, found, failed)
  \/ RefreshKind(p)
  \/ \E k \in Kinds, any \in BOOLEAN : KindScanned(p, k, any)
  \/ ScanFails(p) \/ OpenTmp(p) \/ WriteTmp(p) \/ Rename(p) \/ Wipe(p) \/ Crash(p)

Next == Tick \/ \E p \in Proc : Step(p)

Spec == Init /\ [][Next]_vars

-----------------------------------------------------------------------------
\* A reader never meets a partial file, whichever process died where, unless
\* two of them wrote the temporary file at once: the price of its one name
\* (cache.go:346-374, which locks only within a process).
TornOnlyByOverlap == Form \in {"empty", "torn"} => shared

\* Through full and partial refreshes, a snapshot tells when the rows of each
\* kind were found, and never that a kind was both scanned and skipped
\* (partial.go:14-61, cmd_audit.go:212-238).
StampsAreHonest ==
  Form = "whole" =>
    /\ \A k \in DOMAIN OnDisk.rows :
         k \in DOMAIN OnDisk.kindAt /\ OnDisk.kindAt[k] = OnDisk.rows[k]
    /\ \A k \in DOMAIN OnDisk.kindAt : OnDisk.kindAt[k] >= OnDisk.at
    /\ OnDisk.skipped \cap DOMAIN OnDisk.kindAt = {}
=============================================================================
