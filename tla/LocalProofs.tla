------------------------------ MODULE LocalProofs ------------------------------
(***************************************************************************)
(* For any number of processes, kinds, packs and files.  Snapshots: a      *)
(* reader meets a partial file only if two processes were writing the one  *)
(* temporary file at once (Tidy), and what a whole file says of its kinds  *)
(* is true, however scans were merged into it (HonestInv).  Packs: an idle *)
(* clone offers what the user trusted, and a removal lasts (PackInv).      *)
(* Manifests: the last notice of a file on its way is right about it, so   *)
(* that its readers settle on what is on disk (ReloadInv).                 *)
(* The palette: one row for every command of every pack that loads, the    *)
(* right one first (PaletteRight); it is made of concatenated lists, and   *)
(* what concatenation gives is shown at the least entry of the table in    *)
(* FlattenSeq at which it could fail (Flattened).                          *)
(***************************************************************************)
EXTENDS LocalFiles, FiniteSetTheorems, SequenceTheorems, WellFoundedInduction, TLAPS

Busy(p) == pc[p] \in {"opened", "written"}

\* As long as no two processes have written at once: one of them is busy with
\* the temporary file, which is its own, and the snapshot is another inode.
Tidy ==
  /\ \A p, q \in Proc : Busy(p) /\ Busy(q) => p = q
  /\ dir["path"] # None => /\ dir["path"] # dir["tmp"]
                           /\ disk[dir["path"]].form \in {"whole", "old"}
  /\ \A p \in Proc : pc[p] = "opened" =>
       dir["tmp"] # None /\ fd[p] = dir["tmp"] /\ disk[dir["tmp"]].form = "empty"
  /\ \A p \in Proc : pc[p] = "written" =>
       dir["tmp"] # None /\ disk[dir["tmp"]].form = "whole"

Shape ==
  /\ dir \in [{"path", "tmp"} -> Inodes \cup {None}]
  /\ disk = [i \in Inodes |-> disk[i]]
  /\ pc \in [Proc -> {"idle", "scanning", "partial", "writing", "opened", "written"}]
  /\ fd \in [Proc -> Inodes \cup {None}]

IInv == Shape /\ (~shared => Tidy)

-----------------------------------------------------------------------------
LEMMA NoneIsNoInode == None \notin Inodes /\ 1 \in Inodes
<1>1. Cardinality(Proc) \in Nat  BY FS_CardinalityType, CacheAssumption DEF CacheAssumption
<1> QED  BY <1>1 DEF Inodes, None

\* What a name refers to stays as it is.
LEMMA KeptNames ==
  ASSUME NEW content, NEW names \in [{"path", "tmp"} -> Inodes \cup {None}], NEW fds,
         NEW n \in {"path", "tmp"}, names[n] # None
  PROVE  Kept(content, names, fds)[names[n]] = content[names[n]]
<1>1. names[n] \in Range(names)  BY DEF Range
<1>2. names[n] \in Inodes  OBVIOUS
<1> QED  BY <1>1, <1>2 DEF Kept

LEMMA KeptShape ==
  ASSUME NEW content, NEW names, NEW fds
  PROVE  Kept(content, names, fds) = [i \in Inodes |-> Kept(content, names, fds)[i]]
BY DEF Kept

LEMMA FreeIsFree ==
  ASSUME Inodes \ Used # {}
  PROVE  Free \in Inodes /\ Free \notin Used
BY DEF Free

LEMMA IInit == Init => IInv
<1> SUFFICES ASSUME Init PROVE IInv  OBVIOUS
<1> USE NoneIsNoInode
<1>1. dir \in [{"path", "tmp"} -> Inodes \cup {None}] /\ dir["tmp"] = None  BY DEF Init
<1>2. \A i \in Inodes : disk[i] = File(IF i = dir["path"] THEN "old" ELSE "empty", Blank)
  BY DEF Init
<1>3. disk = [i \in Inodes |-> disk[i]]  BY DEF Init
<1>4. Shape  BY <1>1, <1>3 DEF Init, Shape
<1>5. dir["path"] # None => disk[dir["path"]].form = "old"
  <2>1. SUFFICES ASSUME dir["path"] # None PROVE disk[dir["path"]].form = "old"  OBVIOUS
  <2>2. dir["path"] \in Inodes  BY <1>1, <2>1
  <2>3. disk[dir["path"]] = File("old", Blank)  BY <1>2, <2>2
  <2> QED  BY <2>3 DEF File
<1>6. Tidy  BY <1>1, <1>5 DEF Init, Tidy, Busy
<1> QED  BY <1>4, <1>6 DEF IInv

\* A step that leaves the files of the names, the names or at most takes the
\* snapshot's away, and makes nobody busy.
LEMMA NoFileTouched ==
  ASSUME IInv, Shape', shared' = shared,
         dir' = dir \/ dir' = [dir EXCEPT !["path"] = None],
         \A n \in {"path", "tmp"} : dir'[n] # None => disk'[dir'[n]] = disk[dir'[n]],
         \A p \in Proc : Busy(p)' => pc'[p] = pc[p] /\ fd'[p] = fd[p]
  PROVE  IInv'
<1> SUFFICES ASSUME ~shared PROVE Tidy'  BY DEF IInv
<1>1. Tidy /\ Shape  BY DEF IInv
<1>2. dir'["tmp"] = dir["tmp"] /\ dir'["path"] \in {dir["path"], None}
  BY <1>1 DEF Shape
<1>3. \A p, q \in Proc : Busy(p)' /\ Busy(q)' => p = q  BY <1>1 DEF Tidy, Busy
<1>4. dir'["path"] # None => /\ dir'["path"] # dir'["tmp"]
                             /\ disk'[dir'["path"]].form \in {"whole", "old"}
  BY <1>1, <1>2 DEF Tidy
<1>5. \A p \in Proc : pc'[p] = "opened" =>
        dir'["tmp"] # None /\ fd'[p] = dir'["tmp"] /\ disk'[dir'["tmp"]].form = "empty"
  BY <1>1, <1>2 DEF Tidy, Busy
<1>6. \A p \in Proc : pc'[p] = "written" =>
        dir'["tmp"] # None /\ disk'[dir'["tmp"]].form = "whole"
  BY <1>1, <1>2 DEF Tidy, Busy
<1> QED  BY <1>3, <1>4, <1>5, <1>6 DEF Tidy

LEMMA Archived ==
  ASSUME Shape, Archive
  PROVE  /\ dir' \in [{"path", "tmp"} -> Inodes \cup {None}]
         /\ disk' = [i \in Inodes |-> disk'[i]]
         /\ dir' = dir \/ dir' = [dir EXCEPT !["path"] = None]
         /\ \A n \in {"path", "tmp"} : dir'[n] # None => disk'[dir'[n]] = disk[dir'[n]]
<1>1. dir' \in [{"path", "tmp"} -> Inodes \cup {None}]  BY DEF Archive, Shape
<1>2. disk' = Kept(disk, dir', fd)  BY DEF Archive
<1>3. disk' = [i \in Inodes |-> disk'[i]]  BY <1>2, KeptShape
<1>4. \A n \in {"path", "tmp"} : dir'[n] # None => disk'[dir'[n]] = disk[dir'[n]]
  BY <1>1, <1>2, KeptNames
<1> QED  BY <1>1, <1>3, <1>4 DEF Archive

-----------------------------------------------------------------------------
LEMMA QuietStep ==
  ASSUME IInv, NEW p \in Proc,
         \/ Tick \/ Read(p) \/ RefreshKind(p) \/ ScanFails(p) \/ Wipe(p)
         \/ \E force \in BOOLEAN : Refresh(p, force)
         \/ \E found, failed \in SUBSET Kinds : Scanned(p, found, failed)
         \/ \E k \in Kinds, any \in BOOLEAN : KindScanned(p, k, any)
  PROVE  IInv'
<1> USE DEF IInv
<1>1. ASSUME dir' = dir, disk' = disk, fd' = fd, shared' = shared, Shape',
             \A q \in Proc : Busy(q)' => pc'[q] = pc[q]
      PROVE  IInv'
  BY <1>1, NoFileTouched
<1>2. ASSUME Archive, fd' = fd, shared' = shared,
             pc' = pc \/ \E s \in {"scanning", "partial"} : pc' = [pc EXCEPT ![p] = s]
      PROVE  IInv'
  <2>1. Shape'  BY <1>2, Archived DEF Shape
  <2>2. \A q \in Proc : Busy(q)' => pc'[q] = pc[q]  BY <1>2 DEF Shape, Busy
  <2> QED  BY <1>2, <2>1, <2>2, Archived, NoFileTouched
<1>3. ASSUME dir' = dir, disk' = disk, fd' = fd, shared' = shared,
             pc' = pc \/ \E s \in {"idle", "scanning", "writing"} : pc' = [pc EXCEPT ![p] = s]
      PROVE  IInv'
  <2>1. Shape'  BY <1>3 DEF Shape
  <2>2. \A q \in Proc : Busy(q)' => pc'[q] = pc[q]  BY <1>3 DEF Shape, Busy
  <2> QED  BY <1>1, <1>3, <2>1, <2>2
<1>4. CASE Tick  BY <1>3, <1>4 DEF Tick
<1>5. CASE Read(p)  BY <1>2, <1>5 DEF Read
<1>6. CASE RefreshKind(p)  BY <1>2, <1>6 DEF RefreshKind
<1>7. CASE ScanFails(p)  BY <1>3, <1>7 DEF ScanFails
<1>8. CASE \E force \in BOOLEAN : Refresh(p, force)
  <2>1. PICK force \in BOOLEAN : Refresh(p, force)  BY <1>8
  <2>2. CASE force  BY <2>1, <2>2, <1>3 DEF Refresh
  <2>3. CASE ~force  BY <2>1, <2>3, <1>2 DEF Refresh
  <2> QED  BY <2>2, <2>3
<1>9. CASE \E found, failed \in SUBSET Kinds : Scanned(p, found, failed)
  BY <1>3, <1>9 DEF Scanned
<1>10. CASE \E k \in Kinds, any \in BOOLEAN : KindScanned(p, k, any)
  BY <1>3, <1>10 DEF KindScanned
<1>11. CASE Wipe(p)
  <2>1. dir' \in [{"path", "tmp"} -> Inodes \cup {None}]  BY <1>11 DEF Wipe, Shape
  <2>2. disk' = Kept(disk, dir', fd)  BY <1>11 DEF Wipe
  <2>3. Shape'
    <3>1. disk' = [i \in Inodes |-> disk'[i]]  BY <2>2, KeptShape
    <3> QED  BY <1>11, <2>1, <3>1 DEF Wipe, Shape
  <2>4. \A n \in {"path", "tmp"} : dir'[n] # None => disk'[dir'[n]] = disk[dir'[n]]
    BY <2>1, <2>2, KeptNames
  <2> QED  BY <1>11, <2>3, <2>4, NoFileTouched DEF Wipe, Busy
<1> QED  BY <1>4, <1>5, <1>6, <1>7, <1>8, <1>9, <1>10, <1>11

\* The first to open is alone, and opens another inode than the snapshot's.
LEMMA OpenStep == ASSUME IInv, NEW p \in Proc, OpenTmp(p) PROVE IInv'
<1> DEFINE i == IF dir["tmp"] = None THEN Free ELSE dir["tmp"]
<1> USE NoneIsNoInode
<1>1. Shape  BY DEF IInv
<1>2. /\ dir' = [dir EXCEPT !["tmp"] = i]
      /\ disk' = [disk EXCEPT ![i] = File("empty", Blank)]
      /\ fd' = [fd EXCEPT ![p] = i]
      /\ pc' = [pc EXCEPT ![p] = "opened"]
      /\ shared' = (shared \/ \E q \in Proc \ {p} : pc[q] \in {"opened", "written"})
  BY DEF OpenTmp
<1>3. i \in Inodes
  <2>1. dir["tmp"] = None => Inodes \ Used # {}  BY DEF OpenTmp
  <2> QED  BY <1>1, <2>1, FreeIsFree DEF Shape
<1>4. Shape'
  <2>1. dir' \in [{"path", "tmp"} -> Inodes \cup {None}]  BY <1>1, <1>2, <1>3 DEF Shape
  <2>2. disk' = [j \in Inodes |-> disk'[j]]  BY <1>1, <1>2 DEF Shape
  <2>3. pc' \in [Proc -> {"idle", "scanning", "partial", "writing", "opened", "written"}]
    BY <1>1, <1>2 DEF Shape
  <2>4. fd' \in [Proc -> Inodes \cup {None}]  BY <1>1, <1>2, <1>3 DEF Shape
  <2> QED  BY <2>1, <2>2, <2>3, <2>4 DEF Shape
<1>5. ASSUME ~shared' PROVE Tidy'
  <2>1. Tidy /\ ~shared  BY <1>2, <1>5 DEF IInv
  <2>2. \A q \in Proc \ {p} : ~Busy(q)  BY <1>2, <1>5 DEF Busy
  <2>3. \A q \in Proc : Busy(q)' => q = p  BY <1>1, <1>2, <2>2 DEF Shape, Busy
  <2>4. i # None /\ disk'[i].form = "empty"  BY <1>1, <1>2, <1>3 DEF Shape, File
  <2>5. dir'["tmp"] = i /\ dir'["path"] = dir["path"] /\ fd'[p] = i /\ pc'[p] = "opened"
    BY <1>1, <1>2 DEF Shape
  <2>6. dir["path"] # None => dir["path"] # i
    <3>1. dir["path"] \in Used  BY <1>1 DEF Used, Range, Shape
    <3>2. CASE dir["tmp"] = None  BY <3>1, <3>2, FreeIsFree DEF OpenTmp
    <3>3. CASE dir["tmp"] # None  BY <2>1, <3>3 DEF Tidy
    <3> QED  BY <3>2, <3>3
  <2>7. dir["path"] # None => disk'[dir["path"]] = disk[dir["path"]]
    BY <1>1, <1>2, <2>6 DEF Shape
  <2>8. dir'["path"] # None => /\ dir'["path"] # dir'["tmp"]
                               /\ disk'[dir'["path"]].form \in {"whole", "old"}
    BY <2>1, <2>5, <2>6, <2>7 DEF Tidy
  <2>9. \A q \in Proc : pc'[q] = "opened" =>
          dir'["tmp"] # None /\ fd'[q] = dir'["tmp"] /\ disk'[dir'["tmp"]].form = "empty"
    BY <2>3, <2>4, <2>5 DEF Busy
  <2>10. \A q \in Proc : pc'[q] # "written"  BY <2>3, <2>5 DEF Busy
  <2> QED  BY <2>3, <2>8, <2>9, <2>10 DEF Tidy
<1> QED  BY <1>4, <1>5 DEF IInv

\* Alone, a process finds the file it opened empty, and writes all of it.
LEMMA WriteStep == ASSUME IInv, NEW p \in Proc, WriteTmp(p) PROVE IInv'
<1> USE NoneIsNoInode
<1>1. Shape  BY DEF IInv
<1>2. PICK form \in {"whole"} \cup (IF disk[fd[p]].form = "empty" THEN {} ELSE {"torn"}) :
        disk' = Kept([disk EXCEPT ![fd[p]] = File(form, IF form = "whole" THEN job[p]
                                                    ELSE Blank)], dir, fd')
  BY DEF WriteTmp
<1>3. /\ pc[p] = "opened" /\ fd' = [fd EXCEPT ![p] = None]
      /\ pc' = [pc EXCEPT ![p] = "written"] /\ dir' = dir /\ shared' = shared
  BY DEF WriteTmp
<1>4. Shape'
  <2>1. disk' = [i \in Inodes |-> disk'[i]]  BY <1>2 DEF Kept
  <2> QED  BY <1>1, <1>3, <2>1 DEF Shape
<1>5. ASSUME ~shared PROVE Tidy'
  <2>1. Tidy  BY <1>5 DEF IInv
  <2>2. dir["tmp"] # None /\ fd[p] = dir["tmp"] /\ disk[fd[p]].form = "empty"
    BY <1>3, <2>1 DEF Tidy
  <2>3. form = "whole"  BY <2>2
  <2>4. \A q \in Proc : Busy(q)' => q = p  BY <1>1, <1>3, <2>1 DEF Tidy, Busy, Shape
  <2>5. disk'[dir["tmp"]] = File("whole", job[p])
    <3> DEFINE content == [disk EXCEPT ![fd[p]] = File(form, IF form = "whole" THEN job[p]
                                                               ELSE Blank)]
    <3>1. content[dir["tmp"]] = File("whole", job[p])  BY <1>1, <2>2, <2>3 DEF Shape
    <3>2. disk'[dir["tmp"]] = content[dir["tmp"]]
      <4> HIDE DEF content
      <4> QED  BY <1>1, <1>2, <2>2, KeptNames DEF Shape, content
    <3> QED  BY <3>1, <3>2
  <2>6. dir["path"] # None => disk'[dir["path"]] = disk[dir["path"]]
    <3> DEFINE content == [disk EXCEPT ![fd[p]] = File(form, IF form = "whole" THEN job[p]
                                                               ELSE Blank)]
    <3>1. dir["path"] # None => content[dir["path"]] = disk[dir["path"]]
      BY <1>1, <2>1, <2>2 DEF Shape, Tidy
    <3>2. dir["path"] # None => disk'[dir["path"]] = content[dir["path"]]
      <4> HIDE DEF content
      <4> QED  BY <1>1, <1>2, KeptNames DEF Shape, content
    <3> QED  BY <3>1, <3>2
  <2>7. pc'[p] = "written"  BY <1>1, <1>3 DEF Shape
  <2>8. disk'[dir["tmp"]].form = "whole"  BY <2>5 DEF File
  <2> QED  BY <1>3, <2>1, <2>2, <2>4, <2>6, <2>7, <2>8 DEF Tidy, Busy
<1> QED  BY <1>3, <1>4, <1>5 DEF IInv

LEMMA RenameStep == ASSUME IInv, NEW p \in Proc, Rename(p) PROVE IInv'
<1> USE NoneIsNoInode
<1>1. Shape  BY DEF IInv
<1>2. /\ pc[p] = "written" /\ pc' = [pc EXCEPT ![p] = "idle"]
      /\ dir' = IF dir["tmp"] = None THEN dir
                ELSE [dir EXCEPT !["path"] = dir["tmp"], !["tmp"] = None]
      /\ disk' = Kept(disk, dir', fd) /\ fd' = fd /\ shared' = shared
  BY DEF Rename
<1>3. dir' \in [{"path", "tmp"} -> Inodes \cup {None}]
  <2>1. dir \in [{"path", "tmp"} -> Inodes \cup {None}]  BY <1>1 DEF Shape
  <2>2. dir["tmp"] \in Inodes \cup {None}  BY <2>1
  <2>3. [dir EXCEPT !["path"] = dir["tmp"], !["tmp"] = None]
          \in [{"path", "tmp"} -> Inodes \cup {None}]
    BY <2>1, <2>2
  <2> QED  BY <1>2, <2>1, <2>3
<1>4. Shape'
  <2>1. disk' = [i \in Inodes |-> disk'[i]]
    <3>1. disk' = Kept(disk, dir', fd)  BY <1>2
    <3> QED  BY <3>1 DEF Kept
  <2>2. pc' \in [Proc -> {"idle", "scanning", "partial", "writing", "opened", "written"}]
    BY <1>1, <1>2 DEF Shape
  <2>3. fd' \in [Proc -> Inodes \cup {None}]  BY <1>1, <1>2 DEF Shape
  <2> QED  BY <1>3, <2>1, <2>2, <2>3 DEF Shape
<1>5. ASSUME ~shared PROVE Tidy'
  <2>1. Tidy  BY <1>5 DEF IInv
  <2>2. dir["tmp"] # None /\ disk[dir["tmp"]].form = "whole"  BY <1>2, <2>1 DEF Tidy
  <2>3. dir'["path"] = dir["tmp"] /\ dir'["tmp"] = None  BY <1>1, <1>2, <2>2 DEF Shape
  <2>4. disk'[dir'["path"]] = disk[dir["tmp"]]
    <3>1. disk' = Kept(disk, dir', fd)  BY <1>2
    <3>2. \A n \in {"path", "tmp"} : dir'[n] # None => disk'[dir'[n]] = disk[dir'[n]]
      BY <1>3, <3>1, KeptNames
    <3> QED  BY <2>2, <2>3, <3>2
  <2>5. \A q \in Proc : ~Busy(q)'  BY <1>1, <1>2, <2>1 DEF Tidy, Busy, Shape
  <2> QED  BY <2>2, <2>3, <2>4, <2>5 DEF Tidy, Busy
<1> QED  BY <1>2, <1>4, <1>5 DEF IInv

\* A process that dies leaves what it wrote in the temporary file only.
LEMMA CrashStep == ASSUME IInv, NEW p \in Proc, Crash(p) PROVE IInv'
<1> USE NoneIsNoInode
<1>1. Shape  BY DEF IInv
<1>2. /\ pc' = [pc EXCEPT ![p] = "idle"] /\ fd' = [fd EXCEPT ![p] = None]
      /\ dir' = dir /\ shared' = shared
  BY DEF Crash
<1>3. \A q \in Proc : Busy(q)' => q # p /\ pc'[q] = pc[q] /\ fd'[q] = fd[q]
  BY <1>1, <1>2 DEF Shape, Busy
<1>4. CASE disk' = Kept(disk, dir, fd')
  <2>1. Shape'
    <3>1. disk' = [i \in Inodes |-> disk'[i]]  BY <1>4, KeptShape
    <3> QED  BY <1>1, <1>2, <3>1 DEF Shape
  <2>2. \A n \in {"path", "tmp"} : dir'[n] # None => disk'[dir'[n]] = disk[dir'[n]]
    BY <1>1, <1>2, <1>4, KeptNames DEF Shape
  <2> QED  BY <1>2, <1>3, <2>1, <2>2, NoFileTouched
<1>5. CASE /\ pc[p] = "opened"
           /\ disk' = Kept([disk EXCEPT ![fd[p]] = File("torn", Blank)], dir, fd')
  <2> DEFINE content == [disk EXCEPT ![fd[p]] = File("torn", Blank)]
  <2>1. Shape'
    <3>1. disk' = [i \in Inodes |-> disk'[i]]  BY <1>5 DEF Kept
    <3> QED  BY <1>1, <1>2, <3>1 DEF Shape
  <2>2. ASSUME ~shared PROVE Tidy'
    <3>1. Tidy  BY <2>2 DEF IInv
    <3>2. \A q \in Proc : ~Busy(q)'  BY <1>3, <1>5, <3>1 DEF Tidy, Busy
    <3>3. dir["path"] # None => content[dir["path"]] = disk[dir["path"]]
      BY <1>1, <1>5, <3>1 DEF Shape, Tidy
    <3>4. dir["path"] # None => disk'[dir["path"]] = content[dir["path"]]
      <4> HIDE DEF content
      <4> QED  BY <1>1, <1>5, KeptNames DEF Shape, content
    <3> QED  BY <1>2, <3>1, <3>2, <3>3, <3>4 DEF Tidy, Busy
  <2> QED  BY <1>2, <2>1, <2>2 DEF IInv
<1> QED  BY <1>4, <1>5 DEF Crash

-----------------------------------------------------------------------------
LEMMA IHolds == Spec => []IInv
<1>1. IInv /\ [Next]_vars => IInv'
  <2> SUFFICES ASSUME IInv, [Next]_vars PROVE IInv'  OBVIOUS
  <2>1. CASE UNCHANGED vars
    BY <2>1 DEF IInv, Shape, Tidy, Busy, vars
  <2>2. CASE Tick
    <3>1. CASE Proc = {}
      BY <2>2, <3>1 DEF Tick, IInv, Shape, Tidy, Busy
    <3>2. CASE Proc # {}  BY <2>2, <3>2, QuietStep
    <3> QED  BY <3>1, <3>2
  <2>3. ASSUME NEW p \in Proc, Step(p) PROVE IInv'
    BY <2>3, QuietStep, OpenStep, WriteStep, RenameStep, CrashStep DEF Step
  <2> QED  BY <2>1, <2>2, <2>3 DEF Next
<1> QED  BY IInit, <1>1, PTL DEF Spec

\* The snapshot a reader opens is whole, or of an older build, after any reads,
\* refreshes, merges, wipes and deaths of any number of processes, unless two of
\* them were between opening and renaming the temporary file at once
\* (cache.go:346-374).
THEOREM SnapshotsAreWhole == Spec => []TornOnlyByOverlap
<1>1. IInv => TornOnlyByOverlap
  <2> SUFFICES ASSUME IInv, ~shared PROVE Form \notin {"empty", "torn"}
    BY DEF TornOnlyByOverlap
  <2> QED  BY DEF IInv, Tidy, Form
<1> QED  BY IHolds, <1>1, PTL

-----------------------------------------------------------------------------
(* What a snapshot says of its kinds *)

Stamps == UNION {[D -> Nat] : D \in SUBSET Kinds}
Snap == [at : Nat, kindAt : Stamps, rows : Stamps, skipped : SUBSET Kinds]

\* By the time t.
Honest(s, t) ==
  /\ s.at <= t
  /\ \A k \in DOMAIN s.rows : k \in DOMAIN s.kindAt /\ s.kindAt[k] = s.rows[k]
  /\ \A k \in DOMAIN s.kindAt : s.kindAt[k] >= s.at
  /\ s.skipped \cap DOMAIN s.kindAt = {}

\* Every file that parses and every snapshot a process is working on.
Sound(file, t) == file.form = "whole" => file.snap \in Snap /\ Honest(file.snap, t)

HonestInv ==
  /\ now \in Nat
  /\ \A i \in Inodes : Sound(disk[i], now)
  /\ job \in [Proc -> Snap]
  /\ \A p \in Proc : Honest(job[p], now)

LEMMA BlankIsHonest ==
  ASSUME NEW t \in Nat
  PROVE  Blank \in Snap /\ Honest(Blank, t)
<1>1. NoRows \in [{} -> Nat]  BY DEF NoRows
<1>2. NoRows \in Stamps  BY <1>1 DEF Stamps
<1>3. DOMAIN NoRows = {}  BY DEF NoRows
<1> QED  BY <1>2, <1>3 DEF Blank, Snapshot, Snap, Honest

\* A full scan, whatever it found and could not reach.
LEMMA ScanIsHonest ==
  ASSUME NEW t \in Nat, NEW found \in SUBSET Kinds, NEW failed \in SUBSET Kinds,
         found \cap failed = {}
  PROVE  LET s == Snapshot(t, [k \in found |-> t], failed)
         IN  s \in Snap /\ Honest(s, t)
<1> DEFINE rows == [k \in found |-> t]
<1>1. rows \in [found -> Nat]  OBVIOUS
<1>2. rows \in Stamps  BY <1>1 DEF Stamps
<1>3. DOMAIN rows = found /\ \A k \in found : rows[k] = t  OBVIOUS
<1> HIDE DEF rows
<1>4. Snapshot(t, rows, failed) \in Snap  BY <1>2 DEF Snapshot, Snap
<1>5. Honest(Snapshot(t, rows, failed), t)  BY <1>3 DEF Snapshot, Honest
<1> QED  BY <1>4, <1>5 DEF rows

\* A partial scan merged into what was read, at any later time.
LEMMA MergeIsHonest ==
  ASSUME HonestInv, NEW s \in Snap, Honest(s, now), NEW k \in Kinds, NEW any \in BOOLEAN
  PROVE  Merge(s, k, any) \in Snap /\ Honest(Merge(s, k, any), now)
<1> DEFINE m == Merge(s, k, any)
           R == (DOMAIN s.rows \ {k}) \cup (IF any THEN {k} ELSE {})
           D == DOMAIN s.kindAt \cup {k}
           rows == [j \in R |-> IF j = k THEN now ELSE s.rows[j]]
           kindAt == [j \in D |-> IF j = k THEN now ELSE s.kindAt[j]]
<1>1. now \in Nat  BY DEF HonestInv
<1>2. PICK DR \in SUBSET Kinds, DK \in SUBSET Kinds :
        s.rows \in [DR -> Nat] /\ s.kindAt \in [DK -> Nat]
  BY DEF Snap, Stamps
<1>3. R \in SUBSET Kinds /\ D \in SUBSET Kinds  BY <1>2
<1>4. rows \in [R -> Nat] /\ kindAt \in [D -> Nat]
  <2>1. ASSUME NEW j \in R, j # k PROVE j \in DR  BY <1>2, <2>1
  <2>2. ASSUME NEW j \in D, j # k PROVE j \in DK  BY <1>2, <2>2
  <2>3. rows \in [R -> Nat]  BY <1>1, <1>2, <2>1
  <2>4. kindAt \in [D -> Nat]  BY <1>1, <1>2, <2>2
  <2> QED  BY <2>3, <2>4
<1>5. rows \in Stamps /\ kindAt \in Stamps
  <2> HIDE DEF rows, kindAt, R, D
  <2> QED  BY <1>3, <1>4 DEF Stamps
<1>6. /\ s.at \in Nat /\ s.skipped \in SUBSET Kinds
      /\ m = [at |-> s.at, kindAt |-> kindAt, rows |-> rows, skipped |-> s.skipped \ {k}]
  <2>1. m = [s EXCEPT !.rows = rows, !.kindAt = kindAt, !.skipped = @ \ {k}]
    BY DEF Merge
  <2> HIDE DEF m, rows, kindAt
  <2> QED  BY <2>1 DEF Snap
<1>7. m \in Snap  BY <1>5, <1>6 DEF Snap
<1>8. \A j \in R : j \in D /\ kindAt[j] = rows[j]
  <2> TAKE j \in R
  <2>1. CASE j = k  BY <2>1
  <2>2. CASE j # k
    <3>1. j \in DOMAIN s.rows  BY <2>2
    <3>2. j \in DOMAIN s.kindAt /\ s.kindAt[j] = s.rows[j]  BY <3>1 DEF Honest
    <3> QED  BY <2>2, <3>2
  <2> QED  BY <2>1, <2>2
<1>9. \A j \in D : kindAt[j] >= s.at
  BY <1>1, <1>2, <1>6 DEF Honest
<1>10. (s.skipped \ {k}) \cap D = {}  BY DEF Honest
<1>11. DOMAIN rows = R /\ DOMAIN kindAt = D  OBVIOUS
<1>12. Honest(m, now)
  <2> HIDE DEF m, R, D, rows, kindAt
  <2> QED  BY <1>6, <1>8, <1>9, <1>10, <1>11 DEF Honest
<1> QED  BY <1>7, <1>12

\* A file no name and no descriptor is left of holds nothing.
LEMMA KeptIsSound ==
  ASSUME NEW content, NEW names, NEW fds, NEW t,
         \A i \in Inodes : Sound(content[i], t)
  PROVE  \A i \in Inodes : Sound(Kept(content, names, fds)[i], t)
BY DEF Kept, Sound, File

LEMMA OneFileIsSound ==
  ASSUME NEW i \in Inodes, NEW file, NEW t, Shape,
         \A j \in Inodes : Sound(disk[j], t), Sound(file, t)
  PROVE  \A j \in Inodes : Sound([disk EXCEPT ![i] = file][j], t)
<1> TAKE j \in Inodes
<1>1. CASE j = i  BY <1>1 DEF Shape
<1>2. CASE j # i  BY <1>2 DEF Shape
<1> QED  BY <1>1, <1>2

LEMMA HonestInit == Init => HonestInv
<1> SUFFICES ASSUME Init PROVE HonestInv  OBVIOUS
<1>1. now = 0 /\ job = [p \in Proc |-> Blank]  BY DEF Init
<1>2. \A i \in Inodes : Sound(disk[i], now)  BY DEF Init, Sound, File
<1>3. Blank \in Snap /\ Honest(Blank, now)  BY <1>1, BlankIsHonest
<1> QED  BY <1>1, <1>2, <1>3 DEF HonestInv

\* The steps that write no file.
LEMMA HonestDesk ==
  ASSUME Shape, HonestInv, now' = now,
         \/ disk' = disk
         \/ \E names, fds : disk' = Kept(disk, names, fds),
         \/ job' = job
         \/ \E p \in Proc, s \in Snap : Honest(s, now) /\ job' = [job EXCEPT ![p] = s]
  PROVE  HonestInv'
<1>1. \A i \in Inodes : Sound(disk[i], now)  BY DEF HonestInv
<1>2. \A i \in Inodes : Sound(disk'[i], now)
  <2>1. CASE disk' = disk  BY <1>1, <2>1
  <2>2. CASE \E names, fds : disk' = Kept(disk, names, fds)
    <3>1. PICK names, fds : disk' = Kept(disk, names, fds)  BY <2>2
    <3>2. \A i \in Inodes : Sound(Kept(disk, names, fds)[i], now)  BY <1>1, KeptIsSound
    <3> QED  BY <3>1, <3>2
  <2> QED  BY <2>1, <2>2
<1>3. job' \in [Proc -> Snap]  BY DEF HonestInv
<1>4. \A p \in Proc : Honest(job'[p], now)  BY DEF HonestInv
<1>5. Inodes' = Inodes /\ \A i \in Inodes : Sound(disk'[i], now')  BY <1>2 DEF Inodes
<1> QED  BY <1>3, <1>4, <1>5 DEF HonestInv

LEMMA HonestStep == ASSUME Shape, Shape', HonestInv, NEW p \in Proc, Step(p) PROVE HonestInv'
<1> USE NoneIsNoInode
<1>1. now \in Nat /\ job[p] \in Snap /\ Honest(job[p], now)  BY DEF HonestInv
<1>2. Blank \in Snap /\ Honest(Blank, now)  BY <1>1, BlankIsHonest
<1>3. \A i \in Inodes : Sound(disk[i], now)  BY DEF HonestInv
<1>4. ASSUME Archive, now' = now, job' = job PROVE HonestInv'
  BY <1>4, HonestDesk DEF Archive
<1>5. CASE Read(p)  BY <1>5, <1>4 DEF Read
<1>6. CASE \E force \in BOOLEAN : Refresh(p, force)
  <2>1. PICK force \in BOOLEAN : Refresh(p, force)  BY <1>6
  <2>2. CASE force  BY <2>1, <2>2, HonestDesk DEF Refresh
  <2>3. CASE ~force  BY <2>1, <2>3, <1>4 DEF Refresh
  <2> QED  BY <2>2, <2>3
<1>7. CASE \E found, failed \in SUBSET Kinds : Scanned(p, found, failed)
  <2>1. PICK found \in SUBSET Kinds, failed \in SUBSET Kinds : Scanned(p, found, failed)
    BY <1>7
  <2> DEFINE s == Snapshot(now, [k \in found |-> now], failed)
  <2>2. s \in Snap /\ Honest(s, now)  BY <1>1, <2>1, ScanIsHonest DEF Scanned
  <2>3. job' = [job EXCEPT ![p] = s] /\ disk' = disk /\ now' = now  BY <2>1 DEF Scanned
  <2> HIDE DEF s
  <2> QED  BY <2>2, <2>3, HonestDesk
<1>8. CASE RefreshKind(p)
  <2>1. CASE Form = "whole"
    <3>1. dir["path"] \in Inodes  BY <2>1 DEF Form, Shape
    <3>2. OnDisk \in Snap /\ Honest(OnDisk, now)
      BY <1>3, <2>1, <3>1 DEF Form, OnDisk, Sound
    <3>3. /\ now' = now /\ disk' = Kept(disk, dir', fd)
          /\ job' = [job EXCEPT ![p] = OnDisk]
      BY <1>8, <2>1 DEF RefreshKind, Archive
    <3> QED  BY <3>2, <3>3, HonestDesk
  <2>2. CASE Form # "whole"  BY <1>8, <2>2, <1>4 DEF RefreshKind
  <2> QED  BY <2>1, <2>2
<1>9. CASE \E k \in Kinds, any \in BOOLEAN : KindScanned(p, k, any)
  <2>1. PICK k \in Kinds, any \in BOOLEAN : KindScanned(p, k, any)  BY <1>9
  <2>2. Merge(job[p], k, any) \in Snap /\ Honest(Merge(job[p], k, any), now)
    BY <1>1, MergeIsHonest
  <2>3. /\ job' = [job EXCEPT ![p] = Merge(job[p], k, any)]
        /\ disk' = disk /\ now' = now
    BY <2>1 DEF KindScanned
  <2> QED  BY <2>2, <2>3, HonestDesk
<1>10. CASE ScanFails(p)  BY <1>2, <1>10, HonestDesk DEF ScanFails
<1>11. CASE OpenTmp(p)
  <2> DEFINE i == IF dir["tmp"] = None THEN Free ELSE dir["tmp"]
  <2>1. /\ disk' = [disk EXCEPT ![i] = File("empty", Blank)]
        /\ now' = now /\ job' = job
    BY <1>11 DEF OpenTmp
  <2>2. i \in Inodes
    <3>1. dir["tmp"] = None => Inodes \ Used # {}  BY <1>11 DEF OpenTmp
    <3> QED  BY <3>1, FreeIsFree DEF Shape
  <2>3. Sound(File("empty", Blank), now)  BY DEF Sound, File
  <2> HIDE DEF i
  <2>4. \A j \in Inodes : Sound(disk'[j], now)  BY <1>3, <2>1, <2>2, <2>3, OneFileIsSound
  <2>5. \A j \in Inodes' : Sound(disk'[j], now')  BY <2>1, <2>4 DEF Inodes
  <2> QED  BY <2>1, <2>5 DEF HonestInv
<1>12. CASE WriteTmp(p)
  <2>1. PICK form \in {"whole"} \cup (IF disk[fd[p]].form = "empty" THEN {} ELSE {"torn"}) :
          disk' = Kept([disk EXCEPT ![fd[p]] = File(form, IF form = "whole" THEN job[p]
                                                      ELSE Blank)], dir, fd')
    BY <1>12 DEF WriteTmp
  <2> DEFINE file == File(form, IF form = "whole" THEN job[p] ELSE Blank)
  <2>2. Sound(file, now)  BY <1>1 DEF Sound, File
  <2>3. now' = now /\ job' = job  BY <1>12 DEF WriteTmp
  <2> HIDE DEF file
  <2>4. \A j \in Inodes : Sound(disk'[j], now)
    <3> DEFINE content == [disk EXCEPT ![fd[p]] = file]
    <3>1. \A j \in Inodes : Sound(content[j], now)
      <4>1. CASE fd[p] \in Inodes  BY <1>3, <2>2, <4>1, OneFileIsSound
      <4>2. CASE fd[p] \notin Inodes  BY <1>3, <4>2 DEF Shape
      <4> QED  BY <4>1, <4>2
    <3>2. disk' = Kept(content, dir, fd')  BY <2>1 DEF file
    <3> HIDE DEF content
    <3> QED  BY <3>1, <3>2, KeptIsSound
  <2>5. \A j \in Inodes' : Sound(disk'[j], now')  BY <2>3, <2>4 DEF Inodes
  <2> QED  BY <2>3, <2>5 DEF HonestInv
<1>13. CASE Rename(p)  BY <1>2, <1>13, HonestDesk DEF Rename
<1>14. CASE Wipe(p)  BY <1>14, HonestDesk DEF Wipe
<1>15. CASE Crash(p)
  <2>1. now' = now /\ job' = [job EXCEPT ![p] = Blank]  BY <1>15 DEF Crash
  <2>2. CASE disk' = Kept(disk, dir, fd')  BY <1>2, <2>1, <2>2, HonestDesk
  <2>3. CASE disk' = Kept([disk EXCEPT ![fd[p]] = File("torn", Blank)], dir, fd')
    <3> DEFINE content == [disk EXCEPT ![fd[p]] = File("torn", Blank)]
    <3>1. Sound(File("torn", Blank), now)  BY DEF Sound, File
    <3>2. \A j \in Inodes : Sound(content[j], now)
      <4>1. CASE fd[p] \in Inodes  BY <1>3, <3>1, <4>1, OneFileIsSound
      <4>2. CASE fd[p] \notin Inodes  BY <1>3, <4>2 DEF Shape
      <4> QED  BY <4>1, <4>2
    <3>3. \A j \in Inodes : Sound(disk'[j], now)
      <4> HIDE DEF content
      <4> QED  BY <2>3, <3>2, KeptIsSound DEF content
    <3>4. \A j \in Inodes' : Sound(disk'[j], now')  BY <2>1, <3>3 DEF Inodes
    <3>5. job' \in [Proc -> Snap] /\ \A q \in Proc : Honest(job'[q], now')
      BY <1>2, <2>1 DEF HonestInv
    <3> QED  BY <1>1, <2>1, <3>4, <3>5 DEF HonestInv
  <2> QED  BY <1>15, <2>2, <2>3 DEF Crash
<1> QED
  BY <1>5, <1>6, <1>7, <1>8, <1>9, <1>10, <1>11, <1>12, <1>13, <1>14, <1>15 DEF Step

\* Time only makes a snapshot older.
LEMMA HonestTick == ASSUME HonestInv, Tick PROVE HonestInv'
<1>1. now \in Nat /\ now' = now + 1 /\ disk' = disk /\ job' = job
  BY DEF HonestInv, Tick
<1>2. ASSUME NEW s \in Snap, Honest(s, now) PROVE Honest(s, now')
  BY <1>1, <1>2 DEF Honest, Snap
<1>3. \A i \in Inodes : Sound(disk[i], now')  BY <1>2 DEF HonestInv, Sound
<1>4. \A i \in Inodes' : Sound(disk'[i], now')  BY <1>1, <1>3 DEF Inodes
<1>5. \A p \in Proc : Honest(job[p], now')  BY <1>2 DEF HonestInv
<1> QED  BY <1>1, <1>4, <1>5 DEF HonestInv

\* Whichever of several processes wrote it, and however full scans, scans of one
\* kind and failed ones were merged, the snapshot on disk dates the rows of each
\* kind by the scan that found them, and calls no kind both scanned and skipped
\* (partial.go:14-61, cmd_audit.go:212-238).
THEOREM SnapshotsAreHonest == Spec => []StampsAreHonest
<1>1. IInv /\ IInv' /\ HonestInv /\ [Next]_vars => HonestInv'
  <2> SUFFICES ASSUME Shape, Shape', HonestInv, [Next]_vars PROVE HonestInv'
    BY DEF IInv
  <2>1. CASE UNCHANGED vars  BY <2>1 DEF HonestInv, Inodes, vars
  <2>2. CASE Next  BY <2>2, HonestTick, HonestStep DEF Next
  <2> QED  BY <2>1, <2>2
<1>2. IInv /\ HonestInv => StampsAreHonest
  <2> SUFFICES ASSUME Shape, HonestInv, Form = "whole" PROVE Honest(OnDisk, now)
    BY DEF IInv, StampsAreHonest, Honest
  <2>1. dir["path"] \in Inodes  BY NoneIsNoInode DEF Form, Shape
  <2> QED  BY <2>1 DEF HonestInv, Sound, Form, OnDisk
<1> QED  BY IHolds, HonestInit, <1>1, <1>2, PTL DEF Spec
-----------------------------------------------------------------------------
(* Packs *)

Checking == {"hash", "scan", "ask", "record"}
Removing == {"meta", "config", "unpin"}
Stages == {"idle", "clone", "rename", "head", "pull"} \cup Checking \cup Removing

Marks == Packs!Versions \cup {0}
Offers == {Packs!Surface(v) : v \in Marks}
TreeType == [kind : {"none", "git", "link", "copy"}, at : Marks, detached : BOOLEAN]
RecordType == [hash : Marks, surface : Offers, local : BOOLEAN]
JobType == [pc : Stages, op : {"", "add", "update", "remove"}, name : Packs!Names,
            head : Marks, prev : RecordType, hash : Marks, surface : Offers,
            pins : SUBSET Packs!Names, shared : BOOLEAN]

PackShape ==
  /\ upstream \in Packs!Versions /\ work \in Packs!Versions
  /\ tree \in [Packs!Names -> TreeType] /\ meta \in [Packs!Names -> RecordType]
  /\ pins \subseteq Packs!Names /\ (held # <<>> => held[1] \subseteq Packs!Names)
  /\ duty \in [Proc -> JobType]
  /\ consented \in [Packs!Names -> SUBSET Offers]
  /\ strayed \in [Packs!Names -> BOOLEAN] /\ gone \in [Packs!Names -> BOOLEAN]

OnIt(p, n) == duty[p].pc # "idle" /\ duty[p].name = n

\* What the stage of a job says of it, whatever others do.
Placed(j) ==
  /\ j.pc \in {"clone", "rename"} => j.op = "add"
  /\ j.pc \in {"head", "pull"} => j.op = "update"
  /\ j.pc \in Checking => j.op \in {"add", "update"}
  /\ j.pc \in Removing => j.op = "remove"
  /\ j.pc = "pull" \/ (j.pc \in Checking /\ j.op = "update" /\ ~j.prev.local) => j.head # 0

\* A record of a clone whose shell commands are among those consented to.
Known(m, c) == m # Packs!NoRecord /\ ~m.local /\ m.surface = Packs!Surface(m.hash) /\ m.surface \in c

\* What a job with a name to itself has made of its tree and record so far.
Clean(j, t, m, c) ==
  /\ j.pc = "clone" \/ j.pc \in Removing => t = Packs!NoTree
  /\ t.kind = "git" =>
       /\ j.op = "update" => j.prev = m /\ Known(m, c)
       /\ j.pc = "head" => Packs!Surface(t.at) \in c
       /\ j.pc = "pull" => t.at = j.head
       /\ j.op = "update" /\ j.pc \in {"pull"} \cup Checking => Packs!Surface(j.head) \in c
       /\ j.pc \in {"scan", "ask", "record"} => j.hash = t.at
       /\ j.pc \in {"ask", "record"} => j.surface = Packs!Surface(t.at)
       /\ j.pc = "record" => j.surface \in c

Rested(t, m, c) == t.kind = "git" => Known(m, c) /\ Packs!Surface(t.at) \in c

\* A Remove nobody has shared the name with has undone what it was to undo.
Undone(j, t, m) ==
  j.pc \in Removing /\ ~j.shared =>
    t = Packs!NoTree /\ (j.pc # "meta" => m = Packs!NoRecord)

JobInv(p) ==
  /\ Placed(duty[p])
  /\ Undone(duty[p], tree[duty[p].name], meta[duty[p].name])
  /\ duty[p].pc # "idle" /\ ~strayed[duty[p].name] =>
       Clean(duty[p], tree[duty[p].name], meta[duty[p].name], consented[duty[p].name])

NameInv(n) ==
  /\ tree[n].kind = "git" => tree[n].at # 0
  /\ \A p, q \in Proc : OnIt(p, n) /\ OnIt(q, n) /\ p # q => duty[p].shared /\ strayed[n]
  /\ ~strayed[n] /\ ~Packs!Busy(n) => Rested(tree[n], meta[n], consented[n])
  /\ gone[n] => /\ tree[n] = Packs!NoTree /\ meta[n] = Packs!NoRecord
                /\ n \notin pins /\ ~Packs!Busy(n)

PackInv ==
  PackShape /\ (\A p \in Proc : JobInv(p)) /\ \A n \in Packs!Names : NameInv(n)

LEMMA PackConstants ==
  /\ Packs!Versions \subseteq Nat \ {0} /\ 1 \in Packs!Versions
  /\ \A v \in Packs!Versions : 1..v \subseteq Packs!Versions
  /\ Stem \in Packs!Names /\ \A v \in Packs!Versions : Canon[v] \in Packs!Names
  /\ Marks \subseteq Nat /\ 0 \in Marks /\ Packs!Versions \subseteq Marks
<1>1. /\ IsFiniteSet(Packs!Versions) /\ Packs!Versions # {}
      /\ Packs!Versions = 1..Cardinality(Packs!Versions)
  BY LocalAssumption
  DEF Packs!PackAssumption, Packs!IsFiniteSet, Packs!Cardinality, IsFiniteSet, Cardinality
<1>2. Cardinality(Packs!Versions) \in Nat
  BY <1>1, FS_CardinalityType
<1>3. PICK k \in Nat : Packs!Versions = 1..k /\ k > 0
  BY <1>1, <1>2
<1> QED
  BY <1>3 DEF Packs!Names, Marks

LEMMA RecordTypes ==
  /\ {} \in Offers
  /\ Packs!NoTree \in TreeType /\ Packs!NoRecord \in RecordType
  /\ Packs!Idle \in JobType
  /\ \A v \in Marks : Packs!Surface(v) \in Offers
<1>1. {} \in Offers /\ \A v \in Marks : Packs!Surface(v) \in Offers
  BY PackConstants DEF Offers, Packs!Surface
<1>2. Packs!NoTree \in TreeType
  BY PackConstants DEF TreeType, Packs!NoTree, Packs!Tree
<1>3. Packs!NoRecord \in RecordType
  BY PackConstants, <1>1 DEF RecordType, Packs!NoRecord, Packs!Record
<1>4. Packs!Idle \in JobType
  <2>1. {} \in SUBSET Packs!Names /\ "idle" \in Stages
    BY DEF Stages
  <2> QED
    BY PackConstants, <1>1, <1>3, <2>1 DEF JobType, Packs!Idle, Packs!Job
<1> QED
  BY <1>1, <1>2, <1>3, <1>4

LEMMA PackInitInv == Packs!Init => PackInv
<1> SUFFICES ASSUME Packs!Init PROVE PackInv
  OBVIOUS
<1>1. /\ upstream = 1 /\ work = 1 /\ pins = {} /\ held = <<>>
      /\ tree = [n \in Packs!Names |-> Packs!NoTree]
      /\ meta = [n \in Packs!Names |-> Packs!NoRecord]
      /\ duty = [p \in Proc |-> Packs!Idle]
      /\ consented = [n \in Packs!Names |-> {}]
      /\ strayed = [n \in Packs!Names |-> FALSE]
      /\ gone = [n \in Packs!Names |-> FALSE]
  BY DEF Packs!Init
<1>2. PackShape
  BY <1>1, PackConstants, RecordTypes DEF PackShape
<1>3. Packs!Idle.pc = "idle" /\ Packs!NoTree.kind = "none"
  BY DEF Packs!Idle, Packs!Job, Packs!NoTree, Packs!Tree
<1>4. \A p \in Proc : JobInv(p)
  BY <1>1, <1>3 DEF JobInv, Placed, Undone, Checking, Removing
<1>5. \A n \in Packs!Names : NameInv(n)
  BY <1>1, <1>3 DEF NameInv, OnIt, Rested
<1> QED
  BY <1>2, <1>4, <1>5 DEF PackInv

\* A job moved to another stage.
LEMMA GotoStep ==
  ASSUME PackShape, NEW r \in Proc, NEW x \in Stages, Packs!Goto(r, x)
  PROVE  /\ duty' \in [Proc -> JobType]
         /\ duty'[r].pc = x /\ duty'[r].op = duty[r].op /\ duty'[r].name = duty[r].name
         /\ duty'[r].head = duty[r].head /\ duty'[r].prev = duty[r].prev
         /\ duty'[r].hash = duty[r].hash /\ duty'[r].surface = duty[r].surface
         /\ duty'[r].pins = duty[r].pins /\ duty'[r].shared = duty[r].shared
         /\ \A q \in Proc \ {r} : duty'[q] = duty[q]
<1>1. duty \in [Proc -> JobType] /\ duty[r] \in JobType
  BY DEF PackShape
<1>2. duty' = [duty EXCEPT ![r] = [duty[r] EXCEPT !.pc = x]]
  BY <1>1 DEF Packs!Goto
<1> DEFINE j == [duty[r] EXCEPT !.pc = x]
<1>3. /\ j \in JobType
      /\ j.pc = x /\ j.op = duty[r].op /\ j.name = duty[r].name
      /\ j.head = duty[r].head /\ j.prev = duty[r].prev
      /\ j.hash = duty[r].hash /\ j.surface = duty[r].surface
      /\ j.pins = duty[r].pins /\ j.shared = duty[r].shared
  BY <1>1 DEF JobType
<1> HIDE DEF j
<1>4. duty' = [duty EXCEPT ![r] = j]
  BY <1>2 DEF j
<1>5. duty'[r] = j /\ duty' \in [Proc -> JobType] /\ \A q \in Proc \ {r} : duty'[q] = duty[q]
  BY <1>1, <1>3, <1>4
<1> QED
  BY <1>3, <1>5

LEMMA ReturnStep ==
  ASSUME PackShape, NEW r \in Proc, Packs!Return(r)
  PROVE  /\ duty' \in [Proc -> JobType]
         /\ duty'[r].pc = "idle"
         /\ \A q \in Proc \ {r} : duty'[q] = duty[q]
<1>1. duty \in [Proc -> JobType] /\ duty' = [duty EXCEPT ![r] = Packs!Idle]
  BY DEF PackShape, Packs!Return
<1>2. Packs!Idle.pc = "idle"
  BY DEF Packs!Idle, Packs!Job
<1> QED
  BY <1>1, <1>2, RecordTypes

\* Two jobs on one name know of each other, and the name is astray.
LEMMA Company ==
  ASSUME PackInv, NEW p \in Proc, NEW q \in Proc, p # q, NEW n \in Packs!Names,
         OnIt(p, n), OnIt(q, n)
  PROVE  duty[p].shared /\ strayed[n]
BY DEF PackInv, NameInv

\* What a step leaves alone for the names and processes it is not about.
Frame(r, N) ==
  /\ \A m \in Packs!Names \ N :
       /\ tree'[m] = tree[m] /\ meta'[m] = meta[m]
       /\ consented'[m] = consented[m] /\ strayed'[m] = strayed[m]
       /\ gone'[m] => gone[m] /\ m \notin pins'
       /\ ~OnIt(r, m) /\ ~OnIt(r, m)'
  /\ \A q \in Proc \ {r} :
       /\ duty'[q] = [duty[q] EXCEPT !.shared = duty'[q].shared]
       /\ duty[q].shared => duty'[q].shared
       /\ \A n \in N : OnIt(q, n) => duty'[q].shared /\ strayed'[n]

\* What it has to establish for its own.
Own(r, N) ==
  /\ JobInv(r)'
  /\ \A n \in N :
       /\ tree'[n].kind = "git" => tree'[n].at # 0
       /\ OnIt(r, n)' /\ (\E q \in Proc \ {r} : OnIt(q, n)) => duty'[r].shared
       /\ ~strayed'[n] /\ ~OnIt(r, n)' /\ (\A q \in Proc \ {r} : ~OnIt(q, n)) =>
            Rested(tree'[n], meta'[n], consented'[n])
       /\ gone'[n] => /\ tree'[n] = Packs!NoTree /\ meta'[n] = Packs!NoRecord
                      /\ n \notin pins' /\ ~OnIt(r, n)'
                      /\ \A q \in Proc \ {r} : ~OnIt(q, n)

LEMMA Others ==
  ASSUME PackInv, PackShape', NEW r \in Proc, NEW N \in SUBSET Packs!Names,
         Frame(r, N), NEW q \in Proc \ {r}
  PROVE  /\ JobInv(q)'
         /\ \A n \in Packs!Names : OnIt(q, n)' <=> OnIt(q, n)
<1> DEFINE s == duty'[q].shared
           n == duty[q].name
<1>1. duty[q] \in JobType /\ duty'[q] = [duty[q] EXCEPT !.shared = s] /\ JobInv(q)
  BY DEF PackInv, PackShape, Frame
<1> HIDE DEF s
<1>2. /\ duty'[q].pc = duty[q].pc /\ duty'[q].op = duty[q].op /\ duty'[q].name = n
      /\ duty'[q].head = duty[q].head /\ duty'[q].prev = duty[q].prev
      /\ duty'[q].hash = duty[q].hash /\ duty'[q].surface = duty[q].surface
      /\ duty'[q].shared = s /\ n \in Packs!Names
  BY <1>1 DEF JobType
<1>3. \A m \in Packs!Names : OnIt(q, m)' <=> OnIt(q, m)
  BY <1>2 DEF OnIt
<1>4. Placed(duty'[q])
  BY <1>1, <1>2 DEF JobInv, Placed
<1>5. CASE n \in N
  <2>1. duty[q].pc # "idle" => duty'[q].shared /\ strayed'[n]
    BY <1>5 DEF Frame, OnIt
  <2> QED
    BY <1>2, <1>3, <1>4, <2>1 DEF JobInv, Undone, Removing
<1>6. CASE n \notin N
  <2>1. /\ tree'[n] = tree[n] /\ meta'[n] = meta[n]
        /\ consented'[n] = consented[n] /\ strayed'[n] = strayed[n]
    BY <1>2, <1>6 DEF Frame
  <2>2. duty[q].shared => s
    BY DEF Frame, s
  <2>3. Undone(duty'[q], tree[n], meta[n])
    BY <1>1, <1>2, <2>2 DEF JobInv, Undone
  <2>4. duty[q].pc # "idle" /\ ~strayed[n] =>
          Clean(duty'[q], tree[n], meta[n], consented[n])
    BY <1>1, <1>2 DEF JobInv, Clean
  <2> QED
    BY <1>2, <1>3, <1>4, <2>1, <2>3, <2>4 DEF JobInv
<1> QED
  BY <1>3, <1>5, <1>6

LEMMA StepKeeps ==
  ASSUME PackInv, PackShape', NEW r \in Proc, NEW N \in SUBSET Packs!Names,
         Frame(r, N), Own(r, N)
  PROVE  PackInv'
<1>1. \A p \in Proc : JobInv(p)'
  BY Others DEF Own
<1>2. ASSUME NEW n \in Packs!Names PROVE NameInv(n)'
  <2>1. \A q \in Proc \ {r} : OnIt(q, n)' <=> OnIt(q, n)
    BY Others
  <2>2. NameInv(n)
    BY DEF PackInv
  <2>3. CASE n \in N
    <3>1. (tree[n].kind = "git" => tree[n].at # 0)'
      BY <2>3 DEF Own
    <3>2. ASSUME NEW p \in Proc, NEW q \in Proc, OnIt(p, n)', OnIt(q, n)', p # q
          PROVE  duty'[p].shared /\ strayed'[n]
      <4>1. CASE p = r
        BY <2>1, <2>3, <3>2, <4>1 DEF Own, Frame
      <4>2. CASE p # r
        BY <2>1, <2>3, <3>2, <4>2 DEF Frame
      <4> QED
        BY <4>1, <4>2
    <3>3. Packs!Busy(n)' <=> OnIt(r, n)' \/ \E q \in Proc \ {r} : OnIt(q, n)
      BY <2>1 DEF Packs!Busy, OnIt
    <3>4. ASSUME ~strayed'[n], ~Packs!Busy(n)'
          PROVE  Rested(tree'[n], meta'[n], consented'[n])
      BY <2>3, <3>3, <3>4 DEF Own
    <3>5. ASSUME gone'[n]
          PROVE  /\ tree'[n] = Packs!NoTree /\ meta'[n] = Packs!NoRecord
                 /\ n \notin pins' /\ ~Packs!Busy(n)'
      BY <2>3, <3>3, <3>5 DEF Own
    <3> QED
      BY <3>1, <3>2, <3>4, <3>5 DEF NameInv
  <2>4. CASE n \notin N
    <3>1. /\ tree'[n] = tree[n] /\ meta'[n] = meta[n]
          /\ consented'[n] = consented[n] /\ strayed'[n] = strayed[n]
          /\ gone'[n] => gone[n] /\ n \notin pins'
          /\ ~OnIt(r, n) /\ ~OnIt(r, n)'
      BY <2>4 DEF Frame
    <3>2. Packs!Busy(n)' <=> Packs!Busy(n)
      BY <2>1, <3>1 DEF Packs!Busy, OnIt
    <3>3. ASSUME NEW p \in Proc, NEW q \in Proc, OnIt(p, n)', OnIt(q, n)', p # q
          PROVE  duty'[p].shared /\ strayed'[n]
      <4>1. p # r /\ q # r /\ OnIt(p, n) /\ OnIt(q, n)
        BY <2>1, <3>1, <3>3
      <4>2. duty[p].shared /\ strayed[n]
        BY <3>3, <4>1, Company
      <4> QED
        BY <3>1, <4>1, <4>2 DEF Frame
    <3>4. ~strayed'[n] /\ ~Packs!Busy(n)' => Rested(tree'[n], meta'[n], consented'[n])
      BY <2>2, <3>1, <3>2 DEF NameInv
    <3>5. gone'[n] => /\ tree'[n] = Packs!NoTree /\ meta'[n] = Packs!NoRecord
                      /\ n \notin pins' /\ ~Packs!Busy(n)'
      BY <2>2, <3>1, <3>2 DEF NameInv
    <3>6. (tree[n].kind = "git" => tree[n].at # 0)'
      BY <2>2, <3>1 DEF NameInv
    <3> QED
      BY <3>3, <3>4, <3>5, <3>6 DEF NameInv
  <2> QED
    BY <2>3, <2>4
<1> QED
  BY <1>1, <1>2 DEF PackInv

\* What is known of the job of a process and of the name it is about.
LEMMA JobKnown ==
  ASSUME PackInv, NEW r \in Proc
  PROVE  /\ PackShape /\ duty[r] \in JobType /\ duty[r].name \in Packs!Names
         /\ JobInv(r) /\ NameInv(duty[r].name)
         /\ tree[duty[r].name] \in TreeType /\ meta[duty[r].name] \in RecordType
<1>1. PackShape /\ JobInv(r)
  BY DEF PackInv
<1>2. duty[r] \in JobType
  BY <1>1 DEF PackShape
<1>3. duty[r].name \in Packs!Names
  BY <1>2 DEF JobType
<1> QED
  BY <1>1, <1>2, <1>3 DEF PackInv, PackShape

\* A step of a job that is under way, on its own name.
Onward(r, n) ==
  /\ n = duty[r].name /\ duty[r].pc # "idle"
  /\ pins' = pins /\ gone' = gone
  /\ \A m \in Packs!Names \ {n} :
       /\ tree'[m] = tree[m] /\ meta'[m] = meta[m]
       /\ consented'[m] = consented[m] /\ strayed'[m] = strayed[m]
  /\ strayed[n] => strayed'[n]
  /\ \A q \in Proc \ {r} : duty'[q] = duty[q]
  /\ duty'[r].pc = "idle" \/ (duty'[r].name = n /\ duty'[r].shared = duty[r].shared)

LEMMA OnwardKeeps ==
  ASSUME PackInv, PackShape', NEW r \in Proc, NEW n \in Packs!Names, Onward(r, n),
         tree'[n].kind = "git" => tree'[n].at # 0,
         duty'[r].pc # "idle" => JobInv(r)',
         ~strayed'[n] /\ duty'[r].pc = "idle" => Rested(tree'[n], meta'[n], consented'[n])
  PROVE  PackInv'
<1>1. OnIt(r, n) /\ \A m \in Packs!Names \ {n} : ~OnIt(r, m) /\ ~OnIt(r, m)'
  BY DEF Onward, OnIt
<1>2. \A q \in Proc \ {r} : OnIt(q, n) => duty[q].shared /\ duty[r].shared /\ strayed[n]
  BY <1>1, Company
<1>3. ~gone[n]
  BY <1>1 DEF PackInv, NameInv, Packs!Busy, OnIt
<1>4. \A m \in Packs!Names : gone[m] => m \notin pins
  BY DEF PackInv, NameInv
<1>5. \A q \in Proc \ {r} : duty'[q] = [duty[q] EXCEPT !.shared = duty'[q].shared]
  <2>1. duty \in [Proc -> JobType]
    BY DEF PackInv, PackShape
  <2> QED
    BY <2>1 DEF Onward, JobType
<1>6. Frame(r, {n})
  BY <1>1, <1>2, <1>4, <1>5 DEF Frame, Onward
<1>7. JobInv(r)'
  <2>1. duty'[r].pc = "idle" => Placed(duty'[r]) /\ Undone(duty'[r], tree'[duty'[r].name],
                                                          meta'[duty'[r].name])
    BY DEF Placed, Undone, Checking, Removing
  <2> QED
    BY <2>1 DEF JobInv
<1>8. OnIt(r, n)' => duty'[r].shared = duty[r].shared
  BY DEF Onward, OnIt
<1>9. ~OnIt(r, n)' => duty'[r].pc = "idle"
  BY DEF Onward, OnIt
<1>10. Own(r, {n})
  BY <1>2, <1>3, <1>7, <1>8, <1>9 DEF Own, Onward
<1> QED
  BY <1>6, <1>10, StepKeeps

\* Trees a step leaves behind.
LEMMA TreeStep ==
  ASSUME PackShape, NEW n \in Packs!Names, NEW t \in TreeType, tree' = [tree EXCEPT ![n] = t]
  PROVE  /\ tree' \in [Packs!Names -> TreeType] /\ tree'[n] = t
         /\ \A m \in Packs!Names \ {n} : tree'[m] = tree[m]
BY DEF PackShape

LEMMA TreeOf ==
  ASSUME NEW k \in {"git", "link", "copy"}, NEW v \in Marks, NEW d \in BOOLEAN
  PROVE  /\ Packs!Tree(k, v, d) \in TreeType /\ Packs!Tree(k, v, d).kind = k
         /\ Packs!Tree(k, v, d).at = v
BY DEF TreeType, Packs!Tree

LEMMA CloneOf ==
  ASSUME NEW v \in Packs!Versions, NEW d \in BOOLEAN
  PROVE  /\ Packs!Tree("git", v, d) \in TreeType /\ Packs!Tree("git", v, d).kind = "git"
         /\ Packs!Tree("git", v, d).at # 0
<1>1. v \in Marks /\ v # 0
  BY PackConstants
<1> QED
  BY <1>1, TreeOf

LEMMA NoTreeIs == Packs!NoTree \in TreeType /\ Packs!NoTree.kind = "none"
BY RecordTypes DEF Packs!NoTree, Packs!Tree

LEMMA CloneStep == ASSUME PackInv, NEW r \in Proc, Packs!Clone(r) PROVE PackInv'
<1> DEFINE n == duty[r].name
<1>1. PackShape /\ n \in Packs!Names /\ JobInv(r) /\ duty[r].pc = "clone"
  BY JobKnown DEF Packs!Clone, Packs!At
<1>2. /\ UNCHANGED <<meta, pins, upstream, work, held, consented, strayed, gone>>
  BY DEF Packs!Clone, Packs!outside
<1>3. CASE Packs!Exists(n)
  <2>1. tree' = [tree EXCEPT ![n] = Packs!NoTree] /\ Packs!Return(r)
    BY <1>3 DEF Packs!Clone, Packs!RemoveAll
  <2>2. /\ tree' \in [Packs!Names -> TreeType] /\ tree'[n] = Packs!NoTree
        /\ \A m \in Packs!Names \ {n} : tree'[m] = tree[m]
    BY <1>1, <2>1, TreeStep, NoTreeIs
  <2>3. /\ duty' \in [Proc -> JobType] /\ duty'[r].pc = "idle"
        /\ \A q \in Proc \ {r} : duty'[q] = duty[q]
    BY <1>1, <2>1, ReturnStep
  <2>4. PackShape'
    BY <1>1, <1>2, <2>2, <2>3 DEF PackShape
  <2>5. Onward(r, n)
    BY <1>1, <1>2, <2>2, <2>3 DEF Onward
  <2>6. tree'[n].kind # "git"
    BY <2>2, NoTreeIs
  <2> QED
    BY <1>1, <2>3, <2>4, <2>5, <2>6, OnwardKeeps DEF Rested
<1>4. CASE ~Packs!Exists(n)
  <2> DEFINE t == Packs!Tree("git", upstream, FALSE)
  <2>1. tree' = [tree EXCEPT ![n] = t] /\ Packs!Goto(r, "rename")
    BY <1>4 DEF Packs!Clone
  <2>2. t \in TreeType /\ t.kind = "git" /\ t.at # 0
    BY <1>1, CloneOf DEF PackShape
  <2> HIDE DEF t
  <2>3. /\ tree' \in [Packs!Names -> TreeType] /\ tree'[n] = t
        /\ \A m \in Packs!Names \ {n} : tree'[m] = tree[m]
    BY <1>1, <2>1, <2>2, TreeStep
  <2>4. /\ duty' \in [Proc -> JobType] /\ duty'[r].pc = "rename" /\ duty'[r].op = duty[r].op
        /\ duty'[r].name = n /\ duty'[r].shared = duty[r].shared
        /\ \A q \in Proc \ {r} : duty'[q] = duty[q]
    BY <1>1, <2>1, GotoStep DEF Stages
  <2>5. PackShape'
    BY <1>1, <1>2, <2>3, <2>4 DEF PackShape
  <2>6. Onward(r, n)
    BY <1>1, <1>2, <2>3, <2>4 DEF Onward
  <2>7. JobInv(r)'
    BY <1>1, <2>4 DEF JobInv, Placed, Undone, Clean, Checking, Removing
  <2> QED
    BY <1>1, <2>2, <2>3, <2>4, <2>5, <2>6, <2>7, OnwardKeeps
<1> QED
  BY <1>3, <1>4

LEMMA CheckoutStep == ASSUME PackInv, NEW r \in Proc, Packs!Checkout(r) PROVE PackInv'
<1> DEFINE n == duty[r].name
<1>1. PackShape /\ n \in Packs!Names /\ JobInv(r) /\ duty[r].pc = "rename"
  BY JobKnown DEF Packs!Checkout, Packs!At
<1>2. /\ UNCHANGED <<meta, pins, upstream, work, held, duty, consented, strayed, gone>>
  BY DEF Packs!Checkout, Packs!outside
<1>3. PICK v \in 1..upstream : tree' = [tree EXCEPT ![n] = Packs!Tree("git", v, TRUE)]
  BY DEF Packs!Checkout
<1> DEFINE t == Packs!Tree("git", v, TRUE)
<1>4. v \in Packs!Versions
  BY <1>1, PackConstants DEF PackShape
<1>5. t \in TreeType /\ t.kind = "git" /\ t.at # 0
  BY <1>4, CloneOf
<1>6. tree' = [tree EXCEPT ![n] = t]
  BY <1>3
<1> HIDE DEF t
<1>7. /\ tree' \in [Packs!Names -> TreeType] /\ tree'[n] = t
      /\ \A m \in Packs!Names \ {n} : tree'[m] = tree[m]
  BY <1>1, <1>5, <1>6, TreeStep
<1>8. PackShape'
  BY <1>1, <1>2, <1>7 DEF PackShape
<1>9. Onward(r, n)
  BY <1>1, <1>2, <1>7 DEF Onward
<1>10. JobInv(r)'
  BY <1>1, <1>2 DEF JobInv, Placed, Undone, Clean, Checking, Removing
<1> QED
  BY <1>1, <1>2, <1>5, <1>7, <1>8, <1>9, <1>10, OnwardKeeps

\* A job ends and leaves records, pins and trust as they are.
LEMMA ReturnKeeps ==
  ASSUME PackInv, NEW r \in Proc, duty[r].pc # "idle", NEW n, n = duty[r].name,
         Packs!Return(r), UNCHANGED <<meta, pins, upstream, work, held, consented, gone>>,
         tree' \in [Packs!Names -> TreeType],
         \A m \in Packs!Names \ {n} : tree'[m] = tree[m],
         tree'[n].kind = "git" => tree'[n].at # 0,
         strayed' = strayed \/ strayed' = [strayed EXCEPT ![n] = TRUE],
         strayed' = strayed /\ ~strayed[n] => Rested(tree'[n], meta[n], consented[n])
  PROVE  PackInv'
<1>1. PackShape /\ n \in Packs!Names
  BY JobKnown
<1>2. /\ duty' \in [Proc -> JobType] /\ duty'[r].pc = "idle"
      /\ \A q \in Proc \ {r} : duty'[q] = duty[q]
  BY <1>1, ReturnStep
<1>3. /\ strayed' \in [Packs!Names -> BOOLEAN]
      /\ \A m \in Packs!Names \ {n} : strayed'[m] = strayed[m]
      /\ strayed' = strayed \/ strayed'[n]
  BY <1>1 DEF PackShape
<1>4. PackShape'
  BY <1>1, <1>2, <1>3 DEF PackShape
<1>5. Onward(r, n)
  BY <1>2, <1>3 DEF Onward
<1>6. ~strayed'[n] => Rested(tree'[n], meta'[n], consented'[n])
  BY <1>3
<1> QED
  BY <1>1, <1>2, <1>4, <1>5, <1>6, OnwardKeeps

\* A job goes on and leaves records, pins and trust as they are.
LEMMA MoveKeeps ==
  ASSUME PackInv, NEW r \in Proc, duty[r].pc # "idle", NEW n, n = duty[r].name,
         UNCHANGED <<meta, pins, upstream, work, held, strayed, gone>>,
         consented' \in [Packs!Names -> SUBSET Offers],
         \A m \in Packs!Names \ {n} : consented'[m] = consented[m],
         tree' \in [Packs!Names -> TreeType],
         \A m \in Packs!Names \ {n} : tree'[m] = tree[m],
         tree'[n].kind = "git" => tree'[n].at # 0,
         duty' \in [Proc -> JobType],
         \A q \in Proc \ {r} : duty'[q] = duty[q],
         duty'[r].name = n, duty'[r].shared = duty[r].shared, duty'[r].pc # "idle",
         Placed(duty'[r]), Undone(duty'[r], tree'[n], meta[n]),
         ~strayed[n] => Clean(duty'[r], tree'[n], meta[n], consented'[n])
  PROVE  PackInv'
<1>1. PackShape /\ n \in Packs!Names
  BY JobKnown
<1>2. PackShape'
  BY <1>1 DEF PackShape
<1>3. Onward(r, n)
  BY DEF Onward
<1>4. JobInv(r)'
  BY DEF JobInv
<1> QED
  BY <1>1, <1>2, <1>3, <1>4, OnwardKeeps

LEMMA UndoKeeps ==
  ASSUME PackInv, NEW r \in Proc, duty[r].pc \in {"clone", "rename"} \cup Checking,
         Packs!Undo(r), Packs!Return(r),
         UNCHANGED <<meta, pins, upstream, work, held, consented, gone>>
  PROVE  PackInv'
<1> DEFINE n == duty[r].name
<1>1. /\ PackShape /\ n \in Packs!Names /\ JobInv(r) /\ NameInv(n) /\ duty[r].pc # "idle"
      /\ duty[r] \in JobType
  BY JobKnown DEF Checking
<1>2. ~strayed[n] => Clean(duty[r], tree[n], meta[n], consented[n])
  BY <1>1 DEF JobInv
<1>3. tree \in [Packs!Names -> TreeType] /\ (tree[n].kind = "git" => tree[n].at # 0)
  BY <1>1 DEF PackShape, NameInv
<1>4. CASE tree' = [tree EXCEPT ![n] = Packs!NoTree] /\ UNCHANGED strayed
  <2>1. /\ tree' \in [Packs!Names -> TreeType] /\ tree'[n] = Packs!NoTree
        /\ \A m \in Packs!Names \ {n} : tree'[m] = tree[m]
    BY <1>1, <1>4, TreeStep, NoTreeIs
  <2>2. tree'[n].kind # "git"
    BY <2>1, NoTreeIs
  <2> QED
    BY <1>1, <1>4, <2>1, <2>2, ReturnKeeps DEF Rested
<1>5. CASE duty[r].op = "update" /\ duty[r].prev.local /\ UNCHANGED <<tree, strayed>>
  <2>1. ~strayed[n] => tree[n].kind # "git"
    BY <1>2, <1>5 DEF Clean, Known
  <2> QED
    BY <1>1, <1>3, <1>5, <2>1, ReturnKeeps DEF Rested
<1>6. CASE duty[r].op = "update" /\ ~duty[r].prev.local /\ Packs!Reset(r, n)
  <2>1. duty[r].pc \in Checking /\ duty[r].head # 0 /\ duty[r].head \in Marks
    BY <1>1, <1>6 DEF JobInv, Placed, Checking, JobType
  <2>2. CASE tree[n].kind # "git"
    <3>1. UNCHANGED <<tree, strayed>>
      BY <1>6, <2>2 DEF Packs!Reset
    <3> QED
      BY <1>1, <1>3, <2>2, <3>1, ReturnKeeps DEF Rested
  <2>3. CASE tree[n].kind = "git"
    <3> DEFINE t == [tree[n] EXCEPT !.at = duty[r].head]
    <3>1. tree' = [tree EXCEPT ![n] = t] /\ UNCHANGED strayed
      BY <1>1, <1>3, <1>6, <2>3 DEF Packs!Reset
    <3>2. t \in TreeType /\ t.kind = "git" /\ t.at = duty[r].head
      BY <1>1, <1>3, <2>1, <2>3 DEF TreeType
    <3> HIDE DEF t
    <3>3. /\ tree' \in [Packs!Names -> TreeType] /\ tree'[n] = t
          /\ \A m \in Packs!Names \ {n} : tree'[m] = tree[m]
      BY <1>1, <3>1, <3>2, TreeStep
    <3>4. ~strayed[n] => Rested(t, meta[n], consented[n])
      BY <1>2, <1>6, <2>1, <2>3, <3>2 DEF Clean, Rested
    <3> QED
      BY <1>1, <2>1, <3>1, <3>2, <3>3, <3>4, ReturnKeeps
  <2> QED
    BY <2>2, <2>3
<1>7. CASE UNCHANGED tree /\ strayed' = [strayed EXCEPT ![n] = TRUE]
  <2>1. strayed' = strayed => strayed[n]
    BY <1>1, <1>7 DEF PackShape
  <2> QED
    BY <1>1, <1>3, <1>7, <2>1, ReturnKeeps
<1> QED
  BY <1>4, <1>5, <1>6, <1>7
  DEF Packs!Undo, Packs!RemoveAll, Packs!ResetFails, Packs!Astray

\* A job that breaks off leaves its name astray.
LEMMA BreakKeeps ==
  ASSUME PackInv, NEW r \in Proc, duty[r].pc # "idle",
         Packs!Return(r), Packs!Astray(duty[r].name),
         UNCHANGED <<tree, meta, pins, upstream, work, held, consented, gone>>
  PROVE  PackInv'
<1> DEFINE n == duty[r].name
<1>1. PackShape /\ n \in Packs!Names /\ NameInv(n)
  BY JobKnown
<1>2. strayed' = [strayed EXCEPT ![n] = TRUE] /\ (strayed' = strayed => strayed[n])
  BY <1>1 DEF PackShape, Packs!Astray
<1>3. tree \in [Packs!Names -> TreeType] /\ (tree[n].kind = "git" => tree[n].at # 0)
  BY <1>1 DEF PackShape, NameInv
<1> QED
  BY <1>1, <1>2, <1>3, ReturnKeeps

LEMMA FailsStep == ASSUME PackInv, NEW r \in Proc, Packs!Fails(r) PROVE PackInv'
<1>1. /\ duty[r].pc \in {"clone", "rename"} \cup Checking
      /\ Packs!Undo(r) /\ Packs!Return(r)
      /\ UNCHANGED <<meta, pins, upstream, work, held, consented, gone>>
  BY DEF Packs!Fails, Packs!outside, Checking
<1> QED
  BY <1>1, UndoKeeps

LEMMA DeniedStep == ASSUME PackInv, NEW r \in Proc, Packs!Denied(r) PROVE PackInv'
<1>1. duty[r].pc \in Checking
  BY DEF Packs!Denied, Packs!At, Checking
<1>2. /\ Packs!Undo(r) /\ Packs!Return(r)
      /\ UNCHANGED <<meta, pins, upstream, work, held, consented, gone>>
  BY DEF Packs!Denied, Packs!outside
<1> QED
  BY <1>1, <1>2, UndoKeeps

LEMMA RemoveFailsStep == ASSUME PackInv, NEW r \in Proc, Packs!RemoveFails(r) PROVE PackInv'
<1>1. /\ duty[r].pc # "idle" /\ Packs!Return(r) /\ Packs!Astray(duty[r].name)
      /\ UNCHANGED <<tree, meta, pins, upstream, work, held, consented, gone>>
  BY DEF Packs!RemoveFails, Packs!outside, Packs!disk
<1> QED
  BY <1>1, BreakKeeps

LEMMA DiesStep == ASSUME PackInv, NEW r \in Proc, Packs!Crash(r) PROVE PackInv'
<1>1. UNCHANGED <<tree, meta, pins, upstream, work, held, consented, gone>>
  BY DEF Packs!Crash, Packs!outside, Packs!disk
<1>2. duty[r].pc # "idle" /\ Packs!Return(r) /\ Packs!Astray(duty[r].name)
  BY DEF Packs!Crash
<1> QED
  BY <1>1, <1>2, BreakKeeps

LEMMA RevParseStep == ASSUME PackInv, NEW r \in Proc, Packs!RevParse(r) PROVE PackInv'
<1> DEFINE n == duty[r].name
           j == [duty[r] EXCEPT !.pc = "pull", !.head = tree[n].at]
<1>1. /\ PackShape /\ n \in Packs!Names /\ JobInv(r) /\ NameInv(n) /\ duty[r] \in JobType
      /\ tree[n] \in TreeType
  BY JobKnown
<1>2. /\ UNCHANGED <<tree, meta, pins, upstream, work, held, consented, strayed, gone>>
      /\ duty[r].pc = "head" /\ tree[n].kind = "git"
  BY DEF Packs!RevParse, Packs!At, Packs!outside, Packs!disk
<1>3. tree[n].at \in Marks /\ tree[n].at # 0
  BY <1>1, <1>2 DEF NameInv, TreeType
<1>4. /\ j \in JobType /\ j.pc = "pull" /\ j.head = tree[n].at /\ j.name = n
      /\ j.shared = duty[r].shared /\ j.op = duty[r].op /\ j.prev = duty[r].prev
  BY <1>1, <1>3 DEF JobType, Stages
<1>5. duty' = [duty EXCEPT ![r] = j] /\ duty \in [Proc -> JobType]
  BY <1>1 DEF Packs!RevParse, PackShape
<1> HIDE DEF j
<1>6. /\ duty' \in [Proc -> JobType] /\ duty'[r] = j
      /\ \A q \in Proc \ {r} : duty'[q] = duty[q]
  BY <1>4, <1>5
<1>7. Placed(j) /\ Undone(j, tree[n], meta[n])
  BY <1>1, <1>2, <1>3, <1>4 DEF JobInv, Placed, Undone, Checking, Removing
<1>8. ~strayed[n] => Clean(j, tree[n], meta[n], consented[n])
  BY <1>1, <1>2, <1>4 DEF JobInv, Clean, Checking, Removing
<1>9. /\ tree \in [Packs!Names -> TreeType] /\ consented \in [Packs!Names -> SUBSET Offers]
  BY <1>1 DEF PackShape
<1> QED
  BY <1>2, <1>3, <1>4, <1>6, <1>7, <1>8, <1>9, MoveKeeps

LEMMA PullStep == ASSUME PackInv, NEW r \in Proc, Packs!Pull(r) PROVE PackInv'
<1> DEFINE n == duty[r].name
           t == [tree[n] EXCEPT !.at = upstream]
<1>1. /\ PackShape /\ n \in Packs!Names /\ JobInv(r) /\ NameInv(n) /\ duty[r] \in JobType
      /\ tree[n] \in TreeType
  BY JobKnown
<1>2. /\ UNCHANGED <<meta, pins, upstream, work, held, consented, strayed, gone>>
      /\ duty[r].pc = "pull" /\ tree[n].kind = "git" /\ Packs!Goto(r, "hash")
  BY DEF Packs!Pull, Packs!At, Packs!outside
<1>3. t \in TreeType /\ t.kind = "git" /\ t.at # 0
  BY <1>1, <1>2, PackConstants DEF TreeType, PackShape
<1>4. tree' = [tree EXCEPT ![n] = t]
  BY <1>1 DEF Packs!Pull, PackShape
<1> HIDE DEF t
<1>5. /\ tree' \in [Packs!Names -> TreeType] /\ tree'[n] = t
      /\ \A m \in Packs!Names \ {n} : tree'[m] = tree[m]
  BY <1>1, <1>3, <1>4, TreeStep
<1>6. /\ duty' \in [Proc -> JobType]
      /\ duty'[r].pc = "hash" /\ duty'[r].op = duty[r].op /\ duty'[r].name = n
      /\ duty'[r].head = duty[r].head /\ duty'[r].prev = duty[r].prev
      /\ duty'[r].shared = duty[r].shared
      /\ \A q \in Proc \ {r} : duty'[q] = duty[q]
  BY <1>1, <1>2, GotoStep DEF Stages, Checking
<1>7. Placed(duty'[r]) /\ Undone(duty'[r], t, meta[n])
  BY <1>1, <1>2, <1>6 DEF JobInv, Placed, Undone, Checking, Removing
<1>8. ~strayed[n] => Clean(duty'[r], t, meta[n], consented[n])
  BY <1>1, <1>2, <1>3, <1>6 DEF JobInv, Clean, Checking, Removing
<1>9. consented \in [Packs!Names -> SUBSET Offers]
  BY <1>1 DEF PackShape
<1> QED
  BY <1>2, <1>3, <1>5, <1>6, <1>7, <1>8, <1>9, MoveKeeps

LEMMA PullFailsStep == ASSUME PackInv, NEW r \in Proc, Packs!PullFails(r) PROVE PackInv'
<1> DEFINE n == duty[r].name
           t == [tree[n] EXCEPT !.at = upstream]
<1>1. /\ PackShape /\ n \in Packs!Names /\ JobInv(r) /\ NameInv(n) /\ duty[r] \in JobType
      /\ tree[n] \in TreeType
  BY JobKnown
<1>2. /\ UNCHANGED <<meta, pins, upstream, work, held, consented, gone>>
      /\ duty[r].pc \in {"head", "pull"} /\ duty[r].pc # "idle" /\ Packs!Return(r)
  BY DEF Packs!PullFails, Packs!At, Packs!outside
<1>3. CASE UNCHANGED <<tree, strayed>>
  <2>1. ~strayed[n] => Rested(tree[n], meta[n], consented[n])
    BY <1>1, <1>2 DEF JobInv, Clean, Rested, Placed
  <2>2. tree \in [Packs!Names -> TreeType] /\ (tree[n].kind = "git" => tree[n].at # 0)
    BY <1>1 DEF PackShape, NameInv
  <2> QED
    BY <1>2, <1>3, <2>1, <2>2, ReturnKeeps
<1>4. CASE /\ tree[n].kind = "git" /\ tree' = [tree EXCEPT ![n].at = upstream]
           /\ Packs!Astray(n)
  <2>1. t \in TreeType /\ t.kind = "git" /\ t.at # 0
    BY <1>1, <1>4, PackConstants DEF TreeType, PackShape
  <2>2. tree' = [tree EXCEPT ![n] = t]
    BY <1>1, <1>4 DEF PackShape
  <2> HIDE DEF t
  <2>3. /\ tree' \in [Packs!Names -> TreeType] /\ tree'[n] = t
        /\ \A m \in Packs!Names \ {n} : tree'[m] = tree[m]
    BY <1>1, <2>1, <2>2, TreeStep
  <2>4. strayed' = [strayed EXCEPT ![n] = TRUE] /\ (strayed' = strayed => strayed[n])
    BY <1>1, <1>4 DEF PackShape, Packs!Astray
  <2> QED
    BY <1>2, <2>1, <2>3, <2>4, ReturnKeeps
<1> QED
  BY <1>3, <1>4 DEF Packs!PullFails

LEMMA HashStep == ASSUME PackInv, NEW r \in Proc, Packs!Hash(r) PROVE PackInv'
<1> DEFINE n == duty[r].name
           j == [duty[r] EXCEPT !.pc = "scan", !.hash = Packs!Content(n)]
<1>1. /\ PackShape /\ n \in Packs!Names /\ JobInv(r) /\ NameInv(n) /\ duty[r] \in JobType
      /\ tree[n] \in TreeType
  BY JobKnown
<1>2. /\ UNCHANGED <<tree, meta, pins, upstream, work, held, consented, strayed, gone>>
      /\ duty[r].pc = "hash"
  BY DEF Packs!Hash, Packs!At, Packs!outside, Packs!disk
<1>3. Packs!Content(n) \in Marks /\ (tree[n].kind = "git" => Packs!Content(n) = tree[n].at)
  BY <1>1, PackConstants DEF Packs!Content, TreeType, PackShape
<1>4. /\ j \in JobType /\ j.pc = "scan" /\ j.hash = Packs!Content(n) /\ j.name = n
      /\ j.shared = duty[r].shared /\ j.op = duty[r].op /\ j.prev = duty[r].prev
      /\ j.head = duty[r].head
  BY <1>1, <1>3 DEF JobType, Stages, Checking
<1>5. duty' = [duty EXCEPT ![r] = j] /\ duty \in [Proc -> JobType]
  BY <1>1 DEF Packs!Hash, PackShape
<1> HIDE DEF j
<1>6. /\ duty' \in [Proc -> JobType] /\ duty'[r] = j
      /\ \A q \in Proc \ {r} : duty'[q] = duty[q]
  BY <1>4, <1>5
<1>7. Placed(j) /\ Undone(j, tree[n], meta[n])
  BY <1>1, <1>2, <1>3, <1>4 DEF JobInv, Placed, Undone, Checking, Removing
<1>8. ~strayed[n] => Clean(j, tree[n], meta[n], consented[n])
  BY <1>1, <1>2, <1>3, <1>4 DEF JobInv, Clean, Checking, Removing
<1>9. /\ tree \in [Packs!Names -> TreeType] /\ consented \in [Packs!Names -> SUBSET Offers]
      /\ (tree[n].kind = "git" => tree[n].at # 0)
  BY <1>1 DEF PackShape, NameInv
<1> QED
  BY <1>2, <1>4, <1>6, <1>7, <1>8, <1>9, MoveKeeps

LEMMA ScanStep == ASSUME PackInv, NEW r \in Proc, Packs!Scan(r) PROVE PackInv'
<1> DEFINE n == duty[r].name
           s == Packs!Surface(Packs!Content(n))
           x == IF duty[r].op = "update" /\ s = duty[r].prev.surface THEN "record" ELSE "ask"
           j == [duty[r] EXCEPT !.surface = s, !.pc = x]
           same == duty[r].op = "update" /\ duty[r].hash = duty[r].prev.hash
<1>1. /\ PackShape /\ n \in Packs!Names /\ JobInv(r) /\ NameInv(n) /\ duty[r] \in JobType
      /\ tree[n] \in TreeType
  BY JobKnown
<1>2. /\ UNCHANGED <<tree, meta, pins, upstream, work, held, consented, strayed, gone>>
      /\ duty[r].pc = "scan"
  BY DEF Packs!Scan, Packs!At, Packs!outside, Packs!disk
<1>3. /\ s \in Offers
      /\ (tree[n].kind = "git" => s = Packs!Surface(tree[n].at))
  <2>1. Packs!Content(n) \in Marks /\ (tree[n].kind = "git" => Packs!Content(n) = tree[n].at)
    BY <1>1, PackConstants DEF Packs!Content, TreeType, PackShape
  <2> QED
    BY <2>1, RecordTypes
<1>4. /\ tree \in [Packs!Names -> TreeType] /\ consented \in [Packs!Names -> SUBSET Offers]
      /\ (tree[n].kind = "git" => tree[n].at # 0)
  BY <1>1 DEF PackShape, NameInv
<1>5. ~strayed[n] => Clean(duty[r], tree[n], meta[n], consented[n])
  BY <1>1, <1>2 DEF JobInv
<1>6. CASE same
  <2>1. Packs!Return(r)
    BY <1>6 DEF Packs!Scan, Packs!Return
  <2>2. ~strayed[n] => Rested(tree[n], meta[n], consented[n])
    BY <1>2, <1>5, <1>6 DEF Clean, Rested, Known
  <2> QED
    BY <1>2, <1>4, <2>1, <2>2, ReturnKeeps
<1>7. CASE ~same
  <2>1. duty' = [duty EXCEPT ![r] = j] /\ duty \in [Proc -> JobType]
    BY <1>1, <1>7 DEF Packs!Scan, PackShape
  <2>2. x \in {"record", "ask"} /\ (x = "record" => duty[r].op = "update" /\ s = duty[r].prev.surface)
    OBVIOUS
  <2>3. x \in Stages
    BY <2>2 DEF Stages, Checking
  <2> HIDE DEF x, s
  <2>4. /\ j \in JobType /\ j.pc = x /\ j.surface = s /\ j.name = n
        /\ j.shared = duty[r].shared /\ j.op = duty[r].op /\ j.prev = duty[r].prev
        /\ j.head = duty[r].head /\ j.hash = duty[r].hash
    BY <1>1, <1>3, <2>3 DEF JobType
  <2> HIDE DEF j
  <2>5. /\ duty' \in [Proc -> JobType] /\ duty'[r] = j
        /\ \A q \in Proc \ {r} : duty'[q] = duty[q]
    BY <2>1, <2>4
  <2>6. Placed(j) /\ Undone(j, tree[n], meta[n])
    BY <1>1, <1>2, <2>2, <2>4 DEF JobInv, Placed, Undone, Checking, Removing
  <2>7. ~strayed[n] => Clean(j, tree[n], meta[n], consented[n])
    BY <1>2, <1>3, <1>5, <2>2, <2>4 DEF Clean, Known, Checking, Removing
  <2> QED
    BY <1>2, <1>4, <2>2, <2>4, <2>5, <2>6, <2>7, MoveKeeps
<1> QED
  BY <1>6, <1>7

LEMMA TrustedStep == ASSUME PackInv, NEW r \in Proc, Packs!Trusted(r) PROVE PackInv'
<1> DEFINE n == duty[r].name
           c == consented[n] \cup {duty[r].surface}
<1>1. /\ PackShape /\ n \in Packs!Names /\ JobInv(r) /\ NameInv(n) /\ duty[r] \in JobType
      /\ tree[n] \in TreeType
  BY JobKnown
<1>2. /\ UNCHANGED <<tree, meta, pins, upstream, work, held, strayed, gone>>
      /\ duty[r].pc = "ask" /\ Packs!Goto(r, "record")
      /\ consented' = [consented EXCEPT ![n] = c]
  BY DEF Packs!Trusted, Packs!At, Packs!outside, Packs!disk
<1>3. c \in SUBSET Offers /\ consented \in [Packs!Names -> SUBSET Offers]
  BY <1>1 DEF PackShape, JobType
<1>4. c = consented[n] \cup {duty[r].surface}
  OBVIOUS
<1> HIDE DEF c
<1>5. /\ consented' \in [Packs!Names -> SUBSET Offers] /\ consented'[n] = c
      /\ \A m \in Packs!Names \ {n} : consented'[m] = consented[m]
  BY <1>1, <1>2, <1>3
<1>6. /\ duty' \in [Proc -> JobType]
      /\ duty'[r].pc = "record" /\ duty'[r].op = duty[r].op /\ duty'[r].name = n
      /\ duty'[r].head = duty[r].head /\ duty'[r].prev = duty[r].prev
      /\ duty'[r].hash = duty[r].hash /\ duty'[r].surface = duty[r].surface
      /\ duty'[r].shared = duty[r].shared
      /\ \A q \in Proc \ {r} : duty'[q] = duty[q]
  BY <1>1, <1>2, GotoStep DEF Stages, Checking
<1>7. Placed(duty'[r]) /\ Undone(duty'[r], tree[n], meta[n])
  BY <1>1, <1>2, <1>6 DEF JobInv, Placed, Undone, Checking, Removing
<1>8. ~strayed[n] => Clean(duty'[r], tree[n], meta[n], c)
  BY <1>1, <1>2, <1>4, <1>6 DEF JobInv, Clean, Known, Checking, Removing
<1>9. /\ tree \in [Packs!Names -> TreeType] /\ (tree[n].kind = "git" => tree[n].at # 0)
  BY <1>1 DEF PackShape, NameInv
<1> QED
  BY <1>2, <1>5, <1>6, <1>7, <1>8, <1>9, MoveKeeps

LEMMA WriteMetaStep == ASSUME PackInv, NEW r \in Proc, Packs!WriteMeta(r) PROVE PackInv'
<1> DEFINE n == duty[r].name
           l == IF duty[r].op = "add" THEN tree[n].kind \in {"link", "copy"}
                ELSE duty[r].prev.local
           m == Packs!Record(duty[r].hash, duty[r].surface, l)
<1>1. /\ PackShape /\ n \in Packs!Names /\ JobInv(r) /\ NameInv(n) /\ duty[r] \in JobType
      /\ tree[n] \in TreeType
  BY JobKnown
<1>2. /\ UNCHANGED <<tree, pins, upstream, work, held, consented, strayed, gone>>
      /\ duty[r].pc = "record" /\ Packs!Return(r)
      /\ meta' = [meta EXCEPT ![n] = m]
  BY DEF Packs!WriteMeta, Packs!At, Packs!outside
<1>3. l \in BOOLEAN
  <2>1. duty[r].prev.local \in BOOLEAN
    BY <1>1 DEF JobType, RecordType
  <2>2. CASE duty[r].op = "add"
    BY <2>2
  <2>3. CASE duty[r].op # "add"
    BY <2>1, <2>3
  <2> QED
    BY <2>2, <2>3
<1>4. duty[r].op \in {"add", "update"}
  BY <1>1, <1>2 DEF JobInv, Placed, Checking
<1>5. ~strayed[n] /\ tree[n].kind = "git" => ~l
  BY <1>1, <1>2, <1>4 DEF JobInv, Clean, Known
<1> HIDE DEF l
<1>6. /\ m \in RecordType /\ m.hash = duty[r].hash /\ m.surface = duty[r].surface
      /\ m.local = l
  BY <1>1, <1>3 DEF JobType, RecordType, Packs!Record
<1>7. Packs!NoRecord.hash = 0
  BY DEF Packs!NoRecord, Packs!Record
<1> HIDE DEF m
<1>8. ~strayed[n] => Rested(tree[n], m, consented[n])
  BY <1>1, <1>2, <1>5, <1>6, <1>7 DEF JobInv, NameInv, Clean, Rested, Known
<1>9. /\ meta' \in [Packs!Names -> RecordType] /\ meta'[n] = m
      /\ \A k \in Packs!Names \ {n} : meta'[k] = meta[k]
  BY <1>1, <1>2, <1>6 DEF PackShape
<1>10. /\ duty' \in [Proc -> JobType] /\ duty'[r].pc = "idle"
       /\ \A q \in Proc \ {r} : duty'[q] = duty[q]
  BY <1>1, <1>2, ReturnStep
<1>11. PackShape'
  BY <1>1, <1>2, <1>9, <1>10 DEF PackShape
<1>12. Onward(r, n)
  BY <1>2, <1>9, <1>10 DEF Onward
<1> QED
  BY <1>1, <1>2, <1>8, <1>9, <1>10, <1>11, <1>12, OnwardKeeps DEF NameInv

LEMMA WriteMetaFailsStep ==
  ASSUME PackInv, NEW r \in Proc, Packs!WriteMetaFails(r)
  PROVE  PackInv'
<1> DEFINE n == duty[r].name
<1>1. /\ PackShape /\ n \in Packs!Names /\ JobInv(r) /\ NameInv(n) /\ duty[r] \in JobType
      /\ tree[n] \in TreeType
  BY JobKnown
<1>2. /\ UNCHANGED <<meta, pins, upstream, work, held, consented, strayed, gone>>
      /\ duty[r].pc = "record" /\ duty[r].pc # "idle" /\ Packs!Return(r)
  BY DEF Packs!WriteMetaFails, Packs!At, Packs!outside
<1>3. CASE duty[r].op = "add"
  <2>1. tree' = [tree EXCEPT ![n] = Packs!NoTree]
    BY <1>3 DEF Packs!WriteMetaFails, Packs!RemoveAll
  <2>2. /\ tree' \in [Packs!Names -> TreeType] /\ tree'[n] = Packs!NoTree
        /\ \A m \in Packs!Names \ {n} : tree'[m] = tree[m]
    BY <1>1, <2>1, TreeStep, NoTreeIs
  <2>3. tree'[n].kind # "git"
    BY <2>2, NoTreeIs
  <2> QED
    BY <1>2, <2>2, <2>3, ReturnKeeps DEF Rested
<1>4. CASE duty[r].op # "add"
  <2>1. duty[r].op = "update" /\ UNCHANGED tree
    BY <1>1, <1>2, <1>4 DEF JobInv, Placed, Checking, Packs!WriteMetaFails
  <2>2. ~strayed[n] => Rested(tree[n], meta[n], consented[n])
    BY <1>1, <1>2, <2>1 DEF JobInv, Clean, Rested
  <2>3. tree \in [Packs!Names -> TreeType] /\ (tree[n].kind = "git" => tree[n].at # 0)
    BY <1>1 DEF PackShape, NameInv
  <2> QED
    BY <1>2, <2>1, <2>2, <2>3, ReturnKeeps
<1> QED
  BY <1>3, <1>4

LEMMA RemoveMetaStep == ASSUME PackInv, NEW r \in Proc, Packs!RemoveMeta(r) PROVE PackInv'
<1> DEFINE n == duty[r].name
<1>1. /\ PackShape /\ n \in Packs!Names /\ JobInv(r) /\ NameInv(n) /\ duty[r] \in JobType
      /\ tree[n] \in TreeType
  BY JobKnown
<1>2. /\ UNCHANGED <<tree, pins, upstream, work, held, consented, strayed, gone>>
      /\ duty[r].pc = "meta" /\ Packs!Goto(r, "config")
      /\ meta' = [meta EXCEPT ![n] = Packs!NoRecord]
  BY DEF Packs!RemoveMeta, Packs!At, Packs!outside
<1>3. /\ meta' \in [Packs!Names -> RecordType] /\ meta'[n] = Packs!NoRecord
      /\ \A k \in Packs!Names \ {n} : meta'[k] = meta[k]
  BY <1>1, <1>2, RecordTypes DEF PackShape
<1>4. /\ duty' \in [Proc -> JobType]
      /\ duty'[r].pc = "config" /\ duty'[r].op = duty[r].op /\ duty'[r].name = n
      /\ duty'[r].shared = duty[r].shared
      /\ \A q \in Proc \ {r} : duty'[q] = duty[q]
  BY <1>1, <1>2, GotoStep DEF Stages, Removing
<1>5. PackShape'
  BY <1>1, <1>2, <1>3, <1>4 DEF PackShape
<1>6. Onward(r, n)
  BY <1>2, <1>3, <1>4 DEF Onward
<1>7. Placed(duty'[r]) /\ Undone(duty'[r], tree[n], meta'[n])
  BY <1>1, <1>2, <1>3, <1>4 DEF JobInv, Placed, Undone, Checking, Removing
<1>8. ~strayed[n] => Clean(duty'[r], tree[n], meta'[n], consented[n])
  <2>1. ~strayed[n] => tree[n] = Packs!NoTree
    BY <1>1, <1>2 DEF JobInv, Clean, Removing
  <2> QED
    BY <1>4, <2>1, NoTreeIs DEF Clean
<1>9. JobInv(r)'
  BY <1>2, <1>4, <1>7, <1>8 DEF JobInv
<1> QED
  BY <1>1, <1>2, <1>4, <1>5, <1>6, <1>9, OnwardKeeps DEF NameInv

LEMMA ReadConfigStep == ASSUME PackInv, NEW r \in Proc, Packs!ReadConfig(r) PROVE PackInv'
<1> DEFINE n == duty[r].name
           j == [duty[r] EXCEPT !.pc = "unpin", !.pins = pins]
<1>1. /\ PackShape /\ n \in Packs!Names /\ JobInv(r) /\ NameInv(n) /\ duty[r] \in JobType
      /\ tree[n] \in TreeType
  BY JobKnown
<1>2. /\ UNCHANGED <<tree, meta, pins, upstream, work, held, consented, strayed, gone>>
      /\ duty[r].pc = "config"
  BY DEF Packs!ReadConfig, Packs!At, Packs!outside, Packs!disk
<1>3. pins \in SUBSET Packs!Names
  BY <1>1 DEF PackShape
<1>4. /\ j \in JobType /\ j.pc = "unpin" /\ j.name = n
      /\ j.shared = duty[r].shared /\ j.op = duty[r].op
  BY <1>1, <1>3 DEF JobType, Stages, Removing
<1>5. duty' = [duty EXCEPT ![r] = j] /\ duty \in [Proc -> JobType]
  BY <1>1 DEF Packs!ReadConfig, PackShape
<1> HIDE DEF j
<1>6. /\ duty' \in [Proc -> JobType] /\ duty'[r] = j
      /\ \A q \in Proc \ {r} : duty'[q] = duty[q]
  BY <1>4, <1>5
<1>7. Placed(j) /\ Undone(j, tree[n], meta[n])
  BY <1>1, <1>2, <1>4 DEF JobInv, Placed, Undone, Checking, Removing
<1>8. ~strayed[n] => Clean(j, tree[n], meta[n], consented[n])
  <2>1. ~strayed[n] => tree[n] = Packs!NoTree
    BY <1>1, <1>2 DEF JobInv, Clean, Removing
  <2> QED
    BY <1>4, <2>1, NoTreeIs DEF Clean
<1>9. /\ tree \in [Packs!Names -> TreeType] /\ consented \in [Packs!Names -> SUBSET Offers]
      /\ (tree[n].kind = "git" => tree[n].at # 0)
  BY <1>1 DEF PackShape, NameInv
<1> QED
  BY <1>2, <1>4, <1>6, <1>7, <1>8, <1>9, MoveKeeps

\* The last step of a Remove: what it undid stays undone if it had the name
\* and config.yaml to itself.
LEMMA UnpinStep == ASSUME PackInv, NEW r \in Proc, Packs!Unpin(r) PROVE PackInv'
<1>0. PICK n : n = duty[r].name
  OBVIOUS
<1> DEFINE a == Packs!Alone(r)
           k == duty[r].pins
<1>1. /\ PackShape /\ n \in Packs!Names /\ JobInv(r) /\ NameInv(n) /\ duty[r] \in JobType
  BY <1>0, JobKnown
<1>2. /\ UNCHANGED <<tree, meta, upstream, work, held>> /\ duty[r].pc = "unpin"
      /\ Packs!Return(r)
  BY DEF Packs!Unpin, Packs!At, Packs!outside
<1>3. /\ pins' = IF n \in k THEN k \ {n} ELSE pins
      /\ gone' = [m \in Packs!Names |-> CASE m = n -> a [] m \in pins' \ pins -> FALSE
                                          [] OTHER -> gone[m]]
      /\ consented' = [consented EXCEPT ![n] = IF a THEN {} ELSE @]
      /\ strayed' = [strayed EXCEPT ![n] = @ /\ ~a]
  BY <1>0 DEF Packs!Unpin
<1>4. a => ~duty[r].shared /\ k = pins
  BY DEF Packs!Alone
<1>5. a \in BOOLEAN
  BY DEF Packs!Alone
<1> HIDE DEF a
<1>6. /\ duty' \in [Proc -> JobType] /\ duty'[r].pc = "idle"
      /\ \A q \in Proc \ {r} : duty'[q] = duty[q]
  BY <1>1, <1>2, ReturnStep
<1>7. pins' \subseteq Packs!Names /\ (a => n \notin pins')
  BY <1>1, <1>3, <1>4 DEF PackShape, JobType
<1>8. /\ gone'[n] = a
      /\ \A m \in Packs!Names \ {n} : gone'[m] => gone[m] /\ m \notin pins'
      /\ gone' \in [Packs!Names -> BOOLEAN]
  <2>1. \A m \in Packs!Names : gone[m] \in BOOLEAN /\ (gone[m] => m \notin pins)
    BY DEF PackInv, PackShape, NameInv
  <2>2. ASSUME NEW m \in Packs!Names \ {n}
        PROVE  /\ gone'[m] = IF m \in pins' \ pins THEN FALSE ELSE gone[m]
    BY <1>3
  <2>3. gone'[n] = a
    BY <1>1, <1>3
  <2>4. \A m \in Packs!Names : gone'[m] \in BOOLEAN
    BY <1>5, <2>1, <2>2, <2>3
  <2>5. gone' = [m \in Packs!Names |-> gone'[m]]
    BY <1>3
  <2>6. gone' \in [Packs!Names -> BOOLEAN]
    BY <2>4, <2>5
  <2> QED
    BY <2>1, <2>2, <2>3, <2>6
<1>9. /\ strayed' \in [Packs!Names -> BOOLEAN]
      /\ strayed'[n] <=> strayed[n] /\ ~a
      /\ \A m \in Packs!Names \ {n} : strayed'[m] = strayed[m]
  BY <1>1, <1>3, <1>5 DEF PackShape
<1>10. /\ consented' \in [Packs!Names -> SUBSET Offers]
       /\ \A m \in Packs!Names \ {n} : consented'[m] = consented[m]
  BY <1>1, <1>3, <1>5 DEF PackShape
<1>11. PackShape'
  BY <1>1, <1>2, <1>6, <1>7, <1>8, <1>9, <1>10 DEF PackShape
<1>12. \A q \in Proc \ {r} : OnIt(q, n) => duty[q].shared /\ duty[r].shared /\ strayed[n]
  BY <1>0, <1>1, <1>2, Company DEF OnIt
<1>13. Frame(r, {n})
  <2>1. \A q \in Proc \ {r} : duty'[q] = [duty[q] EXCEPT !.shared = duty'[q].shared]
    BY <1>1, <1>6 DEF PackShape, JobType
  <2>2. \A m \in Packs!Names \ {n} : ~OnIt(r, m) /\ ~OnIt(r, m)'
    BY <1>0, <1>6 DEF OnIt
  <2> QED
    BY <1>2, <1>4, <1>6, <1>8, <1>9, <1>10, <1>12, <2>1, <2>2 DEF Frame
<1>14. Own(r, {n})
  <2>1. /\ JobInv(r)' /\ ~OnIt(r, n)'
    BY <1>6 DEF JobInv, Placed, Undone, OnIt, Checking, Removing
  <2>2. tree'[n].kind = "git" => tree'[n].at # 0
    BY <1>1, <1>2 DEF NameInv
  <2>3. a => tree[n] = Packs!NoTree /\ meta[n] = Packs!NoRecord
    BY <1>0, <1>1, <1>2, <1>4 DEF JobInv, Undone, Removing
  <2>4. ~strayed[n] => tree[n] = Packs!NoTree
    BY <1>0, <1>1, <1>2 DEF JobInv, Clean, Removing
  <2>5. ~strayed'[n] => Rested(tree'[n], meta'[n], consented'[n])
    BY <1>2, <1>9, <2>3, <2>4, NoTreeIs DEF Rested
  <2>6. gone'[n] => /\ tree'[n] = Packs!NoTree /\ meta'[n] = Packs!NoRecord
                    /\ n \notin pins' /\ ~OnIt(r, n)'
                    /\ \A q \in Proc \ {r} : ~OnIt(q, n)
    BY <1>2, <1>4, <1>7, <1>8, <1>12, <2>1, <2>3
  <2> QED
    BY <2>1, <2>2, <2>5, <2>6 DEF Own
<1> QED
  BY <1>1, <1>11, <1>13, <1>14, StepKeeps

\* One more operation about a name: the others about it know they share it.
LEMMA JoinStep ==
  ASSUME PackShape, NEW r \in Proc, NEW j \in JobType, NEW n \in Packs!Names,
         duty' = Packs!Joined(r, j, n)
  PROVE  /\ duty' \in [Proc -> JobType]
         /\ duty'[r].pc = j.pc /\ duty'[r].op = j.op /\ duty'[r].name = j.name
         /\ duty'[r].head = j.head /\ duty'[r].prev = j.prev
         /\ (\E q \in Proc \ {r} : OnIt(q, n)) => duty'[r].shared
         /\ \A q \in Proc \ {r} :
              /\ duty'[q] = [duty[q] EXCEPT !.shared = duty'[q].shared]
              /\ duty[q].shared \/ OnIt(q, n) => duty'[q].shared
<1>1. duty \in [Proc -> JobType]
  BY DEF PackShape
<1> DEFINE e == \E q \in Proc \ {r} : duty[q].pc # "idle" /\ duty[q].name = n
           b(q) == duty[q].shared \/ (duty[q].pc # "idle" /\ duty[q].name = n)
           mine == [j EXCEPT !.shared = e]
           its(q) == [duty[q] EXCEPT !.shared = b(q)]
<1>2. duty' = [q \in Proc |-> IF q = r THEN mine ELSE its(q)]
  BY DEF Packs!Joined
<1>3. e \in BOOLEAN /\ (e <=> \E q \in Proc \ {r} : OnIt(q, n))
  BY DEF OnIt
<1>4. \A q \in Proc : b(q) \in BOOLEAN /\ (b(q) <=> duty[q].shared \/ OnIt(q, n))
  <2>1. \A q \in Proc : duty[q].shared \in BOOLEAN
    BY <1>1 DEF JobType
  <2> QED
    BY <2>1 DEF OnIt
<1> HIDE DEF e, b
<1>5. /\ mine \in JobType /\ mine.shared = e
      /\ mine.pc = j.pc /\ mine.op = j.op /\ mine.name = j.name
      /\ mine.head = j.head /\ mine.prev = j.prev
  BY <1>3 DEF JobType
<1>6. \A q \in Proc : its(q) \in JobType /\ its(q).shared = b(q)
                      /\ its(q) = [duty[q] EXCEPT !.shared = its(q).shared]
  BY <1>1, <1>4 DEF JobType
<1> HIDE DEF mine, its
<1>7. duty'[r] = mine /\ \A q \in Proc \ {r} : duty'[q] = its(q)
  BY <1>2
<1>8. duty' \in [Proc -> JobType]
  BY <1>2, <1>5, <1>6
<1> QED
  BY <1>3, <1>4, <1>5, <1>6, <1>7, <1>8

\* An operation that takes up a name, and what it is to start with.
LEMMA TakeStep ==
  ASSUME PackInv, NEW r \in Proc, NEW x \in Stages, NEW o \in {"add", "update", "remove"},
         NEW n \in Packs!Names, Packs!Take(r, x, o, n)
  PROVE  /\ duty[r].pc = "idle" /\ duty' \in [Proc -> JobType]
         /\ duty'[r].pc = x /\ duty'[r].op = o /\ duty'[r].name = n
         /\ duty'[r].prev = meta[n]
         /\ (\E q \in Proc \ {r} : OnIt(q, n)) => duty'[r].shared
         /\ \A q \in Proc \ {r} :
              /\ duty'[q] = [duty[q] EXCEPT !.shared = duty'[q].shared]
              /\ duty[q].shared \/ OnIt(q, n) => duty'[q].shared
         /\ strayed' \in [Packs!Names -> BOOLEAN]
         /\ strayed'[n] <=> strayed[n] \/ Packs!Busy(n)
         /\ \A m \in Packs!Names \ {n} : strayed'[m] = strayed[m]
         /\ gone' \in [Packs!Names -> BOOLEAN] /\ ~gone'[n]
         /\ \A m \in Packs!Names \ {n} : gone'[m] = gone[m]
<1>1. PackShape
  BY DEF PackInv
<1> DEFINE j == [Packs!Job(x, o, n) EXCEPT !.prev = meta[n]]
<1>2. /\ duty[r].pc = "idle" /\ duty' = Packs!Joined(r, j, n)
      /\ strayed' = [strayed EXCEPT ![n] = @ \/ Packs!Busy(n)]
      /\ gone' = [gone EXCEPT ![n] = FALSE]
  BY DEF Packs!Take
<1>3. /\ j \in JobType /\ j.pc = x /\ j.op = o /\ j.name = n /\ j.prev = meta[n]
  <2>1. meta[n] \in RecordType /\ {} \in SUBSET Packs!Names
    BY <1>1 DEF PackShape
  <2> QED
    BY <2>1, PackConstants, RecordTypes DEF JobType, Packs!Job
<1> HIDE DEF j
<1>4. /\ duty' \in [Proc -> JobType]
      /\ duty'[r].pc = x /\ duty'[r].op = o /\ duty'[r].name = n
      /\ duty'[r].prev = meta[n]
      /\ (\E q \in Proc \ {r} : OnIt(q, n)) => duty'[r].shared
      /\ \A q \in Proc \ {r} :
           /\ duty'[q] = [duty[q] EXCEPT !.shared = duty'[q].shared]
           /\ duty[q].shared \/ OnIt(q, n) => duty'[q].shared
  BY <1>1, <1>2, <1>3, JoinStep
<1> DEFINE b == Packs!Busy(n)
<1>5. b \in BOOLEAN
  BY DEF Packs!Busy
<1>6. strayed' = [strayed EXCEPT ![n] = strayed[n] \/ b] /\ strayed \in [Packs!Names -> BOOLEAN]
  BY <1>1, <1>2 DEF PackShape
<1> HIDE DEF b
<1>7. /\ strayed' \in [Packs!Names -> BOOLEAN]
      /\ strayed'[n] <=> strayed[n] \/ b
      /\ \A m \in Packs!Names \ {n} : strayed'[m] = strayed[m]
  BY <1>5, <1>6
<1>8. /\ gone' \in [Packs!Names -> BOOLEAN] /\ ~gone'[n]
      /\ \A m \in Packs!Names \ {n} : gone'[m] = gone[m]
  BY <1>1, <1>2 DEF PackShape
<1> QED
  BY <1>2, <1>4, <1>7, <1>8 DEF b

LEMMA TakeKeeps ==
  ASSUME PackInv, NEW r \in Proc, NEW x \in Stages, NEW o \in {"add", "update", "remove"},
         NEW n \in Packs!Names, Packs!Take(r, x, o, n), x # "idle",
         UNCHANGED <<meta, pins, upstream, work, held, consented>>,
         tree' \in [Packs!Names -> TreeType],
         \A m \in Packs!Names \ {n} : tree'[m] = tree[m],
         tree'[n].kind = "git" => tree'[n].at # 0,
         Placed(duty'[r]), Undone(duty'[r], tree'[n], meta[n]),
         ~strayed[n] /\ ~Packs!Busy(n) => Clean(duty'[r], tree'[n], meta[n], consented[n])
  PROVE  PackInv'
<1>1. /\ duty[r].pc = "idle" /\ duty' \in [Proc -> JobType]
      /\ duty'[r].pc = x /\ duty'[r].op = o /\ duty'[r].name = n
      /\ (\E q \in Proc \ {r} : OnIt(q, n)) => duty'[r].shared
  BY TakeStep
<1>1a. \A q \in Proc \ {r} :
        /\ duty'[q] = [duty[q] EXCEPT !.shared = duty'[q].shared]
        /\ duty[q].shared \/ OnIt(q, n) => duty'[q].shared
  BY TakeStep
<1>2. /\ strayed' \in [Packs!Names -> BOOLEAN]
      /\ strayed'[n] <=> strayed[n] \/ Packs!Busy(n)
      /\ \A m \in Packs!Names \ {n} : strayed'[m] = strayed[m]
      /\ gone' \in [Packs!Names -> BOOLEAN] /\ ~gone'[n]
      /\ \A m \in Packs!Names \ {n} : gone'[m] = gone[m]
  BY TakeStep
<1>3. PackShape'
  BY <1>1, <1>2 DEF PackInv, PackShape
<1>4. \A m \in Packs!Names : gone[m] => m \notin pins
  BY DEF PackInv, NameInv
<1>5. \A q \in Proc : OnIt(q, n) => Packs!Busy(n)
  BY DEF OnIt, Packs!Busy
<1>6. Frame(r, {n})
  BY <1>1, <1>2, <1>4, <1>5, <1>1a DEF Frame, OnIt
<1>7. JobInv(r)' /\ OnIt(r, n)'
  BY <1>1, <1>2 DEF JobInv, OnIt
<1>8. Own(r, {n})
  BY <1>1, <1>2, <1>7 DEF Own
<1> QED
  BY <1>3, <1>6, <1>8, StepKeeps

LEMMA BeginAddStep == ASSUME PackInv, NEW r \in Proc, Packs!BeginAdd(r) PROVE PackInv'
<1>1. /\ UNCHANGED <<tree, meta, pins, upstream, work, held, consented>>
      /\ tree[Stem] = Packs!NoTree /\ Packs!Take(r, "clone", "add", Stem)
  BY DEF Packs!BeginAdd, Packs!disk, Packs!Exists
<1>2. "clone" \in Stages /\ Stem \in Packs!Names /\ "add" \in {"add", "update", "remove"}
  BY PackConstants DEF Stages
<1>3. duty'[r].pc = "clone" /\ duty'[r].op = "add"
  BY <1>1, <1>2, TakeStep
<1>4. Placed(duty'[r]) /\ Undone(duty'[r], tree[Stem], meta[Stem])
  BY <1>3 DEF Placed, Undone, Checking, Removing
<1>5. Clean(duty'[r], tree[Stem], meta[Stem], consented[Stem])
  BY <1>1, NoTreeIs DEF Clean
<1>6. tree \in [Packs!Names -> TreeType] /\ tree[Stem].kind # "git"
  BY <1>1, NoTreeIs DEF PackInv, PackShape
<1> QED
  BY <1>1, <1>2, <1>4, <1>5, <1>6, TakeKeeps

LEMMA BeginUpdateStep ==
  ASSUME PackInv, NEW r \in Proc, NEW n \in Packs!Names, Packs!BeginUpdate(r, n)
  PROVE  PackInv'
<1> DEFINE x == IF meta[n].local THEN "hash" ELSE "head"
<1>1. /\ UNCHANGED <<tree, meta, pins, upstream, work, held, consented>>
      /\ Packs!Take(r, x, "update", n)
  BY DEF Packs!BeginUpdate, Packs!disk
<1>2. x \in Stages /\ x # "idle" /\ "update" \in {"add", "update", "remove"}
  BY DEF Stages, Checking
<1>3. (x = "hash" /\ meta[n].local) \/ (x = "head" /\ ~meta[n].local)
  OBVIOUS
<1> HIDE DEF x
<1>4. duty'[r].pc = x /\ duty'[r].op = "update" /\ duty'[r].prev = meta[n]
  BY <1>1, <1>2, TakeStep
<1>5. Placed(duty'[r]) /\ Undone(duty'[r], tree[n], meta[n])
  BY <1>3, <1>4 DEF Placed, Undone, Checking, Removing
<1>6. ~strayed[n] /\ ~Packs!Busy(n) => Clean(duty'[r], tree[n], meta[n], consented[n])
  <2>1. ~strayed[n] /\ ~Packs!Busy(n) => Rested(tree[n], meta[n], consented[n])
    BY DEF PackInv, NameInv
  <2> QED
    BY <1>3, <1>4, <2>1 DEF Clean, Rested, Known, Checking, Removing
<1>7. tree \in [Packs!Names -> TreeType] /\ (tree[n].kind = "git" => tree[n].at # 0)
  BY DEF PackInv, PackShape, NameInv
<1> QED
  BY <1>1, <1>2, <1>5, <1>6, <1>7, TakeKeeps

LEMMA BeginRemoveStep ==
  ASSUME PackInv, NEW r \in Proc, NEW n \in Packs!Names, Packs!BeginRemove(r, n)
  PROVE  PackInv'
<1>1. /\ UNCHANGED <<meta, pins, upstream, work, held, consented>>
      /\ Packs!Take(r, "meta", "remove", n)
      /\ tree' = [tree EXCEPT ![n] = Packs!NoTree]
  BY DEF Packs!BeginRemove, Packs!RemoveAll
<1>2. "meta" \in Stages /\ "remove" \in {"add", "update", "remove"}
  BY DEF Stages, Removing
<1>3. duty'[r].pc = "meta" /\ duty'[r].op = "remove"
  BY <1>1, <1>2, TakeStep
<1>4. PackShape
  BY DEF PackInv
<1>5. /\ tree' \in [Packs!Names -> TreeType] /\ tree'[n] = Packs!NoTree
      /\ \A m \in Packs!Names \ {n} : tree'[m] = tree[m]
  BY <1>1, <1>4, TreeStep, NoTreeIs
<1>6. Placed(duty'[r]) /\ Undone(duty'[r], tree'[n], meta[n])
  BY <1>3, <1>5 DEF Placed, Undone, Checking, Removing
<1>7. Clean(duty'[r], tree'[n], meta[n], consented[n]) /\ tree'[n].kind # "git"
  BY <1>5, NoTreeIs DEF Clean
<1> QED
  BY <1>1, <1>2, <1>5, <1>6, <1>7, TakeKeeps

LEMMA AddLocalStep == ASSUME PackInv, NEW r \in Proc, Packs!AddLocal(r) PROVE PackInv'
<1>1. PICK n : n = Canon[work]
  OBVIOUS
<1>2. PackShape /\ n \in Packs!Names /\ work \in Packs!Versions
  BY <1>1, PackConstants DEF PackInv, PackShape
<1>3. UNCHANGED <<meta, pins, upstream, work, held, consented>>
  BY DEF Packs!AddLocal
<1>4. \A t \in {Packs!Tree("link", 0, FALSE), Packs!Tree("copy", work, FALSE),
                Packs!Tree("copy", 0, FALSE)} : t \in TreeType /\ t.kind \in {"link", "copy"}
  <2>1. 0 \in Marks /\ work \in Marks
    BY <1>2, PackConstants
  <2>2. ASSUME NEW k \in {"link", "copy"}, NEW v \in Marks
        PROVE  Packs!Tree(k, v, FALSE) \in TreeType /\ Packs!Tree(k, v, FALSE).kind = k
    BY DEF TreeType, Packs!Tree
  <2> QED
    BY <2>1, <2>2
<1>5. CASE /\ Packs!Take(r, "hash", "add", n)
           /\ \E t \in {Packs!Tree("link", 0, FALSE), Packs!Tree("copy", work, FALSE)} :
                tree' = [tree EXCEPT ![n] = t]
  <2>1. PICK t \in TreeType : tree' = [tree EXCEPT ![n] = t] /\ t.kind \in {"link", "copy"}
    BY <1>4, <1>5
  <2>2. /\ tree' \in [Packs!Names -> TreeType] /\ tree'[n] = t
        /\ \A m \in Packs!Names \ {n} : tree'[m] = tree[m]
    BY <1>2, <2>1, TreeStep
  <2>3. "hash" \in Stages /\ "add" \in {"add", "update", "remove"}
    BY DEF Stages, Checking
  <2>4. duty'[r].pc = "hash" /\ duty'[r].op = "add"
    BY <1>2, <1>5, <2>3, TakeStep
  <2>5. Placed(duty'[r]) /\ Undone(duty'[r], tree'[n], meta[n])
    BY <2>4 DEF Placed, Undone, Checking, Removing
  <2>6. Clean(duty'[r], tree'[n], meta[n], consented[n]) /\ tree'[n].kind # "git"
    BY <2>1, <2>2, <2>4 DEF Clean, Removing
  <2> QED
    BY <1>2, <1>3, <1>5, <2>2, <2>3, <2>5, <2>6, TakeKeeps
<1>6. CASE /\ duty[r].pc = "idle" /\ tree' = [tree EXCEPT ![n] = Packs!Tree("copy", 0, FALSE)]
           /\ Packs!Astray(n) /\ gone' = [gone EXCEPT ![n] = FALSE]
           /\ duty' = Packs!Joined(r, Packs!Idle, n)
  <2>1. PICK t \in TreeType : tree' = [tree EXCEPT ![n] = t] /\ t.kind # "git"
    BY <1>4, <1>6
  <2>2. /\ tree' \in [Packs!Names -> TreeType] /\ tree'[n] = t
        /\ \A m \in Packs!Names \ {n} : tree'[m] = tree[m]
    BY <1>2, <2>1, TreeStep
  <2>3. /\ duty' \in [Proc -> JobType] /\ duty'[r].pc = Packs!Idle.pc
        /\ \A q \in Proc \ {r} :
             /\ duty'[q] = [duty[q] EXCEPT !.shared = duty'[q].shared]
             /\ duty[q].shared \/ OnIt(q, n) => duty'[q].shared
    BY <1>2, <1>6, RecordTypes, JoinStep
  <2>4. duty'[r].pc = "idle"
    BY <2>3 DEF Packs!Idle, Packs!Job
  <2>5. /\ strayed' \in [Packs!Names -> BOOLEAN] /\ strayed'[n]
        /\ \A m \in Packs!Names \ {n} : strayed'[m] = strayed[m]
        /\ gone' \in [Packs!Names -> BOOLEAN] /\ ~gone'[n]
        /\ \A m \in Packs!Names \ {n} : gone'[m] = gone[m]
    BY <1>2, <1>6 DEF PackShape, Packs!Astray
  <2>6. PackShape'
    BY <1>2, <1>3, <2>2, <2>3, <2>5 DEF PackShape
  <2>7. \A m \in Packs!Names : gone[m] => m \notin pins
    BY DEF PackInv, NameInv
  <2>8. Frame(r, {n})
    BY <1>3, <1>6, <2>2, <2>3, <2>4, <2>5, <2>7 DEF Frame, OnIt
  <2>9. JobInv(r)'
    BY <2>4 DEF JobInv, Placed, Undone, Checking, Removing
  <2>10. Own(r, {n})
    BY <2>1, <2>2, <2>4, <2>5, <2>9 DEF Own, OnIt
  <2> QED
    BY <1>2, <2>6, <2>8, <2>10, StepKeeps
<1> QED
  BY <1>1, <1>5, <1>6 DEF Packs!AddLocal

\* pack.yaml names the pack: the tree moves, and the operation with it.
LEMMA MovedStep ==
  ASSUME PackInv, NEW r \in Proc, NEW n, n = duty[r].name, NEW c \in Packs!Names, c # n,
         duty[r].pc = "rename",
         UNCHANGED <<meta, pins, upstream, work, held, consented>>,
         tree' = [tree EXCEPT ![c] = tree[n], ![n] = Packs!NoTree],
         duty' = Packs!Joined(r, [duty[r] EXCEPT !.pc = "hash", !.name = c], c),
         strayed' = [strayed EXCEPT ![c] = @ \/ Packs!Busy(c)],
         gone' = [gone EXCEPT ![c] = FALSE]
  PROVE  PackInv'
<1>1. /\ PackShape /\ n \in Packs!Names /\ JobInv(r) /\ NameInv(n) /\ duty[r] \in JobType
      /\ tree[n] \in TreeType
  BY JobKnown
<1>2. /\ tree' \in [Packs!Names -> TreeType] /\ tree'[c] = tree[n]
      /\ tree'[n] = Packs!NoTree
      /\ \A m \in Packs!Names \ {n, c} : tree'[m] = tree[m]
  BY <1>1, NoTreeIs DEF PackShape
<1> DEFINE j == [duty[r] EXCEPT !.pc = "hash", !.name = c]
<1>3. j \in JobType /\ j.pc = "hash" /\ j.name = c /\ j.op = duty[r].op
  BY <1>1 DEF JobType, Stages, Checking
<1> HIDE DEF j
<1>4. duty' = Packs!Joined(r, j, c)
  BY DEF j
<1>5. /\ duty' \in [Proc -> JobType]
      /\ duty'[r].pc = "hash" /\ duty'[r].op = duty[r].op /\ duty'[r].name = c
      /\ (\E q \in Proc \ {r} : OnIt(q, c)) => duty'[r].shared
  BY <1>1, <1>3, <1>4, JoinStep
<1>6. \A q \in Proc \ {r} :
        /\ duty'[q] = [duty[q] EXCEPT !.shared = duty'[q].shared]
        /\ duty[q].shared \/ OnIt(q, c) => duty'[q].shared
  BY <1>1, <1>3, <1>4, JoinStep
<1> DEFINE b == Packs!Busy(c)
<1>7. b \in BOOLEAN /\ \A q \in Proc : OnIt(q, c) => b
  BY DEF Packs!Busy, OnIt
<1>8. strayed' = [strayed EXCEPT ![c] = strayed[c] \/ b] /\ strayed \in [Packs!Names -> BOOLEAN]
  BY <1>1 DEF PackShape
<1> HIDE DEF b
<1>9. /\ strayed' \in [Packs!Names -> BOOLEAN]
      /\ strayed'[c] <=> strayed[c] \/ b
      /\ \A m \in Packs!Names \ {c} : strayed'[m] = strayed[m]
  BY <1>7, <1>8
<1>10. /\ gone' \in [Packs!Names -> BOOLEAN] /\ ~gone'[c]
       /\ \A m \in Packs!Names \ {c} : gone'[m] = gone[m]
  BY <1>1 DEF PackShape
<1>11. PackShape'
  BY <1>1, <1>2, <1>5, <1>9, <1>10 DEF PackShape
<1>12. OnIt(r, n) /\ ~gone[n]
  BY <1>1 DEF OnIt, NameInv, Packs!Busy
<1>13. \A q \in Proc \ {r} : OnIt(q, n) => duty[q].shared /\ strayed[n]
  BY <1>1, <1>12, Company
<1>14. \A m \in Packs!Names : gone[m] => m \notin pins
  BY DEF PackInv, NameInv
<1>15. Frame(r, {n, c})
  <2>1. \A m \in Packs!Names \ {n, c} : ~OnIt(r, m) /\ ~OnIt(r, m)'
    BY <1>5 DEF OnIt
  <2>2. \A q \in Proc \ {r}, m \in {n, c} : OnIt(q, m) => duty'[q].shared /\ strayed'[m]
    <3>1. ASSUME NEW q \in Proc \ {r}, OnIt(q, n) PROVE duty'[q].shared /\ strayed'[n]
      BY <1>1, <1>6, <1>9, <1>13, <3>1
    <3>2. ASSUME NEW q \in Proc \ {r}, OnIt(q, c) PROVE duty'[q].shared /\ strayed'[c]
      BY <1>6, <1>7, <1>9, <3>2
    <3> QED
      BY <3>1, <3>2
  <2> QED
    BY <1>2, <1>6, <1>9, <1>10, <1>14, <2>1, <2>2 DEF Frame
<1>16. Own(r, {n, c})
  <2>1. duty[r].op = "add"
    BY <1>1 DEF JobInv, Placed
  <2>2. JobInv(r)'
    BY <1>5, <2>1 DEF JobInv, Placed, Undone, Clean, Checking, Removing
  <2>3. (tree'[c].kind = "git" => tree'[c].at # 0) /\ tree'[n].kind # "git"
    BY <1>1, <1>2, NoTreeIs DEF NameInv
  <2>4. OnIt(r, c)' /\ ~OnIt(r, n)'
    BY <1>5 DEF OnIt
  <2>5. ~gone'[n]
    BY <1>1, <1>10, <1>12
  <2>6. Rested(tree'[n], meta'[n], consented'[n])
    BY <2>3 DEF Rested
  <2> QED
    BY <1>5, <1>10, <2>2, <2>3, <2>4, <2>5, <2>6 DEF Own
<1> QED
  BY <1>1, <1>11, <1>15, <1>16, StepKeeps

LEMMA NamedStep == ASSUME PackInv, NEW r \in Proc, Packs!Rename(r) PROVE PackInv'
<1>1. PICK n : n = duty[r].name
  OBVIOUS
<1>2. PICK c : c = IF Packs!Content(n) = 0 THEN n ELSE Canon[Packs!Content(n)]
  OBVIOUS
<1>3. /\ PackShape /\ n \in Packs!Names /\ JobInv(r) /\ NameInv(n) /\ duty[r] \in JobType
      /\ tree[n] \in TreeType
  BY <1>1, JobKnown
<1>4. /\ UNCHANGED <<meta, pins, upstream, work, held, consented>>
      /\ duty[r].pc = "rename"
  BY DEF Packs!Rename, Packs!At, Packs!outside
<1>5. c \in Packs!Names
  <2>1. Packs!Content(n) \in Marks
    BY <1>3, PackConstants DEF Packs!Content, TreeType, PackShape
  <2> QED
    BY <1>2, <1>3, <2>1, PackConstants DEF Marks
<1>6. tree \in [Packs!Names -> TreeType] /\ (tree[n].kind = "git" => tree[n].at # 0)
  BY <1>3 DEF PackShape, NameInv
<1>7. \/ c = n /\ Packs!Goto(r, "hash") /\ UNCHANGED <<tree, strayed, gone>>
      \/ /\ c # n /\ tree' = [tree EXCEPT ![c] = tree[n], ![n] = Packs!NoTree]
         /\ duty' = Packs!Joined(r, [duty[r] EXCEPT !.pc = "hash", !.name = c], c)
         /\ strayed' = [strayed EXCEPT ![c] = @ \/ Packs!Busy(c)]
         /\ gone' = [gone EXCEPT ![c] = FALSE]
      \/ Packs!RemoveAll(n) /\ Packs!Return(r) /\ UNCHANGED <<strayed, gone>>
  BY <1>1, <1>2 DEF Packs!Rename
<1>8. CASE c = n /\ Packs!Goto(r, "hash") /\ UNCHANGED <<tree, strayed, gone>>
  <2>1. /\ duty' \in [Proc -> JobType]
        /\ duty'[r].pc = "hash" /\ duty'[r].op = duty[r].op /\ duty'[r].name = n
        /\ duty'[r].shared = duty[r].shared
        /\ \A q \in Proc \ {r} : duty'[q] = duty[q]
    BY <1>1, <1>3, <1>8, GotoStep DEF Stages, Checking
  <2>2. duty[r].op = "add"
    BY <1>3, <1>4 DEF JobInv, Placed
  <2>3. Placed(duty'[r]) /\ Undone(duty'[r], tree[n], meta[n])
    BY <2>1, <2>2 DEF Placed, Undone, Checking, Removing
  <2>4. Clean(duty'[r], tree[n], meta[n], consented[n])
    BY <2>1, <2>2 DEF Clean, Removing
  <2>5. consented \in [Packs!Names -> SUBSET Offers]
    BY <1>3 DEF PackShape
  <2> QED
    BY <1>1, <1>4, <1>6, <1>8, <2>1, <2>3, <2>4, <2>5, MoveKeeps
<1>9. CASE /\ c # n /\ tree' = [tree EXCEPT ![c] = tree[n], ![n] = Packs!NoTree]
           /\ duty' = Packs!Joined(r, [duty[r] EXCEPT !.pc = "hash", !.name = c], c)
           /\ strayed' = [strayed EXCEPT ![c] = @ \/ Packs!Busy(c)]
           /\ gone' = [gone EXCEPT ![c] = FALSE]
  BY <1>1, <1>4, <1>5, <1>9, MovedStep
<1>10. CASE Packs!RemoveAll(n) /\ Packs!Return(r) /\ UNCHANGED <<strayed, gone>>
  <2>1. tree' = [tree EXCEPT ![n] = Packs!NoTree]
    BY <1>10 DEF Packs!RemoveAll
  <2>2. /\ tree' \in [Packs!Names -> TreeType] /\ tree'[n] = Packs!NoTree
        /\ \A m \in Packs!Names \ {n} : tree'[m] = tree[m]
    BY <1>3, <2>1, TreeStep, NoTreeIs
  <2>3. tree'[n].kind # "git"
    BY <2>2, NoTreeIs
  <2> QED
    BY <1>1, <1>4, <1>10, <2>2, <2>3, ReturnKeeps DEF Rested
<1> QED
  BY <1>7, <1>8, <1>9, <1>10

\* What goes on outside the operations.
LEMMA OutsideKeeps ==
  ASSUME PackInv, PackShape', UNCHANGED <<tree, meta, duty, consented, strayed>>,
         \A m \in Packs!Names : gone'[m] => gone[m] /\ m \notin pins'
  PROVE  PackInv'
<1>1. \A p \in Proc : JobInv(p)'
  BY DEF PackInv, JobInv
<1>2. ASSUME NEW n \in Packs!Names PROVE NameInv(n)'
  <2>1. NameInv(n)
    BY DEF PackInv
  <2>2. (Packs!Busy(n)' <=> Packs!Busy(n)) /\ \A p \in Proc : OnIt(p, n)' <=> OnIt(p, n)
    BY DEF Packs!Busy, OnIt
  <2>3. gone'[n] => gone[n] /\ n \notin pins'
    OBVIOUS
  <2> QED
    BY <2>1, <2>2, <2>3 DEF NameInv
<1> QED
  BY <1>1, <1>2 DEF PackInv

LEMMA OutsideStep ==
  ASSUME PackInv,
         Packs!LoadConfig \/ (\E n \in Packs!Names : Packs!SaveConfig(n)) \/ Packs!Push \/ Packs!Edit
  PROVE  PackInv'
<1>1. \A m \in Packs!Names : gone[m] => m \notin pins
  BY DEF PackInv, NameInv
<1>2. PackShape
  BY DEF PackInv
<1>3. CASE Packs!LoadConfig
  <2>1. /\ UNCHANGED <<tree, meta, pins, upstream, work, duty, consented, strayed, gone>>
        /\ held' = <<pins>>
    BY <1>3 DEF Packs!LoadConfig, Packs!disk
  <2>2. held'[1] = pins
    BY <2>1
  <2>3. PackShape'
    BY <1>2, <2>1, <2>2 DEF PackShape
  <2> QED
    BY <1>1, <2>1, <2>3, OutsideKeeps
<1>4. ASSUME NEW n \in Packs!Names, Packs!SaveConfig(n) PROVE PackInv'
  <2>1. /\ UNCHANGED <<tree, meta, upstream, work, duty, consented, strayed>>
        /\ held # <<>> /\ held' = <<>> /\ pins' = held[1] \cup {n}
        /\ gone' = [m \in Packs!Names |-> gone[m] /\ m \notin pins']
    BY <1>4 DEF Packs!SaveConfig
  <2>2. pins' \subseteq Packs!Names
    BY <1>2, <2>1 DEF PackShape
  <2>3. \A m \in Packs!Names : gone'[m] <=> gone[m] /\ m \notin pins'
    BY <2>1
  <2>4. gone' \in [Packs!Names -> BOOLEAN]
    BY <2>1
  <2>5. PackShape'
    BY <1>2, <2>1, <2>2, <2>4 DEF PackShape
  <2> QED
    BY <2>1, <2>3, <2>5, OutsideKeeps
<1>5. CASE Packs!Push \/ Packs!Edit
  <2>1. /\ UNCHANGED <<tree, meta, pins, held, duty, consented, strayed, gone>>
        /\ upstream' \in Packs!Versions /\ work' \in Packs!Versions
    BY <1>2, <1>5 DEF Packs!Push, Packs!Edit, Packs!disk, PackShape
  <2>2. PackShape'
    BY <1>2, <2>1 DEF PackShape
  <2> QED
    BY <1>1, <2>1, <2>2, OutsideKeeps
<1> QED
  BY <1>3, <1>4, <1>5

LEMMA PackStep == ASSUME PackInv, NEW r \in Proc, Packs!Step(r) PROVE PackInv'
<1>1. CASE Packs!BeginAdd(r) \/ Packs!AddLocal(r) \/ Packs!Clone(r) \/ Packs!Checkout(r)
           \/ Packs!Rename(r)
  BY <1>1, BeginAddStep, AddLocalStep, CloneStep, CheckoutStep, NamedStep
<1>2. ASSUME NEW n \in Packs!Names, Packs!BeginUpdate(r, n) \/ Packs!BeginRemove(r, n)
      PROVE  PackInv'
  BY <1>2, BeginUpdateStep, BeginRemoveStep
<1>3. CASE Packs!RevParse(r) \/ Packs!Pull(r) \/ Packs!PullFails(r)
  BY <1>3, RevParseStep, PullStep, PullFailsStep
<1>4. CASE Packs!Hash(r) \/ Packs!Scan(r) \/ Packs!Fails(r) \/ Packs!Trusted(r) \/ Packs!Denied(r)
  BY <1>4, HashStep, ScanStep, FailsStep, TrustedStep, DeniedStep
<1>5. CASE Packs!WriteMeta(r) \/ Packs!WriteMetaFails(r)
  BY <1>5, WriteMetaStep, WriteMetaFailsStep
<1>6. CASE Packs!RemoveMeta(r) \/ Packs!ReadConfig(r) \/ Packs!Unpin(r)
           \/ Packs!RemoveFails(r) \/ Packs!Crash(r)
  BY <1>6, RemoveMetaStep, ReadConfigStep, UnpinStep, RemoveFailsStep, DiesStep
<1> QED
  BY <1>1, <1>2, <1>3, <1>4, <1>5, <1>6 DEF Packs!Step

LEMMA PackHolds == LocalSpec => [](part = "packs" => PackInv)
<1> DEFINE I == part = "packs" => PackInv
<1>1. LocalInit => I
  BY PackInitInv DEF LocalInit
<1>2. I /\ [LocalNext]_<<part, vars, packVars, reloadVars, paletteVars>> => I'
  <2> SUFFICES ASSUME I, [LocalNext]_<<part, vars, packVars, reloadVars, paletteVars>>,
                      part' = "packs"
               PROVE  PackInv'
    OBVIOUS
  <2>1. CASE UNCHANGED packVars /\ part' = part
    <3>1. UNCHANGED <<upstream, work, tree, meta, pins, held, duty, consented, strayed, gone>>
      BY <2>1 DEF packVars
    <3>2. PackInv /\ PackShape
      BY <2>1 DEF PackInv
    <3>3. PackShape'
      BY <3>1, <3>2 DEF PackShape
    <3>4. \A m \in Packs!Names : gone'[m] => gone[m] /\ m \notin pins'
      BY <3>1, <3>2 DEF PackInv, NameInv
    <3> QED
      BY <3>1, <3>2, <3>3, <3>4, OutsideKeeps
  <2>2. CASE LocalNext
    <3>1. part' = part
      BY <2>2 DEF LocalNext
    <3>2. PackInv /\ part = "packs"
      BY <3>1
    <3>3. Packs!Next
      BY <2>2, <3>2 DEF LocalNext
    <3> QED
      BY <3>2, <3>3, PackStep, OutsideStep DEF Packs!Next
  <2> QED
    BY <2>1, <2>2
<1> QED
  BY <1>1, <1>2, PTL DEF LocalSpec

\* A cloned pack that no operation is working on has a record, and it offers
\* no shell command the user was not shown and did not trust, as long as its
\* operations ran one at a time and each came to its end: a pull that is
\* refused is reset to the commit that was trusted before, a surface that is
\* the same is one that was (git.go:150-219).
THEOREM ClonesAreTrusted == LocalSpec => []IdleCloneIsConsented
<1>1. (part = "packs" => PackInv) => IdleCloneIsConsented
  <2>1. ASSUME PackInv, NEW n \in Packs!Names, tree[n].kind = "git", ~Packs!Busy(n), ~strayed[n]
        PROVE  /\ meta[n] # Packs!NoRecord
               /\ {Packs!Surface(tree[n].at), meta[n].surface} \subseteq consented[n]
    <3>1. Rested(tree[n], meta[n], consented[n])
      BY <2>1 DEF PackInv, NameInv
    <3> QED
      BY <2>1, <3>1 DEF Rested, Known
  <2> QED
    BY <2>1 DEF IdleCloneIsConsented, Packs!IdleCloneIsConsented
<1> QED
  BY <1>1, PackHolds, PTL

\* After a Remove that had the name and config.yaml to itself and reported
\* success, there is no tree, no record and no pin of the pack, whatever other
\* processes do, until one of them adds it or pins it again
\* (install.go:229-261, pins.go:26-88).
THEOREM RemovalsLast == LocalSpec => []RemovedIsGone
<1>1. (part = "packs" => PackInv) => RemovedIsGone
  <2>1. PackInv => Packs!RemovedIsGone
    BY DEF PackInv, NameInv, Packs!RemovedIsGone, Packs!Exists
  <2> QED
    BY <2>1 DEF RemovedIsGone
<1> QED
  BY <1>1, PackHolds, PTL

-----------------------------------------------------------------------------
(* Manifests *)

\* A sequence of notices <<file, op>> has one about f, and its last one about
\* f says whether f is missing.
About(s, f) == \E i \in 1..Len(s) : s[i][1] = f
Ends(s, f, m) ==
  \A i \in 1..Len(s) :
    s[i][1] = f /\ (\A j \in i + 1..Len(s) : s[j][1] # f) => (s[i][2] = "remove" <=> m)

LEMMA EndsAppend ==
  ASSUME NEW H, NEW s \in Seq(H), NEW x \in H, NEW f, NEW m
  PROVE  /\ About(Append(s, x), f) <=> About(s, f) \/ x[1] = f
         /\ x[1] = f /\ (x[2] = "remove" <=> m) => Ends(Append(s, x), f, m)
         /\ x[1] # f /\ Ends(s, f, m) => Ends(Append(s, x), f, m)
<1>1. PICK t : t = Append(s, x)
  OBVIOUS
<1>2. /\ Len(s) \in Nat /\ Len(t) = Len(s) + 1 /\ t[Len(s) + 1] = x
      /\ \A i \in 1..Len(s) : t[i] = s[i]
  BY <1>1
<1>3. About(t, f) <=> About(s, f) \/ x[1] = f
  BY <1>2 DEF About
<1>4. ASSUME x[1] = f, x[2] = "remove" <=> m PROVE Ends(t, f, m)
  <2>1. ASSUME NEW i \in 1..Len(t), t[i][1] = f, \A j \in i + 1..Len(t) : t[j][1] # f
        PROVE  t[i][2] = "remove" <=> m
    <3>1. i = Len(s) + 1
      BY <1>2, <1>4, <2>1
    <3> QED
      BY <1>2, <1>4, <3>1
  <2> QED
    BY <2>1 DEF Ends
<1>5. ASSUME x[1] # f, Ends(s, f, m) PROVE Ends(t, f, m)
  <2>1. ASSUME NEW i \in 1..Len(t), t[i][1] = f, \A j \in i + 1..Len(t) : t[j][1] # f
        PROVE  t[i][2] = "remove" <=> m
    <3>1. i \in 1..Len(s) /\ s[i][1] = f
      BY <1>2, <1>5, <2>1
    <3>2. \A j \in i + 1..Len(s) : s[j][1] # f
      BY <1>2, <2>1, <3>1
    <3> QED
      BY <1>2, <1>5, <3>1, <3>2 DEF Ends
  <2> QED
    BY <2>1 DEF Ends
<1> QED
  BY <1>1, <1>3, <1>4, <1>5

LEMMA EndsTail ==
  ASSUME NEW H, NEW s \in Seq(H), s # <<>>, NEW f, NEW m
  PROVE  /\ About(s, f) <=> About(Tail(s), f) \/ Head(s)[1] = f
         /\ Ends(s, f, m) =>
              /\ Ends(Tail(s), f, m)
              /\ ~About(Tail(s), f) /\ Head(s)[1] = f => (Head(s)[2] = "remove" <=> m)
<1>1. PICK t : t = Tail(s)
  OBVIOUS
<1>2. /\ Len(s) \in Nat /\ Len(s) > 0 /\ Len(t) = Len(s) - 1 /\ Head(s) = s[1]
      /\ \A i \in 1..Len(t) : t[i] = s[i + 1]
  BY <1>1
<1>3. About(s, f) <=> About(t, f) \/ Head(s)[1] = f
  <2>1. ASSUME NEW i \in 1..Len(s), s[i][1] = f PROVE About(t, f) \/ Head(s)[1] = f
    <3>1. CASE i = 1
      BY <1>2, <2>1, <3>1
    <3>2. CASE i # 1
      <4>1. i - 1 \in 1..Len(t) /\ t[i - 1] = s[i]
        BY <1>2, <2>1, <3>2
      <4> QED
        BY <2>1, <4>1 DEF About
    <3> QED
      BY <3>1, <3>2
  <2>2. ASSUME NEW i \in 1..Len(t), t[i][1] = f PROVE About(s, f)
    <3>1. i + 1 \in 1..Len(s) /\ t[i] = s[i + 1]
      BY <1>2
    <3> QED
      BY <2>2, <3>1 DEF About
  <2>3. Head(s)[1] = f => About(s, f)
    BY <1>2 DEF About
  <2> QED
    BY <2>1, <2>2, <2>3 DEF About
<1>4. ASSUME Ends(s, f, m), NEW i \in 1..Len(t), t[i][1] = f,
             \A j \in i + 1..Len(t) : t[j][1] # f
      PROVE  t[i][2] = "remove" <=> m
  <2>1. i + 1 \in 1..Len(s) /\ s[i + 1] = t[i]
    BY <1>2
  <2>2. ASSUME NEW j \in (i + 1) + 1..Len(s) PROVE s[j][1] # f
    <3>1. j - 1 \in i + 1..Len(t) /\ t[j - 1] = s[j]
      BY <1>2
    <3> QED
      BY <1>4, <3>1
  <2> QED
    BY <1>4, <2>1, <2>2 DEF Ends
<1>5. ASSUME Ends(s, f, m), ~About(t, f), Head(s)[1] = f PROVE Head(s)[2] = "remove" <=> m
  <2>1. ASSUME NEW j \in 1 + 1..Len(s) PROVE s[j][1] # f
    <3>1. j - 1 \in 1..Len(t) /\ t[j - 1] = s[j]
      BY <1>2
    <3> QED
      BY <1>5, <3>1 DEF About
  <2> QED
    BY <1>2, <1>5, <2>1 DEF Ends
<1> QED
  BY <1>1, <1>3, <1>4, <1>5 DEF Ends

LEMMA EndsConcat ==
  ASSUME NEW H, NEW s \in Seq(H), NEW q \in Seq(H), NEW f, NEW m
  PROVE  /\ About(s \o q, f) <=> About(s, f) \/ About(q, f)
         /\ About(q, f) /\ (\A i \in 1..Len(q) : q[i][2] = "remove") /\ m => Ends(s \o q, f, m)
         /\ ~About(q, f) /\ Ends(s, f, m) => Ends(s \o q, f, m)
<1>1. PICK t : t = s \o q
  OBVIOUS
<1>2. /\ Len(s) \in Nat /\ Len(q) \in Nat /\ Len(t) = Len(s) + Len(q)
      /\ \A i \in 1..Len(s) : t[i] = s[i]
      /\ \A i \in 1..Len(q) : t[Len(s) + i] = q[i]
  BY <1>1
<1>3. ASSUME NEW i \in 1..Len(t), i \notin 1..Len(s)
      PROVE  i - Len(s) \in 1..Len(q) /\ t[i] = q[i - Len(s)]
  <2>1. i - Len(s) \in 1..Len(q) /\ Len(s) + (i - Len(s)) = i
    BY <1>2, <1>3
  <2> QED
    BY <1>2, <2>1
<1>4. About(t, f) <=> About(s, f) \/ About(q, f)
  <2>1. ASSUME NEW i \in 1..Len(t), t[i][1] = f PROVE About(s, f) \/ About(q, f)
    <3>1. CASE i \in 1..Len(s)
      BY <1>2, <2>1, <3>1 DEF About
    <3>2. CASE i \notin 1..Len(s)
      <4>1. i - Len(s) \in 1..Len(q) /\ t[i] = q[i - Len(s)]
        BY <1>3, <3>2
      <4> QED
        BY <2>1, <4>1 DEF About
    <3> QED
      BY <3>1, <3>2
  <2>2. ASSUME NEW i \in 1..Len(q), q[i][1] = f PROVE About(t, f)
    <3>1. Len(s) + i \in 1..Len(t)
      BY <1>2
    <3> QED
      BY <1>2, <2>2, <3>1 DEF About
  <2>3. About(s, f) => About(t, f)
    BY <1>2 DEF About
  <2> QED
    BY <2>1, <2>2, <2>3 DEF About
<1>5. ASSUME About(q, f), \A i \in 1..Len(q) : q[i][2] = "remove", m PROVE Ends(t, f, m)
  <2>1. PICK k \in 1..Len(q) : q[k][1] = f
    BY <1>5 DEF About
  <2>2. Len(s) + k \in 1..Len(t) /\ t[Len(s) + k][1] = f
    BY <1>2, <2>1
  <2>3. ASSUME NEW i \in 1..Len(t), \A j \in i + 1..Len(t) : t[j][1] # f
        PROVE  t[i][2] = "remove"
    <3>1. i \notin 1..Len(s)
      BY <1>2, <2>2, <2>3
    <3> QED
      BY <1>3, <1>5, <3>1
  <2> QED
    BY <1>5, <2>3 DEF Ends
<1>6. ASSUME ~About(q, f), Ends(s, f, m) PROVE Ends(t, f, m)
  <2>1. ASSUME NEW i \in 1..Len(t), t[i][1] = f, \A j \in i + 1..Len(t) : t[j][1] # f
        PROVE  t[i][2] = "remove" <=> m
    <3>1. i \in 1..Len(s)
      BY <1>3, <1>6, <2>1 DEF About
    <3>2. s[i][1] = f /\ \A j \in i + 1..Len(s) : s[j][1] # f
      BY <1>2, <2>1, <3>1
    <3> QED
      BY <1>2, <1>6, <3>1, <3>2 DEF Ends
  <2> QED
    BY <2>1 DEF Ends
<1> QED
  BY <1>1, <1>4, <1>5, <1>6

LEMMA EndsRemove ==
  ASSUME NEW H, NEW s \in Seq(H), NEW k \in 1..Len(s), NEW f, NEW m,
         s[k][1] = f => \A j \in 1..k - 1 : s[j][1] # f
  PROVE  /\ Reload!RemoveAt(s, k) \in Seq(H)
         /\ About(s, f) <=> About(Reload!RemoveAt(s, k), f) \/ s[k][1] = f
         /\ Ends(s, f, m) =>
              /\ Ends(Reload!RemoveAt(s, k), f, m)
              /\ ~About(Reload!RemoveAt(s, k), f) /\ s[k][1] = f => (s[k][2] = "remove" <=> m)
<1>1. PICK t : t = Reload!RemoveAt(s, k)
  OBVIOUS
<1>2. Len(s) \in Nat /\ k \in Nat /\ k >= 1 /\ k <= Len(s)
  OBVIOUS
<1>3. PICK a : a = SubSeq(s, 1, k - 1)
  OBVIOUS
<1>4. PICK b : b = SubSeq(s, k + 1, Len(s))
  OBVIOUS
<1>5. a \in Seq(H) /\ Len(a) = k - 1 /\ \A i \in 1..k - 1 : a[i] = s[i]
  <2>1. \A i \in 1..k - 1 : s[i] \in H
    BY <1>2
  <2> QED
    BY <1>2, <1>3, <2>1, SubSeqProperties
<1>6. b \in Seq(H) /\ Len(b) = Len(s) - k /\ \A i \in 1..Len(s) - k : b[i] = s[i + k]
  <2>1. \A i \in k + 1..Len(s) : s[i] \in H
    BY <1>2
  <2>2. b \in Seq(H) /\ Len(b) = (IF k + 1 <= Len(s) THEN Len(s) - (k + 1) + 1 ELSE 0)
        /\ \A i \in 1..Len(s) - (k + 1) + 1 : b[i] = s[(k + 1) + i - 1]
    BY <1>2, <1>4, <2>1, SubSeqProperties
  <2>3. \A i \in 1..Len(s) - k : (k + 1) + i - 1 = i + k /\ i \in 1..Len(s) - (k + 1) + 1
    BY <1>2
  <2> QED
    BY <1>2, <2>2, <2>3
<1>7. t = a \o b
  BY <1>1, <1>3, <1>4 DEF Reload!RemoveAt
<1>8. t \in Seq(H) /\ Len(t) = Len(s) - 1
  BY <1>2, <1>5, <1>6, <1>7
<1>9. \A i \in 1..k - 1 : t[i] = s[i]
  BY <1>2, <1>5, <1>6, <1>7
<1>10. ASSUME NEW i \in k..Len(s) - 1 PROVE t[i] = s[i + 1]
  <2>1. i - (k - 1) \in 1..Len(s) - k /\ i \in 1..Len(a) + Len(b) /\ ~(i <= Len(a))
    BY <1>2, <1>5, <1>6
  <2>2. t[i] = b[i - Len(a)]
    BY <1>7, <2>1
  <2>3. i - Len(a) = i - (k - 1) /\ (i - (k - 1)) + k = i + 1
    BY <1>2, <1>5
  <2> QED
    BY <1>6, <2>1, <2>2, <2>3
<1>11. About(s, f) <=> About(t, f) \/ s[k][1] = f
  <2>1. ASSUME NEW i \in 1..Len(s), s[i][1] = f PROVE About(t, f) \/ s[k][1] = f
    <3>1. CASE i < k
      <4>1. i \in 1..Len(t) /\ t[i] = s[i]
        BY <1>2, <1>8, <1>9, <3>1
      <4> QED
        BY <2>1, <4>1 DEF About
    <3>2. CASE i > k
      <4>1. i - 1 \in 1..Len(t) /\ i - 1 \in k..Len(s) - 1 /\ (i - 1) + 1 = i
        BY <1>2, <1>8, <3>2
      <4>2. t[i - 1] = s[i]
        BY <1>10, <4>1
      <4> QED
        BY <2>1, <4>1, <4>2 DEF About
    <3> QED
      BY <1>2, <2>1, <3>1, <3>2
  <2>2. ASSUME NEW i \in 1..Len(t), t[i][1] = f PROVE About(s, f)
    <3>1. i \in 1..k - 1 \/ i \in k..Len(s) - 1
      BY <1>2, <1>8
    <3>2. \E j \in 1..Len(s) : t[i] = s[j]
      <4>1. CASE i \in 1..k - 1
        BY <1>2, <1>9, <4>1
      <4>2. CASE i \in k..Len(s) - 1
        <5>1. i + 1 \in 1..Len(s)
          BY <1>2, <4>2
        <5> QED
          BY <1>10, <4>2, <5>1
      <4> QED
        BY <3>1, <4>1, <4>2
    <3> QED
      BY <2>2, <3>2 DEF About
  <2>3. s[k][1] = f => About(s, f)
    BY DEF About
  <2> QED
    BY <2>1, <2>2, <2>3 DEF About
<1>12. ASSUME Ends(s, f, m), NEW i \in 1..Len(t), t[i][1] = f,
              \A j \in i + 1..Len(t) : t[j][1] # f
       PROVE  t[i][2] = "remove" <=> m
  <2>1. CASE i < k
    <3>1. i \in 1..Len(s) /\ i \in 1..k - 1 /\ t[i] = s[i]
      BY <1>2, <1>8, <1>9, <2>1
    <3>2. s[k][1] # f
      BY <1>12, <3>1
    <3>3. ASSUME NEW j \in i + 1..Len(s), s[j][1] = f PROVE FALSE
      <4>1. CASE j < k
        <5>1. j \in i + 1..Len(t) /\ j \in 1..k - 1
          BY <1>2, <1>8, <3>1, <4>1
        <5> QED
          BY <1>9, <1>12, <3>3, <5>1
      <4>2. CASE j > k
        <5>1. j - 1 \in i + 1..Len(t) /\ j - 1 \in k..Len(s) - 1 /\ (j - 1) + 1 = j
          BY <1>2, <1>8, <3>1, <4>2, <2>1
        <5>2. t[j - 1] = s[j]
          BY <1>10, <5>1
        <5> QED
          BY <1>12, <3>3, <5>1, <5>2
      <4> QED
        BY <1>2, <3>2, <3>3, <4>1, <4>2
    <3> QED
      BY <1>12, <3>1, <3>3 DEF Ends
  <2>2. CASE i >= k
    <3>1. i + 1 \in 1..Len(s) /\ i \in k..Len(s) - 1
      BY <1>2, <1>8, <2>2
    <3>2. t[i] = s[i + 1]
      BY <1>10, <3>1
    <3>3. ASSUME NEW j \in (i + 1) + 1..Len(s), s[j][1] = f PROVE FALSE
      <4>1. j - 1 \in i + 1..Len(t) /\ j - 1 \in k..Len(s) - 1 /\ (j - 1) + 1 = j
        BY <1>2, <1>8, <2>2
      <4>2. t[j - 1] = s[j]
        BY <1>10, <4>1
      <4> QED
        BY <1>12, <3>3, <4>1, <4>2
    <3> QED
      BY <1>12, <3>1, <3>2, <3>3 DEF Ends
  <2> QED
    BY <1>2, <1>8, <2>1, <2>2
<1>13. ASSUME Ends(s, f, m), ~About(t, f), s[k][1] = f PROVE s[k][2] = "remove" <=> m
  <2>1. ASSUME NEW j \in k + 1..Len(s), s[j][1] = f PROVE FALSE
    <3>1. j - 1 \in 1..Len(t) /\ j - 1 \in k..Len(s) - 1 /\ (j - 1) + 1 = j
      BY <1>2, <1>8
    <3>2. t[j - 1] = s[j]
      BY <1>10, <3>1
    <3> QED
      BY <1>13, <2>1, <3>1, <3>2 DEF About
  <2> QED
    BY <1>13, <2>1 DEF Ends
<1> QED
  BY <1>1, <1>8, <1>11, <1>12, <1>13 DEF Ends

\* The notices of a directory that is deleted, in some order.
LEMMA NoticesOf ==
  ASSUME NEW S, IsFiniteSet(S)
  PROVE  /\ Reload!SetToSeq(S) \in Seq(S)
         /\ \A x \in S : \E i \in 1..Len(Reload!SetToSeq(S)) : Reload!SetToSeq(S)[i] = x
<1>1. PICK n \in Nat : n = Cardinality(S) /\ ExistsBijection(1..n, S)
  BY FS_CardinalityType
<1>2. PICK b \in [1..n -> S] : \A i, j \in 1..n : b[i] = b[j] => i = j
  BY <1>1 DEF ExistsBijection, Bijection, Injection, IsInjective
<1>3. PICK q : q = Reload!SetToSeq(S)
  OBVIOUS
<1>4. Reload!Cardinality(S) = n
  BY <1>1 DEF Reload!Cardinality, Cardinality
<1>5. q \in [1..n -> S] /\ \A i, j \in 1..n : q[i] = q[j] => i = j
  <2>1. Reload!IsInjective(b)
    BY <1>2 DEF Reload!IsInjective
  <2>2. q = CHOOSE f \in [1..n -> S] : Reload!IsInjective(f)
    BY <1>3, <1>4 DEF Reload!SetToSeq
  <2>3. q \in [1..n -> S] /\ Reload!IsInjective(q)
    BY <1>2, <2>1, <2>2
  <2> QED
    BY <2>3 DEF Reload!IsInjective
<1>6. q \in Seq(S) /\ Len(q) = n
  BY <1>5
<1>7. q \in Injection(1..n, S)
  BY <1>5 DEF Injection, IsInjective
<1>8. Cardinality(1..n) = n
  BY FS_Interval
<1>9. q \in Surjection(1..n, S)
  BY <1>1, <1>7, <1>8, FS_Injection
<1> QED
  BY <1>3, <1>6, <1>9 DEF Surjection

Notes == Files \X {"update", "remove"}
Heard == Notes \cup {<<"dir", "create">>}

ReloadShape ==
  /\ texts = [f \in Files |-> texts[f]] /\ registry = [s \in Slashes |-> registry[s]]
  /\ raw \in Seq(Heard) /\ flying \in Seq(Notes) /\ events \in Seq(Notes)
  /\ pending \in [Files -> {"none", "update", "remove"}]
  /\ pathTo \in [Files -> Slashes \cup {"none"}]
  /\ clash \in BOOLEAN

\* A file is still to be heard of, or the palette shows what there is.
Waiting ==
  \/ \E f \in Files : About(raw, f) \/ pending[f] # "none"
  \/ flying # <<>> \/ events # <<>>
ShownInv ==
  \/ Waiting
  \/ \A f \in Files : Reload!Place(f) \cap blind = {} => shown[f] = Reload!Reloaded[f]

\* The registry holds what pathToSlash says, one file for each slash.
Registered ==
  /\ \A f, g \in Files : f # g /\ pathTo[f] # "none" => pathTo[f] # pathTo[g]
  /\ \A s \in Slashes : registry[s] # Reload!Missing => \E f \in Files : pathTo[f] = s
  /\ \A f \in Files : pathTo[f] # "none" => registry[pathTo[f]] # Reload!Missing

Synced(f) ==
  /\ texts[f] = Reload!Missing => pathTo[f] = "none"
  /\ Reload!Loads(texts[f]) =>
       pathTo[f] = texts[f].slash /\ registry[texts[f].slash] = texts[f]

\* The last notice of a file on its way, in raw, pending, flying or events,
\* says whether the file is missing; with none on its way, done holds.
OnItsWay(f, m, r, p, s, e, done) ==
  /\ Ends(r, f, m)
  /\ ~About(r, f) =>
       /\ p # "none" => (p = "remove" <=> m)
       /\ p = "none" =>
            /\ Ends(s, f, m)
            /\ ~About(s, f) => Ends(e, f, m) /\ (~About(e, f) => done)

FileInv(f) == OnItsWay(f, texts[f] = Reload!Missing, raw, pending[f], flying, events,
                       clash \/ Synced(f))

ReloadInv ==
  /\ ReloadShape /\ ShownInv /\ (~clash => Registered)
  /\ \A f \in Files \ (blind \cup overtaken) : FileInv(f)

LEMMA ReloadConstants ==
  /\ "dir" \notin Files /\ "missing" \notin Slashes /\ "broken" \notin Slashes
  /\ "none" \notin Slashes /\ IsFiniteSet(Files)
BY LocalAssumption DEF Reload!ReloadAssumption, Reload!IsFiniteSet, IsFiniteSet

\* What a reload shows of a file depends on the files of its place.
LEMMA PlaceKept ==
  ASSUME NEW f \in Files
  PROVE  /\ f \in Reload!Place(f)
         /\ (\A g \in Reload!Place(f) : texts'[g] = texts[g])
              => Reload!Reloaded[f]' = Reload!Reloaded[f]
<1>1. f \in Reload!Place(f)
  BY DEF Reload!Place
<1>2. ASSUME \A g \in Reload!Place(f) : texts'[g] = texts[g]
      PROVE  Reload!PlaceLoads(f)' <=> Reload!PlaceLoads(f)
  BY <1>2 DEF Reload!PlaceLoads, Reload!Loads
<1> QED
  BY <1>1, <1>2 DEF Reload!Reloaded

LEMMA ReloadInitInv == Reload!Init => ReloadInv
<1> SUFFICES ASSUME Reload!Init PROVE ReloadInv
  OBVIOUS
<1>1. /\ texts = [f \in Files |-> Reload!Missing] /\ raw = <<>> /\ flying = <<>> /\ events = <<>>
      /\ pending = [f \in Files |-> "none"] /\ shown = texts
      /\ registry = [s \in Slashes |-> Reload!Missing]
      /\ pathTo = [f \in Files |-> "none"] /\ clash = FALSE
  BY DEF Reload!Init, Reload!NoManifest
<1>2. ReloadShape
  <2>1. \A H : <<>> \in Seq(H)
    OBVIOUS
  <2>2. /\ texts = [f \in Files |-> texts[f]] /\ registry = [s \in Slashes |-> registry[s]]
    BY <1>1
  <2> QED
    BY <1>1, <2>1, <2>2 DEF ReloadShape
<1>3. Reload!Missing.slash = "missing"
  BY DEF Reload!Missing, Reload!Text
<1>4. ShownInv
  BY <1>1 DEF ShownInv, Reload!Reloaded
<1>5. Registered
  BY <1>1 DEF Registered
<1>6. ASSUME NEW f \in Files PROVE FileInv(f)
  <2>1. Synced(f)
    BY <1>1, <1>3, ReloadConstants DEF Synced, Reload!Loads
  <2>2. \A m : Ends(<<>>, f, m)
    BY DEF Ends
  <2> QED
    BY <1>1, <2>1, <2>2 DEF FileInv, OnItsWay
<1> QED
  BY <1>2, <1>4, <1>5, <1>6 DEF ReloadInv

\* What is not changed keeps its notices.
LEMMA FileKept ==
  ASSUME NEW f \in Files, FileInv(f), texts'[f] = texts[f],
         UNCHANGED <<raw, flying, events, registry, pathTo, clash>>, pending'[f] = pending[f]
  PROVE  FileInv(f)'
<1>1. Synced(f)' <=> Synced(f)
  BY DEF Synced, Reload!Loads
<1> QED
  BY <1>1 DEF FileInv

\* A file is edited: it has a notice of its own, or inotify looked away.
LEMMA EditedStep ==
  ASSUME ReloadInv, NEW f \in Files, NEW t, NEW op \in {"update", "remove"},
         op = "remove" <=> t = Reload!Missing,
         texts' = [texts EXCEPT ![f] = t], Reload!Report(f, op),
         UNCHANGED <<pending, flying, events, shown, registry, pathTo, overtaken, clash>>
  PROVE  ReloadInv'
<1>1. /\ texts'[f] = t /\ \A g \in Files \ {f} : texts'[g] = texts[g]
      /\ texts' = [g \in Files |-> texts'[g]]
  BY DEF ReloadInv, ReloadShape
<1>2. \/ raw' = Append(raw, <<f, op>>) /\ blind' = blind
      \/ raw' = raw /\ blind' = blind \cup {f}
  BY DEF Reload!Report
<1>3. raw \in Seq(Heard) /\ <<f, op>> \in Heard
  BY DEF ReloadInv, ReloadShape, Heard, Notes
<1>4. raw' \in Seq(Heard)
  BY <1>2, <1>3
<1>5. ReloadShape'
  BY <1>1, <1>4 DEF ReloadInv, ReloadShape
<1>6. (~clash => Registered)'
  BY DEF ReloadInv, Registered
<1>7. ASSUME NEW g \in Files, f \notin Reload!Place(g)
      PROVE  Reload!Reloaded[g]' = Reload!Reloaded[g]
  <2>1. Reload!Place(g) \subseteq Files
    BY LocalAssumption DEF Reload!Place, Reload!ReloadAssumption
  <2> QED
    BY <1>1, <1>7, <2>1, PlaceKept
<1>8. CASE raw' = Append(raw, <<f, op>>) /\ blind' = blind
  <2>1. Waiting'
    <3>1. <<f, op>>[1] = f
      OBVIOUS
    <3>2. About(raw', f)
      BY <1>3, <1>8, <3>1, EndsAppend
    <3> QED
      BY <3>2 DEF Waiting
  <2>2. ASSUME NEW g \in Files \ (blind \cup overtaken) PROVE FileInv(g)'
    <3> DEFINE m == texts'[g] = Reload!Missing
    <3>1. <<f, op>>[1] = f /\ <<f, op>>[2] = op
      OBVIOUS
    <3>2. /\ About(raw', g) <=> About(raw, g) \/ f = g
          /\ f = g /\ (op = "remove" <=> m) => Ends(raw', g, m)
          /\ f # g /\ Ends(raw, g, m) => Ends(raw', g, m)
      BY <1>3, <1>8, <3>1, EndsAppend
    <3>3. CASE g = f
      BY <1>1, <3>2, <3>3 DEF FileInv, OnItsWay
    <3>4. CASE g # f
      <4>1. texts'[g] = texts[g] /\ FileInv(g)
        BY <1>1, <3>4 DEF ReloadInv
      <4>2. Synced(g)' <=> Synced(g)
        BY <4>1 DEF Synced, Reload!Loads
      <4> QED
        BY <3>2, <3>4, <4>1, <4>2 DEF FileInv, OnItsWay
    <3> QED
      BY <3>3, <3>4
  <2> QED
    BY <1>5, <1>6, <1>8, <2>1, <2>2 DEF ReloadInv, ShownInv
<1>9. CASE raw' = raw /\ blind' = blind \cup {f}
  <2>1. ShownInv'
    BY <1>7, <1>9 DEF ReloadInv, ShownInv, Waiting
  <2>2. ASSUME NEW g \in Files \ (blind' \cup overtaken) PROVE FileInv(g)'
    BY <1>1, <1>9, FileKept DEF ReloadInv
  <2> QED
    BY <1>5, <1>6, <2>1, <2>2 DEF ReloadInv
<1> QED
  BY <1>2, <1>8, <1>9

LEMMA UserFileStep ==
  ASSUME ReloadInv, NEW f \in Files, Reload!WriteFile(f) \/ Reload!DeleteFile(f)
  PROVE  ReloadInv'
<1>1. UNCHANGED <<pending, flying, events, shown, registry, pathTo, overtaken, clash>>
  BY DEF Reload!WriteFile, Reload!DeleteFile
<1>2. CASE Reload!WriteFile(f)
  <2>1. PICK t \in {Reload!Text(s, edits + 1) : s \in Slashes} \cup {Reload!Broken(edits + 1)} :
          texts' = [texts EXCEPT ![f] = t]
    BY <1>2 DEF Reload!WriteFile
  <2>2. t.slash # "missing" /\ Reload!Missing.slash = "missing"
    BY ReloadConstants DEF Reload!Text, Reload!Broken, Reload!Missing
  <2>3. t # Reload!Missing /\ Reload!Report(f, "update")
    BY <1>2, <2>2 DEF Reload!WriteFile
  <2> QED
    BY <1>1, <2>1, <2>3, EditedStep
<1>3. CASE Reload!DeleteFile(f)
  <2>1. texts' = [texts EXCEPT ![f] = Reload!Missing] /\ Reload!Report(f, "remove")
    BY <1>3 DEF Reload!DeleteFile
  <2> QED
    BY <1>1, <2>1, EditedStep
<1> QED
  BY <1>2, <1>3

\* The directory comes or goes; its notice is about no file.
LEMMA DirNoticed ==
  ASSUME ReloadInv, raw' \in Seq(Heard),
         \A f \in Files : About(raw', f) <=> About(raw, f),
         \A f \in Files, m \in BOOLEAN : Ends(raw, f, m) => Ends(raw', f, m),
         UNCHANGED <<texts, pending, flying, events, shown, registry, pathTo, blind,
                     overtaken, clash>>
  PROVE  ReloadInv'
<1>1. ReloadShape' /\ (~clash => Registered)'
  BY DEF ReloadInv, ReloadShape, Registered
<1>2. ShownInv'
  BY PlaceKept DEF ReloadInv, ShownInv, Waiting
<1>3. ASSUME NEW f \in Files \ (blind \cup overtaken) PROVE FileInv(f)'
  <2>1. FileInv(f) /\ (Synced(f)' <=> Synced(f))
    BY DEF ReloadInv, Synced, Reload!Loads
  <2>2. (texts[f] = Reload!Missing) \in BOOLEAN
    OBVIOUS
  <2>3. Ends(raw, f, texts[f] = Reload!Missing) => Ends(raw', f, texts[f] = Reload!Missing)
    BY <2>2
  <2> QED
    BY <2>1, <2>3 DEF FileInv, OnItsWay
<1> QED
  BY <1>1, <1>2, <1>3 DEF ReloadInv

LEMMA DirStep == ASSUME ReloadInv, Reload!MakeDir \/ Reload!HandleDir PROVE ReloadInv'
<1>1. UNCHANGED <<texts, pending, flying, events, shown, registry, pathTo, blind, overtaken, clash>>
  BY DEF Reload!MakeDir, Reload!HandleDir, Reload!histories
<1>2. raw \in Seq(Heard) /\ <<"dir", "create">> \in Heard /\ <<"dir", "create">>[1] = "dir"
  BY DEF ReloadInv, ReloadShape, Heard
<1>3. CASE Reload!MakeDir
  <2>1. raw' = Append(raw, <<"dir", "create">>)
    BY <1>3 DEF Reload!MakeDir
  <2>2. raw' \in Seq(Heard)
    BY <1>2, <2>1
  <2>3. \A f \in Files : "dir" # f
    BY ReloadConstants
  <2>4. \A f \in Files : About(raw', f) <=> About(raw, f)
    BY <1>2, <2>1, <2>3, EndsAppend
  <2>5. \A f \in Files, m \in BOOLEAN : Ends(raw, f, m) => Ends(raw', f, m)
    BY <1>2, <2>1, <2>3, EndsAppend
  <2> QED
    BY <1>1, <2>2, <2>4, <2>5, DirNoticed
<1>4. CASE Reload!HandleDir
  <2>1. raw # <<>> /\ Head(raw)[1] = "dir" /\ raw' = Tail(raw)
    BY <1>4 DEF Reload!HandleDir
  <2>2. raw' \in Seq(Heard)
    BY <1>2, <2>1
  <2>3. \A f \in Files : "dir" # f
    BY ReloadConstants
  <2>4. \A f \in Files : About(raw', f) <=> About(raw, f)
    BY <1>2, <2>1, <2>3, EndsTail
  <2>5. \A f \in Files, m \in BOOLEAN : Ends(raw, f, m) => Ends(raw', f, m)
    BY <1>2, <2>1, <2>3, EndsTail
  <2> QED
    BY <1>1, <2>2, <2>4, <2>5, DirNoticed
<1> QED
  BY <1>3, <1>4

LEMMA RemoveDirStep == ASSUME ReloadInv, Reload!RemoveDir PROVE ReloadInv'
<1> DEFINE lost == {f \in Nested : texts[f] # Reload!Missing}
           S == {<<f, "remove">> : f \in lost}
<1>1. UNCHANGED <<pending, flying, events, shown, registry, pathTo, overtaken, clash>>
  BY DEF Reload!RemoveDir
<1>2. /\ texts' = [f \in Files |-> IF f \in Nested THEN Reload!Missing ELSE texts[f]]
      /\ \/ raw' = raw \o Reload!SetToSeq(S) /\ blind' = blind
         \/ raw' = raw /\ blind' = blind \cup lost
  BY DEF Reload!RemoveDir
<1>3. \A f \in Files : /\ f \in lost => texts'[f] = Reload!Missing
                       /\ f \notin lost => texts'[f] = texts[f]
  BY <1>2
<1>4. texts' = [f \in Files |-> texts'[f]] /\ raw \in Seq(Heard)
  BY <1>2 DEF ReloadInv, ReloadShape
<1>5. ASSUME NEW f \in Files, Reload!Place(f) \cap lost = {}
      PROVE  Reload!Reloaded[f]' = Reload!Reloaded[f]
  <2>1. Reload!Place(f) \subseteq Files
    BY LocalAssumption DEF Reload!Place, Reload!ReloadAssumption
  <2>2. \A g \in Reload!Place(f) : texts'[g] = texts[g]
    BY <1>3, <1>5, <2>1
  <2> QED
    BY <2>2, PlaceKept
<1>6. lost \subseteq Files
  BY LocalAssumption DEF Reload!ReloadAssumption
<1> HIDE DEF lost
<1>7. (~clash => Registered)'
  BY <1>1 DEF ReloadInv, Registered
<1>8. CASE raw' = raw \o Reload!SetToSeq(S) /\ blind' = blind
  <2>1. IsFiniteSet(S)
    <3>1. IsFiniteSet(lost)
      BY <1>6, ReloadConstants, FS_Subset
    <3>2. [f \in lost |-> <<f, "remove">>] \in Surjection(lost, S)
      BY DEF Surjection
    <3> QED
      BY <3>1, <3>2, FS_Surjection
  <2>2. PICK q : q = Reload!SetToSeq(S)
    OBVIOUS
  <2>3. q \in Seq(S) /\ \A x \in S : \E i \in 1..Len(q) : q[i] = x
    BY <2>1, <2>2, NoticesOf
  <2>4. \A x \in S : x \in Heard /\ x[1] \in lost /\ x[2] = "remove"
    BY <1>6 DEF Heard, Notes
  <2>5. q \in Seq(Heard)
    BY <2>3, <2>4, SeqMonotonic
  <2>6. \A i \in 1..Len(q) : q[i][1] \in lost /\ q[i][2] = "remove"
    BY <2>3, <2>4
  <2>7. ASSUME NEW f PROVE About(q, f) <=> f \in lost
    <3>1. ASSUME f \in lost PROVE About(q, f)
      <4>1. PICK i \in 1..Len(q) : q[i] = <<f, "remove">>
        BY <2>3, <3>1
      <4>2. q[i][1] = f
        BY <4>1
      <4> QED
        BY <4>2 DEF About
    <3> QED
      BY <2>6, <3>1 DEF About
  <2>8. raw' = raw \o q /\ raw' \in Seq(Heard)
    BY <1>4, <1>8, <2>2, <2>5
  <2>9. ReloadShape'
    BY <1>1, <1>4, <2>8 DEF ReloadInv, ReloadShape
  <2>10. ASSUME NEW f \in Files
         PROVE  /\ About(raw', f) <=> About(raw, f) \/ f \in lost
                /\ \A m : /\ f \in lost /\ m => Ends(raw', f, m)
                          /\ f \notin lost /\ Ends(raw, f, m) => Ends(raw', f, m)
    BY <1>4, <2>5, <2>6, <2>7, <2>8, EndsConcat
  <2>11. ShownInv'
    <3>1. CASE lost = {}
      BY <1>1, <1>5, <1>8, <2>10, <3>1 DEF ReloadInv, ShownInv, Waiting
    <3>2. CASE lost # {}
      BY <1>6, <2>10, <3>2 DEF ShownInv, Waiting
    <3> QED
      BY <3>1, <3>2
  <2>12. ASSUME NEW f \in Files \ (blind \cup overtaken) PROVE FileInv(f)'
    <3>1. CASE f \in lost
      BY <1>3, <2>10, <3>1 DEF FileInv, OnItsWay
    <3>2. CASE f \notin lost
      <4>1. FileInv(f) /\ texts'[f] = texts[f] /\ (Synced(f)' <=> Synced(f))
        BY <1>1, <1>3, <3>2 DEF ReloadInv, Synced, Reload!Loads
      <4> QED
        BY <1>1, <2>10, <3>2, <4>1 DEF FileInv, OnItsWay
    <3> QED
      BY <3>1, <3>2
  <2> QED
    BY <1>1, <1>7, <1>8, <2>9, <2>11, <2>12 DEF ReloadInv
<1>9. CASE raw' = raw /\ blind' = blind \cup lost
  <2>1. ReloadShape'
    BY <1>1, <1>4, <1>9 DEF ReloadInv, ReloadShape
  <2>2. ShownInv'
    BY <1>1, <1>5, <1>9 DEF ReloadInv, ShownInv, Waiting
  <2>3. ASSUME NEW f \in Files \ (blind' \cup overtaken) PROVE FileInv(f)'
    BY <1>1, <1>3, <1>9, FileKept DEF ReloadInv
  <2> QED
    BY <1>1, <1>7, <2>1, <2>2, <2>3 DEF ReloadInv
<1> QED
  BY <1>2, <1>8, <1>9

LEMMA HandleFileStep == ASSUME ReloadInv, Reload!HandleFile PROVE ReloadInv'
<1>1. UNCHANGED <<texts, flying, events, shown, registry, pathTo, blind, overtaken, clash>>
  BY DEF Reload!HandleFile, Reload!histories
<1>2. PICK x : x = Head(raw)
  OBVIOUS
<1>3. /\ raw # <<>> /\ x[1] # "dir" /\ raw' = Tail(raw)
      /\ pending' = [pending EXCEPT ![x[1]] = x[2]]
  BY <1>2 DEF Reload!HandleFile
<1>4. raw \in Seq(Heard) /\ raw' \in Seq(Heard) /\ x \in Heard
  BY <1>2, <1>3 DEF ReloadInv, ReloadShape
<1>5. x[1] \in Files /\ x[2] \in {"update", "remove"}
  BY <1>3, <1>4 DEF Heard, Notes
<1>6. /\ pending' \in [Files -> {"none", "update", "remove"}]
      /\ pending'[x[1]] = x[2] /\ \A f \in Files \ {x[1]} : pending'[f] = pending[f]
  BY <1>3, <1>5 DEF ReloadInv, ReloadShape
<1>7. ReloadShape'
  BY <1>1, <1>4, <1>6 DEF ReloadInv, ReloadShape
<1>8. ShownInv'
  BY <1>5, <1>6 DEF ShownInv, Waiting
<1>9. (~clash => Registered)'
  BY <1>1 DEF ReloadInv, Registered
<1>10. ASSUME NEW f \in Files \ (blind \cup overtaken) PROVE FileInv(f)'
  <2> DEFINE m == texts[f] = Reload!Missing
  <2>1. FileInv(f) /\ (Synced(f)' <=> Synced(f))
    BY <1>1 DEF ReloadInv, Synced, Reload!Loads
  <2>2. /\ About(raw, f) <=> About(raw', f) \/ x[1] = f
        /\ Ends(raw, f, m) =>
             /\ Ends(raw', f, m)
             /\ ~About(raw', f) /\ x[1] = f => (x[2] = "remove" <=> m)
    BY <1>2, <1>3, <1>4, EndsTail
  <2>3. CASE f = x[1]
    BY <1>1, <1>5, <1>6, <2>1, <2>2, <2>3 DEF FileInv, OnItsWay
  <2>4. CASE f # x[1]
    BY <1>1, <1>6, <2>1, <2>2, <2>4 DEF FileInv, OnItsWay
  <2> QED
    BY <2>3, <2>4
<1> QED
  BY <1>1, <1>7, <1>8, <1>9, <1>10 DEF ReloadInv

LEMMA FireStep == ASSUME ReloadInv, NEW g \in Files, Reload!Fire(g) PROVE ReloadInv'
<1>1. UNCHANGED <<texts, raw, events, shown, registry, pathTo, blind, overtaken, clash>>
  BY DEF Reload!Fire, Reload!histories
<1>2. PICK x : x = <<g, pending[g]>>
  OBVIOUS
<1>3. /\ pending[g] # "none" /\ flying' = Append(flying, x)
      /\ pending' = [pending EXCEPT ![g] = "none"]
  BY <1>2 DEF Reload!Fire
<1>4. x[1] = g /\ x[2] = pending[g] /\ x \in Notes /\ flying \in Seq(Notes)
  BY <1>2, <1>3 DEF ReloadInv, ReloadShape, Notes
<1>5. flying' \in Seq(Notes) /\ flying' # <<>>
  BY <1>3, <1>4
<1>6. /\ pending' \in [Files -> {"none", "update", "remove"}]
      /\ pending'[g] = "none" /\ \A f \in Files \ {g} : pending'[f] = pending[f]
  BY <1>3 DEF ReloadInv, ReloadShape
<1>7. ReloadShape'
  BY <1>1, <1>5, <1>6 DEF ReloadInv, ReloadShape
<1>8. ShownInv'
  BY <1>5 DEF ShownInv, Waiting
<1>9. (~clash => Registered)'
  BY <1>1 DEF ReloadInv, Registered
<1>10. ASSUME NEW f \in Files \ (blind \cup overtaken) PROVE FileInv(f)'
  <2> DEFINE m == texts[f] = Reload!Missing
  <2>1. FileInv(f) /\ (Synced(f)' <=> Synced(f))
    BY <1>1 DEF ReloadInv, Synced, Reload!Loads
  <2>2. /\ About(flying', f) <=> About(flying, f) \/ g = f
        /\ g = f /\ (x[2] = "remove" <=> m) => Ends(flying', f, m)
        /\ g # f /\ Ends(flying, f, m) => Ends(flying', f, m)
    BY <1>3, <1>4, EndsAppend
  <2>3. CASE f = g
    BY <1>1, <1>3, <1>4, <1>6, <2>1, <2>2, <2>3 DEF FileInv, OnItsWay
  <2>4. CASE f # g
    BY <1>1, <1>6, <2>1, <2>2, <2>4 DEF FileInv, OnItsWay
  <2> QED
    BY <2>3, <2>4
<1> QED
  BY <1>1, <1>7, <1>8, <1>9, <1>10 DEF ReloadInv

\* A callback sends its change: before an older one of its file only if the
\* file is overtaken from now on.
LEMMA EmitStep ==
  ASSUME ReloadInv, NEW k \in 1..Len(flying), Reload!Emit(k)
  PROVE  ReloadInv'
<1>1. UNCHANGED <<texts, raw, pending, shown, registry, pathTo, blind, clash>>
  BY DEF Reload!Emit
<1>2. PICK x : x = flying[k]
  OBVIOUS
<1>3. /\ events' = Append(events, x) /\ flying' = Reload!RemoveAt(flying, k)
      /\ overtaken' = IF \E j \in 1..k - 1 : flying[j][1] = x[1]
                      THEN overtaken \cup {x[1]} ELSE overtaken
  BY <1>2 DEF Reload!Emit
<1>4. flying \in Seq(Notes) /\ events \in Seq(Notes)
  BY DEF ReloadInv, ReloadShape
<1>5. x \in Notes /\ x[1] \in Files
  BY <1>2, <1>4 DEF Notes
<1>6. events' \in Seq(Notes) /\ events' # <<>>
  BY <1>3, <1>4, <1>5
<1>7. flying' \in Seq(Notes)
  <2>1. flying[k][1] # "dir"
    BY <1>2, <1>5, ReloadConstants
  <2> QED
    BY <1>3, <1>4, <2>1, EndsRemove
<1>8. ReloadShape'
  BY <1>1, <1>6, <1>7 DEF ReloadInv, ReloadShape
<1>9. ShownInv'
  BY <1>6 DEF ShownInv, Waiting
<1>10. (~clash => Registered)'
  BY <1>1 DEF ReloadInv, Registered
<1>11. ASSUME NEW f \in Files \ (blind' \cup overtaken') PROVE FileInv(f)'
  <2> DEFINE m == texts[f] = Reload!Missing
  <2>1. f \notin blind /\ f \notin overtaken /\ (x[1] = f => \A j \in 1..k - 1 : flying[j][1] # f)
    BY <1>1, <1>3
  <2>2. FileInv(f) /\ (Synced(f)' <=> Synced(f))
    BY <1>1, <2>1 DEF ReloadInv, Synced, Reload!Loads
  <2>3. /\ About(flying, f) <=> About(flying', f) \/ x[1] = f
        /\ Ends(flying, f, m) =>
             /\ Ends(flying', f, m)
             /\ ~About(flying', f) /\ x[1] = f => (x[2] = "remove" <=> m)
    BY <1>2, <1>3, <1>4, <2>1, EndsRemove
  <2>4. /\ About(events', f) <=> About(events, f) \/ x[1] = f
        /\ x[1] = f /\ (x[2] = "remove" <=> m) => Ends(events', f, m)
        /\ x[1] # f /\ Ends(events, f, m) => Ends(events', f, m)
    BY <1>3, <1>4, <1>5, EndsAppend
  <2>5. CASE f = x[1]
    BY <1>1, <2>2, <2>3, <2>4, <2>5 DEF FileInv, OnItsWay
  <2>6. CASE f # x[1]
    BY <1>1, <2>2, <2>3, <2>4, <2>6 DEF FileInv, OnItsWay
  <2> QED
    BY <2>5, <2>6
<1> QED
  BY <1>8, <1>9, <1>10, <1>11 DEF ReloadInv

\* A change is applied: it is about f, and right about it if it is the last.
LEMMA AppliedStep ==
  ASSUME ReloadInv, events # <<>>, events' = Tail(events), NEW f, f = Head(events)[1],
         shown' = Reload!Reloaded, UNCHANGED <<texts, raw, pending, flying, blind, overtaken>>,
         registry' = [s \in Slashes |-> registry'[s]],
         pathTo' \in [Files -> Slashes \cup {"none"}], clash' \in BOOLEAN,
         ~clash' => Registered',
         (Head(events)[2] = "remove" <=> texts[f] = Reload!Missing) => clash' \/ Synced(f)',
         \A g \in Files \ {f} : clash \/ Synced(g) => clash' \/ Synced(g)'
  PROVE  ReloadInv'
<1>1. events \in Seq(Notes) /\ events' \in Seq(Notes)
  BY DEF ReloadInv, ReloadShape
<1>2. ReloadShape'
  BY <1>1 DEF ReloadInv, ReloadShape
<1>3. ShownInv'
  BY PlaceKept DEF ShownInv
<1>4. ASSUME NEW g \in Files \ (blind \cup overtaken) PROVE FileInv(g)'
  <2> DEFINE m == texts[g] = Reload!Missing
  <2>1. FileInv(g)
    BY DEF ReloadInv
  <2>2. /\ About(events, g) <=> About(events', g) \/ f = g
        /\ Ends(events, g, m) =>
             /\ Ends(events', g, m)
             /\ ~About(events', g) /\ f = g => (Head(events)[2] = "remove" <=> m)
    BY <1>1, EndsTail
  <2>3. CASE f = g
    BY <2>1, <2>2, <2>3 DEF FileInv, OnItsWay
  <2>4. CASE f # g
    BY <2>1, <2>2, <2>4 DEF FileInv, OnItsWay
  <2> QED
    BY <2>3, <2>4
<1> QED
  BY <1>2, <1>3, <1>4 DEF ReloadInv

LEMMA ApplyRemoveStep == ASSUME ReloadInv, Reload!ApplyRemove PROVE ReloadInv'
<1>1. PICK f : f = Head(events)[1]
  OBVIOUS
<1>2. /\ UNCHANGED <<texts, raw, pending, flying, blind, overtaken, clash>>
      /\ events # <<>> /\ Head(events)[2] = "remove" /\ events' = Tail(events)
      /\ shown' = Reload!Reloaded
  BY DEF Reload!ApplyRemove, Reload!Signal, Reload!histories
<1>3. /\ pathTo \in [Files -> Slashes \cup {"none"}] /\ clash \in BOOLEAN
      /\ registry = [s \in Slashes |-> registry[s]] /\ events \in Seq(Notes)
  BY DEF ReloadInv, ReloadShape
<1>4. f \in Files
  BY <1>1, <1>2, <1>3 DEF Notes
<1>5. ~clash => Registered
  BY DEF ReloadInv
<1>6. CASE pathTo[f] = "none" /\ UNCHANGED <<registry, pathTo>>
  <2>1. ~clash => Registered'
    BY <1>5, <1>6 DEF Registered
  <2>2. \A g \in Files : Synced(g)' <=> Synced(g)
    BY <1>2, <1>6 DEF Synced, Reload!Loads
  <2>3. texts[f] = Reload!Missing => Synced(f)
    BY <1>6, ReloadConstants DEF Synced, Reload!Loads, Reload!Missing, Reload!Text
  <2> QED
    BY <1>1, <1>2, <1>3, <1>4, <1>6, <2>1, <2>2, <2>3, AppliedStep
<1>7. CASE /\ pathTo[f] # "none"
           /\ registry' = [registry EXCEPT ![pathTo[f]] = Reload!Missing]
           /\ pathTo' = [pathTo EXCEPT ![f] = "none"]
  <2>1. /\ pathTo[f] \in Slashes /\ registry'[pathTo[f]] = Reload!Missing
        /\ \A s \in Slashes \ {pathTo[f]} : registry'[s] = registry[s]
        /\ registry' = [s \in Slashes |-> registry'[s]]
    BY <1>3, <1>4, <1>7
  <2>2. /\ pathTo'[f] = "none" /\ \A g \in Files \ {f} : pathTo'[g] = pathTo[g]
        /\ pathTo' \in [Files -> Slashes \cup {"none"}]
    BY <1>3, <1>4, <1>7
  <2>3. ~clash => \A g \in Files \ {f} : pathTo[g] # pathTo[f]
    BY <1>4, <1>5, <1>7 DEF Registered
  <2>4. ASSUME ~clash PROVE Registered'
    <3>1. \A g, h \in Files : g # h /\ pathTo'[g] # "none" => pathTo'[g] # pathTo'[h]
      BY <1>4, <1>5, <2>2, <2>4 DEF Registered
    <3>2. ASSUME NEW s \in Slashes, registry'[s] # Reload!Missing
          PROVE  \E g \in Files : pathTo'[g] = s
      <4>1. s # pathTo[f] /\ registry[s] # Reload!Missing
        BY <2>1, <3>2
      <4>2. PICK g \in Files : pathTo[g] = s
        BY <1>5, <2>4, <4>1 DEF Registered
      <4> QED
        BY <2>2, <4>1, <4>2
    <3>3. ASSUME NEW g \in Files, pathTo'[g] # "none"
          PROVE  registry'[pathTo'[g]] # Reload!Missing
      <4>1. g # f /\ pathTo'[g] = pathTo[g] /\ pathTo[g] \in Slashes \ {pathTo[f]}
        BY <1>3, <2>2, <2>3, <2>4, <3>3
      <4> QED
        BY <1>5, <2>1, <2>4, <3>3, <4>1 DEF Registered
    <3> QED
      BY <3>1, <3>2, <3>3 DEF Registered
  <2>5. texts[f] = Reload!Missing => Synced(f)'
    BY <1>2, <2>2, ReloadConstants DEF Synced, Reload!Loads, Reload!Missing, Reload!Text
  <2>6. ASSUME NEW g \in Files \ {f}, ~clash, Synced(g) PROVE Synced(g)'
    <3>1. texts'[g] = texts[g] /\ pathTo'[g] = pathTo[g] /\ pathTo[g] # pathTo[f]
      BY <1>2, <2>2, <2>3, <2>6
    <3>2. ASSUME Reload!Loads(texts[g])
          PROVE  pathTo[g] = texts[g].slash /\ registry'[texts[g].slash] = texts[g]
      BY <2>1, <2>6, <3>1, <3>2 DEF Synced, Reload!Loads
    <3>3. texts[g] = Reload!Missing => pathTo[g] = "none"
      BY <2>6 DEF Synced
    <3> QED
      BY <3>1, <3>2, <3>3 DEF Synced, Reload!Loads
  <2> QED
    BY <1>1, <1>2, <1>3, <2>1, <2>2, <2>4, <2>5, <2>6, AppliedStep
<1> QED
  BY <1>1, <1>6, <1>7 DEF Reload!ApplyRemove, Reload!NoManifest

LEMMA ApplyUpdateStep == ASSUME ReloadInv, Reload!ApplyUpdate PROVE ReloadInv'
<1>1. PICK f : f = Head(events)[1]
  OBVIOUS
<1>2. /\ UNCHANGED <<texts, raw, pending, flying, blind, overtaken>>
      /\ events # <<>> /\ Head(events)[2] = "update" /\ events' = Tail(events)
      /\ shown' = Reload!Reloaded
  BY DEF Reload!ApplyUpdate, Reload!Signal
<1>3. /\ pathTo \in [Files -> Slashes \cup {"none"}] /\ clash \in BOOLEAN
      /\ registry = [s \in Slashes |-> registry[s]] /\ events \in Seq(Notes)
  BY DEF ReloadInv, ReloadShape
<1>4. f \in Files
  BY <1>1, <1>2, <1>3 DEF Notes
<1>5. ~clash => Registered
  BY DEF ReloadInv
<1>6. CASE ~Reload!Loads(texts[f]) /\ UNCHANGED <<registry, pathTo, clash>>
  <2>1. ~clash' => Registered'
    BY <1>5, <1>6 DEF Registered
  <2>2. \A g \in Files : Synced(g)' <=> Synced(g)
    BY <1>2, <1>6 DEF Synced, Reload!Loads
  <2>3. texts[f] # Reload!Missing => Synced(f)
    BY <1>6 DEF Synced
  <2> QED
    BY <1>1, <1>2, <1>3, <1>4, <1>6, <2>1, <2>2, <2>3, AppliedStep
<1>7. CASE /\ Reload!Loads(texts[f])
           /\ registry' = [s \in Slashes |-> IF s = texts[f].slash THEN texts[f]
                                             ELSE IF s = pathTo[f] THEN Reload!Missing
                                             ELSE registry[s]]
           /\ pathTo' = [pathTo EXCEPT ![f] = texts[f].slash]
           /\ clash' = (clash \/ \E g \in Files \ {f} : pathTo[g] = texts[f].slash)
  <2>1. PICK c : c = texts[f].slash
    OBVIOUS
  <2>2. c \in Slashes /\ c # "none" /\ texts[f] # Reload!Missing
    BY <1>7, <2>1, ReloadConstants DEF Reload!Loads, Reload!Missing, Reload!Text
  <2>3. /\ registry'[c] = texts[f]
        /\ pathTo[f] \in Slashes \ {c} => registry'[pathTo[f]] = Reload!Missing
        /\ \A s \in Slashes \ {c, pathTo[f]} : registry'[s] = registry[s]
        /\ registry' = [s \in Slashes |-> registry'[s]]
    BY <1>7, <2>1, <2>2
  <2>4. /\ pathTo'[f] = c /\ \A g \in Files \ {f} : pathTo'[g] = pathTo[g]
        /\ pathTo' \in [Files -> Slashes \cup {"none"}]
    BY <1>3, <1>4, <1>7, <2>1, <2>2
  <2>5. clash' \in BOOLEAN /\ (~clash' => ~clash /\ \A g \in Files \ {f} : pathTo[g] # c)
    BY <1>3, <1>7, <2>1
  <2>6. ASSUME ~clash' PROVE Registered'
    <3>1. ~clash /\ Registered /\ \A g \in Files \ {f} : pathTo[g] # c
      BY <1>5, <2>5, <2>6
    <3>2. \A g, h \in Files : g # h /\ pathTo'[g] # "none" => pathTo'[g] # pathTo'[h]
      BY <1>4, <2>4, <3>1 DEF Registered
    <3>3. ASSUME NEW s \in Slashes, registry'[s] # Reload!Missing
          PROVE  \E g \in Files : pathTo'[g] = s
      <4>1. CASE s = c
        BY <1>4, <2>4, <4>1
      <4>2. CASE s # c
        <5>1. s # pathTo[f] /\ registry[s] # Reload!Missing
          BY <2>3, <3>3, <4>2
        <5>2. PICK g \in Files : pathTo[g] = s
          BY <3>1, <5>1 DEF Registered
        <5> QED
          BY <2>4, <5>1, <5>2
      <4> QED
        BY <4>1, <4>2
    <3>4. ASSUME NEW g \in Files, pathTo'[g] # "none"
          PROVE  registry'[pathTo'[g]] # Reload!Missing
      <4>1. CASE g = f
        BY <2>2, <2>3, <2>4, <4>1
      <4>2. CASE g # f
        <5>1. pathTo'[g] = pathTo[g] /\ pathTo[g] \in Slashes \ {c, pathTo[f]}
          BY <1>3, <1>4, <2>4, <3>1, <3>4, <4>2 DEF Registered
        <5> QED
          BY <2>3, <3>1, <3>4, <5>1 DEF Registered
      <4> QED
        BY <4>1, <4>2
    <3> QED
      BY <3>2, <3>3, <3>4 DEF Registered
  <2>7. Synced(f)'
    BY <1>2, <2>1, <2>2, <2>3, <2>4 DEF Synced, Reload!Loads
  <2>8. ASSUME NEW g \in Files \ {f}, ~clash', Synced(g) PROVE Synced(g)'
    <3>1. /\ texts'[g] = texts[g] /\ pathTo'[g] = pathTo[g] /\ pathTo[g] # c
          /\ (pathTo[g] # "none" => pathTo[g] # pathTo[f])
      BY <1>2, <1>4, <1>5, <2>4, <2>5, <2>8 DEF Registered
    <3>2. ASSUME Reload!Loads(texts[g])
          PROVE  pathTo[g] = texts[g].slash /\ registry'[texts[g].slash] = texts[g]
      <4>1. /\ pathTo[g] = texts[g].slash /\ registry[texts[g].slash] = texts[g]
            /\ texts[g].slash \in Slashes /\ pathTo[g] # "none"
        BY <2>8, <3>2, ReloadConstants DEF Synced, Reload!Loads
      <4>2. texts[g].slash \in Slashes \ {c, pathTo[f]}
        BY <3>1, <4>1
      <4> QED
        BY <2>3, <4>1, <4>2
    <3>3. texts[g] = Reload!Missing => pathTo[g] = "none"
      BY <2>8 DEF Synced
    <3> QED
      BY <3>1, <3>2, <3>3 DEF Synced, Reload!Loads
  <2>9. \A g \in Files \ {f} : clash \/ Synced(g) => clash' \/ Synced(g)'
    BY <2>5, <2>8
  <2> QED
    BY <1>1, <1>2, <2>3, <2>4, <2>5, <2>6, <2>7, <2>9, AppliedStep
<1> QED
  BY <1>1, <1>6, <1>7 DEF Reload!ApplyUpdate, Reload!NoManifest

LEMMA ReloadHolds == LocalSpec => [](part = "reload" => ReloadInv)
<1> DEFINE I == part = "reload" => ReloadInv
<1>1. LocalInit => I
  BY ReloadInitInv DEF LocalInit
<1>2. I /\ [LocalNext]_<<part, vars, packVars, reloadVars, paletteVars>> => I'
  <2> SUFFICES ASSUME I, [LocalNext]_<<part, vars, packVars, reloadVars, paletteVars>>,
                      part' = "reload"
               PROVE  ReloadInv'
    OBVIOUS
  <2>1. CASE UNCHANGED reloadVars /\ part' = part
    <3>1. UNCHANGED <<texts, raw, pending, flying, events, shown, registry, pathTo,
                      blind, overtaken, clash>>
      BY <2>1 DEF reloadVars
    <3>2. ReloadInv /\ raw \in Seq(Heard)
      BY <2>1 DEF ReloadInv, ReloadShape
    <3>3. raw' = raw
      BY <3>1
    <3> QED
      BY <3>1, <3>2, <3>3, DirNoticed
  <2>2. CASE LocalNext
    <3>1. part' = part
      BY <2>2 DEF LocalNext
    <3>2. ReloadInv /\ part = "reload"
      BY <3>1
    <3>3. Reload!Next
      BY <2>2, <3>2 DEF LocalNext
    <3> QED
      BY <3>2, <3>3, UserFileStep, FireStep, DirStep, RemoveDirStep, HandleFileStep, EmitStep,
         ApplyRemoveStep, ApplyUpdateStep DEF Reload!Next
  <2> QED
    BY <2>1, <2>2
<1> QED
  BY <1>1, <1>2, PTL DEF LocalSpec

\* Once everything has settled, the palette shows every file as it is on disk
\* but those inotify did not watch, and the registry holds what they define
\* but for changes that were overtaken and files that had one slash at once:
\* coalescing, failed loads and vanished directories lose nothing
\* (watcher.go:185-210 and 371-401, debounce.go:86-101).
THEOREM ReadersSettle == LocalSpec => []ReadersCatchUp
<1>1. (part = "reload" => ReloadInv) => ReadersCatchUp
  <2> SUFFICES ASSUME ReloadInv
               PROVE  Reload!PaletteCatchesUp /\ Reload!RegistryCatchesUp
    BY DEF ReadersCatchUp
  <2>1. Reload!Quiet => /\ ~Waiting
                        /\ \A f \in Files : /\ ~About(raw, f) /\ pending[f] = "none"
                                            /\ ~About(flying, f) /\ ~About(events, f)
    <3>1. \A f : ~About(<<>>, f)
      BY DEF About
    <3> QED
      BY <3>1 DEF Reload!Quiet, Waiting
  <2>2. Reload!PaletteCatchesUp
    BY <2>1 DEF ReloadInv, ShownInv, Reload!PaletteCatchesUp
  <2>3. ASSUME Reload!Quiet, ~clash, NEW f \in Files \ (blind \cup overtaken) PROVE Synced(f)
    BY <2>1, <2>3 DEF ReloadInv, FileInv, OnItsWay
  <2>4. ~clash => Registered
    BY DEF ReloadInv
  <2>5. Reload!RegistryCatchesUp
    BY <2>3, <2>4 DEF Reload!RegistryCatchesUp, Registered, Synced, Reload!NoManifest
  <2> QED
    BY <2>2, <2>5
<1> QED
  BY <1>1, ReloadHolds, PTL

-----------------------------------------------------------------------------
\* A set of numbers that is not empty has a least one: what holds at 0 and at n + 1
\* whenever at n is proved by looking at the least number at which it fails.
LEMMA LeastNatural ==
  ASSUME NEW T \in SUBSET Nat, T # {}
  PROVE  \E x \in T : \A y \in T : x <= y
<1>1. \E x \in T : \A y \in T : <<y, x>> \notin OpToRel(<, Nat)
  BY NatLessThanWellFounded, WFMin
<1>2. PICK x \in T : \A y \in T : <<y, x>> \notin OpToRel(<, Nat)
  BY <1>1
<1>3. \A y \in T : ~(y < x)
  BY <1>2 DEF OpToRel
<1> QED
  BY <1>3

\* The rows that come of concatenating the first m of the lists ss: the k-th is
\* entry col[k] of list row[k], in the order of the lists, and none is left out.
Concat(ss, m, flat, row, col) ==
  /\ \A k \in 1..Len(flat) : /\ row[k] \in 1..m
                             /\ col[k] \in 1..Len(ss[row[k]])
                             /\ flat[k] = ss[row[k]][col[k]]
  /\ \A k, l \in 1..Len(flat) : k < l =>
       row[k] < row[l] \/ (row[k] = row[l] /\ col[k] < col[l])
  /\ \A i \in 1..m : \A j \in 1..Len(ss[i]) :
       \E k \in 1..Len(flat) : row[k] = i /\ col[k] = j

\* One entry of FlattenSeq's table, and the table.
FlatRow(ss, f, i) == IF i = 1 THEN ss[i] ELSE f[i-1] \o ss[i]
FlatTable(ss) == CHOOSE f : f = [i \in 1..Len(ss) |-> FlatRow(ss, f, i)]

\* FlattenSeq is the last entry of its table of partial concatenations,
LEMMA FlatIsTable ==
  ASSUME NEW ss, Len(ss) # 0
  PROVE  Palette!FlattenSeq(ss) = FlatTable(ss)[Len(ss)]
BY DEF Palette!FlattenSeq, FlatTable, FlatRow

\* which exists, up to any length,
LEMMA FlatTableExists ==
  ASSUME NEW ss, Len(ss) \in Nat
  PROVE  FlatTable(ss) = [i \in 1..Len(ss) |-> FlatRow(ss, FlatTable(ss), i)]
<1> DEFINE Good(g, n) == \A i \in 1..n : g[i] = FlatRow(ss, g, i)
           T == {n \in Nat : ~ \E g : Good(g, n)}
<1>1. T = {}
  <2> SUFFICES ASSUME T # {} PROVE FALSE
    OBVIOUS
  <2>1. PICK n \in T : \A m \in T : n <= m
    <3> HIDE DEF T
    <3>1. T \in SUBSET Nat
      BY DEF T
    <3> QED
      BY <3>1, LeastNatural
  <2>2. PICK g : n > 0 => Good(g, n - 1)
    <3>1. n \in Nat
      OBVIOUS
    <3>2. n > 0 => n - 1 \in Nat /\ ~(n <= n - 1)
      BY <3>1
    <3>3. n > 0 => n - 1 \notin T
      <4> HIDE DEF T
      <4> QED
        BY <2>1, <3>2
    <3> QED
      BY <3>2, <3>3
  <2>3. n \in Nat /\ n > 0
    <3>1. n = 0 => Good(g, n)
      OBVIOUS
    <3> QED
      BY <3>1
  <2>4. PICK h : h = [i \in 1..n |-> IF i = n THEN FlatRow(ss, g, n) ELSE g[i]]
    OBVIOUS
  <2>5. Good(h, n)
    <3> SUFFICES ASSUME NEW i \in 1..n
                 PROVE  h[i] = FlatRow(ss, h, i)
      OBVIOUS
    <3>1. i # 1 => i - 1 \in 1..n /\ i - 1 # n /\ h[i-1] = g[i-1]
      BY <2>3, <2>4
    <3>2. CASE i = n
      BY <2>4, <3>1, <3>2 DEF FlatRow
    <3>3. CASE i # n
      <4>1. i \in 1..n-1
        BY <2>3, <3>3
      <4>2. h[i] = g[i] /\ g[i] = FlatRow(ss, g, i)
        BY <2>2, <2>3, <2>4, <3>3, <4>1
      <4> QED
        BY <3>1, <4>2 DEF FlatRow
    <3> QED
      BY <3>2, <3>3
  <2> QED
    <3> HIDE DEF Good
    <3> QED
      BY <2>5
<1>2. PICK g : Good(g, Len(ss))
  BY <1>1
<1>3. PICK h : h = [i \in 1..Len(ss) |-> g[i]]
  OBVIOUS
<1>4. \A i \in 1..Len(ss) : h[i] = FlatRow(ss, h, i)
  BY <1>2, <1>3 DEF FlatRow
<1>5. h = [i \in 1..Len(ss) |-> FlatRow(ss, h, i)]
  BY <1>3, <1>4
<1> QED
  BY <1>5 DEF FlatTable

\* and whose m-th entry is the concatenation of the first m lists.
LEMMA Flattened ==
  ASSUME NEW T, NEW ss \in Seq(Seq(T))
  PROVE  /\ Palette!FlattenSeq(ss) \in Seq(T)
         /\ \E row, col : Concat(ss, Len(ss), Palette!FlattenSeq(ss), row, col)
<1> DEFINE t == FlatTable(ss)
           Good(n) == t[n] \in Seq(T) /\ \E row, col : Concat(ss, n, t[n], row, col)
           B == {n \in Nat : n \in 1..Len(ss) /\ ~Good(n)}
<1>0. Len(ss) \in Nat /\ \A i \in 1..Len(ss) : ss[i] \in Seq(T) /\ Len(ss[i]) \in Nat
  <2>1. Len(ss) \in Nat /\ \A i \in 1..Len(ss) : ss[i] \in Seq(T)
    OBVIOUS
  <2> QED
    BY <2>1
<1>1. CASE Len(ss) = 0
  <2>1. Palette!FlattenSeq(ss) = ss /\ ss = <<>>
    BY <1>1 DEF Palette!FlattenSeq
  <2> QED
    BY <2>1 DEF Concat
<1>2. ASSUME NEW i \in 1..Len(ss)
      PROVE  t[i] = IF i = 1 THEN ss[i] ELSE t[i-1] \o ss[i]
  <2>1. t = [j \in 1..Len(ss) |-> FlatRow(ss, t, j)]
    BY <1>0, FlatTableExists
  <2> HIDE DEF t
  <2>2. t[i] = FlatRow(ss, t, i)
    BY <2>1
  <2> QED
    BY <2>2 DEF FlatRow
<1> HIDE DEF t
<1>3. ASSUME Len(ss) # 0, 1 \in 1..Len(ss)
      PROVE  Good(1)
  <2>1. t[1] = ss[1] /\ ss[1] \in Seq(T) /\ Len(ss[1]) \in Nat
    BY <1>0, <1>2, <1>3
  <2>2. Concat(ss, 1, t[1], [k \in 1..Len(ss[1]) |-> 1], [k \in 1..Len(ss[1]) |-> k])
    BY <2>1 DEF Concat
  <2> QED
    BY <2>1, <2>2
<1>4. ASSUME NEW n \in Nat, n # 1, n \in 1..Len(ss), Good(n - 1)
      PROVE  Good(n)
  <2>1. n - 1 \in 1..Len(ss) /\ n - 1 \in Nat /\ n - 1 >= 1 /\ n > n - 1
    BY <1>0, <1>4
  <2>2. t[n] = t[n-1] \o ss[n] /\ t[n-1] \in Seq(T) /\ ss[n] \in Seq(T)
    BY <1>0, <1>2, <1>4
  <2>3. PICK a, b : a = t[n-1] /\ b = ss[n]
    OBVIOUS
  <2>4. a \in Seq(T) /\ b \in Seq(T) /\ t[n] = a \o b
    BY <2>2, <2>3
  <2>5. PICK la \in Nat, lb \in Nat : la = Len(a) /\ lb = Len(b)
    BY <2>4
  <2>6. a \o b \in Seq(T) /\ Len(a \o b) = la + lb
        /\ (\A k \in 1..la : (a \o b)[k] = a[k])
        /\ \A k \in la+1..la+lb : (a \o b)[k] = b[k - la]
    BY <2>4, <2>5
  <2>7. PICK row, col : Concat(ss, n - 1, a, row, col)
    BY <1>4, <2>3
  <2>8. PICK r, c : /\ r = [k \in 1..la+lb |-> IF k <= la THEN row[k] ELSE n]
                    /\ c = [k \in 1..la+lb |-> IF k <= la THEN col[k] ELSE k - la]
    OBVIOUS
  <2>9. /\ \A k \in 1..la : r[k] = row[k] /\ c[k] = col[k] /\ row[k] \in 1..n-1
        /\ \A k \in la+1..la+lb : r[k] = n /\ c[k] = k - la
    BY <2>5, <2>7, <2>8 DEF Concat
  <2>10. \A k \in 1..la+lb : k \in 1..la \/ k \in la+1..la+lb
    OBVIOUS
  <2>11. ASSUME NEW k \in 1..la+lb
         PROVE  r[k] \in 1..n /\ c[k] \in 1..Len(ss[r[k]]) /\ (a \o b)[k] = ss[r[k]][c[k]]
    <3>1. CASE k \in 1..la
      <4>1. r[k] = row[k] /\ c[k] = col[k] /\ (a \o b)[k] = a[k] /\ k \in 1..Len(a)
        BY <2>5, <2>6, <2>9, <3>1
      <4>2. row[k] \in 1..n-1 /\ col[k] \in 1..Len(ss[row[k]]) /\ a[k] = ss[row[k]][col[k]]
        BY <2>7, <4>1 DEF Concat
      <4>3. row[k] \in 1..n
        BY <4>2
      <4> QED
        BY <4>1, <4>2, <4>3
    <3>2. CASE k \in la+1..la+lb
      <4>1. k - la \in 1..lb /\ n \in 1..n
        BY <1>4, <3>2
      <4> QED
        BY <2>3, <2>5, <2>6, <2>9, <3>2, <4>1
    <3> QED
      BY <2>10, <3>1, <3>2
  <2>12. ASSUME NEW k \in 1..la+lb, NEW l \in 1..la+lb, k < l
         PROVE  r[k] < r[l] \/ (r[k] = r[l] /\ c[k] < c[l])
    <3>1. CASE l \in 1..la
      <4>1. k \in 1..la
        BY <2>12, <3>1
      <4> QED
        BY <2>5, <2>7, <2>9, <2>12, <3>1, <4>1 DEF Concat
    <3>2. CASE l \in la+1..la+lb /\ k \in 1..la
      <4>1. r[k] \in 1..n-1 /\ r[l] = n
        BY <2>9, <3>2
      <4> QED
        BY <4>1
    <3>3. CASE l \in la+1..la+lb /\ k \in la+1..la+lb
      <4>1. r[k] = n /\ r[l] = n /\ c[k] = k - la /\ c[l] = l - la
        BY <2>9, <3>3
      <4> QED
        BY <2>12, <4>1
    <3> QED
      BY <2>10, <3>1, <3>2, <3>3
  <2>13. ASSUME NEW i \in 1..n, NEW j \in 1..Len(ss[i])
         PROVE  \E k \in 1..la+lb : r[k] = i /\ c[k] = j
    <3>1. CASE i \in 1..n-1
      <4>1. PICK k \in 1..la : row[k] = i /\ col[k] = j
        BY <2>5, <2>7, <3>1 DEF Concat
      <4>2. k \in 1..la+lb
        OBVIOUS
      <4> QED
        BY <2>9, <4>1, <4>2
    <3>2. CASE i = n
      <4>1. j \in 1..lb
        BY <2>3, <2>5, <3>2
      <4>2. j + la \in la+1..la+lb /\ j + la \in 1..la+lb /\ (j + la) - la = j
        BY <4>1
      <4>3. r[j + la] = n /\ c[j + la] = j
        BY <2>9, <4>2
      <4> QED
        BY <3>2, <4>2, <4>3
    <3>3. i \in 1..n-1 \/ i = n
      BY <1>4
    <3> QED
      BY <3>1, <3>2, <3>3
  <2>14. Concat(ss, n, a \o b, r, c)
    <3>1. 1..Len(a \o b) = 1..la+lb
      BY <2>6
    <3> QED
      BY <2>11, <2>12, <2>13, <3>1 DEF Concat
  <2> QED
    BY <2>4, <2>6, <2>14
<1>5. B = {}
  <2> SUFFICES ASSUME B # {} PROVE FALSE
    OBVIOUS
  <2>1. PICK n \in B : \A m \in B : n <= m
    <3> HIDE DEF B
    <3>1. B \in SUBSET Nat
      BY DEF B
    <3> QED
      BY <3>1, LeastNatural
  <2>2. n \in Nat /\ n \in 1..Len(ss) /\ ~Good(n)
    BY DEF B
  <2> HIDE DEF Good
  <2>3. n # 1
    BY <1>0, <1>3, <2>2
  <2>4. n - 1 \in Nat /\ n - 1 \in 1..Len(ss) /\ ~(n <= n - 1)
    BY <1>0, <2>2, <2>3
  <2>5. n - 1 \notin B
    <3> HIDE DEF B
    <3> QED
      BY <2>1, <2>4
  <2>6. Good(n - 1)
    BY <2>4, <2>5
  <2> QED
    BY <1>4, <2>2, <2>3, <2>6
<1>6. CASE Len(ss) # 0
  <2>1. Len(ss) \in 1..Len(ss) /\ Len(ss) \in Nat
    BY <1>0, <1>6
  <2>2. Good(Len(ss))
    <3> HIDE DEF Good
    <3> QED
      BY <1>5, <2>1
  <2>3. Palette!FlattenSeq(ss) = t[Len(ss)]
    BY <1>6, FlatIsTable DEF t
  <2> QED
    BY <2>2, <2>3
<1> QED
  BY <1>1, <1>6

\* The list s has every member of S once and nothing else.
Lists(s, S) ==
  /\ \A k \in 1..Len(s) : s[k] \in S
  /\ \A x \in S : \E k \in 1..Len(s) : s[k] = x
  /\ \A k, l \in 1..Len(s) : s[k] = s[l] => k = l

\* What is left of the list x, whose i-th member is kept if ss[i] is not empty.
Remains(ss, x, f, row) ==
  /\ \A k \in 1..Len(f) : row[k] \in 1..Len(ss) /\ ss[row[k]] # <<>> /\ f[k] = x[row[k]]
  /\ \A k, l \in 1..Len(f) : k < l => row[k] < row[l]
  /\ \A i \in 1..Len(ss) : ss[i] # <<>> => \E k \in 1..Len(f) : row[k] = i

\* Filtering: what is left is in the order of the list.
LEMMA Filtered ==
  ASSUME NEW T, NEW ss \in Seq(Seq(T)), NEW x,
         \A i \in 1..Len(ss) : ss[i] = <<>> \/ ss[i] = <<x[i]>>
  PROVE  /\ Palette!FlattenSeq(ss) \in Seq(T) /\ Len(Palette!FlattenSeq(ss)) \in Nat
         /\ \E row : Remains(ss, x, Palette!FlattenSeq(ss), row)
<1>1. PICK f : f = Palette!FlattenSeq(ss)
  OBVIOUS
<1>2. f \in Seq(T) /\ Len(f) \in Nat
  <2>1. f \in Seq(T)
    BY <1>1, Flattened
  <2> QED
    BY <2>1
<1>3. PICK row, col : Concat(ss, Len(ss), f, row, col)
  BY <1>1, Flattened
<1>4. ASSUME NEW i \in 1..Len(ss), NEW j \in 1..Len(ss[i])
      PROVE  ss[i] = <<x[i]>> /\ j = 1 /\ ss[i] # <<>> /\ ss[i][j] = x[i]
  <2>1. CASE ss[i] = <<>>
    BY <2>1
  <2>2. CASE ss[i] = <<x[i]>>
    BY <2>2
  <2> QED
    BY <2>1, <2>2
<1>5. ASSUME NEW i \in 1..Len(ss), ss[i] # <<>>
      PROVE  1 \in 1..Len(ss[i])
  <2>1. ss[i] = <<x[i]>>
    BY <1>5
  <2> QED
    BY <2>1
<1>6. \A k \in 1..Len(f) : /\ row[k] \in 1..Len(ss) /\ col[k] \in 1..Len(ss[row[k]])
                           /\ f[k] = ss[row[k]][col[k]]
  BY <1>3 DEF Concat
<1>7. \A k \in 1..Len(f) : f[k] = x[row[k]] /\ col[k] = 1 /\ ss[row[k]] # <<>>
  BY <1>4, <1>6
<1>8. \A k, l \in 1..Len(f) : k < l => row[k] < row[l]
  <2> SUFFICES ASSUME NEW k \in 1..Len(f), NEW l \in 1..Len(f), k < l
               PROVE  row[k] < row[l]
    OBVIOUS
  <2>1. row[k] < row[l] \/ col[k] < col[l]
    BY <1>3 DEF Concat
  <2>2. col[k] = 1 /\ col[l] = 1
    BY <1>7
  <2> QED
    BY <2>1, <2>2
<1>9. \A i \in 1..Len(ss) : ss[i] # <<>> => \E k \in 1..Len(f) : row[k] = i
  BY <1>3, <1>5 DEF Concat
<1>10. Remains(ss, x, f, row)
  BY <1>6, <1>7, <1>8, <1>9 DEF Remains
<1> QED
  BY <1>1, <1>2, <1>10

\* A subset of a list of distinct things, in the list's order.
LEMMA FilteredLists ==
  ASSUME NEW T, NEW ss \in Seq(Seq(T)), NEW x, NEW S,
         \A i \in 1..Len(ss) : ss[i] = <<>> \/ ss[i] = <<x[i]>>,
         \A i \in 1..Len(ss) : ss[i] # <<>> => x[i] \in S,
         \A y \in S : \E i \in 1..Len(ss) : ss[i] # <<>> /\ x[i] = y,
         \A i, j \in 1..Len(ss) : ss[i] # <<>> /\ ss[j] # <<>> /\ x[i] = x[j] => i = j
  PROVE  Palette!FlattenSeq(ss) \in Seq(T) /\ Lists(Palette!FlattenSeq(ss), S)
<1>0. PICK f : f = Palette!FlattenSeq(ss)
  OBVIOUS
<1>1. f \in Seq(T) /\ Len(f) \in Nat
  BY <1>0, Filtered
<1>2. PICK row : Remains(ss, x, f, row)
  BY <1>0, Filtered
<1>3. \A k \in 1..Len(f) : f[k] \in S
  BY <1>2 DEF Remains
<1>4. ASSUME NEW y \in S PROVE \E k \in 1..Len(f) : f[k] = y
  <2>1. PICK i \in 1..Len(ss) : ss[i] # <<>> /\ x[i] = y
    OBVIOUS
  <2>2. PICK k \in 1..Len(f) : row[k] = i
    BY <1>2, <2>1 DEF Remains
  <2> QED
    BY <1>2, <2>1, <2>2 DEF Remains
<1>5. ASSUME NEW k \in 1..Len(f), NEW l \in 1..Len(f), f[k] = f[l]
      PROVE  k = l
  <2>0. /\ row[k] \in 1..Len(ss) /\ ss[row[k]] # <<>> /\ f[k] = x[row[k]]
        /\ row[l] \in 1..Len(ss) /\ ss[row[l]] # <<>> /\ f[l] = x[row[l]]
    BY <1>2 DEF Remains
  <2>1. row[k] = row[l] /\ row[k] \in 1..Len(ss)
    BY <1>5, <2>0
  <2>2. row[k] \in Int
    BY <2>1
  <2>3. ~(k < l) /\ ~(l < k)
    BY <1>2, <2>1, <2>2 DEF Remains
  <2> QED
    BY <1>1, <2>3
<1> QED
  BY <1>1, <1>0, <1>3, <1>4, <1>5 DEF Lists

\* Lists of disjoint sets, one after the other.
LEMMA FlattenedLists ==
  ASSUME NEW T, NEW ss \in Seq(Seq(T)), NEW F, NEW S,
         \A i \in 1..Len(ss) : Lists(ss[i], F[i]),
         \A i, j \in 1..Len(ss) : \A y : y \in F[i] /\ y \in F[j] => i = j,
         \A i \in 1..Len(ss) : \A y \in F[i] : y \in S,
         \A y \in S : \E i \in 1..Len(ss) : y \in F[i]
  PROVE  /\ Palette!FlattenSeq(ss) \in Seq(T) /\ Len(Palette!FlattenSeq(ss)) \in Nat
         /\ Lists(Palette!FlattenSeq(ss), S)
<1> DEFINE f == Palette!FlattenSeq(ss)
<1>1. f \in Seq(T)
  BY Flattened
<1>2. PICK row, col : Concat(ss, Len(ss), f, row, col)
  BY Flattened
<1>3. Len(f) \in Nat
  BY <1>1
<1> HIDE DEF f
<1>4. \A k \in 1..Len(f) : /\ row[k] \in 1..Len(ss) /\ col[k] \in 1..Len(ss[row[k]])
                           /\ f[k] = ss[row[k]][col[k]]
  BY <1>2 DEF Concat
<1>5. \A k \in 1..Len(f) : f[k] \in F[row[k]]
  BY <1>4 DEF Lists
<1>6. \A k \in 1..Len(f) : f[k] \in S
  BY <1>4, <1>5
<1>7. ASSUME NEW y \in S
      PROVE  \E k \in 1..Len(f) : f[k] = y
  <2>1. PICK i \in 1..Len(ss) : y \in F[i]
    OBVIOUS
  <2>2. PICK j \in 1..Len(ss[i]) : ss[i][j] = y
    BY <2>1 DEF Lists
  <2>3. PICK k \in 1..Len(f) : row[k] = i /\ col[k] = j
    BY <1>2 DEF Concat
  <2> QED
    BY <1>4, <2>2, <2>3
<1>8. ASSUME NEW k \in 1..Len(f), NEW l \in 1..Len(f), f[k] = f[l]
      PROVE  k = l
  <2>1. row[k] = row[l]
    BY <1>4, <1>5, <1>8
  <2>2. col[k] = col[l]
    <3>1. PICK i : i = row[k] /\ i = row[l]
      BY <2>1
    <3>2. i \in 1..Len(ss) /\ col[k] \in 1..Len(ss[i]) /\ col[l] \in 1..Len(ss[i])
      BY <1>4, <3>1
    <3>3. ss[i][col[k]] = ss[i][col[l]]
      BY <1>4, <1>8, <3>1
    <3>4. Lists(ss[i], F[i])
      BY <3>2
    <3> HIDE DEF Lists
    <3> QED
      BY <3>2, <3>3, <3>4 DEF Lists
  <2>3. row[k] \in Int /\ col[k] \in Int
    BY <1>4
  <2>4. ~(k < l) /\ ~(l < k)
    <3>1. k < l => row[k] < row[l] \/ col[k] < col[l]
      BY <1>2 DEF Concat
    <3>2. l < k => row[l] < row[k] \/ col[l] < col[k]
      BY <1>2 DEF Concat
    <3> QED
      BY <2>1, <2>2, <2>3, <3>1, <3>2
  <2> QED
    BY <1>3, <2>4
<1>9. Lists(f, S)
  BY <1>6, <1>7, <1>8 DEF Lists
<1> QED
  BY <1>1, <1>3, <1>9 DEF f

\* Two lists of disjoint sets.
LEMMA ConcatLists ==
  ASSUME NEW T, NEW s \in Seq(T), NEW t \in Seq(T), NEW A, NEW B, NEW S,
         Lists(s, A), Lists(t, B), \A y \in A : y \notin B,
         \A y : y \in S <=> y \in A \/ y \in B
  PROVE  s \o t \in Seq(T) /\ Lists(s \o t, S)
<1>1. PICK n \in Nat, m \in Nat : n = Len(s) /\ m = Len(t)
  OBVIOUS
<1>2. PICK u : u = s \o t
  OBVIOUS
<1>3. /\ u \in Seq(T) /\ Len(u) = n + m
      /\ \A k \in 1..n : u[k] = s[k]
      /\ \A k \in n+1..n+m : u[k] = t[k - n]
  BY <1>1, <1>2
<1>4. \A k \in 1..n : k \in 1..n+m
  OBVIOUS
<1>5. \A k \in 1..m : k + n \in 1..n+m /\ k + n \in n+1..n+m /\ (k + n) - n = k
  OBVIOUS
<1>6. \A k \in 1..n+m : k \in 1..n \/ (k \in n+1..n+m /\ k - n \in 1..m)
  OBVIOUS
<1>7. \A k \in 1..n : u[k] \in A
  BY <1>1, <1>3 DEF Lists
<1>8. \A k \in n+1..n+m : k - n \in 1..m
  OBVIOUS
<1>9. ASSUME NEW k \in n+1..n+m PROVE u[k] \in B
  <2>1. k - n \in 1..Len(t) /\ u[k] = t[k - n]
    BY <1>1, <1>3, <1>8
  <2> QED
    BY <2>1 DEF Lists
<1>10. \A k \in 1..n+m : u[k] \in S
  BY <1>6, <1>7, <1>9
<1>11. ASSUME NEW y \in S PROVE \E k \in 1..n+m : u[k] = y
  <2>1. CASE y \in A
    <3>1. PICK k \in 1..n : s[k] = y
      BY <1>1, <2>1 DEF Lists
    <3> QED
      BY <1>3, <1>4, <3>1
  <2>2. CASE y \in B
    <3>1. PICK k \in 1..m : t[k] = y
      BY <1>1, <2>2 DEF Lists
    <3>2. u[k + n] = t[k] /\ k + n \in 1..n+m
      BY <1>3, <1>5
    <3> QED
      BY <3>1, <3>2
  <2> QED
    BY <2>1, <2>2
<1>12. ASSUME NEW k \in 1..n+m, NEW l \in 1..n+m, u[k] = u[l]
       PROVE  k = l
  <2>1. CASE k \in 1..n /\ l \in 1..n
    BY <1>1, <1>3, <1>12, <2>1 DEF Lists
  <2>2. CASE k \in n+1..n+m /\ l \in n+1..n+m
    <3>1. k - n \in 1..m /\ l - n \in 1..m /\ t[k - n] = t[l - n]
      BY <1>3, <1>8, <1>12, <2>2
    <3>2. k - n = l - n
      BY <1>1, <3>1 DEF Lists
    <3> QED
      BY <3>2
  <2> QED
    BY <1>6, <1>7, <1>9, <1>12, <2>1, <2>2
<1>13. Lists(u, S)
  BY <1>3, <1>10, <1>11, <1>12 DEF Lists
<1> QED
  BY <1>2, <1>3, <1>13

\* Scopes, the names packs may give themselves, packs as they load, and places.
ScopeNames == Palette!PackNames \cup {Palette!UserScopeName}
Names == DOMAIN Rank \cup {Palette!UserScopeName}
ScopePacks == [name : Names, dir : ScopeNames, slashes : Seq(SlashNames \cup {Palette!Blank})]
Slots == ScopeNames \X Nat

\* Where a pack, or a list of packs, defines the slash command s; those of one
\* name, and those of the packs that are not the user's.
PlacesIn(p, s) ==
  {q \in Slots : q[1] = p.dir /\ q[2] \in 1..Len(p.slashes) /\ p.slashes[q[2]] = s}
Places(packs, s) == {q \in Slots : \E i \in 1..Len(packs) : q \in PlacesIn(packs[i], s)}
PlacesOf(packs, name, s) ==
  {q \in Slots : \E i \in 1..Len(packs) : packs[i].name = name /\ q \in PlacesIn(packs[i], s)}
OthersOf(packs, s) ==
  {q \in Slots : \E i \in 1..Len(packs) : /\ packs[i].name # Palette!UserScopeName
                                         /\ q \in PlacesIn(packs[i], s)}

\* Packs of different directories, whatever their names; and of their own names.
Listed(packs) ==
  /\ packs \in Seq(ScopePacks)
  /\ \A i, j \in 1..Len(packs) : packs[i].dir = packs[j].dir => i = j
Truthful(packs) == \A i \in 1..Len(packs) : packs[i].name = packs[i].dir

\* What the provers are told of sequences.
LEMMA ListOf ==
  ASSUME NEW A, NEW n \in Nat, NEW f, f = [i \in 1..n |-> f[i]], \A i \in 1..n : f[i] \in A
  PROVE  f \in Seq(A) /\ Len(f) = n
OBVIOUS

LEMMA LenNat == ASSUME NEW A, NEW q \in Seq(A) PROVE Len(q) \in Nat
OBVIOUS

LEMMA PairIn == ASSUME NEW A, NEW B, NEW a \in A, NEW b \in B PROVE <<a, b>> \in A \X B
OBVIOUS

\* Each list is empty or has one member of S, its own; the lists divide S.
Selects(ss, x, S) ==
  /\ \A i \in 1..Len(ss) : ss[i] = <<>> \/ ss[i] = <<x[i]>>
  /\ \A i \in 1..Len(ss) : ss[i] # <<>> => x[i] \in S
  /\ \A y \in S : \E i \in 1..Len(ss) : ss[i] # <<>> /\ x[i] = y
  /\ \A i, j \in 1..Len(ss) : ss[i] # <<>> /\ ss[j] # <<>> /\ x[i] = x[j] => i = j
Divides(ss, F, S) ==
  /\ \A i \in 1..Len(ss) : Lists(ss[i], F[i])
  /\ \A i, j \in 1..Len(ss) : \A y : y \in F[i] /\ y \in F[j] => i = j
  /\ \A i \in 1..Len(ss) : \A y \in F[i] : y \in S
  /\ \A y \in S : \E i \in 1..Len(ss) : y \in F[i]

\* The two lemmas above, in the form the palette needs them.
LEMMA Selected ==
  ASSUME NEW T, NEW ss \in Seq(Seq(T)), NEW x, NEW S, Selects(ss, x, S)
  PROVE  Palette!FlattenSeq(ss) \in Seq(T) /\ Lists(Palette!FlattenSeq(ss), S)
BY FilteredLists DEF Selects

LEMMA Divided ==
  ASSUME NEW T, NEW ss \in Seq(Seq(T)), NEW F, NEW S, Divides(ss, F, S)
  PROVE  /\ Palette!FlattenSeq(ss) \in Seq(T) /\ Len(Palette!FlattenSeq(ss)) \in Nat
         /\ Lists(Palette!FlattenSeq(ss), S)
BY FlattenedLists DEF Divides

LEMMA EmptyList == ASSUME NEW A PROVE <<>> \in Seq(A) /\ Lists(<<>>, {})
BY DEF Lists

\* A pack's matches are the places where it defines the command.
LEMMA MatchesLists ==
  ASSUME NEW p \in ScopePacks, NEW s
  PROVE  Palette!Matches(p, s) \in Seq(Slots) /\ Lists(Palette!Matches(p, s), PlacesIn(p, s))
<1>1. p.dir \in ScopeNames /\ p.slashes \in Seq(SlashNames \cup {Palette!Blank})
  BY DEF ScopePacks
<1>2. PICK n \in Nat : n = Len(p.slashes)
  <2>1. PICK q : q = p.slashes /\ q \in Seq(SlashNames \cup {Palette!Blank})
    BY <1>1
  <2>2. Len(q) \in Nat
    BY <2>1, LenNat
  <2> QED
    BY <2>1, <2>2
<1>3. PICK ss, x : /\ ss = [j \in 1..n |-> Palette!OnlyIf(p.slashes[j] = s, <<p.dir, j>>)]
                   /\ x = [j \in 1..n |-> <<p.dir, j>>]
  OBVIOUS
<1>4. ASSUME NEW j \in 1..n PROVE x[j] = <<p.dir, j>> /\ x[j] \in Slots
  <2>1. x[j] = <<p.dir, j>> /\ j \in Nat
    BY <1>3
  <2>2. <<p.dir, j>> \in ScopeNames \X Nat
    <3> HIDE DEF Slots
    <3> QED
      BY <1>1, <2>1
  <2> QED
    BY <2>1, <2>2 DEF Slots
<1>5. \A j \in 1..n : IF p.slashes[j] = s THEN ss[j] = <<x[j]>> /\ ss[j] # <<>> ELSE ss[j] = <<>>
  BY <1>3, <1>4 DEF Palette!OnlyIf
<1>6. ASSUME NEW j \in 1..n PROVE ss[j] \in Seq(Slots)
  <2>1. <<x[j]>> \in Seq(Slots) /\ <<>> \in Seq(Slots)
    BY <1>4
  <2> QED
    BY <1>5, <2>1
<1>7. ss \in Seq(Seq(Slots)) /\ Len(ss) = n
  <2>1. ss = [j \in 1..n |-> ss[j]]
    BY <1>3
  <2> DEFINE Q == Seq(Slots)
  <2> HIDE DEF Q
  <2>2. \A j \in 1..n : ss[j] \in Q
    BY <1>6 DEF Q
  <2>3. ss \in Seq(Q) /\ Len(ss) = n
    BY <2>1, <2>2, ListOf
  <2> QED
    BY <2>3 DEF Q
<1>8. \A j \in 1..n : x[j][1] = p.dir /\ x[j][2] = j
  BY <1>4
<1>9. \A j \in 1..n : ss[j] # <<>> => x[j] \in PlacesIn(p, s)
  BY <1>2, <1>4, <1>5, <1>8 DEF PlacesIn
<1>10. ASSUME NEW y \in PlacesIn(p, s)
       PROVE  \E j \in 1..n : ss[j] # <<>> /\ x[j] = y
  <2>1. y \in Slots /\ y[1] = p.dir /\ y[2] \in 1..n /\ p.slashes[y[2]] = s
    BY <1>2 DEF PlacesIn
  <2>2. y = <<y[1], y[2]>>
    BY <2>1 DEF Slots
  <2> QED
    BY <1>4, <1>5, <2>1, <2>2
<1>11. \A i, j \in 1..n : x[i] = x[j] => i = j
  BY <1>8
<1>12. Palette!FlattenSeq(ss) \in Seq(Slots) /\ Lists(Palette!FlattenSeq(ss), PlacesIn(p, s))
  <2>2. \A j \in 1..n : ss[j] = <<>> \/ ss[j] = <<x[j]>>
    BY <1>5
  <2>3. \A y \in PlacesIn(p, s) : \E j \in 1..n : ss[j] # <<>> /\ x[j] = y
    BY <1>10
  <2>4. \A i, j \in 1..n : ss[i] # <<>> /\ ss[j] # <<>> /\ x[i] = x[j] => i = j
    BY <1>11
  <2>5. Selects(ss, x, PlacesIn(p, s))
    BY <1>7, <1>9, <2>2, <2>3, <2>4 DEF Selects
  <2> QED
    BY <1>7, <2>5, Selected
<1>13. Palette!Matches(p, s) = Palette!FlattenSeq(ss)
  BY <1>2, <1>3 DEF Palette!Matches
<1> QED
  BY <1>12, <1>13

\* No place is in two packs.
LEMMA OneName ==
  ASSUME NEW packs, Listed(packs), NEW s,
         NEW i \in 1..Len(packs), NEW j \in 1..Len(packs), NEW y,
         y \in PlacesIn(packs[i], s), y \in PlacesIn(packs[j], s)
  PROVE  i = j
BY DEF Listed, PlacesIn

LEMMA ListedType ==
  ASSUME NEW packs, Listed(packs)
  PROVE  Len(packs) \in Nat /\ \A i \in 1..Len(packs) : packs[i] \in ScopePacks
<1>1. packs \in Seq(ScopePacks)
  BY DEF Listed
<1> QED
  BY <1>1

\* Concatenating what some of the packs define.
LEMMA SomePacks ==
  ASSUME NEW packs, Listed(packs), NEW s, NEW ss, NEW S, NEW P,
         ss = [i \in 1..Len(packs) |-> IF i \in P THEN Palette!Matches(packs[i], s) ELSE <<>>],
         \A q : q \in S <=> \E i \in 1..Len(packs) : i \in P /\ q \in PlacesIn(packs[i], s)
  PROVE  /\ ss \in Seq(Seq(Slots)) /\ Len(ss) = Len(packs)
         /\ Palette!FlattenSeq(ss) \in Seq(Slots) /\ Len(Palette!FlattenSeq(ss)) \in Nat
         /\ Lists(Palette!FlattenSeq(ss), S)
<1>1. PICK n \in Nat : n = Len(packs)
  BY ListedType
<1>2. \A i \in 1..n : packs[i] \in ScopePacks
  BY <1>1, ListedType
<1>3. PICK F : F = [i \in 1..n |-> IF i \in P THEN PlacesIn(packs[i], s) ELSE {}]
  OBVIOUS
<1>4. ASSUME NEW i \in 1..n PROVE ss[i] \in Seq(Slots) /\ Lists(ss[i], F[i])
  <2>1. CASE i \in P
    <3>1. ss[i] = Palette!Matches(packs[i], s) /\ F[i] = PlacesIn(packs[i], s)
      BY <1>1, <1>3, <2>1
    <3> QED
      BY <1>2, <3>1, MatchesLists
  <2>2. CASE i \notin P
    <3>1. ss[i] = <<>> /\ F[i] = {}
      BY <1>1, <1>3, <2>2
    <3> QED
      BY <3>1, EmptyList
  <2> QED
    BY <2>1, <2>2
<1>5. ss \in Seq(Seq(Slots)) /\ Len(ss) = n
  <2>1. ss = [i \in 1..n |-> ss[i]]
    BY <1>1
  <2> DEFINE Q == Seq(Slots)
  <2> HIDE DEF Q
  <2>2. \A i \in 1..n : ss[i] \in Q
    BY <1>4 DEF Q
  <2>3. ss \in Seq(Q) /\ Len(ss) = n
    BY <2>1, <2>2, ListOf
  <2> QED
    BY <2>3 DEF Q
<1>6. \A i \in 1..n : \A y : y \in F[i] => i \in P /\ y \in PlacesIn(packs[i], s)
  BY <1>3
<1>7. \A i, j \in 1..n : \A y : y \in F[i] /\ y \in F[j] => i = j
  BY <1>1, <1>6, OneName
<1>8. \A i \in 1..n : \A y \in F[i] : y \in S
  BY <1>1, <1>6
<1>9. \A y \in S : \E i \in 1..n : y \in F[i]
  BY <1>1, <1>3
<1>10. /\ Palette!FlattenSeq(ss) \in Seq(Slots) /\ Len(Palette!FlattenSeq(ss)) \in Nat
       /\ Lists(Palette!FlattenSeq(ss), S)
  <2>1. Divides(ss, F, S)
    BY <1>4, <1>5, <1>7, <1>8, <1>9 DEF Divides
  <2> QED
    BY <1>5, <2>1, Divided
<1> QED
  BY <1>1, <1>5, <1>10

\* What the packs of one name define.
LEMMA OfLists ==
  ASSUME NEW packs, Listed(packs), NEW s, NEW name
  PROVE  /\ Palette!Of(name, packs, s) \in Seq(Slots) /\ Len(Palette!Of(name, packs, s)) \in Nat
         /\ Lists(Palette!Of(name, packs, s), PlacesOf(packs, name, s))
<1>1. PICK P : P = {i \in 1..Len(packs) : packs[i].name = name}
  OBVIOUS
<1>2. PICK ss : ss = [i \in 1..Len(packs) |->
                     IF packs[i].name = name THEN Palette!Matches(packs[i], s) ELSE <<>>]
  OBVIOUS
<1>3. ss = [i \in 1..Len(packs) |-> IF i \in P THEN Palette!Matches(packs[i], s) ELSE <<>>]
  BY <1>1, <1>2
<1>4. \A q : q \in PlacesOf(packs, name, s) <=>
        \E i \in 1..Len(packs) : i \in P /\ q \in PlacesIn(packs[i], s)
  BY <1>1 DEF PlacesOf, PlacesIn
<1>5. Palette!Of(name, packs, s) = Palette!FlattenSeq(ss)
  BY <1>2 DEF Palette!Of
<1>6. PICK S : S = PlacesOf(packs, name, s)
  OBVIOUS
<1>7. \A q : q \in S <=> \E i \in 1..Len(packs) : i \in P /\ q \in PlacesIn(packs[i], s)
  BY <1>4, <1>6
<1>8. /\ Palette!FlattenSeq(ss) \in Seq(Slots) /\ Len(Palette!FlattenSeq(ss)) \in Nat
      /\ Lists(Palette!FlattenSeq(ss), S)
  BY <1>3, <1>7, SomePacks
<1> QED
  BY <1>5, <1>6, <1>8

\* When packs have their own names, the name is in the place.
LEMMA TruePlaces ==
  ASSUME NEW packs, Truthful(packs), NEW s, NEW name, NEW q
  PROVE  q \in PlacesOf(packs, name, s) <=> q \in Places(packs, s) /\ q[1] = name
BY DEF Truthful, Places, PlacesOf, PlacesIn

\* A place is the user's or another's, and not both.
LEMMA UsersOrOthers ==
  ASSUME NEW packs, Listed(packs), NEW s, NEW q
  PROVE  /\ q \in Places(packs, s) <=>
              q \in PlacesOf(packs, Palette!UserScopeName, s) \/ q \in OthersOf(packs, s)
         /\ ~(q \in PlacesOf(packs, Palette!UserScopeName, s) /\ q \in OthersOf(packs, s))
<1>1. q \in Places(packs, s) <=>
        q \in PlacesOf(packs, Palette!UserScopeName, s) \/ q \in OthersOf(packs, s)
  BY DEF Places, PlacesOf, OthersOf
<1>2. ASSUME q \in PlacesOf(packs, Palette!UserScopeName, s), q \in OthersOf(packs, s)
      PROVE  FALSE
  <2>1. PICK i \in 1..Len(packs) :
          packs[i].name = Palette!UserScopeName /\ q \in PlacesIn(packs[i], s)
    BY <1>2 DEF PlacesOf
  <2>2. PICK j \in 1..Len(packs) :
          packs[j].name # Palette!UserScopeName /\ q \in PlacesIn(packs[j], s)
    BY <1>2 DEF OthersOf
  <2>3. i = j
    BY <2>1, <2>2, OneName
  <2> QED
    BY <2>1, <2>2, <2>3
<1> QED
  BY <1>1, <1>2

\* Every name but the user's has one source.
LEMMA OneSource ==
  ASSUME NEW packs, Listed(packs)
  PROVE  /\ \A i \in 1..Len(packs) : packs[i].name # Palette!UserScopeName =>
              \E k \in 1..Len(packs) : Palette!IsSource(packs, k) /\ packs[k].name = packs[i].name
         /\ \A i, j \in 1..Len(packs) :
              /\ Palette!IsSource(packs, i) /\ Palette!IsSource(packs, j)
              /\ packs[i].name = packs[j].name
              => i = j
<1>1. PICK n \in Nat : n = Len(packs)
  BY ListedType
<1>2. \A i \in 1..n : Palette!IsSource(packs, i) <=>
        /\ packs[i].name # Palette!UserScopeName
        /\ \A j \in 1..i - 1 : packs[j].name # packs[i].name
  BY DEF Palette!IsSource
<1>3. ASSUME NEW i \in 1..n, packs[i].name # Palette!UserScopeName
      PROVE  \E k \in 1..n : Palette!IsSource(packs, k) /\ packs[k].name = packs[i].name
  <2>1. PICK K : K = {k \in 1..n : packs[k].name = packs[i].name}
    OBVIOUS
  <2>2. i \in K /\ K \in SUBSET Nat
    <3>1. K \in SUBSET 1..n /\ 1..n \in SUBSET Nat
      BY <2>1
    <3> QED
      BY <2>1, <3>1
  <2>3. PICK k \in K : \A j \in K : k <= j
    BY <2>2, LeastNatural
  <2>4. k \in 1..n /\ packs[k].name = packs[i].name
    BY <2>1
  <2>5. \A j \in 1..k - 1 : j \in 1..n /\ ~(k <= j)
    BY <2>4
  <2>6. \A j \in 1..k - 1 : packs[j].name # packs[k].name
    BY <2>1, <2>3, <2>4, <2>5
  <2> QED
    BY <1>2, <1>3, <2>4, <2>6
<1>4. ASSUME NEW i \in 1..n, NEW j \in 1..n, Palette!IsSource(packs, i),
             Palette!IsSource(packs, j), packs[i].name = packs[j].name
      PROVE  i = j
  <2>1. i \in Int /\ j \in Int /\ i >= 1 /\ j >= 1
    OBVIOUS
  <2>2. i < j => i \in 1..j - 1
    BY <2>1
  <2>3. j < i => j \in 1..i - 1
    BY <2>1
  <2>4. ~(i < j) /\ ~(j < i)
    BY <1>2, <1>4, <2>2, <2>3
  <2> QED
    BY <2>1, <2>4
<1> QED
  BY <1>1, <1>3, <1>4

\* The packs' own, from the last pack.
LEMMA OthersList ==
  ASSUME NEW packs, Listed(packs), NEW s, NEW others,
         others = Palette!FlattenSeq(Palette!Reverse(Palette!ByPack(packs, s)))
  PROVE  /\ others \in Seq(Slots) /\ Len(others) \in Nat
         /\ Lists(others, OthersOf(packs, s))
         /\ Truthful(packs) => \A q \in OthersOf(packs, s) :
              \E i \in 1..Len(packs) :
                /\ packs[i].name = others[1][1]
                /\ \A j \in i+1..Len(packs) : packs[j].name # Palette!UserScopeName =>
                     PlacesIn(packs[j], s) = {}
<1>1. PICK n \in Nat : n = Len(packs)
  BY ListedType
<1>2. PICK src : src = {i \in 1..n : Palette!IsSource(packs, i)}
  OBVIOUS
<1>3. PICK ss : ss = [i \in 1..n |->
                     IF i \in src THEN Palette!Of(packs[i].name, packs, s) ELSE <<>>]
  OBVIOUS
<1>4. ss = Palette!ByPack(packs, s) /\ Len(ss) = n
  <2>1. ss = Palette!ByPack(packs, s)
    BY <1>1, <1>2, <1>3 DEF Palette!ByPack
  <2>2. Len(ss) = n
    BY <1>3
  <2> QED
    BY <2>1, <2>2
<1>5. PICK rr : rr = [i \in 1..n |-> ss[(n - i) + 1]]
  OBVIOUS
<1>6. rr = Palette!Reverse(ss) /\ Len(rr) = n
  <2>1. rr = Palette!Reverse(ss)
    BY <1>4, <1>5 DEF Palette!Reverse
  <2>2. Len(rr) = n
    BY <1>5
  <2> QED
    BY <2>1, <2>2
<1>7. \A i \in 1..n : (n - i) + 1 \in 1..n /\ (n - ((n - i) + 1)) + 1 = i
  OBVIOUS
<1>8. PICK F : F = [i \in 1..n |->
                   IF i \in src THEN PlacesOf(packs, packs[i].name, s) ELSE {}]
  OBVIOUS
<1>9. ASSUME NEW i \in 1..n PROVE ss[i] \in Seq(Slots) /\ Lists(ss[i], F[i])
  <2>1. CASE i \in src
    <3>1. ss[i] = Palette!Of(packs[i].name, packs, s) /\ F[i] = PlacesOf(packs, packs[i].name, s)
      BY <1>3, <1>8, <2>1
    <3> QED
      BY <3>1, OfLists
  <2>2. CASE i \notin src
    <3>1. ss[i] = <<>> /\ F[i] = {}
      BY <1>3, <1>8, <2>2
    <3> QED
      BY <3>1, EmptyList
  <2> QED
    BY <2>1, <2>2
<1>10. PICK G : G = [i \in 1..n |-> F[(n - i) + 1]]
  OBVIOUS
<1>11. \A i \in 1..n : rr[i] \in Seq(Slots) /\ Lists(rr[i], G[i])
  <2> HIDE DEF Lists, Slots
  <2> QED
    BY <1>5, <1>7, <1>9, <1>10
<1>12. rr \in Seq(Seq(Slots))
  <2>1. rr = [i \in 1..n |-> rr[i]]
    BY <1>5
  <2> DEFINE Q == Seq(Slots)
  <2> HIDE DEF Q
  <2>2. \A i \in 1..n : rr[i] \in Q
    BY <1>11 DEF Q
  <2>3. rr \in Seq(Q)
    BY <2>1, <2>2, ListOf
  <2> QED
    BY <2>3 DEF Q
<1>13. PICK S : S = OthersOf(packs, s)
  OBVIOUS
<1>14. \A i \in 1..n : \A y : y \in F[i] <=> i \in src /\ y \in PlacesOf(packs, packs[i].name, s)
  BY <1>8
<1>15. \A i, j \in 1..n : \A y : y \in G[i] /\ y \in G[j] => i = j
  <2> SUFFICES ASSUME NEW i \in 1..n, NEW j \in 1..n, NEW y, y \in G[i], y \in G[j]
               PROVE  i = j
    OBVIOUS
  <2>1. PICK a \in 1..n, b \in 1..n : a = (n - i) + 1 /\ b = (n - j) + 1
    BY <1>7
  <2>2. y \in F[a] /\ y \in F[b]
    BY <1>10, <2>1
  <2>3. PICK c \in 1..n : packs[c].name = packs[a].name /\ y \in PlacesIn(packs[c], s)
    BY <1>1, <1>14, <2>2 DEF PlacesOf
  <2>4. PICK d \in 1..n : packs[d].name = packs[b].name /\ y \in PlacesIn(packs[d], s)
    BY <1>1, <1>14, <2>2 DEF PlacesOf
  <2>5. c = d
    BY <1>1, <2>3, <2>4, OneName
  <2>6. packs[a].name = packs[b].name
    BY <2>3, <2>4, <2>5
  <2>7. Palette!IsSource(packs, a) /\ Palette!IsSource(packs, b)
    BY <1>2, <1>14, <2>2
  <2>8. a = b
    BY <1>1, <2>6, <2>7, OneSource
  <2> QED
    BY <2>1, <2>8
<1>16. ASSUME NEW i \in 1..n, NEW y \in F[i] PROVE y \in S
  <2>1. packs[i].name # Palette!UserScopeName /\ y \in PlacesOf(packs, packs[i].name, s)
    BY <1>2, <1>14, <1>16 DEF Palette!IsSource
  <2> QED
    BY <1>13, <2>1 DEF PlacesOf, OthersOf
<1>17. ASSUME NEW y \in S PROVE \E i \in 1..n : y \in F[i]
  <2>1. PICK j \in 1..n : packs[j].name # Palette!UserScopeName /\ y \in PlacesIn(packs[j], s)
    BY <1>1, <1>13 DEF OthersOf
  <2>2. PICK i \in 1..n : Palette!IsSource(packs, i) /\ packs[i].name = packs[j].name
    BY <1>1, <2>1, OneSource
  <2>3. y \in PlacesOf(packs, packs[i].name, s)
    BY <1>1, <2>1, <2>2 DEF PlacesOf, PlacesIn
  <2> QED
    BY <1>2, <1>14, <2>2, <2>3
<1>18. \A i \in 1..n : \A y \in G[i] : y \in S
  BY <1>7, <1>10, <1>16
<1>19. ASSUME NEW y \in S PROVE \E i \in 1..n : y \in G[i]
  <2>1. PICK a \in 1..n : y \in F[a]
    BY <1>17
  <2>2. PICK i \in 1..n : i = (n - a) + 1 /\ (n - i) + 1 = a
    BY <1>7
  <2>3. G[i] = F[a]
    BY <1>10, <2>2
  <2> QED
    BY <2>1, <2>3
<1>20. others = Palette!FlattenSeq(rr)
  BY <1>4, <1>6
<1>21. others \in Seq(Slots) /\ Len(others) \in Nat /\ Lists(others, S)
  <2> HIDE DEF Lists, Slots
  <2> QED
    <3>1. \A i \in 1..n : Lists(rr[i], G[i])
      BY <1>11
    <3>2. \A y \in S : \E i \in 1..n : y \in G[i]
      BY <1>19
    <3>3. Divides(rr, G, S)
      BY <1>6, <1>15, <1>18, <3>1, <3>2 DEF Divides
    <3> QED
      BY <1>12, <1>20, <3>3, Divided
<1>22. ASSUME Truthful(packs), NEW q \in OthersOf(packs, s)
       PROVE  \E i \in 1..Len(packs) :
                /\ packs[i].name = others[1][1]
                /\ \A j \in i+1..Len(packs) : packs[j].name # Palette!UserScopeName =>
                     PlacesIn(packs[j], s) = {}
  <2>1. PICK row, col : Concat(rr, n, others, row, col)
    BY <1>6, <1>12, <1>20, Flattened
  <2>2. q \in S
    BY <1>13, <1>22
  <2>3. 1 \in 1..Len(others)
    <3>1. PICK k \in 1..Len(others) : others[k] = q
      BY <1>21, <2>2 DEF Lists
    <3> QED
      BY <1>21, <3>1
  <2>4. row[1] \in 1..n /\ col[1] \in 1..Len(rr[row[1]]) /\ others[1] = rr[row[1]][col[1]]
    BY <2>1, <2>3 DEF Concat
  <2>5. PICK i \in 1..n : i = (n - row[1]) + 1
    BY <1>7, <2>4
  <2>6. others[1] \in G[row[1]]
    BY <1>11, <2>4 DEF Lists
  <2>7. others[1] \in F[i]
    BY <1>10, <2>4, <2>5, <2>6
  <2>8. packs[i].name = others[1][1]
    <3>1. others[1] \in PlacesOf(packs, packs[i].name, s)
      BY <1>14, <2>7
    <3> QED
      BY <1>22, <3>1, TruePlaces
  <2>9. ASSUME NEW j \in i+1..n, packs[j].name # Palette!UserScopeName,
               NEW y \in PlacesIn(packs[j], s)
        PROVE  FALSE
    <3>1. j \in 1..n
      BY <2>5
    <3>0. y \in F[j]
      <4>1. PICK k \in 1..n : Palette!IsSource(packs, k) /\ packs[k].name = packs[j].name
        BY <1>1, <2>9, <3>1, OneSource
      <4>2. packs[k].dir = packs[j].dir
        BY <1>1, <1>22, <3>1, <4>1 DEF Truthful
      <4>3. k = j
        BY <1>1, <3>1, <4>2 DEF Listed
      <4>4. y \in PlacesOf(packs, packs[j].name, s)
        BY <1>1, <2>9, <3>1 DEF PlacesOf, PlacesIn
      <4> QED
        BY <1>2, <1>14, <3>1, <4>1, <4>3, <4>4
    <3>2. PICK a \in 1..n : a = (n - j) + 1 /\ (n - a) + 1 = j
      BY <1>7, <3>1
    <3>3. y \in G[a]
      BY <1>10, <3>0, <3>2
    <3>4. PICK c \in 1..Len(rr[a]) : rr[a][c] = y
      BY <1>11, <3>3 DEF Lists
    <3>5. PICK k \in 1..Len(others) : row[k] = a /\ col[k] = c
      BY <2>1 DEF Concat
    <3>6. a < row[1]
      <4>1. i \in Int /\ j \in Int /\ i < j /\ row[1] \in Int
        BY <2>4, <2>9
      <4> QED
        BY <2>5, <3>2, <4>1
    <3>7. k # 1
      BY <3>2, <3>5, <3>6, <2>4
    <3>8. 1 < k
      BY <1>21, <3>7
    <3>9. row[1] <= row[k]
      <4>1. row[1] < row[k] \/ row[1] = row[k]
        <5>1. 1 \in 1..Len(others) /\ k \in 1..Len(others) /\ 1 < k
          BY <2>3, <3>8
        <5>2. \A a1, b1 \in 1..Len(others) : a1 < b1 => row[a1] < row[b1] \/ row[a1] = row[b1]
          BY <2>1 DEF Concat
        <5> QED
          BY <5>1, <5>2
      <4> QED
        BY <2>4, <3>2, <3>5, <4>1
    <3> QED
      BY <2>4, <3>2, <3>5, <3>6, <3>9
  <2>10. \A j \in i+1..n : packs[j].name # Palette!UserScopeName => PlacesIn(packs[j], s) = {}
    BY <2>9
  <2> QED
    BY <1>1, <2>8, <2>10
<1> QED
  BY <1>13, <1>21, <1>22

\* What may be pinned, and whom a pin names.
Pins == {Palette!NoPin, Palette!PinUser} \cup {Palette!PinPack(n) : n \in Palette!PackNames}
SourceOf(p) == IF p[1] = "user" THEN Palette!UserScopeName ELSE p[2]

LEMMA BlankIsNoName == Palette!Blank # "user" /\ Palette!Blank # "pack"
BY Zenon DEF Palette!Blank

\* Nobody's name is empty, and no directory is called as the user scope.
LEMMA NoEmptyName ==
  /\ Palette!Blank \notin ScopeNames /\ Palette!Blank \notin Names
  /\ Palette!UserScopeName \notin Palette!PackNames
<1>1. /\ DOMAIN Rank \subseteq STRING \ {Palette!Blank}
      /\ PackOrder \in Seq(DOMAIN Rank \ {Palette!UserScopeName})
  BY LocalAssumption DEF LocalAssumption, Palette!PaletteAssumption
<1>2. \A n \in DOMAIN Rank : n # Palette!Blank
  <2>1. PICK A : A = STRING \ {Palette!Blank}
    OBVIOUS
  <2>2. Palette!Blank \notin A /\ DOMAIN Rank \subseteq A
    BY <1>1, <2>1
  <2> QED
    BY <2>2
<1>3. \A i \in DOMAIN PackOrder :
        PackOrder[i] # Palette!UserScopeName /\ PackOrder[i] # Palette!Blank
  <2>1. PICK A : A = DOMAIN Rank \ {Palette!UserScopeName}
    OBVIOUS
  <2>2. PackOrder \in Seq(A)
    BY <1>1, <2>1
  <2>3. \A i \in DOMAIN PackOrder : PackOrder[i] \in A
    BY <2>2
  <2> QED
    BY <1>2, <2>1, <2>3
<1>4. \A n \in Palette!PackNames : n # Palette!UserScopeName /\ n # Palette!Blank
  BY <1>3 DEF Palette!PackNames, Palette!Range
<1> QED
  BY <1>2, <1>4, BlankIsNoName DEF ScopeNames, Names, Palette!UserScopeName

\* Promoting a match changes the first of the list, not what is in it.
LEMMA Promoted ==
  ASSUME NEW pinned \in Seq(Slots), NEW rest \in Seq(Slots), NEW S, Lists(rest, S),
         pinned # <<>> => pinned[1] \in S
  PROVE  /\ Palette!Promote(pinned, rest) \in Seq(Slots)
         /\ Lists(Palette!Promote(pinned, rest), S)
         /\ pinned # <<>> => Palette!Promote(pinned, rest)[1] = pinned[1]
         /\ pinned = <<>> => Palette!Promote(pinned, rest) = rest
<1>1. CASE pinned = <<>>
  BY <1>1 DEF Palette!Promote
<1>2. CASE pinned # <<>>
  <2>1. PICK p1 : p1 = pinned[1]
    OBVIOUS
  <2>2. p1 \in S /\ p1 \in Slots
    <3>1. 1 \in 1..Len(pinned)
      BY <1>2
    <3>2. pinned[1] \in Slots
      BY <3>1
    <3> QED
      BY <1>2, <2>1, <3>2
  <2>3. PICK n \in Nat : n = Len(rest)
    BY LenNat
  <2>4. PICK ss : ss = [i \in 1..n |-> Palette!OnlyIf(rest[i] # p1, rest[i])]
    OBVIOUS
  <2>5. \A i \in 1..n : rest[i] \in Slots
    BY <2>3
  <2>6. \A i \in 1..n : IF rest[i] # p1 THEN ss[i] = <<rest[i]>> /\ ss[i] # <<>> ELSE ss[i] = <<>>
    BY <2>4 DEF Palette!OnlyIf
  <2>7. ASSUME NEW i \in 1..n PROVE ss[i] \in Seq(Slots)
    <3>1. <<rest[i]>> \in Seq(Slots) /\ <<>> \in Seq(Slots)
      BY <2>5
    <3> QED
      BY <2>6, <3>1
  <2>8. ss \in Seq(Seq(Slots)) /\ Len(ss) = n
    <3>1. ss = [i \in 1..n |-> ss[i]]
      BY <2>4
    <3> DEFINE Q == Seq(Slots)
    <3> HIDE DEF Q
    <3>2. \A i \in 1..n : ss[i] \in Q
      BY <2>7 DEF Q
    <3>3. ss \in Seq(Q) /\ Len(ss) = n
      BY <3>1, <3>2, ListOf
    <3> QED
      BY <3>3 DEF Q
  <2>9. Selects(ss, rest, S \ {p1})
    <3>1. \A i \in 1..n : ss[i] = <<>> \/ ss[i] = <<rest[i]>>
      BY <2>6
    <3>2. \A i \in 1..n : ss[i] # <<>> => rest[i] \in S \ {p1}
      BY <2>3, <2>6 DEF Lists
    <3>3. ASSUME NEW y \in S \ {p1} PROVE \E i \in 1..n : ss[i] # <<>> /\ rest[i] = y
      <4>1. PICK i \in 1..n : rest[i] = y
        BY <2>3 DEF Lists
      <4>2. rest[i] # p1
        BY <4>1
      <4>3. ss[i] # <<>>
        BY <2>6, <4>2
      <4> QED
        BY <4>1, <4>3
    <3>4. \A i, j \in 1..n : rest[i] = rest[j] => i = j
      BY <2>3 DEF Lists
    <3> QED
      BY <2>8, <3>1, <3>2, <3>3, <3>4 DEF Selects
  <2>10. Palette!FlattenSeq(ss) \in Seq(Slots) /\ Lists(Palette!FlattenSeq(ss), S \ {p1})
    BY <2>8, <2>9, Selected
  <2>11. PICK k : k = Palette!FlattenSeq(ss)
    OBVIOUS
  <2>12. <<p1>> \in Seq(Slots) /\ Lists(<<p1>>, {p1})
    BY <2>2 DEF Lists
  <2>13. <<p1>> \o k \in Seq(Slots) /\ Lists(<<p1>> \o k, S)
    <3>1. \A y \in {p1} : y \notin S \ {p1}
      OBVIOUS
    <3>2. \A y : y \in S <=> y \in {p1} \/ y \in S \ {p1}
      BY <2>2
    <3>3. k \in Seq(Slots) /\ Lists(k, S \ {p1})
      BY <2>10, <2>11
    <3> QED
      BY <2>12, <3>1, <3>2, <3>3, ConcatLists
  <2>14. (<<p1>> \o k)[1] = p1
    BY <2>10, <2>11, <2>12
  <2>15. Palette!Promote(pinned, rest) = <<p1>> \o k
    BY <1>2, <2>1, <2>3, <2>4, <2>11 DEF Palette!Promote
  <2> QED
    BY <1>2, <2>1, <2>13, <2>14, <2>15
<1> QED
  BY <1>1, <1>2

\* The pin's matches.
LEMMA PinnedLists ==
  ASSUME NEW packs, Listed(packs), NEW s, NEW p \in Pins
  PROVE  /\ Palette!Pinned(packs, s, p) \in Seq(Slots)
         /\ Lists(Palette!Pinned(packs, s, p), PlacesOf(packs, SourceOf(p), s))
<1>1. CASE p = Palette!NoPin
  <2>1. Palette!Pinned(packs, s, p) = <<>>
    BY <1>1, BlankIsNoName DEF Palette!Pinned, Palette!NoPin
  <2>2. SourceOf(p) = Palette!Blank
    BY <1>1, BlankIsNoName DEF SourceOf, Palette!NoPin
  <2>3. \A i \in 1..Len(packs) : packs[i].name # Palette!Blank
    <3>1. \A i \in 1..Len(packs) : packs[i].name \in Names
      BY ListedType DEF ScopePacks
    <3> QED
      BY <3>1, NoEmptyName
  <2>4. PlacesOf(packs, SourceOf(p), s) = {}
    BY <2>2, <2>3 DEF PlacesOf
  <2> QED
    BY <2>1, <2>4, EmptyList
<1>2. CASE p = Palette!PinUser
  <2>1. /\ Palette!Pinned(packs, s, p) = Palette!Of(Palette!UserScopeName, packs, s)
        /\ SourceOf(p) = Palette!UserScopeName
    BY <1>2 DEF Palette!Pinned, Palette!PinUser, SourceOf
  <2> QED
    BY <2>1, OfLists
<1>3. CASE \E n \in Palette!PackNames : p = Palette!PinPack(n)
  <2>1. Palette!Pinned(packs, s, p) = Palette!Of(p[2], packs, s) /\ SourceOf(p) = p[2]
    BY <1>3 DEF Palette!Pinned, Palette!PinPack, SourceOf
  <2> QED
    BY <2>1, OfLists
<1> QED
  BY <1>1, <1>2, <1>3 DEF Pins

\* The first of a resolution, when packs have their own names: the pin's, the
\* user's, or the last pack's.
Leads(q, packs, s, p) ==
  LET from(n) == \E r \in Places(packs, s) : r[1] = n
  IN Truthful(packs) =>
     /\ from(SourceOf(p)) => q[1] = SourceOf(p)
     /\ ~from(SourceOf(p)) /\ from(Palette!UserScopeName) => q[1] = Palette!UserScopeName
     /\ ~from(SourceOf(p)) /\ ~from(Palette!UserScopeName) /\ Places(packs, s) # {} =>
          \E i \in 1..Len(packs) :
            /\ packs[i].name = q[1]
            /\ \A j \in i+1..Len(packs) : packs[j].name # Palette!UserScopeName =>
                 PlacesIn(packs[j], s) = {}

\* Resolve returns every match once, the right one first.
LEMMA Resolved ==
  ASSUME NEW packs, Listed(packs), NEW s, NEW p \in Pins
  PROVE  /\ Palette!Resolve(packs, s, Palette!Blank, p) \in Seq(Slots)
         /\ Lists(Palette!Resolve(packs, s, Palette!Blank, p), Places(packs, s))
         /\ Leads(Palette!Resolve(packs, s, Palette!Blank, p)[1], packs, s, p)
<1>1. PICK P, users, others, pinned :
        /\ P = Places(packs, s)
        /\ users = Palette!Of(Palette!UserScopeName, packs, s)
        /\ others = Palette!FlattenSeq(Palette!Reverse(Palette!ByPack(packs, s)))
        /\ pinned = Palette!Pinned(packs, s, p)
  OBVIOUS
<1>2. PICK rest : rest = users \o others
  OBVIOUS
<1>3. Palette!Resolve(packs, s, Palette!Blank, p) = Palette!Promote(pinned, rest)
  BY <1>1, <1>2 DEF Palette!Resolve
<1>4. users \in Seq(Slots) /\ Len(users) \in Nat /\
      Lists(users, PlacesOf(packs, Palette!UserScopeName, s))
  BY <1>1, OfLists
<1>5. /\ others \in Seq(Slots) /\ Len(others) \in Nat
      /\ Lists(others, OthersOf(packs, s))
      /\ Truthful(packs) => \A q \in OthersOf(packs, s) :
           \E i \in 1..Len(packs) :
             /\ packs[i].name = others[1][1]
             /\ \A j \in i+1..Len(packs) : packs[j].name # Palette!UserScopeName =>
                  PlacesIn(packs[j], s) = {}
  BY <1>1, OthersList
<1>6. rest \in Seq(Slots) /\ Lists(rest, P)
  <2>1. \A y \in PlacesOf(packs, Palette!UserScopeName, s) : y \notin OthersOf(packs, s)
    BY UsersOrOthers
  <2>2. \A y : y \in P <=> \/ y \in PlacesOf(packs, Palette!UserScopeName, s)
                           \/ y \in OthersOf(packs, s)
    BY <1>1, UsersOrOthers
  <2> QED
    BY <1>2, <1>4, <1>5, <2>1, <2>2, ConcatLists
<1>7. pinned \in Seq(Slots) /\ Lists(pinned, PlacesOf(packs, SourceOf(p), s))
  BY <1>1, PinnedLists
<1>8. pinned # <<>> =>
        pinned[1] \in P /\ (Truthful(packs) => pinned[1][1] = SourceOf(p))
  <2>1. pinned # <<>> => 1 \in 1..Len(pinned)
    BY <1>7
  <2>2. pinned # <<>> => pinned[1] \in PlacesOf(packs, SourceOf(p), s)
    BY <1>7, <2>1 DEF Lists
  <2>3. \A q \in PlacesOf(packs, SourceOf(p), s) : q \in P
    BY <1>1 DEF Places, PlacesOf
  <2> QED
    BY <2>2, <2>3, TruePlaces
<1>9. pinned = <<>> /\ Truthful(packs) => \A q \in P : q[1] # SourceOf(p)
  <2>1. pinned = <<>> => PlacesOf(packs, SourceOf(p), s) = {}
    BY <1>7 DEF Lists
  <2> QED
    BY <1>1, <2>1, TruePlaces
<1>10. PICK R : R = Palette!Promote(pinned, rest)
  OBVIOUS
<1>11. /\ R \in Seq(Slots) /\ Lists(R, P)
       /\ pinned # <<>> => R[1] = pinned[1]
       /\ pinned = <<>> => R = rest
  BY <1>6, <1>7, <1>8, <1>10, Promoted
<1>12. ASSUME Truthful(packs) PROVE Leads(R[1], packs, s, p)
  <2>1. CASE pinned # <<>>
    <3>1. R[1] \in P /\ R[1][1] = SourceOf(p)
      BY <1>8, <1>11, <1>12, <2>1
    <3> QED
      BY <1>1, <3>1 DEF Leads
  <2>2. CASE pinned = <<>> /\ users # <<>>
    <3>1. 1 \in 1..Len(users)
      BY <1>4, <2>2
    <3>2. rest[1] = users[1]
      BY <1>2, <1>4, <1>5, <3>1
    <3>3. users[1] \in PlacesOf(packs, Palette!UserScopeName, s)
      BY <1>4, <3>1 DEF Lists
    <3>4. users[1][1] = Palette!UserScopeName /\ users[1] \in P
      BY <1>1, <1>12, <3>3, TruePlaces
    <3>5. R[1][1] = Palette!UserScopeName /\ R[1] \in P
      BY <1>11, <2>2, <3>2, <3>4
    <3> QED
      BY <1>1, <1>9, <1>12, <2>2, <3>5 DEF Leads
  <2>3. CASE pinned = <<>> /\ users = <<>>
    <3>0. PlacesOf(packs, Palette!UserScopeName, s) = {}
      BY <1>4, <2>3 DEF Lists
    <3>1. \A q \in P : q \in OthersOf(packs, s) /\ q[1] # Palette!UserScopeName
      BY <1>1, <1>12, <3>0, UsersOrOthers, TruePlaces
    <3>2. rest = others
      BY <1>2, <1>5, <2>3
    <3>3. R = others
      BY <1>11, <2>3, <3>2
    <3>4. P # {} => \E i \in 1..Len(packs) :
             /\ packs[i].name = R[1][1]
             /\ \A j \in i+1..Len(packs) : packs[j].name # Palette!UserScopeName =>
                  PlacesIn(packs[j], s) = {}
      <4> SUFFICES ASSUME NEW q \in P
                   PROVE  \E i \in 1..Len(packs) :
             /\ packs[i].name = R[1][1]
             /\ \A j \in i+1..Len(packs) : packs[j].name # Palette!UserScopeName =>
                  PlacesIn(packs[j], s) = {}
        OBVIOUS
      <4> QED
        BY <1>5, <1>12, <3>1, <3>3
    <3> QED
      BY <1>1, <1>9, <1>12, <2>3, <3>1, <3>4 DEF Leads
  <2> QED
    BY <2>1, <2>2, <2>3
<1>13. Leads(R[1], packs, s, p)
  BY <1>12 DEF Leads
<1> QED
  BY <1>1, <1>3, <1>10, <1>11, <1>13

\* A manifest with its slash command.
Tags == [place : Slots, slash : SlashNames \cup {Palette!Blank}]
TagsIn(p) == {r \in Tags : r.place \in PlacesIn(p, r.slash)}
AllTags(packs) == {r \in Tags : r.place \in Places(packs, r.slash)}

\* A place has one slash command.
LEMMA OneSlash ==
  ASSUME NEW packs, Listed(packs), NEW s, NEW z, NEW q \in Places(packs, s), q \in Places(packs, z)
  PROVE  s = z
BY DEF Listed, Places, PlacesIn

\* Tagging: the tags of one pack, those of all, and those of one command.
LEMMA TagOfOne ==
  ASSUME NEW p \in ScopePacks, NEW n \in Nat, n = Len(p.slashes), NEW t,
         t = [j \in 1..n |-> [place |-> <<p.dir, j>>, slash |-> p.slashes[j]]]
  PROVE  t \in Seq(Tags) /\ Lists(t, TagsIn(p))
<1>1. p.dir \in ScopeNames /\ p.slashes \in Seq(SlashNames \cup {Palette!Blank})
  BY DEF ScopePacks
<1>2. ASSUME NEW j \in 1..n
      PROVE  /\ p.slashes[j] \in SlashNames \cup {Palette!Blank}
             /\ <<p.dir, j>> \in Slots
             /\ <<p.dir, j>>[1] = p.dir /\ <<p.dir, j>>[2] = j
  <2>1. PICK q, B : q = p.slashes /\ B = SlashNames \cup {Palette!Blank}
    OBVIOUS
  <2>2. q \in Seq(B) /\ n = Len(q)
    BY <1>1, <2>1
  <2>3. q[j] \in B
    BY <2>2
  <2>4. j \in Nat
    OBVIOUS
  <2>5. <<p.dir, j>> \in Slots
    BY <1>1, <2>4, PairIn DEF Slots
  <2> QED
    BY <2>1, <2>3, <2>5
<1>3. ASSUME NEW j \in 1..n
      PROVE  /\ t[j] \in Tags
             /\ t[j].place = <<p.dir, j>> /\ t[j].slash = p.slashes[j]
  <2>1. t[j] = [place |-> <<p.dir, j>>, slash |-> p.slashes[j]]
    OBVIOUS
  <2> QED
    BY <1>2, <2>1 DEF Tags
<1>4. t \in Seq(Tags) /\ Len(t) = n
  <2>1. t = [j \in 1..n |-> t[j]]
    OBVIOUS
  <2>2. \A j \in 1..n : t[j] \in Tags
    BY <1>3
  <2> HIDE DEF Tags
  <2> QED
    BY <2>1, <2>2, ListOf
<1>5. \A j \in 1..n : t[j] \in TagsIn(p)
  BY <1>2, <1>3 DEF TagsIn, PlacesIn
<1>6. ASSUME NEW r \in TagsIn(p) PROVE \E j \in 1..n : t[j] = r
  <2>1. PICK q : q = r.place
    OBVIOUS
  <2>2. r \in Tags /\ q \in Slots /\ q[1] = p.dir /\ q[2] \in 1..n /\ p.slashes[q[2]] = r.slash
    BY <2>1 DEF TagsIn, PlacesIn
  <2>3. q = <<q[1], q[2]>>
    BY <2>2 DEF Slots
  <2>4. t[q[2]].place = q /\ t[q[2]].slash = r.slash /\ t[q[2]] \in Tags
    BY <1>3, <2>2, <2>3
  <2>5. t[q[2]] = r
    BY <2>1, <2>2, <2>4 DEF Tags
  <2> QED
    BY <2>2, <2>5
<1>7. ASSUME NEW i \in 1..n, NEW j \in 1..n, t[i] = t[j] PROVE i = j
  <2>1. <<p.dir, i>> = <<p.dir, j>>
    BY <1>3, <1>7
  <2> QED
    BY <2>1
<1> QED
  BY <1>4, <1>5, <1>6, <1>7 DEF Lists

LEMMA TagLists ==
  ASSUME NEW packs, Listed(packs)
  PROVE  /\ Palette!Tag(packs) \in Seq(Tags) /\ Len(Palette!Tag(packs)) \in Nat
         /\ Lists(Palette!Tag(packs), AllTags(packs))
<1>1. PICK n \in Nat : n = Len(packs)
  BY ListedType
<1>2. \A i \in 1..n : packs[i] \in ScopePacks
  BY <1>1, ListedType
<1>3. PICK ss : ss = [i \in 1..n |->
        [j \in 1..Len(packs[i].slashes) |->
           [place |-> <<packs[i].dir, j>>, slash |-> packs[i].slashes[j]]]]
  OBVIOUS
<1>4. PICK F : F = [i \in 1..n |-> TagsIn(packs[i])]
  OBVIOUS
<1>5. ASSUME NEW i \in 1..n PROVE ss[i] \in Seq(Tags) /\ Lists(ss[i], F[i])
  <2>1. PICK p \in ScopePacks : p = packs[i]
    BY <1>2
  <2>2. PICK m \in Nat : m = Len(p.slashes)
    <3>1. PICK q, B : q = p.slashes /\ B = SlashNames \cup {Palette!Blank}
      OBVIOUS
    <3>2. q \in Seq(B)
      BY <3>1 DEF ScopePacks
    <3>3. Len(q) \in Nat
      BY <3>2, LenNat
    <3> QED
      BY <3>1, <3>3
  <2>3. PICK t : t = ss[i]
    OBVIOUS
  <2>4. t = [j \in 1..m |-> [place |-> <<p.dir, j>>, slash |-> p.slashes[j]]]
    BY <1>3, <2>1, <2>2, <2>3
  <2>5. t \in Seq(Tags) /\ Lists(t, TagsIn(p))
    BY <2>2, <2>4, TagOfOne
  <2> QED
    BY <1>4, <2>1, <2>3, <2>5
<1>6. ss \in Seq(Seq(Tags)) /\ Len(ss) = n
  <2>1. ss = [i \in 1..n |-> ss[i]]
    BY <1>3
  <2> DEFINE Q == Seq(Tags)
  <2> HIDE DEF Q
  <2>2. \A i \in 1..n : ss[i] \in Q
    BY <1>5 DEF Q
  <2>3. ss \in Seq(Q) /\ Len(ss) = n
    BY <2>1, <2>2, ListOf
  <2> QED
    BY <2>3 DEF Q
<1>7. Divides(ss, F, AllTags(packs))
  <2>1. \A i \in 1..n : \A r : r \in F[i] <=> r \in Tags /\ r.place \in PlacesIn(packs[i], r.slash)
    BY <1>4 DEF TagsIn
  <2>2. \A i, j \in 1..n : \A r : r \in F[i] /\ r \in F[j] => i = j
    <3> SUFFICES ASSUME NEW i \in 1..n, NEW j \in 1..n, NEW r, r \in F[i], r \in F[j]
                 PROVE  i = j
      OBVIOUS
    <3>1. r.place \in PlacesIn(packs[i], r.slash) /\ r.place \in PlacesIn(packs[j], r.slash)
      BY <2>1
    <3> QED
      BY <1>1, <3>1, OneName
  <2>3. \A i \in 1..n : \A r \in F[i] : r \in AllTags(packs)
    BY <1>1, <2>1 DEF AllTags, Places, PlacesIn
  <2>4. \A r \in AllTags(packs) : \E i \in 1..n : r \in F[i]
    BY <1>1, <2>1 DEF AllTags, Places
  <2> QED
    BY <1>5, <1>6, <2>2, <2>3, <2>4 DEF Divides
<1>8. /\ Palette!FlattenSeq(ss) \in Seq(Tags) /\ Len(Palette!FlattenSeq(ss)) \in Nat
      /\ Lists(Palette!FlattenSeq(ss), AllTags(packs))
  BY <1>6, <1>7, Divided
<1>9. Palette!Tag(packs) = Palette!FlattenSeq(ss)
  BY <1>1, <1>3 DEF Palette!Tag
<1> QED
  BY <1>8, <1>9

LEMMA TaggedLists ==
  ASSUME NEW packs, Listed(packs), NEW s
  PROVE  /\ Palette!Tagged(packs, s) \in Seq(Tags) /\ Len(Palette!Tagged(packs, s)) \in Nat
         /\ Lists(Palette!Tagged(packs, s), {r \in AllTags(packs) : r.slash = s})
<1>1. PICK t : t = Palette!Tag(packs)
  OBVIOUS
<1>2. t \in Seq(Tags) /\ Lists(t, AllTags(packs))
  BY <1>1, TagLists
<1>3. PICK n \in Nat : n = Len(t)
  BY <1>1, TagLists
<1>4. PICK ss : ss = [i \in 1..n |-> Palette!OnlyIf(t[i].slash = s, t[i])]
  OBVIOUS
<1>5. \A i \in 1..n : t[i] \in Tags
  BY <1>2, <1>3
<1>6. \A i \in 1..n : IF t[i].slash = s THEN ss[i] = <<t[i]>> /\ ss[i] # <<>> ELSE ss[i] = <<>>
  BY <1>4 DEF Palette!OnlyIf
<1>7. ASSUME NEW i \in 1..n PROVE ss[i] \in Seq(Tags)
  <2>1. <<t[i]>> \in Seq(Tags) /\ <<>> \in Seq(Tags)
    BY <1>5
  <2> QED
    BY <1>6, <2>1
<1>8. ss \in Seq(Seq(Tags)) /\ Len(ss) = n
  <2>1. ss = [i \in 1..n |-> ss[i]]
    BY <1>4
  <2> DEFINE Q == Seq(Tags)
  <2> HIDE DEF Q
  <2>2. \A i \in 1..n : ss[i] \in Q
    BY <1>7 DEF Q
  <2>3. ss \in Seq(Q) /\ Len(ss) = n
    BY <2>1, <2>2, ListOf
  <2> QED
    BY <2>3 DEF Q
<1>9. PICK S : S = {r \in AllTags(packs) : r.slash = s}
  OBVIOUS
<1>10. Selects(ss, t, S)
  <2>1. \A i \in 1..n : ss[i] = <<>> \/ ss[i] = <<t[i]>>
    BY <1>6
  <2>2. \A i \in 1..n : ss[i] # <<>> => t[i] \in S
    BY <1>2, <1>3, <1>6, <1>9 DEF Lists
  <2>3. ASSUME NEW y \in S PROVE \E i \in 1..n : ss[i] # <<>> /\ t[i] = y
    <3>1. PICK i \in 1..n : t[i] = y
      BY <1>2, <1>3, <1>9 DEF Lists
    <3>2. ss[i] # <<>>
      BY <1>6, <1>9, <3>1
    <3> QED
      BY <3>1, <3>2
  <2>4. \A i, j \in 1..n : t[i] = t[j] => i = j
    BY <1>2, <1>3 DEF Lists
  <2> QED
    BY <1>8, <2>1, <2>2, <2>3, <2>4 DEF Selects
<1>11. Palette!FlattenSeq(ss) \in Seq(Tags) /\ Lists(Palette!FlattenSeq(ss), S)
  BY <1>8, <1>10, Selected
<1>12. Palette!Tagged(packs, s) = Palette!FlattenSeq(ss)
  BY <1>1, <1>3, <1>4 DEF Palette!Tagged
<1>13. Len(Palette!FlattenSeq(ss)) \in Nat
  BY <1>11, LenNat
<1> QED
  BY <1>9, <1>11, <1>12, <1>13

\* A place is tagged with its command.
LEMMA PlaceHasTag ==
  ASSUME NEW packs, Listed(packs), NEW s \in SlashNames, NEW q \in Places(packs, s)
  PROVE  [place |-> q, slash |-> s] \in AllTags(packs)
BY DEF AllTags, Tags, Places

\* Every slash command that is defined, once.
LEMMA SlashesListed ==
  ASSUME NEW packs, Listed(packs), Palette!Blank \notin SlashNames, NEW o,
         o = Palette!SlashOrder(Palette!Tag(packs))
  PROVE  /\ o \in Seq(SlashNames) /\ Len(o) \in Nat
         /\ Lists(o, {s \in SlashNames : Places(packs, s) # {}})
<1>1. PICK t : t = Palette!Tag(packs)
  OBVIOUS
<1>2. t \in Seq(Tags) /\ Lists(t, AllTags(packs))
  BY <1>1, TagLists
<1>3. PICK n \in Nat : n = Len(t)
  BY <1>1, TagLists
<1>4. PICK x : x = [i \in 1..n |-> t[i].slash]
  OBVIOUS
<1>5. PICK first : first = {i \in 1..n : x[i] # Palette!Blank /\ \A j \in 1..i - 1 : x[j] # x[i]}
  OBVIOUS
<1>6. PICK ss : ss = [i \in 1..n |->
                     Palette!OnlyIf(t[i].slash # Palette!Blank /\ Palette!IsFirst(t, i),
                           t[i].slash)]
  OBVIOUS
<1>7. ASSUME NEW i \in 1..n
      PROVE  IF i \in first THEN ss[i] = <<x[i]>> /\ ss[i] # <<>> ELSE ss[i] = <<>>
  <2>1. x[i] = t[i].slash
    BY <1>4
  <2>2. \A j \in 1..i - 1 : j \in 1..n /\ x[j] = t[j].slash
    <3>1. \A j \in 1..i - 1 : j \in 1..n
      <4>1. i \in Int /\ i <= n
        OBVIOUS
      <4> QED
        BY <4>1
    <3> QED
      BY <1>4, <3>1
  <2>3. i \in first <=> t[i].slash # Palette!Blank /\ Palette!IsFirst(t, i)
    BY <1>5, <2>1, <2>2 DEF Palette!IsFirst
  <2>4. ss[i] = Palette!OnlyIf(t[i].slash # Palette!Blank /\ Palette!IsFirst(t, i), t[i].slash)
    BY <1>6
  <2>5. CASE i \in first
    <3>1. t[i].slash # Palette!Blank /\ Palette!IsFirst(t, i)
      BY <2>3, <2>5
    <3>2. ss[i] = <<t[i].slash>>
      BY <2>4, <3>1 DEF Palette!OnlyIf
    <3>3. ss[i] = <<x[i]>>
      BY <2>1, <3>2
    <3> QED
      BY <2>5, <3>3
  <2>6. CASE i \notin first
    <3>1. ~(t[i].slash # Palette!Blank /\ Palette!IsFirst(t, i))
      BY <2>3, <2>6
    <3>2. ss[i] = <<>>
      BY <2>4, <3>1 DEF Palette!OnlyIf
    <3> QED
      BY <2>6, <3>2
  <2> QED
    BY <2>5, <2>6
<1>8. \A i \in 1..n : t[i] \in AllTags(packs) /\ t[i] \in Tags
  BY <1>2, <1>3 DEF Lists, AllTags
<1>9. \A i \in first : i \in 1..n /\ x[i] \in SlashNames
  <2>1. \A i \in 1..n : x[i] \in SlashNames \cup {Palette!Blank}
    BY <1>4, <1>8 DEF Tags
  <2> QED
    BY <1>5, <2>1
<1>10. ASSUME NEW i \in 1..n PROVE ss[i] \in Seq(SlashNames)
  <2>1. CASE i \in first
    <3>1. x[i] \in SlashNames
      BY <1>9, <2>1
    <3>2. <<x[i]>> \in Seq(SlashNames)
      <4>1. PICK v \in SlashNames : v = x[i]
        BY <3>1
      <4>2. <<v>> \in Seq(SlashNames)
        OBVIOUS
      <4> QED
        BY <4>1, <4>2
    <3> QED
      BY <1>7, <2>1, <3>2
  <2>2. CASE i \notin first
    BY <1>7, <2>2, EmptyList
  <2> QED
    BY <2>1, <2>2
<1>11. ss \in Seq(Seq(SlashNames)) /\ Len(ss) = n
  <2>1. ss = [i \in 1..n |-> ss[i]]
    BY <1>6
  <2> DEFINE Q == Seq(SlashNames)
  <2> HIDE DEF Q
  <2>2. \A i \in 1..n : ss[i] \in Q
    BY <1>10 DEF Q
  <2>3. ss \in Seq(Q) /\ Len(ss) = n
    BY <2>1, <2>2, ListOf
  <2> QED
    BY <2>3 DEF Q
<1>12. PICK S : S = {s \in SlashNames : Places(packs, s) # {}}
  OBVIOUS
<1>13. Selects(ss, x, S)
  <2>1. \A i \in 1..n : ss[i] = <<>> \/ ss[i] = <<x[i]>>
    BY <1>7
  <2>2. ASSUME NEW i \in 1..n, ss[i] # <<>> PROVE x[i] \in S
    <3>1. i \in first /\ x[i] \in SlashNames
      BY <1>7, <1>9, <2>2
    <3>2. t[i].place \in Places(packs, x[i])
      BY <1>4, <1>8 DEF AllTags
    <3> QED
      BY <1>12, <3>1, <3>2
  <2>3. ASSUME NEW s \in S PROVE \E i \in 1..n : ss[i] # <<>> /\ x[i] = s
    <3>1. PICK q \in Places(packs, s) : TRUE
      BY <1>12
    <3>2. s \in SlashNames /\ s # Palette!Blank
      BY <1>12
    <3>3. PICK k \in 1..n : t[k] = [place |-> q, slash |-> s]
      BY <1>2, <1>3, <3>1, <3>2, PlaceHasTag DEF Lists
    <3>4. PICK K : K = {i \in 1..n : x[i] = s}
      OBVIOUS
    <3>5. k \in K /\ K \in SUBSET Nat
      <4>1. x[k] = s
        BY <1>4, <3>3
      <4>2. K \in SUBSET 1..n
        BY <3>4
      <4>3. 1..n \in SUBSET Nat
        OBVIOUS
      <4> QED
        BY <3>4, <4>1, <4>2, <4>3
    <3>6. PICK i \in K : \A j \in K : i <= j
      BY <3>5, LeastNatural
    <3>7. i \in 1..n /\ x[i] = s
      BY <3>4
    <3>8. \A j \in 1..i - 1 : j \in 1..n /\ ~(i <= j)
      <4>1. i \in Int /\ i <= n
        BY <3>7
      <4> QED
        BY <4>1
    <3>9. \A j \in 1..i - 1 : x[j] # x[i]
      BY <3>4, <3>6, <3>7, <3>8
    <3>10. i \in first
      BY <1>5, <3>2, <3>7, <3>9
    <3> QED
      BY <1>7, <3>7, <3>10
  <2>4. ASSUME NEW i \in 1..n, NEW j \in 1..n, ss[i] # <<>>, ss[j] # <<>>, x[i] = x[j]
        PROVE  i = j
    <3>1. i \in first /\ j \in first
      BY <1>7, <2>4
    <3>2. (\A k \in 1..i - 1 : x[k] # x[i]) /\ \A k \in 1..j - 1 : x[k] # x[j]
      BY <1>5, <3>1
    <3>3. i \in Int /\ j \in Int /\ i >= 1 /\ j >= 1
      OBVIOUS
    <3>4. i < j => i \in 1..j - 1
      BY <3>3
    <3>5. j < i => j \in 1..i - 1
      BY <3>3
    <3>6. ~(i < j) /\ ~(j < i)
      BY <2>4, <3>2, <3>4, <3>5
    <3> QED
      BY <3>3, <3>6
  <2> QED
    BY <1>11, <2>1, <2>2, <2>3, <2>4 DEF Selects
<1>14. Palette!FlattenSeq(ss) \in Seq(SlashNames) /\ Lists(Palette!FlattenSeq(ss), S)
  BY <1>11, <1>13, Selected
<1>15. o = Palette!FlattenSeq(ss)
  BY <1>1, <1>3, <1>6 DEF Palette!SlashOrder
<1> QED
  BY <1>12, <1>14, <1>15, LenNat

\* A row of a slash command.
Rows == [slash : SlashNames, place : Slots, pinned : BOOLEAN, labelled : BOOLEAN]

\* The rows of one slash command.
GroupRight(g, packs, s) ==
  /\ g \in Seq(Rows) /\ Len(g) \in Nat /\ 1 \in 1..Len(g)
  /\ \A i \in 1..Len(g) : g[i].slash = s /\ g[i].place \in Places(packs, s)
  /\ \A q \in Places(packs, s) : \E i \in 1..Len(g) : g[i].place = q
  /\ \A i, j \in 1..Len(g) : g[i].place = g[j].place => i = j
  /\ \A i, j \in 1..Len(g) : i # j => g[i].labelled
  /\ Leads(g[1].place, packs, s, pin)

\* One command of the name, and no pin.
LEMMA OnlyOne ==
  ASSUME NEW packs, Listed(packs), NEW s \in SlashNames, NEW t, t = Palette!Tagged(packs, s),
         Places(packs, s) # {}, ~(Len(t) > 1), pin = Palette!NoPin
  PROVE  /\ t[1].place \in Places(packs, s)
         /\ \A q \in Places(packs, s) : q = t[1].place
         /\ Leads(t[1].place, packs, s, pin)
<1>1. PICK q0 \in Places(packs, s) : TRUE
  OBVIOUS
<1>2. /\ t \in Seq(Tags) /\ Len(t) \in Nat
      /\ Lists(t, {r \in AllTags(packs) : r.slash = s})
  BY TaggedLists
<1>3. ASSUME NEW q \in Places(packs, s)
      PROVE  \E k \in 1..Len(t) : t[k].place = q
  <2>1. [place |-> q, slash |-> s] \in {r \in AllTags(packs) : r.slash = s}
    BY PlaceHasTag
  <2>2. PICK k \in 1..Len(t) : t[k] = [place |-> q, slash |-> s]
    BY <1>2, <2>1 DEF Lists
  <2> QED
    BY <2>2
<1>4. Len(t) = 1
  <2>1. PICK k \in 1..Len(t) : t[k].place = q0
    BY <1>3
  <2>2. PICK n \in Nat : n = Len(t)
    BY <1>2
  <2>3. k \in 1..n /\ ~(n > 1)
    BY <2>2
  <2>4. n = 1
    <3> QED
      BY <2>3
  <2> QED
    BY <2>2, <2>4
<1>5. \A q \in Places(packs, s) : q = t[1].place
  <2> SUFFICES ASSUME NEW q \in Places(packs, s) PROVE q = t[1].place
    OBVIOUS
  <2>1. PICK k \in 1..Len(t) : t[k].place = q
    BY <1>3
  <2>2. k = 1
    BY <1>4, <2>1
  <2> QED
    BY <2>1, <2>2
<1>6. PICK q1 : q1 = t[1].place
  OBVIOUS
<1>7. q1 \in Places(packs, s) /\ \A q \in Places(packs, s) : q = q1
  BY <1>1, <1>5, <1>6
<1>8. PICK i \in 1..Len(packs) : q1 \in PlacesIn(packs[i], s)
  BY <1>7 DEF Places
<1>9. packs[i].dir = q1[1]
  BY <1>8 DEF PlacesIn
<1>10. SourceOf(pin) = Palette!Blank
  BY BlankIsNoName DEF SourceOf, Palette!NoPin
<1>11. q1[1] # Palette!Blank
  BY <1>7, NoEmptyName DEF Places, Slots
<1>12. ASSUME NEW j \in i+1..Len(packs) PROVE PlacesIn(packs[j], s) = {}
  <2>1. Len(packs) \in Nat /\ i \in Int
    BY ListedType
  <2>2. j \in 1..Len(packs) /\ j # i
    BY <2>1
  <2> SUFFICES ASSUME NEW y \in PlacesIn(packs[j], s) PROVE FALSE
    OBVIOUS
  <2>3. y \in Places(packs, s)
    BY <2>2 DEF Places, PlacesIn
  <2>4. y = q1
    BY <1>7, <2>3
  <2> QED
    BY <1>8, <2>2, <2>4, OneName
<1>13. Leads(q1, packs, s, pin)
  <2>0. Truthful(packs) => packs[i].name = q1[1]
    BY <1>9 DEF Truthful
  <2>1. ~\E r \in Places(packs, s) : r[1] = SourceOf(pin)
    BY <1>7, <1>10, <1>11
  <2>2. (\E r \in Places(packs, s) : r[1] = Palette!UserScopeName) => q1[1] = Palette!UserScopeName
    BY <1>7
  <2>3. Truthful(packs) => \E h \in 1..Len(packs) :
          /\ packs[h].name = q1[1]
          /\ \A j \in h+1..Len(packs) : packs[j].name # Palette!UserScopeName =>
                PlacesIn(packs[j], s) = {}
    BY <1>12, <2>0
  <2> QED
    BY <2>1, <2>2, <2>3 DEF Leads
<1> QED
  BY <1>6, <1>7, <1>13

\* All of them, in the order of Resolve when several sources define it.
LEMMA GroupIsRight ==
  ASSUME NEW packs, Listed(packs), NEW s \in SlashNames, Places(packs, s) # {}, pin \in Pins
  PROVE  GroupRight(Palette!Group(packs, s), packs, s)
<1>1. PICK t : t = Palette!Tagged(packs, s)
  OBVIOUS
<1>2. PICK conflicts \in BOOLEAN : conflicts = (Len(t) > 1)
  <2>1. PICK n \in Nat : n = Len(t)
    BY <1>1, TaggedLists
  <2>2. (n > 1) \in BOOLEAN
    OBVIOUS
  <2> QED
    BY <2>1, <2>2, Zenon
<1>3. PICK order :
        order = IF conflicts \/
              pin # Palette!NoPin THEN Palette!Resolve(packs, s, Palette!Blank, pin)
                           ELSE <<t[1].place>>
  OBVIOUS
<1>4. PICK P : P = Places(packs, s)
  OBVIOUS
<1>5. /\ order \in Seq(Slots) /\ Lists(order, P)
      /\ Leads(order[1], packs, s, pin)
  <2>1. CASE conflicts \/ pin # Palette!NoPin
    <3>1. order = Palette!Resolve(packs, s, Palette!Blank, pin)
      BY <1>3, <2>1
    <3> QED
      BY <1>4, <3>1, Resolved
  <2>2. CASE ~conflicts /\ pin = Palette!NoPin
    <3>1. order = <<t[1].place>>
      BY <1>3, <2>2
    <3>2. ~(Len(t) > 1)
      BY <1>2, <2>2
    <3>3. /\ t[1].place \in P /\ \A q \in P : q = t[1].place
          /\ Leads(t[1].place, packs, s, pin)
      BY <1>1, <1>4, <2>2, <3>2, OnlyOne
    <3>4. PICK q : q = t[1].place
      OBVIOUS
    <3>5. q \in Slots
      BY <1>4, <3>3, <3>4 DEF Places
    <3>6. order = <<q>> /\ order[1] = q /\ Len(order) = 1 /\ order \in Seq(Slots)
      BY <3>1, <3>4, <3>5
    <3>7. Lists(order, P)
      BY <3>3, <3>4, <3>6 DEF Lists
    <3> QED
      BY <3>3, <3>4, <3>6, <3>7
  <2> QED
    BY <2>1, <2>2
<1>6. PICK n \in Nat : n = Len(order)
  BY <1>5, LenNat
<1>7. PICK g : g = [i \in 1..n |->
                   Palette!Row(s, order[i], i = 1 /\ pin # Palette!NoPin /\ conflicts, conflicts)]
  OBVIOUS
<1>8. g = Palette!Group(packs, s)
  BY <1>1, <1>2, <1>3, <1>6, <1>7 DEF Palette!Group
<1>9. \A i \in 1..n : order[i] \in Slots
  BY <1>5, <1>6
<1>10. ASSUME NEW i \in 1..n
       PROVE  /\ g[i] \in Rows /\ g[i].slash = s /\ g[i].place = order[i]
              /\ g[i].labelled = conflicts
  <2>1. PICK b \in BOOLEAN : b = (i = 1 /\ pin # Palette!NoPin /\ conflicts)
    OBVIOUS
  <2>2. g[i] = Palette!Row(s, order[i], b, conflicts)
    BY <1>7, <2>1
  <2>3. g[i] = [slash |-> s, place |-> order[i], pinned |-> b, labelled |-> conflicts]
    BY <2>2 DEF Palette!Row
  <2>4. order[i] \in Slots
    BY <1>9
  <2> QED
    BY <2>3, <2>4 DEF Rows
<1>11. g \in Seq(Rows) /\ Len(g) = n
  <2>1. g = [i \in 1..n |-> g[i]]
    BY <1>7
  <2> QED
    BY <1>10, <2>1, ListOf
<1>12. 1 \in 1..n
  <2>1. PICK q \in P : TRUE
    BY <1>4
  <2>2. PICK k \in 1..Len(order) : order[k] = q
    BY <1>5 DEF Lists
  <2> QED
    BY <1>6, <2>2
<1>13. \A i \in 1..n : g[i].slash = s /\ g[i].place \in P
  BY <1>5, <1>6, <1>10 DEF Lists
<1>14. ASSUME NEW q \in P PROVE \E i \in 1..n : g[i].place = q
  <2>1. PICK k \in 1..n : order[k] = q
    BY <1>5, <1>6 DEF Lists
  <2> QED
    BY <1>10, <2>1
<1>15. \A i, j \in 1..n : g[i].place = g[j].place => i = j
  BY <1>5, <1>6, <1>10 DEF Lists
<1>16. ASSUME NEW i \in 1..n, NEW j \in 1..n, i # j PROVE g[i].labelled
  <2>1. g[i].place # g[j].place /\ g[i].place \in P /\ g[j].place \in P
    BY <1>13, <1>15, <1>16
  <2>2. /\ t \in Seq(Tags) /\ Len(t) \in Nat
        /\ Lists(t, {r \in AllTags(packs) : r.slash = s})
    BY <1>1, TaggedLists
  <2>3. ASSUME NEW q \in P PROVE \E k \in 1..Len(t) : t[k].place = q
    <3>1. [place |-> q, slash |-> s] \in {r \in AllTags(packs) : r.slash = s}
      BY <1>4, PlaceHasTag
    <3>2. PICK k \in 1..Len(t) : t[k] = [place |-> q, slash |-> s]
      BY <2>2, <3>1 DEF Lists
    <3> QED
      BY <3>2
  <2>4. PICK a \in 1..Len(t) : t[a].place = g[i].place
    BY <2>1, <2>3
  <2>5. PICK b \in 1..Len(t) : t[b].place = g[j].place
    BY <2>1, <2>3
  <2>6. a # b
    BY <2>1, <2>4, <2>5
  <2>7. Len(t) > 1
    BY <2>2, <2>6
  <2> QED
    BY <1>2, <1>10, <2>7
<1>17. Leads(g[1].place, packs, s, pin)
  BY <1>5, <1>10, <1>12
<1>18. GroupRight(g, packs, s)
  BY <1>4, <1>11, <1>12, <1>13, <1>14, <1>15, <1>16, <1>17 DEF GroupRight
<1> QED
  BY <1>8, <1>18

\* All the groups, in any order of the slash commands.
CommandsRight(c, packs) ==
  /\ c \in Seq(Rows) /\ Len(c) \in Nat
  /\ \A k \in 1..Len(c) : c[k].slash \in SlashNames /\ c[k].place \in Places(packs, c[k].slash)
  /\ \A s \in SlashNames : \A q \in Places(packs, s) :
       \E k \in 1..Len(c) : c[k].place = q /\ c[k].slash = s
  /\ \A k, l \in 1..Len(c) : c[k].place = c[l].place => k = l
  /\ \A k, l \in 1..Len(c) : k < l /\ c[k].slash = c[l].slash =>
       c[k].labelled /\ c[l].labelled /\ c[k + 1].slash = c[k].slash
  /\ \A k \in 1..Len(c) : (\A j \in 1..k - 1 : c[j].slash # c[k].slash) =>
       Leads(c[k].place, packs, c[k].slash, pin)

\* Every place in one row; the rows of a command together, the right one first.
LEMMA CommandsAreRight ==
  ASSUME NEW packs, Listed(packs), pin \in Pins, NEW o,
         o \in Seq(SlashNames), Len(o) \in Nat,
         Lists(o, {s \in SlashNames : Places(packs, s) # {}}),
         NEW c, c = Palette!FlattenSeq([i \in 1..Len(o) |-> Palette!Group(packs, o[i])])
  PROVE  CommandsRight(c, packs)
<1>1. PICK n \in Nat : n = Len(o)
  OBVIOUS
<1>2. \A i \in 1..n : o[i] \in SlashNames /\ Places(packs, o[i]) # {}
  BY <1>1 DEF Lists
<1>3. \A i, j \in 1..n : o[i] = o[j] => i = j
  BY <1>1 DEF Lists
<1>4. \A s \in SlashNames : Places(packs, s) # {} => \E i \in 1..n : o[i] = s
  BY <1>1 DEF Lists
<1>5. PICK ss : ss = [i \in 1..n |-> Palette!Group(packs, o[i])]
  OBVIOUS
<1>6. \A i \in 1..n : GroupRight(ss[i], packs, o[i])
  BY <1>2, <1>5, GroupIsRight
<1>7. ss \in Seq(Seq(Rows)) /\ Len(ss) = n
  <2>1. ss = [i \in 1..n |-> ss[i]]
    BY <1>5
  <2> DEFINE Q == Seq(Rows)
  <2> HIDE DEF Q
  <2>2. \A i \in 1..n : ss[i] \in Q
    BY <1>6 DEF Q, GroupRight
  <2>3. ss \in Seq(Q) /\ Len(ss) = n
    BY <2>1, <2>2, ListOf
  <2> QED
    BY <2>3 DEF Q
<1>8. c = Palette!FlattenSeq(ss)
  BY <1>1, <1>5
<1>9. c \in Seq(Rows) /\ Len(c) \in Nat
  BY <1>7, <1>8, Flattened, LenNat
<1>10. PICK row, col : Concat(ss, n, c, row, col)
  BY <1>7, <1>8, Flattened
<1>11. \A k \in 1..Len(c) : /\ row[k] \in 1..n /\ col[k] \in 1..Len(ss[row[k]])
                            /\ c[k] = ss[row[k]][col[k]]
  BY <1>10 DEF Concat
<1>12. \A k, l \in 1..Len(c) : k < l => row[k] < row[l] \/ (row[k] = row[l] /\ col[k] < col[l])
  BY <1>10 DEF Concat
<1>13. \A i \in 1..n : \A j \in 1..Len(ss[i]) : \E k \in 1..Len(c) : row[k] = i /\ col[k] = j
  BY <1>10 DEF Concat
<1>14. \A i \in 1..n : \A j \in 1..Len(ss[i]) :
         ss[i][j].slash = o[i] /\ ss[i][j].place \in Places(packs, o[i])
  BY <1>6 DEF GroupRight
<1>15. \A k \in 1..Len(c) : c[k].slash = o[row[k]] /\ c[k].place \in Places(packs, o[row[k]])
  <2> SUFFICES ASSUME NEW k \in 1..Len(c)
               PROVE  c[k].slash = o[row[k]] /\ c[k].place \in Places(packs, o[row[k]])
    OBVIOUS
  <2>1. PICK i \in 1..n : i = row[k]
    BY <1>11
  <2>2. PICK j \in 1..Len(ss[i]) : c[k] = ss[i][j]
    BY <1>11, <2>1
  <2>3. c[k].slash = o[i] /\ c[k].place \in Places(packs, o[i])
    BY <1>14, <2>2
  <2> QED
    BY <2>1, <2>3
<1>16. \A k \in 1..Len(c) : c[k].slash \in SlashNames /\ c[k].place \in Places(packs, c[k].slash)
  BY <1>2, <1>11, <1>15
<1>17. ASSUME NEW s \in SlashNames, NEW q \in Places(packs, s)
       PROVE  \E k \in 1..Len(c) : c[k].place = q /\ c[k].slash = s
  <2>1. PICK i \in 1..n : o[i] = s
    BY <1>4
  <2>2. PICK j \in 1..Len(ss[i]) : ss[i][j].place = q
    BY <1>6, <2>1 DEF GroupRight
  <2>3. PICK k \in 1..Len(c) : row[k] = i /\ col[k] = j
    BY <1>13
  <2> QED
    BY <1>11, <1>15, <2>1, <2>2, <2>3
<1>18. ASSUME NEW k \in 1..Len(c), NEW l \in 1..Len(c), c[k].slash = c[l].slash
       PROVE  row[k] = row[l]
  <2>1. row[k] \in 1..n /\ row[l] \in 1..n
    BY <1>11
  <2>2. o[row[k]] = o[row[l]]
    BY <1>15, <1>18
  <2> QED
    BY <1>3, <2>1, <2>2
<1>19. \A k \in 1..Len(c) : row[k] \in Int /\ col[k] \in Int
  BY <1>11
<1>20. ASSUME NEW k \in 1..Len(c), NEW l \in 1..Len(c), row[k] = row[l], col[k] = col[l]
       PROVE  k = l
  <2>1. ~(k < l) /\ ~(l < k)
    BY <1>12, <1>19, <1>20
  <2> QED
    BY <1>9, <2>1
<1>21. ASSUME NEW k \in 1..Len(c), NEW l \in 1..Len(c), c[k].place = c[l].place
       PROVE  k = l
  <2>1. c[k].slash = c[l].slash
    BY <1>16, <1>21, OneSlash
  <2>2. PICK i \in 1..n : i = row[k] /\ i = row[l]
    BY <1>11, <1>18, <2>1
  <2>3. /\ col[k] \in 1..Len(ss[i]) /\ c[k] = ss[i][col[k]]
        /\ col[l] \in 1..Len(ss[i]) /\ c[l] = ss[i][col[l]]
    BY <1>11, <2>2
  <2>4. ss[i][col[k]].place = ss[i][col[l]].place
    BY <1>21, <2>3
  <2>5. GroupRight(ss[i], packs, o[i])
    BY <1>6
  <2>6. col[k] = col[l]
    BY <2>3, <2>4, <2>5 DEF GroupRight
  <2> QED
    BY <1>20, <2>2, <2>6
<1>22. ASSUME NEW k \in 1..Len(c), NEW l \in 1..Len(c), k < l, c[k].slash = c[l].slash
       PROVE  c[k].labelled /\ c[l].labelled /\ c[k + 1].slash = c[k].slash
  <2>1. PICK i \in 1..n : i = row[k] /\ i = row[l]
    BY <1>11, <1>18, <1>22
  <2>2. /\ col[k] \in 1..Len(ss[i]) /\ c[k] = ss[i][col[k]]
        /\ col[l] \in 1..Len(ss[i]) /\ c[l] = ss[i][col[l]]
    BY <1>11, <2>1
  <2>3. col[k] # col[l]
    <3>1. k # l
      BY <1>9, <1>22
    <3> QED
      BY <1>20, <2>1, <3>1
  <2>4. GroupRight(ss[i], packs, o[i])
    BY <1>6
  <2>5. c[k].labelled /\ c[l].labelled
    BY <2>2, <2>3, <2>4 DEF GroupRight
  <2>6. k + 1 \in 1..Len(c) /\ k < k + 1 /\ (k + 1 < l \/ k + 1 = l)
    BY <1>9, <1>22
  <2>7. row[k] <= row[k + 1]
    <3>1. row[k] < row[k + 1] \/ row[k] = row[k + 1]
      BY <1>12, <2>6
    <3> QED
      BY <1>19, <2>6, <3>1
  <2>8. row[k + 1] <= row[l]
    <3>1. row[k + 1] < row[l] \/ row[k + 1] = row[l]
      BY <1>12, <2>6
    <3> QED
      BY <1>19, <2>6, <3>1
  <2>9. row[k + 1] = row[k]
    BY <1>19, <2>1, <2>6, <2>7, <2>8
  <2>10. c[k + 1].slash = c[k].slash
    BY <1>15, <2>6, <2>9
  <2> QED
    BY <2>5, <2>10
<1>23. ASSUME NEW k \in 1..Len(c), \A j \in 1..k - 1 : c[j].slash # c[k].slash
       PROVE  Leads(c[k].place, packs, c[k].slash, pin)
  <2>1. PICK i \in 1..n : i = row[k]
    BY <1>11
  <2>2. GroupRight(ss[i], packs, o[i])
    BY <1>6
  <2>3. 1 \in 1..Len(ss[i]) /\ Leads(ss[i][1].place, packs, o[i], pin)
    BY <2>2 DEF GroupRight
  <2>4. PICK h \in 1..Len(c) : row[h] = i /\ col[h] = 1
    BY <1>13, <2>3
  <2>5. c[h].slash = c[k].slash
    BY <1>15, <2>1, <2>4
  <2>6. ~(h < k)
    <3>1. h < k => h \in 1..k - 1
      BY <1>9
    <3> QED
      BY <1>23, <2>5, <3>1
  <2>7. ~(k < h)
    <3>1. k < h => row[k] < row[h] \/ col[k] < col[h]
      BY <1>12
    <3>2. col[k] >= 1
      BY <1>11, <2>1
    <3> QED
      BY <1>19, <2>1, <2>4, <3>1, <3>2
  <2>8. h = k
    BY <1>9, <2>6, <2>7
  <2>9. c[k] = ss[i][1] /\ c[k].slash = o[i]
    BY <1>11, <1>15, <2>1, <2>4, <2>8
  <2> QED
    BY <2>3, <2>9
<1> QED
  BY <1>9, <1>16, <1>17, <1>21, <1>22, <1>23 DEF CommandsRight

\* A home directory: lists of slash commands, names, requirements, and a pin.
HomeShape ==
  /\ user.form \in {"bad", "pack"} /\ user.slashes \in Seq(SlashNames \cup {Palette!Blank})
  /\ \A n \in Palette!PackNames :
       /\ dirs[n].slashes \in Seq(SlashNames \cup {Palette!Blank})
       /\ dirs[n].name \in DOMAIN Rank /\ dirs[n].requires \in Palette!RequirementTypes
  /\ pin \in Pins

\* Every home directory has that shape.
LEMMA HomesHaveShape == Palette!Init => HomeShape
<1> SUFFICES ASSUME Palette!Init PROVE HomeShape
  OBVIOUS
<1> DEFINE B == SlashNames \cup {Palette!Blank}
           Q == Seq(B)
<1>1. ASSUME NEW m \in Palette!Manifests PROVE m \in Q
  <2>1. PICK n \in 0..MaxFiles : m \in [1..n -> B]
    BY DEF Palette!Manifests
  <2>2. n \in Nat
    BY LocalAssumption DEF LocalAssumption, Palette!PaletteAssumption
  <2> HIDE DEF B
  <2> QED
    BY <2>1, <2>2
<1>2. <<>> \in Q
  OBVIOUS
<1>3. \A f, n, m, r :
        Palette!Entry(f, n, m, r).form = f /\ Palette!Entry(f, n, m, r).slashes = m
  BY DEF Palette!Entry
<1>4. user.form \in {"bad", "pack"} /\ user.slashes \in Q
  <2>1. \E f \in {"bad", "pack"}, m \in Q :
          user = Palette!Entry(f, Palette!UserScopeName, m, Palette!NoRequirement)
    <3> HIDE DEF Q
    <3> QED
      BY <1>1, <1>2 DEF Palette!Init
  <2> HIDE DEF Q
  <2> QED
    BY <1>3, <2>1
<1>5. ASSUME NEW n \in Palette!PackNames
      PROVE  /\ dirs[n].slashes \in Q
             /\ dirs[n].name \in DOMAIN Rank /\ dirs[n].requires \in Palette!RequirementTypes
  <2>1. /\ Homes \subseteq [Palette!PackNames ->
             [form : Palette!Forms, name : DOMAIN Rank, slashes : Q,
              requires : Palette!RequirementTypes]]
        /\ dirs \in Homes
    BY LocalAssumption DEF LocalAssumption, Palette!PaletteAssumption, Palette!Init
  <2> HIDE DEF Q
  <2>2. dirs[n] \in [form : Palette!Forms, name : DOMAIN Rank, slashes : Q,
                     requires : Palette!RequirementTypes]
    BY <2>1
  <2> QED
    BY <2>2
<1>6. pin \in Pins
  BY DEF Palette!Init, Pins
<1> QED
  BY <1>4, <1>5, <1>6 DEF HomeShape

\* The scopes by number, the user's first; and the names they give themselves.
NameAt(a) == IF a = 0 THEN Palette!UserScopeName ELSE PackOrder[a]
NameOf(n) == IF n = Palette!UserScopeName THEN Palette!UserScopeName ELSE dirs[n].name

\* The scopes that load, each once: o[i] is the number of the i-th; by number when
\* packs have their own names.
Discovered(packs, o) ==
  /\ packs \in Seq(ScopePacks) /\ Len(packs) \in Nat
  /\ \A i \in 1..Len(packs) :
       /\ o[i] \in 0..Len(PackOrder) /\ packs[i].dir = NameAt(o[i])
       /\ packs[i].name = NameOf(packs[i].dir)
       /\ Palette!Healthy(packs[i].dir) /\ packs[i].slashes = Palette!SlashesOf(packs[i].dir)
  /\ \A i, j \in 1..Len(packs) : o[i] = o[j] => i = j
  /\ Palette!NamesKept => \A i, j \in 1..Len(packs) : i < j => o[i] < o[j]
  /\ \A a \in 0..Len(PackOrder) : Palette!Healthy(NameAt(a)) => \E i \in 1..Len(packs) : o[i] = a

\* The packs that load, in the order of their directories.
FoundAs(d, row) ==
  /\ d \in Seq(ScopePacks) /\ Len(d) \in Nat
  /\ \A k \in 1..Len(d) :
       /\ row[k] \in 1..Len(PackOrder) /\ d[k].dir = PackOrder[row[k]]
       /\ d[k].name = dirs[d[k].dir].name /\ d[k].name \in DOMAIN Rank
       /\ Palette!Healthy(d[k].dir) /\ d[k].slashes = Palette!SlashesOf(d[k].dir)
  /\ \A j, k \in 1..Len(d) : j < k => row[j] < row[k]
  /\ \A i \in 1..Len(PackOrder) :
       Palette!Healthy(PackOrder[i]) => \E k \in 1..Len(d) : row[k] = i

\* Scopes have one number each, in the order of their names.
LEMMA Order ==
  /\ Len(PackOrder) \in Nat
  /\ \A a \in 1..Len(PackOrder) :
       PackOrder[a] \in Palette!PackNames /\ PackOrder[a] # Palette!UserScopeName
  /\ \A n \in Palette!PackNames : \E a \in 1..Len(PackOrder) : PackOrder[a] = n
  /\ \A a, b \in 0..Len(PackOrder) : NameAt(a) = NameAt(b) => a = b
  /\ \A a, b \in 1..Len(PackOrder) : a < b => Rank[PackOrder[a]] < Rank[PackOrder[b]]
<1>1. PICK A : A = DOMAIN Rank \ {Palette!UserScopeName}
  OBVIOUS
<1>2. /\ PackOrder \in Seq(A)
      /\ \A i, j \in DOMAIN PackOrder : i < j => Rank[PackOrder[i]] < Rank[PackOrder[j]]
      /\ \A m \in DOMAIN Rank : Rank[m] \in Nat
  BY <1>1, LocalAssumption DEF LocalAssumption, Palette!PaletteAssumption
<1>3. Len(PackOrder) \in Nat /\ DOMAIN PackOrder = 1..Len(PackOrder)
  BY <1>2
<1>4. \A a \in 1..Len(PackOrder) : PackOrder[a] \in Palette!PackNames /\ PackOrder[a] \in A
  BY <1>2, <1>3 DEF Palette!PackNames, Palette!Range
<1>5. \A n \in Palette!PackNames : \E a \in 1..Len(PackOrder) : PackOrder[a] = n
  BY <1>3 DEF Palette!PackNames, Palette!Range
<1>6. \A a \in 1..Len(PackOrder) : PackOrder[a] # Palette!UserScopeName
  BY <1>1, <1>4
<1>7. ASSUME NEW a \in 1..Len(PackOrder), NEW b \in 1..Len(PackOrder), PackOrder[a] = PackOrder[b]
      PROVE  a = b
  <2>1. Rank[PackOrder[a]] \in Nat
    BY <1>1, <1>2, <1>4
  <2>2. ~(a < b) /\ ~(b < a)
    BY <1>2, <1>3, <1>7, <2>1
  <2>3. a \in Int /\ b \in Int
    OBVIOUS
  <2> QED
    BY <2>2, <2>3
<1>8. ASSUME NEW a \in 0..Len(PackOrder), NEW b \in 0..Len(PackOrder), NameAt(a) = NameAt(b)
      PROVE  a = b
  <2>1. a \in 1..Len(PackOrder) \/ a = 0
    BY <1>3
  <2>2. b \in 1..Len(PackOrder) \/ b = 0
    BY <1>3
  <2> QED
    BY <1>6, <1>7, <1>8, <2>1, <2>2 DEF NameAt
<1> QED
  BY <1>2, <1>3, <1>4, <1>5, <1>6, <1>8

\* Comparing versions is by major, minor and patch.
LEMMA Compared ==
  ASSUME NEW v \in Palette!Versions, NEW w \in Palette!Versions
  PROVE  /\ Palette!Compare(v, w) \in {-1, 0, 1}
         /\ Palette!Compare(v, w) = 0 <=> v = w
         /\ Palette!Compare(v, w) = -1 <=> Palette!Earlier(v, w)
         /\ Palette!Compare(v, w) = 1 <=> Palette!Earlier(w, v)
<1> DEFINE differ == {i \in 1..3 : v[i] # w[i]}
           First(i) == i \in differ /\ \A j \in differ : i <= j
<1>0. /\ v[1] \in Nat /\ v[2] \in Nat /\ v[3] \in Nat
      /\ w[1] \in Nat /\ w[2] \in Nat /\ w[3] \in Nat
      /\ v = <<v[1], v[2], v[3]>> /\ w = <<w[1], w[2], w[3]>>
  BY DEF Palette!Versions
<1>1. Palette!Compare(v, w) = IF differ = {} THEN 0
        ELSE LET i == CHOOSE i \in differ : \A j \in differ : i <= j
             IN IF v[i] < w[i] THEN -1 ELSE 1
  BY DEF Palette!Compare
<1>2. 1..3 = {1, 2, 3}
  OBVIOUS
<1>3. \A i \in {1, 2, 3} : i \in differ <=> v[i] # w[i]
  BY <1>2
<1>4. differ \subseteq {1, 2, 3}
  BY <1>2
<1> HIDE DEF differ
<1>5. CASE v[1] # w[1]
  <2>1. (CHOOSE i \in differ : \A j \in differ : i <= j) = 1
    <3>1. 1 \in differ /\ \A j \in differ : 1 <= j
      BY <1>3, <1>4, <1>5
    <3>2. \A i \in differ : (\A j \in differ : i <= j) => i = 1
      BY <1>4, <3>1
    <3> QED
      BY <3>1, <3>2
  <2>2. differ # {}
    BY <1>3, <1>5
  <2>3. Palette!Compare(v, w) = IF v[1] < w[1] THEN -1 ELSE 1
    BY <1>1, <2>1, <2>2
  <2> QED
    BY <1>0, <1>5, <2>3 DEF Palette!Earlier
<1>6. CASE v[1] = w[1] /\ v[2] # w[2]
  <2>1. (CHOOSE i \in differ : \A j \in differ : i <= j) = 2
    <3>1. 2 \in differ /\ \A j \in differ : 2 <= j
      BY <1>3, <1>4, <1>6
    <3>2. \A i \in differ : (\A j \in differ : i <= j) => i = 2
      BY <1>4, <3>1
    <3> QED
      BY <3>1, <3>2
  <2>2. differ # {}
    BY <1>3, <1>6
  <2>3. Palette!Compare(v, w) = IF v[2] < w[2] THEN -1 ELSE 1
    BY <1>1, <2>1, <2>2
  <2> QED
    BY <1>0, <1>6, <2>3 DEF Palette!Earlier
<1>7. CASE v[1] = w[1] /\ v[2] = w[2] /\ v[3] # w[3]
  <2>1. (CHOOSE i \in differ : \A j \in differ : i <= j) = 3
    <3>1. 3 \in differ /\ \A j \in differ : 3 <= j
      BY <1>3, <1>4, <1>7
    <3>2. \A i \in differ : (\A j \in differ : i <= j) => i = 3
      BY <1>4, <3>1
    <3> QED
      BY <3>1, <3>2
  <2>2. differ # {}
    BY <1>3, <1>7
  <2>3. Palette!Compare(v, w) = IF v[3] < w[3] THEN -1 ELSE 1
    BY <1>1, <2>1, <2>2
  <2> QED
    BY <1>0, <1>7, <2>3 DEF Palette!Earlier
<1>8. CASE v[1] = w[1] /\ v[2] = w[2] /\ v[3] = w[3]
  <2>1. differ = {}
    BY <1>3, <1>4, <1>8
  <2>2. Palette!Compare(v, w) = 0 /\ v = w
    BY <1>0, <1>1, <1>8, <2>1
  <2> QED
    BY <1>0, <2>2 DEF Palette!Earlier
<1> QED
  BY <1>5, <1>6, <1>7, <1>8

\* A comparator matches the versions it means,
LEMMA Matched ==
  ASSUME NEW c \in [op : Palette!Operators, target : Palette!Versions],
         NEW v \in Palette!Versions
  PROVE  Palette!MatchComparator(c, v) <=> Palette!Allows(c, v)
<1> DEFINE t == c.target
           cmp == Palette!Compare(v, t)
<1>1. t \in Palette!Versions /\ c.op \in {"=", "!=", ">", ">=", "<", "<=", "^", "~"}
  BY DEF Palette!Operators
<1>2. /\ v[1] \in Nat /\ v[2] \in Nat /\ v[3] \in Nat
      /\ t[1] \in Nat /\ t[2] \in Nat /\ t[3] \in Nat
  BY <1>1 DEF Palette!Versions
<1>3. /\ cmp \in {-1, 0, 1} /\ (cmp = 0 <=> v = t)
      /\ (cmp = -1 <=> Palette!Earlier(v, t)) /\ (cmp = 1 <=> Palette!Earlier(t, v))
  BY <1>1, Compared
<1> HIDE DEF cmp
<1>4. ASSUME ~Palette!Earlier(v, t)
      PROVE  /\ v[1] = t[1] <=> Palette!Earlier(v, <<t[1] + 1, 0, 0>>)
             /\ v[1] = t[1] /\ v[2] = t[2] <=> Palette!Earlier(v, <<t[1], t[2] + 1, 0>>)
  BY <1>2, <1>4 DEF Palette!Earlier
<1>5. /\ cmp = 0 <=> v = t
      /\ cmp # 0 <=> v # t
      /\ cmp > 0 <=> Palette!Earlier(t, v)
      /\ cmp >= 0 <=> ~Palette!Earlier(v, t)
      /\ cmp < 0 <=> Palette!Earlier(v, t)
      /\ cmp <= 0 <=> ~Palette!Earlier(t, v)
  BY <1>3
<1>6. Palette!MatchComparator(c, v) = 
        CASE c.op = "="  -> cmp = 0
          [] c.op = "!=" -> cmp # 0
          [] c.op = ">"  -> cmp > 0
          [] c.op = ">=" -> cmp >= 0
          [] c.op = "<"  -> cmp < 0
          [] c.op = "<=" -> cmp <= 0
          [] c.op = "^"  -> cmp >= 0 /\ v[1] = t[1]
          [] c.op = "~"  -> cmp >= 0 /\ v[1] = t[1] /\ v[2] = t[2]
  BY DEF Palette!MatchComparator, cmp
<1> HIDE DEF t
<1>7. Palette!Allows(c, v) <=>
     /\ c.op = "="  => v = t
     /\ c.op = "!=" => v # t
     /\ c.op = ">"  => Palette!Earlier(t, v)
     /\ c.op = ">=" => ~Palette!Earlier(v, t)
     /\ c.op = "<"  => Palette!Earlier(v, t)
     /\ c.op = "<=" => ~Palette!Earlier(t, v)
     /\ c.op = "^"  => ~Palette!Earlier(v, t) /\ Palette!Earlier(v, <<t[1] + 1, 0, 0>>)
     /\ c.op = "~"  => ~Palette!Earlier(v, t) /\ Palette!Earlier(v, <<t[1], t[2] + 1, 0>>)
  BY DEF Palette!Allows, Palette!From, t
<1> QED
  BY <1>1, <1>4, <1>5, <1>6, <1>7

\* and a requirement those it suits.
LEMMA CheckSuits ==
  ASSUME NEW r \in Palette!RequirementTypes
  PROVE  Palette!Check(r) <=> Palette!Suits(r)
<1>1. Running = Palette!DevBuild \/ Running \in Palette!Versions
  BY LocalAssumption DEF LocalAssumption, Palette!PaletteAssumption
<1>2. PICK C, cs : C = [op : Palette!Operators, target : Palette!Versions] /\ cs = r.app
  OBVIOUS
<1>3. cs \in Seq(C)
  BY <1>2 DEF Palette!RequirementTypes
<1>4. \A i \in 1..Len(cs) : cs[i] \in C
  BY <1>3
<1>5. Running \in Palette!Versions =>
        \A i \in 1..Len(cs) : Palette!MatchComparator(cs[i], Running) <=> Palette!Allows(cs[i], Running)
  BY <1>2, <1>4, Matched
<1> QED
  BY <1>1, <1>2, <1>5 DEF Palette!Check, Palette!Suits, Palette!MatchConstraint

\* What loads is found in the order of the directories.
LEMMA PacksFound ==
  ASSUME HomeShape
  PROVE  \E row : FoundAs(Palette!Found, row)
<1>1. PICK n \in Nat : n = Len(PackOrder)
  BY Order
<1>2. PICK x : x = [i \in 1..n |->
        Palette!Pack(dirs[PackOrder[i]].name, PackOrder[i], dirs[PackOrder[i]].slashes)]
  OBVIOUS
<1>3. PICK ss : ss = [i \in 1..n |->
        Palette!OnlyIf(Palette!Loads(dirs[PackOrder[i]]),
          Palette!Pack(dirs[PackOrder[i]].name, PackOrder[i], dirs[PackOrder[i]].slashes))]
  OBVIOUS
<1>4. \A m, e, z : /\ Palette!Pack(m, e, z).name = m /\ Palette!Pack(m, e, z).dir = e
                   /\ Palette!Pack(m, e, z).slashes = z
  BY DEF Palette!Pack
<1>6. ASSUME NEW i \in 1..n
      PROVE  /\ x[i] \in ScopePacks /\ x[i].dir = PackOrder[i]
             /\ x[i].name = dirs[PackOrder[i]].name /\ x[i].name \in DOMAIN Rank
             /\ x[i].slashes = Palette!SlashesOf(PackOrder[i])
             /\ Palette!Healthy(PackOrder[i]) <=> Palette!Loads(dirs[PackOrder[i]])
  <2>1. PackOrder[i] \in Palette!PackNames /\ PackOrder[i] # Palette!UserScopeName
    BY <1>1, Order
  <2>2. /\ dirs[PackOrder[i]].slashes \in Seq(SlashNames \cup {Palette!Blank})
        /\ dirs[PackOrder[i]].name \in DOMAIN Rank
        /\ dirs[PackOrder[i]].requires \in Palette!RequirementTypes
    BY <2>1 DEF HomeShape
  <2>3. x[i] = Palette!Pack(dirs[PackOrder[i]].name, PackOrder[i], dirs[PackOrder[i]].slashes)
    BY <1>2
  <2>4. x[i] \in ScopePacks
    <3> DEFINE Q == Seq(SlashNames \cup {Palette!Blank})
    <3>1. /\ dirs[PackOrder[i]].slashes \in Q /\ dirs[PackOrder[i]].name \in Names
          /\ PackOrder[i] \in ScopeNames
      BY <2>1, <2>2 DEF ScopeNames, Names
    <3> HIDE DEF Q
    <3>2. x[i] \in [name : Names, dir : ScopeNames, slashes : Q]
      BY <2>3, <3>1 DEF Palette!Pack
    <3> QED
      BY <3>2 DEF ScopePacks, Q
  <2>5. Palette!SlashesOf(PackOrder[i]) = dirs[PackOrder[i]].slashes
    BY <2>1 DEF Palette!SlashesOf
  <2>6. Palette!Healthy(PackOrder[i]) <=> Palette!Loads(dirs[PackOrder[i]])
    BY <2>1, <2>2, CheckSuits DEF Palette!Healthy, Palette!Loads
  <2> QED
    BY <1>4, <2>2, <2>3, <2>4, <2>5, <2>6
<1>7. ASSUME NEW i \in 1..n
      PROVE  IF Palette!Loads(dirs[PackOrder[i]]) THEN ss[i] = <<x[i]>> /\ ss[i] # <<>>
             ELSE ss[i] = <<>>
  <2>1. ss[i] = Palette!OnlyIf(Palette!Loads(dirs[PackOrder[i]]), x[i])
    BY <1>2, <1>3
  <2> QED
    BY <2>1 DEF Palette!OnlyIf
<1>8. ASSUME NEW i \in 1..n PROVE ss[i] \in Seq(ScopePacks)
  <2>1. PICK v \in ScopePacks : v = x[i]
    BY <1>6
  <2>2. <<v>> \in Seq(ScopePacks) /\ <<>> \in Seq(ScopePacks)
    OBVIOUS
  <2> QED
    BY <1>7, <2>1, <2>2
<1>9. ss \in Seq(Seq(ScopePacks)) /\ Len(ss) = n
  <2>1. ss = [i \in 1..n |-> ss[i]]
    BY <1>3
  <2> DEFINE Q == Seq(ScopePacks)
  <2> HIDE DEF Q
  <2>2. \A i \in 1..n : ss[i] \in Q
    BY <1>8 DEF Q
  <2>3. ss \in Seq(Q) /\ Len(ss) = n
    BY <2>1, <2>2, ListOf
  <2> QED
    BY <2>3 DEF Q
<1>10. PICK d : d = Palette!Found
  OBVIOUS
<1>11. d = Palette!FlattenSeq(ss)
  BY <1>1, <1>3, <1>10 DEF Palette!Found
<1>12. \A i \in 1..Len(ss) : ss[i] = <<>> \/ ss[i] = <<x[i]>>
  BY <1>7, <1>9
<1>13. PICK row : Remains(ss, x, d, row)
  BY <1>9, <1>11, <1>12, Filtered
<1>14. d \in Seq(ScopePacks)
  BY <1>9, <1>11, Flattened
<1>15. PICK l \in Nat : l = Len(d)
  BY <1>14, LenNat
<1>16. \A k \in 1..l : row[k] \in 1..n /\ Palette!Loads(dirs[PackOrder[row[k]]]) /\ d[k] = x[row[k]]
  <2>1. \A k \in 1..l : row[k] \in 1..n /\ ss[row[k]] # <<>> /\ d[k] = x[row[k]]
    BY <1>9, <1>13, <1>15 DEF Remains
  <2> QED
    BY <1>7, <2>1
<1>17. \A j, k \in 1..l : j < k => row[j] < row[k]
  BY <1>13, <1>15 DEF Remains
<1>18. \A i \in 1..n : Palette!Loads(dirs[PackOrder[i]]) => \E k \in 1..l : row[k] = i
  <2>1. \A i \in 1..n : ss[i] # <<>> => \E k \in 1..l : row[k] = i
    BY <1>9, <1>13, <1>15 DEF Remains
  <2> QED
    BY <1>7, <2>1
<1>19. ASSUME NEW k \in 1..l
       PROVE  /\ row[k] \in 1..n /\ d[k].dir = PackOrder[row[k]]
              /\ d[k].name = dirs[d[k].dir].name /\ d[k].name \in DOMAIN Rank
              /\ Palette!Healthy(d[k].dir) /\ d[k].slashes = Palette!SlashesOf(d[k].dir)
  <2>1. PICK i \in 1..n : i = row[k] /\ d[k] = x[i] /\ Palette!Loads(dirs[PackOrder[i]])
    BY <1>16
  <2> QED
    BY <1>6, <2>1
<1>20. \A i \in 1..n : Palette!Healthy(PackOrder[i]) => \E k \in 1..l : row[k] = i
  BY <1>6, <1>18
<1>21. FoundAs(d, row)
  BY <1>1, <1>14, <1>15, <1>17, <1>19, <1>20 DEF FoundAs
<1> QED
  BY <1>10, <1>21

\* Sorting: e is d in another order, the one with j sooner ones the j + 1st.
Sorts(e, d, l, at) ==
  /\ e = [k \in 1..l |-> d[at[k]]]
  /\ \A k \in 1..l : at[k] \in 1..l /\ Cardinality(Palette!Sooner(d, at[k])) = k - 1
  /\ \A j, k \in 1..l : at[j] = at[k] => j = k
  /\ \A i \in 1..l : \E k \in 1..l : at[k] = i

\* (The palette counts as everyone does.)
LEMMA SameCount == ASSUME NEW S PROVE Palette!Cardinality(S) = Cardinality(S)
BY DEF Palette!Cardinality, Cardinality

LEMMA Sorted ==
  ASSUME NEW d, NEW l \in Nat, l = Len(d), \A i \in 1..l : d[i].name \in DOMAIN Rank
  PROVE  \E at : Sorts(Palette!SortByName(d), d, l, at)
<1>0. \A m, n \in DOMAIN Rank : Rank[m] \in Nat /\ (Rank[m] = Rank[n] => m = n)
  BY LocalAssumption DEF LocalAssumption, Palette!PaletteAssumption
<1>1. PICK S, r : /\ S = [i \in 1..l |-> Palette!Sooner(d, i)]
                  /\ r = [i \in 1..l |-> Rank[d[i].name]]
  OBVIOUS
<1>2. \A i \in 1..l : r[i] \in Nat
  BY <1>0, <1>1
<1>3. \A i, j \in 1..l : j \in S[i] <=> r[j] < r[i] \/ (r[j] = r[i] /\ j < i)
  <2> SUFFICES ASSUME NEW i \in 1..l, NEW j \in 1..l
               PROVE  j \in S[i] <=> r[j] < r[i] \/ (r[j] = r[i] /\ j < i)
    OBVIOUS
  <2>1. S[i] = {k \in 1..l : \/ Rank[d[k].name] < Rank[d[i].name]
                             \/ d[k].name = d[i].name /\ k < i}
    BY <1>1 DEF Palette!Sooner
  <2>2. r[j] = Rank[d[j].name] /\ r[i] = Rank[d[i].name]
    BY <1>1
  <2>3. r[j] = r[i] <=> d[j].name = d[i].name
    BY <1>0, <2>2
  <2> QED
    BY <2>1, <2>2, <2>3
<1>4. \A i \in 1..l : S[i] \subseteq 1..l
  BY <1>1 DEF Palette!Sooner
<1>5. \A i \in 1..l : i \notin S[i]
  BY <1>2, <1>3
<1>6. \A i, j \in 1..l : i # j => i \in S[j] \/ j \in S[i]
  BY <1>2, <1>3
<1>7. \A i, j \in 1..l : i \in S[j] => \A k \in S[i] : k \in S[j]
  <2> SUFFICES ASSUME NEW i \in 1..l, NEW j \in 1..l, i \in S[j], NEW k \in S[i]
               PROVE  k \in S[j]
    OBVIOUS
  <2>1. k \in 1..l
    BY <1>4
  <2> QED
    BY <1>2, <1>3, <2>1
<1>8. PICK f : f = [i \in 1..l |-> Cardinality(S[i])]
  OBVIOUS
<1>9. IsFiniteSet(1..l) /\ Cardinality(1..l) = l
  <2>1. 1 \in Int /\ l \in Int
    OBVIOUS
  <2>2. IsFiniteSet(1..l) /\ Cardinality(1..l) = IF 1 > l THEN 0 ELSE l - 1 + 1
    BY <2>1, FS_Interval
  <2> QED
    BY <2>2
<1>10. ASSUME NEW i \in 1..l PROVE IsFiniteSet(S[i]) /\ f[i] \in 0..l - 1
  <2>1. IsFiniteSet((1..l) \ {i}) /\ Cardinality((1..l) \ {i}) = l - 1
    BY <1>9, FS_RemoveElement
  <2>2. S[i] \in SUBSET ((1..l) \ {i})
    BY <1>4, <1>5
  <2>3. IsFiniteSet(S[i]) /\ Cardinality(S[i]) <= l - 1
    BY <2>1, <2>2, FS_Subset
  <2>4. Cardinality(S[i]) \in Nat
    BY <2>3, FS_CardinalityType
  <2>5. f[i] = Cardinality(S[i])
    BY <1>8
  <2> QED
    BY <2>3, <2>4, <2>5
<1>11. ASSUME NEW i \in 1..l, NEW j \in 1..l, i \in S[j] PROVE f[i] < f[j]
  <2>1. S[i] \cup {i} \in SUBSET S[j]
    BY <1>7, <1>11
  <2>2. Cardinality(S[i] \cup {i}) = Cardinality(S[i]) + 1
    BY <1>5, <1>10, FS_AddElement
  <2>3. Cardinality(S[i] \cup {i}) <= Cardinality(S[j])
    BY <1>10, <2>1, FS_Subset
  <2>4. f[i] = Cardinality(S[i]) /\ f[j] = Cardinality(S[j]) /\ f[i] \in Int /\ f[j] \in Int
    BY <1>8, <1>10
  <2> QED
    BY <2>2, <2>3, <2>4
<1>12. \A i, j \in 1..l : f[i] = f[j] => i = j
  <2> SUFFICES ASSUME NEW i \in 1..l, NEW j \in 1..l, f[i] = f[j], i # j PROVE FALSE
    OBVIOUS
  <2>1. f[i] < f[j] \/ f[j] < f[i]
    BY <1>6, <1>11
  <2>2. f[i] \in Int
    BY <1>10
  <2> QED
    BY <2>1, <2>2
<1>13. \A m \in 0..l - 1 : \E i \in 1..l : f[i] = m
  <2>1. f \in [1..l -> 0..l - 1]
    BY <1>8, <1>10
  <2>2. f \in Injection(1..l, 0..l - 1)
    BY <1>12, <2>1 DEF Injection, IsInjective
  <2>3. IsFiniteSet(0..l - 1) /\ Cardinality(0..l - 1) = l
    <3>1. 0 \in Int /\ l - 1 \in Int
      OBVIOUS
    <3>2. /\ IsFiniteSet(0..l - 1)
          /\ Cardinality(0..l - 1) = IF 0 > l - 1 THEN 0 ELSE (l - 1) - 0 + 1
      BY <3>1, FS_Interval
    <3> QED
      BY <3>2
  <2>4. f \in Surjection(1..l, 0..l - 1)
    BY <1>9, <2>2, <2>3, FS_Injection
  <2> QED
    BY <2>4 DEF Surjection
<1>14. PICK at : at = [k \in 1..l |->
                       CHOOSE i \in 1..l : Palette!Cardinality(Palette!Sooner(d, i)) = k - 1]
  OBVIOUS
<1>15. ASSUME NEW k \in 1..l PROVE at[k] \in 1..l /\ f[at[k]] = k - 1
  <2>1. k - 1 \in 0..l - 1
    OBVIOUS
  <2>2. PICK i \in 1..l : f[i] = k - 1
    BY <1>13, <2>1
  <2>3. ASSUME NEW j \in 1..l PROVE f[j] = Palette!Cardinality(Palette!Sooner(d, j))
    <3>1. f[j] = Cardinality(Palette!Sooner(d, j))
      BY <1>1, <1>8
    <3> QED
      BY <3>1, SameCount
  <2>4. Palette!Cardinality(Palette!Sooner(d, i)) = k - 1
    BY <2>2, <2>3
  <2>5. at[k] \in 1..l /\ Palette!Cardinality(Palette!Sooner(d, at[k])) = k - 1
    BY <1>14, <2>4
  <2> QED
    BY <2>3, <2>5
<1>16. ASSUME NEW k \in 1..l PROVE Cardinality(Palette!Sooner(d, at[k])) = k - 1
  BY <1>1, <1>8, <1>15
<1>17. \A j, k \in 1..l : at[j] = at[k] => j = k
  BY <1>15
<1>18. ASSUME NEW i \in 1..l PROVE \E k \in 1..l : at[k] = i
  <2>1. PICK k \in 1..l : f[i] = k - 1
    <3>1. f[i] + 1 \in 1..l /\ (f[i] + 1) - 1 = f[i]
      BY <1>10
    <3> QED
      BY <3>1
  <2> QED
    BY <1>12, <1>15, <2>1
<1>19. Palette!SortByName(d) = [k \in 1..l |-> d[at[k]]]
  BY <1>14 DEF Palette!SortByName
<1>20. Sorts(Palette!SortByName(d), d, l, at)
  <2>1. \A k \in 1..l : at[k] \in 1..l /\ Cardinality(Palette!Sooner(d, at[k])) = k - 1
    BY <1>15, <1>16
  <2>2. \A i \in 1..l : \E k \in 1..l : at[k] = i
    BY <1>18
  <2> QED
    BY <1>17, <1>19, <2>1, <2>2 DEF Sorts
<1> QED
  BY <1>20

\* A list that is in order stays as it is.
InOrder(d, l) ==
  /\ \A i \in 1..l : Rank[d[i].name] \in Nat
  /\ \A i, j \in 1..l : i < j => Rank[d[i].name] < Rank[d[j].name]
InPlace(at, l) == \A k \in 1..l : at[k] = k

LEMMA SortedAlready ==
  ASSUME NEW e, NEW d, NEW l \in Nat, l = Len(d), NEW at, Sorts(e, d, l, at), InOrder(d, l)
  PROVE  InPlace(at, l)
<1> SUFFICES ASSUME NEW k \in 1..l PROVE at[k] = k
  BY DEF InPlace
<1>0. /\ \A i \in 1..l : Rank[d[i].name] \in Nat
      /\ \A i, j \in 1..l : i < j => Rank[d[i].name] < Rank[d[j].name]
  BY DEF InOrder
<1>1. PICK i \in 1..l : i = at[k] /\ Cardinality(Palette!Sooner(d, i)) = k - 1
  BY DEF Sorts
<1>2. \A j \in 1..l : Rank[d[j].name] < Rank[d[i].name] <=> j < i
  <2>1. PICK r : r = [j \in 1..l |-> Rank[d[j].name]]
    OBVIOUS
  <2>2. \A j \in 1..l : r[j] = Rank[d[j].name] /\ r[j] \in Nat
    BY <1>0, <2>1
  <2>3. \A j, h \in 1..l : j < h => r[j] < r[h]
    BY <1>0, <2>2
  <2>4. \A j \in 1..l : r[j] < r[i] <=> j < i
    BY <2>2, <2>3
  <2> QED
    BY <2>2, <2>4
<1>3. Palette!Sooner(d, i) = 1..i - 1
  <2>1. \A j \in 1..l : j \in Palette!Sooner(d, i) <=> j < i
    BY <1>2 DEF Palette!Sooner
  <2>2. Palette!Sooner(d, i) \subseteq 1..l
    BY DEF Palette!Sooner
  <2>3. \A j : j \in 1..i - 1 <=> j \in 1..l /\ j < i
    OBVIOUS
  <2> QED
    BY <2>1, <2>2, <2>3
<1>4. Cardinality(1..i - 1) = i - 1
  <2>1. 1 \in Int /\ i - 1 \in Int
    OBVIOUS
  <2>2. Cardinality(1..i - 1) = IF 1 > i - 1 THEN 0 ELSE (i - 1) - 1 + 1
    BY <2>1, FS_Interval
  <2> QED
    BY <2>2
<1> QED
  BY <1>1, <1>3, <1>4

\* What Discover returns.
DiscoverRight(e, r) ==
  /\ e \in Seq(ScopePacks) /\ Len(e) \in Nat
  /\ \A k \in 1..Len(e) :
       /\ r[k] \in 1..Len(PackOrder) /\ e[k].dir = NameAt(r[k])
       /\ e[k].name = NameOf(e[k].dir)
       /\ Palette!Healthy(e[k].dir) /\ e[k].slashes = Palette!SlashesOf(e[k].dir)
  /\ \A j, k \in 1..Len(e) : r[j] = r[k] => j = k
  /\ Palette!NamesKept => \A j, k \in 1..Len(e) : j < k => r[j] < r[k]
  /\ \A i \in 1..Len(PackOrder) :
       Palette!Healthy(PackOrder[i]) => \E k \in 1..Len(e) : r[k] = i

LEMMA DiscoverIsRight ==
  ASSUME HomeShape
  PROVE  \E r : DiscoverRight(Palette!Discover, r)
<1>1. PICK d, row : d = Palette!Found /\ FoundAs(d, row)
  BY PacksFound
<1>2. PICK l \in Nat : l = Len(d)
  BY <1>1 DEF FoundAs
<1>3. PICK n \in Nat : n = Len(PackOrder)
  BY Order
<1>4. \A k \in 1..l : /\ d[k] \in ScopePacks
                      /\ row[k] \in 1..n /\ d[k].dir = PackOrder[row[k]]
                      /\ d[k].name = dirs[d[k].dir].name /\ d[k].name \in DOMAIN Rank
                      /\ Palette!Healthy(d[k].dir) /\ d[k].slashes = Palette!SlashesOf(d[k].dir)
  <2>1. d \in Seq(ScopePacks)
    BY <1>1 DEF FoundAs
  <2>2. \A k \in 1..l : d[k] \in ScopePacks
    BY <1>2, <2>1
  <2> QED
    BY <1>1, <1>2, <1>3, <2>2 DEF FoundAs
<1>5. \A j, k \in 1..l : j < k => row[j] < row[k]
  BY <1>1, <1>2 DEF FoundAs
<1>6. \A i \in 1..n : Palette!Healthy(PackOrder[i]) => \E k \in 1..l : row[k] = i
  BY <1>1, <1>2, <1>3 DEF FoundAs
<1>7. PICK e : e = Palette!Discover
  OBVIOUS
<1>8. e = Palette!SortByName(d)
  BY <1>1, <1>7 DEF Palette!Discover
<1>9. PICK at : Sorts(e, d, l, at)
  BY <1>2, <1>4, <1>8, Sorted
<1>10. /\ e = [k \in 1..l |-> d[at[k]]]
       /\ \A k \in 1..l : at[k] \in 1..l
       /\ \A j, k \in 1..l : at[j] = at[k] => j = k
       /\ \A i \in 1..l : \E k \in 1..l : at[k] = i
  BY <1>9 DEF Sorts
<1>11. e \in Seq(ScopePacks) /\ Len(e) = l
  <2>1. e = [k \in 1..l |-> e[k]] /\ \A k \in 1..l : e[k] \in ScopePacks
    BY <1>4, <1>10
  <2> QED
    BY <2>1, ListOf
<1>12. PICK r : r = [k \in 1..l |-> row[at[k]]]
  OBVIOUS
<1>13. ASSUME NEW k \in 1..l
       PROVE  /\ r[k] \in 1..n /\ e[k].dir = NameAt(r[k]) /\ e[k].name = NameOf(e[k].dir)
              /\ Palette!Healthy(e[k].dir) /\ e[k].slashes = Palette!SlashesOf(e[k].dir)
  <2>1. PICK i \in 1..l : i = at[k]
    BY <1>10
  <2>2. e[k] = d[i] /\ r[k] = row[i]
    BY <1>10, <1>12, <2>1
  <2>3. row[i] \in 1..n /\ row[i] # 0
    BY <1>4
  <2>4. d[i].dir = NameAt(row[i])
    BY <1>4, <2>3 DEF NameAt
  <2>5. d[i].dir # Palette!UserScopeName
    BY <1>3, <1>4, <2>3, Order
  <2>6. d[i].name = NameOf(d[i].dir)
    BY <1>4, <2>5 DEF NameOf
  <2> QED
    BY <1>4, <2>2, <2>3, <2>4, <2>6
<1>14. \A j, k \in 1..l : row[j] = row[k] => j = k
  <2> SUFFICES ASSUME NEW j \in 1..l, NEW k \in 1..l, row[j] = row[k] PROVE j = k
    OBVIOUS
  <2>1. row[k] \in Int
    BY <1>4
  <2>2. ~(j < k) /\ ~(k < j)
    BY <1>5, <2>1
  <2> QED
    BY <2>2
<1>15. \A j, k \in 1..l : r[j] = r[k] => j = k
  BY <1>10, <1>12, <1>14
<1>16. ASSUME NEW i \in 1..n, Palette!Healthy(PackOrder[i])
       PROVE  \E k \in 1..l : r[k] = i
  <2>1. PICK m \in 1..l : row[m] = i
    BY <1>6, <1>16
  <2>2. PICK k \in 1..l : at[k] = m
    BY <1>10
  <2> QED
    BY <1>12, <2>1, <2>2
<1>17. ASSUME Palette!NamesKept PROVE \A j, k \in 1..l : j < k => r[j] < r[k]
  <2>1. \A k \in 1..l : d[k].name = PackOrder[row[k]]
    <3> SUFFICES ASSUME NEW k \in 1..l PROVE d[k].name = PackOrder[row[k]]
      OBVIOUS
    <3>1. d[k].dir \in Palette!PackNames
      BY <1>3, <1>4, Order
    <3>2. dirs[d[k].dir].name = d[k].dir
      BY <1>4, <1>17, <3>1 DEF Palette!NamesKept
    <3> QED
      BY <1>4, <3>2
  <2>2. \A i \in 1..l : Rank[d[i].name] \in Nat
    <3>1. \A m \in DOMAIN Rank : Rank[m] \in Nat
      BY LocalAssumption DEF LocalAssumption, Palette!PaletteAssumption
    <3> QED
      BY <1>4, <3>1
  <2>3. \A i, j \in 1..l : i < j => Rank[d[i].name] < Rank[d[j].name]
    <3> SUFFICES ASSUME NEW i \in 1..l, NEW j \in 1..l, i < j
                 PROVE  Rank[d[i].name] < Rank[d[j].name]
      OBVIOUS
    <3>1. PICK a \in 1..Len(PackOrder), b \in 1..Len(PackOrder) : a = row[i] /\ b = row[j]
      BY <1>3, <1>4
    <3>2. a < b
      BY <1>5, <3>1
    <3>3. Rank[PackOrder[a]] < Rank[PackOrder[b]]
      BY <3>2, Order
    <3> QED
      BY <2>1, <3>1, <3>3
  <2>4. \A k \in 1..l : at[k] = k
    <3>1. InOrder(d, l)
      BY <2>2, <2>3 DEF InOrder
    <3>2. InPlace(at, l)
      BY ONLY <1>2, <1>9, <3>1, SortedAlready
    <3> QED
      BY <3>2 DEF InPlace
  <2> QED
    BY <1>5, <1>12, <2>4
<1>18. DiscoverRight(e, r)
  BY <1>3, <1>11, <1>13, <1>15, <1>16, <1>17 DEF DiscoverRight
<1> QED
  BY <1>7, <1>18

\* The scopes are the user's, if it loads, and what Discover returns.
LEMMA PacksDiscovered ==
  ASSUME HomeShape
  PROVE  \E o : Discovered(Palette!All, o)
<1>1. PICK n \in Nat : n = Len(PackOrder)
  BY Order
<1>2. PICK d, row : d = Palette!Discover /\ DiscoverRight(d, row)
  BY DiscoverIsRight
<1>3. d \in Seq(ScopePacks)
  BY <1>2 DEF DiscoverRight
<1>4. PICK l \in Nat : l = Len(d)
  BY <1>2 DEF DiscoverRight
<1>5. ASSUME NEW k \in 1..l
      PROVE  /\ row[k] \in 1..n /\ row[k] \in 0..n /\ row[k] # 0
             /\ d[k].dir = NameAt(row[k]) /\ d[k].name = NameOf(d[k].dir)
             /\ Palette!Healthy(d[k].dir) /\ d[k].slashes = Palette!SlashesOf(d[k].dir)
  <2>1. /\ row[k] \in 1..n
        /\ d[k].dir = NameAt(row[k]) /\ d[k].name = NameOf(d[k].dir)
        /\ Palette!Healthy(d[k].dir) /\ d[k].slashes = Palette!SlashesOf(d[k].dir)
    BY <1>1, <1>2, <1>4 DEF DiscoverRight
  <2>2. row[k] \in 0..n /\ row[k] # 0
    BY <2>1
  <2> QED
    BY <2>1, <2>2
<1>6. \A j, k \in 1..l : row[j] = row[k] => j = k
  BY <1>2, <1>4 DEF DiscoverRight
<1>7. Palette!NamesKept => \A j, k \in 1..l : j < k => row[j] < row[k]
  BY <1>2, <1>4 DEF DiscoverRight
<1>18. \A i \in 1..n : Palette!Healthy(PackOrder[i]) => \E k \in 1..l : row[k] = i
  BY <1>1, <1>2, <1>4 DEF DiscoverRight
<1>20. NameAt(0) = Palette!UserScopeName /\
      (Palette!Healthy(Palette!UserScopeName) <=> user.form = "pack")
  BY DEF NameAt, Palette!Healthy
<1>21. \A a \in 0..n : a = 0 \/ (a \in 1..n /\ NameAt(a) = PackOrder[a])
  BY DEF NameAt
<1>22. CASE user.form = "bad"
  <2>1. Palette!All = d
    <3>1. Palette!LoadUserScope = <<>>
      BY <1>22 DEF Palette!LoadUserScope
    <3> QED
      BY <1>2, <1>3, <3>1 DEF Palette!All
  <2>2. ~Palette!Healthy(Palette!UserScopeName)
    BY <1>20, <1>22
  <2>3. \A a \in 0..n : Palette!Healthy(NameAt(a)) => \E k \in 1..l : row[k] = a
    <3> SUFFICES ASSUME NEW a \in 0..n, Palette!Healthy(NameAt(a))
                 PROVE  \E k \in 1..l : row[k] = a
      OBVIOUS
    <3>1. a \in 1..n /\ Palette!Healthy(PackOrder[a])
      BY <1>20, <1>21, <2>2
    <3> QED
      BY <1>18, <3>1
  <2>4. Discovered(d, row)
    BY <1>1, <1>3, <1>4, <1>5, <1>6, <1>7, <2>3 DEF Discovered
  <2> QED
    BY <2>1, <2>4
<1>23. CASE user.form = "pack"
  <2>1. PICK u : u = Palette!Pack(Palette!UserScopeName, Palette!UserScopeName, user.slashes)
    OBVIOUS
  <2>2. /\ u \in ScopePacks /\ u.dir = Palette!UserScopeName /\ u.name = NameOf(u.dir)
        /\ u.slashes = Palette!SlashesOf(Palette!UserScopeName)
    <3>1. Palette!SlashesOf(Palette!UserScopeName) = user.slashes
      BY DEF Palette!SlashesOf
    <3> DEFINE Q == Seq(SlashNames \cup {Palette!Blank})
    <3>2. user.slashes \in Q
      BY DEF HomeShape
    <3>3. Palette!UserScopeName \in ScopeNames /\ Palette!UserScopeName \in Names
      BY DEF ScopeNames, Names
    <3> HIDE DEF Q
    <3>4. u \in [name : Names, dir : ScopeNames, slashes : Q]
      BY <2>1, <3>2, <3>3 DEF Palette!Pack
    <3>5. u \in ScopePacks
      BY <3>4 DEF ScopePacks, Q
    <3>6. /\ u.dir = Palette!UserScopeName /\ u.name = Palette!UserScopeName
          /\ u.slashes = user.slashes
      BY <2>1 DEF Palette!Pack
    <3> QED
      BY <3>1, <3>5, <3>6 DEF NameOf
  <2>3. PICK all : all = <<u>> \o d
    OBVIOUS
  <2>4. Palette!All = all
    <3>1. Palette!LoadUserScope = <<u>>
      BY <1>23, <2>1 DEF Palette!LoadUserScope
    <3> QED
      BY <1>2, <2>3, <3>1 DEF Palette!All
  <2>5. /\ all \in Seq(ScopePacks) /\ Len(all) = l + 1 /\ all[1] = u
        /\ \A k \in 2..l + 1 : all[k] = d[k - 1]
    <3>1. <<u>> \in Seq(ScopePacks) /\ Len(<<u>>) = 1 /\ <<u>>[1] = u
      BY <2>2
    <3>2. Len(all) = l + 1 /\ all \in Seq(ScopePacks)
      BY <1>3, <1>4, <2>3, <3>1
    <3>3. all[1] = u
      BY <1>3, <2>3, <3>1
    <3>4. \A k \in 2..l + 1 : all[k] = d[k - 1]
      BY <1>3, <1>4, <2>3, <3>1
    <3> QED
      BY <3>2, <3>3, <3>4
  <2>6. PICK o : o = [k \in 1..l + 1 |-> IF k = 1 THEN 0 ELSE row[k - 1]]
    OBVIOUS
  <2>7. \A k \in 1..l + 1 : k = 1 \/ (k \in 2..l + 1 /\ k - 1 \in 1..l)
    OBVIOUS
  <2>8. \A k \in 2..l + 1 : k - 1 \in 1..l /\ k # 1 /\ k \in 1..l + 1
    OBVIOUS
  <2>9. 1 \in 1..l + 1
    OBVIOUS
  <2>10. o[1] = 0 /\ \A k \in 2..l + 1 : o[k] = row[k - 1]
    BY <2>6, <2>8, <2>9
  <2>11. ASSUME NEW k \in 1..l + 1
         PROVE  /\ o[k] \in 0..n /\ all[k].dir = NameAt(o[k]) /\ all[k].name = NameOf(all[k].dir)
                /\ Palette!Healthy(all[k].dir) /\ all[k].slashes = Palette!SlashesOf(all[k].dir)
    <3>1. CASE k = 1
      BY <1>20, <1>23, <2>2, <2>5, <2>10, <3>1
    <3>2. CASE k \in 2..l + 1
      <4>1. PICK j \in 1..l : j = k - 1
        BY <2>8, <3>2
      <4>2. all[k] = d[j] /\ o[k] = row[j]
        BY <2>5, <2>10, <3>2, <4>1
      <4> QED
        BY <1>5, <4>2
    <3> QED
      BY <2>7, <3>1, <3>2
  <2>a. ASSUME NEW j \in 1..l + 1, NEW k \in 1..l + 1, o[j] = o[k]
        PROVE  j = k
    <3>1. CASE j = 1 \/ k = 1
      <4>1. \A i \in 2..l + 1 : o[i] # 0
        BY <1>5, <2>8, <2>10
      <4> QED
        BY <2>7, <2>10, <2>a, <3>1, <4>1
    <3>2. CASE j \in 2..l + 1 /\ k \in 2..l + 1
      <4>1. /\ j - 1 \in 1..l /\ o[j] = row[j - 1]
            /\ k - 1 \in 1..l /\ o[k] = row[k - 1]
        BY <2>8, <2>10, <3>2
      <4>2. j - 1 = k - 1
        BY <1>6, <2>a, <4>1
      <4> QED
        BY <4>2
    <3> QED
      BY <2>7, <3>1, <3>2
  <2>12. ASSUME Palette!NamesKept, NEW j \in 1..l + 1, NEW k \in 1..l + 1, j < k
         PROVE  o[j] < o[k]
    <3>1. k \in 2..l + 1 /\ k - 1 \in 1..l /\ o[k] = row[k - 1]
      <4>1. k # 1
        BY <2>12
      <4> QED
        BY <2>7, <2>10, <4>1
    <3>2. row[k - 1] \in 1..n
      BY <1>5, <3>1
    <3>3. CASE j = 1
      BY <2>10, <3>1, <3>2, <3>3
    <3>4. CASE j \in 2..l + 1
      <4>1. j - 1 \in 1..l /\ o[j] = row[j - 1] /\ j - 1 < k - 1
        BY <2>8, <2>10, <2>12, <3>4
      <4> QED
        BY <1>7, <2>12, <3>1, <4>1
    <3> QED
      BY <2>7, <3>3, <3>4
  <2>13. ASSUME NEW a \in 0..n, Palette!Healthy(NameAt(a))
         PROVE  \E k \in 1..l + 1 : o[k] = a
    <3>1. CASE a = 0
      BY <2>9, <2>10, <3>1
    <3>2. CASE a \in 1..n /\ NameAt(a) = PackOrder[a]
      <4>2. PICK j \in 1..l : row[j] = a
        BY <1>18, <2>13, <3>2
      <4>3. j + 1 \in 2..l + 1 /\ j + 1 \in 1..l + 1 /\ (j + 1) - 1 = j
        OBVIOUS
      <4>4. o[j + 1] = row[j]
        BY <2>10, <4>3
      <4> QED
        BY <4>2, <4>3, <4>4
    <3> QED
      BY <1>21, <3>1, <3>2
  <2>14. Discovered(all, o)
    <3>1. Len(all) = l + 1 /\ Len(PackOrder) = n /\ l + 1 \in Nat
      BY <1>1, <2>5
    <3> QED
      BY <2>5, <2>11, <2>a, <2>12, <2>13, <3>1 DEF Discovered
  <2> QED
    BY <2>4, <2>14
<1> QED
  BY <1>22, <1>23 DEF HomeShape

\* No scope is found twice,
LEMMA DiscoveredListed ==
  ASSUME NEW packs, NEW o, Discovered(packs, o)
  PROVE  Listed(packs)
<1>1. packs \in Seq(ScopePacks) /\ Len(packs) \in Nat
  BY DEF Discovered
<1>2. ASSUME NEW i \in 1..Len(packs), NEW j \in 1..Len(packs), packs[i].dir = packs[j].dir
      PROVE  i = j
  <2>1. /\ o[i] \in 0..Len(PackOrder) /\ packs[i].dir = NameAt(o[i])
        /\ o[j] \in 0..Len(PackOrder) /\ packs[j].dir = NameAt(o[j])
    BY DEF Discovered
  <2>2. o[i] = o[j]
    BY <1>2, <2>1, Order
  <2> QED
    BY <2>2 DEF Discovered
<1> QED
  BY <1>1, <1>2 DEF Listed

\* and when packs have their own names, it is the name found.
LEMMA DiscoveredTruthful ==
  ASSUME NEW packs, NEW o, Discovered(packs, o), Palette!NamesKept
  PROVE  Truthful(packs)
<1> SUFFICES ASSUME NEW i \in 1..Len(packs) PROVE packs[i].name = packs[i].dir
  BY DEF Truthful
<1>1. /\ o[i] \in 0..Len(PackOrder) /\ packs[i].dir = NameAt(o[i])
      /\ packs[i].name = NameOf(packs[i].dir) /\ Palette!Healthy(packs[i].dir)
  BY DEF Discovered
<1>2. CASE packs[i].dir = Palette!UserScopeName
  BY <1>1, <1>2 DEF NameOf
<1>3. CASE packs[i].dir # Palette!UserScopeName
  <2>1. o[i] # 0
    BY <1>1, <1>3 DEF NameAt
  <2>2. o[i] \in 1..Len(PackOrder)
    BY <1>1, <2>1, Order
  <2>3. packs[i].dir \in Palette!PackNames
    BY <1>1, <2>1, <2>2, Order DEF NameAt
  <2> QED
    BY <1>1, <1>3, <2>3 DEF NameOf, Palette!NamesKept
<1> QED
  BY <1>2, <1>3

\* The places of a command, read off the files.
LEMMA PlacesAre ==
  ASSUME NEW packs, NEW o, Discovered(packs, o), NEW s, NEW q
  PROVE  q \in Places(packs, s) <=>
           /\ q \in Slots /\ q[1] \in ScopeNames /\ Palette!Healthy(q[1])
           /\ q[2] \in 1..Len(Palette!SlashesOf(q[1])) /\ Palette!SlashesOf(q[1])[q[2]] = s
<1>1. ASSUME q \in Places(packs, s)
      PROVE  /\ q \in Slots /\ q[1] \in ScopeNames /\ Palette!Healthy(q[1])
             /\ q[2] \in 1..Len(Palette!SlashesOf(q[1])) /\ Palette!SlashesOf(q[1])[q[2]] = s
  <2>1. q \in Slots
    BY <1>1 DEF Places
  <2>2. PICK i \in 1..Len(packs) : q \in PlacesIn(packs[i], s)
    BY <1>1 DEF Places
  <2>3. q[1] = packs[i].dir /\ q[2] \in 1..Len(packs[i].slashes) /\ packs[i].slashes[q[2]] = s
    BY <2>2 DEF PlacesIn
  <2>4. Palette!Healthy(packs[i].dir) /\ packs[i].slashes = Palette!SlashesOf(packs[i].dir)
    BY DEF Discovered
  <2>5. q[1] \in ScopeNames
    BY <2>1 DEF Slots
  <2> QED
    BY <2>1, <2>3, <2>4, <2>5
<1>2. ASSUME q \in Slots, q[1] \in ScopeNames, Palette!Healthy(q[1]),
             q[2] \in 1..Len(Palette!SlashesOf(q[1])), Palette!SlashesOf(q[1])[q[2]] = s
      PROVE  q \in Places(packs, s)
  <2>1. PICK a \in 0..Len(PackOrder) : NameAt(a) = q[1]
    <3>1. 0 \in 0..Len(PackOrder) /\ NameAt(0) = Palette!UserScopeName
      BY Order DEF NameAt
    <3>2. \A a \in 1..Len(PackOrder) : a \in 0..Len(PackOrder) /\ NameAt(a) = PackOrder[a]
      BY Order DEF NameAt
    <3> QED
      BY <1>2, <3>1, <3>2, Order DEF ScopeNames
  <2>2. PICK i \in 1..Len(packs) : o[i] = a
    BY <1>2, <2>1 DEF Discovered
  <2>3. packs[i].dir = q[1] /\ packs[i].slashes = Palette!SlashesOf(packs[i].dir)
    BY <2>1, <2>2 DEF Discovered
  <2>4. q \in PlacesIn(packs[i], s)
    BY <1>2, <2>3 DEF PlacesIn
  <2> QED
    BY <1>2, <2>4 DEF Places
<1> QED
  BY <1>1, <1>2

\* The sources of a command are the scopes of its places.
LEMMA SourcesAre ==
  ASSUME HomeShape, NEW packs, NEW o, Discovered(packs, o), NEW s, NEW n
  PROVE  n \in Palette!Sources(s) <=> \E q \in Places(packs, s) : q[1] = n
<1>1. ASSUME n \in Palette!Sources(s) PROVE \E q \in Places(packs, s) : q[1] = n
  <2>1. n \in ScopeNames /\ Palette!Healthy(n) /\ s \in Palette!Range(Palette!SlashesOf(n))
    BY <1>1 DEF Palette!Sources, Palette!Scopes, ScopeNames
  <2>2. Palette!SlashesOf(n) \in Seq(SlashNames \cup {Palette!Blank})
    BY <2>1 DEF HomeShape, Palette!SlashesOf, ScopeNames
  <2>3. PICK z, B : z = Palette!SlashesOf(n) /\ B = SlashNames \cup {Palette!Blank}
    OBVIOUS
  <2>4. z \in Seq(B)
    BY <2>2, <2>3
  <2>5. DOMAIN z = 1..Len(z) /\ Len(z) \in Nat
    BY <2>4
  <2>6. PICK j \in 1..Len(z) : z[j] = s
    BY <2>1, <2>3, <2>5 DEF Palette!Range
  <2>7. j \in Nat
    BY <2>5
  <2>8. PICK q : q = <<n, j>>
    OBVIOUS
  <2>9. q \in Slots /\ q[1] = n /\ q[2] = j
    BY <2>1, <2>7, <2>8 DEF Slots
  <2>10. q \in Places(packs, s)
    BY <2>1, <2>3, <2>6, <2>9, PlacesAre
  <2> QED
    BY <2>9, <2>10
<1>2. ASSUME NEW q \in Places(packs, s), q[1] = n PROVE n \in Palette!Sources(s)
  <2>1. /\ q \in Slots /\ q[1] \in ScopeNames /\ Palette!Healthy(q[1])
        /\ q[2] \in 1..Len(Palette!SlashesOf(q[1])) /\ Palette!SlashesOf(q[1])[q[2]] = s
    BY PlacesAre
  <2>2. Palette!SlashesOf(n) \in Seq(SlashNames \cup {Palette!Blank})
    BY <1>2, <2>1 DEF HomeShape, Palette!SlashesOf, ScopeNames
  <2>3. PICK z, B : z = Palette!SlashesOf(n) /\ B = SlashNames \cup {Palette!Blank}
    OBVIOUS
  <2>4. z \in Seq(B)
    BY <2>2, <2>3
  <2>5. DOMAIN z = 1..Len(z)
    BY <2>4
  <2>6. s \in Palette!Range(Palette!SlashesOf(n))
    BY <1>2, <2>1, <2>3, <2>5 DEF Palette!Range
  <2> QED
    BY <1>2, <2>1, <2>6 DEF Palette!Sources, Palette!Scopes, ScopeNames
<1> QED
  BY <1>1, <1>2

\* The first of a resolution is what the palette's rule says.
LEMMA LeadOfSources ==
  ASSUME HomeShape, Palette!NamesKept, NEW o, Discovered(Palette!All, o), NEW s \in SlashNames,
         NEW q \in Places(Palette!All, s),
         Leads(q, Palette!All, s, pin)
  PROVE  q[1] = IF Palette!PinnedSource \in Palette!Sources(s) THEN Palette!PinnedSource
                ELSE IF Palette!UserScopeName \in Palette!Sources(s) THEN Palette!UserScopeName
                ELSE PackOrder[CHOOSE i \in 1..Len(PackOrder) :
                       /\ PackOrder[i] \in Palette!Sources(s)
                       /\ \A j \in i + 1..Len(PackOrder) : PackOrder[j] \notin Palette!Sources(s)]
<1>0. Truthful(Palette!All)
  BY DiscoveredTruthful
<1>1. Palette!PinnedSource = SourceOf(pin)
  BY DEF Palette!PinnedSource, SourceOf
<1>2. \A n : n \in Palette!Sources(s) <=> \E r \in Places(Palette!All, s) : r[1] = n
  BY SourcesAre
<1>3. Palette!PinnedSource \in Palette!Sources(s) => q[1] = Palette!PinnedSource
  BY <1>0, <1>1, <1>2 DEF Leads
<1>4. Palette!PinnedSource \notin Palette!Sources(s) /\
      Palette!UserScopeName \in Palette!Sources(s) =>
        q[1] = Palette!UserScopeName
  BY <1>0, <1>1, <1>2 DEF Leads
<1>5. ASSUME Palette!PinnedSource \notin Palette!Sources(s),
             Palette!UserScopeName \notin Palette!Sources(s)
      PROVE  q[1] = PackOrder[CHOOSE i \in 1..Len(PackOrder) :
                       /\ PackOrder[i] \in Palette!Sources(s)
                       /\ \A j \in i + 1..Len(PackOrder) : PackOrder[j] \notin Palette!Sources(s)]
  <2> DEFINE Last(i) == /\ PackOrder[i] \in Palette!Sources(s)
                        /\ \A j \in i + 1..Len(PackOrder) : PackOrder[j] \notin Palette!Sources(s)
  <2>1. PICK k \in 1..Len(Palette!All) :
          /\ Palette!All[k].name = q[1]
          /\ \A j \in k+1..Len(Palette!All) : Palette!All[j].name # Palette!UserScopeName =>
                PlacesIn(Palette!All[j], s) = {}
    BY <1>0, <1>1, <1>2, <1>5 DEF Leads
  <2>2. q[1] \in Palette!Sources(s)
    BY <1>2
  <2>3. PICK n \in Nat : n = Len(PackOrder)
    BY Order
  <2>4. o[k] \in 0..n /\ NameAt(o[k]) = q[1]
    BY <1>0, <2>1, <2>3 DEF Discovered, Truthful
  <2>5. PICK a \in 1..n : a = o[k] /\ PackOrder[a] = q[1]
    <3>1. o[k] # 0
      BY <1>5, <2>2, <2>4 DEF NameAt
    <3>2. o[k] \in 1..n
      BY <2>4, <3>1
    <3> QED
      BY <2>4, <3>1, <3>2 DEF NameAt
  <2>6. ASSUME NEW b \in a + 1..n, PackOrder[b] \in Palette!Sources(s) PROVE FALSE
    <3>1. PICK r \in Places(Palette!All, s) : r[1] = PackOrder[b]
      BY <1>2, <2>6
    <3>2. PICK m \in 1..Len(Palette!All) : r \in PlacesIn(Palette!All[m], s)
      BY DEF Places
    <3>3. Palette!All[m].name = PackOrder[b] /\ Palette!All[m].dir = PackOrder[b]
      BY <1>0, <3>1, <3>2 DEF PlacesIn, Truthful
    <3>4. b \in 1..n /\ a < b /\ b # 0 /\ b \in 0..n
      BY <2>5
    <3>5. o[m] \in 0..n /\ NameAt(o[m]) = PackOrder[b] /\ NameAt(b) = PackOrder[b]
      BY <2>3, <3>3, <3>4 DEF Discovered, NameAt
    <3>6. o[m] = b
      BY <2>3, <3>4, <3>5, Order
    <3>7. Len(Palette!All) \in Nat
      BY DEF Discovered
    <3>8. k < m
      <4>1. m < k => o[m] < o[k]
        BY DEF Discovered
      <4>2. ~(m < k)
        BY <2>5, <3>4, <3>6, <4>1
      <4>3. m # k
        BY <2>5, <3>4, <3>6
      <4> QED
        BY <3>7, <4>2, <4>3
    <3>9. m \in k + 1..Len(Palette!All)
      BY <3>7, <3>8
    <3>10. Palette!All[m].name # Palette!UserScopeName
      BY <2>3, <3>3, <3>4, Order
    <3> QED
      BY <2>1, <3>2, <3>9, <3>10
  <2>7. a \in 1..Len(PackOrder) /\ Last(a)
    BY <2>2, <2>3, <2>5, <2>6
  <2>8. ASSUME NEW i \in 1..Len(PackOrder), Last(i) PROVE i = a
    <3>1. i \in Int /\ a \in Int /\ i <= n /\ a <= n
      BY <2>3
    <3>2. a < i => i \in a + 1..Len(PackOrder)
      BY <2>3, <3>1
    <3>3. i < a => a \in i + 1..Len(PackOrder)
      BY <2>3, <3>1
    <3>4. ~(a < i) /\ ~(i < a)
      BY <2>7, <2>8, <3>2, <3>3
    <3> QED
      BY <3>1, <3>4
  <2> HIDE DEF Last
  <2>9. (CHOOSE i \in 1..Len(PackOrder) : Last(i)) = a
    BY <2>7, <2>8
  <2> QED
    BY <2>5, <2>9 DEF Last
<1> QED
  BY <1>3, <1>4, <1>5

\* The palette of any home directory.
LEMMA PaletteRight == Palette!Init => Palette!PaletteIsRight
<1> SUFFICES ASSUME Palette!Init PROVE Palette!PaletteIsRight
  OBVIOUS
<1>1. HomeShape
  BY HomesHaveShape
<1>2. PICK o : Discovered(Palette!All, o)
  BY <1>1, PacksDiscovered
<1>3. Listed(Palette!All)
  BY <1>2, DiscoveredListed
<1>4. PICK sl : sl = Palette!SlashOrder(Palette!Tag(Palette!All))
  OBVIOUS
<1>5. Palette!Blank \notin SlashNames /\ Wizards \in Seq(STRING)
  BY LocalAssumption DEF LocalAssumption, Palette!PaletteAssumption
<1>6. /\ sl \in Seq(SlashNames) /\ Len(sl) \in Nat
      /\ Lists(sl, {s \in SlashNames : Places(Palette!All, s) # {}})
  BY <1>3, <1>4, <1>5, SlashesListed
<1>7. PICK c : c = Palette!Commands
  OBVIOUS
<1>8. c = Palette!FlattenSeq([i \in 1..Len(sl) |-> Palette!Group(Palette!All, sl[i])])
  BY <1>4, <1>7 DEF Palette!Commands
<1>9. pin \in Pins
  BY <1>1 DEF HomeShape
<1>10. CommandsRight(c, Palette!All)
  BY <1>3, <1>6, <1>8, <1>9, CommandsAreRight
<1>11. PICK w : w = [i \in 1..Len(Wizards) |->
                     Palette!Row(Wizards[i], <<"builtin", i>>, FALSE, FALSE)]
  OBVIOUS
<1>12. PICK m \in Nat, n \in Nat : m = Len(Wizards) /\ n = Len(c)
  BY <1>5, <1>10, LenNat DEF CommandsRight
<1>13. PICK rows : rows = c \o w
  OBVIOUS
<1>14. rows = Palette!Palette
  BY <1>7, <1>11, <1>13 DEF Palette!Palette
<1>15. Len(rows) = n + m /\ \A k \in 1..n : rows[k] = c[k]
  <2>1. PICK W : W = {w[i] : i \in 1..m} \cup Rows
    OBVIOUS
  <2>2. w = [i \in 1..m |-> w[i]] /\ \A i \in 1..m : w[i] \in W
    BY <1>11, <1>12, <2>1
  <2>3. w \in Seq(W) /\ Len(w) = m
    BY <2>2, ListOf
  <2>4. c \in Seq(Rows)
    BY <1>10 DEF CommandsRight
  <2>5. PICK R : R = Rows
    OBVIOUS
  <2>6. c \in Seq(R)
    BY <2>4, <2>5
  <2>7. Len(c \o w) = Len(c) + Len(w)
    BY <2>3, <2>6
  <2>8. \A k \in 1..Len(c) : (c \o w)[k] = c[k]
    BY <2>3, <2>6
  <2> QED
    BY <1>12, <1>13, <2>3, <2>7, <2>8
<1>16. Palette!Own(rows) = 1..n
  <2>1. Len(rows) - Len(Wizards) = n
    BY <1>12, <1>15
  <2> QED
    BY <2>1 DEF Palette!Own
<1>17. \A k \in 1..n : c[k].slash \in SlashNames /\ c[k].place \in Places(Palette!All, c[k].slash)
  BY <1>10, <1>12 DEF CommandsRight
<1>18. \A s \in SlashNames : \A q \in Places(Palette!All, s) :
         \E k \in 1..n : c[k].place = q /\ c[k].slash = s
  BY <1>10, <1>12 DEF CommandsRight
<1>19. Palette!NoRowLost(rows)
  <2>1. \A i, j \in 1..n : c[i].place = c[j].place => i = j
    BY <1>10, <1>12 DEF CommandsRight
  <2>2. \A i, j \in Palette!Own(rows) : rows[i].place = rows[j].place => i = j
    BY <1>15, <1>16, <2>1
  <2>3. PICK A : A = Palette!Shown(rows)
    OBVIOUS
  <2>4. PICK U : U = UNION {Palette!CommandsOf(h) : h \in Palette!Scopes}
    OBVIOUS
  <2>5. \A x : x \in A <=> \E k \in 1..n : x = <<c[k].place, c[k].slash>>
    BY <1>15, <1>16, <2>3 DEF Palette!Shown
  <2>6. \A x : x \in U <=> \E h \in Palette!Scopes : x \in Palette!CommandsOf(h)
    BY <2>4
  <2>7. ASSUME NEW k \in 1..n PROVE <<c[k].place, c[k].slash>> \in U
    <3>1. PICK s, q : s = c[k].slash /\ q = c[k].place
      OBVIOUS
    <3>2. s \in SlashNames /\ q \in Places(Palette!All, s)
      BY <1>17, <3>1
    <3>3. /\ q \in Slots /\ q[1] \in ScopeNames /\ Palette!Healthy(q[1])
          /\ q[2] \in 1..Len(Palette!SlashesOf(q[1])) /\ Palette!SlashesOf(q[1])[q[2]] = s
      BY <1>2, <3>2, PlacesAre
    <3>4. q = <<q[1], q[2]>>
      BY <3>3 DEF Slots
    <3>5. q[1] \in Palette!Scopes /\ <<q, s>> \in Palette!CommandsOf(q[1])
      BY <3>2, <3>3, <3>4 DEF Palette!Scopes, ScopeNames, Palette!CommandsOf
    <3>6. <<q, s>> \in U
      BY <2>6, <3>5
    <3> QED
      BY <3>1, <3>6
  <2>8. ASSUME NEW h \in Palette!Scopes, NEW x \in Palette!CommandsOf(h)
        PROVE  x \in A
    <3>1. PICK j \in 1..Len(Palette!SlashesOf(h)) :
            Palette!SlashesOf(h)[j] \in SlashNames /\ x = <<<<h, j>>, Palette!SlashesOf(h)[j]>>
      BY DEF Palette!CommandsOf
    <3>2. PICK s \in SlashNames : s = Palette!SlashesOf(h)[j]
      BY <3>1
    <3>3. h \in ScopeNames /\ Palette!Healthy(h)
      BY DEF Palette!Scopes, ScopeNames
    <3>4. Palette!SlashesOf(h) \in Seq(SlashNames \cup {Palette!Blank})
      BY <1>1, <3>3 DEF HomeShape, Palette!SlashesOf, ScopeNames
    <3>5. Len(Palette!SlashesOf(h)) \in Nat
      BY <3>4, LenNat
    <3>6. j \in Nat
      BY <3>5
    <3>7. PICK q : q = <<h, j>>
      OBVIOUS
    <3>8. q \in Slots /\ q[1] = h /\ q[2] = j
      BY <3>3, <3>6, <3>7 DEF Slots
    <3>9. q \in Places(Palette!All, s)
      BY <1>2, <3>2, <3>3, <3>8, PlacesAre
    <3>10. PICK k \in 1..n : c[k].place = q /\ c[k].slash = s
      BY <1>18, <3>9
    <3> QED
      BY <2>5, <3>1, <3>2, <3>7, <3>10
  <2>9. U \subseteq A
    BY <2>6, <2>8
  <2>10. PICK V : V = UNION {Palette!CommandsOf(h) : h \in Palette!Scopes \cup Palette!Linked}
    OBVIOUS
  <2>11. A \subseteq V
    <3>1. \A h \in Palette!Scopes : \A x \in Palette!CommandsOf(h) : x \in V
      BY <2>10
    <3>2. U \subseteq V
      BY <2>6, <3>1
    <3> QED
      BY <2>5, <2>7, <3>2
  <2> QED
    BY <2>2, <2>3, <2>4, <2>9, <2>10, <2>11 DEF Palette!NoRowLost
<1>20. Palette!GroupsTogether(rows)
  <2>1. \A i, j \in 1..n : i < j /\ c[i].slash = c[j].slash =>
          c[i].labelled /\ c[j].labelled /\ c[i + 1].slash = c[i].slash
    BY <1>10, <1>12 DEF CommandsRight
  <2>2. \A i, j \in 1..n : i < j => i + 1 \in 1..n
    OBVIOUS
  <2> QED
    BY <1>15, <1>16, <2>1, <2>2 DEF Palette!GroupsTogether
<1>21. ASSUME Palette!NamesKept PROVE Palette!LeadIsRight(rows)
  <2> SUFFICES ASSUME NEW s \in SlashNames, Palette!Sources(s) # {}
               PROVE  rows[Palette!FirstRow(rows, s)].place[1] =
         IF Palette!PinnedSource \in Palette!Sources(s) THEN Palette!PinnedSource
         ELSE IF Palette!UserScopeName \in Palette!Sources(s) THEN Palette!UserScopeName
         ELSE PackOrder[CHOOSE i \in 1..Len(PackOrder) :
                /\ PackOrder[i] \in Palette!Sources(s)
                /\ \A j \in i + 1..Len(PackOrder) : PackOrder[j] \notin Palette!Sources(s)]
    BY DEF Palette!LeadIsRight
  <2>1. PICK h : h \in Palette!Sources(s)
    OBVIOUS
  <2>2. PICK q \in Places(Palette!All, s) : q[1] = h
    BY <1>1, <1>2, <2>1, SourcesAre
  <2>3. PICK k0 \in 1..n : c[k0].slash = s
    BY <1>18
  <2>4. PICK K : K = {k \in 1..n : c[k].slash = s}
    OBVIOUS
  <2>5. k0 \in K /\ K \in SUBSET Nat
    <3>1. K \in SUBSET 1..n /\ 1..n \in SUBSET Nat
      BY <2>4
    <3> QED
      BY <2>3, <2>4, <3>1
  <2>6. PICK k \in K : \A j \in K : k <= j
    BY <2>5, LeastNatural
  <2>7. k \in 1..n /\ c[k].slash = s /\ k \in Int /\ k <= n
    BY <2>4
  <2>8. \A j \in 1..k - 1 : j \in 1..n /\ ~(k <= j)
    BY <2>7
  <2>9. \A j \in 1..k - 1 : c[j].slash # s
    BY <2>4, <2>6, <2>8
  <2>10. Leads(c[k].place, Palette!All, s, pin) /\ c[k].place \in Places(Palette!All, s)
    BY <1>10, <1>12, <1>17, <2>7, <2>9 DEF CommandsRight
  <2> DEFINE Head1(i) == rows[i].slash = s /\ \A j \in 1..i - 1 : rows[j].slash # s
  <2>11. k \in 1..Len(rows) /\ Head1(k)
    <3>1. k \in 1..n + m
      BY <2>7
    <3> QED
      BY <1>15, <2>7, <2>8, <2>9, <3>1
  <2>12. ASSUME NEW i \in 1..Len(rows), Head1(i) PROVE i = k
    <3>1. i \in Int /\ i >= 1 /\ k >= 1
      BY <1>15, <2>7
    <3>2. i < k => i \in 1..k - 1
      BY <2>7, <3>1
    <3>3. k < i => k \in 1..i - 1
      BY <2>7, <3>1
    <3>4. ~(i < k) /\ ~(k < i)
      BY <2>11, <2>12, <3>2, <3>3
    <3> QED
      BY <2>7, <3>1, <3>4
  <2>13. Palette!FirstRow(rows, s) = k
    <3>1. Palette!FirstRow(rows, s) = CHOOSE i \in 1..Len(rows) : Head1(i)
      BY DEF Palette!FirstRow
    <3> HIDE DEF Head1
    <3> QED
      BY <2>11, <2>12, <3>1
  <2>14. rows[Palette!FirstRow(rows, s)].place = c[k].place
    BY <1>15, <2>7, <2>13
  <2>15. PICK r : r = c[k].place
    OBVIOUS
  <2>16. r \in Places(Palette!All, s) /\ Leads(r, Palette!All, s, pin)
    BY <2>10, <2>15
  <2> QED
    BY <1>1, <1>2, <1>21, <2>14, <2>15, <2>16, LeadOfSources
<1> QED
  BY <1>14, <1>19, <1>20, <1>21 DEF Palette!PaletteIsRight

\* Nothing happens to a home directory once it is there.
LEMMA PaletteHolds == LocalSpec => [](part = "palette" => Palette!PaletteIsRight)
<1> DEFINE I == part = "palette" => Palette!Init
<1>1. LocalInit => I
  BY DEF LocalInit
<1>2. I /\ [LocalNext]_<<part, vars, packVars, reloadVars, paletteVars>> => I'
  <2> SUFFICES ASSUME I, [LocalNext]_<<part, vars, packVars, reloadVars, paletteVars>>,
                      part' = "palette"
               PROVE  Palette!Init'
    OBVIOUS
  <2>1. part' = part /\ UNCHANGED <<user, dirs, pin>>
    BY DEF LocalNext, paletteVars
  <2>2. Palette!Init
    BY <2>1
  <2> QED
    BY <2>1, <2>2 DEF Palette!Init
<1>3. I => (part = "palette" => Palette!PaletteIsRight)
  BY PaletteRight
<1> QED
  BY <1>1, <1>2, <1>3, PTL DEF LocalSpec

\* Whatever packs, manifests, names, requirements and pins a home directory has:
\* every command of what its requirements admit has one row of the palette, the
\* rows of a slash command stand together, and, if packs have the names of their
\* directories, the first is the pin's, else the user's, else that of the last
\* pack by name (pack/palette.go:68-139, pack/resolver.go:43-123,
\* internal/pack/requires.go:83-113).
THEOREM PalettesAreRight == LocalSpec => []PaletteIsRight
<1>1. (part = "palette" => Palette!PaletteIsRight) => PaletteIsRight
  BY DEF PaletteIsRight
<1> QED
  BY <1>1, PaletteHolds, PTL

================================================================================
