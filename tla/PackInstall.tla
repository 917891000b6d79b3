------------------------------ MODULE PackInstall ------------------------------
(***************************************************************************)
(* internal/pack/install: packs are added, updated and removed under       *)
(* <home>/packs by several processes with no lock between them, and may    *)
(* die at any step.  A pack is three things on disk, its tree, its record  *)
(* (<name>.install.json) and its pin in config.yaml, which is also read,   *)
(* changed and written back by config.Load and Config.Save.                *)
(*                                                                         *)
(* A version of a pack is a number; two versions may declare one surface,  *)
(* the shell commands pack.Scan finds.  The hash of a tree is its version. *)
(***************************************************************************)
EXTENDS Integers, FiniteSets

CONSTANTS Proc,    \* the processes
          Surf,    \* the surface of each version, upstream's in order
          Canon,   \* the name in its pack.yaml
          Stem,    \* the name its URL suggests
          MaxOps   \* bound of the operations that are begun

Versions == DOMAIN Surf
Names == {Stem} \cup {Canon[v] : v \in Versions}

PackAssumption == /\ IsFiniteSet(Versions)
                  /\ Versions = 1..Cardinality(Versions) /\ Versions # {}
                  /\ DOMAIN Canon = Versions
                  /\ MaxOps \in Nat

VARIABLES
  upstream,   \* the version the remote's branch is at
  work,       \* the version in the working directory of the pack's author
  tree,       \* <home>/packs/<name>
  meta,       \* <home>/packs/<name>.install.json
  pins,       \* the packs config.yaml has a pin for
  held,       \* the pins of a Config loaded and not yet saved
  job,        \* what each process is doing
  ops,
  consented,  \* history: the surfaces the user trusted for the name
  strayed,    \* history: an operation on it died, gave up undoing or shared it
  gone        \* history: Remove succeeded, and nothing has touched it since

vars == <<upstream, work, tree, meta, pins, held, job, ops, consented, strayed, gone>>
disk == <<tree, meta, pins>>
outside == <<upstream, work, held, ops>>

\* A tree is a clone (detached when a tag or a commit was checked out), a link
\* to the author's directory, or a copy of it; version 0 is half a tree.
Tree(kind, at, detached) == [kind |-> kind, at |-> at, detached |-> detached]
NoTree == Tree("none", 0, FALSE)
Exists(n) == tree[n] # NoTree
Content(n) == IF tree[n].kind = "link" THEN work ELSE tree[n].at
Surface(v) == IF v = 0 THEN {} ELSE Surf[v]

Record(hash, surface, local) == [hash |-> hash, surface |-> surface, local |-> local]
NoRecord == Record(0, {}, FALSE)

Job(pc, op, name) == [pc |-> pc, op |-> op, name |-> name, head |-> 0,
                      prev |-> NoRecord, hash |-> 0, surface |-> {}, pins |-> {},
                      shared |-> FALSE]
Idle == Job("idle", "", Stem)

TypeOK ==
  /\ upstream \in Versions /\ work \in Versions
  /\ \A n \in Names : tree[n].at \in Versions \cup {0} /\ meta[n].hash \in Versions \cup {0}
  /\ pins \subseteq Names
  /\ \A p \in Proc : job[p].name \in Names
  /\ ops \in 0..MaxOps

Init ==
  /\ upstream = 1 /\ work = 1
  /\ tree = [n \in Names |-> NoTree]
  /\ meta = [n \in Names |-> NoRecord]
  /\ pins = {}
  /\ held = <<>>
  /\ job = [p \in Proc |-> Idle]
  /\ ops = 0
  /\ consented = [n \in Names |-> {}]
  /\ strayed = [n \in Names |-> FALSE]
  /\ gone = [n \in Names |-> FALSE]

-----------------------------------------------------------------------------
Busy(n) == \E p \in Proc : job[p].pc # "idle" /\ job[p].name = n

\* The jobs when one more operation, of p, is about n.
Joined(p, j, n) ==
  [q \in Proc |->
     IF q = p THEN [j EXCEPT !.shared = \E r \in Proc \ {p} : job[r].pc # "idle"
                                                            /\ job[r].name = n]
     ELSE [job[q] EXCEPT !.shared = @ \/ (job[q].pc # "idle" /\ job[q].name = n)]]

\* An operation takes up a name.
Take(p, pc, op, n) ==
  /\ job[p].pc = "idle"
  /\ ops < MaxOps
  /\ ops' = ops + 1
  /\ job' = Joined(p, [Job(pc, op, n) EXCEPT !.prev = meta[n]], n)
  /\ strayed' = [strayed EXCEPT ![n] = @ \/ Busy(n)]
  /\ gone' = [gone EXCEPT ![n] = FALSE]

At(p, pc) == job[p].pc = pc
Goto(p, pc) == job' = [job EXCEPT ![p].pc = pc]
Return(p) == job' = [job EXCEPT ![p] = Idle]
RemoveAll(n) == tree' = [tree EXCEPT ![n] = NoTree]
Astray(n) == strayed' = [strayed EXCEPT ![n] = TRUE]

\* assertNotExists, then git clone or a symlink.
BeginAdd(p) ==
  /\ ~Exists(Stem)
  /\ Take(p, "clone", "add", Stem)
  /\ UNCHANGED <<disk, upstream, work, held, consented>>

\* git refuses a directory that is there by now, and the cleanup after its
\* refusal deletes that directory, whoever made it.
Clone(p) ==
  /\ At(p, "clone")
  /\ IF Exists(job[p].name) THEN RemoveAll(job[p].name) /\ Return(p)
     ELSE /\ tree' = [tree EXCEPT ![job[p].name] = Tree("git", upstream, FALSE)]
          /\ Goto(p, "rename")
  /\ UNCHANGED <<meta, pins, outside, consented, strayed, gone>>

\* The source was <url>#<ref>.
Checkout(p) ==
  /\ At(p, "rename")
  /\ Exists(job[p].name) /\ ~tree[job[p].name].detached
  /\ \E v \in 1..upstream : tree' = [tree EXCEPT ![job[p].name] = Tree("git", v, TRUE)]
  /\ UNCHANGED <<meta, pins, outside, job, consented, strayed, gone>>

\* pack.yaml names the pack; its directory follows.
Rename(p) ==
  /\ At(p, "rename")
  /\ Exists(job[p].name)
  /\ LET n == job[p].name
         c == IF Content(n) = 0 THEN n ELSE Canon[Content(n)]
     IN \/ /\ c = n
           /\ Goto(p, "hash")
           /\ UNCHANGED <<tree, strayed, gone>>
        \/ /\ c # n
           /\ ~Exists(c)
           /\ tree' = [tree EXCEPT ![c] = tree[n], ![n] = NoTree]
           /\ job' = Joined(p, [job[p] EXCEPT !.pc = "hash", !.name = c], c)
           /\ strayed' = [strayed EXCEPT ![c] = @ \/ Busy(c)]
           /\ gone' = [gone EXCEPT ![c] = FALSE]
        \/ /\ c # n
           /\ Exists(c)
           /\ RemoveAll(n) /\ Return(p)
           /\ UNCHANGED <<strayed, gone>>
  /\ UNCHANGED <<meta, pins, outside, consented>>

\* addLocal.  A copy that fails half-way is left where it is.
AddLocal(p) ==
  LET n == Canon[work]
  IN /\ ~Exists(n)
     /\ \/ /\ Take(p, "hash", "add", n)
           /\ \E t \in {Tree("link", 0, FALSE), Tree("copy", work, FALSE)} :
                tree' = [tree EXCEPT ![n] = t]
        \/ /\ job[p].pc = "idle" /\ ops < MaxOps /\ ops' = ops + 1
           /\ tree' = [tree EXCEPT ![n] = Tree("copy", 0, FALSE)]
           /\ Astray(n)
           /\ gone' = [gone EXCEPT ![n] = FALSE]
           /\ job' = Joined(p, Idle, n)
  /\ UNCHANGED <<meta, pins, upstream, work, held, consented>>

\* Update reads the record; a local pack has nothing to pull.
BeginUpdate(p, n) ==
  /\ meta[n] # NoRecord
  /\ Exists(n)
  /\ Take(p, IF meta[n].local THEN "hash" ELSE "head", "update", n)
  /\ UNCHANGED <<disk, upstream, work, held, consented>>

RevParse(p) ==
  /\ At(p, "head")
  /\ tree[job[p].name].kind = "git"
  /\ job' = [job EXCEPT ![p].pc = "pull", ![p].head = tree[job[p].name].at]
  /\ UNCHANGED <<disk, outside, consented, strayed, gone>>

\* git pull --ff-only: a detached checkout has no branch to pull.
Pull(p) ==
  /\ At(p, "pull")
  /\ tree[job[p].name].kind = "git" /\ ~tree[job[p].name].detached
  /\ tree' = [tree EXCEPT ![job[p].name].at = upstream]
  /\ Goto(p, "hash")
  /\ UNCHANGED <<meta, pins, outside, consented, strayed, gone>>

\* It fails, is refused or runs into gitTimeout; nothing undoes what it did.
PullFails(p) ==
  /\ At(p, "head") \/ At(p, "pull")
  /\ Return(p)
  /\ \/ UNCHANGED <<tree, strayed>>
     \/ /\ At(p, "pull") /\ tree[job[p].name].kind = "git"
        /\ tree' = [tree EXCEPT ![job[p].name].at = upstream]
        /\ Astray(job[p].name)
  /\ UNCHANGED <<meta, pins, outside, consented, gone>>

\* scanAndHash walks the tree twice.
Hash(p) ==
  /\ At(p, "hash")
  /\ Exists(job[p].name)
  /\ job' = [job EXCEPT ![p].pc = "scan", ![p].hash = Content(job[p].name)]
  /\ UNCHANGED <<disk, outside, consented, strayed, gone>>

\* Update asks only when the surface is another one.
Scan(p) ==
  /\ At(p, "scan")
  /\ Exists(job[p].name)
  /\ LET s == Surface(Content(job[p].name))
         update == job[p].op = "update"
     IN job' = [job EXCEPT ![p] =
          IF update /\ job[p].hash = job[p].prev.hash THEN Idle
          ELSE [@ EXCEPT !.surface = s,
                         !.pc = IF update /\ s = job[p].prev.surface THEN "record" ELSE "ask"]]
  /\ UNCHANGED <<disk, outside, consented, strayed, gone>>

\* How an operation is undone: an Add deletes the tree, an Update of a clone
\* resets it to the commit it had before the pull, which may fail.
Reset(p, n) ==
  /\ tree' = IF tree[n].kind = "git" THEN [tree EXCEPT ![n].at = job[p].head] ELSE tree
  /\ UNCHANGED strayed
ResetFails(n) ==
  /\ UNCHANGED tree
  /\ Astray(n)
Undo(p) ==
  LET n == job[p].name
  IN \/ job[p].op = "add" /\ RemoveAll(n) /\ UNCHANGED strayed
     \/ job[p].op = "update" /\ job[p].prev.local /\ UNCHANGED <<tree, strayed>>
     \/ job[p].op = "update" /\ ~job[p].prev.local /\ (Reset(p, n) \/ ResetFails(n))

\* A clone, a rename or a scan fails, as it does when the tree is gone.
Fails(p) ==
  /\ job[p].pc \in {"clone", "rename", "hash", "scan"}
  /\ Undo(p)
  /\ Return(p)
  /\ UNCHANGED <<meta, pins, outside, consented, gone>>

Trusted(p) ==
  /\ At(p, "ask")
  /\ Goto(p, "record")
  /\ consented' = [consented EXCEPT ![job[p].name] = @ \cup {job[p].surface}]
  /\ UNCHANGED <<disk, outside, strayed, gone>>

\* As Denied, but what was pulled or cloned stays.
DeniedKeepsTree(p) ==
  /\ At(p, "ask")
  /\ Return(p)
  /\ UNCHANGED <<disk, outside, consented, strayed, gone>>

Denied(p) ==
  /\ At(p, "ask")
  /\ Undo(p)
  /\ Return(p)
  /\ UNCHANGED <<meta, pins, outside, consented, gone>>

\* writeMeta: a temporary file of its own, synced and renamed.
WriteMeta(p) ==
  /\ At(p, "record")
  /\ LET n == job[p].name
         local == IF job[p].op = "add" THEN tree[n].kind \in {"link", "copy"}
                  ELSE job[p].prev.local
     IN meta' = [meta EXCEPT ![n] = Record(job[p].hash, job[p].surface, local)]
  /\ Return(p)
  /\ UNCHANGED <<tree, pins, outside, consented, strayed, gone>>

WriteMetaFails(p) ==
  /\ At(p, "record")
  /\ IF job[p].op = "add" THEN RemoveAll(job[p].name) ELSE UNCHANGED tree
  /\ Return(p)
  /\ UNCHANGED <<meta, pins, outside, consented, strayed, gone>>

\* Remove wants a tree, whether or not there is a record.
BeginRemove(p, n) ==
  /\ Exists(n)
  /\ Take(p, "meta", "remove", n)
  /\ RemoveAll(n)
  /\ UNCHANGED <<meta, pins, upstream, work, held, consented>>

\* As RemoveMeta, but the record is forgotten.
RemoveKeepsMeta(p) ==
  /\ At(p, "meta")
  /\ Goto(p, "config")
  /\ UNCHANGED <<disk, outside, consented, strayed, gone>>

RemoveMeta(p) ==
  /\ At(p, "meta")
  /\ meta' = [meta EXCEPT ![job[p].name] = NoRecord]
  /\ Goto(p, "config")
  /\ UNCHANGED <<tree, pins, outside, consented, strayed, gone>>

\* unpinPack reads config.yaml, and rewrites it when the pack has a pin.
ReadConfig(p) ==
  /\ At(p, "config")
  /\ job' = [job EXCEPT ![p].pc = "unpin", ![p].pins = pins]
  /\ UNCHANGED <<disk, outside, consented, strayed, gone>>

\* Remove had the name and config.yaml to itself.
Alone(p) == /\ ~job[p].shared
            /\ job[p].pins = pins
            /\ held = <<>> \/ job[p].name \notin held[1]
Unpin(p) ==
  /\ At(p, "unpin")
  /\ LET n == job[p].name
     IN /\ pins' = IF n \in job[p].pins THEN job[p].pins \ {n} ELSE pins
        /\ gone' = [m \in Names |-> CASE m = n -> Alone(p)
                                      [] m \in pins' \ pins -> FALSE
                                      [] OTHER -> gone[m]]
        /\ consented' = [consented EXCEPT ![n] = IF Alone(p) THEN {} ELSE @]
        /\ strayed' = [strayed EXCEPT ![n] = @ /\ ~Alone(p)]
  /\ Return(p)
  /\ UNCHANGED <<tree, meta, outside>>

\* A step of Remove fails.  A second Remove finds no tree and does nothing.
RemoveFails(p) ==
  /\ job[p].pc \in {"meta", "config", "unpin"}
  /\ Return(p)
  /\ Astray(job[p].name)
  /\ UNCHANGED <<disk, outside, consented, gone>>

Crash(p) ==
  /\ job[p].pc # "idle"
  /\ Return(p)
  /\ Astray(job[p].name)
  /\ UNCHANGED <<disk, outside, consented, gone>>

-----------------------------------------------------------------------------
\* config.Load, Pin of a row of the palette, Config.Save.
LoadConfig ==
  /\ held = <<>>
  /\ held' = <<pins>>
  /\ UNCHANGED <<disk, upstream, work, ops, job, consented, strayed, gone>>

SaveConfig(n) ==
  /\ held # <<>>
  /\ Exists(n)
  /\ pins' = held[1] \cup {n}
  /\ held' = <<>>
  /\ gone' = [m \in Names |-> gone[m] /\ m \notin pins']
  /\ UNCHANGED <<tree, meta, upstream, work, ops, job, consented, strayed>>

\* The remote moves on, the author edits.
Push ==
  /\ upstream + 1 \in Versions
  /\ upstream' = upstream + 1
  /\ UNCHANGED <<disk, work, held, ops, job, consented, strayed, gone>>
Edit ==
  /\ work + 1 \in Versions
  /\ work' = work + 1
  /\ UNCHANGED <<disk, upstream, held, ops, job, consented, strayed, gone>>

Step(p) ==
  \/ BeginAdd(p) \/ Clone(p) \/ Checkout(p) \/ Rename(p) \/ AddLocal(p)
  \/ \E n \in Names : BeginUpdate(p, n) \/ BeginRemove(p, n)
  \/ RevParse(p) \/ Pull(p) \/ PullFails(p) \/ Hash(p) \/ Scan(p) \/ Fails(p)
  \/ Trusted(p) \/ Denied(p) \/ WriteMeta(p) \/ WriteMetaFails(p)
  \/ RemoveMeta(p) \/ ReadConfig(p) \/ Unpin(p) \/ RemoveFails(p) \/ Crash(p)

Next == \/ \E p \in Proc : Step(p)
        \/ LoadConfig \/ (\E n \in Names : SaveConfig(n)) \/ Push \/ Edit

Spec == Init /\ [][Next]_vars

-----------------------------------------------------------------------------
\* A cloned pack nobody is working on offers only shell commands the user was
\* shown and trusted, whatever was pulled, refused, failed or checked out, as
\* long as its operations ran one at a time and each came to its end
\* (git.go:150-219).
IdleCloneIsConsented ==
  \A n \in Names :
    tree[n].kind = "git" /\ ~Busy(n) /\ ~strayed[n] =>
      meta[n] # NoRecord /\ {Surface(tree[n].at), meta[n].surface} \subseteq consented[n]

\* After a Remove that reported success there is no tree, no record and no
\* pin until someone puts one there (install.go:229-261, pins.go:26-88).
RemovedIsGone ==
  \A n \in Names : gone[n] => ~Exists(n) /\ meta[n] = NoRecord /\ n \notin pins
=============================================================================
