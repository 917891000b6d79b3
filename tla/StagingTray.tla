------------------------------ MODULE StagingTray ------------------------------
(***************************************************************************)
(* The deletion tray (internal/audit/delete/tray.go): rows in the memory   *)
(* of the one handle its front-end writes through, and tray.json, replaced *)
(* by a write to tray.json.tmp and a rename.  A crash may come between any *)
(* two of these steps, and either file operation may fail.                 *)
(*                                                                         *)
(* A resource stands for a (Kind, Identifier) pair.  Notes, times and the  *)
(* order of the rows are left out; Remove and SetNote have no caller.      *)
(***************************************************************************)
EXTENDS Integers, FiniteSets

CONSTANTS
  Resources,  \* what the user may stage
  MaxIds,     \* bound: rows ever added
  Torn,       \* part of a document
  Missing     \* no file, no snapshot

ASSUME TrayAssumption ==
  /\ MaxIds \in Nat
  /\ IsFiniteSet(Resources)
  /\ Torn # Missing
  /\ \A doc \in SUBSET [id : 1..MaxIds, res : Resources] : doc \notin {Torn, Missing}
  /\ \A S \in SUBSET Resources : S # Missing

VARIABLES
  file,    \* contents of tray.json
  tmp,     \* contents of tray.json.tmp
  open,    \* the front-end holds a *Tray
  rows,    \* Tray.rows
  saved,   \* what a failed flush puts back
  flush,   \* how far flush is: "idle", "writing" or "renaming"
  nextId   \* newID: IDs never repeat

trayVars == <<file, tmp, open, rows, saved, flush, nextId>>

Row == [id : 1..MaxIds, res : Resources]

TrayTypeOK ==
  /\ file = Torn \/ file \in SUBSET Row
  /\ tmp \in {Torn, Missing} \/ tmp \in SUBSET Row
  /\ open \in BOOLEAN
  /\ rows \in SUBSET Row
  /\ saved \in SUBSET Row
  /\ flush \in {"idle", "writing", "renaming"}
  /\ nextId \in 1..MaxIds + 1

\* A missing tray.json is an empty tray.
TrayInit ==
  /\ file = {}
  /\ tmp = Missing
  /\ open = FALSE
  /\ rows = {}
  /\ saved = {}
  /\ flush = "idle"
  /\ nextId = 1

\* OpenTray; a document that does not parse leaves the caller with what it had.
OpenTray ==
  \/ /\ file # Torn
     /\ open' = TRUE
     /\ rows' = file
     /\ UNCHANGED <<file, tmp, saved, flush, nextId>>
  \/ UNCHANGED trayVars

\* MUTANT of Store: the document is written in place.
StoreInPlace(held, new) ==
  /\ rows' = new
  /\ saved' = held
  /\ flush' = "writing"
  /\ tmp' = Torn
  /\ file' = Torn

\* The rows change in memory and os.WriteFile truncates the temporary file.
Store(held, new) ==
  /\ rows' = new
  /\ saved' = held
  /\ flush' = "writing"
  /\ tmp' = Torn
  /\ UNCHANGED file

\* Tray.Add: a row staged before keeps its ID.
Add(held, res) ==
  \/ /\ \E r \in held : r.res = res
     /\ Store(held, held)
     /\ UNCHANGED nextId
  \/ /\ \A r \in held : r.res # res
     /\ nextId <= MaxIds
     /\ Store(held, held \cup {[id |-> nextId, res |-> res]})
     /\ nextId' = nextId + 1

\* Tray.Clear
Clear ==
  /\ rows # {}
  /\ Store(rows, {})
  /\ UNCHANGED nextId

Written ==
  /\ flush = "writing"
  /\ tmp' = rows
  /\ flush' = "renaming"
  /\ UNCHANGED <<file, open, rows, saved, nextId>>

Renamed ==
  /\ flush = "renaming"
  /\ file' = tmp
  /\ tmp' = Missing
  /\ flush' = "idle"
  /\ saved' = {}
  /\ UNCHANGED <<open, rows, nextId>>

\* MUTANT of FlushFails: the caller sees the error, the tray keeps the rows.
FlushFailsKept ==
  /\ flush # "idle"
  /\ tmp' = IF flush = "renaming" THEN Missing ELSE Torn
  /\ saved' = {}
  /\ flush' = "idle"
  /\ UNCHANGED <<file, open, rows, nextId>>

\* Either file operation fails: the rows are as before.
FlushFails ==
  /\ flush # "idle"
  /\ tmp' = IF flush = "renaming" THEN Missing ELSE Torn
  /\ rows' = saved
  /\ saved' = {}
  /\ flush' = "idle"
  /\ UNCHANGED <<file, open, nextId>>

\* The process is gone; the two files are not.
TrayDies ==
  /\ open' = FALSE
  /\ rows' = {}
  /\ saved' = {}
  /\ flush' = "idle"
  /\ UNCHANGED <<file, tmp, nextId>>

-----------------------------------------------------------------------------
\* tray.json is a whole document at every moment, whatever fails or crashes.
\* (flush: write to <name>.tmp, then rename.)
FileIntact == file # Torn

\* Between two keys the rows in memory are the rows on file, a failed flush
\* included. (The roll-backs of Add and Clear.)
TrayMatchesFile == open /\ flush = "idle" => rows = file

\* No two rows of the file stand for one resource, nor share an ID.
OneRowPerResource ==
  file # Torn => \A r, s \in file : r.res = s.res \/ r.id = s.id => r = s

\* The three together: what tray.go:1-40 promises of the file and its handle.
TraySound == FileIntact /\ TrayMatchesFile /\ OneRowPerResource

\* The rows in front of the user: the screen is drawn between two flushes, and
\* a panel without a handle shows none.
Seen == IF open /\ flush = "idle" THEN rows ELSE file

Atomic == INSTANCE AtomicTray WITH stored <- file, seen <- Seen, drawn <- nextId - 1

\* All of TraySound and how the file gets from one document to the next: by one
\* whole operation. An Add that fails leaves nothing behind for a later one to
\* write, and no handle writes over rows it has not read. (tray.go: "a caller who
\* saw the error never observes a partially-applied write".)
ImplementsAtomicTray == Atomic!Spec
================================================================================
