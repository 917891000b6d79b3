------------------------------ MODULE AtomicTray ------------------------------
(***************************************************************************)
(* What the staging tray promises, with nothing said about handles,        *)
(* flushes or failures: the file changes by one whole operation of the     *)
(* user at a time, and with it what he sees; a new row is of a resource    *)
(* not listed yet; and an ID once drawn is never drawn again.              *)
(***************************************************************************)
EXTENDS Integers

CONSTANT Resources

VARIABLES
  stored,  \* the rows on file
  seen,    \* the rows the user sees
  drawn    \* the last row ID drawn

vars == <<stored, seen, drawn>>

Init == stored = {} /\ seen = {} /\ drawn = 0

\* The row may never reach the file: then its ID is lost.
Draw == drawn' = drawn + 1 /\ UNCHANGED stored

Stage(res) ==
  /\ \A r \in stored : r.res # res /\ r.id < drawn
  /\ stored' = stored \cup {[id |-> drawn, res |-> res]}
  /\ UNCHANGED drawn

Clear == stored' = {} /\ UNCHANGED drawn

Operation == Draw \/ Clear \/ \E res \in Resources : Stage(res)

Next == Operation /\ seen' = stored'

Spec == Init /\ [][Next]_vars
===============================================================================
