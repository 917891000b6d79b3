------------------------------- MODULE MCEngine -------------------------------
(***************************************************************************)
(* What a session of the chat engine is made of, as far as safety goes: the *)
(* turns, two at a time if need be, the gate its tools go through and the  *)
(* meter its requests go through.  They share no variable, so a behaviour  *)
(* is about one of them; the others stay as they are at the start.         *)
(***************************************************************************)
EXTENDS Chat, Consent, CostMeter, TLC

VARIABLE part

MCAutoLists == {{}} \cup {{t} : t \in {CHOOSE t \in WriteTools : TRUE}}

\* Turns differ in nothing but their names, and so do those who call the meter.
Symm == Permutations(Turns) \cup Permutations(Callers)

MCInit ==
  /\ NoPanel /\ NoReply
  /\ part \in {"turns", "gate", "meter"}
  /\ Init /\ GateInit /\ MeterInit

MCNext ==
  /\ UNCHANGED <<part, replyVars, screenVars>>
  /\ \/ part = "turns" /\ Next /\ UNCHANGED <<gateVars, spendVars>>
     \/ part = "gate" /\ GateNext /\ UNCHANGED <<vars, spendVars>>
     \/ part = "meter" /\ MeterNext /\ UNCHANGED <<vars, gateVars>>

MCSpec ==
  MCInit /\ [][MCNext]_<<part, vars, gateVars, spendVars, replyVars, screenVars>>
===============================================================================
