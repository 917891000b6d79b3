------------------------------- MODULE ChatTurn -------------------------------
(***************************************************************************)
(* chat.Session.Send and runTurn, internal/ai/chat/chat.go: the tool loop  *)
(* of one user turn, the history it grows and the event channel a          *)
(* front-end reads.  The provider, the meter's verdict and the tools are   *)
(* the environment: each answers in every way the code distinguishes.      *)
(*                                                                         *)
(* A step that sends an event is enabled only while the channel has room,  *)
(* as in the code: no send in chat.go selects on the context.              *)
(***************************************************************************)
EXTENDS Integers, Sequences, SequencesExt

CONSTANTS
  Turns,        \* the calls of Send on one Session
  MaxIter,      \* maxToolIterations
  ChanCap,      \* capacity of the event channel (16 in the code)
  MaxUses,      \* bound: tool calls in one reply
  MaxTexts      \* bound: text chunks in one reply

ASSUME ConstantsAssumption ==
  /\ {MaxIter, ChanCap} \subseteq Nat \ {0}
  /\ {MaxUses, MaxTexts} \subseteq Nat

Terminal == {"done", "error", "cap"}
Event == {"text", "tool_start", "tool_end"} \cup Terminal
PCs == {"idle", "start", "precall", "stream", "deltas", "stopped",
        "finish", "tools", "call", "tool_end", "close", "closed"}
Message == [role : {"user", "assistant", "results"}, uses : 0..MaxUses]

VARIABLES
  pc,        \* where each turn's goroutine is
  iter,      \* its loop counter
  uses,      \* tool calls collected from the reply being read
  texts,     \* text chunks read from it
  left,      \* tool calls of the reply still to run
  failed,    \* the stream stopped with an error
  chan,      \* the event channel
  reader,    \* the front-end: "reading", "gone" or "finished"
  cancelled, \* the turn's context is cancelled
  history,   \* Session.history
  lastBy,    \* history: the turn that appended to it last
  overlapped, \* history: a turn was sent while another ran
  over       \* history: the front-end has received a terminal event

loopVars == <<iter, uses, texts, left, failed>>
sharedVars == <<history, lastBy>>
vars == <<pc, loopVars, chan, reader, cancelled, sharedVars, overlapped, over>>

TypeOK ==
  /\ pc \in [Turns -> PCs]
  /\ iter \in [Turns -> 0..MaxIter]
  /\ uses \in [Turns -> 0..MaxUses]
  /\ texts \in [Turns -> 0..MaxTexts]
  /\ left \in [Turns -> 0..MaxUses]
  /\ failed \in [Turns -> BOOLEAN]
  /\ \A t \in Turns : chan[t] \in Seq(Event) /\ Len(chan[t]) <= ChanCap
  /\ reader \in [Turns -> {"reading", "gone", "finished"}]
  /\ cancelled \in [Turns -> BOOLEAN]
  /\ history \in Seq(Message)
  /\ lastBy \in Turns \cup {"none"}
  /\ overlapped \in BOOLEAN
  /\ over \in [Turns -> BOOLEAN]

Init ==
  /\ pc = [t \in Turns |-> "idle"]
  /\ iter = [t \in Turns |-> 0]
  /\ uses = [t \in Turns |-> 0]
  /\ texts = [t \in Turns |-> 0]
  /\ left = [t \in Turns |-> 0]
  /\ failed = [t \in Turns |-> FALSE]
  /\ chan = [t \in Turns |-> <<>>]
  /\ reader = [t \in Turns |-> "reading"]
  /\ cancelled = [t \in Turns |-> FALSE]
  /\ history = <<>>
  /\ lastBy = "none"
  /\ overlapped = FALSE
  /\ over = [t \in Turns |-> FALSE]

-----------------------------------------------------------------------------
(* The turn's goroutine *)

Goto(t, label) == pc' = [pc EXCEPT ![t] = label]

\* out <- ev: blocks while the channel is full.
Emit(t, ev) ==
  /\ Len(chan[t]) < ChanCap
  /\ chan' = [chan EXCEPT ![t] = Append(@, ev)]

EmitAndGoto(t, ev, label) == Emit(t, ev) /\ Goto(t, label)

Running(t) == pc[t] \notin {"idle", "closed"}

\* s.history = append(s.history, m), with nothing that orders the goroutines of
\* two turns: one that runs beside another may append to the slice as it was
\* before the other's last append, which is then gone.
Remember(t, role, n) ==
  /\ \/ history' = Append(history, [role |-> role, uses |-> n])
     \/ /\ lastBy \in Turns \ {t} /\ Running(lastBy)
        /\ history' = Append(Front(history), [role |-> role, uses |-> n])
  /\ lastBy' = t

\* Send returns at once, whatever else runs on the session; the rest happens on
\* the goroutine it starts.
Send(t) ==
  /\ pc[t] = "idle"
  /\ Goto(t, "start")
  /\ overlapped' = (overlapped \/ \E u \in Turns : Running(u))
  /\ UNCHANGED <<loopVars, chan, reader, cancelled, sharedVars, over>>

StartTurn(t) ==
  /\ pc[t] = "start"
  /\ Remember(t, "user", 0)
  /\ Goto(t, "precall")
  /\ UNCHANGED <<loopVars, chan, reader, cancelled, overlapped, over>>

\* The head of the loop: out of iterations, or a request is built from the
\* history and the meter lets it through, stops it at a cap, or cannot price it.
LoopHead(t) ==
  /\ pc[t] = "precall"
  /\ \/ iter[t] = MaxIter /\ EmitAndGoto(t, "error", "close")
     \/ iter[t] < MaxIter /\ Goto(t, "stream") /\ UNCHANGED chan
     \/ iter[t] < MaxIter /\ EmitAndGoto(t, "cap", "close")
     \/ iter[t] < MaxIter /\ EmitAndGoto(t, "error", "close")
  /\ UNCHANGED <<loopVars, reader, cancelled, sharedVars, overlapped, over>>

\* provider.ChatStream opens a stream or fails.
OpenStream(t) ==
  /\ pc[t] = "stream"
  /\ \/ Goto(t, "deltas") /\ UNCHANGED chan
     \/ EmitAndGoto(t, "error", "close")
  /\ uses' = [uses EXCEPT ![t] = 0]
  /\ UNCHANGED <<iter, texts, left, failed, reader, cancelled, sharedVars, overlapped, over>>

\* One delta: a text chunk is passed on, a tool call is collected, a stop
\* carries an error or not. Usage comes with a clean stop only (each decoder
\* overwrites the stop on its error paths); what Record does with it is the
\* meter's, see CostMeter.
Delta(t) ==
  /\ pc[t] = "deltas"
  /\ \/ /\ texts[t] < MaxTexts
        /\ texts' = [texts EXCEPT ![t] = @ + 1]
        /\ Emit(t, "text")
        /\ UNCHANGED <<pc, uses, failed>>
     \/ /\ uses[t] < MaxUses
        /\ uses' = [uses EXCEPT ![t] = @ + 1]
        /\ UNCHANGED <<pc, texts, failed, chan>>
     \/ /\ \E f \in BOOLEAN : failed' = [failed EXCEPT ![t] = f]
        /\ texts' = [texts EXCEPT ![t] = 0]
        /\ Goto(t, "stopped")
        /\ UNCHANGED <<uses, chan>>
  /\ UNCHANGED <<iter, left, reader, cancelled, sharedVars, overlapped, over>>

\* A clean reply joins the history; with tool calls in it they are run.
\* failed goes out of scope.
Settle(t) ==
  /\ pc[t] = "stopped"
  /\ failed' = [failed EXCEPT ![t] = FALSE]
  /\ \/ /\ failed[t]
        /\ EmitAndGoto(t, "error", "close")
        /\ UNCHANGED <<sharedVars, left>>
     \/ /\ ~failed[t]
        /\ Remember(t, "assistant", uses[t])
        /\ left' = [left EXCEPT ![t] = uses[t]]
        /\ Goto(t, IF uses[t] = 0 THEN "finish" ELSE "tools")
        /\ UNCHANGED chan
  /\ UNCHANGED <<iter, uses, texts, reader, cancelled, overlapped, over>>

\* MUTANT of Finish: the loop goes on after the terminal event.
FinishAndLoop(t) ==
  /\ pc[t] = "finish"
  /\ iter[t] < MaxIter
  /\ iter' = [iter EXCEPT ![t] = @ + 1]
  /\ EmitAndGoto(t, "done", "precall")
  /\ UNCHANGED <<uses, texts, left, failed, reader, cancelled, sharedVars,
                 overlapped, over>>

Finish(t) ==
  /\ pc[t] = "finish"
  /\ EmitAndGoto(t, "done", "close")
  /\ UNCHANGED <<loopVars, reader, cancelled, sharedVars, overlapped, over>>

\* MUTANT of AfterTools: the results are not fed back.
AfterToolsForgotten(t) ==
  /\ iter' = [iter EXCEPT ![t] = @ + 1]
  /\ UNCHANGED sharedVars

AfterTools(t) ==
  /\ Remember(t, "results", uses[t])
  /\ iter' = [iter EXCEPT ![t] = @ + 1]

\* runTools: one tool after the other, each bracketed by its two events.
RunTools(t) ==
  \/ /\ pc[t] = "tools"
     /\ left[t] > 0
     /\ EmitAndGoto(t, "tool_start", "call")
     /\ UNCHANGED <<iter, left, sharedVars>>
  \/ /\ pc[t] = "call"
     /\ Goto(t, "tool_end")
     /\ UNCHANGED <<iter, left, sharedVars, chan>>
  \/ /\ pc[t] = "tool_end"
     /\ left' = [left EXCEPT ![t] = @ - 1]
     /\ EmitAndGoto(t, "tool_end", "tools")
     /\ UNCHANGED <<iter, sharedVars>>
  \/ /\ pc[t] = "tools"
     /\ left[t] = 0
     /\ AfterTools(t)
     /\ Goto(t, "precall")
     /\ UNCHANGED <<left, chan>>

ToolLoop(t) ==
  /\ RunTools(t)
  /\ UNCHANGED <<uses, texts, failed, reader, cancelled, overlapped, over>>

\* MUTANT of CloseChannel: some turns end without the close.
CloseAfterReply(t) ==
  /\ pc[t] = "close"
  /\ history[Len(history)].role # "user"
  /\ Goto(t, "closed")
  /\ UNCHANGED <<loopVars, chan, reader, cancelled, sharedVars, overlapped, over>>

\* The deferred close(out); the goroutine ends, and its variables with it.
CloseChannel(t) ==
  /\ pc[t] = "close"
  /\ Goto(t, "closed")
  /\ iter' = [iter EXCEPT ![t] = 0]
  /\ uses' = [uses EXCEPT ![t] = 0]
  /\ left' = [left EXCEPT ![t] = 0]
  /\ UNCHANGED <<texts, failed, chan, reader, cancelled, sharedVars, overlapped, over>>

Step(t) ==
  \/ StartTurn(t) \/ LoopHead(t) \/ OpenStream(t) \/ Delta(t)
  \/ Settle(t) \/ Finish(t) \/ ToolLoop(t)
  \/ CloseChannel(t)

-----------------------------------------------------------------------------
(* The front-end *)

Receive(t) ==
  /\ reader[t] = "reading"
  /\ chan[t] # <<>>
  /\ over' = [over EXCEPT ![t] = @ \/ Head(chan[t]) \in Terminal]
  /\ chan' = [chan EXCEPT ![t] = Tail(@)]
  /\ UNCHANGED <<pc, loopVars, reader, cancelled, sharedVars, overlapped>>

SeeClose(t) ==
  /\ reader[t] = "reading"
  /\ pc[t] = "closed"
  /\ chan[t] = <<>>
  /\ reader' = [reader EXCEPT ![t] = "finished"]
  /\ UNCHANGED <<pc, loopVars, chan, cancelled, sharedVars, overlapped, over>>

\* The front-end stops reading and cancels the turn's context.
Cancel(t) ==
  /\ Running(t)
  /\ ~cancelled[t]
  /\ cancelled' = [cancelled EXCEPT ![t] = TRUE]
  /\ reader' = [reader EXCEPT ![t] = "gone"]
  /\ UNCHANGED <<pc, loopVars, chan, sharedVars, overlapped, over>>

Next ==
  \/ \E t \in Turns : Send(t)
  \/ \E t \in Turns : Step(t)
  \/ \E t \in Turns : Receive(t)
  \/ \E t \in Turns : SeeClose(t)
  \/ \E t \in Turns : Cancel(t)

Spec == Init /\ [][Next]_vars

\* Fairness: the goroutine runs whenever it can, the provider's stream and the
\* tools end, and a front-end that is reading keeps reading.
FairSpec ==
  Spec /\ \A t \in Turns : WF_vars(Step(t)) /\ WF_vars(Receive(t) \/ SeeClose(t))

-----------------------------------------------------------------------------
(* Properties *)

\* chat.go:60 and :291: the channel carries at most one Done, Error or Cap
\* event, nothing follows it, and a closed channel always ended with one.
OneTerminalEventLast ==
  \A t \in Turns :
    /\ over[t] => chan[t] = <<>> /\ pc[t] \in {"close", "closed"}
    /\ \A i \in DOMAIN chan[t] : chan[t][i] \in Terminal => i = Len(chan[t])
    /\ pc[t] \in {"close", "closed"} =>
         over[t] \/ (chan[t] # <<>> /\ Last(chan[t]) \in Terminal)

\* What a provider accepts: each assistant message that calls tools is followed
\* at once by the results of exactly those calls.
WellFormed(h) ==
  \A i \in DOMAIN h :
    h[i].role = "assistant" /\ h[i].uses > 0 =>
      /\ i < Len(h)
      /\ h[i + 1] = [role |-> "results", uses |-> h[i].uses]

\* A request to the provider is built from the history as it is then.
BuildsRequest(t) == pc[t] = "precall" /\ pc'[t] = "stream"

\* Every request is built from a well-formed history, after failed, cancelled and
\* capped turns as well, as long as no turn was sent while another ran. Nothing
\* in chat.go or in the panel keeps turns apart: see RequestsAlwaysWellFormed.
RequestWellFormed ==
  [][ ~overlapped /\ (\E t \in Turns : BuildsRequest(t)) => WellFormed(history) ]_vars

\* chat.go:143-144: "a front-end runs one turn at a time". With the front-end
\* this repository has, which sends whatever runs (tui/chat.go:167-189), every
\* request would have to be well-formed all the same, and is not.
RequestsAlwaysWellFormed ==
  [][ (\E t \in Turns : BuildsRequest(t)) => WellFormed(history) ]_vars

\* A front-end that keeps reading gets to the end of the turn.
ReaderSeesEnd ==
  \A t \in Turns :
    (pc[t] = "start" /\ ~cancelled[t]) ~>
      (reader[t] = "finished" \/ cancelled[t])
==============================================================================
