---------------------------- MODULE ChatProofs ----------------------------
(***************************************************************************)
(* Proofs about the parts of Chat, for any number of turns, iterations,    *)
(* tool calls and any capacity of the channels. Of ChatTurn, TurnInv ties  *)
(* the place a turn's goroutine is at to its counters and to the terminal  *)
(* event; HistoryInv ties the places of all turns to the one history they  *)
(* share, and holds until a turn is sent while another runs. Of ChatPanel, *)
(* Questions and Readers tie what is on its way to the program to where    *)
(* the turns are. Of ProviderStream, ReplyInv says that what runTurn has   *)
(* and what is on its way to it make up what the model has sent.           *)
(***************************************************************************)
EXTENDS Chat, SequenceTheorems, TLAPS

InTools == {"tools", "call", "tool_end"}
InLoop == {"stream", "deltas", "stopped", "finish"} \cup InTools

\* Nothing the turn has sent is terminal, or only the last event is.
Plain(t) ==
  /\ ~over[t]
  /\ \A i \in 1..Len(chan[t]) : chan[t][i] \notin Terminal
Ended(t) ==
  /\ over[t] <=> Len(chan[t]) = 0
  /\ \A i \in 1..Len(chan[t]) : chan[t][i] \in Terminal <=> i = Len(chan[t])

TurnInv(t) ==
  /\ pc[t] \in InLoop => iter[t] < MaxIter
  /\ pc[t] \in {"call", "tool_end"} => left[t] > 0
  /\ pc[t] \in InTools => uses[t] > 0
  /\ IF pc[t] \in {"close", "closed"} THEN Ended(t) ELSE Plain(t)

\* Each message that calls tools is followed by their results; the last one may
\* be waiting for them.
Answered(h, i) ==
  h[i].role = "assistant" /\ h[i].uses > 0 =>
    i < Len(h) /\ h[i + 1] = [role |-> "results", uses |-> h[i].uses]
Complete(h) == \A i \in 1..Len(h) : Answered(h, i)
Waiting(h, n) ==
  /\ Len(h) > 0 /\ h[Len(h)] = [role |-> "assistant", uses |-> n]
  /\ \A i \in 1..Len(h) - 1 : Answered(h, i)

HistoryInv ==
  /\ \A t, u \in Turns : Running(t) /\ Running(u) => t = u
  /\ \A t \in Turns : pc[t] \in InTools => Waiting(history, uses[t])
  /\ (\A t \in Turns : pc[t] \notin InTools) => Complete(history)

Typed == TypeOK /\ chan \in [Turns -> Seq(Event)]

IInv ==
  /\ Typed
  /\ \A t \in Turns : TurnInv(t)
  /\ ~overlapped => HistoryInv

-----------------------------------------------------------------------------
LEMMA Constants ==
  /\ MaxIter \in Nat \ {0} /\ ChanCap \in Nat \ {0}
  /\ MaxUses \in Nat /\ MaxTexts \in Nat
BY ConstantsAssumption DEF ConstantsAssumption

LEMMA TypeInit == Init => Typed
<1> SUFFICES ASSUME Init PROVE Typed
  OBVIOUS
<1> USE Constants DEF Init
<1>1. /\ pc \in [Turns -> PCs] /\ iter \in [Turns -> 0..MaxIter]
      /\ uses \in [Turns -> 0..MaxUses] /\ texts \in [Turns -> 0..MaxTexts]
      /\ left \in [Turns -> 0..MaxUses]
  BY DEF PCs
<1>2. /\ over \in [Turns -> BOOLEAN] /\ failed \in [Turns -> BOOLEAN]
      /\ cancelled \in [Turns -> BOOLEAN]
      /\ reader \in [Turns -> {"reading", "gone", "finished"}]
  OBVIOUS
<1>3. /\ chan \in [Turns -> Seq(Event)]
      /\ \A t \in Turns : chan[t] \in Seq(Event) /\ Len(chan[t]) <= ChanCap
  OBVIOUS
<1>4. history \in Seq(Message)
  BY EmptySeq
<1>5. lastBy \in Turns \cup {"none"} /\ overlapped \in BOOLEAN
  OBVIOUS
<1> QED
  BY <1>1, <1>2, <1>3, <1>4, <1>5 DEF Typed, TypeOK

LEMMA InitIInv == Init => IInv
<1> SUFFICES ASSUME Init PROVE IInv
  OBVIOUS
<1>1. \A t \in Turns : TurnInv(t)
  BY DEF Init, TurnInv, Plain, Terminal, InLoop, InTools
<1>2. HistoryInv
  BY DEF Init, HistoryInv, Running, InTools, Complete
<1> QED
  BY <1>1, <1>2, TypeInit DEF IInv

-----------------------------------------------------------------------------
(* The channel *)

LEMMA EmitTyped ==
  ASSUME Typed, NEW t \in Turns, NEW ev \in Event, Emit(t, ev)
  PROVE  /\ chan' \in [Turns -> Seq(Event)]
         /\ \A u \in Turns : chan'[u] \in Seq(Event) /\ Len(chan'[u]) <= ChanCap
         /\ chan'[t] = Append(chan[t], ev)
<1>1. /\ chan \in [Turns -> Seq(Event)]
      /\ \A u \in Turns : chan[u] \in Seq(Event) /\ Len(chan[u]) <= ChanCap
  BY DEF Typed, TypeOK
<1>2. chan' = [chan EXCEPT ![t] = Append(chan[t], ev)] /\ Len(chan[t]) < ChanCap
  BY DEF Emit
<1>3. Append(chan[t], ev) \in Seq(Event) /\ Len(Append(chan[t], ev)) = Len(chan[t]) + 1
  BY <1>1, AppendProperties
<1>4. chan' \in [Turns -> Seq(Event)]
  BY <1>1, <1>2, <1>3
<1>5. \A u \in Turns : chan'[u] = IF u = t THEN Append(chan[t], ev) ELSE chan[u]
  BY <1>1, <1>2
<1>6. ASSUME NEW u \in Turns
      PROVE  Len(chan'[u]) <= ChanCap
  <2>1. Len(chan[t]) \in Nat
    BY <1>1
  <2> QED
    BY <1>1, <1>2, <1>3, <1>5, <2>1, Constants
<1> QED
  BY <1>4, <1>5, <1>6

\* An event that is not terminal leaves the channel open to more.
LEMMA EmitPlain ==
  ASSUME Typed, NEW t \in Turns, NEW ev \in Event, Emit(t, ev), over' = over,
         Plain(t)
  PROVE  IF ev \in Terminal THEN Ended(t)' ELSE Plain(t)'
<1>1. chan'[t] = Append(chan[t], ev)
  BY EmitTyped
<1>2. chan[t] \in Seq(Event) /\ Len(chan[t]) \in Nat
  BY DEF Typed, TypeOK
<1>3. /\ Len(chan'[t]) = Len(chan[t]) + 1
      /\ \A i \in 1..Len(chan[t]) : chan'[t][i] = chan[t][i]
      /\ chan'[t][Len(chan[t]) + 1] = ev
  BY <1>1, <1>2, AppendProperties
<1> DEFINE n == Len(chan[t])
<1>4. \A i \in 1..n : chan'[t][i] \notin Terminal
  BY <1>3 DEF Plain
<1>5. \A i \in 1..(n + 1) : chan'[t][i] \in Terminal <=> i = n + 1 /\ ev \in Terminal
  BY <1>2, <1>3, <1>4
<1>6. ~over'[t]
  BY DEF Plain
<1> QED
  BY <1>2, <1>3, <1>5, <1>6 DEF Ended, Plain

LEMMA ReceiveShifts ==
  ASSUME Typed, NEW t \in Turns, Receive(t)
  PROVE  /\ chan' \in [Turns -> Seq(Event)]
         /\ \A u \in Turns : chan'[u] \in Seq(Event) /\ Len(chan'[u]) <= ChanCap
         /\ over' \in [Turns -> BOOLEAN]
         /\ Plain(t) => Plain(t)'
         /\ Ended(t) => Ended(t)'
<1>1. /\ chan \in [Turns -> Seq(Event)]
      /\ \A u \in Turns : chan[u] \in Seq(Event) /\ Len(chan[u]) <= ChanCap
      /\ over \in [Turns -> BOOLEAN]
  BY DEF Typed, TypeOK
<1>2. /\ chan' = [chan EXCEPT ![t] = Tail(chan[t])] /\ chan[t] # <<>>
      /\ over' = [over EXCEPT ![t] = over[t] \/ Head(chan[t]) \in Terminal]
  BY DEF Receive
<1>3. PICK hd \in Event, tl \in Seq(Event) :
        /\ hd = Head(chan[t]) /\ tl = Tail(chan[t]) /\ hd = chan[t][1]
        /\ Len(tl) = Len(chan[t]) - 1 /\ Len(chan[t]) \in Nat \ {0}
        /\ \A i \in 1..Len(tl) : tl[i] = chan[t][i + 1]
  <2>1. chan[t] \in Seq(Event) /\ chan[t] # <<>>
    BY <1>1, <1>2
  <2>2. /\ Head(chan[t]) \in Event /\ Tail(chan[t]) \in Seq(Event)
        /\ Len(Tail(chan[t])) = Len(chan[t]) - 1
        /\ \A i \in 1..Len(Tail(chan[t])) : Tail(chan[t])[i] = chan[t][i + 1]
    BY <2>1, HeadTailProperties
  <2>3. Head(chan[t]) = chan[t][1] /\ Len(chan[t]) \in Nat \ {0}
    BY <2>1, EmptySeq
  <2> QED
    BY <2>2, <2>3
<1>4. /\ chan' = [chan EXCEPT ![t] = tl]
      /\ over' = [over EXCEPT ![t] = over[t] \/ hd \in Terminal]
  BY <1>2, <1>3
<1>5. /\ chan' \in [Turns -> Seq(Event)] /\ over' \in [Turns -> BOOLEAN]
      /\ \A u \in Turns : chan'[u] = IF u = t THEN tl ELSE chan[u]
      /\ over'[t] = (over[t] \/ chan[t][1] \in Terminal) /\ chan'[t] = tl
  BY <1>1, <1>3, <1>4
<1>6. ASSUME NEW u \in Turns
      PROVE  Len(chan'[u]) <= ChanCap
  <2>1. Len(chan[t]) <= ChanCap /\ Len(tl) \in Nat
    BY <1>1
  <2>2. Len(tl) <= ChanCap
    BY <1>3, <2>1, Constants
  <2> QED
    BY <1>1, <1>5, <2>2
<1>7. Plain(t) => Plain(t)'
  <2>1. SUFFICES ASSUME Plain(t) PROVE Plain(t)'
    OBVIOUS
  <2>2. ~over[t] /\ chan[t][1] \notin Terminal
    BY <1>3, <2>1 DEF Plain
  <2>3. \A i \in 1..Len(tl) : i + 1 \in 1..Len(chan[t])
    BY <1>3
  <2>4. \A i \in 1..Len(tl) : tl[i] \notin Terminal
    BY <1>3, <2>1, <2>3 DEF Plain
  <2>5. ~over'[t]
    BY <1>5, <2>2
  <2> QED
    BY <1>5, <2>4, <2>5 DEF Plain
<1>8. Ended(t) => Ended(t)'
  <2>1. SUFFICES ASSUME Ended(t) PROVE Ended(t)'
    OBVIOUS
  <2>2. 1 \in 1..Len(chan[t]) /\ \A i \in 1..Len(tl) : i \in Nat /\ i + 1 \in 1..Len(chan[t])
    BY <1>3
  <2>3. chan[t][1] \in Terminal <=> 1 = Len(chan[t])
    BY <2>1, <2>2 DEF Ended
  <2>4. \A i \in 1..Len(tl) : tl[i] \in Terminal <=> i + 1 = Len(chan[t])
    BY <1>3, <2>1, <2>2 DEF Ended
  <2>5. \A i \in 1..Len(tl) : tl[i] \in Terminal <=> i = Len(tl)
    BY <1>3, <2>2, <2>4
  <2>6. ~over[t]
    BY <1>3, <2>1 DEF Ended
  <2>7. over'[t] <=> Len(tl) = 0
    BY <1>3, <1>5, <2>3, <2>6
  <2> QED
    BY <1>5, <2>5, <2>7 DEF Ended
<1> QED
  BY <1>5, <1>6, <1>7, <1>8

-----------------------------------------------------------------------------
(* Types *)

ChanTyped ==
  /\ chan \in [Turns -> Seq(Event)]
  /\ \A t \in Turns : chan[t] \in Seq(Event) /\ Len(chan[t]) <= ChanCap

LEMMA ChanStep ==
  ASSUME Typed, NEW t \in Turns, chan' = chan \/ \E ev \in Event : Emit(t, ev)
  PROVE  ChanTyped'
<1>1. CASE chan' = chan
  BY <1>1 DEF Typed, TypeOK, ChanTyped
<1>2. CASE \E ev \in Event : Emit(t, ev)
  BY <1>2, EmitTyped DEF ChanTyped
<1> QED
  BY <1>1, <1>2

\* Leaving the last message out leaves a history.
LEMMA FrontTyped ==
  ASSUME NEW h \in Seq(Message)
  PROVE  Front(h) \in Seq(Message)
<1>1. Len(h) \in Nat /\ \A i \in 1..Len(h) : h[i] \in Message
  BY ElementOfSeq
<1>2. CASE Len(h) = 0
  <2>1. h = <<>>
    BY <1>2, EmptySeq
  <2>2. Front(<<>>) = <<>>
    BY DEF Front
  <2> QED
    BY <2>1, <2>2
<1>3. CASE Len(h) > 0
  <2>1. 1 \in 1..Len(h) + 1 /\ Len(h) - 1 \in 1 - 1..Len(h)
    BY <1>1, <1>3
  <2> QED
    BY <2>1, SubSeqProperties DEF Front
<1> QED
  BY <1>1, <1>2, <1>3

LEMMA HistoryTyped ==
  ASSUME Typed, NEW t \in Turns, NEW role \in {"user", "assistant", "results"},
         NEW n \in 0..MaxUses, Remember(t, role, n)
  PROVE  history' \in Seq(Message) /\ lastBy' \in Turns \cup {"none"}
<1>1. history \in Seq(Message) /\ Front(history) \in Seq(Message)
  BY FrontTyped DEF Typed, TypeOK
<1>2. [role |-> role, uses |-> n] \in Message
  BY DEF Message
<1>3. Append(history, [role |-> role, uses |-> n]) \in Seq(Message)
  BY <1>1, <1>2, AppendProperties
<1>4. Append(Front(history), [role |-> role, uses |-> n]) \in Seq(Message)
  BY <1>1, <1>2, AppendProperties
<1> QED
  BY <1>3, <1>4 DEF Remember

LEMMA TypeStep == IInv /\ [Next]_vars => Typed'
<1> SUFFICES ASSUME IInv, [Next]_vars PROVE Typed'
  OBVIOUS
<1>0. Typed
  BY DEF IInv
<1> USE Constants DEF Typed, TypeOK, PCs, Goto, loopVars, sharedVars
<1>1. \A ev \in Event \cup Terminal : ev \in Event
  BY DEF Event
<1>2. /\ "text" \in Event /\ "tool_start" \in Event /\ "tool_end" \in Event
      /\ "done" \in Event /\ "error" \in Event /\ "cap" \in Event
  BY DEF Event, Terminal
<1>3. ASSUME NEW t \in Turns, Send(t) PROVE Typed'
  BY <1>0, <1>3 DEF Send
<1>4. ASSUME NEW t \in Turns, StartTurn(t) PROVE Typed'
  <2>1. Remember(t, "user", 0) /\ 0 \in 0..MaxUses
    BY <1>4 DEF StartTurn
  <2>2. history' \in Seq(Message) /\ lastBy' \in Turns \cup {"none"}
    BY <1>0, <2>1, HistoryTyped
  <2> QED
    BY <1>0, <1>4, <2>2 DEF StartTurn
<1>5. ASSUME NEW t \in Turns, LoopHead(t) PROVE Typed'
  <2>1. ChanTyped' /\ pc' \in [Turns -> PCs]
    BY <1>0, <1>2, <1>5, ChanStep DEF LoopHead, EmitAndGoto
  <2> QED
    BY <1>0, <1>5, <2>1 DEF LoopHead, ChanTyped
<1>6. ASSUME NEW t \in Turns, OpenStream(t) PROVE Typed'
  <2>1. ChanTyped' /\ pc' \in [Turns -> PCs]
    BY <1>0, <1>2, <1>6, ChanStep DEF OpenStream, EmitAndGoto
  <2>2. uses' \in [Turns -> 0..MaxUses]
    BY <1>0, <1>6 DEF OpenStream
  <2> QED
    BY <1>0, <1>6, <2>1, <2>2 DEF OpenStream, ChanTyped
<1>7. ASSUME NEW t \in Turns, Delta(t) PROVE Typed'
  <2>1. ChanTyped' /\ pc' \in [Turns -> PCs]
    BY <1>0, <1>2, <1>7, ChanStep DEF Delta
  <2>2. uses' \in [Turns -> 0..MaxUses]
    <3>1. uses[t] < MaxUses => uses[t] + 1 \in 0..MaxUses
      <4>1. uses[t] \in 0..MaxUses /\ MaxUses \in Nat
        BY <1>0
      <4> HIDE DEF Typed, TypeOK
      <4> QED
        BY <4>1
    <3>2. uses' = uses \/ (uses[t] < MaxUses /\ uses' = [uses EXCEPT ![t] = uses[t] + 1])
      BY <1>7 DEF Delta
    <3>3. uses \in [Turns -> 0..MaxUses]
      BY <1>0
    <3> QED
      BY <3>1, <3>2, <3>3
  <2>3. texts' \in [Turns -> 0..MaxTexts]
    <3>1. texts[t] < MaxTexts => texts[t] + 1 \in 0..MaxTexts
      <4>1. texts[t] \in 0..MaxTexts /\ MaxTexts \in Nat
        BY <1>0
      <4> HIDE DEF Typed, TypeOK
      <4> QED
        BY <4>1
    <3>2. \/ texts' = texts
          \/ texts' = [texts EXCEPT ![t] = 0]
          \/ (texts[t] < MaxTexts /\ texts' = [texts EXCEPT ![t] = texts[t] + 1])
      BY <1>7 DEF Delta
    <3>3. texts \in [Turns -> 0..MaxTexts]
      BY <1>0
    <3> QED
      BY <3>1, <3>2, <3>3
  <2>4. failed' \in [Turns -> BOOLEAN]
    <3>1. failed' = failed \/ \E f \in BOOLEAN : failed' = [failed EXCEPT ![t] = f]
      BY <1>7 DEF Delta
    <3> QED
      BY <1>0, <3>1
  <2>5. /\ iter' \in [Turns -> 0..MaxIter] /\ left' \in [Turns -> 0..MaxUses]
        /\ reader' \in [Turns -> {"reading", "gone", "finished"}]
        /\ cancelled' \in [Turns -> BOOLEAN] /\ history' \in Seq(Message)
        /\ lastBy' \in Turns \cup {"none"} /\ overlapped' \in BOOLEAN
        /\ over' \in [Turns -> BOOLEAN]
    BY <1>0, <1>7 DEF Delta
  <2> QED
    BY <2>1, <2>2, <2>3, <2>4, <2>5 DEF ChanTyped
<1>9. ASSUME NEW t \in Turns, Settle(t) PROVE Typed'
  <2>1. ChanTyped' /\ pc' \in [Turns -> PCs]
    BY <1>0, <1>2, <1>9, ChanStep DEF Settle, EmitAndGoto
  <2>2. history' \in Seq(Message) /\ lastBy' \in Turns \cup {"none"}
    <3>1. uses[t] \in 0..MaxUses
      BY <1>0
    <3> QED
      BY <1>0, <1>9, <3>1, HistoryTyped DEF Settle
  <2>3. failed' \in [Turns -> BOOLEAN]
    BY <1>0, <1>9 DEF Settle
  <2>4. left' \in [Turns -> 0..MaxUses]
    <3>1. left \in [Turns -> 0..MaxUses] /\ uses[t] \in 0..MaxUses
      BY <1>0
    <3>2. left' = left \/ left' = [left EXCEPT ![t] = uses[t]]
      BY <1>9 DEF Settle
    <3> QED
      BY <3>1, <3>2
  <2> QED
    BY <1>0, <1>9, <2>1, <2>2, <2>3, <2>4 DEF Settle, ChanTyped
<1>10. ASSUME NEW t \in Turns, Finish(t) PROVE Typed'
  <2>1. ChanTyped' /\ pc' \in [Turns -> PCs]
    BY <1>0, <1>2, <1>10, ChanStep DEF Finish, EmitAndGoto
  <2> QED
    BY <1>0, <1>10, <2>1 DEF Finish, ChanTyped
<1>11. ASSUME NEW t \in Turns, ToolLoop(t) PROVE Typed'
  <2>1. ChanTyped' /\ pc' \in [Turns -> PCs]
    BY <1>0, <1>2, <1>11, ChanStep DEF ToolLoop, RunTools, AfterTools, EmitAndGoto
  <2>2. history' \in Seq(Message) /\ lastBy' \in Turns \cup {"none"}
    <3>1. uses[t] \in 0..MaxUses
      BY <1>0
    <3> QED
      BY <1>0, <1>11, <3>1, HistoryTyped DEF ToolLoop, RunTools, AfterTools
  <2>3. TurnInv(t) /\ iter[t] \in 0..MaxIter /\ left[t] \in 0..MaxUses
    BY <1>0 DEF IInv
  <2>4. iter' \in [Turns -> 0..MaxIter]
    <3>1. pc[t] = "tools" => iter[t] + 1 \in 0..MaxIter
      <4>1. pc[t] = "tools" => iter[t] < MaxIter
        BY <2>3 DEF TurnInv, InLoop, InTools
      <4> HIDE DEF Typed, TypeOK
      <4> QED
        BY <2>3, <4>1
    <3>2. iter' = iter \/ (pc[t] = "tools" /\ iter' = [iter EXCEPT ![t] = iter[t] + 1])
      BY <1>11 DEF ToolLoop, RunTools, AfterTools
    <3> QED
      BY <1>0, <3>1, <3>2
  <2>5. left' \in [Turns -> 0..MaxUses]
    <3>1. pc[t] = "tool_end" => left[t] - 1 \in 0..MaxUses
      <4>1. pc[t] = "tool_end" => left[t] > 0
        BY <2>3 DEF TurnInv
      <4> HIDE DEF Typed, TypeOK
      <4> QED
        BY <2>3, <4>1
    <3>2. left' = left \/ (pc[t] = "tool_end" /\ left' = [left EXCEPT ![t] = left[t] - 1])
      BY <1>11 DEF ToolLoop, RunTools
    <3> QED
      BY <1>0, <3>1, <3>2
  <2> QED
    BY <1>0, <1>11, <2>1, <2>2, <2>4, <2>5 DEF ToolLoop, ChanTyped
<1>12. ASSUME NEW t \in Turns, CloseChannel(t) PROVE Typed'
  <2>1. iter' \in [Turns -> 0..MaxIter]
    BY <1>0, <1>12 DEF CloseChannel
  <2>2. uses' \in [Turns -> 0..MaxUses]
    BY <1>0, <1>12 DEF CloseChannel
  <2>3. left' \in [Turns -> 0..MaxUses]
    BY <1>0, <1>12 DEF CloseChannel
  <2>4. pc' \in [Turns -> PCs]
    BY <1>0, <1>12 DEF CloseChannel
  <2> QED
    BY <1>0, <1>12, <2>1, <2>2, <2>3, <2>4 DEF CloseChannel
<1>13. ASSUME NEW t \in Turns, Receive(t) PROVE Typed'
  <2>1. ChanTyped' /\ over' \in [Turns -> BOOLEAN]
    BY <1>0, <1>13, ReceiveShifts DEF ChanTyped
  <2> QED
    BY <1>0, <1>13, <2>1 DEF Receive, ChanTyped
<1>14. ASSUME NEW t \in Turns, SeeClose(t) \/ Cancel(t) PROVE Typed'
  BY <1>0, <1>14 DEF SeeClose, Cancel
<1>15. CASE UNCHANGED vars
  BY <1>0, <1>15 DEF vars
<1> QED
  BY <1>3, <1>4, <1>5, <1>6, <1>7, <1>9, <1>10, <1>11, <1>12, <1>13, <1>14,
     <1>15 DEF Next, Step

-----------------------------------------------------------------------------
(* Each turn by itself *)

Own(t) == <<pc[t], iter[t], left[t], uses[t], chan[t], over[t]>>

Act(t) == Send(t) \/ Step(t) \/ Receive(t) \/ SeeClose(t) \/ Cancel(t)

LEMMA Unmoved ==
  ASSUME NEW t \in Turns, TurnInv(t), Own(t)' = Own(t)
  PROVE  TurnInv(t)'
BY DEF TurnInv, Own, Ended, Plain

LEMMA OthersStand ==
  ASSUME Typed, NEW t \in Turns, NEW u \in Turns, u # t, Act(t)
  PROVE  Own(u)' = Own(u)
<1> USE DEF Typed, TypeOK, Own, Goto, EmitAndGoto, Emit, loopVars
<1>1. CASE Send(t)
  BY <1>1 DEF Send
<1>2. CASE StartTurn(t) \/ LoopHead(t) \/ OpenStream(t)
  BY <1>2 DEF StartTurn, LoopHead, OpenStream
<1>3. CASE Delta(t)
  BY <1>3 DEF Delta
<1>4. CASE Settle(t)
  BY <1>4 DEF Settle
<1>5. CASE Finish(t) \/ ToolLoop(t) \/ CloseChannel(t)
  BY <1>5 DEF Finish, ToolLoop, RunTools, AfterTools, CloseChannel
<1>6. CASE Receive(t) \/ SeeClose(t) \/ Cancel(t)
  BY <1>6 DEF Receive, SeeClose, Cancel
<1> QED
  BY <1>1, <1>2, <1>3, <1>4, <1>5, <1>6 DEF Act, Step

\* The counters a turn goes on with.
Counted(t) ==
  /\ pc[t] \in InLoop => iter[t] < MaxIter
  /\ pc[t] \in {"call", "tool_end"} => left[t] > 0
  /\ pc[t] \in InTools => uses[t] > 0

LEMMA CountedStep ==
  ASSUME Typed, NEW t \in Turns, Counted(t), Act(t)
  PROVE  Counted(t)'
<1> USE Constants DEF Counted, InLoop, InTools, Goto, EmitAndGoto, loopVars
<1>1. /\ pc \in [Turns -> PCs] /\ iter[t] \in Nat /\ iter[t] <= MaxIter
      /\ uses \in [Turns -> 0..MaxUses] /\ left \in [Turns -> 0..MaxUses]
      /\ iter \in [Turns -> 0..MaxIter]
  <2>1. /\ pc \in [Turns -> PCs] /\ iter \in [Turns -> 0..MaxIter]
        /\ uses \in [Turns -> 0..MaxUses] /\ left \in [Turns -> 0..MaxUses]
    BY DEF Typed, TypeOK
  <2> QED
    BY <2>1
<1>2. CASE Send(t) \/ StartTurn(t) \/ CloseChannel(t)
  <2>1. pc'[t] \in {"start", "precall", "closed"}
    BY <1>1, <1>2 DEF Send, StartTurn, CloseChannel
  <2> QED
    BY <2>1
<1>3. CASE LoopHead(t)
  <2>1. iter' = iter /\ left' = left /\ uses' = uses
    BY <1>3 DEF LoopHead
  <2>2. pc'[t] = "close" \/ (pc'[t] = "stream" /\ iter[t] < MaxIter)
    BY <1>1, <1>3 DEF LoopHead
  <2> QED
    BY <2>1, <2>2
<1>4. CASE OpenStream(t)
  BY <1>1, <1>4 DEF OpenStream
<1>5. CASE Delta(t)
  BY <1>1, <1>5 DEF Delta
<1>7. CASE Settle(t)
  <2>1. uses[t] \in Nat
    BY <1>1
  <2>2. /\ iter' = iter /\ uses' = uses
        /\ \/ pc'[t] \in {"close", "finish"}
           \/ pc'[t] = "tools" /\ uses[t] # 0
    BY <1>1, <1>7 DEF Settle
  <2>3. pc[t] = "stopped"
    BY <1>7 DEF Settle
  <2> QED
    BY <2>1, <2>2, <2>3
<1>8. CASE Finish(t)
  BY <1>1, <1>8 DEF Finish
<1>9. CASE ToolLoop(t)
  <2>1. left[t] \in Nat /\ uses' = uses
    BY <1>1, <1>9 DEF ToolLoop
  <2>2. \/ /\ pc[t] \in InTools /\ pc'[t] \in {"call", "tool_end"}
           /\ left[t] > 0 /\ left' = left /\ iter' = iter
        \/ pc[t] = "tool_end" /\ pc'[t] = "tools" /\ iter' = iter
        \/ pc'[t] = "precall"
    BY <1>1, <1>9, <2>1 DEF ToolLoop, RunTools
  <2> QED
    BY <2>1, <2>2
<1>10. CASE Receive(t) \/ SeeClose(t) \/ Cancel(t)
  BY <1>10 DEF Receive, SeeClose, Cancel
<1> QED
  BY <1>2, <1>3, <1>4, <1>5, <1>7, <1>8, <1>9, <1>10 DEF Act, Step

\* The channel of a turn that is over ends with the one terminal event, that of
\* any other has none.
Closing(t) == IF pc[t] \in {"close", "closed"} THEN Ended(t) ELSE Plain(t)

LEMMA ClosingStep ==
  ASSUME Typed, NEW t \in Turns, Closing(t), Act(t)
  PROVE  Closing(t)'
<1> USE DEF Goto, loopVars
<1>1. pc \in [Turns -> PCs]
  BY DEF Typed, TypeOK
<1>2. /\ {"text", "tool_start", "tool_end"} \subseteq Event \ Terminal
      /\ {"done", "error", "cap"} \subseteq Event \cap Terminal
  BY DEF Event, Terminal
<1>3. ASSUME chan' = chan, over' = over,
             pc'[t] \in {"close", "closed"} <=> pc[t] \in {"close", "closed"}
      PROVE  Closing(t)'
  BY <1>3 DEF Closing, Plain, Ended
<1>4. ASSUME NEW ev \in Event, Emit(t, ev), over' = over,
             pc[t] \notin {"close", "closed"},
             pc'[t] \in {"close", "closed"} <=> ev \in Terminal
      PROVE  Closing(t)'
  BY <1>4, EmitPlain DEF Closing
<1>5. CASE Send(t) \/ StartTurn(t)
  BY <1>1, <1>3, <1>5 DEF Send, StartTurn
<1>6. CASE CloseChannel(t)
  BY <1>1, <1>3, <1>6 DEF CloseChannel
<1>7. CASE LoopHead(t)
  BY <1>1, <1>2, <1>3, <1>4, <1>7 DEF LoopHead, EmitAndGoto
<1>8. CASE OpenStream(t)
  BY <1>1, <1>2, <1>3, <1>4, <1>8 DEF OpenStream, EmitAndGoto
<1>9. CASE Delta(t)
  BY <1>1, <1>2, <1>3, <1>4, <1>9 DEF Delta
<1>11. CASE Settle(t)
  BY <1>1, <1>2, <1>3, <1>4, <1>11 DEF Settle, EmitAndGoto
<1>12. CASE Finish(t)
  BY <1>1, <1>2, <1>4, <1>12 DEF Finish, EmitAndGoto
<1>13. CASE ToolLoop(t)
  <2>1. over' = over
    BY <1>13 DEF ToolLoop
  <2>2. \/ chan' = chan /\ pc[t] \in InTools /\ pc'[t] \in InTools \cup {"precall"}
        \/ \E ev \in {"tool_start", "tool_end"} :
             Emit(t, ev) /\ pc[t] \in InTools /\ pc'[t] \in InTools
    BY <1>1, <1>13 DEF ToolLoop, RunTools, EmitAndGoto, InTools
  <2> QED
    BY <1>2, <1>3, <1>4, <2>1, <2>2 DEF InTools
<1>14. CASE Receive(t)
  <2>1. pc' = pc
    BY <1>14 DEF Receive
  <2> QED
    BY <1>14, <2>1, ReceiveShifts DEF Closing
<1>15. CASE SeeClose(t) \/ Cancel(t)
  BY <1>3, <1>15 DEF SeeClose, Cancel
<1> QED
  BY <1>5, <1>6, <1>7, <1>8, <1>9, <1>11, <1>12, <1>13, <1>14, <1>15
     DEF Act, Step

LEMMA TurnStep == ASSUME IInv, [Next]_vars, NEW u \in Turns PROVE TurnInv(u)'
<1>1. Typed /\ TurnInv(u)
  BY DEF IInv
<1>2. ASSUME NEW t \in Turns, Act(t) PROVE TurnInv(u)'
  <2>1. CASE u # t
    BY <1>1, <1>2, <2>1, OthersStand, Unmoved
  <2>2. CASE u = t
    <3>1. Counted(u) /\ Closing(u)
      BY <1>1 DEF TurnInv, Counted, Closing
    <3>2. Counted(u)' /\ Closing(u)'
      BY <1>1, <1>2, <2>2, <3>1, CountedStep, ClosingStep
    <3> QED
      BY <3>2 DEF TurnInv, Counted, Closing
  <2> QED
    BY <2>1, <2>2
<1>3. CASE UNCHANGED vars
  BY <1>1, <1>3, Unmoved DEF vars, loopVars, Own
<1> QED
  BY <1>2, <1>3 DEF Next, Act

-----------------------------------------------------------------------------
(* The history *)

LEMMA AppendOne ==
  ASSUME NEW h \in Seq(Message), NEW m \in Message
  PROVE  /\ Len(Append(h, m)) = Len(h) + 1 /\ Len(h) \in Nat
         /\ Append(h, m)[Len(h) + 1] = m
         /\ \A i \in 1..Len(h) : i \in Nat /\ Append(h, m)[i] = h[i]
BY AppendProperties

LEMMA CompleteAppend ==
  ASSUME NEW h \in Seq(Message), NEW m \in Message, Complete(h),
         ~(m.role = "assistant" /\ m.uses > 0)
  PROVE  Complete(Append(h, m))
<1> DEFINE g == Append(h, m)
<1>1. /\ Len(g) = Len(h) + 1 /\ Len(h) \in Nat /\ g[Len(h) + 1] = m
      /\ \A i \in 1..Len(h) : i \in Nat /\ g[i] = h[i]
  BY AppendOne
<1> HIDE DEF g
<1>2. ASSUME NEW i \in 1..Len(h) PROVE Answered(g, i)
  <2>1. Answered(h, i) /\ i \in Nat /\ g[i] = h[i]
    BY <1>1 DEF Complete
  <2>2. i < Len(h) => g[i + 1] = h[i + 1]
    BY <1>1, <2>1
  <2> QED
    BY <1>1, <2>1, <2>2 DEF Answered
<1>3. Answered(g, Len(h) + 1)
  BY <1>1 DEF Answered
<1>4. \A i \in 1..Len(g) : i \in 1..Len(h) \/ i = Len(h) + 1
  BY <1>1
<1> QED
  BY <1>2, <1>3, <1>4 DEF Complete, g

LEMMA WaitingAppend ==
  ASSUME NEW h \in Seq(Message), NEW n \in 0..MaxUses, Complete(h),
         [role |-> "assistant", uses |-> n] \in Message
  PROVE  Waiting(Append(h, [role |-> "assistant", uses |-> n]), n)
<1> DEFINE m == [role |-> "assistant", uses |-> n]
           g == Append(h, m)
<1>1. /\ Len(g) = Len(h) + 1 /\ Len(h) \in Nat /\ g[Len(h) + 1] = m
      /\ \A i \in 1..Len(h) : i \in Nat /\ g[i] = h[i]
  BY AppendOne
<1> HIDE DEF g
<1>2. ASSUME NEW i \in 1..Len(h) PROVE Answered(g, i)
  <2>1. Answered(h, i) /\ i \in Nat /\ g[i] = h[i]
    BY <1>1 DEF Complete
  <2>2. i < Len(h) => g[i + 1] = h[i + 1]
    BY <1>1, <2>1
  <2> QED
    BY <1>1, <2>1, <2>2 DEF Answered
<1>3. \A i \in 1..Len(g) - 1 : i \in 1..Len(h)
  BY <1>1
<1> QED
  BY <1>1, <1>2, <1>3 DEF Waiting, g

LEMMA AnswerAppend ==
  ASSUME NEW h \in Seq(Message), NEW n \in 0..MaxUses, Waiting(h, n),
         [role |-> "results", uses |-> n] \in Message
  PROVE  Complete(Append(h, [role |-> "results", uses |-> n]))
<1> DEFINE m == [role |-> "results", uses |-> n]
           g == Append(h, m)
<1>1. /\ Len(g) = Len(h) + 1 /\ Len(h) \in Nat /\ g[Len(h) + 1] = m
      /\ \A i \in 1..Len(h) : i \in Nat /\ g[i] = h[i]
  BY AppendOne
<1> HIDE DEF g
<1>2. ASSUME NEW i \in 1..Len(h) - 1 PROVE Answered(g, i)
  <2>1. Answered(h, i) /\ i \in Nat /\ i < Len(h) /\ g[i] = h[i]
    BY <1>1 DEF Waiting
  <2>2. g[i + 1] = h[i + 1]
    BY <1>1, <2>1
  <2> QED
    BY <1>1, <2>1, <2>2 DEF Answered
<1>3. Answered(g, Len(h))
  <2>1. Len(h) > 0 /\ g[Len(h)].uses = n /\ g[Len(h)] = h[Len(h)]
    BY <1>1 DEF Waiting
  <2> QED
    BY <1>1, <2>1 DEF Answered
<1>4. Answered(g, Len(h) + 1)
  BY <1>1 DEF Answered
<1>5. \A i \in 1..Len(g) : i \in 1..Len(h) - 1 \/ i = Len(h) \/ i = Len(h) + 1
  BY <1>1
<1> QED
  BY <1>2, <1>3, <1>4, <1>5 DEF Complete, g

\* Between two turns' messages, and while no tools run, the history is complete.
Ordered ==
  /\ \A t \in Turns : pc[t] \in InTools => Waiting(history, uses[t])
  /\ (\A t \in Turns : pc[t] \notin InTools) => Complete(history)

Alone == \A t, u \in Turns : Running(t) /\ Running(u) => t = u

LEMMA AloneStep == ASSUME Typed, Alone, [Next]_vars, ~overlapped' PROVE Alone'
<1> USE DEF Alone, Running
<1>1. pc \in [Turns -> PCs]
  BY DEF Typed, TypeOK
<1>2. ASSUME NEW t \in Turns, Send(t) PROVE Alone'
  BY <1>1, <1>2 DEF Send, Goto
<1>3. ASSUME NEW t \in Turns, Step(t) PROVE Alone'
  <2>1. pc[t] \notin {"idle", "closed"}
    BY <1>3 DEF Step, StartTurn, LoopHead, OpenStream, Delta, Settle,
       Finish, ToolLoop, RunTools, CloseChannel
  <2>2. \A u \in Turns : u # t => pc'[u] = pc[u]
    BY <1>1, <1>3, OthersStand DEF Act, Own
  <2> QED
    BY <2>1, <2>2
<1>4. ASSUME NEW t \in Turns, Receive(t) \/ SeeClose(t) \/ Cancel(t) PROVE Alone'
  BY <1>4 DEF Receive, SeeClose, Cancel
<1>5. CASE UNCHANGED vars
  BY <1>5 DEF vars
<1> QED
  BY <1>2, <1>3, <1>4, <1>5 DEF Next

\* A turn that runs alone appends to the history as it is.
LEMMA RememberAlone ==
  ASSUME Alone, NEW t \in Turns, Running(t), NEW role, NEW n, Remember(t, role, n)
  PROVE  history' = Append(history, [role |-> role, uses |-> n])
BY DEF Alone, Remember

LEMMA OrderedStep ==
  ASSUME Typed, Alone, Ordered, \A t \in Turns : Counted(t), [Next]_vars
  PROVE  Ordered'
<1>1. /\ pc \in [Turns -> PCs] /\ uses \in [Turns -> 0..MaxUses]
      /\ history \in Seq(Message)
  BY DEF Typed, TypeOK
<1>2. ASSUME history' = history,
             \A t \in Turns : pc'[t] \in InTools <=> pc[t] \in InTools,
             \A t \in Turns : pc[t] \in InTools => uses'[t] = uses[t]
      PROVE  Ordered'
  BY <1>2 DEF Ordered
<1>3. ASSUME NEW t \in Turns, Send(t) PROVE Ordered'
  BY <1>1, <1>2, <1>3 DEF Send, Goto, InTools, loopVars, sharedVars
<1> USE DEF sharedVars
<1>4. ASSUME NEW t \in Turns, Step(t) PROVE Ordered'
  <2>1. pc[t] \notin {"idle", "closed"}
    BY <1>4 DEF Step, StartTurn, LoopHead, OpenStream, Delta, Settle,
       Finish, ToolLoop, RunTools, CloseChannel
  <2>2. \A u \in Turns : u # t => pc[u] \notin InTools
    BY <2>1 DEF Alone, Running, InTools
  <2>3. \A u \in Turns : u # t => pc'[u] = pc[u] /\ uses'[u] = uses[u]
    BY <1>4, OthersStand DEF Act, Own
  <2>4. ASSUME history' = history, pc'[t] \in InTools <=> pc[t] \in InTools,
               pc[t] \in InTools => uses'[t] = uses[t]
        PROVE  Ordered'
    BY <1>2, <2>3, <2>4
  <2>5. ASSUME pc'[t] \notin InTools, Complete(history') PROVE Ordered'
    BY <2>2, <2>3, <2>5 DEF Ordered
  <2>6. pc[t] \notin InTools => Complete(history)
    BY <2>2 DEF Ordered
  <2>7. CASE StartTurn(t)
    <3> DEFINE m == [role |-> "user", uses |-> 0]
    <3>1. pc[t] \notin InTools /\ pc'[t] \notin InTools
      BY <1>1, <2>7 DEF StartTurn, Goto, InTools
    <3>2. m \in Message /\ ~(m.role = "assistant" /\ m.uses > 0)
      BY Constants DEF Message
    <3>3. history' = Append(history, m)
      BY <2>1, <2>7, RememberAlone DEF StartTurn, Running
    <3>4. Complete(Append(history, m))
      BY <1>1, <2>6, <3>1, <3>2, CompleteAppend
    <3> QED
      BY <2>5, <3>1, <3>3, <3>4
  <2>8. CASE LoopHead(t) \/ OpenStream(t)
    BY <1>1, <2>4, <2>8 DEF LoopHead, OpenStream, EmitAndGoto, Goto, InTools
  <2>9. CASE Delta(t)
    BY <1>1, <2>4, <2>9 DEF Delta, Goto, InTools
  <2>10. CASE Settle(t)
    <3>1. pc[t] \notin InTools /\ uses' = uses
      BY <2>10 DEF Settle, InTools
    <3>2. CASE failed[t]
      BY <1>1, <2>4, <2>10, <3>1, <3>2 DEF Settle, EmitAndGoto, Goto, InTools
    <3>3. CASE ~failed[t]
      <4> DEFINE m == [role |-> "assistant", uses |-> uses[t]]
      <4>1. m \in Message /\ uses[t] \in 0..MaxUses
        BY <1>1 DEF Message
      <4>2. /\ history' = Append(history, m)
            /\ pc'[t] = IF uses[t] = 0 THEN "finish" ELSE "tools"
        <5>1. Remember(t, "assistant", uses[t]) /\ Running(t)
          BY <2>1, <2>10, <3>3 DEF Settle, Running
        <5>2. history' = Append(history, m)
          BY <5>1, RememberAlone
        <5> QED
          BY <1>1, <2>10, <3>3, <5>2 DEF Settle, Goto
      <4>3. CASE uses[t] = 0
        <5>1. ~(m.role = "assistant" /\ m.uses > 0)
          BY <4>3
        <5>2. Complete(Append(history, m))
          BY <1>1, <2>6, <3>1, <4>1, <5>1, CompleteAppend
        <5>3. pc'[t] \notin InTools
          BY <4>2, <4>3 DEF InTools
        <5> QED
          BY <2>5, <4>2, <5>2, <5>3
      <4>4. CASE uses[t] # 0
        <5>1. Waiting(Append(history, m), uses[t])
          BY <1>1, <2>6, <3>1, <4>1, WaitingAppend
        <5>2. Waiting(history', uses'[t])
          BY <3>1, <4>2, <5>1
        <5>3. pc'[t] \in InTools
          BY <4>2, <4>4 DEF InTools
        <5> QED
          BY <2>2, <2>3, <5>2, <5>3 DEF Ordered
      <4> QED
        BY <4>3, <4>4
    <3> QED
      BY <3>2, <3>3
  <2>11. CASE Finish(t) \/ CloseChannel(t)
    BY <1>1, <2>4, <2>11 DEF Finish, CloseChannel, EmitAndGoto, Goto, InTools, loopVars
  <2>12. CASE ToolLoop(t)
    <3>1. pc[t] \in InTools /\ uses' = uses
      BY <2>12 DEF ToolLoop, RunTools, InTools
    <3>2. CASE history' = history /\ pc'[t] \in InTools
      BY <2>4, <3>1, <3>2
    <3>3. CASE AfterTools(t) /\ Goto(t, "precall")
      <4> DEFINE m == [role |-> "results", uses |-> uses[t]]
      <4>1. m \in Message /\ uses[t] \in 0..MaxUses
        BY <1>1 DEF Message
      <4>2. Waiting(history, uses[t])
        BY <3>1 DEF Ordered
      <4>3. Complete(Append(history, m))
        BY <1>1, <4>1, <4>2, AnswerAppend
      <4>4. history' = Append(history, m)
        BY <2>1, <3>3, RememberAlone DEF AfterTools, Running
      <4>5. pc'[t] \notin InTools
        BY <1>1, <3>3 DEF Goto, InTools
      <4> QED
        BY <2>5, <4>3, <4>4, <4>5
    <3> QED
      BY <1>1, <2>12, <3>2, <3>3 DEF ToolLoop, RunTools, EmitAndGoto, Goto, InTools
  <2> QED
    BY <1>4, <2>7, <2>8, <2>9, <2>10, <2>11, <2>12 DEF Step
<1>5. ASSUME NEW t \in Turns, Receive(t) \/ SeeClose(t) \/ Cancel(t) PROVE Ordered'
  BY <1>2, <1>5 DEF Receive, SeeClose, Cancel, loopVars
<1>6. CASE UNCHANGED vars
  BY <1>2, <1>6 DEF vars, loopVars
<1> QED
  BY <1>3, <1>4, <1>5, <1>6 DEF Next

\* Turns that have overlapped stay so.
LEMMA OnceOverlapped == ASSUME [Next]_vars, overlapped PROVE overlapped'
<1> USE DEF loopVars
<1>1. ASSUME NEW t \in Turns, Send(t) PROVE overlapped'
  BY <1>1 DEF Send
<1>2. ASSUME NEW t \in Turns, Step(t) PROVE overlapped'
  BY <1>2 DEF Step, StartTurn, LoopHead, OpenStream, Delta, Settle, Finish, ToolLoop,
     CloseChannel
<1>3. ASSUME NEW t \in Turns, Receive(t) \/ SeeClose(t) \/ Cancel(t) PROVE overlapped'
  BY <1>3 DEF Receive, SeeClose, Cancel
<1>4. CASE UNCHANGED vars
  BY <1>4 DEF vars
<1> QED
  BY <1>1, <1>2, <1>3, <1>4 DEF Next

THEOREM Invariance == Spec => []IInv
<1>1. IInv /\ [Next]_vars => IInv'
  <2> SUFFICES ASSUME IInv, [Next]_vars PROVE IInv'
    OBVIOUS
  <2>1. Typed'
    BY TypeStep
  <2>2. \A t \in Turns : TurnInv(t)'
    BY TurnStep
  <2>3. ASSUME ~overlapped' PROVE HistoryInv'
    <3>0. ~overlapped
      BY <2>3, OnceOverlapped
    <3>1. Typed /\ Alone /\ Ordered /\ \A t \in Turns : Counted(t)
      BY <3>0 DEF IInv, HistoryInv, Alone, Ordered, TurnInv, Counted
    <3>2. Alone' /\ Ordered'
      BY <2>3, <3>1, AloneStep, OrderedStep
    <3> QED
      BY <3>2 DEF HistoryInv, Alone, Ordered
  <2> QED
    BY <2>1, <2>2, <2>3 DEF IInv
<1> QED
  BY InitIInv, <1>1, PTL DEF Spec

-----------------------------------------------------------------------------
(* Results *)

\* Every turn's goroutine, channel, history and counters stay within their types
\* and bounds, the number of rounds and of tool calls included (chat.go, runTurn).
THEOREM TurnsTyped == Spec => []TypeOK
<1>1. IInv => TypeOK
  BY DEF IInv, Typed
<1> QED
  BY <1>1, Invariance, PTL

\* Whatever stops a turn, and however far behind its reader is, its channel
\* carries one terminal event, as the last one (chat.go:60, :291).
THEOREM TurnsEndOnce == Spec => []OneTerminalEventLast
<1>1. IInv => OneTerminalEventLast
  <2> SUFFICES ASSUME IInv, NEW t \in Turns
               PROVE  /\ over[t] => chan[t] = <<>> /\ pc[t] \in {"close", "closed"}
                      /\ \A i \in DOMAIN chan[t] : chan[t][i] \in Terminal => i = Len(chan[t])
                      /\ pc[t] \in {"close", "closed"} =>
                           over[t] \/ (chan[t] # <<>> /\ Last(chan[t]) \in Terminal)
    BY DEF OneTerminalEventLast
  <2>1. chan[t] \in Seq(Event) /\ Len(chan[t]) \in Nat /\ DOMAIN chan[t] = 1..Len(chan[t])
    BY DEF IInv, Typed, TypeOK
  <2>2. Closing(t)
    BY DEF IInv, TurnInv, Closing
  <2>3. CASE pc[t] \in {"close", "closed"}
    <3>1. Ended(t)
      BY <2>2, <2>3 DEF Closing
    <3>2. over[t] => chan[t] = <<>>
      BY <2>1, <3>1, EmptySeq DEF Ended
    <3>3. ~over[t] => chan[t] # <<>> /\ chan[t][Len(chan[t])] \in Terminal
      BY <2>1, <3>1 DEF Ended
    <3> QED
      BY <2>1, <2>3, <3>1, <3>2, <3>3 DEF Ended, Last
  <2>4. CASE pc[t] \notin {"close", "closed"}
    BY <2>1, <2>2, <2>4 DEF Closing, Plain
  <2> QED
    BY <2>3, <2>4
<1> QED
  BY <1>1, Invariance, PTL

\* Until a turn is sent while another runs, every request is built from a history
\* in which each call of a tool is answered, after turns that failed, were
\* cancelled or hit a cap as well (chat.go:143-146, :308-330). Overlapping turns
\* break it: chat_overlap shows how.
THEOREM RequestsAreWellFormed == Spec => RequestWellFormed
<1>1. ASSUME IInv, ~overlapped, NEW t \in Turns, BuildsRequest(t)
      PROVE  WellFormed(history)
  <2>1. Alone /\ Ordered
    BY <1>1 DEF IInv, HistoryInv, Alone, Ordered
  <2>2. \A u \in Turns : pc[u] \notin InTools
    BY <1>1, <2>1 DEF BuildsRequest, Alone, Running, InTools
  <2>3. Complete(history) /\ history \in Seq(Message)
    BY <1>1, <2>1, <2>2 DEF Ordered, IInv, Typed, TypeOK
  <2> QED
    BY <2>3 DEF WellFormed, Complete, Answered
<1>2. IInv => [~overlapped /\ (\E t \in Turns : BuildsRequest(t)) => WellFormed(history)]_vars
  BY <1>1
<1> QED
  BY <1>2, Invariance, PTL DEF RequestWellFormed

-----------------------------------------------------------------------------
(* The panel that puts the questions of the gate and shows the turns *)

\* A question in flight, up as the modal or answered is one its turn waits for.
Questions ==
  /\ turn = [t \in Turns |-> turn[t]] /\ answer = [t \in Turns |-> answer[t]]
  /\ \A t \in Turns : t \in requests => turn[t] = "asking" /\ answer[t] = "none"
  /\ \A t \in Turns : answer[t] # "none" => turn[t] = "asking"
  /\ modal \in Turns \cup {"none"} /\ Panel!ModalIsWaitedFor

\* The messages of turn t on their way to Update.
Under(t) == {m \in stream : m.turn = t}

\* One goroutine reads the turn, or one message of its is on its way, or neither.
OneReader(t) ==
  /\ armed[t] \in {0, 1} /\ shown[t] \in Nat /\ taken[t] \in Nat
  /\ turn[t] = "none" => armed[t] = 0 /\ Under(t) = {} /\ shown[t] = taken[t]
  /\ armed[t] = 1 => Under(t) = {} /\ shown[t] = taken[t]
  /\ \A m \in Under(t) : /\ Under(t) = {m}
                         /\ m.ok => m.n = taken[t] /\ taken[t] = shown[t] + 1

Readers ==
  /\ turn = [t \in Turns |-> turn[t]] /\ armed = [t \in Turns |-> armed[t]]
  /\ shown = [t \in Turns |-> shown[t]] /\ taken = [t \in Turns |-> taken[t]]
  /\ \A t \in Turns : OneReader(t)

LEMMA QuestionsInit == ASSUME "none" \notin Turns PROVE Panel!Init => Questions
BY DEF Panel!Init, Questions, Panel!ModalIsWaitedFor

LEMMA QuestionsStep ==
  ASSUME "none" \notin Turns, Questions, [Panel!Next]_Panel!vars
  PROVE  Questions'
<1> USE DEF Questions, Panel!ModalIsWaitedFor
<1>1. ASSUME Panel!KeyInPalette \/ Panel!KeyEsc PROVE Questions'
  BY <1>1 DEF Panel!KeyInPalette, Panel!KeyEsc, Panel!Post, Panel!engineVars, Panel!panelVars
<1>2. ASSUME NEW t \in Turns, Panel!KeyEnter(t) PROVE Questions'
  BY <1>2 DEF Panel!KeyEnter, Panel!panelVars
<1>3. ASSUME NEW d \in {"yes", "no"}, Panel!KeyConsent(d) PROVE Questions'
  BY <1>3 DEF Panel!KeyConsent, Panel!engineVars
<1>4. ASSUME Panel!DeliverBack \/ Panel!DeliverOpen PROVE Questions'
  BY <1>4 DEF Panel!DeliverBack, Panel!DeliverOpen, Panel!engineVars, Panel!panelVars
<1>5. ASSUME NEW p \in Panel!Panels, Panel!DeliverReady(p) PROVE Questions'
  BY <1>5 DEF Panel!DeliverReady, Panel!engineVars
<1>6. ASSUME NEW m \in Panel!StreamMsg, Panel!DeliverStream(m) PROVE Questions'
  BY <1>6 DEF Panel!DeliverStream, Panel!engineVars, Panel!panelVars
<1>7. ASSUME NEW t \in Turns, Panel!DeliverRequest(t) PROVE Questions'
  <2>1. CASE mode = "chat"
    BY <1>7, <2>1 DEF Panel!DeliverRequest, Panel!engineVars
  <2>2. CASE mode # "chat"
    BY <1>7, <2>2 DEF Panel!DeliverRequest, Panel!engineVars
  <2> QED  BY <2>1, <2>2
<1>8. ASSUME NEW t \in Turns, Panel!Read(t) PROVE Questions'
  BY <1>8 DEF Panel!Read, Panel!engineVars, Panel!panelVars
<1>9. ASSUME NEW t \in Turns, Panel!Engine(t) PROVE Questions'
  <2>1. CASE Panel!Emit(t) \/ Panel!End(t)
    BY <1>9, <2>1 DEF Panel!Engine, Panel!Emit, Panel!End, Panel!panelVars
  <2>2. CASE Panel!Ask(t)
    BY <1>9, <2>2 DEF Panel!Engine, Panel!Ask, Panel!panelVars
  <2>3. CASE Panel!Resume(t)
    BY <1>9, <2>3 DEF Panel!Engine, Panel!Resume, Panel!panelVars
  <2> QED  BY <1>9, <2>1, <2>2, <2>3 DEF Panel!Engine
<1>10. ASSUME UNCHANGED Panel!vars PROVE Questions'
  BY <1>10 DEF Panel!vars, Panel!engineVars, Panel!panelVars
<1> QED
  BY <1>1, <1>2, <1>3, <1>4, <1>5, <1>6, <1>7, <1>8, <1>9, <1>10
  DEF Panel!Next, Panel!Key, Panel!Deliver

\* For any number of turns and panels, and any order of keys and messages: the modal
\* on screen belongs to a goroutine that still waits for its answer (tui/chat.go).
THEOREM ModalsAreAwaited == Panel!Spec => []ModalIsWaitedFor
<1>1. "none" \notin Turns  BY ChatAssumption DEF ChatAssumption, Panel!PanelAssumption
<1>2. Panel!Init => Questions  BY <1>1, QuestionsInit
<1>3. Questions /\ [Panel!Next]_Panel!vars => Questions'  BY <1>1, QuestionsStep
<1>4. Questions => ModalIsWaitedFor  BY DEF Questions, ModalIsWaitedFor
<1> QED  BY <1>2, <1>3, <1>4, PTL DEF Panel!Spec

LEMMA ReadersInit == Panel!Init => Readers
BY DEF Panel!Init, Readers, OneReader, Under

\* A step that leaves the readers alone and starts no turn.
LEMMA ReadersFrame ==
  ASSUME Readers, UNCHANGED Panel!readVars, turn' = [t \in Turns |-> turn'[t]],
         \A t \in Turns : turn[t] # "none" => turn'[t] # "none"
  PROVE  Readers' /\ UNCHANGED shown
BY DEF Readers, OneReader, Under, Panel!readVars

LEMMA ReadersStep ==
  ASSUME Readers, [Panel!Next]_Panel!vars
  PROVE  Readers' /\ \A t \in Turns : shown'[t] \in {shown[t], shown[t] + 1}
<1> DEFINE Goal == Readers' /\ \A t \in Turns : shown'[t] \in {shown[t], shown[t] + 1}
<1>1. ASSUME UNCHANGED <<Panel!readVars, turn>> PROVE Goal
  BY <1>1, ReadersFrame DEF Readers
<1>2. ASSUME NEW t \in Turns, Panel!KeyEnter(t) PROVE Goal
  <2>1. /\ UNCHANGED <<taken, shown, stream>> /\ turn[t] = "none"
        /\ armed' = [armed EXCEPT ![t] = @ + 1] /\ turn' = [turn EXCEPT ![t] = "running"]
    BY <1>2 DEF Panel!KeyEnter
  <2>2. OneReader(t)'
    BY <2>1 DEF Readers, OneReader, Under
  <2>3. ASSUME NEW u \in Turns \ {t} PROVE OneReader(u)'
    BY <2>1 DEF Readers, OneReader, Under
  <2> QED  BY <2>1, <2>2, <2>3 DEF Readers
<1>3. ASSUME NEW t \in Turns, Panel!Engine(t) PROVE Goal
  <2>1. /\ UNCHANGED Panel!readVars /\ turn[t] # "none"
        /\ \/ UNCHANGED turn
           \/ \E s \in {"running", "asking", "ended"} : turn' = [turn EXCEPT ![t] = s]
    BY <1>3 DEF Panel!Engine, Panel!Emit, Panel!Ask, Panel!Resume, Panel!End
  <2> QED  BY <2>1, ReadersFrame DEF Readers
<1>4. ASSUME NEW m \in Panel!StreamMsg, Panel!DeliverStream(m) PROVE Goal
  <2>1. /\ UNCHANGED <<taken, turn>> /\ m \in stream /\ stream' = stream \ {m}
        /\ m.turn \in Turns /\ m \in Under(m.turn)
    BY <1>4 DEF Panel!DeliverStream, Panel!engineVars, Panel!StreamMsg, Under
  <2>2. \/ m.ok /\ shown' = [shown EXCEPT ![m.turn] = m.n]
           /\ armed' = [armed EXCEPT ![m.turn] = @ + 1]
        \/ UNCHANGED <<shown, armed>>
    BY <1>4 DEF Panel!DeliverStream, Panel!Rearm
  <2>3. OneReader(m.turn)  BY <2>1 DEF Readers
  <2>4. Under(m.turn) = {m} /\ Under(m.turn)' = {} /\ turn[m.turn] # "none" /\ armed[m.turn] = 0
    BY <2>1, <2>3 DEF OneReader, Under
  <2>5. /\ OneReader(m.turn)' /\ shown'[m.turn] \in {shown[m.turn], shown[m.turn] + 1}
    BY <2>1, <2>2, <2>3, <2>4 DEF Readers, OneReader
  <2>6. ASSUME NEW u \in Turns \ {m.turn} PROVE OneReader(u)' /\ shown'[u] = shown[u]
    <3>1. Under(u)' = Under(u)  BY <2>1 DEF Under
    <3> QED  BY <2>1, <2>2, <3>1 DEF Readers, OneReader
  <2> QED  BY <2>1, <2>2, <2>5, <2>6 DEF Readers
<1>5. ASSUME NEW t \in Turns, Panel!Read(t) PROVE Goal
  <2>1. /\ UNCHANGED <<shown, turn>> /\ armed[t] > 0 /\ armed' = [armed EXCEPT ![t] = @ - 1]
    BY <1>5 DEF Panel!Read, Panel!engineVars
  <2>2. PICK n, ok :
          /\ stream' = stream \cup {[turn |-> t, n |-> n, ok |-> ok]}
          /\ \/ n = taken'[t] /\ taken' = [taken EXCEPT ![t] = @ + 1]
             \/ ok = FALSE /\ UNCHANGED taken
    BY <1>5 DEF Panel!Read
  <2> DEFINE m == [turn |-> t, n |-> n, ok |-> ok]
  <2>3. OneReader(t)  BY DEF Readers
  <2>4. armed[t] = 1 /\ armed'[t] = 0 /\ turn[t] # "none" /\ taken[t] = shown[t] /\ Under(t) = {}
    BY <2>1, <2>3 DEF OneReader, Readers
  <2>7. Under(t)' = {m}
    BY <2>2, <2>4 DEF Under
  <2>5. OneReader(t)'
    BY <2>1, <2>2, <2>3, <2>4, <2>7 DEF Readers, OneReader
  <2>6. ASSUME NEW u \in Turns \ {t} PROVE OneReader(u)'
    <3>1. Under(u)' = Under(u)  BY <2>2 DEF Under
    <3> QED  BY <2>1, <2>2, <3>1 DEF Readers, OneReader
  <2> QED  BY <2>1, <2>2, <2>5, <2>6 DEF Readers
<1> QED
  <2>1. CASE Panel!KeyInPalette \/ Panel!KeyEsc \/ \E d \in {"yes", "no"} : Panel!KeyConsent(d)
    BY <1>1, <2>1 DEF Panel!KeyInPalette, Panel!KeyEsc, Panel!KeyConsent, Panel!engineVars
  <2>2. CASE Panel!DeliverBack \/ Panel!DeliverOpen
             \/ (\E p \in Panel!Panels : Panel!DeliverReady(p))
             \/ \E t \in Turns : Panel!DeliverRequest(t)
    BY <1>1, <2>2 DEF Panel!DeliverBack, Panel!DeliverOpen, Panel!DeliverReady,
                      Panel!DeliverRequest, Panel!engineVars
  <2>3. CASE UNCHANGED Panel!vars
    BY <1>1, <2>3 DEF Panel!vars, Panel!engineVars
  <2> QED
    BY <1>2, <1>3, <1>4, <1>5, <2>1, <2>2, <2>3 DEF Panel!Next, Panel!Key, Panel!Deliver

\* However panels are left and opened again while turns run, a transcript skips no
\* event of a turn and shows none twice (tui/chat.go, tui/app.go).
THEOREM TranscriptsKeepOrder == Panel!Spec => EventsShownInOrder
<1>1. Readers /\ [Panel!Next]_Panel!vars => Readers'
  BY ReadersStep
<1>2. Readers /\ [Panel!Next]_Panel!vars =>
        [\A t \in Turns : shown'[t] \in {shown[t], shown[t] + 1}]_Panel!vars
  BY ReadersStep
<1> QED  BY ReadersInit, <1>1, <1>2, PTL
     DEF Panel!Spec, EventsShownInOrder, Panel!EventsShownInOrder

-----------------------------------------------------------------------------
(* The reply of a provider to one request *)

CallDeltas == [kind : {"tool"}, index : Reply!Indices, id : Reply!Indices, part : Nat]
Stops == [kind : {"stop"}, reason : {"", "other", "error", "done", "max_tokens"},
          err : BOOLEAN, usage : BOOLEAN]
Asked == [parts : Nat, whole : BOOLEAN]
Parcels == {Reply!TextDelta} \cup CallDeltas

\* What runTurn has not received yet.
Way == deltas \o pending
Coming(d) == \E p \in 1..Len(Way) : Way[p] = d
Got(i) == Len(acc[i].input)

ReplyShape ==
  /\ asked \in Seq(Asked) /\ Len(asked) <= MaxCalls
  /\ said \in BOOLEAN /\ counted \in BOOLEAN /\ text \in BOOLEAN
  /\ ended \in {"", "done", "max_tokens"} /\ at \in {"read", "check", "stop", "closed"}
  /\ headers = [i \in Reply!Indices |-> IF i <= Len(asked) THEN i ELSE Reply!Unnamed]
  /\ deltas \in Seq(Parcels \cup Stops) /\ pending \in Seq(Parcels)
  /\ acc \in [Reply!Indices -> [id : Nat, input : Seq(Nat)]]
  /\ stop \in Stops /\ final \in Stops

\* Of call i what has come is its beginning, and the rest of what was asked is coming.
CallRight(i) ==
  /\ \A k \in 1..Got(i) : acc[i].input[k] = k
  /\ i > Len(asked) => acc[i].id = Reply!Unnamed /\ Got(i) = 0
  /\ i <= Len(asked) =>
       /\ Got(i) <= asked[i].parts
       /\ \/ acc[i].id = i
          \/ acc[i].id = Reply!Unnamed /\ Coming(Reply!ToolUseDelta(i, i, 0))
       /\ \A k \in Got(i) + 1..asked[i].parts : Coming(Reply!ToolUseDelta(i, i, k))

\* What is coming is of a call of the model and has not come before.
DeltaRight(d) ==
  d.kind = "tool" =>
    /\ d.index \in 1..Len(asked) /\ d.id = d.index /\ d.part <= asked[d.index].parts
    /\ d.part > 0 => d.part > Got(d.index)
    /\ d.part = 0 => acc[d.index].id = Reply!Unnamed

Follows(d, e) ==
  d.kind = "tool" /\ e.kind = "tool" /\ d.index = e.index => d.part < e.part
InOrder == \A p, q \in 1..Len(Way) : p < q => Follows(Way[p], Way[q])

SaidRight ==
  /\ text => said
  /\ said /\ ~text => Coming(Reply!TextDelta)
  /\ Coming(Reply!TextDelta) => said

Flow ==
  /\ SaidRight /\ InOrder
  /\ \A i \in Reply!Indices : CallRight(i)
  /\ \A d : Coming(d) => DeltaRight(d)

StopRight ==
  /\ stop # Reply!StopError =>
       stop = Reply!StopDelta(IF ended = "" THEN "other" ELSE ended, FALSE, counted)
  /\ at = "read" => stop # Reply!StopError
  /\ ended = "done" => \A i \in 1..Len(asked) : asked[i].whole
  /\ at # "read" => pending = <<>>
  /\ \A p \in 1..Len(deltas) :
       deltas[p].kind = "stop" => at = "closed" /\ deltas[p] = stop /\ p = Len(deltas)
  /\ final # Reply!NoStop => at = "closed" /\ final = stop /\ deltas = <<>>
  /\ request = "refused" => Reply!Over /\ final.reason # "done"

ReplyInv == ReplyShape /\ StopRight /\ Flow

LEMMA WayIs ==
  ASSUME ReplyShape
  PROVE  /\ Way \in Seq(Parcels \cup Stops) /\ Len(Way) = Len(deltas) + Len(pending)
         /\ \A p \in 1..Len(deltas) : Way[p] = deltas[p]
         /\ pending = <<>> => Way = deltas
<1>1. deltas \in Seq(Parcels \cup Stops) /\ pending \in Seq(Parcels \cup Stops)
  <2> DEFINE A == Parcels
             B == Parcels \cup Stops
  <2>1. deltas \in Seq(B) /\ pending \in Seq(A) /\ A \subseteq B  BY DEF ReplyShape
  <2> HIDE DEF A, B
  <2>2. pending \in Seq(B)  BY <2>1
  <2> QED  BY <2>1, <2>2 DEF B
<1>2. pending = <<>> => deltas \o pending = deltas
  BY <1>1, ConcatEmptySeq
<1> QED  BY <1>1, <1>2, ConcatProperties DEF Way

\* What a longer way holds.
LEMMA Grows ==
  ASSUME ReplyShape, NEW e \in Seq(Parcels \cup Stops), Way' = Way \o e
  PROVE  /\ Len(Way') = Len(Way) + Len(e)
         /\ \A p \in 1..Len(Way) : Way'[p] = Way[p]
         /\ \A k \in 1..Len(e) : Way'[Len(Way) + k] = e[k]
         /\ \A d : Coming(d)' <=> Coming(d) \/ \E k \in 1..Len(e) : d = e[k]
<1>1. Way \in Seq(Parcels \cup Stops) /\ Len(Way) \in Nat /\ Len(e) \in Nat
  BY WayIs
<1>2. /\ Len(Way') = Len(Way) + Len(e)
      /\ \A p \in 1..Len(Way) : Way'[p] = Way[p]
      /\ \A k \in 1..Len(e) : Way'[Len(Way) + k] = e[k]
  BY <1>1
<1>3. \A p \in 1..Len(Way') : p \in 1..Len(Way) \/ p - Len(Way) \in 1..Len(e)
  BY <1>1, <1>2
<1>4. \A d : Coming(d) => Coming(d)'
  BY <1>1, <1>2 DEF Coming
<1>5. ASSUME NEW d, NEW k \in 1..Len(e), d = e[k] PROVE Coming(d)'
  <2>1. Len(Way) + k \in 1..Len(Way')  BY <1>1, <1>2
  <2> QED  BY <1>2, <1>5, <2>1 DEF Coming
<1>6. ASSUME NEW d, Coming(d)' PROVE Coming(d) \/ \E k \in 1..Len(e) : d = e[k]
  <2>1. PICK p \in 1..Len(Way') : Way'[p] = d  BY <1>6 DEF Coming
  <2>2. CASE p \in 1..Len(Way)  BY <1>2, <2>1, <2>2 DEF Coming
  <2>3. CASE p - Len(Way) \in 1..Len(e)
    <3>1. Way'[Len(Way) + (p - Len(Way))] = e[p - Len(Way)]  BY <1>2, <2>3
    <3>2. Len(Way) + (p - Len(Way)) = p  BY <1>1
    <3> QED  BY <2>1, <2>3, <3>1, <3>2
  <2> QED  BY <1>3, <2>2, <2>3
<1> QED  BY <1>2, <1>4, <1>5, <1>6

LEMMA OrderGrows ==
  ASSUME ReplyShape, InOrder, NEW e \in Seq(Parcels \cup Stops), Way' = Way \o e,
         \A d, k : Coming(d) /\ k \in 1..Len(e) => Follows(d, e[k]),
         \A j, k \in 1..Len(e) : j < k => Follows(e[j], e[k])
  PROVE  InOrder'
<1> SUFFICES ASSUME NEW p \in 1..Len(Way'), NEW q \in 1..Len(Way'), p < q
             PROVE  Follows(Way'[p], Way'[q])
  BY DEF InOrder
<1> DEFINE n == Len(Way)
<1>1. n \in Nat /\ Len(e) \in Nat /\ Len(Way') = n + Len(e)  BY WayIs, Grows
<1>2. \A r \in 1..n : Way'[r] = Way[r] /\ Coming(Way'[r])
  <2>1. \A r \in 1..n : Way'[r] = Way[r]  BY Grows
  <2>2. \A r \in 1..n : Coming(Way[r])  BY DEF Coming
  <2> QED  BY <2>1, <2>2
<1>3. ASSUME NEW r \in 1..Len(Way'), r \notin 1..n
      PROVE  r - n \in 1..Len(e) /\ Way'[r] = e[r - n]
  <2>1. r - n \in 1..Len(e)  BY <1>1, <1>3
  <2>2. Way'[n + (r - n)] = e[r - n]  BY <2>1, Grows
  <2>3. n + (r - n) = r  BY <1>1
  <2> QED  BY <2>1, <2>2, <2>3
<1>4. CASE q \in 1..n
  <2>1. p \in 1..n  BY <1>1, <1>4
  <2> QED  BY <1>2, <1>4, <2>1 DEF InOrder
<1>5. CASE p \in 1..n /\ q \notin 1..n
  BY <1>2, <1>3, <1>5
<1>6. CASE p \notin 1..n
  <2>1. q \notin 1..n /\ p - n < q - n  BY <1>1, <1>6
  <2> QED  BY <1>3, <1>6, <2>1
<1> QED  BY <1>4, <1>5, <1>6

LEMMA FlowKept ==
  ASSUME Flow, Way' = Way, UNCHANGED <<asked, said, acc, text>>
  PROVE  Flow'
<1>1. \A d : Coming(d)' <=> Coming(d)  BY DEF Coming
<1>2. \A i : Got(i)' = Got(i)  BY DEF Got
<1>3. \A d : DeltaRight(d) => DeltaRight(d)'  BY <1>2 DEF DeltaRight
<1>4. \A i : CallRight(i) => CallRight(i)'  BY <1>1, <1>2 DEF CallRight
<1> QED  BY <1>1, <1>3, <1>4 DEF Flow, SaidRight, InOrder

\* What goes on the way while the model says nothing new of a call.
LEMMA OneMore ==
  ASSUME ReplyShape, Flow, NEW d \in Parcels \cup Stops, d.kind # "tool",
         Way' = Way \o <<d>>, UNCHANGED <<asked, acc>>
  PROVE  /\ InOrder' /\ \A i \in Reply!Indices : CallRight(i)'
         /\ \A c : Coming(c)' => DeltaRight(c)'
         /\ \A c : Coming(c)' <=> Coming(c) \/ c = d
<1> DEFINE e == <<d>>
<1>1. e \in Seq(Parcels \cup Stops) /\ Len(e) = 1 /\ e[1] = d  OBVIOUS
<1>2. Way' = Way \o e  OBVIOUS
<1> HIDE DEF e
<1>3. \A c : Coming(c)' <=> Coming(c) \/ c = d  BY <1>1, <1>2, Grows
<1>4. InOrder'
  <2>1. \A c : Follows(c, d) /\ Follows(d, c)  BY DEF Follows
  <2> QED  BY <1>1, <1>2, <2>1, OrderGrows DEF Flow
<1>5. \A i : Got(i)' = Got(i)  BY DEF Got
<1>6. \A i : CallRight(i) => CallRight(i)'  BY <1>3, <1>5 DEF CallRight
<1>7. \A i \in Reply!Indices : CallRight(i)'  BY <1>6 DEF Flow
<1>8. \A c : DeltaRight(c) => DeltaRight(c)'  BY <1>5 DEF DeltaRight
<1>9. DeltaRight(d)'  BY DEF DeltaRight
<1> QED  BY <1>3, <1>4, <1>7, <1>8, <1>9 DEF Flow

LEMMA TextFlows == ASSUME ReplyShape, Flow, Reply!DecodeText PROVE Flow'
<1>1. /\ pending = <<>> /\ said' = TRUE /\ pending' = <<Reply!TextDelta>> /\ deltas' = deltas
      /\ UNCHANGED <<asked, acc, text>>
  BY DEF Reply!DecodeText, Reply!Reads, Reply!consumer
<1>2. Way' = Way \o <<Reply!TextDelta>>
  <2>1. Way = deltas  BY <1>1, WayIs
  <2> QED  BY <1>1, <2>1 DEF Way
<1>3. Reply!TextDelta \in Parcels \cup Stops /\ Reply!TextDelta.kind # "tool"
  BY DEF Reply!TextDelta, Parcels
<1>4. /\ InOrder' /\ \A i \in Reply!Indices : CallRight(i)'
      /\ \A c : Coming(c)' => DeltaRight(c)'
      /\ \A c : Coming(c)' <=> Coming(c) \/ c = Reply!TextDelta
  BY <1>1, <1>2, <1>3, OneMore
<1>5. SaidRight'
  BY <1>1, <1>4 DEF SaidRight, ReplyShape
<1> QED  BY <1>4, <1>5 DEF Flow

LEMMA ToolParts ==
  ASSUME NEW d \in Parcels \cup Stops, d.kind = "tool"
  PROVE  /\ d.index \in Reply!Indices /\ d.id \in Reply!Indices /\ d.part \in Nat
         /\ d = Reply!ToolUseDelta(d.index, d.id, d.part)
<1>1. d \notin Stops  BY DEF Stops
<1>2. d # Reply!TextDelta  BY DEF Reply!TextDelta
<1>3. d \in CallDeltas  BY <1>1, <1>2 DEF Parcels
<1> QED  BY <1>3 DEF CallDeltas, Reply!ToolUseDelta

\* Deltas of call i that follow what is coming of it.
LEMMA MoreOfCall ==
  ASSUME ReplyShape, ReplyShape', Flow, NEW i \in Reply!Indices, i \in 1..Len(asked)',
         NEW e \in Seq(Parcels \cup Stops), Way' = Way \o e, UNCHANGED <<said, acc, text>>,
         Len(asked) <= Len(asked)',
         \A j \in 1..Len(asked)' : j # i => j \in 1..Len(asked) /\ asked'[j] = asked[j],
         i \in 1..Len(asked) => asked[i].parts <= asked'[i].parts,
         \A k \in 1..Len(e) : e[k].kind = "tool" /\ e[k].index = i /\ DeltaRight(e[k])',
         \A d, k : Coming(d) /\ k \in 1..Len(e) => Follows(d, e[k]),
         \A j, k \in 1..Len(e) : j < k => Follows(e[j], e[k]),
         CallRight(i)'
  PROVE  Flow'
<1>1. \A d : Coming(d)' <=> Coming(d) \/ \E k \in 1..Len(e) : d = e[k]  BY Grows
<1>2. InOrder'  BY OrderGrows DEF Flow
<1>3. \A j : Got(j)' = Got(j)  BY DEF Got
<1>4. Len(asked) \in Nat /\ Len(asked)' \in Nat
  <2>1. asked \in Seq(Asked)  BY DEF ReplyShape
  <2>2. asked' \in Seq(Asked)  BY DEF ReplyShape
  <2> QED  BY <2>1, <2>2
<1>5. ASSUME NEW j \in Reply!Indices, j # i PROVE CallRight(j)'
  <2>1. j \in Nat /\ j >= 1  BY ChatAssumption DEF Reply!Indices
  <2>2. CallRight(j)  BY DEF Flow
  <2>3. CASE j <= Len(asked)'
    <3>1. j \in 1..Len(asked)'  BY <1>4, <2>1, <2>3
    <3>2. j <= Len(asked) /\ asked'[j] = asked[j]  BY <1>5, <1>4, <3>1
    <3> QED  BY <1>1, <1>3, <1>4, <2>1, <2>2, <2>3, <3>2 DEF CallRight
  <2>4. CASE j > Len(asked)'
    <3>1. j > Len(asked)  BY <1>4, <2>1, <2>4
    <3> QED  BY <1>3, <1>4, <2>1, <2>2, <2>4, <3>1 DEF CallRight
  <2> QED  BY <1>4, <2>1, <2>3, <2>4
<1>6. ASSUME NEW d, Coming(d) PROVE DeltaRight(d)'
  <2>1. DeltaRight(d)  BY <1>6 DEF Flow
  <2> SUFFICES ASSUME d.kind = "tool" PROVE DeltaRight(d)'  BY DEF DeltaRight
  <2>2. d.index \in 1..Len(asked) /\ d.part <= asked[d.index].parts  BY <2>1 DEF DeltaRight
  <2>3. d.index \in 1..Len(asked)'  BY <1>4, <2>2
  <2>4. d \in Parcels \cup Stops
    <3>1. PICK p \in 1..Len(Way) : Way[p] = d  BY <1>6 DEF Coming
    <3> QED  BY <3>1, WayIs, ElementOfSeq
  <2>5. d.part \in Nat  BY <2>4, ToolParts
  <2>6. asked[d.index].parts \in Nat /\ asked'[d.index].parts \in Nat
    <3>1. asked \in Seq(Asked)  BY DEF ReplyShape
    <3>2. asked' \in Seq(Asked)  BY DEF ReplyShape
    <3>3. asked[d.index] \in Asked /\ asked'[d.index] \in Asked
      BY <2>2, <2>3, <3>1, <3>2, ElementOfSeq
    <3> QED  BY <3>3 DEF Asked
  <2>7. asked[d.index].parts <= asked'[d.index].parts
    <3>1. CASE d.index = i  BY <2>2, <3>1
    <3>2. CASE d.index # i
      <4>1. asked'[d.index] = asked[d.index]  BY <2>3, <3>2
      <4> QED  BY <2>6, <4>1
    <3> QED  BY <3>1, <3>2
  <2>8. d.part <= asked'[d.index].parts  BY <2>2, <2>5, <2>6, <2>7
  <2> QED  BY <1>3, <2>1, <2>3, <2>8 DEF DeltaRight
<1>7. \A d : Coming(d)' => DeltaRight(d)'  BY <1>1, <1>6
<1>8. SaidRight'
  <2>1. Coming(Reply!TextDelta)' <=> Coming(Reply!TextDelta)
    <3>1. \A k \in 1..Len(e) : Reply!TextDelta # e[k]  BY DEF Reply!TextDelta
    <3> QED  BY <1>1, <3>1
  <2> QED  BY <2>1 DEF Flow, SaidRight
<1> QED  BY <1>2, <1>5, <1>7, <1>8 DEF Flow

LEMMA CallFlows == ASSUME ReplyShape, ReplyShape', Flow, Reply!DecodeCall PROVE Flow'
<1>0. PICK i, a, b : /\ i = Len(asked) + 1
                    /\ a = Reply!ToolUseDelta(i, i, 0) /\ b = Reply!ToolUseDelta(i, i, 1)
  OBVIOUS
<1>1. PICK parts \in {0, 1}, whole \in BOOLEAN :
        /\ asked' = Append(asked, [parts |-> parts, whole |-> whole])
        /\ pending' = IF parts = 0 THEN <<a>> ELSE <<a, b>>
  BY <1>0 DEF Reply!DecodeCall
<1>2. /\ pending = <<>> /\ Len(asked) < MaxCalls /\ UNCHANGED <<said, deltas, acc, text>>
  BY DEF Reply!DecodeCall, Reply!Reads, Reply!consumer
<1>3. asked \in Seq(Asked) /\ Len(asked) \in Nat
  <2>1. asked \in Seq(Asked)  BY DEF ReplyShape
  <2> QED  BY <2>1
<1>4. i \in Reply!Indices /\ i \in Nat /\ i > Len(asked) /\ i > 0
  BY <1>0, <1>2, <1>3, ChatAssumption DEF Reply!Indices
<1>5. /\ Len(asked)' = i /\ asked'[i] = [parts |-> parts, whole |-> whole]
      /\ \A j \in 1..Len(asked)' : j # i => j \in 1..Len(asked) /\ asked'[j] = asked[j]
  BY <1>0, <1>1, <1>3
<1>6. PICK e : e = pending'  OBVIOUS
<1>7. e = IF parts = 0 THEN <<a>> ELSE <<a, b>>  BY <1>1, <1>6
<1>8. a \in CallDeltas /\ b \in CallDeltas  BY <1>0, <1>4 DEF CallDeltas, Reply!ToolUseDelta
<1>9. a.kind = "tool" /\ a.index = i /\ a.id = i /\ a.part = 0
      /\ b.kind = "tool" /\ b.index = i /\ b.id = i /\ b.part = 1
  BY <1>0 DEF Reply!ToolUseDelta
<1>10. \A j : Got(j)' = Got(j)  BY <1>2 DEF Got
<1>11. CallRight(i) /\ acc[i].id = Reply!Unnamed /\ Got(i) = 0
  BY <1>3, <1>4 DEF Flow, CallRight
<1>12. e \in Seq(Parcels \cup Stops) /\ Len(e) = parts + 1 /\ e[1] = a /\ (parts = 1 => e[2] = b)
  <2>1. a \in Parcels \cup Stops /\ b \in Parcels \cup Stops  BY <1>8 DEF Parcels
  <2>2. CASE parts = 0
    <3>1. e = <<a>>  BY <1>7, <2>2
    <3> QED  BY <2>1, <2>2, <3>1
  <2>3. CASE parts = 1
    <3>1. e = <<a, b>>  BY <1>7, <2>3
    <3> QED  BY <2>1, <2>3, <3>1
  <2> QED  BY <2>2, <2>3
<1>13. Way' = Way \o e
  <2>1. Way = deltas  BY <1>2, WayIs
  <2> QED  BY <1>2, <1>6, <2>1 DEF Way
<1>14. \A k \in 1..Len(e) : e[k] = a \/ (parts = 1 /\ e[k] = b)
  BY <1>12
<1>15. DeltaRight(a)' /\ (parts = 1 => DeltaRight(b)')
  <2>1. i \in 1..Len(asked)' /\ asked'[i].parts = parts  BY <1>4, <1>5
  <2>2. acc'[i].id = Reply!Unnamed /\ Got(i)' = 0  BY <1>2, <1>10, <1>11
  <2> QED  BY <1>9, <2>1, <2>2 DEF DeltaRight
<1>16. ASSUME NEW d, NEW k, Coming(d), k \in 1..Len(e) PROVE Follows(d, e[k])
  <2> SUFFICES ASSUME d.kind = "tool", e[k].kind = "tool", d.index = e[k].index PROVE FALSE
    BY DEF Follows
  <2>1. d.index \in 1..Len(asked)  BY <1>16 DEF Flow, DeltaRight
  <2>2. e[k].index = i  BY <1>9, <1>14, <1>16
  <2> QED  BY <1>3, <1>4, <2>1, <2>2
<1>17. ASSUME NEW j \in 1..Len(e), NEW k \in 1..Len(e), j < k PROVE Follows(e[j], e[k])
  <2>1. j = 1 /\ k = 2 /\ parts = 1  BY <1>12, <1>17
  <2> QED  BY <1>9, <1>12, <2>1 DEF Follows
<1>18. CallRight(i)'
  <2>1. \A d : Coming(d)' <=> Coming(d) \/ \E k \in 1..Len(e) : d = e[k]  BY <1>12, <1>13, Grows
  <2>2. Coming(a)' /\ (parts = 1 => Coming(b)')
    <3>1. 1 \in 1..Len(e) /\ (parts = 1 => 2 \in 1..Len(e))  BY <1>12
    <3>2. \A d : (\E k \in 1..Len(e) : d = e[k]) => Coming(d)'  BY <2>1
    <3>3. (\E k \in 1..Len(e) : a = e[k]) /\ (parts = 1 => \E k \in 1..Len(e) : b = e[k])
      BY <1>12, <3>1
    <3> QED  BY <3>2, <3>3
  <2>3. asked'[i].parts = parts  BY <1>5
  <2>4. acc'[i].id = Reply!Unnamed /\ Got(i)' = 0  BY <1>2, <1>10, <1>11
  <2>5. Coming(Reply!ToolUseDelta(i, i, 0))' /\ (parts = 1 => Coming(Reply!ToolUseDelta(i, i, 1))')
    BY <1>0, <2>2
  <2>6. i <= Len(asked)'  BY <1>4, <1>5
  <2>7. \A k \in Got(i)' + 1..asked'[i].parts : k = 1 /\ parts = 1  BY <2>3, <2>4
  <2>8. \A k \in Got(i)' + 1..asked'[i].parts : Coming(Reply!ToolUseDelta(i, i, k))'
    BY <2>5, <2>7
  <2>9. Got(i)' <= asked'[i].parts /\ \A k \in 1..Got(i)' : acc'[i].input[k] = k  BY <2>3, <2>4
  <2> QED  BY <1>4, <1>5, <2>4, <2>5, <2>6, <2>8, <2>9 DEF CallRight
<1>19. \A k \in 1..Len(e) : e[k].kind = "tool" /\ e[k].index = i /\ DeltaRight(e[k])'
  <2>1. \A d : d = a \/ (parts = 1 /\ d = b) => d.kind = "tool" /\ d.index = i /\ DeltaRight(d)'
    BY <1>9, <1>15
  <2> QED  BY <1>14, <2>1
<1>20. i \in 1..Len(asked)' /\ Len(asked) <= Len(asked)' /\ i \notin 1..Len(asked)
  BY <1>3, <1>4, <1>5
<1> QED
  BY <1>2, <1>4, <1>5, <1>12, <1>13, <1>16, <1>17, <1>18, <1>19, <1>20, MoreOfCall

LEMMA PartFlows ==
  ASSUME ReplyShape, ReplyShape', Flow, NEW i \in Reply!Indices, Reply!DecodePart(i)
  PROVE  Flow'
<1>1. PICK whole \in BOOLEAN :
        asked' = [asked EXCEPT ![i] = [parts |-> @.parts + 1, whole |-> whole]]
  BY DEF Reply!DecodePart
<1>2. /\ pending = <<>> /\ i \in DOMAIN asked /\ UNCHANGED <<said, deltas, acc, text>>
      /\ pending' = IF headers[i] = Reply!Unnamed THEN <<>> ELSE <<Reply!Fragment(i)>>
  BY DEF Reply!DecodePart, Reply!Reads, Reply!Open, Reply!consumer
<1>3. asked \in Seq(Asked) /\ Len(asked) \in Nat /\ i \in 1..Len(asked)
  <2>1. asked \in Seq(Asked)  BY DEF ReplyShape
  <2> QED  BY <1>2, <2>1
<1>4. PICK n : n = asked[i].parts  OBVIOUS
<1>5. n \in Nat
  <2>1. asked[i] \in Asked  BY <1>3, ElementOfSeq
  <2> QED  BY <1>4, <2>1 DEF Asked
<1>6. PICK a : a = Reply!ToolUseDelta(i, i, n + 1)  OBVIOUS
<1>7. headers[i] = i /\ i # Reply!Unnamed /\ i \in Nat
  <2>1. headers = [j \in Reply!Indices |-> IF j <= Len(asked) THEN j ELSE Reply!Unnamed]
    BY DEF ReplyShape
  <2>2. i <= Len(asked) /\ i \in Nat /\ i > 0  BY <1>3
  <2> QED  BY <2>1, <2>2 DEF Reply!Unnamed
<1>8. pending' = <<a>>  BY <1>2, <1>4, <1>6, <1>7 DEF Reply!Fragment
<1>9. a.kind = "tool" /\ a.index = i /\ a.id = i /\ a.part = n + 1
  BY <1>6 DEF Reply!ToolUseDelta
<1>10. a \in Parcels \cup Stops  BY <1>5, <1>6, <1>7 DEF Parcels, CallDeltas, Reply!ToolUseDelta
<1>11. PICK e : e = <<a>>  OBVIOUS
<1>12. e \in Seq(Parcels \cup Stops) /\ Len(e) = 1 /\ e[1] = a  BY <1>10, <1>11
<1>13. Way' = Way \o e
  <2>1. Way = deltas  BY <1>2, WayIs
  <2> QED  BY <1>2, <1>8, <1>11, <2>1 DEF Way
<1>14. /\ Len(asked)' = Len(asked) /\ asked'[i].parts = n + 1
       /\ \A j \in 1..Len(asked)' : j # i => j \in 1..Len(asked) /\ asked'[j] = asked[j]
  BY <1>1, <1>3, <1>4
<1>15. \A j : Got(j)' = Got(j)  BY <1>2 DEF Got
<1>16. CallRight(i) /\ Got(i) \in Nat
  <2>1. acc[i] \in [id : Nat, input : Seq(Nat)]  BY DEF ReplyShape
  <2>2. acc[i].input \in Seq(Nat)  BY <2>1
  <2> QED  BY <2>2 DEF Flow, Got
<1>17. Got(i) <= n  BY <1>3, <1>4, <1>16 DEF CallRight
<1>18. DeltaRight(a)'
  BY <1>3, <1>5, <1>9, <1>14, <1>15, <1>16, <1>17 DEF DeltaRight
<1>19. ASSUME NEW d, NEW k, Coming(d), k \in 1..Len(e) PROVE Follows(d, e[k])
  <2> SUFFICES ASSUME d.kind = "tool", d.index = i PROVE d.part < n + 1
    BY <1>9, <1>12, <1>19 DEF Follows
  <2>1. DeltaRight(d)  BY <1>19 DEF Flow
  <2>2. d.part <= n  BY <1>4, <2>1 DEF DeltaRight
  <2>3. d \in Parcels \cup Stops
    <3>1. PICK p \in 1..Len(Way) : Way[p] = d  BY <1>19 DEF Coming
    <3> QED  BY <3>1, WayIs, ElementOfSeq
  <2>4. d.part \in Nat  BY <2>3, ToolParts
  <2> QED  BY <1>5, <2>2, <2>4
<1>20. \A d : Coming(d)' <=> Coming(d) \/ d = a
  <2>1. \A d : Coming(d)' <=> Coming(d) \/ \E k \in 1..Len(e) : d = e[k]  BY <1>12, <1>13, Grows
  <2> QED  BY <1>12, <2>1
<1>21. CallRight(i)'
  <2>1. \A k \in Got(i)' + 1..asked'[i].parts : Coming(Reply!ToolUseDelta(i, i, k))'
    <3> SUFFICES ASSUME NEW k \in Got(i) + 1..n + 1 PROVE Coming(Reply!ToolUseDelta(i, i, k))'
      BY <1>14, <1>15
    <3>1. CASE k = n + 1  BY <1>6, <1>20, <3>1
    <3>2. CASE k # n + 1
      <4>1. k \in Got(i) + 1..asked[i].parts  BY <1>4, <1>5, <1>16, <3>2
      <4>2. Coming(Reply!ToolUseDelta(i, i, k))  BY <1>3, <1>16, <4>1 DEF CallRight
      <4> QED  BY <1>20, <4>2
    <3> QED  BY <3>1, <3>2
  <2>2. Got(i)' <= asked'[i].parts  BY <1>5, <1>14, <1>15, <1>16, <1>17
  <2>3. acc'[i].id = i \/ (acc'[i].id = Reply!Unnamed /\ Coming(Reply!ToolUseDelta(i, i, 0))')
    BY <1>2, <1>3, <1>16, <1>20 DEF CallRight
  <2>4. \A k \in 1..Got(i)' : acc'[i].input[k] = k  BY <1>2, <1>15, <1>16 DEF CallRight
  <2>5. i <= Len(asked)' /\ ~(i > Len(asked)')  BY <1>3, <1>14
  <2> QED  BY <2>1, <2>2, <2>3, <2>4, <2>5 DEF CallRight
<1>22. \A k \in 1..Len(e) : e[k].kind = "tool" /\ e[k].index = i /\ DeltaRight(e[k])'
  <2>1. \A k \in 1..Len(e) : e[k] = a  BY <1>12
  <2>2. \A d : d = a => d.kind = "tool" /\ d.index = i /\ DeltaRight(d)'  BY <1>9, <1>18
  <2> QED  BY <2>1, <2>2
<1>23. /\ i \in 1..Len(asked)' /\ Len(asked) <= Len(asked)'
       /\ asked[i].parts <= asked'[i].parts
       /\ \A j, k \in 1..Len(e) : ~(j < k)
  BY <1>3, <1>4, <1>5, <1>12, <1>14
<1> QED
  BY <1>2, <1>12, <1>13, <1>14, <1>19, <1>21, <1>22, <1>23, MoreOfCall

\* What is left of the way when its first delta has come.
LEMMA Shifts ==
  ASSUME ReplyShape, deltas # <<>>, deltas' = Tail(deltas), pending' = pending,
         NEW d, d = Head(deltas)
  PROVE  /\ Coming(d) /\ d \in Parcels \cup Stops
         /\ \A c : Coming(c) => c = d \/ Coming(c)'
         /\ \A c : Coming(c)' => Coming(c)
         /\ InOrder => InOrder' /\ \A c : Coming(c)' => Follows(d, c)
<1>1. PICK U : U = Parcels \cup Stops  OBVIOUS
<1>2. deltas \in Seq(U) /\ pending \in Seq(U)
  <2> DEFINE A == Parcels
  <2>1. deltas \in Seq(U) /\ pending \in Seq(A) /\ A \subseteq U  BY <1>1 DEF ReplyShape
  <2> HIDE DEF A
  <2>2. pending \in Seq(U)  BY <2>1
  <2> QED  BY <2>1, <2>2
<1>3. PICK t : t = Tail(deltas)  OBVIOUS
<1>4. /\ t \in Seq(U) /\ d \in U /\ Len(t) = Len(deltas) - 1 /\ Len(deltas) \in Nat
      /\ Len(deltas) > 0
      /\ \A p \in 1..Len(t) : t[p] = deltas[p + 1]
      /\ d = deltas[1] /\ Len(pending) \in Nat
  BY <1>2, <1>3, HeadTailProperties
<1>5. PICK v, w : v = Way /\ w = Way'  OBVIOUS
<1>6. v = deltas \o pending /\ w = t \o pending  BY <1>3, <1>5 DEF Way
<1>7. /\ Len(v) = Len(deltas) + Len(pending) /\ Len(w) = Len(t) + Len(pending)
      /\ \A p \in 1..Len(v) : v[p] = IF p <= Len(deltas) THEN deltas[p] ELSE pending[p - Len(deltas)]
      /\ \A p \in 1..Len(w) : w[p] = IF p <= Len(t) THEN t[p] ELSE pending[p - Len(t)]
  BY <1>2, <1>4, <1>6, ConcatProperties
<1>8. /\ Len(w) = Len(v) - 1 /\ Len(v) \in Nat /\ Len(v) > 0 /\ v[1] = d  BY <1>4, <1>7
<1>9. ASSUME NEW p \in 1..Len(w) PROVE w[p] = v[p + 1]
  <2>1. p + 1 \in 1..Len(v)  BY <1>8
  <2>2. CASE p <= Len(t)
    <3>1. p + 1 <= Len(deltas) /\ p \in 1..Len(t)  BY <1>4, <1>8, <2>2
    <3> QED  BY <1>4, <1>7, <2>1, <2>2, <3>1
  <2>3. CASE ~(p <= Len(t))
    <3>1. ~(p + 1 <= Len(deltas)) /\ p - Len(t) = (p + 1) - Len(deltas)  BY <1>4, <1>8, <2>3
    <3> QED  BY <1>7, <2>1, <2>3, <3>1
  <2> QED  BY <2>2, <2>3
<1>10. \A c : (Coming(c) <=> \E p \in 1..Len(v) : v[p] = c)
            /\ (Coming(c)' <=> \E p \in 1..Len(w) : w[p] = c)
  BY <1>5 DEF Coming
<1>11. Coming(d)  BY <1>8, <1>10
<1>12. ASSUME NEW c, Coming(c), c # d PROVE Coming(c)'
  <2>1. PICK p \in 1..Len(v) : v[p] = c  BY <1>10, <1>12
  <2>2. p - 1 \in 1..Len(w) /\ (p - 1) + 1 = p  BY <1>8, <1>12, <2>1
  <2>3. w[p - 1] = c  BY <1>9, <2>1, <2>2
  <2> QED  BY <1>10, <2>2, <2>3
<1>13. ASSUME NEW c, Coming(c)' PROVE Coming(c) /\ (InOrder => Follows(d, c))
  <2>1. PICK p \in 1..Len(w) : w[p] = c  BY <1>10, <1>13
  <2>2. p + 1 \in 1..Len(v) /\ v[p + 1] = c /\ 1 \in 1..Len(v) /\ 1 < p + 1  BY <1>8, <1>9, <2>1
  <2> QED  BY <1>5, <1>8, <1>10, <2>2 DEF InOrder
<1>14. ASSUME InOrder PROVE InOrder'
  <2> SUFFICES ASSUME NEW p \in 1..Len(w), NEW q \in 1..Len(w), p < q PROVE Follows(w[p], w[q])
    BY <1>5 DEF InOrder
  <2>1. p + 1 \in 1..Len(v) /\ q + 1 \in 1..Len(v) /\ p + 1 < q + 1  BY <1>8
  <2>2. Follows(v[p + 1], v[q + 1])  BY <1>5, <1>14, <2>1 DEF InOrder
  <2> QED  BY <1>9, <2>2
<1> QED  BY <1>1, <1>4, <1>11, <1>12, <1>13, <1>14

LEMMA CallFacts ==
  ASSUME ReplyShape
  PROVE  /\ asked \in Seq(Asked) /\ Len(asked) \in Nat
         /\ \A i \in 1..Len(asked) : i \in Reply!Indices /\ asked[i].parts \in Nat
         /\ \A i \in Reply!Indices :
              /\ i \in Nat /\ i > 0 /\ Got(i) \in Nat
              /\ acc[i].id \in Nat /\ acc[i].input \in Seq(Nat)
<1>1. asked \in Seq(Asked) /\ Len(asked) <= MaxCalls  BY DEF ReplyShape
<1>2. Len(asked) \in Nat  BY <1>1
<1>3. ASSUME NEW i \in 1..Len(asked) PROVE i \in Reply!Indices /\ asked[i].parts \in Nat
  <2>1. asked[i] \in Asked  BY <1>1, ElementOfSeq
  <2> QED  BY <1>1, <1>2, <2>1, ChatAssumption DEF Asked, Reply!Indices
<1>4. ASSUME NEW i \in Reply!Indices
      PROVE  i \in Nat /\ i > 0 /\ acc[i].id \in Nat /\ acc[i].input \in Seq(Nat) /\ Got(i) \in Nat
  <2>1. acc[i] \in [id : Nat, input : Seq(Nat)]  BY DEF ReplyShape
  <2>2. acc[i].id \in Nat /\ acc[i].input \in Seq(Nat)  BY <2>1
  <2> QED  BY <2>2, ChatAssumption DEF Reply!Indices, Got
<1> QED  BY <1>1, <1>2, <1>3, <1>4

\* What has come of a call that the head of the way is not about.
LEMMA OthersKept ==
  ASSUME ReplyShape, Flow, NEW d, NEW j \in Reply!Indices, asked' = asked, acc'[j] = acc[j],
         \A c : Coming(c) => c = d \/ Coming(c)',
         d.kind = "tool" => d.index # j
  PROVE  CallRight(j)'
<1>1. Got(j)' = Got(j)  BY DEF Got
<1>2. CallRight(j)  BY DEF Flow
<1>3. \A k : Coming(Reply!ToolUseDelta(j, j, k)) => Coming(Reply!ToolUseDelta(j, j, k))'
  <2>1. \A k : Reply!ToolUseDelta(j, j, k).kind = "tool" /\ Reply!ToolUseDelta(j, j, k).index = j
    BY DEF Reply!ToolUseDelta
  <2> QED  BY <2>1
<1> QED  BY <1>1, <1>2, <1>3 DEF CallRight

LEMMA ReceiveFlows == ASSUME ReplyShape, ReplyShape', Flow, Reply!Receive PROVE Flow'
<1>1. PICK d : d = Head(deltas)  OBVIOUS
<1>2. /\ deltas # <<>> /\ deltas' = Tail(deltas) /\ pending' = pending
      /\ UNCHANGED <<asked, said>>
      /\ \/ d.kind = "text" /\ text' = TRUE /\ UNCHANGED acc
         \/ /\ d.kind = "tool" /\ UNCHANGED text
            /\ acc' = [acc EXCEPT ![d.index] =
                        [id |-> IF d.id = Reply!Unnamed THEN @.id ELSE d.id,
                         input |-> IF d.part = 0 THEN @.input ELSE Append(@.input, d.part)]]
         \/ d.kind = "stop" /\ UNCHANGED <<acc, text>>
  BY <1>1 DEF Reply!Receive, Reply!server
<1>3. /\ Coming(d) /\ d \in Parcels \cup Stops
      /\ \A c : Coming(c) => c = d \/ Coming(c)'
      /\ \A c : Coming(c)' => Coming(c)
      /\ InOrder' /\ \A c : Coming(c)' => Follows(d, c)
  BY <1>1, <1>2, Shifts DEF Flow
<1>4. SaidRight'
  <2>1. d = Reply!TextDelta <=> d.kind = "text"
    <3>1. Reply!TextDelta.kind = "text"  BY DEF Reply!TextDelta
    <3>2. \A c \in CallDeltas : c.kind = "tool"  BY DEF CallDeltas
    <3>3. \A c \in Stops : c.kind = "stop"  BY DEF Stops
    <3>4. d = Reply!TextDelta \/ d \in CallDeltas \/ d \in Stops  BY <1>3 DEF Parcels
    <3> QED  BY <3>1, <3>2, <3>3, <3>4
  <2>2. SaidRight  BY DEF Flow
  <2>3. Coming(Reply!TextDelta)' => said  BY <1>3, <2>2 DEF SaidRight
  <2>4. CASE d.kind = "text"
    <3>1. text' = TRUE /\ said  BY <1>2, <1>3, <2>1, <2>2, <2>4 DEF SaidRight
    <3> QED  BY <1>2, <2>3, <3>1 DEF SaidRight
  <2>5. CASE d.kind # "text"
    <3>1. text' = text  BY <1>2, <2>5
    <3>2. Coming(Reply!TextDelta) => Coming(Reply!TextDelta)'  BY <1>3, <2>1, <2>5
    <3> QED  BY <1>2, <2>2, <2>3, <3>1, <3>2 DEF SaidRight
  <2> QED  BY <2>4, <2>5
<1>5. CASE d.kind # "tool"
  <2>1. acc' = acc  BY <1>2, <1>5
  <2>2. \A j \in Reply!Indices : CallRight(j)'  BY <1>2, <1>3, <1>5, <2>1, OthersKept
  <2>3. \A j : Got(j)' = Got(j)  BY <2>1 DEF Got
  <2>4. \A c : DeltaRight(c) => DeltaRight(c)'  BY <1>2, <2>1, <2>3 DEF DeltaRight
  <2>5. \A c : Coming(c)' => DeltaRight(c)'  BY <1>3, <2>4 DEF Flow
  <2> QED  BY <1>3, <1>4, <2>2, <2>5 DEF Flow
<1>6. CASE d.kind = "tool"
  <2>1. PICK i, k : i = d.index /\ k = d.part  OBVIOUS
  <2>2. DeltaRight(d)  BY <1>3 DEF Flow
  <2>3. i \in 1..Len(asked) /\ d.id = i /\ k <= asked[i].parts /\ (k > 0 => k > Got(i))
    BY <1>6, <2>1, <2>2 DEF DeltaRight
  <2>4. k \in Nat /\ d = Reply!ToolUseDelta(i, i, k)  BY <1>3, <1>6, <2>1, <2>3, ToolParts
  <2>5. i \in Reply!Indices /\ asked[i].parts \in Nat /\ i \in Nat /\ i > 0 /\ acc[i].input \in Seq(Nat)
        /\ Got(i) \in Nat /\ Len(asked) \in Nat
    BY <2>3, CallFacts
  <2>6. acc' = [acc EXCEPT ![i] =
           [id |-> i, input |-> IF k = 0 THEN acc[i].input ELSE Append(acc[i].input, k)]]
    <3>1. d.id # Reply!Unnamed  BY <2>3, <2>5 DEF Reply!Unnamed
    <3>2. ~(d.kind = "text") /\ ~(d.kind = "stop")  BY <1>6
    <3>3. acc' = [acc EXCEPT ![d.index] =
                        [id |-> IF d.id = Reply!Unnamed THEN @.id ELSE d.id,
                         input |-> IF d.part = 0 THEN @.input ELSE Append(@.input, d.part)]]
      BY <1>2, <3>2
    <3> QED  BY <2>1, <2>3, <3>1, <3>3
  <2>7. /\ acc'[i].id = i
        /\ acc'[i].input = IF k = 0 THEN acc[i].input ELSE Append(acc[i].input, k)
        /\ \A j \in Reply!Indices : j # i => acc'[j] = acc[j]
    <3>1. acc \in [Reply!Indices -> [id : Nat, input : Seq(Nat)]]  BY DEF ReplyShape
    <3>2. DOMAIN acc = Reply!Indices  BY <3>1
    <3> QED  BY <2>5, <2>6, <3>2
  <2>8. CallRight(i)  BY <2>5 DEF Flow
  <2>9. \A m \in Nat : m # k =>
           (Coming(Reply!ToolUseDelta(i, i, m)) => Coming(Reply!ToolUseDelta(i, i, m))')
    <3>1. \A m : Reply!ToolUseDelta(i, i, m).part = m  BY DEF Reply!ToolUseDelta
    <3> QED  BY <1>3, <2>1, <3>1
  <2>10. k > 0 => k = Got(i) + 1
    <3> SUFFICES ASSUME k > Got(i) + 1 PROVE FALSE  BY <2>3, <2>4, <2>5
    <3>1. PICK c : c = Reply!ToolUseDelta(i, i, Got(i) + 1)  OBVIOUS
    <3>2. Got(i) + 1 \in Got(i) + 1..asked[i].parts  BY <2>3, <2>4, <2>5
    <3>3. Coming(c)  BY <2>3, <2>5, <2>8, <3>1, <3>2 DEF CallRight
    <3>4. Coming(c)'
      <4>1. Got(i) + 1 \in Nat /\ Got(i) + 1 # k  BY <2>4, <2>5
      <4>2. \A m : Reply!ToolUseDelta(i, i, m).part = m  BY DEF Reply!ToolUseDelta
      <4>3. c # d  BY <2>1, <3>1, <4>1, <4>2
      <4> QED  BY <1>3, <3>3, <4>3
    <3>5. Follows(d, c)  BY <1>3, <3>4
    <3>6. c.kind = "tool" /\ c.index = i /\ c.part = Got(i) + 1  BY <3>1 DEF Reply!ToolUseDelta
    <3>7. k < Got(i) + 1  BY <1>6, <2>1, <3>5, <3>6 DEF Follows
    <3> QED  BY <2>4, <2>5, <3>7
  <2>11. Got(i)' = (IF k = 0 THEN Got(i) ELSE k)
         /\ \A m \in 1..Got(i)' : acc'[i].input[m] = m
    <3>1. \A m \in 1..Got(i) : acc[i].input[m] = m  BY <2>8 DEF CallRight
    <3>2. CASE k = 0
      <4>1. acc'[i].input = acc[i].input  BY <2>7, <3>2
      <4> QED  BY <3>1, <3>2, <4>1 DEF Got
    <3>3. CASE k # 0
      <4>1. acc'[i].input = Append(acc[i].input, k) /\ k = Got(i) + 1
        BY <2>4, <2>7, <2>10, <3>3
      <4>2. Len(acc'[i].input) = k /\ acc'[i].input[k] = k
            /\ \A m \in 1..Got(i) : acc'[i].input[m] = acc[i].input[m]
        BY <2>4, <2>5, <4>1, AppendProperties DEF Got
      <4>3. \A m \in 1..k : m = k \/ m \in 1..Got(i)  BY <2>5, <4>1
      <4>4. Got(i)' = k  BY <4>2 DEF Got
      <4> QED  BY <3>1, <3>3, <4>2, <4>3, <4>4
    <3> QED  BY <3>2, <3>3
  <2>12. CallRight(i)'
    <3>1. Got(i)' \in Nat /\ Got(i)' >= Got(i) /\ Got(i)' >= k /\ Got(i)' <= asked[i].parts
      <4>1. Got(i) <= asked[i].parts  BY <2>3, <2>5, <2>8 DEF CallRight
      <4> QED  BY <2>3, <2>4, <2>5, <2>10, <2>11, <4>1
    <3>2. ASSUME NEW m \in Got(i)' + 1..asked[i].parts PROVE Coming(Reply!ToolUseDelta(i, i, m))'
      <4>1. m \in Nat /\ m # k /\ m \in Got(i) + 1..asked[i].parts  BY <2>4, <2>5, <3>1
      <4>2. Coming(Reply!ToolUseDelta(i, i, m))  BY <2>3, <2>5, <2>8, <4>1 DEF CallRight
      <4> QED  BY <2>9, <4>1, <4>2
    <3>3. ~(i > Len(asked)) /\ asked' = asked  BY <1>2, <2>3, <2>5
    <3> QED  BY <2>7, <2>11, <3>1, <3>2, <3>3 DEF CallRight
  <2>13. \A j \in Reply!Indices : CallRight(j)'
    <3>1. ASSUME NEW j \in Reply!Indices, j # i PROVE CallRight(j)'
      <4>1. acc'[j] = acc[j] /\ asked' = asked /\ d.index # j  BY <1>2, <2>1, <2>7, <3>1
      <4> QED  BY <1>3, <4>1, OthersKept
    <3> QED  BY <2>12, <3>1
  <2>14. ASSUME NEW c, Coming(c)' PROVE DeltaRight(c)'
    <3> SUFFICES ASSUME c.kind = "tool" PROVE DeltaRight(c)'  BY DEF DeltaRight
    <3>1. Coming(c) /\ Follows(d, c)  BY <1>3, <2>14
    <3>2. DeltaRight(c)  BY <3>1 DEF Flow
    <3>3. c \in Parcels \cup Stops
      <4>1. PICK p \in 1..Len(Way) : Way[p] = c  BY <3>1 DEF Coming
      <4> QED  BY <4>1, WayIs, ElementOfSeq
    <3>4. c.index \in Reply!Indices /\ c.part \in Nat  BY <3>3, ToolParts
    <3>5. c.index \in 1..Len(asked) /\ c.id = c.index /\ c.part <= asked[c.index].parts
          /\ (c.part > 0 => c.part > Got(c.index)) /\ (c.part = 0 => acc[c.index].id = Reply!Unnamed)
      BY <3>2 DEF DeltaRight
    <3>6. CASE c.index = i
      <4>1. k < c.part  BY <1>6, <2>1, <3>1, <3>6 DEF Follows
      <4>2. c.part > 0 /\ c.part > Got(i)  BY <2>4, <3>4, <3>5, <3>6, <4>1
      <4>3. c.part > Got(i)'  BY <2>11, <4>1, <4>2
      <4> QED  BY <1>2, <3>4, <3>5, <3>6, <4>2, <4>3 DEF DeltaRight
    <3>7. CASE c.index # i
      <4>1. acc'[c.index] = acc[c.index]  BY <2>7, <3>4, <3>7
      <4>2. Got(c.index)' = Got(c.index)
        <5>1. PICK j : j = c.index  OBVIOUS
        <5>2. acc'[j] = acc[j]  BY <4>1, <5>1
        <5>3. Got(j)' = Got(j)  BY <5>2 DEF Got
        <5> QED  BY <5>1, <5>3
      <4> QED  BY <1>2, <3>5, <4>1, <4>2 DEF DeltaRight
    <3> QED  BY <3>6, <3>7
  <2> QED  BY <1>3, <1>4, <2>13, <2>14 DEF Flow
<1> QED  BY <1>5, <1>6

LEMMA StopsAreNoCalls ==
  /\ \A d \in Stops : d.kind = "stop" /\ d # Reply!TextDelta
  /\ \A d \in Parcels : d.kind # "stop"
<1>1. Reply!TextDelta.kind = "text"  BY DEF Reply!TextDelta
<1>2. \A c \in CallDeltas : c.kind = "tool"  BY DEF CallDeltas
<1>3. \A c \in Stops : c.kind = "stop"  BY DEF Stops
<1> QED  BY <1>1, <1>2, <1>3 DEF Parcels

LEMMA SendFlows == ASSUME ReplyShape, Flow, Reply!Send PROVE Flow'
<1>1. /\ pending # <<>> /\ deltas' = Append(deltas, Head(pending)) /\ pending' = Tail(pending)
      /\ UNCHANGED <<asked, said, acc, text>>
  BY DEF Reply!Send, Reply!server, Reply!consumer
<1>2. PICK U : U = Parcels \cup Stops  OBVIOUS
<1>3. deltas \in Seq(U) /\ pending \in Seq(U)
  <2> DEFINE A == Parcels
  <2>1. deltas \in Seq(U) /\ pending \in Seq(A) /\ A \subseteq U  BY <1>2 DEF ReplyShape
  <2> HIDE DEF A
  <2>2. pending \in Seq(U)  BY <2>1
  <2> QED  BY <2>1, <2>2
<1>4. PICK h, t : h = Head(pending) /\ t = Tail(pending)  OBVIOUS
<1>5. h \in U /\ t \in Seq(U) /\ pending = <<h>> \o t
  BY <1>1, <1>3, <1>4, HeadTailProperties
<1>6. Append(deltas, h) \o t = deltas \o (<<h>> \o t)
  <2>1. Append(deltas, h) = deltas \o <<h>>  BY <1>3, <1>5, AppendIsConcat
  <2>2. <<h>> \in Seq(U)  BY <1>5
  <2> QED  BY <1>3, <1>5, <2>1, <2>2, ConcatAssociative
<1>7. Way' = Way  BY <1>1, <1>4, <1>5, <1>6 DEF Way
<1> QED  BY <1>1, <1>7, FlowKept

LEMMA EmitFlows == ASSUME ReplyShape, StopRight, Flow, Reply!EmitStop PROVE Flow'
<1>1. /\ pending = <<>> /\ pending' = <<>> /\ UNCHANGED <<asked, said, acc, text>>
      /\ deltas' = Append(deltas, stop) \/ deltas' = deltas
  BY DEF Reply!EmitStop, StopRight, Reply!server, Reply!consumer
<1>2. CASE deltas' = deltas
  <2>1. Way' = Way  BY <1>1, <1>2 DEF Way
  <2> QED  BY <1>1, <2>1, FlowKept
<1>3. CASE deltas' = Append(deltas, stop)
  <2>1. stop \in Parcels \cup Stops /\ stop.kind # "tool" /\ stop # Reply!TextDelta
    <3>1. stop \in Stops  BY DEF ReplyShape
    <3> QED  BY <3>1, StopsAreNoCalls
  <2>2. Way' = Way \o <<stop>>
    <3>1. deltas \in Seq(Parcels \cup Stops) /\ Way = deltas  BY <1>1, WayIs DEF ReplyShape
    <3>2. Append(deltas, stop) \in Seq(Parcels \cup Stops)  BY <2>1, <3>1
    <3>3. Way' = Append(deltas, stop)  BY <1>1, <1>3, <3>2, ConcatEmptySeq DEF Way
    <3>4. Append(deltas, stop) = deltas \o <<stop>>  BY <2>1, <3>1, AppendIsConcat
    <3> QED  BY <3>1, <3>3, <3>4
  <2>3. /\ InOrder' /\ \A i \in Reply!Indices : CallRight(i)'
        /\ \A c : Coming(c)' => DeltaRight(c)'
        /\ \A c : Coming(c)' <=> Coming(c) \/ c = stop
    BY <1>1, <2>1, <2>2, OneMore
  <2>4. SaidRight'
    <3>1. Coming(Reply!TextDelta)' <=> Coming(Reply!TextDelta)  BY <2>1, <2>3
    <3> QED  BY <1>1, <3>1 DEF Flow, SaidRight
  <2> QED  BY <2>3, <2>4 DEF Flow
<1> QED  BY <1>1, <1>2, <1>3

LEMMA FlowStep == ASSUME ReplyInv, ReplyShape', Reply!Next PROVE Flow'
<1> USE DEF ReplyInv
<1>1. CASE \/ Reply!Cancel \/ Reply!DecodeUsage \/ Reply!DecodeEnd \/ Reply!DecodeError
           \/ Reply!DecodeGarbage \/ Reply!BodyFails \/ Reply!BodyEnds
           \/ (\E reason \in {"done", "max_tokens"} : Reply!DecodeReason(reason))
           \/ Reply!CheckContext \/ Reply!NextRequest
  <2>1. UNCHANGED <<asked, said, acc, text, deltas, pending>>
    BY <1>1
    DEF Reply!Cancel, Reply!DecodeUsage, Reply!DecodeEnd, Reply!DecodeError,
        Reply!DecodeGarbage, Reply!BodyFails, Reply!BodyEnds,
                Reply!DecodeReason, Reply!CheckContext, Reply!NextRequest, Reply!StopWith,
                Reply!server, Reply!consumer
  <2>2. Way' = Way  BY <2>1 DEF Way
  <2> QED  BY <2>1, <2>2, FlowKept
<1>2. CASE Reply!DecodeText  BY <1>2, TextFlows
<1>3. CASE Reply!DecodeCall  BY <1>3, CallFlows
<1>4. ASSUME NEW i \in Reply!Indices, Reply!DecodePart(i) PROVE Flow'  BY <1>4, PartFlows
<1>5. CASE Reply!Send  BY <1>5, SendFlows
<1>6. CASE Reply!EmitStop  BY <1>6, EmitFlows
<1>7. CASE Reply!Receive  BY <1>7, ReceiveFlows
<1> QED  BY <1>1, <1>2, <1>3, <1>4, <1>5, <1>6, <1>7 DEF Reply!Next, Reply!Decode

LEMMA StopDeltaIs ==
  ASSUME NEW reason \in {"", "other", "error", "done", "max_tokens"},
         NEW err \in BOOLEAN, NEW told \in BOOLEAN
  PROVE  /\ Reply!StopDelta(reason, err, told) \in Stops
         /\ Reply!StopDelta(reason, err, told).reason = reason
         /\ Reply!StopDelta(reason, err, told).err = err
         /\ Reply!StopDelta(reason, err, told).usage = told
         /\ Reply!StopDelta(reason, err, told).kind = "stop"
BY DEF Stops, Reply!StopDelta

\* A reply of which runTurn is told that the model has said it all.
LEMMA Delivered ==
  ASSUME ReplyInv, Reply!Over, final.reason = "done"
  PROVE  /\ text = said /\ final.usage = counted
         /\ Reply!ToolUses = DOMAIN asked
         /\ \A i \in Reply!ToolUses : Len(acc[i].input) = asked[i].parts /\ Reply!Parses(i)
<1> USE DEF ReplyInv
<1>1. final # Reply!NoStop  BY StopDeltaIs DEF Reply!NoStop
<1>2. at = "closed" /\ final = stop /\ deltas = <<>> /\ pending = <<>>
  BY <1>1 DEF StopRight
<1>3. \A d : ~Coming(d)
  <2>1. Way = <<>>  BY <1>2, WayIs
  <2> QED  BY <2>1 DEF Coming
<1>4. stop # Reply!StopError  BY <1>2, StopDeltaIs DEF Reply!StopError
<1>5. ended = "done" /\ stop.usage = counted
  <2>1. stop = Reply!StopDelta(IF ended = "" THEN "other" ELSE ended, FALSE, counted)
    BY <1>4 DEF StopRight
  <2>2. ended \in {"", "done", "max_tokens"} /\ counted \in BOOLEAN  BY DEF ReplyShape
  <2>3. ended # ""
    <3>1. Reply!StopDelta("other", FALSE, counted).reason = "other"  BY <2>2 DEF Reply!StopDelta
    <3> QED  BY <1>2, <2>1, <3>1
  <2>4. stop = Reply!StopDelta(ended, FALSE, counted)  BY <2>1, <2>3
  <2>5. stop.reason = ended /\ stop.usage = counted  BY <2>4 DEF Reply!StopDelta
  <2> QED  BY <1>2, <2>5
<1>6. text = said  BY <1>3 DEF Flow, SaidRight, ReplyShape
<1>7. ASSUME NEW i \in 1..Len(asked)
      PROVE  i \in Reply!ToolUses /\ Len(acc[i].input) = asked[i].parts /\ Reply!Parses(i)
  <2>1. /\ i \in Reply!Indices /\ i \in Nat /\ i > 0 /\ Len(asked) \in Nat /\ asked[i].parts \in Nat
        /\ Got(i) \in Nat /\ acc[i].input \in Seq(Nat)
    BY CallFacts
  <2>2. CallRight(i) /\ i <= Len(asked)  BY <2>1 DEF Flow
  <2>3. acc[i].id = i  BY <1>3, <2>2 DEF CallRight
  <2>4. Got(i) = asked[i].parts
    <3>1. Got(i) <= asked[i].parts  BY <2>2 DEF CallRight
    <3>2. \A k \in Got(i) + 1..asked[i].parts : FALSE  BY <1>3, <2>2 DEF CallRight
    <3>3. ~(Got(i) + 1 \in Got(i) + 1..asked[i].parts)  BY <3>2
    <3> QED  BY <2>1, <3>1, <3>3
  <2>5. asked[i].whole  BY <1>5 DEF StopRight
  <2>6. acc[i].input = [k \in 1..asked[i].parts |-> k]
    <3>1. \A k \in 1..Got(i) : acc[i].input[k] = k  BY <2>2 DEF CallRight
    <3>2. PICK s : s = acc[i].input  OBVIOUS
    <3>3. s \in Seq(Nat) /\ Len(s) = asked[i].parts /\ \A k \in 1..asked[i].parts : s[k] = k
      BY <2>1, <2>4, <3>1, <3>2 DEF Got
    <3>4. s = [k \in 1..asked[i].parts |-> k]  BY <3>3
    <3> QED  BY <3>2, <3>4
  <2> QED  BY <2>1, <2>3, <2>4, <2>5, <2>6 DEF Reply!ToolUses, Reply!Parses, Reply!Unnamed, Got
<1>8. ASSUME NEW i \in Reply!ToolUses PROVE i \in 1..Len(asked)
  <2>1. i \in Reply!Indices /\ acc[i].id # Reply!Unnamed  BY DEF Reply!ToolUses
  <2>2. CallRight(i) /\ i \in Nat /\ i > 0 /\ Len(asked) \in Nat  BY <2>1, CallFacts DEF Flow
  <2> QED  BY <2>1, <2>2 DEF CallRight
<1>9. DOMAIN asked = 1..Len(asked)
  <2>1. asked \in Seq(Asked)  BY DEF ReplyShape
  <2> QED  BY <2>1
<1>10. Reply!ToolUses = DOMAIN asked  BY <1>7, <1>8, <1>9
<1> QED  BY <1>2, <1>5, <1>6, <1>7, <1>8, <1>10

LEMMA InvIsIt == ReplyInv => Reply!ReplyIsTheModels
<1> SUFFICES ASSUME ReplyInv PROVE Reply!ReplyIsTheModels  OBVIOUS
<1>1. ASSUME NEW i \in Reply!ToolUses
      PROVE  /\ i \in DOMAIN asked /\ acc[i].id = i
             /\ \E n \in 0..asked[i].parts : acc[i].input = [k \in 1..n |-> k]
  <2>1. i \in Reply!Indices /\ acc[i].id # Reply!Unnamed  BY DEF Reply!ToolUses
  <2>2. /\ CallRight(i) /\ i \in Nat /\ i > 0 /\ Len(asked) \in Nat /\ Got(i) \in Nat
        /\ acc[i].input \in Seq(Nat) /\ asked \in Seq(Asked)
    BY <2>1, CallFacts DEF ReplyInv, Flow
  <2>3. i <= Len(asked)  BY <2>1, <2>2 DEF CallRight
  <2>4. i \in 1..Len(asked) /\ acc[i].id = i  BY <2>1, <2>2, <2>3 DEF CallRight
  <2>5. asked[i].parts \in Nat  BY <2>4, CallFacts DEF ReplyInv
  <2>6. Got(i) \in 0..asked[i].parts  BY <2>2, <2>3, <2>5 DEF CallRight
  <2>7. acc[i].input = [k \in 1..Got(i) |-> k]
    <3>1. \A k \in 1..Got(i) : acc[i].input[k] = k  BY <2>2 DEF CallRight
    <3>2. PICK s : s = acc[i].input  OBVIOUS
    <3>3. s \in Seq(Nat) /\ Len(s) = Got(i)  BY <2>2, <3>2 DEF Got
    <3>4. s = [k \in 1..Got(i) |-> k]  BY <3>1, <3>2, <3>3
    <3> QED  BY <3>2, <3>4
  <2> QED  BY <2>2, <2>4, <2>6, <2>7
<1>2. ASSUME Reply!Over, final.reason = "done"
      PROVE  /\ text = said /\ final.usage = counted /\ Reply!ToolUses = DOMAIN asked
             /\ \A i \in Reply!ToolUses : Len(acc[i].input) = asked[i].parts
             /\ request # "refused"
  <2>1. request # "refused"  BY <1>2 DEF ReplyInv, StopRight
  <2> QED  BY <1>2, <2>1, Delivered
<1> QED  BY <1>1, <1>2 DEF Reply!ReplyIsTheModels

LEMMA StopSteps == ASSUME ReplyInv, ReplyShape', Reply!Next PROVE StopRight'
<1> USE DEF ReplyInv
<1>0. USE DEF Reply!server, Reply!consumer
<1>1. at = "read" => /\ final = Reply!NoStop /\ stop # Reply!StopError /\ request # "refused"
                     /\ stop = Reply!StopDelta(IF ended = "" THEN "other" ELSE ended, FALSE, counted)
                     /\ \A p \in 1..Len(deltas) : deltas[p].kind # "stop"
  BY DEF StopRight, Reply!Over
<1>2. CASE Reply!Cancel
  BY <1>2 DEF Reply!Cancel, StopRight, Reply!Over
<1>3. CASE Reply!DecodeText
  BY <1>1, <1>3 DEF Reply!DecodeText, Reply!Reads, StopRight, Reply!Over
<1>4. CASE Reply!DecodeCall
  <2>1. /\ at = "read" /\ at' = at /\ ended = ""
        /\ UNCHANGED <<ended, counted, stop, deltas, final, request>>
    BY <1>4 DEF Reply!DecodeCall, Reply!Reads
  <2> QED  BY <1>1, <2>1 DEF StopRight, Reply!Over
<1>5. ASSUME NEW i \in Reply!Indices, Reply!DecodePart(i) PROVE StopRight'
  <2>1. /\ at = "read" /\ at' = at /\ ended = ""
        /\ UNCHANGED <<ended, counted, stop, deltas, final, request>>
    BY <1>5 DEF Reply!DecodePart, Reply!Reads
  <2> QED  BY <1>1, <2>1 DEF StopRight, Reply!Over
<1>6. ASSUME NEW reason \in {"done", "max_tokens"}, Reply!DecodeReason(reason) PROVE StopRight'
  <2>1. /\ at = "read" /\ pending = <<>> /\ pending' = pending /\ at' \in {"check", "read"}
        /\ ended = "" /\ ended' = reason
        /\ (reason = "done" => \A i \in DOMAIN asked : asked[i].whole)
        /\ stop' = [stop EXCEPT !.reason = reason, !.usage = counted']
        /\ UNCHANGED <<asked, deltas, final, request>>
    BY <1>6 DEF Reply!DecodeReason, Reply!Reads
  <2>2. counted \in BOOLEAN /\ counted' \in BOOLEAN  BY DEF ReplyShape
  <2>3. stop' = Reply!StopDelta(ended', FALSE, counted')
    <3>1. stop = Reply!StopDelta("other", FALSE, counted)  BY <1>1, <2>1
    <3> QED  BY <2>1, <3>1 DEF Reply!StopDelta
  <2>4. stop' # Reply!StopError
    <3>1. \A u \in BOOLEAN : Reply!StopDelta(reason, FALSE, u).reason = reason
      BY DEF Reply!StopDelta
    <3>2. Reply!StopError.reason = "error"  BY DEF Reply!StopError, Reply!StopDelta
    <3>3. stop' = Reply!StopDelta(reason, FALSE, counted')  BY <2>1, <2>3
    <3>4. stop'.reason = reason  BY <2>2, <3>1, <3>3
    <3> QED  BY <3>2, <3>4
  <2>5. asked \in Seq(Asked)  BY DEF ReplyShape
  <2>6. DOMAIN asked = 1..Len(asked)  BY <2>5
  <2>7. ended' # ""  BY <2>1
  <2> QED  BY <1>1, <2>1, <2>3, <2>4, <2>6, <2>7 DEF StopRight, Reply!Over
<1>7. CASE Reply!DecodeUsage
  <2>1. /\ at = "read" /\ ended # "" /\ counted' = TRUE /\ stop' = [stop EXCEPT !.usage = TRUE]
        /\ UNCHANGED <<asked, ended, at, pending, deltas, final, request>>
    BY <1>7 DEF Reply!DecodeUsage, Reply!Reads
  <2>2. stop' = Reply!StopDelta(ended', FALSE, counted')
    <3>1. stop = Reply!StopDelta(ended, FALSE, counted)  BY <1>1, <2>1
    <3> QED  BY <2>1, <3>1 DEF Reply!StopDelta
  <2>3. ended \in {"done", "max_tokens"}  BY <2>1 DEF ReplyShape
  <2>4. stop' # Reply!StopError
    <3>1. stop'.reason = ended'  BY <2>2 DEF Reply!StopDelta
    <3>2. Reply!StopError.reason = "error"  BY DEF Reply!StopError, Reply!StopDelta
    <3> QED  BY <2>1, <2>3, <3>1, <3>2
  <2> QED  BY <1>1, <2>1, <2>2, <2>4 DEF StopRight, Reply!Over
<1>8. CASE \/ Reply!DecodeEnd \/ Reply!DecodeError \/ Reply!DecodeGarbage \/ Reply!BodyFails
           \/ Reply!BodyEnds
  <2>1. /\ at = "read" /\ pending = <<>> /\ at' = "check" /\ (stop' = stop \/ stop' = Reply!StopError)
        /\ UNCHANGED <<asked, ended, counted, pending, deltas, final, request>>
    BY <1>8
    DEF Reply!DecodeEnd, Reply!DecodeError, Reply!DecodeGarbage, Reply!BodyFails,
        Reply!BodyEnds, Reply!StopWith, Reply!Reads
  <2> QED  BY <1>1, <2>1 DEF StopRight, Reply!Over
<1>9. CASE Reply!Send
  <2>1. /\ pending # <<>> /\ deltas' = Append(deltas, Head(pending))
        /\ UNCHANGED <<asked, ended, counted, at, stop, final, request>>
    BY <1>9 DEF Reply!Send
  <2>2. at = "read"  BY <2>1 DEF StopRight
  <2>3. PICK h : h = Head(pending)  OBVIOUS
  <2>4. h.kind # "stop"
    <3>1. pending \in Seq(Parcels)  BY DEF ReplyShape
    <3>2. h \in Parcels  BY <2>1, <2>3, <3>1
    <3> QED  BY <3>2, StopsAreNoCalls
  <2>5. \A p \in 1..Len(deltas') : deltas'[p].kind # "stop"
    <3>1. deltas \in Seq(Parcels \cup Stops)  BY DEF ReplyShape
    <3>2. deltas' = Append(deltas, h)  BY <2>1, <2>3
    <3>3. /\ Len(deltas') = Len(deltas) + 1 /\ deltas'[Len(deltas) + 1] = h
          /\ \A p \in 1..Len(deltas) : deltas'[p] = deltas[p]
      BY <3>1, <3>2
    <3>4. \A p \in 1..Len(deltas') : p \in 1..Len(deltas) \/ p = Len(deltas) + 1  BY <3>1, <3>3
    <3> QED  BY <1>1, <2>2, <2>4, <3>3, <3>4
  <2> QED  BY <1>1, <2>1, <2>2, <2>5 DEF StopRight, Reply!Over
<1>10. CASE Reply!CheckContext
  <2>1. /\ at = "check" /\ pending = <<>> /\ at' = "stop" /\ (stop' = stop \/ stop' = Reply!StopError)
        /\ UNCHANGED <<asked, ended, counted, pending, deltas, final, request>>
    BY <1>10 DEF Reply!CheckContext
  <2> QED  BY <2>1 DEF StopRight, Reply!Over
<1>11. CASE Reply!EmitStop
  <2>1. /\ at = "stop" /\ at' = "closed" /\ pending = <<>>
        /\ (deltas' = Append(deltas, stop) \/ deltas' = deltas)
        /\ UNCHANGED <<asked, ended, counted, pending, stop, final, request>>
    BY <1>11 DEF Reply!EmitStop, StopRight
  <2>2. /\ final = Reply!NoStop /\ request # "refused"
        /\ \A p \in 1..Len(deltas) : deltas[p].kind # "stop"
    BY <2>1 DEF StopRight, Reply!Over
  <2>3. \A p \in 1..Len(deltas') : deltas'[p].kind = "stop" => deltas'[p] = stop /\ p = Len(deltas')
    <3>1. deltas \in Seq(Parcels \cup Stops)  BY DEF ReplyShape
    <3>2. CASE deltas' = Append(deltas, stop)
      <4>1. /\ Len(deltas') = Len(deltas) + 1 /\ deltas'[Len(deltas) + 1] = stop
            /\ \A p \in 1..Len(deltas) : deltas'[p] = deltas[p]
        BY <3>1, <3>2
      <4>2. \A p \in 1..Len(deltas') : p \in 1..Len(deltas) \/ p = Len(deltas) + 1
        BY <3>1, <4>1
      <4> QED  BY <2>2, <4>1, <4>2
    <3>3. CASE deltas' = deltas  BY <2>2, <3>3
    <3> QED  BY <2>1, <3>2, <3>3
  <2> QED  BY <2>1, <2>2, <2>3 DEF StopRight, Reply!Over
<1>12. CASE Reply!Receive
  <2>1. PICK d : d = Head(deltas)  OBVIOUS
  <2>2. /\ deltas # <<>> /\ deltas' = Tail(deltas)
        /\ (final' = final /\ d.kind # "stop") \/ (final' = d /\ d.kind = "stop")
        /\ UNCHANGED <<asked, ended, counted, at, stop, pending, request>>
    BY <1>12, <2>1 DEF Reply!Receive
  <2>3. final = Reply!NoStop /\ request # "refused"  BY <2>2 DEF StopRight, Reply!Over
  <2>4. deltas \in Seq(Parcels \cup Stops)  BY DEF ReplyShape
  <2>5. /\ Len(deltas) \in Nat /\ Len(deltas) > 0 /\ Len(deltas') = Len(deltas) - 1
        /\ \A p \in 1..Len(deltas') : deltas'[p] = deltas[p + 1] /\ p + 1 \in 1..Len(deltas)
        /\ d = deltas[1] /\ deltas' \in Seq(Parcels \cup Stops)
    BY <2>1, <2>2, <2>4
  <2>6. \A p \in 1..Len(deltas') :
          deltas'[p].kind = "stop" => at = "closed" /\ deltas'[p] = stop /\ p = Len(deltas')
    <3> SUFFICES ASSUME NEW p \in 1..Len(deltas'), deltas'[p].kind = "stop"
                 PROVE  at = "closed" /\ deltas'[p] = stop /\ p = Len(deltas')
      OBVIOUS
    <3>1. deltas'[p] = deltas[p + 1] /\ p + 1 \in 1..Len(deltas)  BY <2>5
    <3>2. at = "closed" /\ deltas[p + 1] = stop /\ p + 1 = Len(deltas)  BY <3>1 DEF StopRight
    <3> QED  BY <2>5, <3>1, <3>2
  <2>7. CASE final' = d /\ d.kind = "stop"
    <3>1. 1 \in 1..Len(deltas)  BY <2>5
    <3>2. at = "closed" /\ d = stop /\ 1 = Len(deltas)  BY <2>5, <2>7, <3>1 DEF StopRight
    <3>3. deltas' = <<>>
      <4>1. PICK s, U : s = deltas' /\ U = Parcels \cup Stops  OBVIOUS
      <4>2. s \in Seq(U)  BY <2>5, <4>1
      <4>3. Len(deltas') = Len(deltas) - 1 /\ Len(deltas) = 1  BY <2>5, <3>2
      <4>4. Len(s) = 0
        <5>1. Len(s) = Len(deltas')  BY <4>1
        <5> QED  BY <4>3, <5>1
      <4> QED  BY <4>1, <4>2, <4>4
    <3> QED  BY <2>2, <2>3, <2>6, <2>7, <3>2, <3>3 DEF StopRight, Reply!Over
  <2>8. CASE final' = final
    BY <2>2, <2>3, <2>6, <2>8 DEF StopRight, Reply!Over
  <2> QED  BY <2>2, <2>7, <2>8
<1>13. CASE Reply!NextRequest
  <2>1. /\ Reply!Over /\ UNCHANGED <<asked, ended, counted, at, stop, pending, deltas, final>>
        /\ request' = IF provider = "openai" \/ \A i \in Reply!ToolUses : Reply!Parses(i)
                      THEN "sent" ELSE "refused"
    BY <1>13 DEF Reply!NextRequest, Reply!Taken
  <2>2. request' = "refused" => final.reason # "done"
    <3> SUFFICES ASSUME final.reason = "done" PROVE request' = "sent"  BY <2>1
    <3>1. \A i \in Reply!ToolUses : Reply!Parses(i)  BY <2>1, Delivered
    <3> QED  BY <2>1, <3>1
  <2> QED  BY <2>1, <2>2 DEF StopRight, Reply!Over
<1> QED
  BY <1>2, <1>3, <1>4, <1>5, <1>6, <1>7, <1>8, <1>9, <1>10, <1>11, <1>12, <1>13
  DEF Reply!Next, Reply!Decode

LEMMA ShapeSteps == ASSUME ReplyInv, Reply!Next PROVE ReplyShape'
<1> USE DEF ReplyInv, Reply!server, Reply!consumer
<1>1. CASE Reply!Cancel
  BY <1>1 DEF Reply!Cancel, ReplyShape
<1>2. CASE Reply!DecodeText
  <2>1. /\ said' = TRUE /\ pending' = <<Reply!TextDelta>>
        /\ UNCHANGED <<asked, ended, counted, at, headers, stop, deltas, acc, text, final>>
    BY <1>2 DEF Reply!DecodeText
  <2>2. Reply!TextDelta \in Parcels  BY DEF Parcels
  <2>3. pending' \in Seq(Parcels)  BY <2>1, <2>2
  <2> QED  BY <2>1, <2>3 DEF ReplyShape
<1>3. CASE Reply!DecodeCall
  <2>1. PICK i : i = Len(asked) + 1  OBVIOUS
  <2>2. PICK a, b : a = Reply!ToolUseDelta(i, i, 0) /\ b = Reply!ToolUseDelta(i, i, 1)  OBVIOUS
  <2>3. PICK parts \in {0, 1}, whole \in BOOLEAN :
          /\ asked' = Append(asked, [parts |-> parts, whole |-> whole])
          /\ pending' = IF parts = 0 THEN <<a>> ELSE <<a, b>>
    BY <1>3, <2>1, <2>2 DEF Reply!DecodeCall
  <2>4. /\ Len(asked) < MaxCalls /\ headers' = [headers EXCEPT ![i] = i]
        /\ UNCHANGED <<said, ended, counted, at, stop, deltas, acc, text, final>>
    BY <1>3, <2>1 DEF Reply!DecodeCall
  <2>5. asked \in Seq(Asked) /\ Len(asked) \in Nat  BY CallFacts
  <2>6. asked' \in Seq(Asked) /\ Len(asked') = i /\ i <= MaxCalls
    <3>1. [parts |-> parts, whole |-> whole] \in Asked  BY DEF Asked
    <3> QED  BY <2>1, <2>3, <2>4, <2>5, <3>1, ChatAssumption
  <2>7. i \in Reply!Indices /\ i \in Nat  BY <2>1, <2>5, <2>6 DEF Reply!Indices
  <2>8. a \in Parcels /\ b \in Parcels
    BY <2>2, <2>7 DEF Parcels, CallDeltas, Reply!ToolUseDelta
  <2>9. pending' \in Seq(Parcels)
    <3>1. <<a>> \in Seq(Parcels) /\ <<a, b>> \in Seq(Parcels)  BY <2>8
    <3> QED  BY <2>3, <3>1
  <2>10. headers' = [j \in Reply!Indices |-> IF j <= Len(asked') THEN j ELSE Reply!Unnamed]
    <3>1. headers = [j \in Reply!Indices |-> IF j <= Len(asked) THEN j ELSE Reply!Unnamed]
      BY DEF ReplyShape
    <3>2. \A j \in Reply!Indices : j \in Nat  BY CallFacts
    <3>3. headers' = [j \in Reply!Indices |-> IF j = i THEN i ELSE headers[j]]  BY <2>4, <3>1
    <3>4. \A j \in Reply!Indices : (IF j = i THEN i ELSE headers[j])
                             = IF j <= Len(asked') THEN j ELSE Reply!Unnamed
      BY <2>1, <2>5, <2>6, <3>1, <3>2
    <3> QED  BY <3>3, <3>4
  <2> QED  BY <2>4, <2>6, <2>9, <2>10 DEF ReplyShape
<1>4. ASSUME NEW i \in Reply!Indices, Reply!DecodePart(i) PROVE ReplyShape'
  <2>1. /\ i \in DOMAIN asked
        /\ \E whole \in BOOLEAN :
             asked' = [asked EXCEPT ![i] = [parts |-> @.parts + 1, whole |-> whole]]
        /\ pending' = IF headers[i] = Reply!Unnamed THEN <<>> ELSE <<Reply!Fragment(i)>>
        /\ UNCHANGED <<said, ended, counted, at, headers, stop, deltas, acc, text, final>>
    BY <1>4 DEF Reply!DecodePart, Reply!Open
  <2>2. asked \in Seq(Asked) /\ Len(asked) \in Nat  BY CallFacts
  <2>3. i \in 1..Len(asked) /\ asked[i].parts \in Nat  BY <2>1, <2>2, CallFacts
  <2>4. asked' \in Seq(Asked) /\ Len(asked') = Len(asked)
    <3>1. PICK r : r \in Asked /\ asked' = [asked EXCEPT ![i] = r]
      <4>1. PICK whole \in BOOLEAN :
              asked' = [asked EXCEPT ![i] = [parts |-> asked[i].parts + 1, whole |-> whole]]
        BY <2>1
      <4>2. [parts |-> asked[i].parts + 1, whole |-> whole] \in Asked  BY <2>3 DEF Asked
      <4> QED  BY <4>1, <4>2
    <3> QED  BY <2>2, <2>3, <3>1
  <2>5. pending' \in Seq(Parcels)
    <3>1. headers = [j \in Reply!Indices |-> IF j <= Len(asked) THEN j ELSE Reply!Unnamed]
      BY DEF ReplyShape
    <3>2. headers[i] = i  BY <2>2, <2>3, <3>1
    <3>3. Reply!Fragment(i) = Reply!ToolUseDelta(i, i, asked[i].parts + 1)
      BY <3>2 DEF Reply!Fragment
    <3>4. Reply!Fragment(i) \in Parcels
      BY <2>3, <3>3 DEF Parcels, CallDeltas, Reply!ToolUseDelta
    <3>5. <<>> \in Seq(Parcels) /\ <<Reply!Fragment(i)>> \in Seq(Parcels)  BY <3>4
    <3> QED  BY <2>1, <3>5
  <2> QED  BY <2>1, <2>4, <2>5 DEF ReplyShape
<1>5. CASE \/ Reply!DecodeUsage \/ Reply!DecodeEnd \/ Reply!DecodeError \/ Reply!DecodeGarbage
           \/ Reply!BodyFails \/ Reply!BodyEnds
           \/ (\E reason \in {"done", "max_tokens"} : Reply!DecodeReason(reason)) \/ Reply!CheckContext
  <2>1. /\ ended' \in {"", "done", "max_tokens"} /\ counted' \in BOOLEAN
        /\ at' \in {"read", "check", "stop", "closed"}
        /\ UNCHANGED <<asked, said, headers, pending, deltas, acc, text, final>>
    BY <1>5
    DEF Reply!DecodeUsage, Reply!DecodeEnd, Reply!DecodeError, Reply!DecodeGarbage,
        Reply!BodyFails, Reply!BodyEnds, Reply!StopWith,
                Reply!DecodeReason, Reply!CheckContext, ReplyShape
  <2>2. Reply!StopError \in Stops  BY StopDeltaIs DEF Reply!StopError
  <2>3. stop \in Stops  BY DEF ReplyShape
  <2>4. \A r \in {"", "other", "error", "done", "max_tokens"} : \A u \in BOOLEAN :
          [stop EXCEPT !.reason = r, !.usage = u] \in Stops /\ [stop EXCEPT !.usage = u] \in Stops
    BY <2>3 DEF Stops
  <2>5. stop' \in Stops
    <3>1. CASE Reply!DecodeUsage  BY <2>4, <3>1 DEF Reply!DecodeUsage
    <3>2. ASSUME NEW reason \in {"done", "max_tokens"}, Reply!DecodeReason(reason) PROVE stop' \in Stops
      BY <2>1, <2>4, <3>2 DEF Reply!DecodeReason
    <3>3. CASE \/ Reply!DecodeEnd \/ Reply!DecodeError \/ Reply!DecodeGarbage
               \/ Reply!BodyFails \/ Reply!BodyEnds \/ Reply!CheckContext
      BY <2>2, <2>3, <3>3
      DEF Reply!DecodeEnd, Reply!DecodeError, Reply!DecodeGarbage, Reply!BodyFails,
          Reply!BodyEnds, Reply!StopWith, Reply!CheckContext
    <3> QED  BY <1>5, <3>1, <3>2, <3>3
  <2> QED  BY <2>1, <2>5 DEF ReplyShape
<1>6. CASE Reply!Send
  <2>1. /\ pending # <<>> /\ deltas' = Append(deltas, Head(pending)) /\ pending' = Tail(pending)
        /\ UNCHANGED <<asked, said, ended, counted, at, headers, stop, acc, text, final>>
    BY <1>6 DEF Reply!Send
  <2>2. pending \in Seq(Parcels) /\ deltas \in Seq(Parcels \cup Stops)  BY DEF ReplyShape
  <2>3. Head(pending) \in Parcels /\ pending' \in Seq(Parcels)  BY <2>1, <2>2
  <2>4. deltas' \in Seq(Parcels \cup Stops)  BY <2>1, <2>2, <2>3
  <2> QED  BY <2>1, <2>3, <2>4 DEF ReplyShape
<1>7. CASE Reply!EmitStop
  <2>1. /\ deltas' = Append(deltas, stop) \/ deltas' = deltas
        /\ at' = "closed"
        /\ UNCHANGED <<asked, said, ended, counted, headers, stop, pending, acc, text, final>>
    BY <1>7 DEF Reply!EmitStop
  <2>2. deltas' \in Seq(Parcels \cup Stops)
    <3>1. deltas \in Seq(Parcels \cup Stops) /\ stop \in Stops  BY DEF ReplyShape
    <3> QED  BY <2>1, <3>1
  <2> QED  BY <2>1, <2>2 DEF ReplyShape
<1>8. CASE Reply!Receive
  <2>1. PICK d : d = Head(deltas)  OBVIOUS
  <2>2. /\ deltas # <<>> /\ deltas' = Tail(deltas)
        /\ \/ d.kind = "text" /\ text' = TRUE /\ UNCHANGED <<acc, final>>
           \/ /\ d.kind = "tool" /\ UNCHANGED <<text, final>>
              /\ acc' = [acc EXCEPT ![d.index] =
                           [id |-> IF d.id = Reply!Unnamed THEN @.id ELSE d.id,
                            input |-> IF d.part = 0 THEN @.input ELSE Append(@.input, d.part)]]
           \/ d.kind = "stop" /\ final' = d /\ UNCHANGED <<acc, text>>
        /\ UNCHANGED <<asked, said, ended, counted, at, headers, stop, pending>>
    BY <1>8, <2>1 DEF Reply!Receive
  <2>3. PICK U : U = Parcels \cup Stops  OBVIOUS
  <2>4. deltas \in Seq(U)  BY <2>3 DEF ReplyShape
  <2>5. d \in Parcels \cup Stops /\ deltas' \in Seq(Parcels \cup Stops)
    BY <2>1, <2>2, <2>3, <2>4
  <2>6. d.kind = "stop" => d \in Stops  BY <2>5, StopsAreNoCalls
  <2>7. acc \in [Reply!Indices -> [id : Nat, input : Seq(Nat)]]  BY DEF ReplyShape
  <2>8. d.kind = "tool" => acc' \in [Reply!Indices -> [id : Nat, input : Seq(Nat)]]
    <3> SUFFICES ASSUME d.kind = "tool"
                 PROVE  acc' \in [Reply!Indices -> [id : Nat, input : Seq(Nat)]]
      OBVIOUS
    <3>1. d.index \in Reply!Indices /\ d.id \in Reply!Indices /\ d.part \in Nat
      BY <2>5, ToolParts
    <3>2. d.id \in Nat  BY <3>1, CallFacts
    <3>3. acc[d.index].id \in Nat /\ acc[d.index].input \in Seq(Nat)  BY <3>1, CallFacts
    <3>4. PICK r : r = [id |-> IF d.id = Reply!Unnamed THEN acc[d.index].id ELSE d.id,
                        input |-> IF d.part = 0 THEN acc[d.index].input
                                  ELSE Append(acc[d.index].input, d.part)]
      OBVIOUS
    <3>5. Append(acc[d.index].input, d.part) \in Seq(Nat)  BY <3>1, <3>3
    <3>6. r \in [id : Nat, input : Seq(Nat)]  BY <3>2, <3>3, <3>4, <3>5
    <3>7. acc' = [acc EXCEPT ![d.index] = r]  BY <2>2, <3>4
    <3> QED  BY <2>7, <3>6, <3>7
  <2>9. acc' \in [Reply!Indices -> [id : Nat, input : Seq(Nat)]] /\ final' \in Stops /\ text' \in BOOLEAN
    BY <2>2, <2>6, <2>7, <2>8 DEF ReplyShape
  <2> QED  BY <2>2, <2>5, <2>9 DEF ReplyShape
<1>9. CASE Reply!NextRequest
  BY <1>9 DEF Reply!NextRequest, ReplyShape
<1> QED
  BY <1>1, <1>2, <1>3, <1>4, <1>5, <1>6, <1>7, <1>8, <1>9 DEF Reply!Next, Reply!Decode

LEMMA InitIsRight == Reply!Init => ReplyInv
<1> SUFFICES ASSUME Reply!Init PROVE ReplyInv  OBVIOUS
<1>1. /\ asked = <<>> /\ deltas = <<>> /\ pending = <<>> /\ Len(asked) = 0 /\ Len(deltas) = 0
      /\ said = FALSE /\ counted = FALSE /\ text = FALSE /\ ended = "" /\ at = "read"
      /\ headers = [i \in Reply!Indices |-> Reply!Unnamed] /\ request = "none"
      /\ stop = Reply!StopDelta("other", FALSE, FALSE) /\ final = Reply!NoStop
      /\ acc = [i \in Reply!Indices |-> [id |-> Reply!Unnamed, input |-> <<>>]]
  BY DEF Reply!Init
<1>2. Len(Way) = 0
  <2>1. <<>> \o <<>> = <<>>  OBVIOUS
  <2> QED  BY <1>1, <2>1 DEF Way
<1>3. \A d : ~Coming(d)  BY <1>2 DEF Coming
<1>4. \A i \in Reply!Indices : ~(i <= Len(asked))
  <2>1. Len(asked) = 0  BY <1>1
  <2> QED  BY <2>1, ChatAssumption DEF Reply!Indices
<1>5. ReplyShape
  <2>1. PICK A, B, C : A = Asked /\ B = Parcels /\ C = Parcels \cup Stops  OBVIOUS
  <2>2. <<>> \in Seq(A) /\ <<>> \in Seq(B) /\ <<>> \in Seq(C)  OBVIOUS
  <2>3. asked \in Seq(Asked) /\ deltas \in Seq(Parcels \cup Stops) /\ pending \in Seq(Parcels)
    BY <1>1, <2>1, <2>2
  <2>4. headers = [i \in Reply!Indices |-> IF i <= Len(asked) THEN i ELSE Reply!Unnamed]
    BY <1>1, <1>4
  <2>5. stop \in Stops /\ final \in Stops  BY <1>1, StopDeltaIs DEF Reply!NoStop
  <2>6. acc \in [Reply!Indices -> [id : Nat, input : Seq(Nat)]]
    <3>1. <<>> \in Seq(Nat) /\ Reply!Unnamed \in Nat  BY DEF Reply!Unnamed
    <3> QED  BY <1>1, <3>1
  <2>7. Len(asked) <= MaxCalls
    <3>1. Len(asked) = 0  BY <1>1
    <3> QED  BY <3>1, ChatAssumption
  <2>8. /\ said \in BOOLEAN /\ counted \in BOOLEAN /\ text \in BOOLEAN
        /\ ended \in {"", "done", "max_tokens"} /\ at \in {"read", "check", "stop", "closed"}
    BY <1>1
  <2> QED  BY <2>3, <2>4, <2>5, <2>6, <2>7, <2>8 DEF ReplyShape
<1>6. StopRight
  <2>1. stop # Reply!StopError
    <3>1. stop.reason = "other" /\ Reply!StopError.reason = "error"
      BY <1>1 DEF Reply!StopError, Reply!StopDelta
    <3> QED  BY <3>1
  <2>2. stop = Reply!StopDelta(IF ended = "" THEN "other" ELSE ended, FALSE, counted)
    BY <1>1
  <2>3. \A p \in 1..Len(deltas) : FALSE
    <3>1. Len(deltas) = 0  BY <1>1
    <3> QED  BY <3>1
  <2>4. /\ ended # "done" /\ at = "read" /\ final = Reply!NoStop /\ request # "refused"  BY <1>1
  <2> QED  BY <2>1, <2>2, <2>3, <2>4 DEF StopRight
<1>7. Flow
  <2>1. InOrder  BY <1>2 DEF InOrder
  <2>2. ASSUME NEW i \in Reply!Indices PROVE CallRight(i)
    <3>1. acc[i].id = Reply!Unnamed /\ acc[i].input = <<>>  BY <1>1
    <3>2. Got(i) = 0  BY <3>1 DEF Got
    <3> QED  BY <1>4, <3>1, <3>2 DEF CallRight
  <2> QED  BY <1>1, <1>3, <2>1, <2>2 DEF Flow, SaidRight
<1> QED  BY <1>5, <1>6, <1>7 DEF ReplyInv

\* A reply runTurn takes for the model's is the model's: provider.go:142-157,
\* with decodeStream of the four providers and the loop of runTurn that reads it.
THEOREM RepliesAreTheModels == Reply!Spec => []ReplyIsTheModels
<1>1. Reply!Init => ReplyInv  BY InitIsRight
<1>2. ReplyInv /\ [Reply!Next]_Reply!vars => ReplyInv'
  <2> SUFFICES ASSUME ReplyInv, [Reply!Next]_Reply!vars PROVE ReplyInv'  OBVIOUS
  <2>1. CASE Reply!Next
    <3>1. ReplyShape'  BY <2>1, ShapeSteps
    <3>2. StopRight'  BY <2>1, <3>1, StopSteps
    <3>3. Flow'  BY <2>1, <3>1, FlowStep
    <3> QED  BY <3>1, <3>2, <3>3 DEF ReplyInv
  <2>2. CASE UNCHANGED Reply!vars
    <3>1. UNCHANGED <<asked, said, ended, counted, at, headers, stop, pending, deltas, acc, text,
                      final, request>>
      BY <2>2 DEF Reply!vars, Reply!server, Reply!consumer
    <3>2. ReplyShape'  BY <3>1 DEF ReplyInv, ReplyShape
    <3>3. StopRight'  BY <3>1 DEF ReplyInv, StopRight, Reply!Over
    <3>4. Way' = Way  BY <3>1 DEF Way
    <3>5. Flow'  BY <3>1, <3>4, FlowKept DEF ReplyInv
    <3> QED  BY <3>2, <3>3, <3>5 DEF ReplyInv
  <2> QED  BY <2>1, <2>2
<1>3. ReplyInv => ReplyIsTheModels  BY InvIsIt DEF ReplyIsTheModels
<1> QED  BY <1>1, <1>2, <1>3, PTL DEF Reply!Spec
=============================================================================
