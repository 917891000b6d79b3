---------------------------- MODULE ActionsProofs ----------------------------
(***************************************************************************)
(* Three promises of DeployRun for every capacity and every bound: the     *)
(* user of Result.Events sees no gap, the channel closes complete, and     *)
(* Wait comes back after everybody else.  After these, what ActionRun and  *)
(* CancelStream promise of a composite and of a safe cancel.               *)
(***************************************************************************)
EXTENDS Actions, FunctionTheorems, FiniteSetTheorems, SequenceTheorems, TLAPS

FanOf(s) == IF s = "cfn" THEN "events" ELSE "lines"

\* What pump p has handed to its fan-in.
Handed(p) == IF pump[p] = "send" THEN read[p] - 1 ELSE read[p]

InHand(s) == fan[FanOf(s)] = "send" /\ held[FanOf(s)].src = s

\* The types the order of the items rests on.
ItemTypes ==
  /\ merged \in Seq(Item)
  /\ got \in [Sources -> Nat]
  /\ read \in [Pipes -> Nat]
  /\ pump \in [Pipes -> {"scan", "send", "done"}]
  /\ \A p \in Pipes : pump[p] = "send" => read[p] > 0
  /\ seen \in Nat
  /\ fan \in [Fans -> {"recv", "send", "done"}]
  /\ held \in [Fans -> Item \cup {Nothing}]
  /\ dropping \in [Fans -> BOOLEAN]
  /\ \A f \in Fans : fan[f] = "send" =>
       /\ held[f] \in Item
       /\ FanOf(held[f].src) = f
       /\ ~dropping[f]

\* The merged channel holds, of each source, the items after got up to last.
Contiguous(queue, last) ==
  /\ \A s \in Sources : got[s] <= last[s]
  /\ \A j \in 1..Len(queue) : /\ got[queue[j].src] < queue[j].n
                              /\ queue[j].n <= last[queue[j].src]
  /\ \A i, j \in 1..Len(queue) :
       i < j /\ queue[i].src = queue[j].src => queue[i].n < queue[j].n
  /\ \A s \in Sources : \A n \in Nat :
       got[s] < n /\ n <= last[s] =>
         \E j \in 1..Len(queue) : queue[j].src = s /\ queue[j].n = n

\* What a fan-in has in hand comes next, and unless it drops, what its sources
\* hand to it comes after that.
Upstream(last) ==
  /\ \A s \in Sources : InHand(s) => held[FanOf(s)].n = last[s] + 1
  /\ \A p \in Pipes :
       ~dropping["lines"] /\ (pump[p] # "done" \/ ~ctxDone) =>
         Handed(p) = IF InHand(p) THEN last[p] + 1 ELSE last[p]
  /\ ~dropping["events"] =>
       seen = IF InHand("cfn") THEN last["cfn"] + 1 ELSE last["cfn"]

InOrder == \E last \in [Sources -> Nat] : Contiguous(merged, last) /\ Upstream(last)

OrderInv == ItemTypes /\ InOrder

orderVars == <<merged, got, read, pump, seen, fan, held, dropping>>

-----------------------------------------------------------------------------
(* Every step but eight leaves the order alone. *)

LEMMA OrderInit == Init => OrderInv
<1>1. SUFFICES ASSUME Init PROVE OrderInv
  OBVIOUS
<1>2. ItemTypes
  BY <1>1 DEF Init, ItemTypes, Sources, Pipes, Fans
<1> DEFINE last == [s \in Sources |-> 0]
<1>3. last \in [Sources -> Nat]
  OBVIOUS
<1>4. Contiguous(merged, last)
  BY <1>1 DEF Init, Contiguous
<1>5. Upstream(last)
  BY <1>1 DEF Init, Upstream, Handed, InHand, FanOf, Sources, Pipes, Fans
<1>6. QED
  BY <1>2, <1>3, <1>4, <1>5 DEF OrderInv, InOrder

LEMMA OrderFrame ==
  ASSUME OrderInv, UNCHANGED orderVars, ctxDone => ctxDone'
  PROVE  OrderInv'
<1>1. ItemTypes'
  BY DEF OrderInv, orderVars, ItemTypes
<1>2. PICK last \in [Sources -> Nat] : Contiguous(merged, last) /\ Upstream(last)
  BY DEF OrderInv, InOrder
<1>3. Contiguous(merged, last)'
  BY <1>2 DEF Contiguous, orderVars
<1>4. Upstream(last)'
  BY <1>2 DEF Upstream, Handed, InHand, orderVars
<1>5. QED
  BY <1>2, <1>1, <1>3, <1>4 DEF OrderInv, InOrder

LEMMA OrderPumpScan ==
  ASSUME OrderInv, NEW p \in Pipes, PumpScan(p)
  PROVE  OrderInv'
<1>1. UNCHANGED <<ctxDone, merged, got, seen, fan, held, dropping>>
  BY DEF PumpScan, pumpFrame, fanVars, pollVars
<1>2. ItemTypes'
  <2>1. /\ read' \in [Pipes -> Nat]
        /\ pump' \in [Pipes -> {"scan", "send", "done"}]
    <3>1. /\ pump' = [pump EXCEPT ![p] = "send"] \/ pump' = [pump EXCEPT ![p] = "done"]
          /\ read' = [read EXCEPT ![p] = @ + 1] \/ read' = read
      BY DEF PumpScan
    <3>2. QED
      BY <3>1 DEF OrderInv, ItemTypes
  <2>2. \A q \in Pipes : pump'[q] = "send" => read'[q] > 0
    BY DEF OrderInv, ItemTypes, PumpScan
  <2>3. QED
    BY <1>1, <2>1, <2>2 DEF OrderInv, ItemTypes
<1>3. PICK last \in [Sources -> Nat] : Contiguous(merged, last) /\ Upstream(last)
  BY DEF OrderInv, InOrder
<1>4. Contiguous(merged, last)'
  BY <1>1, <1>3 DEF Contiguous
<1>5. \A q \in Pipes : Handed(q)' = Handed(q)
  BY DEF OrderInv, ItemTypes, PumpScan, Handed
<1>6. \A q \in Pipes : pump[q] = "done" => pump'[q] = "done"
  BY DEF OrderInv, ItemTypes, PumpScan
<1>7. Upstream(last)'
  BY <1>1, <1>3, <1>5, <1>6 DEF Upstream, InHand
<1>8. QED
  BY <1>2, <1>3, <1>4, <1>7 DEF OrderInv, InOrder

LEMMA OrderPumpQuit ==
  ASSUME OrderInv, NEW p \in Pipes, PumpQuit(p)
  PROVE  OrderInv'
<1>1. UNCHANGED <<ctxDone, merged, got, read, seen, fan, held, dropping>> /\ ctxDone
  BY DEF PumpQuit, pumpFrame, fanVars, pollVars
<1>2. ItemTypes'
  BY <1>1 DEF OrderInv, ItemTypes, PumpQuit
<1>3. PICK last \in [Sources -> Nat] : Contiguous(merged, last) /\ Upstream(last)
  BY DEF OrderInv, InOrder
<1>4. Contiguous(merged, last)'
  BY <1>1, <1>3 DEF Contiguous
<1>5. Upstream(last)'
  BY <1>1, <1>3 DEF Upstream, InHand, Handed, PumpQuit, OrderInv, ItemTypes
<1>6. QED
  BY <1>2, <1>3, <1>4, <1>5 DEF OrderInv, InOrder

LEMMA OrderPumpSend ==
  ASSUME OrderInv, NEW p \in Pipes, PumpSend(p)
  PROVE  OrderInv'
<1> DEFINE item == [src |-> p, n |-> read[p]]
<1>1. /\ UNCHANGED <<ctxDone, merged, got, read, seen, dropping>>
      /\ pump[p] = "send"
      /\ pump' = [pump EXCEPT ![p] = "scan"]
      /\ fan["lines"] = "recv"
  BY DEF PumpSend, pumpFrame, pollVars, Take
<1>2. item \in Item /\ FanOf(p) = "lines" /\ p # "cfn"
  BY <1>1 DEF OrderInv, ItemTypes, Item, Pipes, Sources, FanOf
<1>3. PICK last \in [Sources -> Nat] : Contiguous(merged, last) /\ Upstream(last)
  BY DEF OrderInv, InOrder
<1>4. Contiguous(merged, last)'
  BY <1>1, <1>3 DEF Contiguous
<1>5. \A q \in Pipes : FanOf(q) = "lines" /\ ~InHand(q)
  BY <1>1 DEF InHand, FanOf, Pipes
<1>6. CASE dropping["lines"]
  <2>1. UNCHANGED <<fan, held>>
    BY <1>6 DEF PumpSend, Take
  <2>2. ItemTypes'
    BY <1>1, <2>1 DEF OrderInv, ItemTypes
  <2>3. Upstream(last)'
    BY <1>1, <1>3, <1>6, <2>1 DEF Upstream, InHand
  <2>4. QED
    BY <1>3, <1>4, <2>2, <2>3 DEF OrderInv, InOrder
<1>7. CASE ~dropping["lines"]
  <2>1. /\ fan' = [fan EXCEPT !["lines"] = "send"]
        /\ held' = [held EXCEPT !["lines"] = item]
    BY <1>7 DEF PumpSend, Take
  <2>2. ItemTypes'
    BY <1>1, <1>2, <1>7, <2>1 DEF OrderInv, ItemTypes, Fans
  <2>3. read[p] - 1 = last[p]
    BY <1>1, <1>3, <1>5, <1>7 DEF Upstream, Handed
  <2>4. \A s \in Sources :
          InHand(s)' <=> s = p \/ (FanOf(s) = "events" /\ InHand(s))
    BY <1>2, <1>5, <2>1 DEF OrderInv, ItemTypes, InHand, FanOf, Fans, Sources, Pipes
  <2>5. held'["events"] = held["events"] /\ held'["lines"] = item
    BY <2>1 DEF OrderInv, ItemTypes, Fans
  <2>6. \A s \in Sources : InHand(s)' => held'[FanOf(s)].n = last[s] + 1
    <3> SUFFICES ASSUME NEW s \in Sources, InHand(s)'
                 PROVE  held'[FanOf(s)].n = last[s] + 1
      OBVIOUS
    <3>1. CASE s = p
      BY <1>2, <2>3, <2>5, <3>1 DEF OrderInv, ItemTypes
    <3>2. CASE FanOf(s) = "events" /\ InHand(s)
      BY <1>3, <2>5, <3>2 DEF Upstream
    <3>3. QED
      BY <2>4, <3>1, <3>2
  <2>7. \A q \in Pipes :
          pump'[q] # "done" \/ ~ctxDone =>
            Handed(q)' = IF InHand(q)' THEN last[q] + 1 ELSE last[q]
    <3> SUFFICES ASSUME NEW q \in Pipes, pump'[q] # "done" \/ ~ctxDone
                 PROVE  Handed(q)' = IF InHand(q)' THEN last[q] + 1 ELSE last[q]
      OBVIOUS
    <3>1. CASE q = p
      BY <1>1, <2>3, <2>4, <3>1 DEF Handed, OrderInv, ItemTypes, Pipes, Sources
    <3>2. CASE q # p
      <4>1. ~InHand(q)'
        BY <1>5, <2>4, <3>2 DEF Pipes, Sources
      <4>2. pump'[q] = pump[q] /\ read'[q] = read[q]
        BY <1>1, <3>2 DEF OrderInv, ItemTypes
      <4>3. Handed(q) = last[q]
        BY <1>3, <1>5, <1>7, <4>2 DEF Upstream
      <4>4. QED
        BY <4>1, <4>2, <4>3 DEF Handed
    <3>3. QED
      BY <3>1, <3>2
  <2>8. InHand("cfn")' <=> InHand("cfn")
    BY <1>2, <2>4 DEF FanOf, Sources
  <2>9. Upstream(last)'
    BY <1>1, <1>3, <2>6, <2>7, <2>8 DEF Upstream
  <2>10. QED
    BY <1>3, <1>4, <2>2, <2>9 DEF OrderInv, InOrder
<1>8. QED
  BY <1>6, <1>7

LEMMA OrderPollEmit ==
  ASSUME OrderInv, PollEmit
  PROVE  OrderInv'
<1> DEFINE item == [src |-> "cfn", n |-> seen + 1]
<1>1. /\ UNCHANGED <<ctxDone, merged, got, read, pump, dropping>>
      /\ seen' = seen + 1
      /\ fan["events"] = "recv"
  BY DEF PollEmit, pollFrame, pumpVars, Take
<1>2. item \in Item /\ FanOf("cfn") = "events"
  BY DEF OrderInv, ItemTypes, Item, Sources, FanOf
<1>3. PICK last \in [Sources -> Nat] : Contiguous(merged, last) /\ Upstream(last)
  BY DEF OrderInv, InOrder
<1>4. Contiguous(merged, last)'
  BY <1>1, <1>3 DEF Contiguous
<1>5. ~InHand("cfn")
  BY <1>1 DEF InHand, FanOf
<1>6. CASE dropping["events"]
  <2>1. UNCHANGED <<fan, held>>
    BY <1>6 DEF PollEmit, Take
  <2>2. ItemTypes'
    BY <1>1, <2>1 DEF OrderInv, ItemTypes
  <2>3. Upstream(last)'
    BY <1>1, <1>3, <1>6, <2>1 DEF Upstream, InHand, Handed
  <2>4. QED
    BY <1>3, <1>4, <2>2, <2>3 DEF OrderInv, InOrder
<1>7. CASE ~dropping["events"]
  <2>1. /\ fan' = [fan EXCEPT !["events"] = "send"]
        /\ held' = [held EXCEPT !["events"] = item]
    BY <1>7 DEF PollEmit, Take
  <2>2. ItemTypes'
    BY <1>1, <1>2, <1>7, <2>1 DEF OrderInv, ItemTypes, Fans
  <2>3. seen = last["cfn"]
    BY <1>3, <1>5, <1>7 DEF Upstream
  <2>4. InHand("cfn")' /\ held'["events"] = item
    BY <1>2, <2>1 DEF OrderInv, ItemTypes, InHand, Fans
  <2>5. \A p \in Pipes : /\ InHand(p)' <=> InHand(p)
                         /\ FanOf(p) = "lines"
                         /\ held'["lines"] = held["lines"]
    BY <2>1 DEF OrderInv, ItemTypes, InHand, FanOf, Fans, Pipes
  <2>6. \A s \in Sources : InHand(s)' => held'[FanOf(s)].n = last[s] + 1
    BY <1>2, <1>3, <2>3, <2>4, <2>5 DEF Upstream, Sources
  <2>7. Upstream(last)'
    BY <1>1, <1>3, <2>3, <2>4, <2>5, <2>6 DEF Upstream, Handed
  <2>8. QED
    BY <1>3, <1>4, <2>2, <2>7 DEF OrderInv, InOrder
<1>8. QED
  BY <1>6, <1>7

LEMMA OrderFanSend ==
  ASSUME OrderInv, NEW f \in Fans, FanSend(f)
  PROVE  OrderInv'
<1> DEFINE item == held[f]
<1>1. /\ UNCHANGED <<ctxDone, got, read, pump, seen, dropping>>
      /\ fan[f] = "send"
      /\ merged' = Append(merged, item)
      /\ fan' = [fan EXCEPT ![f] = "recv"]
      /\ held' = [held EXCEPT ![f] = Nothing]
  BY DEF FanSend, fanFrame, pumpVars, pollVars
<1>2. item \in Item /\ FanOf(item.src) = f /\ item.src \in Sources /\ item.n \in Nat
  BY <1>1 DEF OrderInv, ItemTypes, Item
<1>3. ItemTypes'
  BY <1>1, <1>2 DEF OrderInv, ItemTypes
<1>4. PICK last \in [Sources -> Nat] : Contiguous(merged, last) /\ Upstream(last)
  BY DEF OrderInv, InOrder
<1>5. item.n = last[item.src] + 1
  BY <1>1, <1>2, <1>4 DEF Upstream, InHand
<1>6. PICK last2 \in [Sources -> Nat] :
        /\ last2[item.src] = item.n
        /\ \A s \in Sources : s # item.src => last2[s] = last[s]
        /\ \A s \in Sources : last[s] <= last2[s]
  <2> DEFINE next == [last EXCEPT ![item.src] = item.n]
  <2>1. next \in [Sources -> Nat] /\ next[item.src] = item.n
    BY <1>2
  <2>2. \A s \in Sources : (s # item.src => next[s] = last[s]) /\ last[s] <= next[s]
    BY <1>2, <1>5
  <2>3. QED
    BY <2>1, <2>2
<1>7. Contiguous(merged, last2)'
  <2>1. /\ Len(merged') = Len(merged) + 1
        /\ \A j \in 1..Len(merged) : merged'[j] = merged[j]
        /\ merged'[Len(merged) + 1] = item
        /\ \A j \in 1..Len(merged) : merged[j] \in Item
        /\ Len(merged) \in Nat
    BY <1>1, <1>2 DEF OrderInv, ItemTypes
  <2>2. \A s \in Sources : got'[s] <= last2[s]
    BY <1>1, <1>4, <1>6 DEF Contiguous, OrderInv, ItemTypes
  <2>3. \A j \in 1..Len(merged') : /\ got'[merged'[j].src] < merged'[j].n
                                   /\ merged'[j].n <= last2[merged'[j].src]
    <3> SUFFICES ASSUME NEW j \in 1..Len(merged')
                 PROVE  /\ got'[merged'[j].src] < merged'[j].n
                        /\ merged'[j].n <= last2[merged'[j].src]
      OBVIOUS
    <3>1. CASE j = Len(merged) + 1
      <4>1. merged'[j] = item
        BY <2>1, <3>1
      <4>2. got[item.src] <= last[item.src]
        BY <1>2, <1>4 DEF Contiguous
      <4>3. got[item.src] \in Nat /\ last[item.src] \in Nat
        BY <1>2, <1>4 DEF OrderInv, ItemTypes
      <4>4. QED
        BY <1>1, <1>2, <1>5, <1>6, <4>1, <4>2, <4>3
    <3>2. CASE j \in 1..Len(merged)
      <4>1. /\ got[merged[j].src] < merged[j].n
            /\ merged[j].n <= last[merged[j].src]
        BY <1>4, <3>2 DEF Contiguous
      <4>2. merged'[j] = merged[j] /\ merged[j].src \in Sources /\ merged[j].n \in Nat
        BY <2>1, <3>2 DEF Item
      <4>3. merged[j].n <= last2[merged[j].src]
        BY <1>6, <4>1, <4>2
      <4>4. QED
        BY <1>1, <4>1, <4>2, <4>3
    <3>3. j = Len(merged) + 1 \/ j \in 1..Len(merged)
      BY <2>1
    <3>4. QED
      BY <3>1, <3>2, <3>3
  <2>4. \A i, j \in 1..Len(merged') :
          i < j /\ merged'[i].src = merged'[j].src => merged'[i].n < merged'[j].n
    <3> SUFFICES ASSUME NEW i \in 1..Len(merged'), NEW j \in 1..Len(merged'),
                        i < j, merged'[i].src = merged'[j].src
                 PROVE  merged'[i].n < merged'[j].n
      OBVIOUS
    <3>0. i \in 1..Len(merged)
      BY <2>1
    <3>1. CASE j = Len(merged) + 1
      <4>1. merged'[i] = merged[i] /\ merged'[j] = item
        BY <2>1, <3>0, <3>1
      <4>2. merged[i].n <= last[item.src] /\ merged[i].n \in Nat
        <5>1. merged[i].n <= last[merged[i].src]
          BY <1>4, <3>0 DEF Contiguous
        <5>2. QED
          BY <2>1, <3>0, <4>1, <5>1 DEF Item
      <4>3. last[item.src] \in Nat
        BY <1>2, <1>4
      <4>4. QED
        BY <1>5, <4>1, <4>2, <4>3
    <3>2. CASE j \in 1..Len(merged)
      <4>1. merged'[i] = merged[i] /\ merged'[j] = merged[j]
        BY <2>1, <3>0, <3>2
      <4>2. merged[i].src = merged[j].src => merged[i].n < merged[j].n
        BY <1>4, <3>0, <3>2 DEF Contiguous
      <4>3. QED
        BY <4>1, <4>2
    <3>3. j = Len(merged) + 1 \/ j \in 1..Len(merged)
      BY <2>1
    <3>4. QED
      BY <3>1, <3>2, <3>3
  <2>5. \A s \in Sources : \A n \in Nat :
          got'[s] < n /\ n <= last2[s] =>
            \E j \in 1..Len(merged') : merged'[j].src = s /\ merged'[j].n = n
    <3> SUFFICES ASSUME NEW s \in Sources, NEW n \in Nat, got'[s] < n, n <= last2[s]
                 PROVE  \E j \in 1..Len(merged') : merged'[j].src = s /\ merged'[j].n = n
      OBVIOUS
    <3>1. CASE s = item.src /\ n = item.n
      BY <2>1, <3>1
    <3>2. CASE ~(s = item.src /\ n = item.n)
      <4>1. n <= last[s]
        BY <1>2, <1>5, <1>6, <3>2
      <4>2. PICK j \in 1..Len(merged) : merged[j].src = s /\ merged[j].n = n
        BY <1>1, <1>4, <4>1 DEF Contiguous
      <4>3. QED
        BY <2>1, <4>2
    <3>3. QED
      BY <3>1, <3>2
  <2>6. QED
    BY <2>2, <2>3, <2>4, <2>5 DEF Contiguous
<1>8. Upstream(last2)'
  <2>1. \A s \in Sources : InHand(s)' <=> InHand(s) /\ FanOf(s) # f
    BY <1>1 DEF OrderInv, ItemTypes, InHand, FanOf, Fans, Sources
  <2>2. \A s \in Sources : FanOf(s) # f => held'[FanOf(s)] = held[FanOf(s)]
    BY <1>1 DEF OrderInv, ItemTypes, FanOf, Fans
  <2>3. \A s \in Sources : FanOf(s) # f => last2[s] = last[s]
    BY <1>2, <1>6
  <2>4. \A s \in Sources : InHand(s)' => held'[FanOf(s)].n = last2[s] + 1
    BY <1>4, <2>1, <2>2, <2>3 DEF Upstream
  <2>5. \A s \in Sources : FanOf(s) = f =>
          last2[s] = IF InHand(s) THEN last[s] + 1 ELSE last[s]
    BY <1>1, <1>2, <1>5, <1>6 DEF InHand
  <2>6. \A p \in Pipes : p \in Sources /\ FanOf(p) = "lines" /\ Handed(p)' = Handed(p)
    BY <1>1 DEF Sources, Pipes, FanOf, Handed
  <2>7. \A p \in Pipes :
          ~dropping'["lines"] /\ (pump'[p] # "done" \/ ~ctxDone') =>
            Handed(p)' = IF InHand(p)' THEN last2[p] + 1 ELSE last2[p]
    BY <1>1, <1>4, <2>1, <2>3, <2>5, <2>6 DEF Upstream
  <2>8. ~dropping'["events"] =>
          seen' = IF InHand("cfn")' THEN last2["cfn"] + 1 ELSE last2["cfn"]
    BY <1>1, <1>4, <2>1, <2>3, <2>5 DEF Upstream, Sources, FanOf
  <2>9. QED
    BY <2>4, <2>7, <2>8 DEF Upstream
<1>9. QED
  BY <1>3, <1>7, <1>8 DEF OrderInv, InOrder

\* Dropping or ending, a fan-in has nothing in hand afterwards.
LEMMA OrderFanDropEnd ==
  ASSUME OrderInv, NEW f \in Fans, FanDrop(f) \/ FanEnd(f)
  PROVE  OrderInv'
<1>1. /\ UNCHANGED <<ctxDone, merged, got, read, pump, seen>>
      /\ \E g \in {"recv", "done"} : fan' = [fan EXCEPT ![f] = g]
      /\ held' = held \/ held' = [held EXCEPT ![f] = Nothing]
      /\ dropping' = dropping \/ dropping' = [dropping EXCEPT ![f] = TRUE]
  BY DEF FanDrop, FanEnd, fanFrame, pumpVars, pollVars
<1>2. ItemTypes'
  BY <1>1 DEF OrderInv, ItemTypes
<1>3. PICK last \in [Sources -> Nat] : Contiguous(merged, last) /\ Upstream(last)
  BY DEF OrderInv, InOrder
<1>4. Contiguous(merged, last)'
  BY <1>1, <1>3 DEF Contiguous
<1>5. \A s \in Sources : InHand(s)' <=> InHand(s) /\ FanOf(s) # f
  BY <1>1 DEF OrderInv, ItemTypes, InHand, FanOf, Fans, Sources
<1>6. \A s \in Sources : FanOf(s) # f => held'[FanOf(s)] = held[FanOf(s)]
  BY <1>1 DEF OrderInv, ItemTypes, FanOf, Fans
<1>7. \A s \in Sources : InHand(s)' => held'[FanOf(s)].n = last[s] + 1
  BY <1>3, <1>5, <1>6 DEF Upstream
<1>8. \A s \in Sources : ~dropping'[FanOf(s)] => (InHand(s)' <=> InHand(s)) /\ ~dropping[FanOf(s)]
  BY <1>1, <1>5 DEF OrderInv, ItemTypes, FanOf, Fans, Sources, InHand, FanDrop, FanEnd
<1>9. \A p \in Pipes : p \in Sources /\ FanOf(p) = "lines" /\ Handed(p)' = Handed(p)
  BY <1>1 DEF Sources, Pipes, FanOf, Handed
<1>10. Upstream(last)'
  BY <1>1, <1>3, <1>7, <1>8, <1>9 DEF Upstream, Sources, FanOf
<1>11. QED
  BY <1>2, <1>3, <1>4, <1>10 DEF OrderInv, InOrder

LEMMA OrderReceive ==
  ASSUME OrderInv, Receive
  PROVE  OrderInv' /\ \A s \in Sources : got'[s] \in {got[s], got[s] + 1}
<1> DEFINE head == Head(merged)
<1>1. /\ UNCHANGED <<ctxDone, read, pump, seen, fan, held, dropping>>
      /\ merged # <<>>
      /\ merged' = Tail(merged)
      /\ got' = [got EXCEPT ![head.src] = head.n]
  BY DEF Receive, userFrame, pumpVars, pollVars, fanVars
<1>2. /\ head = merged[1] /\ head \in Item
      /\ head.src \in Sources /\ head.n \in Nat
      /\ Len(merged) \in Nat \ {0}
      /\ \A j \in 1..Len(merged) : merged[j] \in Item
  <2>1. merged \in Seq(Item) /\ merged # <<>>
    BY <1>1 DEF OrderInv, ItemTypes
  <2>2. Len(merged) \in Nat \ {0} /\ \A j \in 1..Len(merged) : merged[j] \in Item
    BY <2>1
  <2>3. head = merged[1] /\ merged[1] \in Item
    BY <2>1, <2>2
  <2>4. QED
    BY <2>2, <2>3 DEF Item
<1>3. PICK last \in [Sources -> Nat] : Contiguous(merged, last) /\ Upstream(last)
  BY DEF OrderInv, InOrder
<1>4. got[head.src] < head.n /\ head.n <= last[head.src]
  BY <1>2, <1>3 DEF Contiguous
<1>5. head.n = got[head.src] + 1
  <2>1. got[head.src] \in Nat /\ last[head.src] \in Nat
    BY <1>2 DEF OrderInv, ItemTypes
  <2>2. PICK j \in 1..Len(merged) :
          merged[j].src = head.src /\ merged[j].n = got[head.src] + 1
    <3>1. /\ got[head.src] + 1 \in Nat
          /\ got[head.src] < got[head.src] + 1
          /\ got[head.src] + 1 <= last[head.src]
      BY <1>2, <1>4, <2>1
    <3>2. QED
      BY <1>2, <1>3, <3>1, SMTT(30) DEF Contiguous
  <2>3. CASE j = 1
    BY <1>2, <2>2, <2>3
  <2>4. CASE j > 1
    <3>1. head.n < merged[j].n
      BY <1>2, <1>3, <2>2, <2>4 DEF Contiguous
    <3>2. QED
      BY <1>2, <1>4, <2>1, <2>2, <3>1
  <2>5. QED
    BY <2>3, <2>4
<1>6. /\ got'[head.src] = head.n
      /\ \A s \in Sources : s # head.src => got'[s] = got[s]
  BY <1>1, <1>2 DEF OrderInv, ItemTypes
<1>7. \A s \in Sources : got'[s] \in {got[s], got[s] + 1}
  BY <1>2, <1>5, <1>6
<1>8. /\ merged' \in Seq(Item)
      /\ Len(merged') = Len(merged) - 1
      /\ \A j \in 1..Len(merged') : merged'[j] = merged[j + 1]
  BY <1>1, <1>2 DEF OrderInv, ItemTypes
<1>9. ItemTypes'
  BY <1>1, <1>2, <1>8 DEF OrderInv, ItemTypes
<1>10. Contiguous(merged, last)'
  <2>1. \A s \in Sources : got'[s] <= last[s]
    BY <1>2, <1>3, <1>4, <1>6 DEF Contiguous
  <2>2. \A j \in 1..Len(merged') : /\ got'[merged'[j].src] < merged'[j].n
                                   /\ merged'[j].n <= last[merged'[j].src]
    <3> SUFFICES ASSUME NEW j \in 1..Len(merged')
                 PROVE  /\ got'[merged'[j].src] < merged'[j].n
                        /\ merged'[j].n <= last[merged'[j].src]
      OBVIOUS
    <3>1. j + 1 \in 1..Len(merged) /\ merged'[j] = merged[j + 1] /\ merged[j + 1] \in Item
      <4>1. Len(merged') = Len(merged) - 1 /\ Len(merged) \in Nat
        BY <1>2, <1>8
      <4>2. j + 1 \in 1..Len(merged)
        BY <4>1
      <4>3. QED
        BY <1>2, <1>8, <4>2
    <3>2. CASE merged[j + 1].src = head.src
      <4>1. head.n < merged[j + 1].n
        BY <1>2, <1>3, <3>1, <3>2 DEF Contiguous
      <4>2. merged[j + 1].n <= last[merged[j + 1].src]
        BY <1>3, <3>1 DEF Contiguous
      <4>3. QED
        BY <1>6, <3>1, <3>2, <4>1, <4>2
    <3>3. CASE merged[j + 1].src # head.src
      <4>1. /\ got[merged[j + 1].src] < merged[j + 1].n
            /\ merged[j + 1].n <= last[merged[j + 1].src]
        BY <1>3, <3>1 DEF Contiguous
      <4>2. got'[merged[j + 1].src] = got[merged[j + 1].src]
        BY <1>6, <3>1, <3>3 DEF Item
      <4>3. QED
        BY <3>1, <4>1, <4>2
    <3>4. QED
      BY <3>2, <3>3
  <2>3. \A i, j \in 1..Len(merged') :
          i < j /\ merged'[i].src = merged'[j].src => merged'[i].n < merged'[j].n
    <3> SUFFICES ASSUME NEW i \in 1..Len(merged'), NEW j \in 1..Len(merged'),
                        i < j, merged'[i].src = merged'[j].src
                 PROVE  merged'[i].n < merged'[j].n
      OBVIOUS
    <3>1. i + 1 \in 1..Len(merged) /\ j + 1 \in 1..Len(merged) /\ i + 1 < j + 1
      BY <1>2, <1>8
    <3>2. merged[i + 1].src = merged[j + 1].src => merged[i + 1].n < merged[j + 1].n
      BY <1>3, <3>1 DEF Contiguous
    <3>3. QED
      BY <1>8, <3>2
  <2>4. \A s \in Sources : \A n \in Nat :
          got'[s] < n /\ n <= last[s] =>
            \E j \in 1..Len(merged') : merged'[j].src = s /\ merged'[j].n = n
    <3> SUFFICES ASSUME NEW s \in Sources, NEW n \in Nat, got'[s] < n, n <= last[s]
                 PROVE  \E j \in 1..Len(merged') : merged'[j].src = s /\ merged'[j].n = n
      OBVIOUS
    <3>1. got[s] < n
      <4>1. got[s] \in Nat /\ got[head.src] \in Nat
        BY <1>2 DEF OrderInv, ItemTypes
      <4>2. QED
        BY <1>2, <1>4, <1>6, <4>1
    <3>2. PICK j \in 1..Len(merged) : merged[j].src = s /\ merged[j].n = n
      BY <1>3, <3>1 DEF Contiguous
    <3>3. j # 1
      BY <1>2, <1>6, <3>2
    <3>4. j - 1 \in 1..Len(merged') /\ merged'[j - 1] = merged[j]
      BY <1>2, <1>8, <3>3
    <3>5. QED
      BY <3>2, <3>4
  <2>5. QED
    BY <2>1, <2>2, <2>3, <2>4 DEF Contiguous
<1>11. Upstream(last)'
  BY <1>1, <1>3 DEF Upstream, InHand, Handed
<1>12. QED
  BY <1>3, <1>7, <1>9, <1>10, <1>11 DEF OrderInv, InOrder

-----------------------------------------------------------------------------
(* The other steps *)

Quiet ==
  \/ Cancel \/ ScriptExit \/ ChildExit \/ StackEvent \/ Wedge
  \/ PollAnswered \/ PollStopped \/ PollSleep \/ PollQuit
  \/ Closer \/ Reaper \/ Handler \/ SeeClosed \/ WaitReturns
  \/ \E p \in Pipes : ScriptWrite(p)

LEMMA QuietSteps ==
  ASSUME Quiet
  PROVE  UNCHANGED orderVars /\ (ctxDone => ctxDone')
BY DEF Quiet, Cancel, ScriptExit, ChildExit, StackEvent, Wedge, PollAnswered,
       PollStopped, PollSleep, PollQuit, Closer, CloseMerged, PostResult, Reaper,
       CloseLines, Reap, Handler, Terminate, Kill, HandlerStops, SeeClosed,
       WaitReturns, ScriptWrite, orderVars, others, pollFrame, userFrame,
       procVars, pumpVars, pollVars, fanVars

\* The steps of the run, sorted by what they do to the order of items.
LEMMA NextSteps ==
  ASSUME Next
  PROVE  \/ Quiet \/ Receive \/ PollEmit
         \/ \E p \in Pipes : PumpScan(p) \/ PumpSend(p) \/ PumpQuit(p)
         \/ \E f \in Fans : FanSend(f) \/ FanDrop(f) \/ FanEnd(f)
BY DEF Next, Quiet, Poll, User, Pump, FanIn

LEMMA OrderStep ==
  ASSUME OrderInv, [Next]_vars
  PROVE  OrderInv' /\ \A s \in Sources : got'[s] \in {got[s], got[s] + 1}
<1>1. CASE Quiet \/ UNCHANGED vars
  <2>1. UNCHANGED orderVars /\ (ctxDone => ctxDone')
    BY <1>1, QuietSteps DEF vars, pumpVars, pollVars, fanVars, orderVars
  <2>2. QED
    BY <2>1, OrderFrame DEF orderVars
<1>2. CASE Receive
  BY <1>2, OrderReceive
<1>3. CASE PollEmit
  BY <1>3, OrderPollEmit DEF PollEmit, pollFrame
<1>4. ASSUME NEW p \in Pipes, PumpScan(p) \/ PumpSend(p) \/ PumpQuit(p)
      PROVE  OrderInv' /\ got' = got
  BY <1>4, OrderPumpScan, OrderPumpSend, OrderPumpQuit
     DEF PumpScan, PumpSend, PumpQuit, pumpFrame
<1>5. ASSUME NEW f \in Fans, FanSend(f) \/ FanDrop(f) \/ FanEnd(f)
      PROVE  OrderInv' /\ got' = got
  BY <1>5, OrderFanSend, OrderFanDropEnd DEF FanSend, FanDrop, FanEnd, fanFrame
<1>6. QED
  BY <1>1, <1>2, <1>3, <1>4, <1>5, NextSteps

LEMMA OrderInvariance == Spec => []OrderInv
<1>1. OrderInv /\ [Next]_vars => OrderInv'
  BY OrderStep
<1>2. QED
  BY OrderInit, <1>1, PTL DEF Spec

\* The user receives the items of each source one by one, in order, for every
\* capacity of the channel, every schedule and every moment of cancellation.
THEOREM EventsHaveNoGaps == Spec => NoGaps
<1>1. OrderInv /\ [Next]_vars =>
        [\A s \in Sources : got'[s] \in {got[s], got[s] + 1}]_vars
  BY OrderStep
<1>2. QED
  BY OrderInvariance, <1>1, PTL DEF Spec, NoGaps

-----------------------------------------------------------------------------
(* Who waits for whom *)

\* Wait waits for the closer, the closer for the fan-ins and the reaper, these
\* for the poller, the pumps and the script; none of them comes back.
OverInv ==
  /\ user = "returned" => closer = "done"
  /\ closer = "done" => reaper = "done"
  /\ closer # "fanIn" => fan["events"] = "done"
  /\ reaper = "done" => proc = "reaped"
  /\ reaper # "pumps" => \A p \in Pipes : pump[p] = "done"
  /\ fan["events"] = "done" => poll \in {"off", "done"}

LEMMA OverStep ==
  ASSUME ItemTypes, OverInv, [Next]_vars
  PROVE  OverInv'
<1>1. CASE UNCHANGED vars
  BY <1>1 DEF OverInv, vars, procVars, pumpVars, pollVars, fanVars
<1>2. CASE Receive \/ SeeClosed \/ WaitReturns \/ Wedge \/ Cancel \/ StackEvent
  BY <1>2 DEF OverInv, Receive, SeeClosed, WaitReturns, Wedge, Cancel, StackEvent,
              userFrame, procVars, pumpVars, pollVars, fanVars
<1>3. CASE CloseMerged \/ PostResult \/ CloseLines \/ Reap
  BY <1>3 DEF OverInv, CloseMerged, PostResult, CloseLines, Reap, procVars,
              pumpVars, pollVars, fanVars, Fans
<1>4. CASE ScriptExit \/ ChildExit \/ Terminate \/ Kill \/ HandlerStops
  BY <1>4 DEF OverInv, ScriptExit, ChildExit, Terminate, Kill, HandlerStops,
              others, procVars, pumpVars, pollVars, fanVars
<1>5. ASSUME NEW p \in Pipes, ScriptWrite(p)
      PROVE  OverInv'
  BY <1>5 DEF OverInv, ScriptWrite, others, pumpVars, pollVars, fanVars
<1>6. CASE PollAnswered \/ PollStopped \/ PollSleep \/ PollQuit
  BY <1>6 DEF OverInv, PollAnswered, PollStopped, PollSleep, PollQuit, pollFrame,
              procVars, pumpVars, fanVars
<1>7. CASE PollEmit
  <2>1. UNCHANGED <<user, closer, reaper, proc, pump, poll>>
    BY <1>7 DEF PollEmit, pollFrame, procVars, pumpVars
  <2>2. fan'["events"] = "done" => fan["events"] = "done"
    BY <1>7 DEF PollEmit, Take, ItemTypes, Fans
  <2>3. fan["events"] # "done"
    BY <1>7 DEF PollEmit, Take
  <2>4. QED
    BY <2>1, <2>2, <2>3 DEF OverInv
<1>8. ASSUME NEW p \in Pipes, PumpScan(p) \/ PumpSend(p) \/ PumpQuit(p)
      PROVE  OverInv'
  <2>1. UNCHANGED <<user, closer, reaper, proc, poll>> /\ fan'["events"] = fan["events"]
    BY <1>8 DEF PumpScan, PumpSend, PumpQuit, pumpFrame, procVars, pollVars, fanVars,
                Take, ItemTypes, Fans
  <2>2. reaper = "pumps"
    BY <1>8 DEF OverInv, PumpScan, PumpSend, PumpQuit
  <2>3. QED
    BY <2>1, <2>2 DEF OverInv
<1>9. ASSUME NEW f \in Fans, FanSend(f) \/ FanDrop(f) \/ FanEnd(f)
      PROVE  OverInv'
  <2>1. UNCHANGED <<user, closer, reaper, proc, poll, pump>>
    BY <1>9 DEF FanSend, FanDrop, FanEnd, fanFrame, procVars, pumpVars, pollVars
  <2>2. fan["events"] = "done" => fan'["events"] = "done"
    BY <1>9 DEF FanSend, FanDrop, FanEnd, ItemTypes, Fans
  <2>3. fan'["events"] = "done" => fan["events"] = "done" \/ poll \in {"off", "done"}
    BY <1>9 DEF FanSend, FanDrop, FanEnd, UpstreamClosed, ItemTypes, Fans
  <2>4. QED
    BY <2>1, <2>2, <2>3 DEF OverInv
<1>10. QED
  BY <1>1, <1>2, <1>3, <1>4, <1>5, <1>6, <1>7, <1>8, <1>9, NextSteps
     DEF Quiet, Closer, Reaper, Handler

\* When Wait returns, the script is reaped and neither a pump nor the poller is
\* left, so nobody can send on a channel that was closed.
THEOREM WaitIsLast == Spec => []WaitMeansOver
<1>1. Init => OverInv
  BY DEF Init, OverInv, Fans
<1>2. OrderInv /\ OverInv /\ [Next]_vars => OverInv'
  BY OverStep DEF OrderInv
<1>3. OverInv => WaitMeansOver
  BY DEF OverInv, WaitMeansOver
<1>4. QED
  BY <1>1, <1>2, <1>3, OrderInvariance, PTL DEF Spec

-----------------------------------------------------------------------------
(* The channel that closes is complete *)

\* What a source has in the merged channel is what separates the last item it
\* handed over from the last one received: a bijection between the places of
\* its items and their numbers.
LEMMA QueueCounts ==
  ASSUME ItemTypes, NEW last \in [Sources -> Nat], Contiguous(merged, last),
         NEW s \in Sources
  PROVE  got[s] + Cardinality(Queued(s)) = last[s]
<1> DEFINE numbers == (got[s] + 1)..last[s]
           f == [i \in Queued(s) |-> merged[i].n]
<1>1. /\ got[s] \in Nat /\ last[s] \in Nat /\ got[s] <= last[s]
      /\ Len(merged) \in Nat
      /\ \A i \in 1..Len(merged) : merged[i] \in Item
      /\ Queued(s) \subseteq 1..Len(merged)
  BY DEF ItemTypes, Contiguous, Queued
<1>2. \A i \in Queued(s) : /\ i \in 1..Len(merged) /\ merged[i].src = s
                           /\ merged[i].n \in Nat
                           /\ got[s] < merged[i].n /\ merged[i].n <= last[s]
  BY <1>1 DEF Contiguous, Queued, Item
<1>3. f \in [Queued(s) -> numbers]
  BY <1>1, <1>2
<1>4. ASSUME NEW i \in Queued(s), NEW j \in Queued(s), f[i] = f[j]
      PROVE  i = j
  <2>1. i \in Nat /\ j \in Nat /\ merged[i].n = merged[j].n
    BY <1>1, <1>2, <1>4
  <2>2. ~(i < j) /\ ~(j < i)
    BY <1>2, <2>1 DEF Contiguous
  <2> QED
    BY <2>1, <2>2
<1>5. ASSUME NEW n \in numbers
      PROVE  \E i \in Queued(s) : f[i] = n
  <2>1. n \in Nat /\ got[s] < n /\ n <= last[s]
    BY <1>1
  <2>2. PICK i \in 1..Len(merged) : merged[i].src = s /\ merged[i].n = n
    BY <2>1 DEF Contiguous
  <2> QED
    BY <2>2 DEF Queued
<1>6. f \in Bijection(Queued(s), numbers)
  <2>1. \A i, j \in Queued(s) : f[i] = f[j] => i = j
    BY <1>4
  <2>2. \A n \in numbers : \E i \in Queued(s) : f[i] = n
    BY <1>5
  <2> HIDE DEF f, numbers
  <2> QED
    BY <1>3, <2>1, <2>2, Fun_IsBij
<1>7. IsFiniteSet(Queued(s))
  <2>1. IsFiniteSet(1..Len(merged))
    BY <1>1, FS_Interval
  <2>2. Queued(s) \in SUBSET (1..Len(merged))
    BY <1>1
  <2> QED
    BY <2>1, <2>2, FS_Subset
<1>8. Cardinality(numbers) = Cardinality(Queued(s))
  <2>1. ExistsBijection(Queued(s), numbers)
    BY <1>6 DEF ExistsBijection
  <2> QED
    BY <1>7, <2>1, FS_Bijection
<1>9. Cardinality(numbers) = last[s] - got[s]
  <2>1. got[s] + 1 \in Int /\ last[s] \in Int
    BY <1>1
  <2>2. Cardinality(numbers) = IF got[s] + 1 > last[s] THEN 0
                               ELSE last[s] - (got[s] + 1) + 1
    BY <2>1, FS_Interval
  <2> QED
    BY <1>1, <2>2
<1> QED
  BY <1>1, <1>8, <1>9

\* Unless the run is cancelled nothing is dropped, a pump ends only at the end
\* of its pipe or at a line it cannot take, and the poller never ends with an
\* answer half handed on.
RunInv ==
  /\ \A f \in Fans : dropping[f] => ctxDone
  /\ \A p \in Pipes : ~ctxDone /\ pump[p] = "done" /\ ~cut[p] =>
       AtEOF /\ read[p] = written[p]
  /\ \A p \in Pipes : cut[p] => pump[p] = "done"
  /\ ~ctxDone /\ poll # "emit" => seen = upto
  /\ closer # "fanIn" => \A f \in Fans : fan[f] = "done"
  /\ fan["lines"] = "done" => reaper # "pumps"

RunTypes ==
  /\ cut \in [Pipes -> BOOLEAN]
  /\ written \in [Pipes -> Nat]

LEMMA RunStep ==
  ASSUME ItemTypes, RunTypes, OverInv, RunInv, [Next]_vars
  PROVE  RunTypes' /\ RunInv'
<1>1. CASE UNCHANGED vars
  BY <1>1 DEF RunInv, RunTypes, AtEOF, vars, procVars, pumpVars, pollVars, fanVars
<1>2. CASE Receive \/ SeeClosed \/ WaitReturns \/ Wedge \/ Cancel \/ StackEvent
  BY <1>2 DEF RunInv, RunTypes, AtEOF, Receive, SeeClosed, WaitReturns, Wedge,
              Cancel, StackEvent, userFrame, procVars, pumpVars, pollVars, fanVars
<1>3. CASE CloseMerged \/ PostResult \/ CloseLines \/ Reap
  BY <1>3 DEF RunInv, RunTypes, AtEOF, CloseMerged, PostResult, CloseLines, Reap,
              procVars, pumpVars, pollVars, fanVars, Fans
<1>4. CASE ScriptExit \/ ChildExit \/ Terminate \/ Kill \/ HandlerStops
  BY <1>4 DEF RunInv, RunTypes, AtEOF, ScriptExit, ChildExit, Terminate, Kill,
              HandlerStops, others, procVars, pumpVars, pollVars, fanVars
<1>5. ASSUME NEW p \in Pipes, ScriptWrite(p)
      PROVE  RunTypes' /\ RunInv'
  <2>1. /\ UNCHANGED <<ctxDone, proc, child, read, pump, cut, poll, seen, upto, fan,
                       dropping, closer, reaper>>
        /\ written' = [written EXCEPT ![p] = @ + 1]
        /\ pump[p] # "done"
    BY <1>5 DEF ScriptWrite, others, pumpVars, pollVars, fanVars
  <2>2. \A q \in Pipes : pump[q] = "done" => written'[q] = written[q]
    BY <2>1 DEF RunTypes
  <2> QED
    BY <2>1, <2>2 DEF RunInv, RunTypes, AtEOF
<1>6. CASE PollAnswered \/ PollStopped \/ PollSleep \/ PollQuit
  BY <1>6 DEF RunInv, RunTypes, AtEOF, PollAnswered, PollStopped, PollSleep,
              PollQuit, pollFrame, procVars, pumpVars, fanVars
<1>7. CASE PollEmit
  <2>1. /\ UNCHANGED <<ctxDone, proc, child, written, read, pump, cut, poll, upto,
                       dropping, closer, reaper>>
        /\ poll = "emit" /\ fan["events"] = "recv"
        /\ fan'["lines"] = fan["lines"]
    BY <1>7 DEF PollEmit, pollFrame, procVars, pumpVars, Take, ItemTypes, Fans
  <2> QED
    BY <2>1 DEF RunInv, RunTypes, AtEOF, Fans
<1>8. ASSUME NEW p \in Pipes, PumpScan(p)
      PROVE  RunTypes' /\ RunInv'
  <2>1. /\ UNCHANGED <<ctxDone, proc, child, written, poll, seen, upto, fan,
                       dropping, closer, reaper>>
        /\ pump[p] = "scan"
    BY <1>8 DEF PumpScan, pumpFrame, procVars, pollVars, fanVars
  <2>2. /\ cut' \in [Pipes -> BOOLEAN]
        /\ \A q \in Pipes \ {p} : /\ pump'[q] = pump[q] /\ read'[q] = read[q]
                                  /\ cut'[q] = cut[q]
        /\ pump'[p] = "done" /\ ~cut'[p] => AtEOF /\ read'[p] = written[p]
        /\ cut'[p] => pump'[p] = "done"
    BY <1>8, <2>1 DEF PumpScan, ItemTypes, RunTypes, RunInv
  <2> QED
    BY <2>1, <2>2 DEF RunInv, RunTypes, AtEOF
<1>9. ASSUME NEW p \in Pipes, PumpSend(p) \/ PumpQuit(p)
      PROVE  RunTypes' /\ RunInv'
  <2>1. /\ UNCHANGED <<ctxDone, proc, child, written, read, cut, poll, seen, upto,
                       dropping, closer, reaper>>
        /\ pump[p] = "send"
        /\ \A q \in Pipes \ {p} : pump'[q] = pump[q]
        /\ pump'[p] = "done" => ctxDone
    BY <1>9 DEF PumpSend, PumpQuit, pumpFrame, procVars, pollVars, fanVars,
                Take, ItemTypes
  <2>2. /\ fan'["lines"] = "done" => fan["lines"] = "done"
        /\ fan["lines"] = "done" /\ fan["events"] = "done" => fan' = fan
    BY <1>9 DEF PumpSend, PumpQuit, Take, fanVars, ItemTypes, Fans
  <2> QED
    BY <2>1, <2>2 DEF RunInv, RunTypes, AtEOF, Fans
<1>10. ASSUME NEW f \in Fans, FanSend(f) \/ FanDrop(f) \/ FanEnd(f)
       PROVE  RunTypes' /\ RunInv'
  <2>1. /\ UNCHANGED <<ctxDone, proc, child, written, read, pump, cut, poll, seen,
                       upto, closer, reaper>>
        /\ dropping' = dropping \/ (ctxDone /\ dropping' = [dropping EXCEPT ![f] = TRUE])
        /\ fan[f] # "done"
    BY <1>10 DEF FanSend, FanDrop, FanEnd, fanFrame, procVars, pumpVars, pollVars
  <2>2. closer = "fanIn"
    BY <2>1 DEF RunInv
  <2>3. fan'["lines"] = "done" => fan["lines"] = "done" \/ reaper # "pumps"
    BY <1>10 DEF FanSend, FanDrop, FanEnd, UpstreamClosed, ItemTypes, Fans
  <2>4. \A g \in Fans : dropping'[g] => ctxDone'
    BY <2>1 DEF RunInv, ItemTypes
  <2> QED
    BY <2>1, <2>2, <2>3, <2>4 DEF RunInv, RunTypes, AtEOF
<1>11. QED
  BY <1>1, <1>2, <1>3, <1>4, <1>5, <1>6, <1>7, <1>8, <1>9, <1>10, NextSteps
     DEF Quiet, Closer, Reaper, Handler

\* Once both fan-ins of a run that was not cancelled are done, the last item
\* each source handed over is the last it had.
LEMMA ClosedComplete ==
  ASSUME OrderInv, RunInv, OverInv
  PROVE  ClosedMeansComplete
<1> SUFFICES ASSUME closer # "fanIn", ~ctxDone
             PROVE  /\ AtEOF \/ \E p \in Pipes : cut[p]
                    /\ \A p \in Pipes : ~cut[p] =>
                         got[p] + Cardinality(Queued(p)) = written[p]
                    /\ got["cfn"] + Cardinality(Queued("cfn")) = upto
  BY DEF ClosedMeansComplete
<1>1. PICK last \in [Sources -> Nat] : Contiguous(merged, last) /\ Upstream(last)
  BY DEF OrderInv, InOrder
<1>2. /\ \A f \in Fans : fan[f] = "done" /\ ~dropping[f]
      /\ \A p \in Pipes : pump[p] = "done"
      /\ poll \in {"off", "done"}
  BY DEF RunInv, OverInv, Fans
<1>3. \A s \in Sources : ~InHand(s)
  BY <1>2 DEF InHand, FanOf, Fans
<1>4. \A p \in Pipes : read[p] = last[p] /\ p \in Sources
  BY <1>1, <1>2, <1>3 DEF Upstream, Handed, Fans, Sources
<1>5. seen = last["cfn"] /\ seen = upto
  BY <1>1, <1>2, <1>3 DEF Upstream, RunInv, Fans, Sources
<1>6. \A s \in Sources : got[s] + Cardinality(Queued(s)) = last[s]
  BY <1>1, QueueCounts DEF OrderInv
<1>7. \A p \in Pipes : ~cut[p] => AtEOF /\ last[p] = written[p]
  BY <1>2, <1>4 DEF RunInv
<1>8. "stdout" \in Pipes /\ "cfn" \in Sources
  BY DEF Pipes, Sources
<1> QED
  BY <1>4, <1>5, <1>6, <1>7, <1>8

\* When the merged channel of a run nobody cancelled closes, everything both
\* pipes held and everything CloudFormation answered is received or in it,
\* whatever the capacities and the schedule of the eight goroutines.
THEOREM ClosingIsComplete == Spec => []ClosedMeansComplete
<1>1. Init => OverInv /\ RunTypes /\ RunInv
  BY DEF Init, OverInv, RunTypes, RunInv, AtEOF, Fans
<1>2. OrderInv /\ RunTypes /\ RunInv /\ OverInv /\ [Next]_vars
        => OverInv' /\ RunTypes' /\ RunInv'
  BY OverStep, RunStep DEF OrderInv
<1>3. OrderInv /\ RunInv /\ OverInv => ClosedMeansComplete
  BY ClosedComplete
<1>4. QED
  BY <1>1, <1>2, <1>3, OrderInvariance, PTL DEF Spec

-----------------------------------------------------------------------------
(* A composite of shell commands: ActionRun *)

Verdicts == {"success", "failed", "cancelled"}
Places == {"boundary", "await", "inputs", "launch", "wait", "check", "ended"}
StepResults == [index : Nat, inputs : Chain!Inputs, outcome : Verdicts, killed : BOOLEAN]

ChainShape ==
  /\ plan \in Seq(Chain!StepKinds) /\ cur \in 1..Len(plan) + 1 /\ at \in Places
  /\ stopped \in BOOLEAN /\ given \in Chain!Inputs /\ prev \in Chain!Inputs
  /\ results \in Seq(StepResults)
  /\ killed \in BOOLEAN /\ usage \in Seq(Verdicts)

\* What the place of Run says of the step, its inputs and its script.
AtPlace ==
  /\ at \notin {"boundary", "ended"} => cur <= Len(plan)
  /\ at = "await" => Chain!Step.kind = "confirm"
  /\ at \in {"inputs", "launch", "wait", "check"} => Chain!Step.kind = "run"
  /\ at \in {"await", "inputs"} => given = Chain!NoInputs
  /\ at \in {"launch", "wait", "check"} /\ Chain!Step.from = "previous" =>
       given = Chain!FilterByFormIDs(prev, Chain!Step.form)
  /\ watcher # "off" => at = "wait"
  /\ at \in {"await", "inputs", "launch"} => ~killed
  /\ at \in {"wait", "check"} /\ killed => stopped
  /\ at # "ended" => final = "none"

\* ChainKeepsItsPolicy, with what Run still holds: what the next step may take over
\* is what one of the steps before it was given.
TakesOver(j) ==
  plan[j].from = "previous" /\ results[j].inputs # Chain!NoInputs =>
    \E k \in Chain!RunStepsBefore(j) :
      results[j].inputs = Chain!FilterByFormIDs(results[k].inputs, plan[j].form)
HandsOn(n) ==
  prev # Chain!NoInputs => \E k \in Chain!RunStepsBefore(n) : prev = results[k].inputs

ChainSoFar ==
  /\ at # "ended" => Len(results) = cur - 1
  /\ Len(results) <= Len(plan)
  /\ \A j \in 1..Len(results) :
       /\ results[j].index = j
       /\ j < Len(results) \/ at # "ended" =>
            results[j].outcome = "success" \/ plan[j].onFailure = "continue"
       /\ TakesOver(j)
  /\ HandsOn(Len(results) + 1)
  /\ final = "success" => Len(results) = Len(plan)

ChainInv == ChainShape /\ AtPlace /\ ChainSoFar /\ Chain!SignalledIsCancelled

\* The empty inputs, and what a step is given of those it may take over.
LEMMA InputsTyped ==
  /\ Chain!NoInputs \in Chain!Inputs
  /\ \A src \in Chain!Inputs, form \in SUBSET Fields :
       Chain!FilterByFormIDs(src, form) \in Chain!Inputs
  /\ \A D \in SUBSET Fields, n \in Nat : [f \in D |-> n] \in Chain!Inputs
<1>1. \A D \in SUBSET Fields, n \in Nat : [f \in D |-> n] \in Chain!Inputs
  BY DEF Chain!Inputs
<1>2. Chain!NoInputs \in Chain!Inputs
  BY <1>1 DEF Chain!NoInputs
<1>3. ASSUME NEW src \in Chain!Inputs, NEW form \in SUBSET Fields
      PROVE  Chain!FilterByFormIDs(src, form) \in Chain!Inputs
  <2>1. PICK D \in SUBSET Fields : src \in [D -> Nat]
    BY DEF Chain!Inputs
  <2>2. Chain!FilterByFormIDs(src, form) \in [D \cap form -> Nat]
    BY <2>1 DEF Chain!FilterByFormIDs
  <2> QED  BY <2>2 DEF Chain!Inputs
<1> QED  BY <1>1, <1>2, <1>3

LEMMA NothingTaken ==
  ASSUME NEW form \in SUBSET Fields
  PROVE  Chain!FilterByFormIDs(Chain!NoInputs, form) = Chain!NoInputs
BY DEF Chain!FilterByFormIDs, Chain!NoInputs

LEMMA ChainInit == Chain!Init => ChainInv
<1> SUFFICES ASSUME Chain!Init PROVE ChainInv
  OBVIOUS
<1>1. results = <<>> /\ usage = <<>> /\ Len(results) = 0 /\ Len(usage) = 0
  BY DEF Chain!Init
<1>2. plan \in Seq(Chain!StepKinds) /\ Len(plan) \in Nat
  BY ActionsAssumption DEF ActionsAssumption, Chain!PlansAssumption, Chain!Init
<1>3. ChainShape
  <2>1. <<>> \in Seq(StepResults) /\ <<>> \in Seq(Verdicts) /\ 1 \in 1..Len(plan) + 1
    BY <1>2
  <2> QED  BY <1>1, <1>2, <2>1, InputsTyped DEF Chain!Init, ChainShape, Places, StepResults
<1>4. AtPlace
  BY DEF Chain!Init, AtPlace
<1>5. ChainSoFar /\ Chain!SignalledIsCancelled
  BY <1>1, <1>2 DEF Chain!Init, ChainSoFar, HandsOn, Chain!SignalledIsCancelled
<1> QED  BY <1>3, <1>4, <1>5 DEF ChainInv

Told(records) == \E i \in 1..Len(records) : records[i] = "cancelled"

\* A step settled on an outcome that fits its place keeps the invariant.
LEMMA Settling ==
  ASSUME ChainInv, NEW outcome \in Verdicts, NEW records \in Seq(Verdicts),
         Chain!Settle(outcome, records), at \notin {"boundary", "ended"}, watcher' = "off",
         UNCHANGED <<plan, stopped, given, killed>>,
         killed => outcome = "cancelled", outcome = "cancelled" => stopped,
         killed \/ Told(usage) => Told(records),
         Chain!Step.from = "previous" =>
           given \in {Chain!NoInputs, Chain!FilterByFormIDs(prev, Chain!Step.form)}
  PROVE  ChainInv'
<1>1. /\ plan \in Seq(Chain!StepKinds) /\ Len(plan) \in Nat /\ cur \in 1..Len(plan) /\ cur \in Nat
      /\ Chain!Step = plan[cur] /\ Chain!Step \in Chain!StepKinds
      /\ results \in Seq(StepResults) /\ Len(results) = cur - 1
      /\ given \in Chain!Inputs /\ prev \in Chain!Inputs /\ killed \in BOOLEAN
  <2>1. /\ plan \in Seq(Chain!StepKinds) /\ cur \in 1..Len(plan) + 1 /\ cur <= Len(plan)
        /\ results \in Seq(StepResults) /\ Len(results) = cur - 1
        /\ given \in Chain!Inputs /\ prev \in Chain!Inputs /\ killed \in BOOLEAN
    BY DEF ChainInv, ChainShape, AtPlace, ChainSoFar, StepResults
  <2>2. Len(plan) \in Nat /\ cur \in 1..Len(plan) /\ cur \in Nat
    BY <2>1
  <2> QED  BY <2>1, <2>2, ElementOfSeq DEF Chain!Step
<1> DEFINE r == Chain!StepResult(outcome)
<1>2. /\ r \in StepResults
      /\ r.index = cur /\ r.inputs = given /\ r.outcome = outcome /\ r.killed = killed
  BY <1>1 DEF Chain!StepResult, StepResults
<1>3. results' = Append(results, r) /\ prev' = Chain!Carried(outcome)
  BY DEF Chain!Settle
<1> HIDE DEF r
<1>4. /\ results' \in Seq(StepResults) /\ Len(results') = cur /\ results'[cur] = r
      /\ \A j \in 1..cur - 1 : results'[j] = results[j]
  BY <1>1, <1>2, <1>3, AppendProperties
<1>5. \/ /\ at' = "ended" /\ final' = outcome /\ usage' = Append(records, outcome) /\ cur' = cur
         /\ outcome # "success" /\ plan[cur].onFailure = "abort"
      \/ /\ at' = "boundary" /\ final' = final /\ usage' = records /\ cur' = cur + 1
         /\ outcome = "success" \/ plan[cur].onFailure = "continue"
  <2>1. plan[cur].onFailure \in {"abort", "continue"}
    BY <1>1 DEF Chain!StepKinds, Chain!Confirm, Chain!RunStep
  <2> QED  BY <1>1, <2>1 DEF Chain!Settle, Chain!Aborts, Chain!Return
<1>6. /\ usage' \in Seq(Verdicts) /\ (killed \/ Told(usage) => Told(usage'))
  <2>1. CASE usage' = Append(records, outcome)
    <3>1. /\ usage' \in Seq(Verdicts) /\ Len(usage') = Len(records) + 1 /\ Len(records) \in Nat
          /\ \A i \in 1..Len(records) : usage'[i] = records[i]
      BY <2>1, AppendProperties
    <3> QED  BY <3>1 DEF Told
  <2> QED  BY <2>1, <1>5
<1>7. ChainShape'
  <2>1. prev' \in Chain!Inputs
    BY <1>1, <1>3 DEF Chain!Carried
  <2>2. cur' \in 1..Len(plan') + 1 /\ at' \in Places
    BY <1>1, <1>5 DEF Places
  <2> QED  BY <1>1, <1>4, <1>6, <2>1, <2>2 DEF ChainInv, ChainShape, StepResults
<1>8. AtPlace'
  BY <1>5 DEF ChainInv, AtPlace
<1>9. Chain!SignalledIsCancelled'
  <2>1. ASSUME NEW j \in 1..Len(results'), results'[j].killed
        PROVE  results'[j].outcome = "cancelled" /\ Told(usage')
    <3>1. CASE j = cur
      BY <2>1, <3>1, <1>2, <1>4, <1>6
    <3>2. CASE j # cur
      <4>1. j \in 1..Len(results) /\ results'[j] = results[j]
        BY <3>2, <1>1, <1>4
      <4> QED  BY <2>1, <4>1, <1>6 DEF ChainInv, Chain!SignalledIsCancelled, Told
    <3> QED  BY <3>1, <3>2
  <2>2. final' = "cancelled" => stopped'
    BY <1>5 DEF ChainInv, Chain!SignalledIsCancelled
  <2> QED  BY <2>1, <2>2 DEF Chain!SignalledIsCancelled, Told
<1>10. PICK c \in Nat : c = cur
  BY <1>1
<1>11. ASSUME NEW j \in 1..c
       PROVE  /\ Chain!RunStepsBefore(j)' = Chain!RunStepsBefore(j)
              /\ \A k \in Chain!RunStepsBefore(j) :
                   k \in 1..c - 1 /\ results'[k] = results[k]
  BY <1>1, <1>4, <1>10 DEF Chain!RunStepsBefore
<1>12. HandsOn(c + 1)'
  <2>1. CASE Chain!Step.kind = "run" /\ outcome = "success"
    <3>1. prev' = given /\ c \in Chain!RunStepsBefore(c + 1)'
      BY <2>1, <1>1, <1>3, <1>10 DEF Chain!Carried, Chain!RunStepsBefore
    <3> QED  BY <3>1, <1>2, <1>4, <1>10 DEF HandsOn
  <2>2. CASE ~(Chain!Step.kind = "run" /\ outcome = "success")
    <3>1. prev' = prev
      BY <2>2, <1>3 DEF Chain!Carried
    <3>2. SUFFICES ASSUME prev # Chain!NoInputs
                   PROVE  \E k \in Chain!RunStepsBefore(c + 1)' : prev' = results'[k].inputs
      BY <3>1 DEF HandsOn
    <3>3. PICK k \in Chain!RunStepsBefore(c) : prev = results[k].inputs
      BY <3>2, <1>1, <1>10 DEF ChainInv, ChainSoFar, HandsOn
    <3>4. k \in 1..c - 1 /\ results'[k] = results[k]
      BY <3>3, <1>1, <1>10, <1>11
    <3>5. k \in Chain!RunStepsBefore(c + 1)'
      BY <3>3, <3>4, <1>1, <1>10 DEF Chain!RunStepsBefore
    <3> QED  BY <3>1, <3>3, <3>4, <3>5
  <2> QED  BY <2>1, <2>2
<1>13. ASSUME NEW j \in 1..Len(results')
       PROVE  /\ results'[j].index = j
              /\ j < Len(results') \/ at' # "ended" =>
                   results'[j].outcome = "success" \/ plan'[j].onFailure = "continue"
              /\ TakesOver(j)'
  <2>1. CASE j = cur
    <3>1. results'[j].index = j /\ ~(j < Len(results'))
      BY <2>1, <1>1, <1>2, <1>4
    <3>2. at' # "ended" => results'[j].outcome = "success" \/ plan'[j].onFailure = "continue"
      BY <2>1, <1>2, <1>4, <1>5
    <3>3. ASSUME plan[j].from = "previous", given # Chain!NoInputs
          PROVE  \E k \in Chain!RunStepsBefore(j)' :
                   given = Chain!FilterByFormIDs(results'[k].inputs, plan[j].form)
      <4>1. given = Chain!FilterByFormIDs(prev, plan[j].form)
        BY <3>3, <2>1, <1>1
      <4>2. plan[j].form \in SUBSET Fields
        BY <2>1, <1>1 DEF Chain!StepKinds, Chain!Confirm, Chain!RunStep
      <4>3. prev # Chain!NoInputs
        BY <3>3, <4>1, <4>2, NothingTaken
      <4>4. PICK k \in Chain!RunStepsBefore(c) : prev = results[k].inputs
        BY <4>3, <1>1, <1>10 DEF ChainInv, ChainSoFar, HandsOn
      <4>5. k \in Chain!RunStepsBefore(c)' /\ results'[k] = results[k]
        BY <4>4, <1>1, <1>10, <1>11
      <4> QED  BY <4>1, <4>4, <4>5, <2>1, <1>10
    <3>4. TakesOver(j)'
      BY <3>3, <2>1, <1>2, <1>4 DEF TakesOver
    <3> QED  BY <3>1, <3>2, <3>4
  <2>2. CASE j # cur
    <3>1. j \in 1..c - 1 /\ j \in 1..c /\ j \in 1..Len(results) /\ results'[j] = results[j]
      BY <2>2, <1>1, <1>4, <1>10
    <3>2. /\ results[j].index = j
          /\ results[j].outcome = "success" \/ plan[j].onFailure = "continue"
          /\ TakesOver(j)
      BY <3>1, <1>10 DEF ChainInv, ChainSoFar
    <3>3. TakesOver(j)'
      BY <3>1, <3>2, <1>11 DEF TakesOver
    <3> QED  BY <3>1, <3>2, <3>3
  <2> QED  BY <2>1, <2>2
<1>14. final' # "success"
  BY <1>5 DEF ChainInv, AtPlace
<1>15. ChainSoFar'
  <2>1. at' # "ended" => Len(results') = cur' - 1
    BY <1>1, <1>4, <1>5
  <2>2. Len(results') <= Len(plan') /\ Len(results') + 1 = c + 1
    BY <1>1, <1>4, <1>10
  <2> QED  BY <2>1, <2>2, <1>12, <1>13, <1>14 DEF ChainSoFar
<1> QED  BY <1>7, <1>8, <1>9, <1>15 DEF ChainInv

\* The four places a step is settled from.
LEMMA SettleAt ==
  ASSUME ChainInv, NEW outcome \in Verdicts, NEW records, Chain!Settle(outcome, records),
         UNCHANGED <<plan, stopped, given, Chain!scriptVars>>,
         at \in {"await", "inputs", "launch", "check"},
         records = usage \/ (records = Append(usage, outcome) /\ at \in {"launch", "check"}),
         at = "await" => Chain!Step.kind = "confirm",
         outcome = "cancelled" => stopped,
         at = "check" => outcome \in Chain!Outcomes(stopped) /\ records = Append(usage, outcome)
  PROVE  ChainInv'
<1>1. usage \in Seq(Verdicts) /\ Len(usage) \in Nat
  BY DEF ChainInv, ChainShape
<1>2. records \in Seq(Verdicts) /\ (Told(usage) => Told(records))
      /\ (records = Append(usage, "cancelled") => Told(records))
  <2>1. Append(usage, outcome) \in Seq(Verdicts)
        /\ Len(Append(usage, outcome)) = Len(usage) + 1
        /\ Append(usage, outcome)[Len(usage) + 1] = outcome
        /\ \A i \in 1..Len(usage) : Append(usage, outcome)[i] = usage[i]
    BY <1>1, AppendProperties
  <2> QED  BY <1>1, <2>1 DEF Told
<1>3. at \notin {"boundary", "ended"} /\ watcher' = "off" /\ UNCHANGED killed
  BY DEF Chain!scriptVars, ChainInv, AtPlace
<1>4. killed => outcome = "cancelled" /\ Told(records)
  BY <1>2 DEF ChainInv, AtPlace, Chain!Outcomes
<1>5. Chain!Step.from = "previous" =>
        given \in {Chain!NoInputs, Chain!FilterByFormIDs(prev, Chain!Step.form)}
  BY DEF ChainInv, AtPlace
<1> QED  BY <1>2, <1>3, <1>4, <1>5, Settling

LEMMA ChainStep == ASSUME ChainInv, [Chain!Next]_Chain!vars PROVE ChainInv'
<1>1. /\ plan \in Seq(Chain!StepKinds) /\ Len(plan) \in Nat /\ cur \in 1..Len(plan) + 1
      /\ at \in Places /\ given \in Chain!Inputs /\ prev \in Chain!Inputs /\ usage \in Seq(Verdicts) /\ Len(usage) \in Nat
      /\ (at \notin {"boundary", "ended"} => cur \in 1..Len(plan))
  BY DEF ChainInv, ChainShape, AtPlace
<1>2. ASSUME Chain!Cancel \/ Chain!ScriptExits \/ Chain!ChildExits \/ Chain!Terminate \/ Chain!Kill
             \/ UNCHANGED Chain!vars
      PROVE  ChainInv'
  <2>1. UNCHANGED <<plan, cur, at, given, prev, results, final, usage>>
    BY <1>2 DEF Chain!Cancel, Chain!ScriptExits, Chain!ChildExits, Chain!Terminate, Chain!Kill,
                Chain!vars, Chain!frame
  <2>2. stopped => stopped'
    BY <1>2 DEF Chain!Cancel, Chain!ScriptExits, Chain!ChildExits, Chain!Terminate, Chain!Kill,
                Chain!vars, Chain!frame
  <2>3. /\ stopped' \in BOOLEAN /\ killed' \in BOOLEAN
        /\ watcher' # "off" => at = "wait"
        /\ at \in {"await", "inputs", "launch"} => ~killed'
        /\ at \in {"wait", "check"} /\ killed' => stopped'
    <3>1. CASE Chain!Terminate
      <4>1. at = "wait" /\ stopped /\ stopped' = stopped /\ killed' = (script = "running")
        BY <3>1 DEF Chain!Terminate, Chain!frame, ChainInv, AtPlace
      <4> QED  BY <4>1 DEF ChainInv, ChainShape
    <3>2. CASE ~Chain!Terminate
      <4>1. /\ UNCHANGED killed /\ (UNCHANGED watcher \/ watcher' = "off")
            /\ UNCHANGED stopped \/ stopped' = TRUE
        BY <1>2, <3>2 DEF Chain!Cancel, Chain!ScriptExits, Chain!ChildExits, Chain!Kill,
                          Chain!vars, Chain!frame, Chain!scriptVars
      <4>2. /\ killed' \in BOOLEAN /\ stopped' \in BOOLEAN /\ (watcher' # "off" => at = "wait")
        BY <4>1 DEF ChainInv, ChainShape, AtPlace
      <4>3. /\ at \in {"await", "inputs", "launch"} => ~killed
            /\ at \in {"wait", "check"} /\ killed => stopped
        BY DEF ChainInv, AtPlace
      <4>4. (killed' <=> killed) /\ (stopped => stopped')
        BY <4>1
      <4> QED  BY <4>2, <4>3, <4>4
    <3> QED  BY <3>1, <3>2
  <2>4. ChainShape' /\ AtPlace'
    BY <2>1, <2>3 DEF ChainInv, ChainShape, AtPlace, Chain!Step
  <2>5. ChainSoFar' /\ Chain!SignalledIsCancelled'
    BY <2>1, <2>2 DEF ChainInv, ChainSoFar, Chain!SignalledIsCancelled, TakesOver,
                      HandsOn, Chain!RunStepsBefore
  <2> QED  BY <2>4, <2>5 DEF ChainInv
<1>3. CASE Chain!Boundary
  <2>1. /\ at = "boundary" /\ UNCHANGED <<plan, cur, stopped, prev, results, watcher>>
        /\ given' = Chain!NoInputs /\ killed' = FALSE
    BY <1>3 DEF Chain!Boundary
  <2>2. \/ at' = "ended" /\ final' \in {"success", "cancelled"} /\ usage' = Append(usage, final')
           /\ (final' = "cancelled" => stopped) /\ (final' = "success" => cur > Len(plan))
        \/ cur <= Len(plan) /\ Chain!Step.kind = "confirm" /\ at' = "await"
           /\ UNCHANGED <<final, usage>>
        \/ cur <= Len(plan) /\ Chain!Step.kind # "confirm" /\ at' = "inputs"
           /\ UNCHANGED <<final, usage>>
    BY <1>1, <1>3 DEF Chain!Boundary, Chain!Return
  <2>3. usage' \in Seq(Verdicts) /\ (Told(usage) => Told(usage'))
    <3>1. CASE usage' = Append(usage, final') /\ final' \in Verdicts
      <4>1. /\ usage' \in Seq(Verdicts) /\ Len(usage') = Len(usage) + 1
            /\ \A i \in 1..Len(usage) : usage'[i] = usage[i]
        BY <1>1, <3>1, AppendProperties
      <4> QED  BY <1>1, <4>1 DEF Told
    <3> QED  BY <1>1, <2>2, <3>1 DEF Verdicts
  <2>4. ChainShape'
    BY <2>1, <2>2, <2>3, InputsTyped DEF ChainInv, ChainShape, Places
  <2>5. AtPlace'
    <3>1. cur \in 1..Len(plan) /\ Chain!Step.kind # "confirm" => Chain!Step.kind = "run"
      <4>1. SUFFICES ASSUME cur \in 1..Len(plan) PROVE Chain!Step \in Chain!StepKinds
        BY DEF Chain!StepKinds, Chain!Confirm, Chain!RunStep
      <4> QED  BY <1>1, <4>1, ElementOfSeq DEF Chain!Step
    <3>2. watcher = "off"
      BY <2>1 DEF ChainInv, AtPlace
    <3> QED  BY <1>1, <2>1, <2>2, <3>1, <3>2 DEF ChainInv, AtPlace, Chain!Step
  <2>6. ChainSoFar'
    <3>1. Len(results) = cur - 1 /\ Len(results) <= Len(plan) /\ final = "none"
      BY <2>1 DEF ChainInv, ChainSoFar, AtPlace
    <3>2. final' = "success" => Len(results) = Len(plan)
      BY <1>1, <2>2, <3>1
    <3> QED  BY <2>1, <2>2, <3>1, <3>2 DEF ChainInv, ChainSoFar, TakesOver, HandsOn, Chain!RunStepsBefore
  <2>7. Chain!SignalledIsCancelled'
    BY <2>1, <2>2, <2>3 DEF ChainInv, Chain!SignalledIsCancelled, Told
  <2> QED  BY <2>4, <2>5, <2>6, <2>7 DEF ChainInv
<1>4. CASE Chain!Await
  <2>1. at = "await" /\ Chain!Step.kind = "confirm"
    BY <1>4 DEF Chain!Await, ChainInv, AtPlace
  <2>2. UNCHANGED <<plan, stopped, given, Chain!scriptVars>>
    BY <1>4 DEF Chain!Await
  <2>3. CASE Chain!Settle("success", usage)
    BY <2>1, <2>2, <2>3, SettleAt DEF Verdicts
  <2>4. CASE Chain!Settle("failed", usage)
    BY <2>1, <2>2, <2>4, SettleAt DEF Verdicts
  <2> QED  BY <1>4, <2>3, <2>4 DEF Chain!Await
<1>5. CASE Chain!Interrupted
  <2>1. /\ at \in {"await", "inputs"} /\ stopped /\ Chain!Settle("cancelled", usage)
        /\ UNCHANGED <<plan, stopped, given, Chain!scriptVars>>
    BY <1>5 DEF Chain!Interrupted
  <2>2. at = "await" => Chain!Step.kind = "confirm"
    BY DEF ChainInv, AtPlace
  <2> QED  BY <2>1, <2>2, SettleAt DEF Verdicts
<1>6. CASE Chain!ResolveInputs
  <2>1. CASE Chain!Settle("failed", usage) /\ UNCHANGED given
    BY <1>6, <2>1, SettleAt DEF Chain!ResolveInputs, Verdicts
  <2>2. CASE /\ given' = Chain!Resolved
             /\ at' = "launch" /\ UNCHANGED <<cur, prev, results, final, usage>>
    <3>1. at = "inputs" /\ UNCHANGED <<plan, stopped, watcher, killed, Chain!Step>>
      BY <1>6, <2>2 DEF Chain!ResolveInputs, Chain!scriptVars, Chain!Step
    <3>2. Chain!Step \in Chain!RunStep
      BY <1>1, <3>1, ElementOfSeq DEF ChainInv, AtPlace, Chain!Step, Chain!StepKinds, Chain!Confirm
    <3>3. /\ Chain!Resolved \in Chain!Inputs
          /\ Chain!Step.from = "previous" =>
               Chain!Resolved = Chain!FilterByFormIDs(prev, Chain!Step.form)
      <4>1. Chain!Step.form \in SUBSET Fields /\ cur \in Nat
            /\ Chain!Step.from \in {"prompt", "shared", "previous", "static"}
        BY <1>1, <3>2 DEF Chain!RunStep
      <4>2. CASE Chain!Step.from = "prompt"
        BY <4>1, <4>2, InputsTyped DEF Chain!Resolved
      <4>3. CASE Chain!Step.from = "shared"
        BY <4>1, <4>3, InputsTyped DEF Chain!Resolved
      <4>4. CASE Chain!Step.from = "previous"
        BY <1>1, <4>1, <4>4, InputsTyped DEF Chain!Resolved
      <4>5. CASE Chain!Step.from = "static"
        BY <4>1, <4>5, InputsTyped DEF Chain!Resolved
      <4> QED  BY <4>1, <4>2, <4>3, <4>4, <4>5
    <3>4. ChainShape' /\ AtPlace'
      BY <1>1, <2>2, <3>1, <3>3 DEF ChainInv, ChainShape, AtPlace, Places
    <3>5. ChainSoFar' /\ Chain!SignalledIsCancelled'
      BY <2>2, <3>1 DEF ChainInv, ChainSoFar, Chain!SignalledIsCancelled, TakesOver, HandsOn,
                        Chain!RunStepsBefore
    <3> QED  BY <3>4, <3>5 DEF ChainInv
  <2> QED  BY <1>6, <2>1, <2>2 DEF Chain!ResolveInputs
<1>7. CASE Chain!LaunchFails
  BY <1>7, SettleAt DEF Chain!LaunchFails, Verdicts
<1>8. CASE Chain!Launch \/ Chain!Wait
  <2>1. /\ at \in {"launch", "wait"} /\ at' \in {"wait", "check"} /\ watcher' \in {"watch", "off"}
        /\ (at' = "check" => watcher' = "off") /\ (at = "launch" => at' = "wait")
        /\ UNCHANGED <<plan, cur, stopped, given, prev, results, final, killed, usage>>
    BY <1>8 DEF Chain!Launch, Chain!Wait
  <2>2. ChainShape' /\ AtPlace'
    BY <2>1 DEF ChainInv, ChainShape, AtPlace, Places, Chain!Step
  <2>3. ChainSoFar' /\ Chain!SignalledIsCancelled'
    BY <2>1 DEF ChainInv, ChainSoFar, Chain!SignalledIsCancelled, TakesOver, HandsOn,
                Chain!RunStepsBefore
  <2> QED  BY <2>2, <2>3 DEF ChainInv
<1>9. CASE Chain!Check
  <2>1. PICK outcome \in Chain!Outcomes(stopped) :
          Chain!Settle(outcome, Append(usage, outcome))
    BY <1>9 DEF Chain!Check
  <2>2. outcome \in Verdicts /\ (outcome = "cancelled" => stopped)
    BY DEF Chain!Outcomes, Verdicts
  <2>3. at = "check" /\ UNCHANGED <<plan, stopped, given, Chain!scriptVars>>
    BY <1>9 DEF Chain!Check
  <2> QED  BY <2>1, <2>2, <2>3, SettleAt
<1> QED
  BY <1>2, <1>3, <1>4, <1>5, <1>6, <1>7, <1>8, <1>9 DEF Chain!Next, Chain!Run

LEMMA ChainInvariance == Chain!Spec => []ChainInv
BY ChainInit, ChainStep, PTL DEF Chain!Spec

\* Whatever the chain, what fails in it and whenever it is cancelled: the results
\* are those of its first steps, all but the last of which succeeded or may fail; a
\* chain that is a success went through all its steps; and what a step takes over is
\* what one earlier step was given, of the fields its own form declares
\* (composite/runner.go:304-361, steps.go:56-70).
THEOREM ChainsKeepPolicy == Chain!Spec => []ChainKeepsItsPolicy
<1>1. ChainInv => ChainKeepsItsPolicy
  BY DEF ChainInv, ChainSoFar, TakesOver, ChainKeepsItsPolicy, Chain!ChainKeepsItsPolicy
<1> QED  BY ChainInvariance, <1>1, PTL

\* A script that was signalled while it ran is never reported as one that came to
\* its end (shell/runner.go:247-261, dispatch.go:148-162).
THEOREM SignalledAreCancelled == Chain!Spec => []SignalledIsCancelled
<1>1. ChainInv => SignalledIsCancelled
  BY DEF ChainInv, SignalledIsCancelled
<1> QED  BY ChainInvariance, <1>1, PTL

-----------------------------------------------------------------------------
(* The cancelling of a stack, reported on the bus: CancelStream *)

Event == [kind : {"started", "done"}, status : Bus!Status \cup {""},
          action : {"", "noop", "delete_stack", "cancel_update_stack"}, err : BOOLEAN]

\* What s has received and what waits for it.
Heard(s) == received[s] \o chan[s].events
Begun == Bus!Started(IF saw \in {"missing", "error"} THEN "" ELSE saw)
Ended == Bus!Done(called.action, called.err)
Once(q) == \A i, j \in 1..Len(q) : q[i] = q[j] => i = j

BusShape ==
  /\ stack \in Bus!Status /\ stage \in {"describe", "started", "done", "closed"}
  /\ saw \in Bus!Answers \cup {""}
  /\ called \in [action : {"noop", "delete_stack", "cancel_update_stack"}, err : BOOLEAN]
  /\ report \in Event
  /\ waiting \in Seq(Subscribers) /\ streams \in Seq(Subscribers) /\ early \subseteq Subscribers
  /\ chan \in [Subscribers -> [events : Seq(Event), closed : BOOLEAN]]
  /\ received \in [Subscribers -> Seq(Event)]

\* The event being published is still to be sent to s.
Due(s) == s \in Bus!Range(waiting)

HeardRight(s) ==
  /\ stage = "describe" => Heard(s) = <<>>
  /\ stage = "started" => Heard(s) = IF s \in early /\ ~Due(s) THEN <<Begun>> ELSE <<>>
  /\ stage = "done" =>
       /\ s \in early => Heard(s) = IF Due(s) THEN <<Begun>> ELSE <<Begun, Ended>>
       /\ s \notin early => Heard(s) \in {<<>>, <<Ended>>} /\ (Due(s) => Heard(s) = <<>>)
  /\ chan[s].closed =>
       /\ stage = "closed"
       /\ IF s \in early THEN Heard(s) = <<Begun, Ended>> ELSE Heard(s) \in {<<>>, <<Ended>>}

BusInv ==
  /\ BusShape /\ Once(waiting) /\ Once(streams)
  /\ stage = "describe" => early = Bus!Range(streams)
  /\ stage \in {"started", "done"} =>
       /\ report = IF stage = "started" THEN Begun ELSE Ended
       /\ early \subseteq Bus!Range(streams)
  /\ stage = "started" => Bus!Range(waiting) \subseteq early
  /\ stage = "started" \/ stage = "done" \/ waiting = <<>>
  /\ called.action = "delete_stack" => saw = "CREATE_IN_PROGRESS" /\ stage \in {"done", "closed"}
  /\ \A s \in Subscribers : HeardRight(s)

\* Joining a queue one is not in, and leaving it at its head.
LEMMA JoinsOnce ==
  ASSUME NEW S, NEW q \in Seq(S), NEW x \in S, x \notin Bus!Range(q), Once(q)
  PROVE  /\ Append(q, x) \in Seq(S) /\ Once(Append(q, x))
         /\ Bus!Range(Append(q, x)) = Bus!Range(q) \cup {x}
<1>1. /\ Append(q, x) \in Seq(S) /\ Len(Append(q, x)) = Len(q) + 1 /\ Len(q) \in Nat
      /\ \A i \in 1..Len(q) : Append(q, x)[i] = q[i]
      /\ Append(q, x)[Len(q) + 1] = x /\ DOMAIN q = 1..Len(q)
      /\ DOMAIN Append(q, x) = 1..Len(q) + 1
  BY AppendProperties
<1>2. \A i \in 1..Len(q) : q[i] # x
  BY <1>1 DEF Bus!Range
<1> QED  BY <1>1, <1>2 DEF Once, Bus!Range

LEMMA LeavesOnce ==
  ASSUME NEW S, NEW q \in Seq(S), q # <<>>, Once(q)
  PROVE  /\ Tail(q) \in Seq(S) /\ Once(Tail(q)) /\ Head(q) \in S
         /\ Head(q) \in Bus!Range(q) /\ Bus!Range(Tail(q)) = Bus!Range(q) \ {Head(q)}
<1>1. /\ Tail(q) \in Seq(S) /\ Len(Tail(q)) = Len(q) - 1 /\ Len(q) \in Nat \ {0}
      /\ \A i \in 1..Len(q) - 1 : Tail(q)[i] = q[i + 1]
      /\ Head(q) = q[1] /\ DOMAIN q = 1..Len(q) /\ DOMAIN Tail(q) = 1..Len(q) - 1
  BY HeadTailProperties, EmptySeq, LenProperties
<1>2. Once(Tail(q))
  BY <1>1 DEF Once
<1>3. Bus!Range(Tail(q)) \subseteq Bus!Range(q) \ {Head(q)}
  BY <1>1 DEF Bus!Range, Once
<1>4. ASSUME NEW y \in Bus!Range(q) \ {Head(q)} PROVE y \in Bus!Range(Tail(q))
  <2>1. PICK i \in 1..Len(q) : y = q[i]
    BY <1>1 DEF Bus!Range
  <2>2. i - 1 \in 1..Len(q) - 1 /\ Tail(q)[i - 1] = y
    BY <1>1, <2>1
  <2> QED  BY <1>1, <2>2 DEF Bus!Range
<1>5. Head(q) \in Bus!Range(q) /\ Head(q) \in S
  BY <1>1, ElementOfSeq DEF Bus!Range
<1> QED  BY <1>1, <1>2, <1>3, <1>4, <1>5

LEMMA NothingOnce == Once(<<>>) /\ Bus!Range(<<>>) = {}
<1>1. <<>> \in Seq({}) /\ Len(<<>>) = 0
  BY EmptySeq
<1>2. DOMAIN <<>> = {}
  BY <1>1, LenProperties
<1> QED  BY <1>1, <1>2 DEF Once, Bus!Range

LEMMA ShortLogs ==
  ASSUME NEW x, NEW y
  PROVE  Append(<<>>, x) = <<x>> /\ Append(<<x>>, y) = <<x, y>>
<1> DEFINE S == {x, y}
<1>1. /\ <<>> \in Seq(S) /\ <<x>> \in Seq(S) /\ <<x, y>> \in Seq(S)
      /\ Len(<<>>) = 0 /\ Len(<<x>>) = 1 /\ Len(<<x, y>>) = 2
  OBVIOUS
<1>2. Append(<<>>, x) = <<x>>
  BY <1>1, AppendProperties, SeqEqual
<1>3. Append(<<x>>, y) = <<x, y>>
  <2>1. Append(<<x>>, y) \in Seq(S) /\ Len(Append(<<x>>, y)) = 2
        /\ Append(<<x>>, y)[1] = x /\ Append(<<x>>, y)[2] = y
    BY <1>1, AppendProperties
  <2>2. <<x, y>>[1] = x /\ <<x, y>>[2] = y
    OBVIOUS
  <2>3. \A i \in 1..2 : Append(<<x>>, y)[i] = <<x, y>>[i]
    <3>1. \A i \in 1..2 : i = 1 \/ i = 2
      OBVIOUS
    <3> QED  BY <2>1, <2>2, <3>1
  <2> HIDE DEF S
  <2> QED  BY <1>1, <2>1, <2>3, SeqEqual
<1> QED  BY <1>2, <1>3

\* What moves from one queue to the next stays where it was in both together.
LEMMA PassesOn ==
  ASSUME NEW S, NEW g \in Seq(S), NEW e \in Seq(S)
  PROVE  /\ \A x \in S : g \o Append(e, x) = Append(g \o e, x)
         /\ e # <<>> => Append(g, Head(e)) \o Tail(e) = g \o e
<1>1. ASSUME NEW x \in S PROVE g \o Append(e, x) = Append(g \o e, x)
  <2>1. Append(e, x) = e \o <<x>> /\ <<x>> \in Seq(S) /\ g \o e \in Seq(S)
    BY AppendIsConcat, ConcatProperties
  <2> QED  BY <2>1, AppendIsConcat, ConcatAssociative
<1>2. ASSUME e # <<>> PROVE Append(g, Head(e)) \o Tail(e) = g \o e
  <2>1. Head(e) \in S /\ Tail(e) \in Seq(S) /\ <<Head(e)>> \in Seq(S)
    BY <1>2, HeadTailProperties
  <2>2. <<Head(e)>> \o Tail(e) = e
    BY <1>2, <2>1, ConcatProperties, HeadTailProperties, LenProperties, SeqEqual
  <2> QED  BY <2>1, <2>2, AppendIsConcat, ConcatAssociative
<1> QED  BY <1>1, <1>2

LEMMA BusInit == Bus!Init => BusInv
<1> SUFFICES ASSUME Bus!Init PROVE BusInv
  OBVIOUS
<1>1. <<>> \in Seq(Subscribers) /\ <<>> \in Seq(Event) /\ Len(<<>>) = 0
  OBVIOUS
<1>2. BusShape
  BY <1>1 DEF Bus!Init, BusShape, Bus!NoEvent, Bus!Started, Event
<1>3. Once(waiting) /\ Once(streams) /\ Bus!Range(streams) = {}
  <2>1. Once(<<>>) /\ Bus!Range(<<>>) = {}
    BY NothingOnce
  <2> QED  BY <2>1 DEF Bus!Init
<1>4. ASSUME NEW s \in Subscribers PROVE HeardRight(s)
  <2>1. Heard(s) = <<>>
    BY <1>1, ConcatEmptySeq DEF Bus!Init, Heard
  <2> QED  BY <2>1 DEF Bus!Init, HeardRight
<1> QED  BY <1>2, <1>3, <1>4 DEF Bus!Init, BusInv

\* A step that leaves to each subscriber what he has received.
LEMMA HeardFrame ==
  ASSUME BusInv, UNCHANGED <<stage, saw, called, waiting, early>>, NEW s \in Subscribers,
         UNCHANGED Heard(s), chan'[s].closed = chan[s].closed
  PROVE  HeardRight(s)'
BY DEF BusInv, HeardRight, Begun, Ended, Due

LEMMA BusStep == ASSUME BusInv, [Bus!Next]_Bus!vars PROVE BusInv'
<1>1. /\ waiting \in Seq(Subscribers) /\ streams \in Seq(Subscribers) /\ early \subseteq Subscribers
      /\ Once(waiting) /\ Once(streams)
      /\ chan \in [Subscribers -> [events : Seq(Event), closed : BOOLEAN]]
      /\ received \in [Subscribers -> Seq(Event)] /\ report \in Event
  BY DEF BusInv, BusShape
<1>2. \A s \in Subscribers : /\ chan[s].events \in Seq(Event) /\ chan[s].closed \in BOOLEAN
                             /\ received[s] \in Seq(Event)
  BY <1>1
<1>3. CASE Bus!StackSettles \/ UNCHANGED Bus!vars
  <2>1. UNCHANGED <<stage, saw, called, report, waiting, streams, chan, received, early>>
    BY <1>3 DEF Bus!StackSettles, Bus!producer, Bus!vars
  <2>2. BusShape'
    BY <1>3, <2>1 DEF BusInv, BusShape, Bus!StackSettles, Bus!vars, Bus!Status
  <2> QED  BY <2>1, <2>2 DEF BusInv, HeardRight, Heard, Begun, Ended, Due
<1>4. ASSUME NEW s \in Subscribers, Bus!Subscribe(s) PROVE BusInv'
  <2>1. /\ s \notin Bus!Range(streams) /\ streams' = Append(streams, s)
        /\ early' = IF stage = "describe" THEN early \cup {s} ELSE early
        /\ UNCHANGED <<stage, saw, called, report, waiting, chan, received>>
    BY <1>4 DEF Bus!Subscribe, Bus!producer
  <2>6. early' \subseteq Subscribers /\ UNCHANGED stack
    BY <1>1, <1>4, <2>1 DEF Bus!Subscribe
  <2>2. /\ streams' \in Seq(Subscribers) /\ Once(streams')
        /\ Bus!Range(streams)' = Bus!Range(streams) \cup {s}
    BY <1>1, <2>1, JoinsOnce
  <2>3. BusShape'
    BY <2>1, <2>2, <2>6 DEF BusInv, BusShape
  <2>4. /\ stage = "describe" => early' = Bus!Range(streams)'
        /\ stage \in {"started", "done"} => early' = early /\ early' \subseteq Bus!Range(streams)'
        /\ stage # "describe" => early' = early
    BY <2>1, <2>2 DEF BusInv
  <2>5. ASSUME NEW u \in Subscribers PROVE HeardRight(u)'
    BY <2>1, <2>4 DEF BusInv, HeardRight, Heard, Begun, Ended, Due
  <2> QED  BY <1>1, <2>1, <2>2, <2>3, <2>4, <2>5 DEF BusInv, Begun, Ended
<1>5. ASSUME NEW s \in Subscribers, Bus!Receive(s) PROVE BusInv'
  <2>1. /\ chan[s].events # <<>>
        /\ received' = [received EXCEPT ![s] = Append(@, Head(chan[s].events))]
        /\ chan' = [chan EXCEPT ![s].events = Tail(@)]
        /\ UNCHANGED <<stack, stage, saw, called, report, waiting, streams, early>>
    BY <1>5 DEF Bus!Receive, Bus!producer
  <2>2. Head(chan[s].events) \in Event /\ Tail(chan[s].events) \in Seq(Event)
    BY <1>2, <2>1, HeadTailProperties
  <2>3. Append(received[s], Head(chan[s].events)) \in Seq(Event)
    BY <1>2, <2>2, AppendProperties
  <2>4. BusShape'
    <3>1. received' \in [Subscribers -> Seq(Event)]
      BY <1>1, <2>1, <2>3
    <3>2. chan' \in [Subscribers -> [events : Seq(Event), closed : BOOLEAN]]
      BY <1>1, <2>1, <2>2
    <3> QED  BY <2>1, <3>1, <3>2 DEF BusInv, BusShape
  <2>5. ASSUME NEW u \in Subscribers PROVE HeardRight(u)'
    <3>1. Heard(s)' = Heard(s)
      <4>1. /\ received'[s] = Append(received[s], Head(chan[s].events))
            /\ chan'[s].events = Tail(chan[s].events)
        BY <1>1, <2>1
      <4>2. Append(received[s], Head(chan[s].events)) \o Tail(chan[s].events)
              = received[s] \o chan[s].events
        BY <1>2, <2>1, PassesOn
      <4> QED  BY <4>1, <4>2 DEF Heard
    <3>2. u # s => Heard(u)' = Heard(u)
      BY <1>1, <2>1 DEF Heard
    <3>3. chan'[u].closed = chan[u].closed
      BY <1>1, <2>1
    <3> QED  BY <3>1, <3>2, <3>3, <2>1, HeardFrame
  <2> QED  BY <2>1, <2>4, <2>5 DEF BusInv, Begun, Ended
<1>6. CASE Bus!Describe
  <2>1. /\ stage = "describe" /\ stage' = "started" /\ saw' \in Bus!Answers /\ waiting' = streams
        /\ report' = Begun' /\ UNCHANGED <<stack, called, streams, chan, received, early>>
    BY <1>6 DEF Bus!Describe, Bus!Publish, Begun, Bus!Answers, BusInv, BusShape
  <2>2. report' \in Event
    BY <2>1 DEF Begun, Bus!Started, Event, Bus!Answers
  <2>3. BusShape'
    BY <2>1, <2>2 DEF BusInv, BusShape
  <2>4. early = Bus!Range(streams) /\ Bus!Range(waiting)' = Bus!Range(streams)
    BY <2>1 DEF BusInv
  <2>5. ASSUME NEW s \in Subscribers PROVE HeardRight(s)'
    <3>1. Heard(s)' = <<>> /\ ~chan'[s].closed /\ (s \in early => Due(s)')
      BY <2>1, <2>4 DEF BusInv, HeardRight, Heard, Due
    <3> QED  BY <3>1, <2>1 DEF HeardRight
  <2> QED  BY <1>1, <2>1, <2>3, <2>4, <2>5 DEF BusInv
<1>7. CASE Bus!Deliver
  <2>1. PICK h : h = Head(waiting)
    OBVIOUS
  <2>2. /\ waiting # <<>> /\ waiting' = Tail(waiting)
        /\ chan' = [chan EXCEPT ![h].events = Append(@, report)]
        /\ UNCHANGED <<stack, stage, saw, called, report, streams, received, early>>
    BY <1>7, <2>1 DEF Bus!Deliver
  <2>3. /\ waiting' \in Seq(Subscribers) /\ Once(waiting') /\ h \in Subscribers
        /\ h \in Bus!Range(waiting) /\ Bus!Range(waiting)' = Bus!Range(waiting) \ {h}
    BY <1>1, <2>1, <2>2, LeavesOnce
  <2>4. Append(chan[h].events, report) \in Seq(Event)
    BY <1>1, <1>2, <2>3, AppendProperties
  <2>5. BusShape'
    BY <1>1, <2>2, <2>3, <2>4 DEF BusInv, BusShape
  <2>6. stage \in {"started", "done"} /\ report = IF stage = "started" THEN Begun ELSE Ended
    BY <2>2 DEF BusInv
  <2>7. HeardRight(h)'
    <3>1. Heard(h)' = Append(Heard(h), report)
      <4>1. received'[h] = received[h] /\ chan'[h].events = Append(chan[h].events, report)
        BY <1>1, <2>2, <2>3
      <4> QED  BY <4>1, <1>1, <1>2, <2>3, PassesOn DEF Heard
    <3>2. Due(h) /\ ~Due(h)' /\ UNCHANGED <<Begun, Ended>>
      BY <2>2, <2>3 DEF Due, Begun, Ended
    <3>3. chan'[h].closed = chan[h].closed /\ ~chan[h].closed
      BY <1>1, <2>2, <2>3, <2>6 DEF BusInv, HeardRight
    <3>6. \A x, y : Append(<<>>, x) = <<x>> /\ Append(<<x>>, y) = <<x, y>>
      BY ShortLogs
    <3>4. CASE stage = "started"
      <4>1. h \in early /\ Heard(h) = <<>> /\ Heard(h)' = <<Begun>>
        BY <3>1, <3>2, <3>4, <3>6, <2>3, <2>6 DEF BusInv, HeardRight
      <4> QED  BY <4>1, <3>2, <3>3, <3>4, <2>2 DEF HeardRight
    <3>5. CASE stage = "done"
      <4>1. h \in early => Heard(h) = <<Begun>> /\ Heard(h)' = <<Begun, Ended>>
        BY <3>1, <3>2, <3>5, <3>6, <2>3, <2>6 DEF BusInv, HeardRight
      <4>2. h \notin early => Heard(h) = <<>> /\ Heard(h)' = <<Ended>>
        BY <3>1, <3>2, <3>5, <3>6, <2>3, <2>6 DEF BusInv, HeardRight
      <4> QED  BY <4>1, <4>2, <3>2, <3>3, <3>5, <2>2 DEF HeardRight
    <3> QED  BY <2>6, <3>4, <3>5
  <2>8. ASSUME NEW s \in Subscribers \ {h} PROVE HeardRight(s)'
    <3>1. /\ Heard(s)' = Heard(s) /\ chan'[s].closed = chan[s].closed /\ (Due(s)' <=> Due(s))
          /\ UNCHANGED <<Begun, Ended>>
      BY <1>1, <2>2, <2>3 DEF Heard, Due, Begun, Ended
    <3>2. HeardRight(s)
      BY DEF BusInv
    <3> QED  BY <3>1, <3>2, <2>2 DEF HeardRight
  <2>9. stage = "started" => Bus!Range(waiting)' \subseteq early'
    BY <2>2, <2>3 DEF BusInv
  <2> QED  BY <1>1, <2>2, <2>3, <2>5, <2>6, <2>7, <2>8, <2>9 DEF BusInv, Begun, Ended
<1>8. CASE Bus!Call
  <2>1. PICK refused \in BOOLEAN, err \in BOOLEAN :
          /\ called' = [action |-> Bus!Action(saw), err |-> err]
          /\ stack' \in {"missing", stack} /\ report' = Bus!Done(Bus!Action(saw), err)
    BY <1>8 DEF Bus!Call, Bus!Publish
  <2>2. /\ stage = "started" /\ waiting = <<>> /\ waiting' = streams /\ stage' = "done"
        /\ UNCHANGED <<saw, streams, chan, received, early>>
    BY <1>8 DEF Bus!Call, Bus!Publish
  <2>3. /\ Bus!Action(saw) \in {"noop", "delete_stack", "cancel_update_stack"}
        /\ Bus!Action(saw) = "delete_stack" => saw = "CREATE_IN_PROGRESS"
    BY DEF Bus!Action
  <2>4. report' = Ended' /\ report' \in Event /\ UNCHANGED Begun
    BY <2>1, <2>2, <2>3 DEF Ended, Begun, Bus!Done, Event
  <2>5. BusShape'
    BY <2>1, <2>2, <2>3, <2>4 DEF BusInv, BusShape, Bus!Status
  <2>6. /\ early \subseteq Bus!Range(streams) /\ Bus!Range(waiting) = {}
        /\ Bus!Range(waiting)' = Bus!Range(streams)
    BY <2>2 DEF BusInv, Bus!Range
  <2>7. ASSUME NEW s \in Subscribers PROVE HeardRight(s)'
    <3>1. /\ Heard(s)' = Heard(s) /\ ~chan'[s].closed /\ (s \in early => Due(s)')
          /\ Heard(s) = IF s \in early THEN <<Begun>> ELSE <<>>
      BY <2>2, <2>6 DEF BusInv, HeardRight, Heard, Due
    <3> QED  BY <3>1, <2>2, <2>4 DEF HeardRight
  <2>8. called'.action = Bus!Action(saw)
    BY <2>1
  <2> QED  BY <1>1, <2>2, <2>3, <2>4, <2>5, <2>6, <2>7, <2>8 DEF BusInv
<1>9. CASE Bus!Close
  <2>1. /\ stage = "done" /\ waiting = <<>> /\ stage' = "closed" /\ streams' = <<>>
        /\ chan' = [s \in Subscribers |-> IF s \in Bus!Range(streams)
                                        THEN [chan[s] EXCEPT !.closed = TRUE] ELSE chan[s]]
        /\ UNCHANGED <<stack, saw, called, report, waiting, received, early>>
    BY <1>9 DEF Bus!Close
  <2>2. BusShape'
    BY <1>1, <1>2, <2>1 DEF BusInv, BusShape
  <2>3. Once(streams') /\ Bus!Range(waiting) = {}
    BY <2>1 DEF Once, Bus!Range
  <2>4. ASSUME NEW s \in Subscribers PROVE HeardRight(s)'
    <3>1. Heard(s)' = Heard(s) /\ UNCHANGED <<Begun, Ended>>
      BY <1>1, <2>1 DEF Heard, Begun, Ended
    <3>2. IF s \in early THEN Heard(s) = <<Begun, Ended>> ELSE Heard(s) \in {<<>>, <<Ended>>}
      BY <2>1, <2>3 DEF BusInv, HeardRight, Due
    <3> QED  BY <3>1, <3>2, <2>1 DEF HeardRight
  <2> QED  BY <1>1, <2>1, <2>2, <2>3, <2>4 DEF BusInv
<1> QED
  BY <1>3, <1>4, <1>5, <1>6, <1>7, <1>8, <1>9 DEF Bus!Next

\* For any number of subscribers and any capacity: who listened from the start hears
\* that the cancelling started and how it ended, once each and as it was; a later one
\* the rest of it; and an update is never answered with a deletion (cancel.go:69-116).
THEOREM CancelsAreReported == Bus!Spec => []CancelIsReported
<1>1. BusInv => CancelIsReported
  <2> SUFFICES ASSUME BusInv, NEW s \in Subscribers, chan[s].closed
               PROVE  Heard(s) = IF s \in early THEN <<Begun, Ended>>
                                 ELSE IF Heard(s) = <<>> THEN <<>> ELSE <<Ended>>
    BY DEF BusInv, CancelIsReported, Bus!CancelIsReported, Heard, Begun, Ended
  <2> QED  BY DEF BusInv, HeardRight
<1> QED  BY BusInit, BusStep, <1>1, PTL DEF Bus!Spec
=============================================================================
