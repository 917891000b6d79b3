------------------------------ MODULE AuditProofs ------------------------------
(***************************************************************************)
(* Proofs about Audit.  The first part is about AuditScan, for any         *)
(* scanners, pages, caps and capacity of the channel: Gathered says which  *)
(* of its rows a scanner holds at every point of its pages and rows,       *)
(* Recorded what the pool has of it, HasSaid what it said last, wherever   *)
(* on the way to the caller that event is.  The second is about Enrich,    *)
(* for any ages and any price list: Sound is what every composer owes the  *)
(* row it judges, Told and Heeded are how far a row fits the resource.     *)
(***************************************************************************)
EXTENDS Audit, SequenceTheorems, TLAPS

Over == {"skipped", "ended"}
Places == {"idle", "wait", "call", "rowwait", "rowcall", "closing", "failing"} \cup Over

Shape ==
  /\ ctx \in {"live", "done"}
  /\ next \in 1..Len(Order) + 1
  /\ pc \in [Kinds -> Places]
  /\ page \in [Kinds -> Nat]
  /\ item \in [Kinds -> [row : Nat, call : {1, 2}]]
  /\ out \in [Kinds -> SUBSET Rows]
  /\ outbox \in [Kinds -> Seq(Types)]
  /\ events \in Seq(Kinds \X Types)
  /\ heard \in [Kinds -> Types \cup {"nothing"}]

\* The pool's loop has dealt with the scanners it is past.
Dealt == \A i \in 1..Len(Order) : i < next <=> pc[Order[i]] # "idle"

PagesRead(k) == UNION {Range(Pages[k][p]) : p \in 1..page[k] - 1}
RowsSettled(k) == {Pages[k][1][i] : i \in 1..item[k].row - 1}

Gathered(k) ==
  /\ page[k] \in 1..Len(Pages[k])
  /\ pc[k] \in {"idle", "wait", "call"} => item[k].row = 1 /\ out[k] = PagesRead(k)
  /\ pc[k] \in {"rowwait", "rowcall"} =>
       /\ k \in PerRow
       /\ item[k].row \in 1..Len(Pages[k][1])
       /\ out[k] = RowsSettled(k)
  /\ pc[k] = "closing" => out[k] = RowsOf(k)

Recorded(k) ==
  /\ k \in errs => pc[k] \in Over
  /\ pc[k] = "skipped" => k \in errs
  /\ RowsOf(k) \cap resources = IF pc[k] = "ended" /\ k \notin errs THEN RowsOf(k) ELSE {}

\* The last of a scanner's events in the channel.
IsLast(k, i) == events[i][1] = k /\ \A j \in i + 1..Len(events) : events[j][1] # k

HasSaid(k, e) ==
  /\ outbox[k] # <<>> => outbox[k][Len(outbox[k])] = e
  /\ outbox[k] = <<>> => \A i \in 1..Len(events) : IsLast(k, i) => events[i][2] = e
  /\ outbox[k] = <<>> /\ (\A i \in 1..Len(events) : events[i][1] # k) => heard[k] = e

Conclusion(k) == IF pc[k] = "failing" \/ k \in errs THEN "error" ELSE "done"

Heard(k) ==
  ctx = "live" =>
    /\ pc[k] # "skipped"
    /\ pc[k] \in {"closing", "failing", "ended"} => HasSaid(k, Conclusion(k))

ScannerInv(k) == Gathered(k) /\ Recorded(k) /\ Heard(k)

Collected == result => \A k \in Kinds : pc[k] \in Over /\ outbox[k] = <<>>

Caller ==
  /\ reader \in {"applying", "saved"} => result /\ events = <<>>
  /\ reader \notin {"applying", "saved"} => enriching = {} /\ enriched = {}
  /\ enriching \cap enriched = {}
  /\ enriching \cup enriched \subseteq resources

Warned == ctx = "live" => unsure \subseteq warned

IInv ==
  /\ Shape /\ Dealt /\ Collected /\ Caller /\ Warned
  /\ \A k \in Kinds : ScannerInv(k)

-----------------------------------------------------------------------------
(* What is given *)

LEMMA Given ==
  ASSUME NEW k \in Kinds
  PROVE  /\ Pages[k] \in Seq(Seq(RowsOf(k))) /\ Len(Pages[k]) \in Nat /\ Len(Pages[k]) > 0
         /\ \A p \in 1..Len(Pages[k]) :
              Pages[k][p] \in Seq(RowsOf(k)) /\ Range(Pages[k][p]) \subseteq RowsOf(k)
         /\ RowsOf(k) \subseteq Rows
         /\ k \in PerRow => Len(Pages[k]) = 1
<1>1. Pages[k] \in Seq(Seq(RowsOf(k))) /\ Len(Pages[k]) > 0
  BY ScanAssumption DEF ScanAssumption
<1>2. Len(Pages[k]) \in Nat /\ DOMAIN Pages[k] = 1..Len(Pages[k])
  BY <1>1, LenProperties
<1>3. ASSUME NEW p \in 1..Len(Pages[k])
      PROVE  Pages[k][p] \in Seq(RowsOf(k)) /\ Range(Pages[k][p]) \subseteq RowsOf(k)
  <2>1. Pages[k][p] \in Seq(RowsOf(k))
    BY <1>1, <1>3, ElementOfSeq
  <2> QED
    BY <1>2, <1>3, <2>1 DEF RowsOf
<1> QED
  BY <1>1, <1>2, <1>3, ScanAssumption DEF ScanAssumption, Rows

LEMMA Registered ==
  /\ Len(Order) \in Nat
  /\ \A i \in 1..Len(Order) : Order[i] \in Kinds
  /\ \A i, j \in 1..Len(Order) : Order[i] = Order[j] => i = j
  /\ \A k \in Kinds : \E i \in 1..Len(Order) : Order[i] = k
<1>1. Order \in Seq(Kinds) /\ IsInjective(Order)
  BY ScanAssumption DEF ScanAssumption, Kinds
<1>2. Len(Order) \in Nat /\ DOMAIN Order = 1..Len(Order)
  BY <1>1, LenProperties
<1>3. \A i \in 1..Len(Order) : Order[i] \in Kinds
  BY <1>2 DEF Kinds, Range
<1>4. \A k \in Kinds : \E i \in 1..Len(Order) : Order[i] = k
  BY <1>2 DEF Kinds, Range
<1> QED
  BY <1>1, <1>2, <1>3, <1>4 DEF IsInjective

LEMMA FirstAndRest ==
  ASSUME NEW S, NEW s \in Seq(S), s # <<>>
  PROVE  /\ Head(s) \in S /\ Head(s) = s[1]
         /\ Tail(s) \in Seq(S) /\ Len(Tail(s)) = Len(s) - 1
         /\ \A i \in 1..Len(Tail(s)) : Tail(s)[i] = s[i + 1]
         /\ Len(s) \in Nat \ {0}
<1>1. Head(s) = s[1]
  OBVIOUS
<1> QED
  BY <1>1, HeadTailProperties, EmptySeq

\* No row is of two kinds.
LEMMA RowsApart ==
  ASSUME NEW k \in Kinds, NEW j \in Kinds, j # k
  PROVE  RowsOf(j) \cap RowsOf(k) = {}
BY ScanAssumption DEF ScanAssumption

LEMMA InitIInv == Init => IInv
<1> SUFFICES ASSUME Init PROVE IInv
  OBVIOUS
<1> USE DEF Init
<1>1. Shape
  <2>1. 1 \in 1..Len(Order) + 1
    BY Registered
  <2>2. <<>> \in Seq(Types) /\ <<>> \in Seq(Kinds \X Types)
    OBVIOUS
  <2> QED
    BY <2>1, <2>2 DEF Shape, Places, Over
<1>2. Dealt
  BY Registered DEF Dealt
<1>3. Collected /\ Caller /\ Warned
  BY DEF Collected, Caller, Warned
<1>4. ASSUME NEW k \in Kinds PROVE ScannerInv(k)
  <2>1. 1 \in 1..Len(Pages[k]) /\ PagesRead(k) = {}
    BY Given DEF PagesRead
  <2> QED
    BY <2>1 DEF ScannerInv, Gathered, Recorded, Heard, Over
<1> QED
  BY <1>1, <1>2, <1>3, <1>4 DEF IInv

-----------------------------------------------------------------------------
(* Scanners that do not move *)

Unmoved(j) ==
  /\ pc'[j] = pc[j] /\ page'[j] = page[j] /\ item'[j] = item[j] /\ out'[j] = out[j]
  /\ j \in errs' <=> j \in errs
  /\ RowsOf(j) \cap resources' = RowsOf(j) \cap resources
  /\ ctx' = "live" => ctx = "live" /\ \A e \in Types : HasSaid(j, e) => HasSaid(j, e)'

LEMMA UnmovedKeeps ==
  ASSUME NEW j \in Kinds, ScannerInv(j), Unmoved(j)
  PROVE  ScannerInv(j)'
<1>1. Gathered(j)'
  BY DEF ScannerInv, Unmoved, Gathered, PagesRead, RowsSettled
<1>2. Recorded(j)'
  BY DEF ScannerInv, Unmoved, Recorded
<1>3. Heard(j)'
  <2>1. Conclusion(j) \in Types /\ Conclusion(j)' = Conclusion(j)
    BY DEF Conclusion, Types, Unmoved
  <2>2. PICK e \in Types : e = Conclusion(j)
    BY <2>1
  <2>3. ctx' = "live" /\ HasSaid(j, e) => HasSaid(j, e)'
    BY DEF Unmoved
  <2> QED
    BY <2>1, <2>2, <2>3 DEF ScannerInv, Heard, Unmoved
<1> QED
  BY <1>1, <1>2, <1>3 DEF ScannerInv

\* Where a scanner's events are, nothing is added or taken away.
LEMMA SaidStands ==
  ASSUME NEW j \in Kinds, NEW e, UNCHANGED events, heard'[j] = heard[j],
         outbox'[j] = outbox[j], HasSaid(j, e)
  PROVE  HasSaid(j, e)'
BY DEF HasSaid, IsLast

\* An event moves to the channel and from there to the caller in its turn: what a
\* scanner said last is the last event of it on that way, or the last one heard.
LEMMA SendKeeps ==
  ASSUME Shape, NEW k \in Kinds, Send(k), NEW j \in Kinds
  PROVE  /\ outbox' \in [Kinds -> Seq(Types)] /\ events' \in Seq(Kinds \X Types)
         /\ \A e \in Types : HasSaid(j, e) => HasSaid(j, e)'
<1>1. outbox[k] \in Seq(Types) /\ outbox[k] # <<>>
  BY DEF Send, Shape
<1>a. PICK hd \in Types : hd = Head(outbox[k])
  BY <1>1, FirstAndRest
<1>b. PICK tl \in Seq(Types) : tl = Tail(outbox[k])
  BY <1>1, FirstAndRest
<1>2. /\ hd = outbox[k][1]
      /\ Len(tl) = Len(outbox[k]) - 1
      /\ \A i \in 1..Len(tl) : tl[i] = outbox[k][i + 1]
  BY <1>1, <1>a, <1>b, FirstAndRest
<1>3. Len(outbox[k]) \in Nat \ {0}
  BY <1>1, EmptySeq
<1>4. /\ outbox' = [outbox EXCEPT ![k] = tl] /\ heard' = heard
      /\ events' = Append(events, <<k, hd>>)
  BY <1>a, <1>b DEF Send, readerVars
<1>5. PICK x \in Kinds \X Types : x = <<k, hd>>
  OBVIOUS
<1>50. x[1] = k /\ x[2] = hd
  BY <1>5
<1>6. events \in Seq(Kinds \X Types) /\ Len(events) \in Nat
  BY LenProperties DEF Shape
<1>7. /\ events' \in Seq(Kinds \X Types) /\ Len(events') = Len(events) + 1
      /\ \A i \in 1..Len(events) : events'[i] = events[i]
      /\ events'[Len(events) + 1] = x
  BY <1>4, <1>5, <1>6, AppendProperties
<1>8. outbox' \in [Kinds -> Seq(Types)]
  BY <1>4 DEF Shape
<1>9. ASSUME NEW e \in Types, HasSaid(j, e) PROVE HasSaid(j, e)'
  <2>1. CASE j # k
    <3>1. outbox'[j] = outbox[j] /\ heard'[j] = heard[j]
      BY <1>4, <2>1 DEF Shape
    <3>2. ASSUME NEW i \in 1..Len(events'), IsLast(j, i)'
          PROVE  i \in 1..Len(events) /\ IsLast(j, i) /\ events'[i] = events[i]
      <4>1. Len(events) + 1 \in 1..Len(events') /\ x[1] # j
        BY <1>6, <1>7, <1>50, <2>1
      <4>2. i # Len(events) + 1
        BY <1>7, <3>2, <4>1 DEF IsLast
      <4>3. i \in 1..Len(events) /\ events'[i] = events[i]
        BY <1>6, <1>7, <3>2, <4>2
      <4>4. \A n \in i + 1..Len(events) : n \in i + 1..Len(events') /\ events'[n] = events[n]
        BY <1>6, <1>7, <4>3
      <4> QED
        BY <3>2, <4>3, <4>4 DEF IsLast
    <3>3. (\A i \in 1..Len(events') : events'[i][1] # j) =>
            \A i \in 1..Len(events) : events[i][1] # j
      BY <1>6, <1>7
    <3> QED
      BY <1>9, <3>1, <3>2, <3>3 DEF HasSaid
  <2>2. CASE j = k
    <3>1. outbox'[j] = tl
      BY <1>4, <2>2 DEF Shape
    <3>2. CASE tl # <<>>
      <4>1. Len(tl) \in Nat \ {0}
        BY <3>2, EmptySeq
      <4>2. tl[Len(tl)] = outbox[k][Len(outbox[k])]
        <5>1. Len(tl) \in 1..Len(tl)
          BY <4>1
        <5>2. tl[Len(tl)] = outbox[k][Len(tl) + 1]
          BY <1>2, <5>1
        <5>3. Len(tl) + 1 = Len(outbox[k])
          BY <1>2, <1>3
        <5> QED
          BY <5>2, <5>3
      <4> QED
        BY <1>1, <1>9, <2>2, <3>1, <3>2, <4>2 DEF HasSaid
    <3>3. CASE tl = <<>>
      <4>0. Len(tl) = 0
        BY <3>3
      <4>1. Len(outbox[k]) = 1 /\ hd = e
        BY <1>1, <1>2, <1>3, <1>9, <2>2, <4>0 DEF HasSaid
      <4>2. \A i \in 1..Len(events') : IsLast(j, i)' => i = Len(events) + 1
        <5> SUFFICES ASSUME NEW i \in 1..Len(events'), IsLast(j, i)', i # Len(events) + 1
                     PROVE  FALSE
          OBVIOUS
        <5>1. Len(events) + 1 \in i + 1..Len(events')
          BY <1>6, <1>7
        <5> QED
          BY <1>7, <1>50, <2>2, <5>1 DEF IsLast
      <4>3. Len(events) + 1 \in 1..Len(events') /\ events'[Len(events) + 1][1] = j
        BY <1>50, <1>6, <1>7, <2>2
      <4> QED
        BY <1>50, <1>7, <3>1, <3>3, <4>1, <4>2, <4>3 DEF HasSaid
    <3> QED
      BY <3>2, <3>3
  <2> QED
    BY <2>1, <2>2
<1> QED
  BY <1>7, <1>8, <1>9

LEMMA DrainKeeps ==
  ASSUME Shape, Drain, NEW j \in Kinds
  PROVE  /\ heard' \in [Kinds -> Types \cup {"nothing"}] /\ events' \in Seq(Kinds \X Types)
         /\ \A e \in Types : HasSaid(j, e) => HasSaid(j, e)'
<1>1. events \in Seq(Kinds \X Types) /\ events # <<>>
  BY DEF Drain, Shape
<1>a. PICK hd \in Kinds \X Types : hd = Head(events)
  BY <1>1, FirstAndRest
<1>b. PICK tl \in Seq(Kinds \X Types) : tl = Tail(events)
  BY <1>1, FirstAndRest
<1>2. /\ hd = events[1]
      /\ Len(tl) = Len(events) - 1
      /\ \A i \in 1..Len(tl) : tl[i] = events[i + 1]
  BY <1>1, <1>a, <1>b, FirstAndRest
<1>3. Len(events) \in Nat \ {0}
  BY <1>1, EmptySeq
<1>4. outbox' = outbox /\ events' = tl /\ heard' = [heard EXCEPT ![hd[1]] = hd[2]]
  BY <1>a, <1>b DEF Drain
<1>5. hd[1] \in Kinds /\ hd[2] \in Types
  BY <1>2
<1>6. heard' \in [Kinds -> Types \cup {"nothing"}]
  BY <1>4, <1>5 DEF Shape
<1>7. ASSUME NEW e \in Types, HasSaid(j, e) PROVE HasSaid(j, e)'
  <2>1. ASSUME NEW i \in 1..Len(tl), IsLast(j, i)'
        PROVE  i + 1 \in 1..Len(events) /\ IsLast(j, i + 1) /\ tl[i] = events[i + 1]
    <3>1. i + 1 \in 1..Len(events) /\ tl[i] = events[i + 1]
      BY <1>2, <1>3, <2>1
    <3>2. ASSUME NEW n \in (i + 1) + 1..Len(events) PROVE events[n][1] # j
      <4>1. n - 1 \in i + 1..Len(tl) /\ n - 1 \in 1..Len(tl) /\ (n - 1) + 1 = n
        BY <1>2, <1>3, <3>2
      <4>2. tl[n - 1] = events[n]
        BY <1>2, <4>1
      <4> QED
        BY <1>4, <2>1, <4>1, <4>2 DEF IsLast
    <3> QED
      BY <1>4, <2>1, <3>1, <3>2 DEF IsLast
  <2>2. outbox[j] = <<>> /\ (\A i \in 1..Len(tl) : tl[i][1] # j) => heard'[j] = e
    <3> SUFFICES ASSUME outbox[j] = <<>>, \A i \in 1..Len(tl) : tl[i][1] # j
                 PROVE  heard'[j] = e
      OBVIOUS
    <3>1. \A n \in 2..Len(events) : events[n][1] # j
      <4> SUFFICES ASSUME NEW n \in 2..Len(events) PROVE events[n][1] # j
        OBVIOUS
      <4>1. n - 1 \in 1..Len(tl) /\ (n - 1) + 1 = n
        BY <1>2, <1>3
      <4> QED
        BY <1>2, <4>1
    <3>2. CASE hd[1] = j
      <4>1. 1 \in 1..Len(events) /\ IsLast(j, 1)
        BY <1>2, <1>3, <3>1, <3>2 DEF IsLast
      <4>2. events[1][2] = e
        BY <1>7, <4>1 DEF HasSaid
      <4> QED
        BY <1>2, <1>4, <3>2, <4>2 DEF Shape
    <3>3. CASE hd[1] # j
      <4>1. \A i \in 1..Len(events) : events[i][1] # j
        BY <1>2, <1>3, <3>1, <3>3
      <4>2. heard[j] = e
        BY <1>7, <4>1 DEF HasSaid
      <4> QED
        BY <1>4, <3>3, <4>2 DEF Shape
    <3> QED
      BY <3>2, <3>3
  <2>3. outbox[j] = <<>> => \A i \in 1..Len(tl) : IsLast(j, i)' => tl[i][2] = e
    BY <1>7, <2>1 DEF HasSaid
  <2>4. outbox'[j] # <<>> => outbox'[j][Len(outbox'[j])] = e
    BY <1>4, <1>7 DEF HasSaid
  <2> QED
    BY <1>4, <2>2, <2>3, <2>4 DEF HasSaid
<1> QED
  BY <1>4, <1>6, <1>7

-----------------------------------------------------------------------------
(* A scanner's step *)

\* It is at work, its turn was to speak no more; where it goes it is not idle.
LEMMA ScanMoves ==
  ASSUME Shape, NEW k \in Kinds, Scan(k)
  PROVE  /\ pc[k] \notin Over \cup {"idle"} /\ outbox[k] = <<>>
         /\ \E where \in Places \ {"idle"} : pc' = [pc EXCEPT ![k] = where]
         /\ UNCHANGED <<ctx, next, result, events, readerVars>>
<1> USE DEF At, GoTo, Over, Places, Shape
<1>1. CASE Throttle(k)
  BY <1>1 DEF Throttle, poolVars
<1>2. CASE PageArrives(k)
  BY <1>2 DEF PageArrives, poolVars
<1>3. CASE PageFails(k)
  BY <1>3 DEF PageFails, poolVars
<1>4. CASE RowThrottle(k)
  BY <1>4 DEF RowThrottle, RowSettled, poolVars
<1>5. CASE RowAnswered(k)
  BY <1>5 DEF RowAnswered, RowSettled, poolVars
<1>6. CASE RowFails(k)
  BY <1>6 DEF RowFails, RowSettled, poolVars
<1>7. CASE Finish(k)
  BY <1>7 DEF Finish
<1>8. CASE Fail(k)
  BY <1>8 DEF Fail
<1> QED
  BY <1>1, <1>2, <1>3, <1>4, <1>5, <1>6, <1>7, <1>8 DEF Scan

\* What it does to the pages, rows and events is its own business.
LEMMA ScanIsOwn ==
  ASSUME Shape, NEW k \in Kinds, Scan(k)
  PROVE  /\ page' = page \/ page' = [page EXCEPT ![k] = @ + 1]
         /\ \/ item' = item
            \/ item' = [item EXCEPT ![k].call = 2]
            \/ item' = [item EXCEPT ![k] = [row |-> @.row + 1, call |-> 1]]
         /\ \/ out' = out
            \/ /\ pc[k] = "call"
               /\ out' = [out EXCEPT ![k] = @ \cup Range(Pages[k][page[k]])]
            \/ /\ pc[k] \in {"rowwait", "rowcall"}
               /\ out' = [out EXCEPT ![k] = @ \cup {RowOf(k)}]
         /\ outbox' = outbox \/ \E said \in Seq(Types) : outbox' = [outbox EXCEPT ![k] = said]
         /\ \/ errs' = errs /\ resources' = resources
            \/ errs' = errs \cup {k} /\ resources' = resources
            \/ pc[k] = "closing" /\ errs' = errs /\ resources' = resources \cup out[k]
         /\ unsure' = unsure \/ ctx = "done" \/ (unsure' \ unsure) \subseteq warned'
         /\ warned \subseteq warned'
<1> USE DEF At, Tell, scannerVars, poolVars
<1>0. /\ <<>> \in Seq(Types) /\ <<"error">> \in Seq(Types) /\ <<"progress">> \in Seq(Types)
      /\ <<"done">> \in Seq(Types) /\ <<"progress", "done">> \in Seq(Types)
      /\ <<"warn">> \in Seq(Types)
  BY DEF Types
<1>1. CASE Throttle(k)
  BY <1>0, <1>1 DEF Throttle
<1>2. CASE PageArrives(k)
  BY <1>0, <1>2 DEF PageArrives
<1>3. CASE PageFails(k)
  BY <1>0, <1>3 DEF PageFails
<1>4. \A said \in {<<>>, <<"warn">>} : RowSettled(k, said) =>
        /\ \/ item' = [item EXCEPT ![k].call = 2]
           \/ item' = [item EXCEPT ![k] = [row |-> @.row + 1, call |-> 1]]
        /\ out' = out \/ out' = [out EXCEPT ![k] = @ \cup {RowOf(k)}]
        /\ \E told \in Seq(Types) : outbox' = [outbox EXCEPT ![k] = told]
  <2> SUFFICES ASSUME NEW said \in {<<>>, <<"warn">>}, RowSettled(k, said)
               PROVE  /\ \/ item' = [item EXCEPT ![k].call = 2]
                         \/ item' = [item EXCEPT ![k] = [row |-> @.row + 1, call |-> 1]]
                      /\ out' = out \/ out' = [out EXCEPT ![k] = @ \cup {RowOf(k)}]
                      /\ \E told \in Seq(Types) : outbox' = [outbox EXCEPT ![k] = told]
    OBVIOUS
  <2>1. /\ said \in Seq(Types)
        /\ said \o <<"progress", "done">> \in Seq(Types) /\ said \o <<"progress">> \in Seq(Types)
    BY <1>0, ConcatProperties
  <2>2. CASE item[k].call = 1
    BY <2>1, <2>2 DEF RowSettled
  <2>3. CASE item[k].call # 1 /\ LastRow(k)
    BY <2>1, <2>3 DEF RowSettled
  <2>4. CASE item[k].call # 1 /\ ~LastRow(k)
    BY <2>1, <2>4 DEF RowSettled
  <2> QED
    BY <2>2, <2>3, <2>4
<1>5. CASE RowThrottle(k)
  BY <1>4, <1>5 DEF RowThrottle, GiveUp
<1>6. CASE RowAnswered(k)
  BY <1>4, <1>6 DEF RowAnswered
<1>7. CASE RowFails(k)
  BY <1>4, <1>7 DEF RowFails
<1>8. CASE Finish(k)
  BY <1>8 DEF Finish
<1>9. CASE Fail(k)
  BY <1>9 DEF Fail
<1> QED
  BY <1>1, <1>2, <1>3, <1>5, <1>6, <1>7, <1>8, <1>9 DEF Scan

LEMMA ScanShape ==
  ASSUME Shape, NEW k \in Kinds, ScannerInv(k), Scan(k)
  PROVE  Shape'
<1>0. /\ next \in 1..Len(Order) + 1 /\ ctx \in {"live", "done"}
      /\ pc \in [Kinds -> Places] /\ page \in [Kinds -> Nat]
      /\ item \in [Kinds -> [row : Nat, call : {1, 2}]]
      /\ out \in [Kinds -> SUBSET Rows] /\ outbox \in [Kinds -> Seq(Types)]
  BY DEF Shape
<1>a. UNCHANGED <<ctx, next, events, heard>>
  BY ScanMoves DEF readerVars
<1>b. PICK where \in Places : pc' = [pc EXCEPT ![k] = where]
  BY ScanMoves
<1>1. /\ UNCHANGED <<ctx, next, events, heard>>
      /\ pc' \in [Kinds -> Places]
  BY <1>0, <1>a, <1>b
<1>2. page' \in [Kinds -> Nat]
  <2>1. page' = page \/ page' = [page EXCEPT ![k] = @ + 1]
    BY ScanIsOwn
  <2>2. page \in [Kinds -> Nat] /\ page[k] + 1 \in Nat
    BY <1>0
  <2> QED
    BY <2>1, <2>2
<1>3. item[k] \in [row : Nat, call : {1, 2}]
  BY <1>0
<1>4. \A one \in [row : Nat, call : {1, 2}] :
        [item EXCEPT ![k] = one] \in [Kinds -> [row : Nat, call : {1, 2}]]
  BY <1>0
<1>5. item' \in [Kinds -> [row : Nat, call : {1, 2}]]
  <2>1. CASE item' = item
    BY <1>0, <2>1
  <2>2. CASE item' = [item EXCEPT ![k].call = 2]
    <3>1. PICK one : one = [item[k] EXCEPT !.call = 2]
      OBVIOUS
    <3>2. one \in [row : Nat, call : {1, 2}]
      BY <1>3, <3>1
    <3>3. item' = [item EXCEPT ![k] = one]
      BY <2>2, <3>1
    <3> QED
      BY <1>4, <3>2, <3>3
  <2>3. CASE item' = [item EXCEPT ![k] = [row |-> @.row + 1, call |-> 1]]
    <3>1. PICK one : one = [row |-> item[k].row + 1, call |-> 1]
      OBVIOUS
    <3>2. one \in [row : Nat, call : {1, 2}]
      BY <1>3, <3>1
    <3>3. item' = [item EXCEPT ![k] = one]
      BY <2>3, <3>1
    <3> QED
      BY <1>4, <3>2, <3>3
  <2> QED
    BY <2>1, <2>2, <2>3, ScanIsOwn
<1>6. outbox' \in [Kinds -> Seq(Types)]
  <2>1. outbox' = outbox \/ \E said \in Seq(Types) : outbox' = [outbox EXCEPT ![k] = said]
    BY ScanIsOwn
  <2> QED
    BY <1>0, <2>1
<1>7. out' \in [Kinds -> SUBSET Rows]
  <2>1. \A more \in SUBSET Rows : [out EXCEPT ![k] = @ \cup more] \in [Kinds -> SUBSET Rows]
    BY <1>0
  <2>2. CASE out' = out
    BY <1>0, <2>2
  <2>3. CASE out' = [out EXCEPT ![k] = @ \cup Range(Pages[k][page[k]])]
    <3>1. Range(Pages[k][page[k]]) \in SUBSET Rows
      BY Given DEF ScannerInv, Gathered
    <3> QED
      BY <2>1, <2>3, <3>1
  <2>4. CASE /\ pc[k] \in {"rowwait", "rowcall"}
             /\ out' = [out EXCEPT ![k] = @ \cup {RowOf(k)}]
    <3>1. 1 \in 1..Len(Pages[k]) /\ item[k].row \in 1..Len(Pages[k][1])
      BY <2>4, Given DEF ScannerInv, Gathered
    <3>2. RowOf(k) \in RowsOf(k)
      BY <3>1, Given, ElementOfSeq DEF RowOf
    <3>3. {RowOf(k)} \in SUBSET Rows
      BY <3>2, Given
    <3> QED
      BY <2>1, <2>4, <3>3
  <2> QED
    BY <2>2, <2>3, <2>4, ScanIsOwn
<1> QED
  BY <1>0, <1>1, <1>2, <1>5, <1>6, <1>7 DEF Shape

LEMMA PageAdded ==
  ASSUME NEW k \in Kinds, page[k] \in 1..Len(Pages[k]), page'[k] = page[k] + 1
  PROVE  PagesRead(k)' = PagesRead(k) \cup Range(Pages[k][page[k]])
<1>1. page[k] \in Nat /\ page[k] >= 1
  BY Given
<1>2. 1..page'[k] - 1 = (1..page[k] - 1) \cup {page[k]}
  BY <1>1
<1> QED
  BY <1>2 DEF PagesRead

LEMMA RowAdded ==
  ASSUME NEW k \in Kinds, item[k].row \in Nat \ {0}, item'[k].row = item[k].row + 1
  PROVE  RowsSettled(k)' = RowsSettled(k) \cup {RowOf(k)}
<1>1. 1..item'[k].row - 1 = (1..item[k].row - 1) \cup {item[k].row}
  OBVIOUS
<1> QED
  BY <1>1 DEF RowsSettled, RowOf

LEMMA AllPagesRead ==
  ASSUME NEW k \in Kinds, NEW n \in Nat, n = Len(Pages[k])
  PROVE  UNION {Range(Pages[k][p]) : p \in 1..n} = RowsOf(k)
<1>1. DOMAIN Pages[k] = 1..Len(Pages[k])
  BY Given, LenProperties
<1> QED
  BY <1>1 DEF RowsOf

LEMMA AllRowsSettled ==
  ASSUME NEW k \in PerRow, k \in Kinds, NEW n \in Nat, n = Len(Pages[k][1])
  PROVE  {Pages[k][1][i] : i \in 1..n} = RowsOf(k)
<1>1. DOMAIN Pages[k] = 1..1 /\ Pages[k][1] \in Seq(RowsOf(k))
  BY Given, LenProperties
<1>2. DOMAIN Pages[k][1] = 1..n
  BY <1>1, LenProperties
<1>3. RowsOf(k) = Range(Pages[k][1])
  BY <1>1 DEF RowsOf
<1> QED
  BY <1>2, <1>3 DEF Range

LEMMA Spoken ==
  ASSUME NEW k \in Kinds, NEW said, outbox'[k] = said,
         said # <<>>, NEW e, said[Len(said)] = e
  PROVE  HasSaid(k, e)'
BY DEF HasSaid

\* A row is done with, and the scanner goes on to the next or closes.
LEMMA RowStep ==
  ASSUME Shape, NEW k \in Kinds, ScannerInv(k), pc[k] \in {"rowwait", "rowcall"},
         NEW said \in {<<>>, <<"warn">>}, RowSettled(k, said), UNCHANGED page
  PROVE  /\ Gathered(k)' /\ pc'[k] \in {"rowwait", "closing"}
         /\ pc'[k] = "closing" => HasSaid(k, "done")'
<1>1. /\ k \in PerRow /\ item[k].row \in 1..Len(Pages[k][1]) /\ out[k] = RowsSettled(k)
      /\ page[k] \in 1..Len(Pages[k])
  BY DEF ScannerInv, Gathered
<1>2. Len(Pages[k][1]) \in Nat
  BY <1>1, Given, LenProperties
<1>3. item[k] \in [row : Nat, call : {1, 2}] /\ pc \in [Kinds -> Places]
      /\ item = [j \in Kinds |-> item[j]] /\ out = [j \in Kinds |-> out[j]]
      /\ outbox = [j \in Kinds |-> outbox[j]]
  BY DEF Shape
<1>4. CASE item[k].call = 1
  <2>1. /\ item' = [item EXCEPT ![k].call = 2] /\ pc' = [pc EXCEPT ![k] = "rowwait"]
        /\ out' = out
    BY <1>4 DEF RowSettled, GoTo
  <2>2. item'[k].row = item[k].row /\ pc'[k] = "rowwait"
    BY <1>3, <2>1
  <2>3. RowsSettled(k)' = RowsSettled(k)
    BY <2>2 DEF RowsSettled
  <2> QED
    BY <1>1, <2>1, <2>2, <2>3 DEF Gathered
<1>5. CASE item[k].call # 1
  <2>1. /\ out' = [out EXCEPT ![k] = @ \cup {RowOf(k)}]
        /\ item' = [item EXCEPT ![k] = [row |-> @.row + 1, call |-> 1]]
        /\ pc' = [pc EXCEPT ![k] = IF LastRow(k) THEN "closing" ELSE "rowwait"]
        /\ outbox' = [outbox EXCEPT ![k] = said \o (IF LastRow(k) THEN <<"progress", "done">>
                                                    ELSE <<"progress">>)]
    BY <1>5 DEF RowSettled, GoTo, Tell
  <2>2. item'[k].row = item[k].row + 1 /\ out'[k] = out[k] \cup {RowOf(k)}
    BY <1>3, <2>1
  <2>3. out'[k] = RowsSettled(k)'
    BY <1>1, <1>3, <2>2, RowAdded
  <2>4. CASE ~LastRow(k)
    <3>1. pc'[k] = "rowwait" /\ item'[k].row \in 1..Len(Pages[k][1])
      BY <1>1, <1>2, <1>3, <2>1, <2>2, <2>4 DEF LastRow
    <3> QED
      BY <1>1, <2>3, <3>1 DEF Gathered
  <2>5. CASE LastRow(k)
    <3>1. pc'[k] = "closing" /\ item'[k].row - 1 = Len(Pages[k][1])
      BY <1>1, <1>2, <1>3, <2>1, <2>2, <2>5 DEF LastRow
    <3>2. out'[k] = RowsOf(k)
      BY <1>1, <1>2, <2>3, <3>1, AllRowsSettled DEF RowsSettled
    <3>3. outbox'[k] = said \o <<"progress", "done">>
      BY <1>3, <2>1, <2>5
    <3>4. PICK all : all = said \o <<"progress", "done">>
      OBVIOUS
    <3>a. said \in Seq(Types) /\ <<"progress", "done">> \in Seq(Types)
      <4>1. "warn" \in Types /\ "progress" \in Types /\ "done" \in Types
        BY DEF Types
      <4>2. <<>> \in Seq(Types) /\ <<"warn">> \in Seq(Types)
            /\ <<"progress", "done">> \in Seq(Types)
        BY <4>1
      <4> QED
        BY <4>2
    <3>b. Len(said) \in Nat
      BY <3>a, LenProperties
    <3>c. Len(<<"progress", "done">>) = 2
      OBVIOUS
    <3>5. said \in Seq(Types) /\ <<"progress", "done">> \in Seq(Types)
          /\ Len(said) \in Nat /\ Len(<<"progress", "done">>) = 2
      BY <3>a, <3>b, <3>c
    <3>6. /\ Len(all) = Len(said) + 2
          /\ \A i \in 1..Len(said) + 2 : all[i] = IF i <= Len(said) THEN said[i]
                                                  ELSE <<"progress", "done">>[i - Len(said)]
      BY <3>4, <3>5, ConcatProperties
    <3>7. all[Len(all)] = <<"progress", "done">>[2]
      BY <3>5, <3>6
    <3>8. all # <<>>
      BY <3>5, <3>6
    <3>9. HasSaid(k, "done")'
      BY <3>3, <3>4, <3>7, <3>8, Spoken
    <3> QED
      BY <1>1, <3>1, <3>2, <3>9 DEF Gathered
  <2> QED
    BY <2>4, <2>5
<1> QED
  BY <1>4, <1>5

LEMMA OwnScan ==
  ASSUME Shape, NEW k \in Kinds, ScannerInv(k), Scan(k)
  PROVE  ScannerInv(k)'
<1> USE DEF Over, At, GoTo, Tell, poolVars, scannerVars
<1>0. /\ page[k] \in 1..Len(Pages[k])
      /\ pc[k] \notin Over /\ k \notin errs /\ RowsOf(k) \cap resources = {}
      /\ pc = [j \in Kinds |-> pc[j]] /\ out = [j \in Kinds |-> out[j]]
      /\ page = [j \in Kinds |-> page[j]] /\ outbox = [j \in Kinds |-> outbox[j]]
      /\ UNCHANGED <<ctx, events, heard>>
  BY ScanMoves DEF ScannerInv, Gathered, Recorded, Shape, readerVars
<1>1. ASSUME errs' = errs, resources' = resources, pc'[k] \in Places \ Over, Gathered(k)',
             ctx = "live" /\ pc'[k] \in {"closing", "failing"} => HasSaid(k, Conclusion(k))'
      PROVE  ScannerInv(k)'
  <2>1. Recorded(k)'
    BY <1>0, <1>1 DEF Recorded
  <2>2. Heard(k)'
    BY <1>0, <1>1 DEF Heard
  <2> QED
    BY <1>1, <2>1, <2>2 DEF ScannerInv
<1>2. CASE Throttle(k)
  <2>1. pc[k] = "wait" /\ UNCHANGED <<page, item, out, errs, resources>>
    BY <1>2 DEF Throttle
  <2>2. pc'[k] = "call" \/ (pc'[k] = "failing" /\ ctx = "done")
    BY <1>0, <1>2 DEF Throttle, GiveUp
  <2>3. Gathered(k)'
    BY <2>1, <2>2 DEF ScannerInv, Gathered, PagesRead
  <2> QED
    BY <1>1, <2>1, <2>2, <2>3 DEF Places
<1>3. CASE PageArrives(k)
  <2>0. /\ pc[k] = "call" /\ UNCHANGED <<item, errs, resources>>
        /\ item[k].row = 1 /\ out[k] = PagesRead(k)
    BY <1>3 DEF PageArrives, ScannerInv, Gathered
  <2>1. CASE k \in PerRow /\ RowsOf(k) # {}
    <3>1. pc'[k] = "rowwait" /\ UNCHANGED <<page, out>>
      BY <1>0, <1>3, <2>1 DEF PageArrives
    <3>2. page[k] = 1 /\ PagesRead(k) = {} /\ RowsSettled(k)' = {}
      BY <1>0, <2>0, <2>1, Given DEF PagesRead, RowsSettled
    <3>3. Len(Pages[k][1]) \in Nat
      BY <1>0, <3>2, Given, LenProperties
    <3>4. Len(Pages[k][1]) # 0
      <4> SUFFICES ASSUME Len(Pages[k][1]) = 0 PROVE FALSE
        OBVIOUS
      <4>1. RowsOf(k) = {Pages[k][1][i] : i \in 1..0}
        BY <2>1, AllRowsSettled
      <4> QED
        BY <2>1, <4>1
    <3>5. Gathered(k)'
      BY <1>0, <2>0, <2>1, <3>1, <3>2, <3>3, <3>4 DEF Gathered
    <3> QED
      BY <1>1, <2>0, <3>1, <3>5 DEF Places
  <2>2. CASE ~(k \in PerRow /\ RowsOf(k) # {}) /\ page[k] < Len(Pages[k])
    <3>1. /\ pc'[k] = "wait" /\ page'[k] = page[k] + 1
          /\ out'[k] = out[k] \cup Range(Pages[k][page[k]])
      BY <1>0, <1>3, <2>2 DEF PageArrives
    <3>2. Gathered(k)'
      BY <1>0, <2>0, <2>2, <3>1, Given, PageAdded, SMTT(30) DEF Gathered
    <3> QED
      BY <1>1, <2>0, <3>1, <3>2 DEF Places
  <2>3. CASE ~(k \in PerRow /\ RowsOf(k) # {}) /\ ~(page[k] < Len(Pages[k]))
    <3>1. /\ pc'[k] = "closing" /\ UNCHANGED page
          /\ out'[k] = out[k] \cup Range(Pages[k][page[k]])
          /\ outbox'[k] = <<"done">> \/ outbox'[k] = <<"progress", "done">>
      BY <1>0, <1>3, <2>3 DEF PageArrives
    <3>2. page[k] = Len(Pages[k]) /\ page[k] \in Nat
      BY <1>0, <2>3, Given
    <3>3. 1..page[k] = (1..page[k] - 1) \cup {page[k]}
      BY <1>0, <3>2
    <3>4. out'[k] = UNION {Range(Pages[k][p]) : p \in 1..page[k]}
      BY <2>0, <3>1, <3>3 DEF PagesRead
    <3>5. out'[k] = RowsOf(k)
      BY <3>2, <3>4, AllPagesRead
    <3>6. Gathered(k)'
      BY <1>0, <3>1, <3>5 DEF Gathered
    <3>7. HasSaid(k, "done")'
      <4>1. CASE outbox'[k] = <<"done">>
        <5>1. <<"done">> # <<>> /\ <<"done">>[Len(<<"done">>)] = "done"
          OBVIOUS
        <5> QED
          BY <4>1, <5>1, Spoken
      <4>2. CASE outbox'[k] = <<"progress", "done">>
        <5>1. /\ <<"progress", "done">> # <<>>
              /\ <<"progress", "done">>[Len(<<"progress", "done">>)] = "done"
          OBVIOUS
        <5> QED
          BY <4>2, <5>1, Spoken
      <4> QED
        BY <3>1, <4>1, <4>2
    <3> QED
      BY <1>0, <1>1, <2>0, <3>1, <3>6, <3>7 DEF Places, Conclusion
  <2> QED
    BY <2>1, <2>2, <2>3
<1>4. CASE PageFails(k)
  <2>1. /\ pc'[k] = "failing" /\ outbox'[k] = <<"error">>
        /\ UNCHANGED <<page, item, out, errs, resources>>
    BY <1>0, <1>4 DEF PageFails
  <2>2. Gathered(k)'
    BY <1>0, <2>1 DEF Gathered
  <2>3. HasSaid(k, "error")'
    BY <2>1, Spoken
  <2> QED
    BY <1>1, <2>1, <2>2, <2>3 DEF Places, Conclusion
<1>5. ASSUME pc[k] \in {"rowwait", "rowcall"}, NEW said \in {<<>>, <<"warn">>},
             RowSettled(k, said), UNCHANGED <<page, errs, resources>>
      PROVE  ScannerInv(k)'
  <2>1. /\ Gathered(k)' /\ pc'[k] \in {"rowwait", "closing"}
        /\ pc'[k] = "closing" => HasSaid(k, "done")'
    BY <1>5, RowStep
  <2> QED
    BY <1>0, <1>1, <1>5, <2>1 DEF Places, Conclusion
<1>6. CASE RowThrottle(k)
  <2>1. pc[k] = "rowwait" /\ UNCHANGED <<page, errs, resources>>
    BY <1>6 DEF RowThrottle
  <2>2. CASE GoTo(k, "rowcall") /\ UNCHANGED <<item, out>>
    <3>1. pc'[k] = "rowcall"
      BY <1>0, <2>2
    <3>2. Gathered(k)'
      BY <2>1, <2>2, <3>1 DEF ScannerInv, Gathered, RowsSettled
    <3> QED
      BY <1>1, <2>1, <3>1, <3>2 DEF Places
  <2>3. CASE RowSettled(k, <<>>)
    BY <1>5, <2>1, <2>3
  <2> QED
    BY <1>6, <2>2, <2>3 DEF RowThrottle
<1>7. CASE RowAnswered(k)
  BY <1>5, <1>7 DEF RowAnswered
<1>8. CASE RowFails(k)
  BY <1>5, <1>8 DEF RowFails
<1>9. ASSUME pc[k] \in {"closing", "failing"}, pc'[k] = "ended",
             UNCHANGED <<page, item, out, outbox>>,
             Recorded(k)', Conclusion(k)' = Conclusion(k)
      PROVE  ScannerInv(k)'
  <2>1. Gathered(k)'
    BY <1>0, <1>9 DEF Gathered
  <2>2. PICK e : e = Conclusion(k)
    OBVIOUS
  <2>3. HasSaid(k, e) => HasSaid(k, e)'
    BY <1>0, <1>9, SaidStands
  <2>4. Heard(k)'
    BY <1>0, <1>9, <2>2, <2>3 DEF ScannerInv, Heard
  <2> QED
    BY <1>9, <2>1, <2>4 DEF ScannerInv
<1>10. CASE Finish(k)
  <2>1. /\ pc[k] = "closing" /\ pc'[k] = "ended" /\ UNCHANGED <<errs, page, item, out, outbox>>
        /\ resources' = resources \cup out[k] /\ out[k] = RowsOf(k)
    BY <1>0, <1>10 DEF Finish, ScannerInv, Gathered
  <2>2. Recorded(k)'
    BY <1>0, <2>1 DEF Recorded
  <2>3. Conclusion(k)' = Conclusion(k)
    BY <1>0, <2>1 DEF Conclusion
  <2> QED
    BY <1>9, <2>1, <2>2, <2>3
<1>11. CASE Fail(k)
  <2>1. /\ pc[k] = "failing" /\ pc'[k] = "ended"
        /\ UNCHANGED <<resources, page, item, out, outbox>> /\ errs' = errs \cup {k}
    BY <1>0, <1>11 DEF Fail
  <2>2. Recorded(k)'
    BY <1>0, <2>1 DEF Recorded
  <2>3. Conclusion(k)' = Conclusion(k)
    BY <2>1 DEF Conclusion
  <2> QED
    BY <1>9, <2>1, <2>2, <2>3
<1> QED
  BY <1>2, <1>3, <1>4, <1>6, <1>7, <1>8, <1>10, <1>11 DEF Scan

\* The others do not notice: no row of theirs is among the rows recorded.
LEMMA ScanUnmoved ==
  ASSUME Shape, NEW k \in Kinds, ScannerInv(k), Scan(k), NEW j \in Kinds, j # k
  PROVE  Unmoved(j)
<1>1. PICK where \in Places : pc' = [pc EXCEPT ![k] = where]
  BY ScanMoves
<1>2. UNCHANGED <<ctx, events, heard>>
  BY ScanMoves DEF readerVars
<1>3. /\ page' = page \/ page' = [page EXCEPT ![k] = @ + 1]
      /\ \/ item' = item
         \/ item' = [item EXCEPT ![k].call = 2]
         \/ item' = [item EXCEPT ![k] = [row |-> @.row + 1, call |-> 1]]
      /\ \/ out' = out
         \/ out' = [out EXCEPT ![k] = @ \cup Range(Pages[k][page[k]])]
         \/ out' = [out EXCEPT ![k] = @ \cup {RowOf(k)}]
      /\ outbox' = outbox \/ \E said \in Seq(Types) : outbox' = [outbox EXCEPT ![k] = said]
  BY ScanIsOwn
<1>4. /\ errs' = errs \/ errs' = errs \cup {k}
      /\ \/ resources' = resources
         \/ pc[k] = "closing" /\ resources' = resources \cup out[k]
  BY ScanIsOwn
<1>5. /\ pc'[j] = pc[j] /\ page'[j] = page[j] /\ item'[j] = item[j] /\ out'[j] = out[j]
      /\ outbox'[j] = outbox[j]
  <2>1. pc'[j] = pc[j] /\ page'[j] = page[j]
    BY <1>1, <1>3 DEF Shape
  <2>2. item'[j] = item[j]
    BY <1>3 DEF Shape
  <2>3. out'[j] = out[j]
    BY <1>3 DEF Shape
  <2>4. outbox'[j] = outbox[j]
    BY <1>3 DEF Shape
  <2> QED
    BY <2>1, <2>2, <2>3, <2>4
<1>6. RowsOf(j) \cap resources' = RowsOf(j) \cap resources
  <2>1. CASE pc[k] = "closing" /\ resources' = resources \cup out[k]
    <3>1. RowsOf(j) \cap out[k] = {}
      BY <2>1, RowsApart DEF ScannerInv, Gathered
    <3> QED
      BY <2>1, <3>1
  <2> QED
    BY <1>4, <2>1
<1>7. \A e \in Types : HasSaid(j, e) => HasSaid(j, e)'
  BY <1>2, <1>5, SaidStands
<1> QED
  BY <1>2, <1>4, <1>5, <1>6, <1>7 DEF Unmoved

LEMMA ScanStep ==
  ASSUME IInv, NEW k \in Kinds, Scan(k)
  PROVE  IInv'
<1>1. Shape /\ \A j \in Kinds : ScannerInv(j)
  BY DEF IInv
<1>2. Shape'
  BY <1>1, ScanShape
<1>3. \A j \in Kinds : ScannerInv(j)'
  BY <1>1, OwnScan, ScanUnmoved, UnmovedKeeps
<1>4. /\ pc[k] \notin Over \cup {"idle"}
      /\ UNCHANGED <<ctx, next, result, events, readerVars>>
  BY <1>1, ScanMoves
<1>5. PICK where \in Places \ {"idle"} : pc' = [pc EXCEPT ![k] = where]
  BY <1>1, ScanMoves
<1>6. Dealt'
  <2>1. \A i \in 1..Len(Order) : pc'[Order[i]] # "idle" <=> pc[Order[i]] # "idle"
    BY <1>1, <1>4, <1>5, Registered DEF Shape
  <2> QED
    BY <1>4, <2>1 DEF IInv, Dealt
<1>7. ~result /\ Collected'
  BY <1>4 DEF IInv, Collected
<1>8. Caller'
  BY <1>4, <1>7 DEF IInv, Caller, readerVars
<1>9. Warned'
  <2>1. unsure' = unsure \/ ctx = "done" \/ (unsure' \ unsure) \subseteq warned'
    BY <1>1, ScanIsOwn
  <2>2. warned \subseteq warned'
    BY <1>1, ScanIsOwn
  <2> QED
    BY <1>4, <2>1, <2>2 DEF IInv, Warned
<1> QED
  BY <1>2, <1>3, <1>6, <1>7, <1>8, <1>9 DEF IInv

-----------------------------------------------------------------------------
(* The pool and the caller *)

\* Skip and Start: the scanner the loop is at, and no other.
LEMMA LoopStep ==
  ASSUME IInv, NEW k \in Kinds, next <= Len(Order), k = Order[next],
         next' = next + 1,
         \/ /\ ctx = "done" /\ errs' = errs \cup {k}
            /\ pc' = [pc EXCEPT ![k] = "skipped"]
            /\ outbox' = [outbox EXCEPT ![k] = <<"error">>]
         \/ /\ errs' = errs
            /\ pc' = [pc EXCEPT ![k] = "wait"]
            /\ outbox' = [outbox EXCEPT ![k] = <<"started">>],
         UNCHANGED <<ctx, resources, result, page, item, out, unsure, warned, events,
                     readerVars>>
  PROVE  IInv'
<1>0. Shape /\ Dealt /\ ScannerInv(k)
  BY DEF IInv
<1>1. pc[k] = "idle"
  BY <1>0 DEF Shape, Dealt
<1>2. Shape'
  <2>1. <<"error">> \in Seq(Types) /\ <<"started">> \in Seq(Types)
    BY DEF Types
  <2>2. next' \in 1..Len(Order) + 1
    BY <1>0, Registered DEF Shape
  <2>3. pc' \in [Kinds -> Places]
    BY <1>0 DEF Shape, Places, Over
  <2>4. outbox' \in [Kinds -> Seq(Types)]
    <3>1. outbox \in [Kinds -> Seq(Types)]
      BY <1>0 DEF Shape
    <3> QED
      BY <2>1, <3>1
  <2> QED
    BY <1>0, <2>2, <2>3, <2>4 DEF Shape, readerVars
<1>3. Dealt'
  <2> SUFFICES ASSUME NEW i \in 1..Len(Order)
               PROVE  i < next + 1 <=> pc'[Order[i]] # "idle"
    BY DEF Dealt
  <2>1. next \in 1..Len(Order) /\ next \in Nat /\ i \in Nat
    BY <1>0, Registered DEF Shape
  <2>2. CASE i = next
    BY <1>0, <2>1, <2>2 DEF Shape
  <2>3. CASE i # next
    <3>1. Order[i] # k
      BY <2>1, <2>3, Registered
    <3>2. pc'[Order[i]] = pc[Order[i]]
      BY <1>0, <3>1, Registered DEF Shape
    <3> QED
      BY <1>0, <2>1, <2>3, <3>2 DEF Dealt
  <2> QED
    BY <2>2, <2>3
<1>4. ~result
  BY <1>1 DEF IInv, Collected, Over
<1>5. Collected' /\ Caller' /\ Warned'
  BY <1>4 DEF IInv, Collected, Caller, Warned, readerVars
<1>6. ScannerInv(k)'
  <2>1. pc'[k] = "wait" \/ (pc'[k] = "skipped" /\ ctx = "done")
    BY <1>0 DEF Shape
  <2>2. Gathered(k)'
    BY <1>0, <1>1, <2>1 DEF ScannerInv, Gathered, PagesRead
  <2>3. Recorded(k)'
    BY <1>0, <1>1 DEF ScannerInv, Recorded, Shape, Over
  <2>4. Heard(k)'
    BY <2>1 DEF Heard
  <2> QED
    BY <2>2, <2>3, <2>4 DEF ScannerInv
<1>7. ASSUME NEW j \in Kinds, j # k PROVE ScannerInv(j)'
  <2>1. pc'[j] = pc[j] /\ outbox'[j] = outbox[j] /\ (j \in errs' <=> j \in errs)
    BY <1>0, <1>7 DEF Shape
  <2>2. \A e \in Types : HasSaid(j, e) => HasSaid(j, e)'
    BY <2>1, SaidStands DEF readerVars
  <2>3. Unmoved(j)
    BY <2>1, <2>2 DEF Unmoved
  <2> QED
    BY <2>3, UnmovedKeeps DEF IInv
<1> QED
  BY <1>2, <1>3, <1>5, <1>6, <1>7 DEF IInv

\* Steps that move no scanner.
LEMMA QuietStep ==
  ASSUME IInv, UNCHANGED <<next, pc, page, item, out, errs, resources, unsure, warned>>,
         ctx' \in {ctx, "done"},
         outbox' \in [Kinds -> Seq(Types)], events' \in Seq(Kinds \X Types),
         heard' \in [Kinds -> Types \cup {"nothing"}],
         ctx' = "live" => \A j \in Kinds, e \in Types : HasSaid(j, e) => HasSaid(j, e)',
         Collected', Caller'
  PROVE  IInv'
<1>1. Shape' /\ Dealt' /\ Warned'
  BY DEF IInv, Shape, Dealt, Warned
<1>2. ASSUME NEW j \in Kinds PROVE ScannerInv(j)'
  <2>1. ctx' = "live" => ctx = "live"
    BY DEF IInv, Shape
  <2>2. Unmoved(j)
    BY <2>1 DEF Unmoved
  <2> QED
    BY <2>2, UnmovedKeeps DEF IInv
<1> QED
  BY <1>1, <1>2 DEF IInv

LEMMA NextStep == IInv /\ [Next]_vars => IInv'
<1> SUFFICES ASSUME IInv, [Next]_vars PROVE IInv'
  OBVIOUS
<1> USE DEF poolVars, scannerVars, readerVars
<1>0. Shape /\ Collected /\ Caller
  BY DEF IInv
<1>1. /\ outbox \in [Kinds -> Seq(Types)] /\ events \in Seq(Kinds \X Types)
      /\ heard \in [Kinds -> Types \cup {"nothing"}]
  BY <1>0 DEF Shape
\* Nothing on its way moves.
<1>2. ASSUME UNCHANGED <<next, pc, page, item, out, errs, resources, unsure, warned, outbox,
                         events, heard>>,
             ctx' \in {ctx, "done"}, Collected', Caller'
      PROVE  IInv'
  <2>1. \A j \in Kinds, e \in Types : HasSaid(j, e) => HasSaid(j, e)'
    BY <1>2, SaidStands
  <2> QED
    BY <1>1, <1>2, <2>1, QuietStep
<1>3. CASE UNCHANGED vars
  <2>1. Collected' /\ Caller'
    BY <1>0, <1>3 DEF Collected, Caller, vars
  <2> QED
    BY <1>2, <1>3, <2>1 DEF vars
<1>4. CASE Cancel
  <2>1. Collected' /\ Caller'
    BY <1>0, <1>4 DEF Cancel, Collected, Caller
  <2> QED
    BY <1>2, <1>4, <2>1 DEF Cancel
<1>5. CASE Pool
  <2>1. CASE CheckContext
    <3>1. Collected' /\ Caller'
      BY <1>0, <2>1 DEF CheckContext, Collected, Caller
    <3> QED
      BY <1>2, <2>1, <3>1 DEF CheckContext
  <2>2. CASE Skip \/ Start
    <3>1. next \in 1..Len(Order)
      BY <1>0, <2>2, Registered DEF Skip, Start, AtScanner, Shape
    <3>2. PICK k \in Kinds : k = Order[next]
      BY <3>1, Registered
    <3> QED
      BY <2>2, <3>1, <3>2, LoopStep DEF Skip, Start, AtScanner
  <2>3. CASE Collect
    <3>1. Collected' /\ Caller'
      BY <1>0, <2>3 DEF Collect, Collected, Caller, Over
    <3> QED
      BY <1>2, <2>3, <3>1 DEF Collect
  <2> QED
    BY <1>5, <2>1, <2>2, <2>3 DEF Pool
<1>6. ASSUME NEW s \in Services, Refill(s) PROVE IInv'
  <2>1. Collected' /\ Caller'
    BY <1>0, <1>6 DEF Refill, Collected, Caller
  <2> QED
    BY <1>2, <1>6, <2>1 DEF Refill
<1>7. ASSUME NEW k \in Kinds, Scan(k) PROVE IInv'
  BY <1>7, ScanStep
<1>8. ASSUME NEW k \in Kinds, Send(k) PROVE IInv'
  <2>1. ~result
    BY <1>0, <1>8 DEF Send, Collected
  <2>2. Collected' /\ Caller'
    BY <1>0, <1>8, <2>1 DEF Send, Collected, Caller
  <2>3. /\ outbox' \in [Kinds -> Seq(Types)] /\ events' \in Seq(Kinds \X Types)
        /\ \A j \in Kinds, e \in Types : HasSaid(j, e) => HasSaid(j, e)'
    BY <1>0, <1>8, SendKeeps
  <2>4. /\ UNCHANGED <<next, pc, page, item, out, errs, resources, unsure, warned>>
        /\ ctx' = ctx /\ heard' \in [Kinds -> Types \cup {"nothing"}]
    BY <1>1, <1>8 DEF Send
  <2> QED
    BY <2>2, <2>3, <2>4, QuietStep
<1>9. ASSUME NEW k \in Kinds, Drop(k) PROVE IInv'
  <2>1. ~result
    BY <1>0, <1>9 DEF Drop, Collected
  <2>2. Collected' /\ Caller'
    BY <1>0, <1>9, <2>1 DEF Drop, Collected, Caller
  <2>3. outbox[k] \in Seq(Types) /\ outbox[k] # <<>>
    BY <1>1, <1>9 DEF Drop
  <2>4. Tail(outbox[k]) \in Seq(Types)
    BY <2>3, FirstAndRest
  <2>5. outbox' \in [Kinds -> Seq(Types)]
    BY <1>1, <1>9, <2>4 DEF Drop
  <2>6. /\ UNCHANGED <<next, pc, page, item, out, errs, resources, unsure, warned, events, heard>>
        /\ ctx' = ctx /\ ctx = "done"
    BY <1>9 DEF Drop
  <2> QED
    BY <1>1, <2>2, <2>5, <2>6, QuietStep
<1>10. CASE Drain
  <2>1. Collected' /\ Caller'
    BY <1>0, <1>10 DEF Drain, Collected, Caller
  <2>2. 1 \in 1..Len(Order) + 1
    BY Registered
  <2>3. \A j \in Kinds :
          /\ heard' \in [Kinds -> Types \cup {"nothing"}] /\ events' \in Seq(Kinds \X Types)
          /\ \A e \in Types : HasSaid(j, e) => HasSaid(j, e)'
    BY <1>0, <1>10, DrainKeeps
  <2>4. PICK j \in Kinds : TRUE
    <3>1. Head(events) \in Kinds \X Types
      BY <1>1, <1>10, FirstAndRest DEF Drain
    <3> QED
      BY <3>1
  <2>5. /\ UNCHANGED <<next, pc, page, item, out, errs, resources, unsure, warned, outbox>>
        /\ ctx' = ctx
    BY <1>10 DEF Drain
  <2> QED
    BY <1>1, <2>1, <2>3, <2>4, <2>5, QuietStep
<1>11. CASE TakeResult \/ Leave
  <2>1. Collected' /\ Caller'
    BY <1>0, <1>11 DEF TakeResult, Leave, Collected, Caller
  <2> QED
    BY <1>2, <1>11, <2>1 DEF TakeResult, Leave
<1>12. CASE Save
  <2>1. UNCHANGED <<ctx, next, pc, page, item, out, errs, resources, unsure, warned, outbox,
                    events, heard, result, enriching, enriched>>
        /\ reader = "applying" /\ reader' = "saved"
    BY <1>12 DEF Save
  <2>2. Collected' /\ Caller'
    BY <1>0, <2>1 DEF Collected, Caller
  <2> QED
    BY <1>2, <2>1, <2>2
<1>13. ASSUME NEW r \in Rows, Enrichment(r) PROVE IInv'
  <2>1. Collected' /\ Caller'
    <3>1. CASE Enrich(r)
      BY <1>0, <3>1 DEF Enrich, Collected, Caller
    <3>2. CASE Enriched(r)
      BY <1>0, <3>2 DEF Enriched, Collected, Caller
    <3> QED
      BY <1>13, <3>1, <3>2 DEF Enrichment
  <2> QED
    BY <1>2, <1>13, <2>1 DEF Enrichment, Enrich, Enriched
<1> QED
  BY <1>3, <1>4, <1>5, <1>6, <1>7, <1>8, <1>9, <1>10, <1>11, <1>12, <1>13
     DEF Next, Deliver, Reader

THEOREM Invariance == Spec => []IInv
BY InitIInv, NextStep, PTL DEF Spec

-----------------------------------------------------------------------------
(* Results *)

\* However the scanners, the caller and the end of the time interleave, the Result
\* has each kind once, with its error or with all its rows; and a caller still in
\* time has heard the same of every kind, and of every row whose own calls failed
\* (pool.go:78-140, s3_bucket.go:82-115).
THEOREM NoKindIsLost == Spec => []ResultIsComplete
<1>1. IInv => ResultIsComplete
  <2> SUFFICES ASSUME IInv, result PROVE ResultIsComplete
    BY DEF ResultIsComplete
  <2>1. \A k \in Kinds : RowsOf(k) \cap resources = IF k \in errs THEN {} ELSE RowsOf(k)
    BY DEF IInv, Collected, ScannerInv, Recorded, Over
  <2>2. ASSUME ctx = "live" PROVE unsure \cap resources \subseteq warned
    BY <2>2 DEF IInv, Warned
  <2>3. ASSUME ctx = "live" PROVE HeardToTheEnd
    <3> SUFFICES ASSUME reader \in {"applying", "saved"}, NEW k \in Kinds
                 PROVE  heard[k] = IF k \in errs THEN "error" ELSE "done"
      BY DEF HeardToTheEnd
    <3>1. pc[k] = "ended" /\ outbox[k] = <<>>
      BY <2>3 DEF IInv, Collected, ScannerInv, Heard, Over
    <3>2. HasSaid(k, Conclusion(k)) /\ Len(events) = 0
      BY <2>3, <3>1 DEF IInv, ScannerInv, Heard, Caller
    <3> QED
      BY <3>1, <3>2 DEF HasSaid, Conclusion
  <2> QED
    BY <2>1, <2>2, <2>3 DEF ResultIsComplete
<1> QED
  BY <1>1, Invariance, PTL

-----------------------------------------------------------------------------
(* Enrichment: what a row says *)

\* An age, or none.
AgesOrNone == Nat \cup {E!NoValue}

\* The times a row or the account tells are ages; those of a metric lie in the
\* window it is asked for.
Sane(r) ==
  /\ DOMAIN r = DOMAIN E!Missing
  /\ \A x \in E!Times : r[x] \in AgesOrNone
  /\ \A x \in E!Metrics : r[x] <= E!L!DefaultLookbackDays
  /\ r.lookback = E!L!DefaultLookbackDays

\* A row holds of each field what is the case or nothing; with working clients
\* and Raw it holds all but what is still to be asked and what failed.
Told == \A x \in DOMAIN E!Missing : row[x] = facts[x] \/ row[x] = E!Missing[x]
Heeded == wired => \A x \in E!Fields(kind) : x \in toAsk \cup failed \/ row[x] = facts[x]

EnrichInv ==
  /\ step \in {"idle", "found", "asking", "judged", "over"}
  /\ DOMAIN row = DOMAIN E!Missing /\ Sane(facts) /\ Told
  /\ step # "idle" => kind \in E!S!Kinds
  /\ step \in {"idle", "found"} => row = E!Missing /\ failed = {}
  /\ step # "asking" => toAsk = {}
  /\ toAsk \subseteq E!Queries(kind)
  /\ step \in {"asking", "judged", "over"} => Heeded
  /\ step \in {"judged", "over"} => verdict = E!LastUsedOf(kind, row)
  /\ step = "over" => cost = E!CostOf(kind, row)

LEMMA MissingIs ==
  /\ DOMAIN E!Missing = E!Times \cup E!Flags \cup
       {"state", "type", "gb", "accessLog", "lookback", "platform", "multiAZ", "storage",
        "class", "iops", "mbps", "lcu"}
  /\ \A x \in E!Times : E!Missing[x] = E!NoValue
  /\ E!Missing.lookback = E!L!DefaultLookbackDays
  /\ E!Missing.state = "" /\ E!Missing.associated = FALSE
<1>1. DOMAIN E!Missing = E!Times \cup E!Flags \cup
       {"state", "type", "gb", "accessLog", "lookback", "platform", "multiAZ", "storage",
        "class", "iops", "mbps", "lcu"}
  BY DEF E!Missing, E!Times, E!Flags, E!Metrics
<1>2. \A x \in E!Times : E!Missing[x] = E!NoValue
  <2>1. /\ E!Missing.created = E!NoValue /\ E!Missing.attach = E!NoValue
        /\ E!Missing.restorable = E!NoValue /\ E!Missing.modified = E!NoValue
        /\ E!Missing.eni = E!NoValue /\ E!Missing.ami = E!NoValue
        /\ E!Missing.event = E!NoValue /\ E!Missing.pushed = E!NoValue
        /\ E!Missing.pulled = E!NoValue /\ E!Missing.object = E!NoValue
        /\ E!Missing.execution = E!NoValue
    BY DEF E!Missing
  <2>2. /\ E!Missing.cpu = E!NoValue /\ E!Missing.write = E!NoValue
        /\ E!Missing.read = E!NoValue /\ E!Missing.bytes = E!NoValue
        /\ E!Missing.requests = E!NoValue /\ E!Missing.conns = E!NoValue
        /\ E!Missing.io = E!NoValue /\ E!Missing.size = E!NoValue
    BY DEF E!Missing
  <2> QED  BY <2>1, <2>2 DEF E!Times, E!Metrics
<1>3. /\ E!Missing.lookback = E!L!DefaultLookbackDays
      /\ E!Missing.state = "" /\ E!Missing.associated = FALSE
  BY DEF E!Missing
<1> QED  BY <1>1, <1>2, <1>3

LEMMA ValueIs == E!NoValue = -1 /\ E!L!NoValue = -1 /\ E!L!DefaultLookbackDays = 30
BY DEF E!NoValue, E!L!NoValue, E!L!DefaultLookbackDays

LEMMA MissingIsSane == Sane(E!Missing)
<1>1. E!Metrics \subseteq E!Times  BY DEF E!Times
<1>2. \A x \in E!Times : E!Missing[x] \in AgesOrNone  BY MissingIs DEF AgesOrNone
<1>3. \A x \in E!Metrics : E!Missing[x] <= E!L!DefaultLookbackDays
  <2>1. \A x \in E!Metrics : E!Missing[x] = -1  BY <1>1, MissingIs, ValueIs
  <2> QED  BY <2>1, ValueIs
<1> QED  BY <1>2, <1>3, MissingIs DEF Sane

\* Every field a kind has is one of the row's, and what it asks for is a time.
LEMMA FieldsAre ==
  \A k : /\ E!Fields(k) \subseteq DOMAIN E!Missing
         /\ E!Queries(k) \subseteq E!Times \cap E!Fields(k)
         /\ "lookback" \notin E!Fields(k)
<1> SUFFICES ASSUME NEW k
             PROVE  /\ E!Fields(k) \subseteq DOMAIN E!Missing
                    /\ E!Queries(k) \subseteq E!Times \cap E!Fields(k)
                    /\ "lookback" \notin E!Fields(k)
  OBVIOUS
<1>1. E!OwnFields(k) \subseteq {"created", "state"}
  BY DEF E!OwnFields
<1>2. E!RawFields(k) \subseteq {"eniIds", "type", "attach", "gb", "associated", "accessLogs",
                              "healthy", "restorable", "modified", "retention", "active"}
  BY DEF E!RawFields
<1>3. E!Queries(k) \subseteq E!Times
  BY DEF E!Queries, E!Times, E!Metrics
<1> QED
  BY <1>1, <1>2, <1>3, MissingIs DEF E!Fields, E!Times, E!Flags, E!Metrics

LEMMA FactsAreSane ==
  ASSUME NEW k, NEW f \in E!Facts(k)
  PROVE  Sane(f)
<1> DEFINE T == {v \in [E!Fields(k) \cap E!Times -> Ages \cup {E!NoValue}] :
                    \A x \in DOMAIN v \cap E!Metrics : v[x] <= E!L!DefaultLookbackDays}
           F(t, g, w, gb) ==
             [x \in DOMAIN E!Missing |->
                IF x \notin E!Fields(k) THEN E!Missing[x]
                ELSE IF x \in E!Times THEN t[x]
                ELSE IF x \in E!Flags THEN g[x]
                ELSE IF x = "state" THEN w[1]
                ELSE IF x = "type" THEN w[2] ELSE gb]
<1>0. E!Facts(k) = {F(t, g, w, gb) : t \in T, g \in [E!Fields(k) \cap E!Flags -> BOOLEAN],
                                  w \in E!States(k) \X {"priced", "new"}, gb \in {0, 10}}
  BY DEF E!Facts
<1>1. PICK t \in T : \E g, w, gb : f = F(t, g, w, gb)
  <2> HIDE DEF F, T
  <2> QED  BY <1>0
<1>2. /\ E!Times \subseteq DOMAIN E!Missing /\ E!Metrics \subseteq E!Times
      /\ "lookback" \in DOMAIN E!Missing
  BY MissingIs DEF E!Times
<1> PICK g, w, gb : f = F(t, g, w, gb)  BY <1>1
<1>3. ASSUME NEW x \in E!Times
      PROVE  f[x] \in AgesOrNone /\ (x \in E!Metrics => f[x] <= E!L!DefaultLookbackDays)
  <2>1. CASE x \in E!Fields(k)
    <3>1. f[x] = t[x] /\ t[x] \in Ages \cup {E!NoValue}  BY <1>1, <1>2, <2>1
    <3>2. x \in E!Metrics => t[x] <= E!L!DefaultLookbackDays  BY <1>1, <2>1
    <3> QED  BY <3>1, <3>2, AuditAssumption DEF E!EnrichAssumption, AgesOrNone
  <2>2. CASE x \notin E!Fields(k)
    <3>1. f[x] = E!NoValue  BY <1>1, <1>2, <2>2, MissingIs
    <3> QED  BY <3>1, ValueIs DEF AgesOrNone
  <2> QED  BY <2>1, <2>2
<1>4. DOMAIN f = DOMAIN E!Missing  BY <1>1
<1>5. f["lookback"] = E!Missing["lookback"]  BY <1>1, <1>2, FieldsAre
<1> QED  BY <1>2, <1>3, <1>4, <1>5, MissingIs DEF Sane

-----------------------------------------------------------------------------
(* What a composer says of a row *)

LEMMA ComposeIs ==
  \A srcs : \A c \in 0..3 :
    /\ E!L!Compose(srcs, c).confidence \in 0..3
    /\ E!L!Compose(srcs, c).confidence = 3 => c = 3
    /\ c = 3 => E!L!Compose(srcs, c).confidence >= 2
    /\ ~E!L!Divergent(srcs) => E!L!Compose(srcs, c).confidence = c
BY DEF E!L!Compose, E!L!Unknown

\* The ages of two signals, of which one at least is there.
LEMMA TwoAges ==
  ASSUME NEW a \in AgesOrNone, NEW b \in AgesOrNone, NEW V, V = {a, b} \ {E!NoValue}, V # {}
  PROVE  E!L!Min(V) \in V /\ E!L!Max(V) \in V
<1>1. V \subseteq Nat  BY ValueIs DEF AgesOrNone
<1>2. (\E x \in V : \A y \in V : x <= y) /\ \E x \in V : \A y \in V : x >= y
  <2>1. CASE a \in V /\ b \in V
    <3>1. a <= b \/ b <= a  BY <1>1, <2>1
    <3>2. a <= a /\ b <= b /\ \A y \in V : y = a \/ y = b  BY <1>1, <2>1
    <3> QED  BY <1>1, <2>1, <3>1, <3>2
  <2>2. CASE ~(a \in V /\ b \in V)
    <3>1. PICK x \in V : V = {x}  BY <2>2
    <3>2. x <= x /\ x >= x  BY <1>1
    <3> QED  BY <3>1, <3>2
  <2> QED  BY <2>1, <2>2
<1> QED  BY <1>2 DEF E!L!Min, E!L!Max

\* In use, as far as a row tells.
LooksUsed(k, r) ==
  IF k = "ec2/eip" THEN r.associated
  ELSE /\ k = "ec2/volume" => r.state = "in-use"
       /\ \E e \in E!Evidence(k) : E!L!Within(r[e[1]], e[2])

LEMMA OneEvidence ==
  ASSUME NEW k, NEW r, NEW f, NEW d, k # "ec2/eip", k # "ec2/volume",
         E!Evidence(k) = {<<f, d>>}
  PROVE  LooksUsed(k, r) <=> E!L!Within(r[f], d)
BY DEF LooksUsed

LEMMA TwoEvidences ==
  ASSUME NEW k, NEW r, NEW f, NEW g, NEW d, E!Evidence(k) = {<<f, d>>, <<g, d>>}
  PROVE  (\E e \in E!Evidence(k) : E!L!Within(r[e[1]], e[2]))
           <=> E!L!Within(r[f], d) \/ E!L!Within(r[g], d)
OBVIOUS

Verdict(k, r) == E!LastUsedOf(k, r).confidence

\* A composer that calls a row used has evidence of it, and with evidence the row
\* is at most one step from it.
Sound(k, r) == /\ Verdict(k, r) = 3 => LooksUsed(k, r)
               /\ LooksUsed(k, r) => Verdict(k, r) >= 2

LEMMA InstanceSound == \A r : Sane(r) => Sound("ec2/instance", r)
<1> SUFFICES ASSUME NEW r, Sane(r) PROVE Sound("ec2/instance", r)  OBVIOUS
<1>1. LooksUsed("ec2/instance", r) <=> E!L!Within(r.cpu, r.lookback)
  <2>1. E!Evidence("ec2/instance") = {<<"cpu", 30>>}  BY DEF E!Evidence
  <2>2. LooksUsed("ec2/instance", r) <=> E!L!Within(r.cpu, 30)
    BY <2>1, OneEvidence
  <2> QED  BY <2>2, ValueIs DEF Sane
<1>2. Verdict("ec2/instance", r) = E!L!EC2Instance(r, r).confidence
  BY DEF Verdict, E!LastUsedOf
<1>3. /\ E!L!EC2Instance(r, r).confidence = 3 => E!L!Within(r.cpu, r.lookback)
      /\ E!L!Within(r.cpu, r.lookback) => E!L!EC2Instance(r, r).confidence >= 2
  BY ComposeIs DEF E!L!EC2Instance, E!L!High, E!L!Medium, E!L!Low, E!L!Unknown
<1> QED  BY <1>1, <1>2, <1>3 DEF Sound

LEMMA VolumeSound == \A r : Sane(r) => Sound("ec2/volume", r)
<1> SUFFICES ASSUME NEW r, Sane(r) PROVE Sound("ec2/volume", r)  OBVIOUS
<1> DEFINE used == /\ r.state = "in-use"
                   /\ E!L!Within(r.write, r.lookback) \/ E!L!Within(r.read, r.lookback)
<1>1. LooksUsed("ec2/volume", r) <=> used
  <2>1. E!Evidence("ec2/volume") = {<<"write", 30>>, <<"read", 30>>}  BY DEF E!Evidence
  <2>2. (\E e \in E!Evidence("ec2/volume") : E!L!Within(r[e[1]], e[2]))
          <=> E!L!Within(r.write, 30) \/ E!L!Within(r.read, 30)
    BY <2>1, TwoEvidences
  <2>3. r.lookback = 30  BY ValueIs DEF Sane
  <2> QED  BY <2>2, <2>3 DEF LooksUsed
<1>2. Verdict("ec2/volume", r) = E!L!EC2Volume(r, r).confidence
  BY DEF Verdict, E!LastUsedOf
<1>3. /\ E!L!EC2Volume(r, r).confidence = 3 => used
      /\ used => E!L!EC2Volume(r, r).confidence >= 2
  BY ComposeIs DEF E!L!EC2Volume, E!L!High, E!L!Medium, E!L!Low, E!L!Unknown
<1> QED  BY <1>1, <1>2, <1>3 DEF Sound

LEMMA AddressSound ==
  \A r : Sane(r) => /\ Sound("ec2/eip", r)
                    /\ Verdict("ec2/eip", r) = 1 <=> ~r.associated
<1> SUFFICES ASSUME NEW r, Sane(r)
             PROVE  Sound("ec2/eip", r) /\ (Verdict("ec2/eip", r) = 1 <=> ~r.associated)
  OBVIOUS
<1>1. LooksUsed("ec2/eip", r) <=> r.associated
  BY DEF LooksUsed
<1>2. Verdict("ec2/eip", r) = E!L!EC2EIP(r, r).confidence
  BY DEF Verdict, E!LastUsedOf
<1>3. CASE r.associated
  <2>1. E!L!EC2EIP(r, r).confidence \in {2, 3}
    BY <1>3, ComposeIs DEF E!L!EC2EIP, E!L!High
  <2> QED  BY <1>1, <1>2, <1>3, <2>1 DEF Sound
<1>4. CASE ~r.associated
  <2>1. PICK srcs : srcs = [allocated |-> r.created, associated |-> E!NoValue]  OBVIOUS
  <2>2. E!L!EC2EIP(r, r) = E!L!Compose(srcs, 1)
    BY <1>4, <2>1, ValueIs DEF E!L!EC2EIP, E!L!Low
  <2>3. r.created \in AgesOrNone
    BY DEF Sane, E!Times
  <2>4. E!L!Values(srcs) = {r.created, E!NoValue} \ {E!NoValue}
    BY <2>1, ValueIs DEF E!L!Values
  <2>5. ~E!L!Divergent(srcs)
    <3> SUFFICES ASSUME E!L!Values(srcs) # {} PROVE ~E!L!Divergent(srcs)
      BY DEF E!L!Divergent
    <3>1. /\ E!L!Min(E!L!Values(srcs)) \in E!L!Values(srcs)
          /\ E!L!Max(E!L!Values(srcs)) \in E!L!Values(srcs)
      BY <2>3, <2>4, TwoAges, ValueIs DEF AgesOrNone
    <3>2. r.created \in Nat /\ E!L!Values(srcs) = {r.created}
      BY <2>3, <2>4, ValueIs DEF AgesOrNone
    <3> QED  BY <3>1, <3>2 DEF E!L!Divergent, E!L!DisagreementThresholdDays
  <2>6. E!L!EC2EIP(r, r).confidence = 1
    BY <2>2, <2>5, ComposeIs
  <2> QED  BY <1>1, <1>2, <1>4, <2>6 DEF Sound
<1> QED  BY <1>3, <1>4

\* Two signals, none of them ever enough for High.
LEMMA BucketSound == \A r : Sane(r) => Sound("s3/bucket", r)
<1> SUFFICES ASSUME NEW r, Sane(r) PROVE Sound("s3/bucket", r)  OBVIOUS
<1>1. LooksUsed("s3/bucket", r) <=> E!L!Within(r.object, 30)
  <2>1. E!Evidence("s3/bucket") = {<<"object", 30>>}  BY DEF E!Evidence
  <2> QED  BY <2>1, OneEvidence
<1>2. Verdict("s3/bucket", r) = E!L!S3Bucket(r, r).confidence
  BY DEF Verdict, E!LastUsedOf
<1>3. PICK srcs : srcs = [object |-> r.object, size |-> r.size]  OBVIOUS
<1>4. PICK c : c = IF E!L!Best(srcs) = E!L!NoValue THEN 0
                   ELSE IF E!L!Within(r.object, 30) \/ E!L!Within(r.size, 30) THEN 2 ELSE 1
  OBVIOUS
<1>5. E!L!S3Bucket(r, r) = E!L!Compose(srcs, c) /\ c \in 0..2
  BY <1>3, <1>4 DEF E!L!S3Bucket, E!L!Medium, E!L!Low, E!L!Unknown
<1>6. E!L!S3Bucket(r, r).confidence # 3
  BY <1>5, ComposeIs
<1>7. ASSUME E!L!Within(r.object, 30) PROVE E!L!S3Bucket(r, r).confidence = 2
  <2>1. r.object \in 0..30 /\ r.size \in AgesOrNone /\ r.object \in AgesOrNone /\ r.size <= 30
    <3>1. r.object \in AgesOrNone /\ r.size \in AgesOrNone /\ r.size <= E!L!DefaultLookbackDays
      BY DEF Sane, E!Times, E!Metrics
    <3> QED  BY <1>7, <3>1, ValueIs DEF E!L!Within, AgesOrNone
  <2>2. E!L!Values(srcs) = {r.object, r.size} \ {E!NoValue}
    BY <1>3, ValueIs DEF E!L!Values
  <2>3. r.object \in E!L!Values(srcs)
    BY <2>1, <2>2, ValueIs
  <2>4. E!L!Values(srcs) \subseteq 0..30
    BY <2>1, <2>2, ValueIs DEF AgesOrNone
  <2>5. E!L!Min(E!L!Values(srcs)) \in 0..30 /\ E!L!Max(E!L!Values(srcs)) \in 0..30
    <3>1. E!L!Values(srcs) # {}  BY <2>3
    <3> QED  BY <2>1, <2>2, <2>4, <3>1, TwoAges
  <2>6. ~E!L!Divergent(srcs)
    BY <2>5 DEF E!L!Divergent, E!L!DisagreementThresholdDays
  <2>7. E!L!Best(srcs) # E!L!NoValue
    BY <2>3, <2>5, ValueIs DEF E!L!Best
  <2>8. c = 2
    BY <1>4, <1>7, <2>7
  <2> QED  BY <1>5, <2>6, <2>8, ComposeIs
<1> QED  BY <1>1, <1>2, <1>6, <1>7 DEF Sound

LEMMA SnapshotSound == \A r : Sane(r) => Sound("ec2/snapshot", r)
<1> SUFFICES ASSUME NEW r, Sane(r) PROVE Sound("ec2/snapshot", r)  OBVIOUS
<1>1. LooksUsed("ec2/snapshot", r) <=> E!L!Within(r.ami, 90)
  <2>1. E!Evidence("ec2/snapshot") = {<<"ami", 90>>}  BY DEF E!Evidence
  <2> QED  BY <2>1, OneEvidence
<1>2. Verdict("ec2/snapshot", r) = E!L!EC2Snapshot(r, r).confidence
  BY DEF Verdict, E!LastUsedOf
<1>3. /\ E!L!EC2Snapshot(r, r).confidence = 3 => E!L!Within(r.ami, 90)
      /\ E!L!Within(r.ami, 90) => E!L!EC2Snapshot(r, r).confidence >= 2
  BY ComposeIs DEF E!L!EC2Snapshot, E!L!High, E!L!Medium, E!L!Low, E!L!Unknown
<1> QED  BY <1>1, <1>2, <1>3 DEF Sound

LEMMA GatewaySound == \A r : Sane(r) => Sound("ec2/nat-gateway", r)
<1> SUFFICES ASSUME NEW r, Sane(r) PROVE Sound("ec2/nat-gateway", r)  OBVIOUS
<1>1. LooksUsed("ec2/nat-gateway", r) <=> E!L!Within(r.bytes, 7)
  <2>1. E!Evidence("ec2/nat-gateway") = {<<"bytes", 7>>}  BY DEF E!Evidence
  <2> QED  BY <2>1, OneEvidence
<1>2. Verdict("ec2/nat-gateway", r) = E!L!EC2NATGateway(r, r).confidence
  BY DEF Verdict, E!LastUsedOf
<1>3. /\ E!L!EC2NATGateway(r, r).confidence = 3 => E!L!Within(r.bytes, 7)
      /\ E!L!Within(r.bytes, 7) => E!L!EC2NATGateway(r, r).confidence >= 2
  BY ComposeIs DEF E!L!EC2NATGateway, E!L!High, E!L!Medium, E!L!Low, E!L!Unknown
<1> QED  BY <1>1, <1>2, <1>3 DEF Sound

LEMMA BalancerSound == \A r : Sane(r) => Sound("elbv2/load-balancer", r)
<1> SUFFICES ASSUME NEW r, Sane(r) PROVE Sound("elbv2/load-balancer", r)  OBVIOUS
<1>1. LooksUsed("elbv2/load-balancer", r) <=> E!L!Within(r.requests, r.lookback)
  <2>1. E!Evidence("elbv2/load-balancer") = {<<"requests", 30>>}  BY DEF E!Evidence
  <2>2. LooksUsed("elbv2/load-balancer", r) <=> E!L!Within(r.requests, 30)
    BY <2>1, OneEvidence
  <2> QED  BY <2>2, ValueIs DEF Sane
<1>2. Verdict("elbv2/load-balancer", r) = E!L!ELBv2LoadBalancer(r, r).confidence
  BY DEF Verdict, E!LastUsedOf
<1>3. /\ E!L!ELBv2LoadBalancer(r, r).confidence = 3 => E!L!Within(r.requests, r.lookback)
      /\ E!L!Within(r.requests, r.lookback) => E!L!ELBv2LoadBalancer(r, r).confidence >= 2
  BY ComposeIs DEF E!L!ELBv2LoadBalancer, E!L!High, E!L!Medium, E!L!Low, E!L!Unknown
<1> QED  BY <1>1, <1>2, <1>3 DEF Sound

LEMMA TargetGroupSound == \A r : Sane(r) => Sound("elbv2/target-group", r)
<1> SUFFICES ASSUME NEW r, Sane(r) PROVE Sound("elbv2/target-group", r)  OBVIOUS
<1>1. LooksUsed("elbv2/target-group", r) <=> E!L!Within(r.requests, r.lookback)
  <2>1. E!Evidence("elbv2/target-group") = {<<"requests", 30>>}  BY DEF E!Evidence
  <2>2. LooksUsed("elbv2/target-group", r) <=> E!L!Within(r.requests, 30)
    BY <2>1, OneEvidence
  <2> QED  BY <2>2, ValueIs DEF Sane
<1>2. Verdict("elbv2/target-group", r) = E!L!ELBv2TargetGroup(r, r).confidence
  BY DEF Verdict, E!LastUsedOf
<1>3. /\ E!L!ELBv2TargetGroup(r, r).confidence = 3 => E!L!Within(r.requests, r.lookback)
      /\ E!L!Within(r.requests, r.lookback) => E!L!ELBv2TargetGroup(r, r).confidence >= 2
  BY ComposeIs DEF E!L!ELBv2TargetGroup, E!L!High, E!L!Medium, E!L!Low, E!L!Unknown
<1> QED  BY <1>1, <1>2, <1>3 DEF Sound

LEMMA DatabaseSound == \A r : Sane(r) => Sound("rds/db-instance", r)
<1> SUFFICES ASSUME NEW r, Sane(r) PROVE Sound("rds/db-instance", r)  OBVIOUS
<1>1. LooksUsed("rds/db-instance", r) <=> E!L!Within(r.conns, r.lookback)
  <2>1. E!Evidence("rds/db-instance") = {<<"conns", 30>>}  BY DEF E!Evidence
  <2>2. LooksUsed("rds/db-instance", r) <=> E!L!Within(r.conns, 30)
    BY <2>1, OneEvidence
  <2> QED  BY <2>2, ValueIs DEF Sane
<1>2. Verdict("rds/db-instance", r) = E!L!RDSDBInstance(r, r).confidence
  BY DEF Verdict, E!LastUsedOf
<1>3. /\ E!L!RDSDBInstance(r, r).confidence = 3 => E!L!Within(r.conns, r.lookback)
      /\ E!L!Within(r.conns, r.lookback) => E!L!RDSDBInstance(r, r).confidence >= 2
  BY ComposeIs DEF E!L!RDSDBInstance, E!L!High, E!L!Medium, E!L!Low, E!L!Unknown
<1> QED  BY <1>1, <1>2, <1>3 DEF Sound

LEMMA FileSystemSound == \A r : Sane(r) => Sound("efs/file-system", r)
<1> SUFFICES ASSUME NEW r, Sane(r) PROVE Sound("efs/file-system", r)  OBVIOUS
<1> DEFINE used == E!L!Within(r.io, r.lookback) \/ E!L!Within(r.conns, r.lookback)
<1>1. LooksUsed("efs/file-system", r) <=> used
  <2>1. E!Evidence("efs/file-system") = {<<"io", 30>>, <<"conns", 30>>}  BY DEF E!Evidence
  <2>2. (\E e \in E!Evidence("efs/file-system") : E!L!Within(r[e[1]], e[2]))
          <=> E!L!Within(r.io, 30) \/ E!L!Within(r.conns, 30)
    BY <2>1, TwoEvidences
  <2>3. r.lookback = 30  BY ValueIs DEF Sane
  <2> QED  BY <2>2, <2>3 DEF LooksUsed
<1>2. Verdict("efs/file-system", r) = E!L!EFSFileSystem(r, r).confidence
  BY DEF Verdict, E!LastUsedOf
<1>3. /\ E!L!EFSFileSystem(r, r).confidence = 3 => used
      /\ used => E!L!EFSFileSystem(r, r).confidence >= 2
  BY ComposeIs DEF E!L!EFSFileSystem, E!L!High, E!L!Medium, E!L!Low, E!L!Unknown
<1> QED  BY <1>1, <1>2, <1>3 DEF Sound

LEMMA LogGroupSound == \A r : Sane(r) => Sound("logs/log-group", r)
<1> SUFFICES ASSUME NEW r, Sane(r) PROVE Sound("logs/log-group", r)  OBVIOUS
<1>1. LooksUsed("logs/log-group", r) <=> E!L!Within(r.event, 30)
  <2>1. E!Evidence("logs/log-group") = {<<"event", 30>>}  BY DEF E!Evidence
  <2> QED  BY <2>1, OneEvidence
<1>2. Verdict("logs/log-group", r) = E!L!LogsLogGroup(r, r).confidence
  BY DEF Verdict, E!LastUsedOf
<1>3. /\ E!L!LogsLogGroup(r, r).confidence = 3 => E!L!Within(r.event, 30)
      /\ E!L!Within(r.event, 30) => E!L!LogsLogGroup(r, r).confidence >= 2
  BY ComposeIs DEF E!L!LogsLogGroup, E!L!High, E!L!Medium, E!L!Low, E!L!Unknown
<1> QED  BY <1>1, <1>2, <1>3 DEF Sound

LEMMA RepositorySound == \A r : Sane(r) => Sound("ecr/repository", r)
<1> SUFFICES ASSUME NEW r, Sane(r) PROVE Sound("ecr/repository", r)  OBVIOUS
<1>1. LooksUsed("ecr/repository", r) <=> E!L!Within(r.pulled, 90)
  <2>1. E!Evidence("ecr/repository") = {<<"pulled", 90>>}  BY DEF E!Evidence
  <2> QED  BY <2>1, OneEvidence
<1>2. Verdict("ecr/repository", r) = E!L!ECRRepository(r, r).confidence
  BY DEF Verdict, E!LastUsedOf
<1>3. /\ E!L!ECRRepository(r, r).confidence = 3 => E!L!Within(r.pulled, 90)
      /\ E!L!Within(r.pulled, 90) => E!L!ECRRepository(r, r).confidence >= 2
  BY ComposeIs DEF E!L!ECRRepository, E!L!High, E!L!Medium, E!L!Low, E!L!Unknown
<1> QED  BY <1>1, <1>2, <1>3 DEF Sound

LEMMA PipelineSound == \A r : Sane(r) => Sound("codepipeline/artifacts", r)
<1> SUFFICES ASSUME NEW r, Sane(r) PROVE Sound("codepipeline/artifacts", r)  OBVIOUS
<1>1. LooksUsed("codepipeline/artifacts", r) <=> E!L!Within(r.execution, 60)
  <2>1. E!Evidence("codepipeline/artifacts") = {<<"execution", 60>>}  BY DEF E!Evidence
  <2> QED  BY <2>1, OneEvidence
<1>2. Verdict("codepipeline/artifacts", r) = E!L!Pipeline(r, r).confidence
  BY DEF Verdict, E!LastUsedOf
<1>3. /\ E!L!Pipeline(r, r).confidence = 3 => E!L!Within(r.execution, 60)
      /\ E!L!Within(r.execution, 60) => E!L!Pipeline(r, r).confidence >= 2
  BY ComposeIs DEF E!L!Pipeline, E!L!High, E!L!Medium, E!L!Low, E!L!Unknown
<1> QED  BY <1>1, <1>2, <1>3 DEF Sound

\* A snapshot of a database leaves no trace of use.
LEMMA BackupSound == \A r : Sane(r) => Sound("rds/db-snapshot", r)
<1> SUFFICES ASSUME NEW r, Sane(r) PROVE Sound("rds/db-snapshot", r)  OBVIOUS
<1>1. ~LooksUsed("rds/db-snapshot", r)
  BY DEF LooksUsed, E!Evidence
<1>2. Verdict("rds/db-snapshot", r) = E!L!RDSDBSnapshot(r, r).confidence
  BY DEF Verdict, E!LastUsedOf
<1>3. E!L!RDSDBSnapshot(r, r).confidence # 3
  BY ComposeIs DEF E!L!RDSDBSnapshot, E!L!Medium, E!L!Low, E!L!Unknown
<1> QED  BY <1>1, <1>2, <1>3 DEF Sound

LEMMA KindsAre ==
  E!S!Kinds = {"ec2/instance", "ec2/volume", "ec2/snapshot", "ec2/eip", "ec2/nat-gateway",
             "elbv2/load-balancer", "elbv2/target-group", "rds/db-instance",
             "rds/db-snapshot", "efs/file-system", "logs/log-group", "ecr/repository",
             "codepipeline/artifacts", "s3/bucket"}
BY DEF E!S!Kinds, E!S!Catalogue, E!S!Scanner, E!S!EC2Instance, E!S!EC2Volume,
       E!S!EC2Snapshot, E!S!EC2EIP, E!S!EC2NATGateway, E!S!ELBv2LoadBalancer,
       E!S!ELBv2TargetGroup, E!S!RDSDBInstance, E!S!RDSDBSnapshot, E!S!EFSFileSystem,
       E!S!LogsLogGroup, E!S!ECRRepository, E!S!CodePipelineArtifacts, E!S!S3Bucket

LEMMA EveryKindSound == ASSUME NEW k \in E!S!Kinds, NEW r, Sane(r) PROVE Sound(k, r)
BY KindsAre, InstanceSound, VolumeSound, SnapshotSound, AddressSound, GatewaySound,
   BalancerSound, TargetGroupSound, DatabaseSound, BackupSound, FileSystemSound,
   LogGroupSound, RepositorySound, PipelineSound, BucketSound

-----------------------------------------------------------------------------
(* What a row of an address costs *)

\* The library's fold is a table over the subsets of the places; of one place
\* there are two.
LEMMA OneLine ==
  ASSUME NEW x \in Int
  PROVE  E!C!FoldSeq(LAMBDA line, total : line + total, 0, <<x>>) = x
<1> DEFINE lines == <<x>>
           first(s) == CHOOSE i \in s : TRUE
           entry(g, s) == IF s = {} THEN 0 ELSE lines[first(s)] + g[s \ {first(s)}]
           table == CHOOSE g : g = [s \in SUBSET {1} |-> entry(g, s)]
           sums == [s \in SUBSET {1} |-> IF s = {} THEN 0 ELSE x]
<1>1. DOMAIN lines = {1} /\ lines[1] = x
  OBVIOUS
<1>2. E!C!FoldSeq(LAMBDA line, total : line + total, 0, lines) = table[{1}]
  BY <1>1 DEF E!C!FoldSeq, E!C!FoldFunction, E!C!FoldFunctionOnSet, E!C!MapThenFoldSet
<1>3. \A g : entry(g, {}) = 0 /\ entry(g, {1}) = x + g[{}]
  <2>1. first({1}) = 1
    OBVIOUS
  <2>2. {1} \ {1} = {} /\ {1} # {}
    OBVIOUS
  <2> HIDE DEF first, lines
  <2> QED
    BY <1>1, <2>1, <2>2
<1>4. \A s \in SUBSET {1} : s = {} \/ s = {1}
  OBVIOUS
<1>5. \A s \in SUBSET {1} : sums[s] = entry(sums, s)
  <2>1. sums[{}] = 0 /\ sums[{1}] = x
    OBVIOUS
  <2>2. entry(sums, {}) = 0 /\ entry(sums, {1}) = x + sums[{}]
    <3> HIDE DEF sums, entry
    <3> QED
      BY <1>3
  <2>3. entry(sums, {1}) = x
    <3> HIDE DEF sums, entry
    <3> QED
      BY <2>1, <2>2
  <2> HIDE DEF sums, entry
  <2>4. ASSUME NEW s \in SUBSET {1} PROVE sums[s] = entry(sums, s)
    <3>1. CASE s = {}
      BY <2>1, <2>2, <3>1
    <3>2. CASE s = {1}
      BY <2>1, <2>3, <3>2
    <3> QED
      BY <1>4, <3>1, <3>2
  <2> QED
    BY <2>4
<1>6. table = [s \in SUBSET {1} |-> entry(table, s)]
  <2>1. sums = [s \in SUBSET {1} |-> entry(sums, s)]
    BY <1>5
  <2> HIDE DEF sums, entry
  <2> QED
    BY <2>1
<1>7. table[{}] = entry(table, {}) /\ table[{1}] = entry(table, {1})
  <2> HIDE DEF entry, table
  <2> QED
    BY <1>6
<1> HIDE DEF entry, table, lines, first
<1>8. table[{1}] = x
  BY <1>3, <1>7
<1> QED
  BY <1>2, <1>8 DEF lines

\* An address is charged for while it idles.
LEMMA AddressCost ==
  ASSUME NEW r
  PROVE  E!CostOf("ec2/eip", r).usd > 0 <=> ~r.associated
<1>1. E!CostOf("ec2/eip", r) = E!C!EIP(Snap, r)
  BY DEF E!CostOf
<1>2. E!C!Priced(Snap, "eip", "")
  BY AuditAssumption DEF E!EnrichAssumption, E!C!Priced
<1>3. CASE r.associated
  <2>1. E!C!EIP(Snap, r).usd = 0
    BY <1>2, <1>3 DEF E!C!EIP, E!C!Free, E!C!Estimate
  <2> QED
    BY <1>1, <1>3, <2>1
<1>4. CASE ~r.associated
  <2>1. PICK price : price = E!C!Price(Snap, "eip", "").hour * E!C!HoursPerMonth
    OBVIOUS
  <2>2. price \in Int /\ price > 0
    <3>1. Snap[<<"eip", "">>].hour \in Nat /\ Snap[<<"eip", "">>].hour > 0
      BY AuditAssumption DEF E!EnrichAssumption
    <3>2. E!C!Price(Snap, "eip", "") = Snap[<<"eip", "">>]
      BY DEF E!C!Price
    <3>3. price = Snap[<<"eip", "">>].hour * 730
      <4>1. price = Snap[<<"eip", "">>].hour * E!C!HoursPerMonth
        BY <2>1, <3>2
      <4> QED
        BY <4>1 DEF E!C!HoursPerMonth
    <3>4. PICK h : h = Snap[<<"eip", "">>].hour
      OBVIOUS
    <3>5. h \in Nat
      BY <3>1, <3>4
    <3>6. h > 0
      BY <3>1, <3>4
    <3>7. price = h * 730
      BY <3>3, <3>4
    <3> QED
      BY <3>5, <3>6, <3>7
  <2>3. E!C!EIP(Snap, r) = E!C!Sum(E!C!FromSnapshot, <<price>>)
    BY <1>2, <1>4, <2>1 DEF E!C!EIP
  <2>4. E!C!Sum(E!C!FromSnapshot, <<price>>).usd = price
    BY <2>2, OneLine DEF E!C!Sum, E!C!Estimate
  <2> QED
    BY <1>1, <1>4, <2>2, <2>3, <2>4
<1> QED
  BY <1>3, <1>4

-----------------------------------------------------------------------------
(* One row *)

LEMMA EnrichStarts == E!Init => EnrichInv
<1> SUFFICES ASSUME E!Init PROVE EnrichInv
  OBVIOUS
<1>1. /\ step = "idle" /\ facts = E!Missing /\ row = E!Missing
      /\ toAsk = {} /\ failed = {}
  BY DEF E!Init
<1> QED
  BY <1>1, MissingIsSane DEF EnrichInv, Told

\* A resource is met: nothing is kept of it yet.
LEMMA FindKeeps ==
  ASSUME EnrichInv, NEW k \in E!S!Kinds, E!Find(k)
  PROVE  EnrichInv'
<1>1. /\ step = "idle" /\ step' = "found" /\ kind' = k /\ facts' \in E!Facts(k)
      /\ row' = row /\ toAsk' = toAsk /\ failed' = failed
  BY DEF E!Find
<1>2. Sane(facts')
  BY <1>1, FactsAreSane
<1>3. row = E!Missing /\ failed = {} /\ toAsk = {}
  BY <1>1 DEF EnrichInv
<1> QED
  BY <1>1, <1>2, <1>3 DEF EnrichInv, Told

\* What the scanner knows of the resource it keeps, the rest is missing.
LEMMA ScanRowKeeps ==
  ASSUME EnrichInv, E!ScanRow
  PROVE  EnrichInv'
<1>1. /\ step = "found" /\ step' = "asking" /\ wired' = wired /\ kind' = kind
      /\ facts' = facts /\ failed' = failed
      /\ toAsk' = IF wired THEN E!Queries(kind) ELSE {}
  BY DEF E!ScanRow
<1>2. PICK known :
        /\ row' = [x \in DOMAIN E!Missing |-> IF x \in known THEN facts[x] ELSE E!Missing[x]]
        /\ wired => known = E!OwnFields(kind) \cup E!RawFields(kind)
  BY DEF E!ScanRow
<1>3. DOMAIN row' = DOMAIN E!Missing
  BY <1>2
<1>4. \A x \in DOMAIN E!Missing : row'[x] = facts[x] \/ row'[x] = E!Missing[x]
  BY <1>2
<1>5. ASSUME wired, NEW x \in E!Fields(kind) PROVE x \in toAsk' \/ row'[x] = facts[x]
  <2>1. x \in E!OwnFields(kind) \cup E!RawFields(kind) \/ x \in E!Queries(kind)
    BY <1>5 DEF E!Fields
  <2>2. x \in DOMAIN E!Missing
    BY FieldsAre
  <2> QED
    BY <1>1, <1>2, <1>5, <2>1, <2>2
<1>6. Told' /\ Heeded'
  BY <1>1, <1>4, <1>5 DEF Told, Heeded
<1>7. toAsk' \subseteq E!Queries(kind')
  BY <1>1
<1>8. Sane(facts') /\ kind' \in E!S!Kinds
  BY <1>1 DEF EnrichInv
<1> QED
  BY <1>1, <1>3, <1>6, <1>7, <1>8 DEF EnrichInv

\* A query is answered with what is the case.
LEMMA AnsweredKeeps ==
  ASSUME EnrichInv, NEW q \in toAsk, E!Answered(q)
  PROVE  EnrichInv'
<1>1. /\ row' = [row EXCEPT ![q] = facts[q]] /\ toAsk' = toAsk \ {q}
      /\ UNCHANGED <<step, wired, kind, facts, failed, verdict, cost>>
  BY DEF E!Answered
<1>2. /\ step = "asking" /\ Heeded /\ Told /\ DOMAIN row = DOMAIN E!Missing
      /\ Sane(facts) /\ kind \in E!S!Kinds /\ toAsk \subseteq E!Queries(kind)
  BY DEF EnrichInv
<1>3. q \in E!Fields(kind) /\ q \in DOMAIN row /\ E!Fields(kind) \subseteq DOMAIN row
  BY <1>2, FieldsAre
<1>4. /\ DOMAIN row' = DOMAIN E!Missing /\ row'[q] = facts[q]
      /\ \A x \in DOMAIN E!Missing : x # q => row'[x] = row[x]
  BY <1>1, <1>2, <1>3
<1>5. Told'
  BY <1>1, <1>2, <1>4 DEF Told
<1>6. Heeded'
  <2> SUFFICES ASSUME wired, NEW x \in E!Fields(kind)
               PROVE  x \in toAsk' \cup failed' \/ row'[x] = facts[x]
    BY <1>1 DEF Heeded
  <2>1. x \in toAsk \cup failed \/ row[x] = facts[x]
    BY <1>2 DEF Heeded
  <2>2. CASE x = q
    BY <1>4, <2>2
  <2>3. CASE x # q
    <3>1. row'[x] = row[x]
      BY <1>2, <1>3, <1>4, <2>3
    <3> QED
      BY <1>1, <2>1, <2>3, <3>1
  <2> QED
    BY <2>2, <2>3
<1>7. /\ toAsk' \subseteq E!Queries(kind') /\ Sane(facts') /\ kind' \in E!S!Kinds
      /\ step' = "asking"
  BY <1>1, <1>2
<1> QED
  BY <1>4, <1>5, <1>6, <1>7 DEF EnrichInv

LEMMA QueryFailsKeeps ==
  ASSUME EnrichInv, NEW q \in toAsk, E!QueryFails(q)
  PROVE  EnrichInv'
<1>1. /\ toAsk' = toAsk \ {q} /\ failed' = failed \cup {q}
      /\ UNCHANGED <<step, wired, kind, facts, row, verdict, cost>>
  BY DEF E!QueryFails
<1>2. /\ step = "asking" /\ Heeded /\ Told /\ DOMAIN row = DOMAIN E!Missing
      /\ Sane(facts) /\ kind \in E!S!Kinds /\ toAsk \subseteq E!Queries(kind)
  BY DEF EnrichInv
<1>3. Heeded'
  BY <1>1, <1>2 DEF Heeded
<1>4. Told'
  BY <1>1, <1>2 DEF Told
<1>5. /\ toAsk' \subseteq E!Queries(kind') /\ Sane(facts') /\ kind' \in E!S!Kinds
      /\ step' = "asking"
      /\ DOMAIN row' = DOMAIN E!Missing
  BY <1>1, <1>2
<1> QED
  BY <1>3, <1>4, <1>5 DEF EnrichInv

\* The verdict and the price are of the row as it is when nothing is left to ask.
LEMMA JudgeKeeps ==
  ASSUME EnrichInv, E!Judge
  PROVE  EnrichInv'
<1>1. /\ step = "asking" /\ step' = "judged" /\ toAsk = {} /\ verdict' = E!LastUsedOf(kind, row)
      /\ UNCHANGED <<wired, kind, facts, row, toAsk, failed, cost>>
  BY DEF E!Judge
<1>2. Heeded /\ Told /\ DOMAIN row = DOMAIN E!Missing /\ Sane(facts) /\ kind \in E!S!Kinds
  BY <1>1 DEF EnrichInv
<1>3. Heeded' /\ Told'
  BY <1>1, <1>2 DEF Heeded, Told
<1>4. /\ verdict' = E!LastUsedOf(kind', row') /\ Sane(facts') /\ kind' \in E!S!Kinds
      /\ DOMAIN row' = DOMAIN E!Missing /\ toAsk' = {}
  BY <1>1, <1>2
<1> QED
  BY <1>1, <1>3, <1>4 DEF EnrichInv

LEMMA PriceRowKeeps ==
  ASSUME EnrichInv, E!PriceRow
  PROVE  EnrichInv'
<1>1. /\ step = "judged" /\ step' = "over" /\ cost' = E!CostOf(kind, row)
      /\ UNCHANGED <<wired, kind, facts, row, toAsk, failed, verdict>>
  BY DEF E!PriceRow
<1>2. /\ Heeded /\ Told /\ DOMAIN row = DOMAIN E!Missing /\ Sane(facts) /\ kind \in E!S!Kinds
      /\ toAsk = {} /\ verdict = E!LastUsedOf(kind, row)
  BY <1>1 DEF EnrichInv
<1>3. Heeded' /\ Told'
  BY <1>1, <1>2 DEF Heeded, Told
<1>4. /\ verdict' = E!LastUsedOf(kind', row') /\ cost' = E!CostOf(kind', row')
      /\ Sane(facts') /\ kind' \in E!S!Kinds
      /\ DOMAIN row' = DOMAIN E!Missing /\ toAsk' = {}
  BY <1>1, <1>2
<1> QED
  BY <1>1, <1>3, <1>4 DEF EnrichInv

LEMMA EnrichStep == EnrichInv /\ [E!Next]_E!vars => EnrichInv'
<1> SUFFICES ASSUME EnrichInv, [E!Next]_E!vars PROVE EnrichInv'
  OBVIOUS
<1>1. ASSUME NEW k \in E!S!Kinds, E!Find(k) PROVE EnrichInv'
  BY <1>1, FindKeeps
<1>2. CASE E!ScanRow
  BY <1>2, ScanRowKeeps
<1>3. CASE E!Judge
  BY <1>3, JudgeKeeps
<1>4. CASE E!PriceRow
  BY <1>4, PriceRowKeeps
<1>5. ASSUME NEW q \in toAsk, E!Answered(q) PROVE EnrichInv'
  BY <1>5, AnsweredKeeps
<1>6. ASSUME NEW q \in toAsk, E!QueryFails(q) PROVE EnrichInv'
  BY <1>6, QueryFailsKeeps
<1>7. CASE UNCHANGED E!vars
  BY <1>7 DEF E!vars, EnrichInv, Told, Heeded
<1> QED
  BY <1>1, <1>2, <1>3, <1>4, <1>5, <1>6, <1>7 DEF E!Next

-----------------------------------------------------------------------------
(* What the verdict says of the resource *)

\* Evidence is what the kind's composer asks for.
LEMMA EvidenceIsAsked == \A k \in E!S!Kinds : \A e \in E!Evidence(k) : e[1] \in E!Queries(k)
<1> SUFFICES ASSUME NEW k \in E!S!Kinds, NEW e \in E!Evidence(k) PROVE e[1] \in E!Queries(k)
  OBVIOUS
<1> QED
  BY KindsAre DEF E!Evidence, E!Queries

\* A row shows no use that is not there, and none is hidden from it but by a query
\* that is open or failed.
LEMMA RowFitsFacts ==
  ASSUME EnrichInv, kind \in E!S!Kinds
  PROVE  /\ LooksUsed(kind, row) => LooksUsed(kind, facts)
         /\ Heeded /\ wired /\ toAsk = {} /\ failed = {} /\ LooksUsed(kind, facts)
              => LooksUsed(kind, row)
<1>1. Told
  BY DEF EnrichInv
<1>2. \A e \in E!Evidence(kind) :
        e[1] \in E!Times /\ e[1] \in E!Fields(kind) /\ e[1] \in DOMAIN E!Missing
  BY EvidenceIsAsked, FieldsAre
<1>3. /\ "associated" \in DOMAIN E!Missing /\ "state" \in DOMAIN E!Missing
      /\ "associated" \in E!Fields("ec2/eip") /\ "state" \in E!Fields("ec2/volume")
  <2>1. "associated" \in DOMAIN E!Missing /\ "state" \in DOMAIN E!Missing
    BY MissingIs DEF E!Flags
  <2>2. "associated" \in E!RawFields("ec2/eip") /\ "state" \in E!OwnFields("ec2/volume")
    BY DEF E!RawFields, E!OwnFields
  <2> QED
    BY <2>1, <2>2 DEF E!Fields
<1>4. ASSUME LooksUsed(kind, row) PROVE LooksUsed(kind, facts)
  <2>1. CASE kind = "ec2/eip"
    <3>1. row.associated
      BY <1>4, <2>1 DEF LooksUsed
    <3>2. row.associated = facts.associated \/ row.associated = FALSE
      BY <1>1, <1>3, MissingIs DEF Told
    <3>3. facts.associated
      BY <3>1, <3>2
    <3> QED
      BY <2>1, <3>3 DEF LooksUsed
  <2>2. CASE kind # "ec2/eip"
    <3>1. PICK e \in E!Evidence(kind) : E!L!Within(row[e[1]], e[2])
      BY <1>4, <2>2 DEF LooksUsed
    <3>2. row[e[1]] = facts[e[1]] \/ row[e[1]] = E!Missing[e[1]]
      BY <1>1, <1>2 DEF Told
    <3>3. E!Missing[e[1]] = E!L!NoValue
      BY <1>2, MissingIs DEF E!NoValue
    <3>4. row[e[1]] = facts[e[1]]
      BY <3>1, <3>2, <3>3 DEF E!L!Within
    <3>5. kind = "ec2/volume" => facts.state = "in-use"
      <4> SUFFICES ASSUME kind = "ec2/volume" PROVE facts.state = "in-use"
        OBVIOUS
      <4>1. row.state = "in-use"
        BY <1>4 DEF LooksUsed
      <4>2. row.state = facts.state \/ row.state = ""
        BY <1>1, <1>3, MissingIs DEF Told
      <4> QED
        BY <4>1, <4>2
    <3> QED
      BY <2>2, <3>1, <3>4, <3>5 DEF LooksUsed
  <2> QED
    BY <2>1, <2>2
<1>5. ASSUME Heeded, wired, toAsk = {}, failed = {}, LooksUsed(kind, facts)
      PROVE  LooksUsed(kind, row)
  <2>0. \A x \in E!Fields(kind) : row[x] = facts[x]
    BY <1>5 DEF Heeded
  <2>1. CASE kind = "ec2/eip"
    <3>1. row.associated = facts.associated
      BY <1>3, <2>0, <2>1
    <3> QED
      BY <1>5, <2>1, <3>1 DEF LooksUsed
  <2>2. CASE kind # "ec2/eip"
    <3>1. PICK e \in E!Evidence(kind) : E!L!Within(facts[e[1]], e[2])
      BY <1>5, <2>2 DEF LooksUsed
    <3>2. row[e[1]] = facts[e[1]]
      BY <1>2, <2>0
    <3>3. kind = "ec2/volume" => row.state = facts.state
      BY <1>3, <2>0
    <3>4. kind = "ec2/volume" => facts.state = "in-use"
      BY <1>5, <2>2 DEF LooksUsed
    <3> QED
      BY <2>2, <3>1, <3>2, <3>3, <3>4 DEF LooksUsed
  <2> QED
    BY <2>1, <2>2
<1> QED
  BY <1>4, <1>5

LEMMA RowIsSane == EnrichInv => Sane(row)
<1> SUFFICES ASSUME EnrichInv PROVE Sane(row)
  OBVIOUS
<1>1. Told /\ Sane(facts) /\ DOMAIN row = DOMAIN E!Missing
  BY DEF EnrichInv
<1>2. Sane(E!Missing)
  BY MissingIsSane
<1>3. /\ E!Times \subseteq DOMAIN E!Missing /\ E!Metrics \subseteq DOMAIN E!Missing
      /\ "lookback" \in DOMAIN E!Missing
  BY MissingIs DEF E!Times
<1>4. \A x \in E!Times : row[x] \in AgesOrNone
  BY <1>1, <1>2, <1>3 DEF Told, Sane
<1>5. \A x \in E!Metrics : row[x] <= E!L!DefaultLookbackDays
  BY <1>1, <1>2, <1>3 DEF Told, Sane
<1>6. row["lookback"] = E!L!DefaultLookbackDays
  BY <1>1, <1>2, <1>3 DEF Told, Sane
<1> QED
  BY <1>1, <1>4, <1>5, <1>6 DEF Sane

LEMMA EnrichSafe == EnrichInv => VerdictFitsFacts
<1> SUFFICES ASSUME EnrichInv PROVE VerdictFitsFacts
  OBVIOUS
<1>0. Sane(row)
  BY RowIsSane
<1>1. E!InUse <=> LooksUsed(kind, facts)
  BY DEF E!InUse, LooksUsed
<1>2. ASSUME step \in {"judged", "over"}, wired
      PROVE  /\ verdict.confidence = E!L!High => E!InUse
             /\ E!InUse /\ failed = {} => verdict.confidence >= E!L!Medium
  <2>1. /\ kind \in E!S!Kinds /\ toAsk = {} /\ Heeded
        /\ verdict = E!LastUsedOf(kind, row)
    BY <1>2 DEF EnrichInv
  <2>2. Sound(kind, row)
    BY <1>0, <2>1, EveryKindSound
  <2>3. verdict.confidence = Verdict(kind, row)
    BY <2>1 DEF Verdict
  <2>4. verdict.confidence = 3 => E!InUse
    BY <1>1, <2>1, <2>2, <2>3, RowFitsFacts DEF Sound
  <2>5. E!InUse /\ failed = {} => verdict.confidence >= 2
    BY <1>1, <1>2, <2>1, <2>2, <2>3, RowFitsFacts DEF Sound
  <2> QED
    BY <2>4, <2>5 DEF E!L!High, E!L!Medium
<1>3. E!LayersAgree
  <2> SUFFICES ASSUME step = "over", kind = "ec2/eip"
               PROVE  verdict.confidence = E!L!Low <=> cost.usd > 0
    BY DEF E!LayersAgree
  <2>1. verdict = E!LastUsedOf("ec2/eip", row) /\ cost = E!CostOf("ec2/eip", row)
    BY DEF EnrichInv
  <2>2. verdict.confidence = 1 <=> ~row.associated
    BY <1>0, <2>1, AddressSound DEF Verdict
  <2>3. cost.usd > 0 <=> ~row.associated
    BY <2>1, AddressCost
  <2> QED
    BY <2>2, <2>3 DEF E!L!Low
<1> QED
  BY <1>2, <1>3 DEF VerdictFitsFacts, E!VerdictFitsFacts

\* The verdict on a row follows what is the case, and the price of an address the
\* verdict (composer.go:18-49, per_kind/*.go, cost.go:36-39).
THEOREM VerdictsFitFacts == E!Spec => []VerdictFitsFacts
<1>1. E!Init => EnrichInv
  BY EnrichStarts
<1>2. EnrichInv /\ [E!Next]_E!vars => EnrichInv'
  BY EnrichStep
<1>3. EnrichInv => VerdictFitsFacts
  BY EnrichSafe
<1> QED
  BY <1>1, <1>2, <1>3, PTL DEF E!Spec
=============================================================================
