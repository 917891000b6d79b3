--------------------------- MODULE CostMeterProofs ---------------------------
(***************************************************************************)
(* What the caps and the totals are worth, for any number of callers, any  *)
(* caps and any prices. CapInv and DayInv weigh each admitted call at the  *)
(* most it can cost, so admitting a call and recording it both leave the   *)
(* bounds standing. The sums over calls and days that the meter seeds      *)
(* itself from are folds: the lemmas on them go by the least set for which *)
(* they could fail, an induction the provers can follow.                   *)
(***************************************************************************)
EXTENDS CostMeter, FiniteSetTheorems, WellFoundedInduction, TLAPS

CapInv ==
  /\ sessionUSD \in Nat
  /\ stage \in [Callers -> {"idle", "inflight", "stamped", "counted"}]
  /\ cost \in [Callers -> Costs]
  /\ SessionOvershootBounded

\* Multiplication by a price is monotone.
LEMMA Weighs ==
  ASSUME NEW a \in Nat, NEW b \in Nat, NEW m \in Nat, a <= b
  PROVE  a * m <= b * m
<1>1. (b - a) * m >= 0
  OBVIOUS
<1>2. (b - a) * m = b * m - a * m
  OBVIOUS
<1> QED
  BY <1>1, <1>2

\* The calls in flight are finitely many, at most all of them.
LEMMA InFlightFinite ==
  ASSUME NEW S \in SUBSET Callers
  PROVE  /\ IsFiniteSet(S)
         /\ Cardinality(S) \in Nat
         /\ Cardinality(Callers) \in Nat
         /\ Cardinality(S) <= Cardinality(Callers)
BY MeterAssumption, FS_Subset, FS_CardinalityType

\* A step that neither admits a call nor raises the session total.
LEMMA FewerInFlight ==
  ASSUME CapInv, SessionCap > 0, sessionUSD' \in Nat,
         sessionUSD' <= sessionUSD,
         InFlight' \subseteq InFlight
  PROVE  SessionOvershootBounded'
<1>1. InFlight \in SUBSET Callers /\ InFlight' \in SUBSET Callers
  BY DEF InFlight
<1>2. Cardinality(InFlight') <= Cardinality(InFlight)
  BY <1>1, InFlightFinite, FS_Subset
<1>3. Cardinality(InFlight') * MaxCost <= Cardinality(InFlight) * MaxCost
  BY <1>1, <1>2, InFlightFinite, Weighs, MeterAssumption
<1>4. /\ Cardinality(InFlight') * MaxCost \in Nat
      /\ Cardinality(InFlight) * MaxCost \in Nat
      /\ Cardinality(Callers) * MaxCost \in Nat
  BY <1>1, InFlightFinite, MeterAssumption
<1> QED
  BY <1>3, <1>4, MeterAssumption DEF CapInv, SessionOvershootBounded

LEMMA InitCapInv == MeterInit => CapInv
<1> SUFFICES ASSUME MeterInit
             PROVE  CapInv
  OBVIOUS
<1>1. InFlight = {}
  BY DEF MeterInit, InFlight
<1>2. Cardinality(InFlight) = 0
  BY <1>1, FS_EmptySet
<1>3. Cardinality(Callers) * MaxCost \in Nat
  BY InFlightFinite, MeterAssumption
<1> QED
  BY <1>2, <1>3, MeterAssumption
     DEF MeterInit, CapInv, SessionOvershootBounded, Costs

LEMMA StepCapInv == CapInv /\ [MeterNext]_spendVars => CapInv'
<1> SUFFICES ASSUME CapInv, [MeterNext]_spendVars
             PROVE  CapInv'
  OBVIOUS
<1> USE DEF CapInv, Costs
<1>1. ASSUME NEW c \in Callers, NEW p \in Costs, PreCall(c, p)
      PROVE  CapInv'
  <2>1. sessionUSD' = sessionUSD /\ cost' = cost
        /\ stage' \in [Callers -> {"idle", "inflight", "stamped", "counted"}]
    BY <1>1 DEF PreCall
  <2>2. ASSUME SessionCap > 0
        PROVE  SessionOvershootBounded'
    <3>1. CASE WithinCaps(p)
      <4>1. sessionUSD <= SessionCap
        BY <2>2, <3>1, MeterAssumption DEF WithinCaps
      <4>2. InFlight' \in SUBSET Callers
        BY DEF InFlight
      <4>3. Cardinality(InFlight') * MaxCost <= Cardinality(Callers) * MaxCost
        BY <4>2, InFlightFinite, Weighs, MeterAssumption
      <4>4. /\ Cardinality(InFlight') * MaxCost \in Nat
            /\ Cardinality(Callers) * MaxCost \in Nat
        BY <4>2, InFlightFinite, MeterAssumption
      <4> QED
        BY <2>1, <4>1, <4>3, <4>4, MeterAssumption
           DEF SessionOvershootBounded
    <3>2. CASE ~WithinCaps(p)
      <4>1. InFlight' \subseteq InFlight
        BY <1>1, <3>2 DEF PreCall, InFlight
      <4> QED
        BY <2>1, <2>2, <4>1, FewerInFlight
    <3> QED BY <3>1, <3>2
  <2> QED
    BY <2>1, <2>2 DEF SessionOvershootBounded
<1>2. ASSUME NEW c \in Callers, CountUsage(c)
      PROVE  CapInv'
  <2>1. /\ sessionUSD' = sessionUSD + cost[c]
        /\ cost[c] \in 1..MaxCost
        /\ cost' = cost
        /\ stage' \in [Callers -> {"idle", "inflight", "stamped", "counted"}]
    BY <1>2 DEF CountUsage
  <2>2. sessionUSD' \in Nat
    BY <2>1, MeterAssumption
  <2>3. ASSUME SessionCap > 0
        PROVE  SessionOvershootBounded'
    <3>1. InFlight \in SUBSET Callers /\ c \in InFlight
          /\ InFlight' = InFlight \ {c}
      BY <1>2 DEF CountUsage, InFlight
    <3>2. Cardinality(InFlight') = Cardinality(InFlight) - 1
      BY <3>1, InFlightFinite, FS_RemoveElement
    <3>3. Cardinality(InFlight) \in Nat /\ Cardinality(Callers) \in Nat
      BY <3>1, InFlightFinite
    <3>4. Cardinality(InFlight') * MaxCost
            = Cardinality(InFlight) * MaxCost - MaxCost
      BY <3>2, <3>3, MeterAssumption
    <3>5. /\ Cardinality(InFlight) * MaxCost \in Nat
          /\ Cardinality(Callers) * MaxCost \in Nat
      BY <3>3, MeterAssumption
    <3> QED
      BY <2>1, <2>3, <3>4, <3>5, MeterAssumption
         DEF SessionOvershootBounded
  <2> QED
    BY <2>1, <2>2, <2>3 DEF SessionOvershootBounded
<1>3. ASSUME \/ NewSession \/ Exit \/ Midnight \/ Snapshot \/ ResetSession
             \/ \E c \in Callers : NoUsage(c) \/ WriteRow(c)
             \/ \E c \in Callers, usd \in Costs : TakeStamp(c, usd)
             \/ UNCHANGED spendVars
      PROVE  CapInv'
  <2>1. /\ sessionUSD' \in Nat
        /\ sessionUSD' <= sessionUSD
    BY <1>3 DEF NewSession, Exit, Midnight, Snapshot, ResetSession, NoUsage,
       WriteRow, TakeStamp, spendVars, meterVars
  <2>2. /\ stage' \in [Callers -> {"idle", "inflight", "stamped", "counted"}]
        /\ cost' \in [Callers -> Costs]
    BY <1>3 DEF NewSession, Exit, Midnight, Snapshot, ResetSession, NoUsage,
       WriteRow, TakeStamp, spendVars, callVars
  <2>3. InFlight' \subseteq InFlight
    BY <1>3 DEF NewSession, Exit, Midnight, Snapshot, ResetSession, NoUsage,
       WriteRow, TakeStamp, spendVars, callVars, InFlight
  <2>4. SessionCap > 0 => SessionOvershootBounded'
    BY <2>1, <2>3, FewerInFlight
  <2> QED
    BY <2>1, <2>2, <2>4 DEF SessionOvershootBounded
<1> QED
  BY <1>1, <1>2, <1>3 DEF MeterNext, spendVars

\* The session cap is overshot by at most the price of the calls that were
\* admitted while the total was still under it: one per concurrent caller.
THEOREM SessionCapBound == MeterSpec => []SessionOvershootBounded
<1>1. CapInv => SessionOvershootBounded
  BY DEF CapInv
<1> QED
  BY <1>1, InitCapInv, StepCapInv, PTL DEF MeterSpec

-----------------------------------------------------------------------------
(* Sums *)

\* A non-empty set of naturals has a least element: what the inductions below
\* take instead of the library's rules, which no installed prover can apply.
LEMMA LeastNatural ==
  ASSUME NEW T \in SUBSET Nat, T # {}
  PROVE  \E x \in T : \A y \in T : x <= y
<1>1. \E x \in T : \A y \in T : <<y, x>> \notin OpToRel(<, Nat)
  BY NatLessThanWellFounded, WFMin
<1>2. PICK x \in T : \A y \in T : <<y, x>> \notin OpToRel(<, Nat)
  BY <1>1
<1>3. \A y \in T : ~(y < x)
  BY <1>2 DEF OpToRel
<1> QED
  BY <1>3

\* The element a fold takes next, and the table of sums it is defined by.
FirstOf(s) == CHOOSE x \in s : TRUE
Row(f, g, s) == IF s = {} THEN 0 ELSE f[FirstOf(s)] + g[s \ {FirstOf(s)}]
Table(f, S) == CHOOSE g : g = [s \in SUBSET S |-> Row(f, g, s)]

LEMMA SumIsTable == \A f : SumOf(f) = Table(f, DOMAIN f)[DOMAIN f]
BY DEF SumOf, FoldFunction, FoldFunctionOnSet, MapThenFoldSet, Table, Row, FirstOf

\* Sizes: a set with one element less.
LEMMA Smaller ==
  ASSUME NEW S, IsFiniteSet(S), NEW s \in SUBSET S, NEW x \in s
  PROVE  /\ IsFiniteSet(s) /\ Cardinality(s) \in Nat /\ Cardinality(s \ {x}) \in Nat
         /\ Cardinality(s \ {x}) = Cardinality(s) - 1
         /\ Cardinality(s) <= Cardinality(S) /\ Cardinality(S) \in Nat
<1>1. IsFiniteSet(s) /\ Cardinality(s) <= Cardinality(S)
  BY FS_Subset
<1>2. Cardinality(s \ {x}) = Cardinality(s) - 1 /\ IsFiniteSet(s \ {x})
  BY <1>1, FS_RemoveElement
<1> QED
  BY <1>1, <1>2, FS_CardinalityType

\* The table exists: build it for sets of growing size.
LEMMA TableExists ==
  ASSUME NEW S, IsFiniteSet(S), NEW f
  PROVE  Table(f, S) = [s \in SUBSET S |-> Row(f, Table(f, S), s)]
<1> DEFINE Good(g, n) == \A s \in SUBSET S : Cardinality(s) <= n => g[s] = Row(f, g, s)
           T == {n \in Nat : ~ \E g : Good(g, n)}
<1>1. T = {}
  <2> SUFFICES ASSUME T # {} PROVE FALSE
    OBVIOUS
  <2>1. PICK n \in T : \A m \in T : n <= m
    <3> HIDE DEF T
    <3>1. T \in SUBSET Nat
      BY DEF T
    <3> QED
      BY <3>1, LeastNatural
  <2>2. PICK g : n > 0 => Good(g, n - 1)
    <3>1. n > 0 => n - 1 \notin T /\ n - 1 \in Nat
      BY <2>1
    <3> QED
      BY <3>1
  <2> DEFINE h == [s \in SUBSET S |-> Row(f, g, s)]
  <2>3. Good(h, n)
    <3> SUFFICES ASSUME NEW s \in SUBSET S, Cardinality(s) <= n
                 PROVE  h[s] = Row(f, h, s)
      OBVIOUS
    <3>1. CASE s = {}
      BY <3>1 DEF Row
    <3>2. CASE s # {}
      <4> DEFINE x == FirstOf(s)
      <4>1. x \in s
        BY <3>2 DEF FirstOf
      <4>2. s \ {x} \in SUBSET S
        OBVIOUS
      <4> HIDE DEF x
      <4>3. n \in Nat /\ n > 0 /\ Cardinality(s \ {x}) <= n - 1
        BY <4>1, Smaller
      <4>4. g[s \ {x}] = Row(f, g, s \ {x})
        BY <2>2, <4>2, <4>3
      <4>5. h[s \ {x}] = g[s \ {x}]
        BY <4>2, <4>4
      <4>6. h[s] = f[x] + g[s \ {x}] /\ Row(f, h, s) = f[x] + h[s \ {x}]
        BY <3>2 DEF Row, x
      <4> QED
        BY <4>5, <4>6
    <3> QED
      BY <3>1, <3>2
  <2>4. n \notin T
    <3> HIDE DEF h
    <3> QED
      BY <2>3
  <2> QED
    BY <2>1, <2>4
<1>2. PICK g : Good(g, Cardinality(S))
  BY <1>1, FS_CardinalityType
<1> DEFINE h == [s \in SUBSET S |-> g[s]]
<1>3. \A s \in SUBSET S : s \ {FirstOf(s)} \in SUBSET S /\ Cardinality(s) <= Cardinality(S)
  BY FS_Subset
<1>4. \A s \in SUBSET S : h[s] = Row(f, h, s)
  BY <1>2, <1>3 DEF Row
<1>5. h = [s \in SUBSET S |-> Row(f, h, s)]
  BY <1>4
<1> HIDE DEF h
<1> QED
  BY <1>5 DEF Table

LEMMA TableRow ==
  ASSUME NEW S, IsFiniteSet(S), NEW f, NEW s \in SUBSET S
  PROVE  /\ s = {} => Table(f, S)[s] = 0
         /\ s # {} => /\ FirstOf(s) \in s
                      /\ Table(f, S)[s] = f[FirstOf(s)] + Table(f, S)[s \ {FirstOf(s)}]
<1>1. Table(f, S)[s] = Row(f, Table(f, S), s)
  <2> DEFINE t == Table(f, S)
  <2>1. t = [u \in SUBSET S |-> Row(f, t, u)]
    BY TableExists
  <2> HIDE DEF t
  <2>2. t[s] = Row(f, t, s)
    BY <2>1
  <2> QED
    BY <2>2 DEF t
<1> QED
  BY <1>1 DEF Row, FirstOf

\* Induction on the size of a subset: the least one that fails.
\* The sum of naturals is a natural, whichever element is taken first.
LEMMA AnyFirst ==
  ASSUME NEW S, IsFiniteSet(S), NEW f \in [S -> Nat]
  PROVE  \A s \in SUBSET S :
           /\ Table(f, S)[s] \in Nat
           /\ \A x \in s : Table(f, S)[s] = f[x] + Table(f, S)[s \ {x}]
<1> DEFINE t == Table(f, S)
           Fine(s) == /\ t[s] \in Nat
                      /\ \A x \in s : t[s] = f[x] + t[s \ {x}]
           T == {n \in Nat : \E s \in SUBSET S : Cardinality(s) = n /\ ~Fine(s)}
<1>0. \A s \in SUBSET S :
        /\ s = {} => t[s] = 0
        /\ s # {} => FirstOf(s) \in s /\ t[s] = f[FirstOf(s)] + t[s \ {FirstOf(s)}]
  BY TableRow
<1> HIDE DEF t
<1>1. T = {}
  <2> SUFFICES ASSUME T # {} PROVE FALSE
    OBVIOUS
  <2>1. PICK n \in T : \A m \in T : n <= m
    <3> HIDE DEF T
    <3>1. T \in SUBSET Nat
      BY DEF T
    <3> QED
      BY <3>1, LeastNatural
  <2>2. PICK s \in SUBSET S : Cardinality(s) = n /\ ~Fine(s)
    BY <2>1
  <2>3. ASSUME NEW x \in s
        PROVE  Fine(s \ {x})
    <3>1. s \ {x} \in SUBSET S /\ Cardinality(s \ {x}) \in Nat /\ Cardinality(s \ {x}) < n
      BY <2>2, Smaller
    <3>2. Cardinality(s \ {x}) \notin T
      <4>1. n \in Nat
        OBVIOUS
      <4>2. ~(n <= Cardinality(s \ {x}))
        BY <3>1, <4>1
      <4> HIDE DEF T, Fine
      <4> QED
        BY <2>1, <4>2
    <3> HIDE DEF Fine
    <3> QED
      BY <3>1, <3>2
  <2> DEFINE p == FirstOf(s)
  <2>4. s # {}
    <3>1. s = {} => t[s] = 0
      BY <1>0
    <3>2. s = {} => Fine(s)
      BY <3>1
    <3> HIDE DEF Fine
    <3> QED
      BY <2>2, <3>2
  <2>5. p \in s /\ t[s] = f[p] + t[s \ {p}]
    BY <1>0, <2>4
  <2> HIDE DEF p
  <2>6. t[s] \in Nat
    <3>1. t[s \ {p}] \in Nat /\ f[p] \in Nat
      BY <2>3, <2>5
    <3> QED
      BY <2>5, <3>1
  <2>7. ASSUME NEW x \in s, x # p
        PROVE  t[s] = f[x] + t[s \ {x}]
    <3>1. t[s \ {p}] = f[x] + t[(s \ {p}) \ {x}]
      BY <2>3, <2>5, <2>7
    <3>2. t[s \ {x}] = f[p] + t[(s \ {x}) \ {p}]
      BY <2>3, <2>5, <2>7
    <3>3. (s \ {p}) \ {x} = (s \ {x}) \ {p}
      OBVIOUS
    <3>4. t[(s \ {p}) \ {x}] \in Nat /\ f[x] \in Nat /\ f[p] \in Nat
      <4>1. s \ {p} \in SUBSET S /\ x \in s \ {p}
        BY <2>7
      <4>2. Fine(s \ {p}) /\ Fine(s \ {x})
        BY <2>3, <2>5
      <4>3. t[s \ {p}] \in Nat /\ t[s \ {x}] \in Nat
        BY <4>2
      <4>4. (s \ {p}) \ {x} \in SUBSET S /\ Cardinality((s \ {p}) \ {x}) \in Nat
            /\ Cardinality((s \ {p}) \ {x}) < n
        <5>1. /\ Cardinality((s \ {p}) \ {x}) = Cardinality(s \ {p}) - 1
              /\ Cardinality((s \ {p}) \ {x}) \in Nat
          BY <4>1, Smaller
        <5>2. Cardinality(s \ {p}) = Cardinality(s) - 1 /\ Cardinality(s) \in Nat
          BY <2>5, Smaller
        <5> QED
          BY <2>2, <5>1, <5>2
      <4>5. Cardinality((s \ {p}) \ {x}) \notin T
        BY <2>1, <4>4
      <4>6. Fine((s \ {p}) \ {x})
        <5> HIDE DEF Fine
        <5> QED
          BY <4>4, <4>5
      <4> QED
        BY <4>6, <2>5, <2>7
    <3>5. \A a, b, d \in Nat : a + (b + d) = b + (a + d)
      OBVIOUS
    <3>6. t[s] = f[p] + (f[x] + t[(s \ {p}) \ {x}])
      BY <2>5, <3>1
    <3>7. f[x] + t[s \ {x}] = f[x] + (f[p] + t[(s \ {p}) \ {x}])
      BY <3>2, <3>3
    <3> QED
      BY <3>4, <3>5, <3>6, <3>7
  <2>8. Fine(s)
    BY <2>5, <2>6, <2>7
  <2> QED
    BY <2>2, <2>8
<1>2. ASSUME NEW s \in SUBSET S PROVE Fine(s)
  <2>1. IsFiniteSet(s) /\ Cardinality(s) \in Nat
    BY FS_Subset, FS_CardinalityType
  <2> HIDE DEF Fine
  <2> QED
    BY <1>1, <2>1
<1> QED
  BY <1>2 DEF t

\* The sum over a set does not look at the function outside it.
LEMMA SameRows ==
  ASSUME NEW S, IsFiniteSet(S), NEW f, NEW g, NEW s \in SUBSET S,
         \A x \in s : f[x] = g[x]
  PROVE  Table(f, S)[s] = Table(g, S)[s]
<1> DEFINE Same(u) == (\A x \in u : f[x] = g[x]) => Table(f, S)[u] = Table(g, S)[u]
           T == {n \in Nat : \E u \in SUBSET S : Cardinality(u) = n /\ ~Same(u)}
<1>1. T = {}
  <2> SUFFICES ASSUME T # {} PROVE FALSE
    OBVIOUS
  <2>1. PICK n \in T : \A m \in T : n <= m
    <3> HIDE DEF T
    <3>1. T \in SUBSET Nat
      BY DEF T
    <3> QED
      BY <3>1, LeastNatural
  <2>2. PICK u \in SUBSET S : Cardinality(u) = n /\ ~Same(u)
    BY <2>1
  <2> DEFINE p == FirstOf(u)
  <2>3. u # {}
    BY <2>2, TableRow
  <2>4. /\ p \in u
        /\ Table(f, S)[u] = f[p] + Table(f, S)[u \ {p}]
        /\ Table(g, S)[u] = g[p] + Table(g, S)[u \ {p}]
    BY <2>3, TableRow
  <2> HIDE DEF p
  <2>5. u \ {p} \in SUBSET S /\ Cardinality(u \ {p}) \in Nat /\ Cardinality(u \ {p}) < n
    BY <2>2, <2>4, Smaller
  <2>6. Same(u \ {p})
    <3>1. Cardinality(u \ {p}) \notin T
      BY <2>1, <2>5
    <3> HIDE DEF Same
    <3> QED
      BY <2>5, <3>1
  <2> QED
    BY <2>2, <2>4, <2>6
<1>2. Same(s)
  <2>1. Cardinality(s) \in Nat
    BY FS_Subset, FS_CardinalityType
  <2> HIDE DEF Same
  <2> QED
    BY <1>1, <2>1
<1> QED
  BY <1>2

\* Changing one summand changes the sum by the difference.
LEMMA SumUpdate ==
  ASSUME NEW S, IsFiniteSet(S), NEW f \in [S -> Nat], NEW g \in [S -> Nat],
         NEW c \in S, \A x \in S \ {c} : g[x] = f[x]
  PROVE  SumOf(g) = SumOf(f) - f[c] + g[c]
<1>1. SumOf(f) = f[c] + Table(f, S)[S \ {c}] /\ SumOf(g) = g[c] + Table(g, S)[S \ {c}]
  <2>1. SumOf(f) = Table(f, S)[S] /\ SumOf(g) = Table(g, S)[S]
    BY SumIsTable
  <2>2. ASSUME NEW h \in [S -> Nat]
        PROVE  Table(h, S)[S] = h[c] + Table(h, S)[S \ {c}]
    <3>1. \A s \in SUBSET S :
            /\ Table(h, S)[s] \in Nat
            /\ \A x \in s : Table(h, S)[s] = h[x] + Table(h, S)[s \ {x}]
      BY AnyFirst
    <3> QED
      BY <3>1
  <2> QED
    BY <2>1, <2>2
<1>2. Table(f, S)[S \ {c}] = Table(g, S)[S \ {c}]
  BY SameRows
<1>3. Table(f, S)[S \ {c}] \in Nat
  BY AnyFirst
<1> QED
  BY <1>1, <1>2, <1>3

LEMMA SumNatural ==
  ASSUME NEW S, IsFiniteSet(S), NEW f \in [S -> Nat]
  PROVE  /\ SumOf(f) \in Nat
         /\ \A c \in S : f[c] <= SumOf(f)
<1>1. SumOf(f) = Table(f, S)[S]
  BY SumIsTable
<1>2. \A c \in S : S \ {c} \in SUBSET S
  OBVIOUS
<1>3. \A c \in S : Table(f, S)[S \ {c}] \in Nat /\ f[c] \in Nat
  BY <1>2, AnyFirst
<1>4. /\ Table(f, S)[S] \in Nat
      /\ \A c \in S : Table(f, S)[S] = f[c] + Table(f, S)[S \ {c}]
  BY AnyFirst
<1>5. \A a, b \in Nat : a <= a + b
  OBVIOUS
<1>6. ASSUME NEW c \in S PROVE f[c] <= SumOf(f)
  <2>1. SumOf(f) = f[c] + Table(f, S)[S \ {c}]
    BY <1>1, <1>4
  <2> QED
    BY <1>3, <1>5, <2>1
<1> QED
  BY <1>1, <1>4, <1>6

\* A sum of nothing but zeros.
LEMMA SumZero ==
  ASSUME NEW S, IsFiniteSet(S)
  PROVE  SumOf([c \in S |-> 0]) = 0
<1> DEFINE f == [c \in S |-> 0]
           t == Table(f, S)
           Zero(u) == t[u] = 0
           T == {n \in Nat : \E s \in SUBSET S : Cardinality(s) = n /\ ~Zero(s)}
<1> HIDE DEF f
<1>0. \A s \in SUBSET S :
        /\ s = {} => t[s] = 0
        /\ s # {} => FirstOf(s) \in s /\ t[s] = f[FirstOf(s)] + t[s \ {FirstOf(s)}]
  BY TableRow
<1> HIDE DEF t
<1>1. T = {}
  <2> SUFFICES ASSUME T # {} PROVE FALSE
    OBVIOUS
  <2>1. PICK n \in T : \A m \in T : n <= m
    <3> HIDE DEF T
    <3>1. T \in SUBSET Nat
      BY DEF T
    <3> QED
      BY <3>1, LeastNatural
  <2>2. PICK s \in SUBSET S : Cardinality(s) = n /\ ~Zero(s)
    BY <2>1
  <2> DEFINE p == FirstOf(s)
  <2>3. s # {}
    BY <1>0, <2>2
  <2>4. p \in s /\ t[s] = f[p] + t[s \ {p}]
    BY <1>0, <2>3
  <2> HIDE DEF p
  <2>5. s \ {p} \in SUBSET S /\ Cardinality(s \ {p}) \in Nat /\ Cardinality(s \ {p}) < n
    BY <2>2, <2>4, Smaller
  <2>6. Zero(s \ {p})
    <3>1. n \in Nat
      OBVIOUS
    <3> HIDE DEF Zero
    <3>2. Cardinality(s \ {p}) \notin T
      <4> HIDE DEF T
      <4> QED
        BY <2>1, <2>5, <3>1
    <3> QED
      BY <2>5, <3>2
  <2>7. f[p] = 0
    BY <2>4 DEF f
  <2> QED
    BY <2>2, <2>4, <2>6, <2>7
<1>2. t[S] = 0
  BY <1>1, FS_CardinalityType
<1>3. DOMAIN f = S
  BY DEF f
<1> QED
  BY <1>2, <1>3, SumIsTable DEF f, t

-----------------------------------------------------------------------------
(* The day's cap and the lifetime total *)

\* What ties the day's real spend to what the meter sees and the file holds:
\* the meter is short of it by what was missing at the seeding at most, and the
\* file, with the rows on their way to it, by what has no row dated today.
SeedInv ==
  /\ blind <= missed
  /\ spent <= RolledOver + blind
  /\ spent <= file[date] + SumOf(RowsOf(date)) + missed

DayInv == MeterTypeOK /\ SeedInv /\ DayOvershootBounded

\* The primed sums are the sums of the primed functions.
LEMMA SumPrimed ==
  /\ SumOf(file)' = SumOf(file')
  /\ SumOf(Unwritten)' = SumOf(Unwritten')
  /\ SumOf(RowsOf(date))' = SumOf(RowsOf(date)')
BY DEF SumOf, FoldFunction, FoldFunctionOnSet, MapThenFoldSet

LEMMA DaysFinite == IsFiniteSet(Days)
BY MeterAssumption, FS_Interval DEF Days

LEMMA PendingType ==
  ASSUME MeterTypeOK
  PROVE  /\ Unwritten \in [Callers -> Nat] /\ SumOf(Unwritten) \in Nat
         /\ \A d : RowsOf(d) \in [Callers -> Nat] /\ SumOf(RowsOf(d)) \in Nat
         /\ SumOf(file) \in Nat /\ RolledOver \in Nat /\ RolledOver <= todayUSD
         /\ date \in Days /\ date \in Nat /\ file[date] \in Nat
         /\ \A c \in Callers : cost[c] \in Nat
<1>1. cost \in [Callers -> Nat] /\ file \in [Days -> Nat] /\ Days \subseteq Nat
  BY MeterAssumption DEF MeterTypeOK, Costs, Days
<1>2. /\ Unwritten \in [Callers -> Nat]
      /\ \A d : RowsOf(d) \in [Callers -> Nat]
  BY <1>1 DEF Unwritten, RowsOf
<1>3. /\ SumOf(Unwritten) \in Nat /\ SumOf(file) \in Nat
      /\ \A d : SumOf(RowsOf(d)) \in Nat
  BY <1>1, <1>2, SumNatural, DaysFinite, MeterAssumption
<1> QED
  BY <1>1, <1>2, <1>3 DEF MeterTypeOK, RolledOver

\* Nothing is pending when no call has counted its usage.
LEMMA NonePending ==
  ASSUME \A c \in Callers : stage[c] # "counted"
  PROVE  SumOf(Unwritten) = 0 /\ \A d : SumOf(RowsOf(d)) = 0
<1>1. /\ Unwritten = [c \in Callers |-> 0]
      /\ \A d : RowsOf(d) = [c \in Callers |-> 0]
  BY DEF Unwritten, RowsOf
<1> QED
  BY <1>1, SumZero, MeterAssumption

\* Steps that neither count a call's usage nor write a row.
LEMMA PendingKept ==
  ASSUME UNCHANGED date,
         \A c \in Callers : stage'[c] = "counted" <=> stage[c] = "counted",
         \A c \in Callers : stage[c] = "counted" =>
            cost'[c] = cost[c] /\ stamp'[c] = stamp[c]
  PROVE  Unwritten' = Unwritten /\ RowsOf(date)' = RowsOf(date)
BY DEF Unwritten, RowsOf

\* One call's usage is counted, or its row is written: the sums move by it.
LEMMA PendingMoves ==
  ASSUME MeterTypeOK, UNCHANGED <<date, cost, stamp>>, NEW c \in Callers,
         NEW q \in {"idle", "counted"},
         (stage[c] = "counted") # (q = "counted"),
         stage' = [stage EXCEPT ![c] = q]
  PROVE  LET n == IF q = "counted" THEN cost[c] ELSE 0 - cost[c]
         IN  /\ SumOf(Unwritten)' = SumOf(Unwritten) + n
             /\ SumOf(RowsOf(date))' = SumOf(RowsOf(date))
                                         + (IF stamp[c] = date THEN n ELSE 0)
<1> DEFINE u == IF q = "counted" THEN cost[c] ELSE 0
           r == IF q = "counted" /\ stamp[c] = date THEN cost[c] ELSE 0
<1>1. /\ Unwritten \in [Callers -> Nat] /\ RowsOf(date) \in [Callers -> Nat]
      /\ SumOf(Unwritten) \in Nat /\ SumOf(RowsOf(date)) \in Nat /\ cost[c] \in Nat
  BY PendingType
<1>2. /\ stage'[c] = q /\ \A d \in Callers \ {c} : stage'[d] = stage[d]
  BY DEF MeterTypeOK
<1>3. Unwritten' = [Unwritten EXCEPT ![c] = u]
  BY <1>2 DEF Unwritten
<1>4. RowsOf(date)' = [RowsOf(date) EXCEPT ![c] = r]
  BY <1>2 DEF RowsOf
<1>8. /\ Unwritten' \in [Callers -> Nat] /\ RowsOf(date)' \in [Callers -> Nat]
      /\ Unwritten'[c] = u /\ RowsOf(date)'[c] = r
      /\ \A x \in Callers \ {c} : /\ Unwritten'[x] = Unwritten[x]
                               /\ RowsOf(date)'[x] = RowsOf(date)[x]
  BY <1>1, <1>3, <1>4
<1> HIDE DEF u, r
<1>5. SumOf(Unwritten)' = SumOf(Unwritten) - Unwritten[c] + u
  <2>1. SumOf(Unwritten') = SumOf(Unwritten) - Unwritten[c] + Unwritten'[c]
    BY <1>1, <1>8, SumUpdate, MeterAssumption
  <2> QED
    BY <1>8, <2>1, SumPrimed
<1>6. SumOf(RowsOf(date))' = SumOf(RowsOf(date)) - RowsOf(date)[c] + r
  <2>1. SumOf(RowsOf(date)') = SumOf(RowsOf(date)) - RowsOf(date)[c] + RowsOf(date)'[c]
    BY <1>1, <1>8, SumUpdate, MeterAssumption
  <2> QED
    BY <1>8, <2>1, SumPrimed
<1>7. /\ Unwritten[c] = IF q = "counted" THEN 0 ELSE cost[c]
      /\ RowsOf(date)[c] = IF q # "counted" /\ stamp[c] = date THEN cost[c] ELSE 0
  BY DEF Unwritten, RowsOf
<1> QED
  BY <1>1, <1>5, <1>6, <1>7 DEF u, r

LEMMA InitDayInv == MeterInit => DayInv /\ LifetimeIsAccountedFor
<1> SUFFICES ASSUME MeterInit PROVE DayInv /\ LifetimeIsAccountedFor
  OBVIOUS
<1>1. MeterTypeOK
  <2>1. 0 \in Days /\ 1 \in Costs
    BY MeterAssumption DEF Days, Costs
  <2> QED
    BY <2>1 DEF MeterInit, MeterTypeOK
<1>2. SumOf(Unwritten) = 0 /\ SumOf(RowsOf(date)) = 0
  BY NonePending DEF MeterInit
<1>3. SumOf(file) = 0
  BY SumZero, DaysFinite DEF MeterInit
<1>4. SeedInv
  <2>1. 0 \in Days /\ file[date] = 0
    BY MeterAssumption DEF MeterInit, Days
  <2> QED
    BY <1>2, <2>1 DEF MeterInit, SeedInv, RolledOver
<1>5. DayOvershootBounded
  <2>1. Cardinality(InFlight) = 0
    <3>1. InFlight = {}
      BY DEF MeterInit, InFlight
    <3> QED
      BY <3>1, FS_EmptySet
  <2>2. Cardinality(Callers) * MaxCost \in Nat
    BY InFlightFinite, MeterAssumption
  <2> QED
    BY <2>1, <2>2, MeterAssumption DEF MeterInit, DayOvershootBounded
<1> QED
  BY <1>1, <1>2, <1>3, <1>4, <1>5 DEF DayInv, LifetimeIsAccountedFor, MeterInit

LEMMA StepTypeOK == MeterTypeOK /\ [MeterNext]_spendVars => MeterTypeOK'
<1> SUFFICES ASSUME MeterTypeOK, [MeterNext]_spendVars PROVE MeterTypeOK'
  OBVIOUS
<1>0. /\ \A c \in Callers : cost[c] \in Nat
      /\ SumOf(Unwritten) \in Nat /\ SumOf(file) \in Nat
      /\ SumOf(RowsOf(date)) \in Nat
      /\ RolledOver \in Nat /\ file[date] \in Nat
  BY PendingType
<1> USE DEF MeterTypeOK
<1>1. CASE NewSession
  BY <1>0, <1>1 DEF NewSession, callVars
<1>2. CASE Exit
  <2>1. unsaved' \in Nat /\ missed' \in Nat /\ stage' \in [Callers -> {"idle", "inflight", "stamped", "counted"}]
    BY <1>0, <1>2 DEF Exit
  <2>2. /\ UNCHANGED <<date, sessionUSD, todayUSD, lifetimeUSD, today, recorder,
                       file, cost, stamp, admitted, spent, blind>>
        /\ alive' = FALSE /\ defaultRec' = "discard"
    BY <1>2 DEF Exit, meterVars
  <2> QED
    BY <2>1, <2>2
<1>3. CASE Midnight
  BY <1>3, MeterAssumption DEF Midnight, meterVars, setupVars, callVars, Days
<1>4. ASSUME NEW c \in Callers, NEW p \in Costs, PreCall(c, p) PROVE MeterTypeOK'
  BY <1>0, <1>4 DEF PreCall, setupVars, dayVars
<1>5. ASSUME NEW c \in Callers, NoUsage(c) PROVE MeterTypeOK'
  BY <1>5 DEF NoUsage, meterVars, setupVars, dayVars
<1>6. ASSUME NEW c \in Callers, NEW usd \in Costs, TakeStamp(c, usd) PROVE MeterTypeOK'
  BY <1>6 DEF TakeStamp, meterVars, setupVars, dayVars
<1>7. ASSUME NEW c \in Callers, CountUsage(c) PROVE MeterTypeOK'
  BY <1>0, <1>7 DEF CountUsage, BookToday, setupVars
<1>8. ASSUME NEW c \in Callers, WriteRow(c) PROVE MeterTypeOK'
  <2>1. file' \in [Days -> Nat]
    BY <1>0, <1>8 DEF WriteRow
  <2> QED
    BY <1>0, <1>8, <2>1 DEF WriteRow, meterVars, setupVars
<1>9. CASE Snapshot \/ ResetSession \/ UNCHANGED spendVars
  BY <1>0, <1>9 DEF Snapshot, ResetSession, spendVars, meterVars, setupVars, callVars, dayVars
<1> QED
  BY <1>1, <1>2, <1>3, <1>4, <1>5, <1>6, <1>7, <1>8, <1>9 DEF MeterNext

\* A step that neither admits a call nor adds to the day's spend.
LEMMA FewerToday ==
  ASSUME MeterTypeOK, DayOvershootBounded, spent' = spent, blind' \in Nat,
         blind <= blind', InFlight' \subseteq InFlight
  PROVE  DayOvershootBounded'
<1>1. InFlight \in SUBSET Callers /\ InFlight' \in SUBSET Callers
  BY DEF InFlight
<1>2. Cardinality(InFlight') <= Cardinality(InFlight)
  BY <1>1, InFlightFinite, FS_Subset
<1>3. Cardinality(InFlight') * MaxCost <= Cardinality(InFlight) * MaxCost
  BY <1>1, <1>2, InFlightFinite, Weighs, MeterAssumption
<1>4. /\ Cardinality(InFlight') * MaxCost \in Nat
      /\ Cardinality(InFlight) * MaxCost \in Nat
      /\ Cardinality(Callers) * MaxCost \in Nat
  BY <1>1, InFlightFinite, MeterAssumption
<1> QED
  BY <1>3, <1>4, MeterAssumption DEF MeterTypeOK, DayOvershootBounded

\* Steps after which the same rows are pending.
LEMMA QuietDay ==
  ASSUME DayInv, MeterTypeOK', LifetimeIsAccountedFor,
         UNCHANGED <<date, file, lifetimeUSD, unsaved, spent, missed, blind>>,
         \A c \in Callers : stage'[c] = "counted" <=> stage[c] = "counted",
         \A c \in Callers : stage[c] = "counted" =>
            cost'[c] = cost[c] /\ stamp'[c] = stamp[c],
         InFlight' \subseteq InFlight,
         \/ UNCHANGED <<today, todayUSD>>
         \/ today' = date /\ todayUSD' = RolledOver
  PROVE  DayInv' /\ LifetimeIsAccountedFor'
<1>0. MeterTypeOK /\ SeedInv /\ DayOvershootBounded
  BY DEF DayInv
<1>1. Unwritten' = Unwritten /\ RowsOf(date)' = RowsOf(date)
  BY PendingKept
<1>2. /\ SumOf(Unwritten)' = SumOf(Unwritten)
      /\ SumOf(RowsOf(date))' = SumOf(RowsOf(date))
      /\ SumOf(file)' = SumOf(file)
  BY <1>1, SumPrimed
<1>3. RolledOver' = RolledOver
  BY DEF RolledOver
<1>4. SeedInv'
  BY <1>0, <1>2, <1>3 DEF SeedInv
<1>5. DayOvershootBounded'
  BY <1>0, FewerToday DEF MeterTypeOK
<1> QED
  BY <1>2, <1>4, <1>5 DEF DayInv, LifetimeIsAccountedFor

LEMMA NewSessionDay ==
  DayInv /\ LifetimeIsAccountedFor /\ NewSession => DayInv' /\ LifetimeIsAccountedFor'
<1> SUFFICES ASSUME DayInv, NewSession PROVE DayInv' /\ LifetimeIsAccountedFor'
  OBVIOUS
<1>0. MeterTypeOK /\ SeedInv /\ DayOvershootBounded /\ MeterTypeOK'
  BY StepTypeOK DEF DayInv, MeterNext
<1>1. /\ UNCHANGED <<date, file, stage, cost, stamp, spent, missed>>
      /\ blind' = missed
      /\ today' = date /\ todayUSD' = file[date] /\ lifetimeUSD' = SumOf(file)
      /\ unsaved' = 0
      /\ \A c \in Callers : stage[c] # "counted"
  BY DEF NewSession, callVars
<1>2. /\ SumOf(Unwritten)' = 0 /\ SumOf(RowsOf(date))' = 0
      /\ SumOf(RowsOf(date)) = 0
      /\ SumOf(file)' = SumOf(file) /\ SumOf(file) \in Nat
  <2>1. /\ Unwritten' = Unwritten /\ RowsOf(date)' = RowsOf(date)
    BY <1>1 DEF Unwritten, RowsOf
  <2> QED
    BY <1>0, <1>1, <2>1, NonePending, PendingType, SumPrimed
<1>3. file[date] \in Nat /\ missed \in Nat /\ RolledOver' = file[date]
  BY <1>0, <1>1, PendingType DEF MeterTypeOK, RolledOver
<1>4. SeedInv'
  BY <1>0, <1>1, <1>2, <1>3 DEF SeedInv
<1>5. DayOvershootBounded'
  <2>1. InFlight' = InFlight
    BY <1>1 DEF InFlight
  <2> QED
    BY <1>0, <1>1, <1>3, <2>1, FewerToday DEF SeedInv
<1>6. LifetimeIsAccountedFor'
  BY <1>1, <1>2 DEF LifetimeIsAccountedFor
<1> QED
  BY <1>0, <1>4, <1>5, <1>6 DEF DayInv

LEMMA ExitDay ==
  DayInv /\ LifetimeIsAccountedFor /\ Exit => DayInv' /\ LifetimeIsAccountedFor'
<1> SUFFICES ASSUME DayInv, LifetimeIsAccountedFor, Exit
             PROVE  DayInv' /\ LifetimeIsAccountedFor'
  OBVIOUS
<1>0. MeterTypeOK /\ SeedInv /\ DayOvershootBounded /\ MeterTypeOK'
  BY StepTypeOK DEF DayInv, MeterNext
<1>1. /\ UNCHANGED <<date, file, cost, stamp, today, todayUSD, lifetimeUSD,
                     spent, blind>>
      /\ unsaved' = unsaved + SumOf(Unwritten)
      /\ missed' = missed + SumOf(RowsOf(date))
      /\ stage' = [c \in Callers |-> "idle"]
  BY DEF Exit, meterVars
<1>2. /\ Unwritten' = [c \in Callers |-> 0]
      /\ RowsOf(date)' = [c \in Callers |-> 0]
  BY <1>1 DEF Unwritten, RowsOf
<1>3. /\ SumOf(Unwritten)' = 0 /\ SumOf(RowsOf(date))' = 0
      /\ SumOf(file)' = SumOf(file)
  BY <1>1, <1>2, SumPrimed, SumZero, MeterAssumption
<1>4. /\ SumOf(RowsOf(date)) \in Nat /\ SumOf(Unwritten) \in Nat
      /\ SumOf(file) \in Nat /\ file[date] \in Nat /\ RolledOver \in Nat
      /\ RolledOver' = RolledOver
  BY <1>0, <1>1, PendingType DEF RolledOver
<1>5. SeedInv'
  BY <1>0, <1>1, <1>3, <1>4 DEF SeedInv, MeterTypeOK
<1>6. DayOvershootBounded'
  <2>1. InFlight' \subseteq InFlight
    BY <1>1 DEF InFlight
  <2> QED
    BY <1>0, <1>1, <2>1, FewerToday DEF MeterTypeOK
<1>7. LifetimeIsAccountedFor'
  BY <1>0, <1>1, <1>3, <1>4 DEF LifetimeIsAccountedFor, MeterTypeOK
<1> QED
  BY <1>0, <1>5, <1>6, <1>7 DEF DayInv

\* A new day starts with nothing spent, and the calls in flight are at most all.
LEMMA MidnightDay ==
  DayInv /\ LifetimeIsAccountedFor /\ Midnight => DayInv' /\ LifetimeIsAccountedFor'
<1> SUFFICES ASSUME DayInv, LifetimeIsAccountedFor, Midnight
             PROVE  DayInv' /\ LifetimeIsAccountedFor'
  OBVIOUS
<1>0. MeterTypeOK /\ MeterTypeOK'
  BY StepTypeOK DEF DayInv, MeterNext
<1>1. /\ spent' = 0 /\ missed' = 0 /\ blind' = 0
      /\ UNCHANGED <<file, stage, cost, lifetimeUSD, unsaved>>
  BY DEF Midnight, meterVars, callVars
<1>2. SeedInv'
  <2>1. RolledOver' \in Nat
    BY <1>0 DEF RolledOver, MeterTypeOK
  <2>2. file'[date'] \in Nat
    BY <1>0 DEF MeterTypeOK
  <2>3. SumOf(RowsOf(date))' \in Nat
    <3>1. RowsOf(date)' \in [Callers -> Nat]
      BY <1>0, MeterAssumption DEF MeterTypeOK, RowsOf, Costs
    <3> QED
      BY <3>1, SumNatural, SumPrimed, MeterAssumption
  <2>4. spent' <= RolledOver' + blind'
    <3>1. \A x \in Nat : 0 <= x + 0
      OBVIOUS
    <3> QED
      BY <1>1, <2>1, <3>1
  <2>5. spent' <= file'[date'] + SumOf(RowsOf(date))' + missed'
    <3>1. \A x, y \in Nat : 0 <= x + y + 0
      OBVIOUS
    <3> QED
      BY <1>1, <2>2, <2>3, <3>1
  <2> QED
    BY <1>1, <2>4, <2>5 DEF SeedInv
<1>3. DayOvershootBounded'
  <2>1. InFlight' \in SUBSET Callers
    BY DEF InFlight
  <2>2. Cardinality(InFlight') * MaxCost <= Cardinality(Callers) * MaxCost
    BY <2>1, InFlightFinite, Weighs, MeterAssumption
  <2>3. /\ Cardinality(InFlight') * MaxCost \in Nat
        /\ Cardinality(Callers) * MaxCost \in Nat
    BY <2>1, InFlightFinite, MeterAssumption
  <2> QED
    BY <1>1, <2>2, <2>3, MeterAssumption DEF DayOvershootBounded
<1>4. LifetimeIsAccountedFor'
  <2>1. Unwritten' = Unwritten
    BY <1>1 DEF Unwritten
  <2>2. SumOf(file)' = SumOf(file) /\ SumOf(Unwritten)' = SumOf(Unwritten)
    BY <1>1, <2>1, SumPrimed
  <2> QED
    BY <1>1, <2>2 DEF LifetimeIsAccountedFor
<1> QED
  BY <1>0, <1>2, <1>3, <1>4 DEF DayInv

\* Admission: the total was under the cap, and the calls in flight are at most
\* all of them.
LEMMA PreCallDay ==
  ASSUME DayInv, LifetimeIsAccountedFor, NEW c \in Callers, NEW p \in Costs,
         PreCall(c, p)
  PROVE  DayInv' /\ LifetimeIsAccountedFor'
<1>0. MeterTypeOK /\ SeedInv /\ DayOvershootBounded /\ MeterTypeOK'
  BY StepTypeOK DEF DayInv, MeterNext
<1>1. /\ UNCHANGED <<date, file, cost, stamp, lifetimeUSD, unsaved, spent, missed,
                     blind>>
      /\ today' = date /\ todayUSD' = RolledOver /\ stage[c] = "idle"
      /\ stage' = stage \/ stage' = [stage EXCEPT ![c] = "inflight"]
  BY DEF PreCall, dayVars
<1>2. \A x \in Callers : stage'[x] = "counted" <=> stage[x] = "counted"
  BY <1>0, <1>1 DEF MeterTypeOK
<1>3. CASE ~WithinCaps(p)
  <2>1. stage' = stage
    BY <1>3 DEF PreCall
  <2>2. InFlight' \subseteq InFlight
    BY <2>1 DEF InFlight
  <2> QED
    BY <1>0, <1>1, <1>2, <2>2, QuietDay
<1>4. CASE WithinCaps(p)
  <2>1. Unwritten' = Unwritten /\ RowsOf(date)' = RowsOf(date)
    BY <1>1, <1>2, PendingKept
  <2>2. /\ SumOf(Unwritten)' = SumOf(Unwritten)
        /\ SumOf(RowsOf(date))' = SumOf(RowsOf(date))
        /\ SumOf(file)' = SumOf(file)
    BY <1>1, <2>1, SumPrimed
  <2>3. SeedInv'
    BY <1>0, <1>1, <2>2, PendingType DEF SeedInv, RolledOver
  <2>4. DayOvershootBounded'
    <3> SUFFICES ASSUME DayHardCap > 0
                 PROVE  spent' + Cardinality(InFlight') * MaxCost
                          <= DayHardCap + Cardinality(Callers) * MaxCost + blind'
      BY DEF DayOvershootBounded
    <3>1. spent' <= DayHardCap + blind' /\ spent' \in Nat /\ blind' \in Nat
      <4>1. RolledOver <= DayHardCap /\ RolledOver \in Nat
        BY <1>0, <1>4, PendingType, MeterAssumption DEF WithinCaps, Costs
      <4> QED
        BY <1>0, <1>1, <4>1, MeterAssumption DEF SeedInv, MeterTypeOK
    <3>2. InFlight' \in SUBSET Callers
      BY DEF InFlight
    <3>3. Cardinality(InFlight') * MaxCost <= Cardinality(Callers) * MaxCost
      BY <3>2, InFlightFinite, Weighs, MeterAssumption
    <3>4. /\ Cardinality(InFlight') * MaxCost \in Nat
          /\ Cardinality(Callers) * MaxCost \in Nat
      BY <3>2, InFlightFinite, MeterAssumption
    <3>5. \A x, y, z, k, n \in Nat :
            x <= k + n /\ y <= z => x + y <= k + z + n
      OBVIOUS
    <3> QED
      BY <3>1, <3>3, <3>4, <3>5, MeterAssumption
  <2> QED
    BY <1>0, <1>1, <2>2, <2>3, <2>4 DEF DayInv, LifetimeIsAccountedFor
<1> QED
  BY <1>3, <1>4

\* Recording: the call leaves the ones in flight as its cost enters the total.
LEMMA CountUsageDay ==
  ASSUME DayInv, LifetimeIsAccountedFor, NEW c \in Callers, CountUsage(c)
  PROVE  DayInv' /\ LifetimeIsAccountedFor'
<1>0. MeterTypeOK /\ SeedInv /\ DayOvershootBounded /\ MeterTypeOK'
  BY StepTypeOK DEF DayInv, MeterNext
<1>9. cost[c] \in Nat /\ missed \in Nat
  BY <1>0, PendingType DEF MeterTypeOK
<1>1. /\ UNCHANGED <<date, file, cost, stamp, unsaved, blind>>
      /\ spent' = spent + cost[c]
      /\ missed' = missed + (IF stamp[c] = date THEN 0 ELSE cost[c])
      /\ today' = date /\ todayUSD' = RolledOver + cost[c]
      /\ lifetimeUSD' = lifetimeUSD + cost[c]
      /\ stage[c] = "stamped" /\ stage' = [stage EXCEPT ![c] = "counted"]
  BY <1>9 DEF CountUsage, BookToday
<1>2. /\ SumOf(Unwritten)' = SumOf(Unwritten) + cost[c]
      /\ SumOf(RowsOf(date))' = SumOf(RowsOf(date))
                                  + (IF stamp[c] = date THEN cost[c] ELSE 0)
      /\ SumOf(file)' = SumOf(file)
  <2>1. SumOf(file)' = SumOf(file)
    BY <1>1, SumPrimed
  <2> QED
    BY <1>0, <1>1, <2>1, PendingMoves
<1>3. /\ cost[c] \in Nat /\ cost[c] \in 1..MaxCost /\ RolledOver \in Nat
      /\ RolledOver <= todayUSD
      /\ SumOf(Unwritten) \in Nat /\ SumOf(RowsOf(date)) \in Nat
      /\ SumOf(file) \in Nat /\ file[date] \in Nat /\ date \in Nat
  BY <1>0, PendingType DEF MeterTypeOK, Costs
<1>4. SeedInv'
  <2>1. RolledOver' = RolledOver + cost[c]
    BY <1>1 DEF RolledOver
  <2>2. /\ blind \in Nat /\ missed \in Nat /\ spent \in Nat
        /\ blind <= missed /\ spent <= RolledOver + blind
        /\ spent <= file[date] + SumOf(RowsOf(date)) + missed
    BY <1>0 DEF SeedInv, MeterTypeOK
  <2>3. CASE stamp[c] = date
    BY <1>1, <1>2, <1>3, <2>1, <2>2, <2>3 DEF SeedInv
  <2>4. CASE stamp[c] # date
    BY <1>1, <1>2, <1>3, <2>1, <2>2, <2>4 DEF SeedInv
  <2> QED
    BY <2>3, <2>4
<1>5. DayOvershootBounded'
  <2> SUFFICES ASSUME DayHardCap > 0
               PROVE  spent' + Cardinality(InFlight') * MaxCost
                        <= DayHardCap + Cardinality(Callers) * MaxCost + blind'
    BY DEF DayOvershootBounded
  <2>1. InFlight \in SUBSET Callers /\ c \in InFlight /\ InFlight' = InFlight \ {c}
    BY <1>0, <1>1 DEF MeterTypeOK, InFlight
  <2>2. Cardinality(InFlight') = Cardinality(InFlight) - 1
    BY <2>1, InFlightFinite, FS_RemoveElement
  <2>3. Cardinality(InFlight) \in Nat /\ Cardinality(Callers) \in Nat
    BY <2>1, InFlightFinite
  <2>4. Cardinality(InFlight') * MaxCost = Cardinality(InFlight) * MaxCost - MaxCost
    BY <2>2, <2>3, MeterAssumption
  <2>5. /\ Cardinality(InFlight) * MaxCost \in Nat
        /\ Cardinality(Callers) * MaxCost \in Nat
    BY <2>3, MeterAssumption
  <2> QED
    BY <1>0, <1>1, <1>3, <2>4, <2>5, MeterAssumption
       DEF DayOvershootBounded, MeterTypeOK
<1>6. LifetimeIsAccountedFor'
  BY <1>0, <1>1, <1>2, <1>3 DEF LifetimeIsAccountedFor, MeterTypeOK
<1> QED
  BY <1>0, <1>4, <1>5, <1>6 DEF DayInv

\* A row goes from the pending ones to the file's, under the day it was
\* stamped with, or is lost.
LEMMA WriteRowDay ==
  ASSUME DayInv, LifetimeIsAccountedFor, NEW c \in Callers, WriteRow(c)
  PROVE  DayInv' /\ LifetimeIsAccountedFor'
<1>0. MeterTypeOK /\ SeedInv /\ DayOvershootBounded /\ MeterTypeOK'
  BY StepTypeOK DEF DayInv, MeterNext
<1>1. /\ UNCHANGED <<date, cost, stamp, today, todayUSD, lifetimeUSD, spent, blind>>
      /\ stage[c] = "counted" /\ stage' = [stage EXCEPT ![c] = "idle"]
  BY DEF WriteRow, meterVars
<1>2. /\ SumOf(Unwritten)' = SumOf(Unwritten) - cost[c]
      /\ SumOf(RowsOf(date))' = SumOf(RowsOf(date))
                                  - (IF stamp[c] = date THEN cost[c] ELSE 0)
  <2>1. /\ SumOf(Unwritten)' = SumOf(Unwritten) + (0 - cost[c])
        /\ SumOf(RowsOf(date))' = SumOf(RowsOf(date))
                                    + (IF stamp[c] = date THEN 0 - cost[c] ELSE 0)
    BY <1>0, <1>1, PendingMoves
  <2> QED
    BY <1>0, <2>1, PendingType
<1>3. /\ cost[c] \in Nat /\ RolledOver \in Nat /\ date \in Days
      /\ SumOf(Unwritten) \in Nat /\ SumOf(RowsOf(date)) \in Nat
      /\ SumOf(file) \in Nat /\ file[date] \in Nat /\ file \in [Days -> Nat]
      /\ stamp[c] \in Days /\ Days \subseteq Nat /\ {spent, missed, blind} \subseteq Nat
      /\ RolledOver' = RolledOver
  <2>1. RolledOver' = RolledOver
    BY <1>1 DEF RolledOver
  <2>2. Days \subseteq Nat
    BY DEF Days
  <2>3. /\ file \in [Days -> Nat] /\ stamp[c] \in Days
        /\ {spent, missed, blind} \subseteq Nat
    BY <1>0 DEF MeterTypeOK
  <2>4. date \in Days /\ file[date] \in Nat
    BY <1>0, <2>3 DEF MeterTypeOK
  <2>5. /\ cost[c] \in Nat /\ RolledOver \in Nat
        /\ SumOf(Unwritten) \in Nat /\ SumOf(RowsOf(date)) \in Nat /\ SumOf(file) \in Nat
    BY <1>0, PendingType
  <2> QED
    BY <2>1, <2>2, <2>3, <2>4, <2>5
<1>4. ASSUME file' = [file EXCEPT ![stamp[c]] = @ + cost[c]], UNCHANGED <<unsaved, missed>>
      PROVE  SeedInv' /\ LifetimeIsAccountedFor'
  <2>1. SumOf(file)' = SumOf(file) + cost[c]
    <3>1. /\ file' \in [Days -> Nat] /\ file'[stamp[c]] = file[stamp[c]] + cost[c]
          /\ file[stamp[c]] \in Nat
          /\ \A d \in Days \ {stamp[c]} : file'[d] = file[d]
      <4>1. file[stamp[c]] \in Nat
        BY <1>0 DEF MeterTypeOK
      <4>2. file' \in [Days -> Nat]
        BY <1>0 DEF MeterTypeOK
      <4>3. file \in [Days -> Nat] /\ stamp[c] \in Days
        BY <1>3
      <4>4. /\ file'[stamp[c]] = file[stamp[c]] + cost[c]
            /\ \A d \in Days \ {stamp[c]} : file'[d] = file[d]
        BY <1>4, <4>3
      <4> QED
        BY <4>1, <4>2, <4>4
    <3>2. SumOf(file') = SumOf(file) - file[stamp[c]] + file'[stamp[c]]
      <4>1. PICK g, d : g = file' /\ d = stamp[c]
        OBVIOUS
      <4>2. /\ g \in [Days -> Nat] /\ file \in [Days -> Nat] /\ d \in Days
            /\ \A x \in Days \ {d} : g[x] = file[x]
        BY <1>3, <3>1, <4>1
      <4>3. SumOf(g) = SumOf(file) - file[d] + g[d]
        BY <4>2, SumUpdate, DaysFinite
      <4> QED
        BY <4>1, <4>3
    <3> QED
      BY <1>3, <3>1, <3>2, SumPrimed
  <2>2. file'[date] = file[date] + (IF stamp[c] = date THEN cost[c] ELSE 0)
    BY <1>3, <1>4
  <2>3. SeedInv'
    <3>1. CASE stamp[c] = date
      BY <1>0, <1>1, <1>2, <1>3, <1>4, <2>2, <3>1 DEF SeedInv
    <3>2. CASE stamp[c] # date
      BY <1>0, <1>1, <1>2, <1>3, <1>4, <2>2, <3>2 DEF SeedInv
    <3> QED
      BY <3>1, <3>2
  <2>4. LifetimeIsAccountedFor'
    BY <1>0, <1>1, <1>2, <1>3, <1>4, <2>1 DEF LifetimeIsAccountedFor, MeterTypeOK
  <2> QED
    BY <2>3, <2>4
<1>5. ASSUME unsaved' = unsaved + cost[c], UNCHANGED file,
             missed' = IF stamp[c] = date THEN missed + cost[c] ELSE missed
      PROVE  SeedInv' /\ LifetimeIsAccountedFor'
  <2>1. SumOf(file)' = SumOf(file)
    BY <1>5, SumPrimed
  <2>2. SeedInv'
    <3>1. CASE stamp[c] = date
      BY <1>0, <1>1, <1>2, <1>3, <1>5, <3>1 DEF SeedInv
    <3>2. CASE stamp[c] # date
      BY <1>0, <1>1, <1>2, <1>3, <1>5, <3>2 DEF SeedInv
    <3> QED
      BY <3>1, <3>2
  <2>3. LifetimeIsAccountedFor'
    BY <1>0, <1>1, <1>2, <1>3, <1>5, <2>1 DEF LifetimeIsAccountedFor, MeterTypeOK
  <2> QED
    BY <2>2, <2>3
<1>6. SeedInv' /\ LifetimeIsAccountedFor'
  BY <1>4, <1>5 DEF WriteRow
<1>7. DayOvershootBounded'
  <2>1. InFlight' \subseteq InFlight
    BY <1>0, <1>1 DEF MeterTypeOK, InFlight
  <2> QED
    BY <1>0, <1>1, <2>1, FewerToday DEF MeterTypeOK
<1> QED
  BY <1>0, <1>6, <1>7 DEF DayInv

LEMMA StepDayInv ==
  DayInv /\ LifetimeIsAccountedFor /\ [MeterNext]_spendVars
    => DayInv' /\ LifetimeIsAccountedFor'
<1> SUFFICES ASSUME DayInv, LifetimeIsAccountedFor, [MeterNext]_spendVars
             PROVE  DayInv' /\ LifetimeIsAccountedFor'
  OBVIOUS
<1>0. MeterTypeOK /\ SeedInv /\ MeterTypeOK' /\ date \in Nat
  BY StepTypeOK, PendingType DEF DayInv
<1>1. ASSUME NEW c \in Callers, NoUsage(c) \/ \E usd \in Costs : TakeStamp(c, usd)
      PROVE  DayInv' /\ LifetimeIsAccountedFor'
  <2>1. UNCHANGED <<date, file, lifetimeUSD, unsaved, today, todayUSD, spent, missed,
                    blind>>
    BY <1>1 DEF NoUsage, TakeStamp, meterVars, dayVars
  <2>2. /\ \A x \in Callers : stage'[x] = "counted" <=> stage[x] = "counted"
        /\ \A x \in Callers : stage[x] = "counted" =>
              cost'[x] = cost[x] /\ stamp'[x] = stamp[x]
        /\ InFlight' \subseteq InFlight
    BY <1>0, <1>1 DEF NoUsage, TakeStamp, MeterTypeOK, InFlight
  <2> QED
    BY <1>0, <2>1, <2>2, QuietDay
<1>2. CASE Snapshot \/ ResetSession \/ UNCHANGED spendVars
  <2>1. /\ UNCHANGED <<date, file, lifetimeUSD, unsaved, stage, cost, stamp, spent, missed,
                       blind>>
        /\ \/ UNCHANGED <<today, todayUSD>>
           \/ today' = date /\ todayUSD' = RolledOver
    BY <1>2 DEF Snapshot, ResetSession, spendVars, meterVars, callVars, dayVars
  <2>2. InFlight' = InFlight
    BY <2>1 DEF InFlight
  <2> QED
    BY <1>0, <2>1, <2>2, QuietDay
<1> QED
  BY <1>1, <1>2, NewSessionDay, ExitDay, MidnightDay, PreCallDay, CountUsageDay,
     WriteRowDay DEF MeterNext

\* The meter keeps every variable in its type.
THEOREM MeterTyped == MeterSpec => []MeterTypeOK
<1>1. MeterInit => MeterTypeOK
  BY InitDayInv DEF DayInv
<1> QED
  BY <1>1, StepTypeOK, PTL DEF MeterSpec

\* What all sessions of the day really spend passes the day's hard cap by at most
\* one call per concurrent caller and what had no row dated today when the meter
\* was seeded, over restarts, midnight, failed writes and rows dated a day early.
THEOREM DayCapBound == MeterSpec => []DayOvershootBounded
<1>1. DayInv => DayOvershootBounded
  BY DEF DayInv
<1> QED
  BY <1>1, InitDayInv, StepDayInv, PTL DEF MeterSpec

\* The lifetime total is what the file holds, plus the rows on their way to it,
\* plus those that never reached it: no call is counted twice or dropped.
THEOREM LifetimeAccounted == MeterSpec => []LifetimeIsAccountedFor
BY InitDayInv, StepDayInv, PTL DEF MeterSpec
==============================================================================
