---------------------- MODULE ExecutionSession_proofs ----------------------
(***************************************************************************)
(* What the execution session guarantees for any number of symbols, any    *)
(* prices and any configuration.  Whatever the broker does, its trade      *)
(* counters add up and no trade is entered behind a halt; when no order    *)
(* raises, what is ordered closed is; when every order fills, its books    *)
(* agree with the account.                                                 *)
(***************************************************************************)
EXTENDS ExecutionSession, FiniteSetTheorems, TLAPS

-----------------------------------------------------------------------------
(* Sums over finite sets.  SumFunctionOnSet takes the elements in the order  *)
(* of CHOOSE and is recursive: that it has a solution, and that the order    *)
(* does not matter, is shown on a smallest subset for which it would fail.   *)

\* The element that a sum takes first.
First(s) == CHOOSE x \in s : TRUE

\* g is a function that computes the sums of f on the subsets of S.
Solves(g, f, S) ==
  g = [s \in SUBSET S |-> IF s = {} THEN 0 ELSE f[First(s)] + g[s \ {First(s)}]]

LEMMA SumUnfolds ==
  ASSUME NEW f, NEW S
  PROVE  SumFunctionOnSet(f, S) = (CHOOSE g : Solves(g, f, S))[S]
BY DEF SumFunctionOnSet, FoldFunctionOnSet, MapThenFoldSet, Solves, First

\* A family of subsets has one that is minimal.
LEMMA Smallest ==
  ASSUME NEW S, IsFiniteSet(S), NEW F \in SUBSET (SUBSET S), F # {}
  PROVE  \E T \in F : \A U \in F : U \subseteq T => U = T
<1>1. F \subseteq FiniteSubsetsOf(S)
  BY FS_Subset DEF FiniteSubsetsOf
<1>2. \E T \in F : \A U \in F : ~(<<U, T>> \in StrictSubsetOrdering(S))
  BY <1>1, FS_StrictSubsetOrderingWellFounded, WFMin
<1> QED
  BY <1>1, <1>2 DEF StrictSubsetOrdering

LEMMA FirstIn == ASSUME NEW s, s # {} PROVE First(s) \in s
BY DEF First

\* Two solutions agree where both are defined.
LEMMA SolutionsAgree ==
  ASSUME NEW f, NEW S, IsFiniteSet(S), NEW T, IsFiniteSet(T),
         NEW g, Solves(g, f, S), NEW h, Solves(h, f, T),
         NEW U \in SUBSET S, U \in SUBSET T
  PROVE  g[U] = h[U]
<1> DEFINE F == {s \in SUBSET S : s \subseteq T /\ g[s] # h[s]}
<1> SUFFICES ASSUME F # {} PROVE FALSE
  OBVIOUS
<1>0. F \in SUBSET (SUBSET S)
  OBVIOUS
<1> HIDE DEF F
<1>1. PICK s \in F : \A t \in F : t \subseteq s => t = s
  BY <1>0, Smallest
<1> USE DEF F
<1>2. CASE s = {}
  BY <1>2 DEF Solves
<1>3. CASE s # {}
  <2> DEFINE x == First(s)
  <2>1. x \in s
    BY <1>3, FirstIn
  <2>2. g[s] = f[x] + g[s \ {x}] /\ h[s] = f[x] + h[s \ {x}]
    BY <1>3 DEF Solves
  <2>3. s \ {x} \notin F
    BY <1>1, <2>1
  <2> HIDE DEF x
  <2>4. g[s \ {x}] = h[s \ {x}]
    BY <2>3
  <2> QED
    BY <2>2, <2>4
<1> QED
  BY <1>2, <1>3

\* There is a solution: on a smallest set without one it is put together from
\* those of the smaller sets.
LEMMA SolutionExists ==
  ASSUME NEW f, NEW S, IsFiniteSet(S)
  PROVE  \E g : Solves(g, f, S)
<1> DEFINE F == {s \in SUBSET S : ~\E g : Solves(g, f, s)}
<1> SUFFICES ASSUME F # {} PROVE FALSE
  OBVIOUS
<1>0. F \in SUBSET (SUBSET S)
  OBVIOUS
<1> HIDE DEF F
<1>1. PICK T \in F : \A t \in F : t \subseteq T => t = T
  BY <1>0, Smallest
<1> USE DEF F
<1> DEFINE sol == [s \in SUBSET T |-> CHOOSE g : Solves(g, f, s)]
<1>2. ASSUME NEW s \in SUBSET T, s # T
      PROVE  Solves(sol[s], f, s)
  <2>1. \E g : Solves(g, f, s)
    BY <1>1, <1>2
  <2> QED
    BY <2>1
<1> DEFINE x == First(T)
           g == [s \in SUBSET T |->
                   IF s # T THEN sol[s][s]
                   ELSE IF T = {} THEN 0 ELSE f[x] + sol[T \ {x}][T \ {x}]]
<1>3. ASSUME NEW s \in SUBSET T
      PROVE  g[s] = IF s = {} THEN 0 ELSE f[First(s)] + g[s \ {First(s)}]
  <2>1. CASE s = T
    <3>1. CASE T = {}
      BY <2>1, <3>1
    <3>2. CASE T # {}
      <4>1. x \in T /\ T \ {x} # T /\ T \ {x} \in SUBSET T
        BY <3>2, FirstIn
      <4>2. g[T] = f[x] + sol[T \ {x}][T \ {x}]
        BY <3>2
      <4>3. g[T \ {x}] = sol[T \ {x}][T \ {x}]
        BY <4>1
      <4> HIDE DEF g, sol
      <4> QED
        BY <2>1, <3>2, <4>2, <4>3
    <3> QED
      BY <3>1, <3>2
  <2>2. CASE s # T
    <3>1. Solves(sol[s], f, s) /\ g[s] = sol[s][s]
      BY <1>2, <2>2
    <3>2. CASE s = {}
      <4> HIDE DEF g, sol
      <4> QED
        BY <3>1, <3>2 DEF Solves
    <3>3. CASE s # {}
      <4> DEFINE y == First(s)
                 r == s \ {y}
      <4>1. y \in s /\ r \in SUBSET s /\ r # T /\ r \in SUBSET T
        BY <3>3, <2>2, FirstIn
      <4>2. Solves(sol[r], f, r) /\ g[r] = sol[r][r]
        BY <1>2, <4>1
      <4>3. IsFiniteSet(s) /\ IsFiniteSet(r)
        BY <4>1, <1>1, FS_Subset
      <4> HIDE DEF g, sol
      <4>4. sol[s][s] = f[y] + sol[s][r]
        BY <3>1, <3>3 DEF Solves
      <4> HIDE DEF r
      <4>5. sol[s][r] = sol[r][r]
        BY <3>1, <4>1, <4>2, <4>3, SolutionsAgree
      <4> QED
        BY <3>1, <3>3, <4>2, <4>4, <4>5 DEF r
    <3> QED
      BY <3>2, <3>3
  <2> QED
    BY <2>1, <2>2
<1>4. g = [s \in SUBSET T |-> g[s]]
  OBVIOUS
<1> HIDE DEF g
<1>5. Solves(g, f, T)
  BY <1>3, <1>4 DEF Solves
<1> QED
  BY <1>1, <1>5

\* The sum of a set is its first element's value and the sum of the rest.
LEMMA SumStep ==
  ASSUME NEW f, NEW S, IsFiniteSet(S)
  PROVE  SumFunctionOnSet(f, S) =
           IF S = {} THEN 0 ELSE f[First(S)] + SumFunctionOnSet(f, S \ {First(S)})
<1> DEFINE R == S \ {First(S)}
           g == CHOOSE q : Solves(q, f, S)
           h == CHOOSE q : Solves(q, f, R)
<1>1. IsFiniteSet(R) /\ R \in SUBSET S /\ R \in SUBSET R
  BY FS_Subset
<1>2. Solves(g, f, S)
  BY SolutionExists
<1>3. Solves(h, f, R)
  <2>1. \E q : Solves(q, f, R)
    BY <1>1, SolutionExists
  <2> QED
    BY <2>1
<1>4. SumFunctionOnSet(f, S) = g[S] /\ SumFunctionOnSet(f, R) = h[R]
  BY SumUnfolds
<1> HIDE DEF g, h
<1>5. g[S] = IF S = {} THEN 0 ELSE f[First(S)] + g[R]
  BY <1>2 DEF Solves
<1> HIDE DEF R
<1>6. \A k, l : Solves(k, f, S) /\ Solves(l, f, R) => k[R] = l[R]
  BY <1>1, SolutionsAgree
<1>7. g[R] = h[R]
  BY <1>2, <1>3, <1>6
<1> QED
  BY <1>4, <1>5, <1>7 DEF R

\* A sum of integers is an integer.
LEMMA SumType ==
  ASSUME NEW f, NEW S, IsFiniteSet(S), \A x \in S : f[x] \in Int
  PROVE  SumFunctionOnSet(f, S) \in Int
<1> DEFINE F == {s \in SUBSET S : SumFunctionOnSet(f, s) \notin Int}
<1> SUFFICES ASSUME F # {} PROVE FALSE
  OBVIOUS
<1>0. F \in SUBSET (SUBSET S)
  OBVIOUS
<1> HIDE DEF F
<1>1. PICK s \in F : \A t \in F : t \subseteq s => t = s
  BY <1>0, Smallest
<1> USE DEF F
<1>2. IsFiniteSet(s)
  BY <1>1, FS_Subset
<1>3. ASSUME s = {} PROVE FALSE
  <2>1. SumFunctionOnSet(f, s) = 0
    BY <1>2, <1>3, SumStep, Zenon
  <2> QED
    BY <1>1, <2>1
<1>4. First(s) \in s /\ s \ {First(s)} \notin F
  BY <1>1, <1>3, FirstIn
<1> QED
  BY <1>1, <1>2, <1>3, <1>4, SumStep

\* Any element may be taken out.
LEMMA SumOut ==
  ASSUME NEW f, NEW S, IsFiniteSet(S), \A x \in S : f[x] \in Int, NEW b \in S
  PROVE  SumFunctionOnSet(f, S) = f[b] + SumFunctionOnSet(f, S \ {b})
<1> DEFINE Out(s, a) == SumFunctionOnSet(f, s) = f[a] + SumFunctionOnSet(f, s \ {a})
           F == {s \in SUBSET S : \E a \in s : ~Out(s, a)}
<1> SUFFICES ASSUME F # {} PROVE FALSE
  OBVIOUS
<1>0. F \in SUBSET (SUBSET S)
  OBVIOUS
<1> HIDE DEF F
<1>1. PICK s \in F : \A t \in F : t \subseteq s => t = s
  BY <1>0, Smallest
<1> USE DEF F
<1>2. PICK a \in s : ~Out(s, a)
  BY <1>1
<1> DEFINE x == First(s)
           both == s \ {x, a}
<1>3. IsFiniteSet(s) /\ x \in s /\ s \subseteq S
  BY <1>1, <1>2, FS_Subset, FirstIn
<1>4. Out(s, x)
  BY <1>2, <1>3, SumStep
<1>5. x # a
  BY <1>2, <1>4
<1>6. /\ IsFiniteSet(both) /\ both \subseteq S
      /\ both = (s \ {x}) \ {a} /\ both = (s \ {a}) \ {x}
  BY <1>3, FS_Subset
<1>7. SumFunctionOnSet(f, both) \in Int /\ f[x] \in Int /\ f[a] \in Int
  BY <1>2, <1>3, <1>6, SumType
<1>8. s \ {x} \notin F /\ s \ {a} \notin F /\ s \ {x} \subseteq S /\ s \ {a} \subseteq S
  BY <1>1, <1>2, <1>3
<1>9. Out(s \ {x}, a) /\ Out(s \ {a}, x)
  BY <1>2, <1>3, <1>5, <1>8
<1> HIDE DEF x, both
<1>10. /\ SumFunctionOnSet(f, s \ {x}) = f[a] + SumFunctionOnSet(f, both)
       /\ SumFunctionOnSet(f, s \ {a}) = f[x] + SumFunctionOnSet(f, both)
       /\ SumFunctionOnSet(f, s) = f[x] + SumFunctionOnSet(f, s \ {x})
       /\ SumFunctionOnSet(f, s) # f[a] + SumFunctionOnSet(f, s \ {a})
  BY <1>2, <1>4, <1>6, <1>9
<1> QED
  BY <1>7, <1>10

\* Only the values on the set count.
LEMMA SumSame ==
  ASSUME NEW f, NEW g, NEW S, IsFiniteSet(S), \A x \in S : f[x] = g[x]
  PROVE  SumFunctionOnSet(f, S) = SumFunctionOnSet(g, S)
<1> DEFINE F == {s \in SUBSET S : SumFunctionOnSet(f, s) # SumFunctionOnSet(g, s)}
<1> SUFFICES ASSUME F # {} PROVE FALSE
  OBVIOUS
<1>0. F \in SUBSET (SUBSET S)
  OBVIOUS
<1> HIDE DEF F
<1>1. PICK s \in F : \A t \in F : t \subseteq s => t = s
  BY <1>0, Smallest
<1> USE DEF F
<1>2. IsFiniteSet(s)
  BY <1>1, FS_Subset
<1>3. s # {}
  BY <1>1, <1>2, SumStep
<1>4. First(s) \in s /\ s \ {First(s)} \notin F
  BY <1>1, <1>3, FirstIn
<1> QED
  BY <1>1, <1>2, <1>3, <1>4, SumStep
\* Changing one value changes the sum by as much.
LEMMA SumUpdate ==
  ASSUME NEW f, NEW g, NEW S, IsFiniteSet(S), NEW a \in S,
         \A x \in S : f[x] \in Int /\ g[x] \in Int,
         \A x \in S \ {a} : f[x] = g[x]
  PROVE  SumFunctionOnSet(g, S) = SumFunctionOnSet(f, S) - f[a] + g[a]
<1>1. IsFiniteSet(S \ {a})
  BY FS_Subset
<1>2. SumFunctionOnSet(f, S \ {a}) = SumFunctionOnSet(g, S \ {a})
  BY <1>1, SumSame
<1>3. SumFunctionOnSet(f, S \ {a}) \in Int
  BY <1>1, SumType
<1>4. /\ SumFunctionOnSet(f, S) = f[a] + SumFunctionOnSet(f, S \ {a})
      /\ SumFunctionOnSet(g, S) = g[a] + SumFunctionOnSet(g, S \ {a})
  BY SumOut
<1> QED
  BY <1>2, <1>3, <1>4

-----------------------------------------------------------------------------
(* Exit signals *)

\* A trade as the session keeps it: it never has less than no share left.
Positions == [entry : Prices, shares : Int, remaining : Nat, hwm : Prices]

\* A signal that closes a trade sells all that is left of it.
IsSignalFor(t, signal) ==
  /\ signal.shares \in Int
  /\ signal.final \in BOOLEAN
  /\ signal.final => signal.shares >= t.remaining

LEMMA DumpIsSignal ==
  ASSUME NEW t \in Positions PROVE IsSignalFor(t, DumpExit(t))
BY DEF IsSignalFor, DumpExit, Positions

LEMMA HoldIsSignal ==
  ASSUME NEW t \in Positions PROVE IsSignalFor(t, Hold)
BY DEF IsSignalFor, Hold

LEMMA ScaleOutIsSignal ==
  ASSUME NEW t \in Positions PROVE IsSignalFor(t, ScaleOut(t))
<1> DEFINE n == (t.remaining * Cfg.fraction_pct) \div 100
           k == Least(IF n < 1 THEN 1 ELSE n, t.remaining)
<1>1. t.remaining \in Nat /\ Cfg.fraction_pct \in Nat
  BY ConfigAssumption DEF Positions
<1>2. t.remaining * Cfg.fraction_pct \in Nat
  BY <1>1
<1>3. n \in Int
  BY <1>2
<1> HIDE DEF n
<1>4. k \in Int
  BY <1>1, <1>3 DEF Least
<1> HIDE DEF k
<1> DEFINE f == k >= t.remaining
<1>5. ScaleOut(t) = [shares |-> k, final |-> f]
  BY Zenon DEF ScaleOut, k, n
<1> HIDE DEF f
<1>6. ScaleOut(t).shares = k /\ ScaleOut(t).final = f
  BY <1>5
<1>7. f \in BOOLEAN /\ (f => k >= t.remaining)
  BY <1>1, <1>4 DEF f
<1>8. QED
  BY <1>4, <1>6, <1>7 DEF IsSignalFor

LEMMA SignalType ==
  ASSUME NEW t \in Positions, NEW c
  PROVE  IsSignalFor(t, ExitSignal(t, c))
<1>1. IsSignalFor(t, TrailOffPerCandle(t, c))
  BY DumpIsSignal, ScaleOutIsSignal, Zenon DEF TrailOffPerCandle
<1>2. IsSignalFor(t, TrailOffCandlePattern(t, c))
  <2>1. TrailOffCandlePattern(t, c) \in {DumpExit(t), ScaleOut(t), Hold}
    BY DEF TrailOffCandlePattern
  <2>2. QED
    BY <2>1, DumpIsSignal, ScaleOutIsSignal, HoldIsSignal, Zenon
<1>3. IsSignalFor(t, TrailOff(t, c))
  BY <1>1, <1>2, Zenon DEF TrailOff
<1>4. \/ ExitSignal(t, c) = DumpExit(t) \/ ExitSignal(t, c) = Hold
      \/ ExitSignal(t, c) = TrailOff(t, c)
      \/ ExitSignal(t, c) = TrailOffPerCandle(t, c)
  BY DEF ExitSignal
<1>5. QED
  BY <1>1, <1>3, <1>4, DumpIsSignal, HoldIsSignal, Zenon

LEMMA RaiseType ==
  ASSUME NEW t \in Positions, NEW c \in Candles
  PROVE  /\ Raise(t, c.close) \in Positions
         /\ Raise(t, c.close).remaining = t.remaining
         /\ Raise(t, c.close).entry = t.entry
<1>1. c.close \in Prices
  BY CandlesAssumption
<1>2. QED
  BY <1>1 DEF Raise, Positions

LEMMA SharesType ==
  ASSUME NEW e \in Int, NEW b \in Int, NEW price \in Nat \ {0}
  PROVE  ComputeShares(e, b, price, Cfg) \in Int
<1> DEFINE risk == RiskShares(e, price, Cfg)
           caps == Caps(b, price, Cfg)
<1>1. /\ Cfg.stop_loss_pct \in Nat /\ Cfg.position_size_pct \in Nat
      /\ EffectiveRisk(Cfg) \in Int
  BY ConfigAssumption DEF IsSizingConfig, EffectiveRisk, Magnitude
<1>2. caps \in Int
  <2>1. b * Cfg.position_size_pct \in Int
    BY <1>1
  <2>2. (b * Cfg.position_size_pct) \div (100 * price) \in Int
    BY <2>1
  <2>3. b \div price \in Int
    OBVIOUS
  <2>4. QED
    BY <2>2, <2>3 DEF Caps, Least
<1>3. CASE price * Cfg.stop_loss_pct <= 0
  BY <1>3 DEF ComputeShares
<1>4. CASE ~(price * Cfg.stop_loss_pct <= 0)
  <2> DEFINE q == price * Cfg.stop_loss_pct
             x == e * EffectiveRisk(Cfg)
  <2>1. q \in Nat /\ x \in Int /\ q > 0
    BY <1>1, <1>4
  <2>2. risk = x \div q
    BY DEF RiskShares
  <2> HIDE DEF q, x
  <2>3. risk \in Int
    BY <2>1, <2>2
  <2> HIDE DEF risk, caps
  <2>4. ComputeShares(e, b, price, Cfg) \in {0, Least(risk, caps)}
    BY DEF ComputeShares, risk, caps
  <2>5. QED
    BY <2>3, <2>4, <1>2 DEF Least
<1>5. QED
  BY <1>3, <1>4

-----------------------------------------------------------------------------
(* Open and live trades *)

TradesOK == trades \in [Symbols -> Positions \cup {NoTrade}]

LEMMA NoTradeIsNoPosition == NoTrade \notin Positions
BY NoTradeAssumption DEF Positions, Trades

LEMMA LiveFinite == IsFiniteSet(Live) /\ Cardinality(Live) \in Nat
<1>1. Live \in SUBSET Symbols
  BY DEF Live, Open
<1>2. QED
  BY <1>1, SymbolsAssumption, FS_Subset, FS_CardinalityType

\* Writing a trade makes it live or not by what remains of it, and leaves the
\* others alone.
LEMMA PutTrade ==
  ASSUME TradesOK, NEW s \in Symbols, NEW t \in Positions,
         trades' = [trades EXCEPT ![s] = t]
  PROVE  /\ TradesOK'
         /\ Open' = Open \cup {s}
         /\ Live' = IF t.remaining > 0 THEN Live \cup {s} ELSE Live \ {s}
<1>1. trades' \in [Symbols -> Positions \cup {NoTrade}]
  BY DEF TradesOK
<1>2. /\ trades'[s] = t /\ t # NoTrade
      /\ \A x \in Symbols \ {s} : trades'[x] = trades[x]
  BY NoTradeIsNoPosition DEF TradesOK
<1>3. Open' = Open \cup {s}
  BY <1>2 DEF Open
<1>4. \A x : x \in Live' <=> \/ x \in Live /\ x # s
                             \/ x = s /\ t.remaining > 0
  BY <1>2, <1>3 DEF Live, Open
<1>5. QED
  BY <1>1, <1>3, <1>4 DEF TradesOK

\* A sale that is booked keeps the sum of exits and live trades, closes trade
\* s when its signal does, and touches no other trade.
LEMMA SellEffect ==
  ASSUME TradesOK, exited \in Nat,
         NEW s \in Open, NEW t \in Positions, trades[s].remaining = t.remaining,
         NEW signal, IsSignalFor(t, signal), NEW price,
         SellBooks(s, t, signal, price)
  PROVE  /\ TradesOK' /\ exited' \in Nat
         /\ Open' = Open /\ Live' \subseteq Live /\ Live \ {s} \subseteq Live'
         /\ signal.final \/ t.remaining <= ExitQty(t, signal) => s \notin Live'
         /\ exited' + Cardinality(Live') = exited + Cardinality(Live)
<1> DEFINE n == ExitQty(t, signal)
           final == signal.final \/ t.remaining <= n
<1>1. /\ s \in Symbols /\ t.remaining \in Nat /\ signal.shares \in Int
      /\ s \in Live <=> t.remaining > 0
  BY DEF Open, Live, Positions, IsSignalFor
<1>2. /\ n \in Int /\ n <= t.remaining
      /\ final <=> n = t.remaining
  BY <1>1 DEF ExitQty, Least, IsSignalFor
<1>3. CASE n <= 0
  <2>1. trades' = [trades EXCEPT ![s] = t] /\ exited' = exited
    BY <1>3, <1>2 DEF SellBooks
  <2>2. /\ TradesOK' /\ Open' = Open \cup {s}
        /\ Live' = IF t.remaining > 0 THEN Live \cup {s} ELSE Live \ {s}
    BY <2>1, <1>1, PutTrade, Zenon
  <2>3. final => s \notin Live
    BY <1>1, <1>2, <1>3
  <2>4. Open' = Open /\ Live' = Live
    BY <2>2, <1>1
  <2>5. QED
    BY <2>1, <2>2, <2>3, <2>4
<1>4. CASE n > 0
  <2> DEFINE left == [t EXCEPT !.remaining = t.remaining - n]
  <2>1. \E p : Book(s, t, n, signal.final, p)
    BY <1>4, <1>2 DEF SellBooks
  <2>2. /\ trades' = [trades EXCEPT ![s] = left]
        /\ exited' = IF final THEN exited + 1 ELSE exited
    BY <2>1 DEF Book
  <2>3. left \in Positions /\ left.remaining = t.remaining - n
    BY <1>1, <1>2 DEF Positions
  <2> HIDE DEF n, left
  <2>4. /\ TradesOK' /\ Open' = Open
        /\ Live' = IF left.remaining > 0 THEN Live \cup {s} ELSE Live \ {s}
    <3>1. /\ TradesOK' /\ Open' = Open \cup {s}
          /\ Live' = IF left.remaining > 0 THEN Live \cup {s} ELSE Live \ {s}
      BY <2>2, <2>3, <1>1, PutTrade, Zenon
    <3>2. QED
      BY <3>1
  <2>5. s \in Live
    BY <1>1, <1>2, <1>4
  <2>6. CASE n = t.remaining
    <3>1. Live' = Live \ {s}
      BY <2>3, <2>4, <2>6, <1>1
    <3>2. Cardinality(Live') = Cardinality(Live) - 1
      BY <3>1, <2>5, LiveFinite, FS_RemoveElement
    <3>3. exited' = exited + 1
      BY <2>2, <2>6, <1>2
    <3>4. QED
      BY <3>1, <3>2, <3>3, <2>4, LiveFinite
  <2>7. CASE n # t.remaining
    <3>1. Live' = Live
      BY <2>3, <2>4, <2>5, <2>7, <1>1, <1>2
    <3>2. exited' = exited /\ ~final
      BY <2>2, <2>7, <1>2
    <3>3. QED
      BY <3>1, <3>2, <2>4 DEF n
  <2>8. QED
    BY <2>6, <2>7
<1>5. QED
  BY <1>2, <1>3, <1>4

\* Writing back a trade of which as much remains changes nothing that counts.
LEMMA KeepEffect ==
  ASSUME TradesOK, NEW s \in Open, NEW t \in Positions,
         trades[s].remaining = t.remaining,
         trades' = [trades EXCEPT ![s] = t]
  PROVE  TradesOK' /\ Open' = Open /\ Live' = Live
<1>1. s \in Symbols /\ t.remaining \in Nat
      /\ (s \in Live <=> t.remaining > 0)
  BY DEF Open, Live, Positions
<1>2. /\ TradesOK' /\ Open' = Open \cup {s}
      /\ Live' = IF t.remaining > 0 THEN Live \cup {s} ELSE Live \ {s}
  BY <1>1, PutTrade, Zenon
<1>3. QED
  BY <1>1, <1>2

\* Trades of which nothing remains may be deleted.
LEMMA DeleteEffect ==
  ASSUME TradesOK, NEW gone, gone \cap Live = {},
         trades' = [s \in Symbols |-> IF s \in gone THEN NoTrade ELSE trades[s]]
  PROVE  TradesOK' /\ Live' = Live
<1>1. TradesOK'
  BY DEF TradesOK
<1>2. \A s : s \in Live' <=> s \in Live
  BY DEF Live, Open
<1>3. QED
  BY <1>1, <1>2

-----------------------------------------------------------------------------
(* The inductive invariant *)

Counted ==
  /\ TradesOK
  /\ exited \in Nat /\ entered \in Nat
  /\ ExitAccounting

\* What the loops of the session know of the trades they walk over.
Flow ==
  /\ bars \in [Symbols -> Candles \cup {NoBars}]
  /\ todo \subseteq Symbols
  /\ pc \in {"exits", "last_exits", "flatten", "end_flatten"} => todo \subseteq Open
  /\ pc \in {"flatten", "end_flatten"} => Live \subseteq todo
  /\ closed \cap Live = {}
  /\ pc = "entries" => closed = {} /\ ~day.halted

Inv == Counted /\ Flow

LEMMA InitInv == Init => Inv
<1> SUFFICES ASSUME Init PROVE Inv
  OBVIOUS
<1>1. Open = {} /\ Live = {}
  BY DEF Init, Open, Live
<1>2. Counted
  BY <1>1, FS_EmptySet DEF Init, Counted, TradesOK, ExitAccounting
<1>3. Flow
  BY <1>1 DEF Init, Flow, NoCandles
<1>4. QED
  BY <1>2, <1>3 DEF Inv

\* An abandoned or finished loop leaves nothing behind.
LEMMA AbortFlow ==
  ASSUME NEW where, where \in {"idle", "raised", "over"}, Abort(where)
  PROVE  Flow'
BY DEF Abort, Flow, NoCandles

LEMMA SkipInv ==
  ASSUME Inv, NEW s \in Symbols, ExitSkip(s) \/ EntrySkip(s) PROVE Inv'
<1>1. Live' = Live /\ Open' = Open
  BY DEF ExitSkip, EntrySkip, session, Live, Open
<1>2. Counted'
  BY <1>1 DEF ExitSkip, EntrySkip, session, Inv, Counted, TradesOK, ExitAccounting
<1>3. Flow'
  BY <1>1 DEF ExitSkip, EntrySkip, session, Inv, Flow
<1>4. QED
  BY <1>2, <1>3 DEF Inv

\* The trade an exit step looks at, its mark raised.
LEMMA RaisedTrade ==
  ASSUME Inv, NEW s \in Symbols, s \in todo,
         pc \in {"exits", "last_exits"}, bars[s] # NoBars
  PROVE  LET t == Raise(trades[s], bars[s].close)
         IN  /\ s \in Open /\ t \in Positions
             /\ trades[s].remaining = t.remaining /\ trades[s].entry = t.entry
             /\ IsSignalFor(t, ExitSignal(t, bars[s]))
<1>1. s \in Open /\ trades[s] \in Positions /\ bars[s] \in Candles
  BY DEF Inv, Counted, Flow, TradesOK, Open
<1>2. QED
  BY <1>1, RaiseType, SignalType

LEMMA HoldInv == ASSUME Inv, NEW s \in Symbols, ExitHold(s) PROVE Inv'
<1> DEFINE t == Raise(trades[s], bars[s].close)
<1>1. /\ s \in Open /\ t \in Positions /\ trades[s].remaining = t.remaining
  BY RaisedTrade DEF ExitHold
<1>2. trades' = [trades EXCEPT ![s] = t]
  BY DEF ExitHold
<1> HIDE DEF t
<1>3. TradesOK' /\ Open' = Open /\ Live' = Live
  BY <1>1, <1>2, KeepEffect DEF Inv, Counted
<1>4. Counted'
  BY <1>3 DEF ExitHold, Inv, Counted, ExitAccounting
<1>5. Flow'
  BY <1>3 DEF ExitHold, Inv, Flow
<1>6. QED
  BY <1>4, <1>5 DEF Inv

LEMMA SellInv == ASSUME Inv, NEW s \in Symbols, ExitSell(s) PROVE Inv'
<1> DEFINE t == Raise(trades[s], bars[s].close)
           signal == ExitSignal(t, bars[s])
<1>1. /\ s \in Open /\ t \in Positions /\ trades[s].remaining = t.remaining
      /\ IsSignalFor(t, signal)
  BY RaisedTrade DEF ExitSell
<1>2. /\ TradesOK /\ exited \in Nat /\ entered \in Nat
      /\ entered = exited + Cardinality(Live) /\ entered' = entered
  BY DEF Inv, Counted, ExitAccounting, ExitSell
<1> HIDE DEF t, signal
<1>3. CASE SellBooks(s, t, signal, bars[s].close)
           /\ todo' = todo \ {s}
           /\ closed' = (IF signal.final \/ t.remaining <= ExitQty(t, signal)
                         THEN closed \cup {s} ELSE closed)
           /\ UNCHANGED <<pc, bars>>
  <2>1. /\ TradesOK' /\ exited' \in Nat
        /\ Open' = Open /\ Live' \subseteq Live
        /\ signal.final \/ t.remaining <= ExitQty(t, signal) => s \notin Live'
        /\ exited' + Cardinality(Live') = exited + Cardinality(Live)
    BY <1>1, <1>2, <1>3, SellEffect
  <2>2. Counted'
    BY <1>2, <2>1 DEF Counted, ExitAccounting
  <2>3. pc \in {"exits", "last_exits"}
    BY DEF ExitSell
  <2>4. Flow'
    BY <1>3, <2>1, <2>3 DEF Inv, Flow
  <2>5. QED
    BY <2>2, <2>4 DEF Inv
<1>4. CASE SellRaises(s, t, signal) /\ Abort("raised")
  <2>1. TradesOK' /\ Live' = Live /\ exited' = exited
    BY <1>1, <1>2, <1>4, KeepEffect DEF SellRaises
  <2>2. Counted'
    BY <1>2, <2>1 DEF Counted, ExitAccounting
  <2>3. QED
    BY <1>4, <2>2, AbortFlow DEF Inv
<1>5. QED
  BY <1>3, <1>4 DEF ExitSell, t, signal

\* Nothing the session looks at has changed.
LEMMA IdleInv ==
  ASSUME Inv, UNCHANGED <<pc, todo, closed, bars, day, trades, entered, exited>>
  PROVE  Inv'
<1>1. Open' = Open /\ Live' = Live
  BY DEF Open, Live
<1>2. QED
  BY <1>1 DEF Inv, Counted, TradesOK, ExitAccounting, Flow

LEMMA DoneInv == ASSUME Inv, Finish PROVE Inv'
<1>1. TradesOK /\ closed \cap Live = {}
  BY DEF Inv, Counted, Flow
<1>2. CASE ExitsDone \/ LastExitsDone
  <2>1. TradesOK' /\ Live' = Live
    BY <1>1, <1>2, DeleteEffect DEF ExitsDone, LastExitsDone, DeleteClosed
  <2>2. Counted'
    BY <1>2, <2>1 DEF ExitsDone, LastExitsDone, Inv, Counted, ExitAccounting
  <2>3. CASE Return
    BY <2>2, <2>3, AbortFlow DEF Return, Inv
  <2>4. CASE ~day.halted /\ day' = day /\ Visit("entries", Symbols) /\ UNCHANGED bars
    BY <2>2, <2>4 DEF Visit, Inv, Flow
  <2>5. QED
    BY <1>2, <2>3, <2>4 DEF ExitsDone, LastExitsDone
<1>3. CASE EntriesDone
  <2>1. Live' = Live
    BY <1>3 DEF EntriesDone, session, Live, Open
  <2>2. Counted'
    BY <1>3, <2>1 DEF EntriesDone, session, Inv, Counted, TradesOK, ExitAccounting
  <2>3. QED
    BY <1>3, <2>2, AbortFlow DEF EntriesDone, Return, Inv
<1>4. CASE FlattenDone
  <2>1. Live = {}
    BY <1>4 DEF FlattenDone, Inv, Flow
  <2>2. TradesOK' /\ Live' = {}
    BY <1>4 DEF FlattenDone, TradesOK, Live, Open
  <2>3. Counted'
    BY <1>4, <2>1, <2>2 DEF FlattenDone, Inv, Counted, ExitAccounting
  <2>4. QED
    BY <1>4, <2>3, AbortFlow DEF FlattenDone, Inv
<1>5. QED
  BY <1>2, <1>3, <1>4 DEF Finish

LEMMA FlattenInv == ASSUME Inv, NEW s \in Symbols, FlattenStep(s) PROVE Inv'
<1> DEFINE t == trades[s]
<1>1. /\ s \in Open /\ t \in Positions /\ IsSignalFor(t, DumpExit(t))
  BY DumpIsSignal DEF FlattenStep, Inv, Counted, Flow, TradesOK, Open
<1>2. /\ TradesOK /\ exited \in Nat /\ entered \in Nat
      /\ entered = exited + Cardinality(Live) /\ entered' = entered
  BY DEF Inv, Counted, ExitAccounting, FlattenStep
<1>3. CASE SellBooks(s, t, DumpExit(t), t.entry)
           /\ todo' = todo \ {s} /\ UNCHANGED <<pc, closed, bars>>
  <2>1. /\ TradesOK' /\ exited' \in Nat
        /\ Open' = Open /\ Live' \subseteq Live
        /\ DumpExit(t).final => s \notin Live'
        /\ exited' + Cardinality(Live') = exited + Cardinality(Live)
    BY <1>1, <1>2, <1>3, SellEffect
  <2>2. Counted'
    BY <1>2, <2>1 DEF Counted, ExitAccounting
  <2>3. s \notin Live'
    BY <2>1 DEF DumpExit
  <2>4. pc \in {"flatten", "end_flatten"}
    BY DEF FlattenStep
  <2>5. Flow'
    BY <1>3, <2>1, <2>3, <2>4 DEF Inv, Flow
  <2>6. QED
    BY <2>2, <2>5 DEF Inv
<1>4. CASE SellRaises(s, t, DumpExit(t))
           /\ Abort(IF pc = "flatten" THEN "raised" ELSE "over")
  <2>1. TradesOK' /\ Live' = Live /\ exited' = exited
    BY <1>1, <1>2, <1>4, KeepEffect DEF SellRaises
  <2>2. Counted'
    BY <1>2, <2>1 DEF Counted, ExitAccounting
  <2>3. QED
    BY <1>4, <2>2, AbortFlow DEF Inv
<1>5. QED
  BY <1>3, <1>4 DEF FlattenStep

\* An entry adds a live trade, or changes no counter.
LEMMA EnterInv == ASSUME Inv, NEW s \in Symbols, Enter(s) PROVE Inv'
<1>1. /\ pc = "entries" /\ trades[s] = NoTrade /\ exited' = exited /\ day' = day
      /\ bars[s] \in Candles
  BY DEF Enter, Inv, Flow
<1>2. bars[s].close \in Nat \ {0} /\ bars[s].close \in Prices
  BY <1>1, CandlesAssumption, PricesAssumption
<1>3. /\ TradesOK /\ exited \in Nat /\ entered \in Nat
      /\ entered = exited + Cardinality(Live) /\ s \notin Live
  BY <1>1 DEF Inv, Counted, ExitAccounting, Live, Open
<1>4. PICK acct \in Accounts :
        LET n == ComputeShares(acct.equity, acct.buying_power, bars[s].close, Cfg)
        IN  /\ n > 0
            /\ \/ \E p \in Prices :
                    /\ trades' = [trades EXCEPT ![s] =
                         [entry |-> p, shares |-> n, remaining |-> n, hwm |-> p]]
                    /\ entered' = entered + 1
                    /\ todo' = todo \ {s}
                    /\ UNCHANGED <<pc, closed, bars>>
               \/ /\ todo' = todo \ {s}
                  /\ UNCHANGED <<pc, closed, bars, trades, entered>>
               \/ /\ Abort("raised")
                  /\ UNCHANGED <<trades, entered>>
  BY DEF Enter
<1> DEFINE n == ComputeShares(acct.equity, acct.buying_power, bars[s].close, Cfg)
<1>5. n \in Int /\ n > 0
  BY <1>2, <1>4, SharesType, AccountsAssumption
<1> HIDE DEF n
<1>6. CASE \E p \in Prices :
             /\ trades' = [trades EXCEPT ![s] =
                  [entry |-> p, shares |-> n, remaining |-> n, hwm |-> p]]
             /\ entered' = entered + 1
             /\ todo' = todo \ {s}
             /\ UNCHANGED <<pc, closed, bars>>
  <2>1. PICK p \in Prices :
          trades' = [trades EXCEPT ![s] =
            [entry |-> p, shares |-> n, remaining |-> n, hwm |-> p]]
    BY <1>6
  <2> DEFINE t == [entry |-> p, shares |-> n, remaining |-> n, hwm |-> p]
  <2>2. t \in Positions /\ t.remaining > 0
    BY <1>5 DEF Positions
  <2> HIDE DEF t
  <2>3. TradesOK' /\ Live' = Live \cup {s}
    BY <2>1, <2>2, <1>3, PutTrade DEF t
  <2>4. Cardinality(Live') = Cardinality(Live) + 1
    BY <1>3, <2>3, LiveFinite, FS_AddElement
  <2>5. Counted'
    BY <1>1, <1>3, <1>6, <2>3, <2>4, LiveFinite DEF Counted, ExitAccounting
  <2>6. Flow'
    BY <1>1, <1>6, <2>3 DEF Inv, Flow
  <2>7. QED
    BY <2>5, <2>6 DEF Inv
<1>7. CASE todo' = todo \ {s} /\ UNCHANGED <<pc, closed, bars, trades, entered>>
  <2>1. Live' = Live /\ Open' = Open
    BY <1>7 DEF Live, Open
  <2>2. QED
    BY <1>1, <1>7, <2>1 DEF Inv, Counted, TradesOK, ExitAccounting, Flow
<1>8. CASE Abort("raised") /\ UNCHANGED <<trades, entered>>
  <2>1. Live' = Live
    BY <1>8 DEF Live, Open
  <2>2. Counted'
    BY <1>1, <1>8, <2>1 DEF Inv, Counted, TradesOK, ExitAccounting
  <2>3. QED
    BY <1>8, <2>2, AbortFlow DEF Inv
<1>9. QED
  BY <1>4, <1>6, <1>7, <1>8 DEF n

\* Starting a cycle or the end of the day.
LEMMA StartInv ==
  ASSUME Inv,
         \/ \E b \in [Symbols -> Candles \cup {NoBars}] : BeginCycle(b)
         \/ EndDay
  PROVE  Inv'
<1>1. /\ UNCHANGED <<trades, entered, exited>>
      /\ bars' \in [Symbols -> Candles \cup {NoBars}]
      /\ todo' = Open /\ closed' = {}
      /\ pc' \in {"exits", "last_exits", "flatten", "end_flatten"}
  BY DEF BeginCycle, EndDay, AfterCheck, Visit, session, Inv, Flow
<1>2. Open' = Open /\ Live' = Live /\ Live \subseteq Open /\ Open \subseteq Symbols
  BY <1>1 DEF Open, Live
<1>3. Counted'
  BY <1>1, <1>2 DEF Inv, Counted, TradesOK, ExitAccounting
<1>4. Flow'
  BY <1>1, <1>2 DEF Flow
<1>5. QED
  BY <1>3, <1>4 DEF Inv

LEMMA NextInv == Inv /\ [Next]_vars => Inv'
<1> SUFFICES ASSUME Inv, [Next]_vars PROVE Inv'
  OBVIOUS
<1>1. CASE Tick \/ Over \/ UNCHANGED vars
  BY <1>1, IdleInv DEF Tick, Over, vars, session
<1>2. CASE \/ \E s \in Symbols, p \in Prices : LateFill(s, p)
           \/ \E s \in Symbols : LateEnd(s)
  BY <1>2, IdleInv DEF LateFill, LateEnd, session
<1>3. CASE \/ \E b \in [Symbols -> Candles \cup {NoBars}] : BeginCycle(b)
           \/ EndDay
  BY <1>3, StartInv
<1>4. CASE \E s \in Symbols : Step(s)
  BY <1>4, SkipInv, HoldInv, SellInv, EnterInv, FlattenInv DEF Step
<1>5. CASE Finish
  BY <1>5, DoneInv
<1>6. QED
  BY <1>1, <1>2, <1>3, <1>4, <1>5 DEF Next, Session

-----------------------------------------------------------------------------
(* One check of the breakers, for the session *)

LEMMA PriceType == ASSUME NEW p \in Prices PROVE p \in Int /\ p > 0
BY PricesAssumption

LEMMA UnrealizedType == ASSUME TradesOK PROVE Unrealized \in Int
<1> DEFINE pnl == [s \in Open |-> (trades[s].hwm - trades[s].entry) * trades[s].remaining]
<1>1. Open \in SUBSET Symbols
  BY DEF Open
<1>2. ASSUME NEW s \in Open PROVE pnl[s] \in Int
  <2>1. trades[s] \in Positions
    BY <1>1 DEF Open, TradesOK
  <2>2. /\ trades[s].hwm \in Int /\ trades[s].entry \in Int /\ trades[s].remaining \in Int
    <3>1. /\ trades[s].hwm \in Prices /\ trades[s].entry \in Prices
          /\ trades[s].remaining \in Nat
      BY <2>1 DEF Positions
    <3> QED
      BY <3>1, PriceType
  <2> QED
    BY <2>2
<1>3. IsFiniteSet(Open)
  BY <1>1, SymbolsAssumption, FS_Subset
<1> HIDE DEF pnl
<1>4. SumFunctionOnSet(pnl, Open) \in Int
  BY <1>2, <1>3, SumType
<1> QED
  BY <1>4 DEF Unrealized, pnl

\* Whether a halt for this reason orders every position closed.
WantsFlat(reason) ==
  \/ reason = "max_loss" /\ Cfg.flatten_on_max_loss
  \/ reason = "target" /\ Cfg.flatten_on_target
  \/ reason = "giveback"

\* What halting a day that is not halted yields.
IsHalt(d, c) ==
  /\ c.day \in Days /\ c.verdict \in Verdicts
  /\ c.day.halted /\ c.day.reason # "none"
  /\ c.day.reason = "target" => Cfg.target_mode = "stop"
  /\ c.verdict = IF WantsFlat(c.day.reason) THEN "flatten_and_halt" ELSE "halt"

IsGo(d, c) ==
  /\ c.day \in Days /\ c.verdict = "none"
  /\ c.day.halted = d.halted /\ c.day.reason = d.reason

LEMMA HaltResult ==
  ASSUME NEW d \in Days, NEW why \in Reasons \ {"none"}, NEW flatten \in BOOLEAN,
         why = "target" => Cfg.target_mode = "stop", flatten = WantsFlat(why)
  PROVE  IsHalt(d, Halt(d, why, flatten))
<1>1. /\ Halt(d, why, flatten).day = [d EXCEPT !.halted = TRUE, !.reason = why]
      /\ Halt(d, why, flatten).verdict = IF flatten THEN "flatten_and_halt" ELSE "halt"
  BY DEF Halt
<1>2. /\ Halt(d, why, flatten).day \in Days
      /\ Halt(d, why, flatten).day.halted = TRUE /\ Halt(d, why, flatten).day.reason = why
  BY <1>1 DEF Days
<1> QED
  BY <1>1, <1>2 DEF IsHalt, Verdicts

LEMMA StopResult ==
  ASSUME NEW d \in Days, Cfg.target_mode = "stop"
  PROVE  LET c == CheckStop(d, Cfg) IN IsHalt(d, c) \/ IsGo(d, c)
<1>1. Cfg.flatten_on_target \in BOOLEAN /\ Cfg.flatten_on_target = WantsFlat("target")
  BY ConfigAssumption DEF IsLimitConfig, WantsFlat
<1>2. IsHalt(d, Halt(d, "target", Cfg.flatten_on_target))
  BY <1>1, HaltResult DEF Reasons
<1>3. IsGo(d, Go(d))
  BY DEF IsGo, Go
<1> QED
  BY <1>2, <1>3, Zenon DEF CheckStop

LEMMA GivebackResult ==
  ASSUME NEW d \in Days
  PROVE  LET c == CheckGiveback(d, Cfg) IN IsHalt(d, c) \/ IsGo(d, c)
<1> DEFINE high == IF TotalPnl(d) > d.high THEN TotalPnl(d) ELSE d.high
           armed == IF TargetHit(d, Cfg) THEN TRUE ELSE d.armed
           t == [d EXCEPT !.high = high, !.armed = armed]
<1>1. high \in Int /\ armed \in BOOLEAN
  <2>1. high \in Int
    BY DEF Days, TotalPnl
  <2>2. armed \in BOOLEAN
    BY DEF Days
  <2> QED
    BY <2>1, <2>2
<1>2. TrackHighWater(d, Cfg) = t
  BY Zenon DEF TrackHighWater
<1> HIDE DEF high, armed
<1>3. t \in Days /\ t.halted = d.halted /\ t.reason = d.reason
  BY <1>1 DEF Days
<1> HIDE DEF t
<1>4. IsHalt(d, Halt(t, "giveback", TRUE))
  <2>1. WantsFlat("giveback") = TRUE
    BY DEF WantsFlat
  <2>2. IsHalt(t, Halt(t, "giveback", TRUE))
    BY <1>3, <2>1, HaltResult DEF Reasons
  <2> QED
    BY <2>2, Zenon DEF IsHalt
<1>5. IsGo(d, Go(t))
  BY <1>3 DEF IsGo, Go
<1>6. CheckGiveback(d, Cfg) \in {Halt(t, "giveback", TRUE), Go(t)}
  BY <1>2, Zenon DEF CheckGiveback
<1> QED
  BY <1>4, <1>5, <1>6, Zenon

LEMMA CheckResult ==
  ASSUME NEW d \in Days, NEW r \in Int, NEW u \in Int
  PROVE  LET c == CheckDailyLimits(d, r, u, Cfg)
         IN  /\ d.halted => /\ c.day \in Days /\ c.verdict = "halt"
                            /\ c.day.halted /\ c.day.reason = d.reason
             /\ ~d.halted => IsHalt(d, c) \/ IsGo(d, c)
<1> DEFINE m == [d EXCEPT !.realized = r, !.unrealized = u]
           c == CheckDailyLimits(d, r, u, Cfg)
<1>1. m \in Days /\ m.halted = d.halted /\ m.reason = d.reason
  BY DEF Days
<1>2. c = CASE m.halted -> [day |-> m, verdict |-> "halt"]
            [] ~m.halted /\ MaxLossHit(m, Cfg) ->
                 Halt(m, "max_loss", Cfg.flatten_on_max_loss)
            [] ~m.halted /\ ~MaxLossHit(m, Cfg) /\ Cfg.target_mode = "stop" ->
                 CheckStop(m, Cfg)
            [] OTHER -> CheckGiveback(m, Cfg)
  BY Zenon DEF CheckDailyLimits
<1> HIDE DEF m, c
<1>3. IsHalt(m, Halt(m, "max_loss", Cfg.flatten_on_max_loss))
  <2>1. /\ Cfg.flatten_on_max_loss \in BOOLEAN
        /\ Cfg.flatten_on_max_loss = WantsFlat("max_loss")
    BY ConfigAssumption DEF IsLimitConfig, WantsFlat
  <2> QED
    BY <1>1, <2>1, HaltResult DEF Reasons
<1>4. CASE d.halted
  <2>1. c = [day |-> m, verdict |-> "halt"]
    BY <1>1, <1>2, <1>4
  <2>2. c.day = m /\ c.verdict = "halt"
    BY <2>1
  <2> QED
    BY <1>1, <1>4, <2>2 DEF c
<1>5. CASE ~d.halted
  <2>1. \/ c = Halt(m, "max_loss", Cfg.flatten_on_max_loss)
        \/ c = CheckStop(m, Cfg) /\ Cfg.target_mode = "stop"
        \/ c = CheckGiveback(m, Cfg)
    BY <1>1, <1>2, <1>5
  <2>2. IsHalt(m, c) \/ IsGo(m, c)
    BY <1>1, <1>3, <2>1, StopResult, GivebackResult, Zenon
  <2>3. IsHalt(d, c) \/ IsGo(d, c)
    BY <1>1, <2>2, Zenon DEF IsHalt, IsGo
  <2> QED
    BY <1>5, <2>3 DEF c
<1> QED
  BY <1>4, <1>5

-----------------------------------------------------------------------------
(* Types *)

BrokerOK ==
  /\ held \in [Symbols -> Int]
  /\ working \in [Symbols -> [buy : Nat, sell : Nat]]
  /\ cash \in Int /\ faults \in 0..MaxFaults

\* The variables of which Inv says nothing.
Types ==
  /\ zone \in Zones /\ seen \in Zones
  /\ pc \in Running \cup {"idle", "raised", "over"} /\ closed \subseteq Symbols
  /\ day \in Days /\ verdict \in Verdicts
  /\ entered \in 0..MaxTrades /\ realized \in Int
  /\ BrokerOK

LEMMA TypesSuffice == Inv /\ Types => TypeOK
<1> SUFFICES ASSUME Inv, Types PROVE TypeOK
  OBVIOUS
<1>1. Positions \subseteq Trades
  BY DEF Positions, Trades
<1>2. trades \in [Symbols -> Trades \cup {NoTrade}]
  BY <1>1 DEF Inv, Counted, TradesOK
<1> QED
  BY <1>2, Zenon DEF Inv, Counted, Flow, Types, BrokerOK, TypeOK

LEMMA SettleType ==
  ASSUME BrokerOK, NEW s \in Symbols, NEW side \in {"buy", "sell"},
         NEW done \in Nat, NEW left \in Nat, NEW price \in Int,
         Settle(s, side, done, left, price)
  PROVE  /\ held' \in [Symbols -> Int]
         /\ working' \in [Symbols -> [buy : Nat, sell : Nat]]
         /\ cash' \in Int
<1> USE DEF BrokerOK
<1>1. /\ held[s] \in Int /\ working[s] \in [buy : Nat, sell : Nat]
      /\ price * done \in Int
  OBVIOUS
<1>2. held' \in [Symbols -> Int]
  <2>1. (IF side = "buy" THEN held[s] + done ELSE held[s] - done) \in Int
    BY <1>1
  <2> QED
    BY <2>1 DEF Settle
<1>3. working' \in [Symbols -> [buy : Nat, sell : Nat]]
  <2>1. CASE side = "buy"
    BY <2>1 DEF Settle
  <2>2. CASE side = "sell"
    BY <2>2 DEF Settle
  <2> QED
    BY <2>1, <2>2
<1>4. cash' \in Int
  <2> DEFINE paid == price * done
  <2>1. cash' = IF side = "buy" THEN cash - paid ELSE cash + paid
    BY DEF Settle
  <2>2. paid \in Int
    BY <1>1
  <2> HIDE DEF paid
  <2> QED
    BY <2>1, <2>2
<1> QED
  BY <1>2, <1>3, <1>4

\* Whatever becomes of an order, the account is one.
LEMMA OrderType ==
  ASSUME BrokerOK, NEW s \in Symbols, NEW side \in {"buy", "sell"}, NEW n \in Int, n > 0,
         \/ \E p \in Prices : Fills(s, side, n, p)
         \/ \E p \in Prices, k \in 0..(n - 1) : Ends(s, side, n, k, p)
         \/ Raises(s, side, n)
  PROVE  BrokerOK'
<1>1. faults' \in 0..MaxFaults
  BY BoundsAssumption DEF BrokerOK, Fills, Ends, Raises, Fault
<1>2. \/ UNCHANGED <<held, cash, working>>
      \/ \E price \in Int, done \in Nat, left \in Nat : Settle(s, side, done, left, price)
  <2>1. CASE \E p \in Prices : Fills(s, side, n, p)
    <3>1. PICK p \in Prices : Settle(s, side, n, 0, p) \/ Settle(s, side, n, n, p)
      BY <2>1 DEF Fills
    <3> QED
      BY <3>1, PriceType
  <2>2. CASE \E p \in Prices, k \in 0..(n - 1) : Ends(s, side, n, k, p)
    <3>1. PICK p \in Prices, k \in 0..(n - 1) : Settle(s, side, k, 0, p)
      BY <2>2 DEF Ends
    <3> QED
      BY <3>1, PriceType
  <2>3. CASE Raises(s, side, n)
    BY <2>3 DEF Raises
  <2> QED
    BY <2>1, <2>2, <2>3
<1>3. /\ held' \in [Symbols -> Int] /\ cash' \in Int
      /\ working' \in [Symbols -> [buy : Nat, sell : Nat]]
  BY <1>2, SettleType DEF BrokerOK
<1> QED
  BY <1>1, <1>3 DEF BrokerOK

\* A sale keeps the types of what it writes.
LEMMA SaleType ==
  ASSUME BrokerOK, realized \in Int, NEW s \in Symbols, NEW t \in Positions,
         NEW signal, IsSignalFor(t, signal), NEW fallback,
         SellBooks(s, t, signal, fallback) \/ SellRaises(s, t, signal)
  PROVE  BrokerOK' /\ realized' \in Int
<1> DEFINE n == ExitQty(t, signal)
<1>1. n \in Int
  BY DEF ExitQty, Least, IsSignalFor, Positions
<1>2. t.entry \in Int
  BY PriceType DEF Positions
<1>3. CASE SellBooks(s, t, signal, fallback)
  <2>1. CASE n <= 0
    BY <1>1, <1>3, <2>1 DEF SellBooks, broker, BrokerOK
  <2>2. CASE n > 0
    <3>1. PICK p \in Prices :
            /\ Book(s, t, n, signal.final, p)
            /\ \/ Fills(s, "sell", n, p)
               \/ \E k \in 0..(n - 1) : Ends(s, "sell", n, k, p)
      BY <1>1, <1>3, <2>2 DEF SellBooks
    <3>2. BrokerOK'
      BY <1>1, <2>2, <3>1, OrderType
    <3>3. realized' = realized + (p - t.entry) * n
      BY <3>1 DEF Book
    <3> HIDE DEF n
    <3>4. (p - t.entry) * n \in Int
      BY <1>1, <1>2, PriceType
    <3> QED
      BY <3>2, <3>3, <3>4
  <2> QED
    BY <1>1, <2>1, <2>2
<1>4. CASE SellRaises(s, t, signal)
  BY <1>1, <1>4, OrderType DEF SellRaises
<1> QED
  BY <1>3, <1>4

LEMMA InitTypes == Init => Types
<1> SUFFICES ASSUME Init PROVE Types
  OBVIOUS
<1>1. day \in Days
  BY ConfigAssumption DEF Init, NewDay, Days, Reasons
<1>2. BrokerOK
  BY BoundsAssumption DEF Init, BrokerOK
<1> QED
  BY <1>1, <1>2, BoundsAssumption DEF Init, Types, Zones, Verdicts

\* Steps of the clock and of the broker.
LEMMA WorldTypes ==
  ASSUME Types,
         \/ Tick \/ Over \/ UNCHANGED vars
         \/ \E s \in Symbols, p \in Prices : LateFill(s, p)
         \/ \E s \in Symbols : LateEnd(s)
  PROVE  Types'
<1>1. CASE Tick \/ Over \/ UNCHANGED vars
  BY <1>1 DEF Tick, Over, vars, session, broker, Types, Zones, BrokerOK
<1>2. ASSUME NEW s \in Symbols, NEW p \in Prices, LateFill(s, p) PROVE Types'
  <2>1. /\ held[s] \in Int /\ working[s].buy \in Nat /\ working[s].sell \in Nat /\ cash \in Int
    BY DEF Types, BrokerOK
  <2>2. /\ held[s] + working[s].buy - working[s].sell \in Int
        /\ working[s].sell - working[s].buy \in Int
    BY <2>1
  <2> DEFINE due == p * (working[s].sell - working[s].buy)
  <2>3. due \in Int
    BY <2>2, PriceType
  <2>4. cash' = cash + due
    BY <1>2 DEF LateFill
  <2> HIDE DEF due
  <2>5. cash' \in Int
    BY <2>1, <2>3, <2>4
  <2>6. /\ held' \in [Symbols -> Int]
        /\ working' \in [Symbols -> [buy : Nat, sell : Nat]]
    BY <1>2, <2>2 DEF LateFill, Types, BrokerOK
  <2> QED
    BY <1>2, <2>5, <2>6 DEF LateFill, session, Types, BrokerOK
<1>3. ASSUME NEW s \in Symbols, LateEnd(s) PROVE Types'
  BY <1>3 DEF LateEnd, session, Types, BrokerOK
<1> QED
  BY <1>1, <1>2, <1>3

LEMMA StepTypes ==
  ASSUME Inv, Types, NEW s \in Symbols, Step(s) PROVE Types'
<1>1. CASE ExitSkip(s) \/ EntrySkip(s) \/ ExitHold(s)
  BY <1>1 DEF ExitSkip, EntrySkip, ExitHold, session, broker, Types, BrokerOK
<1>2. CASE ExitSell(s)
  <2> DEFINE t == Raise(trades[s], bars[s].close)
             signal == ExitSignal(t, bars[s])
  <2>1. t \in Positions /\ IsSignalFor(t, signal)
    BY <1>2, RaisedTrade DEF ExitSell
  <2>2. SellBooks(s, t, signal, bars[s].close) \/ SellRaises(s, t, signal)
    BY <1>2 DEF ExitSell
  <2>3. pc' \in {pc, "raised"} /\ closed' \subseteq Symbols
    BY <1>2 DEF ExitSell, Abort, Types
  <2> HIDE DEF t, signal
  <2>4. BrokerOK' /\ realized' \in Int
    BY <2>1, <2>2, SaleType DEF Types
  <2> QED
    BY <1>2, <2>3, <2>4 DEF ExitSell, Types
<1>3. CASE FlattenStep(s)
  <2>1. trades[s] \in Positions
    BY <1>3 DEF FlattenStep, Inv, Counted, Flow, TradesOK, Open
  <2>2. /\ IsSignalFor(trades[s], DumpExit(trades[s]))
        /\ \/ SellBooks(s, trades[s], DumpExit(trades[s]), trades[s].entry)
           \/ SellRaises(s, trades[s], DumpExit(trades[s]))
    BY <1>3, <2>1, DumpIsSignal DEF FlattenStep
  <2>3. BrokerOK' /\ realized' \in Int
    BY <2>1, <2>2, SaleType DEF Types
  <2>4. pc' \in {pc, "raised", "over"} /\ closed' \subseteq Symbols
    BY <1>3 DEF FlattenStep, Abort, Types
  <2> QED
    BY <1>3, <2>3, <2>4 DEF FlattenStep, Types
<1>4. CASE Enter(s)
  <2>1. bars[s].close \in Nat \ {0}
    BY <1>4, CandlesAssumption, PricesAssumption DEF Enter, Inv, Flow
  <2>2. PICK acct \in Accounts :
          LET n == ComputeShares(acct.equity, acct.buying_power, bars[s].close, Cfg)
          IN  /\ n > 0
              /\ \/ \E p \in Prices : Fills(s, "buy", n, p)
                 \/ \E p \in Prices, k \in 0..(n - 1) : Ends(s, "buy", n, k, p)
                 \/ Raises(s, "buy", n)
    BY <1>4 DEF Enter
  <2>3. ComputeShares(acct.equity, acct.buying_power, bars[s].close, Cfg) \in Int
    BY <2>1, SharesType, AccountsAssumption
  <2>4. BrokerOK'
    BY <2>2, <2>3, OrderType DEF Types
  <2>5. entered' \in 0..MaxTrades
    BY <1>4, BoundsAssumption DEF Enter, Types
  <2>6. /\ pc' \in {pc, "raised"} /\ closed' \subseteq Symbols
        /\ UNCHANGED <<zone, seen, day, verdict, realized>>
    BY <1>4 DEF Enter, Abort, Types
  <2> QED
    BY <2>4, <2>5, <2>6 DEF Types
<1> QED
  BY <1>1, <1>2, <1>3, <1>4 DEF Step

LEMMA CycleTypes ==
  ASSUME Inv, Types, NEW b \in [Symbols -> Candles \cup {NoBars}], BeginCycle(b)
  PROVE  Types'
<1>1. /\ pc' \in {"exits", "last_exits", "flatten"} /\ closed' = {}
      /\ seen' = zone /\ UNCHANGED <<zone, entered, realized, broker>>
  BY DEF BeginCycle, AfterCheck, Visit
<1>2. day' \in Days /\ verdict' \in Verdicts
  <2>1. Unrealized \in Int
    BY UnrealizedType DEF Inv, Counted
  <2>2. day \in Days /\ realized \in Int /\ verdict \in Verdicts
    BY DEF Types
  <2>3. LET c == CheckDailyLimits(day, realized, Unrealized, Cfg)
        IN  c.day \in Days /\ c.verdict \in Verdicts
    BY <2>1, <2>2, CheckResult DEF IsHalt, IsGo, Verdicts
  <2> QED
    BY <2>2, <2>3 DEF BeginCycle
<1> QED
  BY <1>1, <1>2 DEF Types, BrokerOK, broker, Running

LEMMA NextTypes == Inv /\ Types /\ [Next]_vars => Types'
<1> SUFFICES ASSUME Inv, Types, [Next]_vars PROVE Types'
  OBVIOUS
<1>1. CASE Finish \/ EndDay
  BY <1>1 DEF Finish, ExitsDone, LastExitsDone, EntriesDone, FlattenDone, EndDay, Return,
              Abort, Visit, session, broker, Types, BrokerOK, Running
<1> QED
  BY <1>1, WorldTypes, StepTypes, CycleTypes DEF Next, Session

-----------------------------------------------------------------------------
(* Closing what a halt or the clock orders closed.  An order that raises     *)
(* leaves the loop that sells, and a halted day does not come back to it.    *)

NeverRaises == Outcomes \subseteq {"filled", "doubled", "ended"}

LEMMA NoRaise ==
  ASSUME NeverRaises, NEW s, NEW side, NEW n PROVE ~Raises(s, side, n)
BY DEF NeverRaises, Raises

\* The day keeps why it was halted, a halt that orders it leaves nothing open,
\* and a loop that is still walked was not to be a flatten.
Orderly ==
  /\ pc # "raised"
  /\ day.halted <=> day.reason # "none"
  /\ day.reason = "target" => Cfg.target_mode = "stop"
  /\ OrderedFlat => Live = {} \/ pc \in {"flatten", "end_flatten"}
  /\ pc \in {"exits", "entries"} =>
       ~day.halted /\ ~(Cfg.force_close /\ seen = "near_close")
  /\ pc = "last_exits" => seen = "z_hour" \/ day.halted

LEMMA OrderedFlatWants == OrderedFlat <=> WantsFlat(day.reason)
BY DEF OrderedFlat, WantsFlat

LEMMA InitOrderly == Init => Orderly
<1> SUFFICES ASSUME Init PROVE Orderly
  OBVIOUS
<1>1. day.halted = FALSE /\ day.reason = "none" /\ pc = "idle"
  BY DEF Init, NewDay
<1> QED
  BY <1>1, OrderedFlatWants DEF Orderly, WantsFlat

\* A step that changes neither the day, nor the loop, nor what is open.
LEMMA SameOrderly ==
  ASSUME Orderly, UNCHANGED <<pc, seen, day>>, Live' \subseteq Live
  PROVE  Orderly'
BY DEF Orderly, OrderedFlat

LEMMA WorldOrderly ==
  ASSUME Orderly,
         \/ Tick \/ Over \/ UNCHANGED vars
         \/ \E s \in Symbols, p \in Prices : LateFill(s, p)
         \/ \E s \in Symbols : LateEnd(s)
  PROVE  Orderly'
<1>1. UNCHANGED <<pc, seen, day, trades>>
  BY DEF Tick, Over, vars, session, LateFill, LateEnd
<1>2. Live' = Live
  BY <1>1 DEF Live, Open
<1> QED
  BY <1>1, <1>2, SameOrderly

LEMMA StepOrderly ==
  ASSUME NeverRaises, Inv, Orderly, NEW s \in Symbols, Step(s) PROVE Orderly'
<1>1. CASE ExitSkip(s) \/ EntrySkip(s)
  <2>1. UNCHANGED <<pc, seen, day, trades>>
    BY <1>1 DEF ExitSkip, EntrySkip, session
  <2>2. Live' = Live
    BY <2>1 DEF Live, Open
  <2> QED
    BY <2>1, <2>2, SameOrderly
<1>2. CASE ExitHold(s)
  <2>1. Live' = Live
    BY <1>2, RaisedTrade, KeepEffect DEF ExitHold, Inv, Counted
  <2> QED
    BY <1>2, <2>1, SameOrderly DEF ExitHold
<1>3. CASE ExitSell(s)
  <2> DEFINE t == Raise(trades[s], bars[s].close)
             signal == ExitSignal(t, bars[s])
  <2>1. /\ s \in Open /\ t \in Positions /\ trades[s].remaining = t.remaining
        /\ IsSignalFor(t, signal)
    BY <1>3, RaisedTrade DEF ExitSell
  <2>2. SellBooks(s, t, signal, bars[s].close) /\ UNCHANGED <<pc, seen, day>>
    BY <1>3, NoRaise DEF ExitSell, SellRaises
  <2> HIDE DEF t, signal
  <2>3. Live' \subseteq Live
    BY <2>1, <2>2, SellEffect DEF Inv, Counted
  <2> QED
    BY <2>2, <2>3, SameOrderly
<1>4. CASE FlattenStep(s)
  <2>1. pc \in {"flatten", "end_flatten"} /\ UNCHANGED <<pc, seen, day>>
    BY <1>4, NoRaise DEF FlattenStep, SellRaises
  <2> QED
    BY <2>1 DEF Orderly, OrderedFlat
<1>5. CASE Enter(s)
  <2>1. pc = "entries" /\ UNCHANGED <<pc, seen, day>>
    BY <1>5, NoRaise DEF Enter
  <2>2. ~OrderedFlat
    BY <2>1, OrderedFlatWants DEF Orderly, WantsFlat
  <2> QED
    BY <2>1, <2>2 DEF Orderly, OrderedFlat
<1> QED
  BY <1>1, <1>2, <1>3, <1>4, <1>5 DEF Step

\* The loops end as they were begun.
LEMMA FinishOrderly == ASSUME Inv, Orderly, Finish PROVE Orderly'
<1>1. CASE ExitsDone \/ LastExitsDone
  <2>1. Live' = Live
    BY <1>1, DeleteEffect DEF ExitsDone, LastExitsDone, DeleteClosed, Inv, Counted, Flow
  <2>2. /\ UNCHANGED <<seen, day>> /\ pc \in {"exits", "last_exits"}
        /\ pc' = "idle" \/ (pc' = "entries" /\ pc = "exits")
    BY <1>1 DEF ExitsDone, LastExitsDone, Return, Abort, Visit
  <2> QED
    BY <2>1, <2>2 DEF Orderly, OrderedFlat
<1>2. CASE EntriesDone
  <2>1. pc = "entries" /\ pc' = "idle" /\ UNCHANGED <<seen, day, trades>>
    BY <1>2 DEF EntriesDone, Return, Abort, session
  <2>2. Live' = Live
    BY <2>1 DEF Live, Open
  <2> QED
    BY <2>1, <2>2 DEF Orderly, OrderedFlat
<1>3. CASE FlattenDone
  <2>1. Live' = {}
    BY <1>3 DEF FlattenDone, Live, Open
  <2>2. pc' \in {"idle", "over"} /\ UNCHANGED <<seen, day>>
    BY <1>3 DEF FlattenDone, Abort
  <2> QED
    BY <2>1, <2>2 DEF Orderly, OrderedFlat
<1> QED
  BY <1>1, <1>2, <1>3 DEF Finish

\* A cycle turns to the flatten when the breakers order it, or near the close.
LEMMA CycleOrderly ==
  ASSUME Inv, Types, Orderly,
         NEW b \in [Symbols -> Candles \cup {NoBars}], BeginCycle(b)
  PROVE  Orderly'
<1>1. pc \in {"idle", "raised"} /\ seen' = zone /\ trades' = trades
  BY DEF BeginCycle
<1>2. Live' = Live
  BY <1>1 DEF Live, Open
<1>3. OrderedFlat => Live = {}
  BY <1>1 DEF Orderly
<1>4. CASE zone = "z_hour"
  <2>1. pc' = "last_exits" /\ day' = day
    BY <1>4 DEF BeginCycle, Visit
  <2> QED
    BY <1>1, <1>2, <1>3, <1>4, <2>1 DEF Orderly, OrderedFlat
<1>5. CASE zone # "z_hour"
  <2> DEFINE c == CheckDailyLimits(day, realized, Unrealized, Cfg)
  <2>1. day' = c.day /\ AfterCheck(c.verdict)
    BY <1>5 DEF BeginCycle
  <2>2. /\ day.halted => /\ c.verdict = "halt"
                         /\ c.day.halted /\ c.day.reason = day.reason
        /\ ~day.halted => IsHalt(day, c) \/ IsGo(day, c)
    BY UnrealizedType, CheckResult DEF Inv, Counted, Types
  <2> HIDE DEF c
  <2>3. CASE day.halted
    <3>1. pc' = "last_exits" /\ day'.halted /\ day'.reason = day.reason
      BY <2>1, <2>2, <2>3 DEF AfterCheck, Visit
    <3> QED
      BY <1>2, <1>3, <2>3, <3>1 DEF Orderly, OrderedFlat
  <2>4. CASE IsHalt(day, c)
    <3>1. /\ day'.halted /\ day'.reason # "none"
          /\ day'.reason = "target" => Cfg.target_mode = "stop"
          /\ pc' = IF WantsFlat(day'.reason) THEN "flatten" ELSE "last_exits"
      BY <2>1, <2>4 DEF IsHalt, AfterCheck, Visit
    <3> QED
      BY <3>1 DEF Orderly, OrderedFlat, WantsFlat
  <2>5. CASE ~day.halted /\ IsGo(day, c)
    <3>1. /\ ~day'.halted /\ day'.reason = "none"
          /\ pc' = IF Cfg.force_close /\ zone = "near_close" THEN "flatten" ELSE "exits"
      BY <2>1, <2>5 DEF IsGo, AfterCheck, Visit, Orderly
    <3> QED
      BY <1>1, <3>1 DEF Orderly, OrderedFlat
  <2> QED
    BY <2>2, <2>3, <2>4, <2>5
<1> QED
  BY <1>4, <1>5

LEMMA EndDayOrderly == ASSUME Orderly, EndDay PROVE Orderly'
<1>1. pc' = "end_flatten" /\ UNCHANGED <<seen, day>>
  BY DEF EndDay, Visit, session
<1> QED
  BY <1>1 DEF Orderly, OrderedFlat

LEMMA NextOrderly ==
  ASSUME NeverRaises PROVE Inv /\ Types /\ Orderly /\ [Next]_vars => Orderly'
BY WorldOrderly, StepOrderly, FinishOrderly, CycleOrderly, EndDayOrderly DEF Next, Session

\* Every halt that this configuration can lead to orders every position closed.
EveryHaltFlattens ==
  /\ Cfg.flatten_on_max_loss
  /\ Cfg.target_mode = "stop" => Cfg.flatten_on_target

\* A cycle begun in the last minutes returns from a flatten, or finds the day
\* halted and closed.
LEMMA LastCycleFlat ==
  ASSUME NeverRaises, EveryHaltFlattens, Inv, Types, Orderly, Next,
         Cfg.force_close, seen = "near_close", pc \in Running, pc' = "idle"
  PROVE  Live' = {}
<1>1. ASSUME NEW s \in Symbols, Step(s) PROVE FALSE
  <2>1. pc' = pc
    BY <1>1, NoRaise DEF Step, ExitSkip, ExitHold, ExitSell, SellRaises, EntrySkip, Enter,
                         FlattenStep
  <2> QED
    BY <2>1 DEF Running
<1>2. Finish
  BY <1>1 DEF Next, Session, Tick, LateFill, LateEnd, BeginCycle, EndDay, Over, vars, Running
<1>3. CASE FlattenDone
  BY <1>3 DEF FlattenDone, Live, Open
<1>4. CASE ExitsDone \/ EntriesDone
  BY <1>4 DEF ExitsDone, EntriesDone, Orderly
<1>5. CASE LastExitsDone
  <2>1. pc = "last_exits" /\ day.halted
    BY <1>5 DEF LastExitsDone, Orderly
  <2>2. day.reason \in {"max_loss", "target", "giveback"}
    BY <2>1 DEF Orderly, Types, Days, Reasons
  <2>3. OrderedFlat
    BY <2>2, OrderedFlatWants DEF WantsFlat, EveryHaltFlattens, Orderly
  <2>4. Live = {}
    BY <2>1, <2>3 DEF Orderly
  <2>5. Live' = Live
    BY <1>5, DeleteEffect DEF LastExitsDone, DeleteClosed, Inv, Counted, Flow
  <2> QED
    BY <2>4, <2>5
<1> QED
  BY <1>2, <1>3, <1>4, <1>5 DEF Finish

-----------------------------------------------------------------------------
(* The books, with a broker that fills what it is asked *)

Reliable == Outcomes \subseteq {"filled"}

\* No order is left working, and the books agree with the account.
Agreed ==
  /\ working = [s \in Symbols |-> [buy |-> 0, sell |-> 0]]
  /\ BooksMatchBroker

LEMMA CostType == TradesOK => \A s \in Symbols : Cost[s] \in Int /\ Tracked(s) \in Int
<1> SUFFICES ASSUME TradesOK, NEW s \in Symbols
             PROVE  Cost[s] \in Int /\ Tracked(s) \in Int
  OBVIOUS
<1>1. CASE s \in Open
  <2>1. trades[s] \in Positions
    BY <1>1 DEF TradesOK, Open
  <2>2. trades[s].entry \in Int /\ trades[s].remaining \in Int
    BY <2>1, PriceType DEF Positions
  <2>3. trades[s].entry * trades[s].remaining \in Int
    BY <2>2
  <2> QED
    BY <1>1, <2>2, <2>3 DEF Cost, Tracked
<1>2. CASE s \notin Open
  BY <1>2 DEF Cost, Tracked
<1> QED
  BY <1>1, <1>2

\* The cost of what is open moves as that of the one trade that is written.
LEMMA CostMoves ==
  ASSUME TradesOK, TradesOK', NEW a \in Symbols,
         \A s \in Symbols \ {a} : trades'[s] = trades[s]
  PROVE  /\ CostBasis \in Int /\ CostBasis' \in Int
         /\ CostBasis' = CostBasis - Cost[a] + Cost'[a]
         /\ \A s \in Symbols \ {a} : Tracked(s)' = Tracked(s)
<1>1. /\ \A s \in Symbols : Cost[s] \in Int
      /\ (\A s \in Symbols : Cost[s] \in Int)'
  <2>1. (\A s \in Symbols : Cost[s] \in Int /\ Tracked(s) \in Int)'
    BY CostType, PTL
  <2> QED
    BY <2>1, CostType
<1>2. \A s \in Symbols \ {a} : Cost'[s] = Cost[s] /\ Tracked(s)' = Tracked(s)
  BY DEF Cost, Tracked, Open
<1> DEFINE f == Cost
           g == Cost'
<1>3. /\ \A s \in Symbols : f[s] \in Int /\ g[s] \in Int
      /\ \A s \in Symbols \ {a} : f[s] = g[s]
  BY <1>1, <1>2
<1> HIDE DEF f, g
<1>4. SumFunctionOnSet(g, Symbols) = SumFunctionOnSet(f, Symbols) - f[a] + g[a]
  BY <1>3, SymbolsAssumption, SumUpdate
<1>5. SumFunctionOnSet(g, Symbols) \in Int /\ SumFunctionOnSet(f, Symbols) \in Int
  BY <1>3, SymbolsAssumption, SumType
<1> QED
  BY <1>2, <1>4, <1>5 DEF CostBasis, f, g

\* Trades of which nothing remains may go: they cost nothing.
LEMMA CostStays ==
  ASSUME TradesOK,
         \A s \in Symbols : trades'[s] = trades[s] \/ (trades'[s] = NoTrade /\ s \notin Live)
  PROVE  /\ CostBasis' = CostBasis
         /\ \A s \in Symbols : Tracked(s)' = Tracked(s)
<1>1. ASSUME NEW s \in Symbols PROVE Cost'[s] = Cost[s] /\ Tracked(s)' = Tracked(s)
  <2>1. CASE trades'[s] = trades[s]
    BY <2>1 DEF Cost, Tracked, Open
  <2>2. CASE trades'[s] = NoTrade /\ s \notin Live
    <3>1. s \notin Open'
      BY <2>2 DEF Open
    <3>2. Cost'[s] = 0 /\ Tracked(s)' = 0
      BY <3>1 DEF Cost, Tracked
    <3>3. CASE s \in Open
      <4>1. trades[s] \in Positions
        BY <3>3 DEF TradesOK, Open
      <4>2. trades[s].remaining = 0 /\ trades[s].entry \in Int
        BY <2>2, <3>3, <4>1, PriceType DEF Live, Positions
      <4>3. trades[s].entry * trades[s].remaining = 0
        BY <4>2
      <4> QED
        BY <3>2, <3>3, <4>2, <4>3 DEF Cost, Tracked
    <3>4. CASE s \notin Open
      BY <3>2, <3>4 DEF Cost, Tracked
    <3> QED
      BY <3>3, <3>4
  <2> QED
    BY <2>1, <2>2
<1> DEFINE f == Cost
           g == Cost'
<1>2. \A s \in Symbols : f[s] = g[s]
  BY <1>1
<1> HIDE DEF f, g
<1>3. SumFunctionOnSet(f, Symbols) = SumFunctionOnSet(g, Symbols)
  BY <1>2, SymbolsAssumption, SumSame
<1> QED
  BY <1>1, <1>3 DEF CostBasis, f, g

\* The arithmetic of a sale and of a purchase.
LEMMA SaleSum ==
  ASSUME NEW c \in Int, NEW cb \in Int, NEW e \in Int, NEW r \in Int, NEW n \in Int,
         NEW p \in Int
  PROVE  (c + cb) + (p - e) * n = (c + p * n) + (cb - e * r + e * (r - n))
OBVIOUS

LEMMA OnlyFills ==
  ASSUME Reliable, NEW s, NEW side, NEW n, NEW p
  PROVE  /\ Fills(s, side, n, p) => Settle(s, side, n, 0, p)
         /\ \A k : ~Ends(s, side, n, k, p)
         /\ ~Raises(s, side, n)
BY DEF Reliable, Fills, Ends, Raises

\* An order of which nothing stays working leaves nothing working.
LEMMA QuietSettle ==
  ASSUME working = [s \in Symbols |-> [buy |-> 0, sell |-> 0]], BrokerOK,
         NEW s \in Symbols, NEW side \in {"buy", "sell"}, NEW n \in Int, NEW p \in Int,
         Settle(s, side, n, 0, p)
  PROVE  /\ working' = working
         /\ \A x \in Symbols \ {s} : held'[x] = held[x]
         /\ held'[s] = IF side = "buy" THEN held[s] + n ELSE held[s] - n
         /\ cash' = IF side = "buy" THEN cash - p * n ELSE cash + p * n
<1>1. working' = working
  <2>1. CASE side = "buy"
    BY <2>1 DEF Settle
  <2>2. CASE side = "sell"
    BY <2>2 DEF Settle
  <2> QED
    BY <2>1, <2>2
<1> QED
  BY <1>1 DEF Settle, BrokerOK

LEMMA SaleAgreed ==
  ASSUME Reliable, Inv, Types, Agreed, NEW s \in Open, NEW t \in Positions,
         trades[s].remaining = t.remaining, trades[s].entry = t.entry,
         NEW signal, IsSignalFor(t, signal), NEW fallback,
         SellBooks(s, t, signal, fallback)
  PROVE  Agreed'
<1> DEFINE n == ExitQty(t, signal)
           e == t.entry
           r == t.remaining
<1>1. s \in Symbols /\ n \in Int /\ e \in Int /\ r \in Int
  BY PriceType DEF Open, ExitQty, Least, IsSignalFor, Positions
<1>2. TradesOK /\ TradesOK' /\ Open' = Open
  BY SellEffect DEF Inv, Counted
<1>3. /\ Cost[s] = e * r /\ Tracked(s) = r
      /\ cash \in Int /\ realized = cash + CostBasis
      /\ \A x \in Symbols : held[x] = Tracked(x)
  BY <1>1 DEF Cost, Tracked, Agreed, BooksMatchBroker, Types, BrokerOK
<1>4. CASE n <= 0
  <2>1. trades' = [trades EXCEPT ![s] = t] /\ UNCHANGED <<realized, held, working, cash>>
    BY <1>1, <1>4 DEF SellBooks, broker
  <2>2. trades'[s] = t /\ \A x \in Symbols \ {s} : trades'[x] = trades[x]
    BY <1>1, <1>2, <2>1 DEF TradesOK
  <2>3. Cost'[s] = e * r /\ Tracked(s)' = r
    BY <1>1, <1>2, <2>2 DEF Cost, Tracked
  <2>4. /\ CostBasis' = CostBasis - Cost[s] + Cost'[s] /\ CostBasis \in Int
        /\ \A x \in Symbols \ {s} : Tracked(x)' = Tracked(x)
    BY <1>1, <1>2, <2>2, CostMoves
  <2> DEFINE er == e * r
  <2>5. er \in Int
    BY <1>1
  <2>6. Cost[s] = er /\ Cost'[s] = er
    BY <1>3, <2>3
  <2> HIDE DEF er, n, e, r
  <2>7. CostBasis' = CostBasis
    BY <2>4, <2>5, <2>6
  <2> QED
    BY <1>3, <2>1, <2>3, <2>4, <2>7 DEF Agreed, BooksMatchBroker
<1>5. CASE n > 0
  <2>1. PICK p \in Prices : Book(s, t, n, signal.final, p) /\ Settle(s, "sell", n, 0, p)
    BY <1>1, <1>5, OnlyFills DEF SellBooks
  <2>2. p \in Int
    BY PriceType
  <2> DEFINE left == [t EXCEPT !.remaining = r - n]
  <2>3. /\ trades' = [trades EXCEPT ![s] = left]
        /\ realized' = realized + (p - e) * n
    BY <2>1 DEF Book
  <2>4. left.remaining = r - n /\ left.entry = e
    BY DEF Positions
  <2> HIDE DEF left, n
  <2>5. trades'[s] = left /\ \A x \in Symbols \ {s} : trades'[x] = trades[x]
    BY <1>1, <1>2, <2>3 DEF TradesOK
  <2>6. Cost'[s] = e * (r - n) /\ Tracked(s)' = r - n
    BY <1>1, <1>2, <2>4, <2>5 DEF Cost, Tracked
  <2>7. /\ CostBasis' = CostBasis - Cost[s] + Cost'[s] /\ CostBasis \in Int
        /\ \A x \in Symbols \ {s} : Tracked(x)' = Tracked(x)
    BY <1>1, <1>2, <2>5, CostMoves
  <2>8. /\ working' = working /\ cash' = cash + p * n
        /\ \A x \in Symbols \ {s} : held'[x] = held[x]
        /\ held'[s] = held[s] - n
    BY <1>1, <2>1, <2>2, QuietSettle DEF Agreed, Types
  <2>9. realized' = cash' + CostBasis'
    <3> HIDE DEF e, r
    <3>1. /\ realized' = (cash + CostBasis) + (p - e) * n
          /\ cash' = cash + p * n
          /\ CostBasis' = CostBasis - e * r + e * (r - n)
      BY <1>3, <2>3, <2>6, <2>7, <2>8
    <3>2. (cash + CostBasis) + (p - e) * n = (cash + p * n) + (CostBasis - e * r + e * (r - n))
      BY <1>1, <1>3, <2>2, <2>7, SaleSum
    <3> QED
      BY <3>1, <3>2, Zenon
  <2>10. \A x \in Symbols : held'[x] = Tracked(x)'
    BY <1>3, <2>6, <2>7, <2>8
  <2> QED
    BY <2>8, <2>9, <2>10 DEF Agreed, BooksMatchBroker
<1> QED
  BY <1>1, <1>4, <1>5

LEMMA BuyAgreed ==
  ASSUME Reliable, Inv, Types, Agreed, NEW s \in Symbols, Enter(s) PROVE Agreed'
<1>1. bars[s].close \in Nat \ {0} /\ trades[s] = NoTrade
  BY CandlesAssumption, PricesAssumption DEF Enter, Inv, Flow
<1>2. PICK acct \in Accounts, p \in Prices :
        LET n == ComputeShares(acct.equity, acct.buying_power, bars[s].close, Cfg)
        IN  /\ n > 0
            /\ Settle(s, "buy", n, 0, p)
            /\ trades' = [trades EXCEPT ![s] =
                 [entry |-> p, shares |-> n, remaining |-> n, hwm |-> p]]
  BY OnlyFills DEF Enter
<1> DEFINE n == ComputeShares(acct.equity, acct.buying_power, bars[s].close, Cfg)
           t == [entry |-> p, shares |-> n, remaining |-> n, hwm |-> p]
<1>3. n \in Int /\ n > 0 /\ p \in Int
  BY <1>1, <1>2, SharesType, AccountsAssumption, PriceType
<1>4. Settle(s, "buy", n, 0, p) /\ trades' = [trades EXCEPT ![s] = t] /\ realized' = realized
  BY <1>2 DEF Enter
<1> HIDE DEF n
<1>5. t \in Positions /\ t.entry = p /\ t.remaining = n
  BY <1>3 DEF Positions
<1> HIDE DEF t
<1>6. TradesOK /\ TradesOK' /\ Open' = Open \cup {s} /\ s \notin Open
  BY <1>1, <1>4, <1>5, PutTrade DEF Inv, Counted, Open
<1>7. trades'[s] = t /\ \A x \in Symbols \ {s} : trades'[x] = trades[x]
  BY <1>4, <1>6 DEF TradesOK
<1>8. Cost[s] = 0 /\ Tracked(s) = 0 /\ Cost'[s] = p * n /\ Tracked(s)' = n
  BY <1>5, <1>6, <1>7 DEF Cost, Tracked
<1>9. /\ CostBasis' = CostBasis - Cost[s] + Cost'[s] /\ CostBasis \in Int
      /\ \A x \in Symbols \ {s} : Tracked(x)' = Tracked(x)
  BY <1>6, <1>7, CostMoves
<1>10. /\ working' = working /\ cash' = cash - p * n
       /\ \A x \in Symbols \ {s} : held'[x] = held[x]
       /\ held'[s] = held[s] + n
  BY <1>3, <1>4, QuietSettle DEF Agreed, Types
<1>11. /\ cash \in Int /\ realized = cash + CostBasis
       /\ \A x \in Symbols : held[x] = Tracked(x)
  BY DEF Agreed, BooksMatchBroker, Types, BrokerOK
<1>12. realized' = cash' + CostBasis'
  <2> DEFINE pn == p * n
  <2>1. pn \in Int
    BY <1>3
  <2>2. CostBasis' = CostBasis - 0 + pn /\ cash' = cash - pn
    BY <1>8, <1>9, <1>10
  <2> HIDE DEF pn
  <2> QED
    BY <1>4, <1>9, <1>11, <2>1, <2>2
<1>13. \A x \in Symbols : held'[x] = Tracked(x)'
  BY <1>3, <1>8, <1>9, <1>10, <1>11
<1> QED
  BY <1>10, <1>12, <1>13 DEF Agreed, BooksMatchBroker

\* Steps that move no share and no money.
LEMMA StillAgreed ==
  ASSUME Inv, Agreed, UNCHANGED <<realized, held, working, cash>>,
         \A s \in Symbols : trades'[s] = trades[s] \/ (trades'[s] = NoTrade /\ s \notin Live)
  PROVE  Agreed'
BY CostStays DEF Agreed, BooksMatchBroker, Inv, Counted

LEMMA HoldAgreed ==
  ASSUME Inv, Types, Agreed, NEW s \in Symbols, ExitHold(s) PROVE Agreed'
<1> DEFINE t == Raise(trades[s], bars[s].close)
<1>1. /\ s \in Open /\ t \in Positions
      /\ trades[s].remaining = t.remaining /\ trades[s].entry = t.entry
  BY RaisedTrade DEF ExitHold
<1>2. /\ trades' = [trades EXCEPT ![s] = t]
      /\ UNCHANGED <<realized, held, working, cash>>
  BY DEF ExitHold, broker
<1> HIDE DEF t
<1>3. TradesOK /\ TradesOK' /\ Open' = Open
  BY <1>1, <1>2, KeepEffect DEF Inv, Counted
<1>4. trades'[s] = t /\ \A x \in Symbols \ {s} : trades'[x] = trades[x]
  BY <1>2, <1>3 DEF TradesOK
<1>5. Cost'[s] = Cost[s] /\ Tracked(s)' = Tracked(s)
  BY <1>1, <1>3, <1>4 DEF Cost, Tracked
<1>6. Cost[s] \in Int
  BY <1>3, CostType
<1>7. CostBasis' = CostBasis /\ \A x \in Symbols \ {s} : Tracked(x)' = Tracked(x)
  BY <1>3, <1>4, <1>5, <1>6, CostMoves
<1> QED
  BY <1>2, <1>5, <1>7 DEF Agreed, BooksMatchBroker

LEMMA InitAgreed == Init => Agreed
<1> SUFFICES ASSUME Init PROVE Agreed
  OBVIOUS
<1>1. \A s \in Symbols : Cost[s] = 0 /\ Tracked(s) = 0
  BY DEF Init, Cost, Tracked, Open
<1> DEFINE F == {S \in SUBSET Symbols : SumFunctionOnSet(Cost, S) # 0}
<1>2. CostBasis = 0
  <2> SUFFICES ASSUME F # {} PROVE FALSE
    BY DEF CostBasis
  <2>1. F \in SUBSET (SUBSET Symbols)
    OBVIOUS
  <2> HIDE DEF F
  <2>2. PICK S \in F : \A T \in F : T \subseteq S => T = S
    BY <2>1, SymbolsAssumption, Smallest
  <2> USE DEF F
  <2>3. IsFiniteSet(S)
    BY SymbolsAssumption, FS_Subset
  <2>4. ASSUME S = {} PROVE FALSE
    <3>1. SumFunctionOnSet(Cost, S) = 0
      BY <2>3, <2>4, SumStep, Zenon
    <3> QED
      BY <3>1
  <2>5. First(S) \in S /\ S \ {First(S)} \notin F
    BY <2>2, <2>4, FirstIn
  <2>6. SumFunctionOnSet(Cost, S) = Cost[First(S)] + SumFunctionOnSet(Cost, S \ {First(S)})
    BY <2>3, <2>4, SumStep
  <2> QED
    BY <1>1, <2>5, <2>6
<1> QED
  BY <1>1, <1>2 DEF Init, Agreed, BooksMatchBroker

LEMMA NextAgreed ==
  ASSUME Reliable PROVE Inv /\ Types /\ Agreed /\ [Next]_vars => Agreed'
<1> SUFFICES ASSUME Inv, Types, Agreed, [Next]_vars PROVE Agreed'
  OBVIOUS
<1>1. CASE \/ Tick \/ Over \/ EntriesDone \/ EndDay \/ UNCHANGED vars
           \/ \E b \in [Symbols -> Candles \cup {NoBars}] : BeginCycle(b)
           \/ \E s \in Symbols : ExitSkip(s) \/ EntrySkip(s)
  <2>1. UNCHANGED <<trades, realized, held, working, cash>>
    BY <1>1 DEF Tick, Over, EntriesDone, EndDay, vars, session, broker, BeginCycle,
                ExitSkip, EntrySkip
  <2> QED
    BY <2>1, StillAgreed
<1>2. CASE \/ \E s \in Symbols, p \in Prices : LateFill(s, p)
           \/ \E s \in Symbols : LateEnd(s)
  BY <1>2 DEF LateFill, LateEnd, Agreed
<1>3. CASE ExitsDone \/ LastExitsDone
  <2>1. /\ trades' = [s \in Symbols |-> IF s \in closed THEN NoTrade ELSE trades[s]]
        /\ UNCHANGED <<realized, held, working, cash>> /\ closed \cap Live = {}
    BY <1>3 DEF ExitsDone, LastExitsDone, DeleteClosed, broker, Inv, Flow
  <2> QED
    BY <2>1, StillAgreed
<1>4. CASE FlattenDone
  <2>1. /\ trades' = [s \in Symbols |-> NoTrade] /\ Live = {}
        /\ UNCHANGED <<realized, held, working, cash>>
    BY <1>4 DEF FlattenDone, broker, Inv, Flow
  <2> QED
    BY <2>1, StillAgreed
<1>5. ASSUME NEW s \in Symbols, ExitSell(s) PROVE Agreed'
  <2> DEFINE t == Raise(trades[s], bars[s].close)
             signal == ExitSignal(t, bars[s])
  <2>1. /\ s \in Open /\ t \in Positions /\ IsSignalFor(t, signal)
        /\ trades[s].remaining = t.remaining /\ trades[s].entry = t.entry
    BY <1>5, RaisedTrade DEF ExitSell
  <2>2. SellBooks(s, t, signal, bars[s].close)
    BY <1>5, OnlyFills DEF ExitSell, SellRaises
  <2> HIDE DEF t, signal
  <2> QED
    BY <2>1, <2>2, SaleAgreed
<1>6. ASSUME NEW s \in Symbols, FlattenStep(s) PROVE Agreed'
  <2> DEFINE t == trades[s]
  <2>1. s \in Open /\ t \in Positions /\ IsSignalFor(t, DumpExit(t))
    BY <1>6, DumpIsSignal DEF FlattenStep, Inv, Counted, Flow, TradesOK, Open
  <2>2. SellBooks(s, t, DumpExit(t), t.entry)
    BY <1>6, OnlyFills DEF FlattenStep, SellRaises
  <2> QED
    BY <2>1, <2>2, SaleAgreed
<1> QED
  BY <1>1, <1>2, <1>3, <1>4, <1>5, <1>6, HoldAgreed, BuyAgreed
     DEF Next, Session, Step, Finish

-----------------------------------------------------------------------------
(* The account, with a broker of which nothing is left working when an order *)
(* has been polled: orders may be refused, or end with any part filled.      *)

SettlesAtOnce == Outcomes \subseteq {"filled", "ended", "refused"}

\* What the engine tracks is there to be sold.
Backed == \A s \in Symbols : held[s] >= Tracked(s) /\ Tracked(s) >= 0

Owned ==
  /\ working = [s \in Symbols |-> [buy |-> 0, sell |-> 0]]
  /\ Backed

LEMMA AtOnce ==
  ASSUME SettlesAtOnce, NEW s, NEW side, NEW n, NEW p, NEW k
  PROVE  /\ Fills(s, side, n, p) => Settle(s, side, n, 0, p)
         /\ Ends(s, side, n, k, p) => Settle(s, side, k, 0, p)
         /\ Raises(s, side, n) => UNCHANGED <<held, cash, working>>
BY DEF SettlesAtOnce, Fills, Ends, Raises

\* Trades that are kept, or of which what remains is no longer tracked.
LEMMA StillOwned ==
  ASSUME Owned, UNCHANGED <<held, working>>,
         \A s \in Symbols : Tracked(s)' = Tracked(s) \/ Tracked(s)' = 0,
         \A s \in Symbols : held[s] \in Int /\ Tracked(s) \in Int
  PROVE  Owned'
BY DEF Owned, Backed

\* As many shares are booked as sold as were asked for, and no more than these
\* were sold.
LEMMA SaleOwned ==
  ASSUME SettlesAtOnce, Inv, Types, Owned, NEW s \in Open, NEW t \in Positions,
         trades[s].remaining = t.remaining,
         NEW signal, IsSignalFor(t, signal), NEW fallback,
         SellBooks(s, t, signal, fallback) \/ SellRaises(s, t, signal)
  PROVE  Owned'
<1> DEFINE n == ExitQty(t, signal)
           r == t.remaining
<1>1. s \in Symbols /\ n \in Int /\ r \in Nat /\ n <= r
  BY DEF Open, ExitQty, Least, IsSignalFor, Positions
<1>2. TradesOK /\ \A x \in Symbols : held[x] \in Int /\ Tracked(x) \in Int
  BY CostType DEF Inv, Counted, Types, BrokerOK
<1>3. Tracked(s) = r /\ s \in Open
  BY DEF Tracked
<1> HIDE DEF n
<1>4. CASE trades' = [trades EXCEPT ![s] = t] /\ UNCHANGED <<held, working>>
  <2>1. TradesOK' /\ Open' = Open
    BY <1>2, <1>4, KeepEffect
  <2>2. trades'[s] = t /\ \A x \in Symbols \ {s} : trades'[x] = trades[x]
    BY <1>1, <1>2, <1>4 DEF TradesOK
  <2>3. \A x \in Symbols : Tracked(x)' = Tracked(x)
    BY <1>3, <2>1, <2>2 DEF Tracked
  <2> QED
    BY <1>2, <1>4, <2>3, StillOwned
<1>5. CASE n > 0 /\ SellBooks(s, t, signal, fallback)
  <2>1. PICK p \in Prices, k \in 0..n :
          Book(s, t, n, signal.final, p) /\ Settle(s, "sell", k, 0, p)
    <3>1. PICK p \in Prices :
            /\ Book(s, t, n, signal.final, p)
            /\ \/ Fills(s, "sell", n, p)
               \/ \E k \in 0..(n - 1) : Ends(s, "sell", n, k, p)
      BY <1>1, <1>5 DEF SellBooks, n
    <3>2. \E k \in 0..n : Settle(s, "sell", k, 0, p)
      BY <1>1, <1>5, <3>1, AtOnce
    <3> QED
      BY <3>1, <3>2
  <2> DEFINE left == [t EXCEPT !.remaining = r - n]
  <2>2. trades' = [trades EXCEPT ![s] = left] /\ left.remaining = r - n
    BY <2>1 DEF Book, Positions
  <2> HIDE DEF left
  <2>3. TradesOK' /\ Open' = Open
    BY <1>2, <1>5, SellEffect DEF Inv, Counted
  <2>4. trades'[s] = left /\ \A x \in Symbols \ {s} : trades'[x] = trades[x]
    BY <1>1, <1>2, <2>2 DEF TradesOK
  <2>5. Tracked(s)' = r - n /\ \A x \in Symbols \ {s} : Tracked(x)' = Tracked(x)
    BY <1>3, <2>2, <2>3, <2>4 DEF Tracked
  <2>6. /\ working' = working /\ held'[s] = held[s] - k
        /\ \A x \in Symbols \ {s} : held'[x] = held[x]
    BY <1>1, <2>1, PriceType, QuietSettle DEF Owned, Types
  <2> QED
    BY <1>1, <1>2, <1>3, <2>1, <2>5, <2>6 DEF Owned, Backed
<1>6. ASSUME SellBooks(s, t, signal, fallback), n <= 0
      PROVE  trades' = [trades EXCEPT ![s] = t] /\ UNCHANGED <<held, working>>
  BY <1>6, <1>1 DEF SellBooks, broker, n
<1>7. ASSUME SellRaises(s, t, signal)
      PROVE  trades' = [trades EXCEPT ![s] = t] /\ UNCHANGED <<held, working>>
  BY <1>7, AtOnce DEF SellRaises
<1> QED
  BY <1>1, <1>4, <1>5, <1>6, <1>7

\* A purchase that did not fill is not tracked, whatever part of it is held.
LEMMA BuyOwned ==
  ASSUME SettlesAtOnce, Inv, Types, Owned, NEW s \in Symbols, Enter(s) PROVE Owned'
<1>1. bars[s].close \in Nat \ {0} /\ trades[s] = NoTrade
  BY CandlesAssumption, PricesAssumption DEF Enter, Inv, Flow
<1>2. PICK acct \in Accounts :
        LET n == ComputeShares(acct.equity, acct.buying_power, bars[s].close, Cfg)
        IN  /\ n > 0
            /\ \/ \E p \in Prices :
                    /\ Settle(s, "buy", n, 0, p)
                    /\ trades' = [trades EXCEPT ![s] =
                         [entry |-> p, shares |-> n, remaining |-> n, hwm |-> p]]
               \/ \E p \in Prices, k \in 0..(n - 1) :
                    Settle(s, "buy", k, 0, p) /\ UNCHANGED trades
               \/ UNCHANGED <<held, working, trades>>
  BY AtOnce DEF Enter
<1> DEFINE n == ComputeShares(acct.equity, acct.buying_power, bars[s].close, Cfg)
<1>3. n \in Int /\ n > 0
  BY <1>1, <1>2, SharesType, AccountsAssumption
<1>4. /\ TradesOK /\ s \notin Open
      /\ \A x \in Symbols : held[x] \in Int /\ Tracked(x) \in Int
  BY <1>1, CostType DEF Inv, Counted, Types, BrokerOK, Open
<1>5. UNCHANGED trades => \A x \in Symbols : Tracked(x)' = Tracked(x)
  BY DEF Tracked, Open
<1>6. Tracked(s) = 0
  BY <1>4 DEF Tracked
<1> HIDE DEF n
<1>7. ASSUME NEW p \in Prices, Settle(s, "buy", n, 0, p),
             trades' = [trades EXCEPT ![s] =
               [entry |-> p, shares |-> n, remaining |-> n, hwm |-> p]]
      PROVE  Owned'
  <2> DEFINE t == [entry |-> p, shares |-> n, remaining |-> n, hwm |-> p]
  <2>1. t \in Positions /\ t.remaining = n /\ trades' = [trades EXCEPT ![s] = t]
    BY <1>3, <1>7 DEF Positions
  <2> HIDE DEF t
  <2>2. Open' = Open \cup {s}
    BY <1>4, <2>1, PutTrade
  <2>3. trades'[s] = t /\ \A x \in Symbols \ {s} : trades'[x] = trades[x]
    BY <1>4, <2>1 DEF TradesOK
  <2>4. Tracked(s)' = n /\ \A x \in Symbols \ {s} : Tracked(x)' = Tracked(x)
    BY <2>1, <2>2, <2>3 DEF Tracked
  <2>5. /\ working' = working /\ held'[s] = held[s] + n
        /\ \A x \in Symbols \ {s} : held'[x] = held[x]
    BY <1>3, <1>7, PriceType, QuietSettle DEF Owned, Types
  <2> QED
    BY <1>3, <1>4, <1>6, <2>4, <2>5 DEF Owned, Backed
<1>8. ASSUME NEW p \in Prices, NEW k \in 0..(n - 1), Settle(s, "buy", k, 0, p),
             UNCHANGED trades
      PROVE  Owned'
  <2>1. /\ working' = working /\ held'[s] = held[s] + k
        /\ \A x \in Symbols \ {s} : held'[x] = held[x]
    BY <1>3, <1>8, PriceType, QuietSettle DEF Owned, Types
  <2> QED
    BY <1>3, <1>4, <1>5, <1>8, <2>1 DEF Owned, Backed
<1>9. CASE UNCHANGED <<held, working, trades>>
  BY <1>4, <1>5, <1>9, StillOwned
<1> QED
  BY <1>2, <1>7, <1>8, <1>9 DEF n

LEMMA InitOwned == Init => Owned
BY DEF Init, Owned, Backed, Tracked, Open

LEMMA NextOwned ==
  ASSUME SettlesAtOnce PROVE Inv /\ Types /\ Owned /\ [Next]_vars => Owned'
<1> SUFFICES ASSUME Inv, Types, Owned, [Next]_vars PROVE Owned'
  OBVIOUS
<1>1. /\ TradesOK
      /\ \A s \in Symbols : held[s] \in Int /\ Tracked(s) \in Int
  BY CostType DEF Inv, Counted, Types, BrokerOK
<1>2. CASE \/ Tick \/ Over \/ EntriesDone \/ EndDay \/ UNCHANGED vars
           \/ \E b \in [Symbols -> Candles \cup {NoBars}] : BeginCycle(b)
           \/ \E s \in Symbols : ExitSkip(s) \/ EntrySkip(s)
  <2>1. UNCHANGED <<trades, held, working>>
    BY <1>2 DEF Tick, Over, EntriesDone, EndDay, vars, session, broker, BeginCycle,
                ExitSkip, EntrySkip
  <2>2. \A s \in Symbols : Tracked(s)' = Tracked(s)
    BY <2>1 DEF Tracked, Open
  <2> QED
    BY <1>1, <2>1, <2>2, StillOwned
<1>3. CASE \/ \E s \in Symbols, p \in Prices : LateFill(s, p)
           \/ \E s \in Symbols : LateEnd(s)
  BY <1>3 DEF LateFill, LateEnd, Owned
<1>4. CASE ExitsDone \/ LastExitsDone \/ FlattenDone
  <2>1. /\ UNCHANGED <<held, working>>
        /\ \A s \in Symbols : trades'[s] \in {trades[s], NoTrade}
    BY <1>4 DEF ExitsDone, LastExitsDone, FlattenDone, DeleteClosed, broker
  <2>2. \A s \in Symbols : Tracked(s)' = Tracked(s) \/ Tracked(s)' = 0
    BY <2>1 DEF Tracked, Open
  <2> QED
    BY <1>1, <2>1, <2>2, StillOwned
<1>5. ASSUME NEW s \in Symbols, ExitHold(s) PROVE Owned'
  <2> DEFINE t == Raise(trades[s], bars[s].close)
  <2>1. /\ s \in Open /\ t \in Positions /\ trades[s].remaining = t.remaining
        /\ trades' = [trades EXCEPT ![s] = t]
    BY <1>5, RaisedTrade DEF ExitHold
  <2>2. UNCHANGED <<held, working>>
    BY <1>5 DEF ExitHold, broker
  <2> HIDE DEF t
  <2>3. Open' = Open /\ trades'[s] = t /\ \A x \in Symbols \ {s} : trades'[x] = trades[x]
    BY <1>1, <2>1, KeepEffect DEF TradesOK, Open
  <2>4. \A x \in Symbols : Tracked(x)' = Tracked(x)
    BY <2>1, <2>3 DEF Tracked
  <2> QED
    BY <1>1, <2>2, <2>4, StillOwned
<1>6. ASSUME NEW s \in Symbols, ExitSell(s) PROVE Owned'
  <2> DEFINE t == Raise(trades[s], bars[s].close)
             signal == ExitSignal(t, bars[s])
  <2>1. /\ s \in Open /\ t \in Positions /\ IsSignalFor(t, signal)
        /\ trades[s].remaining = t.remaining
    BY <1>6, RaisedTrade DEF ExitSell
  <2>2. SellBooks(s, t, signal, bars[s].close) \/ SellRaises(s, t, signal)
    BY <1>6 DEF ExitSell
  <2> HIDE DEF t, signal
  <2> QED
    BY <2>1, <2>2, SaleOwned
<1>7. ASSUME NEW s \in Symbols, FlattenStep(s) PROVE Owned'
  <2> DEFINE t == trades[s]
  <2>1. s \in Open /\ t \in Positions /\ IsSignalFor(t, DumpExit(t))
    BY <1>7, DumpIsSignal DEF FlattenStep, Inv, Counted, Flow, TradesOK, Open
  <2>2. SellBooks(s, t, DumpExit(t), t.entry) \/ SellRaises(s, t, DumpExit(t))
    BY <1>7 DEF FlattenStep
  <2> QED
    BY <2>1, <2>2, SaleOwned
<1> QED
  BY <1>2, <1>3, <1>4, <1>5, <1>6, <1>7, BuyOwned DEF Next, Session, Step, Finish

\* The day is over only after the last sale has returned, unless an order
\* raised.
OverClosesAll == pc = "over" => Open = {}

LEMMA NextOver ==
  ASSUME NeverRaises PROVE OverClosesAll /\ [Next]_vars => OverClosesAll'
<1> SUFFICES ASSUME OverClosesAll, [Next]_vars, pc' = "over" PROVE Open' = {}
  BY DEF OverClosesAll
<1>1. CASE Tick \/ Over \/ UNCHANGED vars
           \/ (\E s \in Symbols, p \in Prices : LateFill(s, p))
           \/ (\E s \in Symbols : LateEnd(s))
  BY <1>1 DEF Tick, Over, vars, session, LateFill, LateEnd, OverClosesAll, Open
<1>2. CASE (\E b \in [Symbols -> Candles \cup {NoBars}] : BeginCycle(b)) \/ EndDay
  BY <1>2 DEF BeginCycle, AfterCheck, Visit, EndDay
<1>3. CASE Finish
  BY <1>3 DEF Finish, ExitsDone, LastExitsDone, EntriesDone, FlattenDone, Return, Abort,
              Visit, Open
<1>4. ASSUME NEW s \in Symbols, Step(s) PROVE FALSE
  <2>1. pc' = pc /\ pc # "over"
    BY <1>4, NoRaise DEF Step, ExitSkip, ExitHold, ExitSell, SellRaises, EntrySkip, Enter,
                         FlattenStep
  <2> QED
    BY <2>1
<1> QED
  BY <1>1, <1>2, <1>3, <1>4 DEF Next, Session

-----------------------------------------------------------------------------
(* When the account takes on shares: a loop that may lead to entries is      *)
(* walked only in a cycle that may make them.                                *)

MayBuy ==
  /\ ~day.halted
  /\ seen = "open" \/ (seen = "near_close" /\ ~Cfg.force_close)

InTime == pc \in {"exits", "entries"} => MayBuy

LEMMA CycleInTime ==
  ASSUME Inv, Types, NEW b \in [Symbols -> Candles \cup {NoBars}], BeginCycle(b)
  PROVE  InTime'
<1>1. seen' = zone /\ zone \in {"z_hour", "open", "near_close"}
  BY DEF BeginCycle, Types, Zones
<1>2. CASE zone = "z_hour"
  BY <1>2 DEF BeginCycle, Visit, InTime
<1>3. CASE zone # "z_hour"
  <2> DEFINE c == CheckDailyLimits(day, realized, Unrealized, Cfg)
  <2>1. day' = c.day /\ AfterCheck(c.verdict)
    BY <1>3 DEF BeginCycle
  <2>2. \/ c.verdict \in {"halt", "flatten_and_halt"}
        \/ ~day.halted /\ IsGo(day, c)
    BY UnrealizedType, CheckResult DEF Inv, Counted, Types, IsHalt
  <2> HIDE DEF c
  <2>3. CASE c.verdict \in {"halt", "flatten_and_halt"}
    BY <2>1, <2>3 DEF AfterCheck, Visit, InTime
  <2>4. CASE ~day.halted /\ IsGo(day, c)
    <3>1. /\ ~day'.halted
          /\ pc' = IF Cfg.force_close /\ zone = "near_close" THEN "flatten" ELSE "exits"
      BY <2>1, <2>4 DEF IsGo, AfterCheck, Visit
    <3> QED
      BY <1>1, <1>3, <3>1 DEF InTime, MayBuy
  <2> QED
    BY <2>2, <2>3, <2>4
<1> QED
  BY <1>2, <1>3

LEMMA NextInTime == Inv /\ Types /\ InTime /\ [Next]_vars => InTime'
<1> SUFFICES ASSUME Inv, Types, InTime, [Next]_vars PROVE InTime'
  OBVIOUS
<1>1. CASE Tick \/ Over \/ UNCHANGED vars
           \/ (\E s \in Symbols, p \in Prices : LateFill(s, p))
           \/ (\E s \in Symbols : LateEnd(s))
  BY <1>1 DEF Tick, Over, vars, session, LateFill, LateEnd, InTime, MayBuy
<1>2. CASE Finish \/ EndDay
  BY <1>2 DEF Finish, ExitsDone, LastExitsDone, EntriesDone, FlattenDone, EndDay, Return,
              Abort, Visit, session, InTime, MayBuy
<1>3. ASSUME NEW s \in Symbols, Step(s) PROVE InTime'
  BY <1>3 DEF Step, ExitSkip, ExitHold, ExitSell, SellRaises, EntrySkip, Enter, FlattenStep,
              Abort, session, InTime, MayBuy
<1> QED
  BY <1>1, <1>2, <1>3, CycleInTime DEF Next, Session

\* A sale adds to no exposure, whatever becomes of it.
LEMMA SaleExposure ==
  ASSUME BrokerOK, NEW s \in Symbols, NEW t \in Positions,
         NEW signal, IsSignalFor(t, signal), NEW fallback,
         SellBooks(s, t, signal, fallback) \/ SellRaises(s, t, signal)
  PROVE  \A x \in Symbols : ~(Exposure(x)' > Exposure(x))
<1> DEFINE n == ExitQty(t, signal)
<1>1. n \in Int
  BY DEF ExitQty, Least, IsSignalFor, Positions
<1>2. /\ \A x \in Symbols : held[x] \in Int /\ working[x].buy \in Nat
      /\ held \in [Symbols -> Int] /\ working \in [Symbols -> [buy : Nat, sell : Nat]]
  BY DEF BrokerOK
<1>3. \/ UNCHANGED <<held, working>>
      \/ \E done, left \in Nat : \E p : Settle(s, "sell", done, left, p)
  <2>1. CASE SellBooks(s, t, signal, fallback)
    <3>1. CASE n <= 0
      BY <1>1, <2>1, <3>1 DEF SellBooks, broker
    <3>2. CASE n > 0
      <4>1. PICK p \in Prices : \/ Fills(s, "sell", n, p)
                                \/ \E k \in 0..(n - 1) : Ends(s, "sell", n, k, p)
        BY <1>1, <2>1, <3>2 DEF SellBooks
      <4> QED
        BY <1>1, <3>2, <4>1 DEF Fills, Ends
    <3> QED
      BY <1>1, <3>1, <3>2
  <2>2. CASE SellRaises(s, t, signal)
    <3>1. n > 0 /\ Raises(s, "sell", n)
      BY <2>2 DEF SellRaises
    <3> QED
      BY <1>1, <3>1 DEF Raises
  <2> QED
    BY <2>1, <2>2
<1>4. CASE UNCHANGED <<held, working>>
  BY <1>2, <1>4 DEF Exposure
<1>5. ASSUME NEW done \in Nat, NEW left \in Nat, NEW p, Settle(s, "sell", done, left, p),
             NEW x \in Symbols
      PROVE  ~(Exposure(x)' > Exposure(x))
  <2>1. /\ held' = [held EXCEPT ![s] = held[s] - done]
        /\ working' = [working EXCEPT ![s].sell = working[s].sell + left]
    BY <1>5 DEF Settle
  <2>2. held'[x] \in {held[x], held[x] - done}
    BY <1>2, <2>1
  <2>3. working'[x].buy = working[x].buy
    BY <1>2, <2>1
  <2> QED
    BY <1>2, <2>2, <2>3 DEF Exposure
<1> QED
  BY <1>3, <1>4, <1>5

Bought == (\E s \in Symbols : Exposure(s)' > Exposure(s)) => MayBuy

LEMMA StepBought == Inv /\ Types /\ InTime /\ Next => Bought
<1> SUFFICES ASSUME Inv, Types, InTime, Next, NEW x \in Symbols, Exposure(x)' > Exposure(x)
             PROVE  MayBuy
  BY DEF Bought
<1>1. /\ BrokerOK /\ held[x] \in Int /\ working[x].buy \in Nat /\ working[x].sell \in Nat
  BY DEF Types, BrokerOK
<1>2. ASSUME UNCHANGED <<held, working>> PROVE FALSE
  BY <1>1, <1>2 DEF Exposure
<1>3. CASE \/ Tick \/ Over \/ Finish \/ EndDay
           \/ \E b \in [Symbols -> Candles \cup {NoBars}] : BeginCycle(b)
           \/ \E s \in Symbols : ExitSkip(s) \/ ExitHold(s) \/ EntrySkip(s)
  <2>1. UNCHANGED <<held, working>>
    BY <1>3 DEF Tick, Over, vars, Finish, ExitsDone, LastExitsDone, EntriesDone,
                FlattenDone, EndDay, BeginCycle, ExitSkip, ExitHold, EntrySkip, broker
  <2> QED
    BY <1>2, <2>1
<1>4. ASSUME NEW s \in Symbols, NEW p \in Prices, LateFill(s, p) PROVE FALSE
  <2>1. \/ UNCHANGED <<held[x], working[x]>>
        \/ /\ held'[x] = held[x] + working[x].buy - working[x].sell
           /\ working'[x].buy = 0
    BY <1>1, <1>4 DEF LateFill, BrokerOK
  <2> QED
    BY <1>1, <2>1 DEF Exposure
<1>5. ASSUME NEW s \in Symbols, LateEnd(s) PROVE FALSE
  <2>1. held' = held /\ (working'[x] = working[x] \/ working'[x].buy = 0)
    BY <1>1, <1>5 DEF LateEnd, BrokerOK
  <2> QED
    BY <1>1, <2>1 DEF Exposure
<1>6. ASSUME NEW s \in Symbols, ExitSell(s) PROVE FALSE
  <2> DEFINE t == Raise(trades[s], bars[s].close)
             signal == ExitSignal(t, bars[s])
  <2>1. t \in Positions /\ IsSignalFor(t, signal)
    BY <1>6, RaisedTrade DEF ExitSell
  <2>2. SellBooks(s, t, signal, bars[s].close) \/ SellRaises(s, t, signal)
    BY <1>6 DEF ExitSell
  <2> HIDE DEF t, signal
  <2> QED
    BY <1>1, <2>1, <2>2, SaleExposure
<1>7. ASSUME NEW s \in Symbols, FlattenStep(s) PROVE FALSE
  <2>1. trades[s] \in Positions
    BY <1>7 DEF FlattenStep, Inv, Counted, Flow, TradesOK, Open
  <2>2. /\ IsSignalFor(trades[s], DumpExit(trades[s]))
        /\ \/ SellBooks(s, trades[s], DumpExit(trades[s]), trades[s].entry)
           \/ SellRaises(s, trades[s], DumpExit(trades[s]))
    BY <1>7, <2>1, DumpIsSignal DEF FlattenStep
  <2> QED
    BY <1>1, <2>1, <2>2, SaleExposure
<1>8. ASSUME NEW s \in Symbols, Enter(s) PROVE MayBuy
  BY <1>8 DEF Enter, InTime
<1> QED
  BY <1>3, <1>4, <1>5, <1>6, <1>7, <1>8 DEF Next, Session, Step

-----------------------------------------------------------------------------
(* The theorems *)

THEOREM Invariance == Spec => []Inv
BY InitInv, NextInv, PTL DEF Spec

\* Every trade entered is counted as exited exactly once or still has shares,
\* whatever orders fail and whichever exceptions leave a loop half done
\* (session.py:449-507).
THEOREM CountersAddUp == Spec => []ExitAccounting
<1>1. Inv => ExitAccounting
  BY DEF Inv, Counted
<1>2. QED
  BY <1>1, Invariance, PTL

LEMMA TypesHold == Spec => []Types
BY InitTypes, NextTypes, Invariance, PTL DEF Spec

\* Every variable keeps its type, the sums of P/L over the open trades that the
\* breakers read included (session.py:562-568).
THEOREM TypeCorrect == Spec => []TypeOK
BY TypesSuffice, Invariance, TypesHold, PTL

LEMMA OrderlyHolds == ASSUME NeverRaises PROVE Spec => []Orderly
BY InitOrderly, NextOrderly, Invariance, TypesHold, PTL DEF Spec

\* When no order raises, a cycle that returns after a halt that orders every
\* position closed leaves none open, however orders end and whichever breaker
\* it was (circuit_breaker.py:53-98, session.py:192-198).
THEOREM HaltsFlatten == ASSUME NeverRaises PROVE Spec => []FlatWhenToldToFlatten
<1>1. Orderly => FlatWhenToldToFlatten
  BY DEF Orderly, FlatWhenToldToFlatten
<1> QED
  BY <1>1, OrderlyHolds, PTL

\* When besides every halt of the configuration orders it, a cycle begun in the
\* last five minutes that returns leaves no position open (session.py:192-205).
\* A halt that does not, comes before the forced close and is why it is asked.
THEOREM LastCycleClosesAll ==
  ASSUME NeverRaises, EveryHaltFlattens PROVE Spec => ForceCloseHonoured
<1>1. Inv /\ Types /\ Orderly /\ [Next]_vars
        => [Cfg.force_close /\ seen = "near_close" /\ pc \in Running /\ pc' = "idle"
              => Live' = {}]_vars
  BY LastCycleFlat
<1> QED
  BY <1>1, Invariance, TypesHold, OrderlyHolds, PTL DEF Spec, ForceCloseHonoured

\* With a broker that fills what it is asked, the shares the engine tracks are
\* the shares held, and its realized P/L is the money received and paid, the
\* cost of what is open apart: for any number of symbols, any prices and any
\* exit rule (session.py:449-507, exits.py:92).
THEOREM BooksAgree == ASSUME Reliable PROVE Spec => []BooksMatchBroker
<1>1. Agreed => BooksMatchBroker
  BY DEF Agreed
<1>2. Spec => []Agreed
  BY InitAgreed, NextAgreed, Invariance, TypesHold, PTL DEF Spec
<1> QED
  BY <1>1, <1>2, PTL

\* As long as no order outlives its poll, the account is never short, although a
\* sale that ended early is booked as sold and an order may be refused: only a
\* working order that the engine no longer looks at can take shares twice
\* (session.py:457-480).
THEOREM NeverSellsShort == ASSUME SettlesAtOnce PROVE Spec => []NeverShort
<1>1. Inv /\ Types /\ Owned => NeverShort
  BY CostType DEF Inv, Counted, Types, BrokerOK, Owned, Backed, NeverShort
<1>2. Spec => []Owned
  BY InitOwned, NextOwned, Invariance, TypesHold, PTL DEF Spec
<1> QED
  BY <1>1, <1>2, Invariance, TypesHold, PTL

\* With a broker that fills what it is asked, no share is held when the day is
\* over, whichever halts, cycles and exits there were (session.py:216-228).
THEOREM EndsWithoutShares ==
  ASSUME Reliable PROVE Spec => [](pc = "over" => \A s \in Symbols : held[s] = 0)
<1>1. OverClosesAll /\ BooksMatchBroker => (pc = "over" => \A s \in Symbols : held[s] = 0)
  BY DEF OverClosesAll, BooksMatchBroker, Tracked
<1>2. NeverRaises
  BY DEF Reliable, NeverRaises
<1>3. Init => OverClosesAll
  BY DEF Init, OverClosesAll
<1>4. Spec => []OverClosesAll
  BY <1>2, <1>3, NextOver, PTL DEF Spec
<1> QED
  BY <1>1, <1>4, BooksAgree, PTL

\* The account takes on shares only in a cycle that may enter by the clock it
\* read and by the breakers, for any number of symbols and whatever becomes of
\* the orders (session.py:180-211).
THEOREM NoLatePurchase == Spec => BuysInTime
<1>1. Init => InTime
  BY DEF Init, InTime
<1>2. Spec => []InTime
  BY <1>1, NextInTime, Invariance, TypesHold, PTL DEF Spec
<1>3. Inv /\ Types /\ InTime /\ [Next]_vars => [Bought]_vars
  BY StepBought
<1>4. Spec => [][Bought]_vars
  BY <1>2, <1>3, Invariance, TypesHold, PTL DEF Spec
<1> QED
  BY <1>4 DEF BuysInTime, Bought, MayBuy

\* The abstract day quantifies over the P/L figures in Pnl: these are the ones
\* the session computes.
Figures == realized \in Pnl /\ Unrealized \in Pnl

LEMMA InitRefines == Init => CB!Init
BY Zenon DEF Init, CB!Init, NewDay, CB!NewDay

\* The instance has the breakers of DailyLimits under its own names.
LEMMA SameCheck ==
  ASSUME NEW d, NEW r, NEW u, NEW c
  PROVE  CB!CheckDailyLimits(d, r, u, c) = CheckDailyLimits(d, r, u, c)
BY Zenon
   DEF CheckDailyLimits, MaxLossHit, PctAtMost, TotalPnl, Halt, CheckStop,
       TargetHit, PctAtLeast, Go, CheckGiveback, TrackHighWater, GaveBack,
       CB!CheckDailyLimits, CB!MaxLossHit, CB!PctAtMost, CB!TotalPnl, CB!Halt,
       CB!CheckStop, CB!TargetHit, CB!PctAtLeast, CB!Go, CB!CheckGiveback,
       CB!TrackHighWater, CB!GaveBack

LEMMA NextRefines ==
  Inv /\ Figures /\ [Next]_vars => [CB!Next]_(CB!vars)
<1> SUFFICES ASSUME Inv, Figures, [Next]_vars
             PROVE  CB!Next \/ UNCHANGED <<day, verdict, entered>>
  BY DEF CB!vars
<1>1. ASSUME NEW b \in [Symbols -> Candles \cup {NoBars}], BeginCycle(b)
      PROVE  CB!Next \/ UNCHANGED <<day, verdict, entered>>
  <2>1. CASE zone = "z_hour"
    BY <1>1, <2>1 DEF BeginCycle
  <2>2. CASE zone # "z_hour"
    <3>1. /\ day' = CheckDailyLimits(day, realized, Unrealized, Cfg).day
          /\ verdict' = CheckDailyLimits(day, realized, Unrealized, Cfg).verdict
          /\ entered' = entered
      BY <1>1, <2>2 DEF BeginCycle
    <3>2. CB!Check(realized, Unrealized)
      BY <3>1, SameCheck DEF CB!Check
    <3>3. QED
      BY <3>2 DEF CB!Next, Figures
  <2>3. QED
    BY <2>1, <2>2
<1>2. ASSUME NEW s \in Symbols, Enter(s)
      PROVE  CB!Next \/ UNCHANGED <<day, verdict, entered>>
  <2>1. /\ ~day.halted /\ entered < MaxTrades
        /\ UNCHANGED <<day, verdict>>
        /\ entered' \in {entered, entered + 1}
    BY <1>2 DEF Enter, Inv, Flow
  <2>2. QED
    BY <2>1 DEF CB!Next, CB!Enter
<1>3. CASE \/ Tick \/ Over \/ Finish \/ EndDay \/ UNCHANGED vars
           \/ \E s \in Symbols, p \in Prices : LateFill(s, p)
           \/ \E s \in Symbols : LateEnd(s)
           \/ \E s \in Symbols : \/ ExitSkip(s) \/ ExitHold(s) \/ ExitSell(s)
                                 \/ EntrySkip(s) \/ FlattenStep(s)
  BY <1>3 DEF Tick, Over, Finish, EndDay, vars, session, LateFill, LateEnd,
              ExitsDone, LastExitsDone, EntriesDone, FlattenDone,
              ExitSkip, ExitHold, ExitSell, EntrySkip, FlattenStep
<1>4. QED
  BY <1>1, <1>2, <1>3 DEF Next, Session, Step

\* For any set of figures the abstract day allows, as long as the session's
\* own figures stay in it, each of its steps is a step of that day or none.
LEMMA RefinesItsFigures == Spec /\ []Figures => ImplementsCircuitBreaker
<1>1. Inv /\ Figures /\ [Next]_vars
        => [CB!vars' # CB!vars => CB!Next]_(CB!vars)
  BY NextRefines
<1>2. QED
  BY <1>1, InitRefines, Invariance, PTL DEF Spec, ImplementsCircuitBreaker

\* The session is an implementation of the circuit-breaker day, so that the
\* laws of RiskLimits_proofs are laws of the engine: its breaker state is
\* changed only by whole checks of its own figures, and it enters only while
\* they have not halted the day (session.py:192-211).  The abstract day is the
\* one whose checks may see any figures.
THEOREM Refinement == ASSUME Pnl = Int PROVE Spec => ImplementsCircuitBreaker
<1>1. Inv /\ Types => Figures
  BY UnrealizedType DEF Inv, Counted, Types, Figures
<1>2. QED
  BY <1>1, Invariance, TypesHold, RefinesItsFigures, PTL
=============================================================================
