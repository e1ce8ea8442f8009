-------------------------- MODULE RiskLimits_proofs --------------------------
(***************************************************************************)
(* The laws of what limits the risk of a day: of the daily circuit         *)
(* breakers, for every equity, every limit and every sequence of P/L       *)
(* figures, and of sizing, which keeps to its limits and wastes nothing    *)
(* for every account, price and configuration.                             *)
(*                                                                         *)
(* The comparisons multiply a constant percentage by the equity or by the  *)
(* high-water mark.  The proofs never expand such a product where they can *)
(* name it: a lemma says once what a breaker that did not fire means.      *)
(***************************************************************************)
EXTENDS CircuitBreaker, SizingCheck, TLAPS


-----------------------------------------------------------------------------
(* Circuit breakers: the parts of a check *)

LEMMA TotalType ==
  ASSUME NEW d \in Days
  PROVE  TotalPnl(d) \in Int
BY DEF TotalPnl, Days

\* The mark and the latch are the only fields the tracker writes.
LEMMA TrackFields ==
  ASSUME NEW d \in Days
  PROVE  LET t == TrackHighWater(d, Cfg)
         IN  /\ t \in Days
             /\ t.equity = d.equity /\ t.realized = d.realized
             /\ t.unrealized = d.unrealized
             /\ t.halted = d.halted /\ t.reason = d.reason
             /\ t.high = (IF TotalPnl(d) > d.high THEN TotalPnl(d) ELSE d.high)
             /\ t.armed = (IF TargetHit(d, Cfg) THEN TRUE ELSE d.armed)
             /\ TotalPnl(t) = TotalPnl(d)
<1> DEFINE high == IF TotalPnl(d) > d.high THEN TotalPnl(d) ELSE d.high
           armed == IF TargetHit(d, Cfg) THEN TRUE ELSE d.armed
           t == [d EXCEPT !.high = high, !.armed = armed]
<1>1. high \in Int
  BY TotalType DEF Days
<1>2. armed \in BOOLEAN
  BY DEF Days
<1>3. TrackHighWater(d, Cfg) = t
  BY Zenon DEF TrackHighWater
<1> HIDE DEF high, armed
<1>4. /\ t \in Days
      /\ t.equity = d.equity /\ t.realized = d.realized
      /\ t.unrealized = d.unrealized
      /\ t.halted = d.halted /\ t.reason = d.reason
      /\ t.high = high /\ t.armed = armed
  BY <1>1, <1>2 DEF Days
<1>5. TotalPnl(t) = TotalPnl(d)
  BY <1>4 DEF TotalPnl
<1>6. QED
  BY <1>3, <1>4, <1>5 DEF high, armed

\* Halting writes the latch and the reason, and nothing else.
LEMMA HaltFields ==
  ASSUME NEW d \in Days, NEW why \in Reasons, NEW flatten
  PROVE  LET h == Halt(d, why, flatten)
         IN  /\ h.day \in Days /\ h.verdict \in Verdicts
             /\ h.day.halted
             /\ h.day.equity = d.equity /\ h.day.high = d.high
             /\ h.day.armed = d.armed
BY DEF Halt, Days, Verdicts

\* The figures a check stores before it looks at any limit.
LEMMA StoreFields ==
  ASSUME NEW d \in Days, NEW r \in Int, NEW u \in Int
  PROVE  LET m == [d EXCEPT !.realized = r, !.unrealized = u]
         IN  /\ m \in Days
             /\ m.equity = d.equity /\ m.high = d.high /\ m.armed = d.armed
             /\ m.halted = d.halted /\ m.reason = d.reason
BY DEF Days

-----------------------------------------------------------------------------
(* What the three breakers do to a day that is not halted *)

\* What a day shows after its giveback breaker let it pass.
Bracketed(d) ==
  d.armed => /\ TotalPnl(d) <= d.high
             /\ 100 * TotalPnl(d) > d.high * (100 - Cfg.giveback_pct)

\* What is known of the mark once the latch is set.
MarkReached(d) ==
  d.armed /\ d.equity > 0 => 100 * d.high >= Cfg.target_pct * d.equity

LEMMA GivebackEffect ==
  ASSUME NEW d \in Days, ~d.halted, MarkReached(d)
  PROVE  LET g == CheckGiveback(d, Cfg)
         IN  /\ g.day \in Days /\ g.verdict \in Verdicts
             /\ MarkReached(g.day)
             /\ ~g.day.halted => Bracketed(g.day)
<1> DEFINE t == TrackHighWater(d, Cfg)
           g == CheckGiveback(d, Cfg)
<1>1. /\ t \in Days
      /\ t.equity = d.equity /\ t.halted = d.halted
      /\ t.high = (IF TotalPnl(d) > d.high THEN TotalPnl(d) ELSE d.high)
      /\ t.armed = (IF TargetHit(d, Cfg) THEN TRUE ELSE d.armed)
      /\ TotalPnl(t) = TotalPnl(d)
  BY TrackFields
<1>2. TotalPnl(t) \in Int /\ t.high \in Int /\ d.high \in Int
        /\ t.equity \in Int /\ t.armed \in BOOLEAN /\ d.armed \in BOOLEAN
  BY <1>1, TotalType DEF Days
<1> HIDE DEF t
<1>3. TotalPnl(t) <= t.high /\ d.high <= t.high
  BY <1>1, <1>2
<1>4. MarkReached(t)
  <2> SUFFICES ASSUME t.armed, t.equity > 0
               PROVE  100 * t.high >= Cfg.target_pct * t.equity
    BY DEF MarkReached
  <2> DEFINE bar == Cfg.target_pct * t.equity
  <2>1. bar \in Int
    BY <1>2, CfgAssumption DEF IsLimitConfig
  <2>2. CASE TargetHit(d, Cfg)
    <3>1. ~(d.equity <= 0)
      BY <1>1, <1>2
    <3>2. 100 * TotalPnl(d) >= Cfg.target_pct * d.equity
      BY <2>2, <3>1, Zenon DEF TargetHit, PctAtLeast
    <3>3. 100 * TotalPnl(d) >= bar
      BY <3>2, <1>1, Zenon
    <3> HIDE DEF bar
    <3>4. 100 * t.high >= bar
      BY <3>3, <2>1, <1>1, <1>2, <1>3
    <3>5. QED
      BY <3>4 DEF bar
  <2>3. CASE ~TargetHit(d, Cfg)
    <3>1. 100 * d.high >= bar
      BY <2>3, <1>1 DEF MarkReached
    <3> HIDE DEF bar
    <3>2. 100 * t.high >= bar
      BY <3>1, <2>1, <1>2, <1>3
    <3>3. QED
      BY <3>2 DEF bar
  <2>4. QED
    BY <2>2, <2>3
<1>5. CASE GaveBack(t, Cfg)
  <2>1. g = Halt(t, "giveback", TRUE)
    BY <1>5 DEF CheckGiveback, t
  <2>2. /\ g.day \in Days /\ g.verdict \in Verdicts /\ g.day.halted
        /\ g.day.equity = t.equity /\ g.day.high = t.high /\ g.day.armed = t.armed
    <3> HIDE DEF g
    <3>1. "giveback" \in Reasons
      BY DEF Reasons
    <3>2. LET h == Halt(t, "giveback", TRUE)
          IN  /\ h.day \in Days /\ h.verdict \in Verdicts /\ h.day.halted
              /\ h.day.equity = t.equity /\ h.day.high = t.high
              /\ h.day.armed = t.armed
      BY <1>1, <3>1 DEF Halt, Days, Verdicts
    <3>3. QED
      BY <2>1, <3>2, Zenon
  <2>3. QED
    BY <2>2, <1>4 DEF MarkReached
<1>6. CASE ~GaveBack(t, Cfg)
  <2>1. g.day = t /\ g.verdict = "none"
    BY <1>6 DEF CheckGiveback, Go, t
  <2>2. Bracketed(t)
    <3> SUFFICES ASSUME t.armed
                 PROVE  100 * TotalPnl(t) > t.high * (100 - Cfg.giveback_pct)
      BY <1>3 DEF Bracketed
    <3> DEFINE trigger == t.high * (100 - Cfg.giveback_pct)
    <3>1. trigger \in Int
      BY <1>2, CfgAssumption DEF IsLimitConfig
    <3>2. ~(100 * TotalPnl(t) <= trigger)
      BY <1>6 DEF GaveBack
    <3> HIDE DEF trigger
    <3>3. 100 * TotalPnl(t) > trigger
      BY <3>1, <3>2, <1>2
    <3>4. QED
      BY <3>3 DEF trigger
  <2>3. QED
    BY <2>1, <2>2, <1>1, <1>4 DEF Verdicts
<1>7. QED
  BY <1>5, <1>6

LEMMA StopEffect ==
  ASSUME NEW d \in Days, MarkReached(d)
  PROVE  LET g == CheckStop(d, Cfg)
         IN  /\ g.day \in Days /\ g.verdict \in Verdicts
             /\ MarkReached(g.day)
             /\ g.day.armed = d.armed
<1> DEFINE g == CheckStop(d, Cfg)
           h == Halt(d, "target", Cfg.flatten_on_target)
<1>1. /\ h.day \in Days /\ h.verdict \in Verdicts
      /\ h.day.equity = d.equity /\ h.day.high = d.high /\ h.day.armed = d.armed
  BY HaltFields DEF Reasons
<1>2. MarkReached(h.day)
  BY <1>1 DEF MarkReached
<1>3. CASE TargetHit(d, Cfg)
  <2>1. g = h
    BY <1>3, Zenon DEF CheckStop
  <2> HIDE DEF g, h
  <2>2. QED
    BY <1>1, <1>2, <2>1 DEF g
<1>4. CASE ~TargetHit(d, Cfg)
  <2>1. g = Go(d)
    BY <1>4, Zenon DEF CheckStop
  <2>2. QED
    BY <2>1 DEF Go, Verdicts
<1>5. QED
  BY <1>3, <1>4

-----------------------------------------------------------------------------
(* The inductive invariant *)

\* Only the giveback breaker arms the day.
Safe(d) ==
  /\ d \in Days
  /\ MarkReached(d)
  /\ d.armed => Cfg.target_mode = "giveback"
  /\ ~d.halted => Bracketed(d)

\* What one check does to a day that satisfies the invariant.
LEMMA CheckEffect ==
  ASSUME NEW d, Safe(d), NEW r \in Int, NEW u \in Int
  PROVE  LET c == CheckDailyLimits(d, r, u, Cfg)
         IN  /\ Safe(c.day) /\ c.verdict \in Verdicts
             /\ d.halted => /\ c.day.halted /\ c.day.reason = d.reason
                            /\ c.verdict = "halt"
<1> DEFINE m == [d EXCEPT !.realized = r, !.unrealized = u]
           c == CheckDailyLimits(d, r, u, Cfg)
<1>1. /\ m \in Days
      /\ m.equity = d.equity /\ m.high = d.high /\ m.armed = d.armed
      /\ m.halted = d.halted /\ m.reason = d.reason
  BY StoreFields DEF Safe
<1>2. MarkReached(m) /\ (m.armed => Cfg.target_mode = "giveback")
  BY <1>1 DEF Safe, MarkReached
<1>3. c = CASE m.halted -> [day |-> m, verdict |-> "halt"]
            [] ~m.halted /\ MaxLossHit(m, Cfg) ->
                 Halt(m, "max_loss", Cfg.flatten_on_max_loss)
            [] ~m.halted /\ ~MaxLossHit(m, Cfg) /\ Cfg.target_mode = "stop" ->
                 CheckStop(m, Cfg)
            [] OTHER -> CheckGiveback(m, Cfg)
  BY Zenon DEF CheckDailyLimits
<1> HIDE DEF m, c
<1>4. CASE m.halted
  <2>1. c = [day |-> m, verdict |-> "halt"]
    BY <1>3, <1>4
  <2>2. c.day = m /\ c.verdict = "halt"
    BY <2>1
  <2>3. QED
    BY <2>2, <1>1, <1>2, <1>4 DEF c, Safe, Verdicts
<1>5. CASE ~m.halted /\ MaxLossHit(m, Cfg)
  <2>1. c = Halt(m, "max_loss", Cfg.flatten_on_max_loss)
    BY <1>3, <1>5
  <2>2. /\ c.day \in Days /\ c.verdict \in Verdicts /\ c.day.halted
        /\ c.day.equity = m.equity /\ c.day.high = m.high /\ c.day.armed = m.armed
    BY <2>1, <1>1, HaltFields DEF Reasons
  <2>3. QED
    BY <2>2, <1>1, <1>2, <1>5 DEF c, Safe, MarkReached
<1>6. CASE ~m.halted /\ ~MaxLossHit(m, Cfg) /\ Cfg.target_mode = "stop"
  <2>1. c = CheckStop(m, Cfg)
    BY <1>3, <1>6
  <2>2. /\ c.day \in Days /\ c.verdict \in Verdicts /\ MarkReached(c.day)
        /\ c.day.armed = m.armed
    BY <2>1, <1>1, <1>2, StopEffect
  <2>3. ~c.day.armed
    BY <2>2, <1>2, <1>6
  <2>4. QED
    BY <2>2, <2>3, <1>1, <1>6 DEF c, Safe, Bracketed
<1>7. CASE ~m.halted /\ ~MaxLossHit(m, Cfg) /\ Cfg.target_mode # "stop"
  <2>1. c = CheckGiveback(m, Cfg)
    BY <1>3, <1>7
  <2>2. /\ c.day \in Days /\ c.verdict \in Verdicts /\ MarkReached(c.day)
        /\ ~c.day.halted => Bracketed(c.day)
    BY <2>1, <1>1, <1>2, <1>7, GivebackEffect
  <2>3. Cfg.target_mode = "giveback"
    BY <1>7, CfgAssumption DEF IsLimitConfig
  <2>4. QED
    BY <2>2, <2>3, <1>1, <1>7 DEF c, Safe
<1>8. QED
  BY <1>4, <1>5, <1>6, <1>7

Inv == Safe(day) /\ verdict \in Verdicts /\ entered \in 0..MaxTrades

LEMMA InitInv == Init => Inv
<1> SUFFICES ASSUME Init PROVE Inv
  OBVIOUS
<1>1. /\ day \in Days /\ ~day.armed
      /\ verdict \in Verdicts /\ entered \in 0..MaxTrades
  <2>1. day \in Days
    BY EquityAssumption DEF Init, NewDay, Days, Reasons
  <2>2. ~day.armed
    BY DEF Init, NewDay
  <2>3. verdict \in Verdicts /\ entered \in 0..MaxTrades
    BY MaxTradesAssumption DEF Init, Verdicts
  <2>4. QED
    BY <2>1, <2>2, <2>3
<1>2. QED
  BY <1>1 DEF Inv, Safe, MarkReached, Bracketed

LEMMA NextInv == Inv /\ [Next]_vars => Inv'
<1> SUFFICES ASSUME Inv, [Next]_vars PROVE Inv'
  OBVIOUS
<1>1. ASSUME NEW r \in Pnl, NEW u \in Pnl, Check(r, u) PROVE Inv'
  <2> DEFINE c == CheckDailyLimits(day, r, u, Cfg)
  <2>1. Safe(c.day) /\ c.verdict \in Verdicts
    BY PnlAssumption, CheckEffect DEF Inv
  <2>2. day' = c.day /\ verdict' = c.verdict /\ entered' = entered
    BY <1>1 DEF Check
  <2> HIDE DEF c
  <2>3. QED
    BY <2>1, <2>2 DEF Inv, Safe, MarkReached, Bracketed, TotalPnl
<1>2. CASE Enter
  BY <1>2, MaxTradesAssumption
     DEF Enter, Inv, Safe, MarkReached, Bracketed, TotalPnl
<1>3. CASE UNCHANGED vars
  BY <1>3 DEF vars, Inv, Safe, MarkReached, Bracketed, TotalPnl
<1>4. QED
  BY <1>1, <1>2, <1>3 DEF Next

-----------------------------------------------------------------------------
(* Circuit breakers: the theorems *)

THEOREM Invariance == Spec => []Inv
BY InitInv, NextInv, PTL DEF Spec

\* DailyState keeps its type (circuit_breaker.py:16-38).
THEOREM TypeCorrect == Spec => []TypeOK
<1>1. Inv => TypeOK
  BY DEF Inv, Safe, TypeOK
<1>2. QED
  BY <1>1, Invariance, PTL

\* The giveback breaker is armed only by a mark at or above its activation
\* threshold (circuit_breaker.py:87-98).
THEOREM ArmedOnlyAboveTarget == Spec => []ArmedAboveTarget
<1>1. Inv => ArmedAboveTarget
  BY DEF Inv, Safe, MarkReached, ArmedAboveTarget
<1>2. QED
  BY <1>1, Invariance, PTL

\* A giveback day trades on only between its trigger and its mark
\* (circuit_breaker.py:85-109).
THEOREM TradesInsideTheBracket == Spec => []BracketedWhileArmed
<1>1. Inv => BracketedWhileArmed
  BY DEF Inv, Safe, Bracketed, BracketedWhileArmed
<1>2. QED
  BY <1>1, Invariance, PTL

\* The halt latches, with its reason, orders at most one flattening, and no
\* trade is entered behind it (circuit_breaker.py:58-59, session.py:210).
THEOREM HaltIsFinal == Spec => HaltLatch
<1> DEFINE Latch ==
      /\ day.halted => day'.halted /\ day'.reason = day.reason
      /\ day' # day /\ verdict' = "flatten_and_halt" => ~day.halted
      /\ day.halted => entered' = entered
<1>1. Inv /\ [Next]_vars => [Latch]_vars
  <2> SUFFICES ASSUME Inv, Next PROVE Latch
    OBVIOUS
  <2>1. ASSUME NEW r \in Pnl, NEW u \in Pnl, Check(r, u) PROVE Latch
    <3> DEFINE c == CheckDailyLimits(day, r, u, Cfg)
    <3>1. day.halted => /\ c.day.halted /\ c.day.reason = day.reason
                        /\ c.verdict = "halt"
      BY PnlAssumption, CheckEffect DEF Inv
    <3>2. day' = c.day /\ verdict' = c.verdict /\ entered' = entered
      BY <2>1 DEF Check
    <3> HIDE DEF c
    <3>3. QED
      BY <3>1, <3>2
  <2>2. CASE Enter
    BY <2>2 DEF Enter
  <2>3. QED
    BY <2>1, <2>2 DEF Next
<1>2. QED
  BY <1>1, Invariance, PTL DEF Spec, HaltLatch

\* A day without a gain or a loss goes on at its first check exactly when the
\* loss limit is stored as a negative percentage and the target as a positive
\* one, whatever the equity, the mode and the other settings: the breakers
\* compare with the signs as they are stored (circuit_breaker.py:61-98).
THEOREM FlatDayGoesOnExactly ==
  ASSUME NEW c, IsLimitConfig(c), NEW e \in Int
  PROVE  CheckDailyLimits(NewDay(e), 0, 0, c).verdict = "none"
           <=> c.max_loss_pct < 0 /\ c.target_pct > 0
<1> DEFINE d == NewDay(e)
           m == [d EXCEPT !.realized = 0, !.unrealized = 0]
           t == TrackHighWater(m, c)
           high == IF TotalPnl(m) > m.high THEN TotalPnl(m) ELSE m.high
           armed == IF TargetHit(m, c) THEN TRUE ELSE m.armed
<1>1. /\ m.equity = e /\ m.high = 0 /\ m.armed = FALSE /\ m.halted = FALSE
      /\ m.realized = 0 /\ m.unrealized = 0 /\ m \in Days
  <2>1. /\ d \in Days /\ d.equity = e /\ d.high = 0
        /\ d.armed = FALSE /\ d.halted = FALSE
    BY DEF NewDay, Days, Reasons
  <2> HIDE DEF d
  <2>2. m.realized = 0 /\ m.unrealized = 0
    BY <2>1 DEF Days
  <2>3. /\ m \in Days /\ m.equity = d.equity /\ m.high = d.high
        /\ m.armed = d.armed /\ m.halted = d.halted
    BY <2>1 DEF Days
  <2> QED
    BY <2>1, <2>2, <2>3
<1>2. c.max_loss_pct \in Int /\ c.target_pct \in Int /\ c.giveback_pct \in Int
  BY DEF IsLimitConfig
<1>3. t = [m EXCEPT !.high = high, !.armed = armed]
  BY Zenon DEF TrackHighWater
<1>4. CheckDailyLimits(NewDay(e), 0, 0, c) =
        CASE m.halted -> [day |-> m, verdict |-> "halt"]
          [] ~m.halted /\ MaxLossHit(m, c) -> Halt(m, "max_loss", c.flatten_on_max_loss)
          [] ~m.halted /\ ~MaxLossHit(m, c) /\ c.target_mode = "stop" -> CheckStop(m, c)
          [] OTHER -> CheckGiveback(m, c)
  BY Zenon DEF CheckDailyLimits
<1> HIDE DEF d, m
<1>5. TotalPnl(m) = 0
  BY <1>1 DEF TotalPnl
<1>6. ASSUME NEW k \in Int
      PROVE  (PctAtMost(m, k) <=> 0 <= k) /\ (PctAtLeast(m, k) <=> 0 >= k)
  <2>1. CASE e <= 0
    BY <1>1, <2>1 DEF PctAtMost, PctAtLeast
  <2>2. CASE e > 0
    <3>1. (0 <= k * e <=> 0 <= k) /\ (0 >= k * e <=> 0 >= k)
      BY <2>2
    <3> QED
      BY <1>1, <1>5, <2>2, <3>1 DEF PctAtMost, PctAtLeast
  <2> QED
    BY <2>1, <2>2
<1>7. /\ MaxLossHit(m, c) <=> c.max_loss_pct >= 0
      /\ TargetHit(m, c) <=> c.target_pct <= 0
  BY <1>2, <1>6 DEF MaxLossHit, TargetHit
<1>8. /\ high = 0 /\ (armed <=> c.target_pct <= 0) /\ armed \in BOOLEAN
  BY <1>1, <1>5, <1>7
<1> HIDE DEF high, armed
<1>9. t.high = 0 /\ t.armed = armed /\ t.realized = 0 /\ t.unrealized = 0
  BY <1>1, <1>3, <1>8 DEF Days
<1> HIDE DEF t
<1>10. GaveBack(t, c) <=> c.target_pct <= 0
  <2>1. TotalPnl(t) = 0
    BY <1>9 DEF TotalPnl
  <2> QED
    BY <1>2, <1>8, <1>9, <2>1 DEF GaveBack
<1>11. ASSUME NEW x, NEW why, NEW flatten
       PROVE  Halt(x, why, flatten).verdict # "none" /\ Go(x).verdict = "none"
  BY DEF Halt, Go
<1>12. CheckStop(m, c).verdict = "none" <=> c.target_pct > 0
  <2>1. CheckStop(m, c) = IF TargetHit(m, c) THEN Halt(m, "target", c.flatten_on_target)
                          ELSE Go(m)
    BY Zenon DEF CheckStop
  <2> QED
    BY <1>2, <1>7, <1>11, <2>1
<1>13. CheckGiveback(m, c).verdict = "none" <=> c.target_pct > 0
  <2>1. CheckGiveback(m, c) = IF GaveBack(t, c) THEN Halt(t, "giveback", TRUE) ELSE Go(t)
    BY DEF CheckGiveback, t
  <2>2. CheckGiveback(m, c).verdict = "none" <=> ~GaveBack(t, c)
    BY <1>11, <2>1, Zenon
  <2> QED
    BY <1>2, <1>10, <2>2
<1> QED
  BY <1>1, <1>2, <1>4, <1>7, <1>11, <1>12, <1>13

-----------------------------------------------------------------------------
(* Sizing: floors and limits *)

\* Integer division rounds down.
LEMMA Floor ==
  ASSUME NEW a \in Int, NEW b \in Nat \ {0}
  PROVE  /\ a \div b \in Int
         /\ b * (a \div b) <= a
         /\ a < b * ((a \div b) + 1)
BY SMTT(30)

\* A count is at most the quotient exactly when its multiple fits.
LEMMA FloorIsLargest ==
  ASSUME NEW a \in Int, NEW b \in Nat \ {0}, NEW n \in Int
  PROVE  n <= a \div b <=> n * b <= a
<1> DEFINE q == a \div b
<1>1. q \in Int /\ b * q <= a /\ a < b * (q + 1)
  BY Floor
<1> HIDE DEF q
<1>2. ASSUME n <= q PROVE n * b <= a
  <2>1. n * b <= b * q
    BY <1>1, <1>2, SMTT(30)
  <2>2. n * b \in Int /\ b * q \in Int
    BY <1>1
  <2>3. QED
    BY <1>1, <2>1, <2>2
<1>3. ASSUME ~(n <= q) PROVE ~(n * b <= a)
  <2>1. n >= q + 1
    BY <1>1, <1>3
  <2>2. n * b >= b * (q + 1)
    BY <1>1, <2>1, SMTT(30)
  <2>3. n * b \in Int /\ b * (q + 1) \in Int
    BY <1>1
  <2>4. QED
    BY <1>1, <2>2, <2>3
<1>4. QED
  BY <1>2, <1>3 DEF q

\* What each limit allows, as a number of shares, and the least of them.
Allowed ==
  Least(RiskShares(equity, price, config), Caps(buying_power, price, config))

Asked ==
  /\ equity \in Int /\ buying_power \in Int /\ price \in Nat \ {0}
  /\ IsSizingConfig(config)

LEMMA RiskType ==
  ASSUME Asked
  PROVE  /\ EffectiveRisk(config) \in Nat
         /\ Magnitude(config.max_loss_pct) \in Nat
         /\ EffectiveRisk(config) <= Magnitude(config.max_loss_pct)
BY DEF Asked, IsSizingConfig, EffectiveRisk, Magnitude

\* A number of shares keeps to every limit exactly when it is allowed.
LEMMA AllowedIsExact ==
  ASSUME Asked, price * config.stop_loss_pct > 0, NEW n \in Int
  PROVE  /\ Allowed \in Int
         /\ RiskShares(equity, price, config) \in Int
         /\ Allowed <= RiskShares(equity, price, config)
         /\ n <= Allowed <=> WithinRisk(n) /\ WithinSlice(n) /\ WithinPower(n)
<1> DEFINE stop == price * config.stop_loss_pct
           budget == equity * EffectiveRisk(config)
           slice == buying_power * config.position_size_pct
           unit == 100 * price
<1>1. /\ stop \in Nat \ {0} /\ budget \in Int
      /\ slice \in Int /\ unit \in Nat \ {0}
      /\ buying_power \in Int /\ price \in Nat \ {0}
  BY RiskType DEF Asked, IsSizingConfig
<1>2. /\ RiskShares(equity, price, config) = budget \div stop
      /\ Caps(buying_power, price, config) =
           Least(slice \div unit, buying_power \div price)
  BY DEF RiskShares, Caps
<1>3. /\ WithinRisk(n) <=> n * stop <= budget
      /\ WithinPower(n) <=> n * price <= buying_power
  BY DEF WithinRisk, WithinPower
<1>4. WithinSlice(n) <=> n * unit <= slice
  <2>1. 100 * (n * price) = n * unit
    BY DEF Asked
  <2>2. QED
    BY <2>1 DEF WithinSlice
<1> HIDE DEF stop, budget, slice, unit
<1>5. /\ budget \div stop \in Int
      /\ n <= budget \div stop <=> n * stop <= budget
  BY <1>1, Floor, FloorIsLargest
<1>6. /\ slice \div unit \in Int
      /\ n <= slice \div unit <=> n * unit <= slice
  BY <1>1, Floor, FloorIsLargest
<1>7. /\ buying_power \div price \in Int
      /\ n <= buying_power \div price <=> n * price <= buying_power
  BY <1>1, Floor, FloorIsLargest
<1> DEFINE r == budget \div stop
           s == slice \div unit
           p == buying_power \div price
<1>8. Allowed = Least(r, Least(s, p))
  BY <1>2 DEF Allowed
<1>9. /\ r \in Int /\ s \in Int /\ p \in Int
      /\ n <= r <=> WithinRisk(n)
      /\ n <= s <=> WithinSlice(n)
      /\ n <= p <=> WithinPower(n)
  BY <1>3, <1>4, <1>5, <1>6, <1>7
<1> HIDE DEF r, s, p
<1>10. QED
  BY <1>2, <1>8, <1>9 DEF Least, r

\* What compute_shares returns, without its two skips.
LEMMA SharesAllowed ==
  ASSUME Asked, price * config.stop_loss_pct > 0
  PROVE  ComputeShares(equity, buying_power, price, config) =
           IF Allowed < 1 THEN 0 ELSE Allowed
<1>1. /\ Allowed \in Int
      /\ RiskShares(equity, price, config) \in Int
      /\ Allowed <= RiskShares(equity, price, config)
  BY AllowedIsExact
<1>2. ~(price * config.stop_loss_pct <= 0)
  BY DEF Asked, IsSizingConfig
<1>3. ComputeShares(equity, buying_power, price, config) =
        IF RiskShares(equity, price, config) < 1 THEN 0
        ELSE IF Allowed < 1 THEN 0 ELSE Allowed
  BY <1>2 DEF ComputeShares, Allowed
<1>4. QED
  BY <1>1, <1>3

LEMMA SharesSkipped ==
  ASSUME Asked, ~(price * config.stop_loss_pct > 0)
  PROVE  ComputeShares(equity, buying_power, price, config) = 0
<1>1. price * config.stop_loss_pct <= 0
  BY DEF Asked, IsSizingConfig
<1>2. QED
  BY <1>1 DEF ComputeShares

\* The goal-post is the least number of trades whose risks add up to the loss.
LEMMA GoalpostCount ==
  ASSUME Asked
  PROVE  LET risk == EffectiveRisk(config)
             loss == Magnitude(config.max_loss_pct)
             n == GoalpostTradeCount(config)
         IN  /\ n \in Nat
             /\ risk > 0 => n * risk >= loss /\ (n - 1) * risk < loss
<1> DEFINE risk == EffectiveRisk(config)
           loss == Magnitude(config.max_loss_pct)
           n == GoalpostTradeCount(config)
           q == (loss + risk - 1) \div risk
<1>1. risk \in Nat /\ loss \in Nat
  BY RiskType
<1>2. n = IF risk <= 0 THEN 1 ELSE q
  BY DEF GoalpostTradeCount
<1> HIDE DEF risk, loss, n
<1>3. CASE risk = 0
  BY <1>1, <1>2, <1>3 DEF risk, loss, n
<1>4. CASE risk # 0
  <2>1. risk \in Nat \ {0} /\ loss + risk - 1 \in Int
    BY <1>1, <1>4
  <2>2. /\ q \in Int
        /\ risk * q <= loss + risk - 1
        /\ loss + risk - 1 < risk * (q + 1)
    BY <2>1, Floor
  <2>3. n = q
    BY <1>1, <1>2, <1>4
  <2> HIDE DEF q
  <2>4. /\ risk * q \in Int
        /\ risk * (q + 1) = risk * q + risk
        /\ (q - 1) * risk = risk * q - risk
        /\ q * risk = risk * q
    BY <2>1, <2>2
  <2>5. q * risk >= loss /\ (q - 1) * risk < loss
    <3> DEFINE m == risk * q
    <3>1. /\ m \in Int /\ m <= loss + risk - 1 /\ loss + risk - 1 < m + risk
          /\ (q - 1) * risk = m - risk /\ q * risk = m
      BY <2>2, <2>4
    <3> HIDE DEF m
    <3>2. m >= loss /\ m - risk < loss
      BY <3>1, <1>1
    <3>3. QED
      BY <3>1, <3>2
  <2>6. q >= 0
    <3>1. SUFFICES ASSUME q <= -1 PROVE FALSE
      BY <2>2
    <3>2. risk * (q + 1) <= 0
      BY <2>1, <2>2, <3>1, SMTT(30)
    <3>3. loss + risk - 1 >= 0
      BY <1>1, <2>1
    <3>4. risk * (q + 1) \in Int
      BY <2>1, <2>2
    <3>5. QED
      BY <2>2, <3>2, <3>3, <3>4, <2>1, <1>1
  <2>7. QED
    BY <2>2, <2>3, <2>5, <2>6 DEF risk, loss, n
<1>5. QED
  BY <1>3, <1>4

-----------------------------------------------------------------------------
(* Sizing: the theorems *)

SizingInv ==
  /\ SizingTypeOK
  /\ answered => /\ shares = ComputeShares(equity, buying_power, price, config)
                 /\ trades = GoalpostTradeCount(config)

LEMMA TypedQuestion == SizingTypeOK => Asked
BY InputsAssumption DEF SizingTypeOK, Asked

LEMMA SharesType ==
  ASSUME Asked PROVE ComputeShares(equity, buying_power, price, config) \in Nat
<1>1. CASE price * config.stop_loss_pct > 0
  BY <1>1, AllowedIsExact, SharesAllowed
<1>2. CASE ~(price * config.stop_loss_pct > 0)
  BY <1>2, SharesSkipped
<1>3. QED
  BY <1>1, <1>2

THEOREM SizingInvariance == SizingSpec => []SizingInv
<1>1. SizingInit => SizingInv
  <2> SUFFICES ASSUME SizingInit PROVE SizingInv
    OBVIOUS
  <2>1. ~answered /\ answered \in BOOLEAN
    BY DEF SizingInit
  <2>2. SizingTypeOK
    BY <2>1 DEF SizingInit, SizingTypeOK
  <2>3. QED
    BY <2>1, <2>2 DEF SizingInv
<1>2. SizingInv /\ [SizingNext]_sizing_vars => SizingInv'
  <2> SUFFICES ASSUME SizingInv, [SizingNext]_sizing_vars PROVE SizingInv'
    OBVIOUS
  <2>1. CASE Size
    <3>1. /\ ComputeShares(equity, buying_power, price, config) \in Nat
          /\ GoalpostTradeCount(config) \in Nat
      BY TypedQuestion, SharesType, GoalpostCount DEF SizingInv
    <3>2. QED
      BY <2>1, <3>1 DEF Size, question, SizingInv, SizingTypeOK
  <2>2. CASE Done \/ UNCHANGED sizing_vars
    BY <2>2 DEF Done, sizing_vars, question, SizingInv, SizingTypeOK
  <2>3. QED
    BY <2>1, <2>2 DEF SizingNext
<1>3. QED
  BY <1>1, <1>2, PTL DEF SizingSpec

\* No entry risks more than the effective risk at the stop, or costs more than
\* its slice of buying power, or more than all of it (sizing.py:49-88).
THEOREM EntriesKeepLimits == SizingSpec => []KeepsLimits
<1>1. SizingInv => KeepsLimits
  <2> SUFFICES ASSUME SizingInv, answered, shares > 0
               PROVE  WithinRisk(shares) /\ WithinSlice(shares) /\ WithinPower(shares)
    BY DEF KeepsLimits
  <2>1. Asked /\ shares = ComputeShares(equity, buying_power, price, config)
    BY TypedQuestion DEF SizingInv
  <2>2. price * config.stop_loss_pct > 0
    BY <2>1, SharesSkipped
  <2>3. shares = Allowed /\ shares \in Int
    BY <2>1, <2>2, SharesAllowed, AllowedIsExact
  <2>4. QED
    BY <2>1, <2>2, <2>3, AllowedIsExact
<1>2. QED
  BY <1>1, SizingInvariance, PTL

\* No entry is smaller than it need be, and none is skipped that could be made
\* (sizing.py:60-88).
THEOREM EntriesAreLargest == SizingSpec => []IsLargest
<1>1. SizingInv => IsLargest
  <2> DEFINE n == shares + 1
  <2> SUFFICES ASSUME SizingInv, answered, price * config.stop_loss_pct > 0
               PROVE  ~(WithinRisk(n) /\ WithinSlice(n) /\ WithinPower(n))
    BY DEF IsLargest
  <2>1. Asked /\ shares = ComputeShares(equity, buying_power, price, config)
    BY TypedQuestion DEF SizingInv
  <2>2. Allowed \in Int
    BY <2>1, AllowedIsExact
  <2>3. shares = IF Allowed < 1 THEN 0 ELSE Allowed
    BY <2>1, SharesAllowed
  <2>4. n \in Int /\ ~(n <= Allowed)
    BY <2>2, <2>3
  <2> HIDE DEF n
  <2>5. QED
    BY <2>1, <2>4, AllowedIsExact
<1>2. QED
  BY <1>1, SizingInvariance, PTL

\* The goal-post counts exactly the losing trades that use up the daily loss
\* (config.py:70-77).
THEOREM GoalpostExact == SizingSpec => []GoalpostIsExact
<1>1. SizingInv => GoalpostIsExact
  BY TypedQuestion, GoalpostCount DEF SizingInv, GoalpostIsExact
<1>2. QED
  BY <1>1, SizingInvariance, PTL
=============================================================================
