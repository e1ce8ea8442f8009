-------------------------- MODULE ExecutionSession --------------------------
(***************************************************************************)
(* The single-day execution engine, bot/engine/session.py with exits.py    *)
(* and gate.py, and the broker it trades through.                          *)
(*                                                                         *)
(* run_cycle is one synchronous call in an executor thread.  It is broken  *)
(* into the steps at which the outside can act or an exception can leave   *)
(* it: one step per symbol of each loop, an order and its poll being one   *)
(* step.  Between steps the wall clock moves on and late orders fill.      *)
(*                                                                         *)
(* Abstractions.  A candle keeps its close and what the indicators say of  *)
(* it; a dict or ranked list is visited in any order; sleeping in          *)
(* poll_order is the time that passes between two steps.  The broker is    *)
(* external: it is modelled from what client.py can return or raise.       *)
(***************************************************************************)
EXTENDS DailyLimits, Sizing, FiniteSets, Functions

CONSTANTS Symbols,
          Prices,      \* every close and every fill price
          Candles,     \* what the bars of a symbol can say in one cycle
          Accounts,    \* what get_account can return in the day
          Cfg,         \* the ExecutionConfig
          Equity,      \* the equity of the start_day snapshot
          Pnl,         \* P/L figures, for the refinement only
          Outcomes,    \* what can become of an order
          MaxTrades,   \* bound of the model: entries in a day
          MaxFaults,   \* bound of the model: orders that do not just fill
          NoBars, NoTrade

ASSUME SymbolsAssumption == IsFiniteSet(Symbols)
ASSUME PricesAssumption == Prices \subseteq Nat \ {0}
ASSUME CandlesAssumption ==
  /\ Candles \subseteq [close : Prices, bullish : BOOLEAN, fresh : BOOLEAN,
                        turning : BOOLEAN]
  /\ \A c \in Candles : c.fresh => c.bullish
  /\ NoBars \notin Candles
ASSUME AccountsAssumption ==
  Accounts \subseteq [equity : Int, buying_power : Int, intraday : Int, pdt : BOOLEAN]
ASSUME ConfigAssumption ==
  /\ Equity \in Int /\ Pnl \subseteq Int
  /\ IsLimitConfig(Cfg) /\ IsSizingConfig(Cfg)
  /\ Cfg.take_profit_pct \in Nat /\ Cfg.fraction_pct \in Nat
  /\ Cfg.trailing_stop \in BOOLEAN /\ Cfg.trailing_stop_pct \in Nat
  /\ Cfg.exit_mode \in {"dump", "trail_off"}
  /\ Cfg.trail_off_trigger \in {"per_candle", "candle_pattern"}
  /\ Cfg.force_close \in BOOLEAN
ASSUME BoundsAssumption == MaxTrades \in Nat /\ MaxFaults \in Nat

\* filled: submit_order returns and poll_order sees FILLED.
\* doubled: the same, after a first POST that timed out and was accepted (_post
\*   is retried without a client order id), so that a twin order is working.
\* ended: poll_order sees CANCELED, EXPIRED or REJECTED.
\* refused: submit_order raises and the broker holds no order.
\* unanswered: submit_order or poll_order raises and the order is working.
ASSUME OutcomesAssumption ==
  Outcomes \subseteq {"filled", "doubled", "ended", "refused", "unanswered"}

Trades == [entry : Prices, shares : Int, remaining : Int, hwm : Prices]

ASSUME NoTradeAssumption == NoTrade \notin Trades

VARIABLES zone,     \* where the wall clock is in the session
          seen,     \* the zone the running cycle read from its clock
          pc,       \* where the session thread is
          todo,     \* symbols the current loop has still to visit
          closed,   \* the `closed` list of _process_exits
          bars,     \* bars_by_symbol of the running cycle
          day,      \* the DailyState
          verdict,  \* the last DailyAction
          trades,   \* _open_trades
          entered, exited, realized,  \* the counters of SessionResult
          held,     \* shares of each symbol in the account (broker)
          working,  \* shares of accepted, unfinished orders (broker)
          cash,     \* money received less money paid for fills (broker)
          faults    \* orders so far that did not just fill (bound)

session == <<day, verdict, trades, entered, exited, realized>>
broker == <<held, working, cash, faults>>
vars == <<zone, seen, pc, todo, closed, bars, session, broker>>

Open == {s \in Symbols : trades[s] # NoTrade}

Live == {s \in Open : trades[s].remaining > 0}

Running == {"exits", "last_exits", "entries", "flatten", "end_flatten"}

Zones == {"z_hour", "open", "near_close", "closed"}

TypeOK ==
  /\ zone \in Zones /\ seen \in Zones
  /\ pc \in Running \cup {"idle", "raised", "over"}
  /\ todo \subseteq Symbols /\ closed \subseteq Symbols
  /\ bars \in [Symbols -> Candles \cup {NoBars}]
  /\ day \in Days /\ verdict \in Verdicts
  /\ trades \in [Symbols -> Trades \cup {NoTrade}]
  /\ entered \in 0..MaxTrades /\ exited \in Nat /\ realized \in Int
  /\ held \in [Symbols -> Int]
  /\ working \in [Symbols -> [buy : Nat, sell : Nat]]
  /\ cash \in Int /\ faults \in 0..MaxFaults

NoCandles == [s \in Symbols |-> NoBars]

Init ==
  /\ zone = "z_hour" /\ seen = "z_hour" /\ pc = "idle" /\ todo = {} /\ closed = {}
  /\ bars = NoCandles
  /\ day = NewDay(Equity) /\ verdict = "none"
  /\ trades = [s \in Symbols |-> NoTrade]
  /\ entered = 0 /\ exited = 0 /\ realized = 0
  /\ held = [s \in Symbols |-> 0]
  /\ working = [s \in Symbols |-> [buy |-> 0, sell |-> 0]]
  /\ cash = 0 /\ faults = 0

-----------------------------------------------------------------------------
(* The clock and the broker *)

\* The wall clock leaves the z-hour, comes within five minutes of the close,
\* and closes, whatever the session is doing.
Tick ==
  /\ zone' = CASE zone = "z_hour" -> "open"
               [] zone = "open" -> "near_close"
               [] OTHER -> "closed"
  /\ zone # "closed"
  /\ UNCHANGED <<seen, pc, todo, closed, bars, session, broker>>

\* A working order, or the twin of one, fills or ends after the session has
\* stopped looking.
LateFill(s, p) ==
  /\ working[s] # [buy |-> 0, sell |-> 0]
  /\ held' = [held EXCEPT ![s] = @ + working[s].buy - working[s].sell]
  /\ cash' = cash + p * (working[s].sell - working[s].buy)
  /\ working' = [working EXCEPT ![s] = [buy |-> 0, sell |-> 0]]
  /\ UNCHANGED <<zone, seen, pc, todo, closed, bars, session, faults>>

LateEnd(s) ==
  /\ working[s] # [buy |-> 0, sell |-> 0]
  /\ working' = [working EXCEPT ![s] = [buy |-> 0, sell |-> 0]]
  /\ UNCHANGED <<zone, seen, pc, todo, closed, bars, session, held, cash, faults>>

\* What a market order for n shares of s does at the broker: `done` shares
\* fill at price p at once, and `left` shares stay working.
Settle(s, side, done, left, p) ==
  /\ held' = [held EXCEPT ![s] = IF side = "buy" THEN @ + done ELSE @ - done]
  /\ cash' = IF side = "buy" THEN cash - p * done ELSE cash + p * done
  /\ working' = IF side = "buy" THEN [working EXCEPT ![s].buy = @ + left]
                                ELSE [working EXCEPT ![s].sell = @ + left]

Fault ==
  /\ faults < MaxFaults
  /\ faults' = faults + 1

\* poll_order returns a FILLED order.
Fills(s, side, n, p) ==
  \/ /\ "filled" \in Outcomes
     /\ Settle(s, side, n, 0, p) /\ UNCHANGED faults
  \/ /\ "doubled" \in Outcomes
     /\ Settle(s, side, n, n, p) /\ Fault

\* poll_order returns an order that ended with k of its n shares filled.
Ends(s, side, n, k, p) ==
  /\ "ended" \in Outcomes
  /\ k < n
  /\ Settle(s, side, k, 0, p) /\ Fault

\* submit_order or poll_order raises.
Raises(s, side, n) ==
  \/ "refused" \in Outcomes /\ UNCHANGED <<held, cash, working>> /\ Fault
  \/ "unanswered" \in Outcomes /\ Settle(s, side, 0, n, 0) /\ Fault

-----------------------------------------------------------------------------
(* Exit signals (exits.py): what to sell, and whether it closes the trade.  *)

RaiseBySum(t, close) == [t EXCEPT !.hwm = @ + close]
Raise(t, close) == [t EXCEPT !.hwm = IF close > @ THEN close ELSE @]

TrailingStopHit(t, close) ==
  /\ Cfg.trailing_stop
  /\ 100 * close <= t.hwm * (100 - Cfg.trailing_stop_pct)

TakeProfitHit(t, close) == 100 * close >= t.entry * (100 + Cfg.take_profit_pct)

Hold == [shares |-> 0, final |-> FALSE]

DumpExit(t) == [shares |-> t.remaining, final |-> TRUE]

ScaleOut(t) ==
  LET n == (t.remaining * Cfg.fraction_pct) \div 100
      k == Least(IF n < 1 THEN 1 ELSE n, t.remaining)
  IN  [shares |-> k, final |-> k >= t.remaining]

TrailOffPerCandle(t, c) == IF c.bullish THEN ScaleOut(t) ELSE DumpExit(t)

TrailOffCandlePattern(t, c) ==
  CASE ~c.bullish -> DumpExit(t)
    [] c.fresh -> ScaleOut(t)
    [] OTHER -> Hold

TrailOff(t, c) ==
  IF Cfg.trail_off_trigger = "per_candle"
  THEN TrailOffPerCandle(t, c)
  ELSE TrailOffCandlePattern(t, c)

\* The signal of _process_exits for a trade whose mark is already updated.
\* A reversal scales out per candle whatever the configured trigger.
ExitSignal(t, c) ==
  CASE TrailingStopHit(t, c.close) -> DumpExit(t)
    [] ~TrailingStopHit(t, c.close) /\ TakeProfitHit(t, c.close) ->
         IF Cfg.exit_mode = "dump" THEN DumpExit(t) ELSE TrailOff(t, c)
    [] ~TrailingStopHit(t, c.close) /\ ~TakeProfitHit(t, c.close) /\ c.turning ->
         IF Cfg.exit_mode = "dump" THEN DumpExit(t) ELSE TrailOffPerCandle(t, c)
    [] OTHER ->
         IF Cfg.exit_mode = "trail_off" THEN TrailOff(t, c) ELSE Hold

-----------------------------------------------------------------------------
(* One cycle *)

\* _compute_unrealized_pnl: marked at the high-water mark of each trade.
Unrealized ==
  SumFunctionOnSet([s \in Open |-> (trades[s].hwm - trades[s].entry) * trades[s].remaining],
                   Open)

\* An exception leaves run_cycle or end_day: the caller logs it and goes on.
Abort(where) ==
  /\ pc' = where
  /\ todo' = {} /\ closed' = {} /\ bars' = NoCandles

Return == Abort("idle")

Visit(where, symbols) ==
  /\ pc' = where
  /\ todo' = symbols /\ closed' = {}

\* What run_cycle does about the verdict of the breakers: the forced close near
\* the end of the day comes after them.
AfterCheckEntersWhenHalted(v) ==
  CASE v = "flatten_and_halt" -> Visit("flatten", Open)
    [] v = "halt" -> Visit("entries", Symbols)
    [] OTHER -> IF Cfg.force_close /\ zone = "near_close"
                THEN Visit("flatten", Open) ELSE Visit("exits", Open)
AfterCheckNeverForcesClose(v) ==
  CASE v = "flatten_and_halt" -> Visit("flatten", Open)
    [] v = "halt" -> Visit("last_exits", Open)
    [] OTHER -> Visit("exits", Open)
AfterCheck(v) ==
  CASE v = "flatten_and_halt" -> Visit("flatten", Open)
    [] v = "halt" -> Visit("last_exits", Open)
    [] OTHER -> IF Cfg.force_close /\ zone = "near_close"
                THEN Visit("flatten", Open) ELSE Visit("exits", Open)

\* run_cycle up to its first loop.  In the z-hour there are only exits; later
\* the breakers come first.
BeginCycle(b) ==
  /\ pc \in {"idle", "raised"}
  /\ zone # "closed"
  /\ seen' = zone
  /\ bars' = b
  /\ IF zone = "z_hour"
     THEN Visit("last_exits", Open) /\ UNCHANGED <<day, verdict>>
     ELSE LET r == CheckDailyLimits(day, realized, Unrealized, Cfg)
          IN  /\ day' = r.day /\ verdict' = r.verdict
              /\ AfterCheck(r.verdict)
  /\ UNCHANGED <<zone, trades, entered, exited, realized, broker>>

\* _execute_exit after the poll: the quantity asked for is booked, at price p.
BookEveryChunkAsExit(s, t, n, final, p) ==
  /\ trades' = [trades EXCEPT ![s] = [t EXCEPT !.remaining = @ - n]]
  /\ realized' = realized + (p - t.entry) * n
  /\ exited' = exited + 1
BookWholePosition(s, t, n, final, p) ==
  /\ trades' = [trades EXCEPT ![s] = [t EXCEPT !.remaining = @ - n]]
  /\ realized' = realized + (p - t.entry) * t.shares
  /\ exited' = IF final \/ t.remaining <= n THEN exited + 1 ELSE exited
Book(s, t, n, final, p) ==
  /\ trades' = [trades EXCEPT ![s] = [t EXCEPT !.remaining = @ - n]]
  /\ realized' = realized + (p - t.entry) * n
  /\ exited' = IF final \/ t.remaining <= n THEN exited + 1 ELSE exited

\* _execute_exit: sell what the signal says of trade t, at most what remains.
\* The status of the polled order is not read: the quantity asked for is booked
\* as sold, at the order's average price or, if it has none, at `fallback`.
ExitQty(t, signal) == Least(signal.shares, t.remaining)

SellBooks(s, t, signal, fallback) ==
  LET n == ExitQty(t, signal)
  IN  \/ /\ n <= 0
         /\ trades' = [trades EXCEPT ![s] = t]
         /\ UNCHANGED <<exited, realized, broker>>
      \/ /\ n > 0
         /\ \E p \in Prices :
              /\ Fills(s, "sell", n, p)
              /\ Book(s, t, n, signal.final, p)
      \/ /\ n > 0
         /\ \E p \in Prices, k \in 0..(n - 1) :
              /\ k = 0 => p = fallback
              /\ Ends(s, "sell", n, k, p)
              /\ Book(s, t, n, signal.final, p)

SellRaises(s, t, signal) ==
  /\ ExitQty(t, signal) > 0
  /\ Raises(s, "sell", ExitQty(t, signal))
  /\ trades' = [trades EXCEPT ![s] = t]
  /\ UNCHANGED <<exited, realized>>

\* One turn of the loop of _process_exits.
ExitSkipForever(s) ==
  /\ pc \in {"exits", "last_exits"} /\ s \in todo
  /\ bars[s] = NoBars
  /\ UNCHANGED vars
ExitSkip(s) ==
  /\ pc \in {"exits", "last_exits"} /\ s \in todo
  /\ bars[s] = NoBars
  /\ todo' = todo \ {s}
  /\ UNCHANGED <<zone, seen, pc, closed, bars, session, broker>>

ExitHold(s) ==
  /\ pc \in {"exits", "last_exits"} /\ s \in todo
  /\ bars[s] # NoBars
  /\ LET t == Raise(trades[s], bars[s].close)
     IN  /\ ExitSignal(t, bars[s]) = Hold
         /\ trades' = [trades EXCEPT ![s] = t]
  /\ todo' = todo \ {s}
  /\ UNCHANGED <<zone, seen, pc, closed, bars, day, verdict, entered, exited, realized, broker>>

ExitSell(s) ==
  /\ pc \in {"exits", "last_exits"} /\ s \in todo
  /\ bars[s] # NoBars
  /\ LET t == Raise(trades[s], bars[s].close)
         signal == ExitSignal(t, bars[s])
     IN  /\ signal # Hold
         /\ \/ /\ SellBooks(s, t, signal, bars[s].close)
               /\ todo' = todo \ {s}
               /\ closed' = IF signal.final \/ t.remaining <= ExitQty(t, signal)
                            THEN closed \cup {s} ELSE closed
               /\ UNCHANGED <<pc, bars>>
            \/ SellRaises(s, t, signal) /\ Abort("raised")
  /\ UNCHANGED <<zone, seen, day, verdict, entered>>

\* After the loop the closed trades are deleted, then entries follow unless
\* the cycle was for exits only.
DeleteClosed ==
  trades' = [s \in Symbols |-> IF s \in closed THEN NoTrade ELSE trades[s]]

ExitsDone ==
  /\ pc = "exits" /\ todo = {}
  /\ DeleteClosed
  /\ IF day.halted THEN Return ELSE Visit("entries", Symbols) /\ UNCHANGED bars
  /\ UNCHANGED <<zone, seen, day, verdict, entered, exited, realized, broker>>

LastExitsDone ==
  /\ pc = "last_exits" /\ todo = {}
  /\ DeleteClosed
  /\ Return
  /\ UNCHANGED <<zone, seen, day, verdict, entered, exited, realized, broker>>

\* One turn of the loop of _process_entries: any `continue` of it, the gate
\* and the account check included...
EntrySkip(s) ==
  /\ pc = "entries" /\ s \in todo
  /\ todo' = todo \ {s}
  /\ UNCHANGED <<zone, seen, pc, closed, bars, session, broker>>

\* ... or an order.  The gate wants an eligible, rising MACD, an enabled bullish
\* pattern and no reversal; what else it wants of the bars only skips.  An
\* exception of get_account leaves the loop as a refused order does.
GatePassed(c) == c.bullish /\ ~c.turning

MarginAllowsEntry(acct) ==
  ~acct.pdt /\ acct.buying_power > 0 /\ acct.intraday >= 0

Enter(s) ==
  /\ pc = "entries" /\ s \in todo
  /\ trades[s] = NoTrade
  /\ bars[s] # NoBars /\ GatePassed(bars[s])
  /\ entered < MaxTrades
  /\ \E acct \in Accounts :
       LET n == ComputeShares(acct.equity, acct.buying_power, bars[s].close, Cfg)
       IN  /\ MarginAllowsEntry(acct)
           /\ n > 0
           /\ \/ \E p \in Prices :
                   /\ Fills(s, "buy", n, p)
                   /\ trades' = [trades EXCEPT ![s] =
                        [entry |-> p, shares |-> n, remaining |-> n, hwm |-> p]]
                   /\ entered' = entered + 1
                   /\ todo' = todo \ {s}
                   /\ UNCHANGED <<pc, closed, bars>>
              \/ \E p \in Prices, k \in 0..(n - 1) :
                   /\ k = 0 => p = bars[s].close
                   /\ Ends(s, "buy", n, k, p)
                   /\ todo' = todo \ {s}
                   /\ UNCHANGED <<pc, closed, bars, trades, entered>>
              \/ /\ Raises(s, "buy", n)
                 /\ Abort("raised")
                 /\ UNCHANGED <<trades, entered>>
  /\ UNCHANGED <<zone, seen, day, verdict, exited, realized>>

EntriesDone ==
  /\ pc = "entries" /\ todo = {}
  /\ Return
  /\ UNCHANGED <<zone, seen, session, broker>>

\* _flatten_all: the dictionary is cleared only after the last sale returned.
FlattenStep(s) ==
  /\ pc \in {"flatten", "end_flatten"} /\ s \in todo
  /\ LET t == trades[s]
     IN  \/ /\ SellBooks(s, t, DumpExit(t), t.entry)
            /\ todo' = todo \ {s}
            /\ UNCHANGED <<pc, closed, bars>>
         \/ /\ SellRaises(s, t, DumpExit(t))
            /\ Abort(IF pc = "flatten" THEN "raised" ELSE "over")
  /\ UNCHANGED <<zone, seen, day, verdict, entered>>

FlattenDone ==
  /\ pc \in {"flatten", "end_flatten"} /\ todo = {}
  /\ trades' = [s \in Symbols |-> NoTrade]
  /\ Abort(IF pc = "flatten" THEN "idle" ELSE "over")
  /\ UNCHANGED <<zone, seen, day, verdict, entered, exited, realized, broker>>

\* end_day: the loop of run.py calls it a minute after the close.
EndDayWithoutFlatten ==
  /\ pc \in {"idle", "raised"} /\ zone = "closed"
  /\ Visit("end_flatten", {})
  /\ UNCHANGED <<zone, seen, bars, session, broker>>
EndDay ==
  /\ pc \in {"idle", "raised"} /\ zone = "closed"
  /\ Visit("end_flatten", Open)
  /\ UNCHANGED <<zone, seen, bars, session, broker>>

\* The session object is dropped after end_day.
Over == pc = "over" /\ UNCHANGED vars

-----------------------------------------------------------------------------

Step(s) == ExitSkip(s) \/ ExitHold(s) \/ ExitSell(s) \/ EntrySkip(s) \/ Enter(s)
             \/ FlattenStep(s)

Finish == ExitsDone \/ LastExitsDone \/ EntriesDone \/ FlattenDone

Session == (\E s \in Symbols : Step(s)) \/ Finish \/ EndDay

Next ==
  \/ Tick
  \/ \E s \in Symbols, p \in Prices : LateFill(s, p)
  \/ \E s \in Symbols : LateEnd(s)
  \/ \E b \in [Symbols -> Candles \cup {NoBars}] : BeginCycle(b)
  \/ Session
  \/ Over

\* The thread of the session runs to the end of what it started, the loop of
\* run.py calls end_day once the close has passed, and time passes.
Fairness == WF_vars(Session) /\ WF_vars(Tick)

Spec == Init /\ [][Next]_vars /\ Fairness

-----------------------------------------------------------------------------
(* Properties *)

\* The counters tell the truth about trades whatever the broker does: every
\* trade entered is either counted as exited, once, or still has shares.  An
\* exception between two sales of a loop leaves sold trades in _open_trades
\* (session.py:449-455), and none of them may be counted again.
ExitAccounting == entered = exited + Cardinality(Live)

\* What the open trades cost.
Cost == [s \in Symbols |-> IF s \in Open THEN trades[s].entry * trades[s].remaining ELSE 0]

CostBasis == SumFunctionOnSet(Cost, Symbols)

Tracked(s) == IF s \in Open THEN trades[s].remaining ELSE 0

\* With a broker that fills what it is asked, the engine's view and the account
\* agree after every order: the shares it tracks are the shares held, and its
\* realized P/L is the money received and paid, the cost of what is open apart.
BooksMatchBroker ==
  /\ \A s \in Symbols : held[s] = Tracked(s)
  /\ realized = cash + CostBasis

\* Market-sell all remaining open positions, and at the end of the day force-close
\* any of them (session.py:216, 498): when the engine has sold its trades and
\* forgets them, the account holds no share of theirs.
FlattenSellsAll ==
  pc \in {"flatten", "end_flatten"} /\ todo = {} => \A s \in Open : held[s] <= 0

\* The account is never short: nothing the engine believes it still has is sold
\* twice (session.py:457-480).
NeverShort == \A s \in Symbols : held[s] >= 0

\* The halts of the day that order every position closed.
OrderedFlat ==
  \/ day.reason = "max_loss" /\ Cfg.flatten_on_max_loss
  \/ day.reason = "target" /\ Cfg.flatten_on_target
  \/ day.reason = "giveback"

\* A cycle that returns after such a halt leaves no open position: the halt
\* order is carried out, by that cycle or by a later one (circuit_breaker.py:53).
FlatWhenToldToFlatten == pc = "idle" /\ OrderedFlat => Live = {}

\* A cycle that starts in the last five minutes and returns leaves no open
\* position when force_close_at_close is set (session.py:202-205).
ForceCloseHonoured ==
  [][Cfg.force_close /\ seen = "near_close" /\ pc \in Running /\ pc' = "idle"
       => Live' = {}]_vars

\* Shares held or on order.
Exposure(s) == held[s] + working[s].buy

\* The account takes on shares only in a cycle that read a clock past the z-hour
\* and, if the close is forced, before the last five minutes, and on a day that
\* is not halted: twin orders, orders that end or raise, and loops left half done
\* make no other purchase (session.py:180-211).
BuysInTime ==
  [][(\E s \in Symbols : Exposure(s)' > Exposure(s)) =>
       /\ ~day.halted
       /\ seen = "open" \/ (seen = "near_close" /\ ~Cfg.force_close)]_vars

\* The engine is an implementation of the day of the circuit breakers: its
\* breaker state changes only by their checks, and it enters only while they
\* have not halted the day.  This is CB!Spec, written so that TLC looks for a
\* step of the day only when the session changes the day.
CB == INSTANCE CircuitBreaker
ImplementsCircuitBreaker ==
  CB!Init /\ [][CB!vars' # CB!vars => CB!Next]_(CB!vars)

\* P/L of the open trades at the closes of this cycle's bars.
MarkToMarket ==
  LET Priced == {s \in Open : bars[s] # NoBars}
  IN  SumFunctionOnSet(
        [s \in Priced |-> (bars[s].close - trades[s].entry) * trades[s].remaining], Priced)

\* The breakers let a cycle go on only when realized and unrealized P/L, at the
\* prices of this very cycle, is above the daily loss limit.
MaxLossSeesOpenLoss ==
  pc = "exits" /\ todo = Open /\ (\A s \in Open : bars[s] # NoBars) =>
    ~MaxLossHit([day EXCEPT !.realized = realized, !.unrealized = MarkToMarket],
                Cfg)

\* Every day ends: the loop reaches the close and end_day returns or raises,
\* however many orders fail.
DayCompletes == <>(pc = "over")

\* With a broker that fills what it is asked, a day ends with no share held.
DayEndsFlat == <>[](pc = "over" /\ \A s \in Symbols : held[s] = 0)
=============================================================================
