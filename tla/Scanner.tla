------------------------------- MODULE Scanner -------------------------------
(***************************************************************************)
(* The momentum scanner's computations (bot/src/bot/scanner): the window,  *)
(* the filters of one symbol, the leaders and laggards among the           *)
(* survivors, and the choice of the active tickers.                        *)
(*                                                                         *)
(* Abstractions.  Times count slots of the day, prices and shares are      *)
(* small numbers, thresholds are per cent.  Candle patterns, MACD and the  *)
(* score are left out: nothing is chosen by them but the leader, to whose  *)
(* score MACD adds `favor`.  Arithmetic is exact.                          *)
(***************************************************************************)
EXTENDS Integers, FiniteSets, Sequences, SequencesExt, FiniteSetsExt

UnknownFloat == -1   \* float_shares is None

\* What a ScannerConfig holds, with the settings' bounds.
IsScannerConfig(c) ==
  /\ c.min_price \in Nat /\ c.max_price \in Nat
  /\ c.gap_up_min_pct \in Nat /\ c.relative_volume_min \in Nat
  /\ c.max_float_shares \in Nat
  /\ c.include_unknown_float \in BOOLEAN /\ c.require_news \in BOOLEAN
  /\ c.pre_open_lead \in Nat /\ c.scan_duration \in Nat
  /\ c.active_tickers_n \in Nat

-----------------------------------------------------------------------------
(* The window *)

InWindow(slot, open, c) ==
  LET window_start == open - c.pre_open_lead
  IN  slot >= window_start /\ slot < window_start + c.scan_duration

\* The slots of the session that have passed, of `hours` that it has.
Elapsed(slot, open, hours) ==
  IF slot <= open THEN 0 ELSE Min({slot - open, hours})

-----------------------------------------------------------------------------
(* The filters *)

PassesPrice(price, c) == price >= c.min_price /\ price <= c.max_price

\* In per cent, rounded down; 0 without a previous close.
GapPct(price, prev_close) ==
  IF prev_close = 0 THEN 0 ELSE ((price - prev_close) * 100) \div prev_close

PassesGapUp(price, prev_close, c) ==
  prev_close # 0 /\ (price - prev_close) * 100 >= c.gap_up_min_pct * prev_close

\* Numerator and denominator of the daily volume that today's comes to.
AverageDailyVolume(volume, elapsed, hours) ==
  IF elapsed = 0 THEN <<volume, 1>> ELSE <<volume * hours, elapsed>>

\* The average is made of today's volume, so the quotient is 1 whenever there
\* is one.
PassesRvol(volume, elapsed, hours, c) ==
  LET average == AverageDailyVolume(volume, elapsed, hours)
      expected == <<average[1] * elapsed, average[2] * hours>>
  IN  IF expected[1] = 0
      THEN c.relative_volume_min = 0
      ELSE volume * expected[2] * 100 >= c.relative_volume_min * expected[1]

PassesFloat(shares, c) == shares = UnknownFloat \/ shares <= c.max_float_shares

PassesNews(has_news, c) == c.require_news => has_news

\* The filters before and after the look-up of the float.  Without bars there
\* is no price; `quote` says what the market data client returned.
PassesQuote(quote, c) ==
  /\ quote.bars
  /\ PassesPrice(quote.price, c)
  /\ PassesGapUp(quote.price, quote.prev_close, c)

PassesRest(quote, shares, has_news, elapsed, hours, c) ==
  /\ PassesFloat(shares, c)
  /\ PassesNews(has_news, c)
  /\ PassesRvol(quote.volume, elapsed, hours, c)

\* The TickerState of a survivor.
Candidate(symbol, quote, shares, has_news, c) ==
  [symbol |-> symbol, pct_change |-> GapPct(quote.price, quote.prev_close),
   favor |-> quote.favor, has_news |-> has_news,
   tradable |-> (shares # UnknownFloat \/ c.include_unknown_float)]

-----------------------------------------------------------------------------
(* Leaders and laggards *)

\* Whose signatures are alike is given: a set of pairs {s, t} of symbols, what
\* pattern_similarity and the threshold come to.

\* The root of i: find.  Its path halving changes no root and is left out.
Root(parent, i) ==
  LET up[j \in DOMAIN parent] == IF parent[j] = j THEN j ELSE up[parent[j]]
  IN  up[i]

UnionOfMembers(parent, i, j) == [parent EXCEPT ![i] = Root(parent, j)]
Union(parent, i, j) == [parent EXCEPT ![Root(parent, i)] = Root(parent, j)]

\* The inner loop: row i is joined with the later ones that are like it.
JoinRow(parent, states, alike, i) ==
  LET joined[j \in i..Len(states)] ==
        IF j = i THEN parent
        ELSE IF {states[i].symbol, states[j].symbol} \in alike
        THEN Union(joined[j - 1], i, j) ELSE joined[j - 1]
  IN  joined[Len(states)]

\* The outer loop.
Clusters(states, alike) ==
  LET rows[i \in 0..Len(states)] ==
        IF i = 0 THEN [k \in DOMAIN states |-> k]
        ELSE JoinRow(rows[i - 1], states, alike, i)
  IN  rows[Len(states)]

LeaderScore(s) == s.pct_change + s.favor

\* The role of every index of states; ties make the first the leader.
AssignRoles(states, alike) ==
  LET parent == Clusters(states, alike)
      members(i) == {j \in DOMAIN states : Root(parent, j) = Root(parent, i)}
      best(i) ==
        Min({j \in members(i) :
               \A k \in members(i) : LeaderScore(states[j]) >= LeaderScore(states[k])})
  IN  [i \in DOMAIN states |->
         IF Cardinality(members(i)) = 1 THEN "standalone"
         ELSE IF i = best(i) THEN "leader"
         ELSE IF states[i].has_news THEN "laggard" ELSE "standalone"]

-----------------------------------------------------------------------------
(* The active tickers *)

\* A list that is made from the candidates is the set of their indexes.
Tradable(candidates) == {i \in DOMAIN candidates : candidates[i].tradable}

\* The movers restrict the choice unless nothing would be left.
Pool(candidates, movers) ==
  LET both == {i \in Tradable(candidates) : candidates[i].symbol \in movers}
  IN  IF movers # {} /\ both # {} THEN both ELSE Tradable(candidates)

\* Sorted before i: the sort is stable.
Ahead(candidates, pool, i) ==
  {j \in pool : \/ candidates[j].pct_change > candidates[i].pct_change
                \/ candidates[j].pct_change = candidates[i].pct_change /\ j < i}

Top(candidates, pool, n) == {i \in pool : Cardinality(Ahead(candidates, pool, i)) < n}
TopN(candidates, pool, n) == {candidates[i].symbol : i \in Top(candidates, pool, n)}

\* An unknown float takes a slot, and is refused afterwards.
ActiveSetFilteredLast(candidates, movers, whitelist, c) ==
  (TopN(candidates, DOMAIN candidates, c.active_tickers_n)
     \cap {candidates[i].symbol : i \in Pool(candidates, movers)}) \cup whitelist
ActiveSet(candidates, movers, whitelist, c) ==
  TopN(candidates, Pool(candidates, movers), c.active_tickers_n) \cup whitelist
=============================================================================
