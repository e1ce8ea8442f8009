----------------------------- MODULE ScanService -----------------------------
(***************************************************************************)
(* The scans of a running bot: the scan loop's and the one the trading     *)
(* loop makes before its session (run.py), the symbols they look at one by *)
(* one in executor threads (scanner.py), the float cache they share        *)
(* (fundamentals.py), and the table of active tickers each replaces.       *)
(*                                                                         *)
(* Abstractions.  A scan visits the symbols in a fixed order.  A look-up   *)
(* of the float is two steps, the miss and the answer, and ends before the *)
(* clock moves on; a scan ends on its day.  The table can always be        *)
(* written (ControlPlane has the locks).  What the market data client      *)
(* returns is external.                                                    *)
(***************************************************************************)
EXTENDS Scanner

CONSTANTS N,          \* the symbols are 1..N
          Quotes,     \* what the market data of each symbol can be
          Floats,     \* what Finnhub can know of a symbol
          Cfg,        \* the ScannerConfig
          HasKey,     \* whether FINNHUB_API_KEY is set
          DayLength,  \* slots of a day
          Open,       \* the slot of the session's open
          Hours,      \* slots of a session
          Days,       \* bound of the model: days
          MaxScans    \* bound of the model: scans

ASSUME ScanAssumption ==
  /\ {N, Open, Hours, MaxScans} \subseteq Nat /\ {DayLength, Days} \subseteq Nat \ {0}
  /\ Floats \subseteq Nat /\ HasKey \in BOOLEAN
  /\ IsScannerConfig(Cfg)
  /\ Quotes \in [1..N -> SUBSET [bars : BOOLEAN, price : Nat, prev_close : Nat,
                                 volume : Nat, favor : Nat]]

Symbols == 1..N
Callers == {"loop", "session"}
NotAsked == -2   \* no entry in _CACHE

VARIABLES day, slot,   \* the clock
          pc, at,      \* of each caller's scan: where it is, and at what symbol
          begun,       \* the slot it began in
          quote,       \* what it was told of that symbol
          found,       \* the candidates so far
          cache,       \* _CACHE of this day
          lookups,     \* requests to Finnhub of this day
          rows,        \* active_tickers
          written,     \* the day of the data last written, 0 before
          ranked,      \* the ranking the day's session begins with
          scans        \* scans so far (bound)

clock == <<day, slot>>
float == <<cache, lookups>>
table == <<rows, written>>
scan == <<pc, at, begun, quote, found>>
vars == <<clock, scan, float, table, ranked, scans>>

TypeOK ==
  /\ day \in 1..Days /\ slot \in 0..(DayLength - 1)
  /\ pc \in [Callers -> {"idle", "next", "asking", "done", "ranking"}]
  /\ at \in [Callers -> 1..(N + 1)]
  /\ begun \in [Callers -> 0..(DayLength - 1)]
  /\ cache \in [Symbols -> Floats \cup {UnknownFloat, NotAsked}]
  /\ lookups \in [Symbols -> Nat]
  /\ \A r \in rows : r.symbol \in Symbols /\ r.active \in BOOLEAN /\ r.day \in 1..Days
  /\ \A r \in ranked : r.symbol \in Symbols /\ r.day \in 1..Days
  /\ written \in 0..Days /\ scans \in 0..MaxScans

NoQuote == [bars |-> FALSE, price |-> 0, prev_close |-> 0, volume |-> 0, favor |-> 0]

Init ==
  /\ day = 1 /\ slot = 0
  /\ pc = [c \in Callers |-> "idle"]
  /\ at = [c \in Callers |-> 1]
  /\ begun = [c \in Callers |-> 0]
  /\ quote = [c \in Callers |-> NoQuote]
  /\ found = [c \in Callers |-> << >>]
  /\ cache = [s \in Symbols |-> NotAsked]
  /\ lookups = [s \in Symbols |-> 0]
  /\ rows = {} /\ written = 0 /\ ranked = {} /\ scans = 0

-----------------------------------------------------------------------------

\* The key of the float cache has the day in it.
Tick ==
  /\ \A c \in Callers : pc[c] # "asking"
  /\ IF slot + 1 < DayLength
     THEN slot' = slot + 1 /\ UNCHANGED <<day, float, ranked>>
     ELSE /\ day < Days /\ \A c \in Callers : pc[c] = "idle"
          /\ day' = day + 1 /\ slot' = 0
          /\ cache' = [s \in Symbols |-> NotAsked]
          /\ lookups' = [s \in Symbols |-> 0]
          /\ ranked' = {}
  /\ UNCHANGED <<scan, table, scans>>

\* What a session is given to begin with: the active set of its own scan, or
\* the active rows if that is empty.
Ranking(active, stored) ==
  IF active # {} THEN active
  ELSE {[symbol |-> r.symbol, day |-> r.day] : r \in {q \in stored : q.active}}

\* The session's scan is made when the market is open.
MayScan(c) ==
  /\ pc[c] = "idle"
  /\ c = "session" => slot >= Open /\ slot < Open + Hours

Begin(c) ==
  /\ MayScan(c) /\ InWindow(slot, Open, Cfg)
  /\ scans < MaxScans
  /\ pc' = [pc EXCEPT ![c] = "next"] /\ at' = [at EXCEPT ![c] = 1]
  /\ begun' = [begun EXCEPT ![c] = slot]
  /\ found' = [found EXCEPT ![c] = << >>]
  /\ scans' = scans + 1
  /\ UNCHANGED <<clock, quote, float, table, ranked>>

\* Outside its window the scan is nothing; so is one whose calendar or assets
\* cannot be fetched.
NoScan ==
  /\ MayScan("session")
  /\ ranked' = Ranking({}, rows)
  /\ UNCHANGED <<clock, scan, float, table, scans>>

\* The evaluation of a symbol ends, with the news the callers pass: none.
Evaluated(c, passed, q, shares) ==
  LET elapsed == Elapsed(begun[c], Open, Hours)
      candidate == Candidate(at[c], q, shares, FALSE, Cfg)
  IN  /\ found' = IF passed /\ PassesRest(q, shares, FALSE, elapsed, Hours, Cfg)
                  THEN [found EXCEPT ![c] = Append(@, candidate)] ELSE found
      /\ at' = [at EXCEPT ![c] = @ + 1]
      /\ pc' = [pc EXCEPT ![c] = IF at[c] = N THEN "done" ELSE "next"]

\* A symbol is dropped by the first filters, or by an exception of theirs.
Drop(c, q) ==
  /\ pc[c] = "next"
  /\ ~PassesQuote(q, Cfg)
  /\ Evaluated(c, FALSE, q, UnknownFloat)
  /\ UNCHANGED <<clock, begun, quote, float, table, ranked, scans>>

\* The float is known, or cannot be asked for.
Hit(c, q) ==
  /\ pc[c] = "next"
  /\ PassesQuote(q, Cfg)
  /\ ~HasKey \/ cache[at[c]] # NotAsked
  /\ Evaluated(c, TRUE, q, IF HasKey THEN cache[at[c]] ELSE UnknownFloat)
  /\ UNCHANGED <<clock, begun, quote, float, table, ranked, scans>>

Miss(c, q) ==
  /\ pc[c] = "next"
  /\ PassesQuote(q, Cfg)
  /\ HasKey /\ cache[at[c]] = NotAsked
  /\ lookups' = [lookups EXCEPT ![at[c]] = @ + 1]
  /\ quote' = [quote EXCEPT ![c] = q]
  /\ pc' = [pc EXCEPT ![c] = "asking"]
  /\ UNCHANGED <<clock, at, begun, found, cache, table, ranked, scans>>

\* A failure is cached like an answer.
AnswerUncached(c, shares) ==
  /\ pc[c] = "asking"
  /\ cache' = [cache EXCEPT ![at[c]] = IF shares = UnknownFloat THEN @ ELSE shares]
  /\ Evaluated(c, TRUE, quote[c], shares)
  /\ quote' = [quote EXCEPT ![c] = NoQuote]
  /\ UNCHANGED <<clock, begun, lookups, table, ranked, scans>>
Answer(c, shares) ==
  /\ pc[c] = "asking"
  /\ cache' = [cache EXCEPT ![at[c]] = shares]
  /\ Evaluated(c, TRUE, quote[c], shares)
  /\ quote' = [quote EXCEPT ![c] = NoQuote]
  /\ UNCHANGED <<clock, begun, lookups, table, ranked, scans>>

\* What a scan of caller c is about to write.
Active(c) == ActiveSet(found[c], {}, {}, Cfg)
NewRows(c) ==
  {[symbol |-> s.symbol, active |-> s.symbol \in Active(c), day |-> day] :
     s \in ToSet(found[c])}

\* The locals of a call end with it.
Return(c) ==
  /\ pc' = [pc EXCEPT ![c] = "idle"] /\ at' = [at EXCEPT ![c] = 1]
  /\ begun' = [begun EXCEPT ![c] = 0] /\ found' = [found EXCEPT ![c] = << >>]
  /\ UNCHANGED <<clock, quote, float, scans>>

\* The coroutine replaces the table in one transaction, with no await in it.
\* The trading loop then reports to the relay before it goes on.
Written(c) ==
  /\ written' = day
  /\ IF c = "session"
     THEN pc' = [pc EXCEPT ![c] = "ranking"] /\ UNCHANGED <<clock, at, begun, quote, found, float, scans>>
     ELSE Return(c)
  /\ UNCHANGED ranked

WriteOver(c) ==
  /\ pc[c] = "done"
  /\ rows' = {r \in rows : \A s \in NewRows(c) : s.symbol # r.symbol} \cup NewRows(c)
  /\ Written(c)
Write(c) ==
  /\ pc[c] = "done"
  /\ rows' = NewRows(c)
  /\ Written(c)

Rank ==
  /\ pc["session"] = "ranking"
  /\ ranked' = Ranking({[symbol |-> s, day |-> day] :
                          s \in Active("session")}, rows)
  /\ Return("session")
  /\ UNCHANGED table

Next ==
  \/ Tick \/ NoScan \/ Rank
  \/ \E c \in Callers :
       \/ Begin(c) \/ Write(c)
       \/ at[c] \in Symbols /\ \E q \in Quotes[at[c]] : Drop(c, q) \/ Hit(c, q) \/ Miss(c, q)
       \/ \E shares \in Floats \cup {UnknownFloat} : Answer(c, shares)

Spec == Init /\ [][Next]_vars

-----------------------------------------------------------------------------
(* Properties *)

\* Finnhub is asked again for a symbol on the same day only while every earlier
\* request for it is on its way, by the other thread's scan: a failure is
\* remembered like an answer (fundamentals.py:79-101, cached once per day).
AskedOnce ==
  [][\A s \in Symbols : lookups'[s] > lookups[s] =>
       lookups[s] = Cardinality({c \in Callers : pc[c] = "asking" /\ at[c] = s})]_vars

\* A session that begins after a scan of its day has written the table ranks
\* no symbol that only an earlier day's scan had found, even when its own scan
\* found nothing or was outside its window and the stored rows are used
\* (run.py:773, run.py:812-817).
RankedFresh ==
  [][ranked' # ranked /\ written' = day => \A r \in ranked' : r.day = day]_vars

\* The active tickers of a scan are the tradable candidates that rose most, with
\* no slot left free for one whose float is unknown and excluded.  Movers
\* restrict the choice to themselves, but never empty it (scanner.py:272-303).
ActiveAreTheMovers ==
  \A c \in Callers, movers \in SUBSET Symbols : pc[c] = "done" =>
    LET tradable == {s \in ToSet(found[c]) : s.tradable}
        moving == {s \in tradable : s.symbol \in movers}
        pool == IF moving # {} THEN moving ELSE tradable
        top == {s \in ToSet(found[c]) : s.symbol \in ActiveSet(found[c], movers, {}, Cfg)}
    IN  /\ top \subseteq pool
        /\ Cardinality(top) = Min({Cfg.active_tickers_n, Cardinality(pool)})
        /\ \A s \in top, t \in pool \ top : s.pct_change >= t.pct_change

\* The indexes that only sets with i that are closed under alikeness hold.
Linked(states, alike, i) ==
  {j \in DOMAIN states : \A S \in SUBSET DOMAIN states :
     (i \in S /\ \A k \in S, l \in DOMAIN states :
        {states[k].symbol, states[l].symbol} \in alike => l \in S) => j \in S}

GroupsHaveRoles(states, alike) ==
  LET role == AssignRoles(states, alike)
  IN  \A i \in DOMAIN states :
        LET group == Linked(states, alike, i)
        IN  /\ (\E j \in group : role[j] = "leader") <=> Cardinality(group) > 1
            /\ role[i] = "leader" =>
                 \A j \in group \ {i} :
                   role[j] # "leader" /\ LeaderScore(states[i]) >= LeaderScore(states[j])
            /\ role[i] = "laggard" => states[i].has_news
            /\ role[i] = "standalone" /\ Cardinality(group) > 1 => ~states[i].has_news

\* Whatever symbols move alike and have news, each group linked by likeness has
\* one leader, which has the highest score of it; its laggards are the others
\* with news; and a symbol linked to no other is on its own
\* (leaders.py:26-80, a union-find in the order of the candidates).  It is
\* stated of the first scan; others find no other lists.
RolesAgree ==
  \A c \in Callers : pc[c] = "done" /\ scans = 1 =>
    \A alike \in SUBSET {e \in SUBSET Symbols : Cardinality(e) = 2},
       news \in SUBSET Symbols :
      GroupsHaveRoles([i \in DOMAIN found[c] |->
                         [found[c][i] EXCEPT !.has_news = found[c][i].symbol \in news]],
                      alike)
=============================================================================
