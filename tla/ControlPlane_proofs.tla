------------------------ MODULE ControlPlane_proofs ------------------------
(***************************************************************************)
(* The promises of the settings store, for any threads, any patches and    *)
(* any number of crashes and bad values: its types, a requested scan is on *)
(* record, what an accepted update wrote stays until another update        *)
(* replaces it, and no trade of a day risks more than the day may lose.    *)
(***************************************************************************)
EXTENDS ControlPlane, TLAPS

\* RequestKept is about the committed rows; a commit publishes the image of a
\* connection, so the image needs it too, and no update may write the row.
Recorded == unserved = TRUE => rows.scan = TRUE /\ image.scan = TRUE

Untouched == \A t \in Threads : req[t] # Idle => "scan" \notin DOMAIN req[t]

ReqFun == req = [t \in Threads |-> req[t]]

Inv ==
  /\ unserved \in BOOLEAN
  /\ "scan" \in DOMAIN rows /\ "scan" \in DOMAIN image
  /\ ReqFun /\ Untouched /\ Recorded

LEMMA ViewIsOne == ASSUME NEW c PROVE View(c) = rows \/ View(c) = image
BY DEF View

LEMMA InitInv == Init => Inv
<1> SUFFICES ASSUME Init PROVE Inv
  OBVIOUS
<1>1. "scan" \in DOMAIN rows
  BY RowsAssumption DEF Init, Rows
<1>2. ReqFun /\ Untouched
  BY DEF Init, ReqFun, Untouched
<1>3. unserved \in BOOLEAN /\ Recorded /\ image = rows
  BY DEF Init, Recorded
<1>4. QED
  BY <1>1, <1>2, <1>3 DEF Inv

\* What a request still has to write only shrinks.
LEMMA ReqStep ==
  ASSUME Inv, NEW t \in Threads, NEW r, req' = [req EXCEPT ![t] = r],
         r # Idle => "scan" \notin DOMAIN r
  PROVE  ReqFun' /\ Untouched'
<1>1. req' = [u \in Threads |-> IF u = t THEN r ELSE req[u]]
  BY DEF Inv, ReqFun
<1>2. QED
  BY <1>1 DEF Inv, ReqFun, Untouched

\* The end of the process: what is committed is all that is left.
LEMMA StopInv == ASSUME Inv, Stop PROVE Inv'
<1>1. ReqFun' /\ Untouched'
  BY DEF Stop, ReqFun, Untouched
<1>2. QED
  BY <1>1 DEF Stop, Inv, Recorded

LEMMA HandlerInv ==
  ASSUME Inv, NEW t \in Threads,
         \/ \E p \in Patches : Begin(t, p)
         \/ Proceed(t)
         \/ TriggerScan(t)
  PROVE  Inv'
<1>1. ASSUME NEW p \in Patches, Begin(t, p) PROVE Inv'
  <2>1. "scan" \notin DOMAIN Restrict(p, Written(p, View(Conn(t))))
    BY PatchesAssumption DEF Restrict, Written, Columns
  <2>2. ReqFun' /\ Untouched'
    BY <1>1, <2>1, ReqStep DEF Begin
  <2>3. QED
    BY <1>1, <2>2 DEF Begin, store, Inv, Recorded
<1>2. ASSUME NEW k \in DOMAIN rows, Write(t, k) PROVE Inv'
  <2>1. k # "scan"
    BY <1>2 DEF Write, Inv, Untouched
  <2>2. "scan" \notin DOMAIN Without(req[t], k)
    BY <1>2 DEF Write, Inv, Untouched, Without, Restrict
  <2>3. ReqFun' /\ Untouched'
    <3>1. req' = [req EXCEPT ![t] = Without(req[t], k)]
      BY <1>2 DEF Write
    <3>2. QED
      BY <3>1, <2>2, ReqStep
  <2>4. /\ "scan" \in DOMAIN View(Conn(t))
        /\ unserved = TRUE => View(Conn(t)).scan = TRUE
    BY ViewIsOne DEF Inv, Recorded
  <2>5. /\ "scan" \in DOMAIN image'
        /\ unserved = TRUE => image'.scan = TRUE
    <3> DEFINE v == View(Conn(t))
    <3>1. image' = [v EXCEPT ![k] = req[t][k]]
      BY <1>2 DEF Write
    <3> HIDE DEF v
    <3>2. DOMAIN image' = DOMAIN v
      BY <3>1
    <3>3. "scan" \in DOMAIN v => image'["scan"] = v["scan"]
      BY <3>1, <2>1
    <3>4. QED
      BY <2>4, <3>2, <3>3 DEF v
  <2>6. QED
    BY <1>2, <2>3, <2>5 DEF Write, Inv, Recorded
<1>3. CASE Fail(t)
  <2>1. ReqFun' /\ Untouched'
    BY <1>3, ReqStep DEF Fail
  <2>2. QED
    BY <1>3, <2>1 DEF Fail, store, Inv, Recorded
<1>4. CASE Commit(t)
  <2>1. ReqFun' /\ Untouched'
    BY <1>4, ReqStep DEF Commit
  <2>2. QED
    BY <1>4, <2>1 DEF Commit, Publish, store, Inv, Recorded
<1>5. CASE TriggerScan(t)
  <2>1. "scan" \in DOMAIN View(Conn(t))
    BY ViewIsOne DEF Inv
  <2>2. /\ rows' = [View(Conn(t)) EXCEPT !.scan = TRUE]
        /\ image' = rows' /\ unserved' = TRUE /\ req' = req
    BY <1>5 DEF TriggerScan, Publish
  <2>3. "scan" \in DOMAIN rows' /\ rows'.scan = TRUE
    BY <2>1, <2>2
  <2>4. ReqFun' /\ Untouched'
    BY <2>2 DEF Inv, ReqFun, Untouched
  <2>5. QED
    BY <2>2, <2>3, <2>4 DEF Inv, Recorded
<1>6. QED
  BY <1>1, <1>2, <1>3, <1>4, <1>5 DEF Proceed

LEMMA LoopInv ==
  ASSUME Inv,
         \/ ScanBegins \/ ScanLocked \/ ScanEnds \/ PersistOrders \/ StartDay
         \/ Crash \/ Restart
  PROVE  Inv'
<1>1. CASE ScanBegins
  <2>1. "scan" \in DOMAIN View("main")
    BY ViewIsOne DEF Inv
  <2>2. /\ rows' = [View("main") EXCEPT !.scan = FALSE]
        /\ image' = rows' /\ unserved' = FALSE /\ req' = req
    BY <1>1 DEF ScanBegins, Publish
  <2>3. "scan" \in DOMAIN rows'
    BY <2>1, <2>2
  <2>4. ReqFun' /\ Untouched'
    BY <2>2 DEF Inv, ReqFun, Untouched
  <2>5. QED
    BY <2>2, <2>3, <2>4 DEF Inv, Recorded
<1>2. CASE ScanLocked \/ Crash
  BY <1>2, StopInv DEF ScanLocked, Crash
<1>3. CASE ScanEnds \/ PersistOrders
  BY <1>3 DEF ScanEnds, PersistOrders, Publish, store, Inv, ReqFun, Untouched, Recorded
<1>4. CASE StartDay \/ Restart
  BY <1>4 DEF StartDay, Restart, store, Inv, ReqFun, Untouched, Recorded
<1>5. QED
  BY <1>1, <1>2, <1>3, <1>4

LEMMA NextInv == Inv /\ [Next]_vars => Inv'
<1> SUFFICES ASSUME Inv, [Next]_vars PROVE Inv'
  OBVIOUS
<1>1. CASE UNCHANGED vars
  BY <1>1 DEF vars, store, Inv, ReqFun, Untouched, Recorded
<1>2. CASE Next
  BY <1>2, HandlerInv, LoopInv DEF Next
<1>3. QED
  BY <1>1, <1>2

-----------------------------------------------------------------------------
(* Types *)

ReqTyped ==
  \A t \in Threads : req[t] # Idle =>
    \A k \in DOMAIN req[t] :
      k \in DOMAIN Columns /\ (req[t][k] = Bad \/ req[t][k] \in Columns[k])

CfgTyped ==
  cfg # NoCfg => /\ cfg.max_loss_pct \in Int /\ cfg.risk_per_trade_pct \in Int
                 /\ cfg.override_risk \in BOOLEAN

StoreTyped == rows \in Rows /\ image \in Rows /\ writer \in {"main", "local", NoConn}

RestTyped ==
  /\ up \in BOOLEAN /\ scanning \in BOOLEAN /\ unserved \in BOOLEAN
  /\ faults \in 0..MaxFaults

HistoryTyped ==
  /\ DOMAIN wrote = Threads /\ DOMAIN promised \subseteq DOMAIN Columns
  /\ \A t \in Threads : DOMAIN wrote[t] \subseteq DOMAIN Columns

LEMMA TypesByPart ==
  TypeOK <=> ReqTyped /\ CfgTyped /\ StoreTyped /\ RestTyped /\ HistoryTyped
BY DEF TypeOK, ReqTyped, CfgTyped, StoreTyped, RestTyped, HistoryTyped

\* Only a write adds to the history, and only the row it writes.
LEMMA HistoryStep ==
  ASSUME Inv, ReqTyped, HistoryTyped, [Next]_vars PROVE HistoryTyped'
<1>1. CASE UNCHANGED history
  BY <1>1 DEF history, HistoryTyped
<1>2. ASSUME NEW t \in Threads, NEW k \in DOMAIN rows, Write(t, k) PROVE HistoryTyped'
  <2>1. k \in DOMAIN Columns
    BY <1>2 DEF Write, ReqTyped
  <2>2. /\ wrote' = [u \in Threads |-> IF u = t THEN Over([j \in {k} |-> req[t][k]], wrote[t])
                                       ELSE Without(wrote[u], k)]
        /\ promised' = Without(promised, k)
    BY <1>2 DEF Write
  <2>3. \A f : DOMAIN Without(f, k) \subseteq DOMAIN f
    BY DEF Without, Restrict
  <2> DEFINE o == Over([j \in {k} |-> req[t][k]], wrote[t])
  <2>4. DOMAIN o = {k} \cup DOMAIN wrote[t]
    BY DEF Over
  <2>5. \A u \in Threads : wrote'[u] = IF u = t THEN o ELSE Without(wrote[u], k)
    BY <2>2
  <2> HIDE DEF o
  <2>6. \A u \in Threads : DOMAIN wrote'[u] \subseteq DOMAIN Columns
    BY <2>1, <2>3, <2>4, <2>5 DEF HistoryTyped
  <2>7. DOMAIN wrote' = Threads /\ DOMAIN promised' \subseteq DOMAIN Columns
    BY <2>2, <2>3 DEF HistoryTyped
  <2>8. QED
    BY <2>6, <2>7 DEF HistoryTyped
<1>3. ASSUME NEW t \in Threads, Fail(t) \/ Commit(t) PROVE HistoryTyped'
  <2>1. wrote' = [wrote EXCEPT ![t] = << >>] /\ DOMAIN << >> = {}
    BY <1>3 DEF Fail, Commit
  <2>2. \/ promised' = promised
        \/ promised' = Over(wrote[t], promised)
    BY <1>3 DEF Fail, Commit
  <2>3. DOMAIN (Over(wrote[t], promised)) = DOMAIN wrote[t] \cup DOMAIN promised
    BY DEF Over
  <2>4. QED
    BY <2>1, <2>2, <2>3 DEF HistoryTyped
<1>4. CASE Stop
  BY <1>4 DEF Stop, HistoryTyped
<1>5. QED
  BY <1>1, <1>2, <1>3, <1>4
     DEF Next, Proceed, Begin, TriggerScan, ScanBegins, ScanLocked, ScanEnds,
         PersistOrders, StartDay, Crash, Restart, vars

\* A written value keeps the type of its row.
LEMMA RowsSet ==
  ASSUME NEW v \in Rows, NEW k \in DOMAIN Columns, NEW x \in Columns[k]
  PROVE  [v EXCEPT ![k] = x] \in Rows
<1> USE DEF Rows, Columns, Optional
<1>1. k \in {"max_loss", "daily_risk", "override", "legacy_override", "risk",
            "target", "paper"}
  OBVIOUS
<1>2. CASE k = "max_loss"
  BY <1>2
<1>3. CASE k = "daily_risk"
  BY <1>3
<1>4. CASE k = "override"
  BY <1>4
<1>5. CASE k = "legacy_override"
  BY <1>5
<1>6. CASE k = "risk"
  BY <1>6
<1>7. CASE k = "target"
  BY <1>7
<1>8. CASE k = "paper"
  BY <1>8
<1>9. QED
  BY <1>1, <1>2, <1>3, <1>4, <1>5, <1>6, <1>7, <1>8

LEMMA ScanSet == ASSUME NEW v \in Rows, NEW b \in BOOLEAN PROVE [v EXCEPT !.scan = b] \in Rows
BY DEF Rows

LEMMA ViewTyped == ASSUME StoreTyped, NEW c PROVE View(c) \in Rows
BY DEF StoreTyped, View

\* What a request has still to write is a part of a patch, or of what it had.
LEMMA ReqTypedStep ==
  ASSUME Inv, ReqTyped, NEW t \in Threads, NEW r, req' = [req EXCEPT ![t] = r],
         r # Idle => \A k \in DOMAIN r :
           k \in DOMAIN Columns /\ (r[k] = Bad \/ r[k] \in Columns[k])
  PROVE  ReqTyped'
<1>1. req' = [u \in Threads |-> IF u = t THEN r ELSE req[u]]
  BY DEF Inv, ReqFun
<1>2. QED
  BY <1>1 DEF ReqTyped

\* The configuration of a day reads numbers and truth values from any table.
LEMMA ExecutionConfigTyped ==
  ASSUME NEW v \in Rows
  PROVE  LET c == ExecutionConfig(v)
         IN  /\ c.max_loss_pct \in Int /\ c.risk_per_trade_pct \in Int
             /\ c.override_risk \in BOOLEAN
<1>1. /\ v.max_loss # NoRow => v.max_loss \in Int
      /\ v.override # NoRow => v.override \in BOOLEAN
      /\ v.risk \in Int
  BY DEF Rows, Optional
<1> DEFINE loss == IF v.max_loss = NoRow THEN 5 ELSE v.max_loss
           over == IF v.override = NoRow THEN FALSE ELSE v.override
<1>2. loss \in Int
  BY <1>1
<1>3. over \in BOOLEAN
  BY <1>1
<1>4. ExecutionConfig(v) =
        [BaseCfg EXCEPT !.max_loss_pct = loss, !.override_risk = over,
                        !.risk_per_trade_pct = v.risk, !.target_pct = v.target]
  BY DEF ExecutionConfig
<1> HIDE DEF loss, over
<1>5. /\ ExecutionConfig(v).max_loss_pct = loss
      /\ ExecutionConfig(v).override_risk = over
      /\ ExecutionConfig(v).risk_per_trade_pct = v.risk
  BY <1>4, BaseCfgAssumption
<1>6. QED
  BY <1>1, <1>2, <1>3, <1>5

LEMMA InitTyped == Init => TypeOK
<1> SUFFICES ASSUME Init PROVE TypeOK
  OBVIOUS
<1>1. StoreTyped
  BY RowsAssumption DEF Init, StoreTyped
<1>2. ReqTyped /\ CfgTyped
  BY DEF Init, ReqTyped, CfgTyped
<1>3. RestTyped
  <2>1. faults \in 0..MaxFaults
    BY FaultsAssumption DEF Init
  <2>2. up \in BOOLEAN /\ scanning \in BOOLEAN /\ unserved \in BOOLEAN
    BY DEF Init
  <2>3. QED
    BY <2>1, <2>2 DEF RestTyped
<1>4. HistoryTyped
  BY DEF Init, HistoryTyped
<1>5. QED
  BY <1>1, <1>2, <1>3, <1>4, TypesByPart

LEMMA StopTyped ==
  ASSUME StoreTyped, unserved \in BOOLEAN, Stop
  PROVE  /\ ReqTyped' /\ CfgTyped' /\ StoreTyped'
         /\ up' \in BOOLEAN /\ scanning' \in BOOLEAN /\ unserved' \in BOOLEAN
<1>1. ReqTyped' /\ CfgTyped'
  BY DEF Stop, ReqTyped, CfgTyped
<1>2. StoreTyped'
  BY DEF Stop, StoreTyped
<1>3. QED
  BY <1>1, <1>2 DEF Stop

LEMMA HandlerTyped ==
  ASSUME Inv, ReqTyped, CfgTyped, StoreTyped, RestTyped, NEW t \in Threads,
         \/ \E p \in Patches : Begin(t, p)
         \/ Proceed(t)
         \/ TriggerScan(t)
  PROVE  ReqTyped' /\ CfgTyped' /\ StoreTyped' /\ RestTyped'
<1>1. ASSUME NEW p \in Patches, Begin(t, p)
      PROVE  ReqTyped' /\ CfgTyped' /\ StoreTyped' /\ RestTyped'
  <2> DEFINE S == Written(p, View(Conn(t)))
  <2>1. \A k \in S : k \in DOMAIN p \ Unwritten
    BY DEF Written
  <2> HIDE DEF S
  <2>2. \A k \in DOMAIN Restrict(p, S) :
          k \in S /\ Restrict(p, S)[k] = p[k]
    BY DEF Restrict
  <2>3. ReqTyped'
    <3>1. \A k \in DOMAIN Restrict(p, S) :
            k \in DOMAIN Columns /\ (Restrict(p, S)[k] = Bad \/ Restrict(p, S)[k] \in Columns[k])
      BY <2>1, <2>2, PatchesAssumption
    <3>2. req' = [req EXCEPT ![t] = Restrict(p, S)]
      BY <1>1 DEF Begin, S
    <3>3. QED
      BY <3>1, <3>2, ReqTypedStep
  <2>4. StoreTyped' /\ CfgTyped'
    BY <1>1 DEF Begin, store, StoreTyped, CfgTyped
  <2>5. RestTyped'
    BY <1>1, FaultsAssumption DEF Begin, RestTyped
  <2>6. QED
    BY <2>3, <2>4, <2>5
<1>2. ASSUME NEW k \in DOMAIN rows, Write(t, k)
      PROVE  ReqTyped' /\ CfgTyped' /\ StoreTyped' /\ RestTyped'
  <2> DEFINE r == req[t]  x == req[t][k]
  <2>1. k \in DOMAIN Columns /\ x \in Columns[k]
    BY <1>2 DEF Write, ReqTyped
  <2>2. image' \in Rows
    <3> DEFINE v == View(Conn(t))
    <3>1. v \in Rows
      BY ViewTyped
    <3>2. image' = [v EXCEPT ![k] = x]
      BY <1>2 DEF Write
    <3> HIDE DEF v, x
    <3>3. QED
      BY <2>1, <3>1, <3>2, RowsSet
  <2>3. StoreTyped'
    BY <1>2, <2>2 DEF Write, StoreTyped, Conn
  <2>4. ReqTyped'
    <3> DEFINE q == Without(r, k)
    <3>1. req' = [req EXCEPT ![t] = q]
      BY <1>2 DEF Write
    <3>2. \A j \in DOMAIN q : j \in DOMAIN r /\ q[j] = r[j]
      BY DEF Without, Restrict
    <3>3. r # Idle
      BY <1>2 DEF Write
    <3>4. \A j \in DOMAIN r : j \in DOMAIN Columns /\ (r[j] = Bad \/ r[j] \in Columns[j])
      BY <3>3 DEF ReqTyped
    <3> HIDE DEF q, r
    <3>5. \A j \in DOMAIN q : j \in DOMAIN Columns /\ (q[j] = Bad \/ q[j] \in Columns[j])
      BY <3>2, <3>4
    <3>6. QED
      BY <3>1, <3>5, ReqTypedStep
  <2>5. QED
    BY <1>2, <2>3, <2>4 DEF Write, CfgTyped, RestTyped
<1>3. CASE Fail(t) \/ Commit(t)
  <2>1. req' = [req EXCEPT ![t] = Idle]
    BY <1>3 DEF Fail, Commit
  <2>2. ReqTyped'
    BY <2>1, ReqTypedStep
  <2>3. StoreTyped'
    BY <1>3 DEF Fail, Commit, Publish, store, StoreTyped
  <2>4. QED
    BY <1>3, <2>2, <2>3 DEF Fail, Commit, CfgTyped, RestTyped
<1>4. CASE TriggerScan(t)
  <2>1. [View(Conn(t)) EXCEPT !.scan = TRUE] \in Rows
    BY ViewTyped, ScanSet
  <2>2. StoreTyped'
    BY <1>4, <2>1 DEF TriggerScan, Publish, StoreTyped
  <2>3. QED
    BY <1>4, <2>2 DEF TriggerScan, ReqTyped, CfgTyped, RestTyped
<1>5. QED
  BY <1>1, <1>2, <1>3, <1>4 DEF Proceed

LEMMA LoopTyped ==
  ASSUME ReqTyped, CfgTyped, StoreTyped, RestTyped,
         \/ ScanBegins \/ ScanLocked \/ ScanEnds \/ PersistOrders \/ StartDay
         \/ Crash \/ Restart
  PROVE  ReqTyped' /\ CfgTyped' /\ StoreTyped' /\ RestTyped'
<1>1. CASE ScanBegins
  <2>1. [View("main") EXCEPT !.scan = FALSE] \in Rows
    BY ViewTyped, ScanSet
  <2>2. StoreTyped'
    BY <1>1, <2>1 DEF ScanBegins, Publish, StoreTyped
  <2>3. QED
    BY <1>1, <2>2 DEF ScanBegins, ReqTyped, CfgTyped, RestTyped
<1>2. CASE ScanLocked \/ Crash
  <2>1. Stop /\ faults' \in 0..MaxFaults
    BY <1>2, FaultsAssumption DEF ScanLocked, Crash, RestTyped
  <2>2. QED
    BY <2>1, StopTyped DEF RestTyped
<1>3. CASE ScanEnds
  <2>1. StoreTyped'
    BY <1>3 DEF ScanEnds, Publish, store, StoreTyped
  <2>2. QED
    BY <1>3, <2>1 DEF ScanEnds, ReqTyped, CfgTyped, RestTyped
<1>4. CASE PersistOrders
  BY <1>4 DEF PersistOrders, Publish, ReqTyped, CfgTyped, StoreTyped, RestTyped
<1>5. CASE StartDay
  <2>1. CfgTyped'
    <3> DEFINE v == View("main")
    <3>1. v \in Rows /\ cfg' = ExecutionConfig(v)
      BY <1>5, ViewTyped DEF StartDay
    <3> HIDE DEF v
    <3>2. QED
      BY <3>1, ExecutionConfigTyped DEF CfgTyped
  <2>2. QED
    BY <1>5, <2>1 DEF StartDay, store, ReqTyped, StoreTyped, RestTyped
<1>6. CASE Restart
  BY <1>6 DEF Restart, store, ReqTyped, CfgTyped, StoreTyped, RestTyped
<1>7. QED
  BY <1>1, <1>2, <1>3, <1>4, <1>5, <1>6

LEMMA NextTyped == TypeOK /\ Inv /\ [Next]_vars => TypeOK'
<1> SUFFICES ASSUME ReqTyped, CfgTyped, StoreTyped, RestTyped, HistoryTyped, Inv,
                    [Next]_vars
             PROVE  ReqTyped' /\ CfgTyped' /\ StoreTyped' /\ RestTyped'
  BY TypesByPart, HistoryStep, PTL
<1>1. CASE UNCHANGED vars
  BY <1>1 DEF vars, store, ReqTyped, CfgTyped, StoreTyped, RestTyped
<1>2. CASE Next
  BY <1>2, HandlerTyped, LoopTyped DEF Next
<1>3. QED
  BY <1>1, <1>2

-----------------------------------------------------------------------------
(* Accepted updates *)

\* What a running request has written is what its connection sees, and is
\* committed unless that connection still holds the write lock; what was promised
\* is what everybody sees.
Kept ==
  /\ writer = NoConn => image = rows
  /\ \A t \in Threads : \A k \in DOMAIN wrote[t] :
       /\ image[k] = wrote[t][k]
       /\ writer # Conn(t) => rows[k] = wrote[t][k]
  /\ \A k \in DOMAIN promised : image[k] = promised[k] /\ rows[k] = promised[k]

LEMMA ConnIsOne == \A t : Conn(t) \in {"main", "local"} /\ Conn(t) # NoConn
BY NoConnAssumption DEF Conn

\* Whoever may write sees the image.
LEMMA WriterView == ASSUME Kept, NEW c, CanWrite(c) PROVE View(c) = image
BY DEF Kept, CanWrite, View

LEMMA RowsDomain ==
  ASSUME NEW v \in Rows
  PROVE  /\ DOMAIN Columns \subseteq DOMAIN v /\ "scan" \notin DOMAIN Columns
         /\ \A b, k : k \in DOMAIN Columns => [v EXCEPT !.scan = b][k] = v[k]
BY DEF Rows, Columns

\* A commit of what everybody who may write sees, up to the row of the scan
\* request.
LEMMA PublishKept ==
  ASSUME Kept, HistoryTyped, NEW v, Publish(v), UNCHANGED history,
         \A k \in DOMAIN Columns : v[k] = image[k]
  PROVE  Kept'
<1>1. rows' = v /\ image' = v /\ writer' = NoConn /\ wrote' = wrote /\ promised' = promised
  BY DEF Publish, history
<1>2. QED
  BY <1>1 DEF Kept, HistoryTyped

LEMMA WriteKept ==
  ASSUME Kept, StoreTyped, ReqTyped, HistoryTyped,
         NEW t \in Threads, NEW k \in DOMAIN rows, Write(t, k)
  PROVE  Kept'
<1> DEFINE x == req[t][k]
<1>1. /\ writer \in {Conn(t), NoConn} /\ writer' = Conn(t) /\ rows' = rows
      /\ image' = [image EXCEPT ![k] = x]
  <2>1. CanWrite(Conn(t))
    BY DEF Write
  <2>2. View(Conn(t)) = image
    BY <2>1, WriterView
  <2>3. QED
    BY <2>1, <2>2 DEF Write, CanWrite
<1>2. /\ wrote' = [u \in Threads |-> IF u = t THEN Over([j \in {k} |-> x], wrote[t])
                                     ELSE Without(wrote[u], k)]
      /\ promised' = Without(promised, k)
  BY DEF Write
<1>3. k \in DOMAIN image
  BY RowsDomain DEF Write, ReqTyped, StoreTyped
<1> HIDE DEF x
<1>4. image'[k] = x /\ \A j : j # k => (j \in DOMAIN image => image'[j] = image[j])
  BY <1>1, <1>3
<1>5. \A f, j : j \in DOMAIN Without(f, k) =>
                  j # k /\ j \in DOMAIN f /\ Without(f, k)[j] = f[j]
  BY DEF Without, Restrict
<1>6. \A f : LET o == Over([i \in {k} |-> x], f)
             IN  \A j \in DOMAIN o : IF j = k THEN o[j] = x
                                    ELSE j \in DOMAIN f /\ o[j] = f[j]
  BY DEF Over
<1>7. DOMAIN Columns \subseteq DOMAIN image
  BY RowsDomain DEF StoreTyped
<1>8. ASSUME NEW u \in Threads, NEW j \in DOMAIN wrote'[u]
      PROVE  image'[j] = wrote'[u][j] /\ (writer' # Conn(u) => rows'[j] = wrote'[u][j])
  <2>1. CASE u = t
    BY <1>1, <1>2, <1>4, <1>6, <1>7, <2>1 DEF Kept, HistoryTyped
  <2>2. CASE u # t
    <3>1. wrote'[u] = Without(wrote[u], k)
      BY <1>2, <2>2
    <3>2. j # k /\ j \in DOMAIN wrote[u] /\ wrote'[u][j] = wrote[u][j]
      BY <1>5, <1>8, <3>1
    <3>3. image'[j] = wrote'[u][j]
      BY <1>4, <1>7, <3>2 DEF Kept, HistoryTyped
    <3>4. QED
      BY <1>1, <3>2, <3>3, ConnIsOne DEF Kept
  <2>3. QED
    BY <2>1, <2>2
<1>9. ASSUME NEW j \in DOMAIN promised'
      PROVE  image'[j] = promised'[j] /\ rows'[j] = promised'[j]
  BY <1>1, <1>2, <1>4, <1>5, <1>7, <1>9 DEF Kept, HistoryTyped
<1>10. QED
  BY <1>1, <1>8, <1>9, ConnIsOne DEF Kept

\* A request that fails leaves the store as it is, with what others wrote.
LEMMA FailKept ==
  ASSUME Kept, HistoryTyped, NEW t \in Threads, Fail(t) PROVE Kept'
<1>1. UNCHANGED <<rows, image, writer, promised>> /\ wrote' = [wrote EXCEPT ![t] = << >>]
  BY DEF Fail, store
<1>2. \A u \in Threads : wrote'[u] = IF u = t THEN << >> ELSE wrote[u]
  BY <1>1 DEF HistoryTyped
<1>3. QED
  BY <1>1, <1>2 DEF Kept

\* A request that is accepted has its writes in the database, by its own commit
\* or by one that another thread of the connection made before.
LEMMA CommitKept ==
  ASSUME Kept, HistoryTyped, NEW t \in Threads, Commit(t) PROVE Kept'
<1>1. wrote' = [wrote EXCEPT ![t] = << >>] /\ promised' = Over(wrote[t], promised)
  BY DEF Commit
<1>2. \A u \in Threads : wrote'[u] = IF u = t THEN << >> ELSE wrote[u]
  BY <1>1 DEF HistoryTyped
<1>3. \A j \in DOMAIN promised' :
        \/ j \in DOMAIN wrote[t] /\ promised'[j] = wrote[t][j]
        \/ j \in DOMAIN promised /\ promised'[j] = promised[j]
  BY <1>1 DEF Over
<1>4. CASE writer = Conn(t)
  <2>1. rows' = image /\ image' = image /\ writer' = NoConn
    BY <1>4 DEF Commit, Publish
  <2>2. QED
    BY <1>2, <1>3, <2>1 DEF Kept
<1>5. CASE writer # Conn(t)
  <2>1. rows' = rows /\ image' = image /\ writer' = writer
    BY <1>5 DEF Commit, store
  <2>2. QED
    BY <1>2, <1>3, <1>5, <2>1 DEF Kept
<1>6. QED
  BY <1>4, <1>5

LEMMA NextKept ==
  ASSUME Kept, StoreTyped, ReqTyped, HistoryTyped, [Next]_vars PROVE Kept'
<1>1. CASE UNCHANGED <<store, history>>
  BY <1>1 DEF store, history, Kept
<1>2. ASSUME NEW t \in Threads, Proceed(t) PROVE Kept'
  BY <1>2, WriteKept, FailKept, CommitKept DEF Proceed
<1>3. ASSUME NEW t \in Threads, TriggerScan(t) PROVE Kept'
  <2> DEFINE v == [View(Conn(t)) EXCEPT !.scan = TRUE]
  <2>1. Publish(v) /\ UNCHANGED history
    BY <1>3 DEF TriggerScan
  <2>2. \A k \in DOMAIN Columns : v[k] = image[k]
    BY <1>3, WriterView, RowsDomain DEF TriggerScan, StoreTyped
  <2>3. QED
    BY <2>1, <2>2, PublishKept
<1>4. CASE ScanBegins
  <2> DEFINE v == [View("main") EXCEPT !.scan = FALSE]
  <2>1. Publish(v) /\ UNCHANGED history
    BY <1>4 DEF ScanBegins
  <2>2. \A k \in DOMAIN Columns : v[k] = image[k]
    BY <1>4, WriterView, RowsDomain DEF ScanBegins, StoreTyped
  <2>3. QED
    BY <2>1, <2>2, PublishKept
<1>5. CASE ScanEnds \/ PersistOrders
  BY <1>1, <1>5, PublishKept DEF ScanEnds, PersistOrders
<1>6. CASE Stop
  BY <1>6 DEF Stop, Kept
<1>7. QED
  BY <1>1, <1>2, <1>3, <1>4, <1>5, <1>6
     DEF Next, Begin, ScanLocked, StartDay, Crash, Restart, vars

-----------------------------------------------------------------------------
(* The theorems *)

THEOREM Invariance == Spec => []Inv
BY InitInv, NextInv, PTL DEF Spec

\* Each row keeps its type whatever the handlers write and fail to write, and the
\* configuration of a day is made of numbers and truth values even where a row
\* is absent (handlers.py:414-432, run.py:823-838).
THEOREM TypeCorrect == Spec => []TypeOK
BY InitTyped, NextTyped, Invariance, PTL DEF Spec

\* However the updates of several clients interleave, the risk of a trade is
\* clamped to the loss of the day by the time it is read (config.py:63-68).
THEOREM NoTradeRisksTheDay == Spec => []TradeRiskWithinDay
<1>1. CfgTyped => TradeRiskWithinDay
  <2> SUFFICES ASSUME CfgTyped, cfg # NoCfg
               PROVE  EffectiveRisk(cfg) <= Magnitude(cfg.max_loss_pct)
    BY DEF TradeRiskWithinDay
  <2>1. cfg.risk_per_trade_pct \in Int /\ Magnitude(cfg.max_loss_pct) \in Int
    BY DEF CfgTyped, Magnitude
  <2>2. QED
    BY <2>1 DEF EffectiveRisk
<1>2. TypeOK => CfgTyped
  BY TypesByPart
<1>3. QED
  BY <1>1, <1>2, TypeCorrect, PTL

\* A scan request that was accepted is in the database until a scan begins,
\* through any updates, failures and restarts (handlers.py:493-502, run.py:483).
THEOREM RequestsAreOnRecord == Spec => []RequestKept
<1>1. Inv => RequestKept
  BY DEF Inv, Recorded, RequestKept
<1>2. QED
  BY <1>1, Invariance, PTL

\* What an accepted update wrote stays in the database until another update
\* writes the row, whatever the other threads of its connection do, whatever fails
\* and whenever the process ends (handlers.py:416-434, local_api.py:46).
THEOREM AcceptedUpdatesAreKept == Spec => []AcceptedIsKept
<1>1. Init => Kept
  BY DEF Init, Kept
<1>2. TypeOK /\ Kept /\ [Next]_vars => Kept'
  BY NextKept, TypesByPart
<1>3. Kept => AcceptedIsKept
  BY DEF Kept, AcceptedIsKept
<1>4. QED
  BY <1>1, <1>2, <1>3, TypeCorrect, PTL DEF Spec
=============================================================================
