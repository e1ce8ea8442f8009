------------------------------- MODULE Relay -------------------------------
(***************************************************************************)
(* The relay between bots and web clients: relay/src/server.ts with        *)
(* relay/src/routing.ts.                                                   *)
(*                                                                         *)
(* The server is one event loop.  An event handler is one action, except   *)
(* handleRegister, which awaits the licence server and is two; what        *)
(* happens to the socket in between is not undone.  A socket is open, then *)
(* closing once the relay called close() or terminate() (messages already  *)
(* on the wire are still delivered), then closed when its close event ran. *)
(*                                                                         *)
(* Abstractions.  Bots are honest: one register per connection, and        *)
(* answers only to the requests they received.  A licence check says yes   *)
(* or no, and a yes names the account of the connection.  Call ids are     *)
(* unique (web/src/lib/relay-client.ts makes UUIDs).  Logs and state       *)
(* updates change nothing in the relay and are left out; who would receive *)
(* them is `subs`.  Rate limiting is a message that may be dropped.        *)
(***************************************************************************)
EXTENDS FiniteSets

CONSTANTS Conns,     \* connections of bots, each used once
          Bots, Accounts,
          Clients,   \* connections of web clients, each used once
          Requests,  \* ids of rpc_request frames, each used once
          NoBot, NoCall, NoOne

ASSUME NothingAssumption ==
  NoBot \notin Bots /\ NoOne \notin Accounts

\* What a connection registers as.
Identities == [bot : Bots, account : Accounts]

Records == [ws : Conns, account : Accounts]

Calls == [client : Clients, bot : Bots, ws : Conns]

ASSUME AbsenceAssumption ==
  NoBot \notin Records /\ NoCall \notin Calls /\ NoOne \notin Identities

VARIABLES ws,          \* readyState of each bot connection
          who,         \* the identity it was opened with
          reg,         \* registration: "new", "validating", "done"
          regTimer,    \* connections whose registration timeout is armed
          lost,        \* connections whose peer is gone without a close
          bots,        \* routing.bots: bot_id -> BotRecord
          accountBots, \* routing.accountBots
          wsToBotId,   \* server.wsToBotId
          web,         \* the account of each open web client
          subscribed,  \* the subscribedBots of each web client
          subs,        \* routing.botSubscribers
          call,        \* the calls taken on
          pending,     \* routing.pendingRpcs
          timers,      \* calls whose timeout is armed
          reply,       \* how each call was settled
          inbox        \* calls forwarded on a connection and not yet answered

sockets == <<ws, who, reg, regTimer, lost>>
routes == <<bots, accountBots, wsToBotId>>
clients == <<web, subscribed>>
rpcs == <<call, pending, timers, reply, inbox>>
vars == <<sockets, routes, clients, subs, rpcs>>

Replies == {"none", "refused", "ignored", "result", "disconnected", "timeout"}

TypeOK ==
  /\ ws \in [Conns -> {"none", "open", "closing", "closed"}]
  /\ who \in [Conns -> Identities \cup {NoOne}]
  /\ reg \in [Conns -> {"new", "validating", "done"}]
  /\ regTimer \subseteq Conns /\ lost \subseteq Conns
  /\ bots \in [Bots -> Records \cup {NoBot}]
  /\ accountBots \in [Accounts -> SUBSET Bots]
  /\ wsToBotId \in [Conns -> Bots \cup {NoBot}]
  /\ web \in [Clients -> Accounts \cup {NoOne}]
  /\ subscribed \in [Clients -> SUBSET Bots]
  /\ subs \in [Bots -> SUBSET Clients]
  /\ call \in [Requests -> Calls \cup {NoCall}]
  /\ pending \subseteq Requests /\ timers \subseteq Requests
  /\ reply \in [Requests -> Replies]
  /\ inbox \in [Conns -> SUBSET Requests]

Init ==
  /\ ws = [c \in Conns |-> "none"] /\ who = [c \in Conns |-> NoOne]
  /\ reg = [c \in Conns |-> "new"] /\ regTimer = {} /\ lost = {}
  /\ bots = [b \in Bots |-> NoBot]
  /\ accountBots = [a \in Accounts |-> {}]
  /\ wsToBotId = [c \in Conns |-> NoBot]
  /\ web = [w \in Clients |-> NoOne] /\ subscribed = [w \in Clients |-> {}]
  /\ subs = [b \in Bots |-> {}]
  /\ call = [r \in Requests |-> NoCall]
  /\ pending = {} /\ timers = {}
  /\ reply = [r \in Requests |-> "none"]
  /\ inbox = [c \in Conns |-> {}]

Registered(b) == bots[b] # NoBot

-----------------------------------------------------------------------------
(* Routing (routing.ts) *)

\* ws.close() and ws.terminate(): nothing happens to a socket that is not open.
Closing(c) == IF ws[c] = "open" THEN [ws EXCEPT ![c] = "closing"] ELSE ws

\* Every pending call is rejected, whichever bot it was for.
FailPendingSilently ==
  /\ pending' = {} /\ timers' = timers \ pending
  /\ UNCHANGED reply
FailPending ==
  /\ reply' = [r \in Requests |-> IF r \in pending THEN "disconnected" ELSE reply[r]]
  /\ pending' = {}
  /\ timers' = timers \ pending

\* unregisterBot, the maps first; `bots` and `accountBots` are what its caller
\* makes of them.
WithoutBot(b) == [bots EXCEPT ![b] = NoBot]

WithoutAccountBot(b) ==
  IF Registered(b) THEN [accountBots EXCEPT ![bots[b].account] = @ \ {b}]
                   ELSE accountBots

DropNoSubscribers(b) == UNCHANGED subs
DropSubscribers(b) == subs' = [subs EXCEPT ![b] = {}]

-----------------------------------------------------------------------------
(* Bot connections *)

\* handleBotConnection: the challenge is sent and the timeout armed.
Connect(c, i) ==
  /\ ws[c] = "none"
  /\ ws' = [ws EXCEPT ![c] = "open"]
  /\ who' = [who EXCEPT ![c] = i]
  /\ regTimer' = regTimer \cup {c}
  /\ UNCHANGED <<reg, lost, routes, clients, subs, rpcs>>

\* A message can still arrive on a socket the relay is closing.
Hears(c) == ws[c] \in {"open", "closing"} /\ c \notin lost

\* handleRegister up to the await: a register with a missing field closes.
Register(c) ==
  /\ Hears(c) /\ reg[c] = "new"
  /\ \/ reg' = [reg EXCEPT ![c] = "validating"] /\ UNCHANGED ws
     \/ reg' = [reg EXCEPT ![c] = "done"] /\ ws' = Closing(c)
  /\ UNCHANGED <<who, regTimer, lost, routes, clients, subs, rpcs>>

\* The licence, the proof or the configuration is not good; the answer of the
\* licence server comes within its timeout.
Reject(c) ==
  /\ reg[c] = "validating"
  /\ reg' = [reg EXCEPT ![c] = "done"]
  /\ ws' = Closing(c)
  /\ UNCHANGED <<who, regTimer, lost, routes, clients, subs, rpcs>>

\* The rest of handleRegister.  Neither the state of the socket nor what was
\* registered meanwhile is looked at: the last answer to arrive wins.
AcceptKeepsOldRoute(c) ==
  /\ reg[c] = "validating"
  /\ reg' = [reg EXCEPT ![c] = "done"]
  /\ regTimer' = regTimer \ {c}
  /\ LET b == who[c].bot
         a == who[c].account
     IN  /\ bots' = [bots EXCEPT ![b] = [ws |-> c, account |-> a]]
         /\ accountBots' = [accountBots EXCEPT ![a] = @ \cup {b}]
         /\ wsToBotId' = [wsToBotId EXCEPT ![c] = b]
  /\ UNCHANGED <<ws, who, lost, clients, subs, rpcs>>
AcceptForgetsAccount(c) ==
  /\ reg[c] = "validating"
  /\ reg' = [reg EXCEPT ![c] = "done"]
  /\ regTimer' = regTimer \ {c}
  /\ LET b == who[c].bot
         a == who[c].account
     IN  /\ bots' = [bots EXCEPT ![b] = [ws |-> c, account |-> a]]
         /\ accountBots' = [accountBots EXCEPT ![a] = @ \cup {b}]
         /\ IF Registered(b)
            THEN /\ wsToBotId' = [wsToBotId EXCEPT ![bots[b].ws] = NoBot, ![c] = b]
                 /\ ws' = Closing(bots[b].ws)
                 /\ DropSubscribers(b)
                 /\ FailPending
            ELSE /\ wsToBotId' = [wsToBotId EXCEPT ![c] = b]
                 /\ UNCHANGED <<ws, subs, pending, timers, reply>>
  /\ UNCHANGED <<who, lost, clients, call, inbox>>
Accept(c) ==
  /\ reg[c] = "validating"
  /\ reg' = [reg EXCEPT ![c] = "done"]
  /\ regTimer' = regTimer \ {c}
  /\ LET b == who[c].bot
         a == who[c].account
     IN  /\ bots' = [bots EXCEPT ![b] = [ws |-> c, account |-> a]]
         /\ accountBots' = [WithoutAccountBot(b) EXCEPT ![a] = @ \cup {b}]
         /\ IF Registered(b)
            THEN /\ wsToBotId' = [wsToBotId EXCEPT ![bots[b].ws] = NoBot, ![c] = b]
                 /\ ws' = Closing(bots[b].ws)
                 /\ DropSubscribers(b)
                 /\ FailPending
            ELSE /\ wsToBotId' = [wsToBotId EXCEPT ![c] = b]
                 /\ UNCHANGED <<ws, subs, pending, timers, reply>>
  /\ UNCHANGED <<who, lost, clients, call, inbox>>

RegistrationTimeout(c) ==
  /\ c \in regTimer
  /\ regTimer' = regTimer \ {c}
  /\ ws' = Closing(c)
  /\ UNCHANGED <<who, reg, lost, routes, clients, subs, rpcs>>

\* The close event, of a socket the relay closed or of one the bot closed.
Closed(c) ==
  /\ ws[c] \in {"open", "closing"}
  /\ ws' = [ws EXCEPT ![c] = "closed"]
  /\ regTimer' = regTimer \ {c}
  /\ LET b == wsToBotId[c]
     IN  IF b = NoBot
         THEN UNCHANGED <<routes, subs, pending, timers, reply>>
         ELSE /\ bots' = WithoutBot(b)
              /\ accountBots' = WithoutAccountBot(b)
              /\ DropSubscribers(b)
              /\ FailPending
              /\ wsToBotId' = [wsToBotId EXCEPT ![c] = NoBot]
  /\ UNCHANGED <<who, reg, lost, clients, call, inbox>>

\* The peer is gone and no close frame or reset says so.
Lose(c) ==
  /\ ws[c] = "open" /\ c \notin lost
  /\ lost' = lost \cup {c}
  /\ UNCHANGED <<ws, who, reg, regTimer, routes, clients, subs, rpcs>>

\* startHeartbeat: a registered bot that has not been heard of is terminated.
HeartbeatNever(c) == FALSE /\ UNCHANGED vars
Heartbeat(c) ==
  /\ ws[c] = "open" /\ c \in lost
  /\ wsToBotId[c] # NoBot
  /\ ws' = Closing(c)
  /\ UNCHANGED <<who, reg, regTimer, lost, routes, clients, subs, rpcs>>

-----------------------------------------------------------------------------
(* Web clients *)

\* A client is let in for an account: the one its token names, or the one of
\* the registered bot whose password it knows.
WebConnect(w, a) ==
  /\ web[w] = NoOne /\ subscribed[w] = {}
  /\ web' = [web EXCEPT ![w] = a]
  /\ UNCHANGED <<sockets, routes, subscribed, subs, rpcs>>

\* The close event of a web client.
WebClosed(w) ==
  /\ web[w] # NoOne
  /\ web' = [web EXCEPT ![w] = NoOne]
  /\ subs' = [b \in Bots |-> IF b \in subscribed[w] THEN subs[b] \ {w} ELSE subs[b]]
  /\ UNCHANGED <<sockets, routes, subscribed, rpcs>>

\* getBotScoped.
InAccount(b, a) == Registered(b) /\ bots[b].account = a

\* handleWebMessage: the call is taken on and forwarded ...
Request(w, r, b) ==
  /\ web[w] # NoOne /\ call[r] = NoCall /\ reply[r] = "none"
  /\ InAccount(b, web[w])
  /\ LET c == bots[b].ws
     IN  /\ call' = [call EXCEPT ![r] = [client |-> w, bot |-> b, ws |-> c]]
         /\ inbox' = IF ws[c] = "open" THEN [inbox EXCEPT ![c] = @ \cup {r}] ELSE inbox
  /\ IF b \in subscribed[w]
     THEN UNCHANGED <<subscribed, subs>>
     ELSE /\ subscribed' = [subscribed EXCEPT ![w] = @ \cup {b}]
          /\ subs' = [subs EXCEPT ![b] = @ \cup {w}]
  /\ pending' = pending \cup {r}
  /\ timers' = timers \cup {r}
  /\ UNCHANGED <<sockets, routes, web, reply>>

\* ... or refused: the bot is not there, or not in the account of the client ...
Refuse(w, r, b) ==
  /\ web[w] # NoOne /\ call[r] = NoCall /\ reply[r] = "none"
  /\ ~InAccount(b, web[w])
  /\ reply' = [reply EXCEPT ![r] = "refused"]
  /\ UNCHANGED <<sockets, routes, clients, subs, call, pending, timers, inbox>>

\* ... or dropped by the rate limiter of the account, without an answer.
Ignore(w, r) ==
  /\ web[w] # NoOne /\ call[r] = NoCall /\ reply[r] = "none"
  /\ reply' = [reply EXCEPT ![r] = "ignored"]
  /\ UNCHANGED <<sockets, routes, clients, subs, call, pending, timers, inbox>>

-----------------------------------------------------------------------------
(* Answers *)

ResolveKeepsTimer(r) ==
  IF r \in pending
  THEN /\ pending' = pending \ {r}
       /\ reply' = [reply EXCEPT ![r] = "result"]
       /\ UNCHANGED timers
  ELSE UNCHANGED <<pending, timers, reply>>
Resolve(r) ==
  IF r \in pending
  THEN /\ pending' = pending \ {r}
       /\ timers' = timers \ {r}
       /\ reply' = [reply EXCEPT ![r] = "result"]
  ELSE UNCHANGED <<pending, timers, reply>>

\* handleBotMessage for an rpc_response, and handleRpcResponse: a connection
\* that lost its registration is closed, and the rate limiter of the bot may
\* drop the answer.
Answer(c, r) ==
  /\ Hears(c) /\ r \in inbox[c]
  /\ inbox' = [inbox EXCEPT ![c] = @ \ {r}]
  /\ IF wsToBotId[c] = NoBot
     THEN ws' = Closing(c) /\ UNCHANGED <<pending, timers, reply>>
     ELSE UNCHANGED ws /\ (Resolve(r) \/ UNCHANGED <<pending, timers, reply>>)
  /\ UNCHANGED <<who, reg, regTimer, lost, routes, clients, subs, call>>

\* The timeout set by handleWebMessage.
RpcTimeout(r) ==
  /\ r \in timers
  /\ timers' = timers \ {r}
  /\ pending' = pending \ {r}
  /\ reply' = IF reply[r] = "none" THEN [reply EXCEPT ![r] = "timeout"] ELSE reply
  /\ UNCHANGED <<sockets, routes, clients, subs, call, inbox>>

-----------------------------------------------------------------------------

BotStep(c) ==
  \/ \E i \in Identities : Connect(c, i)
  \/ Register(c) \/ Reject(c) \/ Accept(c) \/ RegistrationTimeout(c)
  \/ Closed(c) \/ Lose(c) \/ Heartbeat(c)
  \/ \E r \in Requests : Answer(c, r)

WebStep(w) ==
  \/ \E a \in Accounts : WebConnect(w, a)
  \/ WebClosed(w)
  \/ \E r \in Requests : \/ \E b \in Bots : Request(w, r, b) \/ Refuse(w, r, b)
                         \/ Ignore(w, r)

Next ==
  \/ \E c \in Conns : BotStep(c)
  \/ \E w \in Clients : WebStep(w)
  \/ \E r \in Requests : RpcTimeout(r)

\* Timers fire, the heartbeat runs, and a socket that is being closed closes
\* (the ws library destroys it after 30 seconds if the peer does not answer).
Fairness ==
  /\ \A r \in Requests : WF_vars(RpcTimeout(r))
  /\ \A c \in Conns : /\ WF_vars(Heartbeat(c))
                      /\ WF_vars(ws[c] = "closing" /\ Closed(c))

Spec == Init /\ [][Next]_vars /\ Fairness

-----------------------------------------------------------------------------
(* Properties *)

\* The two tables the server routes by are inverse to each other: the close
\* event of a socket removes the bot that is routed over it and no other
\* (server.ts:145-153, 294-315).
RoutesInverse ==
  /\ \A b \in Bots : Registered(b) => wsToBotId[bots[b].ws] = b
  /\ \A c \in Conns :
       wsToBotId[c] # NoBot => Registered(wsToBotId[c]) /\ bots[wsToBotId[c]].ws = c

\* A bot is listed under the account it is registered with and no other, also
\* when it comes back under another account (routing.ts:20-33).
AccountIndex ==
  \A a \in Accounts : accountBots[a] = {b \in Bots : InAccount(b, a)}

\* Whoever receives a bot's logs is a connected client of the account the bot
\* is registered with now (server.ts:485-507, routing.ts:34-49).
SubscribersScoped ==
  \A b \in Bots : \A w \in subs[b] : web[w] # NoOne /\ InAccount(b, web[w])

\* A pending call is unanswered, its timeout is armed, and the bot it was
\* forwarded to is still registered over the same connection; no timeout
\* outlives its call (routing.ts:50-56, 99-123).
PendingCalls ==
  /\ pending = timers
  /\ \A r \in pending : /\ reply[r] = "none"
                        /\ Registered(call[r].bot)
                        /\ bots[call[r].bot].ws = call[r].ws

\* A registered bot whose link breaks without a word is unrouted eventually
\* (server.ts:572-594).
LostBotsLeave ==
  \A c \in Conns :
    (c \in lost /\ wsToBotId[c] # NoBot /\ ws[c] # "closed") ~> wsToBotId[c] = NoBot

\* The relay keeps the promise of RpcService.
Status ==
  [r \in Requests |->
     CASE reply[r] = "result" -> "answered"
       [] reply[r] \in {"disconnected", "timeout"} -> "failed"
       [] reply[r] \in {"refused", "ignored"} -> reply[r]
       [] OTHER -> IF call[r] = NoCall THEN "idle" ELSE "waiting"]

RPC == INSTANCE RpcService WITH status <- Status
ImplementsRpcService == RPC!Spec
=============================================================================
