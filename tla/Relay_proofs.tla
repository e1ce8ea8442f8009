---------------------------- MODULE Relay_proofs ----------------------------
(***************************************************************************)
(* Proofs about the relay, for any number of connections, bots, accounts,  *)
(* clients and calls: its tables agree with each other, nobody hears of a  *)
(* bot of another account, a pending call has its timeout and its route,   *)
(* and every call is settled at most once.                                 *)
(***************************************************************************)
EXTENDS Relay, TLAPS

\* A connection has an identity from its opening on, and is registered only by
\* the end of its one register.
Handshake ==
  \A c \in Conns : /\ ws[c] # "none" => who[c] \in Identities
                   /\ reg[c] # "new" => ws[c] # "none"
                   /\ reg[c] # "done" => wsToBotId[c] = NoBot

\* Who is listed as a subscriber of a bot knows of it, and so unsubscribes when
\* he leaves.
SubscribersKnow == \A b \in Bots : \A w \in subs[b] : b \in subscribed[w]

\* A pending call was taken on.
PendingTaken == \A r \in pending : call[r] \in Calls

IInv ==
  /\ TypeOK
  /\ Handshake /\ RoutesInverse /\ AccountIndex
  /\ SubscribersScoped /\ SubscribersKnow
  /\ PendingCalls /\ PendingTaken

-----------------------------------------------------------------------------
LEMMA InitInv == Init => IInv
<1> SUFFICES ASSUME Init PROVE IInv
  OBVIOUS
<1>1. TypeOK
  BY DEF Init, TypeOK, Replies
<1>2. Handshake /\ RoutesInverse
  BY NothingAssumption DEF Init, Handshake, RoutesInverse, Registered
<1>3. AccountIndex
  BY DEF Init, AccountIndex, InAccount, Registered
<1>4. SubscribersScoped /\ SubscribersKnow /\ PendingCalls /\ PendingTaken
  BY DEF Init, SubscribersScoped, SubscribersKnow, PendingCalls, PendingTaken
<1> QED
  BY <1>1, <1>2, <1>3, <1>4 DEF IInv

\* A step that leaves the tables alone, and moves sockets and handshakes only
\* forward, keeps the invariant.
LEMMA SocketStep ==
  ASSUME IInv, UNCHANGED <<routes, clients, subs, rpcs>>,
         ws' \in [Conns -> {"none", "open", "closing", "closed"}],
         who' \in [Conns -> Identities \cup {NoOne}],
         reg' \in [Conns -> {"new", "validating", "done"}],
         regTimer' \subseteq Conns, lost' \subseteq Conns,
         \A c \in Conns : /\ ws'[c] # "none" => who'[c] \in Identities
                          /\ reg'[c] # "new" => ws'[c] # "none"
                          /\ reg'[c] # "done" => reg[c] # "done"
  PROVE  IInv'
<1> USE DEF IInv, routes, clients, rpcs
<1>1. TypeOK'
  BY DEF TypeOK
<1>2. Handshake'
  BY DEF Handshake
<1>3. RoutesInverse' /\ AccountIndex' /\ SubscribersScoped' /\ SubscribersKnow'
  BY DEF RoutesInverse, AccountIndex, SubscribersScoped, SubscribersKnow,
         InAccount, Registered
<1>4. PendingCalls' /\ PendingTaken'
  BY DEF PendingCalls, PendingTaken, Registered
<1> QED
  BY <1>1, <1>2, <1>3, <1>4

LEMMA ClosingType ==
  ASSUME TypeOK, NEW c \in Conns
  PROVE  /\ Closing(c) \in [Conns -> {"none", "open", "closing", "closed"}]
         /\ \A d \in Conns : Closing(c)[d] # "none" <=> ws[d] # "none"
BY DEF TypeOK, Closing

LEMMA SocketSteps ==
  ASSUME IInv, NEW c \in Conns,
         \/ \E i \in Identities : Connect(c, i)
         \/ Register(c) \/ Reject(c) \/ RegistrationTimeout(c)
         \/ Lose(c) \/ Heartbeat(c)
  PROVE  IInv'
<1> USE DEF IInv
<1>1. ASSUME NEW i \in Identities, Connect(c, i) PROVE IInv'
  <2>1. /\ ws' \in [Conns -> {"none", "open", "closing", "closed"}]
        /\ who' \in [Conns -> Identities \cup {NoOne}]
        /\ regTimer' \subseteq Conns
    BY <1>1 DEF Connect, TypeOK
  <2>2. \A d \in Conns : /\ ws'[d] # "none" => who'[d] \in Identities
                         /\ reg'[d] # "new" => ws'[d] # "none"
    BY <1>1 DEF Connect, TypeOK, Handshake
  <2> QED
    BY <1>1, <2>1, <2>2, SocketStep DEF Connect, TypeOK
<1>2. CASE Register(c)
  <2>1. /\ ws' = ws \/ ws' = Closing(c)
        /\ reg' \in [Conns -> {"new", "validating", "done"}]
        /\ \A d \in Conns : /\ reg'[d] # reg[d] => d = c /\ ws[c] # "none"
                            /\ reg'[d] # "done" => reg[d] # "done"
        /\ UNCHANGED <<who, regTimer, lost, routes, clients, subs, rpcs>>
    BY <1>2 DEF Register, Hears, TypeOK
  <2> QED
    BY <2>1, ClosingType, SocketStep DEF TypeOK, Handshake
<1>3. CASE Reject(c)
  BY <1>3, ClosingType, SocketStep DEF Reject, TypeOK, Handshake
<1>4. CASE RegistrationTimeout(c) \/ Heartbeat(c)
  BY <1>4, ClosingType, SocketStep DEF RegistrationTimeout, Heartbeat, TypeOK, Handshake
<1>5. CASE Lose(c)
  BY <1>5, SocketStep DEF Lose, TypeOK, Handshake
<1> QED
  BY <1>1, <1>2, <1>3, <1>4, <1>5

-----------------------------------------------------------------------------
(* Registration and its end *)

\* The rest of handleRegister: the bot moves to the new connection, whatever
\* else it was registered with.
LEMMA AcceptInv == ASSUME IInv, NEW c \in Conns, Accept(c) PROVE IInv'
<1> DEFINE b == who[c].bot
           a == who[c].account
<1> USE DEF IInv
<1>1. /\ b \in Bots /\ a \in Accounts /\ wsToBotId[c] = NoBot
      /\ [ws |-> c, account |-> a] \in Records
      /\ [ws |-> c, account |-> a] # NoBot /\ b # NoBot
  BY NothingAssumption, AbsenceAssumption
  DEF Accept, Handshake, TypeOK, Identities, Records
<1>2. Registered(b) => bots[b].ws \in Conns /\ bots[b].account \in Accounts
  BY <1>1 DEF TypeOK, Registered, Records
<1>3. /\ bots' = [bots EXCEPT ![b] = [ws |-> c, account |-> a]]
      /\ accountBots' = [WithoutAccountBot(b) EXCEPT ![a] = @ \cup {b}]
      /\ reg' = [reg EXCEPT ![c] = "done"] /\ regTimer' = regTimer \ {c}
      /\ UNCHANGED <<who, lost, web, subscribed, call, inbox>>
  BY DEF Accept, clients
<1>4. /\ wsToBotId' \in [Conns -> Bots \cup {NoBot}]
      /\ wsToBotId'[c] = b
      /\ \A d \in Conns \ {c} :
           wsToBotId'[d] = IF Registered(b) /\ d = bots[b].ws THEN NoBot ELSE wsToBotId[d]
  BY <1>1, <1>2 DEF Accept, TypeOK
<1>5. /\ ws' \in [Conns -> {"none", "open", "closing", "closed"}]
      /\ \A d \in Conns : ws'[d] # "none" <=> ws[d] # "none"
  BY <1>2, ClosingType DEF Accept, TypeOK
<1>6. /\ subs' \in [Bots -> SUBSET Clients] /\ subs'[b] = {}
      /\ \A x \in Bots \ {b} : subs'[x] = subs[x]
  BY <1>1 DEF Accept, DropSubscribers, TypeOK, SubscribersScoped, InAccount
<1>7. /\ pending' = timers' /\ pending' \subseteq pending
      /\ reply' \in [Requests -> Replies]
      /\ \A r \in pending' : reply'[r] = reply[r] /\ call[r].bot # b
  BY <1>1 DEF Accept, FailPending, TypeOK, PendingCalls, Replies
<1>8. TypeOK'
  <2>1. bots' \in [Bots -> Records \cup {NoBot}]
    BY <1>1, <1>3 DEF TypeOK
  <2>2. accountBots' \in [Accounts -> SUBSET Bots]
    BY <1>1, <1>2, <1>3 DEF TypeOK, WithoutAccountBot
  <2> QED
    BY <1>3, <1>4, <1>5, <1>6, <1>7, <2>1, <2>2 DEF TypeOK
<1>9. Handshake'
  BY <1>3, <1>4, <1>5 DEF Handshake, TypeOK, Accept
<1>10. RoutesInverse'
  <2>1. \A x \in Bots \ {b} : bots'[x] = bots[x]
    BY <1>3 DEF TypeOK
  <2>2. bots'[b].ws = c /\ bots'[b] # NoBot
    BY <1>1, <1>3 DEF TypeOK
  <2>3. ASSUME NEW x \in Bots, Registered(x)'
        PROVE  wsToBotId'[bots'[x].ws] = x
    <3>1. CASE x = b
      BY <1>4, <2>2, <3>1
    <3>2. CASE x # b
      <4>1. /\ bots[x].ws \in Conns /\ wsToBotId[bots[x].ws] = x
            /\ Registered(b) => wsToBotId[bots[b].ws] = b
        BY <1>1, <2>1, <2>3, <3>2 DEF RoutesInverse, Registered, TypeOK, Records
      <4>2. bots[x].ws # c
        BY <1>1, <4>1, NothingAssumption
      <4> QED
        BY <1>4, <2>1, <3>2, <4>1, <4>2
    <3> QED
      BY <3>1, <3>2
  <2>4. ASSUME NEW d \in Conns, wsToBotId'[d] # NoBot
        PROVE  bots'[wsToBotId'[d]] # NoBot /\ bots'[wsToBotId'[d]].ws = d
    <3>1. CASE d = c
      BY <1>4, <2>2, <3>1
    <3>2. CASE d # c
      <4>1. /\ wsToBotId'[d] = wsToBotId[d] /\ wsToBotId[d] \in Bots
            /\ Registered(wsToBotId[d]) /\ bots[wsToBotId[d]].ws = d
            /\ Registered(b) => d # bots[b].ws
        BY <1>4, <2>4, <3>2 DEF RoutesInverse, TypeOK
      <4>2. wsToBotId[d] # b
        BY <4>1
      <4> QED
        BY <2>1, <4>1, <4>2 DEF Registered
    <3> QED
      BY <3>1, <3>2
  <2> QED
    BY <2>3, <2>4 DEF RoutesInverse, Registered
<1>11. AccountIndex'
  <2>1. \A x \in Bots, d \in Accounts :
          InAccount(x, d)' <=> (x = b /\ d = a) \/ (x # b /\ InAccount(x, d))
    BY <1>1, <1>3 DEF InAccount, Registered, TypeOK
  <2>2. \A d \in Accounts :
          accountBots'[d] = (accountBots[d] \ {b}) \cup (IF d = a THEN {b} ELSE {})
    <3>1. \A d \in Accounts : WithoutAccountBot(b)[d] = accountBots[d] \ {b}
      BY <1>1, <1>2 DEF WithoutAccountBot, TypeOK, AccountIndex, InAccount
    <3>2. WithoutAccountBot(b) \in [Accounts -> SUBSET Bots]
      BY <1>2 DEF WithoutAccountBot, TypeOK
    <3> QED
      BY <1>1, <1>3, <3>1, <3>2
  <2> QED
    BY <2>1, <2>2, <1>1 DEF AccountIndex
<1>12. SubscribersScoped' /\ SubscribersKnow'
  BY <1>1, <1>3, <1>6 DEF SubscribersScoped, SubscribersKnow, InAccount, Registered, TypeOK
<1>13. PendingCalls' /\ PendingTaken'
  BY <1>1, <1>3, <1>7 DEF PendingCalls, PendingTaken, Registered, TypeOK, Calls
<1> QED
  BY <1>8, <1>9, <1>10, <1>11, <1>12, <1>13

\* The close event: what was routed over the connection goes with it.
LEMMA ClosedInv == ASSUME IInv, NEW c \in Conns, Closed(c) PROVE IInv'
<1> DEFINE b == wsToBotId[c]
<1> USE DEF IInv
<1>1. /\ ws' = [ws EXCEPT ![c] = "closed"] /\ regTimer' = regTimer \ {c}
      /\ UNCHANGED <<who, reg, lost, web, subscribed, call, inbox>>
      /\ ws[c] # "none"
  BY DEF Closed, clients
<1>2. CASE b = NoBot
  <2>1. UNCHANGED <<routes, clients, subs, rpcs>>
    BY <1>2 DEF Closed, clients, routes, rpcs
  <2> QED
    BY <1>1, <2>1, SocketStep DEF TypeOK, Handshake
<1>3. CASE b # NoBot
  <2>1. /\ b \in Bots /\ Registered(b) /\ bots[b].ws = c
        /\ bots[b].account \in Accounts
    BY <1>3 DEF TypeOK, RoutesInverse, Registered, Records
  <2>2. /\ bots' = [bots EXCEPT ![b] = NoBot]
        /\ accountBots' = [accountBots EXCEPT ![bots[b].account] = @ \ {b}]
        /\ subs' = [subs EXCEPT ![b] = {}]
        /\ wsToBotId' = [wsToBotId EXCEPT ![c] = NoBot]
        /\ pending' = {} /\ timers' = timers \ pending
        /\ reply' = [r \in Requests |-> IF r \in pending THEN "disconnected" ELSE reply[r]]
    BY <1>3, <2>1 DEF Closed, WithoutBot, WithoutAccountBot, DropSubscribers, FailPending
  <2> HIDE DEF b
  <2>3. TypeOK'
    BY <1>1, <2>1, <2>2 DEF TypeOK, Replies
  <2>4. Handshake' /\ RoutesInverse'
    BY <1>1, <2>1, <2>2 DEF TypeOK, Handshake, RoutesInverse, Registered, Records
  <2>5. AccountIndex'
    <3>1. \A x \in Bots, d \in Accounts : InAccount(x, d)' <=> x # b /\ InAccount(x, d)
      BY <2>1, <2>2 DEF InAccount, Registered, TypeOK
    <3>2. \A d \in Accounts : accountBots'[d] = accountBots[d] \ {b}
      BY <2>1, <2>2 DEF TypeOK, AccountIndex, InAccount
    <3> QED
      BY <3>1, <3>2 DEF AccountIndex
  <2>6. SubscribersScoped' /\ SubscribersKnow'
    BY <1>1, <2>1, <2>2 DEF SubscribersScoped, SubscribersKnow, InAccount, Registered, TypeOK
  <2>7. PendingCalls' /\ PendingTaken'
    BY <2>2 DEF PendingCalls, PendingTaken
  <2> QED
    BY <2>3, <2>4, <2>5, <2>6, <2>7
<1> QED
  BY <1>2, <1>3

-----------------------------------------------------------------------------
(* Web clients and answers *)

\* A step that takes calls on, settles them or forgets them, and touches no
\* table of the bots, keeps what is said about these.
LEMMA CallStep ==
  ASSUME IInv, UNCHANGED <<who, reg, regTimer, lost, routes>>,
         ws' \in [Conns -> {"none", "open", "closing", "closed"}],
         \A d \in Conns : ws'[d] # "none" <=> ws[d] # "none",
         web' \in [Clients -> Accounts \cup {NoOne}],
         subscribed' \in [Clients -> SUBSET Bots],
         subs' \in [Bots -> SUBSET Clients],
         call' \in [Requests -> Calls \cup {NoCall}],
         reply' \in [Requests -> Replies],
         inbox' \in [Conns -> SUBSET Requests],
         pending' \subseteq Requests, pending' = timers',
         \A r \in pending' : /\ reply'[r] = "none" /\ call'[r] \in Calls
                             /\ Registered(call'[r].bot)
                             /\ bots[call'[r].bot].ws = call'[r].ws,
         \A b \in Bots : \A w \in subs'[b] :
           web'[w] # NoOne /\ InAccount(b, web'[w]) /\ b \in subscribed'[w]
  PROVE  IInv'
<1> USE DEF IInv, routes
<1>1. TypeOK'
  BY DEF TypeOK
<1>2. Handshake' /\ RoutesInverse' /\ AccountIndex'
  BY DEF Handshake, RoutesInverse, AccountIndex, InAccount, Registered
<1>3. SubscribersScoped' /\ SubscribersKnow'
  BY DEF SubscribersScoped, SubscribersKnow, InAccount, Registered
<1>4. PendingCalls' /\ PendingTaken'
  BY DEF PendingCalls, PendingTaken, Registered
<1> QED
  BY <1>1, <1>2, <1>3, <1>4

\* What CallStep asks of the calls and of the subscribers, before the step.
LEMMA CallsNow ==
  ASSUME IInv
  PROVE  /\ pending \subseteq Requests /\ pending = timers
         /\ \A r \in pending : /\ reply[r] = "none" /\ call[r] \in Calls
                               /\ Registered(call[r].bot)
                               /\ bots[call[r].bot].ws = call[r].ws
         /\ \A b \in Bots : \A w \in subs[b] :
              web[w] # NoOne /\ InAccount(b, web[w]) /\ b \in subscribed[w]
BY DEF IInv, TypeOK, PendingCalls, PendingTaken, SubscribersScoped, SubscribersKnow

LEMMA WebInv ==
  ASSUME IInv, NEW w \in Clients, WebStep(w) PROVE IInv'
<1> USE DEF TypeOK, sockets, clients, rpcs
<1>0. TypeOK
  BY DEF IInv
<1>1. ASSUME NEW a \in Accounts, WebConnect(w, a) PROVE IInv'
  <2>1. web' \in [Clients -> Accounts \cup {NoOne}]
    BY <1>0, <1>1 DEF WebConnect
  <2>2. \A b \in Bots : \A v \in subs[b] : v # w /\ web'[v] = web[v]
    BY <1>0, <1>1, CallsNow DEF WebConnect
  <2> QED
    BY <1>0, <1>1, <2>1, <2>2, CallsNow, CallStep DEF WebConnect
<1>2. CASE WebClosed(w)
  <2>1. /\ web' \in [Clients -> Accounts \cup {NoOne}]
        /\ subs' \in [Bots -> SUBSET Clients]
    BY <1>0, <1>2 DEF WebClosed
  <2>2. \A b \in Bots : \A v \in subs'[b] : v \in subs[b] /\ v # w /\ web'[v] = web[v]
    BY <1>0, <1>2, CallsNow DEF WebClosed
  <2> QED
    BY <1>0, <1>2, <2>1, <2>2, CallsNow, CallStep DEF WebClosed
<1>3. ASSUME NEW r \in Requests, NEW b \in Bots, Request(w, r, b) PROVE IInv'
  <2>1. /\ Registered(b) /\ bots[b] \in Records /\ bots[b].ws \in Conns
        /\ [client |-> w, bot |-> b, ws |-> bots[b].ws] \in Calls
        /\ r \notin pending
    BY <1>0, <1>3, AbsenceAssumption, CallsNow
    DEF Request, InAccount, Registered, Records, Calls
  <2>2. /\ call' = [call EXCEPT ![r] = [client |-> w, bot |-> b, ws |-> bots[b].ws]]
        /\ pending' = pending \cup {r} /\ timers' = timers \cup {r}
        /\ UNCHANGED <<reply, web>> /\ reply[r] = "none"
    BY <1>3 DEF Request
  <2>3. /\ call' \in [Requests -> Calls \cup {NoCall}]
        /\ inbox' \in [Conns -> SUBSET Requests]
        /\ subscribed' \in [Clients -> SUBSET Bots]
        /\ subs' \in [Bots -> SUBSET Clients]
    BY <1>0, <1>3, <2>1, <2>2 DEF Request
  <2>4. \A q \in pending' : /\ reply'[q] = "none" /\ call'[q] \in Calls
                             /\ Registered(call'[q].bot)
                             /\ bots[call'[q].bot].ws = call'[q].ws
    BY <1>0, <2>1, <2>2, CallsNow
  <2>5. \A x \in Bots : \A v \in subs'[x] :
          web'[v] # NoOne /\ InAccount(x, web'[v]) /\ x \in subscribed'[v]
    BY <1>0, <1>3, CallsNow DEF Request
  <2> QED
    BY <1>0, <1>3, <2>2, <2>3, <2>4, <2>5, CallsNow, CallStep DEF Request
<1>4. ASSUME NEW r \in Requests,
             (\E b \in Bots : Refuse(w, r, b)) \/ Ignore(w, r)
      PROVE  IInv'
  <2>1. /\ reply' \in [Requests -> Replies] /\ reply[r] = "none" /\ call[r] = NoCall
        /\ \A q \in Requests \ {r} : reply'[q] = reply[q]
        /\ UNCHANGED <<sockets, routes, clients, subs, call, pending, timers, inbox>>
    BY <1>0, <1>4 DEF Refuse, Ignore, Replies
  <2>2. r \notin pending
    BY <2>1, CallsNow, AbsenceAssumption
  <2> QED
    BY <1>0, <2>1, <2>2, CallsNow, CallStep
<1> QED
  BY <1>1, <1>2, <1>3, <1>4 DEF WebStep

LEMMA AnswerInv ==
  ASSUME IInv, NEW c \in Conns, NEW r \in Requests, Answer(c, r) PROVE IInv'
<1>0. TypeOK
  BY DEF IInv
<1>1. /\ ws' = ws \/ ws' = Closing(c)
      /\ inbox' \in [Conns -> SUBSET Requests]
      /\ UNCHANGED <<who, reg, regTimer, lost, routes, clients, subs, call>>
  BY <1>0 DEF Answer, TypeOK
<1>2. /\ ws' \in [Conns -> {"none", "open", "closing", "closed"}]
      /\ \A d \in Conns : ws'[d] # "none" <=> ws[d] # "none"
  BY <1>0, <1>1, ClosingType DEF TypeOK
<1>3. /\ reply' \in [Requests -> Replies] /\ pending' \subseteq pending
      /\ pending' = timers'
      /\ \A q \in pending' : reply'[q] = reply[q]
  <2>1. CASE UNCHANGED <<pending, timers, reply>>
    BY <1>0, <2>1, CallsNow DEF TypeOK
  <2>2. CASE r \in pending /\ Resolve(r)
    <3>1. /\ reply' = [reply EXCEPT ![r] = "result"]
          /\ pending' = pending \ {r} /\ timers' = timers \ {r}
      BY <2>2 DEF Resolve
    <3>2. reply \in [Requests -> Replies] /\ "result" \in Replies /\ pending = timers
      BY <1>0, CallsNow DEF TypeOK, Replies
    <3> QED
      BY <3>1, <3>2
  <2> QED
    BY <2>1, <2>2 DEF Answer, Resolve
<1> QED
  BY <1>0, <1>1, <1>2, <1>3, CallsNow, CallStep DEF TypeOK, clients

LEMMA TimeoutInv ==
  ASSUME IInv, NEW r \in Requests, RpcTimeout(r) PROVE IInv'
<1>0. TypeOK
  BY DEF IInv
<1>1. /\ reply' \in [Requests -> Replies] /\ pending' = pending \ {r}
      /\ timers' = timers \ {r}
      /\ \A q \in pending' : reply'[q] = reply[q]
      /\ UNCHANGED <<sockets, routes, clients, subs, call, inbox>>
  BY <1>0 DEF RpcTimeout, TypeOK, Replies
<1> QED
  BY <1>0, <1>1, CallsNow, CallStep DEF TypeOK, sockets, clients

-----------------------------------------------------------------------------
(* The theorems *)

\* Every step keeps the invariant.
LEMMA NextInv == IInv /\ [Next]_vars => IInv'
<1> SUFFICES ASSUME IInv, [Next]_vars PROVE IInv'
  OBVIOUS
<1>1. ASSUME NEW c \in Conns, BotStep(c) PROVE IInv'
  BY <1>1, SocketSteps, AcceptInv, ClosedInv, AnswerInv DEF BotStep
<1>2. ASSUME NEW w \in Clients, WebStep(w) PROVE IInv'
  BY <1>2, WebInv
<1>3. ASSUME NEW r \in Requests, RpcTimeout(r) PROVE IInv'
  BY <1>3, TimeoutInv
<1>4. CASE UNCHANGED vars
  BY <1>4, SocketStep DEF vars, sockets, IInv, TypeOK, Handshake
<1> QED
  BY <1>1, <1>2, <1>3, <1>4 DEF Next

LEMMA Invariance == Spec => []IInv
  BY InitInv, NextInv, PTL DEF Spec

\* Every variable of the relay keeps its type.
THEOREM TypeCorrect == Spec => []TypeOK
<1>1. IInv => TypeOK
  BY DEF IInv
<1> QED
  BY <1>1, Invariance, PTL

\* Through replaced, late and broken connections, the two tables the server
\* routes by stay inverse to each other (server.ts:145-153, 294-315).
THEOREM RoutesAreInverse == Spec => []RoutesInverse
<1>1. IInv => RoutesInverse
  BY DEF IInv
<1> QED
  BY <1>1, Invariance, PTL

\* A bot is listed under the account it is registered with now and no other
\* (routing.ts:20-33).
THEOREM AccountsAreIndexed == Spec => []AccountIndex
<1>1. IInv => AccountIndex
  BY DEF IInv
<1> QED
  BY <1>1, Invariance, PTL

\* Only connected clients of the account of a bot are subscribed to it
\* (server.ts:485-507, routing.ts:34-49).
THEOREM SubscriptionsAreScoped == Spec => []SubscribersScoped
<1>1. IInv => SubscribersScoped
  BY DEF IInv
<1> QED
  BY <1>1, Invariance, PTL

\* A pending call is unanswered, with its timeout armed and its bot registered
\* over the connection it went out on (routing.ts:50-56, 99-123).
THEOREM PendingCallsAreLive == Spec => []PendingCalls
<1>1. IInv => PendingCalls
  BY DEF IInv
<1> QED
  BY <1>1, Invariance, PTL

-----------------------------------------------------------------------------
(* The relay implements the safety half of RpcService *)

\* Status of a call, case by case.
LEMMA StatusOf ==
  ASSUME NEW r \in Requests
  PROVE  /\ reply[r] = "result" => Status[r] = "answered"
         /\ reply[r] \in {"disconnected", "timeout"} => Status[r] = "failed"
         /\ reply[r] \in {"refused", "ignored"} => Status[r] = reply[r]
         /\ reply[r] = "none" /\ call[r] = NoCall => Status[r] = "idle"
         /\ reply[r] = "none" /\ call[r] # NoCall => Status[r] = "waiting"
BY DEF Status

\* Only calls and replies are seen.
LEMMA StatusSees ==
  ASSUME UNCHANGED <<call, reply>> PROVE UNCHANGED Status
BY DEF Status

LEMMA InitRefines == Init => RPC!Init
BY DEF Init, RPC!Init, Status

\* A call is asked for: it is taken on, refused or ignored.
LEMMA AskRefines ==
  ASSUME TypeOK, NEW r \in Requests, call[r] = NoCall, reply[r] = "none",
         call' \in [Requests -> Calls \cup {NoCall}],
         reply' \in [Requests -> Replies],
         \A q \in Requests \ {r} : call'[q] = call[q] /\ reply'[q] = reply[q],
         \/ call'[r] # NoCall /\ reply'[r] = "none"
         \/ reply'[r] \in {"refused", "ignored"}
  PROVE  RPC!Ask(r)
<1>1. Status[r] = "idle"
  BY StatusOf
<1>2. PICK v \in {"waiting", "refused", "ignored"} : Status'[r] = v
  BY DEF Status
<1>3. Status' = [Status EXCEPT ![r] = v]
  <2>1. \A q \in Requests \ {r} : Status'[q] = Status[q]
    BY DEF Status
  <2> QED
    BY <1>2, <2>1 DEF Status
<1> QED
  BY <1>1, <1>3 DEF RPC!Ask

\* Pending calls are settled, all in the same way.
LEMMA SettleRefines ==
  ASSUME IInv, NEW S \in SUBSET pending, UNCHANGED call,
         NEW v \in {"result", "disconnected", "timeout"},
         reply' = [q \in Requests |-> IF q \in S THEN v ELSE reply[q]]
  PROVE  [RPC!Next]_Status
<1> DEFINE outcome == IF v = "result" THEN "answered" ELSE "failed"
           s == [q \in S |-> outcome]
<1>1. CASE S = {}
  <2>1. reply' = reply
    BY <1>1 DEF IInv, TypeOK
  <2> QED
    BY <2>1, StatusSees
<1>2. CASE S # {}
  <2>1. S \subseteq Requests
    BY CallsNow
  <2>2. \A q \in S : Status[q] = "waiting"
    BY <2>1, CallsNow, StatusOf, AbsenceAssumption
  <2>3. S \subseteq RPC!Waiting
    BY <2>1, <2>2 DEF RPC!Waiting
  <2>4. Status' = [q \in Requests |-> IF q \in S THEN s[q] ELSE Status[q]]
    BY DEF Status
  <2>5. s \in [S -> {"answered", "failed"}]
    OBVIOUS
  <2>6. RPC!Settle(S)
    BY <1>2, <2>3, <2>4, <2>5 DEF RPC!Settle
  <2>7. PICK r \in S : r \in Requests
    BY <1>2, <2>1
  <2>8. RPC!SettleOne(r)
    BY <2>3, <2>6, <2>7 DEF RPC!SettleOne
  <2> QED
    BY <2>7, <2>8 DEF RPC!Next
<1> QED
  BY <1>1, <1>2

LEMMA BotRefines ==
  ASSUME IInv, NEW c \in Conns, BotStep(c) PROVE [RPC!Next]_Status
<1>1. CASE UNCHANGED <<call, reply>>
  BY <1>1, StatusSees
<1>2. CASE UNCHANGED call /\ FailPending
  BY <1>2, SettleRefines DEF FailPending
<1>3. ASSUME NEW r \in Requests, r \in pending, Resolve(r), UNCHANGED call
      PROVE  [RPC!Next]_Status
  <2>1. reply' = [q \in Requests |-> IF q \in {r} THEN "result" ELSE reply[q]]
    BY <1>3 DEF Resolve, IInv, TypeOK
  <2> QED
    BY <1>3, <2>1, SettleRefines
<1>4. ASSUME NEW r \in Requests, Answer(c, r)
      PROVE  [RPC!Next]_Status
  BY <1>1, <1>3, <1>4 DEF Answer, Resolve
<1>5. CASE Accept(c) \/ Closed(c)
  BY <1>1, <1>2, <1>5 DEF Accept, Closed
<1> QED
  BY <1>1, <1>4, <1>5
     DEF BotStep, Connect, Register, Reject, RegistrationTimeout, Lose, Heartbeat, rpcs

LEMMA WebRefines ==
  ASSUME IInv, NEW w \in Clients, WebStep(w) PROVE [RPC!Next]_Status
<1>0. TypeOK
  BY DEF IInv
<1>1. CASE UNCHANGED <<call, reply>>
  BY <1>1, StatusSees
<1>2. ASSUME NEW r \in Requests, NEW b \in Bots, Request(w, r, b)
      PROVE  RPC!Ask(r)
  <2>1. [client |-> w, bot |-> b, ws |-> bots[b].ws] \in Calls
    BY <1>0, <1>2 DEF Request, InAccount, Registered, TypeOK, Records, Calls
  <2>2. /\ call' = [call EXCEPT ![r] = [client |-> w, bot |-> b, ws |-> bots[b].ws]]
        /\ UNCHANGED reply /\ reply[r] = "none" /\ call[r] = NoCall
    BY <1>2 DEF Request
  <2> QED
    BY <1>0, <2>1, <2>2, AskRefines, AbsenceAssumption DEF TypeOK
<1>3. ASSUME NEW r \in Requests,
             (\E b \in Bots : Refuse(w, r, b)) \/ Ignore(w, r)
      PROVE  RPC!Ask(r)
  <2>1. /\ call[r] = NoCall /\ reply[r] = "none" /\ UNCHANGED call
        /\ \/ reply' = [reply EXCEPT ![r] = "refused"]
           \/ reply' = [reply EXCEPT ![r] = "ignored"]
    BY <1>3 DEF Refuse, Ignore
  <2> QED
    BY <1>0, <2>1, AskRefines DEF TypeOK, Replies
<1> QED
  BY <1>1, <1>2, <1>3 DEF WebStep, WebConnect, WebClosed, rpcs, RPC!Next

LEMMA TimeoutRefines ==
  ASSUME IInv, NEW r \in Requests, RpcTimeout(r) PROVE [RPC!Next]_Status
<1>1. r \in pending /\ reply[r] = "none"
  BY CallsNow DEF RpcTimeout
<1>2. reply' = [q \in Requests |-> IF q \in {r} THEN "timeout" ELSE reply[q]]
  BY <1>1 DEF RpcTimeout, IInv, TypeOK
<1> QED
  BY <1>1, <1>2, SettleRefines DEF RpcTimeout

\* Every step of the relay is a step of the service or none of its steps.
LEMMA NextRefines == IInv /\ [Next]_vars => [RPC!Next]_Status
<1> SUFFICES ASSUME IInv, [Next]_vars PROVE [RPC!Next]_Status
  OBVIOUS
<1>1. CASE UNCHANGED vars
  BY <1>1, StatusSees DEF vars, rpcs
<1> QED
  BY <1>1, BotRefines, WebRefines, TimeoutRefines DEF Next

\* Whatever becomes of connections, a call that a client makes is refused,
\* ignored or taken on, and one taken on is settled at most once, by an answer
\* or a failure (server.ts:453-545, routing.ts:99-123).
THEOREM SettledAtMostOnce == Spec => RPC!Init /\ [][RPC!Next]_Status
  BY InitRefines, NextRefines, Invariance, PTL DEF Spec
=============================================================================
