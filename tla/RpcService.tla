----------------------------- MODULE RpcService -----------------------------
(***************************************************************************)
(* What the relay promises the web clients about the calls they make: a    *)
(* call is refused or ignored at once, or it is taken on, and a call taken *)
(* on is settled exactly once, and eventually.  Relay implements it.       *)
(***************************************************************************)
CONSTANT Requests

VARIABLE status

Waiting == {r \in Requests : status[r] = "waiting"}

Init == status = [r \in Requests |-> "idle"]

Ask(r) ==
  /\ status[r] = "idle"
  /\ \E s \in {"waiting", "refused", "ignored"} : status' = [status EXCEPT ![r] = s]

\* One event may settle several calls: a bot that leaves fails all of its own.
Settle(S) ==
  /\ S # {} /\ S \subseteq Waiting
  /\ \E s \in [S -> {"answered", "failed"}] :
       status' = [r \in Requests |-> IF r \in S THEN s[r] ELSE status[r]]

SettleOne(r) == \E S \in SUBSET Waiting : r \in S /\ Settle(S)

Next == (\E r \in Requests : Ask(r) \/ SettleOne(r))

Spec ==
  /\ Init /\ [][Next]_status
  /\ \A r \in Requests : WF_status(SettleOne(r))
=============================================================================
