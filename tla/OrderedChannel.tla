--------------------------- MODULE OrderedChannel ---------------------------
(***************************************************************************)
(* What the outbox promises the game about one channel, without rows,      *)
(* nonces, retries or a dispatcher: operations are asked for one after the *)
(* other, appear in the channel in that order, and are concluded in that   *)
(* order.  A human may give one up; only then may it be missing when a     *)
(* later one appears, and may it still appear late.  The round is settled  *)
(* in the step that concludes the last of its operations.                  *)
(*                                                                         *)
(* Outbox implements it (Outbox!ImplementsOrderedChannel).                 *)
(***************************************************************************)
EXTENDS Integers

CONSTANTS
    Ops,        \* the operations, 1 .. n in the order they are asked for
    RoundOps    \* those the settlement of the round waits for

VARIABLES
    asked,      \* operations 1 .. asked have been asked for
    visible,    \* operations whose effect is in the channel
    outcome,    \* "open", "delivered" or "abandoned"
    settled

channelVars == <<asked, visible, outcome, settled>>

Init ==
    /\ asked = 0
    /\ visible = {}
    /\ outcome = [i \in Ops |-> "open"]
    /\ settled = FALSE

Before(i) == 1 .. i - 1

Ask ==
    /\ asked + 1 \in Ops
    /\ asked' = asked + 1
    /\ UNCHANGED <<visible, outcome, settled>>

Appear(i) ==
    /\ i \in 1 .. asked /\ i \notin visible
    /\ outcome[i] # "delivered"
    /\ \A j \in Before(i) : j \in visible \/ outcome[j] = "abandoned"
    /\ visible' = visible \union {i}
    /\ UNCHANGED <<asked, outcome, settled>>

Conclude(i, how) ==
    /\ i \in 1 .. asked /\ outcome[i] = "open"
    /\ how = "delivered" => i \in visible
    /\ \A j \in Before(i) : outcome[j] # "open"
    /\ outcome' = [outcome EXCEPT ![i] = how]
    /\ settled' = \A j \in RoundOps : outcome'[j] # "open"
    /\ UNCHANGED <<asked, visible>>

Next ==
    \/ Ask
    \/ \E i \in Ops : Appear(i)
    \/ \E i \in Ops, how \in {"delivered", "abandoned"} : Conclude(i, how)

Spec == Init /\ [][Next]_channelVars
=============================================================================
