----------------------------- MODULE KeyedQueue -----------------------------
(***************************************************************************)
(* What a caller of the serial executor is promised, without promises: for *)
(* each key one queue, served first come first served, one task at a time; *)
(* keys do not wait for each other; every task gets its turn; and a key is *)
(* busy exactly while somebody is in its queue.                            *)
(*                                                                         *)
(* SerialExecutor implements it (SerialExecutor!Queue).                    *)
(***************************************************************************)
CONSTANTS Tasks, Keys, NoTask

VARIABLES
    stage,      \* "none", "waiting", "running" or "over"
    lane,       \* the key a task joined
    ahead,      \* whom a task found in its lane, as long as they are there
    busy        \* the keys in use

queueVars == <<stage, lane, ahead, busy>>

InLane(k) == {t \in Tasks : stage[t] \in {"waiting", "running"} /\ lane[t] = k}

Init ==
    /\ stage = [t \in Tasks |-> "none"]
    /\ lane = [t \in Tasks |-> NoTask]
    /\ ahead = [t \in Tasks |-> {}]
    /\ busy = {}

Join(t, k) ==
    /\ stage[t] = "none"
    /\ stage' = [stage EXCEPT ![t] = IF InLane(k) = {} THEN "running" ELSE "waiting"]
    /\ lane' = [lane EXCEPT ![t] = k]
    /\ ahead' = [ahead EXCEPT ![t] = InLane(k)]
    /\ busy' = busy \union {k}

Enter(t) ==
    /\ stage[t] = "waiting" /\ ahead[t] = {}
    /\ stage' = [stage EXCEPT ![t] = "running"]
    /\ UNCHANGED <<lane, ahead, busy>>

Leave(t) ==
    /\ stage[t] = "running"
    /\ stage' = [stage EXCEPT ![t] = "over"]
    /\ ahead' = [u \in Tasks |-> ahead[u] \ {t}]
    /\ busy' = IF InLane(lane[t]) = {t} THEN busy \ {lane[t]} ELSE busy
    /\ UNCHANGED lane

Next ==
    \/ \E t \in Tasks, k \in Keys : Join(t, k)
    \/ \E t \in Tasks : Enter(t) \/ Leave(t)

\* What may happen, and that it happens for everybody.
SafetySpec == Init /\ [][Next]_queueVars

EveryTaskGetsItsTurn == \A t \in Tasks : stage[t] = "waiting" ~> stage[t] = "over"

Spec == SafetySpec /\ EveryTaskGetsItsTurn
=============================================================================
