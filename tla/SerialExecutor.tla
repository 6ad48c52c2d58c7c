--------------------------- MODULE SerialExecutor ---------------------------
(***************************************************************************)
(* application/serial-executor.ts.  A call of run takes the tail of its    *)
(* key, chains its work to it, and is the tail itself until a later call   *)
(* replaces it; work without a predecessor begins within the call.  That   *)
(* work fails is no event of its own: a tail fulfils either way.           *)
(*                                                                         *)
(* The two or three microtasks between the end of work and the callbacks   *)
(* of its tail are one step: no caller sees the difference.                *)
(*                                                                         *)
(* A definition whose name ends in _ is a faulty variant of the one after  *)
(* it; see GameRules.                                                      *)
(***************************************************************************)
CONSTANTS
    Tasks,      \* the calls of run
    Keys,
    NoTask

ASSUME NoTaskIsNoTask == NoTask \notin Tasks \union Keys

VARIABLES
    tails,      \* by key, the last call whose tail is kept, or NoTask
    key,        \* by call
    after,      \* the call whose tail it found, or NoTask
    phase       \* "none", "waiting", "running" or "over"

executorVars == <<tails, key, after, phase>>

ExecutorInit ==
    /\ tails = [k \in Keys |-> NoTask]
    /\ key = [t \in Tasks |-> NoTask]
    /\ after = [t \in Tasks |-> NoTask]
    /\ phase = [t \in Tasks |-> "none"]

\* The work of the call begins within it.
AtOnce(k) == tails[k] = NoTask

Run(t, k) ==
    /\ phase[t] = "none"
    /\ phase' = [phase EXCEPT ![t] = IF AtOnce(k) THEN "running" ELSE "waiting"]
    /\ key' = [key EXCEPT ![t] = k]
    /\ after' = [after EXCEPT ![t] = tails[k]]
    /\ tails' = [tails EXCEPT ![k] = t]

\* previous.then(work).
WorkBegins(t) ==
    /\ phase[t] = "waiting"
    /\ phase[after[t]] = "over"
    /\ phase' = [phase EXCEPT ![t] = "running"]
    /\ UNCHANGED <<tails, key, after>>

\* The callback of tail.finally, which deletes whatever tail is there.
TailsWithout_(t) == [tails EXCEPT ![key[t]] = NoTask]
TailsWithout(t) == [tails EXCEPT ![key[t]] = IF @ = t THEN NoTask ELSE @]

WorkEnds(t) ==
    /\ phase[t] = "running"
    /\ phase' = [phase EXCEPT ![t] = "over"]
    /\ tails' = TailsWithout(t)
    /\ UNCHANGED <<key, after>>

\* activeKeyCount counts them; whenIdle returns when there is none.
ActiveKeys == {k \in Keys : tails[k] # NoTask}

ExecutorNext ==
    \/ \E t \in Tasks, k \in Keys : Run(t, k)
    \/ \E t \in Tasks : WorkBegins(t) \/ WorkEnds(t)

ExecutorSpec == ExecutorInit /\ [][ExecutorNext]_executorVars

-----------------------------------------------------------------------------
\* Nothing that is not over was before the call when it came.
Ready(t) == after[t] = NoTask \/ phase[after[t]] = "over"

\* The calls before t in its chain that are not over.
Predecessors(t) ==
    LET chain[u \in Tasks] ==
          IF Ready(u) THEN {} ELSE {after[u]} \union chain[after[u]]
    IN  chain[t]

\* The chains of promises are queues, for whoever composes the executor with work.
Queue ==
    INSTANCE KeyedQueue WITH
        stage <- phase,
        lane <- key,
        ahead <- [t \in Tasks |-> Predecessors(t)],
        busy <- ActiveKeys
=============================================================================
