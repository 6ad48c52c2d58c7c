----------------------------- MODULE OutboxPump -----------------------------
(***************************************************************************)
(* src/application/outbox-pump.ts: which channel is dispatched next, and   *)
(* when.  Channels wait in queued, a Set in insertion order; a drain takes *)
(* them one by one and awaits the dispatcher; a retry is a timer; an       *)
(* interval wakes every channel with unresolved work each second.          *)
(*                                                                         *)
(* A step is what runs between two awaits.  drain() is async: when its     *)
(* loop ends, the finally callback that clears draining and looks at the   *)
(* queue again is a later microtask (DrainSettles), and a wake may come    *)
(* between.                                                                *)
(*                                                                         *)
(* scheduleRetry stores its timer over an earlier one of the channel and   *)
(* does not clear that one: it still fires (astray).  How many of them a   *)
(* channel has is left open.                                               *)
(*                                                                         *)
(* The dispatcher's answer is left open; it is the subject of Outbox.      *)
(*                                                                         *)
(* A definition whose name ends in _ is a faulty variant of the one after  *)
(* it; see GameRules.                                                      *)
(***************************************************************************)
EXTENDS Integers, Sequences, FiniteSets

CONSTANT Channels

ASSUME ChannelsAssumption == IsFiniteSet(Channels)

VARIABLES
    queued,         \* the Set queued, in insertion order
    timers,         \* the channels with a timer in retryTimers
    astray,         \* the channels with a timer that is no longer there
    running,
    draining,       \* the field draining is set
    inFlight,       \* dispatches under way for each channel
    loopsEnded,     \* drains whose finally callback has still to run
    stopping        \* how far stop() is

pumpVars == <<queued, timers, astray, running, draining, inFlight, loopsEnded, stopping>>

Queued == {queued[i] : i \in DOMAIN queued}

NoRepetition(seq) == \A i, j \in DOMAIN seq : seq[i] = seq[j] => i = j

\* The sequences of channels without repetition.
Listings == {seq \in UNION {[1 .. n -> Channels] : n \in 0 .. Cardinality(Channels)} :
               NoRepetition(seq)}

PumpTypeOK ==
    /\ queued \in Seq(Channels) /\ NoRepetition(queued)
    /\ timers \subseteq Channels /\ astray \subseteq Channels
    /\ running \in BOOLEAN /\ draining \in BOOLEAN
    /\ inFlight \in [Channels -> Nat] /\ loopsEnded \in Nat
    /\ stopping \in {"no", "waiting", "returned"}

PumpInit ==
    /\ queued = <<>> /\ timers = {} /\ astray = {}
    /\ running = FALSE /\ draining = FALSE
    /\ inFlight = [c \in Channels |-> 0] /\ loopsEnded = 0
    /\ stopping = "no"

-----------------------------------------------------------------------------
\* Set.add appends a channel that is not yet there.
AddTo_(queue, c) == Append(queue, c)
AddTo(queue, c) ==
    IF \E i \in DOMAIN queue : queue[i] = c THEN queue ELSE Append(queue, c)

\* A drain at the head of its loop with these channels queued: it dispatches the
\* first, or its loop ends.  flights is inFlight without the dispatch it awaited.
DrainLoop(queue, flights) ==
    IF running' /\ queue # <<>>
      THEN /\ queued' = Tail(queue)
           /\ inFlight' = [flights EXCEPT ![Head(queue)] = @ + 1]
           /\ UNCHANGED loopsEnded
      ELSE /\ queued' = queue
           /\ inFlight' = flights
           /\ loopsEnded' = loopsEnded + 1

\* scheduleDrain with these channels queued.
MayDrain_(queue, drainingNow) == running' /\ queue # <<>>
MayDrain(queue, drainingNow) == running' /\ ~drainingNow /\ queue # <<>>

ScheduleDrain(queue) ==
    IF MayDrain(queue, draining)
      THEN draining' = TRUE /\ DrainLoop(queue, inFlight)
      ELSE /\ queued' = queue
           /\ UNCHANGED <<draining, inFlight, loopsEnded>>

\* wake, from a game operation, an administrator or a reconnect.
Wake(c) ==
    IF running
      THEN /\ timers' = timers \ {c}
           /\ UNCHANGED <<astray, running, stopping>>
           /\ ScheduleDrain(AddTo(queued, c))
      ELSE UNCHANGED pumpVars

\* wakeAll: whichever channels have unresolved work, and in whatever order they
\* are listed, those not yet queued are added behind the others.
WakeAll ==
    \E queue \in Listings :
      /\ Len(queue) >= Len(queued) /\ \A i \in DOMAIN queued : queue[i] = queued[i]
      /\ ScheduleDrain(queue)

\* The interval's callback; stop() cleared the interval.
IntervalFires ==
    /\ running
    /\ UNCHANGED <<timers, astray, running, stopping>>
    /\ WakeAll

PumpStart ==
    IF running
      THEN UNCHANGED pumpVars
      ELSE /\ running' = TRUE
           /\ WakeAll
           /\ UNCHANGED <<timers, astray, stopping>>

\* The timer in retryTimers fires, removes itself and wakes the channel.  stop()
\* cleared it, so the pump runs.
TimerFires(c) ==
    /\ c \in timers
    /\ Wake(c)

\* An overwritten timer fires.  It removes the entry of the timer that replaced
\* it, which then is astray itself.
StrayTimerFires(c) ==
    /\ c \in astray
    /\ UNCHANGED <<running, stopping>>
    /\ timers' = timers \ {c}
    /\ \/ UNCHANGED astray
       \/ c \notin timers /\ astray' = astray \ {c}
    /\ IF running THEN ScheduleDrain(AddTo(queued, c))
                  ELSE UNCHANGED <<queued, inFlight, loopsEnded, draining>>

\* The dispatcher answers (or throws, which is treated as a retry in a second).
\* After a delivery the channel goes to the end of the queue.
DispatchAnswers(c, result) ==
    /\ inFlight[c] > 0
    /\ UNCHANGED running
    /\ DrainLoop(IF result = "delivered" THEN AddTo(queued, c) ELSE queued,
                 [inFlight EXCEPT ![c] = @ - 1])
    /\ IF result = "retry" /\ running
         THEN /\ timers' = timers \cup {c}
              /\ astray' = IF c \in timers THEN astray \cup {c} ELSE astray
         ELSE UNCHANGED <<timers, astray>>
    /\ UNCHANGED <<draining, stopping>>

\* The finally callback of a drain; a stop() that awaits the drain returns.
LookAgain_(queue) == draining' = FALSE /\ UNCHANGED <<queued, inFlight>>
LookAgain(queue) ==
    IF MayDrain(queue, FALSE)
      THEN /\ draining' = TRUE
           /\ queued' = Tail(queue)
           /\ inFlight' = [inFlight EXCEPT ![Head(queue)] = @ + 1]
      ELSE draining' = FALSE /\ UNCHANGED <<queued, inFlight>>

DrainSettles ==
    /\ loopsEnded > 0
    /\ loopsEnded' = loopsEnded - 1
    /\ UNCHANGED running
    /\ LookAgain(queued)
    /\ stopping' = IF stopping = "waiting" THEN "returned" ELSE stopping
    /\ UNCHANGED <<timers, astray>>

\* stop() awaits the drain under way.
AwaitDrain_ == "returned"
AwaitDrain == IF draining THEN "waiting" ELSE "returned"

PumpStop ==
    /\ running' = FALSE
    /\ timers' = {}
    /\ stopping' = AwaitDrain
    /\ UNCHANGED <<queued, astray, draining, inFlight, loopsEnded>>

-----------------------------------------------------------------------------
Results == {"delivered", "retry", "nothing"}

\* What the pump does by itself.
PumpStep ==
    \/ \E c \in Channels, result \in Results : DispatchAnswers(c, result)
    \/ DrainSettles
    \/ \E c \in Channels : TimerFires(c) \/ StrayTimerFires(c)
    \/ IntervalFires

\* The pump is started once and stopped once; others call wake.  Runtime composes
\* it with those others.
PumpNext ==
    \/ PumpStep
    \/ stopping = "no" /\ PumpStart
    \/ \E c \in Channels : Wake(c)
    \/ stopping = "no" /\ PumpStop

PumpSpec == PumpInit /\ [][PumpNext]_pumpVars

-----------------------------------------------------------------------------
(* Properties. *)

\* One dispatch at a time, of all channels: the dispatcher relies on it, for two
\* of one channel would claim, send and record the same operation.
OneDispatchAtATime ==
    /\ \A c, d \in Channels : inFlight[c] > 0 /\ inFlight[d] > 0 => c = d
    /\ \A c \in Channels : inFlight[c] <= 1

\* When stop() has returned no dispatch is under way, and none will be: the
\* database is closed next.
StoppedIsQuiet ==
    stopping = "returned" => \A c \in Channels : inFlight[c] = 0

\* A channel that was woken, or whose retry is scheduled, is dispatched without
\* the help of the interval, however much work the other channels have.
WakeIsServed ==
    \A c \in Channels : c \in Queued \cup timers ~> inFlight[c] > 0 \/ ~running
=============================================================================
