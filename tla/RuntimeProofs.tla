---------------------------- MODULE RuntimeProofs ----------------------------
(***************************************************************************)
(* For any set of channels the pump dispatches one operation at a time and *)
(* a stopped pump is quiet; ApplicationRuntime keeps the rules of the      *)
(* pump, so all this holds of the whole process; and when the database     *)
(* closes nothing is under way that would write to it.                     *)
(*                                                                         *)
(* The pump is in one of three phases: no drain; a drain that awaits one   *)
(* dispatch; a drain whose loop ended and whose finally callback is due.   *)
(* draining is set in the last two.  A stop() is over only when no drain   *)
(* is, and from its first step on the pump does not run.                   *)
(*                                                                         *)
(* For the process the argument is the order of shutdown(): the server is  *)
(* closed before the pump is stopped, so the pump is started and stopped   *)
(* once; the pump is stopped before the adapter unsubscribes, and only     *)
(* then are the jobs waited for, so each stage stays as the one before it  *)
(* left it.                                                                *)
(***************************************************************************)
EXTENDS Runtime, TLAPS

-----------------------------------------------------------------------------
(* The pump. *)

NoFlight == \A c \in Channels : inFlight[c] = 0

OneFlight == \E c \in Channels :
               /\ inFlight[c] = 1
               /\ \A d \in Channels \ {c} : inFlight[d] = 0

Resting == ~draining /\ loopsEnded = 0 /\ NoFlight
Dispatching == draining /\ loopsEnded = 0 /\ OneFlight
Settling == draining /\ loopsEnded = 1 /\ NoFlight

PhaseInv == Resting \/ Dispatching \/ Settling

StopInv ==
    /\ stopping # "no" => ~running
    /\ stopping = "returned" => ~draining

PumpInv == PumpTypeOK /\ PhaseInv /\ StopInv

-----------------------------------------------------------------------------
\* Adding to the Set.
LEMMA AddToQueue ==
    ASSUME NEW queue \in Seq(Channels), NoRepetition(queue), NEW c \in Channels
    PROVE  AddTo(queue, c) \in Seq(Channels) /\ NoRepetition(AddTo(queue, c))
<1>1. CASE \E i \in DOMAIN queue : queue[i] = c
  BY <1>1 DEF AddTo
<1>2. CASE \A i \in DOMAIN queue : queue[i] # c
  <2>1. AddTo(queue, c) = Append(queue, c)
    BY <1>2 DEF AddTo
  <2>2. Append(queue, c) \in Seq(Channels)
    OBVIOUS
  <2>3. ASSUME NEW i \in DOMAIN Append(queue, c), NEW j \in DOMAIN Append(queue, c),
               Append(queue, c)[i] = Append(queue, c)[j]
        PROVE  i = j
    BY <1>2, <2>3 DEF NoRepetition
  <2> QED BY <2>1, <2>2, <2>3 DEF NoRepetition
<1> QED BY <1>1, <1>2

\* Taking the first.
LEMMA TailOfQueue ==
    ASSUME NEW queue \in Seq(Channels), NoRepetition(queue), queue # <<>>
    PROVE  /\ Head(queue) \in Channels
           /\ Tail(queue) \in Seq(Channels) /\ NoRepetition(Tail(queue))
<1>1. Head(queue) \in Channels /\ Tail(queue) \in Seq(Channels)
  OBVIOUS
<1>2. ASSUME NEW i \in DOMAIN Tail(queue), NEW j \in DOMAIN Tail(queue),
             Tail(queue)[i] = Tail(queue)[j]
      PROVE  i = j
  <2>1. /\ i + 1 \in DOMAIN queue /\ j + 1 \in DOMAIN queue
        /\ Tail(queue)[i] = queue[i + 1] /\ Tail(queue)[j] = queue[j + 1]
    OBVIOUS
  <2>2. i + 1 = j + 1
    BY <1>2, <2>1 DEF NoRepetition
  <2> QED BY <2>2
<1> QED BY <1>1, <1>2 DEF NoRepetition

LEMMA ListingIsQueue ==
    ASSUME NEW queue \in Listings
    PROVE  queue \in Seq(Channels) /\ NoRepetition(queue)
<1>1. PICK n \in 0 .. Cardinality(Channels) : queue \in [1 .. n -> Channels]
  BY DEF Listings
<1>2. n \in Nat
  BY <1>1
<1> QED BY <1>1, <1>2 DEF Listings

\* A first dispatch.
LEMMA FirstFlight ==
    ASSUME inFlight \in [Channels -> Nat], NoFlight, NEW c \in Channels,
           inFlight' = [inFlight EXCEPT ![c] = @ + 1]
    PROVE  inFlight' \in [Channels -> Nat] /\ OneFlight'
BY DEF NoFlight, OneFlight

\* The answer of the dispatch.
LEMMA LastFlight ==
    ASSUME inFlight \in [Channels -> Nat], OneFlight, NEW c \in Channels,
           inFlight[c] > 0
    PROVE  LET flights == [inFlight EXCEPT ![c] = @ - 1] IN
             /\ flights \in [Channels -> Nat]
             /\ \A d \in Channels : flights[d] = 0
<1>1. PICK e \in Channels : inFlight[e] = 1 /\ \A d \in Channels \ {e} : inFlight[d] = 0
  BY DEF OneFlight
<1>2. c = e
  BY <1>1
<1> QED BY <1>1, <1>2

-----------------------------------------------------------------------------
\* scheduleDrain keeps types and phases.
LEMMA ScheduleDrainKeeps ==
    ASSUME PumpTypeOK, PhaseInv, NEW queue \in Seq(Channels), NoRepetition(queue),
           ScheduleDrain(queue)
    PROVE  /\ queued' \in Seq(Channels) /\ NoRepetition(queued')
           /\ draining' \in BOOLEAN /\ loopsEnded' \in Nat
           /\ inFlight' \in [Channels -> Nat]
           /\ PhaseInv'
           /\ ~running' => draining' = draining
<1>1. CASE MayDrain(queue, draining)
  <2>1. /\ draining' = TRUE /\ queued' = Tail(queue) /\ loopsEnded' = loopsEnded
        /\ inFlight' = [inFlight EXCEPT ![Head(queue)] = @ + 1]
        /\ ~draining /\ queue # <<>> /\ running'
    BY <1>1 DEF ScheduleDrain, DrainLoop, MayDrain
  <2>2. Resting
    BY <2>1 DEF PhaseInv, Dispatching, Settling
  <2>3. Head(queue) \in Channels /\ Tail(queue) \in Seq(Channels) /\ NoRepetition(Tail(queue))
    BY <2>1, TailOfQueue
  <2>4. inFlight' \in [Channels -> Nat] /\ OneFlight'
    BY <2>1, <2>2, <2>3, FirstFlight DEF PumpTypeOK, Resting
  <2>5. Dispatching'
    BY <2>1, <2>2, <2>4 DEF Dispatching, Resting
  <2> QED BY <2>1, <2>2, <2>3, <2>4, <2>5 DEF PhaseInv, Resting
<1>2. CASE ~MayDrain(queue, draining)
  <2>1. queued' = queue /\ UNCHANGED <<draining, inFlight, loopsEnded>>
    BY <1>2 DEF ScheduleDrain
  <2>2. PhaseInv'
    BY <2>1 DEF PhaseInv, Resting, Dispatching, Settling, NoFlight, OneFlight
  <2> QED BY <2>1, <2>2 DEF PumpTypeOK
<1> QED BY <1>1, <1>2

LEMMA StutterKeeps ==
    ASSUME PumpInv, UNCHANGED pumpVars
    PROVE  PumpInv'
BY DEF PumpInv, PumpTypeOK, PhaseInv, StopInv, Resting, Dispatching, Settling,
       NoFlight, OneFlight, pumpVars

LEMMA WakeKeeps ==
    ASSUME PumpInv, NEW c \in Channels, Wake(c)
    PROVE  PumpInv'
<1>1. CASE ~running
  BY <1>1, StutterKeeps DEF Wake
<1>2. CASE running
  <2>1. /\ timers' = timers \ {c} /\ UNCHANGED <<astray, running, stopping>>
        /\ ScheduleDrain(AddTo(queued, c))
    BY <1>2 DEF Wake
  <2>2. AddTo(queued, c) \in Seq(Channels) /\ NoRepetition(AddTo(queued, c))
    BY AddToQueue DEF PumpInv, PumpTypeOK
  <2>3. /\ queued' \in Seq(Channels) /\ NoRepetition(queued')
        /\ draining' \in BOOLEAN /\ loopsEnded' \in Nat
        /\ inFlight' \in [Channels -> Nat] /\ PhaseInv'
    BY <2>1, <2>2, ScheduleDrainKeeps DEF PumpInv
  <2>4. NoRepetition(queued)'
    BY <2>3 DEF NoRepetition
  <2>5. PumpTypeOK'
    BY <2>1, <2>3, <2>4 DEF PumpInv, PumpTypeOK
  <2>6. StopInv'
    BY <1>2, <2>1 DEF PumpInv, StopInv
  <2> QED BY <2>3, <2>5, <2>6 DEF PumpInv
<1> QED BY <1>1, <1>2

\* The interval, and the start of a pump that was not stopped.
LEMMA WakeAllKeeps ==
    ASSUME PumpInv, stopping = "no", running' = TRUE, WakeAll,
           UNCHANGED <<timers, astray, stopping>>
    PROVE  PumpInv'
<1>1. PICK queue \in Listings : ScheduleDrain(queue)
  BY DEF WakeAll
<1>2. queue \in Seq(Channels) /\ NoRepetition(queue)
  BY ListingIsQueue
<1>3. /\ queued' \in Seq(Channels) /\ NoRepetition(queued')
      /\ draining' \in BOOLEAN /\ loopsEnded' \in Nat
      /\ inFlight' \in [Channels -> Nat] /\ PhaseInv'
  BY <1>1, <1>2, ScheduleDrainKeeps DEF PumpInv
<1>4. NoRepetition(queued)'
  BY <1>3 DEF NoRepetition
<1>5. PumpTypeOK'
  BY <1>3, <1>4 DEF PumpInv, PumpTypeOK
<1>6. StopInv'
  BY DEF PumpInv, StopInv
<1> QED BY <1>3, <1>5, <1>6 DEF PumpInv

LEMMA StrayTimerKeeps ==
    ASSUME PumpInv, NEW c \in Channels, StrayTimerFires(c)
    PROVE  PumpInv'
<1>1. /\ UNCHANGED <<running, stopping>> /\ timers' = timers \ {c}
      /\ astray' = astray \/ astray' = astray \ {c}
  BY DEF StrayTimerFires
<1>2. CASE running
  <2>1. ScheduleDrain(AddTo(queued, c))
    BY <1>2 DEF StrayTimerFires
  <2>2. AddTo(queued, c) \in Seq(Channels) /\ NoRepetition(AddTo(queued, c))
    BY AddToQueue DEF PumpInv, PumpTypeOK
  <2>3. /\ queued' \in Seq(Channels) /\ NoRepetition(queued')
        /\ draining' \in BOOLEAN /\ loopsEnded' \in Nat
        /\ inFlight' \in [Channels -> Nat] /\ PhaseInv'
    BY <2>1, <2>2, ScheduleDrainKeeps DEF PumpInv
  <2>4. NoRepetition(queued)'
    BY <2>3 DEF NoRepetition
  <2>5. PumpTypeOK'
    BY <1>1, <2>3, <2>4 DEF PumpInv, PumpTypeOK
  <2>6. StopInv'
    BY <1>1, <1>2 DEF PumpInv, StopInv
  <2> QED BY <2>3, <2>5, <2>6 DEF PumpInv
<1>3. CASE ~running
  <2>1. UNCHANGED <<queued, inFlight, loopsEnded, draining>>
    BY <1>3 DEF StrayTimerFires
  <2> QED BY <1>1, <2>1 DEF PumpInv, PumpTypeOK, PhaseInv, StopInv, Resting,
             Dispatching, Settling, NoFlight, OneFlight, NoRepetition
<1> QED BY <1>2, <1>3

\* The answer of the dispatch: the drain dispatches the next, or its loop ends.
LEMMA AnswerKeeps ==
    ASSUME PumpInv, NEW c \in Channels, NEW result \in Results, DispatchAnswers(c, result)
    PROVE  PumpInv'
<1> DEFINE queue == IF result = "delivered" THEN AddTo(queued, c) ELSE queued
           flights == [inFlight EXCEPT ![c] = @ - 1]
<1>1. /\ inFlight[c] > 0 /\ running' = running /\ UNCHANGED <<draining, stopping>>
      /\ DrainLoop(queue, flights)
  BY DEF DispatchAnswers
<1>2. timers' \subseteq Channels /\ astray' \subseteq Channels
  BY DEF DispatchAnswers, PumpInv, PumpTypeOK
<1>3. queue \in Seq(Channels) /\ NoRepetition(queue)
  BY AddToQueue DEF PumpInv, PumpTypeOK
<1>4. Dispatching
  <2>1. inFlight[c] # 0
    BY <1>1
  <2> QED BY <2>1 DEF PumpInv, PhaseInv, Resting, Settling, NoFlight
<1>5. flights \in [Channels -> Nat] /\ \A d \in Channels : flights[d] = 0
  BY <1>1, <1>4, LastFlight DEF PumpInv, PumpTypeOK, Dispatching
<1> HIDE DEF queue, flights
<1>6. CASE running' /\ queue # <<>>
  <2>1. /\ queued' = Tail(queue) /\ loopsEnded' = loopsEnded
        /\ inFlight' = [flights EXCEPT ![Head(queue)] = @ + 1]
    BY <1>1, <1>6 DEF DrainLoop
  <2>2. /\ Head(queue) \in Channels
        /\ Tail(queue) \in Seq(Channels) /\ NoRepetition(Tail(queue))
    BY <1>3, <1>6, TailOfQueue
  <2>3. inFlight' \in [Channels -> Nat] /\ OneFlight'
    BY <1>5, <2>1, <2>2 DEF OneFlight
  <2>4. PhaseInv'
    BY <1>1, <1>4, <2>1, <2>3 DEF PhaseInv, Dispatching
  <2>5. PumpTypeOK'
    BY <1>1, <1>2, <2>1, <2>2, <2>3 DEF PumpInv, PumpTypeOK, NoRepetition
  <2> QED BY <1>1, <2>4, <2>5 DEF PumpInv, StopInv
<1>7. CASE ~(running' /\ queue # <<>>)
  <2>1. queued' = queue /\ loopsEnded' = loopsEnded + 1 /\ inFlight' = flights
    BY <1>1, <1>7 DEF DrainLoop
  <2>2. PhaseInv'
    BY <1>1, <1>4, <1>5, <2>1 DEF PhaseInv, Dispatching, Settling, NoFlight
  <2>3. PumpTypeOK'
    BY <1>1, <1>2, <1>3, <1>5, <2>1 DEF PumpInv, PumpTypeOK, NoRepetition
  <2> QED BY <1>1, <2>2, <2>3 DEF PumpInv, StopInv
<1> QED BY <1>6, <1>7

LEMMA SettlingKeeps ==
    ASSUME PumpInv, DrainSettles
    PROVE  PumpInv'
<1>1. /\ loopsEnded > 0 /\ loopsEnded' = loopsEnded - 1
      /\ UNCHANGED <<running, timers, astray>> /\ LookAgain(queued)
      /\ stopping' = IF stopping = "waiting" THEN "returned" ELSE stopping
  BY DEF DrainSettles
<1>2. Settling
  BY <1>1 DEF PumpInv, PhaseInv, Resting, Dispatching
<1>3. CASE MayDrain(queued, FALSE)
  <2>1. /\ draining' = TRUE /\ queued' = Tail(queued) /\ queued # <<>> /\ running'
        /\ inFlight' = [inFlight EXCEPT ![Head(queued)] = @ + 1]
    BY <1>1, <1>3 DEF LookAgain, MayDrain
  <2>2. /\ Head(queued) \in Channels
        /\ Tail(queued) \in Seq(Channels) /\ NoRepetition(Tail(queued))
    BY <2>1, TailOfQueue DEF PumpInv, PumpTypeOK
  <2>3. inFlight' \in [Channels -> Nat] /\ OneFlight'
    BY <1>2, <2>1, <2>2, FirstFlight DEF PumpInv, PumpTypeOK, Settling
  <2>4. PhaseInv'
    BY <1>1, <1>2, <2>1, <2>3 DEF PhaseInv, Dispatching, Settling
  <2>5. PumpTypeOK'
    BY <1>1, <1>2, <2>1, <2>2, <2>3 DEF PumpInv, PumpTypeOK, NoRepetition, Settling
  <2>6. stopping = "no"
    BY <1>1, <2>1 DEF PumpInv, StopInv, PumpTypeOK
  <2> QED BY <1>1, <2>4, <2>5, <2>6 DEF PumpInv, StopInv
<1>4. CASE ~MayDrain(queued, FALSE)
  <2>1. draining' = FALSE /\ UNCHANGED <<queued, inFlight>>
    BY <1>1, <1>4 DEF LookAgain
  <2>2. PhaseInv'
    BY <1>1, <1>2, <2>1 DEF PhaseInv, Resting, Settling, NoFlight
  <2>3. PumpTypeOK'
    <3>1. queued' \in Seq(Channels) /\ NoRepetition(queued)'
      BY <2>1 DEF PumpInv, PumpTypeOK, NoRepetition
    <3>2. stopping' \in {"no", "waiting", "returned"}
      BY <1>1 DEF PumpInv, PumpTypeOK
    <3>3. loopsEnded' \in Nat
      BY <1>1, <1>2 DEF Settling
    <3>4. /\ UNCHANGED <<running, timers, astray, inFlight>>
          /\ draining' \in BOOLEAN
      BY <1>1, <2>1
    <3> QED BY <3>1, <3>2, <3>3, <3>4 DEF PumpInv, PumpTypeOK
  <2> QED BY <1>1, <2>1, <2>2, <2>3 DEF PumpInv, StopInv
<1> QED BY <1>3, <1>4

LEMMA StopKeeps ==
    ASSUME PumpInv, PumpStop
    PROVE  PumpInv'
<1>1. /\ running' = FALSE /\ timers' = {}
      /\ UNCHANGED <<queued, astray, draining, inFlight, loopsEnded>>
      /\ stopping' = IF draining THEN "waiting" ELSE "returned"
  BY DEF PumpStop, AwaitDrain
<1>2. PumpTypeOK'
  BY <1>1 DEF PumpInv, PumpTypeOK, NoRepetition
<1>3. PhaseInv'
  BY <1>1 DEF PumpInv, PhaseInv, Resting, Dispatching, Settling, NoFlight, OneFlight
<1>4. StopInv'
  <2>1. CASE draining
    BY <1>1, <2>1 DEF StopInv
  <2>2. CASE ~draining
    BY <1>1, <2>2 DEF StopInv
  <2> QED BY <2>1, <2>2
<1> QED BY <1>2, <1>3, <1>4 DEF PumpInv

-----------------------------------------------------------------------------
LEMMA PumpStepKeeps ==
    ASSUME PumpInv, PumpStep
    PROVE  PumpInv'
<1>1. ASSUME NEW c \in Channels, NEW result \in Results, DispatchAnswers(c, result)
      PROVE  PumpInv'
  BY <1>1, AnswerKeeps
<1>2. CASE DrainSettles
  BY <1>2, SettlingKeeps
<1>3. ASSUME NEW c \in Channels, TimerFires(c)
      PROVE  PumpInv'
  BY <1>3, WakeKeeps DEF TimerFires
<1>4. ASSUME NEW c \in Channels, StrayTimerFires(c)
      PROVE  PumpInv'
  BY <1>4, StrayTimerKeeps
<1>5. CASE IntervalFires
  <2>1. stopping = "no" /\ running' = TRUE
    BY <1>5 DEF IntervalFires, PumpInv, StopInv, PumpTypeOK
  <2> QED BY <1>5, <2>1, WakeAllKeeps DEF IntervalFires
<1> QED BY <1>1, <1>2, <1>3, <1>4, <1>5 DEF PumpStep

THEOREM PumpInvariant == PumpSpec => []PumpInv
<1>1. PumpInit => PumpInv
  <2> SUFFICES ASSUME PumpInit
               PROVE  PumpInv
    OBVIOUS
  <2>1. queued \in Seq(Channels) /\ NoRepetition(queued)
    BY DEF PumpInit, NoRepetition
  <2>2. PumpTypeOK
    BY <2>1 DEF PumpInit, PumpTypeOK
  <2>3. PhaseInv
    BY DEF PumpInit, PhaseInv, Resting, NoFlight
  <2>4. StopInv
    BY DEF PumpInit, StopInv
  <2> QED BY <2>2, <2>3, <2>4 DEF PumpInv
<1>2. PumpInv /\ [PumpNext]_pumpVars => PumpInv'
  <2> SUFFICES ASSUME PumpInv, [PumpNext]_pumpVars
               PROVE  PumpInv'
    OBVIOUS
  <2>1. CASE PumpStep
    BY <2>1, PumpStepKeeps
  <2>2. CASE stopping = "no" /\ PumpStart
    <3>1. CASE running
      BY <2>2, <3>1, StutterKeeps DEF PumpStart
    <3>2. CASE ~running
      BY <2>2, <3>2, WakeAllKeeps DEF PumpStart
    <3> QED BY <3>1, <3>2
  <2>3. ASSUME NEW c \in Channels, Wake(c)
        PROVE  PumpInv'
    BY <2>3, WakeKeeps
  <2>4. CASE PumpStop
    BY <2>4, StopKeeps
  <2>5. CASE UNCHANGED pumpVars
    BY <2>5, StutterKeeps
  <2> QED BY <2>1, <2>2, <2>3, <2>4, <2>5 DEF PumpNext
<1> QED BY <1>1, <1>2, PTL DEF PumpSpec

\* queued stays a set of channels, whatever wakes and answers come.
THEOREM PumpTypeCorrect == PumpSpec => []PumpTypeOK
<1>1. PumpInv => PumpTypeOK
  BY DEF PumpInv
<1> QED BY <1>1, PumpInvariant, PTL

\* Never are two operations dispatched at a time, for any number of channels,
\* timers and wakes.
THEOREM PumpDispatchesOne == PumpSpec => []OneDispatchAtATime
<1>1. PumpInv => OneDispatchAtATime
  BY DEF PumpInv, PhaseInv, PumpTypeOK, OneDispatchAtATime, Resting, Dispatching,
         Settling, NoFlight, OneFlight
<1> QED BY <1>1, PumpInvariant, PTL

\* Once stop() has returned nothing is under way.
THEOREM PumpStopsQuietly == PumpSpec => []StoppedIsQuiet
<1>1. PumpInv => StoppedIsQuiet
  BY DEF PumpInv, PhaseInv, StopInv, StoppedIsQuiet, Resting, Dispatching, Settling,
         NoFlight
<1> QED BY <1>1, PumpInvariant, PTL

-----------------------------------------------------------------------------
(* The process. *)

\* How far the server and the pump are when shutdown() is where it is.
OrderInv ==
    /\ shutAt = "no" <=> http # "closed"
    /\ shutAt \in {"no", "http"} => stopping = "no"
    /\ shutAt \in {"drain", "drained", "closed"} => stopping = "returned"

\* What is over by then, and stays over.
WorkInv ==
    /\ startAt = "reconcile" => jobs > 0
    /\ shutAt \in {"pump", "drain", "drained", "closed"} => requests = 0
    /\ shutAt \in {"drain", "drained", "closed"} => ~subscribed
    /\ shutAt \in {"drained", "closed"} => OtherJobs = 0

RuntimeInv == StagesOK /\ OrderInv /\ WorkInv

-----------------------------------------------------------------------------
\* Each step of the process is one of the pump's, or leaves the pump alone.
LEMMA StepIsPumpStep ==
    ASSUME OrderInv, [Next]_vars
    PROVE  [PumpNext]_pumpVars
<1>1. CASE Start
  <2>1. CASE ListenAnswers
    <3>1. CASE http = "closed"
      BY <2>1, <3>1 DEF ListenAnswers
    <3>2. CASE http # "closed"
      <4>1. PumpStart /\ stopping = "no"
        BY <2>1, <3>2 DEF ListenAnswers, OrderInv
      <4> QED BY <4>1 DEF PumpNext
    <3> QED BY <3>1, <3>2
  <2>2. CASE ConnectAnswers \/ ReconcileEnds \/ PendingAnswers \/ StartThrows
    BY <2>2 DEF ConnectAnswers, ReconcileEnds, PendingAnswers, StartThrows
  <2> QED BY <1>1, <2>1, <2>2 DEF Start
<1>2. CASE Shutdown
  <2>1. CASE HttpCloses
    <3>1. PumpStop /\ stopping = "no"
      BY <2>1 DEF HttpCloses, OrderInv
    <3> QED BY <3>1 DEF PumpNext
  <2>2. CASE PumpStopped \/ WorkDrained \/ DatabaseCloses
    BY <2>2 DEF PumpStopped, WorkDrained, DatabaseCloses
  <2> QED BY <1>2, <2>1, <2>2 DEF Shutdown
<1>3. CASE JobEnds \/ RequestEnds \/ Flush \/ FlushedEnds
  <2>1. Woken \/ UNCHANGED pumpVars
    BY <1>3 DEF JobEnds, RequestEnds, Flush, FlushedEnds
  <2> QED BY <2>1 DEF Woken, PumpNext
<1>4. CASE PumpRuns
  BY <1>4 DEF PumpRuns, PumpNext
<1>5. CASE ShutdownBegins \/ JobArrives \/ ReconnectEnds \/ RequestArrives
  BY <1>5 DEF ShutdownBegins, JobArrives, ReconnectEnds, RequestArrives
<1>6. CASE UNCHANGED vars
  BY <1>6 DEF vars, pumpVars
<1> QED BY <1>1, <1>2, <1>3, <1>4, <1>5, <1>6 DEF Next

\* A wake stops nothing.
LEMMA WokenLeavesStopping ==
    ASSUME Woken \/ UNCHANGED pumpVars
    PROVE  stopping' = stopping
BY DEF Woken, Wake, pumpVars

\* Nor does the pump, except that a stop() which waits may return.
LEMMA PumpStepStopping ==
    ASSUME PumpStep
    PROVE  stopping' = stopping \/ (stopping = "waiting" /\ stopping' = "returned")
<1>1. ASSUME NEW c \in Channels, NEW result \in Results, DispatchAnswers(c, result)
      PROVE  stopping' = stopping
  BY <1>1 DEF DispatchAnswers
<1>2. CASE DrainSettles
  BY <1>2 DEF DrainSettles
<1>3. ASSUME NEW c \in Channels, TimerFires(c)
      PROVE  stopping' = stopping
  BY <1>3 DEF TimerFires, Wake, pumpVars
<1>4. ASSUME NEW c \in Channels, StrayTimerFires(c)
      PROVE  stopping' = stopping
  BY <1>4 DEF StrayTimerFires
<1>5. CASE IntervalFires
  BY <1>5 DEF IntervalFires
<1> QED BY <1>1, <1>2, <1>3, <1>4, <1>5 DEF PumpStep

\* dispatchPending's list is one of channels, and start() is in the dispatches
\* exactly while some are left.
LEMMA DispatchRestKeeps ==
    ASSUME NEW channels \in Seq(Channels), DispatchRest(channels)
    PROVE  /\ pending' \in Seq(Channels)
           /\ startAt' \in {"dispatch", "listen"}
           /\ startAt' = "dispatch" <=> pending' # <<>>
BY DEF DispatchRest

LEMMA BeginDispatchKeeps ==
    ASSUME BeginDispatch
    PROVE  /\ pending' \in Seq(Channels)
           /\ startAt' \in {"dispatch", "listen", "failed"}
           /\ startAt' = "dispatch" <=> pending' # <<>>
<1>1. CASE DatabaseClosed
  BY <1>1 DEF BeginDispatch, StartFails
<1>2. CASE ~DatabaseClosed
  <2>1. PICK listing \in Listings : DispatchRest(listing)
    BY <1>2 DEF BeginDispatch
  <2>2. listing \in Seq(Channels)
    BY ListingIsQueue
  <2> QED BY <2>1, <2>2, DispatchRestKeeps
<1> QED BY <1>1, <1>2

-----------------------------------------------------------------------------
LEMMA StartKeeps ==
    ASSUME RuntimeInv, Start
    PROVE  RuntimeInv'
<1>1. CASE ConnectAnswers
  <2>1. CASE BeginDispatch /\ UNCHANGED jobs
    <3>1. /\ pending' \in Seq(Channels)
          /\ startAt' \in {"dispatch", "listen", "failed"}
          /\ startAt' = "dispatch" <=> pending' # <<>>
      BY <2>1, BeginDispatchKeeps
    <3> QED BY <1>1, <2>1, <3>1, MaxJobsAssumption, MaxRequestsAssumption
            DEF ConnectAnswers, RuntimeInv, StagesOK, OrderInv, WorkInv, OtherJobs,
                adapterVars, pumpVars
  <2>2. CASE startAt' = "reconcile" /\ jobs < MaxJobs /\ jobs' = jobs + 1 /\ UNCHANGED pending
    BY <1>1, <2>2, MaxJobsAssumption, MaxRequestsAssumption
       DEF ConnectAnswers, RuntimeInv, StagesOK, OrderInv, WorkInv, OtherJobs,
           adapterVars, pumpVars
  <2> QED BY <1>1, <2>1, <2>2 DEF ConnectAnswers
<1>2. CASE ReconcileEnds
  <2>1. /\ pending' \in Seq(Channels)
        /\ startAt' \in {"dispatch", "listen", "failed"}
        /\ startAt' = "dispatch" <=> pending' # <<>>
    BY <1>2, BeginDispatchKeeps DEF ReconcileEnds
  <2> QED BY <1>2, <2>1, MaxJobsAssumption, MaxRequestsAssumption
          DEF ReconcileEnds, RuntimeInv, StagesOK, OrderInv, WorkInv, OtherJobs,
              adapterVars, pumpVars
<1>3. CASE PendingAnswers
  <2>1. /\ pending' \in Seq(Channels)
        /\ startAt' \in {"dispatch", "listen", "failed"}
        /\ startAt' = "dispatch" <=> pending' # <<>>
    <3>1. pending \in Seq(Channels) /\ pending # <<>> /\ startAt = "dispatch"
      BY <1>3 DEF PendingAnswers, RuntimeInv, StagesOK
    <3>2. Tail(pending) \in Seq(Channels)
      BY <3>1
    <3>3. CASE StartFails
      BY <3>3 DEF StartFails
    <3>4. CASE UNCHANGED <<startAt, pending>>
      BY <3>1, <3>4
    <3>5. CASE DispatchRest(Tail(pending))
      BY <3>2, <3>5, DispatchRestKeeps
    <3> QED BY <1>3, <3>3, <3>4, <3>5 DEF PendingAnswers
  <2>2. startAt = "dispatch" /\ UNCHANGED <<shutAt, http, jobs, requests, adapterVars, pumpVars>>
    BY <1>3 DEF PendingAnswers
  <2> QED BY <2>1, <2>2, MaxJobsAssumption, MaxRequestsAssumption
          DEF RuntimeInv, StagesOK, OrderInv, WorkInv, OtherJobs, adapterVars, pumpVars
<1>4. CASE ListenAnswers
  <2>1. CASE http = "closed"
    BY <1>4, <2>1 DEF ListenAnswers, StartFails, RuntimeInv, StagesOK, OrderInv, WorkInv,
                      OtherJobs, pumpVars
  <2>2. CASE http # "closed"
    <3>1. stopping' = stopping
      BY <1>4, <2>2 DEF ListenAnswers, PumpStart, pumpVars
    <3>2. /\ http' = "listening" /\ subscribed' = TRUE /\ startAt' = "started"
          /\ startAt = "listen" /\ shutAt = "no"
          /\ UNCHANGED <<pending, shutAt, jobs, requests, flushDue, flushed>>
      BY <1>4, <2>2 DEF ListenAnswers, RuntimeInv, OrderInv
    <3> QED BY <3>1, <3>2 DEF RuntimeInv, StagesOK, OrderInv, WorkInv, OtherJobs
  <2> QED BY <2>1, <2>2
<1>5. CASE StartThrows
  BY <1>5, MaxJobsAssumption, MaxRequestsAssumption
     DEF StartThrows, StartFails, RuntimeInv, StagesOK, OrderInv, WorkInv, OtherJobs,
         adapterVars, pumpVars
<1> QED BY <1>1, <1>2, <1>3, <1>4, <1>5 DEF Start

LEMMA ShutdownKeeps ==
    ASSUME RuntimeInv, ShutdownBegins \/ Shutdown
    PROVE  RuntimeInv'
<1> USE MaxJobsAssumption, MaxRequestsAssumption
<1>1. CASE ShutdownBegins
  BY <1>1 DEF ShutdownBegins, RuntimeInv, StagesOK, OrderInv, WorkInv, OtherJobs,
              adapterVars, pumpVars
<1>2. CASE HttpCloses
  BY <1>2 DEF HttpCloses, PumpStop, RuntimeInv, StagesOK, OrderInv, WorkInv, OtherJobs,
              adapterVars
<1>3. CASE PumpStopped
  BY <1>3 DEF PumpStopped, Subscription, RuntimeInv, StagesOK, OrderInv, WorkInv,
              OtherJobs, pumpVars
<1>4. CASE WorkDrained
  BY <1>4 DEF WorkDrained, WorkIsDrained, RuntimeInv, StagesOK, OrderInv, WorkInv,
              OtherJobs, adapterVars, pumpVars
<1>5. CASE DatabaseCloses
  BY <1>5 DEF DatabaseCloses, RuntimeInv, StagesOK, OrderInv, WorkInv, OtherJobs,
              adapterVars, pumpVars
<1> QED BY <1>1, <1>2, <1>3, <1>4, <1>5 DEF Shutdown

LEMMA WorkKeeps ==
    ASSUME RuntimeInv,
           \/ JobArrives \/ JobEnds \/ RequestArrives \/ RequestEnds
           \/ ReconnectEnds \/ Flush \/ FlushedEnds
    PROVE  RuntimeInv'
<1> USE MaxJobsAssumption, MaxRequestsAssumption
<1>1. CASE JobArrives
  BY <1>1 DEF JobArrives, RuntimeInv, StagesOK, OrderInv, WorkInv, OtherJobs,
              adapterVars, pumpVars
<1>2. CASE JobEnds
  <2>1. stopping' = stopping
    BY <1>2, WokenLeavesStopping DEF JobEnds
  <2> QED BY <1>2, <2>1 DEF JobEnds, RuntimeInv, StagesOK, OrderInv, WorkInv, OtherJobs,
                            adapterVars
<1>3. CASE RequestArrives
  BY <1>3 DEF RequestArrives, RuntimeInv, StagesOK, OrderInv, WorkInv, OtherJobs,
              adapterVars, pumpVars
<1>4. CASE RequestEnds
  <2>1. stopping' = stopping
    BY <1>4, WokenLeavesStopping DEF RequestEnds
  <2> QED BY <1>4, <2>1 DEF RequestEnds, RuntimeInv, StagesOK, OrderInv, WorkInv,
                            OtherJobs, adapterVars
<1>5. CASE ReconnectEnds
  BY <1>5 DEF ReconnectEnds, RuntimeInv, StagesOK, OrderInv, WorkInv, OtherJobs, pumpVars
<1>6. CASE Flush
  <2>1. stopping' = stopping
    BY <1>6, WokenLeavesStopping DEF Flush
  <2>2. flushed' \in 0 .. MaxJobs
    <3>1. PICK n \in flushed .. MaxJobs : flushed' = n
      BY <1>6 DEF Flush
    <3>2. flushed \in Nat
      BY DEF RuntimeInv, StagesOK
    <3> QED BY <3>1, <3>2
  <2>3. /\ flushDue' = FALSE
        /\ UNCHANGED <<startAt, pending, shutAt, http, jobs, requests, subscribed>>
    BY <1>6 DEF Flush
  <2> QED BY <2>1, <2>2, <2>3 DEF RuntimeInv, StagesOK, OrderInv, WorkInv, OtherJobs
<1>7. CASE FlushedEnds
  <2>1. stopping' = stopping
    BY <1>7, WokenLeavesStopping DEF FlushedEnds
  <2> QED BY <1>7, <2>1 DEF FlushedEnds, RuntimeInv, StagesOK, OrderInv, WorkInv, OtherJobs
<1> QED BY <1>1, <1>2, <1>3, <1>4, <1>5, <1>6, <1>7

LEMMA PumpRunsKeeps ==
    ASSUME RuntimeInv, PumpRuns
    PROVE  RuntimeInv'
<1>1. stopping' = stopping \/ (stopping = "waiting" /\ stopping' = "returned")
  BY PumpStepStopping DEF PumpRuns
<1> QED BY <1>1 DEF PumpRuns, RuntimeInv, StagesOK, OrderInv, WorkInv, OtherJobs, adapterVars

\* The parts of shutdown() are over in their order, in every state.
THEOREM RuntimeInvariant == Spec => []RuntimeInv
<1>1. Init => RuntimeInv
  <2> SUFFICES ASSUME Init
               PROVE  RuntimeInv
    OBVIOUS
  <2>1. pending \in Seq(Channels) /\ pending = <<>>
    BY DEF Init
  <2>2. jobs \in 0 .. MaxJobs /\ requests \in 0 .. MaxRequests /\ flushed \in 0 .. MaxJobs
    BY MaxJobsAssumption, MaxRequestsAssumption DEF Init
  <2>3. StagesOK
    BY <2>1, <2>2 DEF Init, StagesOK
  <2>4. OrderInv /\ WorkInv
    BY DEF Init, PumpInit, OrderInv, WorkInv
  <2> QED BY <2>3, <2>4 DEF RuntimeInv
<1>2. RuntimeInv /\ [Next]_vars => RuntimeInv'
  <2> SUFFICES ASSUME RuntimeInv, [Next]_vars
               PROVE  RuntimeInv'
    OBVIOUS
  <2>1. CASE UNCHANGED vars
    BY <2>1 DEF RuntimeInv, StagesOK, OrderInv, WorkInv, OtherJobs, vars, adapterVars,
                pumpVars
  <2> QED BY <2>1, StartKeeps, ShutdownKeeps, WorkKeeps, PumpRunsKeeps DEF Next
<1> QED BY <1>1, <1>2, PTL DEF Spec

-----------------------------------------------------------------------------
\* The process implements the pump's specification: start() starts the pump at
\* most once, and not after shutdown() stopped it.
THEOREM RuntimeImplementsPump == Spec => PumpSpec
<1>1. Init => PumpInit
  BY DEF Init
<1>2. RuntimeInv /\ [Next]_vars => [PumpNext]_pumpVars
  BY StepIsPumpStep DEF RuntimeInv
<1> QED BY <1>1, <1>2, RuntimeInvariant, PTL DEF Spec, PumpSpec

\* The type invariant, for any number of channels, jobs and requests; queued stays
\* a set of channels, whatever wakes and answers come.
THEOREM RuntimeTypeCorrect == Spec => []TypeOK
<1>1. RuntimeInv /\ PumpInv => TypeOK
  BY DEF RuntimeInv, PumpInv, TypeOK
<1> QED BY <1>1, RuntimeInvariant, RuntimeImplementsPump, PumpInvariant, PTL

\* The process never dispatches two operations at a time.
THEOREM RuntimeDispatchesOne == Spec => []OneDispatchAtATime
BY RuntimeImplementsPump, PumpDispatchesOne, PTL

\* The database is closed under nobody's feet but start()'s.
THEOREM RuntimeClosesQuietly == Spec => []QuietWhenClosed
<1>1. RuntimeInv /\ PumpInv => QuietWhenClosed
  <2> SUFFICES ASSUME RuntimeInv, PumpInv, DatabaseClosed
               PROVE  /\ OtherJobs = 0 /\ requests = 0
                      /\ ~running /\ \A c \in Channels : inFlight[c] = 0
    BY DEF QuietWhenClosed
  <2>1. OtherJobs = 0 /\ requests = 0 /\ stopping = "returned"
    BY DEF RuntimeInv, OrderInv, WorkInv, DatabaseClosed
  <2>2. ~running /\ ~draining
    BY <2>1 DEF PumpInv, StopInv
  <2>3. \A c \in Channels : inFlight[c] = 0
    BY <2>2 DEF PumpInv, PhaseInv, Resting, Dispatching, Settling, NoFlight
  <2> QED BY <2>1, <2>2, <2>3
<1> QED BY <1>1, RuntimeInvariant, RuntimeImplementsPump, PumpInvariant, PTL
=============================================================================
