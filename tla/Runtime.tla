------------------------------- MODULE Runtime -------------------------------
(***************************************************************************)
(* ApplicationRuntime (src/main.ts): the order in which the process starts *)
(* and stops its parts, composed with the outbox pump (OutboxPump).        *)
(*                                                                         *)
(* start() and shutdown() are two asynchronous functions, and a signal or  *)
(* the launcher's shutdown line may begin the second while the first still *)
(* waits for Discord: main() installs both handlers before it calls        *)
(* start().  A step is what runs between two awaits.                       *)
(*                                                                         *)
(* Of the serial executor only the number of jobs under way or queued      *)
(* matters here (whenIdle waits for all), of the administration server the *)
(* requests under way (server.close waits for all and lets no new one in). *)
(* Both may come at any time while the adapter is subscribed, respectively *)
(* the server listens, and each may wake the pump.                         *)
(*                                                                         *)
(* A reconnect ends after its job: its continuation flushes the adapter's  *)
(* buffer into the executor, also when the adapter has unsubscribed.  It   *)
(* runs some microtasks later, after whenIdle has seen the executor empty  *)
(* but before shutdown() closes the database.                              *)
(*                                                                         *)
(* A definition whose name ends in _ is a faulty variant of the one after  *)
(* it; see GameRules.                                                      *)
(***************************************************************************)
EXTENDS OutboxPump

CONSTANTS
    MaxJobs,        \* bound on the executor's jobs at a time
    MaxRequests     \* bound on the server's requests at a time

ASSUME MaxJobsAssumption == MaxJobs \in Nat \ {0}
ASSUME MaxRequestsAssumption == MaxRequests \in Nat

VARIABLES
    startAt,        \* where start() is
    pending,        \* the channels dispatchPending has still to dispatch; it
                    \* awaits a dispatch of the first
    shutAt,         \* where shutdown() is
    http,           \* the administration server
    subscribed,     \* the adapter hears the gateway
    jobs,           \* jobs of the executor
    requests,       \* requests of the server
    flushDue,       \* the continuation of a reconnect is due
    flushed         \* messages it gave to the executor

adapterVars == <<subscribed, flushDue, flushed>>
vars == <<startAt, pending, shutAt, http, jobs, requests, adapterVars, pumpVars>>

StagesOK ==
    /\ startAt \in {"connect", "reconcile", "dispatch", "listen", "started", "failed"}
    /\ pending \in Seq(Channels)
    /\ startAt = "dispatch" <=> pending # <<>>
    /\ shutAt \in {"no", "http", "pump", "drain", "drained", "closed"}
    /\ http \in {"down", "listening", "closed"}
    /\ subscribed \in BOOLEAN
    /\ jobs \in 0 .. MaxJobs /\ requests \in 0 .. MaxRequests
    /\ flushDue \in BOOLEAN /\ flushed \in 0 .. MaxJobs

TypeOK == PumpTypeOK /\ StagesOK

\* start() has migrated, read the active round's channel, subscribed the adapter
\* and awaits the connection.
Init ==
    /\ PumpInit
    /\ startAt = "connect" /\ pending = <<>>
    /\ shutAt = "no" /\ http = "down"
    /\ subscribed = TRUE
    /\ jobs = 0 /\ requests = 0
    /\ flushDue = FALSE /\ flushed = 0

-----------------------------------------------------------------------------
\* start()

DatabaseClosed == shutAt = "closed"

StartFails == startAt' = "failed" /\ pending' = <<>>

\* dispatchPending with these channels left; after the last the server is told
\* to listen.
DispatchRest(channels) ==
    /\ startAt' = IF channels = <<>> THEN "listen" ELSE "dispatch"
    /\ pending' = channels

\* dispatchPending lists the channels with unresolved rows.
BeginDispatch ==
    IF DatabaseClosed
      THEN StartFails
      ELSE \E listing \in Listings : DispatchRest(listing)

\* Connected.  A round in progress is reconciled, as a job of the executor.
ConnectAnswers ==
    /\ startAt = "connect"
    /\ \/ BeginDispatch /\ UNCHANGED jobs
       \/ /\ ~DatabaseClosed /\ jobs < MaxJobs
          /\ jobs' = jobs + 1
          /\ startAt' = "reconcile"
          /\ UNCHANGED pending
    /\ UNCHANGED <<shutAt, http, requests, adapterVars, pumpVars>>

ReconcileEnds ==
    /\ startAt = "reconcile"
    /\ jobs' = jobs - 1
    /\ BeginDispatch
    /\ UNCHANGED <<shutAt, http, requests, adapterVars, pumpVars>>

\* Discord answered the dispatch of the first channel and the row is recorded,
\* which a closed database refuses.  A delivery is followed by the next of the
\* channel.
PendingAnswers ==
    /\ startAt = "dispatch"
    /\ IF DatabaseClosed
         THEN StartFails
         ELSE \/ UNCHANGED <<startAt, pending>>
              \/ DispatchRest(Tail(pending))
    /\ UNCHANGED <<shutAt, http, jobs, requests, adapterVars, pumpVars>>

\* The server listens, unless it was closed: the pump and live intake begin.
ListenAnswers ==
    /\ startAt = "listen"
    /\ IF http = "closed"
         THEN StartFails /\ UNCHANGED <<http, subscribed, pumpVars>>
         ELSE /\ http' = "listening"
              /\ PumpStart
              /\ subscribed' = TRUE
              /\ startAt' = "started"
              /\ UNCHANGED pending
    /\ UNCHANGED <<shutAt, jobs, requests, flushDue, flushed>>

\* Discord refuses, a reconciliation throws, the port is in use: main() reports
\* it and leaves.
StartThrows ==
    /\ startAt \in {"connect", "reconcile", "listen"}
    /\ StartFails
    /\ jobs' = IF startAt = "reconcile" THEN jobs - 1 ELSE jobs
    /\ UNCHANGED <<shutAt, http, requests, adapterVars, pumpVars>>

-----------------------------------------------------------------------------
\* shutdown(), which runs once, at any time: also while start() awaits something

ShutdownBegins ==
    /\ shutAt = "no"
    /\ shutAt' = "http"
    /\ http' = "closed"
    /\ UNCHANGED <<startAt, pending, jobs, requests, adapterVars, pumpVars>>

HttpCloses ==
    /\ shutAt = "http" /\ requests = 0
    /\ shutAt' = "pump"
    /\ PumpStop
    /\ UNCHANGED <<startAt, pending, http, jobs, requests, adapterVars>>

\* adapter.stop() unsubscribes before it destroys the client.
Subscription_ == subscribed
Subscription == FALSE

PumpStopped ==
    /\ shutAt = "pump" /\ stopping = "returned"
    /\ shutAt' = "drain"
    /\ subscribed' = Subscription
    /\ UNCHANGED <<startAt, pending, http, jobs, requests, flushDue, flushed, pumpVars>>

\* executor.whenIdle()
WorkIsDrained == jobs = 0 /\ flushed = 0

WorkDrained ==
    /\ shutAt = "drain" /\ WorkIsDrained
    /\ shutAt' = "drained"
    /\ UNCHANGED <<startAt, pending, http, jobs, requests, adapterVars, pumpVars>>

DatabaseCloses ==
    /\ shutAt = "drained" /\ ~flushDue
    /\ shutAt' = "closed"
    /\ UNCHANGED <<startAt, pending, http, jobs, requests, adapterVars, pumpVars>>

-----------------------------------------------------------------------------
\* The work that comes from outside.

Woken == UNCHANGED pumpVars \/ \E c \in Channels : Wake(c)

\* A live message, a reconnect.
JobArrives ==
    /\ subscribed /\ jobs < MaxJobs
    /\ jobs' = jobs + 1
    /\ UNCHANGED <<startAt, pending, shutAt, http, requests, adapterVars, pumpVars>>

\* The jobs but for start()'s reconciliation.
OtherJobs == IF startAt = "reconcile" THEN jobs - 1 ELSE jobs

\* A message has been judged.
JobEnds ==
    /\ OtherJobs > 0
    /\ jobs' = jobs - 1
    /\ Woken
    /\ UNCHANGED <<startAt, pending, shutAt, http, requests, adapterVars>>

\* The reconciliation of a reconnect is over.
ReconnectEnds ==
    /\ OtherJobs > 0
    /\ jobs' = jobs - 1
    /\ flushDue' = TRUE
    /\ UNCHANGED <<startAt, pending, shutAt, http, requests, subscribed, flushed, pumpVars>>

Flush ==
    /\ flushDue
    /\ flushDue' = FALSE
    /\ \E n \in flushed .. MaxJobs : flushed' = n
    /\ Woken
    /\ UNCHANGED <<startAt, pending, shutAt, http, jobs, requests, subscribed>>

\* A flushed message has been judged; on a closed database it fails and stays
\* beyond the checkpoint.
FlushedEnds ==
    /\ flushed > 0
    /\ flushed' = flushed - 1
    /\ IF DatabaseClosed THEN UNCHANGED pumpVars ELSE Woken
    /\ UNCHANGED <<startAt, pending, shutAt, http, jobs, requests, subscribed, flushDue>>

RequestArrives ==
    /\ http = "listening" /\ requests < MaxRequests
    /\ requests' = requests + 1
    /\ UNCHANGED <<startAt, pending, shutAt, http, jobs, adapterVars, pumpVars>>

RequestEnds ==
    /\ requests > 0
    /\ requests' = requests - 1
    /\ Woken
    /\ UNCHANGED <<startAt, pending, shutAt, http, jobs, adapterVars>>

-----------------------------------------------------------------------------
PumpRuns ==
    /\ PumpStep
    /\ UNCHANGED <<startAt, pending, shutAt, http, jobs, requests, adapterVars>>

DispatchIsAnswered(c) ==
    /\ \E result \in Results : DispatchAnswers(c, result)
    /\ UNCHANGED <<startAt, pending, shutAt, http, jobs, requests, adapterVars>>

TimerIsFired(c) ==
    /\ TimerFires(c)
    /\ UNCHANGED <<startAt, pending, shutAt, http, jobs, requests, adapterVars>>

DrainIsSettled ==
    /\ DrainSettles
    /\ UNCHANGED <<startAt, pending, shutAt, http, jobs, requests, adapterVars>>

Start == ConnectAnswers \/ ReconcileEnds \/ PendingAnswers \/ ListenAnswers \/ StartThrows
Shutdown == HttpCloses \/ PumpStopped \/ WorkDrained \/ DatabaseCloses

Next ==
    \/ Start
    \/ ShutdownBegins
    \/ Shutdown
    \/ JobArrives \/ JobEnds \/ RequestArrives \/ RequestEnds
    \/ ReconnectEnds \/ Flush \/ FlushedEnds
    \/ PumpRuns

Spec == Init /\ [][Next]_vars

\* Jobs, requests and dispatches end (a request to Discord times out), what is
\* awaited continues and a timer fires.  Nothing has to arrive, the interval need
\* not come and nobody has to shut down.
Fairness ==
    /\ WF_vars(Shutdown)
    /\ WF_vars(ReconcileEnds)
    /\ WF_vars(JobEnds \/ ReconnectEnds)
    /\ WF_vars(Flush)
    /\ WF_vars(FlushedEnds)
    /\ WF_vars(RequestEnds)
    /\ WF_vars(DrainIsSettled)
    /\ \A c \in Channels : WF_vars(DispatchIsAnswered(c)) /\ WF_vars(TimerIsFired(c))

FairSpec == Spec /\ Fairness

-----------------------------------------------------------------------------
(* Properties. *)

\* docs/operations.md:76: shutdown stops HTTP intake, stops Gateway intake, waits
\* for serialized work and closes SQLite; line 9: queued work drains.  When the
\* database is closed nothing is under way that would write to it: no job, no
\* request, no dispatch of the pump, and no timer that begins one.  Two things are
\* exempt.  Messages of a late flush may be left (flushed): they are judged after
\* the next start, because the checkpoint is behind them.  And shutdown() does not
\* wait for start(): its reconciliation may enter the executor after whenIdle, and
\* a dispatch of dispatchPending may be answered on a closed database, which
\* leaves the row delivering until the next start looks it up.
QuietWhenClosed ==
    DatabaseClosed =>
      /\ OtherJobs = 0 /\ requests = 0
      /\ ~running /\ \A c \in Channels : inFlight[c] = 0

\* A requested shutdown ends, whatever work there is: the launcher waits fifteen
\* seconds before it kills the process.
ShutdownEnds == shutAt # "no" ~> shutAt = "closed"
=============================================================================
