------------------------------- MODULE Outbox -------------------------------
(***************************************************************************)
(* The Discord outbox of one channel: the rows of discord_outbox           *)
(* (src/db/outbox-repository.ts), the dispatcher that delivers them        *)
(* (src/application/outbox-dispatcher.ts), the administrator's resolutions *)
(* and, as environment, Discord.  A channel's operations are the numbers   *)
(* of Ops in sequence_number order; the predecessor of i is i - 1.         *)
(*                                                                         *)
(* Every repository call is one SQLite transaction and one step.  The      *)
(* dispatcher is a process with a program counter: between a transaction   *)
(* and the next it awaits Discord, and the process may stop anywhere.      *)
(* There is one dispatcher: at start-up dispatchPending runs before the    *)
(* pump starts, and the pump drains one operation at a time.               *)
(*                                                                         *)
(* Time.  Only two facts about time matter, and each is a step that may    *)
(* happen at any moment: the nonce window of an operation closes (five     *)
(* minutes after created_at) and a retry becomes due (claiming a row in    *)
(* retry_wait is always possible here; the code waits for next_attempt_at).*)
(*                                                                         *)
(* Discord (external).  A create request can take effect and answer, take  *)
(* effect and lose its answer, be lost, be refused, or have its answer     *)
(* lost and take effect later.  While Discord remembers a nonce            *)
(* (enforceNonce) a second create with it posts nothing and answers with   *)
(* the first message.  It forgets a nonce only after the window of the     *)
(* operation closed and no request with it is on its way.  A lookup sees   *)
(* only the last hundred messages, so it can miss a posted message; what   *)
(* it finds is there.  A refusal (an answer with a status code) means that *)
(* the request had no effect.                                              *)
(*                                                                         *)
(* A definition whose name ends in _ is a faulty variant of the one after  *)
(* it; see GameRules.                                                      *)
(***************************************************************************)
EXTENDS Integers, Sequences, FiniteSets

CONSTANTS
    NumOps,         \* bound on the operations the game enqueues
    Creates,        \* the operations that post a message; the others delete
                    \* the original of a submission
    RoundOps,       \* the operations whose payload carries the round's id;
                    \* the last of them is enqueued as the round terminates
    MaxAmbiguous,   \* bound on creates whose answer is lost
    MaxDefinite,    \* bound on refused requests
    MaxLookupFaults,    \* bound on lookups that throw
    MaxWriteFaults, \* bound on transactions of the dispatcher that throw
    MaxCrashes      \* bound on process stops

Ops == 1 .. NumOps

ASSUME NumOpsAssumption == NumOps \in Nat
ASSUME CreatesAssumption == Creates \subseteq Ops
ASSUME RoundOpsAssumption == RoundOps \subseteq Ops /\ RoundOps # {}
ASSUME BoundsAssumption ==
    {MaxAmbiguous, MaxDefinite, MaxLookupFaults, MaxWriteFaults, MaxCrashes} \subseteq Nat

VARIABLES
    enqueued,       \* the rows 1 .. enqueued exist
    status,         \* discord_outbox.status
    lastError,      \* the part of last_error the dispatcher looks at
    settled,        \* the round's operationally_settled_at is set
    up,             \* the process runs
    initialized,    \* OutboxDispatcher.initialized
    pc,             \* where the dispatcher is
    current,        \* the operation it claimed; 0 when idle
    windowClosed,   \* operations older than NONCE_UNIQUENESS_WINDOW_MS
    posts,          \* Discord: how many messages carry the nonce
    remembered,     \* Discord: nonces it still enforces
    late,           \* Discord: nonces of requests still on their way
    deleted,        \* Discord: originals that are gone
    faults,         \* how often each kind of fault happened
    unconfirmed,    \* history: creates of which some request may have taken
                    \* effect without the row saying so
    forgotten       \* history: unconfirmed creates whose row was marked as a
                    \* definite failure

vars == <<enqueued, status, lastError, settled, up, initialized, pc, current,
          windowClosed, posts, remembered, late, deleted, faults, unconfirmed, forgotten>>

rows == <<enqueued, status, lastError, settled>>
dispatcher == <<up, initialized, pc, current>>
history == <<unconfirmed, forgotten>>
discord == <<posts, remembered, late, deleted>>

Statuses == {"pending", "delivering", "delivered", "retry_wait", "needs_review", "abandoned"}
Resolved == {"delivered", "abandoned"}
FaultKinds == {"ambiguous", "definite", "lookup", "write", "crash"}

TypeOK ==
    /\ enqueued \in Ops \union {0}
    /\ status \in [Ops -> Statuses]
    /\ lastError \in [Ops -> {"none", "definite", "ambiguous", "review"}]
    /\ settled \in BOOLEAN
    /\ up \in BOOLEAN
    /\ initialized \in BOOLEAN
    /\ pc \in {"idle", "lookup", "send", "posted", "found", "missed",
               "lookup_failed", "ambiguous", "definite"}
    /\ current \in Ops \union {0}
    /\ windowClosed \in SUBSET Ops
    /\ posts \in [Ops -> Nat]
    /\ remembered \in SUBSET Creates
    /\ late \in SUBSET Creates
    /\ deleted \in SUBSET (Ops \ Creates)
    /\ faults \in [FaultKinds -> Nat]
    /\ unconfirmed \in SUBSET Creates
    /\ forgotten \in SUBSET Creates

Init ==
    /\ enqueued = 0
    /\ status = [i \in Ops |-> "pending"]
    /\ lastError = [i \in Ops |-> "none"]
    /\ settled = FALSE
    /\ up = TRUE
    /\ initialized = FALSE
    /\ pc = "idle"
    /\ current = 0
    /\ windowClosed = {}
    /\ posts = [i \in Ops |-> 0]
    /\ remembered = {}
    /\ late = {}
    /\ deleted = {}
    /\ faults = [k \in FaultKinds |-> 0]
    /\ unconfirmed = {}
    /\ forgotten = {}

Budget ==
    [ambiguous |-> MaxAmbiguous, definite |-> MaxDefinite, lookup |-> MaxLookupFaults,
     write |-> MaxWriteFaults, crash |-> MaxCrashes]

\* A fault happens, within its bound.
Fault(kind) ==
    /\ faults[kind] < Budget[kind]
    /\ faults' = [faults EXCEPT ![kind] = @ + 1]

Rows == 1 .. enqueued
RoundTerminal == \A i \in RoundOps : i \in Rows

-----------------------------------------------------------------------------
(* The game appends operations (GameService.enqueue). *)

Enqueue ==
    /\ up
    /\ enqueued + 1 \in Ops
    /\ enqueued' = enqueued + 1
    /\ UNCHANGED <<status, lastError, settled, dispatcher, windowClosed,
                   discord, faults, history>>

SettlesBeforeTheEnd_(i, newStatus) ==
    /\ i \in RoundOps
    /\ \A j \in RoundOps \intersect Rows : newStatus[j] \in Resolved

\* settleTerminalRoundIfReady, in the transaction that resolves i and leaves
\* the statuses newStatus.
Settles(i, newStatus) ==
    /\ i \in RoundOps
    /\ RoundTerminal
    /\ \A j \in RoundOps : newStatus[j] \in Resolved

\* Row i takes a status and a last_error; resolving it may settle the round.
Update(i, newStatus, error) ==
    LET after == [status EXCEPT ![i] = newStatus]
    IN  /\ status' = after
        /\ lastError' = [lastError EXCEPT ![i] = error]
        /\ settled' = (settled \/ (newStatus \in Resolved /\ Settles(i, after)))
        /\ enqueued' = enqueued

-----------------------------------------------------------------------------
(* The dispatcher. *)

\* The first dispatchNext of a process turns deliveries that were in
\* progress into ambiguous ones.
RecoverStaleDeliveries ==
    /\ up
    /\ ~initialized
    /\ initialized' = TRUE
    /\ status' = [i \in Ops |-> IF status[i] = "delivering" THEN "retry_wait" ELSE status[i]]
    /\ lastError' = [i \in Ops |-> IF status[i] = "delivering" THEN "ambiguous" ELSE lastError[i]]
    /\ UNCHANGED <<enqueued, settled, up, pc, current, windowClosed, discord,
                   faults, history>>

ClaimablePastReviews_(i) ==
    /\ i \in Rows
    /\ status[i] \in {"pending", "retry_wait"}
    /\ \A j \in 1 .. i - 1 : status[j] \in Resolved \union {"needs_review"}

ClaimableOnce_(i) ==
    /\ i \in Rows
    /\ status[i] = "pending"
    /\ \A j \in 1 .. i - 1 : status[j] \in Resolved

\* The oldest unresolved row is the only candidate.
Claimable(i) ==
    /\ i \in Rows
    /\ status[i] \in {"pending", "retry_wait"}
    /\ \A j \in 1 .. i - 1 : status[j] \in Resolved

NeedsReconciliationOnRetry_(i) ==
    lastError[i] = "ambiguous" /\ i \in Creates /\ status[i] = "retry_wait"

NeedsReconciliation(i) == lastError[i] = "ambiguous" /\ i \in Creates

ClaimNext(i) ==
    /\ up /\ initialized /\ pc = "idle"
    /\ Claimable(i)
    /\ status' = [status EXCEPT ![i] = "delivering"]
    /\ current' = i
    /\ pc' = IF NeedsReconciliation(i) THEN "lookup" ELSE "send"
    /\ UNCHANGED <<enqueued, lastError, settled, up, initialized, windowClosed,
                   discord, faults, history>>

\* findOwnMessageByNonce returns the message, misses it, or throws.
LookupFinds ==
    /\ pc = "lookup"
    /\ posts[current] > 0
    /\ pc' = "found"
    /\ UNCHANGED <<rows, up, initialized, current, windowClosed, discord,
                   faults, history>>

LookupMisses ==
    /\ pc = "lookup"
    /\ pc' = "missed"
    /\ UNCHANGED <<rows, up, initialized, current, windowClosed, discord,
                   faults, history>>

LookupFails ==
    /\ pc = "lookup"
    /\ Fault("lookup")
    /\ pc' = "lookup_failed"
    /\ UNCHANGED <<rows, up, initialized, current, windowClosed, discord, history>>

\* Not found, and Discord may no longer enforce the nonce: a human decides.
RequireReview ==
    /\ pc = "missed"
    /\ current \in windowClosed
    /\ Update(current, "needs_review", "review")
    /\ pc' = "idle"
    /\ current' = 0
    /\ UNCHANGED <<up, initialized, windowClosed, discord, faults, history>>

\* Not found, inside the window: send again.
ResendInWindow ==
    /\ pc = "missed"
    /\ current \notin windowClosed
    /\ pc' = "send"
    /\ UNCHANGED <<rows, up, initialized, current, windowClosed, discord,
                   faults, history>>

\* Discord processes a request of operation i.
TakesEffect(i) ==
    IF i \in Creates
    THEN /\ posts' = IF i \in remembered THEN posts ELSE [posts EXCEPT ![i] = @ + 1]
         /\ remembered' = remembered \union {i}
         /\ UNCHANGED deleted
    ELSE /\ deleted' = deleted \union {i}
         /\ UNCHANGED <<posts, remembered>>

SendSucceeds ==
    /\ pc = "send"
    /\ TakesEffect(current)
    /\ pc' = "posted"
    /\ UNCHANGED <<rows, up, initialized, current, windowClosed, late, faults, history>>

\* sendMessage tells ambiguous errors from refusals, deleteMessage does not.
ClassifiesErrors(i) == i \in Creates

\* The answer of a create is lost: the request took effect, never will, or
\* will later (AmbiguousDiscordError).
SendIsAmbiguous ==
    /\ pc = "send"
    /\ ClassifiesErrors(current)
    /\ Fault("ambiguous")
    /\ \/ TakesEffect(current) /\ UNCHANGED late
       \/ UNCHANGED discord
       \/ late' = late \union {current} /\ UNCHANGED <<posts, remembered, deleted>>
    /\ unconfirmed' = unconfirmed \union {current}
    /\ pc' = "ambiguous"
    /\ UNCHANGED <<rows, up, initialized, current, windowClosed, forgotten>>

\* Discord refuses the request.  A delete whose answer is lost takes the
\* same path.
SendIsRefused ==
    /\ pc = "send"
    /\ Fault("definite")
    /\ \/ UNCHANGED discord
       \/ current \notin Creates /\ TakesEffect(current) /\ UNCHANGED late
    /\ pc' = "definite"
    /\ UNCHANGED <<rows, up, initialized, current, windowClosed, history>>

Idle == pc' = "idle" /\ current' = 0 /\ UNCHANGED <<up, initialized>>

RecordDelivered ==
    /\ pc \in {"posted", "found"}
    /\ Update(current, "delivered", "none")
    /\ Idle
    /\ UNCHANGED <<windowClosed, discord, faults, history>>

ScheduleAmbiguousReconciliation ==
    /\ pc \in {"lookup_failed", "ambiguous"}
    /\ Update(current, "retry_wait", "ambiguous")
    /\ Idle
    /\ UNCHANGED <<windowClosed, discord, faults, history>>

\* last_error is overwritten, whatever it said before.
ScheduleRetry ==
    /\ pc = "definite"
    /\ Update(current, "retry_wait", "definite")
    /\ Idle
    /\ forgotten' = forgotten \union ({current} \intersect unconfirmed)
    /\ UNCHANGED <<windowClosed, discord, faults, unconfirmed>>

\* recordDelivered throws after a successful send, inside the try block: the
\* catch takes it for a definite failure.
RecordDeliveredThrows ==
    /\ pc = "posted"
    /\ Fault("write")
    /\ pc' = "definite"
    /\ unconfirmed' = unconfirmed \union ({current} \intersect Creates)
    /\ UNCHANGED <<rows, up, initialized, current, windowClosed, discord, forgotten>>

\* Any other write that throws leaves dispatchNext, and the row delivering.
WriteThrows ==
    /\ \/ pc \in {"found", "lookup_failed", "ambiguous", "definite"}
       \/ pc = "missed" /\ current \in windowClosed
    /\ Fault("write")
    /\ Idle
    /\ UNCHANGED <<rows, windowClosed, discord, history>>

\* The process stops anywhere.  A request it was waiting for may be anywhere
\* too: answered, lost, done, or on its way.
Crash ==
    /\ up
    /\ Fault("crash")
    /\ up' = FALSE
    /\ initialized' = FALSE
    /\ pc' = "idle"
    /\ current' = 0
    /\ \/ UNCHANGED discord
       \/ pc = "send" /\ TakesEffect(current) /\ UNCHANGED late
       \/ /\ pc = "send" /\ current \in Creates
          /\ late' = late \union {current}
          /\ UNCHANGED <<posts, remembered, deleted>>
    /\ unconfirmed' = IF pc \in {"send", "posted"}
                      THEN unconfirmed \union ({current} \intersect Creates)
                      ELSE unconfirmed
    /\ UNCHANGED <<rows, windowClosed, forgotten>>

Restart ==
    /\ ~up
    /\ up' = TRUE
    /\ UNCHANGED <<rows, initialized, pc, current, windowClosed, discord,
                   faults, history>>

-----------------------------------------------------------------------------
(* The administrator's resolutions (the operations page). *)

RetryableUnfinished_(i) == status[i] \in {"retry_wait", "delivering"}

Retryable(i) == status[i] = "retry_wait"

\* The row becomes pending; last_error stays, so an ambiguous row is still
\* looked up before it is sent.
Retry(i) ==
    /\ up
    /\ i \in Rows
    /\ Retryable(i)
    /\ Update(i, "pending", lastError[i])
    /\ UNCHANGED <<dispatcher, windowClosed, discord, faults, history>>

\* The administrator found the message, as docs/operations.md asks.
MarkDelivered(i) ==
    /\ up
    /\ i \in Rows
    /\ status[i] = "needs_review"
    /\ posts[i] > 0
    /\ Update(i, "delivered", "none")
    /\ UNCHANGED <<dispatcher, windowClosed, discord, faults, history>>

Abandon(i) ==
    /\ up
    /\ i \in Rows
    /\ status[i] = "needs_review"
    /\ Update(i, "abandoned", "review")
    /\ UNCHANGED <<dispatcher, windowClosed, discord, faults, history>>

-----------------------------------------------------------------------------
(* Time and Discord. *)

WindowCloses(i) ==
    /\ i \in Rows \ windowClosed
    /\ windowClosed' = windowClosed \union {i}
    /\ UNCHANGED <<rows, dispatcher, discord, faults, history>>

\* A request whose answer was lost takes effect after all, or never will.
LateRequestEnds(i) ==
    /\ i \in late
    /\ late' = late \ {i}
    /\ TakesEffect(i) \/ UNCHANGED <<posts, remembered, deleted>>
    /\ UNCHANGED <<rows, dispatcher, windowClosed, faults, history>>

ForgetNonce(i) ==
    /\ i \in (remembered \intersect windowClosed) \ late
    /\ ~(pc = "send" /\ current = i)
    /\ remembered' = remembered \ {i}
    /\ UNCHANGED <<rows, dispatcher, windowClosed, posts, late, deleted, faults, history>>

-----------------------------------------------------------------------------
Send == SendSucceeds \/ SendIsAmbiguous \/ SendIsRefused

Dispatch ==
    \/ RecoverStaleDeliveries
    \/ \E i \in Ops : ClaimNext(i)
    \/ LookupFinds \/ LookupMisses \/ LookupFails
    \/ RequireReview \/ ResendInWindow
    \/ Send
    \/ RecordDelivered \/ ScheduleAmbiguousReconciliation \/ ScheduleRetry
    \/ RecordDeliveredThrows \/ WriteThrows

Administer == \E i \in Ops : Retry(i) \/ MarkDelivered(i) \/ Abandon(i)

Environment == \E i \in Ops : WindowCloses(i) \/ LateRequestEnds(i) \/ ForgetNonce(i)

Next == Enqueue \/ Dispatch \/ Crash \/ Restart \/ Administer \/ Environment

Spec == Init /\ [][Next]_vars

\* The pump wakes every channel with unresolved work each second, so the
\* dispatcher never rests while it has a step to take; a stopped process is
\* started again.  Nobody has to act on the operations page.
FairSpec == Spec /\ WF_vars(Dispatch) /\ WF_vars(Restart)

-----------------------------------------------------------------------------
(* Properties. *)

TookEffect(i) == IF i \in Creates THEN posts[i] > 0 ELSE i \in deleted

\* The channel sees the outbox in order: whatever lost answers, late requests,
\* crashes, retries and clicks there are, each step of the rows, the dispatcher,
\* the administrator and Discord is a step of OrderedChannel or invisible to it.  So
\* an original message disappears only when its canonical copy is there, an
\* announcement never overtakes what it announces, nothing resolved is taken up
\* again, and the round is settled by the resolution of its last operation
\* (claimNext, recordDelivered only after an effect, settleTerminalRoundIfReady).
Channel ==
    INSTANCE OrderedChannel WITH
        asked <- enqueued,
        visible <- {i \in Ops : TookEffect(i)},
        outcome <- [i \in Ops |-> IF status[i] \in Resolved THEN status[i] ELSE "open"]

ImplementsOrderedChannel == Channel!Spec

\* While the dispatcher works on a row nobody else can change it, and only
\* that row and rows left by a failed write say delivering.  recordDelivered,
\* scheduleRetry and requireReview rely on it: their UPDATEs do not look at
\* the status they overwrite.
DispatcherOwnsItsRow ==
    /\ TypeOK
    /\ pc # "idle" => /\ up
                      /\ status[current] = "delivering"
                      /\ \A i \in Rows : status[i] = "delivering" => i = current

\* A message is posted twice only if its row was marked as a definite failure
\* although an earlier request may have taken effect.  Everything else the
\* dispatcher does about lost answers, crashes, late requests, the nonce
\* window and review never duplicates a message.
DuplicatesOnlyAfterForgetting ==
    \A i \in Creates : posts[i] > 1 => i \in forgotten

\* The design says that an ambiguity outside the nonce window enters review
\* "rather than risking a blind duplicate": no create is ever posted twice.
NoBlindDuplicate == \A i \in Creates : posts[i] <= 1

\* The row of a write that failed outside the try block: nobody works on it,
\* and only the next process takes it up.
LeftDelivering(i) == status[i] = "delivering" /\ current # i /\ initialized

\* Every operation is resolved in the end, unless it or an earlier one waits for
\* a human or, after a failed write, for a restart: no lost answer, late answer,
\* refusal, crash or click in between leaves a channel stuck.
EveryOperationIsHandled ==
    \A i \in Ops : i \in Rows ~>
        \/ status[i] \in Resolved
        \/ \E j \in 1 .. i : status[j] = "needs_review" \/ LeftDelivering(j)
=============================================================================
