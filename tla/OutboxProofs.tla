----------------------------- MODULE OutboxProofs -----------------------------
(***************************************************************************)
(* For any number of operations, any split of them into messages and       *)
(* deletions and any number of faults, the dispatcher owns the row it      *)
(* works on, a message is posted twice only after its row was marked as a  *)
(* definite failure, and the outbox implements OrderedChannel.             *)
(*                                                                         *)
(* The argument.  Only the oldest unresolved row is ever touched           *)
(* (OrderInv), so two rows are never in the hands of a dispatcher, and     *)
(* whatever reaches Discord finds everything before it concluded.  A row   *)
(* says delivered only after the effect (EffectInv), and a nonce that      *)
(* Discord may have forgotten is never sent again unless the row lost the  *)
(* word "ambiguous" (NonceInv).                                            *)
(***************************************************************************)
EXTENDS Outbox, TLAPS

\* Where the dispatcher is, and what that says of the row it works on.
PhaseInv ==
    /\ pc = "idle" <=> current = 0
    /\ pc # "idle" => up /\ initialized /\ status[current] = "delivering"
    /\ initialized => up
    /\ pc \in {"lookup", "found", "missed", "lookup_failed", "ambiguous"} => current \in Creates
    /\ pc \in {"posted", "found"} => TookEffect(current)

\* A row somebody touched, or whose request is on its way, is enqueued and has
\* nothing unresolved before it.
OrderInv ==
    \A i \in Ops : status[i] # "pending" \/ i \in late =>
        i \in Rows /\ \A j \in 1 .. i - 1 : status[j] \in Resolved

\* Delivered means that the effect is in the channel, and Discord remembers
\* the nonces of messages.
EffectInv ==
    /\ \A i \in Ops : status[i] = "delivered" => TookEffect(i)
    /\ \A i \in Ops : posts[i] > 0 => i \in Creates
    /\ \A i \in remembered : posts[i] > 0

SettledInv == settled <=> \A i \in RoundOps : status[i] \in Resolved

\* A request of operation i has reached Discord, or still may.
MayHaveReached(i) == posts[i] > 0 \/ i \in late

\* Why a message is not posted twice: its nonce is remembered as long as the
\* window is open or a request is on its way, and a row whose message may be
\* there is looked up before it is sent again.
PostsOnce(i) ==
    /\ MayHaveReached(i) =>
          \/ i \in unconfirmed
          \/ pc = "posted" /\ current = i
          \/ status[i] = "delivered"
    /\ posts[i] > 0 /\ i \notin windowClosed => i \in remembered
    /\ i \notin forgotten =>
          /\ posts[i] <= 1
          /\ posts[i] > 0 /\ (i \in late \/ (pc = "send" /\ current = i))
                => i \in remembered
          /\ MayHaveReached(i) /\ status[i] \in {"pending", "retry_wait"}
                => lastError[i] = "ambiguous"

NonceInv == \A i \in Creates : PostsOnce(i)

OutboxInv == TypeOK /\ PhaseInv /\ OrderInv /\ EffectInv /\ SettledInv /\ NonceInv

-----------------------------------------------------------------------------
\* What a processed request changes: its own effect and nothing else.
LEMMA EffectOfARequest ==
    ASSUME TypeOK, EffectInv, NEW i \in Ops, TakesEffect(i)
    PROVE  /\ posts' \in [Ops -> Nat]
           /\ remembered' \in SUBSET Creates
           /\ deleted' \in SUBSET (Ops \ Creates)
           /\ TookEffect(i)'
           /\ \A j \in Ops \ {i} : posts'[j] = posts[j] /\ (TookEffect(j)' <=> TookEffect(j))
           /\ posts'[i] = IF i \in Creates /\ i \notin remembered THEN posts[i] + 1 ELSE posts[i]
           /\ remembered' = remembered \union ({i} \intersect Creates)
<1> USE CreatesAssumption
<1>1. CASE i \in Creates
  <2>1. /\ posts' = IF i \in remembered THEN posts ELSE [posts EXCEPT ![i] = @ + 1]
        /\ remembered' = remembered \union {i}
        /\ deleted' = deleted
    BY <1>1 DEF TakesEffect
  <2>2. posts'[i] > 0
    BY <1>1, <2>1 DEF TypeOK, EffectInv
  <2> QED BY <1>1, <2>1, <2>2 DEF TypeOK, TookEffect
<1>2. CASE i \notin Creates
  <2>1. deleted' = deleted \union {i} /\ UNCHANGED <<posts, remembered>>
    BY <1>2 DEF TakesEffect
  <2> QED BY <1>2, <2>1 DEF TypeOK, TookEffect
<1> QED BY <1>1, <1>2

\* What every step does to the statuses: all that the invariants about rows
\* need to know of it.
Untouched(i) == status'[i] = status[i] /\ lastError'[i] = lastError[i]

\* Writing one row.
LEMMA UpdateOfARow ==
    ASSUME TypeOK, NEW i \in Ops, NEW new \in Statuses,
           NEW error \in {"none", "definite", "ambiguous", "review"},
           Update(i, new, error)
    PROVE  /\ status' \in [Ops -> Statuses]
           /\ lastError' \in [Ops -> {"none", "definite", "ambiguous", "review"}]
           /\ settled' \in BOOLEAN
           /\ enqueued' = enqueued
           /\ status'[i] = new /\ lastError'[i] = error
           /\ \A j \in Ops \ {i} : Untouched(j)
BY DEF TypeOK, Update, Untouched

-----------------------------------------------------------------------------
\* Types.
LEMMA TypesInitially ==
    ASSUME Init
    PROVE  OutboxInv
<1>1. TypeOK
  BY DEF Init, TypeOK, Statuses, FaultKinds
<1>2. PhaseInv /\ OrderInv /\ EffectInv
  BY DEF Init, PhaseInv, OrderInv, EffectInv
<1>3. SettledInv
  BY RoundOpsAssumption DEF Init, SettledInv, Resolved
<1>4. NonceInv
  BY CreatesAssumption DEF Init, NonceInv, PostsOnce, MayHaveReached
<1> QED BY <1>1, <1>2, <1>3, <1>4 DEF OutboxInv

LEMMA AFaultKeepsCounting ==
    ASSUME TypeOK, NEW kind \in FaultKinds, Fault(kind)
    PROVE  faults' \in [FaultKinds -> Nat]
BY DEF TypeOK, Fault

LEMMA TypesKept ==
    ASSUME OutboxInv, Next
    PROVE  TypeOK'
<1> USE CreatesAssumption, NumOpsAssumption DEF OutboxInv
<1>0. current # 0 => current \in Ops
  BY DEF TypeOK
<1> DEFINE RowTypes == /\ status' \in [Ops -> Statuses]
                      /\ lastError' \in [Ops -> {"none", "definite", "ambiguous", "review"}]
                      /\ settled' \in BOOLEAN
           DiscordTypes == /\ posts' \in [Ops -> Nat]
                           /\ remembered' \in SUBSET Creates
                           /\ late' \in SUBSET Creates
                           /\ deleted' \in SUBSET (Ops \ Creates)
<1>1. CASE Enqueue
  BY <1>1 DEF TypeOK, Enqueue, dispatcher, discord, history
<1>2. CASE RecoverStaleDeliveries
  BY <1>2 DEF TypeOK, RecoverStaleDeliveries, discord, history, Statuses
<1>3. ASSUME NEW i \in Ops, ClaimNext(i) PROVE TypeOK'
  BY <1>3 DEF TypeOK, ClaimNext, discord, history, Statuses
<1>4. CASE LookupFinds \/ LookupMisses \/ ResendInWindow
  BY <1>4 DEF TypeOK, LookupFinds, LookupMisses, ResendInWindow, rows, discord, history
<1>5. CASE LookupFails
  <2>1. faults' \in [FaultKinds -> Nat]
    BY <1>5, AFaultKeepsCounting DEF LookupFails, FaultKinds
  <2> QED BY <1>5, <2>1 DEF TypeOK, LookupFails, rows, discord, history
<1>6. CASE RequireReview \/ RecordDelivered \/ ScheduleAmbiguousReconciliation \/ ScheduleRetry
  <2>1. pc # "idle" /\ current \in Ops
    BY <1>6, <1>0 DEF PhaseInv, RequireReview, RecordDelivered, ScheduleAmbiguousReconciliation, ScheduleRetry
  <2>2. PICK new \in Statuses, error \in {"none", "definite", "ambiguous", "review"} :
          Update(current, new, error)
    BY <1>6 DEF RequireReview, RecordDelivered, ScheduleAmbiguousReconciliation,
                ScheduleRetry, Statuses
  <2>3. RowTypes /\ enqueued' = enqueued
    BY <2>1, <2>2, UpdateOfARow
  <2> QED BY <1>6, <2>3 DEF TypeOK, RequireReview, RecordDelivered, ScheduleAmbiguousReconciliation, ScheduleRetry, Idle, discord, history
<1>7. CASE SendSucceeds
  <2>1. current \in Ops /\ TakesEffect(current)
    BY <1>7, <1>0 DEF PhaseInv, SendSucceeds
  <2> QED BY <1>7, <2>1, EffectOfARequest DEF TypeOK, SendSucceeds, rows, history
<1>8. CASE SendIsAmbiguous
  <2>1. current \in Creates /\ faults' \in [FaultKinds -> Nat]
    BY <1>8, AFaultKeepsCounting DEF SendIsAmbiguous, ClassifiesErrors, FaultKinds
  <2>2. DiscordTypes
    <3>1. CASE TakesEffect(current) /\ UNCHANGED late
      BY <2>1, <3>1, EffectOfARequest DEF TypeOK
    <3>2. CASE UNCHANGED discord
      BY <3>2 DEF TypeOK, discord
    <3>3. CASE late' = late \union {current} /\ UNCHANGED <<posts, remembered, deleted>>
      BY <2>1, <3>3 DEF TypeOK
    <3> QED BY <1>8, <3>1, <3>2, <3>3 DEF SendIsAmbiguous
  <2> QED BY <1>8, <2>1, <2>2 DEF TypeOK, SendIsAmbiguous, rows
<1>9. CASE SendIsRefused
  <2>1. current \in Ops /\ faults' \in [FaultKinds -> Nat]
    BY <1>9, <1>0, AFaultKeepsCounting DEF PhaseInv, SendIsRefused, FaultKinds
  <2>2. DiscordTypes
    <3>1. CASE TakesEffect(current) /\ UNCHANGED late
      BY <2>1, <3>1, EffectOfARequest DEF TypeOK
    <3>2. CASE UNCHANGED discord
      BY <3>2 DEF TypeOK, discord
    <3> QED BY <1>9, <3>1, <3>2 DEF SendIsRefused
  <2> QED BY <1>9, <2>1, <2>2 DEF TypeOK, SendIsRefused, rows, history
<1>10. CASE RecordDeliveredThrows \/ WriteThrows
  <2>1. faults' \in [FaultKinds -> Nat]
    BY <1>10, AFaultKeepsCounting DEF RecordDeliveredThrows, WriteThrows, FaultKinds
  <2> QED BY <1>10, <2>1 DEF TypeOK, RecordDeliveredThrows, WriteThrows, Idle, rows, discord, history
<1>11. CASE Crash
  <2>1. faults' \in [FaultKinds -> Nat]
    BY <1>11, AFaultKeepsCounting DEF Crash, FaultKinds
  <2>2. DiscordTypes
    <3>1. CASE UNCHANGED discord
      BY <3>1 DEF TypeOK, discord
    <3>2. CASE pc = "send" /\ TakesEffect(current) /\ UNCHANGED late
      <4>1. current \in Ops
        BY <3>2, <1>0 DEF PhaseInv
      <4> QED BY <3>2, <4>1, EffectOfARequest DEF TypeOK
    <3>3. CASE current \in Creates /\ late' = late \union {current}
               /\ UNCHANGED <<posts, remembered, deleted>>
      BY <3>3 DEF TypeOK
    <3> QED BY <1>11, <3>1, <3>2, <3>3 DEF Crash
  <2> QED BY <1>11, <2>1, <2>2 DEF TypeOK, Crash, rows
<1>12. CASE Restart
  BY <1>12 DEF TypeOK, Restart, rows, discord, history
<1>13. ASSUME NEW i \in Ops, Retry(i) \/ MarkDelivered(i) \/ Abandon(i) PROVE TypeOK'
  <2>1. PICK new \in Statuses, error \in {"none", "definite", "ambiguous", "review"} :
          Update(i, new, error)
    BY <1>13 DEF Retry, MarkDelivered, Abandon, Statuses, TypeOK
  <2>2. RowTypes /\ enqueued' = enqueued
    BY <2>1, UpdateOfARow
  <2> QED BY <1>13, <2>2 DEF TypeOK, Retry, MarkDelivered, Abandon, dispatcher, discord, history
<1>14. ASSUME NEW i \in Ops, WindowCloses(i) \/ ForgetNonce(i) PROVE TypeOK'
  BY <1>14 DEF TypeOK, WindowCloses, ForgetNonce, rows, dispatcher, discord, history
<1>15. ASSUME NEW i \in Ops, LateRequestEnds(i) PROVE TypeOK'
  <2>1. DiscordTypes
    BY <1>15, EffectOfARequest DEF TypeOK, LateRequestEnds
  <2> QED BY <1>15, <2>1 DEF TypeOK, LateRequestEnds, rows, dispatcher, history
<1> QED
  BY <1>1, <1>2, <1>3, <1>4, <1>5, <1>6, <1>7, <1>8, <1>9, <1>10, <1>11, <1>12, <1>13, <1>14, <1>15
  DEF Next, Dispatch, Send, Administer, Environment

-----------------------------------------------------------------------------
\* What any step may do to the rows and to the channel: rows stay, what is
\* resolved stays as it is, only the oldest unresolved row is taken up, effects
\* stay, and delivered is written only after the effect.
StepIsOrderly ==
    /\ Rows \subseteq Rows'
    /\ \A i \in Ops :
          /\ status[i] \in Resolved => status'[i] = status[i]
          /\ status'[i] # "pending" \/ i \in late' =>
                status[i] # "pending" \/ i \in late \/ Claimable(i)
          /\ TookEffect(i) => TookEffect(i)'
          /\ status'[i] = "delivered" => TookEffect(i)

\* A step that leaves the rows alone, or writes row i without resolving it
\* before its effect.
LEMMA RowsAreOrderly ==
    ASSUME OutboxInv, late' = late, UNCHANGED <<posts, deleted>>, enqueued' = enqueued,
           NEW i \in Ops, status[i] \notin Resolved, status[i] # "pending" \/ Claimable(i),
           status'[i] = "delivered" => TookEffect(i),
           \A j \in Ops \ {i} : status'[j] = status[j]
    PROVE  StepIsOrderly
BY DEF StepIsOrderly, OutboxInv, EffectInv, Rows, TookEffect, Resolved

\* A step that may let one request that was sent reach Discord.
LEMMA RequestsAreOrderly ==
    ASSUME OutboxInv, UNCHANGED <<enqueued, status>>, NEW i \in Ops,
           status[i] # "pending" \/ i \in late, late' \subseteq late \union {i},
           TakesEffect(i) \/ UNCHANGED <<posts, deleted>>
    PROVE  StepIsOrderly
<1>1. \A j \in Ops : TookEffect(j) => TookEffect(j)'
  <2>1. CASE TakesEffect(i)
    BY <2>1, EffectOfARequest DEF OutboxInv
  <2>2. CASE UNCHANGED <<posts, deleted>>
    BY <2>2 DEF TookEffect
  <2> QED BY <2>1, <2>2
<1> QED BY <1>1 DEF StepIsOrderly, OutboxInv, EffectInv, Rows

LEMMA EveryStepIsOrderly ==
    ASSUME OutboxInv, Next
    PROVE  StepIsOrderly
<1> USE DEF OutboxInv
<1>0. pc # "idle" => current \in Ops /\ status[current] = "delivering"
  BY DEF TypeOK, PhaseInv
<1>1. CASE Enqueue
  BY <1>1 DEF Enqueue, StepIsOrderly, Rows, discord, TookEffect, TypeOK, EffectInv, Ops
<1>2. CASE RecoverStaleDeliveries
  BY <1>2 DEF RecoverStaleDeliveries, StepIsOrderly, Rows, discord, TookEffect, TypeOK, EffectInv, Resolved
<1>3. ASSUME NEW i \in Ops, ClaimNext(i) PROVE StepIsOrderly
  BY <1>3, RowsAreOrderly DEF ClaimNext, discord, TypeOK, Claimable, Resolved
<1>4. ASSUME UNCHANGED <<enqueued, status, posts, deleted>>, late' \subseteq late
      PROVE  StepIsOrderly
  BY <1>4 DEF StepIsOrderly, Rows, TookEffect, EffectInv
<1>5. CASE \/ LookupFinds \/ LookupMisses \/ LookupFails \/ ResendInWindow
           \/ RecordDeliveredThrows \/ WriteThrows \/ Restart
  BY <1>4, <1>5 DEF LookupFinds, LookupMisses, LookupFails, ResendInWindow, RecordDeliveredThrows, WriteThrows, Restart, rows, discord
<1>6. CASE RequireReview \/ RecordDelivered \/ ScheduleAmbiguousReconciliation \/ ScheduleRetry
  <2>1. current \in Ops /\ status[current] = "delivering"
    BY <1>0, <1>6 DEF RequireReview, RecordDelivered, ScheduleAmbiguousReconciliation, ScheduleRetry
  <2>2. PICK new \in Statuses, error \in {"none", "definite", "ambiguous", "review"} :
          /\ Update(current, new, error)
          /\ new = "delivered" => pc \in {"posted", "found"}
    BY <1>6 DEF RequireReview, RecordDelivered, ScheduleAmbiguousReconciliation,
                ScheduleRetry, Statuses
  <2>3. new = "delivered" => TookEffect(current)
    BY <2>2 DEF PhaseInv
  <2>4. UNCHANGED discord
    BY <1>6 DEF RequireReview, RecordDelivered, ScheduleAmbiguousReconciliation, ScheduleRetry
  <2> QED BY <2>1, <2>2, <2>3, <2>4, UpdateOfARow, RowsAreOrderly DEF Untouched, discord, Resolved
<1>7. CASE Send \/ (Crash /\ pc = "send")
  <2>1. pc = "send" /\ current \in Ops /\ status[current] = "delivering"
    BY <1>0, <1>7 DEF Send, SendSucceeds, SendIsAmbiguous, SendIsRefused
  <2>2. late' \subseteq late \union {current} /\ (TakesEffect(current) \/ UNCHANGED <<posts, deleted>>)
    BY <1>7 DEF Send, SendSucceeds, SendIsAmbiguous, SendIsRefused, Crash, discord
  <2>3. UNCHANGED <<enqueued, status>>
    BY <1>7 DEF Send, SendSucceeds, SendIsAmbiguous, SendIsRefused, Crash, rows
  <2> QED BY <2>1, <2>2, <2>3, RequestsAreOrderly
<1>8. CASE Crash /\ pc # "send"
  BY <1>4, <1>8 DEF Crash, rows, discord
<1>9. ASSUME NEW i \in Ops, Retry(i) \/ MarkDelivered(i) \/ Abandon(i) PROVE StepIsOrderly
  <2>1. PICK new \in Statuses, error \in {"none", "definite", "ambiguous", "review"} :
          /\ Update(i, new, error)
          /\ new = "delivered" => posts[i] > 0
    BY <1>9 DEF Retry, MarkDelivered, Abandon, Statuses, TypeOK
  <2>2. new = "delivered" => TookEffect(i)
    BY <2>1 DEF EffectInv, TookEffect
  <2>3. status[i] \in {"retry_wait", "needs_review"} /\ UNCHANGED discord
    BY <1>9 DEF Retry, Retryable, MarkDelivered, Abandon
  <2> QED BY <2>1, <2>2, <2>3, UpdateOfARow, RowsAreOrderly DEF Untouched, discord, Resolved
<1>10. ASSUME NEW i \in Ops, WindowCloses(i) \/ ForgetNonce(i) PROVE StepIsOrderly
  BY <1>4, <1>10 DEF WindowCloses, ForgetNonce, rows, discord
<1>11. ASSUME NEW i \in Ops, LateRequestEnds(i) PROVE StepIsOrderly
  BY <1>11, RequestsAreOrderly DEF LateRequestEnds, rows
<1> QED
  BY <1>1, <1>2, <1>3, <1>5, <1>6, <1>7, <1>8, <1>9, <1>10, <1>11
  DEF Next, Dispatch, Administer, Environment

LEMMA OrderKept ==
    ASSUME OutboxInv, Next
    PROVE  OrderInv'
<1> SUFFICES ASSUME NEW i \in Ops, (status[i] # "pending" \/ i \in late)'
             PROVE  (i \in Rows /\ \A j \in 1 .. i - 1 : status[j] \in Resolved)'
  BY DEF OrderInv
<1>1. i \in Rows /\ \A j \in 1 .. i - 1 : j \in Ops /\ status[j] \in Resolved
  BY EveryStepIsOrderly, NumOpsAssumption DEF StepIsOrderly, Claimable, OutboxInv, OrderInv, Ops
<1> QED BY <1>1, EveryStepIsOrderly DEF StepIsOrderly

-----------------------------------------------------------------------------
LEMMA PhaseKept ==
    ASSUME OutboxInv, Next
    PROVE  PhaseInv'
<1> USE NumOpsAssumption, CreatesAssumption DEF OutboxInv
<1>0. /\ pc # "idle" => current \in Ops /\ status[current] = "delivering"
      /\ \A i \in Ops : TookEffect(i) => TookEffect(i)'
  BY EveryStepIsOrderly DEF TypeOK, PhaseInv, StepIsOrderly
<1>1. CASE Enqueue
  BY <1>0, <1>1 DEF Enqueue, PhaseInv, dispatcher
<1>2. CASE RecoverStaleDeliveries
  BY <1>2 DEF RecoverStaleDeliveries, PhaseInv
<1>3. ASSUME NEW i \in Ops, ClaimNext(i) PROVE PhaseInv'
  BY <1>3 DEF ClaimNext, PhaseInv, TypeOK, Ops, NeedsReconciliation
<1>4. CASE LookupFinds
  BY <1>0, <1>4 DEF LookupFinds, PhaseInv, TookEffect, rows
<1>5. CASE LookupMisses \/ LookupFails \/ ResendInWindow
  BY <1>5 DEF LookupMisses, LookupFails, ResendInWindow, PhaseInv, rows
<1>6. CASE RequireReview \/ RecordDelivered \/ ScheduleAmbiguousReconciliation \/ ScheduleRetry
           \/ WriteThrows
  BY <1>6 DEF RequireReview, RecordDelivered, ScheduleAmbiguousReconciliation, ScheduleRetry,
              WriteThrows, PhaseInv, Idle
<1>7. CASE SendSucceeds
  <2>1. TookEffect(current)'
    BY <1>0, <1>7, EffectOfARequest DEF SendSucceeds, TookEffect
  <2> QED BY <1>7, <2>1 DEF SendSucceeds, PhaseInv, rows
<1>8. CASE SendIsAmbiguous \/ SendIsRefused
  BY <1>8 DEF SendIsAmbiguous, SendIsRefused, ClassifiesErrors, PhaseInv, rows
<1>9. CASE RecordDeliveredThrows
  BY <1>9 DEF RecordDeliveredThrows, PhaseInv, rows
<1>10. CASE Crash \/ Restart
  BY <1>10 DEF Crash, Restart, PhaseInv
<1>11. ASSUME NEW i \in Ops, Retry(i) \/ MarkDelivered(i) \/ Abandon(i) PROVE PhaseInv'
  <2>1. status[i] \in {"retry_wait", "needs_review"} /\ UNCHANGED dispatcher
    BY <1>11 DEF Retry, Retryable, MarkDelivered, Abandon
  <2>2. \A j \in Ops \ {i} : status'[j] = status[j]
    BY <1>11 DEF Retry, MarkDelivered, Abandon, Update, TypeOK
  <2> QED BY <1>0, <2>1, <2>2 DEF PhaseInv, dispatcher, TookEffect
<1>12. ASSUME NEW i \in Ops, WindowCloses(i) \/ LateRequestEnds(i) \/ ForgetNonce(i)
       PROVE PhaseInv'
  BY <1>0, <1>12 DEF WindowCloses, LateRequestEnds, ForgetNonce, PhaseInv, rows, dispatcher
<1> QED
  BY <1>1, <1>2, <1>3, <1>4, <1>5, <1>6, <1>7, <1>8, <1>9, <1>10, <1>11, <1>12
  DEF Next, Dispatch, Send, Administer, Environment

\* Every step either processes one request, or forgets nonces at most.
LEMMA OneRequestAtATime ==
    ASSUME OutboxInv, Next
    PROVE  \/ \E i \in Ops : TakesEffect(i)
           \/ UNCHANGED <<posts, deleted>> /\ remembered' \subseteq remembered
<1> USE DEF OutboxInv
<1>0. pc # "idle" => current \in Ops
  BY DEF TypeOK, PhaseInv
<1>1. CASE Send \/ Crash
  BY <1>0, <1>1 DEF Send, SendSucceeds, SendIsAmbiguous, SendIsRefused, Crash, discord
<1>2. CASE \E i \in Ops : LateRequestEnds(i) \/ ForgetNonce(i)
  BY <1>2 DEF LateRequestEnds, ForgetNonce
<1>3. CASE UNCHANGED discord
  BY <1>3 DEF discord
<1> QED
  BY <1>1, <1>2, <1>3
  DEF Next, Dispatch, Administer, Environment, Enqueue, RecoverStaleDeliveries, ClaimNext,
      LookupFinds, LookupMisses, LookupFails, RequireReview, ResendInWindow, RecordDelivered,
      ScheduleAmbiguousReconciliation, ScheduleRetry, RecordDeliveredThrows, WriteThrows,
      Restart, Retry, MarkDelivered, Abandon, WindowCloses

LEMMA EffectKept ==
    ASSUME OutboxInv, Next
    PROVE  EffectInv'
<1> USE DEF OutboxInv
<1>1. \A i \in Ops : (status[i] = "delivered" => TookEffect(i))'
  BY EveryStepIsOrderly DEF StepIsOrderly
<1>2. ASSUME NEW i \in Ops, TakesEffect(i)
      PROVE  /\ \A j \in Ops : posts'[j] > 0 => j \in Creates
             /\ \A j \in remembered' : posts'[j] > 0
  <2>0. /\ TookEffect(i)'
        /\ posts'[i] = IF i \in Creates /\ i \notin remembered THEN posts[i] + 1 ELSE posts[i]
        /\ \A j \in Ops \ {i} : posts'[j] = posts[j] /\ (TookEffect(j)' <=> TookEffect(j))
        /\ remembered' = remembered \union ({i} \intersect Creates)
    BY <1>2, EffectOfARequest, Zenon
  <2>1. /\ i \in Creates => posts'[i] > 0
        /\ i \notin Creates => posts'[i] = posts[i]
    BY <2>0 DEF TookEffect
  <2>2. /\ \A j \in Ops : posts[j] > 0 => j \in Creates
        /\ \A j \in remembered : posts[j] > 0 /\ j \in Ops
    BY CreatesAssumption DEF EffectInv, TypeOK
  <2> QED BY <2>0, <2>1, <2>2
<1>3. CASE UNCHANGED <<posts, deleted>> /\ remembered' \subseteq remembered
  BY <1>1, <1>3 DEF EffectInv
<1> QED BY <1>1, <1>2, <1>3, OneRequestAtATime DEF EffectInv

\* Writing a row that was not resolved keeps the settlement exact.
LEMMA UpdateSettles ==
    ASSUME OutboxInv, NEW i \in Ops, NEW new \in Statuses,
           NEW error \in {"none", "definite", "ambiguous", "review"},
           Update(i, new, error), status[i] \notin Resolved, status[i] # "pending"
    PROVE  SettledInv'
<1> USE RoundOpsAssumption DEF OutboxInv
<1> DEFINE after == [status EXCEPT ![i] = new]
<1>1. /\ status' = after
      /\ settled' = (settled \/ (new \in Resolved /\ Settles(i, after)))
  BY DEF Update
<1>2. after[i] = new /\ \A j \in Ops \ {i} : after[j] = status[j]
  BY DEF TypeOK
<1> HIDE DEF after
<1>3. CASE new \in Resolved /\ i \in RoundOps
  <2>1. ~settled
    BY <1>3 DEF SettledInv
  <2>2. (\A j \in RoundOps : after[j] \in Resolved) => RoundTerminal
    BY <1>2 DEF OrderInv, RoundTerminal, Resolved
  <2> QED BY <1>1, <1>3, <2>1, <2>2 DEF SettledInv, Settles
<1>4. CASE ~(new \in Resolved /\ i \in RoundOps)
  <2>1. settled' <=> settled
    BY <1>1, <1>4 DEF Settles
  <2>2. (\A j \in RoundOps : after[j] \in Resolved) <=> \A j \in RoundOps : status[j] \in Resolved
    BY <1>2, <1>4
  <2> QED BY <1>1, <2>1, <2>2 DEF SettledInv
<1> QED BY <1>3, <1>4

LEMMA SettledKept ==
    ASSUME OutboxInv, Next
    PROVE  SettledInv'
<1> USE RoundOpsAssumption DEF OutboxInv
<1>0. pc # "idle" => current \in Ops /\ status[current] = "delivering"
  BY DEF TypeOK, PhaseInv
<1>1. ASSUME UNCHANGED settled,
             \A i \in Ops : status'[i] \in Resolved <=> status[i] \in Resolved
      PROVE  SettledInv'
  BY <1>1 DEF SettledInv
<1>2. CASE RecoverStaleDeliveries \/ \E i \in Ops : ClaimNext(i)
  BY <1>1, <1>2 DEF RecoverStaleDeliveries, ClaimNext, Claimable, TypeOK, Resolved
<1>3. CASE RequireReview \/ RecordDelivered \/ ScheduleAmbiguousReconciliation \/ ScheduleRetry
  <2>1. current \in Ops /\ status[current] = "delivering"
    BY <1>0, <1>3 DEF RequireReview, RecordDelivered, ScheduleAmbiguousReconciliation, ScheduleRetry
  <2>2. PICK new \in Statuses, error \in {"none", "definite", "ambiguous", "review"} :
          Update(current, new, error)
    BY <1>3 DEF RequireReview, RecordDelivered, ScheduleAmbiguousReconciliation,
                ScheduleRetry, Statuses
  <2> QED BY <2>1, <2>2, UpdateSettles DEF Resolved
<1>4. ASSUME NEW i \in Ops, Retry(i) \/ MarkDelivered(i) \/ Abandon(i) PROVE SettledInv'
  <2>1. status[i] \in {"retry_wait", "needs_review"}
    BY <1>4 DEF Retry, Retryable, MarkDelivered, Abandon
  <2>2. PICK new \in Statuses, error \in {"none", "definite", "ambiguous", "review"} :
          Update(i, new, error)
    BY <1>4 DEF Retry, MarkDelivered, Abandon, Statuses, TypeOK
  <2> QED BY <2>1, <2>2, UpdateSettles DEF Resolved
<1>5. CASE UNCHANGED <<settled, status>>
  BY <1>1, <1>5
<1> QED
  BY <1>2, <1>3, <1>4, <1>5
  DEF Next, Dispatch, Send, Administer, Environment, Enqueue, LookupFinds, LookupMisses,
      LookupFails, ResendInWindow, SendSucceeds, SendIsAmbiguous, SendIsRefused,
      RecordDeliveredThrows, WriteThrows, Crash, Restart, WindowCloses, LateRequestEnds,
      ForgetNonce, rows

-----------------------------------------------------------------------------
\* A step that leaves what NonceInv says of a message alone.
LEMMA OthersKeepNonce ==
    ASSUME OutboxInv, NEW i \in Creates, posts'[i] = posts[i],
           Untouched(i), i \in late' => i \in late,
           i \in remembered => i \in remembered', windowClosed \subseteq windowClosed',
           unconfirmed \subseteq unconfirmed', forgotten \subseteq forgotten',
           pc' = "send" /\ current' = i => pc = "send" /\ current = i,
           pc = "posted" /\ current = i => pc' = "posted" /\ current' = i
    PROVE  PostsOnce(i)'
BY DEF OutboxInv, NonceInv, PostsOnce, MayHaveReached, Untouched

\* A processed request posts a message at most once as long as its row was
\* not marked as a definite failure.
LEMMA ARequestPostsOnce ==
    ASSUME OutboxInv, NEW i \in Creates, TakesEffect(i),
           i \in late \/ (pc = "send" /\ current = i)
    PROVE  /\ i \in remembered' /\ posts' \in [Ops -> Nat]
           /\ i \notin forgotten => posts'[i] <= 1
<1> USE CreatesAssumption DEF OutboxInv
<1>1. posts \in [Ops -> Nat]
  BY DEF TypeOK
<1> QED BY <1>1, EffectOfARequest DEF NonceInv, PostsOnce

LEMMA ARequestOfAnother ==
    ASSUME OutboxInv, NEW i \in Creates, NEW k \in Ops, k # i,
           TakesEffect(k) \/ UNCHANGED <<posts, remembered, deleted>>
    PROVE  posts'[i] = posts[i] /\ (i \in remembered => i \in remembered')
<1> USE CreatesAssumption DEF OutboxInv
<1>1. CASE TakesEffect(k)
  <2>1. /\ \A j \in Ops \ {k} : posts'[j] = posts[j] /\ (TookEffect(j)' <=> TookEffect(j))
        /\ remembered' = remembered \union ({k} \intersect Creates)
    BY <1>1, EffectOfARequest, Zenon
  <2> QED BY <2>1
<1>2. CASE UNCHANGED <<posts, remembered, deleted>>
  BY <1>2
<1> QED BY <1>1, <1>2

LEMMA NonceKept ==
    ASSUME OutboxInv, Next
    PROVE  NonceInv'
<1> USE CreatesAssumption DEF OutboxInv
<1>0. pc # "idle" => current \in Ops /\ status[current] = "delivering"
  BY DEF TypeOK, PhaseInv
<1> SUFFICES ASSUME NEW i \in Creates PROVE PostsOnce(i)'
  BY DEF NonceInv
<1> i \in Ops /\ PostsOnce(i) /\ posts[i] \in Nat
  BY DEF NonceInv, TypeOK
<1>1. CASE Enqueue
  BY <1>1, OthersKeepNonce DEF Enqueue, Untouched, dispatcher, discord, history
<1>2. CASE RecoverStaleDeliveries
  BY <1>2 DEF RecoverStaleDeliveries, PostsOnce, MayHaveReached, discord, history, PhaseInv
<1>3. ASSUME NEW k \in Ops, ClaimNext(k) PROVE PostsOnce(i)'
  <2>1. CASE k = i
    BY <1>3, <2>1 DEF ClaimNext, Claimable, NeedsReconciliation, PostsOnce, MayHaveReached, discord, history, TypeOK
  <2>2. CASE k # i
    BY <1>3, <2>2, OthersKeepNonce DEF ClaimNext, Untouched, discord, history, TypeOK
  <2> QED BY <2>1, <2>2
<1>4. CASE LookupFinds \/ LookupMisses \/ LookupFails
  BY <1>4, OthersKeepNonce DEF LookupFinds, LookupMisses, LookupFails, Untouched, rows, discord, history
<1>5. CASE ResendInWindow
  BY <1>5 DEF ResendInWindow, PostsOnce, MayHaveReached, rows, discord, history
<1>6. CASE SendSucceeds
  <2>1. CASE current = i
    <3>1. i \in remembered' /\ posts'[i] \in Nat /\ (i \notin forgotten => posts'[i] <= 1)
      BY <1>6, <2>1, ARequestPostsOnce DEF SendSucceeds
    <3> QED BY <1>6, <2>1, <3>1, <1>0 DEF SendSucceeds, PostsOnce, MayHaveReached, rows, history
  <2>2. CASE current # i
    BY <1>0, <1>6, <2>2, ARequestOfAnother, OthersKeepNonce DEF SendSucceeds, Untouched, rows, history
  <2> QED BY <2>1, <2>2
<1>7. CASE SendIsAmbiguous
  <2>1. CASE current = i
    BY <1>0, <1>7, <2>1, ARequestPostsOnce DEF SendIsAmbiguous, PostsOnce, MayHaveReached, rows, discord
  <2>2. CASE current # i
    <3>1. /\ current \in Ops /\ late' \subseteq late \union {current}
          /\ TakesEffect(current) \/ UNCHANGED <<posts, remembered, deleted>>
      BY <1>0, <1>7 DEF SendIsAmbiguous, discord
    <3> QED BY <1>7, <2>2, <3>1, ARequestOfAnother, OthersKeepNonce DEF SendIsAmbiguous, Untouched, rows
  <2> QED BY <2>1, <2>2
<1>8. CASE SendIsRefused
  <2>1. CASE current = i
    BY <1>0, <1>8, <2>1 DEF SendIsRefused, PostsOnce, MayHaveReached, rows, discord, history
  <2>2. CASE current # i
    <3>1. /\ current \in Ops /\ late' = late
          /\ TakesEffect(current) \/ UNCHANGED <<posts, remembered, deleted>>
      BY <1>0, <1>8 DEF SendIsRefused, discord
    <3> QED BY <1>8, <2>2, <3>1, ARequestOfAnother, OthersKeepNonce DEF SendIsRefused, Untouched, rows, history
  <2> QED BY <2>1, <2>2
<1>9. CASE RequireReview \/ RecordDelivered \/ ScheduleAmbiguousReconciliation \/ ScheduleRetry
  <2>1. current \in Ops /\ status[current] = "delivering"
    BY <1>0, <1>9 DEF RequireReview, RecordDelivered, ScheduleAmbiguousReconciliation, ScheduleRetry
  <2>2. PICK new \in Statuses, error \in {"none", "definite", "ambiguous", "review"} :
          /\ Update(current, new, error)
          /\ new = "retry_wait" /\ error # "ambiguous" => ScheduleRetry
          /\ new # "pending"
          /\ pc = "posted" => new = "delivered"
    BY <1>9 DEF RequireReview, RecordDelivered, ScheduleAmbiguousReconciliation,
                ScheduleRetry, Statuses
  <2>3. /\ status'[current] = new /\ lastError'[current] = error
        /\ current # i => Untouched(i)
    BY <2>1, <2>2, UpdateOfARow
  <2>4. /\ UNCHANGED <<discord, windowClosed, unconfirmed>> /\ pc' = "idle"
        /\ forgotten \subseteq forgotten'
        /\ ScheduleRetry => pc = "definite" /\ (current \in unconfirmed => current \in forgotten')
    BY <1>9 DEF RequireReview, RecordDelivered, ScheduleAmbiguousReconciliation,
                ScheduleRetry, Idle, history
  <2>5. CASE current = i
    BY <2>1, <2>2, <2>3, <2>4, <2>5 DEF PostsOnce, MayHaveReached, discord
  <2>6. CASE current # i
    BY <2>3, <2>4, <2>6, OthersKeepNonce DEF discord
  <2> QED BY <2>5, <2>6
<1>10. CASE RecordDeliveredThrows
  BY <1>10 DEF RecordDeliveredThrows, PostsOnce, MayHaveReached, rows, discord
<1>11. CASE WriteThrows
  BY <1>11, OthersKeepNonce DEF WriteThrows, Idle, Untouched, rows, discord, history
<1>12. CASE Crash
  <2>1. CASE current = i /\ pc \in {"send", "posted"}
    BY <1>0, <1>12, <2>1, ARequestPostsOnce DEF Crash, PostsOnce, MayHaveReached, rows, discord
  <2>2. CASE ~(current = i /\ pc \in {"send", "posted"})
    <3>1. /\ posts'[i] = posts[i] /\ (i \in remembered => i \in remembered')
          /\ i \in late' => i \in late
      <4>1. CASE UNCHANGED discord
        BY <4>1 DEF discord
      <4>2. CASE /\ pc = "send" /\ late' \subseteq late \union {current}
                 /\ TakesEffect(current) \/ UNCHANGED <<posts, remembered, deleted>>
        BY <1>0, <2>2, <4>2, ARequestOfAnother
      <4> QED BY <1>12, <4>1, <4>2 DEF Crash
    <3> QED BY <1>12, <2>2, <3>1, OthersKeepNonce DEF Crash, Untouched, rows
  <2> QED BY <2>1, <2>2
<1>13. CASE Restart
  BY <1>13, OthersKeepNonce DEF Restart, Untouched, rows, discord, history
<1>14. ASSUME NEW k \in Ops, Retry(k) \/ MarkDelivered(k) \/ Abandon(k) PROVE PostsOnce(i)'
  <2>1. PICK new \in Statuses, error \in {"none", "definite", "ambiguous", "review"} :
          /\ Update(k, new, error)
          /\ new = "pending" => error = lastError[k]
          /\ new \in {"pending", "delivered", "abandoned"}
    BY <1>14 DEF Retry, MarkDelivered, Abandon, Statuses, TypeOK
  <2>2. /\ status[k] \in {"retry_wait", "needs_review"}
        /\ new = "pending" => status[k] = "retry_wait"
        /\ UNCHANGED <<dispatcher, windowClosed, discord, history>>
    BY <1>14, <2>1, UpdateOfARow DEF Retry, Retryable, MarkDelivered, Abandon, Update, TypeOK
  <2>3. /\ status'[k] = new /\ lastError'[k] = error
        /\ k # i => Untouched(i)
    BY <2>1, UpdateOfARow
  <2>4. CASE k = i
    BY <2>1, <2>2, <2>3, <2>4, <1>0 DEF PostsOnce, MayHaveReached, dispatcher, discord, history
  <2>5. CASE k # i
    BY <2>2, <2>3, <2>5, OthersKeepNonce DEF dispatcher, discord, history
  <2> QED BY <2>4, <2>5
<1>15. ASSUME NEW k \in Ops, WindowCloses(k) PROVE PostsOnce(i)'
  BY <1>15, OthersKeepNonce DEF WindowCloses, Untouched, rows, dispatcher, discord, history
<1>16. ASSUME NEW k \in Ops, LateRequestEnds(k) PROVE PostsOnce(i)'
  <2>1. CASE k = i
    BY <1>16, <2>1, ARequestPostsOnce DEF LateRequestEnds, PostsOnce, MayHaveReached, rows, dispatcher, history
  <2>2. CASE k # i
    BY <1>16, <2>2, ARequestOfAnother, OthersKeepNonce DEF LateRequestEnds, Untouched, rows, dispatcher, history
  <2> QED BY <2>1, <2>2
<1>17. ASSUME NEW k \in Ops, ForgetNonce(k) PROVE PostsOnce(i)'
  BY <1>17 DEF ForgetNonce, PostsOnce, MayHaveReached, rows, dispatcher, history
<1> QED
  BY <1>1, <1>2, <1>3, <1>4, <1>5, <1>6, <1>7, <1>8, <1>9, <1>10, <1>11, <1>12, <1>13,
     <1>14, <1>15, <1>16, <1>17
  DEF Next, Dispatch, Send, Administer, Environment

-----------------------------------------------------------------------------
LEMMA StutterKeepsOutbox ==
    ASSUME OutboxInv, UNCHANGED vars
    PROVE  OutboxInv'
<1> USE DEF OutboxInv, vars
<1>1. TypeOK'
  BY DEF TypeOK
<1>2. PhaseInv' /\ OrderInv' /\ EffectInv' /\ SettledInv'
  BY DEF PhaseInv, OrderInv, EffectInv, SettledInv, TookEffect, Rows
<1>3. NonceInv'
  BY DEF NonceInv, PostsOnce, MayHaveReached
<1> QED BY <1>1, <1>2, <1>3

\* The inductive invariant of the outbox: types, one row at a time, delivered
\* only after the effect, an exact settlement, and what Discord remembers.
THEOREM OutboxInvariant == Spec => []OutboxInv
<1>1. OutboxInv /\ [Next]_vars => OutboxInv'
  BY TypesKept, PhaseKept, OrderKept, EffectKept, SettledKept, NonceKept, StutterKeepsOutbox
  DEF OutboxInv
<1> QED BY <1>1, TypesInitially, PTL DEF Spec

LEMMA OwnershipFromTheInvariant ==
    ASSUME OutboxInv
    PROVE  DispatcherOwnsItsRow
<1>1. SUFFICES ASSUME pc # "idle"
               PROVE  /\ up /\ status[current] = "delivering"
                      /\ \A i \in Rows : status[i] = "delivering" => i = current
  BY DEF DispatcherOwnsItsRow, OutboxInv
<1>2. up /\ status[current] = "delivering" /\ current \in Ops
  BY <1>1 DEF OutboxInv, PhaseInv, TypeOK
<1>3. ASSUME NEW i \in Ops, NEW j \in Ops, i < j,
             status[i] = "delivering", status[j] = "delivering"
      PROVE  FALSE
  BY <1>3, NumOpsAssumption DEF OutboxInv, OrderInv, Ops, Resolved
<1>4. Rows \subseteq Ops /\ Ops \subseteq Int
  BY NumOpsAssumption DEF OutboxInv, TypeOK, Rows, Ops
<1> QED BY <1>2, <1>3, <1>4

\* While the dispatcher works on a row the process runs and no other row says
\* delivering: the UPDATEs of recordDelivered, scheduleRetry and requireReview,
\* which do not look at the status they overwrite, never meet a row that
\* somebody else resolved.
THEOREM DispatcherIsAlone == Spec => []DispatcherOwnsItsRow
BY OutboxInvariant, OwnershipFromTheInvariant, PTL

\* However answers are lost, late or refused and wherever the process stops, a
\* message is posted twice only after its row was marked as a definite failure
\* although an earlier request may have taken effect.
THEOREM DuplicatesNeedAForgottenRow == Spec => []DuplicatesOnlyAfterForgetting
<1>1. OutboxInv => DuplicatesOnlyAfterForgetting
  BY CreatesAssumption DEF OutboxInv, TypeOK, NonceInv, PostsOnce, DuplicatesOnlyAfterForgetting
<1> QED BY <1>1, OutboxInvariant, PTL

\* No refusal and no failed write happens.
NothingFails == MaxDefinite = 0 /\ MaxWriteFaults = 0

LEMMA NoFailureNoForgetting ==
    ASSUME NothingFails, OutboxInv, pc # "definite", forgotten = {}, [Next]_vars
    PROVE  pc' # "definite" /\ forgotten' = {}
<1>1. ~Fault("definite") /\ ~Fault("write")
  BY DEF NothingFails, Fault, Budget, FaultKinds, OutboxInv, TypeOK
<1>2. ~SendIsRefused /\ ~RecordDeliveredThrows /\ ~WriteThrows /\ ~ScheduleRetry
  BY <1>1 DEF SendIsRefused, RecordDeliveredThrows, WriteThrows, ScheduleRetry
<1> QED
  BY <1>2 DEF Next, Dispatch, Send, Administer, Environment, Enqueue, RecoverStaleDeliveries,
      ClaimNext, LookupFinds, LookupMisses, LookupFails, RequireReview, ResendInWindow,
      SendSucceeds, SendIsAmbiguous, RecordDelivered, ScheduleAmbiguousReconciliation,
      Crash, Restart, Retry, MarkDelivered, Abandon, WindowCloses, LateRequestEnds,
      ForgetNonce, Idle, dispatcher, history, vars

\* The promise of the design, where it holds: as long as Discord refuses no
\* request and no transaction of the dispatcher throws, no message is ever
\* posted twice, whatever answers are lost and wherever the process stops.
THEOREM NoBlindDuplicateWithoutFailures ==
    ASSUME NothingFails
    PROVE  Spec => []NoBlindDuplicate
<1> DEFINE Unforgotten == pc # "definite" /\ forgotten = {}
<1>1. Init => Unforgotten
  BY DEF Init
<1>2. OutboxInv /\ Unforgotten /\ [Next]_vars => Unforgotten'
  BY NoFailureNoForgetting
<1>3. OutboxInv /\ Unforgotten => NoBlindDuplicate
  BY CreatesAssumption DEF OutboxInv, TypeOK, NonceInv, PostsOnce, NoBlindDuplicate
<1> HIDE DEF Unforgotten
<1> QED BY <1>1, <1>2, <1>3, OutboxInvariant, PTL DEF Spec

-----------------------------------------------------------------------------
(* The refinement of OrderedChannel. *)

Visible == {i \in Ops : TookEffect(i)}
Outcome == [i \in Ops |-> IF status[i] \in Resolved THEN status[i] ELSE "open"]

\* The steps of OrderedChannel under the refinement mapping, and its stutter.
ChannelNext ==
    \/ Channel!Ask
    \/ \E i \in Ops : Channel!Appear(i)
    \/ \E i \in Ops, how \in {"delivered", "abandoned"} : Channel!Conclude(i, how)

ChannelStutter == UNCHANGED <<enqueued, Visible, Outcome, settled>>

\* A processed request is an appearance, or nothing new appears.
LEMMA ARequestAppears ==
    ASSUME OutboxInv, NEW i \in Ops, status[i] # "pending" \/ i \in late,
           TakesEffect(i) \/ UNCHANGED <<posts, deleted>>,
           UNCHANGED <<enqueued, status, settled>>
    PROVE  Channel!Appear(i) \/ ChannelStutter
<1> USE NumOpsAssumption DEF OutboxInv
<1>0. Outcome' = Outcome
  BY DEF Outcome
<1>1. CASE UNCHANGED <<posts, deleted>>
  BY <1>0, <1>1 DEF ChannelStutter, Visible, TookEffect
<1>2. CASE TakesEffect(i)
  <2>1. Visible' = Visible \union {i}
    <3>1. TookEffect(i)' /\ \A j \in Ops \ {i} : TookEffect(j)' <=> TookEffect(j)
      BY <1>2, EffectOfARequest
    <3> QED BY <3>1 DEF Visible
  <2>2. CASE TookEffect(i)
    BY <1>0, <2>1, <2>2 DEF ChannelStutter, Visible
  <2>3. CASE ~TookEffect(i)
    <3>1. i \in 1 .. enqueued /\ i \notin Visible /\ status[i] # "delivered"
      BY <2>3 DEF OrderInv, EffectInv, Rows, Visible
    <3>2. \A j \in 1 .. i - 1 : j \in Ops /\ status[j] \in Resolved
      BY DEF OrderInv, Ops
    <3>3. \A j \in 1 .. i - 1 : j \in Visible \/ Outcome[j] = "abandoned"
      BY <3>2 DEF EffectInv, Visible, Outcome, Resolved
    <3>4. Outcome[i] # "delivered"
      BY <3>1 DEF Outcome, Resolved
    <3> QED BY <1>0, <2>1, <3>1, <3>3, <3>4
        DEF Channel!Appear, Channel!Before, Visible, Outcome
  <2> QED BY <2>2, <2>3
<1> QED BY <1>1, <1>2

\* A row that is written is concluded, or stays open.
LEMMA AWriteConcludes ==
    ASSUME OutboxInv, NEW i \in Ops, NEW new \in Statuses,
           NEW error \in {"none", "definite", "ambiguous", "review"},
           Update(i, new, error), status[i] \notin Resolved, status[i] # "pending",
           new = "delivered" => TookEffect(i), UNCHANGED <<posts, deleted>>
    PROVE  \/ \E how \in {"delivered", "abandoned"} : Channel!Conclude(i, how)
           \/ ChannelStutter
<1> USE NumOpsAssumption, RoundOpsAssumption DEF OutboxInv
<1>0. Visible' = Visible
  BY DEF Visible, TookEffect
<1>1. /\ enqueued' = enqueued /\ status'[i] = new
      /\ \A j \in Ops \ {i} : status'[j] = status[j]
      /\ SettledInv' /\ settled \in BOOLEAN /\ settled' \in BOOLEAN
  BY UpdateOfARow, UpdateSettles DEF Untouched, TypeOK
<1>2. CASE new \in Resolved
  <2>1. /\ Outcome[i] = "open" /\ i \in 1 .. enqueued
        /\ \A j \in 1 .. i - 1 : Outcome[j] # "open"
    BY DEF Outcome, OrderInv, Ops, Rows, Resolved
  <2>2. Outcome' = [Outcome EXCEPT ![i] = new]
    <3>1. Outcome' = [j \in Ops |-> IF j = i THEN new ELSE Outcome[j]]
      BY <1>1, <1>2 DEF Outcome
    <3> QED BY <3>1 DEF Outcome
  <2>3. settled' = \A j \in RoundOps : Outcome'[j] # "open"
    <3>1. \A j \in RoundOps : Outcome'[j] # "open" <=> status'[j] \in Resolved
      BY DEF Outcome, Resolved
    <3>2. settled' <=> \A j \in RoundOps : Outcome'[j] # "open"
      BY <1>1, <3>1 DEF SettledInv
    <3> QED BY <1>1, <3>2
  <2>4. new = "delivered" => i \in Visible
    BY DEF Visible
  <2>5. Channel!Conclude(i, new)
    BY <1>0, <1>1, <2>1, <2>2, <2>3, <2>4 DEF Channel!Conclude, Channel!Before, Visible, Outcome
  <2> QED BY <1>2, <2>5 DEF Resolved
<1>3. CASE new \notin Resolved
  <2>1. Outcome' = Outcome
    BY <1>1, <1>3 DEF Outcome
  <2>2. settled' = settled
    <3>1. settled' <=> settled
      BY <1>3 DEF Update
    <3> QED BY <1>1, <3>1
  <2> QED BY <1>0, <1>1, <2>1, <2>2 DEF ChannelStutter
<1> QED BY <1>2, <1>3

LEMMA StepsOfTheChannel ==
    ASSUME OutboxInv, Next
    PROVE  ChannelNext \/ ChannelStutter
<1> USE DEF OutboxInv
<1>0. pc # "idle" => current \in Ops /\ status[current] = "delivering"
  BY DEF TypeOK, PhaseInv
<1>1. ASSUME UNCHANGED <<enqueued, settled, posts, deleted>>,
             \A i \in Ops : \/ status'[i] = status[i]
                            \/ status[i] \notin Resolved /\ status'[i] \notin Resolved
      PROVE  ChannelStutter
  BY <1>1 DEF ChannelStutter, Visible, Outcome, TookEffect
<1>2. CASE Enqueue
  BY <1>2 DEF Enqueue, ChannelNext, Channel!Ask, TookEffect, discord
<1>3. CASE RecoverStaleDeliveries \/ \E i \in Ops : ClaimNext(i)
  BY <1>1, <1>3 DEF RecoverStaleDeliveries, ClaimNext, Claimable, TypeOK, Resolved, discord
<1>4. CASE RequireReview \/ RecordDelivered \/ ScheduleAmbiguousReconciliation \/ ScheduleRetry
  <2>1. current \in Ops /\ status[current] = "delivering"
    BY <1>0, <1>4 DEF RequireReview, RecordDelivered, ScheduleAmbiguousReconciliation, ScheduleRetry
  <2>2. PICK new \in Statuses, error \in {"none", "definite", "ambiguous", "review"} :
          /\ Update(current, new, error)
          /\ new = "delivered" => pc \in {"posted", "found"}
    BY <1>4 DEF RequireReview, RecordDelivered, ScheduleAmbiguousReconciliation,
                ScheduleRetry, Statuses
  <2>3. new = "delivered" => TookEffect(current)
    BY <2>2 DEF PhaseInv
  <2>4. UNCHANGED <<posts, deleted>>
    BY <1>4 DEF RequireReview, RecordDelivered, ScheduleAmbiguousReconciliation, ScheduleRetry, discord
  <2> QED BY <2>1, <2>2, <2>3, <2>4, AWriteConcludes DEF Resolved, ChannelNext
<1>5. CASE Send \/ (Crash /\ pc = "send")
  <2>1. pc = "send" /\ current \in Ops /\ status[current] = "delivering"
    BY <1>0, <1>5 DEF Send, SendSucceeds, SendIsAmbiguous, SendIsRefused
  <2>2. TakesEffect(current) \/ UNCHANGED <<posts, deleted>>
    BY <1>5 DEF Send, SendSucceeds, SendIsAmbiguous, SendIsRefused, Crash, discord
  <2>3. UNCHANGED <<enqueued, status, settled>>
    BY <1>5 DEF Send, SendSucceeds, SendIsAmbiguous, SendIsRefused, Crash, rows
  <2> QED BY <2>1, <2>2, <2>3, ARequestAppears DEF ChannelNext
<1>6. ASSUME NEW i \in Ops, Retry(i) \/ MarkDelivered(i) \/ Abandon(i)
      PROVE  ChannelNext \/ ChannelStutter
  <2>1. PICK new \in Statuses, error \in {"none", "definite", "ambiguous", "review"} :
          /\ Update(i, new, error)
          /\ new = "delivered" => posts[i] > 0
    BY <1>6 DEF Retry, MarkDelivered, Abandon, Statuses, TypeOK
  <2>2. new = "delivered" => TookEffect(i)
    BY <2>1 DEF EffectInv, TookEffect
  <2>3. status[i] \in {"retry_wait", "needs_review"} /\ UNCHANGED <<posts, deleted>>
    BY <1>6 DEF Retry, Retryable, MarkDelivered, Abandon, discord
  <2> QED BY <2>1, <2>2, <2>3, AWriteConcludes DEF Resolved, ChannelNext
<1>7. ASSUME NEW i \in Ops, LateRequestEnds(i) PROVE ChannelNext \/ ChannelStutter
  BY <1>7, ARequestAppears DEF LateRequestEnds, rows, ChannelNext
<1>8. CASE UNCHANGED <<enqueued, status, settled, posts, deleted>>
  BY <1>1, <1>8
<1>9. CASE Crash /\ pc # "send"
  BY <1>8, <1>9 DEF Crash, rows, discord
<1> QED
  BY <1>2, <1>3, <1>4, <1>5, <1>6, <1>7, <1>8, <1>9
  DEF Next, Dispatch, Administer, Environment, LookupFinds, LookupMisses, LookupFails,
      ResendInWindow, RecordDeliveredThrows, WriteThrows, Restart, WindowCloses,
      ForgetNonce, rows, discord

\* The outbox implements the ordered channel: for every way operations,
\* failures, clicks and answers can interleave, effects appear and rows are
\* concluded in order, nothing resolved is taken up again, and the round is
\* settled by the step that resolves the last of its operations.
THEOREM OutboxImplementsOrderedChannel == Spec => ImplementsOrderedChannel
<1>1. Init => Channel!Init
  BY CreatesAssumption DEF Init, Channel!Init, TookEffect, Resolved
<1>2. OutboxInv /\ [Next]_vars => [Channel!Next]_(Channel!channelVars)
  <2>1. SUFFICES ASSUME OutboxInv, [Next]_vars
                 PROVE  Channel!Next \/ UNCHANGED Channel!channelVars
    OBVIOUS
  <2>2. ChannelNext => Channel!Next
    BY DEF ChannelNext, Channel!Next
  <2>3. ChannelStutter => UNCHANGED Channel!channelVars
    BY DEF ChannelStutter, Channel!channelVars, Visible, Outcome
  <2>4. UNCHANGED vars => ChannelStutter
    BY DEF vars, ChannelStutter, Visible, Outcome, TookEffect
  <2> QED BY <2>1, <2>2, <2>3, <2>4, StepsOfTheChannel
<1> QED BY <1>1, <1>2, OutboxInvariant, PTL DEF Spec, Channel!Spec, ImplementsOrderedChannel
=============================================================================
