------------------------- MODULE MessageIntakeProofs -------------------------
(***************************************************************************)
(* For any number of messages, rounds, gaps, failures and crashes, as long *)
(* as failures do not overlap (NoOverlap): no player's message is passed   *)
(* over, messages are judged in the order of the channel, and nothing is   *)
(* evaluated while a break waits for its reset.                            *)
(*                                                                         *)
(* The argument.  What a player posted in the round and nobody examined is *)
(* due.  A message that is due and could be overtaken is ahead of those    *)
(* that follow it, on its way from Discord, in the buffer or in the queue  *)
(* (QueueOrder to OnlineOrder), or a reconciliation in the queue will read *)
(* it, or the gate stays closed until one does (ReadLater).  A             *)
(* reconciliation that ends leaves nothing due, so that the order can only *)
(* be lost by failing, which closes the gate (GateInv).                    *)
(***************************************************************************)
EXTENDS MessageIntake, FiniteSetTheorems, WellFoundedInduction, TLAPS

\* A reconciliation fails alone, a message before messages.
NoOverlap == FailuresOverlap = FALSE

IsReconcile(i) == queue[i].kind = "reconcile"
IsMessage(i) == queue[i].kind = "message"
AllMessages == \A i \in DOMAIN queue : IsMessage(i)
HeadReconciles == queue # << >> /\ IsReconcile(1) /\ job.pc # "start"

Succeeded == \E i \in DOMAIN conts : conts[i].ok
Failed == \E i \in DOMAIN conts : ~conts[i].ok

\* The reconciliation of the start-up is the first job and the first to continue;
\* nothing outlives the process.
BootInv ==
    /\ boot = "off" =>
          /\ queue = << >> /\ conts = << >> /\ inTransit = << >> /\ buffered = << >>
          /\ ~online /\ ~accepting /\ ~intakeFailure
    /\ \A i \in DOMAIN queue :
          queue[i] = ReconcileJob("startup") => i = 1 /\ boot = "reconciling" /\ conts = << >>
    /\ \A i \in DOMAIN conts :
          conts[i].owner = "startup" =>
             /\ i = 1 /\ boot = "reconciling"
             /\ \A j \in DOMAIN queue : queue[j] # ReconcileJob("startup")
    /\ intakeFailure => boot = "live"

\* After a failure the gate is closed, and what is queued is buffered before the next
\* reconciliation.
GateInv ==
    /\ accepting => buffered = << >> /\ ~intakeFailure
    /\ Failed => Len(conts) = 1 /\ queue = << >> /\ ~accepting
    /\ \A i \in DOMAIN conts : conts[i] = [owner |-> "reconnect", ok |-> FALSE] => boot = "live"
    /\ intakeFailure =>
          /\ \A i, j \in DOMAIN queue : i < j /\ IsReconcile(i) => IsReconcile(j)
          /\ Succeeded => \A i \in DOMAIN queue : IsReconcile(i)

\* What the listing of the window left out is in the database already.
RecordedInv == \A m \in Messages : ~Fresh(m) => m \in examined

WindowLeft ==
    \A u \in Eligible : job.cursor < u /\ u <= job.highWater => u \in Window \/ u \in examined

\* Where the head of the queue is.
JobInv ==
    /\ HeadReconciles =>
          /\ job.cursor = checkpoint /\ job.highWater <= posted
          /\ \A m \in job.listing : m <= job.highWater
          /\ job.pc # "list" => WindowLeft
          /\ job.pc \in {"judge", "advance"} => Window # {}
          /\ job.pc = "advance" => NextMessage \in examined
          /\ job.pc \in {"final", "finish"} => Window = {}
          /\ conts # << >> => job.pc \in {"list", "finish"}
    /\ queue # << >> /\ IsMessage(1) /\ job.pc = "advance" =>
          ~intakeFailure /\ queue[1].message \in examined

CoverInv ==
    /\ checkpoint <= posted
    /\ CheckpointCoversExamined
    /\ \A i \in DOMAIN queue : IsMessage(i) => queue[i].message <= posted
    /\ \A i \in DOMAIN buffered : buffered[i] <= posted
    /\ \A i \in DOMAIN inTransit : inTransit[i] <= posted

\* What a player posted in the round and nobody looked at, and where it may be.
Due(u) == u \in Eligible /\ since < u /\ u <= posted /\ u \notin examined

Queued(u) == \E i \in DOMAIN queue : queue[i] = MessageJob(u)
Buffered(u) == \E i \in DOMAIN buffered : buffered[i] = u
OnTheWay(u) == \E i \in DOMAIN inTransit : inTransit[i] = u

\* A reconciliation that has not taken its final look; and a gate that only a
\* reconciliation will open.
WillRead(i) == IsReconcile(i) /\ (i = 1 => job.pc # "finish")
Stuck == (intakeFailure \/ Failed) /\ ~Succeeded /\ AllMessages
ReadLater == Stuck \/ \E i \in DOMAIN queue : WillRead(i)

QueueOrder ==
    RoundActive /\ ~intakeFailure =>
      \A u \in Eligible, i \in DOMAIN queue :
        Due(u) /\ IsMessage(i) /\ u < queue[i].message =>
          \E j \in DOMAIN queue : j < i /\ (queue[j] = MessageJob(u) \/ WillRead(j))

BufferOrder ==
    RoundActive =>
      \A u \in Eligible, i \in DOMAIN buffered :
        Due(u) /\ u < buffered[i] =>
          ReadLater \/ Queued(u) \/ \E j \in DOMAIN buffered : j < i /\ buffered[j] = u

TransitOrder ==
    RoundActive =>
      \A u \in Eligible, i \in DOMAIN inTransit :
        Due(u) /\ u < inTransit[i] =>
          \/ ReadLater \/ Queued(u) \/ Buffered(u)
          \/ \E j \in DOMAIN inTransit : j < i /\ inTransit[j] = u

OnlineOrder ==
    RoundActive /\ online =>
      \A u \in Eligible : Due(u) => ReadLater \/ Queued(u) \/ Buffered(u) \/ OnTheWay(u)

OrderInv == QueueOrder /\ BufferOrder /\ TransitOrder /\ OnlineOrder

TakenUpFirst ==
    /\ boot = "off" \/ Stuck \/ \E i \in DOMAIN queue : IsReconcile(i)
    /\ \A i \in DOMAIN queue :
         IsMessage(i) => intakeFailure \/ \E j \in DOMAIN queue : j < i /\ IsReconcile(j)

\* One break at most waits for its reset: that of the reconciliation under way, or
\* one that a reconciliation will take up before a message of its round is processed.
BreakInv ==
    /\ \A a, b \in PendingBreaks : a = b
    /\ \A m \in resets : disposition[m].kind = "broken"
    /\ HeadReconciles => PendingBreaks = IF job.breaking = 0 THEN {} ELSE {job.breaking}
    /\ Succeeded => PendingBreaks = {}
    /\ RoundActive =>
         \A b \in PendingBreaks :
           disposition[b].round = Latest => TakenUpFirst

IntakeInv ==
    /\ TypeOK
    /\ BootInv
    /\ GateInv
    /\ JobInv
    /\ CoverInv
    /\ OrderInv
    /\ BreakInv


-----------------------------------------------------------------------------
\* The least and the greatest of a set of messages.

LEMMA LeastNatural ==
    ASSUME NEW S \in SUBSET Nat, S # {}
    PROVE  \E x \in S : \A y \in S : x <= y
<1>1. ASSUME NEW R, IsWellFoundedOn(R, Nat), \A x, y \in Nat : y < x => <<y, x>> \in R
      PROVE  \E x \in S : \A y \in S : x <= y
  <2>1. PICK x \in S : \A y \in S : ~ (<<y, x>> \in R)
    BY <1>1, WFMin
  <2>2. \A y \in S : ~ (y < x)
    BY <1>1, <2>1
  <2> QED BY <2>2
<1>2. IsWellFoundedOn(OpToRel(<, Nat), Nat)
  BY NatLessThanWellFounded, Zenon
<1>3. \A x, y \in Nat : y < x => <<y, x>> \in OpToRel(<, Nat)
  BY Zenon DEF OpToRel
<1> QED BY <1>1, <1>2, <1>3, Zenon

LEMMA LeastMessage ==
    ASSUME NEW S \in SUBSET Messages, S # {}
    PROVE  Min(S) \in S /\ \A m \in S : Min(S) <= m
<1>1. S \subseteq Nat
  BY NumMessagesAssumption DEF Messages
<1>2. \E x \in S : \A y \in S : x =< y
  BY <1>1, LeastNatural
<1> QED BY <1>2 DEF Min

\* The greatest is as far from the end as the least of its mirror image.
LEMMA GreatestMessage ==
    ASSUME NEW S \in SUBSET Messages, S # {}
    PROVE  Max(S) \in S /\ \A m \in S : m <= Max(S)
<1> DEFINE T == {NumMessages - m : m \in S}
<1>1. NumMessages \in Nat /\ S \subseteq Nat /\ \A m \in S : m <= NumMessages
  BY NumMessagesAssumption DEF Messages
<1>2. T \subseteq Nat /\ T # {}
  <2>1. \A m \in S : NumMessages - m \in Nat
    BY <1>1
  <2> QED BY <2>1
<1>4. PICK x \in T : \A y \in T : x <= y
  <2> HIDE DEF T
  <2> QED BY <1>2, LeastNatural
<1>5. PICK n \in S : x = NumMessages - n
  OBVIOUS
<1>6. \A m \in S : n >= m
  <2>1. \A m \in S : NumMessages - n <= NumMessages - m
    BY <1>4, <1>5
  <2> QED BY <1>1, <2>1
<1>7. \E y \in S : \A m \in S : y >= m
  BY <1>6
<1>8. Max(S) \in S /\ \A m \in S : Max(S) >= m
  BY <1>7 DEF Max
<1> QED BY <1>1, <1>8

LEMMA GreaterOfTwo ==
    ASSUME NEW a \in Nat, NEW b \in Nat
    PROVE  Max({a, b}) \in {a, b} /\ a <= Max({a, b}) /\ b <= Max({a, b})
<1>1. \E x \in {a, b} : \A y \in {a, b} : x >= y
  <2>1. CASE a >= b BY <2>1
  <2>2. CASE b >= a BY <2>2
  <2> QED BY <2>1, <2>2
<1>2. Max({a, b}) \in {a, b} /\ \A y \in {a, b} : Max({a, b}) >= y
  BY <1>1 DEF Max
<1> QED BY <1>2

-----------------------------------------------------------------------------
\* Sequences.

LEMMA TailOf ==
    ASSUME NEW S, NEW q \in Seq(S), q # << >>
    PROVE  /\ Tail(q) \in Seq(S) /\ Head(q) = q[1] /\ 1 \in DOMAIN q /\ q[1] \in S
           /\ Len(q) \in Nat \ {0} /\ Len(Tail(q)) = Len(q) - 1
           /\ DOMAIN q = 1 .. Len(q) /\ DOMAIN Tail(q) = 1 .. Len(q) - 1
           /\ \A i \in DOMAIN Tail(q) : Tail(q)[i] = q[i + 1] /\ i + 1 \in DOMAIN q
           /\ \A i \in DOMAIN q \ {1} : i - 1 \in DOMAIN Tail(q) /\ Tail(q)[i - 1] = q[i]
OBVIOUS

LEMMA AppendTo ==
    ASSUME NEW S, NEW q \in Seq(S), NEW x \in S
    PROVE  /\ Append(q, x) \in Seq(S) /\ Len(q) \in Nat
           /\ DOMAIN q = 1 .. Len(q) /\ DOMAIN Append(q, x) = 1 .. Len(q) + 1
           /\ Append(q, x)[Len(q) + 1] = x
           /\ \A i \in DOMAIN q : Append(q, x)[i] = q[i]
           /\ Append(q, x) # << >>
OBVIOUS

LEMMA ConcatOf ==
    ASSUME NEW S, NEW q \in Seq(S), NEW r \in Seq(S)
    PROVE  /\ q \o r \in Seq(S) /\ Len(q) \in Nat /\ Len(r) \in Nat
           /\ DOMAIN q = 1 .. Len(q) /\ DOMAIN r = 1 .. Len(r)
           /\ DOMAIN (q \o r) = 1 .. Len(q) + Len(r)
           /\ \A i \in DOMAIN q : (q \o r)[i] = q[i]
           /\ \A i \in DOMAIN r : (q \o r)[Len(q) + i] = r[i]
           /\ \A i \in DOMAIN (q \o r) \ DOMAIN q :
                 i - Len(q) \in DOMAIN r /\ (q \o r)[i] = r[i - Len(q)]
OBVIOUS


-----------------------------------------------------------------------------
\* The jobs of the queue.

Jobs == {MessageJob(m) : m \in Messages} \cup {ReconcileJob(o) : o \in Owners}

LEMMA JobTyped ==
    ASSUME NEW x \in Jobs
    PROVE  /\ \/ x.kind = "message" /\ x.message \in Messages /\ x = MessageJob(x.message)
              \/ x.kind = "reconcile" /\ x.owner \in Owners /\ x = ReconcileJob(x.owner)
           /\ \A u : x = MessageJob(u) => x.kind = "message" /\ x.message = u
           /\ \A o : x = ReconcileJob(o) => x.kind = "reconcile" /\ x.owner = o
BY DEF Jobs, MessageJob, ReconcileJob

LEMMA NewJobTyped ==
    /\ \A m \in Messages : MessageJob(m) \in Jobs /\ MessageJob(m).kind = "message"
                           /\ MessageJob(m).message = m
    /\ \A o \in Owners : ReconcileJob(o) \in Jobs /\ ReconcileJob(o).kind = "reconcile"
                         /\ ReconcileJob(o).owner = o
BY DEF Jobs, MessageJob, ReconcileJob

LEMMA QueueTyped ==
    ASSUME TypeOK
    PROVE  /\ queue \in Seq(Jobs) /\ Len(queue) \in Nat /\ DOMAIN queue = 1 .. Len(queue)
           /\ \A i \in DOMAIN queue :
                /\ queue[i] \in Jobs
                /\ IsMessage(i) \/ IsReconcile(i)
                /\ ~(IsMessage(i) /\ IsReconcile(i))
                /\ IsMessage(i) => /\ queue[i].message \in Messages
                                   /\ queue[i] = MessageJob(queue[i].message)
                /\ \A u : queue[i] = MessageJob(u) => IsMessage(i) /\ queue[i].message = u
                /\ IsReconcile(i) => /\ queue[i].owner \in Owners
                                     /\ queue[i] = ReconcileJob(queue[i].owner)
           /\ queue # << >> => /\ Head(queue) = queue[1] /\ 1 \in DOMAIN queue /\ Len(queue) > 0
           /\ queue = << >> => DOMAIN queue = {}
<1>1. queue \in Seq(Jobs)
  BY DEF TypeOK, Jobs
<1>2. Len(queue) \in Nat /\ DOMAIN queue = 1 .. Len(queue)
  BY <1>1
<1>3. ASSUME NEW i \in DOMAIN queue
      PROVE  /\ queue[i] \in Jobs
             /\ IsMessage(i) \/ IsReconcile(i)
             /\ ~(IsMessage(i) /\ IsReconcile(i))
             /\ IsMessage(i) => /\ queue[i].message \in Messages
                                /\ queue[i] = MessageJob(queue[i].message)
             /\ \A u : queue[i] = MessageJob(u) => IsMessage(i) /\ queue[i].message = u
             /\ IsReconcile(i) => /\ queue[i].owner \in Owners
                                  /\ queue[i] = ReconcileJob(queue[i].owner)
  <2>1. queue[i] \in Jobs
    BY <1>1
  <2> QED BY <2>1, JobTyped DEF IsMessage, IsReconcile
<1>4. queue # << >> => /\ Head(queue) = queue[1] /\ 1 \in DOMAIN queue /\ Len(queue) > 0
  BY <1>1, TailOf
<1>5. queue = << >> => DOMAIN queue = {}
  OBVIOUS
<1> QED BY <1>1, <1>2, <1>3, <1>4, <1>5

LEMMA MessagesTyped ==
    /\ NumMessages \in Nat /\ Messages \subseteq Nat /\ Eligible \subseteq Messages
    /\ \A m \in Messages : m > 0 /\ m <= NumMessages
    /\ \A n \in Nat : n > 0 /\ n <= NumMessages => n \in Messages
BY NumMessagesAssumption, EligibleAssumption DEF Messages

LEMMA NumbersTyped ==
    ASSUME TypeOK
    PROVE  /\ posted \in Nat /\ checkpoint \in Nat /\ since \in Nat /\ since <= posted
           /\ job.cursor \in Nat /\ job.highWater \in Nat
           /\ \A i \in DOMAIN queue : IsMessage(i) => queue[i].message \in Nat
           /\ \A i \in DOMAIN buffered : buffered[i] \in Nat
           /\ \A i \in DOMAIN inTransit : inTransit[i] \in Nat
           /\ \A u \in Eligible : u \in Nat
<1>1. posted \in Nat /\ checkpoint \in Nat /\ since \in Nat /\ since <= posted
      /\ job.cursor \in Nat /\ job.highWater \in Nat
  BY NumMessagesAssumption DEF TypeOK
<1>2. \A i \in DOMAIN queue : IsMessage(i) => queue[i].message \in Nat
  BY QueueTyped, MessagesTyped
<1>3. \A i \in DOMAIN buffered : buffered[i] \in Nat
  <2>1. buffered \in Seq(Messages)
    BY DEF TypeOK
  <2>2. \A i \in DOMAIN buffered : buffered[i] \in Messages
    BY <2>1
  <2> QED BY <2>2, MessagesTyped
<1>4. \A i \in DOMAIN inTransit : inTransit[i] \in Nat
  <2>1. inTransit \in Seq(Messages)
    BY DEF TypeOK
  <2>2. \A i \in DOMAIN inTransit : inTransit[i] \in Messages
    BY <2>1
  <2> QED BY <2>2, MessagesTyped
<1>5. \A u \in Eligible : u \in Nat
  BY MessagesTyped
<1> QED BY <1>1, <1>2, <1>3, <1>4, <1>5

-----------------------------------------------------------------------------
\* What keeps the parts of the invariant that a step does not concern.

LEMMA BootGateKept ==
    ASSUME BootInv, GateInv,
           UNCHANGED <<boot, queue, conts, inTransit, buffered, online, accepting, intakeFailure>>
    PROVE  BootInv' /\ GateInv'
BY DEF BootInv, GateInv, IsReconcile, IsMessage, Succeeded, Failed

LEMMA NothingIsDue ==
    ASSUME \A u \in Eligible : RoundActive' => ~Due(u)'
    PROVE  OrderInv'
BY DEF OrderInv, QueueOrder, BufferOrder, TransitOrder, OnlineOrder

LEMMA AlwaysRead ==
    ASSUME ReadLater', QueueOrder'
    PROVE  OrderInv'
BY DEF OrderInv, BufferOrder, TransitOrder, OnlineOrder

\* Messages are examined, or a reconciliation goes on that will look again.
LEMMA OrderKept ==
    ASSUME OrderInv, UNCHANGED <<queue, buffered, inTransit, intakeFailure, posted, since>>,
           Stuck => Stuck', RoundActive' => RoundActive, online' => online, examined \subseteq examined',
           job'.pc = "finish" => job.pc = "finish"
    PROVE  OrderInv'
<1>1. \A u : Due(u)' => Due(u)
  BY DEF Due
<1>2. /\ \A i \in DOMAIN queue : WillRead(i) => WillRead(i)'
      /\ \A i \in DOMAIN queue : IsMessage(i) <=> IsMessage(i)'
      /\ ReadLater => ReadLater'
  BY DEF WillRead, IsReconcile, IsMessage, ReadLater
<1>3. \A u : (Queued(u) => Queued(u)') /\ (Buffered(u) => Buffered(u)') /\ (OnTheWay(u) => OnTheWay(u)')
  BY DEF Queued, Buffered, OnTheWay
<1>4. QueueOrder'
  BY <1>1, <1>2 DEF OrderInv, QueueOrder
<1>5. BufferOrder'
  BY <1>1, <1>2, <1>3 DEF OrderInv, BufferOrder
<1>6. TransitOrder'
  BY <1>1, <1>2, <1>3 DEF OrderInv, TransitOrder
<1>7. OnlineOrder'
  BY <1>1, <1>2, <1>3 DEF OrderInv, OnlineOrder
<1> QED BY <1>4, <1>5, <1>6, <1>7 DEF OrderInv

\* The head of the queue leaves it, and nobody's turn depends on it.
LEMMA QueueShifts ==
    ASSUME TypeOK, queue # << >>, queue' = Tail(queue), job' = NotStarted
    PROVE  /\ queue' \in Seq(Jobs)
           /\ \A i \in DOMAIN queue' : i \in Nat \ {0} /\ i + 1 \in DOMAIN queue /\ queue'[i] = queue[i + 1]
                                       /\ (IsMessage(i)' <=> IsMessage(i + 1))
                                       /\ (IsReconcile(i)' <=> IsReconcile(i + 1))
           /\ \A i \in DOMAIN queue : i \in Nat /\ (i = 1 \/ i > 1)
           /\ \A i \in DOMAIN queue : i # 1 =>
                 /\ i - 1 \in DOMAIN queue' /\ queue'[i - 1] = queue[i]
                 /\ WillRead(i) => WillRead(i - 1)'
                 /\ IsReconcile(i) => IsReconcile(i - 1)'
<1>1. queue \in Seq(Jobs)
  BY QueueTyped
<1>2. /\ queue' \in Seq(Jobs) /\ Len(queue) \in Nat \ {0}
      /\ DOMAIN queue = 1 .. Len(queue) /\ DOMAIN queue' = 1 .. Len(queue) - 1
      /\ \A i \in DOMAIN queue' : queue'[i] = queue[i + 1] /\ i + 1 \in DOMAIN queue
      /\ \A i \in DOMAIN queue \ {1} : i - 1 \in DOMAIN queue' /\ queue'[i - 1] = queue[i]
  BY <1>1, TailOf
<1>3. job'.pc = "start"
  BY DEF NotStarted
<1> QED BY <1>2, <1>3 DEF IsMessage, IsReconcile, WillRead

LEMMA HeadLeaves ==
    ASSUME TypeOK, OrderInv, queue # << >>, queue' = Tail(queue), job' = NotStarted,
           \A u \in Eligible : RoundActive' /\ Due(u)' => Due(u) /\ queue[1] # MessageJob(u),
           ~WillRead(1), Stuck => Stuck',
           RoundActive' => RoundActive, UNCHANGED <<buffered, inTransit, intakeFailure, online>>
    PROVE  OrderInv'
<1>1. /\ \A i \in DOMAIN queue' : i \in Nat \ {0} /\ i + 1 \in DOMAIN queue /\ queue'[i] = queue[i + 1]
                                  /\ (IsMessage(i)' <=> IsMessage(i + 1))
      /\ \A i \in DOMAIN queue : i \in Nat /\ (i = 1 \/ i > 1)
      /\ \A i \in DOMAIN queue : i # 1 =>
            /\ i - 1 \in DOMAIN queue' /\ queue'[i - 1] = queue[i]
            /\ WillRead(i) => WillRead(i - 1)'
  BY QueueShifts
<1>2. ReadLater => ReadLater'
  BY <1>1 DEF ReadLater
<1>3. \A u \in Eligible : RoundActive' /\ Due(u)' /\ Queued(u) => Queued(u)'
  BY <1>1 DEF Queued
<1>4. \A u : (Buffered(u) => Buffered(u)') /\ (OnTheWay(u) => OnTheWay(u)')
  BY DEF Buffered, OnTheWay
<1>5. QueueOrder'
  <2> SUFFICES ASSUME RoundActive', ~intakeFailure', NEW u \in Eligible, NEW i \in DOMAIN queue',
                      Due(u)', IsMessage(i)', u < queue'[i].message
               PROVE  \E j \in DOMAIN queue' : j < i /\ (queue'[j] = MessageJob(u) \/ WillRead(j)')
    BY DEF QueueOrder
  <2>1. /\ RoundActive /\ ~intakeFailure /\ Due(u) /\ i + 1 \in DOMAIN queue /\ IsMessage(i + 1)
        /\ u < queue[i + 1].message
    BY <1>1
  <2>2. PICK j \in DOMAIN queue : j < i + 1 /\ (queue[j] = MessageJob(u) \/ WillRead(j))
    BY <2>1 DEF OrderInv, QueueOrder
  <2>3. j # 1
    BY <2>2
  <2>4. j - 1 \in DOMAIN queue' /\ j - 1 < i /\ (queue'[j - 1] = MessageJob(u) \/ WillRead(j - 1)')
    BY <1>1, <2>2, <2>3
  <2> QED BY <2>4
<1>6. BufferOrder'
  BY <1>2, <1>3 DEF OrderInv, BufferOrder
<1>7. TransitOrder'
  BY <1>2, <1>3, <1>4 DEF OrderInv, TransitOrder
<1>8. OnlineOrder'
  BY <1>2, <1>3, <1>4 DEF OrderInv, OnlineOrder
<1> QED BY <1>5, <1>6, <1>7, <1>8 DEF OrderInv

\* The gate opens: what was buffered follows the queue, in order.
LEMMA FlushedInOrder ==
    ASSUME TypeOK, OpenGate
    PROVE  \E r \in Seq(Jobs) :
             /\ queue' = queue \o r
             /\ \A k \in DOMAIN r :
                  /\ r[k].kind = "message"
                  /\ RoundActive
                  /\ \E i \in DOMAIN buffered :
                       /\ r[k] = MessageJob(buffered[i])
                       /\ \A j \in DOMAIN buffered :
                            j < i /\ buffered[j] \in Eligible =>
                               \E l \in DOMAIN r : l < k /\ r[l] = MessageJob(buffered[j])
             /\ RoundActive =>
                  \A i \in DOMAIN buffered :
                    buffered[i] \in Eligible => \E k \in DOMAIN r : r[k] = MessageJob(buffered[i])
<1> DEFINE players == {i \in DOMAIN buffered : buffered[i] \in Eligible}
<1> DEFINE n == Cardinality(players)
<1>1. queue \in Seq(Jobs) /\ buffered \in Seq(Messages) /\ Len(buffered) \in Nat
      /\ DOMAIN buffered = 1 .. Len(buffered)
  BY QueueTyped DEF TypeOK
<1>2. CASE ~RoundActive
  <2>1. queue' = queue
    BY <1>2 DEF OpenGate, BufferedFlushed
  <2>2. << >> \in Seq(Jobs) /\ queue \o << >> = queue /\ DOMAIN << >> = {}
    BY <1>1
  <2> QED BY <1>2, <2>1, <2>2
<1>3. CASE RoundActive
  <2>1. n \in Nat
    <3>1. IsFiniteSet(1 .. Len(buffered))
      BY <1>1, FS_Interval
    <3>2. players \subseteq 1 .. Len(buffered)
      BY <1>1
    <3>3. IsFiniteSet(players)
      BY <3>1, <3>2, FS_Subset
    <3> QED BY <3>3, FS_CardinalityType
  <2>2. PICK f \in Bijection(1 .. n, players) :
           /\ \A i, j \in DOMAIN f : i < j => f[i] < f[j]
           /\ queue' = queue \o [i \in DOMAIN f |-> MessageJob(buffered[f[i]])]
    BY <1>3 DEF OpenGate, BufferedFlushed
  <2> DEFINE r == [i \in 1 .. n |-> MessageJob(buffered[f[i]])]
  <2>3. /\ f \in [1 .. n -> players] /\ DOMAIN f = 1 .. n
        /\ \A t \in players : \E s \in 1 .. n : f[s] = t
    <3>1. f \in Surjection(1 .. n, players)
      BY <2>2 DEF Bijection
    <3> QED BY <3>1 DEF Surjection
  <2>4. queue' = queue \o r
    BY <2>2, <2>3
  <2>5. \A k \in 1 .. n : f[k] \in DOMAIN buffered /\ buffered[f[k]] \in Eligible
                          /\ buffered[f[k]] \in Messages
    BY <2>3, <1>1, MessagesTyped
  <2>6. r \in Seq(Jobs)
    <3>1. \A k \in 1 .. n : MessageJob(buffered[f[k]]) \in Jobs
      BY <2>5, NewJobTyped
    <3> QED BY <2>1, <3>1
  <2>7. DOMAIN r = 1 .. n
    OBVIOUS
  <2>8. ASSUME NEW k \in 1 .. n
        PROVE  /\ r[k].kind = "message"
               /\ \E i \in DOMAIN buffered :
                    /\ r[k] = MessageJob(buffered[i])
                    /\ \A j \in DOMAIN buffered :
                         j < i /\ buffered[j] \in Eligible =>
                            \E l \in 1 .. n : l < k /\ r[l] = MessageJob(buffered[j])
    <3>1. r[k] = MessageJob(buffered[f[k]]) /\ f[k] \in DOMAIN buffered /\ f[k] \in Nat
      BY <2>5, <1>1
    <3>2. r[k].kind = "message"
      BY <3>1 DEF MessageJob
    <3>3. ASSUME NEW j \in DOMAIN buffered, j < f[k], buffered[j] \in Eligible
          PROVE  \E l \in 1 .. n : l < k /\ r[l] = MessageJob(buffered[j])
      <4>1. PICK l \in 1 .. n : f[l] = j
        BY <2>3, <3>3
      <4>2. j \in Nat /\ l \in Nat /\ k \in Nat
        BY <1>1, <2>1
      <4>3. ~(k <= l)
        <5>1. CASE k = l
          BY <5>1, <4>1, <3>3, <3>1, <4>2
        <5>2. CASE k < l
          <6>1. f[k] < f[l]
            BY <5>2, <2>2, <2>3
          <6> QED BY <6>1, <4>1, <3>3, <3>1, <4>2
        <5> QED BY <5>1, <5>2, <4>2
      <4>4. r[l] = MessageJob(buffered[j])
        <5>1. r[l] = MessageJob(buffered[f[l]])
          OBVIOUS
        <5> QED BY <5>1, <4>1
      <4>5. l < k
        BY <4>2, <4>3
      <4> HIDE DEF r
      <4> QED BY <4>4, <4>5
    <3> HIDE DEF r
    <3> QED BY <3>1, <3>2, <3>3
  <2>9. ASSUME NEW i \in DOMAIN buffered, buffered[i] \in Eligible
        PROVE  \E k \in 1 .. n : r[k] = MessageJob(buffered[i])
    <3>1. PICK k \in 1 .. n : f[k] = i
      BY <2>3, <2>9
    <3> QED BY <3>1
  <2> HIDE DEF r, n, players
  <2> SUFFICES ASSUME TRUE
               PROVE  /\ queue' = queue \o r
                      /\ \A k \in DOMAIN r :
                           /\ r[k].kind = "message"
                           /\ \E i \in DOMAIN buffered :
                                /\ r[k] = MessageJob(buffered[i])
                                /\ \A j \in DOMAIN buffered :
                                     j < i /\ buffered[j] \in Eligible =>
                                        \E l \in DOMAIN r : l < k /\ r[l] = MessageJob(buffered[j])
                      /\ \A i \in DOMAIN buffered :
                           buffered[i] \in Eligible => \E k \in DOMAIN r : r[k] = MessageJob(buffered[i])
    BY <1>3, <2>6
  <2>10. \A k \in DOMAIN r :
           /\ r[k].kind = "message"
           /\ \E i \in DOMAIN buffered :
                /\ r[k] = MessageJob(buffered[i])
                /\ \A j \in DOMAIN buffered :
                     j < i /\ buffered[j] \in Eligible =>
                        \E l \in DOMAIN r : l < k /\ r[l] = MessageJob(buffered[j])
    BY <2>7, <2>8
  <2>11. \A i \in DOMAIN buffered :
           buffered[i] \in Eligible => \E k \in DOMAIN r : r[k] = MessageJob(buffered[i])
    BY <2>7, <2>9
  <2> QED BY <2>4, <2>10, <2>11
<1> QED BY <1>2, <1>3

-----------------------------------------------------------------------------
\* The window of a reconciliation and the break that it takes up.

LEMMA WindowTyped ==
    ASSUME TypeOK, JobInv, HeadReconciles
    PROVE  /\ Window \subseteq Messages
           /\ Window # {} => /\ NextMessage \in Window /\ NextMessage \in Messages
                             /\ NextMessage \in Eligible /\ NextMessage \in Nat
                             /\ job.cursor < NextMessage /\ NextMessage <= job.highWater
                             /\ \A m \in Window : NextMessage <= m
<1>1. Window \subseteq Messages /\ Window \subseteq Eligible
  <2>1. job.listing \subseteq Eligible
    BY DEF TypeOK
  <2> QED BY <2>1, MessagesTyped DEF Window
<1>2. Window # {} => NextMessage \in Window /\ \A m \in Window : NextMessage <= m
  BY <1>1, LeastMessage DEF NextMessage
<1>3. \A m \in Window : job.cursor < m /\ m <= job.highWater
  BY DEF Window, JobInv
<1> QED BY <1>1, <1>2, <1>3, MessagesTyped

LEMMA BreakTyped ==
    /\ PendingBreaks \subseteq Messages
    /\ \/ PendingReconnectBreak = 0 /\ PendingBreaks = {}
       \/ /\ PendingReconnectBreak \in PendingBreaks /\ PendingReconnectBreak \in Messages
          /\ PendingReconnectBreak # 0
<1>1. PendingBreaks \subseteq Messages
  BY DEF PendingBreaks
<1>2. PendingBreaks # {} => Max(PendingBreaks) \in PendingBreaks
  BY <1>1, GreatestMessage
<1>3. 0 \notin Messages
  BY MessagesTyped
<1> QED BY <1>1, <1>2, <1>3 DEF PendingReconnectBreak

LEMMA FaultTyped ==
    ASSUME NEW kind \in FaultKinds, Fault(kind), TypeOK
    PROVE  faults' \in [FaultKinds -> Nat]
<1>1. faults \in [FaultKinds -> Nat] /\ faults' = [faults EXCEPT ![kind] = @ + 1]
  BY DEF Fault, TypeOK
<1>2. faults[kind] + 1 \in Nat
  BY <1>1
<1> QED BY <1>1, <1>2

\* The next job.
LEMMA NextJobTyped ==
    ASSUME TypeOK, queue # << >>, NextJob
    PROVE  /\ queue' \in Seq({MessageJob(m) : m \in Messages} \cup {ReconcileJob(o) : o \in Owners})
           /\ job' = NotStarted
           /\ job' \in [pc : {"start", "list", "judge", "advance", "final", "finish"},
                        cursor : 0 .. NumMessages, highWater : 0 .. NumMessages,
                        listing : SUBSET Eligible, breaking : 0 .. NumMessages, completed : BOOLEAN]
           /\ job'.pc = "start"
BY QueueTyped, TailOf, MessagesTyped DEF NextJob, NotStarted, Jobs

LEMMA OpenGateTyped ==
    ASSUME TypeOK, OpenGate, UNCHANGED job
    PROVE  /\ queue' \in Seq({MessageJob(m) : m \in Messages} \cup {ReconcileJob(o) : o \in Owners})
           /\ queue' = << >> => job' = NotStarted
           /\ queue' # << >> /\ Head(queue').kind = "message" => job'.pc \in {"start", "advance"}
           /\ accepting' = TRUE /\ intakeFailure' = FALSE /\ buffered' = << >>
<1>1. PICK r \in Seq(Jobs) : queue' = queue \o r
  BY FlushedInOrder
<1>2. queue \in Seq(Jobs)
  BY QueueTyped
<1>3. queue' \in Seq(Jobs)
  BY <1>1, <1>2
<1>4. queue = << >> => job = NotStarted
  BY DEF TypeOK
<1>5. queue # << >> => queue' # << >> /\ Head(queue') = Head(queue)
  BY <1>1, <1>2
<1>6. queue # << >> /\ Head(queue).kind = "message" => job.pc \in {"start", "advance"}
  BY DEF TypeOK
<1> QED BY <1>3, <1>4, <1>5, <1>6 DEF OpenGate, NotStarted, Jobs

-----------------------------------------------------------------------------
\* The types of the game and of the rest.

GameTyped ==
    /\ disposition \in [Messages -> [kind : Kinds, by : 0 .. NumMessages,
                               round : DOMAIN rounds] \cup {Unseen}]
    /\ resets \in SUBSET Messages
    /\ rounds \in Seq({"active", "completed", "cancelled"}) /\ Latest \in 1 .. MaxRounds
    /\ \A i \in 1 .. Latest - 1 : rounds[i] # "active"
    /\ running \in BOOLEAN
    /\ outbox \in Seq(Messages \cup {RoundEnd})

IntakeTyped ==
    /\ checkpoint \in 0 .. NumMessages
    /\ boot \in {"off", "reconciling", "dispatching", "live"}
    /\ accepting \in BOOLEAN
    /\ intakeFailure \in BOOLEAN
    /\ buffered \in Seq(Messages)
    /\ conts \in Seq([owner : Owners, ok : BOOLEAN])
    /\ faults \in [FaultKinds -> Nat]
    /\ examined \in SUBSET Messages

QueueAndJobTyped ==
    /\ queue \in Seq({MessageJob(m) : m \in Messages} \cup {ReconcileJob(o) : o \in Owners})
    /\ job \in [pc : {"start", "list", "judge", "advance", "final", "finish"},
                cursor : 0 .. NumMessages, highWater : 0 .. NumMessages,
                listing : SUBSET Eligible, breaking : 0 .. NumMessages, completed : BOOLEAN]
    /\ queue = << >> => job = NotStarted
    /\ queue # << >> /\ Head(queue).kind = "message" => job.pc \in {"start", "advance"}

DiscordTyped ==
    /\ posted \in 0 .. NumMessages
    /\ online \in BOOLEAN
    /\ inTransit \in Seq(Messages)
    /\ since \in 0 .. posted

LEMMA TypeParts == TypeOK <=> GameTyped /\ IntakeTyped /\ QueueAndJobTyped /\ DiscordTyped
BY DEF TypeOK, GameTyped, IntakeTyped, QueueAndJobTyped, DiscordTyped

LEMMA TypePartsNext ==
    ASSUME GameTyped', IntakeTyped', QueueAndJobTyped', DiscordTyped'
    PROVE  TypeOK'
BY DEF TypeOK, GameTyped, IntakeTyped, QueueAndJobTyped, DiscordTyped, Latest

LEMMA GameStays ==
    /\ GameTyped /\ UNCHANGED game => GameTyped'
    /\ IntakeTyped /\ UNCHANGED <<checkpoint, boot, adapter, conts, faults, examined>> => IntakeTyped'
    /\ QueueAndJobTyped /\ UNCHANGED executor => QueueAndJobTyped'
    /\ DiscordTyped /\ UNCHANGED <<discord, since>> => DiscordTyped'
BY DEF GameTyped, game, Latest, IntakeTyped, adapter, QueueAndJobTyped, executor, DiscordTyped, discord

LEMMA JudgedTyped ==
    ASSUME GameTyped, NEW m \in Messages, NEW kind \in Kinds, NEW by \in 0 .. NumMessages,
           by = 0 \/ (by \in Messages /\ disposition[by] # Unseen),
           Judged(m, kind, by), Latest' = Latest, DOMAIN rounds' = DOMAIN rounds
    PROVE  disposition' \in [Messages -> [kind : Kinds, by : 0 .. NumMessages,
                                          round : DOMAIN rounds'] \cup {Unseen}]
<1> DEFINE Verdicts == [kind : Kinds, by : 0 .. NumMessages, round : DOMAIN rounds]
<1>1. DOMAIN rounds = 1 .. Latest /\ Latest \in DOMAIN rounds
  BY DEF GameTyped, Latest
<1>2. by # 0 => disposition[by].round \in DOMAIN rounds
  BY DEF GameTyped
<1>3. [kind |-> kind, by |-> by,
       round |-> IF by = 0 THEN Latest ELSE disposition[by].round] \in Verdicts
  BY <1>1, <1>2
<1> QED BY <1>3 DEF GameTyped, Judged

\* The outbox gets deletions and the announcements of a round's end.
LEMMA EnqueuedTyped ==
    ASSUME GameTyped
    PROVE  /\ \A m \in Messages :
                /\ Enqueued(<<m>>) => outbox' \in Seq(Messages \cup {RoundEnd})
                /\ Enqueued(<<m, RoundEnd>>) => outbox' \in Seq(Messages \cup {RoundEnd})
           /\ Enqueued(<<RoundEnd>>) => outbox' \in Seq(Messages \cup {RoundEnd})
<1> DEFINE Rows == Messages \cup {RoundEnd}
<1>1. outbox \in Seq(Rows)
  BY DEF GameTyped
<1>2. ASSUME NEW rows \in Seq(Rows), Enqueued(rows)
      PROVE  outbox' \in Seq(Rows)
  BY <1>1, <1>2, ConcatOf DEF Enqueued
<1>3. \A m \in Messages : <<m>> \in Seq(Rows) /\ <<m, RoundEnd>> \in Seq(Rows)
  OBVIOUS
<1>4. <<RoundEnd>> \in Seq(Rows)
  OBVIOUS
<1> QED BY <1>2, <1>3, <1>4

LEMMA ProcessTyped ==
    ASSUME GameTyped, NEW m \in Messages, NEW defer \in BOOLEAN, ProcessMessage(m, defer)
    PROVE  GameTyped'
<1>1. CASE ProcessWithoutEffect(m)
  BY <1>1, GameStays DEF ProcessWithoutEffect
<1>2. CASE ProcessNumeric(m, defer)
  <2>1. DOMAIN rounds = 1 .. Latest /\ Latest \in DOMAIN rounds /\ Latest \in Nat
        /\ Latest <= MaxRounds /\ 0 \in 0 .. NumMessages
    BY MaxRoundsAssumption, MessagesTyped DEF GameTyped, Latest
  <2>2. /\ rounds' \in Seq({"active", "completed", "cancelled"})
        /\ Latest' = Latest /\ DOMAIN rounds' = DOMAIN rounds
        /\ \A i \in 1 .. Latest - 1 : rounds'[i] = rounds[i]
    <3>1. rounds' = rounds \/ rounds' = [rounds EXCEPT ![Latest] = "completed"]
      BY <1>2 DEF ProcessNumeric
    <3>2. rounds \in Seq({"active", "completed", "cancelled"})
      BY DEF GameTyped
    <3>3. Len(rounds') = Len(rounds) /\ DOMAIN rounds' = DOMAIN rounds
      BY <2>1, <3>1, <3>2
    <3>4. \A i \in 1 .. Latest - 1 : rounds'[i] = rounds[i]
      BY <2>1, <3>1
    <3>5. rounds' \in Seq({"active", "completed", "cancelled"})
      BY <2>1, <3>1, <3>2
    <3>6. Latest' = Latest
      BY <3>3 DEF Latest
    <3> QED BY <3>3, <3>4, <3>5, <3>6
  <2>3. resets' \in SUBSET Messages
    BY <1>2 DEF ProcessNumeric, GameTyped, ResetsAfterBreak
  <2>4. disposition' \in [Messages -> [kind : Kinds, by : 0 .. NumMessages,
                                       round : DOMAIN rounds'] \cup {Unseen}]
    BY <1>2, <2>1, <2>2, JudgedTyped DEF ProcessNumeric, Kinds
  <2>5. running' \in BOOLEAN
    <3>1. running' \in {running, TRUE} \/ running' = FALSE
      BY <1>2 DEF ProcessNumeric
    <3>2. running \in BOOLEAN
      BY DEF GameTyped
    <3> QED BY <3>1, <3>2, Zenon
  <2>6. outbox' \in Seq(Messages \cup {RoundEnd})
    <3>1. Enqueued(<<m>>) \/ Enqueued(<<m, RoundEnd>>)
      BY <1>2 DEF ProcessNumeric
    <3> QED BY <3>1, EnqueuedTyped
  <2> QED BY <2>1, <2>2, <2>3, <2>4, <2>5, <2>6 DEF GameTyped
<1> QED BY <1>1, <1>2 DEF ProcessMessage

LEMMA AdapterStepTyped ==
    ASSUME TypeOK,
           Post \/ Deliver \/ Disconnected \/ Reconnected \/ MessageIsBuffered \/ MessageIsProcessed
             \/ MessageFails \/ MessageIsDone
    PROVE  TypeOK'
<1>1. GameTyped /\ IntakeTyped /\ QueueAndJobTyped /\ DiscordTyped
  BY TypeParts
<1>2. queue \in Seq(Jobs) /\ (queue # << >> => Head(queue) \in Jobs)
  <2>1. queue \in Seq(Jobs)
    BY QueueTyped
  <2> QED BY <2>1
<1>3. /\ inTransit \in Seq(Messages) /\ buffered \in Seq(Messages) /\ posted \in Nat
      /\ NumMessages \in Nat /\ since \in Nat /\ checkpoint \in Nat
  BY <1>1, NumMessagesAssumption DEF DiscordTyped, IntakeTyped
<1>4. CASE Post
  <2>1. posted + 1 \in Messages /\ posted' \in 0 .. NumMessages /\ since \in 0 .. posted'
    BY <1>1, <1>3, <1>4 DEF Post, DiscordTyped, Messages
  <2>2. DiscordTyped'
    BY <1>1, <1>3, <1>4, <2>1 DEF Post, DiscordTyped, history
  <2> QED BY <1>1, <1>4, <2>2, GameStays, TypePartsNext DEF Post, history
<1>5. CASE Deliver
  <2>1. Head(inTransit) \in Messages /\ Tail(inTransit) \in Seq(Messages)
    BY <1>3, <1>5 DEF Deliver
  <2>2. DiscordTyped'
    BY <1>1, <1>5, <2>1 DEF Deliver, DiscordTyped, history
  <2>3. GameTyped'
    BY <1>1, <1>5, GameStays DEF Deliver
  <2>4. IntakeTyped'
    <3>1. buffered' \in Seq(Messages)
      <4>1. buffered' = Append(buffered, Head(inTransit)) \/ buffered' = buffered
        BY <1>5 DEF Deliver, HandleMessage
      <4> QED BY <1>3, <2>1, <4>1
    <3> QED BY <1>1, <1>5, <3>1 DEF Deliver, IntakeTyped, history
  <2>5. QueueAndJobTyped'
    <3>1. CASE UNCHANGED queue
      BY <3>1, <1>1, <1>5, GameStays DEF Deliver, executor
    <3>2. CASE accepting /\ queue' = Append(queue, MessageJob(Head(inTransit)))
      <4>1. MessageJob(Head(inTransit)) \in Jobs
        BY <2>1, NewJobTyped
      <4>2. queue' \in Seq(Jobs) /\ queue' # << >>
            /\ (queue # << >> => Head(queue') = Head(queue))
        BY <3>2, <4>1, <1>2
      <4>3. queue = << >> => job.pc = "start"
        BY <1>1 DEF QueueAndJobTyped, NotStarted
      <4> QED BY <4>2, <4>3, <1>1, <1>5 DEF Deliver, QueueAndJobTyped, Jobs
    <3> QED BY <3>1, <3>2, <1>5 DEF Deliver, HandleMessage
  <2> QED BY <2>2, <2>3, <2>4, <2>5, TypePartsNext
<1>6. CASE Disconnected
  <2>1. DiscordTyped'
    <3>1. online' \in BOOLEAN
      BY <1>6 DEF Disconnected
    <3>2. inTransit' \in Seq(Messages)
      BY <1>6 DEF Disconnected
    <3> QED BY <1>1, <1>6, <3>1, <3>2 DEF Disconnected, DiscordTyped, history
  <2>2. faults' \in [FaultKinds -> Nat]
    BY <1>6, FaultTyped DEF Disconnected, FaultKinds
  <2>3. IntakeTyped'
    BY <1>1, <1>6, <2>2 DEF Disconnected, IntakeTyped, history
  <2> QED BY <1>1, <1>6, <2>1, <2>3, GameStays, TypePartsNext DEF Disconnected
<1>7. CASE Reconnected
  <2>1. DiscordTyped' /\ GameTyped'
    BY <1>1, <1>7, GameStays DEF Reconnected, DiscordTyped, history
  <2>2. CASE RoundActive
    <3>1. accepting' = FALSE /\ queue' = Append(queue, ReconcileJob("reconnect"))
          /\ UNCHANGED <<intakeFailure, buffered, job>>
      BY <1>7, <2>2 DEF Reconnected
    <3>2. IntakeTyped'
      BY <1>1, <1>7, <3>1 DEF Reconnected, IntakeTyped, history
    <3>3. ReconcileJob("reconnect") \in Jobs /\ ReconcileJob("reconnect").kind = "reconcile"
      BY NewJobTyped DEF Owners
    <3>4. queue' \in Seq(Jobs) /\ queue' # << >>
          /\ (queue # << >> => Head(queue') = Head(queue))
          /\ (queue = << >> => Head(queue') = ReconcileJob("reconnect"))
      BY <3>1, <3>3, <1>2
    <3>5. QueueAndJobTyped'
      BY <3>1, <3>3, <3>4, <1>1 DEF QueueAndJobTyped, Jobs
    <3> QED BY <2>1, <3>2, <3>5, TypePartsNext
  <2>3. CASE ~RoundActive
    <3>1. OpenGate /\ UNCHANGED job
      BY <1>7, <2>3 DEF Reconnected
    <3>2. IntakeTyped' /\ QueueAndJobTyped'
      BY <1>1, <1>7, <3>1, OpenGateTyped DEF Reconnected, IntakeTyped, QueueAndJobTyped, history
    <3> QED BY <2>1, <3>2, TypePartsNext
  <2> QED BY <2>2, <2>3
<1>8. CASE MessageIsBuffered
  <2>1. queue # << >> /\ NextJob /\ Head(queue).message \in Messages
    BY <1>8, <1>2, JobTyped DEF MessageIsBuffered, Running
  <2>2. QueueAndJobTyped'
    BY <2>1, NextJobTyped DEF QueueAndJobTyped
  <2>3. IntakeTyped'
    BY <1>1, <1>8, <2>1 DEF MessageIsBuffered, IntakeTyped, history
  <2> QED BY <1>1, <1>8, <2>2, <2>3, GameStays, TypePartsNext DEF MessageIsBuffered, history
<1>9. CASE MessageIsProcessed
  <2>1. queue # << >> /\ Head(queue).message \in Messages /\ Head(queue).kind = "message"
    BY <1>9, <1>2, JobTyped DEF MessageIsProcessed, Running
  <2>2. GameTyped'
    BY <1>1, <1>9, <2>1, ProcessTyped DEF MessageIsProcessed
  <2>3. IntakeTyped'
    BY <1>1, <1>9, <2>1 DEF MessageIsProcessed, ProcessMessage, IntakeTyped, adapter
  <2>4. QueueAndJobTyped'
    BY <1>1, <1>9, <2>1 DEF MessageIsProcessed, QueueAndJobTyped
  <2>5. DiscordTyped'
    BY <1>1, <1>9 DEF MessageIsProcessed, ProcessMessage, DiscordTyped, discord
  <2> QED BY <2>2, <2>3, <2>4, <2>5, TypePartsNext
<1>10. CASE MessageFails
  <2>1. queue # << >> /\ NextJob
    BY <1>10 DEF MessageFails, Running
  <2>2. QueueAndJobTyped'
    BY <2>1, NextJobTyped DEF QueueAndJobTyped
  <2>3. faults' \in [FaultKinds -> Nat]
    BY <1>10, FaultTyped DEF MessageFails, FaultKinds
  <2>4. IntakeTyped'
    BY <1>1, <1>10, <2>3 DEF MessageFails, IntakeTyped, history
  <2> QED BY <1>1, <1>10, <2>2, <2>4, GameStays, TypePartsNext DEF MessageFails, history
<1>11. CASE MessageIsDone
  <2>1. queue # << >> /\ NextJob /\ Head(queue).message \in Messages
    BY <1>11, <1>2, JobTyped DEF MessageIsDone, Running
  <2>2. QueueAndJobTyped'
    BY <2>1, NextJobTyped DEF QueueAndJobTyped
  <2>3. checkpoint' \in {checkpoint, Head(queue).message}
    BY <1>11, <1>3, <2>1, GreaterOfTwo, MessagesTyped DEF MessageIsDone
  <2>4. checkpoint' \in 0 .. NumMessages
    BY <1>1, <2>1, <2>3 DEF IntakeTyped, Messages
  <2>5. IntakeTyped'
    BY <1>1, <1>11, <2>4 DEF MessageIsDone, IntakeTyped, history, adapter
  <2> QED BY <1>1, <1>11, <2>2, <2>5, GameStays, TypePartsNext DEF MessageIsDone, history
<1> QED BY <1>4, <1>5, <1>6, <1>7, <1>8, <1>9, <1>10, <1>11

LEMMA ReconcileStepTyped ==
    ASSUME TypeOK, JobInv, BreakInv,
           ReconcileStep \/ ReconcileFails
    PROVE  TypeOK'
<1>1. GameTyped /\ IntakeTyped /\ QueueAndJobTyped /\ DiscordTyped
  BY TypeParts
<1>2. queue \in Seq(Jobs) /\ (queue # << >> => Head(queue) \in Jobs /\ Head(queue) = queue[1])
  <2>1. queue \in Seq(Jobs)
    BY QueueTyped
  <2> QED BY <2>1
<1>3. /\ posted \in 0 .. NumMessages /\ NumMessages \in Nat /\ checkpoint \in 0 .. NumMessages
      /\ \A m \in Messages : m \in 0 .. NumMessages
  BY <1>1, NumMessagesAssumption DEF DiscordTyped, IntakeTyped, Messages
<1> DEFINE Locals == [pc : {"start", "list", "judge", "advance", "final", "finish"},
                      cursor : 0 .. NumMessages, highWater : 0 .. NumMessages,
                      listing : SUBSET Eligible, breaking : 0 .. NumMessages, completed : BOOLEAN]
<1>4. job \in Locals /\ job.cursor \in 0 .. NumMessages /\ job.highWater \in 0 .. NumMessages
      /\ job.breaking \in 0 .. NumMessages
  BY <1>1 DEF QueueAndJobTyped
<1>5. ASSUME queue # << >>, Head(queue).kind = "reconcile", UNCHANGED queue, job' \in Locals
      PROVE  QueueAndJobTyped'
  BY <1>1, <1>5 DEF QueueAndJobTyped
<1>6. ASSUME queue # << >>, Head(queue).kind = "reconcile", NextJob
      PROVE  QueueAndJobTyped' /\ Head(queue).owner \in Owners
  BY <1>2, <1>6, JobTyped, NextJobTyped DEF QueueAndJobTyped
<1>7. ASSUME Running("reconcile", "judge") \/ Running("reconcile", "advance")
      PROVE  NextMessage \in Messages
  <2>1. HeadReconciles /\ job.pc \in {"judge", "advance"}
    BY <1>2, <1>7 DEF Running, HeadReconciles, IsReconcile
  <2> QED BY <2>1, WindowTyped DEF JobInv
<1>8. CASE ReconcileStarts
  <2>1. PendingReconnectBreak \in 0 .. NumMessages
    BY <1>3, BreakTyped
  <2>2. job' \in Locals
    BY <1>3, <1>8, <2>1 DEF ReconcileStarts
  <2>3. QueueAndJobTyped'
    BY <1>5, <1>8, <2>2 DEF ReconcileStarts, Running
  <2> QED BY <1>1, <1>8, <2>3, GameStays, TypePartsNext DEF ReconcileStarts, history
<1>9. CASE ReconcileLists
  <2>1. job' \in Locals
    <3>1. Listing \subseteq Eligible
      BY DEF Listing
    <3> QED BY <1>4, <1>9, <3>1 DEF ReconcileLists
  <2>2. QueueAndJobTyped'
    BY <1>5, <1>9, <2>1 DEF ReconcileLists, Running
  <2> QED BY <1>1, <1>9, <2>2, GameStays, TypePartsNext DEF ReconcileLists, history
<1>10. CASE ReconcileEvaluates
  <2>1. NextMessage \in Messages
    BY <1>7, <1>10 DEF ReconcileEvaluates
  <2>2. GameTyped'
    BY <1>1, <1>10, <2>1, ProcessTyped DEF ReconcileEvaluates
  <2>3. IntakeTyped'
    BY <1>1, <1>10, <2>1 DEF ReconcileEvaluates, ProcessMessage, IntakeTyped, adapter
  <2>4. job' \in Locals
    <3> DEFINE b == IF Fresh(NextMessage) /\ disposition'[NextMessage].kind = "broken"
                    THEN NextMessage ELSE 0
    <3> DEFINE c == /\ disposition'[NextMessage] # Unseen
                    /\ rounds'[disposition'[NextMessage].round] = "completed"
    <3>1. b \in 0 .. NumMessages
      BY <1>3, <2>1
    <3>2. c \in BOOLEAN
      OBVIOUS
    <3>3. job' = [job EXCEPT !.pc = "advance", !.breaking = b, !.completed = c]
      BY <1>10 DEF ReconcileEvaluates
    <3> HIDE DEF b, c
    <3> QED BY <1>4, <3>1, <3>2, <3>3
  <2>5. QueueAndJobTyped'
    BY <1>5, <1>10, <2>4 DEF ReconcileEvaluates, Running
  <2>6. DiscordTyped'
    BY <1>1, <1>10 DEF ReconcileEvaluates, ProcessMessage, DiscordTyped, discord
  <2> QED BY <2>2, <2>3, <2>5, <2>6, TypePartsNext
<1>11. CASE ReconcileInvalidates
  <2>1. NextMessage \in Messages
    BY <1>7, <1>11 DEF ReconcileInvalidates
  <2>2. job.breaking \in Messages /\ disposition[job.breaking] # Unseen
    <3>1. HeadReconciles /\ job.breaking # 0
      BY <1>2, <1>11 DEF ReconcileInvalidates, Running, HeadReconciles, IsReconcile
    <3>2. job.breaking \in PendingBreaks
      BY <3>1 DEF BreakInv
    <3> QED BY <3>2 DEF PendingBreaks, Unseen
  <2>3. UNCHANGED <<rounds, resets, running>>
    BY <1>11 DEF ReconcileInvalidates
  <2>4. \/ UNCHANGED <<disposition, outbox>>
        \/ Judged(NextMessage, "invalidated", job.breaking) /\ Enqueued(<<NextMessage>>)
    BY <1>11 DEF ReconcileInvalidates
  <2>5. GameTyped'
    <3>1. CASE UNCHANGED <<disposition, outbox>>
      BY <1>1, <2>3, <3>1, GameStays DEF game
    <3>2. CASE Judged(NextMessage, "invalidated", job.breaking) /\ Enqueued(<<NextMessage>>)
      <4>1. "invalidated" \in Kinds /\ Latest' = Latest /\ DOMAIN rounds' = DOMAIN rounds
        BY <2>3 DEF Kinds, Latest
      <4>2. disposition' \in [Messages -> [kind : Kinds, by : 0 .. NumMessages,
                                           round : DOMAIN rounds'] \cup {Unseen}]
        BY <1>1, <1>4, <2>1, <2>2, <3>2, <4>1, JudgedTyped
      <4>3. outbox' \in Seq(Messages \cup {RoundEnd})
        BY <1>1, <2>1, <3>2, EnqueuedTyped
      <4> QED BY <1>1, <2>3, <4>1, <4>2, <4>3 DEF GameTyped
    <3> QED BY <2>4, <3>1, <3>2
  <2>6. IntakeTyped'
    BY <1>1, <1>11, <2>1 DEF ReconcileInvalidates, IntakeTyped, adapter
  <2>7. job' \in Locals
    BY <1>4, <1>11 DEF ReconcileInvalidates
  <2>8. QueueAndJobTyped'
    BY <1>5, <1>11, <2>7 DEF ReconcileInvalidates, Running
  <2> QED BY <1>1, <1>11, <2>5, <2>6, <2>8, GameStays, TypePartsNext DEF ReconcileInvalidates
<1>12. CASE ReconcileSkips
  <2>1. NextMessage \in Messages
    BY <1>7, <1>12 DEF ReconcileSkips
  <2>2. IntakeTyped'
    BY <1>1, <1>12, <2>1 DEF ReconcileSkips, IntakeTyped, adapter
  <2>3. job' \in Locals
    BY <1>4, <1>12 DEF ReconcileSkips
  <2>4. QueueAndJobTyped'
    BY <1>5, <1>12, <2>3 DEF ReconcileSkips, Running
  <2> QED BY <1>1, <1>12, <2>2, <2>4, GameStays, TypePartsNext DEF ReconcileSkips
<1>13. CASE ReconcileAdvances
  <2>1. NextMessage \in 0 .. NumMessages
    BY <1>3, <1>7, <1>13 DEF ReconcileAdvances
  <2>2. IntakeTyped'
    BY <1>1, <1>13, <2>1 DEF ReconcileAdvances, IntakeTyped, adapter, history
  <2>3. job' \in Locals
    BY <1>4, <1>13, <2>1 DEF ReconcileAdvances
  <2>4. QueueAndJobTyped'
    BY <1>5, <1>13, <2>3 DEF ReconcileAdvances, Running
  <2> QED BY <1>1, <1>13, <2>2, <2>4, GameStays, TypePartsNext DEF ReconcileAdvances, history
<1>14. CASE ReconcileLooksAgain
  <2>1. job' \in Locals
    BY <1>3, <1>4, <1>14 DEF ReconcileLooksAgain
  <2>2. QueueAndJobTyped'
    BY <1>5, <1>14, <2>1 DEF ReconcileLooksAgain, Running
  <2> QED BY <1>1, <1>14, <2>2, GameStays, TypePartsNext DEF ReconcileLooksAgain, history
<1>15. CASE ReconcileFinishes
  <2>1. queue # << >> /\ Head(queue).kind = "reconcile" /\ NextJob
    BY <1>15 DEF ReconcileFinishes, Running
  <2>2. conts' \in Seq([owner : Owners, ok : BOOLEAN])
    <3>1. [owner |-> Head(queue).owner, ok |-> TRUE] \in [owner : Owners, ok : BOOLEAN]
      BY <2>1, <1>6
    <3> QED BY <1>1, <1>15, <3>1 DEF ReconcileFinishes, IntakeTyped
  <2>3. checkpoint' \in 0 .. NumMessages
    BY <1>3, <1>4, <1>15 DEF ReconcileFinishes
  <2>4. IntakeTyped'
    BY <1>1, <1>15, <2>2, <2>3 DEF ReconcileFinishes, IntakeTyped, adapter, history
  <2>5. resets' \in SUBSET Messages
    <3>1. job.breaking # 0 => job.breaking \in Messages
      BY <1>3, <1>4, MessagesTyped
    <3> QED BY <1>1, <1>15, <3>1 DEF ReconcileFinishes, GameTyped
  <2>6. GameTyped'
    BY <1>1, <1>15, <2>5 DEF ReconcileFinishes, GameTyped, Latest
  <2> QED BY <1>1, <1>6, <1>15, <2>1, <2>4, <2>6, GameStays, TypePartsNext DEF ReconcileFinishes, history
<1>16. CASE ReconcileFails
  <2>1. queue # << >> /\ Head(queue).kind = "reconcile" /\ NextJob
    BY <1>16 DEF ReconcileFails
  <2>2. conts' \in Seq([owner : Owners, ok : BOOLEAN])
    <3>1. [owner |-> Head(queue).owner, ok |-> FALSE] \in [owner : Owners, ok : BOOLEAN]
      BY <2>1, <1>6
    <3> QED BY <1>1, <1>16, <3>1 DEF ReconcileFails, IntakeTyped
  <2>3. faults' \in [FaultKinds -> Nat]
    BY <1>16, FaultTyped DEF ReconcileFails, FaultKinds
  <2>4. IntakeTyped'
    BY <1>1, <1>16, <2>2, <2>3 DEF ReconcileFails, IntakeTyped, adapter, history
  <2> QED BY <1>1, <1>6, <1>16, <2>1, <2>4, GameStays, TypePartsNext DEF ReconcileFails, history
<1> QED BY <1>8, <1>9, <1>10, <1>11, <1>12, <1>13, <1>14, <1>15, <1>16 DEF ReconcileStep

LEMMA ProcessStepTyped ==
    ASSUME TypeOK, BootInv,
           Continue \/ Start \/ Crash \/ CancelRound \/ ActivateRound \/ Dispatch
    PROVE  TypeOK'
<1>1. GameTyped /\ IntakeTyped /\ QueueAndJobTyped /\ DiscordTyped
  BY TypeParts
<1>2. conts # << >> => Tail(conts) \in Seq([owner : Owners, ok : BOOLEAN])
  BY <1>1 DEF IntakeTyped
<1>3. CASE ContinueReconnect
  <2>1. CASE Head(conts).ok
    <3>1. OpenGate /\ UNCHANGED job
      BY <1>3, <2>1 DEF ContinueReconnect
    <3>2. QueueAndJobTyped'
      BY <1>1, <1>3, <3>1, OpenGateTyped DEF ContinueReconnect, QueueAndJobTyped
    <3>3. IntakeTyped'
      BY <1>1, <1>2, <1>3, <3>1, OpenGateTyped DEF ContinueReconnect, IntakeTyped, history
    <3> QED BY <1>1, <1>3, <3>2, <3>3, GameStays, TypePartsNext DEF ContinueReconnect, history
  <2>2. CASE ~Head(conts).ok
    <3>1. StayGated /\ UNCHANGED job
      BY <1>3, <2>2 DEF ContinueReconnect
    <3>2. IntakeTyped'
      BY <1>1, <1>2, <1>3, <3>1 DEF ContinueReconnect, StayGated, IntakeTyped, history
    <3> QED BY <1>1, <1>3, <3>1, <3>2, GameStays, TypePartsNext
            DEF ContinueReconnect, StayGated, executor, history
  <2> QED BY <2>1, <2>2
<1>4. CASE ContinueStartup
  <2>1. IntakeTyped'
    BY <1>1, <1>2, <1>4 DEF ContinueStartup, IntakeTyped, adapter, history
  <2> QED BY <1>1, <1>4, <2>1, GameStays, TypePartsNext DEF ContinueStartup, history
<1>5. ASSUME Gone, faults' \in [FaultKinds -> Nat]
      PROVE  TypeOK'
  <2>1. QueueAndJobTyped'
    <3>1. queue' = << >> /\ job' = NotStarted
      BY <1>5 DEF Gone
    <3>2. NotStarted \in [pc : {"start", "list", "judge", "advance", "final", "finish"},
                          cursor : 0 .. NumMessages, highWater : 0 .. NumMessages,
                          listing : SUBSET Eligible, breaking : 0 .. NumMessages, completed : BOOLEAN]
      BY NumMessagesAssumption DEF NotStarted
    <3>3. << >> \in Seq({MessageJob(m) : m \in Messages} \cup {ReconcileJob(o) : o \in Owners})
      OBVIOUS
    <3> QED BY <3>1, <3>2, <3>3 DEF QueueAndJobTyped
  <2>2. IntakeTyped'
    <3>1. accepting' \in BOOLEAN
      BY <1>5 DEF Gone
    <3>2. intakeFailure' \in BOOLEAN
      BY <1>5 DEF Gone
    <3>3. buffered' \in Seq(Messages) /\ conts' \in Seq([owner : Owners, ok : BOOLEAN])
      BY <1>5 DEF Gone
    <3> QED BY <1>1, <1>5, <3>1, <3>2, <3>3 DEF Gone, IntakeTyped, history
  <2>3. DiscordTyped'
    <3>1. online' \in BOOLEAN
      BY <1>5 DEF Gone
    <3>2. inTransit' \in Seq(Messages)
      BY <1>5 DEF Gone
    <3> QED BY <1>1, <1>5, <3>1, <3>2 DEF Gone, DiscordTyped, history
  <2> QED BY <1>1, <1>5, <2>1, <2>2, <2>3, GameStays, TypePartsNext DEF Gone
<1>6. CASE StartupFails
  <2>1. faults' \in [FaultKinds -> Nat]
    BY <1>1, <1>6 DEF StartupFails, IntakeTyped
  <2> QED BY <1>5, <1>6, <2>1 DEF StartupFails
<1>7. CASE Crash
  <2>1. faults' \in [FaultKinds -> Nat]
    BY <1>7, FaultTyped DEF Crash, FaultKinds
  <2> QED BY <1>5, <1>7, <2>1 DEF Crash
<1>8. CASE EnableLiveIntake
  <2>1. OpenGate /\ UNCHANGED job
    BY <1>8 DEF EnableLiveIntake
  <2>2. QueueAndJobTyped'
    BY <1>1, <1>8, <2>1, OpenGateTyped DEF EnableLiveIntake, QueueAndJobTyped
  <2>3. IntakeTyped'
    BY <1>1, <1>8, <2>1, OpenGateTyped DEF EnableLiveIntake, IntakeTyped, history
  <2> QED BY <1>1, <1>8, <2>2, <2>3, GameStays, TypePartsNext DEF EnableLiveIntake, history
<1>9. CASE Start
  <2>1. DiscordTyped'
    BY <1>1, <1>9 DEF Start, DiscordTyped, history
  <2>2. boot' \in {"off", "reconciling", "dispatching", "live"}
    BY <1>9 DEF Start
  <2>3. IntakeTyped'
    BY <1>1, <1>9, <2>2 DEF Start, IntakeTyped, adapter, history
  <2>4. QueueAndJobTyped'
    <3>1. ReconcileJob("startup") \in Jobs /\ ReconcileJob("startup").kind = "reconcile"
      BY NewJobTyped DEF Owners
    <3>2. queue' = << >> \/ queue' = <<ReconcileJob("startup")>>
      BY <1>9 DEF Start
    <3>3. queue' \in Seq(Jobs) /\ (queue' # << >> => Head(queue') = ReconcileJob("startup"))
      <4>1. << >> \in Seq(Jobs) /\ <<ReconcileJob("startup")>> \in Seq(Jobs)
        BY <3>1
      <4>2. Head(<<ReconcileJob("startup")>>) = ReconcileJob("startup")
        OBVIOUS
      <4> QED BY <3>2, <4>1, <4>2
    <3>4. CASE RoundActive
      <4>1. queue' # << >>
        BY <1>9, <3>4 DEF Start
      <4> QED BY <1>1, <1>9, <3>1, <3>3, <4>1 DEF Start, QueueAndJobTyped, Jobs
    <3>5. CASE ~RoundActive
      <4>1. queue' = << >> /\ queue = << >>
        BY <1>9, <3>5 DEF Start, BootInv
      <4> QED BY <1>1, <1>9, <3>3, <4>1 DEF Start, QueueAndJobTyped, Jobs
    <3> QED BY <3>4, <3>5
  <2> QED BY <1>1, <1>9, <2>1, <2>3, <2>4, GameStays, TypePartsNext DEF Start
<1>10. CASE CancelRound
  <2>1. DOMAIN rounds = 1 .. Latest /\ Latest \in DOMAIN rounds /\ Latest \in Nat
    BY <1>1 DEF GameTyped, Latest
  <2>2. /\ rounds' \in Seq({"active", "completed", "cancelled"})
        /\ Latest' = Latest /\ DOMAIN rounds' = DOMAIN rounds
        /\ \A i \in 1 .. Latest - 1 : rounds'[i] = rounds[i]
    <3>1. rounds' = [rounds EXCEPT ![Latest] = "cancelled"]
      BY <1>10 DEF CancelRound
    <3>2. rounds \in Seq({"active", "completed", "cancelled"})
      BY <1>1 DEF GameTyped
    <3>3. Len(rounds') = Len(rounds) /\ DOMAIN rounds' = DOMAIN rounds
      BY <2>1, <3>1, <3>2
    <3>4. \A i \in 1 .. Latest - 1 : rounds'[i] = rounds[i]
      BY <2>1, <3>1
    <3>5. rounds' \in Seq({"active", "completed", "cancelled"})
      BY <2>1, <3>1, <3>2
    <3>6. Latest' = Latest
      BY <3>3 DEF Latest
    <3> QED BY <3>3, <3>4, <3>5, <3>6
  <2>4. outbox' \in Seq(Messages \cup {RoundEnd})
    BY <1>1, <1>10, EnqueuedTyped DEF CancelRound
  <2>3. GameTyped'
    BY <1>1, <1>10, <2>1, <2>2, <2>4 DEF CancelRound, GameTyped
  <2> QED BY <1>1, <1>10, <2>3, GameStays, TypePartsNext DEF CancelRound, history
<1>11. CASE ActivateRound
  <2>1. DOMAIN rounds = 1 .. Latest /\ Latest \in Nat \ {0} /\ Latest < MaxRounds
        /\ MaxRounds \in Nat /\ rounds[Latest] # "active"
    BY <1>1, <1>11, MaxRoundsAssumption DEF ActivateRound, GameTyped, Latest, RoundActive
  <2>2. /\ rounds' \in Seq({"active", "completed", "cancelled"})
        /\ Latest' = Latest + 1 /\ DOMAIN rounds' = 1 .. Latest + 1
        /\ \A i \in 1 .. Latest : rounds'[i] = rounds[i]
    BY <1>1, <1>11 DEF ActivateRound, GameTyped, Latest
  <2>3. \A i \in 1 .. Latest' - 1 : rounds'[i] # "active"
    BY <1>1, <2>1, <2>2 DEF GameTyped
  <2>4. Latest' \in 1 .. MaxRounds
    BY <2>1, <2>2
  <2>5. disposition' \in [Messages -> [kind : Kinds, by : 0 .. NumMessages,
                                       round : DOMAIN rounds'] \cup {Unseen}]
    <3>1. [kind : Kinds, by : 0 .. NumMessages, round : DOMAIN rounds] \subseteq
          [kind : Kinds, by : 0 .. NumMessages, round : DOMAIN rounds']
      BY <2>1, <2>2
    <3> QED BY <1>1, <1>11, <3>1 DEF ActivateRound, GameTyped
  <2>6. GameTyped'
    BY <1>1, <1>11, <2>2, <2>3, <2>4, <2>5 DEF ActivateRound, GameTyped
  <2>7. since' \in 0 .. posted'
    BY <1>1, <1>11 DEF ActivateRound, DiscordTyped, discord
  <2>8. DiscordTyped'
    BY <1>1, <1>11, <2>7 DEF ActivateRound, DiscordTyped, discord
  <2> QED BY <1>1, <1>11, <2>6, <2>8, GameStays, TypePartsNext DEF ActivateRound
<1>12. CASE Dispatch
  <2>1. outbox' \in Seq(Messages \cup {RoundEnd})
    BY <1>1, <1>12 DEF Dispatch, GameTyped
  <2>2. GameTyped'
    BY <1>1, <1>12, <2>1 DEF Dispatch, GameTyped, Latest
  <2> QED BY <1>1, <1>12, <2>2, GameStays, TypePartsNext DEF Dispatch, history
<1> QED BY <1>3, <1>4, <1>6, <1>7, <1>8, <1>9, <1>10, <1>11, <1>12 DEF Continue

LEMMA TypesKept ==
    ASSUME IntakeInv, [Next]_vars
    PROVE  TypeOK'
<1>1. CASE Next
  BY <1>1, AdapterStepTyped, ReconcileStepTyped, ProcessStepTyped
     DEF IntakeInv, Next, Gateway, MessageStep
<1>2. CASE UNCHANGED vars
  BY <1>2 DEF IntakeInv, vars, TypeOK, Latest
<1> QED BY <1>1, <1>2

-----------------------------------------------------------------------------
\* What keeps the other parts.

LEMMA CoverKept ==
    ASSUME CoverInv, UNCHANGED <<queue, buffered, inTransit, checkpoint, since, posted>>,
           RoundActive' => RoundActive, examined \subseteq examined'
    PROVE  CoverInv'
BY DEF CoverInv, CheckpointCoversExamined, IsMessage

LEMMA CoversStill ==
    ASSUME CheckpointCoversExamined, UNCHANGED <<checkpoint, since>>,
           RoundActive' => RoundActive, examined \subseteq examined'
    PROVE  CheckpointCoversExamined'
BY DEF CheckpointCoversExamined

LEMMA StuckStays ==
    ASSUME UNCHANGED <<queue, conts, intakeFailure>>
    PROVE  (Stuck => Stuck') /\ (Succeeded => Succeeded') /\ (Succeeded' => Succeeded)
BY DEF Stuck, AllMessages, IsMessage, Succeeded, Failed

LEMMA JobIdle ==
    ASSUME job' = NotStarted
    PROVE  JobInv' /\ ~HeadReconciles'
BY DEF JobInv, HeadReconciles, NotStarted

\* The head goes on with its job.
LEMMA JobKept ==
    ASSUME TypeOK, JobInv, UNCHANGED <<job, checkpoint>>,
           queue # << >> => queue' # << >> /\ queue'[1] = queue[1],
           posted <= posted', posted' \in Nat, examined \subseteq examined',
           intakeFailure' => intakeFailure, conts' # << >> => conts # << >>
    PROVE  JobInv' /\ (HeadReconciles' => HeadReconciles)
<1>1. CASE queue = << >>
  BY <1>1, JobIdle DEF TypeOK
<1>2. CASE queue # << >>
  <2>1. Window' = Window /\ (NextMessage' = NextMessage) /\ (HeadReconciles' <=> HeadReconciles)
        /\ (IsMessage(1)' <=> IsMessage(1))
    BY <1>2 DEF Window, NextMessage, HeadReconciles, IsReconcile, IsMessage
  <2>0. WindowLeft => WindowLeft'
    BY <2>1 DEF WindowLeft
  <2>2. job.highWater \in Nat /\ posted \in Nat
    BY NumMessagesAssumption DEF TypeOK
  <2>3. HeadReconciles' =>
          /\ job'.cursor = checkpoint' /\ job'.highWater <= posted'
          /\ \A m \in job'.listing : m <= job'.highWater
          /\ job'.pc # "list" => WindowLeft'
          /\ job'.pc \in {"judge", "advance"} => Window' # {}
          /\ job'.pc = "advance" => NextMessage' \in examined'
          /\ job'.pc \in {"final", "finish"} => Window' = {}
          /\ conts' # << >> => job'.pc \in {"list", "finish"}
    BY <2>0, <2>1, <2>2 DEF JobInv
  <2>4. queue' # << >> /\ IsMessage(1)' /\ job'.pc = "advance" =>
          ~intakeFailure' /\ queue'[1].message \in examined'
    BY <1>2, <2>1 DEF JobInv
  <2> QED BY <2>1, <2>3, <2>4 DEF JobInv
<1> QED BY <1>1, <1>2

\* Nothing changes about the breaks.
LEMMA BreakKept ==
    ASSUME BreakInv, UNCHANGED <<disposition, resets, rounds>>,
           HeadReconciles' => HeadReconciles /\ UNCHANGED job,
           Succeeded' => Succeeded \/ PendingBreaks = {},
           PendingBreaks # {} /\ TakenUpFirst => TakenUpFirst'
    PROVE  BreakInv'
<1>1. PendingBreaks' = PendingBreaks /\ Latest' = Latest /\ (RoundActive' <=> RoundActive)
  BY DEF PendingBreaks, Latest, RoundActive
<1>2. HeadReconciles' => PendingBreaks' = IF job'.breaking = 0 THEN {} ELSE {job'.breaking}
  BY <1>1 DEF BreakInv
<1>3. Succeeded' => PendingBreaks' = {}
  BY <1>1 DEF BreakInv
<1>4. RoundActive' => \A b \in PendingBreaks' : disposition'[b].round = Latest' => TakenUpFirst'
  BY <1>1 DEF BreakInv
<1> QED BY <1>1, <1>2, <1>3, <1>4 DEF BreakInv

\* What keeps those that are to be taken up first.
LEMMA FirstStays ==
    ASSUME UNCHANGED <<queue, conts, intakeFailure, boot>>
    PROVE  TakenUpFirst => TakenUpFirst'
BY StuckStays DEF TakenUpFirst, IsReconcile, IsMessage

LEMMA HeadTakesUp ==
    ASSUME TypeOK, queue # << >>, IsReconcile(1)
    PROVE  TakenUpFirst
<1>1. DOMAIN queue = 1 .. Len(queue) /\ Len(queue) \in Nat /\ 1 \in DOMAIN queue
      /\ \A i \in DOMAIN queue : ~(IsMessage(i) /\ IsReconcile(i))
  BY QueueTyped
<1>2. \A i \in DOMAIN queue : IsMessage(i) => 1 < i
  BY <1>1
<1> QED BY <1>1, <1>2 DEF TakenUpFirst

-----------------------------------------------------------------------------
\* The gateway.

LEMMA PostStep ==
    ASSUME IntakeInv, TypeOK', Post
    PROVE  IntakeInv'
<1>1. /\ TypeOK /\ BootInv /\ GateInv /\ JobInv /\ CoverInv /\ OrderInv /\ BreakInv
  BY DEF IntakeInv
<1>0. PICK n \in Int : n = posted + 1
  BY <1>1, NumMessagesAssumption DEF TypeOK
<1>2. /\ posted' = n /\ posted \in Nat /\ n \in Messages /\ n \in Nat /\ posted < n
      /\ inTransit' = IF online THEN Append(inTransit, n) ELSE inTransit
      /\ UNCHANGED <<online, checkpoint, disposition, resets, rounds, running, boot, accepting,
                     intakeFailure, buffered, queue, job, conts, faults, examined, since>>
  BY <1>0, <1>1, NumMessagesAssumption DEF Post, TypeOK, Messages, game, adapter, executor, history
<1>3. inTransit \in Seq(Messages) /\ DOMAIN inTransit = 1 .. Len(inTransit) /\ Len(inTransit) \in Nat
  BY <1>1 DEF TypeOK
<1>4. BootInv'
  <2>1. boot' = "off" => inTransit' = inTransit
    BY <1>1, <1>2 DEF BootInv
  <2> QED BY <1>1, <1>2, <2>1 DEF BootInv
<1>5. GateInv'
  BY <1>1, <1>2 DEF GateInv, Succeeded, Failed, IsReconcile
<1>6. JobInv' /\ (HeadReconciles' => HeadReconciles)
  BY <1>1, <1>2, JobKept
<1>7. /\ \A i \in DOMAIN inTransit' :
           \/ i \in DOMAIN inTransit /\ inTransit'[i] = inTransit[i]
           \/ online /\ inTransit'[i] = n /\ (\A j \in DOMAIN inTransit : j < i)
      /\ \A i \in DOMAIN inTransit : i \in DOMAIN inTransit' /\ inTransit'[i] = inTransit[i]
      /\ online => \E i \in DOMAIN inTransit' : inTransit'[i] = n
  <2>1. CASE online
    <3>1. /\ DOMAIN inTransit' = 1 .. Len(inTransit) + 1
          /\ inTransit'[Len(inTransit) + 1] = n
          /\ \A i \in DOMAIN inTransit : inTransit'[i] = inTransit[i]
      BY <1>2, <1>3, <2>1, AppendTo
    <3> QED BY <1>3, <2>1, <3>1
  <2>2. CASE ~online
    BY <1>2, <2>2
  <2> QED BY <2>1, <2>2
<1>8. CoverInv'
  <2>1. CheckpointCoversExamined'
    BY <1>1, <1>2, CoversStill DEF CoverInv, RoundActive, Latest
  <2>2. checkpoint' \in Nat /\ checkpoint' <= posted'
    BY <1>1, <1>2, NumMessagesAssumption DEF CoverInv, TypeOK
  <2>3. \A i \in DOMAIN queue' : IsMessage(i)' => queue'[i].message <= posted'
    BY <1>1, <1>2, NumbersTyped DEF CoverInv, IsMessage
  <2>4. \A i \in DOMAIN buffered' : buffered'[i] <= posted'
    BY <1>1, <1>2, NumbersTyped DEF CoverInv
  <2>5. \A i \in DOMAIN inTransit' : inTransit'[i] <= posted'
    BY <1>1, <1>2, <1>7, NumbersTyped DEF CoverInv
  <2> QED BY <2>1, <2>2, <2>3, <2>4, <2>5 DEF CoverInv
<1>9. OrderInv'
  <2>1. /\ (RoundActive' <=> RoundActive) /\ (ReadLater => ReadLater')
        /\ \A i \in DOMAIN queue : WillRead(i) <=> WillRead(i)'
        /\ \A i \in DOMAIN queue : IsMessage(i) <=> IsMessage(i)'
    BY <1>2, StuckStays DEF RoundActive, Latest, ReadLater, WillRead, IsReconcile, IsMessage
  <2>2. \A u \in Eligible : Due(u)' => u \in Nat /\ (Due(u) \/ u = n)
    BY <1>0, <1>1, <1>2, NumbersTyped DEF Due
  <2>3. \A u : (Queued(u) => Queued(u)') /\ (Buffered(u) => Buffered(u)')
               /\ (OnTheWay(u) => OnTheWay(u)')
    BY <1>2, <1>7 DEF Queued, Buffered, OnTheWay
  <2>4. QueueOrder'
    <3>1. \A i \in DOMAIN queue : IsMessage(i) => queue[i].message \in Nat /\ ~(n < queue[i].message)
      BY <1>1, <1>2, NumbersTyped DEF CoverInv
    <3> QED BY <1>1, <1>2, <2>1, <2>2, <3>1 DEF OrderInv, QueueOrder
  <2>5. BufferOrder'
    <3>1. \A i \in DOMAIN buffered : buffered[i] \in Nat /\ ~(n < buffered[i])
      BY <1>1, <1>2, NumbersTyped DEF CoverInv
    <3> QED BY <1>1, <1>2, <2>1, <2>2, <2>3, <3>1 DEF OrderInv, BufferOrder
  <2>6. TransitOrder'
    <3> SUFFICES ASSUME RoundActive', NEW u \in Eligible, NEW i \in DOMAIN inTransit',
                        Due(u)', u < inTransit'[i]
                 PROVE  \/ ReadLater' \/ Queued(u)' \/ Buffered(u)'
                        \/ \E j \in DOMAIN inTransit' : j < i /\ inTransit'[j] = u
      BY DEF TransitOrder
    <3>1. inTransit'[i] <= n
      BY <1>2, <1>8 DEF CoverInv
    <3>2. inTransit'[i] \in Nat
      BY <1>1, <1>2, <1>7, NumbersTyped
    <3>3. Due(u)
      BY <1>2, <2>2, <3>1, <3>2
    <3>4. CASE i \in DOMAIN inTransit /\ inTransit'[i] = inTransit[i]
      BY <1>1, <1>7, <2>1, <2>3, <3>3, <3>4 DEF OrderInv, TransitOrder
    <3>5. CASE online /\ \A j \in DOMAIN inTransit : j < i
      <4>1. ReadLater \/ Queued(u) \/ Buffered(u) \/ OnTheWay(u)
        BY <1>1, <2>1, <3>3, <3>5 DEF OrderInv, OnlineOrder
      <4> QED BY <1>7, <2>1, <2>3, <3>5, <4>1 DEF OnTheWay
    <3> QED BY <1>7, <3>4, <3>5
  <2>7. OnlineOrder'
    <3>1. online => OnTheWay(n)'
      BY <1>7 DEF OnTheWay
    <3> QED BY <1>1, <1>2, <2>1, <2>2, <2>3, <3>1 DEF OrderInv, OnlineOrder
  <2> QED BY <2>4, <2>5, <2>6, <2>7 DEF OrderInv
<1>10. BreakInv'
  BY <1>1, <1>2, <1>6, BreakKept, FirstStays, StuckStays
<1> QED BY <1>4, <1>5, <1>6, <1>8, <1>9, <1>10 DEF IntakeInv

LEMMA DisconnectedStep ==
    ASSUME IntakeInv, TypeOK', Disconnected
    PROVE  IntakeInv'
<1>1. /\ TypeOK /\ BootInv /\ GateInv /\ JobInv /\ CoverInv /\ OrderInv /\ BreakInv
  BY DEF IntakeInv
<1>2. /\ ~online' /\ inTransit' = << >> /\ ~accepting'
      /\ UNCHANGED <<posted, checkpoint, disposition, resets, rounds, running, boot,
                     intakeFailure, buffered, queue, job, conts, examined, since>>
  BY DEF Disconnected, game, executor, history
<1>3. BootInv'
  BY <1>1, <1>2 DEF BootInv
<1>4. GateInv'
  BY <1>1, <1>2 DEF GateInv, Succeeded, Failed, IsReconcile
<1>5. JobInv' /\ (HeadReconciles' => HeadReconciles)
  <2>1. posted' \in Nat /\ posted <= posted'
    BY <1>1, <1>2, NumMessagesAssumption DEF TypeOK
  <2> QED BY <1>1, <1>2, <2>1, JobKept
<1>6. CoverInv'
  <2>1. CheckpointCoversExamined'
    BY <1>1, <1>2, CoversStill DEF CoverInv, RoundActive, Latest
  <2> QED BY <1>1, <1>2, <2>1 DEF CoverInv, IsMessage
<1>7. OrderInv'
  <2>1. /\ (RoundActive' <=> RoundActive) /\ (ReadLater => ReadLater')
        /\ \A i \in DOMAIN queue : WillRead(i) <=> WillRead(i)'
        /\ \A i \in DOMAIN queue : IsMessage(i) <=> IsMessage(i)'
        /\ \A u : (Due(u) <=> Due(u)') /\ (Queued(u) => Queued(u)')
    BY <1>2, StuckStays
       DEF RoundActive, Latest, ReadLater, WillRead, IsReconcile, IsMessage, Due, Queued
  <2>2. QueueOrder'
    BY <1>1, <1>2, <2>1 DEF OrderInv, QueueOrder
  <2>3. BufferOrder'
    BY <1>1, <1>2, <2>1 DEF OrderInv, BufferOrder
  <2> QED BY <1>2, <2>2, <2>3 DEF OrderInv, TransitOrder, OnlineOrder
<1>8. BreakInv'
  BY <1>1, <1>2, <1>5, BreakKept, FirstStays, StuckStays
<1> QED BY <1>3, <1>4, <1>5, <1>6, <1>7, <1>8 DEF IntakeInv

\* What was the next to be delivered has a place behind what is due before it.
LEMMA DeliverOrder ==
    ASSUME TypeOK, BootInv, GateInv, OrderInv, Deliver
    PROVE  OrderInv'
<1>1. PICK m \in Nat : m = Head(inTransit)
  <2>1. inTransit \in Seq(Messages) /\ inTransit # << >>
    BY DEF TypeOK, Deliver
  <2>2. Head(inTransit) \in Messages
    BY <2>1
  <2> QED BY <2>2, MessagesTyped
<1>2. /\ inTransit # << >> /\ inTransit \in Seq(Messages) /\ inTransit' = Tail(inTransit)
      /\ buffered \in Seq(Messages) /\ queue \in Seq(Jobs) /\ m \in Messages
      /\ conts = << >>
      /\ UNCHANGED <<posted, online, rounds, accepting, intakeFailure, job, conts, examined, since>>
  <2>1. inTransit # << >> /\ inTransit \in Seq(Messages) /\ queue \in Seq(Jobs)
    BY QueueTyped DEF TypeOK, Deliver
  <2>2. m \in Messages
    BY <1>1, <2>1
  <2> QED BY <1>1, <2>1, <2>2 DEF TypeOK, Deliver, MicrotasksDone, game, history
<1>3. /\ 1 \in DOMAIN inTransit /\ inTransit[1] = m
      /\ \A i \in DOMAIN inTransit' :
           inTransit'[i] = inTransit[i + 1] /\ i + 1 \in DOMAIN inTransit /\ i \in Nat \ {0}
      /\ \A i \in DOMAIN inTransit : i \in Nat \ {0}
      /\ \A i \in DOMAIN inTransit \ {1} :
           i - 1 \in DOMAIN inTransit' /\ inTransit'[i - 1] = inTransit[i]
  BY <1>1, <1>2, TailOf
<1>4. /\ RoundActive' <=> RoundActive
      /\ \A u : Due(u)' <=> Due(u)
  BY <1>2 DEF RoundActive, Latest, Due
<1>5. ASSUME RoundActive, NEW u \in Eligible, Due(u), u < m
      PROVE  ReadLater \/ Queued(u) \/ Buffered(u)
  BY <1>3, <1>5 DEF OrderInv, TransitOrder
\* It suffices that every place is kept and that the message gets one.
<1>6. ASSUME ReadLater => ReadLater', \A u : Queued(u) => Queued(u)', \A u : Buffered(u) => Buffered(u)',
             RoundActive /\ m \in Eligible => Queued(m)' \/ Buffered(m)',
             QueueOrder', BufferOrder'
      PROVE  OrderInv'
  <2>1. TransitOrder'
    <3> SUFFICES ASSUME RoundActive, NEW u \in Eligible, NEW i \in DOMAIN inTransit',
                        Due(u), u < inTransit'[i]
                 PROVE  \/ ReadLater' \/ Queued(u)' \/ Buffered(u)'
                        \/ \E j \in DOMAIN inTransit' : j < i /\ inTransit'[j] = u
      BY <1>4 DEF TransitOrder
    <3>1. \/ ReadLater \/ Queued(u) \/ Buffered(u)
          \/ \E j \in DOMAIN inTransit : j < i + 1 /\ inTransit[j] = u
      BY <1>3 DEF OrderInv, TransitOrder
    <3>2. CASE \E j \in DOMAIN inTransit : j < i + 1 /\ inTransit[j] = u
      <4>1. PICK j \in DOMAIN inTransit : j < i + 1 /\ inTransit[j] = u
        BY <3>2
      <4>2. CASE j = 1
        BY <1>3, <1>6, <4>1, <4>2
      <4>3. CASE j # 1
        <5>1. j - 1 \in DOMAIN inTransit' /\ inTransit'[j - 1] = u /\ j - 1 < i
          BY <1>3, <4>1, <4>3
        <5> QED BY <5>1
      <4> QED BY <4>2, <4>3
    <3> QED BY <1>6, <3>1, <3>2
  <2>2. OnlineOrder'
    <3> SUFFICES ASSUME RoundActive, online, NEW u \in Eligible, Due(u)
                 PROVE  ReadLater' \/ Queued(u)' \/ Buffered(u)' \/ OnTheWay(u)'
      BY <1>2, <1>4 DEF OnlineOrder
    <3>1. ReadLater \/ Queued(u) \/ Buffered(u) \/ OnTheWay(u)
      BY DEF OrderInv, OnlineOrder
    <3>2. CASE OnTheWay(u)
      <4>1. PICK j \in DOMAIN inTransit : inTransit[j] = u
        BY <3>2 DEF OnTheWay
      <4>2. CASE j = 1
        BY <1>3, <1>6, <4>1, <4>2
      <4>3. CASE j # 1
        <5>1. j - 1 \in DOMAIN inTransit' /\ inTransit'[j - 1] = u
          BY <1>3, <4>1, <4>3
        <5> QED BY <5>1 DEF OnTheWay
      <4> QED BY <4>2, <4>3
    <3> QED BY <1>6, <3>1, <3>2
  <2> QED BY <1>6, <2>1, <2>2 DEF OrderInv
<1>7. CASE ~accepting
  <2>1. buffered' = Append(buffered, m) /\ queue' = queue
    BY <1>1, <1>7 DEF Deliver, HandleMessage
  <2>2. /\ DOMAIN buffered' = 1 .. Len(buffered) + 1 /\ Len(buffered) \in Nat
        /\ buffered'[Len(buffered) + 1] = m /\ DOMAIN buffered = 1 .. Len(buffered)
        /\ \A i \in DOMAIN buffered : buffered'[i] = buffered[i]
    BY <1>2, <2>1, AppendTo
  <2>3. /\ ReadLater => ReadLater'
        /\ \A u : Queued(u) => Queued(u)'
        /\ \A i \in DOMAIN queue : (WillRead(i) <=> WillRead(i)') /\ (IsMessage(i) <=> IsMessage(i)')
    BY <1>2, <2>1, StuckStays DEF ReadLater, WillRead, IsReconcile, IsMessage, Queued
  <2>4. \A u : Buffered(u) => Buffered(u)'
    BY <2>2 DEF Buffered
  <2>5. Buffered(m)'
    <3>1. Len(buffered) + 1 \in DOMAIN buffered' /\ buffered'[Len(buffered) + 1] = m
      BY <2>2
    <3> QED BY <3>1 DEF Buffered
  <2>6. QueueOrder'
    BY <1>2, <1>4, <2>1, <2>3 DEF OrderInv, QueueOrder
  <2>7. BufferOrder'
    <3> SUFFICES ASSUME RoundActive, NEW u \in Eligible, NEW i \in DOMAIN buffered',
                        Due(u), u < buffered'[i]
                 PROVE  ReadLater' \/ Queued(u)' \/ \E j \in DOMAIN buffered' : j < i /\ buffered'[j] = u
      BY <1>4 DEF BufferOrder
    <3>1. CASE i \in DOMAIN buffered
      <4>1. ReadLater \/ Queued(u) \/ \E j \in DOMAIN buffered : j < i /\ buffered[j] = u
        BY <2>2, <3>1 DEF OrderInv, BufferOrder
      <4> QED BY <2>2, <2>3, <4>1
    <3>2. CASE i = Len(buffered) + 1
      <4>1. ReadLater \/ Queued(u) \/ Buffered(u)
        BY <1>5, <2>2, <3>2
      <4> QED BY <2>2, <2>3, <3>2, <4>1 DEF Buffered
    <3> QED BY <2>2, <3>1, <3>2
  <2> QED BY <1>6, <2>3, <2>4, <2>5, <2>6, <2>7
<1>8. CASE accepting /\ m \in Eligible /\ RoundActive
  <2>1. buffered' = buffered /\ queue' = Append(queue, MessageJob(m))
    BY <1>1, <1>8 DEF Deliver, HandleMessage
  <2>2. buffered = << >> /\ ~Stuck
    BY <1>2, <1>8 DEF GateInv, Stuck, Failed
  <2>3. MessageJob(m) \in Jobs /\ MessageJob(m).kind = "message" /\ MessageJob(m).message = m
    BY <1>2, NewJobTyped
  <2>4. /\ DOMAIN queue' = 1 .. Len(queue) + 1 /\ Len(queue) \in Nat
        /\ queue'[Len(queue) + 1] = MessageJob(m) /\ DOMAIN queue = 1 .. Len(queue)
        /\ \A i \in DOMAIN queue : queue'[i] = queue[i]
    BY <1>2, <2>1, <2>3, AppendTo
  <2>5. \A i \in DOMAIN queue : (WillRead(i) => WillRead(i)') /\ (IsMessage(i) <=> IsMessage(i)')
    BY <1>2, <2>4 DEF WillRead, IsReconcile, IsMessage
  <2>6. ReadLater => ReadLater'
    BY <2>2, <2>4, <2>5 DEF ReadLater
  <2>7. \A u : (Queued(u) => Queued(u)') /\ (Buffered(u) => Buffered(u)')
    BY <2>1, <2>4 DEF Queued, Buffered
  <2>8. Queued(m)'
    <3>1. Len(queue) + 1 \in DOMAIN queue'
      BY <2>4
    <3> QED BY <2>4, <3>1 DEF Queued
  <2>9. QueueOrder'
    <3> SUFFICES ASSUME RoundActive, ~intakeFailure, NEW u \in Eligible, NEW i \in DOMAIN queue',
                        Due(u), IsMessage(i)', u < queue'[i].message
                 PROVE  \E j \in DOMAIN queue' : j < i /\ (queue'[j] = MessageJob(u) \/ WillRead(j)')
      BY <1>2, <1>4 DEF QueueOrder
    <3>1. CASE i \in DOMAIN queue
      <4>1. \E j \in DOMAIN queue : j < i /\ (queue[j] = MessageJob(u) \/ WillRead(j))
        BY <2>4, <2>5, <3>1 DEF OrderInv, QueueOrder
      <4> QED BY <2>4, <2>5, <4>1
    <3>2. CASE i = Len(queue) + 1
      <4>1. u < m
        BY <2>3, <2>4, <3>2
      <4>2. ReadLater \/ Queued(u)
        BY <1>5, <2>2, <4>1 DEF Buffered
      <4>3. PICK j \in DOMAIN queue : WillRead(j) \/ queue[j] = MessageJob(u)
        BY <2>2, <4>2 DEF ReadLater, Queued
      <4>4. j \in DOMAIN queue' /\ j < i
        BY <2>4, <3>2
      <4> QED BY <2>4, <2>5, <4>3, <4>4
    <3> QED BY <2>4, <3>1, <3>2
  <2>10. BufferOrder'
    BY <2>1, <2>2 DEF BufferOrder
  <2> QED BY <1>6, <2>6, <2>7, <2>8, <2>9, <2>10
<1>9. CASE accepting /\ ~(m \in Eligible /\ RoundActive)
  <2>1. buffered' = buffered /\ queue' = queue
    BY <1>1, <1>9 DEF Deliver, HandleMessage
  <2>2. /\ ReadLater => ReadLater'
        /\ \A u : Queued(u) => Queued(u)'
        /\ \A i \in DOMAIN queue : (WillRead(i) <=> WillRead(i)') /\ (IsMessage(i) <=> IsMessage(i)')
    BY <1>2, <2>1, StuckStays DEF ReadLater, WillRead, IsReconcile, IsMessage, Queued
  <2>3. \A u : Buffered(u) => Buffered(u)'
    BY <2>1 DEF Buffered
  <2>4. QueueOrder'
    BY <1>2, <1>4, <2>1, <2>2 DEF OrderInv, QueueOrder
  <2>5. BufferOrder'
    BY <1>2, <1>4, <2>1, <2>2 DEF OrderInv, BufferOrder
  <2> QED BY <1>6, <1>9, <2>2, <2>3, <2>4, <2>5
<1> QED BY <1>7, <1>8, <1>9

\* Messages are added to the queue.
LEMMA MessagesFollow ==
    ASSUME TypeOK, NEW r \in Seq(Jobs), queue' = queue \o r,
           \A k \in DOMAIN r : r[k].kind = "message"
    PROVE  /\ DOMAIN queue = 1 .. Len(queue) /\ Len(queue) \in Nat
           /\ \A i \in DOMAIN queue :
                /\ i \in DOMAIN queue' /\ queue'[i] = queue[i]
                /\ (IsMessage(i)' <=> IsMessage(i))
                /\ (IsReconcile(i)' <=> IsReconcile(i))
           /\ \A k \in DOMAIN r : /\ Len(queue) + k \in DOMAIN queue'
                                  /\ queue'[Len(queue) + k] = r[k]
           /\ \A i \in DOMAIN queue' :
                \/ i \in DOMAIN queue
                \/ /\ IsMessage(i)' /\ ~IsReconcile(i)'
                   /\ queue'[i] # ReconcileJob("startup")
                   /\ i - Len(queue) \in DOMAIN r /\ queue'[i] = r[i - Len(queue)]
                   /\ \A j \in DOMAIN queue : j < i
           /\ queue # << >> => queue' # << >> /\ queue'[1] = queue[1]
           /\ UNCHANGED job => \A i \in DOMAIN queue : WillRead(i) => WillRead(i)'
<1>1. /\ queue \in Seq(Jobs) /\ Len(queue) \in Nat /\ Len(r) \in Nat
      /\ DOMAIN queue = 1 .. Len(queue) /\ DOMAIN r = 1 .. Len(r)
      /\ DOMAIN queue' = 1 .. Len(queue) + Len(r)
      /\ \A i \in DOMAIN queue : queue'[i] = queue[i]
      /\ \A i \in DOMAIN r : queue'[Len(queue) + i] = r[i]
      /\ \A i \in DOMAIN queue' \ DOMAIN queue :
            i - Len(queue) \in DOMAIN r /\ queue'[i] = r[i - Len(queue)]
  <2>1. queue \in Seq(Jobs)
    BY QueueTyped
  <2> QED BY <2>1, ConcatOf
<1>2. \A i \in DOMAIN queue :
        /\ i \in DOMAIN queue' /\ queue'[i] = queue[i]
        /\ (IsMessage(i)' <=> IsMessage(i))
        /\ (IsReconcile(i)' <=> IsReconcile(i))
  BY <1>1 DEF IsMessage, IsReconcile
<1>3. \A k \in DOMAIN r : Len(queue) + k \in DOMAIN queue' /\ queue'[Len(queue) + k] = r[k]
  BY <1>1
<1>4. ASSUME NEW i \in DOMAIN queue', i \notin DOMAIN queue
      PROVE  /\ IsMessage(i)' /\ ~IsReconcile(i)'
             /\ queue'[i] # ReconcileJob("startup")
             /\ i - Len(queue) \in DOMAIN r /\ queue'[i] = r[i - Len(queue)]
             /\ \A j \in DOMAIN queue : j < i
  <2>1. i - Len(queue) \in DOMAIN r /\ queue'[i] = r[i - Len(queue)]
    BY <1>1, <1>4
  <2>2. queue'[i].kind = "message"
    BY <2>1
  <2>3. \A j \in DOMAIN queue : j < i
    BY <1>1, <1>4
  <2> QED BY <2>1, <2>2, <2>3 DEF IsMessage, IsReconcile, ReconcileJob
<1>5. queue # << >> => queue' # << >> /\ queue'[1] = queue[1]
  <2>1. queue # << >> => 1 \in DOMAIN queue
    BY QueueTyped
  <2> QED BY <1>2, <2>1
<1>6. UNCHANGED job => \A i \in DOMAIN queue : WillRead(i) => WillRead(i)'
  BY <1>2 DEF WillRead
<1> QED BY <1>1, <1>2, <1>3, <1>4, <1>5, <1>6

\* They do not come before what is to be taken up.
LEMMA FirstFollowed ==
    ASSUME TypeOK, NEW r \in Seq(Jobs), queue' = queue \o r,
           \A k \in DOMAIN r : r[k].kind = "message",
           boot # "off", ~Stuck, ~intakeFailure, TakenUpFirst
    PROVE  TakenUpFirst'
<1>1. /\ \A i \in DOMAIN queue :
           /\ i \in DOMAIN queue' /\ queue'[i] = queue[i]
           /\ (IsMessage(i)' <=> IsMessage(i))
           /\ (IsReconcile(i)' <=> IsReconcile(i))
      /\ \A i \in DOMAIN queue' : i \in DOMAIN queue \/ \A j \in DOMAIN queue : j < i
  BY MessagesFollow
<1>2. PICK k \in DOMAIN queue : IsReconcile(k)
  BY DEF TakenUpFirst
<1>3. \A i \in DOMAIN queue' : IsMessage(i)' => \E j \in DOMAIN queue' : j < i /\ IsReconcile(j)'
  BY <1>1, <1>2 DEF TakenUpFirst
<1> QED BY <1>1, <1>2, <1>3 DEF TakenUpFirst

LEMMA DeliverStep ==
    ASSUME IntakeInv, TypeOK', Deliver
    PROVE  IntakeInv'
<1>1. /\ TypeOK /\ BootInv /\ GateInv /\ JobInv /\ CoverInv /\ OrderInv /\ BreakInv
  BY DEF IntakeInv
<1>2. PICK m \in Messages : m = Head(inTransit)
  <2>1. inTransit \in Seq(Messages) /\ inTransit # << >>
    BY <1>1 DEF TypeOK, Deliver
  <2> QED BY <2>1
<1>3. /\ inTransit # << >> /\ inTransit \in Seq(Messages) /\ inTransit' = Tail(inTransit)
      /\ conts = << >> /\ conts' = << >>
      /\ UNCHANGED <<posted, online, checkpoint, disposition, resets, rounds, boot, accepting,
                     intakeFailure, job, conts, examined, since>>
  BY <1>1 DEF TypeOK, Deliver, MicrotasksDone, game, history
<1>4. /\ 1 \in DOMAIN inTransit /\ inTransit[1] = m
      /\ \A i \in DOMAIN inTransit' : inTransit'[i] = inTransit[i + 1] /\ i + 1 \in DOMAIN inTransit
  BY <1>2, <1>3, TailOf
<1>5. m <= posted
  BY <1>1, <1>4 DEF CoverInv
<1>6. boot # "off"
  BY <1>1, <1>3 DEF BootInv
<1>7. ~Failed /\ ~Failed' /\ ~Succeeded /\ ~Succeeded'
  BY <1>3 DEF Failed, Succeeded
<1>8. PICK r \in Seq(Jobs) :
        /\ queue' = queue \o r
        /\ \A k \in DOMAIN r : r[k] = MessageJob(m) /\ r[k].kind = "message"
        /\ ~accepting => r = << >>
        /\ r # << >> => accepting /\ buffered' = buffered
  <2>1. MessageJob(m) \in Jobs /\ MessageJob(m).kind = "message"
    BY NewJobTyped
  <2>2. queue \in Seq(Jobs)
    BY <1>1, QueueTyped
  <2>3. CASE queue' = queue
    <3>1. << >> \in Seq(Jobs) /\ queue \o << >> = queue /\ DOMAIN << >> = {}
      BY <2>2
    <3> QED BY <2>3, <3>1
  <2>4. CASE accepting /\ buffered' = buffered /\ queue' = Append(queue, MessageJob(m))
    <3>1. <<MessageJob(m)>> \in Seq(Jobs) /\ queue' = queue \o <<MessageJob(m)>>
          /\ DOMAIN <<MessageJob(m)>> = {1} /\ <<MessageJob(m)>>[1] = MessageJob(m)
      BY <2>1, <2>2, <2>4
    <3> QED BY <2>1, <2>4, <3>1
  <2> QED BY <1>2, <2>3, <2>4 DEF Deliver, HandleMessage
<1>9. /\ \A i \in DOMAIN queue :
           /\ i \in DOMAIN queue' /\ queue'[i] = queue[i]
           /\ (IsMessage(i)' <=> IsMessage(i))
           /\ (IsReconcile(i)' <=> IsReconcile(i))
      /\ \A i \in DOMAIN queue' :
           \/ i \in DOMAIN queue
           \/ /\ accepting /\ queue'[i] = MessageJob(m)
              /\ queue'[i] # ReconcileJob("startup")
      /\ queue # << >> => queue' # << >> /\ queue'[1] = queue[1]
  BY <1>1, <1>8, MessagesFollow
<1>10. \/ buffered' = buffered
       \/ /\ ~accepting /\ queue' = queue /\ buffered' = Append(buffered, m)
  BY <1>2 DEF Deliver, HandleMessage
<1>11. BootInv'
  <2>1. \A i \in DOMAIN queue' :
          queue'[i] = ReconcileJob("startup") => i = 1 /\ boot' = "reconciling" /\ conts' = << >>
    BY <1>1, <1>3, <1>9 DEF BootInv
  <2> QED BY <1>1, <1>3, <1>6, <2>1 DEF BootInv
<1>12. GateInv'
  <2>1. accepting' => buffered' = << >> /\ ~intakeFailure'
    BY <1>1, <1>3, <1>10 DEF GateInv
  <2>2. intakeFailure' => queue' = queue
    BY <1>1, <1>3, <1>10 DEF GateInv, Deliver, HandleMessage
  <2>3. intakeFailure' => \A i, j \in DOMAIN queue' : i < j /\ IsReconcile(i)' => IsReconcile(j)'
    BY <1>1, <1>3, <1>9, <2>2 DEF GateInv
  <2> QED BY <1>3, <1>7, <2>1, <2>3 DEF GateInv
<1>13. JobInv' /\ (HeadReconciles' => HeadReconciles)
  <2>1. posted' \in Nat /\ posted <= posted'
    BY <1>1, <1>3, NumbersTyped
  <2> QED BY <1>1, <1>3, <1>9, <2>1, JobKept
<1>14. CoverInv'
  <2>1. CheckpointCoversExamined'
    BY <1>1, <1>3, CoversStill DEF CoverInv, RoundActive, Latest
  <2>2. \A i \in DOMAIN queue' : IsMessage(i)' => queue'[i].message <= posted'
    <3>1. MessageJob(m).message = m
      BY NewJobTyped
    <3> QED BY <1>1, <1>3, <1>5, <1>9, <3>1 DEF CoverInv
  <2>3. \A i \in DOMAIN buffered' : buffered'[i] <= posted'
    <3>1. CASE buffered' = buffered
      BY <1>1, <1>3, <3>1 DEF CoverInv
    <3>2. CASE buffered' = Append(buffered, m)
      <4>1. buffered \in Seq(Messages)
        BY <1>1 DEF TypeOK
      <4>2. /\ DOMAIN buffered' = 1 .. Len(buffered) + 1 /\ Len(buffered) \in Nat
            /\ buffered'[Len(buffered) + 1] = m /\ DOMAIN buffered = 1 .. Len(buffered)
            /\ \A i \in DOMAIN buffered : buffered'[i] = buffered[i]
        BY <3>2, <4>1, AppendTo
      <4>3. \A i \in DOMAIN buffered' : i \in DOMAIN buffered \/ i = Len(buffered) + 1
        BY <4>2
      <4> QED BY <1>1, <1>3, <1>5, <4>2, <4>3 DEF CoverInv
    <3> QED BY <1>10, <3>1, <3>2
  <2>4. \A i \in DOMAIN inTransit' : inTransit'[i] <= posted'
    BY <1>1, <1>3, <1>4 DEF CoverInv
  <2> QED BY <1>1, <1>3, <2>1, <2>2, <2>3, <2>4 DEF CoverInv
<1>15. OrderInv'
  BY <1>1, DeliverOrder
<1>16. BreakInv'
  <2>1. CASE queue' = queue
    BY <1>1, <1>3, <1>13, <2>1, BreakKept, FirstStays, StuckStays
  <2>2. CASE accepting
    <3>1. ~Stuck /\ ~intakeFailure
      BY <1>1, <1>7, <2>2 DEF GateInv, Stuck
    <3>2. TakenUpFirst => TakenUpFirst'
      BY <1>1, <1>6, <1>8, <3>1, FirstFollowed
    <3> QED BY <1>1, <1>3, <1>7, <1>13, <3>2, BreakKept
  <2> QED BY <2>1, <2>2 DEF Deliver, HandleMessage
<1> QED BY <1>11, <1>12, <1>13, <1>14, <1>15, <1>16 DEF IntakeInv

-----------------------------------------------------------------------------
\* The gate opens after a reconciliation, or at the end of start-up.

LEMMA GateOrder ==
    ASSUME TypeOK, OrderInv, OpenGate, ~Stuck,
           intakeFailure => \A i \in DOMAIN queue : IsReconcile(i),
           UNCHANGED <<posted, online, inTransit, rounds, job, examined, since>>
    PROVE  OrderInv'
<1>1. (RoundActive' <=> RoundActive) /\ \A u : (Due(u)' <=> Due(u)) /\ (OnTheWay(u) => OnTheWay(u)')
  BY DEF RoundActive, Latest, Due, OnTheWay
<1>2. CASE ~RoundActive
  BY <1>1, <1>2 DEF OrderInv, QueueOrder, BufferOrder, TransitOrder, OnlineOrder
<1>3. CASE RoundActive
  <2>1. PICK r \in Seq(Jobs) :
          /\ queue' = queue \o r
          /\ \A k \in DOMAIN r :
               /\ r[k].kind = "message"
               /\ \E i \in DOMAIN buffered :
                    /\ r[k] = MessageJob(buffered[i])
                    /\ \A j \in DOMAIN buffered :
                         j < i /\ buffered[j] \in Eligible =>
                            \E l \in DOMAIN r : l < k /\ r[l] = MessageJob(buffered[j])
          /\ \A i \in DOMAIN buffered :
               buffered[i] \in Eligible => \E k \in DOMAIN r : r[k] = MessageJob(buffered[i])
    BY <1>3, FlushedInOrder
  <2>2. /\ DOMAIN queue = 1 .. Len(queue) /\ Len(queue) \in Nat
        /\ \A i \in DOMAIN queue :
             /\ i \in DOMAIN queue' /\ queue'[i] = queue[i]
             /\ (IsMessage(i)' <=> IsMessage(i))
             /\ WillRead(i) => WillRead(i)'
        /\ \A k \in DOMAIN r : /\ Len(queue) + k \in DOMAIN queue'
                               /\ queue'[Len(queue) + k] = r[k]
        /\ \A i \in DOMAIN queue' :
             \/ i \in DOMAIN queue
             \/ /\ i - Len(queue) \in DOMAIN r /\ queue'[i] = r[i - Len(queue)]
                /\ \A j \in DOMAIN queue : j < i
    BY <2>1, MessagesFollow
  <2>3. DOMAIN r = 1 .. Len(r) /\ Len(r) \in Nat
    BY <2>1
  <2>4. ReadLater => \E i \in DOMAIN queue : WillRead(i) /\ WillRead(i)'
    BY <2>2 DEF ReadLater
  <2>5. ReadLater => ReadLater'
    BY <2>2, <2>4 DEF ReadLater
  <2>6. \A u : Queued(u) => Queued(u)'
    BY <2>2 DEF Queued
  <2>7. \A u \in Eligible : Buffered(u) => Queued(u)'
    <3> SUFFICES ASSUME NEW u \in Eligible, Buffered(u)
                 PROVE  Queued(u)'
      OBVIOUS
    <3>1. PICK k \in DOMAIN r : r[k] = MessageJob(u)
      BY <2>1 DEF Buffered
    <3> QED BY <2>2, <3>1 DEF Queued
  <2>8. QueueOrder'
    <3> SUFFICES ASSUME NEW u \in Eligible, NEW i \in DOMAIN queue',
                        Due(u), IsMessage(i)', u < queue'[i].message
                 PROVE  \E j \in DOMAIN queue' : j < i /\ (queue'[j] = MessageJob(u) \/ WillRead(j)')
      BY <1>1 DEF QueueOrder
    <3>1. CASE i \in DOMAIN queue
      <4>1. IsMessage(i) /\ ~IsReconcile(i) /\ u < queue[i].message
        BY <2>2, <3>1, QueueTyped
      <4>2. \E j \in DOMAIN queue : j < i /\ (queue[j] = MessageJob(u) \/ WillRead(j))
        BY <1>3, <3>1, <4>1 DEF OrderInv, QueueOrder
      <4> QED BY <2>2, <4>2
    <3>2. CASE /\ i - Len(queue) \in DOMAIN r /\ queue'[i] = r[i - Len(queue)]
               /\ \A j \in DOMAIN queue : j < i
      <4>1. PICK b \in DOMAIN buffered :
              /\ r[i - Len(queue)] = MessageJob(buffered[b])
              /\ \A j \in DOMAIN buffered :
                   j < b /\ buffered[j] \in Eligible =>
                      \E l \in DOMAIN r : l < i - Len(queue) /\ r[l] = MessageJob(buffered[j])
        BY <2>1, <3>2
      <4>2. u < buffered[b]
        BY <3>2, <4>1 DEF MessageJob
      <4>3. ReadLater \/ Queued(u) \/ \E j \in DOMAIN buffered : j < b /\ buffered[j] = u
        BY <1>3, <4>2 DEF OrderInv, BufferOrder
      <4>4. CASE ReadLater
        BY <2>2, <2>4, <3>2, <4>4
      <4>5. CASE Queued(u)
        BY <2>2, <3>2, <4>5 DEF Queued
      <4>6. CASE \E j \in DOMAIN buffered : j < b /\ buffered[j] = u
        <5>1. PICK l \in DOMAIN r : l < i - Len(queue) /\ r[l] = MessageJob(u)
          BY <4>1, <4>6
        <5>2. Len(queue) + l \in DOMAIN queue' /\ queue'[Len(queue) + l] = MessageJob(u)
          BY <2>2, <5>1
        <5>3. Len(queue) + l < i
          <6>1. i \in Int
            BY <2>1, QueueTyped
          <6> QED BY <2>2, <2>3, <5>1, <6>1
        <5> QED BY <5>2, <5>3
      <4> QED BY <4>3, <4>4, <4>5, <4>6
    <3> QED BY <2>2, <3>1, <3>2
  <2>9. BufferOrder'
    BY DEF BufferOrder, OpenGate
  <2>10. TransitOrder'
    BY <1>1, <1>3, <2>5, <2>6, <2>7 DEF OrderInv, TransitOrder
  <2>11. OnlineOrder'
    BY <1>1, <1>3, <2>5, <2>6, <2>7 DEF OrderInv, OnlineOrder
  <2> QED BY <2>8, <2>9, <2>10, <2>11 DEF OrderInv
<1> QED BY <1>2, <1>3

\* What else holds when the gate opens.
LEMMA GateOpens ==
    ASSUME TypeOK, BootInv, GateInv, JobInv, CoverInv, OpenGate,
           ~Failed', boot' # "off", boot # "reconciling" => boot' # "reconciling",
           conts' # << >> => conts # << >>,
           \A i \in DOMAIN queue : queue[i] # ReconcileJob("startup") \/ (boot' = boot /\ conts' = conts),
           \A i \in DOMAIN conts' : conts'[i].owner # "startup",
           UNCHANGED <<posted, inTransit, checkpoint, rounds, job, examined, since>>
    PROVE  /\ BootInv' /\ GateInv' /\ JobInv' /\ (HeadReconciles' => HeadReconciles) /\ CoverInv'
<1>1. PICK r \in Seq(Jobs) :
        /\ queue' = queue \o r
        /\ \A k \in DOMAIN r : /\ r[k].kind = "message"
                               /\ \E i \in DOMAIN buffered : r[k] = MessageJob(buffered[i])
  BY FlushedInOrder
<1>2. /\ \A i \in DOMAIN queue :
           /\ i \in DOMAIN queue' /\ queue'[i] = queue[i]
           /\ (IsMessage(i)' <=> IsMessage(i))
      /\ \A i \in DOMAIN queue' :
           \/ i \in DOMAIN queue
           \/ /\ queue'[i] # ReconcileJob("startup")
              /\ i - Len(queue) \in DOMAIN r /\ queue'[i] = r[i - Len(queue)]
      /\ queue # << >> => queue' # << >> /\ queue'[1] = queue[1]
  BY <1>1, MessagesFollow
<1>3. accepting' /\ ~intakeFailure' /\ buffered' = << >>
  BY DEF OpenGate
<1>4. BootInv'
  <2>1. \A i \in DOMAIN queue' :
          queue'[i] = ReconcileJob("startup") => i = 1 /\ boot' = "reconciling" /\ conts' = << >>
    BY <1>2 DEF BootInv
  <2> QED BY <1>3, <2>1 DEF BootInv
<1>5. GateInv'
  <2>1. \A i \in DOMAIN conts' : conts'[i] # [owner |-> "reconnect", ok |-> FALSE]
    <3> SUFFICES ASSUME NEW i \in DOMAIN conts', conts'[i] = [owner |-> "reconnect", ok |-> FALSE]
                 PROVE  FALSE
      OBVIOUS
    <3>1. ~conts'[i].ok
      OBVIOUS
    <3> QED BY <3>1 DEF Failed
  <2> QED BY <1>3, <2>1 DEF GateInv
<1>6. JobInv' /\ (HeadReconciles' => HeadReconciles)
  <2>1. posted' \in Nat /\ posted <= posted'
    BY NumbersTyped
  <2> QED BY <1>2, <1>3, <2>1, JobKept
<1>7. CoverInv'
  <2>1. CheckpointCoversExamined'
    BY CoversStill DEF CoverInv, RoundActive, Latest
  <2>2. \A i \in DOMAIN queue' : IsMessage(i)' => queue'[i].message <= posted'
    <3> SUFFICES ASSUME NEW i \in DOMAIN queue', IsMessage(i)'
                 PROVE  queue'[i].message <= posted'
      OBVIOUS
    <3>1. CASE i \in DOMAIN queue
      BY <1>2, <3>1 DEF CoverInv
    <3>2. CASE i - Len(queue) \in DOMAIN r /\ queue'[i] = r[i - Len(queue)]
      <4>1. PICK b \in DOMAIN buffered : queue'[i] = MessageJob(buffered[b])
        BY <1>1, <3>2
      <4>2. queue'[i].message = buffered[b]
        BY <4>1 DEF MessageJob
      <4> QED BY <4>2 DEF CoverInv
    <3> QED BY <1>2, <3>1, <3>2
  <2> QED BY <1>3, <2>1, <2>2 DEF CoverInv
<1> QED BY <1>4, <1>5, <1>6, <1>7

LEMMA EnableLiveIntakeStep ==
    ASSUME IntakeInv, TypeOK', EnableLiveIntake
    PROVE  IntakeInv'
<1>1. /\ TypeOK /\ BootInv /\ GateInv /\ JobInv /\ CoverInv /\ OrderInv /\ BreakInv
  BY DEF IntakeInv
<1>2. /\ conts = << >> /\ conts' = << >> /\ boot = "dispatching" /\ boot' = "live" /\ OpenGate
      /\ UNCHANGED <<posted, online, inTransit, checkpoint, disposition, resets, rounds, running,
                     job, conts, faults, examined, since>>
  BY DEF EnableLiveIntake, MicrotasksDone, discord, game, history
<1>3. ~Failed /\ ~Failed' /\ ~Succeeded /\ ~Succeeded' /\ ~intakeFailure /\ ~Stuck
  BY <1>1, <1>2 DEF Failed, Succeeded, Stuck, BootInv
<1>4. \A i \in DOMAIN queue : queue[i] # ReconcileJob("startup")
  BY <1>1, <1>2 DEF BootInv
<1>5. BootInv' /\ GateInv' /\ JobInv' /\ (HeadReconciles' => HeadReconciles) /\ CoverInv'
  BY <1>1, <1>2, <1>3, <1>4, GateOpens
<1>6. OrderInv'
  BY <1>1, <1>2, <1>3, GateOrder
<1>7. BreakInv'
  <2>1. PICK r \in Seq(Jobs) : queue' = queue \o r /\ \A k \in DOMAIN r : r[k].kind = "message"
    BY <1>1, <1>2, FlushedInOrder
  <2>2. TakenUpFirst => TakenUpFirst'
    BY <1>1, <1>2, <1>3, <2>1, FirstFollowed
  <2> QED BY <1>1, <1>2, <1>3, <1>5, <2>2, BreakKept
<1> QED BY <1>5, <1>6, <1>7 DEF IntakeInv

\* What the head of conts leaves to the others.
LEMMA ContsShift ==
    ASSUME TypeOK, conts # << >>, conts' = Tail(conts)
    PROVE  /\ 1 \in DOMAIN conts /\ Head(conts) = conts[1]
           /\ conts[1] \in [owner : Owners, ok : BOOLEAN]
           /\ \A i \in DOMAIN conts' : i + 1 \in DOMAIN conts /\ i + 1 # 1 /\ conts'[i] = conts[i + 1]
           /\ Len(conts) = 1 => conts' = << >>
           /\ (Succeeded' => Succeeded) /\ (Failed' => Failed)
<1>1. conts \in Seq([owner : Owners, ok : BOOLEAN])
  BY DEF TypeOK
<1>2. /\ 1 \in DOMAIN conts /\ Head(conts) = conts[1]
      /\ conts[1] \in [owner : Owners, ok : BOOLEAN]
      /\ \A i \in DOMAIN conts' : i + 1 \in DOMAIN conts /\ conts'[i] = conts[i + 1] /\ i \in Nat \ {0}
  <2> DEFINE Results == [owner : Owners, ok : BOOLEAN]
  <2>1. conts \in Seq(Results)
    BY <1>1
  <2> HIDE DEF Results
  <2>2. /\ 1 \in DOMAIN conts /\ Head(conts) = conts[1] /\ conts[1] \in Results
        /\ Len(conts) \in Nat /\ DOMAIN conts' = 1 .. Len(conts) - 1
        /\ \A i \in DOMAIN conts' : i + 1 \in DOMAIN conts /\ conts'[i] = conts[i + 1]
    BY <2>1, TailOf
  <2>3. \A i \in DOMAIN conts' : i \in Nat \ {0}
    BY <2>2
  <2> QED BY <2>2, <2>3 DEF Results
<1>3. Len(conts) = 1 => conts' = << >>
  BY <1>1
<1>4. (Succeeded' => Succeeded) /\ (Failed' => Failed)
  BY <1>2 DEF Succeeded, Failed
<1> QED BY <1>2, <1>3, <1>4

LEMMA ContinueReconnectStep ==
    ASSUME IntakeInv, TypeOK', ContinueReconnect
    PROVE  IntakeInv'
<1>1. /\ TypeOK /\ BootInv /\ GateInv /\ JobInv /\ CoverInv /\ OrderInv /\ BreakInv
  BY DEF IntakeInv
<1>2. /\ conts # << >> /\ conts' = Tail(conts) /\ Head(conts).owner = "reconnect"
      /\ UNCHANGED <<posted, online, inTransit, checkpoint, disposition, resets, rounds, running,
                     boot, job, faults, examined, since>>
  BY DEF ContinueReconnect, discord, game, history
<1>3. /\ 1 \in DOMAIN conts /\ Head(conts) = conts[1]
      /\ conts[1] \in [owner : Owners, ok : BOOLEAN]
      /\ \A i \in DOMAIN conts' : i + 1 \in DOMAIN conts /\ i + 1 # 1 /\ conts'[i] = conts[i + 1]
      /\ Len(conts) = 1 => conts' = << >>
      /\ (Succeeded' => Succeeded) /\ (Failed' => Failed)
  BY <1>1, <1>2, ContsShift
<1>4. \A i \in DOMAIN conts' : conts'[i].owner # "startup"
  BY <1>1, <1>3 DEF BootInv
<1>5. boot # "off" /\ \A i \in DOMAIN queue : queue[i] # ReconcileJob("startup")
  BY <1>1, <1>2 DEF BootInv
<1>6. CASE Head(conts).ok
  <2>1. OpenGate
    BY <1>6 DEF ContinueReconnect
  <2>2. Succeeded /\ ~Stuck
    BY <1>3, <1>6 DEF Succeeded, Stuck
  <2>3. ~Failed'
    <3>1. CASE Failed
      <4>1. conts' = << >>
        BY <1>1, <1>3, <3>1 DEF GateInv
      <4> QED BY <4>1 DEF Failed
    <3> QED BY <1>3, <3>1
  <2>4. BootInv' /\ GateInv' /\ JobInv' /\ (HeadReconciles' => HeadReconciles) /\ CoverInv'
    <3>1. boot' # "off" /\ (boot # "reconciling" => boot' # "reconciling")
      BY <1>2, <1>5
    <3>2. conts' # << >> => conts # << >>
      BY <1>2
    <3>3. \A i \in DOMAIN queue : queue[i] # ReconcileJob("startup") \/ (boot' = boot /\ conts' = conts)
      BY <1>5
    <3>4. UNCHANGED <<posted, inTransit, checkpoint, rounds, job, examined, since>>
      BY <1>2
    <3> QED BY <1>1, <1>4, <2>1, <2>3, <3>1, <3>2, <3>3, <3>4, GateOpens
  <2>5. OrderInv'
    BY <1>1, <1>2, <2>1, <2>2, GateOrder DEF GateInv
  <2>6. PendingBreaks = {}
    BY <1>1, <2>2 DEF BreakInv
  <2>7. BreakInv'
    BY <1>1, <1>2, <2>4, <2>6, BreakKept
  <2> QED BY <2>4, <2>5, <2>7 DEF IntakeInv
<1>7. CASE ~Head(conts).ok
  <2>1. intakeFailure' /\ UNCHANGED <<accepting, buffered, queue>>
    BY <1>7 DEF ContinueReconnect, StayGated
  <2>2. Failed
    BY <1>3, <1>7 DEF Failed
  <2>3. queue = << >> /\ conts' = << >> /\ ~accepting /\ DOMAIN queue = {}
    BY <1>1, <1>3, <2>2, QueueTyped DEF GateInv
  <2>4. boot = "live"
    <3>1. conts[1] = [owner |-> "reconnect", ok |-> FALSE]
      BY <1>2, <1>3, <1>7
    <3> QED BY <1>1, <1>3, <3>1 DEF GateInv
  <2>5. ~Failed' /\ ~Succeeded'
    BY <2>3 DEF Failed, Succeeded
  <2>6. BootInv'
    BY <1>1, <1>2, <2>1, <2>3, <2>4 DEF BootInv
  <2>7. GateInv'
    BY <2>1, <2>3, <2>5 DEF GateInv
  <2>8. JobInv' /\ ~HeadReconciles'
    BY <2>1, <2>3 DEF JobInv, HeadReconciles
  <2>9. CoverInv'
    <3>1. CheckpointCoversExamined'
      BY <1>1, <1>2, CoversStill DEF CoverInv, RoundActive, Latest
    <3> QED BY <1>1, <1>2, <2>1, <2>3, <3>1 DEF CoverInv
  <2>10. ReadLater'
    BY <2>1, <2>3, <2>5 DEF ReadLater, Stuck, AllMessages
  <2>11. OrderInv'
    <3>1. QueueOrder'
      BY <2>1 DEF QueueOrder
    <3> QED BY <2>10, <3>1, AlwaysRead
  <2>12. TakenUpFirst'
    BY <2>1, <2>3, <2>5 DEF TakenUpFirst, Stuck, AllMessages
  <2>13. BreakInv'
    BY <1>1, <1>2, <2>5, <2>8, <2>12, BreakKept
  <2> QED BY <2>6, <2>7, <2>8, <2>9, <2>11, <2>13 DEF IntakeInv
<1> QED BY <1>6, <1>7

LEMMA ContinueStartupStep ==
    ASSUME IntakeInv, TypeOK', ContinueStartup
    PROVE  IntakeInv'
<1>1. /\ TypeOK /\ BootInv /\ GateInv /\ JobInv /\ CoverInv /\ OrderInv /\ BreakInv
  BY DEF IntakeInv
<1>2. /\ conts # << >> /\ conts' = Tail(conts) /\ Head(conts) = [owner |-> "startup", ok |-> TRUE]
      /\ boot' = "dispatching"
      /\ UNCHANGED <<posted, online, inTransit, checkpoint, disposition, resets, rounds, running,
                     accepting, intakeFailure, buffered, queue, job, faults, examined, since>>
  BY DEF ContinueStartup, discord, game, history, adapter, executor
<1>3. /\ 1 \in DOMAIN conts /\ Head(conts) = conts[1]
      /\ \A i \in DOMAIN conts' : i + 1 \in DOMAIN conts /\ i + 1 # 1 /\ conts'[i] = conts[i + 1]
      /\ Len(conts) = 1 => conts' = << >>
      /\ (Succeeded' => Succeeded) /\ (Failed' => Failed)
  BY <1>1, <1>2, ContsShift
<1>4. conts[1].owner = "startup" /\ conts[1].ok
  BY <1>2, <1>3
<1>5. /\ boot = "reconciling" /\ ~intakeFailure
      /\ \A i \in DOMAIN queue : queue[i] # ReconcileJob("startup")
      /\ \A i \in DOMAIN conts' : conts'[i].owner # "startup"
  BY <1>1, <1>3, <1>4 DEF BootInv
<1>6. Succeeded /\ ~Stuck
  BY <1>3, <1>4 DEF Succeeded, Stuck
<1>7. ~Failed'
  <2>1. CASE Failed
    <3>1. conts' = << >>
      BY <1>1, <1>3, <2>1 DEF GateInv
    <3> QED BY <3>1 DEF Failed
  <2> QED BY <1>3, <2>1
<1>8. BootInv'
  BY <1>1, <1>2, <1>5 DEF BootInv
<1>9. GateInv'
  <2>1. \A i \in DOMAIN conts' : conts'[i] # [owner |-> "reconnect", ok |-> FALSE]
    <3> SUFFICES ASSUME NEW i \in DOMAIN conts', conts'[i] = [owner |-> "reconnect", ok |-> FALSE]
                 PROVE  FALSE
      OBVIOUS
    <3>1. ~conts'[i].ok
      OBVIOUS
    <3> QED BY <1>7, <3>1 DEF Failed
  <2> QED BY <1>1, <1>2, <1>5, <1>7, <2>1 DEF GateInv
<1>10. JobInv' /\ (HeadReconciles' => HeadReconciles)
  <2>1. posted' \in Nat /\ posted <= posted'
    BY <1>1, <1>2, NumbersTyped
  <2> QED BY <1>1, <1>2, <2>1, JobKept
<1>11. CoverInv'
  BY <1>1, <1>2, CoverKept DEF RoundActive, Latest
<1>12. OrderInv'
  BY <1>1, <1>2, <1>6, OrderKept DEF RoundActive, Latest
<1>13. BreakInv'
  <2>1. PendingBreaks = {}
    BY <1>1, <1>6 DEF BreakInv
  <2> QED BY <1>1, <1>2, <1>10, <2>1, BreakKept
<1> QED BY <1>8, <1>9, <1>10, <1>11, <1>12, <1>13 DEF IntakeInv

-----------------------------------------------------------------------------
\* The gateway is back: a reconciliation is queued, or without a round the gate opens.

LEMMA ReconnectedStep ==
    ASSUME IntakeInv, TypeOK', Reconnected
    PROVE  IntakeInv'
<1>1. /\ TypeOK /\ BootInv /\ GateInv /\ JobInv /\ CoverInv /\ OrderInv /\ BreakInv
  BY DEF IntakeInv
<1>2. /\ conts = << >> /\ conts' = << >> /\ boot # "off" /\ boot' # "off"
      /\ UNCHANGED <<posted, inTransit, checkpoint, disposition, resets, rounds, running, boot,
                     job, conts, faults, examined, since>>
  BY DEF Reconnected, MicrotasksDone, game, history
<1>3. ~Failed /\ ~Failed' /\ ~Succeeded /\ ~Succeeded'
  BY <1>2 DEF Failed, Succeeded
<1>4. RoundActive' <=> RoundActive
  BY <1>2 DEF RoundActive, Latest
<1>5. CASE RoundActive
  <2>1. /\ ~accepting' /\ queue' = Append(queue, ReconcileJob("reconnect"))
        /\ UNCHANGED <<intakeFailure, buffered>>
    BY <1>5 DEF Reconnected
  <2>2. /\ ReconcileJob("reconnect") \in Jobs /\ ReconcileJob("reconnect").kind = "reconcile"
        /\ ReconcileJob("reconnect") # ReconcileJob("startup")
    BY NewJobTyped DEF Owners, ReconcileJob
  <2>3. /\ DOMAIN queue' = 1 .. Len(queue) + 1 /\ Len(queue) \in Nat
        /\ queue'[Len(queue) + 1] = ReconcileJob("reconnect") /\ DOMAIN queue = 1 .. Len(queue)
        /\ \A i \in DOMAIN queue : queue'[i] = queue[i]
        /\ queue' # << >>
    <3>1. queue \in Seq(Jobs)
      BY <1>1, QueueTyped
    <3> QED BY <2>1, <2>2, <3>1, AppendTo
  <2>4. PICK n \in Nat : n = Len(queue) + 1
    BY <2>3
  <2>5. /\ n \in DOMAIN queue' /\ IsReconcile(n)' /\ ~IsMessage(n)'
        /\ queue'[n] # ReconcileJob("startup")
        /\ \A i \in DOMAIN queue' : i \in DOMAIN queue \/ i = n
        /\ \A i \in DOMAIN queue :
             /\ i \in DOMAIN queue' /\ queue'[i] = queue[i] /\ i < n /\ ~(n < i)
             /\ (IsMessage(i)' <=> IsMessage(i)) /\ (IsReconcile(i)' <=> IsReconcile(i))
             /\ (WillRead(i) => WillRead(i)')
    BY <1>2, <2>2, <2>3, <2>4 DEF IsReconcile, IsMessage, WillRead
  <2>6. queue # << >> => queue'[1] = queue[1]
    <3>1. queue # << >> => 1 \in DOMAIN queue
      BY <1>1, QueueTyped
    <3> QED BY <2>5, <3>1
  <2>7. BootInv'
    <3>1. \A i \in DOMAIN queue' :
            queue'[i] = ReconcileJob("startup") => i = 1 /\ boot' = "reconciling" /\ conts' = << >>
      BY <1>1, <1>2, <2>5 DEF BootInv
    <3>2. \A i \in DOMAIN conts' : FALSE
      BY <1>2
    <3> QED BY <1>1, <1>2, <2>1, <3>1, <3>2 DEF BootInv
  <2>8. GateInv'
    <3>1. intakeFailure' => \A i, j \in DOMAIN queue' : i < j /\ IsReconcile(i)' => IsReconcile(j)'
      BY <1>1, <2>1, <2>5 DEF GateInv
    <3>2. \A i \in DOMAIN conts' : FALSE
      BY <1>2
    <3> QED BY <1>3, <2>1, <3>1, <3>2 DEF GateInv
  <2>9. JobInv' /\ (HeadReconciles' => HeadReconciles)
    <3>1. posted' \in Nat /\ posted <= posted'
      BY <1>1, <1>2, NumbersTyped
    <3> QED BY <1>1, <1>2, <2>1, <2>3, <2>6, <3>1, JobKept
  <2>10. CoverInv'
    <3>1. CheckpointCoversExamined'
      BY <1>1, <1>2, CoversStill DEF CoverInv, RoundActive, Latest
    <3>2. \A i \in DOMAIN queue' : IsMessage(i)' => queue'[i].message <= posted'
      BY <1>1, <1>2, <2>5 DEF CoverInv
    <3> QED BY <1>1, <1>2, <2>1, <3>1, <3>2 DEF CoverInv
  <2>11. WillRead(n)'
    <3>1. n = 1 => queue = << >>
      BY <1>1, <2>3, <2>4, QueueTyped
    <3>2. n = 1 => job'.pc # "finish"
      BY <1>1, <1>2, <3>1 DEF TypeOK, NotStarted
    <3> QED BY <2>5, <3>2 DEF WillRead
  <2>12. OrderInv'
    <3>1. ReadLater'
      BY <2>5, <2>11 DEF ReadLater
    <3>2. \A u : Due(u)' <=> Due(u)
      BY <1>2 DEF Due
    <3>3. QueueOrder'
      <4> SUFFICES ASSUME ~intakeFailure, NEW u \in Eligible, NEW i \in DOMAIN queue',
                          Due(u), IsMessage(i)', u < queue'[i].message
                   PROVE  \E j \in DOMAIN queue' : j < i /\ (queue'[j] = MessageJob(u) \/ WillRead(j)')
        BY <2>1, <3>2 DEF QueueOrder
      <4>1. i \in DOMAIN queue /\ IsMessage(i) /\ u < queue[i].message
        BY <2>5
      <4>2. \E j \in DOMAIN queue : j < i /\ (queue[j] = MessageJob(u) \/ WillRead(j))
        BY <1>1, <1>5, <4>1 DEF OrderInv, QueueOrder
      <4> QED BY <2>5, <4>2
    <3> QED BY <3>1, <3>3, AlwaysRead
  <2>13. BreakInv'
    <3>1. TakenUpFirst => TakenUpFirst'
      BY <2>1, <2>5 DEF TakenUpFirst
    <3> QED BY <1>1, <1>2, <1>3, <2>9, <3>1, BreakKept
  <2> QED BY <2>7, <2>8, <2>9, <2>10, <2>12, <2>13 DEF IntakeInv
<1>6. CASE ~RoundActive
  <2>1. OpenGate
    BY <1>6 DEF Reconnected
  <2>2. BootInv' /\ GateInv' /\ JobInv' /\ (HeadReconciles' => HeadReconciles) /\ CoverInv'
    <3>1. (boot # "reconciling" => boot' # "reconciling") /\ boot' = boot /\ conts' = conts
      BY <1>2
    <3>2. \A i \in DOMAIN conts' : conts'[i].owner # "startup"
      BY <1>2
    <3>3. \A i \in DOMAIN queue : queue[i] # ReconcileJob("startup") \/ (boot' = boot /\ conts' = conts)
      BY <1>2
    <3> QED BY <1>1, <1>2, <1>3, <2>1, <3>1, <3>2, <3>3, GateOpens
  <2>3. OrderInv'
    BY <1>4, <1>6 DEF OrderInv, QueueOrder, BufferOrder, TransitOrder, OnlineOrder
  <2>4. BreakInv'
    <3>1. PendingBreaks' = PendingBreaks
      BY <1>2 DEF PendingBreaks
    <3> QED BY <1>1, <1>2, <1>3, <1>4, <1>6, <2>2, <3>1 DEF BreakInv
  <2> QED BY <2>2, <2>3, <2>4 DEF IntakeInv
<1> QED BY <1>5, <1>6

-----------------------------------------------------------------------------
\* The job of a message.

\* A message at the head of the queue: nothing has failed that is not reported yet.
LEMMA MessageAtHead ==
    ASSUME TypeOK, BootInv, GateInv, queue # << >>, Head(queue).kind = "message"
    PROVE  /\ 1 \in DOMAIN queue /\ IsMessage(1) /\ ~IsReconcile(1) /\ Head(queue) = queue[1]
           /\ queue[1].message \in Messages /\ queue[1] = MessageJob(queue[1].message)
           /\ ~Failed /\ boot # "off"
           /\ ~HeadReconciles /\ ~WillRead(1)
           /\ intakeFailure => ~Succeeded
<1>1. 1 \in DOMAIN queue /\ IsMessage(1) /\ ~IsReconcile(1) /\ Head(queue) = queue[1]
      /\ queue[1].message \in Messages /\ queue[1] = MessageJob(queue[1].message)
  BY QueueTyped DEF IsMessage, IsReconcile
<1>2. ~Failed /\ boot # "off"
  BY DEF GateInv, BootInv
<1>3. intakeFailure => ~Succeeded
  BY <1>1 DEF GateInv
<1> QED BY <1>1, <1>2, <1>3 DEF HeadReconciles, WillRead

\* The head leaves the queue; what is said of the others is kept.
LEMMA HeadGone ==
    ASSUME TypeOK, BootInv, CoverInv, queue # << >>, NextJob, UNCHANGED posted
    PROVE  /\ \A i \in DOMAIN queue' : queue'[i] # ReconcileJob("startup")
           /\ \A i \in DOMAIN queue' : IsMessage(i)' => queue'[i].message <= posted'
           /\ JobInv' /\ ~HeadReconciles'
<1>1. queue' = Tail(queue) /\ job' = NotStarted
  BY DEF NextJob
<1>2. \A i \in DOMAIN queue' : i \in Nat \ {0} /\ i + 1 \in DOMAIN queue /\ queue'[i] = queue[i + 1]
                               /\ (IsMessage(i)' <=> IsMessage(i + 1))
  BY <1>1, QueueShifts
<1>3. ASSUME NEW i \in DOMAIN queue'
      PROVE  /\ queue'[i] # ReconcileJob("startup")
             /\ IsMessage(i)' => queue'[i].message <= posted'
  <2>1. i + 1 \in DOMAIN queue /\ queue'[i] = queue[i + 1] /\ i + 1 # 1
    BY <1>2
  <2>2. queue[i + 1] # ReconcileJob("startup")
    BY <2>1 DEF BootInv
  <2>3. IsMessage(i)' => queue[i + 1].message <= posted
    BY <1>2, <2>1 DEF CoverInv
  <2> QED BY <2>1, <2>2, <2>3
<1> QED BY <1>1, <1>3, JobIdle

LEMMA MessageIsBufferedStep ==
    ASSUME IntakeInv, TypeOK', MessageIsBuffered
    PROVE  IntakeInv'
<1>1. /\ TypeOK /\ BootInv /\ GateInv /\ JobInv /\ CoverInv /\ OrderInv /\ BreakInv
  BY DEF IntakeInv
<1>2. /\ queue # << >> /\ Head(queue).kind = "message" /\ intakeFailure /\ intakeFailure'
      /\ queue' = Tail(queue) /\ job' = NotStarted /\ NextJob
      /\ buffered' = Append(buffered, Head(queue).message)
      /\ UNCHANGED <<posted, online, inTransit, checkpoint, disposition, resets, rounds, running,
                     boot, accepting, intakeFailure, conts, faults, examined, since>>
  BY DEF MessageIsBuffered, Running, NextJob, discord, game, history
<1>3. /\ 1 \in DOMAIN queue /\ IsMessage(1) /\ ~IsReconcile(1) /\ Head(queue) = queue[1]
      /\ queue[1].message \in Messages
      /\ ~Failed /\ boot # "off" /\ ~Succeeded
  BY <1>1, <1>2, MessageAtHead
<1>4. ~Failed' /\ ~Succeeded'
  BY <1>2, <1>3 DEF Failed, Succeeded
<1>5. /\ \A i \in DOMAIN queue' : queue'[i] # ReconcileJob("startup")
      /\ \A i \in DOMAIN queue' : IsMessage(i)' => queue'[i].message <= posted'
      /\ JobInv' /\ ~HeadReconciles'
  BY <1>1, <1>2, HeadGone
<1>6. /\ \A i \in DOMAIN queue' : i \in Nat \ {0} /\ i + 1 \in DOMAIN queue /\ queue'[i] = queue[i + 1]
                                  /\ (IsMessage(i)' <=> IsMessage(i + 1))
                                  /\ (IsReconcile(i)' <=> IsReconcile(i + 1))
      /\ \A i \in DOMAIN queue : i # 1 => /\ i - 1 \in DOMAIN queue'
                                          /\ WillRead(i) => WillRead(i - 1)'
                                          /\ IsReconcile(i) => IsReconcile(i - 1)'
  BY <1>1, <1>2, QueueShifts
<1>7. BootInv'
  BY <1>1, <1>2, <1>3, <1>5 DEF BootInv
<1>8. GateInv'
  <2>1. \A i, j \in DOMAIN queue' : i < j /\ IsReconcile(i)' => IsReconcile(j)'
    <3> SUFFICES ASSUME NEW i \in DOMAIN queue', NEW j \in DOMAIN queue', i < j, IsReconcile(i)'
                 PROVE  IsReconcile(j)'
      OBVIOUS
    <3>1. i + 1 \in DOMAIN queue /\ j + 1 \in DOMAIN queue /\ i + 1 < j + 1 /\ IsReconcile(i + 1)
      BY <1>6
    <3>2. IsReconcile(j + 1)
      BY <1>1, <1>2, <3>1 DEF GateInv
    <3> QED BY <1>6, <3>2
  <2> QED BY <1>1, <1>2, <1>4, <2>1 DEF GateInv
<1>9. CoverInv'
  <2>1. CheckpointCoversExamined'
    BY <1>1, <1>2, CoversStill DEF CoverInv, RoundActive, Latest
  <2>2. \A i \in DOMAIN buffered' : buffered'[i] <= posted'
    <3>1. buffered \in Seq(Messages) /\ buffered' = Append(buffered, queue[1].message)
      BY <1>1, <1>2, <1>3 DEF TypeOK
    <3>2. /\ DOMAIN buffered' = 1 .. Len(buffered) + 1 /\ Len(buffered) \in Nat
          /\ buffered'[Len(buffered) + 1] = queue[1].message /\ DOMAIN buffered = 1 .. Len(buffered)
          /\ \A i \in DOMAIN buffered : buffered'[i] = buffered[i]
      BY <1>3, <3>1, AppendTo
    <3>3. \A i \in DOMAIN buffered' : i \in DOMAIN buffered \/ i = Len(buffered) + 1
      BY <3>2
    <3>4. queue[1].message <= posted
      BY <1>1, <1>3 DEF CoverInv
    <3> QED BY <1>1, <1>2, <3>2, <3>3, <3>4 DEF CoverInv
  <2> QED BY <1>1, <1>2, <1>5, <2>1, <2>2 DEF CoverInv
<1>10. ReadLater'
  <2>1. CASE AllMessages
    <3>1. AllMessages'
      BY <1>6, <2>1 DEF AllMessages
    <3> QED BY <1>2, <1>4, <3>1 DEF ReadLater, Stuck
  <2>2. CASE ~AllMessages
    <3>1. PICK i \in DOMAIN queue : IsReconcile(i)
      BY <1>1, <2>2, QueueTyped DEF AllMessages
    <3>2. i # 1
      BY <1>3, <3>1
    <3>3. i - 1 \in DOMAIN queue' /\ WillRead(i - 1)'
      BY <1>6, <3>1, <3>2 DEF WillRead
    <3> QED BY <3>3 DEF ReadLater
  <2> QED BY <2>1, <2>2
<1>11. OrderInv'
  <2>1. QueueOrder'
    BY <1>2 DEF QueueOrder
  <2> QED BY <1>10, <2>1, AlwaysRead
<1>12. BreakInv'
  <2>1. Stuck' \/ \E i \in DOMAIN queue' : IsReconcile(i)'
    BY <1>10 DEF ReadLater, WillRead
  <2>2. TakenUpFirst'
    BY <1>2, <2>1 DEF TakenUpFirst
  <2> QED BY <1>1, <1>2, <1>4, <1>5, <2>2, BreakKept
<1> QED BY <1>5, <1>7, <1>8, <1>9, <1>11, <1>12 DEF IntakeInv

LEMMA MessageFailsStep ==
    ASSUME NoOverlap, IntakeInv, TypeOK', MessageFails
    PROVE  IntakeInv'
<1>1. /\ TypeOK /\ BootInv /\ GateInv /\ JobInv /\ CoverInv /\ OrderInv /\ BreakInv
  BY DEF IntakeInv
<1>2. /\ queue # << >> /\ Head(queue).kind = "message" /\ MayFail
      /\ queue' = Tail(queue) /\ job' = NotStarted /\ NextJob
      /\ intakeFailure' /\ ~accepting'
      /\ UNCHANGED <<posted, online, inTransit, checkpoint, disposition, resets, rounds, running,
                     boot, buffered, conts, examined, since>>
  BY DEF MessageFails, Running, NextJob, discord, game, history
<1>3. /\ 1 \in DOMAIN queue /\ IsMessage(1) /\ ~IsReconcile(1) /\ Head(queue) = queue[1]
      /\ boot # "off"
  BY <1>1, <1>2, MessageAtHead
<1>4. /\ boot = "live" /\ conts = << >>
      /\ Len(queue) = 1 \/ \A i \in DOMAIN queue : IsMessage(i)
  <2>1. Head(queue) # ReconcileJob("startup")
    BY <1>2 DEF ReconcileJob
  <2> QED BY <1>2, <2>1 DEF MayFail, NoOverlap, MicrotasksDone, IsMessage
<1>5. ~Failed' /\ ~Succeeded' /\ conts' = << >>
  BY <1>2, <1>4 DEF Failed, Succeeded
<1>6. \A i \in DOMAIN queue' : IsMessage(i)' /\ ~IsReconcile(i)'
  <2>1. CASE Len(queue) = 1
    <3>1. queue \in Seq(Jobs)
      BY <1>1, QueueTyped
    <3>2. DOMAIN queue' = 1 .. Len(queue) - 1
      BY <1>2, <3>1, TailOf
    <3>3. \A i \in DOMAIN queue' : FALSE
      BY <2>1, <3>2
    <3> QED BY <3>3
  <2>2. CASE \A i \in DOMAIN queue : IsMessage(i)
    <3>1. \A i \in DOMAIN queue' : i + 1 \in DOMAIN queue /\ (IsMessage(i)' <=> IsMessage(i + 1))
                                   /\ (IsReconcile(i)' <=> IsReconcile(i + 1))
      BY <1>1, <1>2, QueueShifts
    <3> QED BY <1>1, <2>2, <3>1, QueueTyped
  <2> QED BY <1>4, <2>1, <2>2
<1>7. /\ \A i \in DOMAIN queue' : queue'[i] # ReconcileJob("startup")
      /\ \A i \in DOMAIN queue' : IsMessage(i)' => queue'[i].message <= posted'
      /\ JobInv' /\ ~HeadReconciles'
  BY <1>1, <1>2, HeadGone
<1>8. Stuck'
  BY <1>2, <1>5, <1>6 DEF Stuck, AllMessages
<1>9. BootInv'
  BY <1>1, <1>2, <1>4, <1>7 DEF BootInv
<1>10. GateInv'
  BY <1>2, <1>5, <1>6 DEF GateInv
<1>11. CoverInv'
  <2>1. CheckpointCoversExamined'
    BY <1>1, <1>2, CoversStill DEF CoverInv, RoundActive, Latest
  <2> QED BY <1>1, <1>2, <1>7, <2>1 DEF CoverInv
<1>12. OrderInv'
  <2>1. QueueOrder'
    BY <1>2 DEF QueueOrder
  <2> QED BY <1>8, <2>1, AlwaysRead DEF ReadLater
<1>13. BreakInv'
  <2>1. TakenUpFirst'
    BY <1>2, <1>8 DEF TakenUpFirst
  <2> QED BY <1>1, <1>2, <1>5, <1>7, <2>1, BreakKept
<1> QED BY <1>7, <1>9, <1>10, <1>11, <1>12, <1>13 DEF IntakeInv

\* What a message does to the game and to the breaks that wait for their reset.
LEMMA Processed ==
    ASSUME TypeOK, BreakInv, NEW m \in Messages, NEW defer \in BOOLEAN, ProcessMessage(m, defer)
    PROVE  /\ Latest' = Latest /\ (RoundActive' => RoundActive)
           /\ examined' = examined \cup {m} /\ since' = since
           /\ \A x \in Messages : disposition[x] # Unseen => disposition'[x] = disposition[x]
           /\ \A x \in resets' : disposition'[x].kind = "broken"
           /\ ~defer => PendingBreaks' = PendingBreaks
           /\ defer => PendingBreaks' = PendingBreaks \cup
                         (IF Fresh(m) /\ disposition'[m].kind = "broken" THEN {m} ELSE {})
<1>1. examined' = examined \cup {m} /\ since' = since
  BY DEF ProcessMessage
<1>2. CASE ProcessWithoutEffect(m)
  <2>1. UNCHANGED <<disposition, resets, rounds>>
    BY <1>2 DEF ProcessWithoutEffect, game
  <2>2. Latest' = Latest /\ (RoundActive' <=> RoundActive) /\ PendingBreaks' = PendingBreaks
    BY <2>1 DEF Latest, RoundActive, PendingBreaks
  <2>3. ~(Fresh(m) /\ disposition'[m].kind = "broken")
    BY <2>1 DEF Fresh, Unseen
  <2> QED BY <1>1, <2>1, <2>2, <2>3 DEF BreakInv
<1>3. CASE ProcessNumeric(m, defer)
  <2>1. RoundActive /\ disposition[m] = Unseen
    BY <1>3 DEF ProcessNumeric, Fresh
  <2>2. rounds' = rounds \/ rounds' = [rounds EXCEPT ![Latest] = "completed"]
    BY <1>3 DEF ProcessNumeric
  <2>3. Latest' = Latest
    <3>1. rounds \in Seq({"active", "completed", "cancelled"})
      BY DEF TypeOK
    <3> QED BY <2>2, <3>1 DEF Latest
  <2>4. PICK kind \in Kinds : /\ disposition' = [disposition EXCEPT
                                   ![m] = [kind |-> kind, by |-> 0, round |-> Latest]]
                              /\ kind # "broken" => resets' = resets
                              /\ kind = "broken" => resets' = IF defer THEN resets ELSE resets \cup {m}
    <3>1. \/ Judged(m, "recorded", 0) /\ resets' = resets
          \/ Judged(m, "broken", 0) /\ resets' = IF defer THEN resets ELSE resets \cup {m}
      BY <1>3 DEF ProcessNumeric, ResetsAfterBreak
    <3>2. "recorded" \in Kinds /\ "broken" \in Kinds
      BY DEF Kinds
    <3> QED BY <3>1, <3>2 DEF Judged
  <2>5. /\ disposition'[m].kind = kind
        /\ \A x \in Messages \ {m} : disposition'[x] = disposition[x]
    <3>1. DOMAIN disposition = Messages
      BY DEF TypeOK
    <3>2. disposition'[m] = [kind |-> kind, by |-> 0, round |-> Latest]
      BY <2>4, <3>1
    <3> QED BY <2>4, <3>1, <3>2
  <2>6. disposition[m].kind = "none" /\ m \notin PendingBreaks /\ m \notin resets
    <3>1. disposition[m].kind = "none"
      BY <2>1 DEF Unseen
    <3> QED BY <3>1 DEF PendingBreaks, BreakInv
  <2>7. resets \subseteq Messages
    BY DEF TypeOK
  <2>8. \A x \in resets' : disposition'[x].kind = "broken"
    <3>1. \A x \in resets : disposition'[x].kind = "broken"
      BY <2>5, <2>6, <2>7 DEF BreakInv
    <3> QED BY <2>4, <2>5, <3>1
  <2>9. \A x \in Messages \ {m} : x \in PendingBreaks' <=> x \in PendingBreaks
    BY <2>4, <2>5 DEF PendingBreaks
  <2>10. m \in PendingBreaks' <=> kind = "broken" /\ defer
    BY <2>4, <2>5, <2>6 DEF PendingBreaks
  <2>11. PendingBreaks \subseteq Messages /\ PendingBreaks' \subseteq Messages
    BY DEF PendingBreaks
  <2>12. ~defer => PendingBreaks' = PendingBreaks
    BY <2>6, <2>9, <2>10, <2>11
  <2>13. defer => PendingBreaks' = PendingBreaks \cup
                    (IF Fresh(m) /\ disposition'[m].kind = "broken" THEN {m} ELSE {})
    <3>1. Fresh(m)
      BY <2>1 DEF Fresh
    <3> QED BY <2>5, <2>6, <2>9, <2>10, <2>11, <3>1
  <2>14. \A x \in Messages : disposition[x] # Unseen => disposition'[x] = disposition[x]
    BY <2>1, <2>5
  <2> QED BY <1>1, <2>1, <2>3, <2>8, <2>12, <2>13, <2>14
<1> QED BY <1>2, <1>3 DEF ProcessMessage

LEMMA MessageIsProcessedStep ==
    ASSUME IntakeInv, TypeOK', MessageIsProcessed
    PROVE  IntakeInv'
<1>1. /\ TypeOK /\ BootInv /\ GateInv /\ JobInv /\ CoverInv /\ OrderInv /\ BreakInv
  BY DEF IntakeInv
<1>2. /\ queue # << >> /\ Head(queue).kind = "message" /\ ~intakeFailure
      /\ ProcessMessage(Head(queue).message, FALSE)
      /\ job.pc = "start" /\ job' = [job EXCEPT !.pc = "advance"]
      /\ UNCHANGED <<posted, online, inTransit, checkpoint, boot, accepting, intakeFailure, buffered,
                     queue, conts, faults>>
  BY DEF MessageIsProcessed, Running, discord, adapter
<1>3. /\ 1 \in DOMAIN queue /\ IsMessage(1) /\ ~IsReconcile(1) /\ Head(queue) = queue[1]
      /\ queue[1].message \in Messages
  BY <1>1, <1>2, MessageAtHead
<1>4. job'.pc = "advance"
  BY <1>1, <1>2 DEF TypeOK
<1>5. /\ Latest' = Latest /\ (RoundActive' => RoundActive)
      /\ examined' = examined \cup {queue[1].message} /\ since' = since
      /\ \A x \in Messages : disposition[x] # Unseen => disposition'[x] = disposition[x]
      /\ \A x \in resets' : disposition'[x].kind = "broken"
      /\ PendingBreaks' = PendingBreaks
  BY <1>1, <1>2, <1>3, Processed
<1>6. BootInv' /\ GateInv'
  BY <1>1, <1>2, BootGateKept
<1>7. JobInv' /\ ~HeadReconciles'
  BY <1>2, <1>3, <1>5 DEF JobInv, HeadReconciles, IsReconcile
<1>8. CoverInv'
  BY <1>1, <1>2, <1>5, CoverKept
<1>9. OrderInv'
  <2>1. Stuck => Stuck'
    BY <1>2, StuckStays
  <2> QED BY <1>1, <1>2, <1>4, <1>5, <2>1, OrderKept
<1>10. BreakInv'
  <2>1. \A b \in PendingBreaks : disposition'[b] = disposition[b]
    <3>1. \A b \in PendingBreaks : b \in Messages /\ disposition[b] # Unseen
      BY DEF PendingBreaks, Unseen
    <3> QED BY <1>5, <3>1
  <2>2. (TakenUpFirst => TakenUpFirst') /\ (Succeeded' => Succeeded)
    BY <1>2, FirstStays, StuckStays
  <2> QED BY <1>1, <1>5, <1>7, <2>1, <2>2 DEF BreakInv
<1> QED BY <1>6, <1>7, <1>8, <1>9, <1>10 DEF IntakeInv

LEMMA MessageIsDoneStep ==
    ASSUME IntakeInv, TypeOK', MessageIsDone
    PROVE  IntakeInv'
<1>1. /\ TypeOK /\ BootInv /\ GateInv /\ JobInv /\ CoverInv /\ OrderInv /\ BreakInv
  BY DEF IntakeInv
<1>2. /\ queue # << >> /\ Head(queue).kind = "message" /\ job.pc = "advance"
      /\ queue' = Tail(queue) /\ job' = NotStarted /\ NextJob
      /\ checkpoint' = Max({checkpoint, Head(queue).message})
      /\ UNCHANGED <<posted, online, inTransit, disposition, resets, rounds, running,
                     boot, accepting, intakeFailure, buffered, conts, faults, examined, since>>
  BY DEF MessageIsDone, Running, NextJob, discord, game, history, adapter
<1>3. /\ 1 \in DOMAIN queue /\ IsMessage(1) /\ ~IsReconcile(1) /\ Head(queue) = queue[1]
      /\ queue[1].message \in Messages /\ queue[1] = MessageJob(queue[1].message)
      /\ ~Failed /\ boot # "off" /\ ~WillRead(1)
  BY <1>1, <1>2, MessageAtHead
<1>4. PICK k \in Messages : k = queue[1].message
  BY <1>3
<1>5. ~intakeFailure /\ k \in examined /\ k <= posted /\ k \in Nat
  BY <1>1, <1>2, <1>3, <1>4, MessagesTyped DEF JobInv, CoverInv
<1>6. ~Failed' /\ (Succeeded' => Succeeded)
  BY <1>2, <1>3 DEF Failed, Succeeded
<1>7. /\ \A i \in DOMAIN queue' : queue'[i] # ReconcileJob("startup")
      /\ \A i \in DOMAIN queue' : IsMessage(i)' => queue'[i].message <= posted'
      /\ JobInv' /\ ~HeadReconciles'
  BY <1>1, <1>2, HeadGone
<1>8. /\ \A i \in DOMAIN queue' : i \in Nat \ {0} /\ i + 1 \in DOMAIN queue /\ queue'[i] = queue[i + 1]
                                  /\ (IsMessage(i)' <=> IsMessage(i + 1))
      /\ \A i \in DOMAIN queue : i \in Nat /\ (i = 1 \/ i > 1)
      /\ \A i \in DOMAIN queue : i # 1 => /\ i - 1 \in DOMAIN queue'
                                          /\ IsReconcile(i) => IsReconcile(i - 1)'
  BY <1>1, <1>2, QueueShifts
<1>9. BootInv'
  BY <1>1, <1>2, <1>3, <1>7 DEF BootInv
<1>10. GateInv'
  BY <1>1, <1>2, <1>5, <1>6 DEF GateInv
<1>11. CoverInv'
  <2>1. checkpoint' \in {checkpoint, k} /\ checkpoint \in Nat /\ posted \in Nat
        /\ \A u \in Eligible : u \in Nat
    BY <1>1, <1>2, <1>3, <1>4, <1>5, NumbersTyped, GreaterOfTwo
  <2>2. checkpoint' <= posted'
    BY <1>1, <1>2, <1>5, <2>1 DEF CoverInv
  <2>3. CheckpointCoversExamined'
    <3> SUFFICES ASSUME RoundActive, NEW u \in Eligible, since < u, u <= checkpoint'
                 PROVE  u \in examined
      BY <1>2 DEF CheckpointCoversExamined, RoundActive, Latest
    <3>1. CASE u <= checkpoint
      BY <1>1, <3>1 DEF CoverInv, CheckpointCoversExamined
    <3>2. CASE u < k
      <4>1. u \in examined \/ Due(u)
        BY <1>5, <2>1, <3>2 DEF Due
      <4>2. ~Due(u)
        <5>1. ~(\E j \in DOMAIN queue : j < 1)
          BY <1>8
        <5> QED BY <1>1, <1>3, <1>4, <1>5, <3>2, <5>1 DEF OrderInv, QueueOrder
      <4> QED BY <4>1, <4>2
    <3>3. u <= checkpoint \/ u < k \/ u = k
      BY <1>5, <2>1
    <3> QED BY <1>5, <3>1, <3>2, <3>3
  <2> QED BY <1>1, <1>2, <1>7, <2>2, <2>3 DEF CoverInv
<1>12. Stuck => Stuck'
  <2>1. AllMessages => AllMessages'
    BY <1>8 DEF AllMessages
  <2> QED BY <1>2, <1>3, <1>5 DEF Stuck
<1>13. OrderInv'
  <2>1. \A u \in Eligible : Due(u)' => Due(u) /\ queue[1] # MessageJob(u)
    <3>1. \A u : Due(u)' => Due(u) /\ u # k
      BY <1>2, <1>5 DEF Due
    <3>2. \A u : queue[1] = MessageJob(u) => u = k
      BY <1>1, <1>3, <1>4, QueueTyped
    <3> QED BY <3>1, <3>2
  <2>2. RoundActive' => RoundActive
    BY <1>2 DEF RoundActive, Latest
  <2> QED BY <1>1, <1>2, <1>3, <1>12, <2>1, <2>2, HeadLeaves
<1>14. BreakInv'
  <2>1. TakenUpFirst => TakenUpFirst'
    <3> SUFFICES ASSUME TakenUpFirst PROVE TakenUpFirst'
      OBVIOUS
    <3>1. Stuck' \/ \E i \in DOMAIN queue' : IsReconcile(i)'
      <4>1. CASE Stuck
        BY <1>12, <4>1
      <4>2. CASE \E i \in DOMAIN queue : IsReconcile(i)
        BY <1>3, <1>8, <4>2
      <4> QED BY <1>3, <4>1, <4>2 DEF TakenUpFirst
    <3>2. ASSUME NEW i \in DOMAIN queue', IsMessage(i)'
          PROVE  \E j \in DOMAIN queue' : j < i /\ IsReconcile(j)'
      <4>1. i + 1 \in DOMAIN queue /\ IsMessage(i + 1) /\ i \in Nat
        BY <1>8, <3>2
      <4>2. PICK j \in DOMAIN queue : j < i + 1 /\ IsReconcile(j)
        BY <1>5, <4>1 DEF TakenUpFirst
      <4>3. j # 1 /\ j \in Nat
        BY <1>3, <1>8, <4>2
      <4>4. j - 1 \in DOMAIN queue' /\ IsReconcile(j - 1)' /\ j - 1 < i
        BY <1>8, <4>1, <4>2, <4>3
      <4> QED BY <4>4
    <3> QED BY <3>1, <3>2 DEF TakenUpFirst
  <2> QED BY <1>1, <1>2, <1>6, <1>7, <2>1, BreakKept
<1> QED BY <1>7, <1>9, <1>10, <1>11, <1>13, <1>14 DEF IntakeInv

-----------------------------------------------------------------------------
\* A reconciliation goes on.

LEMMA ReconcileAtHead ==
    ASSUME TypeOK, BootInv, GateInv, queue # << >>, Head(queue).kind = "reconcile"
    PROVE  /\ 1 \in DOMAIN queue /\ IsReconcile(1) /\ ~IsMessage(1) /\ Head(queue) = queue[1]
           /\ queue[1].owner \in Owners /\ queue[1] = ReconcileJob(queue[1].owner)
           /\ ~Failed /\ boot # "off" /\ ~Stuck
           /\ (HeadReconciles <=> job.pc # "start")
<1>1. 1 \in DOMAIN queue /\ IsReconcile(1) /\ ~IsMessage(1) /\ Head(queue) = queue[1]
      /\ queue[1].owner \in Owners /\ queue[1] = ReconcileJob(queue[1].owner)
  BY QueueTyped DEF IsMessage, IsReconcile
<1>2. ~Failed /\ boot # "off"
  BY DEF GateInv, BootInv
<1>3. ~Stuck
  BY <1>1 DEF Stuck, AllMessages
<1> QED BY <1>1, <1>2, <1>3 DEF HeadReconciles

LEMMA ReconcileGoesOn ==
    ASSUME TypeOK, BootInv, GateInv, BreakInv, queue # << >>, Head(queue).kind = "reconcile",
           UNCHANGED <<posted, online, inTransit, boot, accepting, intakeFailure, buffered, queue,
                       conts>>
    PROVE  /\ 1 \in DOMAIN queue /\ IsReconcile(1)' /\ ~IsMessage(1)'
           /\ BootInv' /\ GateInv' /\ TakenUpFirst'
           /\ (HeadReconciles' <=> job'.pc # "start")
           /\ (Stuck => Stuck') /\ (Succeeded' => Succeeded)
           /\ Succeeded => PendingBreaks = {}
<1>1. /\ 1 \in DOMAIN queue /\ IsReconcile(1) /\ ~IsMessage(1)
      /\ (HeadReconciles' <=> job'.pc # "start")
  BY ReconcileAtHead DEF HeadReconciles, IsReconcile
<1>2. BootInv' /\ GateInv'
  BY BootGateKept
<1>3. TakenUpFirst'
  <2>1. TakenUpFirst
    BY <1>1, HeadTakesUp
  <2> QED BY <2>1, FirstStays
<1>4. (Stuck => Stuck') /\ (Succeeded' => Succeeded)
  BY StuckStays
<1>5. Succeeded => PendingBreaks = {}
  BY DEF BreakInv
<1> QED BY <1>1, <1>2, <1>3, <1>4, <1>5 DEF IsReconcile, IsMessage

\* Steps that only look.
LEMMA ReconcileLooksStep ==
    ASSUME IntakeInv, RecordedInv, TypeOK', ReconcileStarts \/ ReconcileLists \/ ReconcileLooksAgain
    PROVE  IntakeInv'
<1>1. /\ TypeOK /\ BootInv /\ GateInv /\ JobInv /\ CoverInv /\ OrderInv /\ BreakInv
  BY DEF IntakeInv
<1>2. /\ queue # << >> /\ Head(queue).kind = "reconcile"
      /\ UNCHANGED <<posted, online, inTransit, checkpoint, disposition, resets, rounds, running,
                     boot, accepting, intakeFailure, buffered, queue, conts, faults, examined, since>>
  BY DEF ReconcileStarts, ReconcileLists, ReconcileLooksAgain, Running, discord, game, adapter, history
<1>3. /\ 1 \in DOMAIN queue /\ IsReconcile(1) /\ ~IsMessage(1)
      /\ (HeadReconciles <=> job.pc # "start")
  BY <1>1, <1>2, ReconcileAtHead
<1>4. /\ ~IsMessage(1)' /\ BootInv' /\ GateInv' /\ TakenUpFirst'
      /\ (HeadReconciles' <=> job'.pc # "start")
      /\ (Stuck => Stuck') /\ (Succeeded' => Succeeded)
  BY <1>1, <1>2, ReconcileGoesOn
<1>5. PendingBreaks' = PendingBreaks /\ Latest' = Latest /\ (RoundActive' <=> RoundActive)
  BY <1>2 DEF PendingBreaks, Latest, RoundActive
<1>6. CoverInv'
  BY <1>1, <1>2, <1>5, CoverKept
<1>7. posted \in Nat /\ checkpoint \in Nat /\ checkpoint <= posted
      /\ job.cursor \in Nat /\ job.highWater \in Nat /\ \A u \in Eligible : u \in Nat
  BY <1>1, NumbersTyped DEF CoverInv
\* With nothing left to list, all is examined.
<1>8. ASSUME \A u \in Eligible : since < u /\ u <= posted => u <= checkpoint \/ u \in examined
      PROVE  OrderInv'
  <2>1. \A u \in Eligible : RoundActive => ~Due(u)
    BY <1>1, <1>8 DEF Due, CoverInv, CheckpointCoversExamined
  <2>2. \A u \in Eligible : RoundActive' => ~Due(u)'
    BY <1>2, <1>5, <2>1 DEF Due
  <2> QED BY <2>2, NothingIsDue
<1>9. CASE ReconcileStarts
  <2>1. job' = [pc |-> IF posted > checkpoint THEN "list" ELSE "finish",
                cursor |-> checkpoint, highWater |-> posted, listing |-> {},
                breaking |-> PendingReconnectBreak, completed |-> FALSE]
    BY <1>9 DEF ReconcileStarts
  <2>2. OrderInv'
    <3>1. CASE posted > checkpoint
      BY <1>1, <1>2, <1>4, <1>5, <2>1, <3>1, OrderKept
    <3>2. CASE ~(posted > checkpoint)
      <4>1. \A u \in Eligible : since < u /\ u <= posted => u <= checkpoint \/ u \in examined
        BY <1>7, <3>2
      <4> QED BY <4>1, <1>8
    <3> QED BY <3>1, <3>2
  <2>3. JobInv'
    <3>1. job'.pc = "finish" => Window' = {} /\ WindowLeft'
      BY <1>7, <2>1 DEF Window, WindowLeft
    <3>2. job'.cursor = checkpoint' /\ job'.highWater <= posted' /\ job'.pc \in {"list", "finish"}
          /\ job'.listing = {}
      BY <1>2, <1>7, <2>1
    <3> QED BY <1>4, <3>1, <3>2 DEF JobInv
  <2>4. BreakInv'
    <3>1. job'.breaking = PendingReconnectBreak
      BY <2>1
    <3>2. PendingBreaks = IF PendingReconnectBreak = 0 THEN {} ELSE {PendingReconnectBreak}
      <4>1. \A a, b \in PendingBreaks : a = b
        BY <1>1 DEF BreakInv
      <4> QED BY <4>1, BreakTyped
    <3>3. /\ \A a, b \in PendingBreaks : a = b
          /\ \A m \in resets : disposition[m].kind = "broken"
          /\ Succeeded => PendingBreaks = {}
      BY <1>1 DEF BreakInv
    <3> QED BY <1>2, <1>4, <1>5, <3>1, <3>2, <3>3 DEF BreakInv
  <2> QED BY <1>4, <1>6, <2>2, <2>3, <2>4 DEF IntakeInv
<1>10. CASE ReconcileLists
  <2>1. job.pc = "list" /\ conts = << >>
        /\ job' = [job EXCEPT !.listing = Listing,
                              !.pc = IF Listing = {} THEN "final" ELSE "judge"]
    BY <1>10 DEF ReconcileLists, Running, MicrotasksDone
  <2>2. /\ job'.pc = IF Listing = {} THEN "final" ELSE "judge"
        /\ job'.cursor = job.cursor /\ job'.highWater = job.highWater /\ job'.breaking = job.breaking
        /\ job'.listing = Listing
    BY <1>1, <2>1 DEF TypeOK
  <2>3. Window' = Listing /\ \A m \in Listing : m <= job.highWater
    BY <2>2 DEF Window, Listing
\* What the channel no longer holds has its disposition.
  <2>7. WindowLeft'
    <3> SUFFICES ASSUME NEW u \in Eligible, job.cursor < u, u <= job.highWater, u \notin Listing
                 PROVE  u \in examined
      BY <1>2, <2>2, <2>3 DEF WindowLeft
    <3>1. u <= posted /\ u \in Messages
      <4>1. job.highWater <= posted
        BY <1>1, <1>3, <2>1 DEF JobInv
      <4> QED BY <1>7, <4>1, MessagesTyped
    <3>2. ~Fresh(u)
      BY <3>1 DEF Listing, InChannel
    <3> QED BY <3>1, <3>2 DEF RecordedInv
  <2>4. OrderInv'
    BY <1>1, <1>2, <1>4, <1>5, <2>2, OrderKept
  <2>5. JobInv'
    BY <1>1, <1>2, <1>3, <1>4, <2>1, <2>2, <2>3, <2>7 DEF JobInv
  <2>6. BreakInv'
    BY <1>1, <1>2, <1>3, <1>4, <1>5, <2>1, <2>2 DEF BreakInv
  <2> QED BY <1>4, <1>6, <2>4, <2>5, <2>6 DEF IntakeInv
<1>11. CASE ReconcileLooksAgain
  <2>1. /\ job.pc = "final" /\ conts = << >>
        /\ job' = [job EXCEPT
                !.highWater = posted, !.listing = {},
                !.pc = IF posted > job.highWater /\ posted > job.cursor THEN "list" ELSE "finish"]
    BY <1>11 DEF ReconcileLooksAgain, Running, MicrotasksDone
  <2>2. /\ job'.pc = IF posted > job.highWater /\ posted > job.cursor THEN "list" ELSE "finish"
        /\ job'.cursor = job.cursor /\ job'.highWater = posted /\ job'.breaking = job.breaking
        /\ job'.listing = {}
    BY <1>1, <2>1 DEF TypeOK
  <2>3. job.cursor = checkpoint /\ Window = {} /\ WindowLeft
    BY <1>1, <1>3, <2>1 DEF JobInv
  <2>4. ~(posted > job.highWater /\ posted > job.cursor) =>
           \A u \in Eligible : u <= posted => u <= checkpoint \/ u \in examined
    <3> SUFFICES ASSUME ~(posted > job.highWater /\ posted > job.cursor),
                        NEW u \in Eligible, u <= posted, ~(u <= checkpoint)
                 PROVE  u \in examined
      OBVIOUS
    <3>1. job.cursor < u /\ u <= job.highWater
      BY <1>7, <2>3
    <3> QED BY <2>3, <3>1 DEF WindowLeft
  <2>5. OrderInv'
    <3>1. CASE job'.pc = "finish"
      BY <1>8, <2>2, <2>4, <3>1
    <3>2. CASE job'.pc # "finish"
      BY <1>1, <1>2, <1>4, <1>5, <3>2, OrderKept
    <3> QED BY <3>1, <3>2
  <2>6. JobInv'
    <3>1. Window' = {}
      BY <2>2 DEF Window
    <3>3. job'.pc = "finish" => WindowLeft'
      <4>1. job'.pc = "finish" => \A u \in Eligible : job'.cursor < u /\ u <= job'.highWater => u \in examined
        BY <1>7, <2>2, <2>3, <2>4
      <4> QED BY <1>2, <4>1 DEF WindowLeft
    <3>2. job'.cursor = checkpoint' /\ job'.highWater <= posted' /\ job'.pc \in {"list", "finish"}
      BY <1>2, <1>7, <2>2, <2>3
    <3> QED BY <1>4, <2>2, <3>1, <3>2, <3>3 DEF JobInv
  <2>7. BreakInv'
    BY <1>1, <1>2, <1>3, <1>4, <1>5, <2>1, <2>2 DEF BreakInv
  <2> QED BY <1>4, <1>6, <2>5, <2>6, <2>7 DEF IntakeInv
<1> QED BY <1>9, <1>10, <1>11

\* Steps that take up the next message of the window.
LEMMA ReconcileJudgesStep ==
    ASSUME IntakeInv, TypeOK', ReconcileEvaluates \/ ReconcileInvalidates \/ ReconcileSkips
    PROVE  IntakeInv'
<1>1. /\ TypeOK /\ BootInv /\ GateInv /\ JobInv /\ CoverInv /\ OrderInv /\ BreakInv
  BY DEF IntakeInv
<1>2. /\ queue # << >> /\ Head(queue).kind = "reconcile" /\ job.pc = "judge"
      /\ UNCHANGED <<posted, online, inTransit, checkpoint, boot, accepting, intakeFailure, buffered,
                     queue, conts, faults>>
  BY DEF ReconcileEvaluates, ReconcileInvalidates, ReconcileSkips, Running, discord, adapter
<1>3. 1 \in DOMAIN queue /\ IsReconcile(1) /\ ~IsMessage(1) /\ HeadReconciles
  BY <1>1, <1>2, ReconcileAtHead
<1>4. /\ ~IsMessage(1)' /\ BootInv' /\ GateInv' /\ TakenUpFirst'
      /\ (HeadReconciles' <=> job'.pc # "start")
      /\ (Stuck => Stuck') /\ (Succeeded' => Succeeded)
  BY <1>1, <1>2, ReconcileGoesOn
<1>5. /\ job.cursor = checkpoint /\ job.highWater <= posted /\ Window # {} /\ conts = << >>
      /\ WindowLeft /\ \A x \in job.listing : x <= job.highWater
  BY <1>1, <1>2, <1>3 DEF JobInv
<1>6. PICK m \in Messages : m = NextMessage /\ m # 0
  BY <1>1, <1>3, <1>5, WindowTyped, MessagesTyped
<1>7. PendingBreaks = IF job.breaking = 0 THEN {} ELSE {job.breaking}
  BY <1>1, <1>3 DEF BreakInv
<1>8. ~Succeeded'
  BY <1>2, <1>5 DEF Succeeded
\* What remains to be shown of each.
<1>9. ASSUME RoundActive' => RoundActive, since' = since, examined' = examined \cup {m},
             job'.pc = "advance", job'.cursor = job.cursor, job'.highWater = job.highWater,
             job'.listing = job.listing,
             PendingBreaks' = IF job'.breaking = 0 THEN {} ELSE {job'.breaking},
             \A x \in resets' : disposition'[x].kind = "broken"
      PROVE  IntakeInv'
  <2>1. CoverInv'
    BY <1>1, <1>2, <1>9, CoverKept
  <2>2. OrderInv'
    BY <1>1, <1>2, <1>4, <1>9, OrderKept
  <2>3. JobInv'
    <3>1. Window' = Window
      BY <1>9 DEF Window
    <3>2. NextMessage' = NextMessage
      BY <3>1 DEF NextMessage
    <3>3. WindowLeft'
      BY <1>5, <1>9, <3>1 DEF WindowLeft
    <3> QED BY <1>2, <1>4, <1>5, <1>6, <1>9, <3>1, <3>2, <3>3 DEF JobInv
  <2>4. BreakInv'
    BY <1>4, <1>8, <1>9 DEF BreakInv
  <2> QED BY <1>4, <2>1, <2>2, <2>3, <2>4 DEF IntakeInv
<1>10. CASE ReconcileEvaluates
  <2>1. /\ job.breaking = 0 /\ ProcessMessage(m, TRUE)
    BY <1>6, <1>10 DEF ReconcileEvaluates
  <2>2. /\ job'.pc = "advance" /\ job'.cursor = job.cursor /\ job'.highWater = job.highWater
        /\ job'.listing = job.listing
        /\ job'.breaking = IF Fresh(m) /\ disposition'[m].kind = "broken" THEN m ELSE 0
    <3>1. job' = [job EXCEPT
                    !.pc = "advance",
                    !.breaking = IF Fresh(m) /\ disposition'[m].kind = "broken" THEN m ELSE 0,
                    !.completed = /\ disposition'[m] # Unseen
                                  /\ rounds'[disposition'[m].round] = "completed"]
      BY <1>6, <1>10 DEF ReconcileEvaluates
    <3>2. DOMAIN job = {"pc", "cursor", "highWater", "listing", "breaking", "completed"}
      BY <1>1 DEF TypeOK
    <3> QED BY <3>1, <3>2
  <2>3. /\ (RoundActive' => RoundActive)
        /\ examined' = examined \cup {m} /\ since' = since
        /\ \A x \in resets' : disposition'[x].kind = "broken"
        /\ PendingBreaks' = PendingBreaks \cup
                         (IF Fresh(m) /\ disposition'[m].kind = "broken" THEN {m} ELSE {})
    BY <1>1, <2>1, Processed
  <2>4. PendingBreaks' = IF job'.breaking = 0 THEN {} ELSE {job'.breaking}
    BY <1>6, <1>7, <2>1, <2>2, <2>3
  <2> QED BY <1>9, <2>2, <2>3, <2>4
<1>11. ASSUME ReconcileInvalidates \/ ReconcileSkips
       PROVE  /\ job'.pc = "advance" /\ job'.cursor = job.cursor /\ job'.highWater = job.highWater
              /\ job'.listing = job.listing
              /\ job'.breaking = job.breaking /\ examined' = examined \cup {m}
              /\ UNCHANGED <<resets, rounds, since>>
  <2>1. job' = [job EXCEPT !.pc = "advance"]
    BY <1>11 DEF ReconcileInvalidates, ReconcileSkips
  <2>2. DOMAIN job = {"pc", "cursor", "highWater", "listing", "breaking", "completed"}
    BY <1>1 DEF TypeOK
  <2> QED BY <1>6, <1>11, <2>1, <2>2 DEF ReconcileInvalidates, ReconcileSkips, game
<1>12. CASE ReconcileInvalidates
  <2>1. \/ disposition' = disposition
        \/ disposition[m] = Unseen /\ Judged(m, "invalidated", job.breaking)
    BY <1>6, <1>12 DEF ReconcileInvalidates, Fresh
  <2>2. PendingBreaks' = PendingBreaks /\ \A x \in resets' : disposition'[x].kind = "broken"
    <3>1. CASE disposition' = disposition
      BY <1>1, <1>11, <1>12, <3>1 DEF PendingBreaks, BreakInv
    <3>2. CASE disposition[m] = Unseen /\ Judged(m, "invalidated", job.breaking)
      <4>1. DOMAIN disposition = Messages /\ resets \subseteq Messages
        BY <1>1 DEF TypeOK
      <4>2. disposition'[m].kind = "invalidated"
            /\ \A x \in Messages \ {m} : disposition'[x] = disposition[x]
        BY <3>2, <4>1 DEF Judged
      <4>3. disposition[m].kind = "none"
        BY <3>2 DEF Unseen
      <4>4. m \notin resets
        BY <1>1, <4>3 DEF BreakInv
      <4>5. PendingBreaks' = PendingBreaks
        BY <1>11, <1>12, <4>2, <4>3 DEF PendingBreaks
      <4> QED BY <1>1, <1>11, <1>12, <4>1, <4>2, <4>4, <4>5 DEF BreakInv
    <3> QED BY <2>1, <3>1, <3>2
  <2>3. RoundActive' => RoundActive
    BY <1>11, <1>12 DEF RoundActive, Latest
  <2> QED BY <1>7, <1>9, <1>11, <1>12, <2>2, <2>3
<1>13. CASE ReconcileSkips
  <2>1. disposition' = disposition
    BY <1>13 DEF ReconcileSkips, game
  <2>2. PendingBreaks' = PendingBreaks /\ \A x \in resets' : disposition'[x].kind = "broken"
    BY <1>1, <1>11, <1>13, <2>1 DEF PendingBreaks, BreakInv
  <2>3. RoundActive' => RoundActive
    BY <1>11, <1>13 DEF RoundActive, Latest
  <2> QED BY <1>7, <1>9, <1>11, <1>13, <2>2, <2>3
<1> QED BY <1>10, <1>12, <1>13

LEMMA ReconcileAdvancesStep ==
    ASSUME IntakeInv, TypeOK', ReconcileAdvances
    PROVE  IntakeInv'
<1>1. /\ TypeOK /\ BootInv /\ GateInv /\ JobInv /\ CoverInv /\ OrderInv /\ BreakInv
  BY DEF IntakeInv
<1>2. /\ queue # << >> /\ Head(queue).kind = "reconcile" /\ job.pc = "advance"
      /\ checkpoint' = NextMessage
      /\ job' = [job EXCEPT !.cursor = NextMessage,
                            !.pc = IF Window = {NextMessage} THEN "final" ELSE "judge"]
      /\ UNCHANGED <<posted, online, inTransit, disposition, resets, rounds, running, boot, accepting,
                     intakeFailure, buffered, queue, conts, faults, examined, since>>
  BY DEF ReconcileAdvances, Running, discord, game, adapter, history
<1>3. 1 \in DOMAIN queue /\ IsReconcile(1) /\ ~IsMessage(1) /\ HeadReconciles
  BY <1>1, <1>2, ReconcileAtHead
<1>4. /\ ~IsMessage(1)' /\ BootInv' /\ GateInv' /\ TakenUpFirst'
      /\ (HeadReconciles' <=> job'.pc # "start")
      /\ (Stuck => Stuck') /\ (Succeeded' => Succeeded)
  BY <1>1, <1>2, ReconcileGoesOn
<1>5. /\ job.cursor = checkpoint /\ job.highWater <= posted /\ Window # {} /\ conts = << >>
      /\ NextMessage \in examined
  BY <1>1, <1>2, <1>3 DEF JobInv
<1>5a. WindowLeft /\ \A x \in job.listing : x <= job.highWater
  BY <1>1, <1>2, <1>3 DEF JobInv
<1>6. PICK m \in Messages :
        /\ m = NextMessage /\ m \in Window /\ m \in Eligible /\ m \in Nat
        /\ job.cursor < m /\ m <= job.highWater
        /\ \A x \in Window : m <= x
  BY <1>1, <1>3, <1>5, WindowTyped
<1>7. posted \in Nat /\ checkpoint \in Nat /\ job.cursor \in Nat /\ job.highWater \in Nat
      /\ \A u \in Eligible : u \in Nat
  BY <1>1, NumbersTyped
<1>8. /\ job'.pc = IF Window = {m} THEN "final" ELSE "judge"
      /\ job'.cursor = m /\ job'.highWater = job.highWater /\ job'.breaking = job.breaking
      /\ job'.listing = job.listing
  <2>1. DOMAIN job = {"pc", "cursor", "highWater", "listing", "breaking", "completed"}
    BY <1>1 DEF TypeOK
  <2> QED BY <1>2, <1>6, <2>1
<1>9. Window' = Window \ {m}
  <2>1. job.listing \subseteq Eligible
    BY <1>1 DEF TypeOK
  <2>2. ASSUME NEW u \in job.listing
        PROVE  m < u <=> (u \in Window /\ u # m)
    <3>1. u \in Nat
      BY <1>7, <2>1
    <3>2. u \in Window <=> job.cursor < u
      BY DEF Window
    <3>3. u \in Window => m <= u
      BY <1>6
    <3> QED BY <1>6, <1>7, <3>1, <3>2, <3>3
  <2>3. Window' = {u \in job.listing : m < u}
    BY <1>8 DEF Window
  <2>4. Window \subseteq job.listing
    BY DEF Window
  <2> QED BY <2>2, <2>3, <2>4
<1>9a. WindowLeft'
  <2> SUFFICES ASSUME NEW u \in Eligible, m < u, u <= job.highWater
               PROVE  u \in Window' \/ u \in examined
    BY <1>2, <1>8 DEF WindowLeft
  <2>1. u \in Nat /\ job.cursor < u /\ u # m
    BY <1>6, <1>7
  <2> QED BY <1>5a, <1>9, <2>1 DEF WindowLeft
<1>10. (RoundActive' <=> RoundActive) /\ PendingBreaks' = PendingBreaks
  BY <1>2 DEF PendingBreaks, Latest, RoundActive
<1>11. CoverInv'
  <2>1. checkpoint' <= posted'
    BY <1>2, <1>5, <1>6, <1>7
  <2>2. CheckpointCoversExamined'
    <3> SUFFICES ASSUME RoundActive, NEW u \in Eligible, since < u, u <= m
                 PROVE  u \in examined
      BY <1>2, <1>6, <1>10 DEF CheckpointCoversExamined
    <3>1. CASE u <= checkpoint
      BY <1>1, <3>1 DEF CoverInv, CheckpointCoversExamined
    <3>2. CASE ~(u <= checkpoint)
      <4>1. u \in Nat /\ job.cursor < u /\ u <= job.highWater
        BY <1>5, <1>6, <1>7, <3>2
      <4>2. u \in Window \/ u \in examined
        BY <1>5a, <4>1 DEF WindowLeft
      <4>3. u \in Window => u = m
        BY <1>6, <4>1
      <4> QED BY <1>5, <1>6, <4>2, <4>3
    <3> QED BY <3>1, <3>2
  <2> QED BY <1>1, <1>2, <2>1, <2>2 DEF CoverInv, IsMessage
<1>12. OrderInv'
  BY <1>1, <1>2, <1>4, <1>8, <1>10, OrderKept
<1>13. JobInv'
  <2>1. job'.pc = "judge" => Window' # {}
    BY <1>6, <1>8, <1>9
  <2>2. job'.pc = "final" => Window' = {}
    BY <1>8, <1>9
  <2>3. job'.cursor = checkpoint' /\ job'.highWater <= posted' /\ job'.pc \in {"judge", "final"}
        /\ conts' = << >>
    BY <1>2, <1>5, <1>6, <1>8
  <2> QED BY <1>4, <1>5a, <1>8, <1>9a, <2>1, <2>2, <2>3 DEF JobInv
<1>14. BreakInv'
  <2>1. Latest' = Latest
    BY <1>2 DEF Latest
  <2> QED BY <1>1, <1>2, <1>3, <1>4, <1>8, <1>10, <2>1 DEF BreakInv
<1> QED BY <1>4, <1>11, <1>12, <1>13, <1>14 DEF IntakeInv

-----------------------------------------------------------------------------
\* A reconciliation ends.

LEMMA ReconcileFinishesStep ==
    ASSUME IntakeInv, TypeOK', ReconcileFinishes
    PROVE  IntakeInv'
<1>1. /\ TypeOK /\ BootInv /\ GateInv /\ JobInv /\ CoverInv /\ OrderInv /\ BreakInv
  BY DEF IntakeInv
<1>2. /\ queue # << >> /\ Head(queue).kind = "reconcile" /\ job.pc = "finish"
      /\ checkpoint' = IF job.highWater > job.cursor THEN job.highWater ELSE checkpoint
      /\ resets' = IF job.breaking # 0 THEN resets \cup {job.breaking} ELSE resets
      /\ conts' = Append(conts, [owner |-> Head(queue).owner, ok |-> TRUE])
      /\ queue' = Tail(queue) /\ job' = NotStarted /\ NextJob
      /\ UNCHANGED <<posted, online, inTransit, disposition, rounds, running, boot, accepting,
                     intakeFailure, buffered, faults, examined, since>>
  BY DEF ReconcileFinishes, Running, NextJob, discord, adapter, history
<1>3. /\ 1 \in DOMAIN queue /\ IsReconcile(1) /\ ~IsMessage(1) /\ Head(queue) = queue[1]
      /\ queue[1].owner \in Owners /\ queue[1] = ReconcileJob(queue[1].owner)
      /\ ~Failed /\ boot # "off" /\ ~Stuck /\ HeadReconciles /\ ~WillRead(1)
  BY <1>1, <1>2, ReconcileAtHead DEF WillRead
<1>4. job.cursor = checkpoint /\ job.highWater <= posted /\ Window = {} /\ WindowLeft
  BY <1>1, <1>2, <1>3 DEF JobInv
<1>5. PendingBreaks = IF job.breaking = 0 THEN {} ELSE {job.breaking}
  BY <1>1, <1>3 DEF BreakInv
<1>6. posted \in Nat /\ checkpoint \in Nat /\ job.cursor \in Nat /\ job.highWater \in Nat
      /\ \A u \in Eligible : u \in Nat
  BY <1>1, NumbersTyped
<1>7. PICK own \in Owners : own = queue[1].owner
  BY <1>3
<1>8. /\ \A i \in DOMAIN conts' : (i \in DOMAIN conts /\ conts'[i] = conts[i])
                                  \/ (conts'[i] = [owner |-> own, ok |-> TRUE]
                                      /\ (conts = << >> => i = 1))
      /\ \E i \in DOMAIN conts' : conts'[i].ok
  <2>1. conts \in Seq([owner : Owners, ok : BOOLEAN])
    BY <1>1 DEF TypeOK
  <2>2. [owner |-> own, ok |-> TRUE] \in [owner : Owners, ok : BOOLEAN]
    OBVIOUS
  <2> DEFINE S == [owner : Owners, ok : BOOLEAN]
  <2> DEFINE new == [owner |-> own, ok |-> TRUE]
  <2>3. conts \in Seq(S) /\ new \in S /\ conts' = Append(conts, new) /\ new.ok
    BY <1>2, <1>3, <1>7, <2>1, <2>2
  <2> HIDE DEF S, new
  <2>4. /\ DOMAIN conts' = 1 .. Len(conts) + 1 /\ Len(conts) \in Nat
        /\ conts'[Len(conts) + 1] = new /\ DOMAIN conts = 1 .. Len(conts)
        /\ \A i \in DOMAIN conts : conts'[i] = conts[i]
    BY <2>3, AppendTo
  <2>5. conts = << >> => Len(conts) = 0
    OBVIOUS
  <2>6. \A i \in DOMAIN conts' : i \in DOMAIN conts \/ i = Len(conts) + 1
    BY <2>4
  <2>7. Len(conts) + 1 \in DOMAIN conts'
    BY <2>4
  <2> QED BY <2>3, <2>4, <2>5, <2>6, <2>7 DEF new
<1>9. Succeeded' /\ ~Failed'
  <2>1. ~Failed'
    BY <1>3, <1>8 DEF Failed
  <2> QED BY <1>8, <2>1 DEF Succeeded
<1>10. /\ \A i \in DOMAIN queue' : queue'[i] # ReconcileJob("startup")
       /\ \A i \in DOMAIN queue' : IsMessage(i)' => queue'[i].message <= posted'
       /\ JobInv' /\ ~HeadReconciles'
  BY <1>1, <1>2, HeadGone
<1>11. /\ \A i \in DOMAIN queue' : i \in Nat \ {0} /\ i + 1 \in DOMAIN queue /\ queue'[i] = queue[i + 1]
                                   /\ (IsMessage(i)' <=> IsMessage(i + 1))
                                   /\ (IsReconcile(i)' <=> IsReconcile(i + 1))
  BY <1>1, <1>2, QueueShifts
<1>12. BootInv'
  <2>1. own = "startup" => conts = << >> /\ boot = "reconciling"
    BY <1>1, <1>3, <1>7 DEF BootInv
  <2>2. \A i \in DOMAIN conts' : conts'[i].owner = "startup" => i = 1 /\ boot' = "reconciling"
    BY <1>1, <1>2, <1>8, <2>1 DEF BootInv
  <2> QED BY <1>1, <1>2, <1>3, <1>10, <2>2 DEF BootInv
<1>13. GateInv'
  <2>1. intakeFailure => \A i \in DOMAIN queue' : IsReconcile(i)'
    <3> SUFFICES ASSUME intakeFailure, NEW i \in DOMAIN queue'
                 PROVE  IsReconcile(i)'
      OBVIOUS
    <3>1. i + 1 \in DOMAIN queue /\ 1 < i + 1
      BY <1>11
    <3>2. IsReconcile(i + 1)
      BY <1>1, <1>3, <3>1 DEF GateInv
    <3> QED BY <1>11, <3>2
  <2>2. \A i \in DOMAIN conts' : conts'[i] # [owner |-> "reconnect", ok |-> FALSE]
    <3> SUFFICES ASSUME NEW i \in DOMAIN conts', conts'[i] = [owner |-> "reconnect", ok |-> FALSE]
                 PROVE  FALSE
      OBVIOUS
    <3>1. ~conts'[i].ok
      OBVIOUS
    <3> QED BY <1>9, <3>1 DEF Failed
  <2> QED BY <1>1, <1>2, <1>9, <2>1, <2>2 DEF GateInv
<1>14. CoverInv'
  <2>1. checkpoint' <= posted' /\ checkpoint' \in Nat
    BY <1>1, <1>2, <1>4, <1>6 DEF CoverInv
  <2>2. CheckpointCoversExamined'
    <3> SUFFICES ASSUME RoundActive, NEW u \in Eligible, since < u, u <= checkpoint'
                 PROVE  u \in examined
      BY <1>2 DEF CheckpointCoversExamined, RoundActive, Latest
    <3>1. u <= checkpoint \/ u \in examined
      <4>1. job.cursor < u /\ u <= job.highWater => u \in examined
        BY <1>4 DEF WindowLeft
      <4> QED BY <1>2, <1>4, <1>6, <4>1
    <3> QED BY <1>1, <3>1 DEF CoverInv, CheckpointCoversExamined
  <2> QED BY <1>1, <1>2, <1>10, <2>1, <2>2 DEF CoverInv
<1>15. OrderInv'
  <2>1. \A u \in Eligible : Due(u)' => Due(u) /\ queue[1] # MessageJob(u)
    <3>1. \A u : Due(u)' => Due(u)
      BY <1>2 DEF Due
    <3>2. \A u : queue[1] # MessageJob(u)
      BY <1>1, <1>3, QueueTyped
    <3> QED BY <3>1, <3>2
  <2>2. RoundActive' => RoundActive
    BY <1>2 DEF RoundActive, Latest
  <2> QED BY <1>1, <1>2, <1>3, <2>1, <2>2, HeadLeaves
<1>16. BreakInv'
  <2>1. PendingBreaks' = {}
    BY <1>2, <1>5 DEF PendingBreaks
  <2>2. \A x \in resets' : disposition'[x].kind = "broken"
    <3>1. \A x \in resets : disposition[x].kind = "broken"
      BY <1>1 DEF BreakInv
    <3>2. job.breaking # 0 => disposition[job.breaking].kind = "broken"
      BY <1>5 DEF PendingBreaks
    <3> QED BY <1>2, <3>1, <3>2
  <2> QED BY <1>10, <2>1, <2>2 DEF BreakInv
<1> QED BY <1>10, <1>12, <1>13, <1>14, <1>15, <1>16 DEF IntakeInv

LEMMA ReconcileFailsStep ==
    ASSUME NoOverlap, IntakeInv, TypeOK', ReconcileFails
    PROVE  IntakeInv'
<1>1. /\ TypeOK /\ BootInv /\ GateInv /\ JobInv /\ CoverInv /\ OrderInv /\ BreakInv
  BY DEF IntakeInv
<1>2. /\ queue # << >> /\ Head(queue).kind = "reconcile" /\ MayFail
      /\ conts' = Append(conts, [owner |-> Head(queue).owner, ok |-> FALSE])
      /\ queue' = Tail(queue) /\ job' = NotStarted /\ NextJob
      /\ UNCHANGED <<posted, online, inTransit, checkpoint, disposition, resets, rounds, running, boot,
                     accepting, intakeFailure, buffered, examined, since>>
  BY DEF ReconcileFails, NextJob, discord, game, adapter, history
<1>3. /\ 1 \in DOMAIN queue /\ IsReconcile(1) /\ ~IsMessage(1) /\ Head(queue) = queue[1]
      /\ queue[1].owner \in Owners /\ queue[1] = ReconcileJob(queue[1].owner)
      /\ boot # "off"
  BY <1>1, <1>2, ReconcileAtHead
<1>4. /\ conts = << >> /\ Len(queue) = 1 /\ ~accepting
      /\ boot = "live" \/ queue[1] = ReconcileJob("startup")
  <2>1. ~(\A i \in DOMAIN queue : queue[i].kind = "message")
    BY <1>3 DEF IsMessage
  <2> QED BY <1>2, <1>3, <2>1 DEF MayFail, NoOverlap, MicrotasksDone
<1>5. queue' = << >> /\ DOMAIN queue' = {}
  <2>1. queue \in Seq(Jobs)
    BY <1>1, QueueTyped
  <2> QED BY <1>2, <1>4, <2>1
<1>6. PICK own \in Owners : own = queue[1].owner
  BY <1>3
<1>7. /\ DOMAIN conts' = {1} /\ conts'[1] = [owner |-> own, ok |-> FALSE] /\ Len(conts') = 1
      /\ conts' # << >>
  BY <1>2, <1>3, <1>4, <1>6
<1>8. Failed' /\ ~Succeeded'
  <2>1. 1 \in DOMAIN conts' /\ ~conts'[1].ok /\ \A i \in DOMAIN conts' : i = 1
    BY <1>7
  <2> QED BY <2>1 DEF Failed, Succeeded
<1>9. Stuck'
  BY <1>5, <1>8 DEF Stuck, AllMessages
<1>10. JobInv' /\ ~HeadReconciles'
  BY <1>2, JobIdle
<1>11. BootInv'
  <2>1. own = "startup" => boot = "reconciling"
    BY <1>1, <1>3, <1>6 DEF BootInv
  <2>2. \A i \in DOMAIN conts' : conts'[i].owner = "startup" => i = 1 /\ boot' = "reconciling"
    BY <1>2, <1>7, <2>1
  <2> QED BY <1>1, <1>2, <1>3, <1>5, <2>2 DEF BootInv
<1>12. GateInv'
  <2>1. own = "reconnect" => boot = "live"
    <3>1. own = "reconnect" => queue[1] # ReconcileJob("startup")
      <4>1. ReconcileJob("startup").owner = "startup"
        BY DEF ReconcileJob
      <4> QED BY <1>6, <4>1
    <3> QED BY <1>4, <3>1
  <2>2. \A i \in DOMAIN conts' : conts'[i] = [owner |-> "reconnect", ok |-> FALSE] => boot' = "live"
    <3>1. conts'[1].owner = own
      BY <1>7
    <3>2. [owner |-> "reconnect", ok |-> FALSE].owner = "reconnect"
      OBVIOUS
    <3> QED BY <1>2, <1>7, <2>1, <3>1, <3>2
  <2> QED BY <1>1, <1>2, <1>4, <1>5, <1>7, <1>8, <2>2 DEF GateInv
<1>13. CoverInv'
  <2>1. CheckpointCoversExamined'
    BY <1>1, <1>2, CoversStill DEF CoverInv, RoundActive, Latest
  <2> QED BY <1>1, <1>2, <1>5, <2>1 DEF CoverInv
<1>14. OrderInv'
  <2>1. QueueOrder'
    BY <1>5 DEF QueueOrder
  <2> QED BY <1>9, <2>1, AlwaysRead DEF ReadLater
<1>15. BreakInv'
  <2>1. TakenUpFirst'
    BY <1>5, <1>9 DEF TakenUpFirst
  <2> QED BY <1>1, <1>2, <1>8, <1>10, <2>1, BreakKept
<1> QED BY <1>10, <1>11, <1>12, <1>13, <1>14, <1>15 DEF IntakeInv

-----------------------------------------------------------------------------
\* The process and the rounds.

LEMMA StartStep ==
    ASSUME IntakeInv, TypeOK', Start
    PROVE  IntakeInv'
<1>1. /\ TypeOK /\ BootInv /\ GateInv /\ JobInv /\ CoverInv /\ OrderInv /\ BreakInv
  BY DEF IntakeInv
<1>2. /\ boot = "off"
      /\ boot' = (IF RoundActive THEN "reconciling" ELSE "dispatching")
      /\ queue' = IF RoundActive THEN <<ReconcileJob("startup")>> ELSE << >>
      /\ UNCHANGED <<posted, inTransit, checkpoint, disposition, resets, rounds, running, accepting,
                     intakeFailure, buffered, job, conts, faults, examined, since>>
  BY DEF Start, game, adapter, history
<1>3. /\ queue = << >> /\ conts = << >> /\ conts' = << >> /\ inTransit' = << >> /\ buffered' = << >>
      /\ ~accepting' /\ ~intakeFailure' /\ job' = NotStarted
  BY <1>1, <1>2 DEF BootInv, TypeOK
<1>4. ~Failed' /\ ~Succeeded'
  BY <1>3 DEF Failed, Succeeded
<1>5. (RoundActive' <=> RoundActive) /\ PendingBreaks' = PendingBreaks
  BY <1>2 DEF RoundActive, Latest, PendingBreaks
<1>6. /\ \A i \in DOMAIN queue' : /\ i = 1 /\ RoundActive /\ IsReconcile(i)' /\ ~IsMessage(i)'
                                  /\ WillRead(i)'
      /\ RoundActive => 1 \in DOMAIN queue'
  <2>1. CASE RoundActive
    <3>1. DOMAIN queue' = {1} /\ queue'[1] = ReconcileJob("startup")
      BY <1>2, <2>1
    <3> QED BY <1>3, <2>1, <3>1 DEF IsReconcile, IsMessage, WillRead, ReconcileJob, NotStarted
  <2>2. CASE ~RoundActive
    <3>1. queue' = << >>
      BY <1>2, <2>2
    <3>2. DOMAIN queue' = {}
      BY <3>1
    <3> QED BY <2>2, <3>2
  <2> QED BY <2>1, <2>2
<1>7. JobInv' /\ ~HeadReconciles'
  BY <1>3, JobIdle
<1>8. BootInv'
  BY <1>2, <1>3, <1>6 DEF BootInv
<1>9. GateInv'
  BY <1>3, <1>4 DEF GateInv
<1>10. CoverInv'
  <2>1. CheckpointCoversExamined'
    BY <1>1, <1>2, CoversStill DEF CoverInv, RoundActive, Latest
  <2> QED BY <1>1, <1>2, <1>3, <1>6, <2>1 DEF CoverInv
<1>11. OrderInv'
  <2>1. QueueOrder'
    BY <1>6 DEF QueueOrder
  <2>2. RoundActive => ReadLater'
    BY <1>6 DEF ReadLater
  <2> QED BY <1>5, <2>1, <2>2 DEF OrderInv, BufferOrder, TransitOrder, OnlineOrder
<1>12. BreakInv'
  <2>1. RoundActive => TakenUpFirst'
    BY <1>6 DEF TakenUpFirst
  <2> QED BY <1>1, <1>2, <1>4, <1>5, <1>7, <2>1 DEF BreakInv
<1> QED BY <1>7, <1>8, <1>9, <1>10, <1>11, <1>12 DEF IntakeInv

LEMMA GoneStep ==
    ASSUME IntakeInv, TypeOK', Gone
    PROVE  IntakeInv'
<1>1. /\ TypeOK /\ BootInv /\ GateInv /\ JobInv /\ CoverInv /\ OrderInv /\ BreakInv
  BY DEF IntakeInv
<1>2. /\ boot' = "off" /\ ~online' /\ inTransit' = << >> /\ ~accepting' /\ ~intakeFailure'
      /\ buffered' = << >> /\ queue' = << >> /\ job' = NotStarted /\ conts' = << >>
      /\ UNCHANGED <<posted, checkpoint, disposition, resets, rounds, examined, since>>
  BY DEF Gone, game, history
<1>3. ~Failed' /\ ~Succeeded'
  BY <1>2 DEF Failed, Succeeded
<1>4. JobInv' /\ ~HeadReconciles'
  BY <1>2, JobIdle
<1>5. BootInv'
  BY <1>2 DEF BootInv
<1>6. GateInv'
  BY <1>2, <1>3 DEF GateInv
<1>7. CoverInv'
  <2>1. CheckpointCoversExamined'
    BY <1>1, <1>2, CoversStill DEF CoverInv, RoundActive, Latest
  <2> QED BY <1>1, <1>2, <2>1 DEF CoverInv
<1>8. OrderInv'
  BY <1>2 DEF OrderInv, QueueOrder, BufferOrder, TransitOrder, OnlineOrder
<1>9. BreakInv'
  <2>1. TakenUpFirst'
    BY <1>2 DEF TakenUpFirst
  <2> QED BY <1>1, <1>2, <1>3, <1>4, <2>1, BreakKept
<1> QED BY <1>4, <1>5, <1>6, <1>7, <1>8, <1>9 DEF IntakeInv

\* Between jobs the administrator's rounds disturb nothing that is under way.
LEMMA RoundStep ==
    ASSUME IntakeInv, TypeOK', CancelRound \/ ActivateRound
    PROVE  IntakeInv'
<1>1. /\ TypeOK /\ BootInv /\ GateInv /\ JobInv /\ CoverInv /\ OrderInv /\ BreakInv
  BY DEF IntakeInv
<1>2. /\ job = NotStarted /\ job' = NotStarted
      /\ UNCHANGED <<posted, online, inTransit, checkpoint, disposition, resets, boot, accepting,
                     intakeFailure, buffered, queue, conts, faults, examined>>
  BY DEF CancelRound, ActivateRound, BetweenJobs, discord, adapter, executor, history
<1>3. rounds \in Seq({"active", "completed", "cancelled"}) /\ Latest \in Nat \ {0}
      /\ DOMAIN rounds = 1 .. Latest
  <2>1. rounds \in Seq({"active", "completed", "cancelled"}) /\ Latest \in 1 .. MaxRounds
    BY <1>1 DEF TypeOK
  <2>2. DOMAIN rounds = 1 .. Latest
    BY <2>1 DEF Latest
  <2>3. Latest \in Nat \ {0}
    BY <2>1, MaxRoundsAssumption
  <2> QED BY <2>1, <2>2, <2>3
<1>4. BootInv' /\ GateInv'
  BY <1>1, <1>2, BootGateKept
<1>5. JobInv' /\ ~HeadReconciles'
  BY <1>2, JobIdle
<1>6. PendingBreaks' = PendingBreaks /\ (Succeeded' => Succeeded)
  BY <1>2, StuckStays DEF PendingBreaks
<1>7. CASE CancelRound
  <2>1. rounds' = [rounds EXCEPT ![Latest] = "cancelled"] /\ since' = since
    BY <1>7 DEF CancelRound, history
  <2>2. Latest' = Latest
    <3>1. Len(rounds') = Len(rounds)
      BY <1>3, <2>1
    <3> QED BY <3>1 DEF Latest
  <2>3. ~RoundActive'
    <3>1. rounds'[Latest] = "cancelled"
      BY <1>3, <2>1
    <3> QED BY <2>2, <3>1 DEF RoundActive
  <2>4. OrderInv'
    BY <2>3 DEF OrderInv, QueueOrder, BufferOrder, TransitOrder, OnlineOrder
  <2>5. CoverInv'
    BY <1>1, <1>2, <2>1, <2>3, CoverKept
  <2>6. BreakInv'
    BY <1>1, <1>2, <1>5, <1>6, <2>3 DEF BreakInv
  <2> QED BY <1>4, <1>5, <2>4, <2>5, <2>6 DEF IntakeInv
<1>8. CASE ActivateRound
  <2>1. rounds' = Append(rounds, "active") /\ since' = posted
    BY <1>8 DEF ActivateRound
  <2>2. Latest' = Latest + 1
    BY <1>3, <2>1 DEF Latest
  <2>3. posted \in Nat /\ checkpoint \in Nat /\ checkpoint <= posted /\ \A u \in Eligible : u \in Nat
    BY <1>1, NumbersTyped DEF CoverInv
  <2>4. OrderInv'
    <3>1. \A u \in Eligible : ~Due(u)'
      BY <1>2, <2>1, <2>3 DEF Due
    <3> QED BY <3>1, NothingIsDue
  <2>5. CoverInv'
    <3>1. CheckpointCoversExamined'
      BY <1>2, <2>1, <2>3 DEF CheckpointCoversExamined
    <3> QED BY <1>1, <1>2, <3>1 DEF CoverInv, IsMessage
  <2>6. BreakInv'
    <3>1. \A b \in PendingBreaks : disposition[b].round # Latest'
      <4> SUFFICES ASSUME NEW b \in PendingBreaks
                   PROVE  disposition[b].round # Latest'
        OBVIOUS
      <4>1. b \in Messages /\ disposition[b] # Unseen
        BY DEF PendingBreaks, Unseen
      <4>2. disposition[b].round \in DOMAIN rounds
        BY <1>1, <4>1 DEF TypeOK
      <4> QED BY <1>3, <2>2, <4>2
    <3> QED BY <1>1, <1>2, <1>5, <1>6, <3>1 DEF BreakInv
  <2> QED BY <1>4, <1>5, <2>4, <2>5, <2>6 DEF IntakeInv
<1> QED BY <1>7, <1>8

\* What the invariant speaks of does not change.
LEMMA NothingStirs ==
    ASSUME IntakeInv, TypeOK',
           UNCHANGED <<posted, online, inTransit, checkpoint, disposition, resets, rounds, boot,
                       accepting, intakeFailure, buffered, queue, job, conts, examined, since>>
    PROVE  IntakeInv'
<1>1. /\ TypeOK /\ BootInv /\ GateInv /\ JobInv /\ CoverInv /\ OrderInv /\ BreakInv
  BY DEF IntakeInv
<1>2. PendingBreaks' = PendingBreaks /\ Latest' = Latest /\ (RoundActive' <=> RoundActive)
      /\ (Succeeded' => Succeeded) /\ (Stuck => Stuck')
      /\ (HeadReconciles' => HeadReconciles)
  BY StuckStays DEF PendingBreaks, Latest, RoundActive, HeadReconciles, IsReconcile
<1>3. BootInv' /\ GateInv'
  BY <1>1, BootGateKept
<1>4. JobInv'
  BY <1>1, NumbersTyped, JobKept
<1>5. CoverInv'
  BY <1>1, <1>2, CoverKept
<1>6. OrderInv'
  BY <1>1, <1>2, OrderKept
<1>7. BreakInv'
  BY <1>1, <1>2, BreakKept, FirstStays
<1> QED BY <1>3, <1>4, <1>5, <1>6, <1>7 DEF IntakeInv

\* A delivery disturbs nothing either: it changes what the next listing holds.
LEMMA DispatchStep ==
    ASSUME IntakeInv, TypeOK', Dispatch
    PROVE  IntakeInv'
<1>1. /\ TypeOK /\ BootInv /\ GateInv /\ JobInv /\ CoverInv /\ OrderInv /\ BreakInv
  BY DEF IntakeInv
<1>2. UNCHANGED <<posted, online, inTransit, checkpoint, disposition, resets, rounds, boot,
                  accepting, intakeFailure, buffered, queue, job, conts, examined, since>>
  BY DEF Dispatch, discord, adapter, executor, history
<1> QED BY <1>1, <1>2, NothingStirs

-----------------------------------------------------------------------------
\* The invariant.

LEMMA InitEstablishes ==
    ASSUME Init
    PROVE  IntakeInv
<1>1. /\ posted = 0 /\ ~online /\ inTransit = << >> /\ checkpoint = 0
      /\ disposition = [m \in Messages |-> Unseen] /\ resets = {}
      /\ rounds = <<"active">> /\ running = TRUE /\ outbox = << >> /\ boot = "off" /\ ~accepting /\ ~intakeFailure
      /\ buffered = << >> /\ queue = << >> /\ job = NotStarted /\ conts = << >>
      /\ faults = [k \in FaultKinds |-> 0] /\ examined = {} /\ since = 0
  BY DEF Init
<1>2. Len(rounds) = 1 /\ rounds \in Seq({"active", "completed", "cancelled"})
  BY <1>1
<1>3. TypeOK
  <2>1. GameTyped
    <3>1. disposition \in [Messages -> [kind : Kinds, by : 0 .. NumMessages,
                               round : DOMAIN rounds] \cup {Unseen}]
      BY <1>1
    <3>2. Latest \in 1 .. MaxRounds /\ \A i \in 1 .. Latest - 1 : rounds[i] # "active"
      BY <1>2, MaxRoundsAssumption DEF Latest
    <3> QED BY <1>1, <1>2, <3>1, <3>2 DEF GameTyped
  <2>2. IntakeTyped
    <3>1. accepting \in BOOLEAN
      BY DEF Init
    <3>2. intakeFailure \in BOOLEAN
      BY DEF Init
    <3>3. buffered \in Seq(Messages) /\ conts \in Seq([owner : Owners, ok : BOOLEAN])
      BY <1>1
    <3>4. checkpoint \in 0 .. NumMessages /\ faults \in [FaultKinds -> Nat]
      BY <1>1, NumMessagesAssumption
    <3> QED BY <1>1, <3>1, <3>2, <3>3, <3>4 DEF IntakeTyped
  <2>3. QueueAndJobTyped
    <3>1. NotStarted \in [pc : {"start", "list", "judge", "advance", "final", "finish"},
                          cursor : 0 .. NumMessages, highWater : 0 .. NumMessages,
                          listing : SUBSET Eligible, breaking : 0 .. NumMessages, completed : BOOLEAN]
      BY NumMessagesAssumption DEF NotStarted
    <3>2. << >> \in Seq({MessageJob(m) : m \in Messages} \cup {ReconcileJob(o) : o \in Owners})
      OBVIOUS
    <3> QED BY <1>1, <3>1, <3>2 DEF QueueAndJobTyped
  <2>4. DiscordTyped
    <3>1. online \in BOOLEAN
      BY DEF Init
    <3>2. inTransit \in Seq(Messages)
      BY <1>1
    <3> QED BY <1>1, <3>1, <3>2, NumMessagesAssumption DEF DiscordTyped
  <2> QED BY <2>1, <2>2, <2>3, <2>4, TypeParts
<1>4. ~Failed /\ ~Succeeded /\ ~HeadReconciles
  BY <1>1 DEF Failed, Succeeded, HeadReconciles
<1>5. BootInv
  BY <1>1 DEF BootInv
<1>6. GateInv
  BY <1>1, <1>4 DEF GateInv
<1>7. JobInv
  BY <1>1, <1>4 DEF JobInv
<1>8. CoverInv
  <2>1. CheckpointCoversExamined
    <3>1. \A m \in Eligible : ~(since < m /\ m <= checkpoint)
      BY <1>1, MessagesTyped
    <3> QED BY <3>1 DEF CheckpointCoversExamined
  <2> QED BY <1>1, <2>1 DEF CoverInv
<1>9. OrderInv
  BY <1>1 DEF OrderInv, QueueOrder, BufferOrder, TransitOrder, OnlineOrder
<1>10. BreakInv
  <2>1. PendingBreaks = {}
    BY <1>1 DEF PendingBreaks, Unseen
  <2> QED BY <1>1, <1>4, <2>1 DEF BreakInv
<1> QED BY <1>3, <1>5, <1>6, <1>7, <1>8, <1>9, <1>10 DEF IntakeInv

LEMMA StepPreserves ==
    ASSUME NoOverlap, IntakeInv, RecordedInv, [Next]_vars
    PROVE  IntakeInv'
<1>1. TypeOK'
  BY TypesKept
<1>2. CASE Gateway \/ Post \/ Disconnected
  BY <1>1, <1>2, PostStep, DisconnectedStep, DeliverStep, ReconnectedStep DEF Gateway
<1>3. CASE MessageStep \/ MessageFails
  BY <1>1, <1>3, MessageIsBufferedStep, MessageIsProcessedStep, MessageIsDoneStep, MessageFailsStep
     DEF MessageStep
<1>4. CASE ReconcileStep \/ ReconcileFails
  BY <1>1, <1>4, ReconcileLooksStep, ReconcileJudgesStep, ReconcileAdvancesStep,
     ReconcileFinishesStep, ReconcileFailsStep DEF ReconcileStep
<1>5. CASE Continue
  BY <1>1, <1>5, ContinueReconnectStep, ContinueStartupStep, EnableLiveIntakeStep, GoneStep
     DEF Continue, StartupFails
<1>6. CASE Start \/ Crash
  BY <1>1, <1>6, StartStep, GoneStep DEF Crash
<1>7. CASE CancelRound \/ ActivateRound
  BY <1>1, <1>7, RoundStep
<1>8. CASE UNCHANGED vars
  BY <1>1, <1>8, NothingStirs DEF vars
<1>9. CASE Dispatch
  BY <1>1, <1>9, DispatchStep
<1> QED BY <1>2, <1>3, <1>4, <1>5, <1>6, <1>7, <1>8, <1>9 DEF Next

-----------------------------------------------------------------------------
\* The steps in which a message gets its disposition.

LEMMA OnlyJudgedChanges ==
    ASSUME TypeOK, NEW m \in Messages, NEW defer \in BOOLEAN, ProcessMessage(m, defer),
           NEW x \in Messages, disposition'[x] # disposition[x]
    PROVE  x = m /\ RoundActive /\ disposition'[x].kind # "invalidated"
<1>1. ProcessNumeric(m, defer)
  BY DEF ProcessMessage, ProcessWithoutEffect, game
<1>2. PICK kind \in {"recorded", "broken"} :
        disposition' = [disposition EXCEPT ![m] = [kind |-> kind, by |-> 0, round |-> Latest]]
  <2>1. Judged(m, "recorded", 0) \/ Judged(m, "broken", 0)
    BY <1>1 DEF ProcessNumeric
  <2> QED BY <2>1 DEF Judged
<1>3. DOMAIN disposition = Messages
  BY DEF TypeOK
<1>4. x = m
  BY <1>2, <1>3
<1>5. disposition'[m].kind = kind
  <2>1. disposition'[m] = [kind |-> kind, by |-> 0, round |-> Latest]
    BY <1>2, <1>3
  <2> QED BY <2>1
<1> QED BY <1>1, <1>4, <1>5 DEF ProcessNumeric

LEMMA OnlyThreeJudge ==
    ASSUME [Next]_vars, disposition' # disposition
    PROVE  MessageIsProcessed \/ ReconcileEvaluates \/ ReconcileInvalidates
<1>1. ASSUME UNCHANGED game PROVE FALSE
  BY <1>1 DEF game
<1>2. ~Post /\ ~Disconnected /\ ~Gateway
  BY <1>1 DEF Post, Disconnected, Gateway, Deliver, Reconnected
<1>3. ~MessageIsBuffered /\ ~MessageIsDone /\ ~MessageFails /\ ~ReconcileFails
  BY <1>1 DEF MessageIsBuffered, MessageIsDone, MessageFails, ReconcileFails
<1>4. /\ ~ReconcileStarts /\ ~ReconcileLists /\ ~ReconcileSkips /\ ~ReconcileAdvances
      /\ ~ReconcileLooksAgain /\ ~ReconcileFinishes
  BY <1>1 DEF ReconcileStarts, ReconcileLists, ReconcileSkips, ReconcileAdvances,
              ReconcileLooksAgain, ReconcileFinishes
<1>5. ~Continue /\ ~Start /\ ~Crash
  BY <1>1 DEF Continue, ContinueReconnect, ContinueStartup, StartupFails, EnableLiveIntake, Gone,
              Start, Crash
<1>6. ~CancelRound /\ ~ActivateRound /\ ~Dispatch
  BY DEF CancelRound, ActivateRound, Dispatch
<1>7. ~UNCHANGED vars
  BY DEF vars
<1> QED BY <1>2, <1>3, <1>4, <1>5, <1>6, <1>7 DEF Next, MessageStep, ReconcileStep

\* Whoever judges a message has examined it.
LEMMA RecordedKept ==
    ASSUME IntakeInv, RecordedInv, [Next]_vars
    PROVE  RecordedInv'
<1>1. TypeOK /\ BootInv /\ GateInv /\ JobInv
  BY DEF IntakeInv
<1>2. examined \subseteq examined'
  BY DEF Next, Gateway, MessageStep, ReconcileStep, Continue, Post, Disconnected, Deliver, Reconnected,
         MessageIsBuffered, MessageIsProcessed, MessageIsDone, MessageFails, ReconcileStarts,
         ReconcileLists, ReconcileEvaluates, ReconcileInvalidates, ReconcileSkips, ReconcileAdvances,
         ReconcileLooksAgain, ReconcileFinishes, ReconcileFails, ContinueReconnect, ContinueStartup,
         StartupFails, EnableLiveIntake, Gone, Start, Crash, CancelRound, ActivateRound, Dispatch,
         ProcessMessage, history, vars
<1>3. ASSUME NEW x \in Messages, disposition'[x] # disposition[x]
      PROVE  x \in examined'
  <2>1. DOMAIN disposition = Messages
    BY <1>1 DEF TypeOK
  <2>2. CASE MessageIsProcessed
    <3>1. queue # << >> /\ Head(queue).kind = "message" /\ ProcessMessage(Head(queue).message, FALSE)
      BY <2>2 DEF MessageIsProcessed, Running
    <3>2. Head(queue).message \in Messages
      BY <1>1, <3>1, MessageAtHead
    <3>3. x = Head(queue).message
      BY <1>1, <1>3, <3>1, <3>2, OnlyJudgedChanges
    <3> QED BY <3>1, <3>3 DEF ProcessMessage
  <2>3. CASE ReconcileEvaluates
    <3>1. /\ queue # << >> /\ Head(queue).kind = "reconcile" /\ job.pc = "judge"
          /\ ProcessMessage(NextMessage, TRUE)
      BY <2>3 DEF ReconcileEvaluates, Running
    <3>2. HeadReconciles
      BY <1>1, <3>1, ReconcileAtHead
    <3>3. NextMessage \in Messages
      BY <1>1, <3>1, <3>2, WindowTyped DEF JobInv
    <3>4. x = NextMessage
      BY <1>1, <1>3, <3>1, <3>3, OnlyJudgedChanges
    <3> QED BY <3>1, <3>4 DEF ProcessMessage
  <2>4. CASE ReconcileInvalidates
    <3>1. /\ disposition' = disposition \/ Judged(NextMessage, "invalidated", job.breaking)
          /\ examined' = examined \cup {NextMessage}
      BY <2>4 DEF ReconcileInvalidates
    <3>2. x = NextMessage
      BY <1>3, <2>1, <3>1 DEF Judged
    <3> QED BY <3>1, <3>2
  <2>5. disposition' # disposition
    BY <1>3
  <2> QED BY <2>2, <2>3, <2>4, <2>5, OnlyThreeJudge
<1> QED BY <1>2, <1>3 DEF RecordedInv, Fresh

-----------------------------------------------------------------------------
\* The inductive invariant: where every message is that a player posted in the round and
\* nobody examined, what the reconciliation under way has read, and which break waits.
THEOREM IntakeInvariant ==
    ASSUME NoOverlap
    PROVE  Spec => []IntakeInv
<1>1. Init => IntakeInv /\ RecordedInv
  BY InitEstablishes DEF Init, RecordedInv, Fresh
<1>2. IntakeInv /\ RecordedInv /\ [Next]_vars => IntakeInv' /\ RecordedInv'
  BY StepPreserves, RecordedKept
<1> QED BY <1>1, <1>2, PTL DEF Spec

\* The types of the variables of MessageIntake.
THEOREM IntakeIsTyped ==
    ASSUME NoOverlap
    PROVE  Spec => []TypeOK
<1>1. IntakeInv => TypeOK
  BY DEF IntakeInv
<1> QED BY <1>1, IntakeInvariant, PTL

\* While a round is active, no player's message posted in it at or before the durable
\* checkpoint was passed over: the checkpoint of DiscordAdapter and of
\* ReconciliationService never takes in what neither has examined.
THEOREM NothingIsPassedOver ==
    ASSUME NoOverlap
    PROVE  Spec => []CheckpointCoversExamined
<1>1. IntakeInv => CheckpointCoversExamined
  BY DEF IntakeInv, CoverInv
<1> QED BY <1>1, IntakeInvariant, PTL

-----------------------------------------------------------------------------
\* The judgement of messages.

\* What a reconciliation judges is the first that nobody examined.
LEMMA FirstOfTheWindow ==
    ASSUME IntakeInv, Running("reconcile", "judge")
    PROVE  /\ HeadReconciles /\ NextMessage \in Messages
           /\ RoundActive => \A k \in Eligible : since < k /\ k < NextMessage => k \in examined
<1>1. /\ TypeOK /\ BootInv /\ GateInv /\ JobInv /\ CoverInv
  BY DEF IntakeInv
<1>2. HeadReconciles /\ job.pc = "judge"
  BY <1>1, ReconcileAtHead DEF Running
<1>3. job.cursor = checkpoint /\ Window # {} /\ WindowLeft
  BY <1>1, <1>2 DEF JobInv
<1>4. /\ NextMessage \in Messages /\ NextMessage \in Nat /\ NextMessage <= job.highWater
      /\ \A m \in Window : NextMessage <= m
  BY <1>1, <1>2, <1>3, WindowTyped
<1>5. checkpoint \in Nat /\ job.highWater \in Nat /\ \A u \in Eligible : u \in Nat
  BY <1>1, NumbersTyped
<1>6. ASSUME RoundActive, NEW k \in Eligible, since < k, k < NextMessage
      PROVE  k \in examined
  <2>1. CASE k <= checkpoint
    BY <1>1, <1>6, <2>1 DEF CoverInv, CheckpointCoversExamined
  <2>2. CASE ~(k <= checkpoint)
    <3>1. k \in Window \/ k \in examined
      BY <1>3, <1>4, <1>5, <1>6, <2>2 DEF WindowLeft
    <3> QED BY <1>4, <1>5, <1>6, <3>1
  <2> QED BY <2>1, <2>2
<1> QED BY <1>2, <1>4, <1>6

\* When a message gets its disposition in an active round, every earlier message that a
\* player posted in the round has been examined, whichever of the live messages and the
\* reconciliations examined it: no gap and no failure lets a number be judged before its
\* predecessor.
THEOREM MessagesAreJudgedInOrder ==
    ASSUME NoOverlap
    PROVE  Spec => JudgedInOrder
<1> DEFINE InOrder == RoundActive =>
             \A m \in Messages : disposition'[m] # disposition[m] =>
                \A k \in Eligible : since < k /\ k < m => k \in examined
<1>1. ASSUME IntakeInv, [Next]_vars PROVE [InOrder]_vars
  <2> SUFFICES ASSUME RoundActive, NEW m \in Messages, disposition'[m] # disposition[m],
                      NEW k \in Eligible, since < k, k < m
               PROVE  k \in examined
    OBVIOUS
  <2>1. /\ TypeOK /\ BootInv /\ GateInv /\ CoverInv /\ OrderInv
    BY <1>1 DEF IntakeInv
  <2>2. CASE MessageIsProcessed
    <3>1. /\ queue # << >> /\ Head(queue).kind = "message" /\ ~intakeFailure
          /\ ProcessMessage(Head(queue).message, FALSE)
      BY <2>2 DEF MessageIsProcessed, Running
    <3>2. 1 \in DOMAIN queue /\ IsMessage(1) /\ Head(queue) = queue[1] /\ queue[1].message \in Messages
      BY <2>1, <3>1, MessageAtHead
    <3>3. m = queue[1].message
      BY <2>1, <3>1, <3>2, OnlyJudgedChanges
    <3>4. m <= posted /\ m \in Nat /\ k \in Nat /\ posted \in Nat
      BY <2>1, <3>2, <3>3, NumbersTyped DEF CoverInv
    <3>5. k \in examined \/ Due(k)
      BY <3>4 DEF Due
    <3>6. ~(\E j \in DOMAIN queue : j < 1)
      BY <2>1, QueueTyped
    <3> QED BY <2>1, <3>1, <3>2, <3>3, <3>5, <3>6 DEF OrderInv, QueueOrder
  <2>3. CASE ReconcileEvaluates
    <3>1. Running("reconcile", "judge") /\ ProcessMessage(NextMessage, TRUE)
      BY <2>3 DEF ReconcileEvaluates
    <3>2. NextMessage \in Messages
      BY <1>1, <3>1, FirstOfTheWindow
    <3>3. m = NextMessage
      BY <2>1, <3>1, <3>2, OnlyJudgedChanges
    <3> QED BY <1>1, <3>1, <3>3, FirstOfTheWindow
  <2>4. CASE ReconcileInvalidates
    <3>1. Running("reconcile", "judge")
          /\ (disposition' = disposition \/ Judged(NextMessage, "invalidated", job.breaking))
      BY <2>4 DEF ReconcileInvalidates
    <3>2. DOMAIN disposition = Messages
      BY <2>1 DEF TypeOK
    <3>3. m = NextMessage
      BY <3>1, <3>2 DEF Judged
    <3> QED BY <1>1, <3>1, <3>3, FirstOfTheWindow
  <2> QED BY <1>1, <2>2, <2>3, <2>4, OnlyThreeJudge
<1> HIDE DEF InOrder
<1>2. Spec => [][InOrder]_vars
  BY <1>1, IntakeInvariant, PTL DEF Spec
<1> QED BY <1>2 DEF JudgedInOrder, InOrder

\* A message is invalidated only on account of a break that still waits for its reset, and
\* while a break of the latest round waits, no message of the round is evaluated, also when
\* the process stopped or a reconciliation failed in between.
THEOREM NothingIsEvaluatedBeforeTheReset ==
    ASSUME NoOverlap
    PROVE  Spec => InvalidatedUntilTheReset
<1> DEFINE UntilTheReset ==
             \A m \in Messages : disposition'[m] # disposition[m] =>
               IF disposition'[m].kind = "invalidated"
                 THEN disposition'[m].by \in PendingBreaks
                 ELSE \A b \in PendingBreaks : disposition[b].round # Latest
<1>1. ASSUME IntakeInv, [Next]_vars PROVE [UntilTheReset]_vars
  <2> SUFFICES ASSUME NEW m \in Messages, disposition'[m] # disposition[m]
               PROVE  IF disposition'[m].kind = "invalidated"
                        THEN disposition'[m].by \in PendingBreaks
                        ELSE \A b \in PendingBreaks : disposition[b].round # Latest
    OBVIOUS
  <2>1. TypeOK /\ BootInv /\ GateInv /\ BreakInv
    BY <1>1 DEF IntakeInv
  <2>2. CASE MessageIsProcessed
    <3>1. /\ queue # << >> /\ Head(queue).kind = "message" /\ ~intakeFailure
          /\ ProcessMessage(Head(queue).message, FALSE)
      BY <2>2 DEF MessageIsProcessed, Running
    <3>2. 1 \in DOMAIN queue /\ IsMessage(1) /\ Head(queue) = queue[1] /\ queue[1].message \in Messages
      BY <2>1, <3>1, MessageAtHead
    <3>3. RoundActive /\ disposition'[m].kind # "invalidated"
      BY <2>1, <3>1, <3>2, OnlyJudgedChanges
    <3>4. ~TakenUpFirst
      <4>1. ~(\E j \in DOMAIN queue : j < 1)
        BY <2>1, QueueTyped
      <4> QED BY <3>1, <3>2, <4>1 DEF TakenUpFirst
    <3> QED BY <2>1, <3>3, <3>4 DEF BreakInv
  <2>3. CASE ReconcileEvaluates
    <3>1. /\ Running("reconcile", "judge") /\ ProcessMessage(NextMessage, TRUE) /\ job.breaking = 0
      BY <2>3 DEF ReconcileEvaluates
    <3>2. HeadReconciles /\ NextMessage \in Messages
      BY <1>1, <3>1, FirstOfTheWindow
    <3>3. disposition'[m].kind # "invalidated"
      BY <2>1, <3>1, <3>2, OnlyJudgedChanges
    <3>4. PendingBreaks = {}
      BY <2>1, <3>1, <3>2 DEF BreakInv
    <3> QED BY <3>3, <3>4
  <2>4. CASE ReconcileInvalidates
    <3>1. /\ Running("reconcile", "judge") /\ job.breaking # 0
          /\ (disposition' = disposition \/ Judged(NextMessage, "invalidated", job.breaking))
      BY <2>4 DEF ReconcileInvalidates
    <3>2. HeadReconciles
      BY <1>1, <3>1, FirstOfTheWindow
    <3>3. job.breaking \in PendingBreaks
      BY <2>1, <3>1, <3>2 DEF BreakInv
    <3>4. DOMAIN disposition = Messages
      BY <2>1 DEF TypeOK
    <3>5. disposition'[m].kind = "invalidated" /\ disposition'[m].by = job.breaking
      BY <3>1, <3>4 DEF Judged
    <3> QED BY <3>3, <3>5
  <2> QED BY <1>1, <2>2, <2>3, <2>4, OnlyThreeJudge
<1> HIDE DEF UntilTheReset
<1>2. Spec => [][UntilTheReset]_vars
  BY <1>1, IntakeInvariant, PTL DEF Spec
<1> QED BY <1>2 DEF InvalidatedUntilTheReset, UntilTheReset
=============================================================================
