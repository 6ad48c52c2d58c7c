------------------------- MODULE BotSupervisorProofs -------------------------
(***************************************************************************)
(* For any number of clicks, crashes and restarts: a bot that runs is the  *)
(* one the supervisor knows, Stopped means that none runs, a bot that      *)
(* keeps crashing is restarted at most NumRestarts times in a row, and     *)
(* only a restart that was under way outlives an exit.                     *)
(*                                                                         *)
(* The argument.  The gate admits the commands one at a time and in the    *)
(* order of the clicks (GateInv), and a command that has the bot's exit to *)
(* wait for has silenced the monitor (MonitorInv).  So a bot is started    *)
(* only when no other runs (BotInv).  Every bot was started by a command   *)
(* or replaces one that crashed (CreditInv), which bounds their number.    *)
(***************************************************************************)
EXTENDS BotSupervisor, FiniteSetTheorems, TLAPS

Stopping == {"wantStop", "shutdown", "waiting"}
AtGate == Stopping \cup {"wantStart"}
Active == monitor.at \in {"probe", "rest", "backoff"}

\* The queue of the gate: nobody twice, only commands that want something, the
\* one that talks to the bot in front, one waiter at most once the gate is
\* disposed, and those that still have to stop the bot in the order of the
\* clicks, behind the ones that want to start it.
GateInv ==
    /\ \A i, j \in DOMAIN queue : queue[i] = queue[j] => i = j
    /\ \A i \in DOMAIN queue : pc[queue[i]] \in AtGate
    /\ \A c \in Commands :
          pc[c] \in {"shutdown", "waiting"} \/ (c = 1 /\ pc[c] = "wantStart")
             => queue # <<>> /\ Head(queue) = c
    /\ gateDisposed => Len(queue) <= 1
    /\ pc[1] = "wantStart" => ~gateDisposed
    /\ \A i, j \in DOMAIN queue :
          pc[queue[j]] \in Stopping /\ (pc[queue[i]] = "wantStart" \/ i < j)
             => queue[i] < queue[j]

\* What a command may be doing, and that only its own start answers it.
KindInv ==
    \A c \in Commands :
       /\ pc[c] = "idle" <=> kind[c] = "none"
       /\ pc[c] \in Stopping => kind[c] \in {"restart", "exit"}
       /\ pc[c] \in {"wantStart", "awaiting"} => kind[c] \in {"start", "restart"}
       /\ kind[c] = "start" <=> c = 1
       /\ kind[c] # "none" => \A d \in 1 .. c : kind[d] # "none"
       /\ pc[c] \in AtGate \cup {"idle"} => answer[c] = "none"

\* A running monitor observes the supervisor's process, and a command that talks
\* to the bot has cancelled it.
MonitorInv ==
    /\ Active => process = monitor.observed /\ process # NoBot
    /\ monitor.at = "backoff" => ~bots[process].alive
    /\ overtaken => monitor.at \in {"probe", "backoff"}
    /\ \A c \in Commands :
          /\ pc[c] \in {"shutdown", "waiting"} => process # NoBot /\ (Active => overtaken)
          /\ pc[c] = "waiting" => ~overtaken

\* A bot that runs is known, its handle is open, and the launcher says so.
BotInv ==
    \A b \in DOMAIN bots :
       bots[b].alive => process = b /\ ~bots[b].disposed /\ state # "Stopped"

\* The bots are paid for by the commands that started one and by crashes.
Started == {c \in Commands : answer[c] # "none"}
ToReplace == IF Active /\ ~bots[monitor.observed].alive THEN 1 ELSE 0
CreditInv == Len(bots) + ToReplace <= Cardinality(Started) + crashes

\* The budget of restarts is full again only after a bot that lived long enough.
RapidInv ==
    /\ monitor.rapid <= NumRestarts
    /\ monitor.botAge < HealthLimit => monitor.rapid <= monitor.restartCount
    /\ monitor.healthyAge <= monitor.botAge
    /\ monitor.at = "backoff" => monitor.restartCount < NumRestarts

\* The last start is that of a restart clicked before the exit x, which found the
\* gate disposed when it let go of it.
RestartBefore(x) ==
    \E c \in 1 .. (x - 1) : startup = c /\ kind[c] = "restart" /\ pc[c] = "threw"

ExitInv ==
    \A x \in Commands : kind[x] = "exit" /\ pc[x] = "returned" =>
       /\ gateDisposed
       /\ \A i \in DOMAIN queue :
             pc[queue[i]] = "wantStart" => kind[queue[i]] = "restart" /\ queue[i] < x
       /\ process # NoBot => RestartBefore(x)

SupervisorInv ==
    /\ TypeOK
    /\ GateInv
    /\ KindInv
    /\ MonitorInv
    /\ BotInv
    /\ CreditInv
    /\ RapidInv
    /\ ExitInv

-----------------------------------------------------------------------------
\* Queues and lists of bots.

LEMMA TailOfQueue ==
    ASSUME NEW q \in Seq(Commands), q # <<>>
    PROVE  /\ Tail(q) \in Seq(Commands) /\ Len(Tail(q)) = Len(q) - 1
           /\ DOMAIN Tail(q) = 1 .. (Len(q) - 1)
           /\ \A i \in DOMAIN Tail(q) : i + 1 \in DOMAIN q /\ Tail(q)[i] = q[i + 1]
           /\ 1 \in DOMAIN q /\ Head(q) = q[1] /\ Head(q) \in Commands
           /\ Len(q) \in Nat \ {0} /\ DOMAIN q = 1 .. Len(q)
OBVIOUS

LEMMA AppendToQueue ==
    ASSUME NEW q \in Seq(Commands), NEW c \in Commands
    PROVE  /\ Append(q, c) \in Seq(Commands)
           /\ DOMAIN Append(q, c) = 1 .. (Len(q) + 1) /\ Len(q) \in Nat
           /\ \A i \in DOMAIN q : Append(q, c)[i] = q[i]
           /\ DOMAIN q = 1 .. Len(q)
           /\ Append(q, c)[Len(q) + 1] = c
           /\ Append(q, c) # <<>>
           /\ q # <<>> => Head(Append(q, c)) = Head(q)
           /\ q = <<>> => Head(Append(q, c)) = c
<1>1. /\ Append(q, c) \in Seq(Commands)
      /\ Len(Append(q, c)) = Len(q) + 1 /\ Len(q) \in Nat
      /\ DOMAIN q = 1 .. Len(q) /\ DOMAIN Append(q, c) = 1 .. Len(Append(q, c))
  OBVIOUS
<1>2. /\ \A i \in 1 .. Len(q) : Append(q, c)[i] = q[i]
      /\ Append(q, c)[Len(q) + 1] = c
  OBVIOUS
<1>3. Append(q, c) # <<>>
  BY <1>1
<1>4. Head(Append(q, c)) = Append(q, c)[1]
  BY <1>1
<1>5. ASSUME q # <<>> PROVE Head(q) = q[1] /\ 1 \in 1 .. Len(q)
  BY <1>5
<1>6. ASSUME q = <<>> PROVE Len(q) + 1 = 1
  BY <1>6
<1> QED BY <1>1, <1>2, <1>3, <1>4, <1>5, <1>6

\* One bot changes.
LEMMA ABotChanges ==
    ASSUME bots \in Seq(Bot), NEW b \in DOMAIN bots, NEW bot \in Bot,
           bots' = [bots EXCEPT ![b] = bot]
    PROVE  /\ bots' \in Seq(Bot) /\ Len(bots') = Len(bots) /\ DOMAIN bots' = DOMAIN bots
           /\ bots'[b] = bot /\ \A d \in DOMAIN bots \ {b} : bots'[d] = bots[d]
OBVIOUS

\* A bot is started.
LEMMA ABotStarts ==
    ASSUME bots \in Seq(Bot), StartBot
    PROVE  /\ bots' \in Seq(Bot) /\ Len(bots') = Len(bots) + 1 /\ Len(bots) \in Nat
           /\ process' = Len(bots) + 1 /\ process' # NoBot
           /\ DOMAIN bots' = DOMAIN bots \cup {process'}
           /\ bots'[process'] = [alive |-> TRUE, deterministic |-> FALSE, disposed |-> FALSE]
           /\ \A b \in DOMAIN bots : b # process' /\ bots'[b] = bots[b]
<1> DEFINE bot == [alive |-> TRUE, deterministic |-> FALSE, disposed |-> FALSE]
<1>1. bot \in Bot
  BY DEF Bot
<1>2. bots' = Append(bots, bot) /\ process' = Len(bots) + 1
  BY DEF StartBot
<1> HIDE DEF bot
<1>3. /\ Len(bots) \in Nat /\ bots' \in Seq(Bot) /\ Len(bots') = Len(bots) + 1
      /\ DOMAIN bots = 1 .. Len(bots) /\ DOMAIN bots' = 1 .. Len(bots) + 1
      /\ bots'[Len(bots) + 1] = bot
      /\ \A b \in 1 .. Len(bots) : bots'[b] = bots[b]
  BY <1>1, <1>2
<1> QED BY <1>2, <1>3 DEF bot, NoBot

-----------------------------------------------------------------------------
\* Credit: there is room for every bot that may be started.

LEMMA StartedIsFinite ==
    /\ IsFiniteSet(Started) /\ Cardinality(Started) \in Nat
    /\ Cardinality(Started) <= NumCommands
    /\ \A c \in Commands : c \notin Started => Cardinality(Started) < NumCommands
<1> USE CommandsAssumption
<1>1. IsFiniteSet(Commands) /\ Cardinality(Commands) = NumCommands
  BY FS_Interval DEF Commands
<1>2. Started \subseteq Commands
  BY DEF Started
<1>3. IsFiniteSet(Started) /\ Cardinality(Started) \in Nat /\ Cardinality(Started) <= NumCommands
  BY <1>1, <1>2, FS_Subset, FS_CardinalityType
<1>4. ASSUME NEW c \in Commands, c \notin Started
      PROVE  Cardinality(Started) < NumCommands
  <2>1. Cardinality(Started \cup {c}) = Cardinality(Started) + 1
    BY <1>3, <1>4, FS_AddElement
  <2>2. Cardinality(Started \cup {c}) <= NumCommands
    BY <1>1, <1>2, FS_Subset
  <2> QED BY <1>3, <2>1, <2>2
<1> QED BY <1>3, <1>4

LEMMA RoomForABot ==
    ASSUME SupervisorInv, monitor.at = "backoff" \/ \E c \in Commands : answer[c] = "none"
    PROVE  Len(bots) + 1 < MaxBots
<1> USE CommandsAssumption, CrashesAssumption
<1>1. /\ Len(bots) \in Nat /\ crashes \in Nat /\ crashes <= MaxCrashes
      /\ Len(bots) + ToReplace <= Cardinality(Started) + crashes
  BY DEF SupervisorInv, TypeOK, CreditInv
<1>2. Cardinality(Started) \in Nat /\ Cardinality(Started) <= NumCommands
  BY StartedIsFinite
<1>3. CASE monitor.at = "backoff"
  <2>1. ToReplace = 1
    BY <1>3 DEF SupervisorInv, MonitorInv, Active, ToReplace
  <2> QED BY <1>1, <1>2, <2>1 DEF MaxBots
<1>4. CASE \E c \in Commands : answer[c] = "none"
  <2>1. Cardinality(Started) < NumCommands
    BY <1>4, StartedIsFinite DEF Started
  <2>2. ToReplace \in {0, 1}
    BY DEF ToReplace
  <2> QED BY <1>1, <1>2, <2>1, <2>2 DEF MaxBots
<1> QED BY <1>3, <1>4

-----------------------------------------------------------------------------
\* Types.

LEMMA AnswersTyped ==
    ASSUME TypeOK, NEW result \in {"true", "false"}, SetStartup(result)
    PROVE  /\ answer' \in [Commands -> {"none", "pending", "true", "false"}]
           /\ \A c \in Commands : answer'[c] = "none" <=> answer[c] = "none"
BY DEF TypeOK, SetStartup

\* The front of the gate leaves it, and at most one of those behind stays.
Shifted(q, p) ==
    /\ q \in Seq(Commands) /\ Len(q) < Len(p)
    /\ \A i \in DOMAIN q : i + 1 \in DOMAIN p /\ q[i] = p[i + 1]

LEMMA GateLeft ==
    ASSUME TypeOK, NEW c \in Commands, queue # <<>>,
           NEW place \in {"awaiting", "returned", "threw"}, LeaveGate(c, place)
    PROVE  /\ Shifted(queue', queue)
           /\ pc' = [pc EXCEPT ![c] = IF gateDisposed THEN "threw" ELSE place]
           /\ gateDisposed' = gateDisposed
BY TailOfQueue DEF TypeOK, LeaveGate, Shifted

\* What follows a stop: the command leaves, a restart lines up for its start,
\* an exit disposes the gate.
LEMMA StopLeft ==
    ASSUME TypeOK, NEW c \in Commands, queue # <<>>, kind[c] \in {"restart", "exit"}, AfterStop(c)
    PROVE  \/ /\ gateDisposed /\ gateDisposed' = TRUE /\ Shifted(queue', queue)
              /\ pc' = [pc EXCEPT ![c] = "threw"]
           \/ /\ ~gateDisposed /\ gateDisposed' = FALSE /\ kind[c] = "restart"
              /\ queue' = Append(Tail(queue), c)
              /\ pc' = [pc EXCEPT ![c] = "wantStart"]
           \/ /\ ~gateDisposed /\ gateDisposed' = TRUE /\ kind[c] = "exit"
              /\ Shifted(queue', queue) /\ Len(queue') <= 1
              /\ pc' = [pc EXCEPT ![c] = "returned"]
<1> gateDisposed \in BOOLEAN /\ queue \in Seq(Commands)
  BY DEF TypeOK
<1>1. CASE gateDisposed
  <2>1. LeaveGate(c, "threw")
    BY <1>1 DEF AfterStop
  <2> QED BY <1>1, <2>1, GateLeft
<1>2. CASE ~gateDisposed /\ kind[c] = "restart"
  BY <1>2 DEF AfterStop
<1>3. CASE ~gateDisposed /\ kind[c] = "exit"
  <2>1. /\ queue' = IF Tail(queue) = <<>> THEN <<>> ELSE <<Head(Tail(queue))>>
        /\ pc' = [pc EXCEPT ![c] = "returned"] /\ gateDisposed' = TRUE
    BY <1>3 DEF AfterStop
  <2>2. CASE Tail(queue) = <<>>
    BY <1>3, <2>1, <2>2, TailOfQueue DEF Shifted
  <2>3. CASE Tail(queue) # <<>>
    <3>1. Tail(queue) \in Seq(Commands) /\ Head(Tail(queue)) = Tail(queue)[1] /\ 1 \in DOMAIN Tail(queue)
      BY <2>3, TailOfQueue
    <3>2. Tail(queue)[1] = queue[2] /\ 2 \in DOMAIN queue /\ Len(queue) > 1 /\ queue[2] \in Commands
      BY <3>1, TailOfQueue
    <3>3. queue' = <<queue[2]>>
      BY <2>1, <2>3, <3>1, <3>2
    <3> QED BY <1>3, <2>1, <3>2, <3>3 DEF Shifted
  <2> QED BY <2>2, <2>3
<1> QED BY <1>1, <1>2, <1>3

\* The commands' own variables.
CommandTypes ==
    /\ queue' \in Seq(Commands)
    /\ gateDisposed' \in BOOLEAN
    /\ pc' \in [Commands -> {"idle", "wantStop", "shutdown", "waiting",
                             "wantStart", "awaiting", "returned", "threw"}]

LEMMA GateLeftTyped ==
    ASSUME TypeOK, NEW c \in Commands, queue # <<>>,
           \/ \E place \in {"awaiting", "returned", "threw"} : LeaveGate(c, place)
           \/ AfterStop(c) /\ kind[c] \in {"restart", "exit"}
    PROVE  CommandTypes
<1> USE DEF TypeOK
<1>1. CASE \E place \in {"awaiting", "returned", "threw"} : LeaveGate(c, place)
  BY <1>1, GateLeft DEF CommandTypes, Shifted
<1>2. CASE AfterStop(c) /\ kind[c] \in {"restart", "exit"}
  <2>1. Append(Tail(queue), c) \in Seq(Commands)
    BY TailOfQueue, AppendToQueue
  <2> QED BY <1>2, <2>1, StopLeft DEF CommandTypes, Shifted
<1> QED BY <1>1, <1>2

LEMMA ACrashedBot ==
    ASSUME NEW bot \in Bot, NEW d \in BOOLEAN
    PROVE  [bot EXCEPT !.alive = FALSE, !.deterministic = d] \in Bot
BY DEF Bot

LEMMA AnObservation ==
    ASSUME NEW m \in Monitor, NEW b \in 0 .. MaxBots
    PROVE  [m EXCEPT !.at = "probe", !.observed = b] \in Monitor
BY DEF Monitor

LEMMA ANewObservation ==
    ASSUME NEW b \in 0 .. MaxBots, NEW used \in 0 .. NumRestarts,
           NEW age \in Ages \cup {NotYet}, NEW fast \in Nat
    PROVE  [at |-> "probe", observed |-> b, restartCount |-> used, healthyAge |-> age,
            unavailableAge |-> 0, botAge |-> 0, rapid |-> fast] \in Monitor
<1> 0 \in Ages
  BY LimitAssumption DEF Ages
<1> QED BY DEF Monitor

LEMMA ARestartIsLeft ==
    ASSUME NEW m \in Monitor, m.restartCount < NumRestarts
    PROVE  m.restartCount + 1 \in 0 .. NumRestarts /\ m.rapid \in Nat
BY RestartsAssumption DEF Monitor

\* The monitor of a new bot.
LEMMA MonitorsTyped ==
    ASSUME TypeOK
    PROVE  /\ NoMonitor \in Monitor
           /\ [NoMonitor EXCEPT !.at = "threw"] \in Monitor
           /\ Len(bots) < MaxBots =>
                 [NoMonitor EXCEPT !.at = "probe", !.observed = Len(bots) + 1] \in Monitor
           /\ \A place \in {"probe", "rest", "backoff"} : [monitor EXCEPT !.at = place] \in Monitor
<1>1. /\ MaxBots \in Nat /\ NumRestarts \in Nat /\ HealthLimit \in Nat /\ Len(bots) \in Nat
  BY CommandsAssumption, CrashesAssumption, RestartsAssumption, LimitAssumption DEF TypeOK, MaxBots
<1>2. NoMonitor \in Monitor
  BY <1>1 DEF NoMonitor, Monitor, Ages, NotYet, NoBot
<1>3. [NoMonitor EXCEPT !.at = "threw"] \in Monitor
  BY <1>1 DEF NoMonitor, Monitor, Ages, NotYet, NoBot
<1>4. ASSUME Len(bots) < MaxBots
      PROVE  [NoMonitor EXCEPT !.at = "probe", !.observed = Len(bots) + 1] \in Monitor
  <2>1. Len(bots) + 1 \in 0 .. MaxBots
    BY <1>1, <1>4
  <2> QED BY <1>2, <2>1, AnObservation
<1>5. ASSUME NEW place \in {"probe", "rest", "backoff"}
      PROVE  [monitor EXCEPT !.at = place] \in Monitor
  BY DEF TypeOK, Monitor
<1> QED BY <1>2, <1>3, <1>4, <1>5

LEMMA ACrashCounted ==
    ASSUME TypeOK, crashes < MaxCrashes, crashes' = crashes + 1
    PROVE  crashes' \in 0 .. MaxCrashes
BY CrashesAssumption DEF TypeOK

LEMMA AProcessTerminates ==
    ASSUME TypeOK, process # NoBot,
           bots' = [bots EXCEPT ![process] = Disposed(IF @.alive THEN ForceTerminated(@) ELSE @)]
    PROVE  /\ bots' \in Seq(Bot) /\ Len(bots') = Len(bots) /\ DOMAIN bots' = DOMAIN bots
           /\ ~bots'[process].alive
           /\ \A d \in DOMAIN bots \ {process} : bots'[d] = bots[d]
<1> DEFINE old == bots[process]
           new == Disposed(IF old.alive THEN ForceTerminated(old) ELSE old)
<1>1. process \in DOMAIN bots /\ bots \in Seq(Bot) /\ old \in Bot
  BY DEF TypeOK
<1>2. new \in Bot /\ ~new.alive
  BY <1>1 DEF Disposed, ForceTerminated, Bot
<1>3. bots' = [bots EXCEPT ![process] = new]
  OBVIOUS
<1> HIDE DEF new
<1> QED BY <1>1, <1>2, <1>3, ABotChanges

LEMMA CommandsKeepTypes ==
    ASSUME SupervisorInv, NEW c \in Commands, CommandStep(c)
    PROVE  TypeOK'
<1> TypeOK
  BY DEF SupervisorInv
<1> USE MonitorsTyped DEF TypeOK
<1>0. \A place \in {"wantStop", "shutdown", "waiting"} : HasGate(c, place) =>
         queue # <<>> /\ kind[c] \in {"restart", "exit"}
  BY DEF SupervisorInv, KindInv, HasGate, Stopping
<1>1. CASE StopFindsNoBot(c)
  <2>1. CommandTypes
    BY <1>0, <1>1, GateLeftTyped DEF StopFindsNoBot
  <2> QED BY <1>1, <2>1 DEF StopFindsNoBot, CommandTypes, States
<1>2. CASE StopBegins(c)
  <2>1. CommandTypes
    <3>1. CASE bots[process].disposed
      BY <1>0, <1>2, <3>1, GateLeftTyped DEF StopBegins
    <3>2. CASE ~bots[process].disposed
      BY <1>2, <3>2 DEF StopBegins, CommandTypes
    <3> QED BY <3>1, <3>2
  <2>2. monitor' \in Monitor /\ overtaken' \in BOOLEAN
    BY <1>2 DEF StopBegins, CancelMonitor
  <2>3. answer' \in [Commands -> {"none", "pending", "true", "false"}]
    BY <1>2, AnswersTyped DEF StopBegins, AnswerPendingStart
  <2> QED BY <1>2, <2>1, <2>2, <2>3 DEF StopBegins, CommandTypes, States
<1>3. CASE WriteSucceeds(c)
  BY <1>3 DEF WriteSucceeds
<1>4. CASE WriteFails(c)
  <2>1. CommandTypes
    BY <1>0, <1>4, GateLeftTyped DEF WriteFails
  <2> QED BY <1>4, <2>1 DEF WriteFails, CommandTypes
<1>5. CASE StopEnds(c)
  <2>1. CommandTypes
    BY <1>0, <1>5, GateLeftTyped DEF StopEnds
  <2>2. process # NoBot
    BY <1>5 DEF StopEnds, HasGate, SupervisorInv, MonitorInv
  <2>3. bots' \in Seq(Bot) /\ Len(bots') = Len(bots) /\ DOMAIN bots' = DOMAIN bots
    BY <1>5, <2>2, AProcessTerminates DEF StopEnds
  <2> QED BY <1>5, <2>1, <2>3 DEF StopEnds, CommandTypes, States
<1>6. CASE StartFindsBot(c)
  <2>1. CommandTypes
    BY <1>6, GateLeftTyped DEF StartFindsBot, HasGate
  <2> QED BY <1>6, <2>1 DEF StartFindsBot, CommandTypes
<1>7. CASE StartRuns(c)
  <2>1. CommandTypes
    BY <1>7, GateLeftTyped DEF StartRuns, HasGate
  <2>2. Len(bots) + 1 < MaxBots
    BY <1>7, RoomForABot DEF StartRuns, HasGate, SupervisorInv, KindInv, AtGate
  <2>3. bots' \in Seq(Bot) /\ Len(bots') = Len(bots) + 1 /\ process' \in DOMAIN bots'
        /\ Len(bots) \in Nat
    BY <1>7, ABotStarts DEF StartRuns
  <2>4. MaxBots \in Nat
    BY CommandsAssumption, CrashesAssumption DEF MaxBots
  <2>5. monitor' \in Monitor /\ Len(bots') <= MaxBots
    BY <1>7, <2>2, <2>3, <2>4 DEF StartRuns
  <2>6. answer' \in [Commands -> {"none", "pending", "true", "false"}]
    BY <1>7 DEF StartRuns
  <2>7. UNCHANGED <<kind, overtaken, crashes>> /\ startup' = c /\ state' = "Starting"
        /\ intentionalStop' = FALSE
    BY <1>7 DEF StartRuns
  <2> QED BY <2>1, <2>3, <2>5, <2>6, <2>7 DEF CommandTypes, States
<1>8. CASE StartThrows(c)
  <2>1. CommandTypes
    BY <1>8, GateLeftTyped DEF StartThrows, HasGate
  <2>2. crashes' \in 0 .. MaxCrashes
    BY <1>8, ACrashCounted DEF StartThrows
  <2> QED BY <1>8, <2>1, <2>2 DEF StartThrows, CommandTypes, States
<1>9. CASE StartReturns(c)
  BY <1>9 DEF StartReturns
<1> QED BY <1>1, <1>2, <1>3, <1>4, <1>5, <1>6, <1>7, <1>8, <1>9 DEF CommandStep

LEMMA MonitorKeepsTypes ==
    ASSUME SupervisorInv, MonitorStep \/ MonitorThrows
    PROVE  TypeOK'
<1> TypeOK
  BY DEF SupervisorInv
<1> USE MonitorsTyped DEF TypeOK
<1>0. Active => process = monitor.observed /\ process \in DOMAIN bots
  BY DEF SupervisorInv, MonitorInv
<1>1. CASE MonitorWakes
  <2>1. monitor.observed \in DOMAIN bots /\ bots[monitor.observed] \in Bot
    BY <1>0, <1>1 DEF MonitorWakes, Active
  <2>2. Disposed(bots[monitor.observed]) \in Bot
    BY <2>1 DEF Disposed, Bot
  <2>3. \/ bots' = [bots EXCEPT ![monitor.observed] = Disposed(bots[monitor.observed])]
        \/ bots' = bots
    BY <1>1 DEF MonitorWakes
  <2>4. bots' \in Seq(Bot) /\ Len(bots') = Len(bots) /\ DOMAIN bots' = DOMAIN bots
    BY <2>1, <2>2, <2>3, ABotChanges
  <2>5. \/ UNCHANGED <<process, state, answer>> /\ monitor' \in Monitor
        \/ GiveUp
    BY <1>1 DEF MonitorWakes
  <2>6. /\ process' \in {NoBot} \cup DOMAIN bots /\ state' \in States /\ monitor' \in Monitor
        /\ answer' \in [Commands -> {"none", "pending", "true", "false"}]
    BY <2>5, AnswersTyped DEF GiveUp, States
  <2> QED BY <1>1, <2>4, <2>6 DEF MonitorWakes, commandVars
<1>2. CASE BackoffEnds
  <2>1. Len(bots) + 1 < MaxBots /\ MaxBots \in Nat
    BY <1>2, RoomForABot, CommandsAssumption, CrashesAssumption DEF BackoffEnds, MaxBots
  <2>2. bots' \in Seq(Bot) /\ Len(bots') = Len(bots) + 1 /\ process' \in DOMAIN bots'
        /\ Len(bots) \in Nat
    BY <1>2, ABotStarts DEF BackoffEnds
  <2> DEFINE next == [at |-> "probe", observed |-> Len(bots) + 1,
                      restartCount |-> monitor.restartCount + 1,
                      healthyAge |-> HealthySinceRestart, unavailableAge |-> 0, botAge |-> 0,
                      rapid |-> IF monitor.botAge < HealthLimit THEN monitor.rapid + 1 ELSE 0]
  <2>3. next \in Monitor
    <3>1. monitor.restartCount + 1 \in 0 .. NumRestarts /\ monitor.rapid \in Nat
      <4>1. monitor.at = "backoff"
        BY <1>2 DEF BackoffEnds
      <4>2. monitor.restartCount < NumRestarts
        BY <4>1 DEF SupervisorInv, RapidInv
      <4> QED BY <4>2, ARestartIsLeft
    <3>2. Len(bots) + 1 \in 0 .. MaxBots
      BY <2>1, <2>2
    <3>3. HealthySinceRestart \in Ages \cup {NotYet}
      BY DEF HealthySinceRestart
    <3>4. (IF monitor.botAge < HealthLimit THEN monitor.rapid + 1 ELSE 0) \in Nat
      BY <3>1
    <3> QED BY <3>1, <3>2, <3>3, <3>4, ANewObservation, Zenon
  <2>4. monitor' \in Monitor
    BY <1>2, <2>3 DEF BackoffEnds, Continue
  <2> HIDE DEF next
  <2>5. /\ state' = "Starting" /\ overtaken' = FALSE
        /\ UNCHANGED <<intentionalStop, startup, answer, commandVars, crashes>>
    BY <1>2 DEF BackoffEnds
  <2>6. Len(bots') <= MaxBots
    BY <2>1, <2>2
  <2> QED BY <2>2, <2>4, <2>5, <2>6 DEF commandVars, States
<1>3. ASSUME NEW reply \in Answers, ProbeAnswers(reply) PROVE TypeOK'
  <2>1. /\ state' \in States
        /\ answer' \in [Commands -> {"none", "pending", "true", "false"}]
    BY <1>3, AnswersTyped DEF ProbeAnswers, AnswersReady, AnswersOtherwise, States
  <2>2. monitor' \in Monitor
    <3>1. CASE reply = "ready"
      <4> DEFINE age == IF monitor.healthyAge = NotYet THEN 0 ELSE monitor.healthyAge
                 next == [monitor EXCEPT !.at = "rest", !.healthyAge = age,
                             !.restartCount = IF age >= HealthLimit THEN 0 ELSE @,
                             !.unavailableAge = 0]
      <4>1. monitor' \in {NoMonitor, next}
        BY <1>3, <3>1 DEF ProbeAnswers, AnswersReady, Continue
      <4>2. age \in Ages /\ 0 \in Ages
        BY LimitAssumption DEF Monitor, Ages
      <4>3. (IF age >= HealthLimit THEN 0 ELSE monitor.restartCount) \in 0 .. NumRestarts
        BY RestartsAssumption DEF Monitor
      <4> HIDE DEF age
      <4>4. next \in Monitor
        BY <4>2, <4>3 DEF Monitor
      <4> QED BY <4>1, <4>4
    <3>2. CASE reply # "ready"
      BY <1>3, <3>2 DEF ProbeAnswers, AnswersOtherwise, Continue
    <3> QED BY <3>1, <3>2
  <2> QED BY <1>3, <2>1, <2>2 DEF ProbeAnswers, commandVars
<1>4. CASE MonitorThrows
  <2>1. crashes' \in 0 .. MaxCrashes
    BY <1>4, ACrashCounted DEF MonitorThrows
  <2> QED BY <1>4, <2>1 DEF MonitorThrows, commandVars
<1> QED BY <1>1, <1>2, <1>3, <1>4 DEF MonitorStep

LEMMA OthersKeepTypes ==
    ASSUME SupervisorInv,
           \/ \E c \in Commands, what \in {"restart", "exit"} : Click(c, what)
           \/ Tick
           \/ \E b \in DOMAIN bots : BotShutsDown(b)
           \/ \E b \in DOMAIN bots, deterministic \in BOOLEAN : BotCrashes(b, deterministic)
    PROVE  TypeOK'
<1> TypeOK
  BY DEF SupervisorInv
<1> USE DEF TypeOK
<1>1. ASSUME NEW c \in Commands, NEW what \in {"restart", "exit"}, Click(c, what) PROVE TypeOK'
  <2>1. Append(queue, c) \in Seq(Commands)
    OBVIOUS
  <2> QED BY <1>1, <2>1 DEF Click
<1>2. CASE Tick
  <2>1. \A age \in Ages : Older(age) \in Ages
    BY LimitAssumption DEF Ages, Older, NotYet
  <2>2. \A age \in Ages \cup {NotYet} : Older(age) \in Ages \cup {NotYet}
    BY <2>1 DEF Older
  <2>3. monitor' \in Monitor
    BY <1>2, <2>1, <2>2 DEF Tick, Monitor
  <2> QED BY <1>2, <2>3 DEF Tick, commandVars
<1>3. ASSUME NEW b \in DOMAIN bots, BotShutsDown(b) PROVE TypeOK'
  <2>1. bots[b] \in Bot /\ bots' = [bots EXCEPT ![b] = [bots[b] EXCEPT !.alive = FALSE]]
    BY <1>3 DEF BotShutsDown
  <2>2. [bots[b] EXCEPT !.alive = FALSE] \in Bot
    BY <2>1 DEF Bot
  <2>3. bots' \in Seq(Bot) /\ Len(bots') = Len(bots) /\ DOMAIN bots' = DOMAIN bots
    BY <2>1, <2>2, ABotChanges
  <2> QED BY <1>3, <2>3 DEF BotShutsDown, commandVars
<1>4. ASSUME NEW b \in DOMAIN bots, NEW d \in BOOLEAN, BotCrashes(b, d) PROVE TypeOK'
  <2> DEFINE bot == [bots[b] EXCEPT !.alive = FALSE, !.deterministic = d]
  <2>0. bots' = [bots EXCEPT ![b] = bot]
    BY <1>4, Zenon DEF BotCrashes
  <2>1. bots[b] \in Bot
    OBVIOUS
  <2>2. bot \in Bot
    BY <2>1, ACrashedBot
  <2>3. bots' \in Seq(Bot) /\ Len(bots') = Len(bots) /\ DOMAIN bots' = DOMAIN bots
    BY <2>0, <2>2, ABotChanges
  <2>4. crashes' \in 0 .. MaxCrashes
    BY <1>4, ACrashCounted DEF BotCrashes
  <2> QED BY <1>4, <2>3, <2>4 DEF BotCrashes, commandVars
<1> QED BY <1>1, <1>2, <1>3, <1>4

-----------------------------------------------------------------------------
\* The gate.

\* Nobody joins or leaves; the command in front may go on with its stop.
LEMMA GateStays ==
    ASSUME GateInv, UNCHANGED <<queue, gateDisposed>>, TypeOK,
           \A c \in Commands :
              \/ pc'[c] = pc[c]
              \/ pc[c] \in Stopping /\ pc'[c] \in Stopping /\ queue # <<>> /\ Head(queue) = c
              \/ pc[c] \notin AtGate /\ pc'[c] \notin AtGate
    PROVE  GateInv'
<1> USE CommandsAssumption
<1>1. 1 \in Commands /\ \A i \in DOMAIN queue : queue[i] \in Commands
  BY DEF TypeOK, Commands
<1>2. \A c \in Commands : /\ pc'[c] \in Stopping <=> pc[c] \in Stopping
                          /\ pc'[c] = "wantStart" <=> pc[c] = "wantStart"
  BY DEF AtGate, Stopping
<1>3. \A c \in Commands : pc'[c] \in {"shutdown", "waiting"} =>
         pc[c] \in {"shutdown", "waiting"} \/ (queue # <<>> /\ Head(queue) = c)
  BY DEF AtGate, Stopping
<1> QED BY <1>1, <1>2, <1>3 DEF GateInv, AtGate

\* The command in front leaves.
LEMMA GateShifts ==
    ASSUME GateInv, TypeOK, NEW c \in Commands, queue # <<>>, Head(queue) = c,
           Shifted(queue', queue), NEW place, place \notin AtGate, pc' = [pc EXCEPT ![c] = place],
           gateDisposed' => gateDisposed \/ Len(queue') <= 1
    PROVE  GateInv'
<1> USE CommandsAssumption
<1>1. /\ queue \in Seq(Commands) /\ queue' \in Seq(Commands)
      /\ 1 \in DOMAIN queue /\ queue[1] = c /\ Len(queue) \in Nat /\ Len(queue') \in Nat
      /\ Len(queue') < Len(queue)
      /\ 1 \in Commands
  BY TailOfQueue DEF TypeOK, Shifted, Commands
<1>2. /\ \A d \in Commands \ {c} : pc'[d] = pc[d]
      /\ pc'[c] = place /\ place \notin Stopping /\ place # "wantStart"
  BY DEF TypeOK, AtGate
<1>3. \A i \in DOMAIN queue' :
         /\ i + 1 \in DOMAIN queue /\ queue'[i] = queue[i + 1] /\ i \in Int
         /\ queue'[i] \in Commands \ {c}
  <2>1. ASSUME NEW i \in DOMAIN queue'
        PROVE  i + 1 \in DOMAIN queue /\ queue'[i] = queue[i + 1] /\ i + 1 # 1 /\ i \in Int
    BY <1>1 DEF Shifted
  <2> QED BY <1>1, <2>1 DEF GateInv
<1>4. \A i, j \in DOMAIN queue' : queue'[i] = queue'[j] => i = j
  <2> SUFFICES ASSUME NEW i \in DOMAIN queue', NEW j \in DOMAIN queue', queue'[i] = queue'[j]
               PROVE  i = j
    OBVIOUS
  <2>1. i + 1 = j + 1
    BY <1>3 DEF GateInv
  <2> QED BY <1>3, <2>1
<1>5. \A i \in DOMAIN queue' : pc'[queue'[i]] \in AtGate
  BY <1>2, <1>3 DEF GateInv
<1>6. \A d \in Commands : ~(pc'[d] \in {"shutdown", "waiting"} \/ (d = 1 /\ pc'[d] = "wantStart"))
  BY <1>2 DEF GateInv, Stopping
<1>7. gateDisposed' => Len(queue') <= 1
  <2> SUFFICES ASSUME gateDisposed' PROVE Len(queue') <= 1
    OBVIOUS
  <2>1. gateDisposed => Len(queue) <= 1
    BY DEF GateInv
  <2> QED BY <1>1, <2>1
<1>8. \A i, j \in DOMAIN queue' :
         pc'[queue'[j]] \in Stopping /\ (pc'[queue'[i]] = "wantStart" \/ i < j)
            => queue'[i] < queue'[j]
  <2> SUFFICES ASSUME NEW i \in DOMAIN queue', NEW j \in DOMAIN queue',
                      pc'[queue'[j]] \in Stopping, pc'[queue'[i]] = "wantStart" \/ i < j
               PROVE  queue[i + 1] < queue[j + 1]
    BY <1>3
  <2>1. pc[queue[j + 1]] \in Stopping /\ (pc[queue[i + 1]] = "wantStart" \/ i + 1 < j + 1)
    BY <1>2, <1>3
  <2> QED BY <1>3, <2>1 DEF GateInv
<1> QED BY <1>1, <1>4, <1>5, <1>6, <1>7, <1>8 DEF GateInv

\* A new command lines up behind the others, which were clicked before it.
LEMMA GateClicks ==
    ASSUME GateInv, KindInv, TypeOK, NEW c \in Commands, kind[c] = "none", ~gateDisposed,
           pc' = [pc EXCEPT ![c] = "wantStop"], queue' = Append(queue, c),
           gateDisposed' = gateDisposed
    PROVE  GateInv'
<1> USE CommandsAssumption
<1>1. /\ queue \in Seq(Commands) /\ Len(queue) \in Nat /\ DOMAIN queue = 1 .. Len(queue)
      /\ DOMAIN queue' = 1 .. Len(queue) + 1
      /\ queue'[Len(queue) + 1] = c /\ \A i \in DOMAIN queue : queue'[i] = queue[i]
      /\ queue # <<>> => Head(queue') = Head(queue)
      /\ queue' # <<>>
  BY AppendToQueue DEF TypeOK
<1>2. /\ \A d \in Commands \ {c} : pc'[d] = pc[d]
      /\ pc[c] = "idle" /\ pc'[c] = "wantStop"
  BY DEF TypeOK, KindInv
<1>3. \A i \in DOMAIN queue : queue[i] \in Commands /\ queue[i] # c /\ queue[i] < c
  <2> SUFFICES ASSUME NEW i \in DOMAIN queue PROVE queue[i] \in Commands /\ queue[i] # c /\ queue[i] < c
    OBVIOUS
  <2>1. queue[i] \in Commands /\ pc[queue[i]] \in AtGate
    BY <1>1 DEF GateInv
  <2>2. kind[queue[i]] # "none" /\ queue[i] # c
    BY <1>2, <2>1 DEF KindInv, AtGate, Stopping
  <2>3. ~(c \in 1 .. queue[i])
    BY <2>1, <2>2 DEF KindInv
  <2> QED BY <2>1, <2>2, <2>3 DEF Commands
<1>4. \A i, j \in DOMAIN queue' : queue'[i] = queue'[j] => i = j
  BY <1>1, <1>3 DEF GateInv
<1>5. \A i \in DOMAIN queue' : pc'[queue'[i]] \in AtGate
  BY <1>1, <1>2, <1>3 DEF GateInv, AtGate, Stopping
<1>6. \A d \in Commands :
         pc'[d] \in {"shutdown", "waiting"} \/ (d = 1 /\ pc'[d] = "wantStart")
            => queue' # <<>> /\ Head(queue') = d
  BY <1>1, <1>2 DEF GateInv
<1>7. pc'[1] # "wantStart" \/ ~gateDisposed'
  OBVIOUS
<1>8. \A i, j \in DOMAIN queue' :
         pc'[queue'[j]] \in Stopping /\ (pc'[queue'[i]] = "wantStart" \/ i < j)
            => queue'[i] < queue'[j]
  <2> SUFFICES ASSUME NEW i \in DOMAIN queue', NEW j \in DOMAIN queue',
                      pc'[queue'[j]] \in Stopping, pc'[queue'[i]] = "wantStart" \/ i < j
               PROVE  queue'[i] < queue'[j]
    OBVIOUS
  <2>1. CASE j = Len(queue) + 1
    BY <1>1, <1>2, <1>3, <2>1
  <2>2. CASE j # Len(queue) + 1
    BY <1>1, <1>2, <1>3, <2>2 DEF GateInv
  <2> QED BY <2>1, <2>2
<1> QED BY <1>4, <1>5, <1>6, <1>7, <1>8 DEF GateInv

\* A restart that has stopped the bot lines up again, for its start.
LEMMA GateRequeues ==
    ASSUME GateInv, KindInv, TypeOK, NEW c \in Commands, queue # <<>>, Head(queue) = c,
           pc[c] \in Stopping, kind[c] = "restart", ~gateDisposed,
           pc' = [pc EXCEPT ![c] = "wantStart"], queue' = Append(Tail(queue), c),
           gateDisposed' = FALSE
    PROVE  GateInv'
<1> USE CommandsAssumption
<1> DEFINE n == Len(queue)
<1>1. /\ queue \in Seq(Commands) /\ n \in Nat \ {0} /\ DOMAIN queue = 1 .. n
      /\ DOMAIN queue' = 1 .. n /\ queue' # <<>>
      /\ queue'[n] = c /\ queue[1] = c
      /\ \A i \in 1 .. n - 1 : queue'[i] = queue[i + 1]
  <2>1. queue \in Seq(Commands)
    BY DEF TypeOK
  <2>2. /\ Tail(queue) \in Seq(Commands) /\ Len(Tail(queue)) = n - 1 /\ n \in Nat \ {0}
        /\ \A i \in 1 .. n - 1 : Tail(queue)[i] = queue[i + 1]
        /\ DOMAIN Tail(queue) = 1 .. n - 1
        /\ DOMAIN queue = 1 .. n /\ queue[1] = c
    BY <2>1, TailOfQueue
  <2> QED BY <2>1, <2>2, AppendToQueue
<1>2. /\ \A d \in Commands \ {c} : pc'[d] = pc[d]
      /\ pc'[c] = "wantStart" /\ c # 1
  BY DEF TypeOK, KindInv
<1>3. \A i \in 1 .. n - 1 : /\ i + 1 \in DOMAIN queue /\ queue[i + 1] \in Commands \ {c}
                            /\ pc[queue[i + 1]] \in Stopping => c < queue[i + 1]
  BY <1>1 DEF GateInv
<1> HIDE DEF n
<1>4. \A i, j \in DOMAIN queue' : queue'[i] = queue'[j] => i = j
  <2> SUFFICES ASSUME NEW i \in 1 .. n, NEW j \in 1 .. n, queue'[i] = queue'[j] PROVE i = j
    BY <1>1
  <2>1. CASE i = n \/ j = n
    BY <1>1, <1>3, <2>1
  <2>2. CASE i # n /\ j # n
    <3>1. i + 1 = j + 1
      BY <1>1, <1>3, <2>2 DEF GateInv
    <3> QED BY <1>1, <3>1
  <2> QED BY <2>1, <2>2
<1>5. \A i \in DOMAIN queue' : pc'[queue'[i]] \in AtGate
  <2> SUFFICES ASSUME NEW i \in 1 .. n PROVE pc'[queue'[i]] \in AtGate
    BY <1>1
  <2>1. CASE i = n
    BY <1>1, <1>2, <2>1 DEF AtGate
  <2>2. CASE i # n
    BY <1>1, <1>2, <1>3, <2>2 DEF GateInv
  <2> QED BY <2>1, <2>2
<1>6. \A d \in Commands :
         ~(pc'[d] \in {"shutdown", "waiting"} \/ (d = 1 /\ pc'[d] = "wantStart"))
  BY <1>2 DEF GateInv, Stopping
<1>8. \A i, j \in DOMAIN queue' :
         pc'[queue'[j]] \in Stopping /\ (pc'[queue'[i]] = "wantStart" \/ i < j)
            => queue'[i] < queue'[j]
  <2> SUFFICES ASSUME NEW i \in 1 .. n, NEW j \in 1 .. n,
                      pc'[queue'[j]] \in Stopping, pc'[queue'[i]] = "wantStart" \/ i < j
               PROVE  queue'[i] < queue'[j]
    BY <1>1
  <2>1. j # n
    BY <1>1, <1>2 DEF Stopping
  <2>2. CASE i = n
    BY <1>1, <1>2, <1>3, <2>1, <2>2
  <2>3. CASE i # n
    <3>1. pc[queue[j + 1]] \in Stopping /\ (pc[queue[i + 1]] = "wantStart" \/ i + 1 < j + 1)
      BY <1>1, <1>2, <1>3, <2>1, <2>3
    <3> QED BY <1>1, <1>3, <2>1, <2>3, <3>1 DEF GateInv
  <2> QED BY <2>2, <2>3
<1>9. 1 \in Commands
  BY DEF Commands
<1> QED BY <1>4, <1>5, <1>6, <1>8, <1>9 DEF GateInv

\* A command that holds the gate and is where it has to be.
LEMMA InFront ==
    ASSUME SupervisorInv, NEW c \in Commands, NEW place, HasGate(c, place)
    PROVE  /\ pc[c] = place /\ queue # <<>> /\ Head(queue) = c /\ ~overtaken
           /\ place \in Stopping => kind[c] \in {"restart", "exit"} /\ pc[c] \in Stopping
BY DEF HasGate, SupervisorInv, KindInv

LEMMA LeavingKeepsGate ==
    ASSUME SupervisorInv, NEW c \in Commands, queue # <<>>, Head(queue) = c,
           \/ \E place \in {"awaiting", "returned", "threw"} : LeaveGate(c, place)
           \/ AfterStop(c) /\ kind[c] \in {"restart", "exit"} /\ pc[c] \in Stopping
    PROVE  GateInv'
<1> USE DEF SupervisorInv
<1> \A place \in {"awaiting", "returned", "threw"} : place \notin AtGate
  BY DEF AtGate, Stopping
<1>1. CASE \E place \in {"awaiting", "returned", "threw"} : LeaveGate(c, place)
  <2>1. PICK place \in {"awaiting", "returned", "threw"} :
          /\ Shifted(queue', queue) /\ gateDisposed' = gateDisposed
          /\ pc' = [pc EXCEPT ![c] = place]
    BY <1>1, GateLeft
  <2> QED BY <2>1, GateShifts
<1>2. CASE AfterStop(c) /\ kind[c] \in {"restart", "exit"} /\ pc[c] \in Stopping
  <2>1. CASE /\ ~gateDisposed /\ gateDisposed' = FALSE /\ kind[c] = "restart"
             /\ queue' = Append(Tail(queue), c)
             /\ pc' = [pc EXCEPT ![c] = "wantStart"]
    BY <1>2, <2>1, GateRequeues
  <2>2. CASE /\ gateDisposed /\ gateDisposed' = TRUE /\ Shifted(queue', queue)
             /\ pc' = [pc EXCEPT ![c] = "threw"]
    <3>1. gateDisposed' = gateDisposed
      BY <2>2 DEF TypeOK
    <3> QED BY <2>2, <3>1, GateShifts
  <2>3. CASE /\ Shifted(queue', queue) /\ Len(queue') <= 1
             /\ pc' = [pc EXCEPT ![c] = "returned"]
    BY <2>3, GateShifts
  <2> QED BY <1>2, <2>1, <2>2, <2>3, StopLeft
<1> QED BY <1>1, <1>2

LEMMA GateKept ==
    ASSUME SupervisorInv, Next
    PROVE  GateInv'
<1> USE DEF SupervisorInv
<1>1. ASSUME NEW c \in Commands, CommandStep(c) PROVE GateInv'
  <2>1. CASE StopFindsNoBot(c) \/ WriteFails(c) \/ StopEnds(c) \/ StartFindsBot(c)
             \/ StartRuns(c) \/ StartThrows(c)
    <3>1. PICK place : HasGate(c, place)
      BY <2>1 DEF StopFindsNoBot, WriteFails, StopEnds, StartFindsBot, StartRuns, StartThrows
    <3>2. CASE StopFindsNoBot(c) \/ StopEnds(c)
      <4>1. AfterStop(c) /\ \E p \in Stopping : HasGate(c, p)
        BY <3>2 DEF StopFindsNoBot, StopEnds, Stopping
      <4> QED BY <4>1, InFront, LeavingKeepsGate
    <3>3. CASE WriteFails(c) \/ StartFindsBot(c) \/ StartRuns(c) \/ StartThrows(c)
      <4>1. \E p \in {"awaiting", "returned", "threw"} : LeaveGate(c, p)
        BY <3>3 DEF WriteFails, StartFindsBot, StartRuns, StartThrows
      <4> QED BY <3>1, <4>1, InFront, LeavingKeepsGate
    <3> QED BY <2>1, <3>2, <3>3
  <2>2. CASE StopBegins(c)
    <3>1. HasGate(c, "wantStop") /\ "wantStop" \in Stopping
      BY <2>2 DEF StopBegins, Stopping
    <3>2. CASE bots[process].disposed
      <4>1. LeaveGate(c, "threw")
        BY <2>2, <3>2 DEF StopBegins
      <4> QED BY <3>1, <4>1, InFront, LeavingKeepsGate
    <3>3. CASE ~bots[process].disposed
      <4>1. pc' = [pc EXCEPT ![c] = "shutdown"] /\ UNCHANGED <<queue, gateDisposed>>
        BY <2>2, <3>3 DEF StopBegins
      <4> QED BY <3>1, <4>1, InFront, GateStays DEF TypeOK, Stopping
    <3> QED BY <3>2, <3>3
  <2>3. CASE WriteSucceeds(c)
    <3>1. HasGate(c, "shutdown") /\ "shutdown" \in Stopping
      BY <2>3 DEF WriteSucceeds, Stopping
    <3> QED BY <2>3, <3>1, InFront, GateStays DEF WriteSucceeds, TypeOK, Stopping
  <2>4. CASE StartReturns(c)
    BY <2>4, GateStays DEF StartReturns, TypeOK, AtGate, Stopping
  <2> QED BY <1>1, <2>1, <2>2, <2>3, <2>4 DEF CommandStep
<1>2. ASSUME NEW c \in Commands, NEW what \in {"restart", "exit"}, Click(c, what)
      PROVE GateInv'
  <2>1. CASE gateDisposed
    <3>1. pc[c] = "idle" /\ pc' = [pc EXCEPT ![c] = "threw"] /\ UNCHANGED <<queue, gateDisposed>>
      BY <1>2, <2>1 DEF Click, KindInv
    <3> QED BY <3>1, GateStays DEF TypeOK, AtGate, Stopping
  <2>2. CASE ~gateDisposed
    BY <1>2, <2>2, GateClicks DEF Click
  <2> QED BY <2>1, <2>2
<1>3. CASE UNCHANGED commandVars
  BY <1>3, GateStays DEF commandVars
<1> QED
  BY <1>1, <1>2, <1>3 DEF Next, MonitorStep, MonitorWakes, BackoffEnds, ProbeAnswers,
     MonitorThrows, Tick, BotShutsDown, BotCrashes

-----------------------------------------------------------------------------
\* The commands.

LEMMA KindKept ==
    ASSUME SupervisorInv, Next
    PROVE  KindInv'
<1> USE DEF SupervisorInv
<1>1. ASSUME NEW c \in Commands, CommandStep(c) PROVE KindInv'
  <2>1. kind' = kind
    BY <1>1 DEF CommandStep, StopFindsNoBot, StopBegins, WriteSucceeds, WriteFails, StopEnds,
                StartFindsBot, StartRuns, StartThrows, StartReturns
  <2>2. /\ \A d \in Commands \ {c} : pc'[d] = pc[d] /\ (answer'[d] = "none" <=> answer[d] = "none")
        /\ pc'[c] \in {"shutdown", "waiting"} => pc[c] \in Stopping
        /\ pc'[c] = "wantStart" => kind[c] = "restart" /\ pc[c] \in Stopping
        /\ pc'[c] = "awaiting" => pc[c] = "wantStart"
        /\ pc[c] # "idle" /\ pc'[c] \notin {"idle", "wantStop"}
        /\ pc'[c] \in {"shutdown", "waiting", "wantStart"} => (answer'[c] = "none" <=> answer[c] = "none")
    <3>1. CASE StopFindsNoBot(c) \/ StopEnds(c)
      <4>1. PICK p \in Stopping : HasGate(c, p) /\ AfterStop(c) /\ answer' = answer
        BY <3>1 DEF StopFindsNoBot, StopEnds, Stopping
      <4>2. pc[c] \in Stopping /\ queue # <<>> /\ kind[c] \in {"restart", "exit"}
        BY <4>1, InFront
      <4>3. PICK place \in {"threw", "wantStart", "returned"} :
              pc' = [pc EXCEPT ![c] = place] /\ (place = "wantStart" => kind[c] = "restart")
        BY <4>1, <4>2, StopLeft
      <4> QED BY <4>1, <4>2, <4>3 DEF TypeOK, Stopping
    <3>2. CASE StopBegins(c)
      <4>1. HasGate(c, "wantStop") /\ pc[c] = "wantStop"
        BY <3>2 DEF StopBegins, HasGate
      <4>2. pc' = [pc EXCEPT ![c] = "threw"] \/ pc' = [pc EXCEPT ![c] = "shutdown"]
        BY <3>2, <4>1, InFront, GateLeft DEF StopBegins
      <4>3. \A d \in Commands : answer'[d] = "none" <=> answer[d] = "none"
        BY <3>2, AnswersTyped DEF StopBegins, AnswerPendingStart
      <4> QED BY <4>1, <4>2, <4>3 DEF TypeOK, Stopping
    <3>3. CASE WriteSucceeds(c)
      BY <3>3 DEF WriteSucceeds, HasGate, TypeOK, Stopping
    <3>4. CASE WriteFails(c) \/ StartFindsBot(c) \/ StartThrows(c)
      <4>1. /\ pc[c] \in {"shutdown", "wantStart"} /\ queue # <<>> /\ answer' = answer
            /\ \E p \in {"awaiting", "returned", "threw"} : LeaveGate(c, p) /\ p # "awaiting"
        BY <3>4 DEF WriteFails, StartFindsBot, StartThrows, HasGate
      <4>2. pc' = [pc EXCEPT ![c] = "returned"] \/ pc' = [pc EXCEPT ![c] = "threw"]
        BY <4>1, GateLeft
      <4> QED BY <4>1, <4>2 DEF TypeOK, Stopping
    <3>5. CASE StartRuns(c)
      <4>1. pc[c] = "wantStart" /\ queue # <<>> /\ answer' = [answer EXCEPT ![c] = "pending"]
            /\ LeaveGate(c, "awaiting")
        BY <3>5 DEF StartRuns, HasGate
      <4>2. pc' = [pc EXCEPT ![c] = "awaiting"] \/ pc' = [pc EXCEPT ![c] = "threw"]
        BY <4>1, GateLeft
      <4>3. \A d \in Commands \ {c} : answer'[d] = answer[d]
        BY <4>1 DEF TypeOK
      <4>4. pc'[c] \in {"awaiting", "threw"} /\ \A d \in Commands \ {c} : pc'[d] = pc[d]
        BY <4>2 DEF TypeOK
      <4> HIDE DEF Stopping
      <4>5. pc'[c] \notin {"shutdown", "waiting", "wantStart", "idle", "wantStop"}
        BY <4>4
      <4> QED BY <4>1, <4>3, <4>4, <4>5
    <3>6. CASE StartReturns(c)
      BY <3>6 DEF StartReturns, TypeOK, Stopping
    <3> QED BY <1>1, <3>1, <3>2, <3>3, <3>4, <3>5, <3>6 DEF CommandStep
  <2> QED BY <2>1, <2>2 DEF KindInv, AtGate, Stopping
<1>2. ASSUME NEW c \in Commands, NEW what \in {"restart", "exit"}, Click(c, what)
      PROVE KindInv'
  <2>1. pc' = [pc EXCEPT ![c] = "threw"] \/ pc' = [pc EXCEPT ![c] = "wantStop"]
    BY <1>2 DEF Click
  <2>2. /\ kind' = [kind EXCEPT ![c] = what] /\ answer' = answer /\ kind[c] = "none"
        /\ \A d \in 1 .. (c - 1) : kind[d] # "none"
    BY <1>2 DEF Click
  <2>3. /\ \A d \in Commands \ {c} : pc'[d] = pc[d] /\ kind'[d] = kind[d]
        /\ kind'[c] = what /\ pc'[c] \in {"threw", "wantStop"} /\ answer[c] = "none"
    BY <2>1, <2>2 DEF TypeOK, KindInv, AtGate
  <2>4. c # 1
    BY <2>2 DEF KindInv
  <2>5. \A d \in Commands : kind'[d] # "none" => \A e \in 1 .. d : kind'[e] # "none"
    <3> SUFFICES ASSUME NEW d \in Commands, kind'[d] # "none", NEW e \in 1 .. d
                 PROVE  kind'[e] # "none"
      OBVIOUS
    <3>1. e \in Commands /\ (d = c => e \in 1 .. (c - 1) \/ e = c)
      BY CommandsAssumption DEF Commands
    <3> QED BY <2>2, <2>3, <3>1 DEF KindInv
  <2> QED BY <2>2, <2>3, <2>4, <2>5 DEF KindInv, AtGate, Stopping
<1>3. ASSUME UNCHANGED commandVars,
             \A d \in Commands : answer'[d] = "none" <=> answer[d] = "none"
      PROVE  KindInv'
  BY <1>3 DEF commandVars, KindInv
<1>4. CASE MonitorStep
  <2>1. \A d \in Commands : answer'[d] = "none" <=> answer[d] = "none"
    BY <1>4, AnswersTyped DEF MonitorStep, MonitorWakes, GiveUp, BackoffEnds, ProbeAnswers,
       AnswersReady, AnswersOtherwise
  <2> QED BY <1>3, <1>4, <2>1 DEF MonitorStep, MonitorWakes, BackoffEnds, ProbeAnswers
<1> QED
  BY <1>1, <1>2, <1>3, <1>4 DEF Next, MonitorThrows, Tick, BotShutsDown, BotCrashes

-----------------------------------------------------------------------------
\* The monitor and the bots.

\* A step of a command moves nobody else, and all but the first two steps of a stop
\* leave the bot alone.
LeavesBot(c) ==
    \/ StopFindsNoBot(c)
    \/ WriteFails(c)
    \/ StopEnds(c)
    \/ StartFindsBot(c)
    \/ StartRuns(c)
    \/ StartThrows(c)
    \/ StartReturns(c)

LEMMA ACommandMoves ==
    ASSUME SupervisorInv, NEW c \in Commands, CommandStep(c)
    PROVE  /\ kind' = kind
           /\ \A d \in Commands \ {c} : pc'[d] = pc[d]
           /\ LeavesBot(c) => pc'[c] \notin {"shutdown", "waiting"}
           /\ pc[c] \in {"awaiting", "returned", "threw"} => pc'[c] = "returned"
<1> TypeOK
  BY DEF SupervisorInv
<1>1. kind' = kind
  BY DEF CommandStep, StopFindsNoBot, StopBegins, WriteSucceeds, WriteFails, StopEnds,
         StartFindsBot, StartRuns, StartThrows, StartReturns
<1>2. ASSUME NEW place, pc' = [pc EXCEPT ![c] = place]
      PROVE  pc'[c] = place /\ \A d \in Commands \ {c} : pc'[d] = pc[d]
  BY <1>2 DEF TypeOK
<1>3. ASSUME LeavesBot(c)
      PROVE  \E place \in {"threw", "wantStart", "awaiting", "returned"} :
               /\ pc' = [pc EXCEPT ![c] = place]
               /\ pc[c] \in {"awaiting", "returned", "threw"} => place = "returned"
  <2>1. CASE StopFindsNoBot(c) \/ StopEnds(c)
    <3>1. PICK p \in Stopping : HasGate(c, p) /\ AfterStop(c)
      BY <2>1 DEF StopFindsNoBot, StopEnds, Stopping
    <3>2. pc[c] \in Stopping /\ queue # <<>> /\ kind[c] \in {"restart", "exit"}
      BY <3>1, InFront
    <3>3. PICK place \in {"threw", "wantStart", "returned"} : pc' = [pc EXCEPT ![c] = place]
      BY <3>1, <3>2, StopLeft
    <3> QED BY <3>2, <3>3 DEF Stopping
  <2>2. CASE WriteFails(c) \/ StartFindsBot(c) \/ StartRuns(c) \/ StartThrows(c)
    <3>1. /\ pc[c] \in {"shutdown", "wantStart"} /\ queue # <<>>
          /\ \E p \in {"awaiting", "returned", "threw"} : LeaveGate(c, p)
      BY <2>2 DEF WriteFails, StartFindsBot, StartRuns, StartThrows, HasGate
    <3> QED BY <3>1, GateLeft
  <2>3. CASE StartReturns(c)
    BY <2>3 DEF StartReturns
  <2> QED BY <1>3, <2>1, <2>2, <2>3 DEF LeavesBot
<1>4. ASSUME StopBegins(c) \/ WriteSucceeds(c)
      PROVE  pc[c] \in Stopping /\ \E place : pc' = [pc EXCEPT ![c] = place]
  BY <1>4 DEF StopBegins, WriteSucceeds, HasGate, LeaveGate, Stopping
<1> QED BY <1>1, <1>2, <1>3, <1>4 DEF CommandStep, LeavesBot, Stopping

\* Who holds the gate is the only one that may talk to the bot.
LEMMA OneTalks ==
    ASSUME SupervisorInv, NEW c \in Commands, NEW place, HasGate(c, place)
    PROVE  /\ \A d \in Commands \ {c} : pc[d] \notin {"shutdown", "waiting"}
           /\ pc[c] \in {"shutdown", "waiting"} => process # NoBot /\ ~Active
BY DEF SupervisorInv, GateInv, MonitorInv, HasGate

\* A monitor that was not cancelled is alone with the bot.
LEMMA NobodyTalks ==
    ASSUME SupervisorInv, Active, ~overtaken
    PROVE  \A c \in Commands : pc[c] \notin {"shutdown", "waiting"}
BY DEF SupervisorInv, MonitorInv

\* Without a process no bot runs, nor does one whose monitor has seen it dead.
LEMMA NobodyRuns ==
    ASSUME SupervisorInv,
           \/ process = NoBot
           \/ process \in DOMAIN bots /\ ~bots[process].alive
    PROVE  \A b \in DOMAIN bots : ~bots[b].alive
<1>1. \A b \in DOMAIN bots : b # NoBot
  BY DEF SupervisorInv, TypeOK, NoBot
<1> QED BY <1>1 DEF SupervisorInv, BotInv

\* The monitor disposes the handle of a bot that has exited.
LEMMA ABotIsDisposed ==
    ASSUME TypeOK, NEW b \in DOMAIN bots, bots' = [bots EXCEPT ![b] = Disposed(bots[b])]
    PROVE  /\ DOMAIN bots' = DOMAIN bots /\ Len(bots') = Len(bots)
           /\ bots'[b].alive <=> bots[b].alive
           /\ \A d \in DOMAIN bots \ {b} : bots'[d] = bots[d]
<1> DEFINE new == Disposed(bots[b])
<1>1. bots \in Seq(Bot) /\ bots[b] \in Bot
  BY DEF TypeOK
<1>2. new \in Bot /\ (new.alive <=> bots[b].alive)
  BY <1>1 DEF Disposed, Bot
<1>3. bots' = [bots EXCEPT ![b] = new]
  OBVIOUS
<1> HIDE DEF new
<1> QED BY <1>1, <1>2, <1>3, ABotChanges

LEMMA CommandsKeepMonitor ==
    ASSUME SupervisorInv, NEW c \in Commands, CommandStep(c)
    PROVE  MonitorInv'
<1> TypeOK /\ MonitorInv
  BY DEF SupervisorInv
<1>1. \A d \in Commands \ {c} : pc'[d] = pc[d]
  BY ACommandMoves
<1>2. CASE StopBegins(c)
  <2>1. HasGate(c, "wantStop") /\ ~overtaken /\ process # NoBot /\ UNCHANGED <<bots, process>>
    BY <1>2 DEF StopBegins, HasGate
  <2>2. \A d \in Commands \ {c} : pc'[d] \notin {"shutdown", "waiting"}
    BY <1>1, <2>1, OneTalks
  <2>3. pc'[c] # "waiting"
    BY <1>2 DEF StopBegins, LeaveGate, TypeOK
  <2>4. CASE monitor' = NoMonitor /\ UNCHANGED overtaken
    BY <2>1, <2>2, <2>3, <2>4 DEF MonitorInv, Active, NoMonitor
  <2>5. CASE monitor.at \in {"probe", "backoff"} /\ overtaken' = TRUE /\ UNCHANGED monitor
    BY <2>1, <2>2, <2>3, <2>5 DEF MonitorInv, Active
  <2> QED BY <1>2, <2>4, <2>5 DEF StopBegins, CancelMonitor
<1>3. CASE WriteSucceeds(c)
  <2>1. HasGate(c, "shutdown") /\ ~overtaken /\ pc[c] = "shutdown"
        /\ UNCHANGED <<bots, process, overtaken, monitor>>
    BY <1>3 DEF WriteSucceeds, HasGate
  <2> QED BY <1>1, <2>1, OneTalks DEF MonitorInv, Active
<1>4. CASE StopFindsNoBot(c) \/ WriteFails(c) \/ StartFindsBot(c) \/ StartThrows(c) \/ StartReturns(c)
  <2>1. UNCHANGED <<bots, process, overtaken, monitor>>
    BY <1>4 DEF StopFindsNoBot, WriteFails, StartFindsBot, StartThrows, StartReturns
  <2>2. pc'[c] \notin {"shutdown", "waiting"}
    BY <1>4, ACommandMoves DEF LeavesBot
  <2> QED BY <1>1, <2>1, <2>2 DEF MonitorInv, Active
<1>5. CASE StopEnds(c)
  <2>1. HasGate(c, "waiting") /\ ~overtaken /\ pc[c] = "waiting"
        /\ UNCHANGED <<overtaken, monitor>>
    BY <1>5 DEF StopEnds, HasGate
  <2>2. ~Active /\ ~Active'
    BY <2>1, OneTalks DEF Active
  <2>3. \A d \in Commands \ {c} : pc'[d] \notin {"shutdown", "waiting"}
    BY <1>1, <2>1, OneTalks
  <2>4. pc'[c] \notin {"shutdown", "waiting"}
    BY <1>5, ACommandMoves DEF LeavesBot
  <2> QED BY <2>1, <2>2, <2>3, <2>4 DEF MonitorInv, Active
<1>6. CASE StartRuns(c)
  <2>1. HasGate(c, "wantStart") /\ ~overtaken /\ overtaken' = overtaken
    BY <1>6 DEF StartRuns, HasGate
  <2>2. monitor'.at = "probe" /\ monitor'.observed = process' /\ process' # NoBot
    <3>1. process' = Len(bots) + 1 /\ process' # NoBot
      BY <1>6, ABotStarts DEF StartRuns, TypeOK
    <3> QED BY <1>6, <3>1 DEF StartRuns, NoMonitor
  <2>3. \A d \in Commands \ {c} : pc'[d] \notin {"shutdown", "waiting"}
    BY <1>1, <2>1, OneTalks
  <2>4. pc'[c] \notin {"shutdown", "waiting"}
    BY <1>6 DEF StartRuns, LeaveGate, TypeOK
  <2> QED BY <2>1, <2>2, <2>3, <2>4 DEF MonitorInv, Active
<1> QED BY <1>2, <1>3, <1>4, <1>5, <1>6 DEF CommandStep

LEMMA MonitorKept ==
    ASSUME SupervisorInv, Next
    PROVE  MonitorInv'
<1> TypeOK /\ MonitorInv
  BY DEF SupervisorInv
<1>1. ASSUME NEW c \in Commands, CommandStep(c) PROVE MonitorInv'
  BY <1>1, CommandsKeepMonitor
<1>2. ASSUME NEW c \in Commands, NEW what \in {"restart", "exit"}, Click(c, what) PROVE MonitorInv'
  <2>1. \A d \in Commands : pc'[d] = pc[d] \/ pc'[d] \in {"threw", "wantStop"}
    BY <1>2 DEF Click, TypeOK
  <2> QED BY <1>2, <2>1 DEF Click, MonitorInv, Active
<1>3. CASE MonitorWakes
  <2>1. monitor.at = "rest" /\ ~overtaken /\ pc' = pc /\ overtaken' = overtaken
    BY <1>3 DEF MonitorWakes, MonitorInv, commandVars
  <2>2. /\ Active /\ process = monitor.observed /\ process # NoBot /\ process \in DOMAIN bots
        /\ \A d \in Commands : pc[d] \notin {"shutdown", "waiting"}
    BY <2>1, NobodyTalks DEF Active, MonitorInv, TypeOK
  <2>3. CASE bots[monitor.observed].alive
    <3>1. monitor' = [monitor EXCEPT !.at = "probe"] /\ process' = process
      BY <1>3, <2>3 DEF MonitorWakes
    <3>2. monitor'.at = "probe" /\ monitor'.observed = monitor.observed
      BY <3>1 DEF TypeOK, Monitor
    <3> QED BY <2>1, <2>2, <3>1, <3>2 DEF MonitorInv, Active
  <2>4. CASE monitor' = NoMonitor
    BY <2>1, <2>2, <2>4 DEF MonitorInv, Active, NoMonitor
  <2>5. CASE /\ ~bots[process].alive /\ process' = process
             /\ monitor' = [monitor EXCEPT !.at = "backoff"]
             /\ bots' = [bots EXCEPT ![process] = Disposed(bots[process])]
    <3>1. monitor'.at = "backoff" /\ monitor'.observed = monitor.observed
      BY <2>5 DEF TypeOK, Monitor
    <3>2. ~bots'[process].alive
      BY <2>2, <2>5, ABotIsDisposed
    <3> QED BY <2>1, <2>2, <2>5, <3>1, <3>2 DEF MonitorInv, Active
  <2> QED BY <1>3, <2>2, <2>3, <2>4, <2>5 DEF MonitorWakes, GiveUp
<1>4. CASE BackoffEnds
  <2>1. monitor.at = "backoff" /\ ~overtaken' /\ pc' = pc /\ process' = Len(bots) + 1 /\ process' # NoBot
    BY <1>4, ABotStarts DEF BackoffEnds, commandVars, TypeOK
  <2>2. CASE overtaken
    <3>1. monitor' = NoMonitor
      BY <1>4, <2>2 DEF BackoffEnds, Continue
    <3> QED BY <2>1, <2>2, <3>1 DEF MonitorInv, Active, NoMonitor
  <2>3. CASE ~overtaken
    <3>1. monitor'.at = "probe" /\ monitor'.observed = process'
      BY <1>4, <2>1, <2>3 DEF BackoffEnds, Continue
    <3>2. \A d \in Commands : pc[d] \notin {"shutdown", "waiting"}
      BY <2>1, <2>3, NobodyTalks DEF Active
    <3> QED BY <2>1, <3>1, <3>2 DEF MonitorInv, Active
  <2> QED BY <2>2, <2>3
<1>5. ASSUME NEW reply \in Answers, ProbeAnswers(reply) PROVE MonitorInv'
  <2>1. monitor.at = "probe" /\ ~overtaken' /\ pc' = pc /\ process' = process
    BY <1>5 DEF ProbeAnswers, commandVars
  <2>2. CASE overtaken
    <3>1. monitor' = NoMonitor
      BY <1>5, <2>2 DEF ProbeAnswers, AnswersReady, AnswersOtherwise, Continue
    <3> QED BY <2>1, <2>2, <3>1 DEF MonitorInv, Active, NoMonitor
  <2>3. CASE ~overtaken
    <3>1. monitor'.at = "rest" /\ monitor'.observed = monitor.observed
      BY <1>5, <2>3 DEF ProbeAnswers, AnswersReady, AnswersOtherwise, Continue, TypeOK, Monitor
    <3>2. \A d \in Commands : pc[d] \notin {"shutdown", "waiting"}
      BY <2>1, <2>3, NobodyTalks DEF Active
    <3> QED BY <2>1, <3>1, <3>2 DEF MonitorInv, Active
  <2> QED BY <2>2, <2>3
<1>6. CASE MonitorThrows
  <2>1. monitor'.at = "threw" /\ ~overtaken' /\ UNCHANGED <<process, pc>>
    BY <1>6 DEF MonitorThrows, NoMonitor, commandVars
  <2> QED BY <2>1 DEF MonitorInv, Active
<1>7. CASE Tick
  <2>1. /\ monitor'.at = monitor.at /\ monitor'.observed = monitor.observed
        /\ UNCHANGED <<bots, process, pc, overtaken>>
    BY <1>7 DEF Tick, commandVars, TypeOK, Monitor
  <2> QED BY <2>1 DEF MonitorInv, Active
<1>8. ASSUME NEW b \in DOMAIN bots,
             BotShutsDown(b) \/ \E d \in BOOLEAN : BotCrashes(b, d)
      PROVE  MonitorInv'
  <2>1. \A d \in DOMAIN bots : ~bots[d].alive => ~bots'[d].alive
    BY <1>8 DEF BotShutsDown, BotCrashes, TypeOK, Bot
  <2>2. UNCHANGED <<process, pc, overtaken, monitor>>
    BY <1>8 DEF BotShutsDown, BotCrashes, commandVars
  <2> QED BY <2>1, <2>2 DEF MonitorInv, Active, TypeOK
<1> QED
  BY <1>1, <1>2, <1>3, <1>4, <1>5, <1>6, <1>7, <1>8 DEF Next, MonitorStep

\* A stop that ends leaves no bot.
LEMMA StopEndsAllBots ==
    ASSUME SupervisorInv, NEW c \in Commands, StopEnds(c)
    PROVE  /\ DOMAIN bots' = DOMAIN bots /\ Len(bots') = Len(bots)
           /\ \A b \in DOMAIN bots : ~bots'[b].alive
           /\ ~Active /\ ~Active' /\ process' = NoBot
<1>1. HasGate(c, "waiting") /\ pc[c] = "waiting" /\ UNCHANGED monitor /\ process' = NoBot
  BY DEF StopEnds, HasGate
<1>2. process # NoBot /\ ~Active /\ ~Active'
  BY <1>1, OneTalks DEF Active
<1>3. /\ DOMAIN bots' = DOMAIN bots /\ Len(bots') = Len(bots) /\ ~bots'[process].alive
      /\ \A d \in DOMAIN bots \ {process} : bots'[d] = bots[d]
  BY <1>2, AProcessTerminates DEF StopEnds, SupervisorInv
<1>4. \A d \in DOMAIN bots \ {process} : ~bots[d].alive
  BY DEF SupervisorInv, BotInv
<1> QED BY <1>1, <1>2, <1>3, <1>4

\* A started bot is alone.
LEMMA AStartedBotIsAlone ==
    ASSUME SupervisorInv, StartBot, \A b \in DOMAIN bots : ~bots[b].alive, state' # "Stopped"
    PROVE  BotInv' /\ process' \in DOMAIN bots' /\ bots'[process'].alive /\ Len(bots') = Len(bots) + 1
           /\ process' = Len(bots) + 1
<1>1. bots \in Seq(Bot)
  BY DEF SupervisorInv, TypeOK
<1>2. /\ Len(bots') = Len(bots) + 1 /\ process' = Len(bots) + 1
      /\ DOMAIN bots' = DOMAIN bots \cup {process'}
      /\ bots'[process'] = [alive |-> TRUE, deterministic |-> FALSE, disposed |-> FALSE]
      /\ \A b \in DOMAIN bots : b # process' /\ bots'[b] = bots[b]
  BY <1>1, ABotStarts
<1>3. \A b \in DOMAIN bots' : bots'[b].alive => b = process'
  BY <1>2
<1>4. bots'[process'].alive /\ ~bots'[process'].disposed
  BY <1>2
<1>5. BotInv'
  BY <1>3, <1>4 DEF BotInv
<1> QED BY <1>2, <1>4, <1>5

\* A bot exits by itself.
LEMMA ABotDies ==
    ASSUME TypeOK, NEW b \in DOMAIN bots, BotShutsDown(b) \/ \E d \in BOOLEAN : BotCrashes(b, d)
    PROVE  /\ DOMAIN bots' = DOMAIN bots /\ Len(bots') = Len(bots)
           /\ ~bots'[b].alive /\ \A d \in DOMAIN bots \ {b} : bots'[d] = bots[d]
<1>1. bots \in Seq(Bot) /\ bots[b] \in Bot
  BY DEF TypeOK
<1>2. CASE BotShutsDown(b)
  <2> DEFINE bot == [bots[b] EXCEPT !.alive = FALSE]
  <2>1. bots' = [bots EXCEPT ![b] = bot]
    BY <1>2 DEF BotShutsDown
  <2>2. bot \in Bot /\ ~bot.alive
    BY <1>1 DEF Bot
  <2> HIDE DEF bot
  <2> QED BY <1>1, <2>1, <2>2, ABotChanges
<1>3. ASSUME NEW d \in BOOLEAN, BotCrashes(b, d)
      PROVE  /\ DOMAIN bots' = DOMAIN bots /\ Len(bots') = Len(bots)
             /\ ~bots'[b].alive /\ \A e \in DOMAIN bots \ {b} : bots'[e] = bots[e]
  <2> DEFINE bot == [bots[b] EXCEPT !.alive = FALSE, !.deterministic = d]
  <2>1. bots' = [bots EXCEPT ![b] = bot]
    BY <1>3, Zenon DEF BotCrashes
  <2>2. bot \in Bot /\ ~bot.alive
    BY <1>1, ACrashedBot DEF Bot
  <2> HIDE DEF bot
  <2> QED BY <1>1, <2>1, <2>2, ABotChanges
<1> QED BY <1>2, <1>3

LEMMA BotKept ==
    ASSUME SupervisorInv, Next
    PROVE  BotInv'
<1> TypeOK /\ MonitorInv /\ BotInv
  BY DEF SupervisorInv
<1>1. ASSUME NEW c \in Commands, CommandStep(c) PROVE BotInv'
  <2>1. CASE StopFindsNoBot(c)
    <3>1. process = NoBot /\ bots' = bots
      BY <2>1 DEF StopFindsNoBot
    <3> QED BY <3>1, NobodyRuns DEF BotInv
  <2>2. CASE StopEnds(c)
    BY <2>2, StopEndsAllBots DEF BotInv
  <2>3. CASE StartRuns(c)
    <3>1. process = NoBot /\ StartBot /\ state' # "Stopped"
      BY <2>3 DEF StartRuns, AlreadyStarted
    <3> QED BY <3>1, NobodyRuns, AStartedBotIsAlone
  <2>4. CASE StopBegins(c) \/ WriteSucceeds(c) \/ WriteFails(c) \/ StartFindsBot(c)
             \/ StartThrows(c) \/ StartReturns(c)
    <3>1. UNCHANGED <<bots, process>> /\ (state' = state \/ state' # "Stopped")
      BY <2>4 DEF StopBegins, WriteSucceeds, WriteFails, StartFindsBot, StartThrows, StartReturns
    <3> QED BY <3>1 DEF BotInv
  <2> QED BY <1>1, <2>1, <2>2, <2>3, <2>4 DEF CommandStep
<1>2. CASE MonitorWakes
  <2>1. process = monitor.observed /\ process \in DOMAIN bots
    BY <1>2 DEF MonitorWakes, MonitorInv, Active, TypeOK
  <2>2. CASE UNCHANGED <<bots, process, state>>
    BY <2>2 DEF BotInv
  <2>3. CASE ~bots[process].alive /\ bots' = [bots EXCEPT ![process] = Disposed(bots[process])]
    <3>1. \A b \in DOMAIN bots : ~bots[b].alive
      BY <2>1, <2>3, NobodyRuns
    <3> QED BY <2>1, <2>3, <3>1, ABotIsDisposed DEF BotInv
  <2> QED BY <1>2, <2>1, <2>2, <2>3 DEF MonitorWakes
<1>3. CASE BackoffEnds
  <2>1. process \in DOMAIN bots /\ ~bots[process].alive /\ StartBot /\ state' # "Stopped"
    BY <1>3 DEF BackoffEnds, MonitorInv, Active, TypeOK
  <2> QED BY <2>1, NobodyRuns, AStartedBotIsAlone
<1>4. ASSUME NEW reply \in Answers, ProbeAnswers(reply) PROVE BotInv'
  <2>1. UNCHANGED <<bots, process>> /\ (state' = state \/ state' # "Stopped")
    BY <1>4 DEF ProbeAnswers, AnswersReady, AnswersOtherwise
  <2> QED BY <2>1 DEF BotInv
<1>5. CASE \/ MonitorThrows \/ Tick
           \/ \E c \in Commands, what \in {"restart", "exit"} : Click(c, what)
  BY <1>5 DEF MonitorThrows, Tick, Click, BotInv
<1>6. ASSUME NEW b \in DOMAIN bots, BotShutsDown(b) \/ \E d \in BOOLEAN : BotCrashes(b, d)
      PROVE  BotInv'
  <2>1. UNCHANGED <<process, state>> /\ DOMAIN bots' = DOMAIN bots
    BY <1>6 DEF BotShutsDown, BotCrashes
  <2>2. ~bots'[b].alive /\ \A d \in DOMAIN bots \ {b} : bots'[d] = bots[d]
    BY <1>6, ABotDies
  <2> QED BY <2>1, <2>2 DEF BotInv
<1> QED
  BY <1>1, <1>2, <1>3, <1>4, <1>5, <1>6 DEF Next, MonitorStep

-----------------------------------------------------------------------------
\* The credit.

\* Nobody starts a bot, and none is missed that was not before or crashed now.
LEMMA CreditStays ==
    ASSUME SupervisorInv, Len(bots') = Len(bots), TypeOK',
           \A c \in Commands : answer'[c] = "none" <=> answer[c] = "none",
           \/ crashes' = crashes /\ (ToReplace' = 1 => ToReplace = 1)
           \/ crashes' = crashes + 1
    PROVE  CreditInv'
<1>1. Started' = Started
  BY DEF Started
<1>2. Len(bots) \in Nat /\ crashes \in Nat
  BY CrashesAssumption DEF SupervisorInv, TypeOK
<1>3. ToReplace \in {0, 1} /\ ToReplace' \in {0, 1}
  BY DEF ToReplace
<1>4. Cardinality(Started) \in Nat /\ Len(bots) + ToReplace <= Cardinality(Started) + crashes
  BY StartedIsFinite DEF SupervisorInv, CreditInv
<1>5. Cardinality(Started)' = Cardinality(Started)
  BY <1>1
<1>6. Len(bots') + ToReplace' <= Cardinality(Started) + crashes'
  BY <1>2, <1>3, <1>4
<1> QED BY <1>5, <1>6 DEF CreditInv

LEMMA CreditKept ==
    ASSUME SupervisorInv, Next, TypeOK', MonitorInv'
    PROVE  CreditInv'
<1> TypeOK /\ MonitorInv /\ BotInv /\ CreditInv
  BY DEF SupervisorInv
<1>0. ASSUME UNCHANGED bots, Active' => Active /\ monitor'.observed = monitor.observed
      PROVE  ToReplace' = 1 => ToReplace = 1
  BY <1>0 DEF ToReplace
<1>1. ASSUME NEW c \in Commands, CommandStep(c) PROVE CreditInv'
  <2>1. CASE StopEnds(c)
    <3>1. ToReplace' = 0 /\ Len(bots') = Len(bots) /\ UNCHANGED <<answer, crashes>>
      BY <2>1, StopEndsAllBots DEF StopEnds, ToReplace
    <3> QED BY <3>1, CreditStays
  <2>2. CASE StartRuns(c)
    <3>1. answer[c] = "none" /\ answer' = [answer EXCEPT ![c] = "pending"] /\ crashes' = crashes
      BY <2>2 DEF StartRuns, HasGate, SupervisorInv, KindInv, AtGate
    <3>2. Started' = Started \cup {c} /\ c \notin Started
      BY <3>1 DEF Started, TypeOK
    <3>3. Cardinality(Started)' = Cardinality(Started) + 1 /\ Cardinality(Started) \in Nat
      BY <3>2, StartedIsFinite, FS_AddElement
    <3>4. process = NoBot /\ StartBot /\ state' # "Stopped"
      BY <2>2 DEF StartRuns, AlreadyStarted
    <3>5. bots'[process'].alive /\ Len(bots') = Len(bots) + 1 /\ process' = Len(bots) + 1
      BY <3>4, NobodyRuns, AStartedBotIsAlone
    <3>6. monitor'.observed = process'
      BY <2>2, <3>5 DEF StartRuns, NoMonitor
    <3>7. ToReplace' = 0 /\ ToReplace \in {0, 1}
      BY <3>5, <3>6 DEF ToReplace
    <3>8. Len(bots) \in Nat /\ crashes \in Nat
      BY CrashesAssumption DEF TypeOK
    <3> QED BY <3>1, <3>3, <3>5, <3>7, <3>8 DEF CreditInv
  <2>3. CASE StartThrows(c)
    <3>1. Len(bots') = Len(bots) /\ answer' = answer /\ crashes' = crashes + 1
      BY <2>3 DEF StartThrows
    <3> QED BY <3>1, CreditStays
  <2>4. CASE StopBegins(c)
    <3>1. bots' = bots /\ crashes' = crashes /\ (monitor' = NoMonitor \/ monitor' = monitor)
      BY <2>4 DEF StopBegins, CancelMonitor
    <3>2. \A d \in Commands : answer'[d] = "none" <=> answer[d] = "none"
      BY <2>4, AnswersTyped DEF StopBegins, AnswerPendingStart
    <3>3. Active' => Active /\ monitor'.observed = monitor.observed
      BY <3>1 DEF Active, NoMonitor
    <3> QED BY <1>0, <3>1, <3>2, <3>3, CreditStays
  <2>5. CASE StopFindsNoBot(c) \/ WriteSucceeds(c) \/ WriteFails(c) \/ StartFindsBot(c) \/ StartReturns(c)
    <3>1. UNCHANGED <<bots, answer, crashes, monitor>>
      BY <2>5 DEF StopFindsNoBot, WriteSucceeds, WriteFails, StartFindsBot, StartReturns
    <3> QED BY <1>0, <3>1, CreditStays DEF Active
  <2> QED BY <1>1, <2>1, <2>2, <2>3, <2>4, <2>5 DEF CommandStep
<1>2. CASE MonitorWakes
  <2>1. Active /\ process = monitor.observed /\ process \in DOMAIN bots /\ crashes' = crashes
    BY <1>2 DEF MonitorWakes, MonitorInv, Active, TypeOK
  <2>2. \A d \in Commands : answer'[d] = "none" <=> answer[d] = "none"
    BY <1>2, AnswersTyped DEF MonitorWakes, GiveUp
  <2>3. CASE bots' = bots
    <3>1. monitor' = [monitor EXCEPT !.at = "probe"] \/ monitor' = NoMonitor
          \/ monitor' = [monitor EXCEPT !.at = "backoff"]
      BY <1>2 DEF MonitorWakes, GiveUp
    <3>2. Active' => monitor'.observed = monitor.observed
      BY <3>1 DEF Active, NoMonitor, TypeOK, Monitor
    <3> QED BY <1>0, <2>1, <2>2, <2>3, <3>2, CreditStays
  <2>4. CASE ~bots[process].alive /\ bots' = [bots EXCEPT ![process] = Disposed(bots[process])]
    <3>1. ToReplace = 1 /\ ToReplace' \in {0, 1}
      BY <2>1, <2>4 DEF ToReplace
    <3> QED BY <2>1, <2>2, <2>4, <3>1, ABotIsDisposed, CreditStays
  <2> QED BY <1>2, <2>1, <2>3, <2>4 DEF MonitorWakes
<1>3. CASE BackoffEnds
  <2>1. /\ process \in DOMAIN bots /\ ~bots[process].alive /\ StartBot /\ state' # "Stopped"
        /\ Active /\ process = monitor.observed
        /\ answer' = answer /\ crashes' = crashes
    BY <1>3 DEF BackoffEnds, MonitorInv, Active, TypeOK
  <2>2. bots'[process'].alive /\ Len(bots') = Len(bots) + 1
    BY <2>1, NobodyRuns, AStartedBotIsAlone
  <2>3. ToReplace = 1 /\ ToReplace' = 0
    BY <2>1, <2>2 DEF ToReplace, MonitorInv
  <2>4. Started' = Started /\ Cardinality(Started) \in Nat
    BY <2>1, StartedIsFinite DEF Started
  <2>5. Cardinality(Started)' = Cardinality(Started)
    BY <2>4
  <2>6. Len(bots) \in Nat /\ crashes \in Nat
    BY CrashesAssumption DEF TypeOK
  <2> QED BY <2>1, <2>2, <2>3, <2>4, <2>5, <2>6 DEF CreditInv
<1>4. ASSUME NEW reply \in Answers, ProbeAnswers(reply) PROVE CreditInv'
  <2>1. bots' = bots /\ crashes' = crashes /\ Active
    BY <1>4 DEF ProbeAnswers, Active
  <2>2. \A d \in Commands : answer'[d] = "none" <=> answer[d] = "none"
    BY <1>4, AnswersTyped DEF ProbeAnswers, AnswersReady, AnswersOtherwise
  <2>3. Active' => monitor'.observed = monitor.observed
    <3>1. CASE overtaken
      <4>1. monitor' = NoMonitor
        BY <1>4, <3>1 DEF ProbeAnswers, AnswersReady, AnswersOtherwise, Continue
      <4> QED BY <4>1 DEF Active, NoMonitor
    <3>2. CASE ~overtaken
      <4>1. CASE reply = "ready"
        <5> DEFINE age == IF monitor.healthyAge = NotYet THEN 0 ELSE monitor.healthyAge
                   next == [monitor EXCEPT !.at = "rest", !.healthyAge = age,
                               !.restartCount = IF age >= HealthLimit THEN 0 ELSE @,
                               !.unavailableAge = 0]
        <5>1. monitor' = next
          BY <1>4, <3>2, <4>1 DEF ProbeAnswers, AnswersReady, Continue
        <5>2. next.observed = monitor.observed
          BY DEF TypeOK, Monitor
        <5> QED BY <5>1, <5>2
      <4>2. CASE reply # "ready"
        BY <1>4, <3>2, <4>2 DEF ProbeAnswers, AnswersOtherwise, Continue, TypeOK, Monitor
      <4> QED BY <4>1, <4>2
    <3> QED BY <3>1, <3>2
  <2> QED BY <1>0, <2>1, <2>2, <2>3, CreditStays
<1>5. CASE MonitorThrows
  <2>1. Len(bots') = Len(bots) /\ answer' = answer /\ crashes' = crashes + 1
    BY <1>5 DEF MonitorThrows
  <2> QED BY <2>1, CreditStays
<1>6. CASE Tick \/ \E c \in Commands, what \in {"restart", "exit"} : Click(c, what)
  <2>1. UNCHANGED <<bots, answer, crashes>>
    BY <1>6 DEF Tick, Click
  <2>2. monitor'.at = monitor.at /\ monitor'.observed = monitor.observed
    BY <1>6 DEF Tick, Click, TypeOK, Monitor
  <2> QED BY <1>0, <2>1, <2>2, CreditStays DEF Active
<1>7. ASSUME NEW b \in DOMAIN bots, BotShutsDown(b) PROVE CreditInv'
  <2>1. ~Active /\ ~Active'
    BY <1>7 DEF BotShutsDown, MonitorInv, Active
  <2>2. Len(bots') = Len(bots) /\ answer' = answer /\ crashes' = crashes
    BY <1>7 DEF BotShutsDown, TypeOK
  <2>3. ToReplace' = 0
    BY <2>1 DEF ToReplace
  <2> QED BY <2>2, <2>3, CreditStays
<1>8. ASSUME NEW b \in DOMAIN bots, NEW d \in BOOLEAN, BotCrashes(b, d) PROVE CreditInv'
  <2>1. Len(bots') = Len(bots) /\ answer' = answer /\ crashes' = crashes + 1
    BY <1>8 DEF BotCrashes, TypeOK
  <2> QED BY <2>1, CreditStays
<1> QED
  BY <1>1, <1>2, <1>3, <1>4, <1>5, <1>6, <1>7, <1>8 DEF Next, MonitorStep

-----------------------------------------------------------------------------
\* The budget of restarts.

\* What RapidInv says of a monitor.
Rapid(m) ==
    /\ m.rapid <= NumRestarts
    /\ m.botAge < HealthLimit => m.rapid <= m.restartCount
    /\ m.healthyAge <= m.botAge
    /\ m.at = "backoff" => m.restartCount < NumRestarts

LEMMA RapidOfNoMonitor ==
    /\ Rapid(NoMonitor) /\ Rapid([NoMonitor EXCEPT !.at = "threw"])
    /\ \A b : Rapid([NoMonitor EXCEPT !.at = "probe", !.observed = b])
BY RestartsAssumption, LimitAssumption DEF Rapid, NoMonitor, NotYet, NoBot

LEMMA RapidMoves ==
    ASSUME NEW m \in Monitor, Rapid(m), NEW place \in {"probe", "rest", "backoff"},
           place = "backoff" => ~(m.restartCount >= NumRestarts)
    PROVE  Rapid([m EXCEPT !.at = place])
<1>1. /\ [m EXCEPT !.at = place].at = place
      /\ [m EXCEPT !.at = place].rapid = m.rapid
      /\ [m EXCEPT !.at = place].botAge = m.botAge
      /\ [m EXCEPT !.at = place].healthyAge = m.healthyAge
      /\ [m EXCEPT !.at = place].restartCount = m.restartCount
  BY DEF Monitor
<1>2. m.restartCount \in Nat
  BY RestartsAssumption DEF Monitor
<1> QED BY <1>1, <1>2, RestartsAssumption DEF Rapid

LEMMA RapidRestarts ==
    ASSUME NEW m \in Monitor, Rapid(m), m.at = "backoff", NEW b
    PROVE  Rapid([at |-> "probe", observed |-> b, restartCount |-> m.restartCount + 1,
                  healthyAge |-> NotYet, unavailableAge |-> 0, botAge |-> 0,
                  rapid |-> IF m.botAge < HealthLimit THEN m.rapid + 1 ELSE 0])
<1>1. /\ m.restartCount \in Nat /\ m.rapid \in Nat /\ m.restartCount < NumRestarts
      /\ m.botAge < HealthLimit => m.rapid <= m.restartCount
  BY RestartsAssumption DEF Monitor, Rapid
<1> DEFINE fast == IF m.botAge < HealthLimit THEN m.rapid + 1 ELSE 0
<1>2. fast \in Nat /\ fast <= NumRestarts /\ fast <= m.restartCount + 1
  BY <1>1, RestartsAssumption
<1> HIDE DEF fast
<1>3. Rapid([at |-> "probe", observed |-> b, restartCount |-> m.restartCount + 1,
             healthyAge |-> NotYet, unavailableAge |-> 0, botAge |-> 0, rapid |-> fast])
  BY <1>2 DEF Rapid, NotYet
<1> QED BY <1>3 DEF fast

LEMMA RapidRefills ==
    ASSUME NEW m \in Monitor, Rapid(m), NEW age,
           age = IF m.healthyAge = NotYet THEN 0 ELSE m.healthyAge
    PROVE  Rapid([m EXCEPT !.at = "rest", !.healthyAge = age,
                           !.restartCount = IF age >= HealthLimit THEN 0 ELSE @,
                           !.unavailableAge = 0])
<1> DEFINE n == [m EXCEPT !.at = "rest", !.healthyAge = age,
                          !.restartCount = IF age >= HealthLimit THEN 0 ELSE @,
                          !.unavailableAge = 0]
<1>1. /\ n.at = "rest" /\ n.rapid = m.rapid /\ n.botAge = m.botAge /\ n.healthyAge = age
      /\ n.restartCount = IF age >= HealthLimit THEN 0 ELSE m.restartCount
  BY DEF Monitor
<1>2. m.botAge \in Nat /\ age \in Nat /\ age <= m.botAge
  BY LimitAssumption DEF Monitor, Ages, Rapid, NotYet
<1>3. age >= HealthLimit => ~(m.botAge < HealthLimit)
  BY <1>2, LimitAssumption
<1> HIDE DEF n
<1>4. Rapid(n)
  BY <1>1, <1>2, <1>3 DEF Rapid
<1> QED BY <1>4 DEF n

LEMMA RapidAges ==
    ASSUME NEW m \in Monitor, Rapid(m)
    PROVE  Rapid([m EXCEPT !.healthyAge = Older(@), !.unavailableAge = Older(@),
                           !.botAge = Older(@)])
<1> DEFINE n == [m EXCEPT !.healthyAge = Older(@), !.unavailableAge = Older(@),
                          !.botAge = Older(@)]
<1>1. /\ n.at = m.at /\ n.rapid = m.rapid /\ n.restartCount = m.restartCount
      /\ n.botAge = Older(m.botAge) /\ n.healthyAge = Older(m.healthyAge)
  BY DEF Monitor
<1>2. m.botAge \in Ages /\ m.healthyAge \in Ages \cup {NotYet} /\ m.healthyAge <= m.botAge
  BY DEF Monitor, Rapid
<1>3. Older(m.healthyAge) <= Older(m.botAge) /\ (Older(m.botAge) < HealthLimit => m.botAge < HealthLimit)
  BY <1>2, LimitAssumption DEF Older, Ages, NotYet
<1> HIDE DEF n
<1>4. Rapid(n)
  BY <1>1, <1>3 DEF Rapid
<1> QED BY <1>4 DEF n

LEMMA RapidKept ==
    ASSUME SupervisorInv, Next
    PROVE  RapidInv'
<1> Rapid(monitor) /\ monitor \in Monitor
  BY DEF SupervisorInv, RapidInv, Rapid, TypeOK
<1> SUFFICES Rapid(monitor')
  BY DEF RapidInv, Rapid
<1> USE RapidOfNoMonitor
<1>1. ASSUME NEW c \in Commands, CommandStep(c) PROVE Rapid(monitor')
  BY <1>1 DEF CommandStep, StopFindsNoBot, StopBegins, CancelMonitor, WriteSucceeds, WriteFails,
     StopEnds, StartFindsBot, StartRuns, StartThrows, StartReturns
<1>2. CASE MonitorWakes
  <2>1. \/ monitor' = [monitor EXCEPT !.at = "probe"]
        \/ monitor' = NoMonitor
        \/ ~OutOfRestarts /\ monitor' = [monitor EXCEPT !.at = "backoff"]
    BY <1>2 DEF MonitorWakes, GiveUp
  <2> QED BY <2>1, RapidMoves DEF OutOfRestarts
<1>3. CASE BackoffEnds
  BY <1>3, RapidRestarts DEF BackoffEnds, Continue, HealthySinceRestart
<1>4. ASSUME NEW reply \in Answers, ProbeAnswers(reply) PROVE Rapid(monitor')
  <2>1. CASE reply = "ready"
    <3> DEFINE age == IF monitor.healthyAge = NotYet THEN 0 ELSE monitor.healthyAge
               next == [monitor EXCEPT !.at = "rest", !.healthyAge = age,
                           !.restartCount = IF age >= HealthLimit THEN 0 ELSE @,
                           !.unavailableAge = 0]
    <3>1. monitor' = NoMonitor \/ monitor' = next
      BY <1>4, <2>1 DEF ProbeAnswers, AnswersReady, Continue
    <3>2. Rapid(next)
      BY RapidRefills
    <3> HIDE DEF next
    <3> QED BY <3>1, <3>2
  <2>2. CASE reply # "ready"
    BY <1>4, <2>2, RapidMoves DEF ProbeAnswers, AnswersOtherwise, Continue
  <2> QED BY <2>1, <2>2
<1>5. CASE MonitorThrows
  BY <1>5 DEF MonitorThrows
<1>6. CASE Tick
  BY <1>6, RapidAges DEF Tick
<1>7. CASE monitor' = monitor
  BY <1>7
<1> QED
  BY <1>1, <1>2, <1>3, <1>4, <1>5, <1>6, <1>7 DEF Next, MonitorStep, Click, BotShutsDown, BotCrashes

-----------------------------------------------------------------------------
\* The exit.

\* A disposed gate stays disposed, lets nobody in, and those it still serves were in
\* the queue before.
LEMMA GateOnlyCloses ==
    ASSUME SupervisorInv, NEW c \in Commands, CommandStep(c)
    PROVE  /\ gateDisposed => gateDisposed'
           /\ gateDisposed' =>
                /\ pc'[c] # "wantStart"
                /\ \A i \in DOMAIN queue' : \E j \in DOMAIN queue :
                      queue'[i] = queue[j] /\ (StopFindsNoBot(c) \/ StopEnds(c) => queue[j] # c)
<1> TypeOK
  BY DEF SupervisorInv
<1>0. \A place \in {"threw", "returned", "awaiting", "shutdown", "waiting"} :
         pc' = [pc EXCEPT ![c] = place] => pc'[c] # "wantStart"
  BY DEF TypeOK
<1>1. ASSUME queue # <<>>, Head(queue) = c, Shifted(queue', queue)
      PROVE  \A i \in DOMAIN queue' : \E j \in DOMAIN queue : queue'[i] = queue[j] /\ queue[j] # c
  <2> SUFFICES ASSUME NEW i \in DOMAIN queue'
               PROVE  i + 1 \in DOMAIN queue /\ queue'[i] = queue[i + 1] /\ queue[i + 1] # c
    OBVIOUS
  <2>1. i + 1 \in DOMAIN queue /\ queue'[i] = queue[i + 1] /\ i + 1 # 1
    BY <1>1 DEF Shifted
  <2>2. 1 \in DOMAIN queue /\ queue[1] = c
    BY <1>1, TailOfQueue DEF TypeOK
  <2> QED BY <2>1, <2>2 DEF SupervisorInv, GateInv
<1>2. CASE StopFindsNoBot(c) \/ StopEnds(c)
  <2>1. PICK p \in Stopping : HasGate(c, p) /\ AfterStop(c)
    BY <1>2 DEF StopFindsNoBot, StopEnds, Stopping
  <2>2. queue # <<>> /\ Head(queue) = c /\ kind[c] \in {"restart", "exit"}
    BY <2>1, InFront
  <2>3. CASE ~gateDisposed /\ gateDisposed' = FALSE
    BY <2>3
  <2>4. CASE /\ gateDisposed' = TRUE /\ Shifted(queue', queue)
             /\ pc' = [pc EXCEPT ![c] = "threw"] \/ pc' = [pc EXCEPT ![c] = "returned"]
    BY <1>0, <1>1, <2>2, <2>4
  <2> QED BY <2>1, <2>2, <2>3, <2>4, StopLeft
<1>3. CASE LeavesBot(c) /\ ~StopFindsNoBot(c) /\ ~StopEnds(c) /\ ~StartReturns(c)
  <2>1. /\ queue # <<>> /\ Head(queue) = c
        /\ \E p \in {"awaiting", "returned", "threw"} : LeaveGate(c, p)
    BY <1>3 DEF LeavesBot, WriteFails, StartFindsBot, StartRuns, StartThrows, HasGate
  <2>2. PICK place \in {"awaiting", "returned", "threw"} :
          Shifted(queue', queue) /\ pc' = [pc EXCEPT ![c] = place] /\ gateDisposed' = gateDisposed
    BY <2>1, GateLeft
  <2> QED BY <1>0, <1>1, <1>3, <2>1, <2>2
<1>4. CASE StopBegins(c)
  <2>1. HasGate(c, "wantStop") /\ queue # <<>> /\ Head(queue) = c /\ ~StopFindsNoBot(c) /\ ~StopEnds(c)
    BY <1>4 DEF StopBegins, HasGate, StopFindsNoBot, StopEnds
  <2>2. CASE LeaveGate(c, "threw")
    <3>1. Shifted(queue', queue) /\ pc' = [pc EXCEPT ![c] = "threw"] /\ gateDisposed' = gateDisposed
      BY <2>1, <2>2, GateLeft
    <3> QED BY <1>0, <1>1, <2>1, <3>1
  <2>3. CASE pc' = [pc EXCEPT ![c] = "shutdown"] /\ UNCHANGED <<queue, gateDisposed>>
    BY <1>0, <2>1, <2>3
  <2> QED BY <1>4, <2>2, <2>3 DEF StopBegins
<1>5. CASE WriteSucceeds(c) \/ StartReturns(c)
  <2>1. /\ UNCHANGED <<queue, gateDisposed>> /\ ~StopFindsNoBot(c) /\ ~StopEnds(c)
        /\ pc' = [pc EXCEPT ![c] = "waiting"] \/ pc' = [pc EXCEPT ![c] = "returned"]
    BY <1>5 DEF WriteSucceeds, StartReturns, StopFindsNoBot, StopEnds, HasGate
  <2> QED BY <1>0, <2>1
<1> QED BY <1>2, <1>3, <1>4, <1>5 DEF CommandStep, LeavesBot

\* The restart that outlives an exit stays the last start while none begins.
LEMMA RestartStays ==
    ASSUME SupervisorInv, NEW x \in Commands, RestartBefore(x), startup' = startup,
           \/ \E c \in Commands : CommandStep(c)
           \/ \E c \in Commands, what \in {"restart", "exit"} : Click(c, what)
           \/ UNCHANGED commandVars
    PROVE  RestartBefore(x)'
<1>1. PICK d \in 1 .. (x - 1) : startup = d /\ kind[d] = "restart" /\ pc[d] = "threw"
  BY DEF RestartBefore
<1>2. d \in Commands
  BY <1>1, CommandsAssumption DEF Commands
<1>3. kind'[d] = "restart" /\ pc'[d] = "threw"
  <2>1. ASSUME NEW c \in Commands, CommandStep(c)
        PROVE  kind'[d] = "restart" /\ pc'[d] = "threw"
    <3>1. c # d
      BY <1>1, <2>1 DEF CommandStep, StopFindsNoBot, StopBegins, WriteSucceeds, WriteFails,
         StopEnds, StartFindsBot, StartRuns, StartThrows, StartReturns, HasGate
    <3> QED BY <1>1, <1>2, <2>1, <3>1, ACommandMoves
  <2>2. ASSUME NEW c \in Commands, NEW what \in {"restart", "exit"}, Click(c, what)
        PROVE  kind'[d] = "restart" /\ pc'[d] = "threw"
    <3>1. kind[c] = "none" /\ kind' = [kind EXCEPT ![c] = what]
          /\ \E place : pc' = [pc EXCEPT ![c] = place]
      BY <2>2 DEF Click
    <3>2. c # d
      BY <1>1, <3>1
    <3> QED BY <1>1, <1>2, <3>1, <3>2 DEF SupervisorInv, TypeOK
  <2>3. CASE UNCHANGED commandVars
    BY <1>1, <2>3 DEF commandVars
  <2> QED BY <2>1, <2>2, <2>3
<1> QED BY <1>1, <1>3 DEF RestartBefore

\* An exit that returns has disposed the gate after its stop, so no bot runs; the
\* only start that the gate may still serve is that of an earlier restart.
LEMMA AnExitReturns ==
    ASSUME SupervisorInv, NEW c \in Commands, CommandStep(c), kind[c] = "exit", pc'[c] = "returned"
    PROVE  /\ gateDisposed' /\ process' = NoBot
           /\ \A i \in DOMAIN queue' :
                 pc'[queue'[i]] = "wantStart" => kind[queue'[i]] = "restart" /\ queue'[i] < c
<1> TypeOK /\ GateInv /\ KindInv
  BY DEF SupervisorInv
<1>1. pc[c] \notin {"wantStart", "awaiting"}
  BY DEF KindInv
<1>2. ~StartFindsBot(c) /\ ~StartRuns(c) /\ ~StartThrows(c) /\ ~StartReturns(c)
  BY <1>1 DEF StartFindsBot, StartRuns, StartThrows, StartReturns, HasGate
<1>3. ~StopBegins(c) /\ ~WriteSucceeds(c) /\ ~WriteFails(c)
  BY DEF StopBegins, WriteSucceeds, WriteFails, LeaveGate, TypeOK
<1>4. StopFindsNoBot(c) \/ StopEnds(c)
  BY <1>2, <1>3 DEF CommandStep
<1>5. PICK p \in Stopping : HasGate(c, p) /\ AfterStop(c) /\ process' = NoBot
  BY <1>4 DEF StopFindsNoBot, StopEnds, Stopping
<1>6. queue # <<>> /\ Head(queue) = c /\ pc[c] \in Stopping
  BY <1>5, InFront
<1>7. \A place \in {"threw", "wantStart"} : pc' # [pc EXCEPT ![c] = place]
  BY DEF TypeOK
<1>8. gateDisposed' = TRUE
  BY <1>5, <1>6, <1>7, StopLeft
<1>9. ASSUME NEW i \in DOMAIN queue', pc'[queue'[i]] = "wantStart"
      PROVE  kind[queue'[i]] = "restart" /\ queue'[i] < c
  <2>1. PICK j \in DOMAIN queue : queue'[i] = queue[j] /\ queue[j] # c
    BY <1>4, <1>8, GateOnlyCloses
  <2>2. queue[j] \in Commands /\ pc[queue[j]] = "wantStart"
    BY <1>9, <2>1, ACommandMoves DEF TypeOK
  <2>3. kind[queue[j]] = "restart"
    BY <1>6, <2>1, <2>2 DEF KindInv, GateInv
  <2>4. 1 \in DOMAIN queue /\ queue[1] = c
    BY <1>6, TailOfQueue DEF TypeOK
  <2>5. queue[j] < c
    BY <1>6, <2>2, <2>4 DEF GateInv
  <2> QED BY <2>1, <2>3, <2>5
<1> QED BY <1>5, <1>8, <1>9

LEMMA ExitKept ==
    ASSUME SupervisorInv, Next
    PROVE  ExitInv'
<1> TypeOK /\ GateInv /\ KindInv /\ MonitorInv /\ ExitInv
  BY DEF SupervisorInv
<1> SUFFICES ASSUME NEW x \in Commands, kind'[x] = "exit", pc'[x] = "returned"
             PROVE  /\ gateDisposed'
                    /\ \A i \in DOMAIN queue' :
                          pc'[queue'[i]] = "wantStart" => kind'[queue'[i]] = "restart" /\ queue'[i] < x
                    /\ process' # NoBot => RestartBefore(x)'
  BY DEF ExitInv
<1>1. ASSUME NEW c \in Commands, CommandStep(c), c # x
      PROVE  /\ gateDisposed'
             /\ \A i \in DOMAIN queue' :
                   pc'[queue'[i]] = "wantStart" => kind'[queue'[i]] = "restart" /\ queue'[i] < x
             /\ process' # NoBot => RestartBefore(x)'
  <2>1. kind' = kind /\ pc[x] = "returned" /\ \A d \in Commands \ {c} : pc'[d] = pc[d]
    BY <1>1, ACommandMoves
  <2>2. gateDisposed /\ gateDisposed' /\ pc'[c] # "wantStart"
    BY <1>1, <2>1, GateOnlyCloses DEF ExitInv
  <2>3. ASSUME NEW i \in DOMAIN queue', pc'[queue'[i]] = "wantStart"
        PROVE  kind'[queue'[i]] = "restart" /\ queue'[i] < x
    <3>1. PICK j \in DOMAIN queue : queue'[i] = queue[j]
      BY <1>1, <2>2, GateOnlyCloses
    <3>2. queue[j] \in Commands /\ pc[queue[j]] = "wantStart"
      BY <2>1, <2>2, <2>3, <3>1 DEF TypeOK
    <3> QED BY <2>1, <3>1, <3>2 DEF ExitInv
  <2>4. ASSUME process' # NoBot PROVE RestartBefore(x)'
    <3>1. CASE StartRuns(c)
      <4>1. /\ pc[c] = "wantStart" /\ queue # <<>> /\ Head(queue) = c
            /\ LeaveGate(c, "awaiting") /\ startup' = c
        BY <3>1 DEF StartRuns, HasGate
      <4>2. 1 \in DOMAIN queue /\ queue[1] = c
        BY <4>1, TailOfQueue DEF TypeOK
      <4>3. kind[c] = "restart" /\ c < x
        BY <2>1, <4>1, <4>2 DEF ExitInv
      <4>4. pc'[c] = "threw"
        BY <2>2, <4>1 DEF LeaveGate, TypeOK
      <4>5. c \in 1 .. (x - 1)
        BY <4>3, CommandsAssumption DEF Commands
      <4> QED BY <2>1, <4>1, <4>3, <4>4, <4>5 DEF RestartBefore
    <3>2. CASE StopEnds(c)
      BY <2>4, <3>2 DEF StopEnds
    <3>3. CASE ~StartRuns(c) /\ ~StopEnds(c)
      <4>1. process' = process /\ startup' = startup
        BY <1>1, <3>3 DEF CommandStep, StopFindsNoBot, StopBegins, WriteSucceeds, WriteFails,
           StartFindsBot, StartThrows, StartReturns
      <4> QED BY <1>1, <2>1, <2>4, <4>1, RestartStays DEF ExitInv
    <3> QED BY <3>1, <3>2, <3>3
  <2> QED BY <2>2, <2>3, <2>4
<1>2. CASE CommandStep(x)
  <2>1. kind' = kind
    BY <1>2, ACommandMoves
  <2> QED BY <1>2, <2>1, AnExitReturns
<1>3. ASSUME NEW c \in Commands, NEW what \in {"restart", "exit"}, Click(c, what)
      PROVE  /\ gateDisposed'
             /\ \A i \in DOMAIN queue' :
                   pc'[queue'[i]] = "wantStart" => kind'[queue'[i]] = "restart" /\ queue'[i] < x
             /\ process' # NoBot => RestartBefore(x)'
  <2>1. /\ pc'[c] \in {"threw", "wantStop"} /\ c # x
        /\ \A d \in Commands \ {c} : pc'[d] = pc[d] /\ kind'[d] = kind[d]
    BY <1>3 DEF Click, TypeOK
  <2>2. kind[x] = "exit" /\ pc[x] = "returned"
    BY <2>1
  <2>3. gateDisposed /\ UNCHANGED <<gateDisposed, queue, process, startup>>
    BY <1>3, <2>2 DEF Click, ExitInv
  <2>4. \A i \in DOMAIN queue : queue[i] \in Commands
    BY DEF TypeOK
  <2> QED BY <1>3, <2>1, <2>2, <2>3, <2>4, RestartStays DEF ExitInv
<1>4. CASE UNCHANGED <<startup, commandVars>> /\ (process' # NoBot => process # NoBot)
  <2>1. kind[x] = "exit" /\ pc[x] = "returned" /\ UNCHANGED <<kind, pc, queue, gateDisposed>>
    BY <1>4 DEF commandVars
  <2> QED BY <1>4, <2>1, RestartStays DEF ExitInv
<1>5. CASE MonitorStep
  BY <1>4, <1>5 DEF MonitorStep, MonitorWakes, GiveUp, BackoffEnds, ProbeAnswers, MonitorInv, Active
<1>6. CASE MonitorThrows \/ Tick \/ \E b \in DOMAIN bots :
             BotShutsDown(b) \/ \E d \in BOOLEAN : BotCrashes(b, d)
  BY <1>4, <1>6 DEF MonitorThrows, Tick, BotShutsDown, BotCrashes
<1> QED BY <1>1, <1>2, <1>3, <1>5, <1>6 DEF Next

-----------------------------------------------------------------------------
\* The invariant.

LEMMA SupervisorInit ==
    ASSUME Init
    PROVE  SupervisorInv
<1> USE CommandsAssumption, CrashesAssumption, LimitAssumption, RestartsAssumption DEF Init
<1>1. 1 \in Commands /\ MaxBots \in Nat /\ NoMonitor \in Monitor
  BY DEF Commands, MaxBots, NoMonitor, Monitor, Ages, NotYet, NoBot
<1>2. /\ queue \in Seq(Commands) /\ Len(queue) = 1 /\ DOMAIN queue = {1} /\ queue[1] = 1
      /\ Head(queue) = 1 /\ queue # <<>>
  BY <1>1
<1>3. /\ \A c \in Commands : answer[c] = "none"
      /\ pc[1] = "wantStart" /\ \A c \in Commands \ {1} : pc[c] = "idle"
      /\ kind[1] = "start" /\ \A c \in Commands \ {1} : kind[c] = "none"
  BY <1>1
<1>4. TypeOK
  <2>1. bots \in Seq(Bot) /\ Len(bots) = 0
    OBVIOUS
  <2>2. /\ answer \in [Commands -> {"none", "pending", "true", "false"}]
        /\ kind \in [Commands -> {"none", "start", "restart", "exit"}]
        /\ pc \in [Commands -> {"idle", "wantStop", "shutdown", "waiting",
                                "wantStart", "awaiting", "returned", "threw"}]
    OBVIOUS
  <2>3. /\ process \in {NoBot} \cup DOMAIN bots /\ state \in States /\ intentionalStop \in BOOLEAN
        /\ startup \in {NoCommand} \cup Commands /\ gateDisposed \in BOOLEAN
        /\ monitor \in Monitor /\ overtaken \in BOOLEAN
    BY <1>1 DEF States
  <2>4. Len(bots) <= MaxBots /\ crashes \in 0 .. MaxCrashes
    BY <1>1, <2>1
  <2> QED BY <1>2, <2>1, <2>2, <2>3, <2>4 DEF TypeOK
<1>5. GateInv
  BY <1>2, <1>3 DEF GateInv, AtGate, Stopping
<1>6. KindInv
  <2>1. \A c \in Commands : \A d \in 1 .. c : c = 1 => d = 1
    BY DEF Commands
  <2> QED BY <1>3, <2>1 DEF KindInv, AtGate, Stopping
<1>7. ~Active /\ monitor.at = "none"
  BY DEF Active, NoMonitor
<1>8. MonitorInv
  BY <1>3, <1>7 DEF MonitorInv
<1>9. BotInv
  BY DEF BotInv
<1>10. CreditInv
  <2>1. ToReplace = 0 /\ Len(bots) = 0 /\ crashes = 0
    BY <1>7 DEF ToReplace
  <2> QED BY <2>1, StartedIsFinite DEF CreditInv
<1>11. RapidInv
  BY RapidOfNoMonitor DEF RapidInv, Rapid
<1>12. ExitInv
  BY <1>3 DEF ExitInv
<1> QED BY <1>4, <1>5, <1>6, <1>8, <1>9, <1>10, <1>11, <1>12 DEF SupervisorInv

LEMMA SupervisorNext ==
    ASSUME SupervisorInv, [Next]_vars
    PROVE  SupervisorInv'
<1>1. CASE Next
  <2>1. TypeOK'
    BY <1>1, CommandsKeepTypes, MonitorKeepsTypes, OthersKeepTypes DEF Next
  <2>2. MonitorInv'
    BY <1>1, MonitorKept
  <2> QED
    BY <1>1, <2>1, <2>2, GateKept, KindKept, BotKept, CreditKept, RapidKept, ExitKept
       DEF SupervisorInv
<1>2. CASE UNCHANGED vars
  <2> USE <1>2 DEF vars, commandVars
  <2>1. TypeOK' /\ GateInv' /\ KindInv'
    BY DEF SupervisorInv, TypeOK, GateInv, KindInv
  <2>2. MonitorInv' /\ BotInv' /\ RapidInv'
    BY DEF SupervisorInv, MonitorInv, BotInv, RapidInv, Active
  <2>3. CreditInv'
    <3>1. Started' = Started /\ ToReplace' = ToReplace
      BY DEF Started, ToReplace, Active
    <3>2. Cardinality(Started)' = Cardinality(Started)
      BY <3>1
    <3> QED BY <3>1, <3>2 DEF SupervisorInv, CreditInv
  <2>4. ExitInv'
    BY DEF SupervisorInv, ExitInv, RestartBefore
  <2> QED BY <2>1, <2>2, <2>3, <2>4 DEF SupervisorInv
<1> QED BY <1>1, <1>2

\* The inductive invariant of the supervisor.
THEOREM SupervisorInvariant == Spec => []SupervisorInv
<1>1. Init => SupervisorInv
  BY SupervisorInit
<1>2. SupervisorInv /\ [Next]_vars => SupervisorInv'
  BY SupervisorNext
<1> QED BY <1>1, <1>2, PTL DEF Spec

\* Whatever commands overlap with whatever fails, the bot that runs is the one the
\* supervisor knows, with an open handle: there is never a second.
THEOREM NoBotIsLost == Spec => []NoOrphan
<1>1. SupervisorInv => NoOrphan
  BY DEF SupervisorInv, BotInv, NoOrphan
<1> QED BY <1>1, SupervisorInvariant, PTL

\* While the launcher says Stopped no bot runs.
THEOREM StoppedIsTrue == Spec => []StoppedMeansNoBot
<1>1. SupervisorInv => StoppedMeansNoBot
  BY DEF SupervisorInv, BotInv, StoppedMeansNoBot
<1> QED BY <1>1, SupervisorInvariant, PTL

\* A bot that keeps crashing soon after its start is not restarted for ever.
THEOREM RestartsAreBounded == Spec => []RapidCrashesEnd
<1>1. SupervisorInv => RapidCrashesEnd
  BY DEF SupervisorInv, RapidInv, RapidCrashesEnd
<1> QED BY <1>1, SupervisorInvariant, PTL

\* After an Exit no bot runs, but for the one that a Restart clicked before it,
\* which still waited for the gate, starts after it.
THEOREM ExitEndsTheBot == Spec => []OnlyARestartOutlivesExit
<1>1. SupervisorInv => OnlyARestartOutlivesExit
  <2> SUFFICES ASSUME SupervisorInv, NEW x \in Commands, kind[x] = "exit", pc[x] = "returned",
                      NEW b \in DOMAIN bots, bots[b].alive
               PROVE  RestartBefore(x)
    BY DEF OnlyARestartOutlivesExit, RestartBefore
  <2>1. process # NoBot
    BY DEF SupervisorInv, BotInv, TypeOK, NoBot
  <2> QED BY <2>1 DEF SupervisorInv, ExitInv
<1> QED BY <1>1, SupervisorInvariant, PTL
=============================================================================
