----------------------- MODULE ReconfigurationProofs -----------------------
(***************************************************************************)
(* For any number of applications, launches and failures: the prior        *)
(* configuration is kept until an application succeeds, one that fails     *)
(* leaves config.env as it found it, and the bots of a launch that run are *)
(* those its tray can stop, with the configuration in config.env.          *)
(*                                                                         *)
(* The argument.  Unless they overlap, the only application under way is   *)
(* the last one begun (OrderInv), so that what it has done to the files    *)
(* can be read off its place (FileInv).  Unless a stop threw, the          *)
(* supervisor it stops is the one in the field (TargetInv), which alone    *)
(* may have a bot (BotsInv).  A command that goes on from a stop to its    *)
(* next start does not find the logs open (LogsInv), so that the start     *)
(* succeeds.                                                               *)
(***************************************************************************)
EXTENDS Reconfiguration, TLAPS

InFlight(k) == pc[k] \notin Over

\* Without a configuration or a supervisor nothing can be applied.
LaunchInv ==
    /\ pc[Launch] \in {"idle", "setup", "start", "succeeded", "failed"}
    /\ pc[Launch] \in {"idle", "setup", "failed"} =>
          supervisors = <<>> /\ \A k \in Applications : ~InFlight(k)
    /\ pc[Launch] = "setup" => config = Missing
    /\ pc[Exit] \in {"idle", "stop", "succeeded", "threw"}

\* Who waits for a supervisor to stop, and which.
TargetInv ==
    /\ \A c \in Commands : (target[c] # NoSupervisor) <=> (pc[c] \in {"stop", "undo"})
    /\ ~disturbed => \A k \in Applications : pc[k] \in {"stop", "undo"} => target[k] = field

\* Applications begin in order, one after the other unless they overlap.
OrderInv ==
    /\ \A k \in Applications : (k > begun => pc[k] = "idle") /\ pc[k] # "setup"
    /\ ~overlapped => \A k \in Applications : InFlight(k) => k = begun
    /\ ~disturbed => \A j, k \in Applications : InFlight(j) /\ InFlight(k) => j = k

\* What the last application has done to the files so far.
FilesAt(k, place) ==
    /\ place \in {"staging", "stop", "stopped", "restart", "recover"} => config = before[k]
    /\ place \in {"start", "undo", "undone"} => backup = before[k]
    /\ place \in {"restart", "recover"} => backup = Missing
    /\ place \in {"start", "undo", "undone", "restart", "recover"} => k \notin staged
    /\ place # "succeeded" => before[k] \in {config, backup}

FileInv == ~overlapped /\ begun > 0 => FilesAt(begun, pc[begun])

\* Only the supervisor in the field has a bot, and it runs with config.env; while
\* an application replaces the file nobody has.
NoBots == \A s \in DOMAIN supervisors : supervisors[s].bot = "none"

BotsInv ==
    ~disturbed =>
      /\ \A s \in DOMAIN supervisors :
            supervisors[s].bot # "none" =>
               s = field /\ (supervisors[s].bot = "up" => supervisors[s].runs = config)
      /\ \A k \in Applications : pc[k] \in {"stopped", "undone"} => NoBots

\* The logs are open only while there is a supervisor in the field, and never where an
\* application goes on from a stop to its next start.
LogsInv ==
    /\ logs => field # NoSupervisor
    /\ \A k \in Applications : pc[k] \in {"stopped", "undone"} => ~logs

ReconfigurationInv ==
    /\ TypeOK
    /\ LaunchInv
    /\ TargetInv
    /\ OrderInv
    /\ FileInv
    /\ BotsInv

-----------------------------------------------------------------------------
\* Commands and contents.

LEMMA CommandsTyped ==
    /\ Launch \in Commands /\ Exit \in Commands /\ Applications \subseteq Commands
    /\ Launch \notin Applications /\ Exit \notin Applications /\ Launch # Exit
    /\ Commands = Applications \cup {Launch, Exit}
    /\ \A k \in Applications : k \in Contents /\ k # Missing /\ k \in Nat /\ k > 0
    /\ Missing \in Contents
BY BoundsAssumption DEF Launch, Exit, Commands, Applications, Contents, Missing

LEMMA AFault ==
    ASSUME TypeOK, Fault
    PROVE  faults' \in 0 .. MaxFaults
BY BoundsAssumption DEF TypeOK, Fault

\* A command goes to another place, the others stay.
LEMMA Going ==
    ASSUME TypeOK, NEW c \in Commands, NEW place, Go(c, place)
    PROVE  /\ pc'[c] = place /\ \A d \in Commands \ {c} : pc'[d] = pc[d]
           /\ place \in Places => pc' \in [Commands -> Places]
BY DEF TypeOK, Go

LEMMA NoTarget ==
    ASSUME TypeOK, NEW c \in Commands, target' = [target EXCEPT ![c] = NoSupervisor]
    PROVE  /\ target'[c] = NoSupervisor /\ \A d \in Commands \ {c} : target'[d] = target[d]
           /\ target' \in [Commands -> {NoSupervisor} \cup DOMAIN supervisors]
BY DEF TypeOK

\* One supervisor changes.
LEMMA ASupervisorChanges ==
    ASSUME NEW list \in Seq(Supervisor), NEW s \in DOMAIN list, NEW x \in Supervisor
    PROVE  /\ [list EXCEPT ![s] = x] \in Seq(Supervisor)
           /\ DOMAIN [list EXCEPT ![s] = x] = DOMAIN list
           /\ Len([list EXCEPT ![s] = x]) = Len(list)
           /\ [list EXCEPT ![s] = x][s] = x
           /\ \A t \in DOMAIN list \ {s} : [list EXCEPT ![s] = x][t] = list[t]
OBVIOUS

\* A list of supervisors grows by a new one.
LEMMA ASupervisorMore ==
    ASSUME NEW list \in Seq(Supervisor), NEW x \in Supervisor
    PROVE  /\ Append(list, x) \in Seq(Supervisor) /\ Len(list) \in Nat
           /\ DOMAIN list = 1 .. Len(list) /\ DOMAIN Append(list, x) = 1 .. Len(list) + 1
           /\ Append(list, x)[Len(list) + 1] = x
           /\ \A t \in DOMAIN list : Append(list, x)[t] = list[t]
OBVIOUS

LEMMA ANewSupervisor ==
    ASSUME NEW c \in Commands, NEW content \in Contents
    PROVE  /\ NewSupervisor(c, content) \in Supervisor
           /\ NewSupervisor(c, content).bot = "up" /\ NewSupervisor(c, content).runs = content
BY DEF NewSupervisor, Supervisor

\* A runtime is started on top of list, or there is no configuration.
LEMMA ARuntimeStarts ==
    ASSUME TypeOK, NEW c \in Commands, NEW list \in Seq(Supervisor), NEW content \in Contents,
           NEW awaiting \in Places, NEW failed \in Places,
           StartRuntime(c, list, content, awaiting, failed)
    PROVE  /\ supervisors' \in Seq(Supervisor)
           /\ pc' \in [Commands -> Places] /\ \A d \in Commands \ {c} : pc'[d] = pc[d]
           /\ \/ /\ StartThrows(content) /\ supervisors' = list /\ field' = field /\ logs' = logs
                 /\ pc'[c] = failed
              \/ /\ ~StartThrows(content) /\ pc'[c] = awaiting /\ logs' = TRUE
                 /\ field' \notin DOMAIN list
                 /\ DOMAIN supervisors' = DOMAIN list \cup {field'}
                 /\ supervisors'[field'].bot = "up" /\ supervisors'[field'].runs = content
                 /\ \A s \in DOMAIN list : supervisors'[s] = list[s]
<1>1. CASE StartThrows(content)
  <2>1. supervisors' = list /\ field' = field /\ logs' = logs /\ Go(c, failed)
    BY <1>1 DEF StartRuntime, fields
  <2> QED BY <1>1, <2>1, Going
<1>2. CASE ~StartThrows(content)
  <2> DEFINE x == NewSupervisor(c, content)
  <2>1. supervisors' = Append(list, x) /\ field' = Len(list) + 1 /\ logs' = TRUE /\ Go(c, awaiting)
    BY <1>2 DEF StartRuntime
  <2>2. x \in Supervisor /\ x.bot = "up" /\ x.runs = content
    BY ANewSupervisor
  <2> HIDE DEF x
  <2>3. /\ supervisors' \in Seq(Supervisor) /\ Len(list) \in Nat
        /\ DOMAIN list = 1 .. Len(list) /\ DOMAIN supervisors' = 1 .. Len(list) + 1
        /\ supervisors'[field'] = x
        /\ \A t \in DOMAIN list : supervisors'[t] = list[t]
    BY <2>1, <2>2, ASupervisorMore
  <2>4. field' \notin DOMAIN list /\ DOMAIN supervisors' = DOMAIN list \cup {field'}
    BY <2>1, <2>3
  <2> QED BY <1>2, <2>1, <2>2, <2>3, <2>4, Going
<1> QED BY <1>1, <1>2

-----------------------------------------------------------------------------
\* What becomes of a supervisor.

\* No bot is started, nor given another configuration.
Tamer(new, old) ==
    new.bot # "none" =>
      old.bot # "none" /\ (new.bot = "up" => old.bot = "up" /\ new.runs = old.runs)

NoNewBots(new, old) ==
    /\ DOMAIN new = DOMAIN old
    /\ \A s \in DOMAIN old : Tamer(new[s], old[s])

LEMMA NoNewBotAt ==
    ASSUME NEW list \in Seq(Supervisor), NEW s \in DOMAIN list, NEW x \in Supervisor, Tamer(x, list[s])
    PROVE  /\ [list EXCEPT ![s] = x] \in Seq(Supervisor)
           /\ NoNewBots([list EXCEPT ![s] = x], list)
<1> DEFINE new == [list EXCEPT ![s] = x]
<1>1. /\ new \in Seq(Supervisor) /\ DOMAIN new = DOMAIN list /\ new[s] = x
      /\ \A t \in DOMAIN list \ {s} : new[t] = list[t]
  BY ASupervisorChanges
<1> HIDE DEF new
<1>2. NoNewBots(new, list)
  BY <1>1 DEF NoNewBots, Tamer
<1> QED BY <1>1, <1>2 DEF new

LEMMA GateOf ==
    ASSUME NEW old \in Supervisor
    PROVE  /\ old.gate \in Seq(Commands)
           /\ \A c \in Commands : Append(old.gate, c) \in Seq(Commands)
           /\ old.gate # <<>> =>
                /\ Tail(old.gate) \in Seq(Commands)
                /\ (IF Len(old.gate) = 1 THEN <<>> ELSE <<old.gate[2]>>) \in Seq(Commands)
<1>1. old.gate \in Seq(Commands)
  BY DEF Supervisor
<1> DEFINE q == old.gate
<1> HIDE DEF q
<1>2. ASSUME q \in Seq(Commands)
      PROVE  /\ \A c \in Commands : Append(q, c) \in Seq(Commands)
             /\ q # <<>> =>
                  /\ Tail(q) \in Seq(Commands)
                  /\ (IF Len(q) = 1 THEN <<>> ELSE <<q[2]>>) \in Seq(Commands)
  <2>1. \A c \in Commands : Append(q, c) \in Seq(Commands)
    BY <1>2
  <2>2. q # <<>> => Tail(q) \in Seq(Commands)
    BY <1>2
  <2>3. ASSUME q # <<>>, Len(q) # 1 PROVE <<q[2]>> \in Seq(Commands)
    <3>1. Len(q) \in Nat /\ Len(q) # 0 /\ q \in [1 .. Len(q) -> Commands]
      BY <1>2, <2>3
    <3>2. 2 \in 1 .. Len(q)
      BY <2>3, <3>1
    <3>3. q[2] \in Commands
      BY <3>1, <3>2
    <3> QED BY <3>3
  <2> QED BY <2>1, <2>2, <2>3
<1> QED BY <1>1, <1>2 DEF q

LEMMA SupervisorJoined ==
    ASSUME NEW old \in Supervisor, NEW c \in Commands
    PROVE  /\ [old EXCEPT !.gate = Append(@, c)] \in Supervisor
           /\ Tamer([old EXCEPT !.gate = Append(@, c)], old)
BY GateOf DEF Supervisor, Tamer

LEMMA SupervisorStops ==
    ASSUME NEW old \in Supervisor, NEW answer \in {"pending", "true", "false"}
    PROVE  LET new == [old EXCEPT !.stopping = TRUE, !.watch = "off", !.answer = answer]
           IN  new \in Supervisor /\ Tamer(new, old)
BY DEF Supervisor, Tamer

LEMMA SupervisorDisposed ==
    ASSUME NEW old \in Supervisor, old.gate # <<>>
    PROVE  Disposed(old) \in Supervisor /\ Tamer(Disposed(old), old) /\ Disposed(old).bot = "none"
<1> DEFINE gate == IF Len(old.gate) = 1 THEN <<>> ELSE <<old.gate[2]>>
<1>1. gate \in Seq(Commands)
  BY GateOf
<1> HIDE DEF gate
<1>2. Disposed(old) = [old EXCEPT !.gate = gate, !.disposed = TRUE, !.stopping = FALSE,
                                  !.bot = "none", !.runs = Missing, !.watch = "off"]
  BY DEF Disposed, gate
<1>3. Disposed(old) \in Supervisor /\ Disposed(old).bot = "none"
  BY <1>1, <1>2, CommandsTyped DEF Supervisor
<1> QED BY <1>3 DEF Tamer

LEMMA SupervisorThrew ==
    ASSUME NEW old \in Supervisor, old.gate # <<>>, NEW watch \in {"off", "last"}
    PROVE  LET new == [old EXCEPT !.gate = Tail(@), !.stopping = FALSE, !.watch = watch]
           IN  new \in Supervisor /\ Tamer(new, old)
<1>1. Tail(old.gate) \in Seq(Commands)
  BY GateOf
<1> QED BY <1>1 DEF Supervisor, Tamer

LEMMA SupervisorAnswered ==
    ASSUME NEW old \in Supervisor, NEW answer \in {"true", "false"}
    PROVE  /\ Answered(old, answer) \in Supervisor /\ Tamer(Answered(old, answer), old)
           /\ GivenUp(old) \in Supervisor /\ Tamer(GivenUp(old), old)
<1>1. /\ \A a \in {"true", "false"} : Answered(old, a) \in Supervisor
      /\ Tamer(Answered(old, answer), old)
  BY DEF Answered, Supervisor, Tamer
<1>2. GivenUp(old) \in Supervisor /\ GivenUp(old).bot = "none"
  BY <1>1, CommandsTyped DEF GivenUp, Supervisor
<1> QED BY <1>1, <1>2 DEF Tamer

LEMMA SupervisorCrashed ==
    ASSUME NEW old \in Supervisor, old.bot = "up"
    PROVE  LET new == [old EXCEPT !.bot = "down", !.runs = Missing]
           IN  new \in Supervisor /\ Tamer(new, old)
BY CommandsTyped DEF Supervisor, Tamer

LEMMA SupervisorRestarted ==
    ASSUME NEW old \in Supervisor, NEW content \in Contents
    PROVE  LET new == [old EXCEPT !.bot = "up", !.runs = content,
                                  !.watch = IF @ = "last" THEN "off" ELSE @]
           IN  new \in Supervisor /\ new.bot = "up" /\ new.runs = content
BY DEF Supervisor

-----------------------------------------------------------------------------
\* What the steps do to the supervisors.

\* A stop is asked for.
LEMMA AStopIsAsked ==
    ASSUME TypeOK, NEW c \in Commands, NEW place \in Places, NEW next \in Places, Stop(c, place, next)
    PROVE  /\ supervisors' \in Seq(Supervisor) /\ NoNewBots(supervisors', supervisors)
           /\ target' \in [Commands -> {NoSupervisor} \cup DOMAIN supervisors]
           /\ pc' \in [Commands -> Places]
           /\ \A d \in Commands \ {c} : pc'[d] = pc[d] /\ target'[d] = target[d]
           /\ \/ field = NoSupervisor /\ pc'[c] = next /\ target'[c] = target[c]
              \/ field # NoSupervisor /\ pc'[c] = place /\ target'[c] = field
<1>1. CASE field = NoSupervisor
  <2>1. Go(c, next) /\ UNCHANGED <<supervisors, target>>
    BY <1>1 DEF Stop
  <2> QED BY <1>1, <2>1, Going DEF TypeOK, NoNewBots, Tamer
<1>2. CASE field # NoSupervisor
  <2> DEFINE x == [supervisors[field] EXCEPT !.gate = Append(@, c)]
  <2>1. Go(c, place) /\ target' = [target EXCEPT ![c] = field]
        /\ supervisors' = [supervisors EXCEPT ![field] = x]
    BY <1>2 DEF Stop
  <2>2. field \in DOMAIN supervisors /\ supervisors \in Seq(Supervisor)
    BY <1>2 DEF TypeOK
  <2>3. supervisors[field] \in Supervisor
    BY <2>2
  <2>4. x \in Supervisor /\ Tamer(x, supervisors[field])
    BY <2>3, SupervisorJoined
  <2> HIDE DEF x
  <2>5. supervisors' \in Seq(Supervisor) /\ NoNewBots(supervisors', supervisors)
    BY <2>1, <2>2, <2>4, NoNewBotAt
  <2>6. /\ target' \in [Commands -> {NoSupervisor} \cup DOMAIN supervisors] /\ target'[c] = field
        /\ \A d \in Commands \ {c} : target'[d] = target[d]
    BY <2>1, <2>2 DEF TypeOK
  <2> QED BY <1>2, <2>1, <2>5, <2>6, Going
<1> QED BY <1>1, <1>2

\* Who has the gate of its target.
LEMMA AtTheGate ==
    ASSUME TypeOK, TargetInv, LaunchInv, NEW c \in Commands, HasGate(c)
    PROVE  /\ target[c] \in DOMAIN supervisors /\ supervisors[target[c]] \in Supervisor
           /\ supervisors[target[c]].gate # <<>> /\ supervisors \in Seq(Supervisor)
           /\ pc[c] \in {"stop", "undo"} /\ c # Launch /\ target[c] # NoSupervisor
           /\ c = Exit => pc[c] = "stop"
<1>1. target[c] \in DOMAIN supervisors /\ supervisors \in Seq(Supervisor) /\ target[c] # NoSupervisor
  BY DEF HasGate, TypeOK
<1>2. supervisors[target[c]] \in Supervisor
  BY <1>1
<1> QED BY <1>1, <1>2 DEF HasGate, TargetInv, LaunchInv

LEMMA AStopBegins ==
    ASSUME TypeOK, TargetInv, LaunchInv, NEW c \in Commands, StopBegins(c)
    PROVE  /\ supervisors' \in Seq(Supervisor) /\ NoNewBots(supervisors', supervisors)
           /\ UNCHANGED <<files, fields, commands, begun, launched, faults, history>>
<1> DEFINE s == target[c]
           answer == IF supervisors[s].answer = "pending" THEN "false" ELSE supervisors[s].answer
           x == [supervisors[s] EXCEPT !.stopping = TRUE, !.watch = "off", !.answer = answer]
<1>1. HasGate(c) /\ UNCHANGED <<files, fields, commands, begun, launched, faults, history>>
  BY DEF StopBegins
<1>2. s \in DOMAIN supervisors /\ supervisors[s] \in Supervisor /\ supervisors \in Seq(Supervisor)
  BY <1>1, AtTheGate
<1>3. supervisors' = [supervisors EXCEPT ![s] = x]
  BY <1>2 DEF StopBegins
<1>4. answer \in {"pending", "true", "false"}
  BY <1>2 DEF Supervisor
<1> HIDE DEF answer
<1>5. x \in Supervisor /\ Tamer(x, supervisors[s])
  BY <1>2, <1>4, SupervisorStops
<1> HIDE DEF x
<1> QED BY <1>1, <1>2, <1>3, <1>5, NoNewBotAt

LEMMA AStopEnds ==
    ASSUME TypeOK, TargetInv, LaunchInv, NEW c \in Commands, StopEnds(c)
    PROVE  /\ supervisors' \in Seq(Supervisor) /\ NoNewBots(supervisors', supervisors)
           /\ supervisors'[target[c]].bot = "none" /\ target[c] \in DOMAIN supervisors
           /\ field' = (IF c = Exit THEN field ELSE NoSupervisor) /\ logs' = FALSE
           /\ target' \in [Commands -> {NoSupervisor} \cup DOMAIN supervisors]
           /\ pc' \in [Commands -> Places] /\ target'[c] = NoSupervisor
           /\ \A d \in Commands \ {c} : pc'[d] = pc[d] /\ target'[d] = target[d]
           /\ \/ c = Exit /\ pc'[c] = "succeeded"
              \/ c \in Applications /\ pc[c] = "stop" /\ pc'[c] = "stopped"
              \/ c \in Applications /\ pc[c] = "undo" /\ pc'[c] = "undone"
           /\ UNCHANGED <<files, begun, launched, faults, history>>
<1> DEFINE s == target[c]
           x == Disposed(supervisors[s])
<1>1. /\ HasGate(c) /\ supervisors' = [supervisors EXCEPT ![s] = x]
      /\ field' = FieldAfterStop(c) /\ logs' = FALSE /\ Go(c, AfterStop(c))
      /\ target' = [target EXCEPT ![c] = NoSupervisor]
      /\ UNCHANGED <<files, begun, launched, faults, history>>
  BY DEF StopEnds
<1>2. /\ s \in DOMAIN supervisors /\ supervisors[s] \in Supervisor /\ supervisors \in Seq(Supervisor)
      /\ supervisors[s].gate # <<>>
      /\ pc[c] \in {"stop", "undo"} /\ c # Launch /\ (c = Exit => pc[c] = "stop")
  BY <1>1, AtTheGate
<1>3. x \in Supervisor /\ Tamer(x, supervisors[s]) /\ x.bot = "none"
  BY <1>2, SupervisorDisposed
<1> HIDE DEF x, s
<1>4. supervisors' \in Seq(Supervisor) /\ NoNewBots(supervisors', supervisors)
      /\ supervisors'[s].bot = "none"
  BY <1>1, <1>2, <1>3, NoNewBotAt, ASupervisorChanges
<1>5. /\ c = Exit => AfterStop(c) = "succeeded"
      /\ c # Exit /\ pc[c] = "stop" => AfterStop(c) = "stopped"
      /\ c # Exit /\ pc[c] = "undo" => AfterStop(c) = "undone"
  BY DEF AfterStop
<1>6. c \in Applications \/ c = Exit
  BY <1>2, CommandsTyped
<1>7. AfterStop(c) \in Places
  BY <1>2, <1>5, <1>6, CommandsTyped DEF Places
<1>8. /\ pc' \in [Commands -> Places] /\ pc'[c] = AfterStop(c)
      /\ \A d \in Commands \ {c} : pc'[d] = pc[d]
  BY <1>1, <1>7, Going
<1>9. /\ target'[c] = NoSupervisor /\ \A d \in Commands \ {c} : target'[d] = target[d]
      /\ target' \in [Commands -> {NoSupervisor} \cup DOMAIN supervisors]
  BY <1>1, NoTarget
<1>10. field' = (IF c = Exit THEN field ELSE NoSupervisor) /\ logs' = FALSE
  BY <1>1 DEF FieldAfterStop
<1>11. \/ c = Exit /\ pc'[c] = "succeeded"
       \/ c \in Applications /\ pc[c] = "stop" /\ pc'[c] = "stopped"
       \/ c \in Applications /\ pc[c] = "undo" /\ pc'[c] = "undone"
  BY <1>2, <1>5, <1>6, <1>8, CommandsTyped
<1> QED BY <1>1, <1>2, <1>4, <1>8, <1>9, <1>10, <1>11 DEF s

\* The lists that a stop which throws may leave.
LEMMA AStopThrows ==
    ASSUME TypeOK, TargetInv, LaunchInv, NEW c \in Commands, StopThrows(c),
           NEW list \in AfterThrow(c)
    PROVE  /\ list \in Seq(Supervisor) /\ NoNewBots(list, supervisors)
           /\ target'[c] = NoSupervisor /\ \A d \in Commands \ {c} : target'[d] = target[d]
           /\ target' \in [Commands -> {NoSupervisor} \cup DOMAIN supervisors]
           /\ disturbed' = TRUE /\ UNCHANGED <<begun, launched, before, overlapped>>
<1> DEFINE s == target[c]
<1>1. /\ HasGate(c) /\ target' = [target EXCEPT ![c] = NoSupervisor]
      /\ disturbed' = TRUE /\ UNCHANGED <<begun, launched, before, overlapped>>
  BY DEF StopThrows
<1>2. /\ s \in DOMAIN supervisors /\ supervisors[s] \in Supervisor /\ supervisors \in Seq(Supervisor)
      /\ supervisors[s].gate # <<>>
  BY <1>1, AtTheGate
<1>3. PICK watch \in {"off", "last"} :
        list = [supervisors EXCEPT ![s].gate = Tail(@), ![s].stopping = FALSE, ![s].watch = watch]
  BY DEF AfterThrow
<1> DEFINE x == [supervisors[s] EXCEPT !.gate = Tail(@), !.stopping = FALSE, !.watch = watch]
<1>4. list = [supervisors EXCEPT ![s] = x]
  BY <1>2, <1>3
<1>5. x \in Supervisor /\ Tamer(x, supervisors[s])
  BY <1>2, SupervisorThrew
<1> HIDE DEF x
<1>6. list \in Seq(Supervisor) /\ NoNewBots(list, supervisors)
  BY <1>2, <1>4, <1>5, NoNewBotAt
<1> QED BY <1>1, <1>6, NoTarget


-----------------------------------------------------------------------------
\* What keeps each part of the invariant.

\* An application under way has a launch behind it, and unless they overlap it is
\* the last one.
LEMMA UnderWay ==
    ASSUME ReconfigurationInv, NEW k \in Applications, InFlight(k)
    PROVE  /\ pc[Launch] \in {"start", "succeeded"}
           /\ ~overlapped => k = begun /\ FilesAt(k, pc[k])
           /\ ~disturbed => \A j \in Applications : j # k => ~InFlight(j)
           /\ pc[k] \in Places /\ k \in Commands
<1>1. pc[Launch] \in {"start", "succeeded"}
  BY DEF ReconfigurationInv, LaunchInv
<1>2. ~overlapped => k = begun
  BY DEF ReconfigurationInv, OrderInv
<1>3. ~overlapped => FilesAt(k, pc[k])
  <2>1. k > 0
    BY CommandsTyped
  <2> QED BY <1>2, <2>1 DEF ReconfigurationInv, FileInv
<1>4. ~disturbed => \A j \in Applications : j # k => ~InFlight(j)
  BY DEF ReconfigurationInv, OrderInv
<1> QED BY <1>1, <1>2, <1>3, <1>4, CommandsTyped DEF ReconfigurationInv, TypeOK

\* An application under way goes on, or ends.
LEMMA AnApplicationMoves ==
    ASSUME ReconfigurationInv, NEW k \in Applications, InFlight(k),
           pc'[k] \in Places \ {"idle", "setup"},
           \A d \in Commands \ {k} : pc'[d] = pc[d] /\ target'[d] = target[d],
           (target'[k] # NoSupervisor) <=> (pc'[k] \in {"stop", "undo"}),
           ~disturbed' /\ pc'[k] \in {"stop", "undo"} => target'[k] = field',
           ~overlapped => FilesAt(k, pc[k])',
           UNCHANGED <<begun, overlapped>>, disturbed => disturbed'
    PROVE  LaunchInv' /\ TargetInv' /\ OrderInv' /\ FileInv'
<1>1. /\ pc[Launch] \in {"start", "succeeded"} /\ (~overlapped => k = begun)
      /\ ~disturbed => \A j \in Applications : j # k => ~InFlight(j)
  BY UnderWay
<1>2. pc'[Launch] = pc[Launch] /\ pc'[Exit] = pc[Exit]
  BY CommandsTyped
<1>3. LaunchInv'
  BY <1>1, <1>2 DEF ReconfigurationInv, LaunchInv
<1>4. TargetInv'
  <2>1. \A c \in Commands : (target'[c] # NoSupervisor) <=> (pc'[c] \in {"stop", "undo"})
    BY DEF ReconfigurationInv, TargetInv
  <2>2. ASSUME ~disturbed', NEW j \in Applications, pc'[j] \in {"stop", "undo"}
        PROVE  target'[j] = field'
    <3>1. CASE j = k BY <3>1, <2>2
    <3>2. CASE j # k
      <4>1. pc'[j] = pc[j]
        BY <3>2, CommandsTyped
      <4> QED BY <1>1, <2>2, <3>2, <4>1 DEF InFlight, Over
    <3> QED BY <3>1, <3>2
  <2> QED BY <2>1, <2>2 DEF TargetInv
<1>5. OrderInv'
  <2>1. \A j \in Applications : j # k => pc'[j] = pc[j]
    BY CommandsTyped
  <2>2. \A j \in Applications : (j > begun' => pc'[j] = "idle") /\ pc'[j] # "setup"
    BY <2>1 DEF ReconfigurationInv, OrderInv, InFlight, Over
  <2>3. ~overlapped' => \A j \in Applications : InFlight(j)' => j = begun'
    BY <1>1, <2>1 DEF ReconfigurationInv, OrderInv, InFlight
  <2>4. ~disturbed' => \A i, j \in Applications : InFlight(i)' /\ InFlight(j)' => i = j
    BY <1>1, <2>1 DEF InFlight
  <2> QED BY <2>2, <2>3, <2>4 DEF OrderInv
<1>6. FileInv'
  BY <1>1 DEF FileInv
<1> QED BY <1>3, <1>4, <1>5, <1>6

\* What has no effect on the applications.
LEMMA NoApplicationMoves ==
    ASSUME ReconfigurationInv,
           \A k \in Applications : pc'[k] = pc[k] /\ target'[k] = target[k],
           \A c \in {Launch, Exit} : (target'[c] # NoSupervisor) <=> (pc'[c] \in {"stop", "undo"}),
           UNCHANGED <<files, field, begun, before, overlapped>>, disturbed => disturbed'
    PROVE  TargetInv' /\ OrderInv' /\ FileInv'
<1>1. TargetInv'
  <2>1. \A c \in Commands : (target'[c] # NoSupervisor) <=> (pc'[c] \in {"stop", "undo"})
    BY CommandsTyped DEF ReconfigurationInv, TargetInv
  <2> QED BY <2>1 DEF ReconfigurationInv, TargetInv
<1>2. OrderInv'
  BY DEF ReconfigurationInv, OrderInv, InFlight
<1>3. FileInv'
  <2>1. begun > 0 => begun \in Applications
    BY DEF ReconfigurationInv, TypeOK
  <2>2. begun > 0 => pc'[begun] = pc[begun]
    BY <2>1
  <2> QED BY <2>2 DEF ReconfigurationInv, FileInv, FilesAt, files
<1> QED BY <1>1, <1>2, <1>3

\* No bot is started.
LEMMA BotsKept ==
    ASSUME BotsInv, NoNewBots(supervisors', supervisors), disturbed => disturbed',
           ~disturbed' => UNCHANGED <<field, config>>,
           \A k \in Applications :
              ~disturbed' /\ pc'[k] \in {"stopped", "undone"} => pc'[k] = pc[k] \/ NoBots
    PROVE  BotsInv'
<1> SUFFICES ASSUME ~disturbed'
             PROVE  /\ \A s \in DOMAIN supervisors' :
                          supervisors'[s].bot # "none" =>
                             s = field' /\ (supervisors'[s].bot = "up" => supervisors'[s].runs = config')
                    /\ \A k \in Applications : pc'[k] \in {"stopped", "undone"} => NoBots'
  BY DEF BotsInv
<1>1. ASSUME NEW s \in DOMAIN supervisors', supervisors'[s].bot # "none"
      PROVE  s = field' /\ (supervisors'[s].bot = "up" => supervisors'[s].runs = config')
  BY <1>1 DEF BotsInv, NoNewBots, Tamer
<1>2. NoBots => NoBots'
  BY DEF NoBots, NoNewBots, Tamer
<1>3. \A k \in Applications : pc'[k] \in {"stopped", "undone"} => NoBots'
  BY <1>2 DEF BotsInv
<1> QED BY <1>1, <1>3

\* A bot is started where there is none.
LEMMA BotsStarted ==
    ASSUME TypeOK, NEW c \in Commands,
           NEW awaiting \in Places, NEW failed \in Places, config' \in Contents,
           StartRuntime(c, supervisors, config', awaiting, failed),
           ~disturbed' => NoBots,
           \A k \in Applications : ~disturbed' => pc'[k] \notin {"stopped", "undone"}
    PROVE  BotsInv'
<1>1. supervisors \in Seq(Supervisor)
  BY DEF TypeOK
<1>2. \/ supervisors' = supervisors /\ field' = field
      \/ /\ field' \notin DOMAIN supervisors
         /\ DOMAIN supervisors' = DOMAIN supervisors \cup {field'}
         /\ supervisors'[field'].bot = "up" /\ supervisors'[field'].runs = config'
         /\ \A s \in DOMAIN supervisors : supervisors'[s] = supervisors[s]
  <2>1. \/ /\ StartThrows(config') /\ supervisors' = supervisors /\ field' = field /\ logs' = logs
           /\ pc'[c] = failed
        \/ /\ ~StartThrows(config') /\ pc'[c] = awaiting /\ logs' = TRUE
           /\ field' \notin DOMAIN supervisors
           /\ DOMAIN supervisors' = DOMAIN supervisors \cup {field'}
           /\ supervisors'[field'].bot = "up" /\ supervisors'[field'].runs = config'
           /\ \A s \in DOMAIN supervisors : supervisors'[s] = supervisors[s]
    BY <1>1, ARuntimeStarts, Zenon
  <2> QED BY <2>1
<1> QED BY <1>2 DEF BotsInv, NoBots

\* Without a supervisor in the field there is no bot.
LEMMA NoFieldNoBots ==
    ASSUME TypeOK, BotsInv, ~disturbed, field = NoSupervisor
    PROVE  NoBots
<1>1. NoSupervisor \notin DOMAIN supervisors
  <2>1. supervisors \in Seq(Supervisor)
    BY DEF TypeOK
  <2>2. DOMAIN supervisors = 1 .. Len(supervisors) /\ Len(supervisors) \in Nat
    BY <2>1
  <2> QED BY <2>2 DEF NoSupervisor
<1> QED BY <1>1 DEF BotsInv, NoBots

\* Everything keeps its type.
LEMMA StillTyped ==
    ASSUME TypeOK, {config', backup'} \subseteq Contents, staged' \subseteq Applications,
           supervisors' \in Seq(Supervisor), DOMAIN supervisors \subseteq DOMAIN supervisors',
           field' \in {NoSupervisor} \cup DOMAIN supervisors',
           pc' \in [Commands -> Places],
           target' \in [Commands -> {NoSupervisor} \cup DOMAIN supervisors],
           faults' \in 0 .. MaxFaults, UNCHANGED <<begun, launched, before, overlapped>>,
           logs' \in BOOLEAN,
           disturbed' \in BOOLEAN
    PROVE  TypeOK'
BY DEF TypeOK, launched

LEMMA FilesTyped ==
    ASSUME TypeOK, NEW k \in Applications, Discarded(k) \/ Restored(k) \/ Activated(k)
    PROVE  {config', backup'} \subseteq Contents /\ staged' \subseteq Applications
BY CommandsTyped DEF TypeOK, Discarded, Restored, Activated, BackedUp


-----------------------------------------------------------------------------
\* The steps of an application.

LEMMA StageFailsKeeps ==
    ASSUME ReconfigurationInv, NEW k \in Applications, StageFails(k)
    PROVE  ReconfigurationInv'
<1>1. /\ pc[k] = "staging" /\ Fault /\ Go(k, "failed") /\ staged' \subseteq Applications
      /\ UNCHANGED <<config, backup, tray, target, begun, launched, history>>
  BY DEF StageFails, ReconfigurationInv, TypeOK, At
<1>2. InFlight(k)
  BY <1>1 DEF InFlight, Over
<1>3. /\ k \in Commands /\ pc'[k] = "failed" /\ \A d \in Commands \ {k} : pc'[d] = pc[d]
      /\ pc' \in [Commands -> Places] /\ faults' \in 0 .. MaxFaults
  BY <1>1, <1>2, UnderWay, Going, AFault DEF ReconfigurationInv, Places
<1>4. TypeOK'
  BY <1>1, <1>3, StillTyped DEF ReconfigurationInv, TypeOK, tray, fields, history
<1>5. target'[k] = NoSupervisor
  BY <1>1, <1>3 DEF ReconfigurationInv, TargetInv
<1>6. ~overlapped => FilesAt(k, pc[k])'
  BY <1>1, <1>2, <1>3, UnderWay DEF FilesAt, fields, history
<1>7. LaunchInv' /\ TargetInv' /\ OrderInv' /\ FileInv'
  BY <1>1, <1>2, <1>3, <1>5, <1>6, AnApplicationMoves DEF Places, fields, history
<1>8. BotsInv'
  BY <1>1, <1>3, CommandsTyped, BotsKept DEF ReconfigurationInv, tray, fields, history, NoNewBots, Tamer
<1> QED BY <1>4, <1>7, <1>8 DEF ReconfigurationInv

LEMMA StagesKeeps ==
    ASSUME ReconfigurationInv, NEW k \in Applications, Stages(k)
    PROVE  ReconfigurationInv'
<1>1. /\ pc[k] = "staging" /\ Stop(k, "stop", "stopped") /\ staged' = staged \cup {k}
      /\ UNCHANGED <<config, backup, fields, begun, launched, faults, history>>
  BY DEF Stages, At
<1>2. InFlight(k)
  BY <1>1 DEF InFlight, Over
<1>3. /\ supervisors' \in Seq(Supervisor) /\ NoNewBots(supervisors', supervisors)
      /\ target' \in [Commands -> {NoSupervisor} \cup DOMAIN supervisors]
      /\ pc' \in [Commands -> Places] /\ k \in Commands
      /\ \A d \in Commands \ {k} : pc'[d] = pc[d] /\ target'[d] = target[d]
      /\ \/ field = NoSupervisor /\ pc'[k] = "stopped" /\ target'[k] = target[k]
         \/ field # NoSupervisor /\ pc'[k] = "stop" /\ target'[k] = field
  BY <1>1, <1>2, UnderWay, AStopIsAsked DEF ReconfigurationInv, Places
<1>4. TypeOK'
  BY <1>1, <1>3, StillTyped DEF ReconfigurationInv, TypeOK, NoNewBots, fields, history
<1>5. target[k] = NoSupervisor
  BY <1>1, <1>3 DEF ReconfigurationInv, TargetInv
<1>6. ~overlapped => FilesAt(k, pc[k])'
  BY <1>1, <1>2, <1>3, UnderWay DEF FilesAt, fields, history
<1>7. LaunchInv' /\ TargetInv' /\ OrderInv' /\ FileInv'
  BY <1>1, <1>2, <1>3, <1>5, <1>6, AnApplicationMoves DEF Places, fields, history
<1>8. BotsInv'
  BY <1>1, <1>3, CommandsTyped, BotsKept, NoFieldNoBots DEF ReconfigurationInv, fields, history
<1> QED BY <1>4, <1>7, <1>8 DEF ReconfigurationInv

\* What a failed stop or copy leaves behind, when the old bot is started again.
LEMMA FirstStopThrowsKeeps ==
    ASSUME ReconfigurationInv, NEW k \in Applications, FirstStopThrows(k)
    PROVE  ReconfigurationInv'
<1>1. /\ pc[k] = "stop" /\ StopThrows(k) /\ Discarded(k) /\ faults' = faults
      /\ \E list \in AfterThrow(k) : Recover(k, list)
  BY DEF FirstStopThrows
<1>2. InFlight(k)
  BY <1>1 DEF InFlight, Over
<1>3. k \in Commands /\ TypeOK /\ TargetInv /\ LaunchInv
  BY <1>2, UnderWay DEF ReconfigurationInv
<1>4. PICK list \in AfterThrow(k) : StartRuntime(k, list, config, "recover", "failed")
  BY <1>1 DEF Recover
<1>5. /\ list \in Seq(Supervisor) /\ NoNewBots(list, supervisors)
      /\ target'[k] = NoSupervisor /\ \A d \in Commands \ {k} : target'[d] = target[d]
      /\ target' \in [Commands -> {NoSupervisor} \cup DOMAIN supervisors]
      /\ disturbed' = TRUE /\ UNCHANGED <<begun, launched, before, overlapped>>
  BY <1>1, <1>3, AStopThrows
<1>6. config \in Contents /\ "recover" \in Places /\ "failed" \in Places
  BY <1>3 DEF TypeOK, Places
<1>7. /\ supervisors' \in Seq(Supervisor)
      /\ pc' \in [Commands -> Places] /\ \A d \in Commands \ {k} : pc'[d] = pc[d]
      /\ logs' \in BOOLEAN
      /\ \/ supervisors' = list /\ field' = field /\ pc'[k] = "failed"
         \/ pc'[k] = "recover" /\ DOMAIN supervisors' = DOMAIN list \cup {field'}
  <2>1. TypeOK /\ k \in Commands /\ list \in Seq(Supervisor)
    BY <1>3, <1>5
  <2>2. /\ supervisors' \in Seq(Supervisor)
        /\ pc' \in [Commands -> Places] /\ \A d \in Commands \ {k} : pc'[d] = pc[d]
        /\ \/ /\ StartThrows(config) /\ supervisors' = list /\ field' = field /\ logs' = logs
                 /\ pc'[k] = "failed"
           \/ /\ ~StartThrows(config) /\ pc'[k] = "recover" /\ logs' = TRUE
              /\ field' \notin DOMAIN list
              /\ DOMAIN supervisors' = DOMAIN list \cup {field'}
              /\ supervisors'[field'].bot = "up" /\ supervisors'[field'].runs = config
              /\ \A s \in DOMAIN list : supervisors'[s] = list[s]
    BY <1>4, <1>6, <2>1, ARuntimeStarts
  <2> QED BY <1>3, <2>2 DEF TypeOK
<1>8. {config', backup'} \subseteq Contents /\ staged' \subseteq Applications
  BY <1>1, <1>3, FilesTyped
<1>9. TypeOK'
  BY <1>1, <1>3, <1>5, <1>7, <1>8, StillTyped DEF TypeOK, NoNewBots
<1>10. ~overlapped => FilesAt(k, pc[k])'
  BY <1>1, <1>2, <1>5, <1>7, UnderWay DEF FilesAt, Discarded
<1>11. LaunchInv' /\ TargetInv' /\ OrderInv' /\ FileInv'
  BY <1>2, <1>5, <1>7, <1>10, AnApplicationMoves DEF Places
<1>12. BotsInv'
  BY <1>5 DEF BotsInv
<1> QED BY <1>9, <1>11, <1>12 DEF ReconfigurationInv

\* A command that stopped the old bot starts one with the config.env there is then.
LEMMA AnApplicationStarts ==
    ASSUME ReconfigurationInv, NEW k \in Applications, pc[k] \in {"stopped", "undone"},
           NEW awaiting \in {"start", "restart", "recover"},
           StartRuntime(k, supervisors, config', awaiting, "failed"),
           {config', backup'} \subseteq Contents, staged' \subseteq Applications,
           faults' \in 0 .. MaxFaults,
           \A place \in {awaiting, "failed"} : pc'[k] = place /\ ~overlapped => FilesAt(k, pc[k])',
           UNCHANGED <<target, begun, launched, history>>
    PROVE  ReconfigurationInv'
<1>1. InFlight(k)
  BY DEF InFlight, Over
<1>2. k \in Commands /\ TypeOK /\ awaiting \in Places /\ "failed" \in Places
  BY <1>1, UnderWay DEF ReconfigurationInv, Places
<1>3. /\ supervisors' \in Seq(Supervisor)
      /\ pc' \in [Commands -> Places] /\ \A d \in Commands \ {k} : pc'[d] = pc[d]
      /\ pc'[k] \in {awaiting, "failed"} /\ logs' \in BOOLEAN
      /\ \/ supervisors' = supervisors /\ field' = field
         \/ DOMAIN supervisors' = DOMAIN supervisors \cup {field'}
  <2>1. supervisors \in Seq(Supervisor) /\ config' \in Contents
    BY <1>2 DEF TypeOK
  <2>2. /\ supervisors' \in Seq(Supervisor)
        /\ pc' \in [Commands -> Places] /\ \A d \in Commands \ {k} : pc'[d] = pc[d]
        /\ \/ /\ StartThrows(config') /\ supervisors' = supervisors /\ field' = field /\ logs' = logs
                 /\ pc'[k] = "failed"
           \/ /\ ~StartThrows(config') /\ pc'[k] = awaiting /\ logs' = TRUE
              /\ field' \notin DOMAIN supervisors
              /\ DOMAIN supervisors' = DOMAIN supervisors \cup {field'}
              /\ supervisors'[field'].bot = "up" /\ supervisors'[field'].runs = config'
              /\ \A s \in DOMAIN supervisors : supervisors'[s] = supervisors[s]
    BY <1>2, <2>1, ARuntimeStarts
  <2> QED BY <1>2, <2>2 DEF TypeOK
<1>4. TypeOK'
  BY <1>2, <1>3, StillTyped DEF TypeOK, fields, history
<1>5. target'[k] = NoSupervisor
  BY <1>2 DEF ReconfigurationInv, TargetInv
<1>6. LaunchInv' /\ TargetInv' /\ OrderInv' /\ FileInv'
  BY <1>1, <1>3, <1>5, AnApplicationMoves DEF Places, fields, history
<1>7. ~disturbed' => NoBots
  BY DEF ReconfigurationInv, BotsInv, fields, history
<1>8. \A j \in Applications : ~disturbed' => pc'[j] \notin {"stopped", "undone"}
  BY <1>1, <1>3, UnderWay, CommandsTyped DEF InFlight, Over, fields, history
<1>9. BotsInv'
  BY <1>2, <1>7, <1>8, BotsStarted
<1> QED BY <1>4, <1>6, <1>9 DEF ReconfigurationInv

LEMMA ActivatesKeeps ==
    ASSUME ReconfigurationInv, NEW k \in Applications, Activates(k)
    PROVE  ReconfigurationInv'
<1>1. /\ pc[k] = "stopped" /\ Activated(k) /\ config' = k
      /\ StartRuntime(k, supervisors, config', "start", "failed")
      /\ UNCHANGED <<target, begun, launched, faults, history>>
  BY DEF Activates, Activated, At
<1>2. {config', backup'} \subseteq Contents /\ staged' \subseteq Applications /\ faults' \in 0 .. MaxFaults
  BY <1>1, FilesTyped DEF ReconfigurationInv, TypeOK
<1>3. pc'[k] \in {"start", "failed"} /\ ~overlapped => FilesAt(k, pc[k])'
  BY <1>1, UnderWay DEF FilesAt, Activated, BackedUp, fields, history, InFlight, Over
<1> QED BY <1>1, <1>2, <1>3, AnApplicationStarts

LEMMA CopyFailsKeeps ==
    ASSUME ReconfigurationInv, NEW k \in Applications, CopyFails(k)
    PROVE  ReconfigurationInv'
<1>1. /\ pc[k] = "stopped" /\ Fault /\ Discarded(k) /\ config' = config
      /\ StartRuntime(k, supervisors, config', "recover", "failed")
      /\ UNCHANGED <<target, begun, launched, history>>
  BY DEF CopyFails, Discarded, Recover, At
<1>2. {config', backup'} \subseteq Contents /\ staged' \subseteq Applications /\ faults' \in 0 .. MaxFaults
  BY <1>1, FilesTyped, AFault DEF ReconfigurationInv
<1>3. pc'[k] \in {"recover", "failed"} /\ ~overlapped => FilesAt(k, pc[k])'
  BY <1>1, UnderWay DEF FilesAt, Discarded, fields, history, InFlight, Over
<1> QED BY <1>1, <1>2, <1>3, AnApplicationStarts

LEMMA RestoresKeeps ==
    ASSUME ReconfigurationInv, NEW k \in Applications, Restores(k)
    PROVE  ReconfigurationInv'
<1>1. /\ pc[k] = "undone" /\ Restored(k) /\ config' = backup
      /\ StartRuntime(k, supervisors, config', "restart", "failed")
      /\ UNCHANGED <<target, begun, launched, faults, history>>
  BY DEF Restores, Restored, At
<1>2. {config', backup'} \subseteq Contents /\ staged' \subseteq Applications /\ faults' \in 0 .. MaxFaults
  BY <1>1, FilesTyped DEF ReconfigurationInv, TypeOK
<1>3. pc'[k] \in {"restart", "failed"} /\ ~overlapped => FilesAt(k, pc[k])'
  BY <1>1, UnderWay DEF FilesAt, Restored, fields, history, InFlight, Over
<1> QED BY <1>1, <1>2, <1>3, AnApplicationStarts

\* Nothing happens to the supervisors, and the application ends.
LEMMA AnApplicationEnds ==
    ASSUME ReconfigurationInv, NEW k \in Applications, InFlight(k), pc[k] \notin {"stop", "undo"},
           NEW place \in {"succeeded", "failed", "threw"}, Go(k, place),
           {config', backup'} \subseteq Contents, staged' \subseteq Applications,
           faults' \in 0 .. MaxFaults, config' = config,
           ~overlapped => FilesAt(k, place)',
           UNCHANGED <<tray, target, begun, launched, history>>
    PROVE  ReconfigurationInv'
<1>1. /\ k \in Commands /\ pc'[k] = place /\ \A d \in Commands \ {k} : pc'[d] = pc[d]
      /\ pc' \in [Commands -> Places]
  BY UnderWay, Going DEF ReconfigurationInv, Places
<1>2. TypeOK'
  BY <1>1, StillTyped DEF ReconfigurationInv, TypeOK, tray, fields, history
<1>3. target'[k] = NoSupervisor
  BY <1>1 DEF ReconfigurationInv, TargetInv
<1>4. ~overlapped => FilesAt(k, pc[k])'
  BY <1>1
<1>5. LaunchInv' /\ TargetInv' /\ OrderInv' /\ FileInv'
  BY <1>1, <1>3, <1>4, AnApplicationMoves DEF Places, fields, history
<1>6. BotsInv'
  BY <1>1, CommandsTyped, BotsKept DEF ReconfigurationInv, tray, fields, history, NoNewBots, Tamer
<1> QED BY <1>2, <1>5, <1>6 DEF ReconfigurationInv

LEMMA ReplaceFailsKeeps ==
    ASSUME ReconfigurationInv, NEW k \in Applications, ReplaceFails(k)
    PROVE  ReconfigurationInv'
<1>1. /\ pc[k] = "stopped" /\ Fault /\ Discarded(k) /\ Go(k, "threw")
      /\ UNCHANGED <<tray, target, begun, launched, history>>
  BY DEF ReplaceFails, At
<1>2. {config', backup'} \subseteq Contents /\ staged' \subseteq Applications /\ faults' \in 0 .. MaxFaults
  BY <1>1, FilesTyped, AFault DEF ReconfigurationInv
<1>3. InFlight(k)
  BY <1>1 DEF InFlight, Over
<1>4. ~overlapped => FilesAt(k, "threw")'
  BY <1>1, <1>3, UnderWay DEF FilesAt, Discarded, fields, history
<1> QED BY <1>1, <1>2, <1>3, <1>4, AnApplicationEnds DEF Discarded

LEMMA CommitsKeeps ==
    ASSUME ReconfigurationInv, NEW k \in Applications, Commits(k)
    PROVE  ReconfigurationInv'
<1>1. /\ pc[k] = "start" /\ Discarded(k) /\ Go(k, "succeeded")
      /\ UNCHANGED <<tray, target, begun, launched, faults, history>>
  BY DEF Commits, At
<1>2. {config', backup'} \subseteq Contents /\ staged' \subseteq Applications /\ faults' \in 0 .. MaxFaults
  BY <1>1, FilesTyped DEF ReconfigurationInv, TypeOK
<1>3. InFlight(k)
  BY <1>1 DEF InFlight, Over
<1>4. FilesAt(k, "succeeded")'
  BY DEF FilesAt
<1> QED BY <1>1, <1>2, <1>3, <1>4, AnApplicationEnds DEF Discarded

LEMMA RollbackFailsKeeps ==
    ASSUME ReconfigurationInv, NEW k \in Applications, RollbackFails(k)
    PROVE  ReconfigurationInv'
<1>1. /\ pc[k] = "undone" /\ Fault /\ Go(k, "failed")
      /\ UNCHANGED <<files, tray, target, begun, launched, history>>
  BY DEF RollbackFails, At
<1>2. {config', backup'} \subseteq Contents /\ staged' \subseteq Applications /\ faults' \in 0 .. MaxFaults
  BY <1>1, AFault DEF ReconfigurationInv, TypeOK, files, fields
<1>3. InFlight(k)
  BY <1>1 DEF InFlight, Over
<1>4. ~overlapped => FilesAt(k, "failed")'
  BY <1>1, <1>3, UnderWay DEF FilesAt, files, fields, history
<1> QED BY <1>1, <1>2, <1>3, <1>4, AnApplicationEnds DEF files

LEMMA RestartReturnsKeeps ==
    ASSUME ReconfigurationInv, NEW k \in Applications, RestartReturns(k)
    PROVE  ReconfigurationInv'
<1>1. /\ pc[k] \in {"restart", "recover"} /\ Go(k, "failed")
      /\ UNCHANGED <<files, tray, target, begun, launched, faults, history>>
  BY DEF RestartReturns, At
<1>2. {config', backup'} \subseteq Contents /\ staged' \subseteq Applications /\ faults' \in 0 .. MaxFaults
  BY <1>1 DEF ReconfigurationInv, TypeOK, files, fields
<1>3. InFlight(k)
  BY <1>1 DEF InFlight, Over
<1>4. ~overlapped => FilesAt(k, "failed")'
  BY <1>1, <1>3, UnderWay DEF FilesAt, files, fields, history
<1> QED BY <1>1, <1>2, <1>3, <1>4, AnApplicationEnds DEF files


LEMMA RollsBackKeeps ==
    ASSUME ReconfigurationInv, NEW k \in Applications, RollsBack(k)
    PROVE  ReconfigurationInv'
<1>1. /\ pc[k] = "start" /\ Stop(k, "undo", "undone") /\ (Fault \/ faults' = faults)
      /\ UNCHANGED <<files, fields, begun, launched, history>>
  BY DEF RollsBack, At
<1>2. InFlight(k)
  BY <1>1 DEF InFlight, Over
<1>3. /\ supervisors' \in Seq(Supervisor) /\ NoNewBots(supervisors', supervisors)
      /\ target' \in [Commands -> {NoSupervisor} \cup DOMAIN supervisors]
      /\ pc' \in [Commands -> Places] /\ k \in Commands
      /\ \A d \in Commands \ {k} : pc'[d] = pc[d] /\ target'[d] = target[d]
      /\ \/ field = NoSupervisor /\ pc'[k] = "undone" /\ target'[k] = target[k]
         \/ field # NoSupervisor /\ pc'[k] = "undo" /\ target'[k] = field
  BY <1>1, <1>2, UnderWay, AStopIsAsked DEF ReconfigurationInv, Places
<1>4. faults' \in 0 .. MaxFaults
  BY <1>1, AFault DEF ReconfigurationInv, TypeOK
<1>5. TypeOK'
  BY <1>1, <1>3, <1>4, StillTyped DEF ReconfigurationInv, TypeOK, NoNewBots, files, fields, history
<1>6. target[k] = NoSupervisor
  BY <1>1, <1>3 DEF ReconfigurationInv, TargetInv
<1>7. ~overlapped => FilesAt(k, pc[k])'
  BY <1>1, <1>2, <1>3, UnderWay DEF FilesAt, files, fields, history
<1>8. LaunchInv' /\ TargetInv' /\ OrderInv' /\ FileInv'
  BY <1>1, <1>2, <1>3, <1>6, <1>7, AnApplicationMoves DEF Places, fields, history
<1>9. BotsInv'
  BY <1>1, <1>3, CommandsTyped, BotsKept, NoFieldNoBots DEF ReconfigurationInv, files, fields, history
<1> QED BY <1>5, <1>8, <1>9 DEF ReconfigurationInv

LEMMA SecondStopThrowsKeeps ==
    ASSUME ReconfigurationInv, NEW k \in Applications, SecondStopThrows(k)
    PROVE  ReconfigurationInv'
<1>1. /\ pc[k] = "undo" /\ StopThrows(k) /\ supervisors' \in AfterThrow(k)
      /\ (Restored(k) /\ faults' = faults) \/ (UNCHANGED files /\ Fault)
      /\ Go(k, "failed") /\ UNCHANGED fields
  BY DEF SecondStopThrows
<1>2. InFlight(k)
  BY <1>1 DEF InFlight, Over
<1>3. k \in Commands /\ TypeOK /\ TargetInv /\ LaunchInv
  BY <1>2, UnderWay DEF ReconfigurationInv
<1>4. /\ supervisors' \in Seq(Supervisor) /\ NoNewBots(supervisors', supervisors)
      /\ target'[k] = NoSupervisor /\ \A d \in Commands \ {k} : target'[d] = target[d]
      /\ target' \in [Commands -> {NoSupervisor} \cup DOMAIN supervisors]
      /\ disturbed' = TRUE /\ UNCHANGED <<begun, launched, before, overlapped>>
  BY <1>1, <1>3, AStopThrows
<1>5. /\ pc'[k] = "failed" /\ \A d \in Commands \ {k} : pc'[d] = pc[d]
      /\ pc' \in [Commands -> Places]
  BY <1>1, <1>3, Going DEF Places
<1>6. /\ {config', backup'} \subseteq Contents /\ staged' \subseteq Applications
      /\ faults' \in 0 .. MaxFaults
  BY <1>1, <1>3, FilesTyped, AFault DEF TypeOK, files, fields
<1>7. TypeOK'
  BY <1>1, <1>3, <1>4, <1>5, <1>6, StillTyped DEF TypeOK, NoNewBots, fields
<1>8. ~overlapped => FilesAt(k, pc[k])'
  BY <1>1, <1>2, <1>4, <1>5, UnderWay DEF FilesAt, Restored, files
<1>9. LaunchInv' /\ TargetInv' /\ OrderInv' /\ FileInv'
  BY <1>2, <1>4, <1>5, <1>8, AnApplicationMoves DEF Places
<1>10. BotsInv'
  BY <1>4 DEF BotsInv
<1> QED BY <1>7, <1>9, <1>10 DEF ReconfigurationInv

-----------------------------------------------------------------------------
\* The end of a stop.

LEMMA StopEndsKeeps ==
    ASSUME ReconfigurationInv, NEW c \in Commands, StopEnds(c)
    PROVE  ReconfigurationInv'
<1>1. TypeOK /\ TargetInv /\ LaunchInv /\ HasGate(c)
  BY DEF ReconfigurationInv, StopEnds
<1>2. /\ supervisors' \in Seq(Supervisor) /\ NoNewBots(supervisors', supervisors)
      /\ supervisors'[target[c]].bot = "none" /\ target[c] \in DOMAIN supervisors
      /\ field' = (IF c = Exit THEN field ELSE NoSupervisor) /\ logs' = FALSE
      /\ target' \in [Commands -> {NoSupervisor} \cup DOMAIN supervisors]
      /\ pc' \in [Commands -> Places] /\ target'[c] = NoSupervisor
      /\ \A d \in Commands \ {c} : pc'[d] = pc[d] /\ target'[d] = target[d]
      /\ \/ c = Exit /\ pc'[c] = "succeeded"
         \/ c \in Applications /\ pc[c] = "stop" /\ pc'[c] = "stopped"
         \/ c \in Applications /\ pc[c] = "undo" /\ pc'[c] = "undone"
      /\ UNCHANGED <<files, begun, launched, faults, history>>
  BY <1>1, AStopEnds
<1>3. supervisors # <<>> /\ pc[Launch] \in {"start", "succeeded"} /\ pc'[Launch] = pc[Launch]
  <2>1. supervisors # <<>>
    BY <1>2
  <2>2. c # Launch
    BY <1>1, AtTheGate
  <2> QED BY <1>1, <1>2, <2>1, <2>2, CommandsTyped DEF LaunchInv
<1>4. TypeOK'
  <2>1. field' \in {NoSupervisor} \cup DOMAIN supervisors'
    BY <1>1, <1>2 DEF TypeOK, NoNewBots
  <2> QED BY <1>1, <1>2, <2>1, StillTyped DEF TypeOK, NoNewBots, files, fields, history
<1>5. CASE c = Exit
  <2>1. \A k \in Applications : pc'[k] = pc[k] /\ target'[k] = target[k]
    BY <1>2, <1>5, CommandsTyped
  <2>2. pc'[Exit] = "succeeded" /\ target'[Exit] = NoSupervisor /\ target'[Launch] = target[Launch]
    BY <1>2, <1>5, CommandsTyped
  <2>3. TargetInv' /\ OrderInv' /\ FileInv'
    <3>1. \A d \in {Launch, Exit} : (target'[d] # NoSupervisor) <=> (pc'[d] \in {"stop", "undo"})
      BY <1>1, <1>3, <2>2, CommandsTyped DEF TargetInv
    <3>2. UNCHANGED <<files, field, begun, before, overlapped>> /\ (disturbed => disturbed')
      BY <1>2, <1>5 DEF fields, history
    <3> QED BY <2>1, <3>1, <3>2, NoApplicationMoves
  <2>4. LaunchInv'
    BY <1>3, <2>2 DEF LaunchInv
  <2>5. BotsInv'
    BY <1>2, <1>5, <2>1, BotsKept DEF ReconfigurationInv, files, fields, history
  <2> QED BY <1>4, <2>3, <2>4, <2>5 DEF ReconfigurationInv
<1>6. CASE c \in Applications
  <2>1. /\ InFlight(c) /\ pc'[c] \in {"stopped", "undone"} /\ c # Exit
        /\ \/ pc[c] = "stop" /\ pc'[c] = "stopped"
           \/ pc[c] = "undo" /\ pc'[c] = "undone"
    BY <1>2, <1>6, CommandsTyped DEF InFlight, Over
  <2>2. ~overlapped => FilesAt(c, pc[c])'
    BY <1>2, <1>6, <2>1, UnderWay DEF FilesAt, files, fields, history
  <2>3. LaunchInv' /\ TargetInv' /\ OrderInv' /\ FileInv'
    BY <1>2, <1>6, <2>1, <2>2, AnApplicationMoves DEF Places, fields, history
  <2>4. ~disturbed => target[c] = field
    BY <1>1, <1>6, <2>1 DEF TargetInv
  <2>5. ~disturbed => NoBots'
    BY <1>2, <2>4 DEF ReconfigurationInv, BotsInv, NoBots, NoNewBots, Tamer
  <2>6. BotsInv'
    BY <1>2, <2>5 DEF BotsInv, NoBots, fields, history
  <2> QED BY <1>4, <2>3, <2>6 DEF ReconfigurationInv
<1> QED BY <1>2, <1>5, <1>6

-----------------------------------------------------------------------------
\* The steps that concern the supervisors only.

LEMMA SupervisorsOnly ==
    ASSUME ReconfigurationInv, supervisors # <<>>,
           supervisors' \in Seq(Supervisor), DOMAIN supervisors' = DOMAIN supervisors,
           BotsInv', faults' \in 0 .. MaxFaults,
           UNCHANGED <<files, fields, commands, begun, launched, history>>
    PROVE  ReconfigurationInv'
<1>1. TypeOK'
  BY StillTyped DEF ReconfigurationInv, TypeOK, files, commands, fields, history
<1>2. LaunchInv'
  BY DEF ReconfigurationInv, LaunchInv, InFlight, files, commands
<1>3. TargetInv' /\ OrderInv' /\ FileInv'
  <2>1. \A c \in {Launch, Exit} : (target'[c] # NoSupervisor) <=> (pc'[c] \in {"stop", "undo"})
    BY CommandsTyped DEF ReconfigurationInv, TargetInv, commands
  <2>2. \A k \in Applications : pc'[k] = pc[k] /\ target'[k] = target[k]
    BY DEF commands
  <2>3. UNCHANGED <<files, field, begun, before, overlapped>> /\ (disturbed => disturbed')
    BY DEF fields, history
  <2> QED BY <2>1, <2>2, <2>3, NoApplicationMoves
<1> QED BY <1>1, <1>2, <1>3 DEF ReconfigurationInv

LEMMA BotsOnlyTamed ==
    ASSUME ReconfigurationInv, supervisors # <<>>,
           supervisors' \in Seq(Supervisor), NoNewBots(supervisors', supervisors),
           faults' \in 0 .. MaxFaults,
           UNCHANGED <<files, fields, commands, begun, launched, history>>
    PROVE  ReconfigurationInv'
<1>1. BotsInv'
  BY BotsKept DEF ReconfigurationInv, files, commands, fields, history
<1> QED BY <1>1, SupervisorsOnly DEF NoNewBots

LEMMA StopBeginsKeeps ==
    ASSUME ReconfigurationInv, NEW c \in Commands, StopBegins(c)
    PROVE  ReconfigurationInv'
<1>1. TypeOK /\ TargetInv /\ LaunchInv /\ HasGate(c)
  BY DEF ReconfigurationInv, StopBegins
<1>2. supervisors # <<>>
  BY <1>1, AtTheGate
<1>3. /\ supervisors' \in Seq(Supervisor) /\ NoNewBots(supervisors', supervisors)
      /\ UNCHANGED <<files, fields, commands, begun, launched, faults, history>>
  BY <1>1, AStopBegins
<1> QED BY <1>1, <1>2, <1>3, BotsOnlyTamed DEF TypeOK

LEMMA MonitorStepKeeps ==
    ASSUME ReconfigurationInv, NEW s \in DOMAIN supervisors, MonitorStep(s)
    PROVE  ReconfigurationInv'
<1>1. /\ supervisors # <<>> /\ supervisors \in Seq(Supervisor) /\ faults \in 0 .. MaxFaults
      /\ config \in Contents
  BY DEF ReconfigurationInv, TypeOK
<1>2. supervisors[s] \in Supervisor
  BY <1>1
<1>3. ASSUME NEW x \in Supervisor, Becomes(s, x), Tamer(x, supervisors[s])
      PROVE  ReconfigurationInv'
  BY <1>1, <1>3, NoNewBotAt, BotsOnlyTamed DEF Becomes
<1>4. CASE BotIsJudged(s)
  BY <1>2, <1>3, <1>4, SupervisorAnswered DEF BotIsJudged, Observes
<1>5. CASE BotRefuses(s)
  BY <1>2, <1>3, <1>5, SupervisorAnswered DEF BotRefuses, Observes
<1>6. CASE MonitorGivesUp(s)
  BY <1>2, <1>3, <1>6, SupervisorAnswered DEF MonitorGivesUp, Observes
<1>7. CASE MonitorRestarts(s)
  <2> DEFINE x == [supervisors[s] EXCEPT !.bot = "up", !.runs = config,
                                         !.watch = IF @ = "last" THEN "off" ELSE @]
  <2>1. x \in Supervisor /\ x.bot = "up" /\ x.runs = config
    BY <1>1, <1>2, SupervisorRestarted
  <2>2. supervisors[s].bot = "down" /\ Becomes(s, x)
    BY <1>7 DEF MonitorRestarts, Observes
  <2> HIDE DEF x
  <2>3. supervisors' = [supervisors EXCEPT ![s] = x]
        /\ UNCHANGED <<files, fields, commands, begun, launched, faults, history>>
    BY <2>2 DEF Becomes
  <2>4. /\ supervisors' \in Seq(Supervisor) /\ DOMAIN supervisors' = DOMAIN supervisors
        /\ supervisors'[s] = x
        /\ \A t \in DOMAIN supervisors \ {s} : supervisors'[t] = supervisors[t]
    BY <1>1, <2>1, <2>3, ASupervisorChanges
  <2>5. BotsInv'
    BY <2>1, <2>2, <2>3, <2>4
       DEF ReconfigurationInv, BotsInv, NoBots, files, commands, fields, history
  <2> QED BY <1>1, <2>3, <2>4, <2>5, SupervisorsOnly
<1> QED BY <1>4, <1>5, <1>6, <1>7 DEF MonitorStep

LEMMA BotCrashesKeeps ==
    ASSUME ReconfigurationInv, NEW s \in DOMAIN supervisors, BotCrashes(s)
    PROVE  ReconfigurationInv'
<1> DEFINE x == [supervisors[s] EXCEPT !.bot = "down", !.runs = Missing]
<1>1. supervisors # <<>> /\ supervisors \in Seq(Supervisor) /\ TypeOK
  BY DEF ReconfigurationInv, TypeOK
<1>2. supervisors[s] \in Supervisor
  BY <1>1
<1>3. /\ supervisors[s].bot = "up" /\ Fault /\ supervisors' = [supervisors EXCEPT ![s] = x]
      /\ UNCHANGED <<files, fields, commands, begun, launched, history>>
  BY <1>1 DEF BotCrashes
<1>4. x \in Supervisor /\ Tamer(x, supervisors[s])
  BY <1>2, <1>3, SupervisorCrashed
<1> HIDE DEF x
<1> QED BY <1>1, <1>3, <1>4, AFault, NoNewBotAt, BotsOnlyTamed


-----------------------------------------------------------------------------
\* What the user and the launcher do.

LEMMA ConfigureKeeps ==
    ASSUME ReconfigurationInv, NEW k \in Applications, Configure(k)
    PROVE  ReconfigurationInv'
<1>1. /\ pc[Launch] \in {"start", "succeeded"} /\ k = begun + 1 /\ begun' = k
      /\ before' = [before EXCEPT ![k] = config] /\ Go(k, "staging")
      /\ overlapped' = (\E other \in Applications : InFlight(other))
      /\ disturbed' = (disturbed \/ overlapped')
      /\ UNCHANGED <<files, tray, target, launched, faults>>
  BY DEF Configure, Begin, InFlight
<1>2. TypeOK /\ k \in Commands /\ k \in Nat /\ begun \in Nat
  BY CommandsTyped DEF ReconfigurationInv, TypeOK
<1>3. /\ pc'[k] = "staging" /\ \A d \in Commands \ {k} : pc'[d] = pc[d]
      /\ pc' \in [Commands -> Places]
  BY <1>1, <1>2, Going DEF Places
<1>4. k > begun /\ pc[k] = "idle" /\ target[k] = NoSupervisor
  BY <1>1, <1>2 DEF ReconfigurationInv, OrderInv, TargetInv
<1>5. TypeOK'
  <2>1. before' \in [Applications -> Contents] /\ begun' \in Applications
    BY <1>1, <1>2 DEF TypeOK
  <2>2. overlapped' \in BOOLEAN /\ disturbed' \in BOOLEAN
    BY <1>1, <1>2 DEF TypeOK
  <2> QED BY <1>1, <1>2, <1>3, <2>1, <2>2 DEF TypeOK, files, tray, fields, launched
<1>6. LaunchInv'
  BY <1>1, <1>3, CommandsTyped DEF ReconfigurationInv, LaunchInv
<1>7. disturbed' = FALSE => disturbed = FALSE /\ ~overlapped'
  BY <1>1, <1>2 DEF TypeOK
<1>8. ~overlapped' => \A j \in Applications : ~InFlight(j)
  BY <1>1
<1>9. disturbed' \in BOOLEAN
  BY <1>5 DEF TypeOK
<1>10. TargetInv'
  <2>1. \A c \in Commands : (target'[c] # NoSupervisor) <=> (pc'[c] \in {"stop", "undo"})
    BY <1>1, <1>3, <1>4 DEF ReconfigurationInv, TargetInv
  <2>2. ASSUME ~disturbed', NEW j \in Applications, pc'[j] \in {"stop", "undo"}
        PROVE  target'[j] = field'
    <3>1. j # k /\ pc'[j] = pc[j]
      BY <1>3, <2>2, CommandsTyped
    <3> QED BY <1>7, <1>8, <1>9, <2>2, <3>1 DEF InFlight, Over
  <2> QED BY <2>1, <2>2 DEF TargetInv
<1>11. OrderInv'
  <2>1. \A j \in Applications : j # k => pc'[j] = pc[j]
    BY <1>3, CommandsTyped
  <2>2. \A j \in Applications : (j > begun' => pc'[j] = "idle") /\ pc'[j] # "setup"
    <3>1. \A j \in Applications : j > begun' => j # k /\ j > begun
      BY <1>1, <1>2, CommandsTyped
    <3> QED BY <1>3, <2>1, <3>1 DEF ReconfigurationInv, OrderInv
  <2>3. ~overlapped' => \A j \in Applications : InFlight(j)' => j = begun'
    BY <1>1, <1>8, <2>1 DEF InFlight
  <2>4. ~disturbed' => \A i, j \in Applications : InFlight(i)' /\ InFlight(j)' => i = j
    BY <1>7, <1>8, <1>9, <2>1 DEF InFlight
  <2> QED BY <2>2, <2>3, <2>4 DEF OrderInv
<1>12. FileInv'
  <2>1. before'[k] = config /\ config' = config
    BY <1>1, <1>2 DEF TypeOK, files, fields
  <2> QED BY <1>1, <1>3, <2>1 DEF FileInv, FilesAt
<1>13. BotsInv'
  <2>1. NoNewBots(supervisors', supervisors)
    BY <1>1 DEF NoNewBots, Tamer, tray, fields
  <2>2. (disturbed => disturbed') /\ UNCHANGED <<field, config>>
    BY <1>1 DEF files, tray, fields
  <2>3. \A j \in Applications : pc'[j] \in {"stopped", "undone"} => pc'[j] = pc[j]
    BY <1>3, CommandsTyped
  <2> QED BY <2>1, <2>2, <2>3, BotsKept DEF ReconfigurationInv
<1> QED BY <1>5, <1>6, <1>10, <1>11, <1>12, <1>13 DEF ReconfigurationInv

LEMMA LauncherStartsKeeps ==
    ASSUME ReconfigurationInv, LogsInv, LauncherStarts
    PROVE  ReconfigurationInv'
<1>1. /\ pc[Launch] = "idle" /\ launches' = launches + 1 /\ launches < MaxLaunches
      /\ disturbed' = FALSE
      /\ StartRuntime(Launch, <<>>, config, "start", "setup")
      /\ UNCHANGED <<files, target, begun, orphaned, faults, before, overlapped>>
  BY DEF LauncherStarts, Running
<1>2. /\ TypeOK /\ supervisors = <<>> /\ \A k \in Applications : ~InFlight(k)
      /\ Launch \in Commands /\ config \in Contents /\ "start" \in Places /\ "setup" \in Places
      /\ config' = config
  BY <1>1, CommandsTyped DEF ReconfigurationInv, LaunchInv, TypeOK, Places, files, fields
<1>3. supervisors \in Seq(Supervisor) /\ DOMAIN supervisors = {} /\ field = NoSupervisor
  BY <1>2 DEF TypeOK
<1>4. StartRuntime(Launch, supervisors, config, "start", "setup")
  BY <1>1, <1>2
<1>5. /\ supervisors' \in Seq(Supervisor)
      /\ pc' \in [Commands -> Places] /\ \A d \in Commands \ {Launch} : pc'[d] = pc[d]
      /\ \/ /\ StartThrows(config) /\ supervisors' = supervisors /\ field' = field /\ logs' = logs
                 /\ pc'[Launch] = "setup"
         \/ /\ ~StartThrows(config) /\ pc'[Launch] = "start" /\ logs' = TRUE
            /\ field' \notin DOMAIN supervisors
            /\ DOMAIN supervisors' = DOMAIN supervisors \cup {field'}
            /\ supervisors'[field'].bot = "up" /\ supervisors'[field'].runs = config
            /\ \A s \in DOMAIN supervisors : supervisors'[s] = supervisors[s]
  <2>1. /\ TypeOK /\ Launch \in Commands /\ supervisors \in Seq(Supervisor) /\ config \in Contents
        /\ "start" \in Places /\ "setup" \in Places
    BY <1>2, <1>3
  <2> QED BY <1>4, <2>1, ARuntimeStarts
<1>6. \A k \in Applications : pc'[k] = pc[k] /\ ~InFlight(k)' /\ pc[k] \in Over
  BY <1>2, <1>5, CommandsTyped DEF InFlight
<1>7. TypeOK'
  <2>1. launches' \in 0 .. MaxLaunches
    BY <1>1, <1>2, BoundsAssumption DEF TypeOK
  <2> QED BY <1>1, <1>2, <1>3, <1>5, <2>1 DEF TypeOK, files, fields
<1>8. LaunchInv'
  <2>1. pc'[Exit] = pc[Exit]
    BY <1>5, CommandsTyped
  <2>2. StartThrows(config) => config = Missing
    BY <1>3 DEF LogsInv, StartThrows
  <2> QED BY <1>2, <1>3, <1>5, <1>6, <2>1, <2>2 DEF ReconfigurationInv, LaunchInv
<1>9. TargetInv'
  <2>1. \A c \in Commands : (target'[c] # NoSupervisor) <=> (pc'[c] \in {"stop", "undo"})
    BY <1>1, <1>2, <1>5 DEF ReconfigurationInv, TargetInv
  <2> QED BY <1>6, <2>1 DEF TargetInv, Over
<1>10. OrderInv'
  BY <1>1, <1>6 DEF ReconfigurationInv, OrderInv
<1>11. FileInv'
  <2>1. begun > 0 => begun \in Applications
    BY <1>2 DEF TypeOK
  <2>2. begun > 0 => pc'[begun] = pc[begun]
    BY <1>6, <2>1
  <2> QED BY <1>1, <2>2 DEF ReconfigurationInv, FileInv, FilesAt, files
<1>12. BotsInv'
  BY <1>2, <1>3, <1>4, <1>6, BotsStarted DEF NoBots, Over
<1> QED BY <1>7, <1>8, <1>9, <1>10, <1>11, <1>12 DEF ReconfigurationInv

LEMMA SetupSucceedsKeeps ==
    ASSUME ReconfigurationInv, NEW k \in Applications, SetupSucceeds(k)
    PROVE  ReconfigurationInv'
<1>1. /\ pc[Launch] = "setup" /\ k = begun + 1 /\ begun' = k
      /\ before' = [before EXCEPT ![k] = config]
      /\ overlapped' = FALSE /\ config' = k /\ backup' = Missing
      /\ StartRuntime(Launch, supervisors, config', "start", "failed")
      /\ UNCHANGED <<staged, target, launched, faults, disturbed>>
  BY DEF SetupSucceeds, Begin, At
<1>2. /\ TypeOK /\ supervisors = <<>> /\ \A j \in Applications : ~InFlight(j)
      /\ Launch \in Commands /\ config' \in Contents /\ config' # Missing
      /\ "start" \in Places /\ "failed" \in Places /\ config = Missing
      /\ k \in Nat /\ begun \in Nat
  BY <1>1, CommandsTyped DEF ReconfigurationInv, LaunchInv, TypeOK, Places
<1>3. supervisors \in Seq(Supervisor) /\ DOMAIN supervisors = {}
  BY <1>2 DEF TypeOK
<1>4. /\ supervisors' \in Seq(Supervisor)
      /\ pc' \in [Commands -> Places] /\ \A d \in Commands \ {Launch} : pc'[d] = pc[d]
      /\ \/ /\ StartThrows(config') /\ supervisors' = supervisors /\ field' = field /\ logs' = logs
                 /\ pc'[Launch] = "failed"
         \/ /\ ~StartThrows(config') /\ pc'[Launch] = "start" /\ logs' = TRUE
            /\ field' \notin DOMAIN supervisors
            /\ DOMAIN supervisors' = DOMAIN supervisors \cup {field'}
            /\ supervisors'[field'].bot = "up" /\ supervisors'[field'].runs = config'
            /\ \A s \in DOMAIN supervisors : supervisors'[s] = supervisors[s]
  <2>1. /\ TypeOK /\ Launch \in Commands /\ supervisors \in Seq(Supervisor) /\ config' \in Contents
        /\ "start" \in Places /\ "failed" \in Places
        /\ StartRuntime(Launch, supervisors, config', "start", "failed")
    BY <1>1, <1>2, <1>3
  <2> QED BY <2>1, ARuntimeStarts
<1>5. /\ pc'[Launch] \in {"start", "failed"} /\ pc'[Exit] = pc[Exit]
      /\ pc'[Launch] = "failed" => supervisors' = supervisors
  BY <1>2, <1>4, CommandsTyped
<1>6. \A j \in Applications : pc'[j] = pc[j] /\ ~InFlight(j)' /\ pc[j] \in Over
  BY <1>2, <1>4, CommandsTyped DEF InFlight
<1>7. TypeOK'
  <2>1. before' \in [Applications -> Contents] /\ begun' \in Applications
    BY <1>1, <1>2 DEF TypeOK
  <2> QED BY <1>1, <1>2, <1>3, <1>4, <2>1, CommandsTyped DEF TypeOK, launched
<1>8. LaunchInv'
  BY <1>2, <1>5, <1>6 DEF ReconfigurationInv, LaunchInv
<1>9. TargetInv'
  <2>1. \A c \in Commands : (target'[c] # NoSupervisor) <=> (pc'[c] \in {"stop", "undo"})
    BY <1>1, <1>4, <1>5 DEF ReconfigurationInv, TargetInv
  <2> QED BY <1>6, <2>1 DEF TargetInv, Over
<1>10. OrderInv'
  <2>1. \A j \in Applications : j > begun' => j > begun
    BY <1>1, <1>2, CommandsTyped
  <2> QED BY <1>6, <2>1 DEF ReconfigurationInv, OrderInv
<1>11. FileInv'
  <2>1. k > begun /\ pc'[k] = "idle"
    BY <1>1, <1>2, <1>6 DEF ReconfigurationInv, OrderInv
  <2>2. before'[k] = Missing
    BY <1>1, <1>2 DEF TypeOK
  <2> QED BY <1>1, <2>1, <2>2 DEF FileInv, FilesAt
<1>12. BotsInv'
  BY <1>1, <1>2, <1>3, <1>6, BotsStarted DEF NoBots, Over
<1> QED BY <1>7, <1>8, <1>9, <1>10, <1>11, <1>12 DEF ReconfigurationInv

\* The launch of the tray goes on.
LEMMA TheLaunchMoves ==
    ASSUME ReconfigurationInv, NEW place \in {"succeeded", "failed"},
           \/ pc[Launch] = "setup" /\ place = "failed"
           \/ pc[Launch] = "start" /\ place = "succeeded",
           Go(Launch, place), faults' \in 0 .. MaxFaults,
           UNCHANGED <<files, tray, target, begun, launched, history>>
    PROVE  ReconfigurationInv'
<1>1. /\ TypeOK /\ pc'[Launch] = place /\ \A d \in Commands \ {Launch} : pc'[d] = pc[d]
      /\ pc' \in [Commands -> Places]
  BY CommandsTyped, Going DEF ReconfigurationInv, Places
<1>2. TypeOK'
  BY <1>1, StillTyped DEF TypeOK, files, tray, fields, history
<1>3. pc'[Exit] = pc[Exit] /\ \A k \in Applications : pc'[k] = pc[k]
  BY <1>1, CommandsTyped
<1>4. LaunchInv'
  BY <1>1, <1>3 DEF ReconfigurationInv, LaunchInv, InFlight, tray, fields
<1>5. TargetInv' /\ OrderInv' /\ FileInv'
  <2>1. \A c \in {Launch, Exit} : (target'[c] # NoSupervisor) <=> (pc'[c] \in {"stop", "undo"})
    BY <1>1, <1>3, CommandsTyped DEF ReconfigurationInv, TargetInv
  <2>2. UNCHANGED <<files, field, begun, before, overlapped>> /\ (disturbed => disturbed')
    BY DEF history, tray, fields
  <2> QED BY <1>3, <2>1, <2>2, NoApplicationMoves
<1>6. BotsInv'
  BY <1>3, BotsKept DEF ReconfigurationInv, NoNewBots, Tamer, files, tray, fields, history
<1> QED BY <1>2, <1>4, <1>5, <1>6 DEF ReconfigurationInv

LEMMA SetupFailsKeeps ==
    ASSUME ReconfigurationInv, SetupFails
    PROVE  ReconfigurationInv'
BY AFault, TheLaunchMoves DEF SetupFails, ReconfigurationInv, At

LEMMA LaunchReturnsKeeps ==
    ASSUME ReconfigurationInv, LaunchReturns
    PROVE  ReconfigurationInv'
BY TheLaunchMoves DEF LaunchReturns, ReconfigurationInv, TypeOK, At

LEMMA ExitClickedKeeps ==
    ASSUME ReconfigurationInv, ExitClicked
    PROVE  ReconfigurationInv'
<1>1. /\ pc[Exit] = "idle" /\ Stop(Exit, "stop", "succeeded")
      /\ UNCHANGED <<files, fields, begun, launched, faults, history>>
  BY DEF ExitClicked
<1>2. TypeOK /\ Exit \in Commands
  BY CommandsTyped DEF ReconfigurationInv
<1>3. /\ supervisors' \in Seq(Supervisor) /\ NoNewBots(supervisors', supervisors)
      /\ target' \in [Commands -> {NoSupervisor} \cup DOMAIN supervisors]
      /\ pc' \in [Commands -> Places]
      /\ \A d \in Commands \ {Exit} : pc'[d] = pc[d] /\ target'[d] = target[d]
      /\ \/ field = NoSupervisor /\ pc'[Exit] = "succeeded" /\ target'[Exit] = target[Exit]
         \/ field # NoSupervisor /\ pc'[Exit] = "stop" /\ target'[Exit] = field
  BY <1>1, <1>2, AStopIsAsked DEF Places
<1>4. TypeOK'
  BY <1>1, <1>2, <1>3, StillTyped DEF TypeOK, NoNewBots, files, fields, history
<1>5. /\ pc'[Launch] = pc[Launch] /\ target'[Launch] = target[Launch]
      /\ \A k \in Applications : pc'[k] = pc[k] /\ target'[k] = target[k]
  BY <1>3, CommandsTyped
<1>6. target[Exit] = NoSupervisor
  BY <1>1, <1>2 DEF ReconfigurationInv, TargetInv
<1>7. LaunchInv'
  <2>1. supervisors = <<>> => supervisors' = <<>>
    <3>1. ASSUME supervisors = <<>> PROVE field = NoSupervisor
      BY <1>2, <3>1 DEF TypeOK
    <3> QED BY <1>1, <3>1 DEF Stop
  <2>2. pc'[Exit] \in {"stop", "succeeded"} /\ config' = config
    BY <1>1, <1>3 DEF files
  <2> QED BY <1>5, <2>1, <2>2 DEF ReconfigurationInv, LaunchInv, InFlight
<1>8. TargetInv' /\ OrderInv' /\ FileInv'
  <2>1. \A c \in {Launch, Exit} : (target'[c] # NoSupervisor) <=> (pc'[c] \in {"stop", "undo"})
    BY <1>3, <1>5, <1>6, CommandsTyped DEF ReconfigurationInv, TargetInv
  <2>2. UNCHANGED <<files, field, begun, before, overlapped>> /\ (disturbed => disturbed')
    BY <1>1 DEF fields, history
  <2> QED BY <1>5, <2>1, <2>2, NoApplicationMoves
<1>9. BotsInv'
  BY <1>1, <1>3, <1>5, BotsKept DEF ReconfigurationInv, files, fields, history
<1> QED BY <1>4, <1>7, <1>8, <1>9 DEF ReconfigurationInv

LEMMA ExitThrowsKeeps ==
    ASSUME ReconfigurationInv, ExitThrows
    PROVE  ReconfigurationInv'
<1>1. /\ pc[Exit] = "stop" /\ StopThrows(Exit) /\ supervisors' \in AfterThrow(Exit)
      /\ Go(Exit, "threw") /\ UNCHANGED <<files, fields, faults>>
  BY DEF ExitThrows
<1>2. TypeOK /\ TargetInv /\ LaunchInv /\ Exit \in Commands /\ HasGate(Exit)
  BY <1>1, CommandsTyped DEF ReconfigurationInv, StopThrows
<1>3. /\ supervisors' \in Seq(Supervisor) /\ NoNewBots(supervisors', supervisors)
      /\ target'[Exit] = NoSupervisor /\ \A d \in Commands \ {Exit} : target'[d] = target[d]
      /\ target' \in [Commands -> {NoSupervisor} \cup DOMAIN supervisors]
      /\ disturbed' = TRUE /\ UNCHANGED <<begun, launched, before, overlapped>>
  BY <1>1, <1>2, AStopThrows
<1>4. /\ pc'[Exit] = "threw" /\ \A d \in Commands \ {Exit} : pc'[d] = pc[d]
      /\ pc' \in [Commands -> Places]
  BY <1>1, <1>2, Going DEF Places
<1>5. TypeOK'
  BY <1>1, <1>2, <1>3, <1>4, StillTyped DEF TypeOK, NoNewBots, files, fields
<1>6. /\ pc'[Launch] = pc[Launch] /\ target'[Launch] = target[Launch]
      /\ \A k \in Applications : pc'[k] = pc[k] /\ target'[k] = target[k]
  BY <1>3, <1>4, CommandsTyped
<1>7. LaunchInv'
  <2>1. pc[Launch] \in {"start", "succeeded"}
    <3>1. supervisors # <<>>
      BY <1>2, AtTheGate
    <3> QED BY <1>2, <3>1 DEF LaunchInv
  <2> QED BY <1>4, <1>6, <2>1 DEF LaunchInv
<1>8. TargetInv' /\ OrderInv' /\ FileInv'
  <2>1. \A c \in {Launch, Exit} : (target'[c] # NoSupervisor) <=> (pc'[c] \in {"stop", "undo"})
    BY <1>2, <1>3, <1>4, <1>6, CommandsTyped DEF TargetInv
  <2>2. UNCHANGED <<files, field, begun, before, overlapped>> /\ (disturbed => disturbed')
    BY <1>1, <1>3 DEF fields
  <2> QED BY <1>6, <2>1, <2>2, NoApplicationMoves
<1>9. BotsInv'
  BY <1>3 DEF BotsInv
<1> QED BY <1>5, <1>7, <1>8, <1>9 DEF ReconfigurationInv

LEMMA LauncherEndsKeeps ==
    ASSUME ReconfigurationInv, LauncherEnds
    PROVE  ReconfigurationInv'
<1>1. /\ pc' = [c \in Commands |-> IF c \in Applications /\ pc[c] \in Over THEN pc[c] ELSE "idle"]
      /\ target' = [c \in Commands |-> NoSupervisor]
      /\ field' = NoSupervisor /\ supervisors' = <<>> /\ logs' = FALSE
      /\ orphaned' \in BOOLEAN /\ UNCHANGED <<begun, launches, faults, history>>
  BY DEF LauncherEnds, ReconfigurationInv, TypeOK
<1>2. /\ config' = config
      /\ \/ UNCHANGED files
         \/ backup' = backup /\ staged' \subseteq Applications
         \/ /\ \E k \in Applications : pc[k] = "stopped"
            /\ backup' = config /\ staged' = staged
  BY DEF LauncherEnds, BackedUp, files, ReconfigurationInv, TypeOK, fields
<1>3. TypeOK /\ \A c \in Commands : pc[c] \in Places
  BY DEF ReconfigurationInv, TypeOK
<1>4. \A c \in Commands :
         /\ pc'[c] \in Over /\ pc'[c] \in {"idle", pc[c]}
         /\ c \in Applications /\ pc[c] \in Over => pc'[c] = pc[c]
         /\ c \notin Applications => pc'[c] = "idle"
  BY <1>1 DEF Over
<1>5. TypeOK'
  <2>1. pc' \in [Commands -> Places]
    BY <1>1, <1>3 DEF Places
  <2>2. {config', backup'} \subseteq Contents /\ staged' \subseteq Applications
    BY <1>2, <1>3 DEF TypeOK, files, fields
  <2>3. supervisors' \in Seq(Supervisor) /\ target' \in [Commands -> {NoSupervisor} \cup DOMAIN supervisors']
        /\ field' \in {NoSupervisor} \cup DOMAIN supervisors'
    BY <1>1
  <2> QED BY <1>1, <1>3, <2>1, <2>2, <2>3 DEF TypeOK, fields, history
<1>6. pc'[Launch] = "idle" /\ pc'[Exit] = "idle"
  BY <1>4, CommandsTyped
<1>7. \A k \in Applications : ~InFlight(k)' /\ pc'[k] \in {"idle", pc[k]}
  BY <1>4, CommandsTyped DEF InFlight
<1>8. LaunchInv'
  BY <1>1, <1>6, <1>7 DEF LaunchInv
<1>9. TargetInv'
  <2>1. \A c \in Commands : target'[c] = NoSupervisor /\ pc'[c] \notin {"stop", "undo"}
    BY <1>1, <1>4 DEF Over
  <2> QED BY <2>1, CommandsTyped DEF TargetInv
<1>10. OrderInv'
  BY <1>1, <1>7 DEF ReconfigurationInv, OrderInv
<1>11. FileInv'
  <2> SUFFICES ASSUME ~overlapped, begun > 0
               PROVE  FilesAt(begun, pc[begun])'
    BY <1>1 DEF FileInv, fields, history
  <2>1. begun \in Applications
    BY <1>3 DEF TypeOK
  <2>2. FilesAt(begun, pc[begun])
    BY DEF ReconfigurationInv, FileInv
  <2>3. pc'[begun] \in Over /\ before'[begun'] = before[begun] /\ begun' = begun
    BY <1>1, <1>4, <2>1, CommandsTyped DEF fields, history
  <2>4. CASE InFlight(begun)
    BY <1>2, <2>2, <2>3, <2>4, UnderWay, <2>1 DEF FilesAt, InFlight, Over, files, ReconfigurationInv, OrderInv
  <2>5. CASE ~InFlight(begun)
    <3>1. pc'[begun] = pc[begun]
      BY <1>4, <2>1, <2>5, CommandsTyped DEF InFlight
    <3>2. config' = config /\ backup' = backup
      BY <1>2, <2>5 DEF ReconfigurationInv, OrderInv, InFlight, Over, files
    <3> QED BY <2>2, <2>3, <3>1, <3>2 DEF FilesAt, Over
  <2> QED BY <2>4, <2>5
<1>12. BotsInv'
  BY <1>1, <1>7 DEF BotsInv, NoBots, InFlight, Over
<1> QED BY <1>5, <1>8, <1>9, <1>10, <1>11, <1>12 DEF ReconfigurationInv


-----------------------------------------------------------------------------
\* The invariant of the specification.

LEMMA ReconfigurationInit ==
    ASSUME Init
    PROVE  ReconfigurationInv
<1>1. /\ supervisors = <<>> /\ DOMAIN supervisors = {} /\ supervisors \in Seq(Supervisor)
      /\ \A c \in Commands : pc[c] = "idle" /\ target[c] = NoSupervisor
  BY DEF Init
<1>2. TypeOK
  <2>1. /\ pc \in [Commands -> Places]
        /\ target \in [Commands -> {NoSupervisor} \cup DOMAIN supervisors]
    BY <1>1 DEF Init, Places
  <2>2. before \in [Applications -> Contents] /\ {config, backup} \subseteq Contents
    BY CommandsTyped DEF Init, Contents
  <2>3. 0 \in 0 .. MaxLaunches /\ 0 \in 0 .. MaxFaults
    BY BoundsAssumption
  <2> QED BY <1>1, <2>1, <2>2, <2>3 DEF Init, TypeOK
<1>3. LaunchInv /\ TargetInv /\ OrderInv
  BY <1>1, CommandsTyped DEF Init, LaunchInv, TargetInv, OrderInv, InFlight, Over
<1>4. FileInv
  BY DEF Init, FileInv
<1>5. BotsInv
  BY <1>1, CommandsTyped DEF BotsInv
<1> QED BY <1>2, <1>3, <1>4, <1>5 DEF ReconfigurationInv

LEMMA ApplicationStepKeeps ==
    ASSUME ReconfigurationInv, NEW k \in Applications, ApplicationStep(k)
    PROVE  ReconfigurationInv'
BY StageFailsKeeps, StagesKeeps, FirstStopThrowsKeeps, ActivatesKeeps, CopyFailsKeeps,
   ReplaceFailsKeeps, CommitsKeeps, RollsBackKeeps, RestoresKeeps, SecondStopThrowsKeeps,
   RollbackFailsKeeps, RestartReturnsKeeps
   DEF ApplicationStep

LEMMA CommandStepKeeps ==
    ASSUME ReconfigurationInv, NEW c \in Commands, CommandStep(c)
    PROVE  ReconfigurationInv'
<1>1. CASE c \in Applications /\ ApplicationStep(c) BY <1>1, ApplicationStepKeeps
<1>2. CASE c = Launch /\ LaunchReturns BY <1>2, LaunchReturnsKeeps
<1>3. CASE c = Exit /\ ExitThrows BY <1>3, ExitThrowsKeeps
<1>4. CASE StopBegins(c) BY <1>4, StopBeginsKeeps
<1>5. CASE StopEnds(c) BY <1>5, StopEndsKeeps
<1> QED BY <1>1, <1>2, <1>3, <1>4, <1>5 DEF CommandStep

\* Of what a launcher left nothing is said.
LEMMA NothingHappens ==
    ASSUME ReconfigurationInv, orphaned' \in BOOLEAN,
           UNCHANGED <<files, tray, commands, begun, launches, faults, history>>
    PROVE  ReconfigurationInv'
BY DEF files, tray, fields, commands, history, ReconfigurationInv, TypeOK, LaunchInv, TargetInv,
       OrderInv, FileInv, FilesAt, BotsInv, NoBots, InFlight

LEMMA ReconfigurationStep ==
    ASSUME ReconfigurationInv, LogsInv, [Next]_vars
    PROVE  ReconfigurationInv'
<1>1. ASSUME NEW k \in Applications, Configure(k) PROVE ReconfigurationInv'
  BY <1>1, ConfigureKeeps
<1>2. ASSUME NEW k \in Applications, SetupSucceeds(k) PROVE ReconfigurationInv'
  BY <1>2, SetupSucceedsKeeps
<1>3. ASSUME NEW c \in Commands, CommandStep(c) PROVE ReconfigurationInv'
  BY <1>3, CommandStepKeeps
<1>4. CASE LauncherStarts BY <1>4, LauncherStartsKeeps
<1>5. CASE SetupFails BY <1>5, SetupFailsKeeps
<1>6. CASE ExitClicked BY <1>6, ExitClickedKeeps
<1>7. CASE LauncherEnds BY <1>7, LauncherEndsKeeps
<1>8. ASSUME NEW s \in DOMAIN supervisors, MonitorStep(s) PROVE ReconfigurationInv'
  BY <1>8, MonitorStepKeeps
<1>9. ASSUME NEW s \in DOMAIN supervisors, BotCrashes(s) PROVE ReconfigurationInv'
  BY <1>9, BotCrashesKeeps
<1>10. CASE OrphansEnd BY <1>10, NothingHappens DEF OrphansEnd
<1>11. CASE UNCHANGED vars
  BY <1>11, NothingHappens DEF vars, launched, ReconfigurationInv, TypeOK
<1> QED
  BY <1>1, <1>2, <1>3, <1>4, <1>5, <1>6, <1>7, <1>8, <1>9, <1>10, <1>11 DEF Next

-----------------------------------------------------------------------------
\* The logs.

LEMMA LogsKept ==
    ASSUME LogsInv, UNCHANGED fields,
           \A k \in Applications :
              pc'[k] \in {"stopped", "undone"} => pc'[k] = pc[k] \/ field = NoSupervisor
    PROVE  LogsInv'
BY DEF LogsInv, fields

LEMMA LogsKeptGoing ==
    ASSUME TypeOK, LogsInv, UNCHANGED fields, NEW c \in Commands,
           NEW place \in Places \ {"stopped", "undone"}, Go(c, place)
    PROVE  LogsInv'
<1>1. pc'[c] = place /\ \A d \in Commands \ {c} : pc'[d] = pc[d]
  BY Going
<1> QED BY <1>1, LogsKept, CommandsTyped

LEMMA LogsKeptStopping ==
    ASSUME TypeOK, LogsInv, UNCHANGED fields, NEW c \in Commands,
           NEW place \in Places \ {"stopped", "undone"}, NEW next \in Places, Stop(c, place, next)
    PROVE  LogsInv'
<1>1. /\ \A d \in Commands \ {c} : pc'[d] = pc[d]
      /\ field = NoSupervisor \/ pc'[c] = place
  BY AStopIsAsked
<1> QED BY <1>1, LogsKept, CommandsTyped

LEMMA LogsOpened ==
    ASSUME TypeOK, LogsInv, NEW c \in Commands, NEW list \in Seq(Supervisor), NEW content,
           NEW awaiting \in Places \ {"stopped", "undone"},
           NEW failed \in Places \ {"stopped", "undone"},
           StartRuntime(c, list, content, awaiting, failed), Turn(c)
    PROVE  LogsInv'
<1>1. CASE StartThrows(content)
  <2>1. Go(c, failed) /\ UNCHANGED fields
    BY <1>1 DEF StartRuntime
  <2> QED BY <2>1, LogsKeptGoing
<1>2. CASE ~StartThrows(content)
  <2>1. Go(c, awaiting) /\ field' = Len(list) + 1
    BY <1>2 DEF StartRuntime
  <2>2. field' # NoSupervisor
    <3>1. Len(list) \in Nat
      OBVIOUS
    <3> QED BY <2>1, <3>1 DEF NoSupervisor
  <2>3. pc'[c] = awaiting /\ \A d \in Commands \ {c} : pc'[d] = pc[d]
    BY <2>1, Going
  <2>4. \A k \in Applications : pc'[k] \notin {"stopped", "undone"}
    BY <2>3, CommandsTyped DEF Turn
  <2> QED BY <2>2, <2>4 DEF LogsInv
<1> QED BY <1>1, <1>2

LEMMA LogsStepOfAnApplication ==
    ASSUME ReconfigurationInv, LogsInv, NEW k \in Applications, ApplicationStep(k)
    PROVE  LogsInv'
<1>1. /\ TypeOK /\ k \in Commands /\ supervisors \in Seq(Supervisor) /\ TargetInv /\ LaunchInv
      /\ {"stop", "undo", "start", "recover", "restart", "failed", "threw", "succeeded"}
            \subseteq Places \ {"stopped", "undone"}
      /\ {"stopped", "undone"} \subseteq Places
  BY CommandsTyped DEF ReconfigurationInv, TypeOK, Places
<1>2. CASE \E place \in {"failed", "threw", "succeeded"} : Go(k, place) /\ UNCHANGED fields
  BY <1>1, <1>2, LogsKeptGoing
<1>3. CASE StageFails(k) \/ ReplaceFails(k) \/ Commits(k) \/ RollbackFails(k) \/ RestartReturns(k)
           \/ SecondStopThrows(k)
  BY <1>2, <1>3 DEF StageFails, ReplaceFails, Commits, RollbackFails, RestartReturns,
                    SecondStopThrows, tray, fields
<1>4. CASE Stages(k) BY <1>1, <1>4, LogsKeptStopping DEF Stages
<1>5. CASE RollsBack(k) BY <1>1, <1>5, LogsKeptStopping DEF RollsBack
<1>6. CASE Activates(k) BY <1>1, <1>6, LogsOpened DEF Activates, At
<1>7. CASE CopyFails(k) BY <1>1, <1>7, LogsOpened DEF CopyFails, Recover, At
<1>8. CASE Restores(k) BY <1>1, <1>8, LogsOpened DEF Restores, At
<1>9. CASE FirstStopThrows(k)
  <2>1. StopThrows(k) /\ Turn(k)
    BY <1>9 DEF FirstStopThrows, StopThrows, HasGate
  <2>2. PICK list \in AfterThrow(k) : StartRuntime(k, list, config, "recover", "failed")
    BY <1>9 DEF FirstStopThrows, Recover
  <2>3. list \in Seq(Supervisor)
    BY <1>1, <2>1, AStopThrows
  <2> QED BY <1>1, <2>1, <2>2, <2>3, LogsOpened
<1> QED BY <1>3, <1>4, <1>5, <1>6, <1>7, <1>8, <1>9 DEF ApplicationStep

LEMMA LogsStep ==
    ASSUME ReconfigurationInv, LogsInv, [Next]_vars
    PROVE  LogsInv'
<1>1. /\ TypeOK /\ TargetInv /\ LaunchInv /\ Launch \in Commands /\ Exit \in Commands
      /\ Applications \subseteq Commands /\ supervisors \in Seq(Supervisor) /\ <<>> \in Seq(Supervisor)
      /\ {"staging", "start", "stop", "setup", "failed", "succeeded", "threw"}
            \subseteq Places \ {"stopped", "undone"}
  BY CommandsTyped DEF ReconfigurationInv, TypeOK, Places
<1>2. CASE UNCHANGED <<pc, fields>>
  BY <1>2, LogsKept
<1>3. CASE logs' = FALSE
  BY <1>3 DEF LogsInv
<1>4. ASSUME pc[Launch] \in {"idle", "setup"} PROVE Turn(Launch)
  BY <1>1, <1>4 DEF LaunchInv, Turn, InFlight, Over
<1>5. ASSUME NEW k \in Applications, Configure(k) PROVE LogsInv'
  BY <1>1, <1>5, LogsKeptGoing DEF Configure, tray
<1>6. ASSUME NEW k \in Applications, SetupSucceeds(k) PROVE LogsInv'
  BY <1>1, <1>4, <1>6, LogsOpened DEF SetupSucceeds, At
<1>7. ASSUME NEW c \in Commands, CommandStep(c) PROVE LogsInv'
  <2>1. CASE c \in Applications /\ ApplicationStep(c) BY <2>1, LogsStepOfAnApplication
  <2>2. CASE c = Launch /\ LaunchReturns BY <1>1, <2>2, LogsKeptGoing DEF LaunchReturns, tray
  <2>3. CASE c = Exit /\ ExitThrows BY <1>1, <2>3, LogsKeptGoing DEF ExitThrows
  <2>4. CASE StopBegins(c) BY <1>2, <2>4 DEF StopBegins, commands
  <2>5. CASE StopEnds(c) BY <1>3, <2>5 DEF StopEnds
  <2> QED BY <1>7, <2>1, <2>2, <2>3, <2>4, <2>5 DEF CommandStep
<1>8. CASE LauncherStarts BY <1>1, <1>4, <1>8, LogsOpened DEF LauncherStarts, Running
<1>9. CASE SetupFails BY <1>1, <1>9, LogsKeptGoing DEF SetupFails, tray
<1>10. CASE ExitClicked BY <1>1, <1>10, LogsKeptStopping DEF ExitClicked
<1>11. CASE LauncherEnds BY <1>3, <1>11 DEF LauncherEnds
<1>12. CASE OrphansEnd BY <1>2, <1>12 DEF OrphansEnd, tray, commands
<1>13. ASSUME NEW s \in DOMAIN supervisors, MonitorStep(s) \/ BotCrashes(s) PROVE LogsInv'
  BY <1>2, <1>13 DEF MonitorStep, BotCrashes, BotIsJudged, BotRefuses, MonitorRestarts,
                     MonitorGivesUp, Becomes, commands
<1>14. CASE UNCHANGED vars BY <1>2, <1>14 DEF vars, tray, commands
<1> QED
  BY <1>5, <1>6, <1>7, <1>8, <1>9, <1>10, <1>11, <1>12, <1>13, <1>14 DEF Next

\* Set-ups, Configures, Exits, crashes and restarts, in any number and interleaving,
\* keep the files, the commands, the bots and the logs in step.
THEOREM ReconfigurationInvariant == Spec => [](ReconfigurationInv /\ LogsInv)
<1>1. Init => ReconfigurationInv /\ LogsInv
  BY ReconfigurationInit, CommandsTyped DEF Init, LogsInv
<1>2. ReconfigurationInv /\ LogsInv /\ [Next]_vars => (ReconfigurationInv /\ LogsInv)'
  BY ReconfigurationStep, LogsStep
<1> QED BY <1>1, <1>2, PTL DEF Spec

\* Until an application succeeds, the configuration there was before it is in
\* config.env or in the rollback file, wherever the launcher ended and whatever
\* failed.
THEOREM ThePriorConfigurationIsKept == Spec => []PriorIsKept
<1>1. ReconfigurationInv => PriorIsKept
  <2>1. ReconfigurationInv /\ begun > 0 /\ ~overlapped /\ pc[begun] # "succeeded"
          => before[begun] \in {config, backup}
    BY DEF ReconfigurationInv, FileInv, FilesAt
  <2> QED BY <2>1 DEF PriorIsKept, ReconfigurationInv
<1> QED BY <1>1, ReconfigurationInvariant, PTL

\* Between applications, of the supervisors of this launch only the one in the field
\* has a bot, and that bot runs with the configuration in config.env.
THEOREM BotsFollowTheConfiguration == Spec => []BotsRunTheConfiguration
<1>1. ReconfigurationInv => BotsRunTheConfiguration
  BY DEF ReconfigurationInv, BotsInv, BotsRunTheConfiguration
<1> QED BY <1>1, ReconfigurationInvariant, PTL

-----------------------------------------------------------------------------
\* How an application fails.

\* Only its own steps end an application, and those that fail without a file
\* operation failing have put config.env back.
LEMMA FailureStep ==
    ASSUME ReconfigurationInv, LogsInv, [Next]_vars, NEW k \in Applications,
           InFlight(k), pc'[k] \in {"failed", "threw"}, faults' = faults, ~overlapped
    PROVE  config' = before[k] /\ backup' = Missing /\ k \notin staged'
<1>0. /\ TypeOK /\ faults \in 0 .. MaxFaults /\ k \in Commands /\ FilesAt(k, pc[k])
      /\ pc \in [Commands -> Places] /\ TargetInv /\ LaunchInv
      /\ pc[k] \notin {"idle", "succeeded", "failed", "threw"}
      /\ pc[Launch] \in {"start", "succeeded"}
      /\ supervisors \in Seq(Supervisor) /\ pc'[k] # pc[k]
  BY UnderWay DEF ReconfigurationInv, TypeOK, InFlight, Over
<1>1. ~Fault
  BY <1>0, BoundsAssumption DEF Fault
<1>2. ASSUME NEW j \in Applications, Configure(j) PROVE FALSE
  <2>1. pc' = [pc EXCEPT ![j] = "staging"]
    BY <1>2 DEF Configure, Go
  <2> QED BY <1>0, <2>1
<1>3. ASSUME NEW j \in Applications, SetupSucceeds(j) PROVE FALSE
  BY <1>0, <1>3 DEF SetupSucceeds, At
<1>4. ASSUME NEW j \in Applications, ApplicationStep(j), j # k PROVE FALSE
  <2>1. ~InFlight(j)
    BY <1>4 DEF ReconfigurationInv, OrderInv
  <2> QED BY <1>4, <2>1 DEF ApplicationStep, StageFails, Stages, FirstStopThrows, Activates,
         CopyFails, ReplaceFails, Commits, RollsBack, Restores, SecondStopThrows, RollbackFails,
         RestartReturns, At, InFlight, Over
<1>5. CASE ApplicationStep(k)
  <2>1. ~StageFails(k) /\ ~CopyFails(k) /\ ~ReplaceFails(k) /\ ~RollbackFails(k)
    BY <1>1 DEF StageFails, CopyFails, ReplaceFails, RollbackFails, At
  <2>2. CASE Stages(k)
    <3>1. pc'[k] \in {"stop", "stopped"}
      BY <1>0, <2>2, AStopIsAsked DEF Stages, Places, At
    <3> QED BY <3>1
  <2>3. CASE RollsBack(k)
    <3>1. pc'[k] \in {"undo", "undone"}
      BY <1>0, <2>3, AStopIsAsked DEF RollsBack, Places, At
    <3> QED BY <3>1
  <2>4. CASE Commits(k)
    <3>1. pc'[k] = "succeeded"
      BY <1>0, <2>4, Going DEF Commits, At
    <3> QED BY <3>1
  <2>5. CASE Activates(k)
    <3>1. StartRuntime(k, supervisors, k, "start", "failed") /\ ~StartThrows(k)
      BY <2>5, CommandsTyped DEF Activates, At, LogsInv, StartThrows
    <3>2. Go(k, "start")
      BY <3>1 DEF StartRuntime
    <3>3. pc'[k] = "start"
      BY <1>0, <3>2, Going
    <3> QED BY <3>3
  <2>6. CASE FirstStopThrows(k)
    BY <1>0, <2>6 DEF FirstStopThrows, Discarded, FilesAt
  <2>7. CASE Restores(k)
    BY <1>0, <2>7 DEF Restores, Restored, FilesAt, At
  <2>8. CASE SecondStopThrows(k)
    BY <1>0, <1>1, <2>8 DEF SecondStopThrows, Restored, FilesAt
  <2>9. CASE RestartReturns(k)
    BY <1>0, <2>9 DEF RestartReturns, FilesAt, files, At
  <2> QED BY <1>5, <2>1, <2>2, <2>3, <2>4, <2>5, <2>6, <2>7, <2>8, <2>9 DEF ApplicationStep
<1>6. ASSUME NEW c \in Commands, CommandStep(c), ~(c \in Applications /\ ApplicationStep(c))
      PROVE  FALSE
  <2>1. CASE c = Launch /\ LaunchReturns
    <3>1. Go(Launch, "succeeded")
      BY <2>1 DEF LaunchReturns, At
    <3> QED BY <1>0, <3>1, Going, CommandsTyped
  <2>2. CASE c = Exit /\ ExitThrows
    <3>1. Go(Exit, "threw")
      BY <2>2 DEF ExitThrows
    <3> QED BY <1>0, <3>1, Going, CommandsTyped
  <2>3. CASE StopBegins(c)
    BY <1>0, <2>3 DEF StopBegins, commands
  <2>4. CASE StopEnds(c)
    <3>1. /\ \A d \in Commands \ {c} : pc'[d] = pc[d]
          /\ pc'[c] \in {"succeeded", "stopped", "undone"}
      BY <1>0, <2>4, AStopEnds
    <3> QED BY <1>0, <3>1
  <2> QED BY <1>6, <2>1, <2>2, <2>3, <2>4 DEF CommandStep
<1>7. CASE LauncherStarts
  BY <1>0, <1>7 DEF LauncherStarts, Running
<1>8. CASE SetupFails
  BY <1>0, <1>8 DEF SetupFails, At
<1>9. CASE ExitClicked
  <2>1. \A d \in Commands \ {Exit} : pc'[d] = pc[d]
    BY <1>0, <1>9, AStopIsAsked, CommandsTyped DEF ExitClicked, Places
  <2> QED BY <1>0, <2>1, CommandsTyped
<1>10. CASE LauncherEnds
  <2>1. pc'[k] = "idle"
    BY <1>0, <1>10 DEF LauncherEnds, Over
  <2> QED BY <2>1
<1>11. ASSUME NEW s \in DOMAIN supervisors, MonitorStep(s) \/ BotCrashes(s) PROVE FALSE
  <2>1. pc' = pc
    BY <1>11 DEF MonitorStep, BotCrashes, BotIsJudged, BotRefuses, MonitorRestarts, MonitorGivesUp, Observes,
                 Becomes, commands
  <2> QED BY <1>0, <2>1
<1>12. CASE OrphansEnd \/ UNCHANGED vars
  BY <1>0, <1>12 DEF OrphansEnd, vars, commands
<1> QED
  BY <1>2, <1>3, <1>4, <1>5, <1>6, <1>7, <1>8, <1>9, <1>10, <1>11, <1>12 DEF Next

\* An application that ends without success leaves config.env as it found it and no
\* file of its own.
THEOREM FailuresRestore == Spec => FailureRestores
<1>1. ReconfigurationInv /\ LogsInv /\ [Next]_vars =>
        [\A k \in Applications :
           pc[k] \notin Over /\ pc'[k] \in {"failed", "threw"}
             /\ faults' = faults /\ ~overlapped
           => config' = before[k] /\ backup' = Missing /\ k \notin staged']_vars
  BY FailureStep DEF InFlight
<1> QED BY <1>1, ReconfigurationInvariant, PTL DEF Spec, FailureRestores
=============================================================================
