------------------------ MODULE AdministrationProofs ------------------------
(***************************************************************************)
(* Theorems about the serial executor and about what enters it.            *)
(*                                                                         *)
(* SerialExecutor, for any calls and keys: at most one call's work is      *)
(* under way per key, a tail is kept exactly for the keys with work, and   *)
(* the chains of promises are queues (KeyedQueue).  The calls of a key     *)
(* that are not over form a line: each but the first was chained to the    *)
(* one before it and waits, the first waits for nobody or for a call that  *)
(* is over, and the last is the tail that is kept.  A new call joins at    *)
(* the end, and only the first can begin or end.                           *)
(*                                                                         *)
(* Administration, for any tasks, channels, templates and edits: what a    *)
(* route or the intake read before it waited for the executor still holds  *)
(* when its turn comes, but for strays.  The composition keeps the         *)
(* executor's invariant, so work under one key excludes other work under   *)
(* it; and the key of a task is the channel of the round it was sent for,  *)
(* or the one whose permissions were checked.                              *)
(***************************************************************************)
EXTENDS Administration, WellFoundedInduction, TLAPS

-----------------------------------------------------------------------------
(* The serial executor. *)

Live(t) == phase[t] \in {"waiting", "running"}

ExecutorTypeOK ==
    /\ tails \in [Keys -> Tasks \union {NoTask}]
    /\ key \in [Tasks -> Keys \union {NoTask}]
    /\ after \in [Tasks -> Tasks \union {NoTask}]
    /\ phase \in [Tasks -> {"none", "waiting", "running", "over"}]
    /\ \A t \in Tasks : Live(t) => key[t] \in Keys

Members(k, line) ==
    /\ \A i \in 1 .. Len(line) : Live(line[i]) /\ key[line[i]] = k
    /\ \A t \in Tasks : Live(t) /\ key[t] = k => \E i \in 1 .. Len(line) : line[i] = t
    /\ \A i, j \in 1 .. Len(line) : line[i] = line[j] => i = j

Chained(line) ==
    /\ Len(line) > 0 => Ready(line[1])
    /\ \A i \in 2 .. Len(line) :
         /\ after[line[i]] = line[i - 1]
         /\ phase[line[i]] = "waiting"

Tailed(k, line) == tails[k] = IF Len(line) = 0 THEN NoTask ELSE line[Len(line)]

InLine(k, line) == Members(k, line) /\ Chained(line) /\ Tailed(k, line)

ExecutorInv ==
    /\ ExecutorTypeOK
    /\ \A k \in Keys : \E line \in Seq(Tasks) : InLine(k, line)

\* One call's work at a time, for each key: the exclusion that the transactions
\* and awaits of a channel rely on (SerialExecutor.run).
OneAtATime ==
    \A t, u \in Tasks :
        phase[t] = "running" /\ phase[u] = "running" /\ key[t] = key[u] => t = u

\* No key is forgotten while it has work, and none kept without (activeKeyCount,
\* whenIdle).
BusyKeysHaveWork ==
    \A k \in Keys : k \in ActiveKeys <=> \E t \in Tasks : Live(t) /\ key[t] = k

-----------------------------------------------------------------------------
\* Whoever runs is the first of its line.
LEMMA RunningIsFirst ==
    ASSUME ExecutorTypeOK, NEW k \in Keys, NEW line \in Seq(Tasks), InLine(k, line),
           NEW t \in Tasks, Live(t), key[t] = k, Ready(t)
    PROVE  Len(line) > 0 /\ line[1] = t
<1>1. PICK i \in 1 .. Len(line) : line[i] = t
  BY DEF InLine, Members
<1>2. CASE i = 1
  BY <1>1, <1>2
<1>3. CASE i # 1
  <2>1. i \in 2 .. Len(line) /\ i - 1 \in 1 .. Len(line)
    BY <1>3
  <2>2. after[t] = line[i - 1] /\ Live(line[i - 1])
    BY <1>1, <2>1 DEF InLine, Chained, Members
  <2>3. line[i - 1] \in Tasks
    BY <2>1
  <2>4. after[t] # NoTask /\ phase[after[t]] # "over"
    BY <2>2, <2>3, NoTaskIsNoTask DEF Live
  <2> QED BY <2>4 DEF Ready
<1> QED BY <1>2, <1>3

LEMMA RunningIsReady ==
    ASSUME ExecutorInv, NEW t \in Tasks, phase[t] = "running"
    PROVE  Ready(t)
<1>1. key[t] \in Keys
  BY DEF ExecutorInv, ExecutorTypeOK, Live
<1>2. PICK line \in Seq(Tasks) : InLine(key[t], line)
  BY <1>1 DEF ExecutorInv
<1>3. PICK i \in 1 .. Len(line) : line[i] = t
  BY <1>2 DEF InLine, Members, Live
<1>4. i = 1
  BY <1>2, <1>3 DEF InLine, Chained
<1> QED BY <1>2, <1>3, <1>4 DEF InLine, Chained

\* A line whose members a step leaves alone stays a line.
LEMMA LineIsKept ==
    ASSUME ExecutorTypeOK, NEW k \in Keys, NEW line \in Seq(Tasks), InLine(k, line),
           NEW t \in Tasks,
           \A u \in Tasks \ {t} : /\ phase'[u] = phase[u]
                                  /\ key'[u] = key[u]
                                  /\ after'[u] = after[u],
           Live(t) => key[t] # k, Live(t)' => key'[t] # k,
           phase[t] = "over" => phase'[t] = "over",
           tails'[k] = tails[k]
    PROVE  InLine(k, line)'
<1>1. \A i \in 1 .. Len(line) : line[i] \in Tasks \ {t}
  BY DEF InLine, Members
<1>2. Members(k, line)'
  BY <1>1 DEF InLine, Members, Live
<1>3. Chained(line)'
  <2>1. ASSUME Len(line) > 0 PROVE Ready(line[1])'
    <3>1. line[1] \in Tasks \ {t}
      BY <1>1, <2>1
    <3>2. after'[line[1]] = after[line[1]]
      BY <3>1
    <3>3. after[line[1]] \in Tasks \union {NoTask}
      BY <3>1 DEF ExecutorTypeOK
    <3>4. after[line[1]] = NoTask \/ phase[after[line[1]]] = "over"
      BY <2>1 DEF InLine, Chained, Ready
    <3>5. CASE after[line[1]] = NoTask
      BY <3>2, <3>5 DEF Ready
    <3>6. CASE after[line[1]] \in Tasks /\ phase[after[line[1]]] = "over"
      <4>1. phase'[after[line[1]]] = "over"
        BY <3>6
      <4> QED BY <3>2, <4>1 DEF Ready
    <3> QED BY <3>3, <3>4, <3>5, <3>6
  <2>2. ASSUME NEW i \in 2 .. Len(line)
        PROVE  after'[line[i]] = line[i - 1] /\ phase'[line[i]] = "waiting"
    <3>1. i \in 1 .. Len(line)
      OBVIOUS
    <3> QED BY <1>1, <2>2, <3>1 DEF InLine, Chained
  <2> QED BY <2>1, <2>2 DEF Chained
<1>4. Tailed(k, line)'
  BY DEF InLine, Tailed
<1> QED BY <1>2, <1>3, <1>4 DEF InLine

-----------------------------------------------------------------------------
LEMMA ExecutorInitInv == ExecutorInit => ExecutorInv
<1> SUFFICES ASSUME ExecutorInit PROVE ExecutorInv
  OBVIOUS
<1>1. ExecutorTypeOK
  BY DEF ExecutorInit, ExecutorTypeOK, Live
<1>2. ASSUME NEW k \in Keys PROVE InLine(k, << >>)
  BY <1>2 DEF ExecutorInit, InLine, Members, Chained, Tailed, Live
<1>3. << >> \in Seq(Tasks)
  OBVIOUS
<1> QED BY <1>1, <1>2, <1>3 DEF ExecutorInv

LEMMA RunKeepsInv ==
    ASSUME ExecutorInv, NEW t \in Tasks, NEW k \in Keys, Run(t, k)
    PROVE  ExecutorInv'
<1> USE DEF ExecutorInv
<1>1. ExecutorTypeOK'
  BY NoTaskIsNoTask DEF ExecutorTypeOK, Run, AtOnce, Live
<1>2. \A u \in Tasks \ {t} : phase'[u] = phase[u] /\ key'[u] = key[u] /\ after'[u] = after[u]
  BY DEF Run, ExecutorTypeOK
<1>3. /\ phase[t] = "none" /\ key'[t] = k /\ after'[t] = tails[k] /\ tails'[k] = t
      /\ phase'[t] = IF tails[k] = NoTask THEN "running" ELSE "waiting"
  BY DEF Run, AtOnce, ExecutorTypeOK
<1>4. ASSUME NEW j \in Keys, j # k
      PROVE  \E line \in Seq(Tasks) : InLine(j, line)'
  <2>1. PICK line \in Seq(Tasks) : InLine(j, line)
    BY <1>4
  <2>2. tails'[j] = tails[j]
    BY <1>4 DEF Run, ExecutorTypeOK
  <2>3. Live(t) => key[t] # j
    BY <1>3 DEF Live
  <2>4. Live(t)' => key'[t] # j
    BY <1>3, <1>4
  <2>5. phase[t] = "over" => phase'[t] = "over"
    BY <1>3
  <2>6. InLine(j, line)'
    BY <1>2, <2>1, <2>2, <2>3, <2>4, <2>5, LineIsKept
  <2> QED BY <2>6
<1>5. \E line \in Seq(Tasks) : InLine(k, line)'
  <2>1. PICK line \in Seq(Tasks) : InLine(k, line)
    OBVIOUS
  <2> DEFINE longer == Append(line, t)
  <2>2. /\ longer \in Seq(Tasks) /\ Len(longer) = Len(line) + 1 /\ Len(line) \in Nat
        /\ longer[Len(line) + 1] = t
        /\ \A i \in 1 .. Len(line) : longer[i] = line[i] /\ line[i] \in Tasks
    OBVIOUS
  <2>3. \A i \in 1 .. Len(line) : line[i] # t
    BY <1>3, <2>1 DEF InLine, Members, Live
  <2> HIDE DEF longer
  <2>4. Live(t)'
    BY <1>3 DEF Live
  <2>5. Members(k, longer)'
    <3>1. \A i \in 1 .. Len(longer) : Live(longer[i])' /\ key'[longer[i]] = k
      BY <1>2, <1>3, <2>1, <2>2, <2>3, <2>4 DEF InLine, Members, Live
    <3>2. ASSUME NEW u \in Tasks, Live(u)', key'[u] = k
          PROVE  \E i \in 1 .. Len(longer) : longer[i] = u
      <4>1. CASE u = t
        BY <2>2, <4>1
      <4>2. CASE u # t
        <5>1. Live(u) /\ key[u] = k
          BY <1>2, <3>2, <4>2 DEF Live
        <5>2. PICK i \in 1 .. Len(line) : line[i] = u
          BY <2>1, <5>1 DEF InLine, Members
        <5> QED BY <2>2, <5>2
      <4> QED BY <4>1, <4>2
    <3>3. \A i, j \in 1 .. Len(longer) : longer[i] = longer[j] => i = j
      BY <2>1, <2>2, <2>3 DEF InLine, Members
    <3> QED BY <3>1, <3>2, <3>3 DEF Members
  <2>6. Chained(longer)'
    <3>1. CASE Len(line) = 0
      <4>1. tails[k] = NoTask
        BY <2>1, <3>1 DEF InLine, Tailed
      <4>2. longer[1] = t /\ 2 .. Len(longer) = {}
        BY <2>2, <3>1
      <4> QED BY <1>3, <4>1, <4>2 DEF Chained, Ready
    <3>2. CASE Len(line) > 0
      <4>1. tails[k] = line[Len(line)] /\ tails[k] # NoTask
        BY <2>1, <2>2, <3>2, NoTaskIsNoTask DEF InLine, Tailed
      <4>2. longer[1] = line[1] /\ line[1] \in Tasks \ {t}
        BY <2>2, <2>3, <3>2
      <4>3. Ready(longer[1])'
        <5>1. Ready(line[1])
          BY <2>1, <3>2 DEF InLine, Chained
        <5>2. after'[line[1]] = after[line[1]]
          BY <1>2, <4>2
        <5>3. after[line[1]] = NoTask \/ after[line[1]] \in Tasks \ {t}
          BY <1>3, <4>2, <5>1 DEF Ready, ExecutorTypeOK
        <5>4. after[line[1]] = NoTask \/ phase'[after[line[1]]] = "over"
          BY <1>2, <5>1, <5>3 DEF Ready
        <5> QED BY <4>2, <5>2, <5>4 DEF Ready
      <4>4. ASSUME NEW i \in 2 .. Len(longer)
            PROVE  after'[longer[i]] = longer[i - 1] /\ phase'[longer[i]] = "waiting"
        <5>1. CASE i = Len(line) + 1
          BY <1>3, <2>2, <3>2, <4>1, <5>1
        <5>2. CASE i # Len(line) + 1
          <6>1. i \in 2 .. Len(line) /\ i \in 1 .. Len(line) /\ i - 1 \in 1 .. Len(line)
            BY <2>2, <5>2
          <6>2. after[line[i]] = line[i - 1] /\ phase[line[i]] = "waiting"
            BY <2>1, <6>1 DEF InLine, Chained
          <6> QED BY <1>2, <2>2, <2>3, <6>1, <6>2
        <5> QED BY <5>1, <5>2
      <4> QED BY <4>3, <4>4 DEF Chained
    <3> QED BY <2>2, <3>1, <3>2
  <2>7. Tailed(k, longer)'
    BY <1>3, <2>2 DEF Tailed
  <2> QED BY <2>2, <2>5, <2>6, <2>7 DEF InLine
<1> QED BY <1>1, <1>4, <1>5

LEMMA WorkBeginsKeepsInv ==
    ASSUME ExecutorInv, NEW t \in Tasks, WorkBegins(t)
    PROVE  ExecutorInv'
<1> USE DEF ExecutorInv
<1>1. phase[t] = "waiting" /\ phase'[t] = "running" /\ UNCHANGED <<tails, key, after>>
  BY DEF WorkBegins, ExecutorTypeOK
<1>2. \A u \in Tasks \ {t} : phase'[u] = phase[u]
  BY DEF WorkBegins, ExecutorTypeOK
<1>3. ExecutorTypeOK'
  BY <1>1, <1>2 DEF ExecutorTypeOK, WorkBegins, Live
<1>4. ASSUME NEW k \in Keys
      PROVE  \E line \in Seq(Tasks) : InLine(k, line)'
  <2>1. PICK line \in Seq(Tasks) : InLine(k, line)
    OBVIOUS
  <2>2. CASE key[t] # k
    <3>1. InLine(k, line)'
      BY <1>1, <1>2, <2>1, <2>2, LineIsKept
    <3> QED BY <3>1
  <2>3. CASE key[t] = k
    <3>1. Live(t) /\ Ready(t)
      BY <1>1 DEF WorkBegins, Live, Ready
    <3>2. Len(line) > 0 /\ line[1] = t
      BY <2>1, <2>3, <3>1, RunningIsFirst
    <3>3. \A i \in 1 .. Len(line) : line[i] \in Tasks
      OBVIOUS
    <3>4. \A i \in 2 .. Len(line) : i \in 1 .. Len(line) /\ line[i] \in Tasks \ {t}
      <4>1. \A i \in 2 .. Len(line) : i \in 1 .. Len(line) /\ i # 1 /\ 1 \in 1 .. Len(line)
        BY <3>2
      <4> QED BY <2>1, <3>2, <3>3, <4>1 DEF InLine, Members
    <3>5. Members(k, line)'
      BY <1>1, <1>2, <2>1, <3>3 DEF InLine, Members, Live
    <3>6. Ready(line[1])'
      <4>1. after[t] = NoTask \/ (after[t] \in Tasks /\ phase[after[t]] = "over")
        BY <3>1 DEF Ready, ExecutorTypeOK
      <4>2. after[t] = NoTask \/ phase'[after[t]] = "over"
        BY <1>1, <1>2, <4>1
      <4> QED BY <1>1, <3>2, <4>2 DEF Ready
    <3>7. Chained(line)'
      BY <1>1, <1>2, <2>1, <3>4, <3>6 DEF InLine, Chained
    <3>8. Tailed(k, line)'
      BY <1>1, <2>1 DEF InLine, Tailed
    <3> QED BY <3>5, <3>7, <3>8 DEF InLine
  <2> QED BY <2>2, <2>3
<1> QED BY <1>3, <1>4

LEMMA WorkEndsKeepsInv ==
    ASSUME ExecutorInv, NEW t \in Tasks, WorkEnds(t)
    PROVE  ExecutorInv'
<1> USE DEF ExecutorInv
<1>1. phase[t] = "running" /\ phase'[t] = "over" /\ UNCHANGED <<key, after>>
  BY DEF WorkEnds, ExecutorTypeOK
<1>2. \A u \in Tasks \ {t} : phase'[u] = phase[u]
  BY DEF WorkEnds, ExecutorTypeOK
<1>3. key[t] \in Keys /\ Live(t) /\ ~Live(t)'
  BY <1>1 DEF ExecutorTypeOK, Live
<1>4. /\ \A k \in Keys \ {key[t]} : tails'[k] = tails[k]
      /\ tails'[key[t]] = IF tails[key[t]] = t THEN NoTask ELSE tails[key[t]]
  BY <1>3 DEF WorkEnds, TailsWithout, ExecutorTypeOK
<1>5. ExecutorTypeOK'
  BY <1>1, <1>2 DEF ExecutorTypeOK, WorkEnds, TailsWithout, Live
<1>6. ASSUME NEW k \in Keys, k # key[t]
      PROVE  \E line \in Seq(Tasks) : InLine(k, line)'
  <2>1. PICK line \in Seq(Tasks) : InLine(k, line)
    OBVIOUS
  <2>2. tails'[k] = tails[k]
    BY <1>4, <1>6
  <2>3. InLine(k, line)'
    BY <1>1, <1>2, <1>3, <1>6, <2>1, <2>2, LineIsKept
  <2> QED BY <2>3
<1>7. ASSUME NEW k \in Keys, k = key[t]
      PROVE  \E line \in Seq(Tasks) : InLine(k, line)'
  <2>1. PICK line \in Seq(Tasks) : InLine(k, line)
    OBVIOUS
  <2>2. Len(line) > 0 /\ line[1] = t
    BY <1>1, <1>3, <1>7, <2>1, RunningIsFirst, RunningIsReady
  <2> DEFINE rest == Tail(line)
  <2>3. /\ rest \in Seq(Tasks) /\ Len(rest) = Len(line) - 1 /\ Len(line) \in Nat
        /\ \A i \in 1 .. Len(rest) : rest[i] = line[i + 1] /\ i + 1 \in 2 .. Len(line)
    BY <2>2
  <2>4. \A i \in 1 .. Len(line) : line[i] \in Tasks
    OBVIOUS
  <2>5. \A i \in 2 .. Len(line) : i \in 1 .. Len(line) /\ line[i] \in Tasks \ {t}
    <3>1. \A i \in 2 .. Len(line) : i \in 1 .. Len(line) /\ i # 1 /\ 1 \in 1 .. Len(line)
      BY <2>2
    <3> QED BY <2>1, <2>2, <2>4, <3>1 DEF InLine, Members
  <2> HIDE DEF rest
  <2>6. Members(k, rest)'
    <3>1. ASSUME NEW i \in 1 .. Len(rest)
          PROVE  Live(rest[i])' /\ key'[rest[i]] = k
      <4>1. /\ rest[i] = line[i + 1] /\ i + 1 \in 1 .. Len(line)
            /\ rest[i] \in Tasks \ {t}
        BY <2>3, <2>5
      <4>2. Live(rest[i]) /\ key[rest[i]] = k
        BY <2>1, <4>1 DEF InLine, Members
      <4> QED BY <1>1, <1>2, <4>1, <4>2 DEF Live
    <3>2. ASSUME NEW u \in Tasks, Live(u)', key'[u] = k
          PROVE  \E i \in 1 .. Len(rest) : rest[i] = u
      <4>1. u # t /\ Live(u) /\ key[u] = k
        BY <1>1, <1>2, <1>3, <3>2 DEF Live
      <4>2. PICK i \in 1 .. Len(line) : line[i] = u
        BY <2>1, <4>1 DEF InLine, Members
      <4>3. i # 1 /\ i - 1 \in 1 .. Len(rest) /\ (i - 1) + 1 = i
        BY <2>2, <2>3, <4>1, <4>2
      <4>4. rest[i - 1] = u
        BY <2>3, <4>2, <4>3
      <4> QED BY <4>3, <4>4
    <3>3. \A i, j \in 1 .. Len(rest) : rest[i] = rest[j] => i = j
      <4>1. ASSUME NEW i \in 1 .. Len(rest), NEW j \in 1 .. Len(rest), rest[i] = rest[j]
            PROVE  i = j
        <5>1. i + 1 \in 1 .. Len(line) /\ j + 1 \in 1 .. Len(line) /\ line[i + 1] = line[j + 1]
          BY <2>3, <2>5, <4>1
        <5>2. i + 1 = j + 1
          BY <2>1, <5>1 DEF InLine, Members
        <5> QED BY <5>2
      <4> QED BY <4>1
    <3> QED BY <1>1, <3>1, <3>2, <3>3 DEF Members
  <2>7. Chained(rest)'
    <3>1. ASSUME Len(rest) > 0 PROVE Ready(rest[1])'
      <4>1. 2 \in 2 .. Len(line) /\ rest[1] = line[2]
        BY <2>3, <3>1
      <4>2. after[line[2]] = line[2 - 1] /\ line[2 - 1] = t
        BY <2>1, <2>2, <4>1 DEF InLine, Chained
      <4> QED BY <1>1, <4>1, <4>2 DEF Ready
    <3>2. ASSUME NEW i \in 2 .. Len(rest)
          PROVE  after'[rest[i]] = rest[i - 1] /\ phase'[rest[i]] = "waiting"
      <4>1. /\ i + 1 \in 2 .. Len(line) /\ (i + 1) - 1 = i
            /\ rest[i] = line[i + 1] /\ rest[i - 1] = line[i]
        BY <2>3, <3>2
      <4>2. after[line[i + 1]] = line[i] /\ phase[line[i + 1]] = "waiting"
        BY <2>1, <4>1 DEF InLine, Chained
      <4> QED BY <1>1, <1>2, <2>5, <4>1, <4>2
    <3> QED BY <3>1, <3>2 DEF Chained
  <2>8. Tailed(k, rest)'
    <3>1. tails[k] = line[Len(line)]
      BY <2>1, <2>2 DEF InLine, Tailed
    <3>2. CASE Len(line) = 1
      BY <1>4, <1>7, <2>2, <2>3, <3>1, <3>2 DEF Tailed
    <3>3. CASE Len(line) > 1
      <4>1. Len(line) \in 2 .. Len(line)
        BY <2>3, <3>3
      <4>2. line[Len(line)] # t /\ rest[Len(rest)] = line[Len(line)] /\ Len(rest) # 0
        BY <2>3, <2>5, <3>3, <4>1
      <4> QED BY <1>4, <1>7, <3>1, <4>2 DEF Tailed
    <3> QED BY <2>2, <2>3, <3>2, <3>3
  <2> QED BY <2>3, <2>6, <2>7, <2>8 DEF InLine
<1> QED BY <1>5, <1>6, <1>7

LEMMA ExecutorStutterKeepsInv == ExecutorInv /\ UNCHANGED executorVars => ExecutorInv'
<1> SUFFICES ASSUME ExecutorInv, UNCHANGED executorVars PROVE ExecutorInv'
  OBVIOUS
<1>1. ExecutorTypeOK'
  BY DEF executorVars, ExecutorInv, ExecutorTypeOK, Live
<1>2. ASSUME NEW k \in Keys PROVE \E line \in Seq(Tasks) : InLine(k, line)'
  <2>1. PICK line \in Seq(Tasks) : InLine(k, line)
    BY DEF ExecutorInv
  <2>2. InLine(k, line)'
    BY <2>1 DEF executorVars, InLine, Members, Chained, Tailed, Live, Ready
  <2> QED BY <2>2
<1> QED BY <1>1, <1>2 DEF ExecutorInv

-----------------------------------------------------------------------------
LEMMA InvExcludes == ExecutorInv => OneAtATime
<1> SUFFICES ASSUME ExecutorInv, NEW t \in Tasks, NEW u \in Tasks,
                    phase[t] = "running", phase[u] = "running", key[t] = key[u]
             PROVE  t = u
  BY DEF OneAtATime
<1>1. key[t] \in Keys /\ Live(t) /\ Live(u)
  BY DEF ExecutorInv, ExecutorTypeOK, Live
<1>2. PICK line \in Seq(Tasks) : InLine(key[t], line)
  BY <1>1 DEF ExecutorInv
<1>3. ExecutorTypeOK /\ Ready(t) /\ Ready(u)
  BY RunningIsReady DEF ExecutorInv
<1>4. line[1] = t
  BY <1>1, <1>2, <1>3, RunningIsFirst
<1>5. line[1] = u
  BY <1>1, <1>2, <1>3, RunningIsFirst
<1> QED BY <1>4, <1>5

LEMMA InvKeepsKeys == ExecutorInv => BusyKeysHaveWork
<1> SUFFICES ASSUME ExecutorInv, NEW k \in Keys
             PROVE  tails[k] # NoTask <=> \E t \in Tasks : Live(t) /\ key[t] = k
  BY DEF BusyKeysHaveWork, ActiveKeys
<1>1. PICK line \in Seq(Tasks) : InLine(k, line)
  BY DEF ExecutorInv
<1>2. CASE Len(line) = 0
  BY <1>1, <1>2 DEF InLine, Tailed, Members
<1>3. CASE Len(line) > 0
  <2>1. Len(line) \in 1 .. Len(line) /\ line[Len(line)] \in Tasks
    BY <1>3
  <2> QED BY <1>1, <1>3, <2>1, NoTaskIsNoTask DEF InLine, Tailed, Members
<1> QED BY <1>2, <1>3

\* The inductive invariant of the executor, for any calls and keys.
THEOREM ExecutorIsALine == ExecutorSpec => []ExecutorInv
<1>1. ExecutorInv /\ [ExecutorNext]_executorVars => ExecutorInv'
  BY RunKeepsInv, WorkBeginsKeepsInv, WorkEndsKeepsInv, ExecutorStutterKeepsInv
     DEF ExecutorNext
<1> QED BY <1>1, ExecutorInitInv, PTL DEF ExecutorSpec

\* Work under one key never overlaps, whoever calls run and however the work
\* ends (SerialExecutor.run).
THEOREM ExecutorExcludes == ExecutorSpec => []OneAtATime
BY ExecutorIsALine, InvExcludes, PTL

\* The map of tails holds exactly the keys with work: it does not leak, and
\* whenIdle does not return early (SerialExecutor.run, whenIdle).
THEOREM ExecutorForgetsIdleKeys == ExecutorSpec => []BusyKeysHaveWork
BY ExecutorIsALine, InvKeepsKeys, PTL

-----------------------------------------------------------------------------
(* The chains of promises are queues.                                      *)

\* Who is not in a line waits for nobody.
OthersReady == \A t \in Tasks : ~Live(t) => Ready(t)

QueueInv == ExecutorInv /\ OthersReady

LEMMA QueueInvInit == ExecutorInit => QueueInv
BY ExecutorInitInv DEF ExecutorInit, QueueInv, OthersReady, Ready

\* Work that is over stays over, and nobody is chained anew to another call.
LEMMA ReadyStaysReady ==
    ASSUME QueueInv, NEW u \in Tasks, Ready(u), after'[u] = after[u],
           \A t \in Tasks : phase[t] = "over" => phase'[t] = "over"
    PROVE  Ready(u)'
<1>1. after[u] \in Tasks \union {NoTask}
  BY DEF QueueInv, ExecutorInv, ExecutorTypeOK
<1> QED BY <1>1 DEF Ready

LEMMA QueueInvStep == QueueInv /\ [ExecutorNext]_executorVars => QueueInv'
<1> SUFFICES ASSUME QueueInv, [ExecutorNext]_executorVars PROVE QueueInv'
  OBVIOUS
<1>1. ExecutorInv'
  <2>1. ExecutorInv
    BY DEF QueueInv
  <2> QED BY <2>1, RunKeepsInv, WorkBeginsKeepsInv, WorkEndsKeepsInv, ExecutorStutterKeepsInv
          DEF ExecutorNext
<1>2. ASSUME NEW t \in Tasks, NEW k \in Keys, Run(t, k)
      PROVE  OthersReady'
  <2>1. ASSUME NEW u \in Tasks, ~Live(u)', u # t
        PROVE  Ready(u)'
    BY <1>2, <2>1, ReadyStaysReady
       DEF Run, QueueInv, OthersReady, ExecutorInv, ExecutorTypeOK, Live
  <2>2. Live(t)'
    BY <1>2 DEF Run, Live, QueueInv, ExecutorInv, ExecutorTypeOK
  <2> QED BY <2>1, <2>2 DEF OthersReady
<1>3. ASSUME NEW t \in Tasks, WorkBegins(t) \/ WorkEnds(t)
      PROVE  OthersReady'
  <2>1. /\ \A u \in Tasks : after'[u] = after[u]
        /\ \A u \in Tasks : phase[u] = "over" => phase'[u] = "over"
    BY <1>3 DEF WorkBegins, WorkEnds, QueueInv, ExecutorInv, ExecutorTypeOK
  <2>2. ASSUME NEW u \in Tasks, ~Live(u)'
        PROVE  Ready(u)
    <3>1. CASE ~Live(u)
      BY <3>1 DEF QueueInv, OthersReady
    <3>2. CASE Live(u)
      <4>1. phase[u] = "running"
        BY <1>3, <2>2, <3>2
           DEF WorkBegins, WorkEnds, Live, QueueInv, ExecutorInv, ExecutorTypeOK
      <4> QED BY <4>1, RunningIsReady DEF QueueInv
    <3> QED BY <3>1, <3>2
  <2> QED BY <2>1, <2>2, ReadyStaysReady DEF OthersReady
<1>4. ASSUME UNCHANGED executorVars
      PROVE  OthersReady'
  BY <1>4 DEF QueueInv, OthersReady, Ready, Live, executorVars
<1>5. OthersReady'
  BY <1>2, <1>3, <1>4 DEF ExecutorNext
<1> QED BY <1>1, <1>5 DEF QueueInv

\* Induction, for sets: the library's theorems take a predicate, which the
\* provers at hand cannot instantiate.
LEMMA SetInduction ==
    ASSUME NEW N \in SUBSET Nat, 0 \in N, \A n \in N : n + 1 \in N
    PROVE  N = Nat
<1>1. SUFFICES ASSUME Nat \ N # {} PROVE FALSE
  OBVIOUS
<1>2. ASSUME NEW R, IsWellFoundedOn(R, Nat), \A x, y \in Nat : y < x => <<y, x>> \in R
      PROVE  \E x \in Nat \ N : \A y \in Nat \ N : ~ (y < x)
  <2>1. PICK x \in Nat \ N : \A y \in Nat \ N : ~ (<<y, x>> \in R)
    BY <1>1, <1>2, WFMin
  <2> QED BY <1>2, <2>1
<1>3. IsWellFoundedOn(OpToRel(<, Nat), Nat)
  BY NatLessThanWellFounded, Zenon
<1>4. \A x, y \in Nat : y < x => <<y, x>> \in OpToRel(<, Nat)
  BY Zenon DEF OpToRel
<1>5. PICK x \in Nat \ N : \A y \in Nat \ N : ~ (y < x)
  BY <1>2, <1>3, <1>4, Zenon
<1>6. x # 0 /\ x - 1 \in Nat /\ x - 1 < x
  BY <1>5
<1>7. x - 1 \in N
  BY <1>5, <1>6
<1>8. (x - 1) + 1 \in N
  BY <1>7
<1> QED BY <1>5, <1>8

\* What a walk along a line collects.
LEMMA WalkAlongALine ==
    ASSUME NEW line \in Seq(Tasks), NEW P, Len(line) > 0 => P[line[1]] = {},
           \A i \in 2 .. Len(line) : P[line[i]] = {line[i - 1]} \union P[line[i - 1]]
    PROVE  \A i \in 1 .. Len(line) : P[line[i]] = {line[j] : j \in 1 .. i - 1}
<1> DEFINE Known(n) == n + 1 <= Len(line) => P[line[n + 1]] = {line[j] : j \in 1 .. n}
           N == {n \in Nat : Known(n)}
<1>1. 0 \in N
  BY DEF N
<1>2. ASSUME NEW n \in N PROVE n + 1 \in N
  <2>1. SUFFICES ASSUME n + 2 <= Len(line)
                 PROVE  P[line[n + 2]] = {line[j] : j \in 1 .. n + 1}
    <3>1. n \in Nat /\ (n + 1) + 1 = n + 2
      OBVIOUS
    <3>2. Known(n + 1)
      BY <3>1
    <3> HIDE DEF Known
    <3> QED BY <3>1, <3>2
  <2>2. P[line[n + 1]] = {line[j] : j \in 1 .. n}
    BY <2>1
  <2>3. P[line[n + 2]] = {line[n + 1]} \union P[line[n + 1]]
    <3>1. n + 2 \in 2 .. Len(line) /\ (n + 2) - 1 = n + 1
      BY <2>1
    <3> QED BY <3>1
  <2>4. 1 .. n + 1 = 1 .. n \union {n + 1}
    OBVIOUS
  <2> QED BY <2>2, <2>3, <2>4
<1>3. N = Nat
  <2> HIDE DEF N
  <2>1. N \subseteq Nat
    BY DEF N
  <2> QED BY <1>1, <1>2, <2>1, SetInduction
<1>4. ASSUME NEW i \in 1 .. Len(line) PROVE P[line[i]] = {line[j] : j \in 1 .. i - 1}
  <2>1. i - 1 \in Nat /\ (i - 1) + 1 = i
    OBVIOUS
  <2>2. i - 1 \in N
    <3> HIDE DEF N
    <3> QED BY <1>3, <2>1
  <2> QED BY <2>1, <2>2
<1> QED BY <1>4

Ahead == [t \in Tasks |-> Predecessors(t)]

\* The recursion of Predecessors ends: at the first of the line.
WalksEnd ==
    \A t \in Tasks :
      /\ Ready(t) => Ahead[t] = {}
      /\ ~Ready(t) => after[t] \in Tasks /\ Ahead[t] = {after[t]} \union Ahead[after[t]]

LEMMA PredecessorsUnfold == QueueInv => WalksEnd
<1> SUFFICES ASSUME QueueInv PROVE WalksEnd
  OBVIOUS
<1> DEFINE LineOf(k) == CHOOSE line \in Seq(Tasks) : InLine(k, line)
           Place(t) == CHOOSE i \in 1 .. Len(LineOf(key[t])) : LineOf(key[t])[i] = t
           Before(t) == {LineOf(key[t])[j] : j \in 1 .. Place(t) - 1}
           f == [t \in Tasks |-> IF Ready(t) THEN {} ELSE Before(t)]
           IsChain(c) == c = [u \in Tasks |-> IF Ready(u) THEN {} ELSE {after[u]} \union c[after[u]]]
           chain == CHOOSE c : IsChain(c)
<1>1. ASSUME NEW k \in Keys PROVE LineOf(k) \in Seq(Tasks) /\ InLine(k, LineOf(k))
  BY DEF QueueInv, ExecutorInv
<1>2. ASSUME NEW t \in Tasks, Live(t)
      PROVE  /\ key[t] \in Keys
             /\ Place(t) \in 1 .. Len(LineOf(key[t]))
             /\ LineOf(key[t])[Place(t)] = t
  <2>1. key[t] \in Keys
    BY <1>2 DEF QueueInv, ExecutorInv, ExecutorTypeOK
  <2>2. \E i \in 1 .. Len(LineOf(key[t])) : LineOf(key[t])[i] = t
    BY <1>1, <1>2, <2>1 DEF InLine, Members
  <2> QED BY <2>1, <2>2
<1>3. ASSUME NEW t \in Tasks, ~Ready(t)
      PROVE  f[t] = {after[t]} \union f[after[t]]
  <2>1. Live(t)
    BY <1>3 DEF QueueInv, OthersReady
  <2> DEFINE k == key[t]
             line == LineOf(k)
             i == Place(t)
             u == line[i - 1]
  <2>2. /\ k \in Keys /\ i \in 1 .. Len(line) /\ line[i] = t
        /\ line \in Seq(Tasks) /\ InLine(k, line)
    BY <1>1, <1>2, <2>1
  <2>3. f[t] = {line[j] : j \in 1 .. i - 1}
    BY <1>3
  <2>4. Len(line) \in Nat /\ \A j \in 1 .. Len(line) : line[j] \in Tasks
    <3> HIDE DEF line, i, k
    <3> QED BY <2>2
  <2> HIDE DEF line, i, k
  <2>5. i # 1
    BY <1>3, <2>2, <2>4 DEF InLine, Chained
  <2>6. i \in 2 .. Len(line) /\ i - 1 \in 1 .. Len(line)
    BY <2>2, <2>5, <2>4
  <2>7. after[t] = u /\ u \in Tasks /\ Live(u) /\ key[u] = k
    BY <2>2, <2>6, <2>4 DEF InLine, Chained, Members
  <2> USE DEF line, i, k
  <2>8. Place(u) = i - 1
    <3>1. Place(u) \in 1 .. Len(LineOf(k)) /\ LineOf(k)[Place(u)] = u
      <4> HIDE DEF Place, LineOf, u
      <4> QED BY <1>2, <2>7
    <3> HIDE DEF Place, LineOf
    <3> QED BY <2>2, <2>6, <3>1 DEF InLine, Members
  <2>9. f[u] = IF Ready(u) THEN {} ELSE {line[j] : j \in 1 .. (i - 1) - 1}
    <3>1. Before(u) = {LineOf(key[u])[j] : j \in 1 .. Place(u) - 1}
      OBVIOUS
    <3> HIDE DEF Place, LineOf, u, Before
    <3> QED BY <2>7, <2>8, <3>1
  <2> HIDE DEF f, i, line, k, u
  <2>10. f[u] = {line[j] : j \in 1 .. i - 2}
    <3>1. CASE Ready(u)
      <4>1. line[1] = u
        BY <2>2, <2>7, <3>1, RunningIsFirst DEF QueueInv, ExecutorInv
      <4>2. 1 = i - 1
        BY <2>2, <2>6, <4>1 DEF InLine, Members, u
      <4>3. 1 .. i - 2 = {}
        BY <4>2
      <4> QED BY <2>9, <3>1, <4>3
    <3>2. CASE ~Ready(u)
      BY <2>2, <2>9, <3>2
    <3> QED BY <3>1, <3>2
  <2>11. 1 .. i - 1 = 1 .. i - 2 \union {i - 1}
    BY <2>6
  <2> QED BY <2>3, <2>7, <2>10, <2>11 DEF u
<1>4. IsChain(f)
  <2>1. \A t \in Tasks : Ready(t) => f[t] = {}
    OBVIOUS
  <2>2. f = [t \in Tasks |-> f[t]]
    OBVIOUS
  <2> HIDE DEF f
  <2> QED BY <1>3, <2>1, <2>2
<1>5. IsChain(chain)
  <2> HIDE DEF f, IsChain
  <2> QED BY <1>4
<1>6. ASSUME NEW t PROVE Predecessors(t) = chain[t]
  BY Zenon DEF Predecessors
<1> HIDE DEF chain
<1>7. ASSUME NEW t \in Tasks
      PROVE  chain[t] = IF Ready(t) THEN {} ELSE {after[t]} \union chain[after[t]]
  BY <1>5
<1>8. \A t \in Tasks : Ahead[t] = chain[t]
  BY <1>6 DEF Ahead
<1>9. ASSUME NEW t \in Tasks, ~Ready(t)
      PROVE  after[t] \in Tasks
  BY <1>9 DEF QueueInv, ExecutorInv, ExecutorTypeOK, Ready
<1> HIDE DEF f, IsChain
<1> QED BY <1>7, <1>8, <1>9 DEF WalksEnd

\* Whom a call waits for are those before it in its line.
LEMMA AheadInLine ==
    ASSUME QueueInv, NEW k \in Keys, NEW line \in Seq(Tasks), InLine(k, line)
    PROVE  \A i \in 1 .. Len(line) : Ahead[line[i]] = {line[j] : j \in 1 .. i - 1}
<1>1. /\ Len(line) \in Nat /\ \A i \in 1 .. Len(line) : line[i] \in Tasks
      /\ \A i \in 2 .. Len(line) : i \in 1 .. Len(line) /\ i - 1 \in 1 .. Len(line)
  OBVIOUS
<1>2. WalksEnd
  BY PredecessorsUnfold
<1>3. Len(line) > 0 => Ahead[line[1]] = {}
  <2>1. Len(line) > 0 => line[1] \in Tasks /\ Ready(line[1])
    BY <1>1 DEF InLine, Chained
  <2> QED BY <1>2, <2>1 DEF WalksEnd
<1>4. ASSUME NEW i \in 2 .. Len(line)
      PROVE  Ahead[line[i]] = {line[i - 1]} \union Ahead[line[i - 1]]
  <2>1. /\ line[i] \in Tasks /\ line[i - 1] \in Tasks
        /\ after[line[i]] = line[i - 1] /\ Live(line[i - 1])
    BY <1>1 DEF InLine, Chained, Members
  <2>2. ~Ready(line[i])
    BY <2>1, NoTaskIsNoTask DEF Ready, Live
  <2> QED BY <1>2, <2>1, <2>2 DEF WalksEnd
<1> QED BY <1>3, <1>4, WalkAlongALine

LEMMA AheadUnfoldPrimed == QueueInv' => WalksEnd'
BY PredecessorsUnfold, PTL

\* Whoever is in a line that a step leaves alone still waits for the same calls.
LEMMA AheadUnchanged ==
    ASSUME QueueInv, QueueInv', NEW u \in Tasks,
           \A v \in Tasks : v = u \/ (Live(v) /\ key[v] = key[u]) =>
             after'[v] = after[v] /\ (Ready(v)' <=> Ready(v))
    PROVE  Ahead'[u] = Ahead[u]
<1>1. CASE ~Live(u)
  <2>1. Ready(u) /\ Ready(u)'
    BY <1>1 DEF QueueInv, OthersReady
  <2> QED BY <2>1, AheadUnfoldPrimed, PredecessorsUnfold DEF WalksEnd
<1>2. CASE Live(u)
  <2>1. key[u] \in Keys
    BY <1>2 DEF QueueInv, ExecutorInv, ExecutorTypeOK
  <2>2. PICK line \in Seq(Tasks) : InLine(key[u], line)
    BY <2>1 DEF QueueInv, ExecutorInv
  <2>3. PICK n \in 1 .. Len(line) : line[n] = u
    BY <1>2, <2>2 DEF InLine, Members
  <2>4. /\ Len(line) \in Nat /\ \A i \in 1 .. Len(line) : line[i] \in Tasks
        /\ \A i \in 2 .. Len(line) : i \in 1 .. Len(line) /\ i - 1 \in 1 .. Len(line)
    OBVIOUS
  <2>5. \A i \in 1 .. Len(line) : /\ after'[line[i]] = after[line[i]]
                                  /\ Ready(line[i])' <=> Ready(line[i])
    BY <2>2, <2>4 DEF InLine, Members
  <2>6. Len(line) > 0 => Ahead'[line[1]] = {}
    <3>1. Len(line) > 0 => line[1] \in Tasks /\ Ready(line[1])'
      BY <2>2, <2>4, <2>5 DEF InLine, Chained
    <3> QED BY <3>1, AheadUnfoldPrimed DEF WalksEnd
  <2>7. ASSUME NEW i \in 2 .. Len(line)
        PROVE  Ahead'[line[i]] = {line[i - 1]} \union Ahead'[line[i - 1]]
    <3>1. /\ line[i] \in Tasks /\ line[i - 1] \in Tasks
          /\ after[line[i]] = line[i - 1] /\ Live(line[i - 1])
      BY <2>2, <2>4 DEF InLine, Chained, Members
    <3>2. ~Ready(line[i])
      BY <3>1, NoTaskIsNoTask DEF Ready, Live
    <3>3. ~Ready(line[i])' /\ after'[line[i]] = line[i - 1]
      BY <2>4, <2>5, <3>1, <3>2
    <3> QED BY <3>1, <3>3, AheadUnfoldPrimed DEF WalksEnd
  <2>8. \A i \in 1 .. Len(line) : Ahead'[line[i]] = {line[j] : j \in 1 .. i - 1}
    BY <2>6, <2>7, WalkAlongALine
  <2>9. \A i \in 1 .. Len(line) : Ahead[line[i]] = {line[j] : j \in 1 .. i - 1}
    BY <2>1, <2>2, AheadInLine
  <2> QED BY <2>3, <2>8, <2>9
<1> QED BY <1>1, <1>2

LEMMA LaneIsLine ==
    ASSUME NEW k \in Keys, NEW line \in Seq(Tasks), InLine(k, line)
    PROVE  Queue!InLane(k) = {line[j] : j \in 1 .. Len(line)}
<1>1. \A i \in 1 .. Len(line) : line[i] \in Tasks
  OBVIOUS
<1> QED BY <1>1 DEF Queue!InLane, InLine, Members, Live

LEMMA RunJoins ==
    ASSUME QueueInv, QueueInv', NEW t \in Tasks, NEW k \in Keys, Run(t, k)
    PROVE  Queue!Join(t, k)
<1>1. /\ phase[t] = "none" /\ key'[t] = k /\ after'[t] = tails[k]
      /\ phase' = [phase EXCEPT ![t] = IF tails[k] = NoTask THEN "running" ELSE "waiting"]
      /\ key' = [key EXCEPT ![t] = k]
      /\ tails' = [tails EXCEPT ![k] = t]
      /\ \A u \in Tasks \ {t} : after'[u] = after[u] /\ phase'[u] = phase[u]
      /\ phase'[t] \in {"running", "waiting"}
      /\ ExecutorTypeOK
  BY DEF Run, AtOnce, QueueInv, ExecutorInv, ExecutorTypeOK
<1>2. PICK line \in Seq(Tasks) : InLine(k, line)
  BY DEF QueueInv, ExecutorInv
<1>3. /\ Len(line) \in Nat /\ \A i \in 1 .. Len(line) : line[i] \in Tasks
      /\ Queue!InLane(k) = {line[j] : j \in 1 .. Len(line)}
  BY <1>2, LaneIsLine
<1>4. \A u \in Tasks \ {t} : Ready(u)' <=> Ready(u)
  BY <1>1, NoTaskIsNoTask DEF Ready, ExecutorTypeOK
<1>5. ASSUME NEW u \in Tasks, u # t PROVE Ahead'[u] = Ahead[u]
  <2>1. \A v \in Tasks : v = u \/ (Live(v) /\ key[v] = key[u]) => v # t
    BY <1>1, <1>5 DEF Live
  <2> QED BY <1>1, <1>4, <2>1, AheadUnchanged
<1>6. Ahead'[t] = Queue!InLane(k)
  <2>1. CASE Len(line) = 0
    <3>1. tails[k] = NoTask
      BY <1>2, <2>1 DEF InLine, Tailed
    <3>2. Ahead'[t] = {}
      BY <1>1, <3>1, AheadUnfoldPrimed DEF WalksEnd, Ready
    <3> QED BY <1>3, <2>1, <3>2
  <2>2. CASE Len(line) > 0
    <3> DEFINE last == line[Len(line)]
    <3>1. tails[k] = last /\ last \in Tasks /\ Live(last)
      BY <1>2, <1>3, <2>2 DEF InLine, Tailed, Members
    <3>2. last # t /\ phase'[last] # "over" /\ tails[k] # NoTask
      BY <1>1, <3>1, NoTaskIsNoTask DEF Live
    <3>3. ~Ready(t)' /\ after'[t] = last
      BY <1>1, <3>1, <3>2 DEF Ready
    <3>4. Ahead'[t] = {last} \union Ahead'[last]
      BY <3>3, AheadUnfoldPrimed DEF WalksEnd
    <3>5. Ahead'[last] = Ahead[last]
      BY <1>5, <3>1, <3>2
    <3>6. Ahead[last] = {line[j] : j \in 1 .. Len(line) - 1}
      <4>1. Len(line) \in 1 .. Len(line)
        BY <1>3, <2>2
      <4>2. \A i \in 1 .. Len(line) : Ahead[line[i]] = {line[j] : j \in 1 .. i - 1}
        BY <1>2, AheadInLine
      <4> QED BY <4>1, <4>2
    <3>7. 1 .. Len(line) = 1 .. Len(line) - 1 \union {Len(line)}
      BY <1>3, <2>2
    <3> QED BY <1>3, <3>4, <3>5, <3>6, <3>7
  <2> QED BY <1>3, <2>1, <2>2
<1>7. Ahead' = [Ahead EXCEPT ![t] = Queue!InLane(k)]
  <2>1. Ahead = [u \in Tasks |-> Ahead[u]] /\ Ahead' = [u \in Tasks |-> Ahead'[u]]
    BY DEF Ahead
  <2> QED BY <1>5, <1>6, <2>1
<1>8. tails[k] = NoTask <=> Queue!InLane(k) = {}
  <2>1. tails[k] # NoTask <=> \E u \in Tasks : Live(u) /\ key[u] = k
    BY InvKeepsKeys DEF BusyKeysHaveWork, ActiveKeys, QueueInv
  <2> QED BY <2>1 DEF Queue!InLane, Live
<1>9. ActiveKeys' = ActiveKeys \union {k}
  BY <1>1, NoTaskIsNoTask DEF ActiveKeys, ExecutorTypeOK
<1>10. phase' = [phase EXCEPT ![t] = IF Queue!InLane(k) = {} THEN "running" ELSE "waiting"]
  BY <1>1, <1>8
<1> QED BY <1>1, <1>7, <1>9, <1>10 DEF Queue!Join, Ahead

LEMMA WorkBeginsEnters ==
    ASSUME QueueInv, QueueInv', NEW t \in Tasks, WorkBegins(t)
    PROVE  Queue!Enter(t)
<1>1. /\ phase[t] = "waiting" /\ phase' = [phase EXCEPT ![t] = "running"]
      /\ tails' = tails /\ key' = key /\ after' = after
      /\ Ready(t) /\ ExecutorTypeOK
  BY DEF WorkBegins, Ready, QueueInv, ExecutorInv
<1>2. Ahead[t] = {}
  BY <1>1, PredecessorsUnfold DEF WalksEnd
<1>3. \A u \in Tasks : Ready(u)' <=> Ready(u)
  BY <1>1, NoTaskIsNoTask DEF Ready, ExecutorTypeOK
<1>4. \A u \in Tasks : Ahead'[u] = Ahead[u]
  BY <1>1, <1>3, AheadUnchanged
<1>5. Ahead' = Ahead
  <2>1. Ahead = [u \in Tasks |-> Ahead[u]] /\ Ahead' = [u \in Tasks |-> Ahead'[u]]
    BY DEF Ahead
  <2> QED BY <1>4, <2>1
<1>6. ActiveKeys' = ActiveKeys
  BY <1>1 DEF ActiveKeys
<1> QED BY <1>1, <1>2, <1>5, <1>6 DEF Queue!Enter, Ahead

LEMMA WorkEndsLeaves ==
    ASSUME QueueInv, QueueInv', NEW t \in Tasks, WorkEnds(t)
    PROVE  Queue!Leave(t)
<1> DEFINE k == key[t]
<1>1. /\ phase[t] = "running" /\ phase' = [phase EXCEPT ![t] = "over"]
      /\ key' = key /\ after' = after
      /\ phase'[t] = "over" /\ \A u \in Tasks \ {t} : phase'[u] = phase[u]
      /\ ExecutorTypeOK /\ ExecutorTypeOK'
  BY DEF WorkEnds, QueueInv, ExecutorInv, ExecutorTypeOK
<1>2. k \in Keys /\ Live(t) /\ Ready(t)
  BY <1>1, RunningIsReady DEF QueueInv, ExecutorTypeOK, Live
<1>3. PICK line \in Seq(Tasks) : InLine(k, line)
  BY <1>2 DEF QueueInv, ExecutorInv
<1>4. Len(line) > 0 /\ line[1] = t
  BY <1>1, <1>2, <1>3, RunningIsFirst
<1>5. /\ Len(line) \in Nat /\ \A i \in 1 .. Len(line) : line[i] \in Tasks
      /\ \A i \in 2 .. Len(line) : /\ i \in 1 .. Len(line) /\ i - 1 \in 1 .. Len(line)
                                   /\ line[i] # t
  BY <1>3, <1>4 DEF InLine, Members
<1> HIDE DEF k
<1>6. \A u \in Tasks : Ready(u) => Ready(u)'
  BY <1>1 DEF Ready, ExecutorTypeOK
\* Behind t, the second is the first now.
<1>7. ASSUME NEW i \in 2 .. Len(line)
      PROVE  Ahead'[line[i]] = Ahead[line[i]] \ {t}
  <2> DEFINE rest == Tail(line)
  <2>1. /\ rest \in Seq(Tasks) /\ Len(rest) = Len(line) - 1
        /\ \A j \in 1 .. Len(rest) : rest[j] = line[j + 1] /\ j + 1 \in 2 .. Len(line)
    BY <1>4
  <2> HIDE DEF rest
  <2>2. Len(rest) > 0 => Ahead'[rest[1]] = {}
    <3>1. ASSUME Len(rest) > 0 PROVE Ahead'[rest[1]] = {}
      <4>1. 2 \in 2 .. Len(line) /\ rest[1] = line[2] /\ line[2] \in Tasks
        BY <1>5, <2>1, <3>1
      <4>2. after[line[2]] = t
        <5>1. after[line[2]] = line[2 - 1]
          BY <1>3, <4>1 DEF InLine, Chained
        <5> QED BY <1>4, <5>1
      <4>3. Ready(line[2])'
        BY <1>1, <4>2 DEF Ready
      <4> QED BY <4>1, <4>3, AheadUnfoldPrimed DEF WalksEnd
    <3> QED BY <3>1
  <2>3. ASSUME NEW j \in 2 .. Len(rest)
        PROVE  Ahead'[rest[j]] = {rest[j - 1]} \union Ahead'[rest[j - 1]]
    <3>1. /\ j + 1 \in 2 .. Len(line) /\ j \in 2 .. Len(line) /\ (j + 1) - 1 = j
          /\ rest[j] = line[j + 1] /\ rest[j - 1] = line[j]
      <4>1. j \in 1 .. Len(rest) /\ j - 1 \in 1 .. Len(rest) /\ (j - 1) + 1 = j /\ j <= Len(line)
        BY <1>5, <2>1
      <4> QED BY <2>1, <4>1
    <3>2. /\ after[line[j + 1]] = line[j] /\ Live(line[j])
          /\ line[j] \in Tasks /\ line[j + 1] \in Tasks /\ line[j] # t
      BY <1>3, <1>5, <3>1 DEF InLine, Chained, Members
    <3>3. ~Ready(line[j + 1])'
      BY <1>1, <3>2, NoTaskIsNoTask DEF Ready, Live
    <3>4. Ahead'[line[j + 1]] = {line[j]} \union Ahead'[line[j]]
      BY <1>1, <3>2, <3>3, AheadUnfoldPrimed DEF WalksEnd
    <3> QED BY <3>1, <3>2, <3>4
  <2>4. \A j \in 1 .. Len(rest) : Ahead'[rest[j]] = {rest[m] : m \in 1 .. j - 1}
    BY <2>1, <2>2, <2>3, WalkAlongALine
  <2>5. i - 1 \in 1 .. Len(rest) /\ (i - 1) + 1 = i /\ i \in 1 .. Len(line)
    BY <2>1
  <2>6. Ahead'[line[i]] = {rest[m] : m \in 1 .. i - 2}
    <3>1. (i - 1) - 1 = i - 2
      OBVIOUS
    <3> QED BY <2>1, <2>4, <2>5, <3>1
  <2>7. Ahead[line[i]] = {line[m] : m \in 1 .. i - 1}
    BY <1>2, <1>3, <2>5, AheadInLine DEF k
  <2>8. ASSUME NEW m \in 1 .. i - 2
        PROVE  rest[m] = line[m + 1] /\ m + 1 \in 1 .. i - 1 /\ line[m + 1] # t
    <3>1. m \in 1 .. Len(rest) /\ m + 1 \in 1 .. i - 1
      BY <2>5
    <3>2. rest[m] = line[m + 1] /\ m + 1 \in 2 .. Len(line)
      BY <2>1, <3>1
    <3> QED BY <1>5, <3>1, <3>2
  <2>9. ASSUME NEW m \in 1 .. i - 1, line[m] # t
        PROVE  m - 1 \in 1 .. i - 2 /\ rest[m - 1] = line[m]
    <3>1. m # 1
      BY <1>4, <2>9
    <3>2. m - 1 \in 1 .. i - 2 /\ m - 1 \in 1 .. Len(rest) /\ (m - 1) + 1 = m
      BY <2>5, <3>1
    <3>3. rest[m - 1] = line[(m - 1) + 1]
      BY <2>1, <3>2
    <3> QED BY <3>2, <3>3
  <2> QED BY <2>6, <2>7, <2>8, <2>9
<1>8. ASSUME NEW u \in Tasks, \A i \in 2 .. Len(line) : u # line[i]
      PROVE  Ahead'[u] = Ahead[u] \ {t}
  <2>1. CASE Ready(u)
    <3>1. Ahead[u] = {} /\ Ahead'[u] = {}
      BY <1>6, <2>1, PredecessorsUnfold, AheadUnfoldPrimed DEF WalksEnd
    <3> QED BY <3>1
  <2>2. CASE ~Ready(u)
    <3>1. Live(u) /\ u # t
      BY <1>2, <2>2 DEF QueueInv, OthersReady
    <3>2. key[u] \in Keys
      BY <3>1 DEF QueueInv, ExecutorInv, ExecutorTypeOK
    <3>3. key[u] # k
      <4>1. SUFFICES ASSUME key[u] = k PROVE FALSE
        OBVIOUS
      <4>2. PICK i \in 1 .. Len(line) : line[i] = u
        BY <1>3, <3>1, <4>1 DEF InLine, Members
      <4>3. i # 1
        BY <1>4, <3>1, <4>2
      <4>4. i \in 2 .. Len(line)
        BY <1>5, <4>3
      <4> QED BY <1>8, <4>2, <4>4
    <3>4. PICK other \in Seq(Tasks) : InLine(key[u], other)
      BY <3>2 DEF QueueInv, ExecutorInv
    <3>5. /\ \A i \in 1 .. Len(other) : other[i] \in Tasks
          /\ \A i \in 1 .. Len(other) : key[other[i]] = key[u] /\ other[i] # t
      BY <3>3, <3>4 DEF InLine, Members, k
    <3>6. PICK n \in 1 .. Len(other) : other[n] = u
      BY <3>1, <3>4 DEF InLine, Members
    <3>7. t \notin Ahead[u]
      <4>1. Ahead[u] = {other[j] : j \in 1 .. n - 1}
        BY <3>2, <3>4, <3>6, AheadInLine
      <4>2. \A j \in 1 .. n - 1 : j \in 1 .. Len(other)
        OBVIOUS
      <4> QED BY <3>5, <4>1, <4>2
    <3>8. ASSUME NEW v \in Tasks, v = u \/ (Live(v) /\ key[v] = key[u])
          PROVE  Ready(v)' <=> Ready(v)
      <4>1. Live(v) /\ key[v] = key[u]
        BY <3>1, <3>8
      <4>2. PICK i \in 1 .. Len(other) : other[i] = v
        BY <3>4, <4>1 DEF InLine, Members
      <4>3. CASE i = 1
        <5>1. Ready(v)
          BY <3>4, <4>2, <4>3 DEF InLine, Chained
        <5> QED BY <1>6, <5>1
      <4>4. CASE i # 1
        <5>1. i \in 2 .. Len(other) /\ i - 1 \in 1 .. Len(other)
          BY <4>4
        <5>2. /\ after[v] = other[i - 1] /\ Live(other[i - 1])
              /\ other[i - 1] \in Tasks /\ other[i - 1] # t
          BY <3>4, <3>5, <4>2, <5>1 DEF InLine, Chained, Members
        <5>3. phase'[other[i - 1]] = phase[other[i - 1]]
          BY <1>1, <5>2
        <5> QED BY <1>1, <5>2, <5>3, NoTaskIsNoTask DEF Ready, Live
      <4> QED BY <4>3, <4>4
    <3>9. Ahead'[u] = Ahead[u]
      BY <1>1, <3>8, AheadUnchanged
    <3> QED BY <3>7, <3>9
  <2> QED BY <2>1, <2>2
<1>9. Ahead' = [u \in Tasks |-> Ahead[u] \ {t}]
  <2>1. Ahead' = [u \in Tasks |-> Ahead'[u]]
    BY DEF Ahead
  <2>2. \A u \in Tasks : Ahead'[u] = Ahead[u] \ {t}
    BY <1>7, <1>8
  <2> QED BY <2>1, <2>2
<1>10. ActiveKeys' = IF Queue!InLane(k) = {t} THEN ActiveKeys \ {k} ELSE ActiveKeys
  <2>1. \A j \in Keys : j \in ActiveKeys <=> \E u \in Tasks : Live(u) /\ key[u] = j
    BY InvKeepsKeys DEF BusyKeysHaveWork, QueueInv
  <2>2. \A j \in Keys : j \in ActiveKeys' <=> \E u \in Tasks : Live(u)' /\ key[u] = j
    <3>1. (ExecutorInv => BusyKeysHaveWork)'
      BY InvKeepsKeys, PTL
    <3>2. BusyKeysHaveWork'
      BY <3>1 DEF QueueInv
    <3> QED BY <1>1, <3>2 DEF BusyKeysHaveWork
  <2>3. \A u \in Tasks : Live(u)' <=> Live(u) /\ u # t
    BY <1>1, <1>2 DEF Live
  <2>4. ActiveKeys \in SUBSET Keys /\ ActiveKeys' \in SUBSET Keys
    BY DEF ActiveKeys
  <2>5. Queue!InLane(k) = {u \in Tasks : Live(u) /\ key[u] = k}
    BY DEF Queue!InLane, Live
  <2>6. \A j \in Keys : j # k => (j \in ActiveKeys' <=> j \in ActiveKeys)
    BY <2>1, <2>2, <2>3 DEF k
  <2>7. k \in ActiveKeys /\ (k \in ActiveKeys' <=> Queue!InLane(k) # {t})
    BY <1>2, <2>1, <2>2, <2>3, <2>5 DEF k
  <2>8. CASE Queue!InLane(k) = {t}
    <3>1. \A j \in Keys : j \in ActiveKeys' <=> j \in ActiveKeys /\ j # k
      BY <2>6, <2>7, <2>8
    <3>2. ActiveKeys' = ActiveKeys \ {k}
      BY <2>4, <3>1, Zenon
    <3> QED BY <2>8, <3>2
  <2>9. CASE Queue!InLane(k) # {t}
    <3>1. \A j \in Keys : j \in ActiveKeys' <=> j \in ActiveKeys
      BY <2>6, <2>7, <2>9
    <3>2. ActiveKeys' = ActiveKeys
      BY <2>4, <3>1, Zenon
    <3> QED BY <2>9, <3>2
  <2> QED BY <2>8, <2>9
<1> QED BY <1>1, <1>9, <1>10 DEF Queue!Leave, Ahead, k

\* The initial queues are empty.
LEMMA ExecutorInitQueues == ExecutorInit => Queue!Init
<1> SUFFICES ASSUME ExecutorInit PROVE Queue!Init
  OBVIOUS
<1>1. QueueInv
  BY QueueInvInit
<1>2. \A t \in Tasks : Ready(t)
  BY DEF ExecutorInit, Ready
<1>3. \A t \in Tasks : Predecessors(t) = {}
  BY <1>1, <1>2, PredecessorsUnfold DEF WalksEnd, Ahead
<1> QED BY <1>3 DEF ExecutorInit, Queue!Init, ActiveKeys

LEMMA ExecutorStepQueues ==
    QueueInv /\ QueueInv' /\ [ExecutorNext]_executorVars => [Queue!Next]_(Queue!queueVars)
<1> SUFFICES ASSUME QueueInv, QueueInv', [ExecutorNext]_executorVars
             PROVE  Queue!Next \/ UNCHANGED Queue!queueVars
  OBVIOUS
<1>1. CASE ExecutorNext
  BY <1>1, RunJoins, WorkBeginsEnters, WorkEndsLeaves DEF ExecutorNext, Queue!Next
<1>2. CASE UNCHANGED executorVars
  <2>1. \A u \in Tasks : Ready(u)' <=> Ready(u)
    BY <1>2 DEF executorVars, Ready
  <2>2. \A u \in Tasks : Ahead'[u] = Ahead[u]
    BY <1>2, <2>1, AheadUnchanged DEF executorVars
  <2>3. Ahead' = Ahead
    <3>1. Ahead = [u \in Tasks |-> Ahead[u]] /\ Ahead' = [u \in Tasks |-> Ahead'[u]]
      BY DEF Ahead
    <3> QED BY <2>2, <3>1
  <2> QED BY <1>2, <2>3 DEF executorVars, Queue!queueVars, Ahead, ActiveKeys
<1> QED BY <1>1, <1>2

\* The executor implements the queues: for any calls and keys, whatever the
\* order in which calls come and work begins and ends, each key is served first
\* come first served, one call at a time, and no longer than it has calls
\* (SerialExecutor.run).  That everybody's turn comes is left to TLC.
THEOREM ExecutorIsAQueue == ExecutorSpec => Queue!SafetySpec
<1>1. ExecutorSpec => []QueueInv
  BY QueueInvInit, QueueInvStep, PTL DEF ExecutorSpec
<1> QED BY <1>1, ExecutorInitQueues, ExecutorStepQueues, PTL DEF ExecutorSpec, Queue!SafetySpec

-----------------------------------------------------------------------------
(* Administration. *)

AdminTypeOK ==
    /\ channelOf \in [Templates -> Channels]
    /\ rounds \in Seq(Channels)
    /\ active \in 0 .. Len(rounds)
    /\ chosen \in [Activations -> Templates \union {NoTask}]
    /\ checked \in [Activations -> Channels \union {NoTask}]
    /\ intended \in [Tasks -> 0 .. Len(rounds)]
    /\ acted \in [Tasks -> 0 .. Len(rounds)]

CommandInv(t) ==
    /\ phase[t] \in {"none", "waiting"} => acted[t] = NoRound
    /\ phase[t] # "none" /\ intended[t] # NoRound => key[t] = rounds[intended[t]]

ActivationInv(t) ==
    /\ checked[t] # NoTask => chosen[t] \in Templates
    /\ phase[t] # "none" => key[t] = checked[t] /\ checked[t] \in granted /\ checked[t] # NoTask

AdminInv ==
    /\ ExecutorInv
    /\ AdminTypeOK
    /\ \A t \in Commands : CommandInv(t)
    /\ \A t \in Activations : ActivationInv(t)

-----------------------------------------------------------------------------
LEMMA AdminInitInv == Init => AdminInv
<1> SUFFICES ASSUME Init PROVE AdminInv
  OBVIOUS
<1>1. ExecutorInv
  BY ExecutorInitInv DEF Init
<1>2. rounds \in Seq(Channels) /\ active \in 0 .. Len(rounds)
  <2>1. CASE rounds = << >> /\ active = NoRound
    BY <2>1 DEF NoRound
  <2>2. CASE rounds \in {<<c>> : c \in Channels} /\ active = 1
    <3>1. PICK c \in Channels : rounds = <<c>>
      BY <2>2
    <3>2. <<c>> \in Seq(Channels) /\ Len(<<c>>) = 1
      OBVIOUS
    <3> QED BY <2>2, <3>1, <3>2
  <2> QED BY <2>1, <2>2 DEF Init
<1>3. AdminTypeOK
  <2>1. intended \in [Tasks -> 0 .. Len(rounds)] /\ acted \in [Tasks -> 0 .. Len(rounds)]
    BY <1>2 DEF Init, NoRound
  <2> QED BY <1>2, <2>1 DEF Init, AdminTypeOK
<1>4. \A t \in Tasks : phase[t] = "none" /\ acted[t] = NoRound
  BY DEF Init, ExecutorInit
<1>5. ASSUME NEW t \in Commands PROVE CommandInv(t)
  BY <1>4, <1>5, TasksAreOfFourKinds DEF CommandInv
<1>6. ASSUME NEW t \in Activations PROVE ActivationInv(t)
  BY <1>4, <1>6, TasksAreOfFourKinds DEF ActivationInv, Init
<1> QED BY <1>1, <1>3, <1>5, <1>6 DEF AdminInv

-----------------------------------------------------------------------------
\* What no step does: forget or change a round that was activated.
RoundsGrow ==
    /\ rounds' \in Seq(Channels)
    /\ active' \in 0 .. Len(rounds')
    /\ Len(rounds) \in Nat /\ Len(rounds') \in Nat /\ Len(rounds) <= Len(rounds')
    /\ \A i \in 1 .. Len(rounds) : rounds'[i] = rounds[i]
    /\ acted' \in [Tasks -> 0 .. Len(rounds')]

LEMMA UnchangedRoundsGrow ==
    ASSUME AdminTypeOK, UNCHANGED rounds, active' \in {active, NoRound},
           acted' \in [Tasks -> 0 .. Len(rounds)]
    PROVE  RoundsGrow
BY DEF AdminTypeOK, RoundsGrow, NoRound

\* What a task does when its turn comes, by kind.
LEMMA CommandActing ==
    ASSUME AdminTypeOK, NEW t \in Commands, Acts(t)
    PROVE  /\ RoundsGrow /\ UNCHANGED rounds
           /\ acted' = [acted EXCEPT ![t] = active]
<1>1. CommandActs(t)
  BY TasksAreOfFourKinds DEF Acts, ActivationActs, OtherWorkBegins
<1>2. UNCHANGED rounds /\ active' \in {active, NoRound} /\ acted' = [acted EXCEPT ![t] = active]
  BY <1>1 DEF CommandActs, EndRound, ActsOn, game
<1>3. acted' \in [Tasks -> 0 .. Len(rounds)]
  BY <1>2 DEF AdminTypeOK
<1> QED BY <1>2, <1>3, UnchangedRoundsGrow

LEMMA ActivationActing ==
    ASSUME AdminTypeOK, NEW t \in Activations, chosen[t] \in Templates, Acts(t)
    PROVE  /\ RoundsGrow
           /\ \A u \in Tasks \ {t} : acted'[u] = acted[u]
<1>1. ActivationActs(t)
  BY TasksAreOfFourKinds DEF Acts, CommandActs, OtherWorkBegins
<1>2. CASE ActivationRefused
  <2>1. UNCHANGED <<rounds, active, acted>>
    BY <1>1, <1>2 DEF ActivationActs, game
  <2>2. acted' \in [Tasks -> 0 .. Len(rounds)]
    BY <2>1 DEF AdminTypeOK
  <2> QED BY <2>1, <2>2, UnchangedRoundsGrow
<1>3. CASE ~ActivationRefused
  <2> DEFINE c == channelOf[chosen[t]]
  <2>1. c \in Channels
    BY DEF AdminTypeOK
  <2>2. rounds' = Append(rounds, c) /\ active' = Len(rounds') /\ acted' = [acted EXCEPT ![t] = active']
    BY <1>1, <1>3 DEF ActivationActs, ActsOn
  <2> HIDE DEF c
  <2>3. /\ rounds' \in Seq(Channels) /\ Len(rounds') = Len(rounds) + 1 /\ Len(rounds) \in Nat
        /\ \A i \in 1 .. Len(rounds) : rounds'[i] = rounds[i]
    BY <2>1, <2>2 DEF AdminTypeOK
  <2>4. acted' \in [Tasks -> 0 .. Len(rounds')]
    <3>1. active' \in 0 .. Len(rounds')
      BY <2>2, <2>3
    <3>2. acted \in [Tasks -> 0 .. Len(rounds')]
      BY <2>3 DEF AdminTypeOK
    <3> QED BY <2>2, <3>1, <3>2
  <2> QED BY <2>2, <2>3, <2>4 DEF RoundsGrow, AdminTypeOK
<1> QED BY <1>2, <1>3

LEMMA OtherActing ==
    ASSUME AdminTypeOK, NEW t \in Resets \union Intakes, Acts(t)
    PROVE  RoundsGrow /\ UNCHANGED <<rounds, acted>>
<1>1. OtherWorkBegins(t)
  BY TasksAreOfFourKinds DEF Acts, CommandActs, ActivationActs
<1>2. UNCHANGED <<rounds, active, acted>>
  BY <1>1 DEF OtherWorkBegins, game
<1>3. acted' \in [Tasks -> 0 .. Len(rounds)]
  BY <1>2 DEF AdminTypeOK
<1> QED BY <1>2, <1>3, UnchangedRoundsGrow

\* Tasks that a step leaves alone keep their invariants.
Untouched(u) ==
    /\ phase'[u] = phase[u] /\ key'[u] = key[u]
    /\ acted'[u] = acted[u] /\ intended'[u] = intended[u]

UntouchedRequest(u) == checked'[u] = checked[u] /\ chosen'[u] = chosen[u]

LEMMA UntouchedKeepInv ==
    ASSUME AdminInv, RoundsGrow, UNCHANGED granted, NEW t \in Tasks,
           \A u \in Tasks \ {t} : Untouched(u),
           \A u \in Activations \ {t} : UntouchedRequest(u)
    PROVE  /\ \A u \in Commands \ {t} : CommandInv(u)'
           /\ \A u \in Activations \ {t} : ActivationInv(u)'
<1>1. ASSUME NEW u \in Commands \ {t} PROVE CommandInv(u)'
  <2>1. u \in Tasks \ {t} /\ CommandInv(u) /\ intended[u] \in 0 .. Len(rounds)
    BY TasksAreOfFourKinds DEF AdminInv, AdminTypeOK
  <2>2. intended[u] # NoRound => rounds'[intended[u]] = rounds[intended[u]]
    BY <2>1 DEF RoundsGrow, NoRound
  <2> QED BY <2>1, <2>2 DEF CommandInv, Untouched
<1>2. ASSUME NEW u \in Activations \ {t} PROVE ActivationInv(u)'
  <2>1. u \in Tasks \ {t} /\ ActivationInv(u)
    BY TasksAreOfFourKinds DEF AdminInv
  <2> QED BY <2>1 DEF ActivationInv, Untouched, UntouchedRequest
<1> QED BY <1>1, <1>2

\* What a call of run does to the other tasks.
LEMMA RunTouches ==
    ASSUME ExecutorTypeOK, NEW t \in Tasks, NEW k \in Keys, Run(t, k)
    PROVE  /\ \A u \in Tasks \ {t} : phase'[u] = phase[u] /\ key'[u] = key[u]
           /\ key'[t] = k /\ phase[t] = "none"
           /\ phase'[t] = IF AtOnce(k) THEN "running" ELSE "waiting"
BY DEF Run, ExecutorTypeOK

\* A task that begins under a key is alone under it.
LEMMA Alone ==
    ASSUME ExecutorInv', NEW t \in Tasks, phase'[t] = "running", NEW c, key'[t] = c
    PROVE  \A u \in Tasks \ {t} : phase'[u] = "running" => key'[u] # c
<1>1. OneAtATime'
  BY InvExcludes, PTL
<1> QED BY <1>1 DEF OneAtATime

-----------------------------------------------------------------------------
(* The actions.  Each keeps the invariant, and whoever changes a round is not  *)
(* a stray only if it acts as it was checked.                                  *)

ActsAsChecked(t) ==
    (acted'[t] # acted[t] /\ ~Stray(t)') =>
        /\ \A u \in Tasks \ {t} : phase'[u] = "running" => key'[u] # rounds'[acted'[t]]
        /\ t \in Activations => rounds'[acted'[t]] \in granted

StepIsSound == AdminInv' /\ \A t \in Tasks : ActsAsChecked(t)

\* Tasks that are left alone change no round.
LEMMA OnlyOneActs ==
    ASSUME NEW t \in Tasks, \A u \in Tasks \ {t} : acted'[u] = acted[u], ActsAsChecked(t)
    PROVE  \A u \in Tasks : ActsAsChecked(u)
BY DEF ActsAsChecked

\* The turn of a command has come.
LEMMA CommandTurn ==
    ASSUME AdminInv, ExecutorInv', NEW t \in Commands, Acts(t), phase'[t] = "running",
           acted[t] = NoRound, UNCHANGED granted,
           intended'[t] # NoRound => key'[t] = rounds[intended'[t]],
           intended'[t] \in 0 .. Len(rounds)
    PROVE  CommandInv(t)' /\ ActsAsChecked(t)
<1>1. /\ RoundsGrow /\ rounds' = rounds
      /\ t \in Tasks /\ t \notin Activations
      /\ acted'[t] = active
  BY CommandActing, TasksAreOfFourKinds DEF AdminInv, AdminTypeOK
<1>2. CommandInv(t)'
  BY <1>1 DEF CommandInv
<1>3. ASSUME acted'[t] # acted[t], ~Stray(t)'
      PROVE  \A u \in Tasks \ {t} : phase'[u] = "running" => key'[u] # rounds'[acted'[t]]
  <2>1. acted'[t] = intended'[t] /\ intended'[t] # NoRound
    BY <1>3 DEF Stray
  <2>2. key'[t] = rounds'[acted'[t]]
    BY <1>1, <2>1
  <2> QED BY <1>1, <2>2, Alone
<1> QED BY <1>1, <1>2, <1>3 DEF ActsAsChecked

\* The turn of an activation has come.
LEMMA ActivationTurn ==
    ASSUME AdminInv, ExecutorInv', NEW t \in Activations, phase'[t] = "running",
           key'[t] = checked'[t], checked'[t] \in granted
    PROVE  ActsAsChecked(t)
<1>1. t \in Tasks
  BY TasksAreOfFourKinds
<1>2. ASSUME ~Stray(t)'
      PROVE  rounds'[acted'[t]] = checked'[t]
  BY <1>2 DEF Stray
<1>3. \A u \in Tasks \ {t} : phase'[u] = "running" => key'[u] # checked'[t]
  BY <1>1, Alone
<1> QED BY <1>2, <1>3 DEF ActsAsChecked

LEMMA CommandArrivesSound ==
    ASSUME AdminInv, NEW t \in Tasks, CommandArrives(t)
    PROVE  StepIsSound
<1>1. t \in Commands /\ t \notin Activations
  BY TasksAreOfFourKinds DEF CommandArrives
<1>2. CommandKey \in Keys /\ AdminTypeOK /\ ExecutorTypeOK /\ ExecutorInv
  BY LifecycleIsAKey DEF CommandKey, AdminInv, AdminTypeOK, NoRound, Channels, ExecutorInv
<1>3. Run(t, CommandKey) /\ intended' = [intended EXCEPT ![t] = active]
      /\ UNCHANGED <<channelOf, granted, chosen, checked>>
  BY DEF CommandArrives, Submit
<1>4. ExecutorInv'
  BY <1>2, <1>3, RunKeepsInv
<1>5. /\ \A u \in Tasks \ {t} : phase'[u] = phase[u] /\ key'[u] = key[u]
      /\ key'[t] = CommandKey /\ phase[t] = "none"
      /\ phase'[t] = IF AtOnce(CommandKey) THEN "running" ELSE "waiting"
  BY <1>2, <1>3, RunTouches
<1>6. /\ \A u \in Tasks \ {t} : intended'[u] = intended[u]
      /\ intended'[t] = active /\ active \in 0 .. Len(rounds)
      /\ active # NoRound => key'[t] = rounds[active]
      /\ acted[t] = NoRound
  BY <1>1, <1>2, <1>3, <1>5 DEF AdminInv, AdminTypeOK, CommandKey, CommandInv
<1>7. /\ RoundsGrow /\ rounds' = rounds
      /\ \A u \in Tasks \ {t} : acted'[u] = acted[u]
      /\ CommandInv(t)' /\ ActsAsChecked(t)
  <2>1. CASE AtOnce(CommandKey)
    <3>1. Acts(t)
      BY <2>1 DEF CommandArrives, Submit
    <3>2. RoundsGrow /\ rounds' = rounds /\ \A u \in Tasks \ {t} : acted'[u] = acted[u]
      BY <1>1, <1>2, <3>1, CommandActing DEF AdminTypeOK
    <3>3. CommandInv(t)' /\ ActsAsChecked(t)
      BY <1>1, <1>3, <1>4, <1>5, <1>6, <2>1, <3>1, CommandTurn
    <3> QED BY <3>2, <3>3
  <2>2. CASE ~AtOnce(CommandKey)
    <3>1. UNCHANGED <<rounds, active, acted>>
      BY <2>2 DEF CommandArrives, Submit, game
    <3>2. acted' \in [Tasks -> 0 .. Len(rounds)]
      BY <1>2, <3>1 DEF AdminTypeOK
    <3> QED BY <1>2, <1>5, <1>6, <2>2, <3>1, <3>2, UnchangedRoundsGrow
            DEF CommandInv, ActsAsChecked
  <2> QED BY <2>1, <2>2
<1>8. AdminTypeOK'
  <2>1. intended' \in [Tasks -> 0 .. Len(rounds')]
    BY <1>2, <1>3, <1>6, <1>7 DEF AdminTypeOK
  <2> QED BY <1>2, <1>3, <1>7, <2>1 DEF AdminTypeOK, RoundsGrow
<1>9. /\ \A u \in Commands \ {t} : CommandInv(u)'
      /\ \A u \in Activations \ {t} : ActivationInv(u)'
  BY <1>3, <1>5, <1>6, <1>7, UntouchedKeepInv DEF Untouched, UntouchedRequest
<1> QED BY <1>1, <1>4, <1>7, <1>8, <1>9, OnlyOneActs DEF StepIsSound, AdminInv

LEMMA PermissionsReportedSound ==
    ASSUME AdminInv, NEW t \in Activations, PermissionsReported(t)
    PROVE  StepIsSound
<1> DEFINE k == checked[t]
<1>1. t \in Tasks /\ t \notin Commands
  BY TasksAreOfFourKinds
<1>2. /\ AdminTypeOK /\ ExecutorTypeOK /\ ExecutorInv /\ ActivationInv(t)
      /\ k \in Channels /\ k \in Keys /\ k # NoTask /\ k \in granted
  BY DEF AdminInv, AdminTypeOK, ExecutorInv, Channels, PermissionsReported, PermissionsSuffice
<1>3. Run(t, k) /\ UNCHANGED <<channelOf, granted, chosen, checked, intended>>
  BY DEF PermissionsReported, Submit
<1>4. ExecutorInv'
  BY <1>1, <1>2, <1>3, RunKeepsInv
<1>5. /\ \A u \in Tasks \ {t} : phase'[u] = phase[u] /\ key'[u] = key[u]
      /\ key'[t] = k /\ phase[t] = "none"
      /\ phase'[t] = IF AtOnce(k) THEN "running" ELSE "waiting"
  BY <1>1, <1>2, <1>3, RunTouches
<1>6. RoundsGrow /\ (\A u \in Tasks \ {t} : acted'[u] = acted[u]) /\ ActsAsChecked(t)
  <2>1. CASE AtOnce(k)
    <3>1. Acts(t) /\ chosen[t] \in Templates
      BY <1>2, <2>1 DEF PermissionsReported, Submit, ActivationInv
    <3> QED BY <1>2, <1>3, <1>4, <1>5, <2>1, <3>1, ActivationActing, ActivationTurn
  <2>2. CASE ~AtOnce(k)
    <3>1. UNCHANGED <<rounds, active, acted>>
      BY <2>2 DEF PermissionsReported, Submit, game
    <3>2. acted' \in [Tasks -> 0 .. Len(rounds)]
      BY <1>2, <3>1 DEF AdminTypeOK
    <3> QED BY <1>2, <3>1, <3>2, UnchangedRoundsGrow DEF ActsAsChecked
  <2> QED BY <2>1, <2>2
<1>7. AdminTypeOK'
  <2>1. intended' \in [Tasks -> 0 .. Len(rounds')]
    BY <1>2, <1>3, <1>6 DEF AdminTypeOK, RoundsGrow
  <2> QED BY <1>2, <1>3, <1>6, <2>1 DEF AdminTypeOK, RoundsGrow
<1>8. ActivationInv(t)'
  BY <1>2, <1>3, <1>5 DEF ActivationInv
<1>9. /\ \A u \in Commands \ {t} : CommandInv(u)'
      /\ \A u \in Activations \ {t} : ActivationInv(u)'
  BY <1>1, <1>3, <1>5, <1>6, UntouchedKeepInv DEF Untouched, UntouchedRequest
<1> QED BY <1>1, <1>4, <1>6, <1>7, <1>8, <1>9, OnlyOneActs DEF StepIsSound, AdminInv

\* Resets and intake, whose work begins by reading.
LEMMA OtherArrivesSound ==
    ASSUME AdminInv, NEW t \in Resets \union Intakes, NEW k \in Keys, Submit(t, k),
           UNCHANGED <<channelOf, granted, chosen, checked, intended>>
    PROVE  StepIsSound
<1>1. t \in Tasks /\ t \notin Commands /\ t \notin Activations
  BY TasksAreOfFourKinds
<1>2. AdminTypeOK /\ ExecutorTypeOK /\ ExecutorInv
  BY DEF AdminInv, ExecutorInv
<1>3. Run(t, k)
  BY DEF Submit
<1>4. ExecutorInv'
  BY <1>1, <1>2, <1>3, RunKeepsInv
<1>5. \A u \in Tasks \ {t} : phase'[u] = phase[u] /\ key'[u] = key[u]
  BY <1>1, <1>2, <1>3, RunTouches
<1>6. RoundsGrow /\ UNCHANGED <<rounds, acted>>
  <2>1. CASE AtOnce(k)
    BY <1>2, <2>1, OtherActing DEF Submit
  <2>2. CASE ~AtOnce(k)
    <3>1. UNCHANGED <<rounds, active, acted>>
      BY <2>2 DEF Submit, game
    <3>2. acted' \in [Tasks -> 0 .. Len(rounds)]
      BY <1>2, <3>1 DEF AdminTypeOK
    <3> QED BY <1>2, <3>1, <3>2, UnchangedRoundsGrow
  <2> QED BY <2>1, <2>2
<1>7. AdminTypeOK'
  BY <1>2, <1>6 DEF AdminTypeOK, RoundsGrow
<1>8. /\ \A u \in Commands \ {t} : CommandInv(u)'
      /\ \A u \in Activations \ {t} : ActivationInv(u)'
  BY <1>1, <1>5, <1>6, UntouchedKeepInv DEF Untouched, UntouchedRequest
<1>9. \A u \in Tasks : ActsAsChecked(u)
  BY <1>6 DEF ActsAsChecked
<1> QED BY <1>1, <1>4, <1>7, <1>8, <1>9 DEF StepIsSound, AdminInv

LEMMA BeginsSound ==
    ASSUME AdminInv, NEW t \in Tasks, Begins(t)
    PROVE  StepIsSound
<1>1. AdminTypeOK /\ ExecutorTypeOK /\ ExecutorInv
  BY DEF AdminInv, ExecutorInv
<1>2. /\ WorkBegins(t) /\ Acts(t)
      /\ UNCHANGED <<channelOf, granted, chosen, checked, intended>>
  BY DEF Begins
<1>3. ExecutorInv'
  BY <1>1, <1>2, WorkBeginsKeepsInv
<1>4. /\ \A u \in Tasks \ {t} : phase'[u] = phase[u]
      /\ key' = key /\ phase[t] = "waiting" /\ phase'[t] = "running"
  BY <1>1, <1>2 DEF WorkBegins, ExecutorTypeOK
<1>5. ASSUME RoundsGrow, \A u \in Tasks \ {t} : acted'[u] = acted[u], ActsAsChecked(t),
             t \in Commands => CommandInv(t)', t \in Activations => ActivationInv(t)'
      PROVE  StepIsSound
  <2>1. AdminTypeOK'
    BY <1>1, <1>2, <1>5 DEF AdminTypeOK, RoundsGrow
  <2>2. /\ \A u \in Commands \ {t} : CommandInv(u)'
        /\ \A u \in Activations \ {t} : ActivationInv(u)'
    BY <1>2, <1>4, <1>5, UntouchedKeepInv DEF Untouched, UntouchedRequest
  <2> QED BY <1>3, <1>5, <2>1, <2>2, OnlyOneActs DEF StepIsSound, AdminInv
<1>6. CASE t \in Commands
  <2>1. CommandInv(t) /\ intended[t] \in 0 .. Len(rounds) /\ t \notin Activations
    BY <1>1, <1>6, TasksAreOfFourKinds DEF AdminInv, AdminTypeOK
  <2>2. acted[t] = NoRound /\ (intended'[t] # NoRound => key'[t] = rounds[intended'[t]])
    BY <1>2, <1>4, <2>1 DEF CommandInv
  <2>3. RoundsGrow /\ \A u \in Tasks \ {t} : acted'[u] = acted[u]
    BY <1>1, <1>2, <1>6, CommandActing DEF AdminTypeOK
  <2>4. CommandInv(t)' /\ ActsAsChecked(t)
    BY <1>2, <1>3, <1>4, <1>6, <2>1, <2>2, CommandTurn
  <2> QED BY <1>5, <2>1, <2>3, <2>4
<1>7. CASE t \in Activations
  <2>1. ActivationInv(t) /\ t \notin Commands
    BY <1>7, TasksAreOfFourKinds DEF AdminInv
  <2>2. key'[t] = checked'[t] /\ checked'[t] \in granted /\ chosen[t] \in Templates
    BY <1>2, <1>4, <2>1 DEF ActivationInv
  <2>3. RoundsGrow /\ \A u \in Tasks \ {t} : acted'[u] = acted[u]
    BY <1>1, <1>2, <1>7, <2>2, ActivationActing
  <2>4. ActsAsChecked(t)
    BY <1>3, <1>4, <1>7, <2>2, ActivationTurn
  <2>5. ActivationInv(t)'
    BY <1>2, <1>4, <2>1 DEF ActivationInv
  <2> QED BY <1>5, <2>1, <2>3, <2>4, <2>5
<1>8. CASE t \in Resets \union Intakes
  <2>1. t \notin Commands /\ t \notin Activations
    BY <1>8, TasksAreOfFourKinds
  <2>2. RoundsGrow /\ UNCHANGED <<rounds, acted>>
    BY <1>1, <1>2, <1>8, OtherActing
  <2>3. ActsAsChecked(t)
    BY <2>2 DEF ActsAsChecked
  <2> QED BY <1>5, <2>1, <2>2, <2>3
<1> QED BY <1>6, <1>7, <1>8, TasksAreOfFourKinds

\* Steps that leave every round and every request's reading alone.
LEMMA QuietStepSound ==
    ASSUME AdminInv, ExecutorInv', UNCHANGED <<key, rounds, granted, intended, acted>>,
           active' \in {active, NoRound},
           channelOf' \in [Templates -> Channels],
           UNCHANGED <<chosen, checked>>,
           \A u \in Tasks : \/ phase'[u] = phase[u]
                            \/ phase[u] = "running" /\ phase'[u] = "over"
    PROVE  StepIsSound
<1>1. AdminTypeOK
  BY DEF AdminInv
<1>2. AdminTypeOK'
  BY <1>1 DEF AdminTypeOK, NoRound
<1>3. ASSUME NEW u \in Commands PROVE CommandInv(u)'
  <2>1. u \in Tasks /\ CommandInv(u)
    BY TasksAreOfFourKinds DEF AdminInv
  <2> QED BY <2>1 DEF CommandInv
<1>4. ASSUME NEW u \in Activations PROVE ActivationInv(u)'
  <2>1. u \in Tasks /\ ActivationInv(u)
    BY TasksAreOfFourKinds DEF AdminInv
  <2> QED BY <2>1 DEF ActivationInv
<1>5. \A u \in Tasks : ActsAsChecked(u)
  BY DEF ActsAsChecked
<1> QED BY <1>2, <1>3, <1>4, <1>5 DEF StepIsSound, AdminInv

LEMMA EndsSound ==
    ASSUME AdminInv, NEW t \in Tasks, Ends(t)
    PROVE  StepIsSound
<1>1. AdminTypeOK /\ ExecutorTypeOK /\ ExecutorInv
  BY DEF AdminInv, ExecutorInv
<1>2. /\ WorkEnds(t)
      /\ UNCHANGED <<channelOf, rounds, active, granted, chosen, checked, intended, acted>>
  BY DEF Ends, game, history
<1>3. ExecutorInv'
  BY <1>1, <1>2, WorkEndsKeepsInv
<1>4. /\ UNCHANGED key
      /\ \A u \in Tasks : \/ phase'[u] = phase[u]
                          \/ phase[u] = "running" /\ phase'[u] = "over"
  BY <1>1, <1>2 DEF WorkEnds, ExecutorTypeOK
<1> QED BY <1>1, <1>2, <1>3, <1>4, QuietStepSound DEF AdminTypeOK

LEMMA MessageJudgedSound ==
    ASSUME AdminInv, NEW t \in Intakes, MessageJudged(t)
    PROVE  StepIsSound
<1>1. AdminTypeOK /\ t \in Tasks /\ t \notin Commands /\ t \notin Activations
  BY TasksAreOfFourKinds DEF AdminInv
<1>2. /\ UNCHANGED executorVars /\ UNCHANGED <<channelOf, granted, chosen, checked, intended>>
      /\ UNCHANGED rounds /\ active' \in {active, NoRound}
      /\ acted' = [acted EXCEPT ![t] = active]
      /\ phase[t] = "running" /\ key[t] = rounds[active]
  BY DEF MessageJudged, ActsOn, EndRound, game
<1>3. ExecutorInv'
  BY <1>2, ExecutorStutterKeepsInv DEF AdminInv
<1>4. UNCHANGED <<key, phase>>
  BY <1>2 DEF executorVars
<1>5. acted' \in [Tasks -> 0 .. Len(rounds)] /\ acted'[t] = active
  BY <1>1, <1>2 DEF AdminTypeOK
<1>6. RoundsGrow
  BY <1>1, <1>2, <1>5, UnchangedRoundsGrow
<1>7. \A u \in Tasks \ {t} : acted'[u] = acted[u]
  BY <1>1, <1>2 DEF AdminTypeOK
<1>8. AdminTypeOK'
  BY <1>1, <1>2, <1>6 DEF AdminTypeOK, RoundsGrow
<1>9. /\ \A u \in Commands \ {t} : CommandInv(u)'
      /\ \A u \in Activations \ {t} : ActivationInv(u)'
  BY <1>1, <1>2, <1>4, <1>6, <1>7, UntouchedKeepInv DEF Untouched, UntouchedRequest
<1>10. ActsAsChecked(t)
  <2>1. \A u \in Tasks \ {t} : phase'[u] = "running" => key'[u] # rounds'[acted'[t]]
    BY <1>1, <1>2, <1>3, <1>4, <1>5, Alone
  <2> QED BY <1>1, <2>1 DEF ActsAsChecked
<1> QED BY <1>1, <1>3, <1>7, <1>8, <1>9, <1>10, OnlyOneActs DEF StepIsSound, AdminInv

LEMMA ActivationArrivesSound ==
    ASSUME AdminInv, NEW t \in Activations, NEW p \in Templates, ActivationArrives(t, p)
    PROVE  StepIsSound
<1>1. AdminTypeOK /\ t \in Tasks /\ t \notin Commands /\ ActivationInv(t) /\ checked[t] = NoTask
  BY TasksAreOfFourKinds DEF AdminInv, ActivationArrives
<1>2. /\ UNCHANGED <<executorVars, channelOf, rounds, active, granted, intended, acted>>
      /\ chosen' = [chosen EXCEPT ![t] = p]
      /\ checked' = [checked EXCEPT ![t] = channelOf[p]]
  BY DEF ActivationArrives, game, history
<1>3. ExecutorInv'
  BY <1>2, ExecutorStutterKeepsInv DEF AdminInv
<1>4. UNCHANGED <<key, phase>>
  BY <1>2 DEF executorVars
<1>5. RoundsGrow
  BY <1>1, <1>2, UnchangedRoundsGrow DEF AdminTypeOK
<1>6. AdminTypeOK' /\ \A u \in Activations \ {t} : UntouchedRequest(u)
  BY <1>1, <1>2 DEF AdminTypeOK, UntouchedRequest
<1>7. /\ \A u \in Commands \ {t} : CommandInv(u)'
      /\ \A u \in Activations \ {t} : ActivationInv(u)'
  BY <1>1, <1>2, <1>4, <1>5, <1>6, UntouchedKeepInv DEF Untouched
<1>8. ActivationInv(t)'
  BY <1>1, <1>2, <1>4 DEF ActivationInv, AdminTypeOK
<1>9. \A u \in Tasks : ActsAsChecked(u)
  BY <1>2 DEF ActsAsChecked
<1> QED BY <1>1, <1>3, <1>6, <1>7, <1>8, <1>9 DEF StepIsSound, AdminInv

LEMMA NextSound == AdminInv /\ [Next]_vars => StepIsSound
<1> SUFFICES ASSUME AdminInv, [Next]_vars PROVE StepIsSound
  OBVIOUS
<1> USE DEF AdminInv
<1>1. ASSUME NEW t \in Commands, CommandArrives(t) PROVE StepIsSound
  BY <1>1, CommandArrivesSound, TasksAreOfFourKinds
<1>2. ASSUME NEW t \in Activations, NEW p \in Templates, ActivationArrives(t, p)
      PROVE  StepIsSound
  BY <1>2, ActivationArrivesSound
<1>3. ASSUME NEW t \in Activations, PermissionsReported(t) PROVE StepIsSound
  BY <1>3, PermissionsReportedSound
<1>4. ASSUME NEW t \in Resets, ResetArrives(t) PROVE StepIsSound
  BY <1>4, OtherArrivesSound, LifecycleIsAKey DEF ResetArrives
<1>5. ASSUME NEW t \in Intakes, IntakeArrives(t) PROVE StepIsSound
  <2>1. rounds[active] \in Keys
    BY <1>5 DEF IntakeArrives, AdminTypeOK, NoRound, Channels
  <2> QED BY <1>5, <2>1, OtherArrivesSound DEF IntakeArrives
<1>6. ASSUME NEW t \in Tasks, Begins(t) PROVE StepIsSound
  BY <1>6, BeginsSound
<1>7. ASSUME NEW t \in Tasks, Ends(t) PROVE StepIsSound
  BY <1>7, EndsSound
<1>8. ASSUME NEW t \in Intakes, MessageJudged(t) PROVE StepIsSound
  BY <1>8, MessageJudgedSound
<1>9. CASE RoundSettles
  <2>1. /\ UNCHANGED executorVars
        /\ UNCHANGED <<channelOf, rounds, active, granted, chosen, checked, intended, acted>>
    BY <1>9 DEF RoundSettles, history
  <2>2. ExecutorInv' /\ UNCHANGED <<key, phase>>
    BY <2>1, ExecutorStutterKeepsInv DEF executorVars
  <2> QED BY <2>1, <2>2, QuietStepSound DEF AdminTypeOK
<1>10. ASSUME NEW p \in Templates, NEW c \in Channels, EditTemplate(p, c) PROVE StepIsSound
  <2>1. /\ UNCHANGED executorVars
        /\ UNCHANGED <<rounds, active, granted, chosen, checked, intended, acted>>
        /\ channelOf' = [channelOf EXCEPT ![p] = c]
    BY <1>10 DEF EditTemplate, game, history
  <2>2. ExecutorInv' /\ UNCHANGED <<key, phase>>
    BY <2>1, ExecutorStutterKeepsInv DEF executorVars
  <2>3. channelOf' \in [Templates -> Channels]
    BY <2>1 DEF AdminTypeOK
  <2> QED BY <2>1, <2>2, <2>3, QuietStepSound
<1>11. CASE UNCHANGED vars
  <2>1. /\ UNCHANGED executorVars
        /\ UNCHANGED <<channelOf, rounds, active, granted, chosen, checked, intended, acted>>
    BY <1>11 DEF vars, game, history
  <2>2. ExecutorInv' /\ UNCHANGED <<key, phase>>
    BY <2>1, ExecutorStutterKeepsInv DEF executorVars
  <2> QED BY <2>1, <2>2, QuietStepSound DEF AdminTypeOK
<1> QED BY <1>1, <1>2, <1>3, <1>4, <1>5, <1>6, <1>7, <1>8, <1>9, <1>10, <1>11 DEF Next, Arrives

\* The inductive invariant of the composition, for any tasks, channels and templates.
THEOREM AdministrationInvariant == Spec => []AdminInv
<1>1. AdminInv /\ [Next]_vars => AdminInv'
  BY NextSound DEF StepIsSound
<1> QED BY <1>1, AdminInitInv, PTL DEF Spec

\* A command, an activation or a message that acts on the round its caller had read
\* acts alone on its channel, and rounds are activated only where the bot has
\* its permissions, unless the template was edited meanwhile (rounds.ts, moderation.ts).
THEOREM AdministrationActsAsChecked == Spec => TasksActAsChecked
<1>1. AdminInv /\ [Next]_vars => \A t \in Tasks : ActsAsChecked(t)
  BY NextSound DEF StepIsSound
<1>2. AdminInv /\ [Next]_vars => 
        [\A t \in Tasks :
           LET round == acted'[t] IN
           (acted'[t] # acted[t] /\ ~Stray(t)') =>
             /\ \A u \in Tasks \ {t} : phase'[u] = "running" => key'[u] # rounds'[round]
             /\ t \in Activations => rounds'[round] \in granted]_vars
  BY <1>1 DEF ActsAsChecked
<1> QED BY <1>2, AdministrationInvariant, PTL DEF Spec, TasksActAsChecked

\* Whatever the callers do, to the executor it is a call, or work that begins or
\* ends, or nothing.
LEMMA StepsOfTheExecutor == AdminInv /\ [Next]_vars => [ExecutorNext]_executorVars
<1> SUFFICES ASSUME AdminInv, [Next]_vars PROVE ExecutorNext \/ UNCHANGED executorVars
  OBVIOUS
<1>1. active # NoRound => rounds[active] \in Keys
  <2>1. \A i \in 1 .. Len(rounds) : rounds[i] \in Channels
    BY DEF AdminInv, AdminTypeOK
  <2>2. active # NoRound => active \in 1 .. Len(rounds)
    BY DEF AdminInv, AdminTypeOK, NoRound
  <2> QED BY <2>1, <2>2 DEF Channels
<1>2. /\ Commands \subseteq Tasks /\ Activations \subseteq Tasks
      /\ Resets \subseteq Tasks /\ Intakes \subseteq Tasks
  BY TasksAreOfFourKinds
<1>3. ASSUME NEW t \in Tasks, NEW k \in Keys, Submit(t, k)
      PROVE  ExecutorNext
  BY <1>3 DEF Submit, ExecutorNext
<1>4. CASE Arrives
  <2>1. ASSUME NEW t \in Commands, CommandArrives(t) PROVE ExecutorNext
    BY <1>1, <1>2, <1>3, <2>1, LifecycleIsAKey DEF CommandArrives, CommandKey
  <2>2. ASSUME NEW t \in Activations, PermissionsReported(t) PROVE ExecutorNext
    <3>1. checked[t] \in Keys
      BY <2>2 DEF PermissionsReported, AdminInv, AdminTypeOK, Channels
    <3> QED BY <1>2, <1>3, <2>2, <3>1 DEF PermissionsReported
  <2>3. ASSUME NEW t \in Resets, ResetArrives(t) PROVE ExecutorNext
    BY <1>2, <1>3, <2>3, LifecycleIsAKey DEF ResetArrives
  <2>4. ASSUME NEW t \in Intakes, IntakeArrives(t) PROVE ExecutorNext
    BY <1>1, <1>2, <1>3, <2>4 DEF IntakeArrives
  <2>5. ASSUME NEW t \in Activations, NEW p \in Templates, ActivationArrives(t, p)
        PROVE  UNCHANGED executorVars
    BY <2>5 DEF ActivationArrives
  <2> QED BY <1>4, <2>1, <2>2, <2>3, <2>4, <2>5 DEF Arrives
<1>5. CASE \E t \in Tasks : Begins(t) \/ Ends(t)
  BY <1>5 DEF Begins, Ends, ExecutorNext
<1>6. CASE \/ \E t \in Intakes : MessageJudged(t)
           \/ RoundSettles
           \/ \E p \in Templates, c \in Channels : EditTemplate(p, c)
           \/ UNCHANGED vars
  BY <1>6 DEF MessageJudged, RoundSettles, EditTemplate, vars
<1> QED BY <1>4, <1>5, <1>6 DEF Next

\* The safety half of ImplementsKeyedQueue: with commands, activations, resets,
\* messages and reconciliations as its callers the executor is still a queue for
\* each key (the routes of rounds.ts, moderation.ts, leaderboard.ts; discord-adapter.ts).
THEOREM AdministrationQueues == Spec => Queue!SafetySpec
<1>1. Spec => ExecutorSpec
  <2>1. Init => ExecutorInit
    BY DEF Init
  <2> QED BY <2>1, StepsOfTheExecutor, AdministrationInvariant, PTL DEF Spec, ExecutorSpec
<1> QED BY <1>1, ExecutorIsAQueue, PTL
=============================================================================
