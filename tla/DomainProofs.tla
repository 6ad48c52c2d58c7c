---------------------------- MODULE DomainProofs ----------------------------
(***************************************************************************)
(* Theorems about the pure functions of src/domain and the form of a       *)
(* template, as MCDomain drives them: for inputs of any size and for any   *)
(* base, limits and kinds of announcements, where TLC compares them with   *)
(* their references up to a bound.                                         *)
(*                                                                         *)
(* DomainInv types the subject and says of penalties that a player was     *)
(* charged their worst severity, and that it is the one of their furthest  *)
(* break.  The rest follows from it by facts about the functions.  What    *)
(* has to be shown of numbers or sets of every size is put as: the set of  *)
(* those of which it holds contains 0 and the next of each, or every set   *)
(* whose smaller ones it contains, so it contains all of them.             *)
(***************************************************************************)
EXTENDS MCDomain, SequenceTheorems, FiniteSetTheorems, WellFoundedInduction, TLAPS

AwardSubjects ==
    [about : {"awards"}, counts : UNION {[S -> Nat] : S \in SUBSET Contributors \ {{}}}]

ChargedOnce(s) ==
    /\ s.required \in Nat /\ s.accepted \in 1 .. s.required /\ s.furthest \in 0 .. s.required
    /\ s.worst = IF s.furthest = 0 THEN 0 ELSE PenaltySeverity(s.furthest, s.required)
    /\ s.charged = s.worst

PenaltySubjects ==
    {s \in [about : {"penalties"}, required : Int, accepted : Int, worst : Int,
            furthest : Int, charged : Int] : ChargedOnce(s)}

TemplateSubjects ==
    [about : {"template"}, start : Nat, target : 0 .. MaxTarget, step : Nat,
     skipRules : Seq(Predicates), bonusRules : Seq(Predicates)]

MessageSubjects == [about : {"message"}, content : Seq(Digits \union {Letter})]

\* Rules that skip have no id.
SkipRows == {row \in Rows : row.id = ""}

FormSubjects ==
    [about : {"form"}, skip : Seq(SkipRows), bonus : Seq(Rows),
     texts : [AnnouncementKinds -> Texts]]

DomainInv ==
    subject \in AwardSubjects \union PenaltySubjects \union TemplateSubjects
                  \union MessageSubjects \union FormSubjects

-----------------------------------------------------------------------------
(* The invariant. *)

LEMMA DomainInit == Init => DomainInv
<1> SUFFICES ASSUME Init PROVE DomainInv
  OBVIOUS
<1>1. CASE subject \in Awards
  <2>1. PICK S \in SUBSET Contributors \ {{}} : subject.counts \in [S -> {1}]
    BY <1>1 DEF Awards
  <2>2. subject = [about |-> "awards", counts |-> subject.counts]
    BY <1>1 DEF Awards
  <2>3. subject.counts \in [S -> Nat]
    BY <2>1
  <2>4. subject.counts \in UNION {[T -> Nat] : T \in SUBSET Contributors \ {{}}}
    BY <2>3
  <2>5. subject \in AwardSubjects
    BY <2>2, <2>4 DEF AwardSubjects
  <2> QED BY <2>5 DEF DomainInv
<1>2. CASE subject \in Penalties
  <2>1. subject \in PenaltySubjects
    BY <1>2 DEF Penalties, PenaltySubjects, ChargedOnce
  <2> QED BY <2>1 DEF DomainInv
<1>3. CASE subject \in Templates
  <2>1. subject \in TemplateSubjects
    <3>1. << >> \in Seq(Predicates)
      OBVIOUS
    <3>2. 0 .. MaxStart \subseteq Nat /\ 0 .. MaxStep \subseteq Nat
      OBVIOUS
    <3>3. PICK start \in Nat, target \in 0 .. MaxTarget, step \in Nat :
            subject = [about |-> "template", start |-> start, target |-> target,
                       step |-> step, skipRules |-> << >>, bonusRules |-> << >>]
      BY <1>3, <3>2 DEF Templates
    <3> QED BY <3>1, <3>3 DEF TemplateSubjects
  <2> QED BY <2>1 DEF DomainInv
<1>4. CASE subject = NothingTyped
  <2>1. subject \in MessageSubjects
    BY <1>4 DEF NothingTyped, MessageSubjects
  <2> QED BY <2>1 DEF DomainInv
<1>5. CASE subject \in Forms
  <2>1. subject \in FormSubjects
    <3>1. << >> \in Seq(Rows) /\ << >> \in Seq(SkipRows)
      OBVIOUS
    <3> QED BY <1>5, <3>1 DEF Forms, FormSubjects
  <2> QED BY <2>1 DEF DomainInv
<1> QED BY <1>1, <1>2, <1>3, <1>4, <1>5 DEF Init

\* Further into the round a break never costs less.
LEMMA FurtherCostsMore ==
    ASSUME NEW required \in Nat, NEW a \in 1 .. required, NEW b \in 1 .. required, a <= b
    PROVE  /\ PenaltySeverity(a, required) \in {-2, -3, -4, -5}
           /\ PenaltySeverity(b, required) <= PenaltySeverity(a, required)
BY DEF PenaltySeverity

LEMMA DomainBreak ==
    ASSUME subject \in PenaltySubjects, Break
    PROVE  subject' \in PenaltySubjects
<1> DEFINE required == subject.required
           accepted == subject.accepted
           worst == subject.worst
           furthest == subject.furthest
           severity == PenaltySeverity(accepted, required)
           worse == IF severity < worst THEN severity ELSE worst
           further == IF furthest < accepted THEN accepted ELSE furthest
           charged == subject.charged + AdditionalPenalty(worst, severity)
<1>1. subject' = [about |-> "penalties", required |-> required, accepted |-> 1, worst |-> worse,
                  furthest |-> further, charged |-> charged]
  BY DEF Break, PenaltySubjects
<1>2. /\ required \in Nat /\ accepted \in 1 .. required /\ furthest \in 0 .. required
      /\ worst = IF furthest = 0 THEN 0 ELSE PenaltySeverity(furthest, required)
      /\ subject.charged = worst
  BY DEF PenaltySubjects, ChargedOnce
<1> HIDE DEF required, accepted, worst, furthest
<1>3. severity \in {-2, -3, -4, -5}
  BY <1>2, FurtherCostsMore
<1>4. furthest # 0 => /\ PenaltySeverity(furthest, required) \in {-2, -3, -4, -5}
                      /\ furthest <= accepted => severity <= worst
                      /\ accepted <= furthest => worst <= severity
  BY <1>2, FurtherCostsMore
<1>5. worse = PenaltySeverity(further, required)
  BY <1>2, <1>3, <1>4
<1>6. charged = worse
  BY <1>2, <1>3, <1>4 DEF AdditionalPenalty
<1>7. further \in 1 .. required
  BY <1>2
<1> QED BY <1>1, <1>2, <1>3, <1>5, <1>6, <1>7 DEF PenaltySubjects, ChargedOnce

LEMMA DomainStep == DomainInv /\ [Next]_subject => DomainInv'
<1> SUFFICES ASSUME DomainInv, [Next]_subject PROVE DomainInv'
  OBVIOUS
<1> USE DEF About
<1>1. CASE Contribute
  <2>1. subject \in AwardSubjects
    BY <1>1 DEF Contribute, DomainInv, AwardSubjects, PenaltySubjects, TemplateSubjects,
                MessageSubjects, FormSubjects
  <2>2. PICK S \in SUBSET Contributors \ {{}} : subject.counts \in [S -> Nat]
    BY <2>1 DEF AwardSubjects
  <2>3. PICK c \in S : subject' = [subject EXCEPT !.counts[c] = @ + 1]
    BY <1>1, <2>2 DEF Contribute
  <2>4. subject = [about |-> "awards", counts |-> subject.counts]
    BY <2>1 DEF AwardSubjects
  <2>5. subject' = [about |-> "awards", counts |-> [subject.counts EXCEPT ![c] = @ + 1]]
    BY <2>3, <2>4
  <2>6. [subject.counts EXCEPT ![c] = @ + 1] \in [S -> Nat]
    BY <2>2
  <2>7. subject' \in AwardSubjects
    BY <2>5, <2>6 DEF AwardSubjects
  <2> QED BY <2>7 DEF DomainInv
<1>2. CASE Advance \/ Break
  <2>1. subject \in PenaltySubjects
    BY <1>2 DEF Advance, Break, DomainInv, AwardSubjects, PenaltySubjects, TemplateSubjects,
                MessageSubjects, FormSubjects
  <2>2. CASE Advance
    <3>1. subject' \in PenaltySubjects
      BY <2>1, <2>2 DEF Advance, PenaltySubjects, ChargedOnce
    <3> QED BY <3>1 DEF DomainInv
  <2>3. CASE Break
    BY <2>1, <2>3, DomainBreak DEF DomainInv
  <2> QED BY <1>2, <2>2, <2>3
<1>3. CASE AddRule
  <2>1. subject \in TemplateSubjects
    BY <1>3 DEF AddRule, DomainInv, AwardSubjects, PenaltySubjects, TemplateSubjects,
                MessageSubjects, FormSubjects
  <2>2. subject' \in TemplateSubjects
    <3>1. PICK predicate \in Predicates :
            \/ subject' = [subject EXCEPT !.skipRules = Append(@, predicate)]
            \/ subject' = [subject EXCEPT !.bonusRules = Append(@, predicate)]
      BY <1>3 DEF AddRule
    <3>2. /\ Append(subject.skipRules, predicate) \in Seq(Predicates)
          /\ Append(subject.bonusRules, predicate) \in Seq(Predicates)
      BY <2>1 DEF TemplateSubjects
    <3> HIDE DEF Predicates
    <3> QED BY <2>1, <3>1, <3>2 DEF TemplateSubjects
  <2> QED BY <2>2 DEF DomainInv
<1>4. CASE Type
  <2>1. subject \in MessageSubjects
    BY <1>4 DEF Type, DomainInv, AwardSubjects, PenaltySubjects, TemplateSubjects,
                MessageSubjects, FormSubjects
  <2>2. subject' \in MessageSubjects
    <3> DEFINE characters == Digits \union {Letter}
    <3>1. PICK character \in characters :
            subject' = [subject EXCEPT !.content = Append(@, character)]
      BY <1>4 DEF Type
    <3>2. Append(subject.content, character) \in Seq(characters)
      <4>1. subject.content \in Seq(characters)
        BY <2>1 DEF MessageSubjects
      <4> HIDE DEF characters
      <4> QED BY <4>1
    <3> HIDE DEF characters
    <3>3. PICK content \in Seq(characters) : subject = [about |-> "message", content |-> content]
      BY <2>1 DEF MessageSubjects, characters
    <3>4. subject' = [about |-> "message", content |-> Append(content, character)]
      BY <3>1, <3>3
    <3>5. Append(content, character) \in Seq(characters)
      BY <3>2, <3>3
    <3> QED BY <3>4, <3>5 DEF MessageSubjects, characters
  <2> QED BY <2>2 DEF DomainInv
<1>5. CASE AddRow
  <2>1. subject \in FormSubjects
    BY <1>5 DEF AddRow, DomainInv, AwardSubjects, PenaltySubjects, TemplateSubjects,
                MessageSubjects, FormSubjects
  <2>2. subject' \in FormSubjects
    <3>1. PICK row \in Rows :
            \/ row.id = "" /\ subject' = [subject EXCEPT !.skip = Append(@, row)]
            \/ subject' = [subject EXCEPT !.bonus = Append(@, row)]
      BY <1>5 DEF AddRow
    <3>2. /\ row.id = "" => Append(subject.skip, row) \in Seq(SkipRows)
          /\ Append(subject.bonus, row) \in Seq(Rows)
      <4>1. /\ subject.skip \in Seq(SkipRows)
            /\ subject.bonus \in Seq(Rows)
        BY <2>1 DEF FormSubjects
      <4>2. row.id = "" => row \in SkipRows
        BY DEF SkipRows
      <4>3. row.id = "" => Append(subject.skip, row) \in Seq(SkipRows)
        BY <4>1, <4>2, AppendProperties
      <4>4. Append(subject.bonus, row) \in Seq(Rows)
        BY <4>1, AppendProperties
      <4> QED BY <4>3, <4>4
    <3> QED BY <2>1, <3>1, <3>2 DEF FormSubjects
  <2> QED BY <2>2 DEF DomainInv
<1>6. CASE UNCHANGED subject
  BY <1>6 DEF DomainInv
<1> QED BY <1>1, <1>2, <1>3, <1>4, <1>5, <1>6 DEF Next

\* Every subject is what the functions are given.
THEOREM DomainInvariant == Spec => []DomainInv
BY DomainInit, DomainStep, PTL DEF Spec

-----------------------------------------------------------------------------
(* Induction, for sets: the library's theorems take a predicate, which the *)
(* provers at hand cannot instantiate.                                     *)

LEMMA SetInduction ==
    ASSUME NEW N \in SUBSET Nat, 0 \in N, \A n \in N : n + 1 \in N
    PROVE  N = Nat
<1>1. SUFFICES ASSUME Nat \ N # {} PROVE FALSE
  OBVIOUS
<1>2. ASSUME NEW R, IsWellFoundedOn(R, Nat), \A x, y \in Nat : y < x => <<y, x>> \in R
      PROVE  \E x \in Nat \ N : \A y \in Nat \ N : ~ (y < x)
  <2>1. PICK x \in Nat \ N : \A y \in Nat \ N : ~ (<<y, x>> \in R)
    BY <1>1, <1>2, WFMin
  <2> QED BY <1>2, <2>1
<1>3. IsWellFoundedOn(OpToRel(<, Nat), Nat)
  BY NatLessThanWellFounded, Zenon
<1>4. \A x, y \in Nat : y < x => <<y, x>> \in OpToRel(<, Nat)
  BY Zenon DEF OpToRel
<1>5. PICK x \in Nat \ N : \A y \in Nat \ N : ~ (y < x)
  BY <1>2, <1>3, <1>4, Zenon
<1>6. x # 0 /\ x - 1 \in Nat /\ x - 1 < x
  BY <1>5
<1>7. x - 1 \in N
  BY <1>5, <1>6
<1>8. (x - 1) + 1 \in N
  BY <1>7
<1> QED BY <1>5, <1>8

\* What holds of every set of n elements, by induction on n.
LEMMA SizeInduction ==
    ASSUME NEW S, IsFiniteSet(S), NEW F \in SUBSET SUBSET S,
           \A T \in SUBSET S : (\A x \in T : T \ {x} \in F) => T \in F
    PROVE  SUBSET S \subseteq F
<1> DEFINE N == {n \in Nat : \A T \in SUBSET S : Cardinality(T) = n => T \in F}
<1>1. \A T \in SUBSET S : IsFiniteSet(T) /\ Cardinality(T) \in Nat
  BY FS_Subset, FS_CardinalityType
<1>2. 0 \in N
  <2>1. \A T \in SUBSET S : Cardinality(T) = 0 => T = {}
    BY <1>1, FS_EmptySet
  <2> QED BY <2>1
<1>3. ASSUME NEW n \in N PROVE n + 1 \in N
  <2>1. SUFFICES ASSUME NEW T \in SUBSET S, Cardinality(T) = n + 1 PROVE T \in F
    OBVIOUS
  <2>2. ASSUME NEW x \in T PROVE T \ {x} \in F
    <3>1. Cardinality(T \ {x}) = Cardinality(T) - 1
      BY <1>1, FS_RemoveElement
    <3>2. Cardinality(T \ {x}) = n
      BY <2>1, <3>1
    <3> QED BY <3>2
  <2> QED BY <2>2
<1>4. N = Nat
  <2> HIDE DEF N
  <2>1. N \subseteq Nat
    BY DEF N
  <2> QED BY <1>2, <1>3, <2>1, SetInduction
<1> QED BY <1>1, <1>4

\* A fold over the subsets of a finite set S, with values in V, that takes the
\* elements in an order of its own: it is defined.
CanFold(S, V, base, pick, step) ==
    /\ IsFiniteSet(S) /\ base \in V /\ step \in [S -> [V -> V]]
    /\ \A T \in SUBSET S : T # {} => pick[T] \in T

IsFoldOf(it, S, V, base, pick, step) ==
    /\ it \in [SUBSET S -> V]
    /\ \A T \in SUBSET S :
         it[T] = IF T = {} THEN base ELSE step[pick[T]][it[T \ {pick[T]}]]

LEMMA FoldExists ==
    ASSUME NEW S, NEW V, NEW base, NEW pick, NEW step, CanFold(S, V, base, pick, step)
    PROVE  \E it : IsFoldOf(it, S, V, base, pick, step)
<1> USE DEF CanFold
<1> DEFINE Up(n) == {T \in SUBSET S : Cardinality(T) <= n}
           Later(it, T) == IF T = {} THEN base ELSE step[pick[T]][it[T \ {pick[T]}]]
           N == {n \in Nat : \E it \in [Up(n) -> V] : \A T \in Up(n) : it[T] = Later(it, T)}
<1>1. \A T \in SUBSET S : /\ IsFiniteSet(T) /\ Cardinality(T) \in Nat
                          /\ Cardinality(T) <= Cardinality(S)
  BY FS_Subset, FS_CardinalityType
<1>2. \A T \in SUBSET S : T # {} => /\ pick[T] \in T /\ pick[T] \in S
                                    /\ Cardinality(T \ {pick[T]}) = Cardinality(T) - 1
  BY <1>1, FS_RemoveElement
<1>3. 0 \in N
  <2>1. \A T \in Up(0) : T = {}
    BY <1>1, FS_EmptySet
  <2>2. [T \in Up(0) |-> base] \in [Up(0) -> V]
    OBVIOUS
  <2>3. \A T \in Up(0) : [U \in Up(0) |-> base][T] = Later([U \in Up(0) |-> base], T)
    BY <2>1
  <2> QED BY <2>2, <2>3
<1>4. ASSUME NEW n \in N PROVE n + 1 \in N
  <2>1. PICK it \in [Up(n) -> V] : \A T \in Up(n) : it[T] = Later(it, T)
    OBVIOUS
  <2> DEFINE jt == [T \in Up(n + 1) |-> Later(it, T)]
  <2>2. ASSUME NEW T \in Up(n + 1), T # {}
        PROVE  T \ {pick[T]} \in Up(n)
    BY <1>1, <1>2, <2>2
  <2>3. ASSUME NEW T \in Up(n + 1) PROVE Later(it, T) \in V
    <3>1. CASE T = {}
      BY <3>1
    <3>2. CASE T # {}
      <4>1. it[T \ {pick[T]}] \in V /\ pick[T] \in S
        BY <1>2, <2>2, <3>2
      <4>2. \A x \in S, v \in V : step[x][v] \in V
        OBVIOUS
      <4>3. step[pick[T]][it[T \ {pick[T]}]] \in V
        BY <4>1, <4>2
      <4> QED BY <3>2, <4>3
    <3> QED BY <3>1, <3>2
  <2>4. \A T \in Up(n) : T \in Up(n + 1) /\ jt[T] = it[T]
    <3>1. \A T \in Up(n) : T \in Up(n + 1)
      BY <1>1
    <3> HIDE DEF Up, Later
    <3> QED BY <2>1, <3>1
  <2>5. ASSUME NEW T \in Up(n + 1) PROVE jt[T] = Later(jt, T)
    BY <2>2, <2>4
  <2>6. jt \in [Up(n + 1) -> V]
    BY <2>3
  <2>7. \E kt \in [Up(n + 1) -> V] : \A T \in Up(n + 1) : kt[T] = Later(kt, T)
    <3> HIDE DEF jt, Later, Up
    <3> QED BY <2>5, <2>6
  <2> QED
    <3> HIDE DEF jt, Later, Up
    <3> QED BY <2>7
<1>5. N = Nat
  <2> HIDE DEF N
  <2>1. N \subseteq Nat
    BY DEF N
  <2> QED BY <1>3, <1>4, <2>1, SetInduction
<1>6. Cardinality(S) \in N
  BY <1>1, <1>5
<1>7. Up(Cardinality(S)) = SUBSET S
  BY <1>1
<1>8. \E it \in [SUBSET S -> V] : \A T \in SUBSET S : it[T] = Later(it, T)
  <2> HIDE DEF Later, Up
  <2>1. \E it \in [Up(Cardinality(S)) -> V] : \A T \in Up(Cardinality(S)) : it[T] = Later(it, T)
    BY <1>6
  <2> QED BY <1>7, <2>1
<1> QED BY <1>8 DEF IsFoldOf

-----------------------------------------------------------------------------
(* Awards. *)

\* What the awards are measured against is a number.
LEMMA TotalCountType ==
    ASSUME NEW S, IsFiniteSet(S), NEW counts \in [S -> Nat]
    PROVE  TotalCount(counts) \in Nat
<1> DEFINE Picked(T) == CHOOSE x \in T : TRUE
           IsFold(it) == it = [T \in SUBSET S |-> IF T = {} THEN 0
                                                  ELSE counts[Picked(T)] + it[T \ {Picked(T)}]]
           fold == CHOOSE it : IsFold(it)
           pick == [T \in SUBSET S |-> Picked(T)]
           step == [x \in S |-> [n \in Nat |-> counts[x] + n]]
<1>1. TotalCount(counts) = fold[S]
  <2>1. DOMAIN counts = S
    OBVIOUS
  <2> QED BY <2>1, Zenon DEF TotalCount, FoldFunction, FoldFunctionOnSet, MapThenFoldSet
<1>2. \A T \in SUBSET S : T # {} => Picked(T) \in T
  OBVIOUS
<1>3. CanFold(S, Nat, 0, pick, step)
  BY <1>2 DEF CanFold
<1>4. PICK it : IsFold(it)
  <2>1. PICK it : IsFoldOf(it, S, Nat, 0, pick, step)
    <3> HIDE DEF pick, step
    <3> QED BY <1>3, FoldExists
  <2>2. ASSUME NEW T \in SUBSET S, T # {}
        PROVE  step[pick[T]][it[T \ {pick[T]}]] = counts[Picked(T)] + it[T \ {Picked(T)}]
    <3>1. pick[T] = Picked(T) /\ Picked(T) \in S
      BY <1>2, <2>2
    <3>2. it[T \ {Picked(T)}] \in Nat
      BY <2>1 DEF IsFoldOf
    <3>3. \A x \in S, n \in Nat : step[x][n] = counts[x] + n
      OBVIOUS
    <3> HIDE DEF pick, step, Picked
    <3> QED BY <3>1, <3>2, <3>3
  <2>3. \A T \in SUBSET S :
          it[T] = IF T = {} THEN 0 ELSE counts[Picked(T)] + it[T \ {Picked(T)}]
    <3> HIDE DEF pick, step, Picked
    <3> QED BY <2>1, <2>2 DEF IsFoldOf
  <2>4. it = [T \in SUBSET S |-> it[T]]
    BY <2>1 DEF IsFoldOf
  <2> HIDE DEF pick, step, Picked
  <2>5. IsFold(it)
    BY <2>3, <2>4
  <2> QED BY <2>5
<1>5. IsFold(fold)
  <2> HIDE DEF IsFold
  <2> QED BY <1>4
<1> DEFINE F == {T \in SUBSET S : fold[T] \in Nat}
<1>6. ASSUME NEW T \in SUBSET S, \A x \in T : T \ {x} \in F
      PROVE  T \in F
  <2>1. fold[T] = IF T = {} THEN 0 ELSE counts[Picked(T)] + fold[T \ {Picked(T)}]
    <3> HIDE DEF fold
    <3> QED BY <1>5
  <2>2. T # {} => /\ counts[Picked(T)] \in Nat
                  /\ fold[T \ {Picked(T)}] \in Nat
    BY <1>2, <1>6
  <2> HIDE DEF fold, Picked
  <2> QED BY <2>1, <2>2
<1>7. SUBSET S \subseteq F
  <2>1. \A G \in SUBSET SUBSET S :
          (\A T \in SUBSET S : (\A x \in T : T \ {x} \in G) => T \in G)
            => SUBSET S \subseteq G
    BY SizeInduction
  <2>2. F \in SUBSET SUBSET S
    OBVIOUS
  <2> HIDE DEF F
  <2> QED BY <1>6, <2>1, <2>2, Zenon
<1> HIDE DEF fold
<1> QED BY <1>1, <1>7

\* 2, and one more for each of three limits that is reached.
LEMMA TierCounts ==
    ASSUME NEW relative \in Nat, NEW total \in Nat
    PROVE  AwardTier(relative, total) =
             2 + Cardinality({tier \in {75, 110, 150} : relative * 100 >= tier * total})
<1> DEFINE Q == {tier \in {75, 110, 150} : relative * 100 >= tier * total}
<1>1. /\ Cardinality({}) = 0 /\ Cardinality({75}) = 1
      /\ Cardinality({75, 110}) = 2 /\ Cardinality({75, 110, 150}) = 3
  <2>1. /\ IsFiniteSet({}) /\ Cardinality({}) = 0
    BY FS_EmptySet
  <2>2. IsFiniteSet({75}) /\ Cardinality({75}) = 1
    BY FS_Singleton
  <2>3. /\ IsFiniteSet({75} \union {110})
        /\ Cardinality({75} \union {110}) = 2
    BY <2>2, FS_AddElement
  <2>4. Cardinality({75, 110} \union {150}) = 3
    <3>1. {75} \union {110} = {75, 110} /\ 150 \notin {75, 110}
      OBVIOUS
    <3> QED BY <2>3, <3>1, FS_AddElement
  <2>5. {75} \union {110} = {75, 110} /\ {75, 110} \union {150} = {75, 110, 150}
    OBVIOUS
  <2> QED BY <2>1, <2>2, <2>3, <2>4, <2>5
<1>2. ASSUME relative * 2 >= total * 3
      PROVE  AwardTier(relative, total) = 5 /\ Q = {75, 110, 150}
  BY <1>2 DEF AwardTier
<1>3. ASSUME relative * 2 < total * 3, relative * 10 >= total * 11
      PROVE  AwardTier(relative, total) = 4 /\ Q = {75, 110}
  BY <1>3 DEF AwardTier
<1>4. ASSUME relative * 10 < total * 11, relative * 4 >= total * 3
      PROVE  AwardTier(relative, total) = 3 /\ Q = {75}
  BY <1>4 DEF AwardTier
<1>5. ASSUME relative * 4 < total * 3
      PROVE  AwardTier(relative, total) = 2 /\ Q = {}
  BY <1>5 DEF AwardTier
<1>6. AwardTier(relative, total) = 2 + Cardinality(Q)
  <2> HIDE DEF Q
  <2> QED BY <1>1, <1>2, <1>3, <1>4, <1>5
<1> QED BY <1>6

\* Any finite set of contributors, with any counts.
THEOREM AwardsAreTiersOfShares == Spec => []AwardIsTierOfShare
<1>1. ASSUME DomainInv, About("awards")
      PROVE  AwardIsTierOfShare
  <2> DEFINE counts == subject.counts
             total == TotalCount(counts)
  <2>1. subject \in AwardSubjects
    BY <1>1 DEF DomainInv, AwardSubjects, PenaltySubjects, TemplateSubjects, MessageSubjects,
                FormSubjects, About
  <2>2. PICK S \in SUBSET Contributors \ {{}} : counts \in [S -> Nat]
    BY <2>1 DEF AwardSubjects
  <2>3. IsFiniteSet(S) /\ Cardinality(S) \in Nat /\ DOMAIN counts = S
    BY <2>2, ContributorsAssumption, FS_Subset, FS_CardinalityType
  <2> HIDE DEF counts
  <2>4. total \in Nat
    BY <2>2, <2>3, TotalCountType
  <2> HIDE DEF total
  <2>5. ASSUME NEW c \in DOMAIN counts
        PROVE  ParticipationAwards(counts)[c] =
                 2 + Cardinality({tier \in {75, 110, 150} :
                        counts[c] * Cardinality(DOMAIN counts) * 100 >= tier * total})
    <3>1. Relative(counts, c) = counts[c] * Cardinality(DOMAIN counts)
      BY DEF Relative
    <3>2. Relative(counts, c) \in Nat
      BY <2>2, <2>3, <3>1
    <3>3. ParticipationAwards(counts)[c] = AwardTier(Relative(counts, c), total)
      BY DEF ParticipationAwards, total
    <3> QED BY <2>4, <3>1, <3>2, <3>3, TierCounts
  <2> QED BY <2>5 DEF AwardIsTierOfShare, counts, total
<1>2. ~About("awards") => AwardIsTierOfShare
  BY DEF AwardIsTierOfShare
<1> QED BY <1>1, <1>2, DomainInvariant, PTL

-----------------------------------------------------------------------------
(* Penalties. *)

\* Any number of breaks, in any order, for any length of the round.
THEOREM ChargesAlwaysTelescope == Spec => []ChargesTelescope
<1>1. ASSUME subject \in PenaltySubjects, subject.furthest # 0
      PROVE  subject.charged =
               -1 - Cardinality({q \in 0 .. 3 : q * subject.required < 4 * subject.furthest})
  <2> DEFINE r == subject.required
             f == subject.furthest
             Q == {q \in 0 .. 3 : q * r < 4 * f}
  <2>1. /\ r \in Nat /\ f \in 1 .. r
        /\ subject.charged = PenaltySeverity(f, r)
    BY <1>1 DEF PenaltySubjects, ChargedOnce
  <2> HIDE DEF r, f
  <2>2. \A k \in 0 .. 3 : Cardinality(0 .. k) = k + 1
    BY FS_Interval
  <2>3. ASSUME 4 * f <= r
        PROVE  PenaltySeverity(f, r) = -1 - Cardinality(Q)
    <3>1. Q = 0 .. 0
      BY <2>1, <2>3
    <3>2. PenaltySeverity(f, r) = -2
      BY <2>1, <2>3 DEF PenaltySeverity
    <3> QED BY <2>2, <3>1, <3>2
  <2>4. ASSUME 4 * f > r /\ 2 * f <= r
        PROVE  PenaltySeverity(f, r) = -1 - Cardinality(Q)
    <3>1. Q = 0 .. 1
      BY <2>1, <2>4
    <3>2. PenaltySeverity(f, r) = -3
      BY <2>1, <2>4 DEF PenaltySeverity
    <3> QED BY <2>2, <3>1, <3>2
  <2>5. ASSUME 2 * f > r /\ 4 * f <= 3 * r
        PROVE  PenaltySeverity(f, r) = -1 - Cardinality(Q)
    <3>1. Q = 0 .. 2
      BY <2>1, <2>5
    <3>2. PenaltySeverity(f, r) = -4
      BY <2>1, <2>5 DEF PenaltySeverity
    <3> QED BY <2>2, <3>1, <3>2
  <2>6. ASSUME 4 * f > 3 * r
        PROVE  PenaltySeverity(f, r) = -1 - Cardinality(Q)
    <3>1. Q = 0 .. 3
      BY <2>1, <2>6
    <3>2. PenaltySeverity(f, r) = -5
      BY <2>1, <2>6 DEF PenaltySeverity
    <3> QED BY <2>2, <3>1, <3>2
  <2>7. PenaltySeverity(f, r) = -1 - Cardinality(Q)
    <3> HIDE DEF Q
    <3> QED BY <2>1, <2>3, <2>4, <2>5, <2>6
  <2> QED BY <2>1, <2>7 DEF r, f
<1>2. subject \in PenaltySubjects /\ subject.furthest = 0 => subject.charged = 0
  BY DEF PenaltySubjects, ChargedOnce
<1>3. DomainInv /\ About("penalties") => subject \in PenaltySubjects
  BY DEF DomainInv, AwardSubjects, PenaltySubjects, TemplateSubjects, MessageSubjects,
         FormSubjects, About
<1>4. DomainInv => ChargesTelescope
  BY <1>1, <1>2, <1>3 DEF ChargesTelescope
<1> QED BY <1>4, DomainInvariant, PTL

-----------------------------------------------------------------------------
(* Numbers.  A writing of a string of digits gives the number of each of   *)
(* its prefixes.                                                           *)

\* With a zero written after it.
Shifted(x) == Base * x

IsWriting(w, s) ==
    /\ w \in [0 .. Len(s) -> Nat]
    /\ \A n \in 0 .. Len(s) : w[n] = IF n = 0 THEN 0 ELSE s[n] + Shifted(w[n - 1])

LEMMA Products ==
    ASSUME NEW x \in Nat, NEW y \in Nat
    PROVE  /\ Shifted(x) \in Nat
           /\ x > y => Shifted(x) >= Shifted(y) + Base
           /\ Shifted(x) >= x
<1>1. Base \in Nat /\ Base >= 2
  BY BaseAssumption
<1>2. Base * x \in Nat
  BY <1>1
<1>3. ASSUME x > y PROVE Base * x >= Base * y + Base
  <2>1. x >= y + 1
    BY <1>3
  <2>2. Base * x >= Base * (y + 1)
    BY <1>1, <2>1
  <2>3. Base * (y + 1) = Base * y + Base
    BY <1>1
  <2> QED BY <2>2, <2>3
<1>4. Base * x >= x
  BY <1>1
<1> QED BY <1>2, <1>3, <1>4 DEF Shifted

LEMMA DigitsAreNumbers ==
    ASSUME NEW s \in Seq(Digits)
    PROVE  /\ Len(s) \in Nat
           /\ \A i \in 1 .. Len(s) : s[i] \in Nat /\ s[i] < Base
<1>1. Base \in Nat
  BY BaseAssumption
<1>2. \A i \in 1 .. Len(s) : s[i] \in Digits
  OBVIOUS
<1> QED BY <1>1, <1>2 DEF Digits

\* Every string of digits has one, and Written is where it ends.
LEMMA WrittenIsAWriting ==
    ASSUME NEW s \in Seq(Digits)
    PROVE  \E w : IsWriting(w, s) /\ Written(s) = w[Len(s)]
<1> DEFINE Later(w, n) == IF n = 0 THEN 0 ELSE s[n] + Shifted(w[n - 1])
           Partial(w, m) == w \in [0 .. m -> Nat] /\ \A n \in 0 .. m : w[n] = Later(w, n)
           N == {m \in Nat : m <= Len(s) => \E w : Partial(w, m)}
           IsIt(w) == w = [n \in 0 .. Len(s) |-> Later(w, n)]
           written == CHOOSE w : IsIt(w)
<1>1. Len(s) \in Nat /\ \A i \in 1 .. Len(s) : s[i] \in Nat
  BY DigitsAreNumbers
<1>2. 0 \in N
  <2>1. Partial([n \in 0 .. 0 |-> 0], 0)
    OBVIOUS
  <2> QED BY <2>1
<1>3. ASSUME NEW m \in N PROVE m + 1 \in N
  <2>1. m \in Nat
    BY DEF N
  <2>2. SUFFICES ASSUME m + 1 <= Len(s) PROVE \E w : Partial(w, m + 1)
    <3>1. m + 1 \in Nat
      BY <2>1
    <3> HIDE DEF Partial
    <3> QED BY <3>1
  <2>3. PICK w : Partial(w, m)
    <3>1. m <= Len(s)
      BY <1>1, <2>1, <2>2
    <3> HIDE DEF Partial
    <3> QED BY <3>1
  <2> DEFINE v == [n \in 0 .. (m + 1) |-> Later(w, n)]
  <2>4. ASSUME NEW n \in 0 .. (m + 1), n # 0
        PROVE  s[n] + Shifted(w[n - 1]) \in Nat
    <3>1. s[n] \in Nat /\ n - 1 \in 0 .. m
      BY <1>1, <2>1, <2>2, <2>4
    <3>2. w[n - 1] \in Nat
      BY <2>3, <3>1
    <3>3. Shifted(w[n - 1]) \in Nat
      BY <3>2, Products
    <3> QED BY <3>1, <3>3
  <2>5. v \in [0 .. (m + 1) -> Nat]
    BY <2>1, <2>4
  <2>6. \A n \in 0 .. m : v[n] = w[n]
    BY <2>1, <2>3
  <2>7. ASSUME NEW n \in 0 .. (m + 1) PROVE v[n] = Later(v, n)
    <3>1. n # 0 => v[n - 1] = w[n - 1]
      <4>1. n # 0 => n - 1 \in 0 .. m
        BY <2>1
      <4> HIDE DEF v
      <4> QED BY <2>6, <4>1
    <3> QED BY <3>1
  <2>8. Partial(v, m + 1)
    <3> HIDE DEF v, Later
    <3> QED BY <2>5, <2>7
  <2> HIDE DEF v, Partial
  <2> QED BY <2>8
<1>4. N = Nat
  <2> HIDE DEF N
  <2>1. N \subseteq Nat
    BY DEF N
  <2> QED BY <1>2, <1>3, <2>1, SetInduction
<1>5. PICK w : Partial(w, Len(s))
  BY <1>1, <1>4
<1>6. IsIt(w)
  <2>1. w = [n \in 0 .. Len(s) |-> w[n]]
    BY <1>5
  <2> HIDE DEF Later
  <2> QED BY <1>5, <2>1
<1>7. IsIt(written)
  <2> HIDE DEF IsIt
  <2> QED BY <1>6
<1>8. Written(s) = written[Len(s)]
  BY Zenon DEF Written, Shifted
<1>9. \A n \in 0 .. Len(s) : written[n] = Later(written, n)
  <2> HIDE DEF written, Later
  <2> QED BY <1>7
<1> DEFINE M == {m \in Nat : m <= Len(s) => written[m] \in Nat}
<1>10. 0 \in M
  <2> HIDE DEF written
  <2> QED BY <1>1, <1>9
<1>11. ASSUME NEW m \in M PROVE m + 1 \in M
  <2> HIDE DEF written
  <2>1. m \in Nat
    BY DEF M
  <2>2. SUFFICES ASSUME m + 1 <= Len(s) PROVE written[m + 1] \in Nat
    BY <2>1
  <2>3. written[m] \in Nat /\ s[m + 1] \in Nat /\ m + 1 \in 0 .. Len(s)
    BY <1>1, <2>1, <2>2
  <2>4. written[m + 1] = s[m + 1] + Shifted(written[m])
    <3>1. m + 1 # 0 /\ m + 1 - 1 = m
      BY <2>1
    <3> QED BY <1>9, <2>3, <3>1
  <2>5. Shifted(written[m]) \in Nat
    BY <2>3, Products
  <2> QED BY <2>3, <2>4, <2>5
<1>12. M = Nat
  <2> HIDE DEF M
  <2>1. M \subseteq Nat
    BY DEF M
  <2> QED BY <1>10, <1>11, <2>1, SetInduction
<1>13. IsWriting(written, s)
  <2> HIDE DEF written
  <2>1. DOMAIN written = 0 .. Len(s) /\ written = [n \in 0 .. Len(s) |-> written[n]]
    <3> HIDE DEF Later
    <3> QED BY <1>7
  <2>2. \A n \in 0 .. Len(s) : written[n] \in Nat
    BY <1>1, <1>12
  <2>3. written \in [0 .. Len(s) -> Nat]
    BY <2>1, <2>2
  <2> QED BY <1>9, <2>3 DEF IsWriting
<1> QED
  <2> HIDE DEF written
  <2> QED BY <1>8, <1>13

LEMMA WritingOn ==
    ASSUME NEW s \in Seq(Digits), NEW w, IsWriting(w, s), NEW n \in Nat, n + 1 <= Len(s)
    PROVE  /\ w[n + 1] = s[n + 1] + Shifted(w[n])
           /\ w[n] \in Nat /\ w[n + 1] \in Nat
           /\ s[n + 1] \in Nat /\ s[n + 1] < Base
<1>1. /\ n + 1 \in 0 .. Len(s) /\ n \in 0 .. Len(s) /\ n + 1 \in 1 .. Len(s)
      /\ n + 1 # 0 /\ n + 1 - 1 = n
  OBVIOUS
<1>2. w[n + 1] = s[n + 1] + Shifted(w[n + 1 - 1])
  BY <1>1 DEF IsWriting
<1>3. w[n] \in Nat /\ w[n + 1] \in Nat
  BY <1>1 DEF IsWriting
<1> QED BY <1>1, <1>2, <1>3, DigitsAreNumbers

\* What is greater at some place stays greater, whatever digits follow.
LEMMA GreaterStaysGreater ==
    ASSUME NEW a \in Seq(Digits), NEW b \in Seq(Digits), NEW w, NEW v,
           IsWriting(w, a), IsWriting(v, b),
           NEW z \in Nat, Len(a) = z + Len(b),
           NEW k \in 0 .. Len(b), w[z + k] > v[k]
    PROVE  w[Len(a)] > v[Len(b)]
<1> DEFINE N == {n \in Nat : k + n <= Len(b) => w[z + (k + n)] > v[k + n]}
<1>1. Len(a) \in Nat /\ Len(b) \in Nat
  OBVIOUS
<1>2. 0 \in N
  BY <1>1
<1>3. ASSUME NEW n \in N PROVE n + 1 \in N
  <2> DEFINE m == k + n
  <2>1. n \in Nat /\ m \in Nat
    BY DEF N
  <2>2. SUFFICES ASSUME m + 1 <= Len(b) PROVE w[z + (m + 1)] > v[m + 1]
    BY <2>1
  <2>3. w[z + m] > v[m]
    BY <1>1, <2>1, <2>2 DEF N
  <2> HIDE DEF m
  <2>4. z + m \in Nat /\ (z + m) + 1 <= Len(a) /\ z + (m + 1) = (z + m) + 1
    BY <1>1, <2>1, <2>2
  <2>5. /\ w[z + (m + 1)] = a[z + (m + 1)] + Shifted(w[z + m])
        /\ w[z + m] \in Nat /\ a[z + (m + 1)] \in Nat
    BY <2>4, WritingOn
  <2>6. /\ v[m + 1] = b[m + 1] + Shifted(v[m])
        /\ v[m] \in Nat /\ b[m + 1] \in Nat /\ b[m + 1] < Base
    BY <2>1, <2>2, WritingOn
  <2>7. /\ Shifted(w[z + m]) >= Shifted(v[m]) + Base
        /\ Shifted(w[z + m]) \in Nat /\ Shifted(v[m]) \in Nat /\ Base \in Nat
    BY <2>3, <2>5, <2>6, Products, BaseAssumption
  <2> QED
    <3>1. ASSUME NEW x \in Nat, NEW y \in Nat, NEW i \in Nat, NEW j \in Nat,
                 x >= y + Base, j < Base
          PROVE  i + x > j + y
      BY <3>1, BaseAssumption
    <3> HIDE DEF N
    <3> QED BY <2>5, <2>6, <2>7, <3>1
<1>4. N = Nat
  <2> HIDE DEF N
  <2>1. N \subseteq Nat
    BY DEF N
  <2> QED BY <1>2, <1>3, <2>1, SetInduction
<1>5. Len(b) - k \in N
  <2> HIDE DEF N
  <2> QED BY <1>1, <1>4
<1>6. k + (Len(b) - k) = Len(b)
  BY <1>1
<1> QED BY <1>1, <1>5, <1>6

\* What is equal stays equal while the digits are.
LEMMA EqualStaysEqual ==
    ASSUME NEW a \in Seq(Digits), NEW b \in Seq(Digits), NEW w, NEW v,
           IsWriting(w, a), IsWriting(v, b),
           NEW z \in Nat, w[z] = 0, NEW k \in 0 .. Len(b), z + k <= Len(a),
           \A i \in 1 .. k : a[z + i] = b[i]
    PROVE  w[z + k] = v[k]
<1> DEFINE N == {n \in Nat : n <= k => w[z + n] = v[n]}
<1>1. Len(a) \in Nat /\ Len(b) \in Nat
  OBVIOUS
<1>2. 0 \in N
  <2>1. v[0] = 0
    BY <1>1 DEF IsWriting
  <2> QED BY <2>1
<1>3. ASSUME NEW n \in N PROVE n + 1 \in N
  <2>1. n \in Nat
    BY DEF N
  <2>2. SUFFICES ASSUME n + 1 <= k PROVE w[z + (n + 1)] = v[n + 1]
    BY <2>1
  <2>3. w[z + n] = v[n]
    BY <1>1, <2>1, <2>2 DEF N
  <2>4. /\ z + n \in Nat /\ (z + n) + 1 <= Len(a) /\ z + (n + 1) = (z + n) + 1
        /\ n + 1 <= Len(b) /\ n + 1 \in 1 .. k
    BY <1>1, <2>1, <2>2
  <2>5. w[z + (n + 1)] = a[z + (n + 1)] + Shifted(w[z + n])
    BY <2>4, WritingOn
  <2>6. v[n + 1] = b[n + 1] + Shifted(v[n])
    BY <2>1, <2>4, WritingOn
  <2>7. a[z + (n + 1)] = b[n + 1]
    BY <2>4
  <2> HIDE DEF N
  <2> QED BY <2>3, <2>5, <2>6, <2>7
<1>4. N = Nat
  <2> HIDE DEF N
  <2>1. N \subseteq Nat
    BY DEF N
  <2> QED BY <1>2, <1>3, <2>1, SetInduction
<1>5. k \in N
  <2> HIDE DEF N
  <2> QED BY <1>1, <1>4
<1> QED BY <1>1, <1>5

LEMMA GreatestOfSome ==
    ASSUME NEW k \in Nat, NEW T \in SUBSET (1 .. k), T # {}
    PROVE  Max(T) \in T /\ \A i \in T : Max(T) >= i
<1> DEFINE HasOne(U) == \E g \in U : \A i \in U : g >= i
           N == {n \in Nat : \A U \in SUBSET (1 .. n) : U # {} => HasOne(U)}
<1>1. 0 \in N
  <2>1. 1 .. 0 = {}
    OBVIOUS
  <2> HIDE DEF HasOne
  <2> QED BY <2>1
<1>2. ASSUME NEW n \in N PROVE n + 1 \in N
  <2>1. n \in Nat
    BY DEF N
  <2>2. ASSUME NEW U \in SUBSET (1 .. (n + 1)), U # {} PROVE HasOne(U)
    <3>1. CASE n + 1 \in U
      BY <2>1, <3>1
    <3>2. CASE n + 1 \notin U
      <4>1. U \in SUBSET (1 .. n)
        BY <2>1, <3>2
      <4> HIDE DEF HasOne
      <4> QED BY <2>2, <4>1 DEF N
    <3> QED BY <3>1, <3>2
  <2> HIDE DEF HasOne
  <2> QED BY <2>1, <2>2
<1>3. N = Nat
  <2> HIDE DEF N
  <2>1. N \subseteq Nat
    BY DEF N
  <2> QED BY <1>1, <1>2, <2>1, SetInduction
<1>4. HasOne(T)
  <2> HIDE DEF HasOne
  <2> QED BY <1>3 DEF N
<1> QED BY <1>4, Zenon DEF Max

\* The fold of the code's conversion reaches the number of every prefix.
LEMMA ValueIsTheNumber ==
    ASSUME NEW s \in Seq(Digits), NEW w, IsWriting(w, s)
    PROVE  ValueOf(s) = w[Len(s)]
<1> DEFINE S == 1 .. Len(s)
           Greatest(T) == Max(T)
           IsFold(it) == it = [T \in SUBSET S |-> IF T = {} THEN 0
                                                  ELSE it[T \ {Greatest(T)}] * Base + s[Greatest(T)]]
           fold == CHOOSE it : IsFold(it)
           pick == [T \in SUBSET S |-> Greatest(T)]
           step == [x \in S |-> [n \in Nat |-> n * Base + s[x]]]
<1>1. ValueOf(s) = fold[S]
  <2>1. DOMAIN s = S
    OBVIOUS
  <2> QED BY <2>1, Zenon DEF ValueOf, FoldLeft, MapThenFoldSet
<1>2. \A T \in SUBSET S : T # {} => Greatest(T) \in T /\ \A i \in T : Greatest(T) >= i
  <2>1. Len(s) \in Nat
    OBVIOUS
  <2> QED BY <2>1, GreatestOfSome
<1> HIDE DEF Greatest
<1>3. ASSUME NEW x \in S, NEW n \in Nat
      PROVE  n * Base + s[x] \in Nat /\ n * Base + s[x] = s[x] + Shifted(n)
  <2>1. s[x] \in Nat /\ Base \in Nat
    BY DigitsAreNumbers, BaseAssumption
  <2>2. Shifted(n) \in Nat
    BY Products
  <2>3. n * Base = Shifted(n)
    BY <2>1 DEF Shifted
  <2> QED BY <2>1, <2>2, <2>3
<1>4. CanFold(S, Nat, 0, pick, step)
  <2>1. IsFiniteSet(S)
    BY FS_Interval
  <2>2. step \in [S -> [Nat -> Nat]]
    BY <1>3
  <2>3. \A T \in SUBSET S : T # {} => pick[T] \in T
    BY <1>2
  <2> HIDE DEF step, pick
  <2> QED BY <2>1, <2>2, <2>3 DEF CanFold
<1>5. PICK it : IsFold(it)
  <2>1. PICK it : IsFoldOf(it, S, Nat, 0, pick, step)
    <3> HIDE DEF pick, step, S
    <3> QED BY <1>4, FoldExists
  <2>2. ASSUME NEW T \in SUBSET S, T # {}
        PROVE  step[pick[T]][it[T \ {pick[T]}]] = it[T \ {Greatest(T)}] * Base + s[Greatest(T)]
    <3>1. pick[T] = Greatest(T) /\ Greatest(T) \in S
      BY <1>2, <2>2
    <3>2. it[T \ {Greatest(T)}] \in Nat
      BY <2>1 DEF IsFoldOf
    <3>3. \A x \in S, n \in Nat : step[x][n] = n * Base + s[x]
      OBVIOUS
    <3> HIDE DEF pick, step, S
    <3> QED BY <3>1, <3>2, <3>3
  <2>3. \A T \in SUBSET S :
          it[T] = IF T = {} THEN 0 ELSE it[T \ {Greatest(T)}] * Base + s[Greatest(T)]
    <3> HIDE DEF pick, step, S
    <3> QED BY <2>1, <2>2 DEF IsFoldOf
  <2>4. it = [T \in SUBSET S |-> it[T]]
    BY <2>1 DEF IsFoldOf
  <2> HIDE DEF pick, step, S
  <2>5. IsFold(it)
    BY <2>3, <2>4
  <2> QED BY <2>5
<1>6. IsFold(fold)
  <2> HIDE DEF IsFold
  <2> QED BY <1>5
<1> DEFINE N == {n \in Nat : n <= Len(s) => fold[1 .. n] = w[n]}
<1>7. \A T \in SUBSET S :
        fold[T] = IF T = {} THEN 0 ELSE fold[T \ {Greatest(T)}] * Base + s[Greatest(T)]
  <2> HIDE DEF fold
  <2> QED BY <1>6
<1> HIDE DEF fold
<1>8. 0 \in N
  <2>1. 1 .. 0 = {}
    OBVIOUS
  <2>2. fold[1 .. 0] = 0
    BY <1>7, <2>1
  <2>3. w[0] = 0
    BY DEF IsWriting
  <2> QED BY <2>2, <2>3
<1>9. ASSUME NEW n \in N PROVE n + 1 \in N
  <2>1. n \in Nat
    BY DEF N
  <2>2. SUFFICES ASSUME n + 1 <= Len(s) PROVE fold[1 .. (n + 1)] = w[n + 1]
    BY <2>1
  <2>3. fold[1 .. n] = w[n]
    BY <2>1, <2>2
  <2> DEFINE T == 1 .. (n + 1)
  <2>4. T \in SUBSET S /\ T # {} /\ n + 1 \in T /\ n + 1 \in S
    <3>1. Len(s) \in Nat
      OBVIOUS
    <3>2. T \subseteq S
      BY <2>1, <2>2, <3>1
    <3>3. n + 1 \in T /\ n + 1 \in S
      BY <2>1, <2>2, <3>1
    <3> HIDE DEF S, T, N
    <3> QED BY <3>2, <3>3
  <2>5. Greatest(T) = n + 1
    <3>1. Greatest(T) \in T /\ Greatest(T) >= n + 1
      BY <1>2, <2>4
    <3> QED BY <2>1, <3>1
  <2>6. T \ {n + 1} = 1 .. n
    BY <2>1
  <2> HIDE DEF T
  <2>7. fold[T] = fold[1 .. n] * Base + s[n + 1]
    BY <1>7, <2>4, <2>5, <2>6
  <2>8. w[n + 1] = s[n + 1] + Shifted(w[n]) /\ w[n] \in Nat
    BY <2>1, <2>2, WritingOn
  <2>9. fold[T] = w[n + 1]
    BY <1>3, <2>3, <2>4, <2>7, <2>8
  <2> QED BY <2>9 DEF T
<1>10. N = Nat
  <2> HIDE DEF N
  <2>1. N \subseteq Nat
    BY DEF N
  <2> QED BY <1>8, <1>9, <2>1, SetInduction
<1> QED BY <1>1, <1>10

\* Two strings of one length are equal or have a first difference.
LEMMA FirstDifference ==
    ASSUME NEW a \in Seq(Digits), NEW b \in Seq(Digits), Len(a) = Len(b),
           ~\E d \in 1 .. Len(a) : a[d] # b[d] /\ \A j \in 1 .. (d - 1) : a[j] = b[j]
    PROVE  \A i \in 1 .. Len(a) : a[i] = b[i]
<1> DEFINE N == {n \in Nat : n <= Len(a) => \A i \in 1 .. n : a[i] = b[i]}
<1>1. 0 \in N
  OBVIOUS
<1>2. ASSUME NEW n \in N PROVE n + 1 \in N
  <2>1. n \in Nat
    BY DEF N
  <2>2. SUFFICES ASSUME n + 1 <= Len(a) PROVE \A i \in 1 .. (n + 1) : a[i] = b[i]
    BY <2>1
  <2>3. \A i \in 1 .. n : a[i] = b[i]
    BY <2>1, <2>2
  <2>4. n + 1 \in 1 .. Len(a) /\ (n + 1) - 1 = n
    BY <2>1, <2>2
  <2>5. a[n + 1] = b[n + 1]
    BY <2>3, <2>4
  <2> QED BY <2>1, <2>3, <2>5
<1>3. N = Nat
  <2> HIDE DEF N
  <2>1. N \subseteq Nat
    BY DEF N
  <2> QED BY <1>1, <1>2, <2>1, SetInduction
<1>4. Len(a) \in N
  <2> HIDE DEF N
  <2> QED BY <1>3
<1> QED BY <1>4

\* A string that does not begin with 0 is greater than every shorter one.
LEMMA LongerIsGreater ==
    ASSUME NEW a \in Seq(Digits), NEW b \in Seq(Digits), NEW w, NEW v,
           IsWriting(w, a), IsWriting(v, b), Len(a) > Len(b), a[1] # 0
    PROVE  w[Len(a)] > v[Len(b)]
<1> DEFINE N == {n \in Nat : n + 1 <= Len(a) => w[n + 1] >= 1}
           z == Len(a) - Len(b)
<1>1. Len(a) \in Nat /\ Len(b) \in Nat /\ z \in Nat /\ z >= 1 /\ Len(a) = z + Len(b)
  OBVIOUS
<1>2. 0 \in N
  <2>1. w[0 + 1] = a[0 + 1] + Shifted(w[0]) /\ w[0] \in Nat /\ a[0 + 1] \in Nat
    BY <1>1, WritingOn
  <2>2. Shifted(w[0]) \in Nat
    BY <2>1, Products
  <2>3. a[0 + 1] # 0
    OBVIOUS
  <2>4. w[0 + 1] >= 1
    BY <2>1, <2>2, <2>3
  <2> QED BY <2>4
<1>3. ASSUME NEW n \in N PROVE n + 1 \in N
  <2>1. n \in Nat
    BY DEF N
  <2>2. SUFFICES ASSUME (n + 1) + 1 <= Len(a) PROVE w[(n + 1) + 1] >= 1
    BY <2>1
  <2>3. w[n + 1] >= 1
    BY <1>1, <2>1, <2>2
  <2>4. /\ w[(n + 1) + 1] = a[(n + 1) + 1] + Shifted(w[n + 1])
        /\ w[n + 1] \in Nat /\ a[(n + 1) + 1] \in Nat
    BY <2>1, <2>2, WritingOn
  <2>5. Shifted(w[n + 1]) >= w[n + 1] /\ Shifted(w[n + 1]) \in Nat
    BY <2>4, Products
  <2> QED BY <2>3, <2>4, <2>5
<1>4. N = Nat
  <2> HIDE DEF N
  <2>1. N \subseteq Nat
    BY DEF N
  <2> QED BY <1>2, <1>3, <2>1, SetInduction
<1>5. w[z] >= 1
  <2>1. z - 1 \in N /\ (z - 1) + 1 = z /\ z <= Len(a)
    <3> HIDE DEF N
    <3> QED BY <1>1, <1>4
  <2> HIDE DEF z
  <2> QED BY <2>1
<1>6. v[0] = 0
  BY <1>1 DEF IsWriting
<1>7. w[z + 0] > v[0] /\ 0 \in 0 .. Len(b)
  <2> HIDE DEF z
  <2>1. z + 0 = z /\ 0 \in 0 .. Len(b)
    BY <1>1
  <2>2. w[z] \in Nat
    BY <1>1 DEF IsWriting
  <2> QED BY <1>5, <1>6, <2>1, <2>2
<1> HIDE DEF z
<1> QED BY <1>1, <1>7, GreaterStaysGreater

\* Nothing but zeros writes 0.
LEMMA ZerosWriteNothing ==
    ASSUME NEW s \in Seq(Digits), NEW w, IsWriting(w, s), NEW z \in 0 .. Len(s),
           \A i \in 1 .. z : s[i] = 0
    PROVE  w[z] = 0
<1> DEFINE N == {n \in Nat : n <= z => w[n] = 0}
<1>1. 0 \in N
  <2>1. w[0] = 0
    BY DEF IsWriting
  <2> QED BY <2>1
<1>2. ASSUME NEW n \in N PROVE n + 1 \in N
  <2>1. n \in Nat
    BY DEF N
  <2>2. SUFFICES ASSUME n + 1 <= z PROVE w[n + 1] = 0
    BY <2>1
  <2>3. w[n] = 0 /\ s[n + 1] = 0 /\ n + 1 <= Len(s)
    BY <2>1, <2>2
  <2>4. w[n + 1] = s[n + 1] + Shifted(w[n])
    BY <2>1, <2>3, WritingOn
  <2>5. Shifted(0) = 0
    BY BaseAssumption DEF Shifted
  <2> QED BY <2>3, <2>4, <2>5
<1>3. N = Nat
  <2> HIDE DEF N
  <2>1. N \subseteq Nat
    BY DEF N
  <2> QED BY <1>1, <1>2, <2>1, SetInduction
<1>4. z \in N
  <2> HIDE DEF N
  <2> QED BY <1>3
<1> QED BY <1>4

LEMMA WrittenWhere ==
    ASSUME NEW s \in Seq(Digits), NEW w, IsWriting(w, s)
    PROVE  Written(s) = w[Len(s)]
<1>1. PICK v : IsWriting(v, s) /\ Written(s) = v[Len(s)]
  BY WrittenIsAWriting
<1>2. ValueOf(s) = w[Len(s)] /\ ValueOf(s) = v[Len(s)]
  BY <1>1, ValueIsTheNumber
<1> QED BY <1>1, <1>2

\* Leading zeros do not matter.
LEMMA NormalizedWritesTheSame ==
    ASSUME NEW s \in Seq(Digits), s # <<>>
    PROVE  /\ Normalized(s) \in Seq(Digits) /\ Len(Normalized(s)) > 0
           /\ Normalized(s)[1] = 0 => Len(Normalized(s)) = 1
           /\ Written(Normalized(s)) = Written(s)
<1> DEFINE zeros == {n \in 0 .. Len(s) : \A i \in 1 .. n : s[i] = 0}
           IsLeading(n) == n \in zeros /\ \A k \in zeros : k <= n
           leading == CHOOSE n \in zeros : \A k \in zeros : k <= n
           rest == SubSeq(s, leading + 1, Len(s))
<1>1. Normalized(s) = IF rest = <<>> THEN <<0>> ELSE rest
  BY Zenon DEF Normalized
<1>2. Len(s) \in Nat
  OBVIOUS
<1>3. \E n \in zeros : IsLeading(n)
  <2> DEFINE some == zeros \ {0}
  <2>1. some \in SUBSET (1 .. Len(s))
    BY <1>2
  <2>2. 0 \in zeros
    BY <1>2
  <2>3. CASE some = {}
    <3>1. zeros = {0}
      BY <2>2, <2>3
    <3> HIDE DEF zeros
    <3> QED BY <3>1
  <2>4. CASE some # {}
    <3>1. Max(some) \in some /\ \A i \in some : Max(some) >= i
      BY <1>2, <2>1, <2>4, GreatestOfSome
    <3>2. \A k \in zeros : k \in Nat
      BY <1>2
    <3> HIDE DEF zeros
    <3> DEFINE greatest == Max(some)
    <3> HIDE DEF greatest
    <3>3. greatest \in zeros /\ greatest \in Nat
      BY <3>1, <3>2 DEF greatest
    <3>4. ASSUME NEW k \in zeros PROVE k <= greatest
      <4>1. CASE k = 0
        BY <3>3, <4>1
      <4>2. CASE k # 0
        <5>1. k \in some /\ k \in Nat
          BY <3>2, <4>2
        <5> QED BY <3>1, <3>3, <5>1 DEF greatest
      <4> QED BY <4>1, <4>2
    <3> QED BY <3>3, <3>4
  <2> QED BY <2>3, <2>4
<1>4. leading \in zeros /\ \A k \in zeros : k <= leading
  <2> HIDE DEF zeros
  <2> QED BY <1>3
<1>5. leading \in 0 .. Len(s) /\ \A i \in 1 .. leading : s[i] = 0
  <2> HIDE DEF leading
  <2> QED BY <1>4
<1>6. leading < Len(s) => s[leading + 1] # 0
  <2> SUFFICES ASSUME leading < Len(s), s[leading + 1] = 0 PROVE FALSE
    OBVIOUS
  <2> HIDE DEF leading
  <2>1. leading + 1 \in zeros
    BY <1>2, <1>5
  <2> QED BY <1>4, <1>5, <2>1
<1> HIDE DEF leading
<1>7. PICK w : IsWriting(w, s) /\ Written(s) = w[Len(s)]
  BY WrittenIsAWriting
<1>8. w[leading] = 0
  BY <1>5, <1>7, ZerosWriteNothing
<1>9. CASE leading = Len(s)
  <2>1. rest = <<>>
    BY <1>2, <1>9
  <2>2. Normalized(s) = <<0>>
    BY <1>1, <2>1
  <2>3. 0 \in Digits
    BY BaseAssumption DEF Digits
  <2>4. <<0>> \in Seq(Digits) /\ Len(<<0>>) = 1 /\ <<0>>[1] = 0
    BY <2>3
  <2>5. PICK v : IsWriting(v, <<0>>) /\ Written(<<0>>) = v[Len(<<0>>)]
    BY <2>4, WrittenIsAWriting
  <2>6. \A i \in 1 .. 1 : <<0>>[i] = 0
    BY <2>4
  <2>7. v[1] = 0
    <3> DEFINE zero == <<0>>
    <3>1. zero \in Seq(Digits) /\ IsWriting(v, zero) /\ 1 \in 0 .. Len(zero)
      BY <2>4, <2>5
    <3>2. \A i \in 1 .. 1 : zero[i] = 0
      BY <2>6
    <3> HIDE DEF zero
    <3> QED BY <3>1, <3>2, ZerosWriteNothing
  <2> QED BY <1>7, <1>8, <1>9, <2>2, <2>4, <2>5, <2>7
<1>10. CASE leading # Len(s)
  <2>1. leading < Len(s)
    BY <1>2, <1>5, <1>10
  <2>2. /\ rest \in Seq(Digits) /\ Len(rest) = Len(s) - leading
        /\ \A i \in 1 .. Len(rest) : s[leading + i] = rest[i]
    <3>1. leading + 1 \in 1 .. Len(s) /\ Len(s) \in 1 .. Len(s)
      BY <1>2, <1>5, <2>1
    <3>2. Len(rest) = Len(s) - (leading + 1) + 1
      BY <1>2, <1>5, <2>1, <3>1
    <3>3. Len(rest) = Len(s) - leading
      <4> HIDE DEF rest
      <4> QED BY <1>2, <1>5, <3>2
    <3>4. rest \in Seq(Digits)
      BY <3>1
    <3>5. \A i \in 1 .. Len(rest) : rest[i] = s[(leading + 1) + i - 1]
      BY <1>2, <1>5, <3>1
    <3>6. \A i \in 1 .. Len(rest) : (leading + 1) + i - 1 = leading + i
      <4> HIDE DEF rest
      <4> QED BY <1>5, <3>4
    <3> QED
      <4> HIDE DEF rest
      <4> QED BY <3>3, <3>4, <3>5, <3>6
  <2> HIDE DEF rest
  <2>3. Len(rest) > 0 /\ rest # <<>> /\ leading + Len(rest) = Len(s)
    BY <1>2, <1>5, <2>1, <2>2
  <2>4. rest[1] # 0
    BY <1>6, <2>1, <2>2, <2>3
  <2>5. Normalized(s) = rest
    BY <1>1, <2>3
  <2>6. PICK v : IsWriting(v, rest) /\ Written(rest) = v[Len(rest)]
    BY <2>2, WrittenIsAWriting
  <2>7. w[leading + Len(rest)] = v[Len(rest)]
    <3>1. leading \in Nat /\ Len(rest) \in 0 .. Len(rest) /\ leading + Len(rest) <= Len(s)
      BY <1>2, <1>5, <2>2, <2>3
    <3>2. \A i \in 1 .. Len(rest) : s[leading + i] = rest[i]
      BY <2>2
    <3>3. rest \in Seq(Digits) /\ IsWriting(v, rest) /\ IsWriting(w, s)
      BY <1>7, <2>2, <2>6
    <3> HIDE DEF zeros
    <3> QED BY <1>8, <3>1, <3>2, <3>3, EqualStaysEqual
  <2> QED BY <1>7, <2>2, <2>3, <2>4, <2>5, <2>6, <2>7
<1> QED BY <1>9, <1>10

\* The comparison of two strings of one length is that of their numbers.
LEMMA StringsCompareAsNumbers ==
    ASSUME NEW a \in Seq(Digits), NEW b \in Seq(Digits), Len(a) = Len(b)
    PROVE  StringGreater(a, b) <=> Written(a) > Written(b)
<1>1. PICK w : IsWriting(w, a) /\ Written(a) = w[Len(a)]
  BY WrittenIsAWriting
<1>2. PICK v : IsWriting(v, b) /\ Written(b) = v[Len(b)]
  BY WrittenIsAWriting
<1>3. /\ Len(a) \in Nat /\ DOMAIN a = 1 .. Len(a) /\ DOMAIN b = 1 .. Len(a)
      /\ \A i \in 1 .. Len(a) : a[i] \in Nat /\ b[i] \in Nat
  BY DigitsAreNumbers
<1>4. w[Len(a)] \in Nat /\ v[Len(b)] \in Nat
  BY <1>1, <1>2, <1>3 DEF IsWriting
<1>5. ASSUME NEW s \in Seq(Digits), NEW t \in Seq(Digits), Len(s) = Len(t),
             NEW x, IsWriting(x, s), NEW y, IsWriting(y, t),
             NEW d \in 1 .. Len(s), s[d] > t[d], \A j \in 1 .. (d - 1) : s[j] = t[j]
      PROVE  x[Len(s)] > y[Len(t)]
  <2>1. /\ Len(s) \in Nat /\ d - 1 \in Nat /\ d - 1 \in 0 .. Len(t) /\ (d - 1) + 1 = d
        /\ d \in 0 .. Len(t) /\ 0 + (d - 1) = d - 1 /\ 0 + d = d /\ 0 + (d - 1) <= Len(s)
        /\ Len(s) = 0 + Len(t)
    BY <1>5
  <2>2. x[0] = 0
    BY <1>5, <2>1 DEF IsWriting
  <2>3. \A i \in 1 .. (d - 1) : s[0 + i] = t[i]
    BY <1>5
  <2>4. x[0 + (d - 1)] = y[d - 1]
    BY <1>5, <2>1, <2>2, <2>3, EqualStaysEqual
  <2>5. (d - 1) + 1 <= Len(s) /\ (d - 1) + 1 <= Len(t)
    BY <1>5, <2>1
  <2>6. x[(d - 1) + 1] = s[(d - 1) + 1] + Shifted(x[d - 1]) /\ x[d - 1] \in Nat
    BY <1>5, <2>1, <2>5, WritingOn
  <2>7. y[(d - 1) + 1] = t[(d - 1) + 1] + Shifted(y[d - 1])
    BY <1>5, <2>1, <2>5, WritingOn
  <2>8. Shifted(x[d - 1]) \in Nat /\ s[d] \in Nat /\ t[d] \in Nat
    BY <1>5, <2>6, Products, DigitsAreNumbers
  <2>9. x[0 + d] > y[d]
    BY <1>5, <2>1, <2>4, <2>6, <2>7, <2>8
  <2> QED BY <1>5, <2>1, <2>9, GreaterStaysGreater
<1>6. CASE \E d \in 1 .. Len(a) : a[d] # b[d] /\ \A j \in 1 .. (d - 1) : a[j] = b[j]
  <2>1. PICK d \in 1 .. Len(a) : a[d] # b[d] /\ \A j \in 1 .. (d - 1) : a[j] = b[j]
    BY <1>6
  <2>2. CASE a[d] > b[d]
    <3>1. StringGreater(a, b)
      BY <1>3, <2>1, <2>2 DEF StringGreater
    <3>2. w[Len(a)] > v[Len(b)]
      BY <1>1, <1>2, <1>5, <2>1, <2>2
    <3> QED BY <1>1, <1>2, <3>1, <3>2
  <2>3. CASE b[d] > a[d]
    <3>1. v[Len(b)] > w[Len(a)]
      BY <1>1, <1>2, <1>5, <2>1, <2>3
    <3>2. ~StringGreater(a, b)
      <4>1. ~(Len(a) > Len(b))
        BY <1>3
      <4>2. ASSUME NEW i \in 1 .. Len(a), a[i] > b[i], \A j \in 1 .. (i - 1) : a[j] = b[j]
            PROVE  FALSE
        <5>1. i \in Nat /\ d \in Nat
          BY <1>3
        <5>2. CASE i < d
          <6>1. i \in 1 .. (d - 1)
            BY <5>1, <5>2
          <6> QED BY <1>3, <2>1, <4>2, <6>1
        <5>3. CASE i = d
          BY <1>3, <2>3, <4>2, <5>3
        <5>4. CASE d < i
          <6>1. d \in 1 .. (i - 1)
            BY <5>1, <5>4
          <6> QED BY <1>3, <2>1, <4>2, <6>1
        <5> QED BY <5>1, <5>2, <5>3, <5>4
      <4> QED BY <1>3, <4>1, <4>2 DEF StringGreater
    <3> QED BY <1>1, <1>2, <1>4, <3>1, <3>2
  <2> QED BY <1>3, <2>1, <2>2, <2>3
<1>7. CASE ~\E d \in 1 .. Len(a) : a[d] # b[d] /\ \A j \in 1 .. (d - 1) : a[j] = b[j]
  <2>1. \A i \in 1 .. Len(a) : a[i] = b[i]
    BY <1>7, FirstDifference
  <2>2. a = b
    BY <2>1
  <2>3. ~StringGreater(a, b)
    BY <1>3, <2>1 DEF StringGreater
  <2> QED BY <1>1, <1>4, <2>2, <2>3
<1> QED BY <1>6, <1>7

\* Out of range is what writes more than the greatest safe number.
LEMMA OutOfRangeIsGreater ==
    ASSUME NEW s \in Seq(Digits), Len(s) > 0, s[1] = 0 => Len(s) = 1
    PROVE  OutOfRange(s) <=> Written(s) > Written(MaxSafeDigits)
<1>1. PICK w : IsWriting(w, s) /\ Written(s) = w[Len(s)]
  BY WrittenIsAWriting
<1>2. PICK v : IsWriting(v, MaxSafeDigits) /\ Written(MaxSafeDigits) = v[Len(MaxSafeDigits)]
  BY WrittenIsAWriting, MaxSafeAssumption
<1>3. Len(s) \in Nat /\ Len(MaxSafeDigits) \in Nat
  BY MaxSafeAssumption
<1>4. w[Len(s)] \in Nat /\ v[Len(MaxSafeDigits)] \in Nat
  BY <1>1, <1>2, <1>3 DEF IsWriting
<1>5. CASE Len(s) > Len(MaxSafeDigits)
  <2>1. s[1] # 0
    BY <1>3, <1>5, MaxSafeAssumption
  <2>2. w[Len(s)] > v[Len(MaxSafeDigits)]
    BY <1>1, <1>2, <1>5, <2>1, LongerIsGreater, MaxSafeAssumption
  <2> QED BY <1>1, <1>2, <1>5, <2>2 DEF OutOfRange
<1>6. CASE Len(s) = Len(MaxSafeDigits)
  <2>1. StringGreater(s, MaxSafeDigits) <=> Written(s) > Written(MaxSafeDigits)
    BY <1>6, StringsCompareAsNumbers, MaxSafeAssumption
  <2> QED BY <1>3, <1>6, <2>1 DEF OutOfRange
<1>7. CASE Len(s) < Len(MaxSafeDigits)
  <2>1. v[Len(MaxSafeDigits)] > w[Len(s)]
    BY <1>1, <1>2, <1>3, <1>7, LongerIsGreater, MaxSafeAssumption
  <2>2. ~OutOfRange(s)
    BY <1>3, <1>7 DEF OutOfRange
  <2> QED BY <1>1, <1>2, <1>4, <2>1, <2>2
<1> QED BY <1>3, <1>5, <1>6, <1>7

\* Messages of any length, in any base, whatever the greatest safe number: the
\* comparison of digit strings in numeric-submission.ts decides as the numbers would.
THEOREM MessagesParseLikeNumbers == Spec => []ParsesLikeTheNumber
<1>1. ASSUME DomainInv, About("message")
      PROVE  ParsesLikeTheNumber
  <2> DEFINE content == subject.content
             parsed == ParseNumericSubmission(content)
             numeric == Len(content) > 0 /\ \A i \in 1 .. Len(content) : content[i] # Letter
  <2>1. subject \in MessageSubjects
    BY <1>1 DEF DomainInv, AwardSubjects, PenaltySubjects, TemplateSubjects, MessageSubjects,
                FormSubjects, About
  <2>2. content \in Seq(Digits \union {Letter})
    BY <2>1 DEF MessageSubjects
  <2> HIDE DEF content
  <2>3. /\ Len(content) \in Nat /\ DOMAIN content = 1 .. Len(content)
        /\ content # <<>> <=> Len(content) > 0
        /\ \A i \in 1 .. Len(content) : content[i] \in Digits \union {Letter}
    BY <2>2
  <2>4. Letter \notin Digits
    BY BaseAssumption DEF Letter, Digits
  <2>5. IsNumeric(content) <=> numeric
    BY <2>3, <2>4 DEF IsNumeric
  <2>6. CASE ~numeric
    <3>1. parsed = [kind |-> "conversation"]
      BY <2>5, <2>6 DEF ParseNumericSubmission
    <3>2. parsed.kind = "conversation"
      BY <3>1
    <3> QED BY <2>6, <3>2 DEF ParsesLikeTheNumber, content
  <2>7. CASE numeric
    <3>1. content \in Seq(Digits) /\ content # <<>>
      BY <2>2, <2>3, <2>5, <2>7 DEF IsNumeric
    <3> DEFINE norm == Normalized(content)
    <3>2. /\ norm \in Seq(Digits) /\ Len(norm) > 0 /\ (norm[1] = 0 => Len(norm) = 1)
          /\ Written(norm) = Written(content)
      BY <3>1, NormalizedWritesTheSame
    <3> HIDE DEF norm
    <3>3. OutOfRange(norm) <=> Written(content) > Written(MaxSafeDigits)
      BY <3>2, OutOfRangeIsGreater
    <3>4. ValueOf(norm) = Written(content)
      <4>1. PICK w : IsWriting(w, norm) /\ Written(norm) = w[Len(norm)]
        BY <3>2, WrittenIsAWriting
      <4> QED BY <3>2, <4>1, ValueIsTheNumber
    <3>5. Written(content) \in Nat /\ Written(MaxSafeDigits) \in Nat
      <4>1. \A s \in Seq(Digits) : Written(s) \in Nat
        <5>1. SUFFICES ASSUME NEW s \in Seq(Digits) PROVE Written(s) \in Nat
          OBVIOUS
        <5>2. PICK w : IsWriting(w, s) /\ Written(s) = w[Len(s)]
          BY WrittenIsAWriting
        <5> QED BY <5>2 DEF IsWriting
      <4> QED BY <3>1, <4>1, MaxSafeAssumption
    <3>6. CASE OutOfRange(norm)
      <4>1. parsed = [kind |-> "out_of_range", digits |-> content]
        BY <2>5, <2>7, <3>6 DEF ParseNumericSubmission, norm
      <4>2. parsed.kind = "out_of_range"
        BY <4>1
      <4>3. ~(Written(content) <= Written(MaxSafeDigits))
        BY <3>3, <3>5, <3>6
      <4> QED BY <2>7, <4>2, <4>3 DEF ParsesLikeTheNumber, content
    <3>7. CASE ~OutOfRange(norm)
      <4>1. parsed = [kind |-> "safe_integer", digits |-> content, value |-> ValueOf(norm)]
        BY <2>5, <2>7, <3>7 DEF ParseNumericSubmission, norm
      <4>2. parsed.kind = "safe_integer" /\ parsed.value = Written(content)
        BY <3>4, <4>1
      <4>3. Written(content) <= Written(MaxSafeDigits)
        BY <3>3, <3>5, <3>7
      <4> QED BY <2>7, <4>2, <4>3 DEF ParsesLikeTheNumber, content
    <3> QED BY <3>6, <3>7
  <2> QED BY <2>6, <2>7
<1>2. ~About("message") => ParsesLikeTheNumber
  BY DEF ParsesLikeTheNumber
<1> QED BY <1>1, <1>2, DomainInvariant, PTL

-----------------------------------------------------------------------------
(* Arrays that are filtered. *)

\* InOrder enumerates a finite set of numbers, ascending, each once.
LEMMA InOrderIs ==
    ASSUME NEW P \in SUBSET Nat, IsFiniteSet(P)
    PROVE  /\ Cardinality(P) \in Nat
           /\ InOrder(P) \in [1 .. Cardinality(P) -> P]
           /\ \A n \in 1 .. Cardinality(P) : Cardinality({j \in P : j <= InOrder(P)[n]}) = n
           /\ \A m, n \in 1 .. Cardinality(P) : m < n => InOrder(P)[m] < InOrder(P)[n]
           /\ \A i \in P : \E n \in 1 .. Cardinality(P) : InOrder(P)[n] = i
<1> DEFINE UpTo(i) == {j \in P : j <= i}
           N == Cardinality(P)
           rank == [i \in P |-> Cardinality(UpTo(i))]
           IsNth(i, n) == Cardinality({j \in P : j <= i}) = n
<1>1. N \in Nat
  BY FS_CardinalityType
<1>2. ASSUME NEW i \in P
      PROVE  IsFiniteSet(UpTo(i)) /\ Cardinality(UpTo(i)) \in 1 .. N
  <2>1. UpTo(i) \in SUBSET P /\ UpTo(i) # {}
    OBVIOUS
  <2> HIDE DEF UpTo
  <2>2. IsFiniteSet(UpTo(i)) /\ Cardinality(UpTo(i)) <= N
    BY <2>1, FS_Subset
  <2>3. Cardinality(UpTo(i)) \in Nat /\ Cardinality(UpTo(i)) # 0
    BY <2>1, <2>2, FS_CardinalityType, FS_EmptySet
  <2> QED BY <1>1, <2>2, <2>3
<1>3. ASSUME NEW i \in P, NEW k \in P, i < k
      PROVE  Cardinality(UpTo(i)) < Cardinality(UpTo(k))
  <2>1. UpTo(i) \in SUBSET UpTo(k) /\ k \in UpTo(k) /\ k \notin UpTo(i)
    <3>1. i \in Nat /\ k \in Nat /\ k <= k /\ ~(k <= i)
      BY <1>3
    <3>2. \A j \in P : j <= i => j <= k
      BY <1>3, <3>1
    <3> QED BY <3>1, <3>2
  <2>2. UpTo(i) # UpTo(k)
    BY <2>1
  <2> HIDE DEF UpTo
  <2>3. /\ Cardinality(UpTo(i)) <= Cardinality(UpTo(k))
        /\ Cardinality(UpTo(i)) # Cardinality(UpTo(k))
    BY <1>2, <2>1, <2>2, FS_Subset
  <2> QED BY <1>1, <1>2, <2>3
<1>4. rank \in Injection(P, 1 .. N)
  <2>1. rank \in [P -> 1 .. N]
    <3> HIDE DEF UpTo
    <3> QED BY <1>2
  <2>2. ASSUME NEW i \in P, NEW k \in P, rank[i] = rank[k] PROVE i = k
    <3>1. Cardinality(UpTo(i)) = Cardinality(UpTo(k))
      BY <2>2
    <3> HIDE DEF UpTo
    <3> QED BY <1>1, <1>2, <1>3, <3>1
  <2> HIDE DEF rank
  <2> QED BY <2>1, <2>2 DEF Injection, IsInjective
<1>5. rank \in Surjection(P, 1 .. N)
  <2>1. IsFiniteSet(1 .. N) /\ Cardinality(1 .. N) = N
    BY <1>1, FS_Interval
  <2> HIDE DEF rank
  <2> QED BY <1>4, <2>1, FS_Injection
<1>6. \A n \in 1 .. N : \E i \in P : rank[i] = n
  <2> HIDE DEF rank
  <2> QED BY <1>5 DEF Surjection
<1>7. \A n \in 1 .. N : InOrder(P)[n] = CHOOSE i \in P : IsNth(i, n)
  BY DEF InOrder
<1>8. \A n \in 1 .. N : \E i \in P : IsNth(i, n)
  BY <1>6
<1>9. \A n \in 1 .. N : InOrder(P)[n] \in P /\ IsNth(InOrder(P)[n], n)
  <2> HIDE DEF IsNth
  <2> QED BY <1>7, <1>8
<1>10. InOrder(P) \in [1 .. N -> P]
  <2>1. InOrder(P) = [n \in 1 .. N |-> CHOOSE i \in P : IsNth(i, n)]
    BY DEF InOrder
  <2> HIDE DEF IsNth
  <2> QED BY <1>7, <1>9, <2>1
<1>11. ASSUME NEW m \in 1 .. N, NEW n \in 1 .. N, m < n
       PROVE  InOrder(P)[m] < InOrder(P)[n]
  <2> DEFINE p == InOrder(P)[m]
             q == InOrder(P)[n]
  <2>1. /\ p \in P /\ Cardinality(UpTo(p)) = m
        /\ q \in P /\ Cardinality(UpTo(q)) = n
    BY <1>9
  <2> HIDE DEF p, q, UpTo
  <2>2. ~(q < p) /\ q # p
    BY <1>3, <1>11, <2>1
  <2>3. p < q
    BY <2>1, <2>2
  <2> QED BY <2>3 DEF p, q
<1>12. ASSUME NEW i \in P PROVE \E n \in 1 .. N : InOrder(P)[n] = i
  <2> DEFINE n == Cardinality(UpTo(i))
             k == InOrder(P)[n]
  <2>1. n \in 1 .. N
    BY <1>2
  <2>2. k \in P /\ Cardinality(UpTo(k)) = n
    BY <1>9, <2>1
  <2>3. ~(k < i) /\ ~(i < k)
    <3> HIDE DEF UpTo, k
    <3> QED BY <1>1, <1>2, <1>3, <2>1, <2>2
  <2>4. k = i
    <3> HIDE DEF k
    <3> QED BY <2>2, <2>3
  <2> HIDE DEF n
  <2> QED BY <2>1, <2>4
<1> QED BY <1>1, <1>9, <1>10, <1>11, <1>12

\* If it has no gap below any number, it enumerates 1, 2, ...
LEMMA InOrderOfInitial ==
    ASSUME NEW k \in Nat, NEW P \in SUBSET (1 .. k),
           \A i \in P, j \in 1 .. k : j < i => j \in P
    PROVE  /\ Cardinality(P) \in 0 .. k
           /\ DOMAIN InOrder(P) = 1 .. Cardinality(P)
           /\ \A n \in 1 .. Cardinality(P) : InOrder(P)[n] = n /\ n \in P
<1>1. /\ P \in SUBSET Nat /\ IsFiniteSet(P)
      /\ Cardinality(P) \in 0 .. k
  <2>1. IsFiniteSet(1 .. k) /\ Cardinality(1 .. k) = k
    BY FS_Interval
  <2>2. IsFiniteSet(P) /\ Cardinality(P) <= k
    BY <2>1, FS_Subset
  <2>3. Cardinality(P) \in Nat
    BY <2>2, FS_CardinalityType
  <2> QED BY <2>2, <2>3
<1>2. ASSUME NEW n \in 1 .. Cardinality(P) PROVE InOrder(P)[n] = n /\ InOrder(P)[n] \in P
  <2> DEFINE i == InOrder(P)[n]
  <2>1. i \in P /\ Cardinality({j \in P : j <= i}) = n
    BY <1>1, InOrderIs
  <2> HIDE DEF i
  <2>2. i \in 1 .. k
    BY <2>1
  <2>3. {j \in P : j <= i} = 1 .. i
    <3>1. ASSUME NEW j \in P, j <= i PROVE j \in 1 .. i
      BY <2>2, <3>1
    <3>2. ASSUME NEW j \in 1 .. i PROVE j \in P /\ j <= i
      <4>1. j \in 1 .. k /\ j <= i /\ (j < i \/ j = i)
        BY <2>2
      <4> QED BY <2>1, <4>1
    <3> QED BY <3>1, <3>2
  <2>4. Cardinality(1 .. i) = i
    BY <2>2, FS_Interval
  <2>5. i = n
    BY <2>1, <2>3, <2>4
  <2> QED BY <2>1, <2>5 DEF i
<1>3. DOMAIN InOrder(P) = 1 .. Cardinality(P)
  BY <1>1, InOrderIs
<1> QED BY <1>1, <1>2, <1>3

\* What a filter keeps.
LEMMA FilteredIs ==
    ASSUME NEW X, NEW s \in Seq(X), NEW P \in SUBSET (1 .. Len(s))
    PROVE  /\ Cardinality(P) \in Nat
           /\ Filtered(s, P) \in Seq(X)
           /\ Len(Filtered(s, P)) = Cardinality(P)
           /\ \A n \in 1 .. Cardinality(P) :
                InOrder(P)[n] \in P /\ Filtered(s, P)[n] = s[InOrder(P)[n]]
<1>1. P \in SUBSET Nat /\ IsFiniteSet(P)
  <2>1. Len(s) \in Nat
    OBVIOUS
  <2>2. IsFiniteSet(1 .. Len(s))
    BY <2>1, FS_Interval
  <2>3. IsFiniteSet(P)
    BY <2>2, FS_Subset
  <2> QED BY <2>1, <2>3
<1>2. /\ Cardinality(P) \in Nat
      /\ InOrder(P) \in [1 .. Cardinality(P) -> P]
  BY <1>1, InOrderIs
<1>3. Filtered(s, P) = [n \in 1 .. Cardinality(P) |-> s[InOrder(P)[n]]]
  BY <1>2 DEF Filtered
<1>4. \A n \in 1 .. Cardinality(P) : InOrder(P)[n] \in P /\ s[InOrder(P)[n]] \in X
  <2>1. \A i \in P : s[i] \in X
    OBVIOUS
  <2> QED BY <1>2, <2>1
<1>5. Filtered(s, P) \in [1 .. Cardinality(P) -> X]
  BY <1>3, <1>4
<1> DEFINE kept == Filtered(s, P)
<1> HIDE DEF kept
<1>6. kept \in Seq(X) /\ Len(kept) = Cardinality(P)
  BY <1>2, <1>5 DEF kept
<1>7. \A n \in 1 .. Cardinality(P) : Filtered(s, P)[n] = s[InOrder(P)[n]]
  BY <1>3
<1> QED BY <1>2, <1>4, <1>6, <1>7 DEF kept

-----------------------------------------------------------------------------
(* Forms. *)

Kinds == Form!RuleKinds

\* The rows that name a kind are those that are shown.
NamedRows(rows) == {i \in DOMAIN rows : rows[i].kind \in Kinds}

LEMMA SameFilter ==
    /\ \A P : Form!InOrder(P) = InOrder(P)
    /\ \A s, P : Form!Filtered(s, P) = Filtered(s, P)
<1>1. ASSUME NEW P PROVE Form!InOrder(P) = InOrder(P)
  BY Zenon DEF Form!InOrder, InOrder, Form!Cardinality, Cardinality
<1> QED BY <1>1, Zenon DEF Form!Filtered, Filtered

LEMMA PredicatesOfRows ==
    ASSUME NEW rows
    PROVE  Form!PredicatesFromRows(rows) =
             [i \in DOMAIN Filtered(rows, NamedRows(rows)) |->
                Form!Predicate(Filtered(rows, NamedRows(rows))[i])]
<1>1. Form!Named(rows) = Filtered(rows, NamedRows(rows))
  BY SameFilter DEF Form!Named, NamedRows, Kinds
<1> QED BY <1>1 DEF Form!PredicatesFromRows

\* A rule as it is saved: its kind is one, and a prime has no argument.
SavedPredicates == {p \in [kind : Kinds, argument : {"", "1", "2", Unreadable}] :
                      p.kind = "prime" => p.argument = ""}

LEMMA NamedRowsAreShown ==
    ASSUME NEW rows \in Seq(Rows)
    PROVE  /\ NamedRows(rows) \in SUBSET (1 .. Len(rows))
           /\ Shown(rows) = Filtered(rows, NamedRows(rows))
           /\ Shown(rows) \in Seq(Rows)
           /\ \A i \in DOMAIN Shown(rows) : Form!Predicate(Shown(rows)[i]) \in SavedPredicates
<1>1. \A i \in DOMAIN rows : rows[i] \in Rows /\ (rows[i].kind # "" <=> rows[i].kind \in Kinds)
  <2>1. \A row \in Rows : row.kind # "" <=> row.kind \in Kinds
    BY DEF Rows, Kinds, Form!RuleKinds
  <2>2. \A i \in DOMAIN rows : rows[i] \in Rows
    OBVIOUS
  <2> QED BY <2>1, <2>2
<1>2. NamedRows(rows) = {i \in DOMAIN rows : rows[i].kind # ""}
  BY <1>1 DEF NamedRows
<1>3. Shown(rows) = Filtered(rows, NamedRows(rows))
  BY <1>2 DEF Shown
<1>4. NamedRows(rows) \in SUBSET (1 .. Len(rows))
  BY DEF NamedRows
<1>5. Shown(rows) \in Seq(Rows)
  BY <1>3, <1>4, FilteredIs
<1>6. ASSUME NEW i \in DOMAIN Shown(rows)
      PROVE  Form!Predicate(Shown(rows)[i]) \in SavedPredicates
  <2> DEFINE k == InOrder(NamedRows(rows))[i]
             row == rows[k]
  <2>1. DOMAIN Shown(rows) = 1 .. Cardinality(NamedRows(rows))
    BY <1>3, <1>4, FilteredIs
  <2>2. k \in NamedRows(rows) /\ Shown(rows)[i] = row
    BY <1>3, <1>4, <2>1, FilteredIs
  <2>3. k \in DOMAIN rows /\ row.kind \in Kinds
    BY <2>2 DEF NamedRows
  <2> HIDE DEF k
  <2>4. row \in Rows
    BY <2>3
  <2>5. row.argument \in {"1", "2", Unreadable}
    BY <2>4 DEF Rows
  <2>6. Form!Predicate(row) = [kind |-> row.kind,
                               argument |-> IF row.kind = "prime" THEN "" ELSE row.argument]
    BY DEF Form!Predicate, Form!Blank
  <2>7. Form!Predicate(row) \in SavedPredicates
    <3> HIDE DEF row
    <3> DEFINE p == Form!Predicate(row)
    <3>1. /\ p = [kind |-> row.kind, argument |-> p.argument]
          /\ p.kind = row.kind
          /\ p.argument = IF row.kind = "prime" THEN "" ELSE row.argument
      <4> HIDE DEF p
      <4>1. p = [kind |-> row.kind,
                 argument |-> IF row.kind = "prime" THEN "" ELSE row.argument]
        BY <2>6 DEF p
      <4> QED BY <4>1
    <3> HIDE DEF p
    <3>2. p.argument \in {"", "1", "2", Unreadable} /\ p.kind \in Kinds
      BY <2>3, <2>5, <3>1
    <3>3. p.kind = "prime" => p.argument = ""
      BY <3>1
    <3>4. p \in SavedPredicates
      BY <3>1, <3>2, <3>3 DEF SavedPredicates
    <3> QED BY <3>4 DEF p
  <2> QED BY <2>2, <2>7
<1> QED BY <1>3, <1>4, <1>5, <1>6

\* The rows of a page: one for each saved rule, and an empty one.
PageRows(k, ids, p) == Append([i \in 1 .. k |-> Form!RowOf(ids[i], p[i])], Form!BlankRow)

LEMMA PageRowsAre ==
    ASSUME NEW k \in Nat, NEW ids, NEW p
    PROVE  /\ DOMAIN PageRows(k, ids, p) = 1 .. (k + 1)
           /\ PageRows(k, ids, p)[k + 1] = Form!BlankRow
           /\ \A i \in 1 .. k : PageRows(k, ids, p)[i] = Form!RowOf(ids[i], p[i])
<1> DEFINE front == [i \in 1 .. k |-> Form!RowOf(ids[i], p[i])]
           R == {Form!RowOf(ids[i], p[i]) : i \in 1 .. k} \union {Form!BlankRow}
<1>1. front \in Seq(R) /\ Len(front) = k /\ Form!BlankRow \in R
  OBVIOUS
<1>2. \A i \in 1 .. k : front[i] = Form!RowOf(ids[i], p[i])
  OBVIOUS
<1>3. PageRows(k, ids, p) = Append(front, Form!BlankRow)
  BY DEF PageRows
<1> HIDE DEF front, R
<1>4. /\ PageRows(k, ids, p) \in Seq(R) /\ Len(PageRows(k, ids, p)) = k + 1
      /\ PageRows(k, ids, p)[k + 1] = Form!BlankRow
      /\ \A i \in 1 .. k : PageRows(k, ids, p)[i] = front[i]
  BY <1>1, <1>3
<1> QED BY <1>2, <1>4

LEMMA RowOfIs ==
    ASSUME NEW id, NEW p
    PROVE  /\ Form!RowOf(id, p).id = id
           /\ Form!RowOf(id, p).kind = p.kind
           /\ Form!RowOf(id, p).argument = p.argument
  BY DEF Form!RowOf

\* The page of saved rules, sent back, has them again, with the ids of their rows.
LEMMA PageHasTheRules ==
    ASSUME NEW n \in Nat, NEW ids, NEW p, \A i \in 1 .. n : p[i] \in SavedPredicates
    PROVE  LET rows == PageRows(n, ids, p) IN
             /\ DOMAIN Form!PredicatesFromRows(rows) = 1 .. n
             /\ \A i \in 1 .. n : /\ Form!PredicatesFromRows(rows)[i] = p[i]
                                  /\ rows[i].id = ids[i]
<1> DEFINE rows == PageRows(n, ids, p)
           P == NamedRows(rows)
<1>1. DOMAIN rows = 1 .. (n + 1) /\ rows[n + 1] = Form!BlankRow
  BY PageRowsAre
<1>2. \A i \in 1 .. n : /\ rows[i].id = ids[i] /\ rows[i].kind = p[i].kind
                        /\ rows[i].argument = p[i].argument
  BY PageRowsAre, RowOfIs
<1> HIDE DEF rows
<1>3. \A i \in 1 .. n : rows[i].kind \in Kinds
  BY <1>2 DEF SavedPredicates
<1>4. rows[n + 1].kind \notin Kinds
  <2>1. Form!BlankRow.kind = "" /\ "" \notin Kinds
    BY DEF Form!BlankRow, Form!Blank, Kinds, Form!RuleKinds
  <2> QED BY <1>1, <2>1
<1>5. P = 1 .. n
  <2>1. \A i \in 1 .. (n + 1) : i \in 1 .. n \/ i = n + 1
    OBVIOUS
  <2>2. 1 .. n \subseteq 1 .. (n + 1)
    OBVIOUS
  <2> QED BY <1>1, <1>3, <1>4, <2>1, <2>2 DEF NamedRows
<1>6. Cardinality(P) = n
  BY <1>5, FS_Interval
<1>7. DOMAIN InOrder(P) = 1 .. n /\ \A i \in 1 .. n : InOrder(P)[i] = i
  BY <1>5, <1>6, InOrderOfInitial
<1>8. DOMAIN Filtered(rows, P) = 1 .. n /\ \A i \in 1 .. n : Filtered(rows, P)[i] = rows[i]
  BY <1>7 DEF Filtered
<1>9. ASSUME NEW i \in 1 .. n PROVE Form!Predicate(rows[i]) = p[i]
  <2>1. p[i] \in SavedPredicates /\ rows[i].kind = p[i].kind /\ rows[i].argument = p[i].argument
    BY <1>2
  <2>2. p[i] = [kind |-> p[i].kind, argument |-> p[i].argument]
    BY <2>1 DEF SavedPredicates
  <2>3. Form!Predicate(rows[i]) = [kind |-> p[i].kind,
                                   argument |-> IF p[i].kind = "prime" THEN "" ELSE p[i].argument]
    BY <2>1 DEF Form!Predicate, Form!Blank
  <2>4. p[i].kind = "prime" => p[i].argument = ""
    BY <2>1 DEF SavedPredicates
  <2> QED BY <2>2, <2>3, <2>4
<1>10. /\ DOMAIN Form!PredicatesFromRows(rows) = 1 .. n
       /\ \A i \in 1 .. n : Form!PredicatesFromRows(rows)[i] = p[i]
  <2> HIDE DEF P
  <2> QED BY <1>8, <1>9, PredicatesOfRows DEF P
<1> QED BY <1>2, <1>10 DEF rows

\* What is read back is what was saved: no announcement of a form is null.
LEMMA SavedIsParsed ==
    ASSUME NEW form \in FormSubjects
    PROVE  LET parsed == Form!ParseTemplate(form) IN
             /\ parsed.skipRules = Form!PredicatesFromRows(form.skip)
             /\ parsed.bonusRules = Form!BonusRules(form.bonus)
             /\ DOMAIN parsed.announcements = {kind \in AnnouncementKinds : form.texts[kind] # ""}
             /\ \A kind \in DOMAIN parsed.announcements :
                  parsed.announcements[kind] = form.texts[kind]
             /\ Form!GetTemplate(Form!Row(parsed)) = parsed
<1> DEFINE parsed == Form!ParseTemplate(form)
           texts == form.texts
           typed == {kind \in AnnouncementKinds : texts[kind] # ""}
           overrides == [kind \in typed |-> texts[kind]]
           skip == Form!PredicatesFromRows(form.skip)
           bonus == Form!BonusRules(form.bonus)
           saved == [kind \in AnnouncementKinds |->
                       IF kind \in DOMAIN overrides THEN overrides[kind] ELSE "null"]
           kept == {kind \in AnnouncementKinds : saved[kind] # "null"}
           read == [kind \in kept |-> saved[kind]]
<1>1. texts \in [AnnouncementKinds -> Texts]
  BY DEF FormSubjects
<1> HIDE DEF texts, skip, bonus
<1>2. Form!Overrides(texts) = overrides
  <2>1. DOMAIN texts = AnnouncementKinds
    BY <1>1
  <2>2. Form!Overrides(texts) = [kind \in {k \in DOMAIN texts : texts[k] # ""} |-> texts[kind]]
    BY Zenon DEF Form!Overrides, Form!Restrict, Form!Blank
  <2> QED BY <2>1, <2>2
<1>3. parsed = [skipRules |-> skip, bonusRules |-> bonus, announcements |-> overrides]
  BY <1>2, Zenon DEF Form!ParseTemplate, texts, skip, bonus
<1>4. kept = typed
  <2>1. \A kind \in AnnouncementKinds : texts[kind] # "null"
    BY <1>1 DEF Texts, Unreadable
  <2>2. \A kind \in AnnouncementKinds :
          saved[kind] = IF kind \in typed THEN texts[kind] ELSE "null"
    OBVIOUS
  <2> HIDE DEF saved
  <2> QED BY <2>1, <2>2
<1>5. read = overrides
  <2>1. \A kind \in typed : saved[kind] = overrides[kind]
    OBVIOUS
  <2>2. typed \subseteq AnnouncementKinds
    OBVIOUS
  <2> HIDE DEF saved, typed, kept
  <2> QED BY <1>4, <2>1
<1>6. Form!GetTemplate(Form!Row(parsed)) = parsed
  <2> DEFINE row == [rules |-> [skipRules |-> skip, bonusRules |-> bonus], overrides |-> saved]
  <2>1. /\ parsed.skipRules = skip /\ parsed.bonusRules = bonus
        /\ parsed.announcements = overrides
    <3> HIDE DEF parsed, overrides
    <3> QED BY <1>3
  <2>2. Form!Row(parsed) = row
    <3> HIDE DEF parsed, overrides
    <3> QED BY <2>1 DEF Form!Row, Form!Null
  <2>3. Form!GetTemplate(row) = [skipRules |-> skip, bonusRules |-> bonus, announcements |-> read]
    <3>1. row.rules.skipRules = skip /\ row.rules.bonusRules = bonus /\ row.overrides = saved
      <4> HIDE DEF saved
      <4> QED OBVIOUS
    <3> HIDE DEF row, saved
    <3> QED BY <3>1, Zenon DEF Form!GetTemplate, Form!Restrict, Form!Null
  <2> HIDE DEF row, parsed, overrides, read
  <2> QED BY <1>3, <1>5, <2>2, <2>3
<1>7. /\ parsed.skipRules = skip /\ parsed.bonusRules = bonus /\ parsed.announcements = overrides
  <2> HIDE DEF parsed, overrides
  <2> QED BY <1>3
<1>8. DOMAIN overrides = typed /\ \A kind \in typed : overrides[kind] = texts[kind]
  OBVIOUS
<1> HIDE DEF parsed, overrides
<1> QED BY <1>6, <1>7, <1>8 DEF parsed, texts, skip, bonus

\* The page of what was saved, sent back.
LEMMA PageSavesTheSame ==
    ASSUME NEW form \in FormSubjects
    PROVE  LET parsed == Form!ParseTemplate(form) IN
             Form!ParseTemplate(Form!EditPage(parsed)) = parsed
<1> DEFINE parsed == Form!ParseTemplate(form)
           page == Form!EditPage(parsed)
           skip == parsed.skipRules
           bonus == parsed.bonusRules
           texts == parsed.announcements
           shownSkip == Shown(form.skip)
           shownBonus == Shown(form.bonus)
           m == Len(shownSkip)
           n == Len(shownBonus)
<1>1. form.skip \in Seq(Rows) /\ form.bonus \in Seq(Rows)
  <2>1. form.skip \in Seq(SkipRows) /\ form.bonus \in Seq(Rows)
    BY DEF FormSubjects
  <2>2. SkipRows \subseteq Rows
    BY DEF SkipRows
  <2> QED BY <2>1, <2>2
<1>2. /\ m \in Nat /\ DOMAIN shownSkip = 1 .. m /\ n \in Nat /\ DOMAIN shownBonus = 1 .. n
  BY <1>1, NamedRowsAreShown
<1>3. skip = [i \in 1 .. m |-> Form!Predicate(shownSkip[i])]
  BY <1>1, <1>2, SavedIsParsed, PredicatesOfRows, NamedRowsAreShown
<1>4. bonus = [i \in 1 .. n |-> [id |-> form.bonus[i].id,
                                 predicate |-> Form!Predicate(shownBonus[i])]]
  <2>1. Form!PredicatesFromRows(form.bonus) = [i \in 1 .. n |-> Form!Predicate(shownBonus[i])]
    BY <1>1, <1>2, PredicatesOfRows, NamedRowsAreShown
  <2>2. bonus = Form!BonusRules(form.bonus)
    BY SavedIsParsed
  <2>3. Form!BonusRules(form.bonus) =
          [i \in DOMAIN Form!PredicatesFromRows(form.bonus) |->
             [id |-> form.bonus[i].id, predicate |-> Form!PredicatesFromRows(form.bonus)[i]]]
    BY Zenon DEF Form!BonusRules
  <2> HIDE DEF bonus, shownBonus, n
  <2> QED BY <2>1, <2>2, <2>3
<1>5. /\ DOMAIN skip = 1 .. m /\ DOMAIN bonus = 1 .. n
      /\ \A i \in 1 .. m : skip[i] \in SavedPredicates
      /\ \A i \in 1 .. n : /\ bonus[i].predicate \in SavedPredicates
                           /\ bonus[i] = [id |-> bonus[i].id, predicate |-> bonus[i].predicate]
  <2>1. /\ \A i \in 1 .. m : Form!Predicate(shownSkip[i]) \in SavedPredicates
        /\ \A i \in 1 .. n : Form!Predicate(shownBonus[i]) \in SavedPredicates
    BY <1>1, <1>2, NamedRowsAreShown
  <2> HIDE DEF skip, bonus, shownSkip, shownBonus, m, n
  <2> QED BY <1>3, <1>4, <2>1
<1> DEFINE skipRows == Append([i \in DOMAIN skip |-> Form!RowOf("", skip[i])], Form!BlankRow)
           bonusRows == Append([i \in DOMAIN bonus |-> Form!RowOf(bonus[i].id, bonus[i].predicate)],
                               Form!BlankRow)
           shownTexts == [kind \in AnnouncementKinds |->
                            IF kind \in DOMAIN texts THEN texts[kind] ELSE ""]
<1>6. page = [skip |-> skipRows, bonus |-> bonusRows, texts |-> shownTexts]
  BY Zenon DEF Form!EditPage, Form!Blank
<1> HIDE DEF skip, bonus, shownSkip, shownBonus, m, n
<1>7. /\ DOMAIN Form!PredicatesFromRows(skipRows) = 1 .. m
      /\ \A i \in 1 .. m : Form!PredicatesFromRows(skipRows)[i] = skip[i]
  <2> DEFINE ids == [i \in 1 .. m |-> ""]
  <2>1. skipRows = PageRows(m, ids, skip)
    BY <1>5 DEF PageRows
  <2> HIDE DEF skipRows, ids
  <2> QED BY <1>2, <1>5, <2>1, PageHasTheRules
<1>8. /\ DOMAIN Form!PredicatesFromRows(bonusRows) = 1 .. n
      /\ \A i \in 1 .. n : /\ Form!PredicatesFromRows(bonusRows)[i] = bonus[i].predicate
                           /\ bonusRows[i].id = bonus[i].id
  <2> DEFINE ids == [i \in 1 .. n |-> bonus[i].id]
             ps == [i \in 1 .. n |-> bonus[i].predicate]
  <2>1. bonusRows = PageRows(n, ids, ps)
    BY <1>5 DEF PageRows
  <2>2. \A i \in 1 .. n : ps[i] \in SavedPredicates /\ ps[i] = bonus[i].predicate
    BY <1>5
  <2>3. \A i \in 1 .. n : ids[i] = bonus[i].id
    OBVIOUS
  <2> HIDE DEF bonusRows, ids, ps
  <2>4. /\ DOMAIN Form!PredicatesFromRows(bonusRows) = 1 .. n
        /\ \A i \in 1 .. n : /\ Form!PredicatesFromRows(bonusRows)[i] = ps[i]
                             /\ bonusRows[i].id = ids[i]
    BY <1>2, <2>1, <2>2, PageHasTheRules
  <2> QED BY <2>2, <2>3, <2>4
<1>9. Form!PredicatesFromRows(skipRows) = skip
  <2>1. skip = [i \in 1 .. m |-> skip[i]]
    BY <1>3
  <2>2. Form!PredicatesFromRows(skipRows) =
          [i \in 1 .. m |-> Form!PredicatesFromRows(skipRows)[i]]
    <3>1. Form!PredicatesFromRows(skipRows) =
            [i \in DOMAIN Form!PredicatesFromRows(skipRows) |-> Form!PredicatesFromRows(skipRows)[i]]
      BY PredicatesOfRows
    <3> HIDE DEF skipRows
    <3> QED BY <1>7, <3>1
  <2> HIDE DEF skipRows
  <2> QED BY <1>7, <2>1, <2>2
<1>10. Form!BonusRules(bonusRows) = bonus
  <2> HIDE DEF bonusRows
  <2>1. Form!BonusRules(bonusRows) =
          [i \in 1 .. n |-> [id |-> bonusRows[i].id,
                             predicate |-> Form!PredicatesFromRows(bonusRows)[i]]]
    BY <1>8, Zenon DEF Form!BonusRules
  <2>2. bonus = [i \in 1 .. n |-> bonus[i]]
    BY <1>4
  <2>3. \A i \in 1 .. n : [id |-> bonusRows[i].id,
                           predicate |-> Form!PredicatesFromRows(bonusRows)[i]] = bonus[i]
    BY <1>5, <1>8
  <2> QED BY <2>1, <2>2, <2>3
<1>11. Form!Overrides(shownTexts) = texts
  <2> DEFINE typed == {kind \in AnnouncementKinds : form.texts[kind] # ""}
  <2>1. DOMAIN texts = typed /\ \A kind \in typed : texts[kind] = form.texts[kind]
    BY SavedIsParsed
  <2>2. texts = [kind \in typed |-> texts[kind]]
    <3>1. texts = Form!Overrides(form.texts)
      BY DEF Form!ParseTemplate
    <3>2. texts = [kind \in {k \in DOMAIN form.texts : form.texts[k] # ""} |-> form.texts[kind]]
      BY <3>1, Zenon DEF Form!Overrides, Form!Restrict, Form!Blank
    <3>3. DOMAIN form.texts = AnnouncementKinds
      BY DEF FormSubjects
    <3> HIDE DEF texts
    <3> QED BY <2>1, <3>2, <3>3
  <2> HIDE DEF texts, parsed
  <2>3. \A kind \in AnnouncementKinds :
          shownTexts[kind] = IF kind \in typed THEN texts[kind] ELSE ""
    BY <2>1
  <2>4. DOMAIN shownTexts = AnnouncementKinds
    OBVIOUS
  <2> HIDE DEF shownTexts
  <2>5. {kind \in DOMAIN shownTexts : shownTexts[kind] # ""} = typed
    BY <2>1, <2>3, <2>4
  <2>6. Form!Overrides(shownTexts) = [kind \in typed |-> shownTexts[kind]]
    BY <2>5, Zenon DEF Form!Overrides, Form!Restrict, Form!Blank
  <2>7. \A kind \in typed : shownTexts[kind] = texts[kind]
    BY <2>3
  <2> QED BY <2>2, <2>6, <2>7
<1>12. parsed = [skipRules |-> skip, bonusRules |-> bonus, announcements |-> texts]
  BY DEF skip, bonus, Form!ParseTemplate
<1> HIDE DEF skipRows, bonusRows, shownTexts, texts
<1>13. Form!ParseTemplate(page) =
         [skipRules |-> skip, bonusRules |-> bonus, announcements |-> texts]
  <2>1. page.skip = skipRows /\ page.bonus = bonusRows /\ page.texts = shownTexts
    BY <1>6
  <2> HIDE DEF page
  <2> QED BY <1>9, <1>10, <1>11, <2>1 DEF Form!ParseTemplate
<1> QED BY <1>12, <1>13

\* Forms of any number of rows, for any kinds of announcements: what is accepted is
\* saved as it was typed, as the save, the load and the edit page of routes/templates.ts
\* and admin-repository.ts do it.
THEOREM FormsSaveWhatTheyShow == Spec => []FormSavesWhatItShows
<1>1. ASSUME DomainInv, About("form")
      PROVE  FormSavesWhatItShows
  <2> DEFINE parsed == Form!ParseTemplate(subject)
             skip == Shown(subject.skip)
             bonus == Shown(subject.bonus)
             m == Len(skip)
             n == Len(bonus)
             texts == subject.texts
  <2>1. subject \in FormSubjects
    BY <1>1 DEF DomainInv, AwardSubjects, PenaltySubjects, TemplateSubjects, MessageSubjects,
                FormSubjects, About
  <2>2. subject.skip \in Seq(Rows) /\ subject.bonus \in Seq(Rows)
    <3>1. subject.skip \in Seq(SkipRows) /\ subject.bonus \in Seq(Rows)
      BY <2>1 DEF FormSubjects
    <3>2. SkipRows \subseteq Rows
      BY DEF SkipRows
    <3> QED BY <3>1, <3>2
  <2>3. Saved = parsed
    BY <2>1, SavedIsParsed DEF Saved
  <2>4. Form!PredicatesFromRows(subject.skip) = [i \in DOMAIN skip |-> Form!Predicate(skip[i])]
    BY <2>2, PredicatesOfRows, NamedRowsAreShown
  <2>5. Form!PredicatesFromRows(subject.bonus) = [i \in DOMAIN bonus |-> Form!Predicate(bonus[i])]
    BY <2>2, PredicatesOfRows, NamedRowsAreShown
  <2>6. Saved.skipRules = [i \in DOMAIN skip |-> Form!Predicate(skip[i])]
    BY <2>1, <2>3, <2>4, SavedIsParsed
  <2>7. Saved.bonusRules = [i \in DOMAIN bonus |-> [id |-> subject.bonus[i].id,
                                                    predicate |-> Form!Predicate(bonus[i])]]
    <3>1. Saved.bonusRules = Form!BonusRules(subject.bonus)
      BY <2>1, <2>3, SavedIsParsed
    <3>2. Form!BonusRules(subject.bonus) =
            [i \in DOMAIN Form!PredicatesFromRows(subject.bonus) |->
               [id |-> subject.bonus[i].id, predicate |-> Form!PredicatesFromRows(subject.bonus)[i]]]
      BY Zenon DEF Form!BonusRules
    <3> HIDE DEF bonus
    <3> QED BY <2>5, <3>1, <3>2
  <2>8. [i \in DOMAIN Saved.bonusRules |-> Saved.bonusRules[i].predicate]
          = [i \in DOMAIN bonus |-> Form!Predicate(bonus[i])]
    <3> DEFINE rules == Saved.bonusRules
    <3>1. DOMAIN rules = DOMAIN bonus /\ \A i \in DOMAIN bonus : rules[i].predicate = Form!Predicate(bonus[i])
      <4> HIDE DEF bonus
      <4> QED BY <2>7
    <3> HIDE DEF bonus, rules
    <3>2. [i \in DOMAIN rules |-> rules[i].predicate] = [i \in DOMAIN bonus |-> Form!Predicate(bonus[i])]
      BY <3>1
    <3> QED BY <3>2 DEF rules
  <2>9. ASSUME NoneCleared(subject.bonus), NEW i \in DOMAIN bonus
        PROVE  Saved.bonusRules[i].id = bonus[i].id
    <3> DEFINE rows == subject.bonus
               P == NamedRows(rows)
    <3>1. /\ Len(rows) \in Nat /\ DOMAIN rows = 1 .. Len(rows)
          /\ \A k \in 1 .. Len(rows) : rows[k].kind \in Kinds <=> rows[k].kind # ""
      <4>1. \A row \in Rows : row.kind # "" <=> row.kind \in Kinds
        BY DEF Rows, Kinds, Form!RuleKinds
      <4>2. \A k \in 1 .. Len(rows) : rows[k] \in Rows
        BY <2>2
      <4>3. Len(rows) \in Nat /\ DOMAIN rows = 1 .. Len(rows)
        BY <2>2
      <4> QED BY <4>1, <4>2, <4>3
    <3>2. \A k \in P, j \in 1 .. Len(rows) : j < k => j \in P
      BY <2>9, <3>1 DEF NoneCleared, NamedRows
    <3>3. P \in SUBSET (1 .. Len(rows))
      BY <3>1 DEF NamedRows
    <3>4. \A k \in 1 .. Cardinality(P) : InOrder(P)[k] = k
      <4> HIDE DEF P
      <4> QED BY <3>1, <3>2, <3>3, InOrderOfInitial
    <3>5. bonus = Filtered(rows, P)
      BY <2>2, NamedRowsAreShown
    <3>6. i \in 1 .. Cardinality(P) /\ bonus[i] = rows[InOrder(P)[i]]
      <4> HIDE DEF P
      <4> QED BY <2>2, <2>9, <3>3, <3>5, FilteredIs
    <3>7. bonus[i] = rows[i]
      BY <3>4, <3>6
    <3>8. Saved.bonusRules[i].id = rows[i].id
      <4> HIDE DEF bonus
      <4> QED BY <2>7, <2>9
    <3> QED BY <3>7, <3>8
  <2>10. Form!ParseTemplate(Form!EditPage(Saved)) = Saved
    BY <2>1, <2>3, PageSavesTheSame
  <2>11. ASSUME NEW defaults \in [AnnouncementKinds -> {"old", "new"}]
         PROVE  Form!ResolveAnnouncements(defaults, Saved.announcements)
                  = [kind \in AnnouncementKinds |->
                       IF texts[kind] = "" THEN defaults[kind] ELSE texts[kind]]
    <3> DEFINE typed == {kind \in AnnouncementKinds : texts[kind] # ""}
               overrides == Saved.announcements
    <3>1. DOMAIN overrides = typed /\ \A kind \in typed : overrides[kind] = texts[kind]
      BY <2>1, <2>3, SavedIsParsed
    <3>2. Form!ResolveAnnouncements(defaults, overrides) =
            [kind \in AnnouncementKinds |->
               IF kind \in DOMAIN overrides /\ overrides[kind] # ""
                 THEN overrides[kind] ELSE defaults[kind]]
      BY DEF Form!ResolveAnnouncements, Form!Blank
    <3>3. \A kind \in AnnouncementKinds :
            (IF kind \in DOMAIN overrides /\ overrides[kind] # ""
               THEN overrides[kind] ELSE defaults[kind])
              = IF texts[kind] = "" THEN defaults[kind] ELSE texts[kind]
      <4> HIDE DEF overrides, texts
      <4> QED BY <3>1
    <3> HIDE DEF overrides, texts
    <3>4. Form!ResolveAnnouncements(defaults, overrides)
            = [kind \in AnnouncementKinds |->
                 IF texts[kind] = "" THEN defaults[kind] ELSE texts[kind]]
      BY <3>2, <3>3
    <3> QED BY <3>4 DEF overrides
  <2> HIDE DEF skip, bonus, texts
  <2> QED BY <2>6, <2>8, <2>9, <2>10, <2>11 DEF FormSavesWhatItShows, skip, bonus, texts
<1>2. ~About("form") => FormSavesWhatItShows
  BY DEF FormSavesWhatItShows
<1> QED BY <1>1, <1>2, DomainInvariant, PTL

-----------------------------------------------------------------------------
(* Rules. *)

\* A number that has a factor has one up to its square root.
LEMMA PrimesAre ==
    ASSUME NEW v \in Nat
    PROVE  IsPrime(v) <=> Prime(v)
<1>1. ASSUME Prime(v) PROVE IsPrime(v)
  <2>1. v > 1 /\ \A f \in 2 .. (v - 1) : v % f # 0
    BY <1>1 DEF Prime
  <2>2. CASE v = 2
    BY <2>2 DEF IsPrime
  <2>3. CASE v > 2
    <3>1. v % 2 # 0
      BY <2>1, <2>3
    <3>2. ASSUME NEW f \in 3 .. v, f * f <= v PROVE v % f # 0
      <4>1. f * f >= 3 * f
        <5>1. f \in Nat /\ f >= 3
          BY <3>2
        <5> QED BY <5>1
      <4>2. f < v
        BY <3>2, <4>1
      <4> QED BY <2>1, <4>2
    <3> QED BY <2>3, <3>1, <3>2 DEF IsPrime
  <2> QED BY <2>1, <2>2, <2>3
<1>2. ASSUME IsPrime(v) PROVE Prime(v)
  <2>1. v > 1
    BY <1>2 DEF IsPrime
  <2>2. ASSUME NEW f \in 2 .. (v - 1), v % f = 0 PROVE FALSE
    <3>1. f \in Nat /\ f >= 2 /\ f < v /\ v > 2
      BY <2>1, <2>2
    <3>2. /\ v % 2 # 0
          /\ \A h \in 3 .. v : h % 2 # 0 /\ h * h <= v => v % h # 0
      BY <1>2, <3>1 DEF IsPrime
    <3> DEFINE g == v \div f
    <3>3. v = f * g /\ g \in Nat
      BY <2>2, <3>1
    <3>4. g >= 2 /\ g < v
      <4> HIDE DEF g
      <4>1. g # 0
        BY <3>1, <3>3
      <4>2. g # 1
        BY <3>1, <3>3
      <4>3. f * g >= 2 * g
        BY <3>1, <3>3
      <4> QED BY <3>3, <4>1, <4>2, <4>3
    <3> HIDE DEF g
    <3>5. ASSUME NEW h \in Nat, NEW k \in Nat, v = h * k, 2 <= h, h <= k, h < v PROVE FALSE
      <4>1. h * h <= h * k
        BY <3>5
      <4>2. v % h = 0
        BY <3>5
      <4>3. CASE h % 2 = 0
        <5>1. h = 2 * (h \div 2) /\ h \div 2 \in Nat
          BY <4>3
        <5>2. v = 2 * ((h \div 2) * k) /\ (h \div 2) * k \in Nat
          BY <3>5, <5>1
        <5>3. v % 2 = 0
          BY <5>2
        <5> QED BY <3>2, <5>3
      <4>4. CASE h % 2 # 0
        <5>1. h \in 3 .. v
          BY <3>5, <4>4
        <5> QED BY <3>2, <3>5, <4>1, <4>2, <4>4, <5>1
      <4> QED BY <4>3, <4>4
    <3>6. CASE f <= g
      BY <3>1, <3>3, <3>5, <3>6
    <3>7. CASE g < f
      <4>1. v = g * f /\ g <= f
        BY <3>1, <3>3, <3>7
      <4> QED BY <3>1, <3>3, <3>4, <3>5, <4>1
    <3> QED BY <3>1, <3>3, <3>6, <3>7
  <2> QED BY <2>1, <2>2 DEF Prime
<1> QED BY <1>1, <1>2

\* What the predicates of the templates may be, by kind.
LEMMA PredicatesAre ==
    ASSUME NEW p \in Predicates
    PROVE  \/ p.kind = "prime"
           \/ p.kind = "divisible_by" /\ p.divisor \in 0 .. 3
           \/ p.kind = "one_of" /\ p.values \in SUBSET Nat
           \/ p.kind = "range" /\ p.minimum \in Nat /\ p.maximum \in Nat
<1>1. CASE p \in {[kind |-> "prime"]}
  BY <1>1
<1>2. CASE p \in [kind : {"divisible_by"}, divisor : 0 .. 3]
  BY <1>2
<1>3. CASE p \in [kind : {"one_of"}, values : {{}, {1, 4}, {MaxTarget}}]
  BY <1>3, TargetAssumption
<1>4. CASE p \in [kind : {"range"}, minimum : {2, 5}, maximum : {4, MaxTarget}]
  BY <1>4, TargetAssumption
<1> QED BY <1>1, <1>2, <1>3, <1>4 DEF Predicates

\* A predicate is copied exactly if it is well formed, and then matches what it says.
LEMMA MatchesAre ==
    ASSUME NEW p \in Predicates
    PROVE  /\ ValidPredicate(p) <=> /\ p.kind = "divisible_by" => p.divisor # 0
                                    /\ p.kind = "range" => p.minimum <= p.maximum
           /\ ValidPredicate(p) =>
                \A v \in Nat : MatchesPredicate(v, p) <=> Matches(v, p)
<1>1. CASE p.kind = "prime"
  BY <1>1, PrimesAre DEF ValidPredicate, MatchesPredicate, Matches
<1>2. CASE p.kind = "divisible_by" /\ p.divisor \in 0 .. 3
  <2>1. ValidPredicate(p) <=> p.divisor # 0
    BY <1>2 DEF ValidPredicate
  <2>2. ASSUME NEW v \in Nat, p.divisor # 0
        PROVE  v % p.divisor = 0 <=> \E n \in 0 .. v : n * p.divisor = v
    <3>1. CASE p.divisor = 1
      <4>1. v % 1 = 0 /\ v * 1 = v /\ v \in 0 .. v
        OBVIOUS
      <4> QED BY <3>1, <4>1
    <3>2. CASE p.divisor = 2
      <4>1. ASSUME v % 2 = 0 PROVE \E n \in 0 .. v : n * 2 = v
        <5>1. v \div 2 \in 0 .. v /\ (v \div 2) * 2 = v
          BY <4>1
        <5> QED BY <5>1
      <4>2. ASSUME NEW n \in 0 .. v, n * 2 = v PROVE v % 2 = 0
        BY <4>2
      <4> QED BY <3>2, <4>1, <4>2
    <3>3. CASE p.divisor = 3
      <4>1. ASSUME v % 3 = 0 PROVE \E n \in 0 .. v : n * 3 = v
        <5>1. v \div 3 \in 0 .. v /\ (v \div 3) * 3 = v
          BY <4>1
        <5> QED BY <5>1
      <4>2. ASSUME NEW n \in 0 .. v, n * 3 = v PROVE v % 3 = 0
        BY <4>2
      <4> QED BY <3>3, <4>1, <4>2
    <3> QED BY <1>2, <2>2, <3>1, <3>2, <3>3
  <2>3. \A v \in Nat : /\ MatchesPredicate(v, p) <=> v % p.divisor = 0
                       /\ Matches(v, p) <=> \E n \in 0 .. v : n * p.divisor = v
    BY <1>2 DEF MatchesPredicate, Matches
  <2> QED BY <1>2, <2>1, <2>2, <2>3
<1>3. CASE p.kind = "one_of" /\ p.values \in SUBSET Nat
  BY <1>3 DEF ValidPredicate, MatchesPredicate, Matches
<1>4. CASE p.kind = "range" /\ p.minimum \in Nat /\ p.maximum \in Nat
  <2>1. ValidPredicate(p) <=> p.minimum <= p.maximum
    BY <1>4 DEF ValidPredicate
  <2>2. \A v \in Nat : /\ MatchesPredicate(v, p) <=> v \in p.minimum .. p.maximum
                       /\ Matches(v, p) <=> p.minimum <= v /\ v <= p.maximum
    BY <1>4 DEF MatchesPredicate, Matches
  <2> QED BY <1>4, <2>1, <2>2
<1> QED BY <1>1, <1>2, <1>3, <1>4, PredicatesAre

LEMMA RulesAre ==
    ASSUME NEW rules \in Seq(Predicates)
    PROVE  /\ ValidRules(rules) <=> WellFormed(rules)
           /\ ValidRules(rules) =>
                \A i \in DOMAIN rules, v \in Nat :
                  MatchesPredicate(v, rules[i]) <=> Matches(v, rules[i])
<1>1. \A i \in DOMAIN rules : rules[i] \in Predicates
  OBVIOUS
<1>2. \A i \in DOMAIN rules :
        /\ ValidPredicate(rules[i]) <=> /\ rules[i].kind = "divisible_by" => rules[i].divisor # 0
                                        /\ rules[i].kind = "range" => rules[i].minimum <= rules[i].maximum
        /\ ValidPredicate(rules[i]) =>
             \A v \in Nat : MatchesPredicate(v, rules[i]) <=> Matches(v, rules[i])
  BY <1>1, MatchesAre
<1> QED BY <1>2 DEF ValidRules, WellFormed

-----------------------------------------------------------------------------
(* Rounds. *)

\* The candidates are start, start + step, ... and end at a target they reach.
LEMMA StepsReach ==
    ASSUME NEW start \in Nat, NEW target \in Nat, NEW step \in Nat, step > 0, start <= target
    PROVE  /\ (target - start) \div step \in Nat
           /\ (target - start) % step = 0 =>
                start + ((target - start) \div step) * step = target
           /\ \A n \in Nat : /\ start + n * step \in Nat
                             /\ n <= n * step
                             /\ start + n * step <= target => n <= (target - start) \div step
                             /\ start + n * step = target =>
                                  /\ (target - start) % step = 0
                                  /\ n = (target - start) \div step
           /\ \A m, n \in Nat : m < n => start + m * step < start + n * step
<1> DEFINE d == target - start
           q == d \div step
           r == d % step
<1>1. d \in Nat
  OBVIOUS
<1>2. q \in Nat /\ r \in Nat /\ r < step /\ d = q * step + r
  BY <1>1
<1> HIDE DEF q, r
<1>3. ASSUME NEW m \in Nat, NEW n \in Nat, m < n
      PROVE  m * step + step <= n * step
  <2>1. (m + 1) * step <= n * step
    BY <1>3
  <2>2. (m + 1) * step = m * step + step
    OBVIOUS
  <2> QED BY <2>1, <2>2
<1>4. ASSUME NEW n \in Nat PROVE n * step \in Nat /\ n <= n * step
  OBVIOUS
<1>5. ASSUME NEW n \in Nat, n * step <= d PROVE n <= q
  <2>1. SUFFICES ASSUME q < n PROVE FALSE
    BY <1>2
  <2>2. q * step + step <= n * step
    BY <1>2, <1>3, <2>1
  <2>3. q * step \in Nat /\ n * step \in Nat
    BY <1>2, <1>4
  <2> QED BY <1>1, <1>2, <1>5, <2>2, <2>3
<1>6. ASSUME NEW n \in Nat, n * step = d PROVE r = 0 /\ n = q
  <2>1. n <= q
    BY <1>4, <1>5, <1>6
  <2>2. ~(n < q)
    <3>1. SUFFICES ASSUME n < q PROVE FALSE
      OBVIOUS
    <3>2. n * step + step <= q * step
      BY <1>2, <1>3, <3>1
    <3>3. q * step \in Nat /\ n * step \in Nat
      BY <1>2, <1>4
    <3> QED BY <1>1, <1>2, <1>6, <3>2, <3>3
  <2>3. n = q
    BY <1>2, <2>1, <2>2
  <2> QED BY <1>1, <1>2, <1>4, <1>6, <2>3
<1>7. ASSUME NEW m \in Nat, NEW n \in Nat, m < n PROVE start + m * step < start + n * step
  BY <1>3, <1>4, <1>7
<1>8. ASSUME r = 0 PROVE start + q * step = target
  <2>1. q * step \in Nat
    BY <1>2, <1>4
  <2> QED BY <1>2, <1>8, <2>1
<1>9. ASSUME NEW n \in Nat
      PROVE  /\ start + n * step \in Nat
             /\ start + n * step <= target => n <= q
             /\ start + n * step = target => r = 0 /\ n = q
  <2>1. n * step \in Nat
    BY <1>4
  <2>2. start + n * step <= target => n * step <= d
    BY <2>1
  <2>3. start + n * step = target => n * step = d
    BY <2>1
  <2> QED BY <1>5, <1>6, <2>1, <2>2, <2>3
<1> QED BY <1>2, <1>4, <1>7, <1>8, <1>9 DEF q, r

\* The positions of the candidates that are kept.
KeptPositions(input) ==
    {n \in DOMAIN Candidates(input) : Included(input, Candidates(input)[n])}

LEMMA CandidatesAre ==
    ASSUME NEW input \in TemplateSubjects, input.step > 0, input.start <= input.target
    PROVE  LET q == (input.target - input.start) \div input.step IN
             /\ q \in Nat
             /\ Candidates(input) \in Seq(Nat) /\ Len(Candidates(input)) = q + 1
             /\ \A n \in 1 .. (q + 1) :
                  Candidates(input)[n] = input.start + (n - 1) * input.step
             /\ \A m, n \in 1 .. (q + 1) : m < n => Candidates(input)[m] < Candidates(input)[n]
             /\ KeptPositions(input) \in SUBSET (1 .. (q + 1))
             /\ 1 \in KeptPositions(input) /\ Candidates(input)[1] = input.start
<1> DEFINE q == (input.target - input.start) \div input.step
           C == Candidates(input)
<1>1. input.start \in Nat /\ input.target \in Nat /\ input.step \in Nat
  BY TargetAssumption DEF TemplateSubjects
<1>2. /\ q \in Nat
      /\ \A n \in Nat : input.start + n * input.step \in Nat
      /\ \A m, n \in Nat : m < n => input.start + m * input.step < input.start + n * input.step
  BY <1>1, StepsReach
<1>3. C = [n \in 1 .. (q + 1) |-> input.start + (n - 1) * input.step]
  BY DEF Candidates
<1> HIDE DEF q, C
<1>4. \A n \in 1 .. (q + 1) : n - 1 \in Nat /\ C[n] = input.start + (n - 1) * input.step
  BY <1>2, <1>3
<1>5. \A n \in 1 .. (q + 1) : input.start + (n - 1) * input.step \in Nat
  BY <1>2, <1>4
<1>6. C \in [1 .. (q + 1) -> Nat]
  BY <1>3, <1>5
<1>7. C \in Seq(Nat) /\ Len(C) = q + 1 /\ DOMAIN C = 1 .. (q + 1)
  <2>1. ASSUME NEW k \in Nat, C \in [1 .. k -> Nat]
        PROVE  C \in Seq(Nat) /\ Len(C) = k /\ DOMAIN C = 1 .. k
    BY <2>1
  <2>2. q + 1 \in Nat
    BY <1>2
  <2> QED BY <1>6, <2>1, <2>2
<1>8. ASSUME NEW m \in 1 .. (q + 1), NEW n \in 1 .. (q + 1), m < n PROVE C[m] < C[n]
  <2>1. m - 1 \in Nat /\ n - 1 \in Nat /\ m - 1 < n - 1
    BY <1>2, <1>8
  <2> QED BY <1>2, <1>4, <2>1
<1>9. C[1] = input.start
  <2>1. 1 \in 1 .. (q + 1) /\ 1 - 1 = 0
    BY <1>2
  <2>2. 0 * input.step = 0
    BY <1>1
  <2> QED BY <1>1, <1>4, <2>1, <2>2
<1>10. 1 \in KeptPositions(input)
  <2>1. 1 \in 1 .. (q + 1)
    BY <1>2
  <2> QED BY <1>7, <1>9, <2>1 DEF KeptPositions, Included, C
<1>11. KeptPositions(input) \in SUBSET (1 .. (q + 1))
  BY <1>7 DEF KeptPositions, C
<1> QED BY <1>2, <1>4, <1>7, <1>8, <1>9, <1>10, <1>11 DEF q, C

\* The candidates that are kept are the values of the designed round.
LEMMA KeptAreTheRound ==
    ASSUME subject \in TemplateSubjects, ValidRange(subject), ValidRules(subject.skipRules)
    PROVE  /\ Round = {Candidates(subject)[n] : n \in KeptPositions(subject)}
           /\ IsFiniteSet(Round) /\ Cardinality(Round) = Cardinality(KeptPositions(subject))
<1> DEFINE start == subject.start
           target == subject.target
           step == subject.step
           rules == subject.skipRules
           q == (target - start) \div step
           C == Candidates(subject)
           P == KeptPositions(subject)
           Skipped(v) == \E i \in DOMAIN rules : Matches(v, rules[i])
<1>1. start \in Nat /\ target \in Nat /\ step \in Nat /\ target <= MaxTarget /\ rules \in Seq(Predicates)
  BY TargetAssumption DEF TemplateSubjects
<1>2. step > 0 /\ start <= target /\ (target - start) % step = 0
  BY <1>1 DEF ValidRange
<1>3. \A v \in Nat : MatchesAny(v, rules) <=> Skipped(v)
  BY <1>1, RulesAre DEF MatchesAny
<1>4. /\ q \in Nat /\ start + q * step = target
      /\ \A n \in Nat : /\ start + n * step \in Nat
                        /\ n <= n * step
                        /\ start + n * step <= target => n <= q
      /\ \A m, n \in Nat : m < n => start + m * step < start + n * step
  BY <1>1, <1>2, StepsReach
<1>5. /\ DOMAIN C = 1 .. (q + 1)
      /\ \A n \in 1 .. (q + 1) : C[n] \in Nat /\ C[n] = start + (n - 1) * step
      /\ \A m, n \in 1 .. (q + 1) : m < n => C[m] < C[n]
      /\ P \in SUBSET (1 .. (q + 1))
  <2>1. /\ C \in Seq(Nat) /\ Len(C) = q + 1
        /\ \A n \in 1 .. (q + 1) : C[n] = start + (n - 1) * step
        /\ \A m, n \in 1 .. (q + 1) : m < n => C[m] < C[n]
        /\ P \in SUBSET (1 .. (q + 1))
    BY <1>2, CandidatesAre
  <2> HIDE DEF C, P, q
  <2>2. DOMAIN C = 1 .. (q + 1)
    BY <1>4, <2>1
  <2>3. \A n \in 1 .. (q + 1) : C[n] \in Nat
    BY <2>1, <2>2
  <2> QED BY <2>1, <2>2, <2>3
<1>6. \A n \in 1 .. (q + 1) : n \in P <=> (C[n] # start => ~Skipped(C[n]))
  <2>1. \A n \in 1 .. (q + 1) : n \in P <=> C[n] = start \/ ~MatchesAny(C[n], rules)
    BY <1>5 DEF KeptPositions, Included
  <2> HIDE DEF C, P, q, Skipped
  <2> QED BY <1>3, <1>5, <2>1
<1>7. \A v : v \in Round <=> /\ v \in start .. target
                             /\ \E n \in 0 .. MaxTarget : v = start + n * step
                             /\ v # start => ~Skipped(v)
  BY DEF Round
<1> HIDE DEF start, target, step, rules, q, C, P, Skipped
<1>8. ASSUME NEW v \in Round PROVE \E n \in P : v = C[n]
  <2>1. PICK n \in 0 .. MaxTarget : v = start + n * step
    BY <1>7
  <2>2. n \in Nat /\ v \in Nat /\ v <= target
    BY <1>1, <1>7
  <2>3. n <= q
    BY <1>4, <2>1, <2>2
  <2>4. n + 1 \in 1 .. (q + 1) /\ (n + 1) - 1 = n
    BY <1>4, <2>2, <2>3
  <2>5. C[n + 1] = v
    BY <1>5, <2>1, <2>4
  <2>6. n + 1 \in P
    BY <1>6, <1>7, <2>4, <2>5
  <2> QED BY <2>5, <2>6
<1>9. ASSUME NEW n \in P PROVE C[n] \in Round
  <2>1. n \in 1 .. (q + 1) /\ n - 1 \in Nat /\ n - 1 <= q
    BY <1>4, <1>5
  <2>2. C[n] = start + (n - 1) * step /\ C[n] \in Nat
    BY <1>5, <2>1
  <2>3. C[n] <= target
    <3>1. n - 1 = q \/ n - 1 < q
      BY <1>4, <2>1
    <3>2. CASE n - 1 = q
      BY <1>1, <1>4, <2>2, <3>2
    <3>3. CASE n - 1 < q
      <4>1. C[n] < start + q * step
        BY <1>4, <2>1, <2>2, <3>3
      <4> QED BY <1>1, <1>4, <2>2, <4>1
    <3> QED BY <3>1, <3>2, <3>3
  <2>4. start <= C[n] /\ n - 1 <= (n - 1) * step /\ (n - 1) * step <= C[n]
    <3> DEFINE k == (n - 1) * step
    <3>1. k \in Nat /\ n - 1 <= k
      <4>1. k \in Int
        BY <1>1, <2>1
      <4>2. n - 1 <= k
        BY <1>4, <2>1
      <4> HIDE DEF k
      <4> QED BY <2>1, <4>1, <4>2
    <3>2. C[n] = start + k
      BY <2>2
    <3> HIDE DEF k
    <3>3. start <= C[n] /\ k <= C[n]
      BY <1>1, <3>1, <3>2
    <3> QED BY <3>1, <3>3 DEF k
  <2>5. n - 1 \in 0 .. MaxTarget
    <3> DEFINE k == (n - 1) * step
    <3>1. k \in Int /\ n - 1 <= k /\ k <= C[n]
      BY <1>1, <2>1, <2>4
    <3> HIDE DEF k
    <3> QED BY <1>1, <2>1, <2>2, <2>3, <3>1, TargetAssumption
  <2>6. C[n] \in start .. target
    BY <1>1, <2>2, <2>3, <2>4
  <2>7. C[n] # start => ~Skipped(C[n])
    BY <1>6, <2>1
  <2> QED BY <1>7, <2>2, <2>5, <2>6, <2>7
<1>10. Round = {C[n] : n \in P}
  BY <1>8, <1>9
<1>11. IsFiniteSet(Round) /\ Cardinality(Round) = Cardinality(P)
  <2> DEFINE f == [n \in P |-> C[n]]
  <2>1. IsFiniteSet(P)
    <3>1. IsFiniteSet(1 .. (q + 1))
      BY <1>4, FS_Interval
    <3> QED BY <1>5, <3>1, FS_Subset
  <2>2. f \in [P -> Round] /\ \A v \in Round : \E n \in P : f[n] = v
    BY <1>8, <1>9
  <2>3. \A m, n \in P : f[m] = f[n] => m = n
    <3>1. ASSUME NEW m \in P, NEW n \in P, C[m] = C[n] PROVE m = n
      <4>1. /\ m \in Nat /\ n \in Nat /\ C[m] \in Nat
            /\ m < n => C[m] < C[n]
            /\ n < m => C[n] < C[m]
        <5>1. m \in 1 .. (q + 1) /\ n \in 1 .. (q + 1)
          BY <1>5
        <5>2. m \in Nat /\ n \in Nat
          BY <1>4, <5>1
        <5> QED BY <1>5, <5>1, <5>2
      <4> QED BY <3>1, <4>1
    <3> QED BY <3>1
  <2> HIDE DEF f
  <2>4. f \in Surjection(P, Round)
    BY <2>2 DEF Surjection
  <2>5. f \in Injection(P, Round)
    BY <2>2, <2>3 DEF Injection, IsInjective
  <2> QED BY <2>1, <2>4, <2>5, FS_Surjection
<1> QED BY <1>10, <1>11 DEF C, P

\* A template compiles exactly if it is sound.
LEMMA SoundTemplatesCompile ==
    ASSUME subject \in TemplateSubjects
    PROVE  Compiles(subject) <=> Sound
<1> DEFINE start == subject.start
           target == subject.target
           step == subject.step
           q == (target - start) \div step
           P == KeptPositions(subject)
           Skipped(v) == \E i \in DOMAIN subject.skipRules : Matches(v, subject.skipRules[i])
           RulesOK == WellFormed(subject.skipRules) /\ WellFormed(subject.bonusRules)
<1>1. /\ start \in Nat /\ target \in Nat /\ step \in Nat /\ target <= MaxTarget
      /\ subject.skipRules \in Seq(Predicates) /\ subject.bonusRules \in Seq(Predicates)
  BY TargetAssumption DEF TemplateSubjects
<1>2. ValidRules(subject.skipRules) /\ ValidRules(subject.bonusRules) <=> RulesOK
  BY <1>1, RulesAre
<1>3. MaxCandidates \in Nat /\ MaxIncluded \in Nat
  BY LimitsAssumption
<1>4. ValidRange(subject) <=> /\ step > 0 /\ start <= target
                              /\ (target - start) % step = 0
                              /\ q + 1 <= MaxCandidates
  BY <1>1 DEF ValidRange
<1>5. target \in Round <=>
        /\ target \in start .. target
        /\ \E n \in 0 .. MaxTarget : target = start + n * step
        /\ target # start => ~Skipped(target)
  BY DEF Round
<1>6. CASE step > 0 /\ start <= target /\ RulesOK
  <2>1. /\ q \in Nat
        /\ (target - start) % step = 0 => start + q * step = target
        /\ \A n \in Nat : /\ n <= n * step
                          /\ start + n * step = target => (target - start) % step = 0
    BY <1>1, <1>6, StepsReach
  <2>2. TargetIsKept(subject) <=> (target # start => ~Skipped(target))
    <3>1. MatchesAny(target, subject.skipRules) <=> Skipped(target)
      BY <1>1, <1>2, <1>6, RulesAre DEF MatchesAny
    <3> HIDE DEF Skipped
    <3> QED BY <3>1 DEF TargetIsKept
  <2>3. target \in start .. target
    BY <1>1, <1>6
  <2> HIDE DEF start, target, step, q, Skipped, P, RulesOK
  <2>4. (\E n \in 0 .. MaxTarget : target = start + n * step) <=> (target - start) % step = 0
    <3>1. ASSUME NEW n \in 0 .. MaxTarget, target = start + n * step
          PROVE  (target - start) % step = 0
      BY <2>1, <3>1
    <3>2. ASSUME (target - start) % step = 0
          PROVE  \E n \in 0 .. MaxTarget : target = start + n * step
      <4>1. target = start + q * step /\ q <= q * step
        BY <2>1, <3>2
      <4> DEFINE k == q * step
      <4>2. k \in Int
        BY <1>1, <2>1
      <4>3. target = start + k /\ q <= k
        BY <4>1
      <4> HIDE DEF k
      <4>4. q \in 0 .. MaxTarget
        BY <1>1, <2>1, <4>2, <4>3, TargetAssumption
      <4> QED BY <4>1, <4>4
    <3> QED BY <3>1, <3>2
  <2>5. q + 1 <= MaxCandidates <=> q < MaxCandidates
    BY <1>3, <2>1
  <2>6. ValidRange(subject) /\ TargetIsKept(subject) <=> target \in Round /\ q < MaxCandidates
    BY <1>4, <1>5, <1>6, <2>2, <2>3, <2>4, <2>5
  <2>7. ASSUME ValidRange(subject)
        PROVE  Len(Values(subject)) = Cardinality(Round)
    <3>1. P \in SUBSET (1 .. (q + 1)) /\ Len(Candidates(subject)) = q + 1
          /\ Candidates(subject) \in Seq(Nat)
      BY <1>6, CandidatesAre DEF start, target, step, q, P
    <3>2. Values(subject) = Filtered(Candidates(subject), P)
      BY DEF Values, P, KeptPositions
    <3>3. Len(Values(subject)) = Cardinality(P)
      BY <3>1, <3>2, FilteredIs
    <3> QED BY <1>2, <1>6, <2>7, <3>3, KeptAreTheRound DEF P
  <2>8. Compiles(subject) <=> /\ ValidRange(subject) /\ TargetIsKept(subject)
                              /\ Len(Values(subject)) <= MaxIncluded
    BY <1>2, <1>6 DEF Compiles
  <2>9. Sound <=> /\ target \in Round /\ q < MaxCandidates
                  /\ Cardinality(Round) <= MaxIncluded
    BY <1>6 DEF Sound, start, target, step, q, RulesOK
  <2> QED BY <2>6, <2>7, <2>8, <2>9
<1>7. CASE ~(step > 0 /\ start <= target /\ RulesOK)
  <2>1. ~Sound
    BY <1>7 DEF Sound
  <2>2. ~Compiles(subject)
    BY <1>2, <1>4, <1>7 DEF Compiles
  <2> QED BY <2>1, <2>2
<1> QED BY <1>6, <1>7

\* What a value carries: its bonus rules, each once.
LEMMA BonusesAre ==
    ASSUME NEW value \in Nat, subject \in TemplateSubjects, ValidRules(subject.bonusRules)
    PROVE  /\ ToSet(BonusRules(subject, value)) = Bonuses(value)
           /\ Len(BonusRules(subject, value)) = Cardinality(Bonuses(value))
<1> DEFINE B == Bonuses(value)
           rules == subject.bonusRules
<1>1. rules \in Seq(Predicates)
  BY DEF TemplateSubjects
<1>2. B = {i \in DOMAIN rules : MatchesPredicate(value, rules[i])}
  BY <1>1, RulesAre DEF Bonuses
<1>3. BonusRules(subject, value) = InOrder(B)
  BY <1>2 DEF BonusRules
<1>4. B \in SUBSET (1 .. Len(rules)) /\ Len(rules) \in Nat
  BY <1>1, <1>2
<1> HIDE DEF B
<1>5. B \in SUBSET Nat /\ IsFiniteSet(B)
  <2>1. IsFiniteSet(1 .. Len(rules))
    BY <1>4, FS_Interval
  <2>2. 1 .. Len(rules) \subseteq Nat
    BY <1>4
  <2>3. IsFiniteSet(B)
    BY <1>4, <2>1, FS_Subset
  <2> QED BY <1>4, <2>2, <2>3
<1>6. /\ Cardinality(B) \in Nat
      /\ InOrder(B) \in [1 .. Cardinality(B) -> B]
      /\ \A i \in B : \E n \in 1 .. Cardinality(B) : InOrder(B)[n] = i
  BY <1>5, InOrderIs
<1>7. Len(InOrder(B)) = Cardinality(B)
  BY <1>6
<1>8. ToSet(InOrder(B)) = B
  BY <1>6 DEF ToSet
<1> QED BY <1>3, <1>7, <1>8 DEF B

\* Any number of rules, for any limits and any greatest target: the templates that
\* compileRound accepts are the sound ones, and its entries are the designed round.
THEOREM TemplatesCompileAsDesigned == Spec => []CompilesTheDesignedRound
<1>1. ASSUME DomainInv, About("template"), Compiles(subject)
      PROVE  LET entries == Entries(subject) IN
               /\ {entries[n].value : n \in DOMAIN entries} = Round
               /\ \A n \in 2 .. Len(entries) : entries[n - 1].value < entries[n].value
               /\ entries[1].value = subject.start
               /\ entries[Len(entries)].value = subject.target
               /\ \A n \in DOMAIN entries :
                    /\ entries[n].position = n - 1
                    /\ ToSet(entries[n].bonus) = Bonuses(entries[n].value)
                    /\ Len(entries[n].bonus) = Cardinality(Bonuses(entries[n].value))
  <2> DEFINE q == (subject.target - subject.start) \div subject.step
             C == Candidates(subject)
             P == KeptPositions(subject)
             N == Cardinality(P)
             V == Values(subject)
             at == InOrder(P)
             entries == Entries(subject)
  <2>1. subject \in TemplateSubjects
    BY <1>1 DEF DomainInv, AwardSubjects, PenaltySubjects, TemplateSubjects, MessageSubjects,
                FormSubjects, About
  <2>2. /\ ValidRange(subject) /\ ValidRules(subject.skipRules) /\ ValidRules(subject.bonusRules)
        /\ TargetIsKept(subject)
    BY <1>1 DEF Compiles
  <2>3. /\ subject.start \in Nat /\ subject.target \in Nat /\ subject.step \in Nat
        /\ subject.step > 0 /\ subject.start <= subject.target
        /\ (subject.target - subject.start) % subject.step = 0
    <3>1. subject.start \in Nat /\ subject.target \in Nat /\ subject.step \in Nat
      BY <2>1, TargetAssumption DEF TemplateSubjects
    <3> QED BY <2>2, <3>1 DEF ValidRange
  <2>4. /\ q \in Nat /\ C \in Seq(Nat) /\ Len(C) = q + 1
        /\ C[q + 1] = subject.target /\ C[1] = subject.start
        /\ \A m, n \in 1 .. (q + 1) : m < n => C[m] < C[n]
        /\ P \in SUBSET (1 .. (q + 1)) /\ 1 \in P
    <3>1. /\ q \in Nat /\ C \in Seq(Nat) /\ Len(C) = q + 1 /\ C[1] = subject.start
          /\ \A n \in 1 .. (q + 1) : C[n] = subject.start + (n - 1) * subject.step
          /\ \A m, n \in 1 .. (q + 1) : m < n => C[m] < C[n]
          /\ P \in SUBSET (1 .. (q + 1)) /\ 1 \in P
      BY <2>1, <2>3, CandidatesAre
    <3>2. subject.start + q * subject.step = subject.target
      BY <2>3, StepsReach
    <3> HIDE DEF q, C, P
    <3>3. q + 1 \in 1 .. (q + 1) /\ (q + 1) - 1 = q
      BY <3>1
    <3>4. C[q + 1] = subject.target
      BY <3>1, <3>2, <3>3
    <3> QED BY <3>1, <3>4
  <2>5. q + 1 \in P
    <3>1. q + 1 \in DOMAIN C
      <4> HIDE DEF q, C, P
      <4> QED BY <2>4
    <3>2. Included(subject, subject.target)
      BY <2>2 DEF Included, TargetIsKept
    <3> HIDE DEF q
    <3> QED BY <2>4, <3>1, <3>2 DEF KeptPositions
  <2> HIDE DEF q
  <2>6. Round = {C[n] : n \in P}
    BY <2>1, <2>2, KeptAreTheRound
  <2>7. V = Filtered(C, P)
    BY DEF Values, KeptPositions
  <2>8. entries = [n \in DOMAIN V |-> [position |-> n - 1, value |-> V[n],
                                       bonus |-> BonusRules(subject, V[n])]]
    BY DEF Entries
  <2> HIDE DEF C, P, V, entries
  <2>9. /\ N \in Nat /\ V \in Seq(Nat) /\ Len(V) = N
        /\ \A n \in 1 .. N : V[n] = C[at[n]]
    BY <2>4, <2>7, FilteredIs
  <2>10. /\ \A n \in 1 .. N : at[n] \in P
         /\ \A m, n \in 1 .. N : m < n => at[m] < at[n]
         /\ \A i \in P : \E n \in 1 .. N : at[n] = i
    <3>1. P \in SUBSET Nat /\ IsFiniteSet(P)
      <4>1. IsFiniteSet(1 .. (q + 1))
        BY <2>4, FS_Interval
      <4>2. 1 .. (q + 1) \subseteq Nat
        BY <2>4
      <4>3. IsFiniteSet(P)
        BY <2>4, <4>1, FS_Subset
      <4> QED BY <2>4, <4>2, <4>3
    <3> QED BY <3>1, InOrderIs
  <2> HIDE DEF N, at
  <2>11. /\ DOMAIN entries = 1 .. N /\ Len(entries) = N
         /\ \A n \in 1 .. N : /\ entries[n].position = n - 1
                              /\ entries[n].value = V[n]
                              /\ entries[n].bonus = BonusRules(subject, V[n])
    <3>1. DOMAIN V = 1 .. N
      BY <2>9
    <3>2. DOMAIN entries = 1 .. N
      BY <2>8, <3>1
    <3>3. Len(entries) = N
      BY <2>9, <3>2
    <3>4. \A n \in 1 .. N : entries[n] = [position |-> n - 1, value |-> V[n],
                                          bonus |-> BonusRules(subject, V[n])]
      BY <2>8, <3>1
    <3> QED BY <3>2, <3>3, <3>4
  <2>12. {entries[n].value : n \in DOMAIN entries} = Round
    <3>1. ASSUME NEW n \in 1 .. N PROVE entries[n].value \in Round
      BY <2>6, <2>9, <2>10, <2>11
    <3>2. ASSUME NEW v \in Round PROVE \E n \in 1 .. N : v = entries[n].value
      <4>1. PICK i \in P : v = C[i]
        BY <2>6
      <4>2. PICK n \in 1 .. N : at[n] = i
        BY <2>10
      <4> QED BY <2>9, <2>11, <4>1, <4>2
    <3> QED BY <2>11, <3>1, <3>2
  <2>13. ASSUME NEW n \in 2 .. Len(entries)
         PROVE  entries[n - 1].value < entries[n].value
    <3>1. n \in 1 .. N /\ n - 1 \in 1 .. N /\ n - 1 < n
      BY <2>9, <2>11
    <3>2. at[n - 1] \in 1 .. (q + 1) /\ at[n] \in 1 .. (q + 1) /\ at[n - 1] < at[n]
      BY <2>4, <2>10, <3>1
    <3>3. V[n - 1] < V[n]
      BY <2>4, <2>9, <3>1, <3>2
    <3> QED BY <2>11, <3>1, <3>3
  <2>14. entries[1].value = subject.start
    <3>1. PICK n \in 1 .. N : at[n] = 1
      BY <2>4, <2>10
    <3>2. 1 \in 1 .. N /\ at[1] \in 1 .. (q + 1)
      <4>1. 1 \in 1 .. N
        BY <2>9
      <4>2. at[1] \in P
        BY <2>10, <4>1
      <4> QED BY <2>4, <4>1, <4>2
    <3>3. n = 1
      <4>1. ~(1 < n)
        <5>1. 1 < n => at[1] < at[n]
          BY <2>10, <3>2
        <5> QED BY <2>4, <3>1, <3>2, <5>1
      <4> QED BY <2>9, <4>1
    <3> QED BY <2>4, <2>9, <2>11, <3>1, <3>2, <3>3
  <2>15. entries[Len(entries)].value = subject.target
    <3>1. PICK n \in 1 .. N : at[n] = q + 1
      BY <2>5, <2>10
    <3>2. N \in 1 .. N /\ at[N] \in 1 .. (q + 1)
      <4>1. N \in 1 .. N
        BY <2>9
      <4> QED BY <2>4, <2>10, <4>1
    <3>3. n = N
      <4>1. ~(n < N)
        <5>1. n < N => at[n] < at[N]
          BY <2>10, <3>2
        <5> QED BY <2>4, <3>1, <3>2, <5>1
      <4> QED BY <2>9, <4>1
    <3> QED BY <2>4, <2>9, <2>11, <3>1, <3>2, <3>3
  <2>16. ASSUME NEW n \in DOMAIN entries
         PROVE  /\ entries[n].position = n - 1
                /\ ToSet(entries[n].bonus) = Bonuses(entries[n].value)
                /\ Len(entries[n].bonus) = Cardinality(Bonuses(entries[n].value))
    <3>1. n \in 1 .. N
      BY <2>11
    <3>2. V[n] \in Nat
      BY <2>9, <3>1
    <3>3. /\ ToSet(BonusRules(subject, V[n])) = Bonuses(V[n])
          /\ Len(BonusRules(subject, V[n])) = Cardinality(Bonuses(V[n]))
      BY <2>1, <2>2, <3>2, BonusesAre
    <3>4. /\ entries[n].position = n - 1 /\ entries[n].value = V[n]
          /\ entries[n].bonus = BonusRules(subject, V[n])
      BY <2>11, <3>1
    <3> QED BY <3>3, <3>4
  <2> QED BY <2>12, <2>13, <2>14, <2>15, <2>16 DEF entries
<1>2. ASSUME DomainInv, About("template")
      PROVE  Compiles(subject) <=> Sound
  <2>1. subject \in TemplateSubjects
    BY <1>2 DEF DomainInv, AwardSubjects, PenaltySubjects, TemplateSubjects, MessageSubjects,
                FormSubjects, About
  <2> QED BY <2>1, SoundTemplatesCompile
<1>3. DomainInv => CompilesTheDesignedRound
  BY <1>1, <1>2, Zenon DEF CompilesTheDesignedRound
<1> QED BY <1>3, DomainInvariant, PTL
=============================================================================
