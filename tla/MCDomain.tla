------------------------------ MODULE MCDomain ------------------------------
(***************************************************************************)
(* The pure functions of src/domain, each driven through every input up to *)
(* a bound and compared with a definition that does not follow the code.   *)
(* A behaviour is about one of them:                                       *)
(*   awards     contributors to an attempt, whose accepted submissions     *)
(*              grow one at a time                                         *)
(*   penalties  a run of the required entries that advances and is broken  *)
(*              at any progress, again and again, by one player            *)
(*   template   a template to which rules are added; the reference is      *)
(*              section "Sequence Compilation" of docs/superpowers/specs/  *)
(*              2026-09-20-herald-of-jams-counting-game-design.md          *)
(*   message    a message typed character by character                     *)
(*   form       the form of a template, filled in row by row               *)
(***************************************************************************)
EXTENDS GameRules, RoundCompiler, NumericSubmission

CONSTANTS
    Contributors, MaxCount,         \* awards
    MaxRequired,                    \* penalties
    MaxStart, MaxTarget, MaxStep,   \* templates: the ranges of the numbers
    MaxRules,                       \* skip and bonus rules together
    MaxLength,                      \* messages
    AnnouncementKinds, MaxRows      \* forms: the rows of skip and bonus rules together

ASSUME ContributorsAssumption == IsFiniteSet(Contributors)
ASSUME TargetAssumption == MaxTarget \in Nat

VARIABLE subject

Unreadable == "unreadable"
Form == INSTANCE TemplateForm

About(what) == subject.about = what

Awards == [about : {"awards"}, counts : UNION {[S -> {1}] : S \in SUBSET Contributors \ {{}}}]

Penalties == [about : {"penalties"}, required : 1 .. MaxRequired, accepted : {1},
              worst : {0}, furthest : {0}, charged : {0}]

Templates == [about : {"template"}, start : 0 .. MaxStart, target : 0 .. MaxTarget,
              step : 0 .. MaxStep, skipRules : {<<>>}, bonusRules : {<<>>}]

NothingTyped == [about |-> "message", content |-> <<>>]

Texts == {"", "text", Unreadable}

Forms == [about : {"form"}, skip : {<<>>}, bonus : {<<>>}, texts : [AnnouncementKinds -> Texts]]

Init == subject \in Awards \cup Penalties \cup Templates \cup {NothingTyped} \cup Forms

Contribute ==
    /\ About("awards")
    /\ \E c \in DOMAIN subject.counts :
         /\ subject.counts[c] < MaxCount
         /\ subject' = [subject EXCEPT !.counts[c] = @ + 1]

Advance ==
    /\ About("penalties")
    /\ subject.accepted < subject.required
    /\ subject' = [subject EXCEPT !.accepted = @ + 1]

Break ==
    /\ About("penalties")
    /\ LET severity == PenaltySeverity(subject.accepted, subject.required)
           worst == subject.worst
       IN  subject' = [subject EXCEPT
                         !.accepted = 1,
                         !.worst = IF severity < worst THEN severity ELSE worst,
                         !.furthest = IF @ < subject.accepted THEN subject.accepted ELSE @,
                         !.charged = @ + AdditionalPenalty(worst, severity)]

Predicates ==
    {[kind |-> "prime"]}
      \cup [kind : {"divisible_by"}, divisor : 0 .. 3]
      \cup [kind : {"one_of"}, values : {{}, {1, 4}, {MaxTarget}}]
      \cup [kind : {"range"}, minimum : {2, 5}, maximum : {4, MaxTarget}]

AddRule ==
    /\ About("template")
    /\ Len(subject.skipRules) + Len(subject.bonusRules) < MaxRules
    /\ \E predicate \in Predicates :
         \/ subject' = [subject EXCEPT !.skipRules = Append(@, predicate)]
         \/ subject' = [subject EXCEPT !.bonusRules = Append(@, predicate)]

Letter == Base      \* a character that is no digit

Type ==
    /\ About("message")
    /\ Len(subject.content) < MaxLength
    /\ \E character \in Digits \cup {Letter} :
         subject' = [subject EXCEPT !.content = Append(@, character)]

Rows ==
    [id : {"", "x", "y"}, kind : {"", "prime", "range"}, argument : {"1", "2", Unreadable}]

AddRow ==
    /\ About("form")
    /\ Len(subject.skip) + Len(subject.bonus) < MaxRows
    /\ \E row \in Rows :
         \/ row.id = "" /\ subject' = [subject EXCEPT !.skip = Append(@, row)]
         \/ subject' = [subject EXCEPT !.bonus = Append(@, row)]

Next == Contribute \/ Advance \/ Break \/ AddRule \/ Type \/ AddRow

Spec == Init /\ [][Next]_subject

-----------------------------------------------------------------------------
(* Awards and penalties. *)

\* The award of scoring.ts is the tier of the contributor's share of the mean:
\* 2, and one more for each of 75%, 110% and 150% that is reached.
AwardIsTierOfShare ==
    About("awards") =>
      LET counts == subject.counts
          Share(c) == counts[c] * Cardinality(DOMAIN counts) * 100
      IN  \A c \in DOMAIN counts :
            ParticipationAwards(counts)[c] =
              2 + Cardinality({tier \in {75, 110, 150} : Share(c) >= tier * TotalCount(counts)})

\* Charging only the additional penalty of each break costs a player, in whatever
\* order their breaks come, what the one furthest into the round costs: a point, and
\* one more for each quarter of the round that was begun.
ChargesTelescope ==
    About("penalties") =>
      subject.charged =
        IF subject.furthest = 0 THEN 0
        ELSE -1 - Cardinality({q \in 0 .. 3 : q * subject.required < 4 * subject.furthest})

-----------------------------------------------------------------------------
(* Templates. *)

Prime(value) == value > 1 /\ \A factor \in 2 .. (value - 1) : value % factor # 0

Matches(value, predicate) ==
    \/ predicate.kind = "prime" /\ Prime(value)
    \/ predicate.kind = "divisible_by" /\ \E n \in 0 .. value : n * predicate.divisor = value
    \/ predicate.kind = "one_of" /\ value \in predicate.values
    \/ predicate.kind = "range" /\ predicate.minimum <= value /\ value <= predicate.maximum

\* The values of the round: the start, and whatever a number of steps reaches up
\* to the target and no rule skips.
Round ==
    {value \in subject.start .. subject.target :
       /\ \E n \in 0 .. MaxTarget : value = subject.start + n * subject.step
       /\ value # subject.start =>
            ~\E i \in DOMAIN subject.skipRules : Matches(value, subject.skipRules[i])}

WellFormed(rules) ==
    \A i \in DOMAIN rules :
      /\ rules[i].kind = "divisible_by" => rules[i].divisor # 0
      /\ rules[i].kind = "range" => rules[i].minimum <= rules[i].maximum

\* A template is rejected for the reasons the design lists and for no other: what
\* is activated can be counted to its target, and nothing else is refused.
Sound ==
    /\ subject.step > 0 /\ subject.start <= subject.target
    /\ WellFormed(subject.skipRules) /\ WellFormed(subject.bonusRules)
    /\ subject.target \in Round
    /\ Cardinality(Round) <= MaxIncluded
    /\ (subject.target - subject.start) \div subject.step < MaxCandidates

\* Bonus rules are independent and stack: each that matches is carried once.
Bonuses(value) == {i \in DOMAIN subject.bonusRules : Matches(value, subject.bonusRules[i])}

\* Exactly the sound templates compile, to the values of the round in ascending
\* order at consecutive positions, each with its bonuses.  The game compares a
\* submission with the entry at the attempt's length and completes at the last, so
\* the first must be the start and the last the target.
CompilesTheDesignedRound ==
    About("template") =>
      /\ Compiles(subject) <=> Sound
      /\ Compiles(subject) =>
           LET entries == Entries(subject) IN
             /\ {entries[n].value : n \in DOMAIN entries} = Round
             /\ \A n \in 2 .. Len(entries) : entries[n - 1].value < entries[n].value
             /\ entries[1].value = subject.start
             /\ entries[Len(entries)].value = subject.target
             /\ \A n \in DOMAIN entries :
                  /\ entries[n].position = n - 1
                  /\ ToSet(entries[n].bonus) = Bonuses(entries[n].value)
                  /\ Len(entries[n].bonus) = Cardinality(Bonuses(entries[n].value))

-----------------------------------------------------------------------------
(* Messages. *)

\* In the cfg: the largest safe number.
Two == <<2, 1>>

\* The number a string of digits writes.
Written(digits) ==
    LET written[n \in 0 .. Len(digits)] ==
          IF n = 0 THEN 0 ELSE digits[n] + Base * written[n - 1]
    IN  written[Len(digits)]

\* The comparison of strings decides as the numbers would: a message is a
\* submission exactly if it is all digits and its number is safe, whatever zeros
\* lead it, and the value is that number.  A player's 007 is 7; a number too large
\* is deleted as out of range, never rounded to an expected one.
ParsesLikeTheNumber ==
    About("message") =>
      LET content == subject.content
          parsed == ParseNumericSubmission(content)
          numeric == Len(content) > 0 /\ \A i \in 1 .. Len(content) : content[i] # Letter
      IN  /\ parsed.kind = "conversation" <=> ~numeric
          /\ numeric => (parsed.kind = "safe_integer" <=>
                           Written(content) <= Written(MaxSafeDigits))
          /\ parsed.kind = "safe_integer" => parsed.value = Written(content)

-----------------------------------------------------------------------------
(* Forms. *)

Saved == Form!GetTemplate(Form!Row(Form!ParseTemplate(subject)))

Shown(rows) == Filtered(rows, {i \in DOMAIN rows : rows[i].kind # ""})

\* Rows without a kind are at the end, as on the page of a saved template.
NoneCleared(rows) ==
    \A i, j \in DOMAIN rows : i < j /\ rows[i].kind = "" => rows[j].kind = ""

\* A form that is accepted is saved as it was typed: its rules in their order, each
\* with its own argument, and with its own id unless a row before it was cleared;
\* the page of what was saved, sent back untouched, saves the same.  A round gets the
\* announcements typed there, and where none was, the defaults of its activation.
FormSavesWhatItShows ==
    About("form") /\ Form!Accepted(Form!ParseTemplate(subject)) =>
      LET skip == Shown(subject.skip)
          bonus == Shown(subject.bonus)
      IN  /\ Saved.skipRules = [i \in DOMAIN skip |-> Form!Predicate(skip[i])]
          /\ [i \in DOMAIN Saved.bonusRules |-> Saved.bonusRules[i].predicate]
               = [i \in DOMAIN bonus |-> Form!Predicate(bonus[i])]
          /\ NoneCleared(subject.bonus) =>
               \A i \in DOMAIN bonus : Saved.bonusRules[i].id = bonus[i].id
          /\ Form!ParseTemplate(Form!EditPage(Saved)) = Saved
          /\ \A defaults \in [AnnouncementKinds -> {"old", "new"}] :
               Form!ResolveAnnouncements(defaults, Saved.announcements)
                 = [kind \in AnnouncementKinds |->
                      IF subject.texts[kind] = "" THEN defaults[kind] ELSE subject.texts[kind]]
=============================================================================
