---------------------------- MODULE TemplateForm ----------------------------
(***************************************************************************)
(* How a template passes from the edit page to the database and back: the  *)
(* form of views/template-edit.eta, its parsing in src/web/routes/         *)
(* templates.ts, the rows of src/db/admin-repository.ts, and the           *)
(* announcements a round gets from them (src/domain/                       *)
(* announcement-templates.ts).                                             *)
(*                                                                         *)
(* Of a form matter the rows of its rules and its announcement texts.  The *)
(* browser sends a row as one more value of every field, so that the n-th  *)
(* values make the n-th row: its id (of a bonus rule), its kind and its    *)
(* argument, which stands for divisor, values, minimum and maximum.  What  *)
(* compileRound checks besides is in RoundCompiler.                        *)
(*                                                                         *)
(* A definition whose name ends in _ is a faulty variant of the one after  *)
(* it; see GameRules.                                                      *)
(***************************************************************************)
EXTENDS Integers, Sequences, SequencesExt, Functions, Filtering

CONSTANTS
    AnnouncementKinds,  \* ANNOUNCEMENT_KINDS
    Unreadable          \* an argument or a text that is rejected

Blank == ""
RuleKinds == {"prime", "divisible_by", "one_of", "range"}
BlankRow == [id |-> Blank, kind |-> Blank, argument |-> Blank]

-----------------------------------------------------------------------------
\* templates.ts

\* Of each row that names a kind, the predicate; a prime has no argument.
Predicate(row) ==
    [kind |-> row.kind, argument |-> IF row.kind = "prime" THEN Blank ELSE row.argument]

Named(rows) == Filtered(rows, {i \in DOMAIN rows : rows[i].kind \in RuleKinds})

\* The arguments are those of the rows as they were numbered before the others went.
PredicatesFromRows_(rows) ==
    [i \in DOMAIN Named(rows) |->
       Predicate([Named(rows)[i] EXCEPT !.argument = rows[i].argument])]

PredicatesFromRows(rows) ==
    LET named == Named(rows) IN [i \in DOMAIN named |-> Predicate(named[i])]

\* The ids are taken by the position of what is left of the rows.
BonusRules(rows) ==
    LET predicates == PredicatesFromRows(rows) IN
      [i \in DOMAIN predicates |-> [id |-> rows[i].id, predicate |-> predicates[i]]]

\* The texts that are not blank, which is also what normalizeOverrides keeps.
Overrides(texts) == Restrict(texts, {kind \in DOMAIN texts : texts[kind] # Blank})

ParseTemplate(form) ==
    [skipRules |-> PredicatesFromRows(form.skip), bonusRules |-> BonusRules(form.bonus),
     announcements |-> Overrides(form.texts)]

ReadableRules(predicates) ==
    \A i \in DOMAIN predicates : predicates[i].argument # Unreadable

\* The schema and copyBonusRules: every bonus rule has an id, and an id of its own.
Accepted(template) ==
    LET rules == template.bonusRules IN
      /\ ReadableRules(template.skipRules)
      /\ ReadableRules([i \in DOMAIN rules |-> rules[i].predicate])
      /\ \A i \in DOMAIN rules :
           rules[i].id # Blank /\ \A j \in DOMAIN rules : rules[i].id = rules[j].id => i = j
      /\ \A kind \in DOMAIN template.announcements : template.announcements[kind] # Unreadable

-----------------------------------------------------------------------------
\* admin-repository.ts: a missing override is a null column.
Null == "null"

Row(template) ==
    [rules |-> [skipRules |-> template.skipRules, bonusRules |-> template.bonusRules],
     overrides |-> [kind \in AnnouncementKinds |->
                      IF kind \in DOMAIN template.announcements
                        THEN template.announcements[kind] ELSE Null]]

GetTemplate(row) ==
    [skipRules |-> row.rules.skipRules, bonusRules |-> row.rules.bonusRules,
     announcements |->
       Restrict(row.overrides, {kind \in AnnouncementKinds : row.overrides[kind] # Null})]

-----------------------------------------------------------------------------
\* resolveAnnouncements, for defaults that are not blank.
ResolveAnnouncements(defaults, overrides) ==
    [kind \in AnnouncementKinds |->
       IF kind \in DOMAIN overrides /\ overrides[kind] # Blank
         THEN overrides[kind] ELSE defaults[kind]]

-----------------------------------------------------------------------------
\* template-edit.eta: a row for each rule, and an empty one.
RowOf(id, predicate) == [id |-> id, kind |-> predicate.kind, argument |-> predicate.argument]

EditPage(template) ==
    LET skip == template.skipRules
        bonus == template.bonusRules
        overrides == template.announcements
    IN  [skip |-> Append([i \in DOMAIN skip |-> RowOf(Blank, skip[i])], BlankRow),
         bonus |-> Append([i \in DOMAIN bonus |-> RowOf(bonus[i].id, bonus[i].predicate)], BlankRow),
         texts |-> [kind \in AnnouncementKinds |->
                      IF kind \in DOMAIN overrides THEN overrides[kind] ELSE Blank]]
=============================================================================
