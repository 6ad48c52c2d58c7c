-------------------------- MODULE NumericSubmission --------------------------
(***************************************************************************)
(* src/domain/numeric-submission.ts: whether a message is a number, and    *)
(* which.  A message is a sequence of characters; of a character only      *)
(* matters which digit it is, if any.  The code compares digit strings, so *)
(* that no number beyond the safe integers is ever computed; the base and  *)
(* the digits of the largest safe integer are parameters.                  *)
(*                                                                         *)
(* A definition whose name ends in _ is a faulty variant of the one after  *)
(* it; see GameRules.                                                      *)
(***************************************************************************)
EXTENDS Integers, Sequences, SequencesExt

CONSTANTS
    Base,
    MaxSafeDigits   \* MAX_SAFE_INTEGER_DIGITS

Digits == 0 .. (Base - 1)

ASSUME BaseAssumption == Base \in Nat \ {0, 1}
ASSUME MaxSafeAssumption ==
    /\ MaxSafeDigits \in Seq(Digits)
    /\ Len(MaxSafeDigits) > 0 /\ MaxSafeDigits[1] # 0

\* The test against /^[0-9]+$/.
IsNumeric(content) == content # <<>> /\ \A i \in DOMAIN content : content[i] \in Digits

\* Without leading zeros, but never empty.
Normalized(content) ==
    LET zeros == {n \in 0 .. Len(content) : \A i \in 1 .. n : content[i] = 0}
        leading == CHOOSE n \in zeros : \A k \in zeros : k <= n
        rest == SubSeq(content, leading + 1, Len(content))
    IN  IF rest = <<>> THEN <<0>> ELSE rest

\* The comparison of two strings.
StringGreater(left, right) ==
    \/ /\ Len(left) > Len(right)
       /\ \A i \in DOMAIN right : left[i] = right[i]
    \/ \E i \in DOMAIN left \cap DOMAIN right :
         /\ left[i] > right[i]
         /\ \A j \in 1 .. (i - 1) : left[j] = right[j]

OutOfRange_(normalized) == StringGreater(normalized, MaxSafeDigits)
OutOfRange(normalized) ==
    \/ Len(normalized) > Len(MaxSafeDigits)
    \/ Len(normalized) = Len(MaxSafeDigits) /\ StringGreater(normalized, MaxSafeDigits)

\* Number(normalized), for what is in range.
ValueOf(digits) == FoldLeft(LAMBDA value, digit : value * Base + digit, 0, digits)

ParseNumericSubmission(content) ==
    CASE ~IsNumeric(content) -> [kind |-> "conversation"]
      [] IsNumeric(content) /\ OutOfRange(Normalized(content)) ->
           [kind |-> "out_of_range", digits |-> content]
      [] OTHER ->
           [kind |-> "safe_integer", digits |-> content,
            value |-> ValueOf(Normalized(content))]
=============================================================================
