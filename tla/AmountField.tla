---------------------------- MODULE AmountField ----------------------------
(***************************************************************************)
(* One amount field of the goal form, typed into character by character:   *)
(* parseTokenAmount and formatTokenAmount of src/domain/goal-draft.ts      *)
(* against what they should compute, over every text of a bounded length.  *)
(***************************************************************************)
EXTENDS GoalDraft

CONSTANTS
    Decimals,       \* of the field's token
    Keyboard,       \* the characters typed here
    MaxLength       \* bound: the length of a text

ASSUME AmountFieldAssumption ==
    Decimals \in Nat \ {0} /\ Keyboard \subseteq Character /\ MaxLength \in Nat

VARIABLE typed

Empty == typed = <<>>

Type == Len(typed) < MaxLength /\ \E c \in Keyboard : typed' = Append(typed, c)

Clear == typed # <<>> /\ typed' = <<>>

Keystroke == Type \/ Clear

FieldSpec == Empty /\ [][Keystroke]_typed

Parsed == parseTokenAmount(typed, Decimals)

-----------------------------------------------------------------------------
(* Reference definitions: the value of a decimal, place by place, and what *)
(* a person would call one.                                                *)

Point(t) == IF \E n \in DOMAIN t : t[n] = "."
            THEN CHOOSE n \in DOMAIN t : t[n] = "." ELSE Len(t) + 1

PowerOfTen(k) == LET upTo[n \in 0..k] == IF n = 0 THEN 1 ELSE 10 * upTo[n - 1] IN upTo[k]

\* What the n-th character stands for, in units of the last decimal place.
Place(t, n) ==
    LET weight == IF n < Point(t) THEN Point(t) - 1 - n ELSE Point(t) - n
        digit == CHOOSE d \in 0..9 : Digits[d + 1] = t[n]
    IN  IF t[n] = "." THEN 0 ELSE digit * PowerOfTen(Decimals + weight)

Places(t) ==
    LET upTo[n \in 0..Len(t)] == IF n = 0 THEN 0 ELSE upTo[n - 1] + Place(t, n)
    IN  upTo[Len(t)]

\* Digits with at most one point among them, no needless leading zero, no more
\* places than the token has, and not nothing.
IsDecimal(t) ==
    /\ t # <<>> /\ t[1] \in Digit /\ t[Len(t)] \in Digit
    /\ \A n \in DOMAIN t : t[n] \in Digit \cup {"."}
    /\ \A n, m \in DOMAIN t : t[n] = "." /\ t[m] = "." => n = m
    /\ (t[1] = "0" /\ Len(t) > 1) => t[2] = "."
    /\ Len(t) - Point(t) <= Decimals

\* src/domain/goal-draft.test.ts:13, "creates exact token amounts": a text is
\* accepted just when it is a positive decimal, blanks around it apart, that the
\* token can represent, and what is stored is its exact value.
ParsesExactly ==
    Parsed = IF IsDecimal(trim(typed)) THEN Places(trim(typed)) ELSE NoAmount

\* src/domain/goal-draft.test.ts:61, "keeps exact decimal formatting": the
\* preview of an accepted amount reads back as the same amount, is itself a
\* decimal, and ends in no idle zero.
FormatsExactly ==
    Parsed # NoAmount =>
        LET shown == formatTokenAmount(Parsed, Decimals)
        IN  /\ parseTokenAmount(shown, Decimals) = Parsed
            /\ IsDecimal(shown)
            /\ Point(shown) < Len(shown) => shown[Len(shown)] # "0"
=============================================================================
