----------------------------- MODULE GoalDraft -----------------------------
(***************************************************************************)
(* What the goal form accepts: src/domain/goal-draft.ts.                   *)
(* A text is a sequence of characters; only the characters that a token    *)
(* amount can hold, a blank and a sign are told apart.  An instant is in   *)
(* milliseconds, and a deadline is the wall-clock time that the browser's  *)
(* date field holds: it names no zone, and Date.parse reads it in the zone *)
(* of the machine it runs on.                                              *)
(***************************************************************************)
EXTENDS Integers, Sequences

CONSTANTS
    CHECKPOINT_LEAD_TIME_MS, MINIMUM_GOAL_DURATION_MS

ASSUME GoalDraftAssumption ==
    /\ CHECKPOINT_LEAD_TIME_MS \in Nat \ {0} /\ MINIMUM_GOAL_DURATION_MS \in Nat
    /\ CHECKPOINT_LEAD_TIME_MS < MINIMUM_GOAL_DURATION_MS

Digits == <<"0", "1", "2", "3", "4", "5", "6", "7", "8", "9">>

Digit == {Digits[n] : n \in 1..10}

Character == Digit \cup {".", " ", "-"}

\* What is thrown instead of an amount, which is never 0, and of a draft.
NoAmount == 0
Rejected == [absent |-> "draft"]

\* BigInt of a text of digits.
BigIntOf(text) ==
    LET ValueOf(c) == CHOOSE d \in 0..9 : Digits[d + 1] = c
        upTo[n \in 0..Len(text)] ==
            IF n = 0 THEN 0 ELSE 10 * upTo[n - 1] + ValueOf(text[n])
    IN  upTo[Len(text)]

IsDigits(text) == text # <<>> /\ \A n \in DOMAIN text : text[n] \in Digit

trim(text) ==
    LET inked == {n \in DOMAIN text : text[n] # " "}
    IN  IF inked = {} THEN <<>>
        ELSE SubSeq(text, CHOOSE n \in inked : \A m \in inked : n <= m,
                          CHOOSE n \in inked : \A m \in inked : m <= n)

\* Where the whole part ends: before the point, or at the end.
WholeLength(text) ==
    LET points == {n \in DOMAIN text : text[n] = "."}
    IN  IF points = {} THEN Len(text) ELSE (CHOOSE n \in points : \A m \in points : n <= m) - 1

\* /^(0|[1-9]\d*)(?:\.(\d+))?$/
Matches(text) ==
    LET n == WholeLength(text)
        whole == SubSeq(text, 1, n)
    IN  /\ IsDigits(whole)
        /\ Len(whole) > 1 => whole[1] # "0"
        /\ n < Len(text) => IsDigits(SubSeq(text, n + 2, Len(text)))

Zeros(n) == [m \in 1..n |-> "0"]

\* A mistake: the fraction is put behind the whole part as it is.
ParseMutUnpadded(value, decimals) ==
    LET text == trim(value)
        n == WholeLength(text)
        fraction == SubSeq(text, n + 2, Len(text))
        raw == BigIntOf(SubSeq(text, 1, n) \o fraction)
    IN  IF Matches(text) /\ Len(fraction) <= decimals THEN raw ELSE NoAmount

\* A text that is no decimal, too precise, or zero is refused.
parseTokenAmount(value, decimals) ==
    LET text == trim(value)
        n == WholeLength(text)
        fraction == SubSeq(text, n + 2, Len(text))
        raw == BigIntOf(SubSeq(text, 1, n) \o fraction \o Zeros(decimals - Len(fraction)))
    IN  IF Matches(text) /\ Len(fraction) <= decimals THEN raw ELSE NoAmount

\* amount.toString()
toString(amount) ==
    LET upTo[a \in 0..amount] ==
            IF a < 10 THEN <<Digits[a + 1]>>
            ELSE Append(upTo[a \div 10], Digits[(a % 10) + 1])
    IN  upTo[amount]

padStart(text, size) == Zeros(size - Len(text)) \o text

\* A mistake: all the zeros of the fraction are dropped, not the trailing ones.
FormatMutZeros(amount, decimals) ==
    LET digits == padStart(toString(amount), decimals + 1)
        point == Len(digits) - decimals
        fraction == SelectSeq(SubSeq(digits, point + 1, Len(digits)), LAMBDA c : c # "0")
    IN  IF fraction = <<>> THEN SubSeq(digits, 1, point)
        ELSE SubSeq(digits, 1, point) \o <<".">> \o fraction

\* For decimals > 0, as every market has them.
formatTokenAmount(amount, decimals) ==
    LET digits == padStart(toString(amount), decimals + 1)
        point == Len(digits) - decimals
        last == CHOOSE n \in point..Len(digits) :
                    /\ n = point \/ digits[n] # "0"
                    /\ \A m \in n + 1 .. Len(digits) : digits[m] = "0"
    IN  IF last = point THEN SubSeq(digits, 1, point)
        ELSE SubSeq(digits, 1, point) \o <<".">> \o SubSeq(digits, point + 1, last)

-----------------------------------------------------------------------------
Input == [sellAmount : Seq(Character), preferredBuyAmount : Seq(Character),
          minimumBuyAmount : Seq(Character), deadline : Int]

Draft == [sellAmount : Int, preferredBuyAmount : Int, minimumBuyAmount : Int,
          deadline : Nat, checkpointAt : Nat]

\* The decimals of a market's two tokens.
Market == [sellDecimals : Nat \ {0}, buyDecimals : Nat \ {0}]

\* Date.parse of the date field, in a zone so far ahead of UTC.
DateParse(deadline, zone) == deadline - zone

\* domain/checkpoint.ts has this rule with a constant of its own, which is equal.
checkpointAt(deadline) == deadline - CHECKPOINT_LEAD_TIME_MS

validateGoalDraft(input, now, zone, market) ==
    LET sell == parseTokenAmount(input.sellAmount, market.sellDecimals)
        preferred == parseTokenAmount(input.preferredBuyAmount, market.buyDecimals)
        minimum == parseTokenAmount(input.minimumBuyAmount, market.buyDecimals)
        deadline == DateParse(input.deadline, zone)
    IN  IF \/ NoAmount \in {sell, preferred, minimum}
           \/ minimum > preferred
           \/ deadline < now + MINIMUM_GOAL_DURATION_MS
        THEN Rejected
        ELSE [sellAmount |-> sell, preferredBuyAmount |-> preferred,
              minimumBuyAmount |-> minimum, deadline |-> deadline,
              checkpointAt |-> checkpointAt(deadline)]
=============================================================================
