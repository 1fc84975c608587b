----------------------------- MODULE MCComposer -----------------------------
(* Forms with two deadlines, one of them too near after a tick, one with   *)
(* the floor above the preferred amount, and one with more places than the *)
(* sell token of one of the two markets has.                               *)
EXTENDS Composer, TLC

CONSTANTS s1, s2

Form(sell, preferred, minimum, deadline) ==
    [sellAmount |-> sell, preferredBuyAmount |-> preferred,
     minimumBuyAmount |-> minimum, deadline |-> deadline]

MCBlank == [sellAmount |-> <<>>, preferredBuyAmount |-> <<>>,
            minimumBuyAmount |-> <<>>, deadline |-> 0]

MCInputs == {Form(<<"1">>, <<"2">>, <<"1", ".", "5">>, 2),
             Form(<<"1", ".", "2", "5">>, <<"2">>, <<"2">>, 3),
             Form(<<"1">>, <<"1">>, <<"2">>, 3)}

MCMarkets == {[sellDecimals |-> 1, buyDecimals |-> 1],
              [sellDecimals |-> 2, buyDecimals |-> 1]}

ComposerSymmetry == Permutations(Saves)
=============================================================================
