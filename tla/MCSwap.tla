------------------------------- MODULE MCSwap -------------------------------
(* Small instances of Swap for TLC.                                        *)
EXTENDS Swap

CONSTANTS a, b, r1, r2, la, eoa

Swapping(input, output, timing) ==
    [swapInput |-> input, swapInputAsset |-> a, swapOutput |-> output,
     swapOutputAsset |-> b, marketTiming |-> timing]

\* A swap, and a larger one that has to wait.
MCIntents == {Swapping(1, 2, 1), Swapping(2, 1, 2)}

MCPairs == {<<a, b>>}

MCRoutes == {<<a, b>>, <<b, a>>}

MCFunds == [asset \in Assets |-> IF asset = a THEN 3 ELSE 0]
=============================================================================
