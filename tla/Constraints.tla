---------------------------- MODULE Constraints ----------------------------
(***************************************************************************)
(* The Constraints contract of the sample app                              *)
(* (market-contracts/src/AppSample/Constraints.sol): the scoring, which    *)
(* OrderMatchEngine.submitOrder calls, and the check of the outcome, which *)
(* AppLauncher.run makes.                                                  *)
(*                                                                         *)
(* A condition is the packed argument the wallet signed, a record; of its  *)
(* fields the scoring reads only swapOutput, the least output the user     *)
(* accepts.  An orderIntent is the output amount a bidder promises, a      *)
(* number.                                                                 *)
(***************************************************************************)
EXTENDS Integers

\* The scoring types of getScoringType.  Every other uint8 makes submitOrder
\* succeed without recording anything.
FirstComes   == 0
HighestWins  == 1
LowestWins   == 2
ScoringTypes == 0 .. 255

\* getScore subtracts with checked arithmetic: an order that promises less
\* than the user asked for makes the call revert.
Scorable(conditions, orderIntent) == conditions.swapOutput <= orderIntent

GetScore(conditions, orderIntent) == orderIntent - conditions.swapOutput

\* The wallet's balances of the two assets, funds being all its balances.
GetPrevState(funds, conditions) ==
    [input  |-> funds[conditions.swapInputAsset],
     output |-> funds[conditions.swapOutputAsset]]

\* check returns TRUE.  The first two conjuncts are its checked subtractions;
\* the output the wallet got is computed by the second and compared with
\* nothing.
Check(funds, prevState, conditions, orderIntent, timestamp) ==
    LET afterState == GetPrevState(funds, conditions) IN
    /\ prevState.input >= afterState.input
    /\ afterState.output >= prevState.output
    /\ conditions.swapInput >= prevState.input - afterState.input
    /\ conditions.swapOutput <= orderIntent
    /\ conditions.marketTiming <= timestamp
=============================================================================
