--------------------------- MODULE MCIntentMarket ---------------------------
(* A small instance of IntentMarket for TLC.                               *)
EXTENDS IntentMarket

CONSTANTS b1, b2, reg

MCConditions == {[swapOutput |-> 1]}

AppContents(creator, council, type, who) ==
    [creator |-> creator, approveSecurityCouncil |-> council,
     scoringType |-> type, whitelist |-> who]

MCNoContents == AppContents(NoAddr, NoAddr, FirstComes, {})

\* An app for everybody and one for its developer only.
MCContents == {AppContents(b2, b2, FirstComes, {}),
               AppContents(b2, b2, HighestWins, {b2})}
=============================================================================
