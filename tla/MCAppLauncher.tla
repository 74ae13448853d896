--------------------------- MODULE MCAppLauncher ----------------------------
(* A small instance of AppLauncher for TLC.                                *)
EXTENDS AppLauncher

CONSTANTS b1, w1, la, reg

MCConditions == {[swapOutput |-> 1]}

MCListings == {[listed |-> TRUE, scoringType |-> FirstComes, whitelist |-> {}]}

\* The op the wallet's user interface prepares, and one signed for the id
\* another wallet got first.
MCUserOps == {[sender |-> w1, nonce |-> 1, intentID |-> i] : i \in {0, 1}}
=============================================================================
