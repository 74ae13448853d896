-------------------------- MODULE MCAuctionHistory --------------------------
(* Small instances of AuctionHistory for TLC.                              *)
EXTENDS AuctionHistory, EngineAuction, TLC

CONSTANTS b1, b2, w1, reg

MCConditions == {[swapOutput |-> 1]}

App(type, who) == [listed |-> TRUE, scoringType |-> type, whitelist |-> who]

\* The scoring types that work, open to everybody or to one bidder.
ScoredListings == {App(FirstComes, {}), App(HighestWins, {})}
                    \cup {App(HighestWins, {b}) : b \in EOAs}

LowestListings == {App(LowestWins, {})}

\* Bidders are interchangeable: Admin and Launchers are not among them, and
\* ScoredListings whitelists each of them.
Bidders == Permutations(EOAs)
=============================================================================
