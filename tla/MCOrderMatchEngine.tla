------------------------ MODULE MCOrderMatchEngine --------------------------
(* Small instances of OrderMatchEngine for TLC.                            *)
EXTENDS EngineFairness

CONSTANTS b1, b2, w1, reg

MCConditions == {[swapOutput |-> 1]}

Listing(flag, type, who) ==
    [listed |-> flag, scoringType |-> type, whitelist |-> who]

OpenListings   == {Listing(TRUE, t, {}) : t \in {0, 1}}
OneListing     == {Listing(TRUE, 0, {})}
=============================================================================
