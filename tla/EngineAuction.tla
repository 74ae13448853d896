--------------------------- MODULE EngineAuction ----------------------------
(***************************************************************************)
(* OrderMatchEngine implements Auction: the phase of an auction is read    *)
(* off intentCount, the slot of intentList and its closeTime, its leader   *)
(* is the recorded order.                                                  *)
(***************************************************************************)
EXTENDS OrderMatchEngine

Phase(i) ==
    IF i >= intentCount THEN "unopened"
    ELSE IF ~Opened(i) THEN "dropped"
    ELSE IF intentList[i].closeTime > now THEN "open"
    ELSE "closed"

Abstract == INSTANCE Auction WITH
    Ids    <- IntentIds,
    phase  <- [i \in IntentIds |-> Phase(i)],
    leader <- orderInfo

\* Whatever the wallets, bidders, registries and the owner call, and in
\* whatever order within a block: an auction is opened once, led only while it
\* is open, never reopened by forceCloseIntent, and keeps its leader from the
\* close on until cancelIntent drops both.
ImplementsAuction == Abstract!Spec
=============================================================================
