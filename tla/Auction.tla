------------------------------ MODULE Auction -------------------------------
(***************************************************************************)
(* What OrderMatchEngine promises of its auctions, without time, scores,   *)
(* deposits or accounts: each id is an auction that is opened once, in     *)
(* order, has a leading order that changes only while it is open, is       *)
(* closed once, and from then on keeps its outcome until it is dropped     *)
(* together with it.                                                       *)
(***************************************************************************)
EXTENDS Integers

CONSTANTS
    Ids,      \* auction ids, 0 .. n
    Orders,   \* what may lead an auction
    NoOrder   \* no order leads

Phases == {"unopened", "open", "closed", "dropped"}

VARIABLES phase, leader

auctionVars == <<phase, leader>>

Init ==
    /\ phase = [i \in Ids |-> "unopened"]
    /\ leader = [i \in Ids |-> NoOrder]

Open(i) ==
    /\ phase[i] = "unopened"
    /\ \A j \in Ids : j < i => phase[j] # "unopened"
    /\ phase' = [phase EXCEPT ![i] = "open"]
    /\ UNCHANGED leader

\* Some order takes the lead; which one is not said here.
Lead(i) ==
    /\ phase[i] = "open"
    /\ leader'[i] \in Orders \ {NoOrder}
    /\ leader' = [leader EXCEPT ![i] = leader'[i]]
    /\ UNCHANGED phase

\* Several auctions may come to their end at the same instant.
Close(ended) ==
    /\ \A i \in ended : phase[i] = "open"
    /\ phase' = [i \in Ids |-> IF i \in ended THEN "closed" ELSE phase[i]]
    /\ UNCHANGED leader

Drop(i) ==
    /\ phase[i] = "closed"
    /\ phase' = [phase EXCEPT ![i] = "dropped"]
    /\ leader' = [leader EXCEPT ![i] = NoOrder]

Next ==
    \/ \E i \in Ids : Open(i) \/ Lead(i) \/ Drop(i)
    \/ \E ended \in SUBSET Ids : Close(ended)

Spec == Init /\ [][Next]_auctionVars
=============================================================================
