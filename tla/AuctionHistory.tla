--------------------------- MODULE AuctionHistory ---------------------------
(***************************************************************************)
(* OrderMatchEngine with a history variable: every submitOrder call that   *)
(* did not revert, in the order the chain ran them, whether or not it      *)
(* became the recorded order.  The engine keeps only the recorded order;   *)
(* what it promises about all the orders handed in needs the history.      *)
(***************************************************************************)
EXTENDS OrderMatchEngine, Sequences

CONSTANT MaxBids   \* bound: accepted submitOrder calls per intent

ASSUME MaxBidsAssumption == MaxBids \in Nat

VARIABLE bids

histVars == <<vars, bids>>

HistInit == Init /\ bids = [i \in IntentIds |-> <<>>]

\* caller is msg.sender, bidder is tx.origin; a first-come order has no score.
Bid(origin, sender, i, orderIntent) ==
    LET type == Metadata(intentList[i].appID).scoringType IN
    [bidder |-> origin, caller |-> sender, type |-> type,
     score |-> IF type \in {HighestWins, LowestWins}
               THEN GetScore(intentList[i].conditions, orderIntent)
               ELSE 0]

RecordedSubmit(origin, sender, i, orderIntent) ==
    /\ Len(bids[i]) < MaxBids
    /\ SubmitOrder(origin, sender, i, orderIntent)
    /\ bids' = [bids EXCEPT ![i] =
                  Append(@, Bid(origin, sender, i, orderIntent))]

RecordedBidding ==
    \E origin \in EOAs, i \in IntentIds, orderIntent \in OrderIntents :
        \E sender \in Callers(origin) :
            RecordedSubmit(origin, sender, i, orderIntent)

HistNext == RecordedBidding \/ (NonBidding /\ UNCHANGED bids)

HistSpec == HistInit /\ [][HistNext]_histVars

-----------------------------------------------------------------------------
\* All accepted calls on intent i, at least one, were scored as type.  The
\* app's scoring type may change under a running auction.
BidsAre(i, type) ==
    /\ Opened(i) /\ bids[i] # <<>>
    /\ \A k \in DOMAIN bids[i] : bids[i][k].type = type

\* k is the earliest of the best bids on i.
EarliestBest(i, k, Better(_, _)) ==
    /\ \A j \in DOMAIN bids[i] : ~Better(bids[i][j].score, bids[i][k].score)
    /\ \A j \in 1 .. k - 1 : Better(bids[i][k].score, bids[i][j].score)

Leads(i, k) == /\ orderInfo[i].sender = bids[i][k].bidder
               /\ orderInfo[i].score = bids[i][k].score

\* Type 0, "Winner determined by who submitted the order first"
\* (Constraints.sol:27): whoever comes first is and stays the winner.
FirstBidWins ==
    \A i \in IntentIds :
        BidsAre(i, FirstComes) => orderInfo[i].sender = bids[i][1].bidder

\* Type 1 keeps the earliest of the highest bids, whatever the order of the
\* calls and the ties among them, if it promises more than the user's minimum.
\* Of auctions in which nobody does, HighestBidWins says nothing: there the
\* code departs from what is documented (ZeroBidsNeverWin in AuctionProofs).
HighestBidWins ==
    \A i \in IntentIds :
        BidsAre(i, HighestWins) =>
            \A k \in DOMAIN bids[i] :
                EarliestBest(i, k, >) /\ bids[i][k].score > 0 => Leads(i, k)

\* The order on i came from its bidder's own account.
DirectlyLed(i) ==
    /\ orderInfo[i] # NoOrder
    /\ \A k \in DOMAIN bids[i] :
           bids[i][k].bidder = orderInfo[i].sender
               => bids[i][k].caller = bids[i][k].bidder

\* A winner that bid from its own account cannot have taken its deposit out
\* while it can still be slashed: its waiting period restarted with the order.
DirectWinnerLocked ==
    \A i \in IntentIds :
        DirectlyLed(i) =>
            recentActionTime[orderInfo[i].sender] >= orderInfo[i].submitTime

\* Type 2, "Winner calculated in descending order of score"
\* (Constraints.sol:29): an intent with bids has a winner, one with the lowest
\* score.
LowestBidWins ==
    \A i \in IntentIds :
        BidsAre(i, LowestWins) =>
            \A k \in DOMAIN bids[i] : EarliestBest(i, k, <) => Leads(i, k)
=============================================================================
