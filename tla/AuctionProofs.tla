--------------------------- MODULE AuctionProofs ----------------------------
(***************************************************************************)
(* Proofs about the auctions of OrderMatchEngine, for all parameters.      *)
(*                                                                         *)
(* First, the engine implements Auction: under the inductive invariant     *)
(* IInv every step of the engine is a step of Auction or leaves phases and *)
(* leaders alone.  Then who wins, by an inductive invariant HInv over the  *)
(* history of bids, and where nobody does: bids of score 0 and an app of   *)
(* scoring type 2 never have a winner.  Last, by an inductive invariant    *)
(* VInv over the history of deposits, that leaders can be slashed.         *)
(***************************************************************************)
EXTENDS EngineAuction, AuctionHistory, VaultHistory, OrderMatchEngineProofs

\* The slots of intentList at the next state decide the phases there.
LEMMA SamePhases ==
    ASSUME UNCHANGED <<now, intentCount, intentList>>
    PROVE  UNCHANGED [i \in IntentIds |-> Phase(i)]
BY DEF Phase, Opened

LEMMA PhaseTypes ==
    ASSUME IInv, NEW i \in IntentIds
    PROVE  /\ i \in Nat /\ intentCount \in Nat /\ now \in Nat
           /\ intentList[i] \in Intents /\ intentList[i].closeTime \in Nat
           /\ orderInfo[i] \in Orders
BY DEF IInv, TypeOK, Intents, IntentIds

\* A call that touches neither intents nor orders, at an unchanged time.
LEMMA Aside ==
    ASSUME UNCHANGED <<now, board>>
    PROVE  UNCHANGED Abstract!auctionVars
BY SamePhases DEF board, Abstract!auctionVars

LEMMA BidLeads == ASSUME IInv, IInv', Bidding
                  PROVE  [Abstract!Next]_(Abstract!auctionVars)
<1>1. PICK origin \in EOAs, i \in IntentIds, orderIntent \in OrderIntents :
          \E sender \in Callers(origin) :
              SubmitOrder(origin, sender, i, orderIntent)
  BY DEF Bidding
<1>2. UNCHANGED <<now, intentCount, intentList>> /\ Biddable(i)
  BY <1>1 DEF SubmitOrder, MaySubmit
<1>3. UNCHANGED [j \in IntentIds |-> Phase(j)]
  BY <1>2, SamePhases
<1>4. CASE UNCHANGED orderInfo
  BY <1>3, <1>4 DEF Abstract!auctionVars
<1>5. CASE ~UNCHANGED orderInfo
  <2> DEFINE new == NewOrder(i, origin, Metadata(intentList[i].appID).scoringType,
                             orderIntent)
  <2>1. orderInfo' = [orderInfo EXCEPT ![i] = new]
    BY <1>1, <1>5 DEF SubmitOrder
  <2>2. new.submitTime = now /\ now > 0
    BY ZeroTypes DEF NewOrder, IInv, TypeOK
  <2>3. orderInfo'[i] = new
    BY <2>1 DEF IInv, TypeOK
  <2> HIDE DEF new
  <2>4. orderInfo'[i] \in Orders \ {NoOrder}
    BY <2>2, <2>3 DEF IInv, TypeOK, NoOrder
  <2>5. orderInfo' = [orderInfo EXCEPT ![i] = orderInfo'[i]]
    BY <2>1, <2>3
  <2>6. Phase(i) = "open"
    BY <1>2, PhaseTypes, SlotOpened
       DEF Biddable, Phase, IInv, FreshIds, Opened
  <2>7. Abstract!Lead(i)
    BY <1>3, <2>4, <2>5, <2>6 DEF Abstract!Lead
  <2> QED
    BY <2>7 DEF Abstract!Next
<1> QED
  BY <1>4, <1>5

LEMMA OpenOpens ==
    ASSUME IInv, IInv',
           NEW sender \in Accounts, NEW appID \in AppIds,
           NEW conditions \in Conditions, NEW duration \in Durations,
           NEW op \in UserOps,
           OpenIntent(sender, appID, conditions, duration, op)
    PROVE  Abstract!Next
<1>1. /\ intentCount \in IntentIds
      /\ UNCHANGED <<now, orderInfo>>
      /\ now \in Nat
  BY ZeroTypes DEF OpenIntent, IInv, TypeOK, IntentIds
<1>2. PICK c \in IntentIds : c = intentCount
  BY <1>1
<1>3. intentCount' = c + 1 /\ c \in Nat
  BY <1>2, ZeroTypes DEF OpenIntent, IntentIds
<1>4. /\ intentList' = [intentList EXCEPT ![c] =
                          [appID |-> appID, conditions |-> conditions,
                           closeTime |-> now + duration, creator |-> sender,
                           executed |-> FALSE, op |-> op]]
      /\ intentList \in [IntentIds -> Intents]
  BY <1>2 DEF OpenIntent, IInv, TypeOK
<1>5. \A j \in IntentIds : j # c => intentList'[j] = intentList[j]
  BY <1>4
<1>6. intentList'[c].closeTime = now + duration /\ Opened(c)'
  <2>1. intentList'[c].creator = sender
    BY <1>4
  <2>2. NoIntent.creator = NoAddr /\ NoIntent' = NoIntent
    BY DEF NoIntent
  <2>3. intentList'[c] # NoIntent
    BY <2>1, <2>2, AddressAssumption
  <2> QED
    BY <1>4, <2>2, <2>3 DEF Opened
<1>7. duration \in Nat /\ duration > 0
  BY <1>1, NumberAssumption, DataAssumption DEF OpenIntent
<1>8. Phase(c) = "unopened"
  BY <1>2, <1>3 DEF Phase
<1>9. Phase(c)' = "open"
  BY <1>1, <1>3, <1>6, <1>7 DEF Phase
<1>10. \A j \in IntentIds : j # c => Phase(j)' = Phase(j)
  BY <1>1, <1>2, <1>3, <1>5 DEF Phase, Opened, IntentIds
<1>11. \A j \in IntentIds : j < c => Phase(j) # "unopened"
  BY <1>2, <1>3 DEF Phase, IntentIds
<1>12. [j \in IntentIds |-> Phase(j)']
          = [[j \in IntentIds |-> Phase(j)] EXCEPT ![c] = "open"]
  BY <1>9, <1>10
<1>13. Abstract!Open(c)
  BY <1>1, <1>8, <1>11, <1>12 DEF Abstract!Open
<1> QED
  BY <1>13 DEF Abstract!Next

LEMMA CancelDrops ==
    ASSUME IInv, IInv', NEW sender \in Accounts, NEW i \in IntentIds,
           CancelIntent(sender, i)
    PROVE  Abstract!Next
<1>1. /\ intentList' = [intentList EXCEPT ![i] = NoIntent]
      /\ orderInfo' = [orderInfo EXCEPT ![i] = NoOrder]
      /\ UNCHANGED <<now, intentCount>>
      /\ intentList[i].creator \in Accounts /\ intentList[i].closeTime < now
  BY DEF CancelIntent, MayCancel, Cancelled
<1>2. Opened(i) /\ i < intentCount
  BY <1>1, PhaseTypes, SlotOpened DEF IInv, FreshIds, Opened
<1>3. Phase(i) = "closed"
  BY <1>1, <1>2, PhaseTypes DEF Phase
<1>4. Phase(i)' = "dropped"
  BY <1>1, <1>2, PhaseTypes DEF Phase, Opened, IInv, TypeOK
<1>5. \A j \in IntentIds : j # i => Phase(j)' = Phase(j)
  BY <1>1 DEF Phase, Opened, IInv, TypeOK
<1>6. [j \in IntentIds |-> Phase(j)']
          = [[j \in IntentIds |-> Phase(j)] EXCEPT ![i] = "dropped"]
  BY <1>4, <1>5
<1>7. Abstract!Drop(i)
  BY <1>1, <1>3, <1>6 DEF Abstract!Drop
<1> QED
  BY <1>7 DEF Abstract!Next

\* One slot is rewritten, opened before and after, on the same side of now.
LEMMA Amended ==
    ASSUME IInv, NEW i \in IntentIds, NEW new,
           intentList' = [intentList EXCEPT ![i] = new],
           UNCHANGED <<now, intentCount, orderInfo>>,
           Opened(i), new # NoIntent,
           new.closeTime > now <=> intentList[i].closeTime > now
    PROVE  UNCHANGED Abstract!auctionVars
<1>1. \A j \in IntentIds : Phase(j)' = Phase(j)
  BY DEF Phase, Opened, IInv, TypeOK
<1> QED
  BY <1>1 DEF Abstract!auctionVars

LEMMA ForceCloseKeepsPhase ==
    ASSUME IInv, NEW sender \in Accounts, NEW i \in IntentIds,
           ForceCloseIntent(sender, i)
    PROVE  UNCHANGED Abstract!auctionVars
<1> DEFINE new == [intentList[i] EXCEPT !.closeTime = now]
<1>1. /\ intentList' = [intentList EXCEPT ![i] = new]
      /\ UNCHANGED <<now, intentCount, orderInfo>>
      /\ intentList[i].closeTime < now
  BY DEF ForceCloseIntent, MayForceClose, IInv, TypeOK
<1>2. new.closeTime = now /\ now > 0
  BY PhaseTypes, ZeroTypes DEF Intents, IInv, TypeOK
<1>3. Opened(i)
  BY SlotOpened DEF ForceCloseIntent, MayForceClose, IInv
<1> HIDE DEF new
<1>4. new # NoIntent
  BY <1>2 DEF NoIntent
<1>5. ~(new.closeTime > now) /\ ~(intentList[i].closeTime > now)
  BY <1>1, <1>2, PhaseTypes
<1> QED
  BY <1>1, <1>3, <1>4, <1>5, Amended

LEMMA SetExecutedKeepsPhase ==
    ASSUME IInv, NEW sender, NEW i \in IntentIds, SetExecuted(sender, i)
    PROVE  UNCHANGED Abstract!auctionVars
<1> DEFINE new == [intentList[i] EXCEPT !.executed = TRUE]
<1>1. /\ intentList' = [intentList EXCEPT ![i] = new]
      /\ UNCHANGED <<now, intentCount, orderInfo>>
  BY DEF SetExecuted, IInv, TypeOK
<1>2. new.closeTime = intentList[i].closeTime /\ new.executed
  BY PhaseTypes DEF Intents
<1>3. Opened(i)
  BY SlotOpened DEF SetExecuted, MaySetExecuted, IInv
<1> HIDE DEF new
<1>4. new # NoIntent
  BY <1>2 DEF NoIntent
<1> QED
  BY <1>1, <1>2, <1>3, <1>4, Amended

LEMMA TickCloses == ASSUME IInv, Tick PROVE Abstract!Next
<1> DEFINE ended == {i \in IntentIds : Phase(i) = "open" /\ Phase(i)' # "open"}
<1>1. now' = now + 1 /\ UNCHANGED <<intentCount, intentList, orderInfo>>
  BY DEF Tick, board
<1>2. ASSUME NEW i \in IntentIds
      PROVE  Phase(i)' = IF i \in ended THEN "closed" ELSE Phase(i)
  <2>1. /\ i \in Nat /\ intentCount \in Nat /\ now \in Nat
        /\ intentList[i].closeTime \in Nat
    BY PhaseTypes
  <2> QED
    BY <1>1, <2>1 DEF Phase, Opened
<1>3. [i \in IntentIds |-> Phase(i)']
          = [i \in IntentIds |-> IF i \in ended THEN "closed"
                                 ELSE [j \in IntentIds |-> Phase(j)][i]]
  BY <1>2
<1>4. Abstract!Close(ended)
  BY <1>1, <1>3 DEF Abstract!Close
<1> QED
  BY <1>4 DEF Abstract!Next

LEMMA AuctionStep ==
    ASSUME IInv, IInv', [Next]_vars
    PROVE  [Abstract!Next]_(Abstract!auctionVars)
<1>1. CASE Bidding
  BY <1>1, BidLeads
<1>2. CASE Intending
  BY <1>2, OpenOpens, CancelDrops, ForceCloseKeepsPhase DEF Intending
<1>3. CASE Launching
  BY <1>3, SetExecutedKeepsPhase DEF Launching
<1>4. CASE Tick
  BY <1>4, TickCloses
<1>5. CASE Vault \/ Administration \/ Relisting
  <2>1. UNCHANGED <<now, board>>
    BY <1>5
       DEF Vault, Deposit, Withdraw, Slash, ReceiveEther, Administration,
           SetMarketRegistry, SetLauncher, TransferOwnership,
           RenounceOwnership, Relisting, Relist
  <2> QED
    BY <2>1, Aside
<1>6. CASE UNCHANGED vars
  BY <1>6, Aside DEF vars
<1> QED
  BY <1>1, <1>2, <1>3, <1>4, <1>5, <1>6 DEF Next, NonBidding

\* An auction is opened once and in order, led while it is open only, closed
\* once, and keeps its leader from the close on until it is dropped.
THEOREM EngineImplementsAuction == Spec => ImplementsAuction
<1>1. Init => Abstract!Init
  <2> SUFFICES ASSUME Init PROVE Abstract!Init
    OBVIOUS
  <2>1. \A i \in IntentIds : Phase(i) = "unopened"
    BY DEF Init, Phase, IntentIds
  <2> QED
    BY <2>1 DEF Init, Abstract!Init
<1>2. IInv /\ IInv' /\ [Next]_vars => [Abstract!Next]_(Abstract!auctionVars)
  BY AuctionStep
<1> QED
  BY <1>1, <1>2, Invariance, PTL DEF Spec, ImplementsAuction, Abstract!Spec

-----------------------------------------------------------------------------
(* Who wins.                                                               *)

Bids == [bidder : EOAs, caller : Accounts, type : ScoringTypes, score : Int]

\* No order without a bid, no bid on an id that was not handed out.
BidsLogged ==
    /\ bids \in [IntentIds -> Seq(Bids)]
    /\ \A i \in IntentIds :
           /\ i >= intentCount => bids[i] = <<>>
           /\ bids[i] = <<>> => orderInfo[i] = NoOrder
           /\ orderInfo[i] # NoOrder => orderInfo[i].sender \in Accounts
           /\ orderInfo[i].submitTime <= now

\* With first-come bids only, the slot is taken since the first one.
FirstLeads(i) ==
    BidsAre(i, FirstComes) => /\ orderInfo[i].sender = bids[i][1].bidder
                              /\ orderInfo[i].submitTime # 0

\* k is the earliest of the highest bids.
Tops(i, k) ==
    /\ \A j \in DOMAIN bids[i] : bids[i][j].score <= bids[i][k].score
    /\ \A j \in 1 .. k - 1 : bids[i][j].score < bids[i][k].score

\* With bids by score only, either none was above the minimum and none is
\* recorded, or the top one is.
BestLeads(i) ==
    BidsAre(i, HighestWins) =>
        \/ /\ orderInfo[i] = NoOrder
           /\ \A k \in DOMAIN bids[i] : bids[i][k].score <= 0
        \/ \E k \in DOMAIN bids[i] :
              Leads(i, k) /\ bids[i][k].score > 0 /\ Tops(i, k)

HInv == /\ IInv /\ BidsLogged /\ DirectWinnerLocked
        /\ \A i \in IntentIds : FirstLeads(i) /\ BestLeads(i)

LEMMA HistTypes ==
    ASSUME HInv
    PROVE  /\ now \in Nat /\ now > 0 /\ intentCount \in Nat
           /\ recentActionTime \in [Accounts -> Nat]
           /\ orderInfo \in [IntentIds -> Orders]
           /\ intentList \in [IntentIds -> Intents]
           /\ bids \in [IntentIds -> Seq(Bids)]
           /\ IntentIds \subseteq Nat
BY ZeroTypes DEF HInv, IInv, TypeOK, BidsLogged, IntentIds

-----------------------------------------------------------------------------

\* What the calls that are no bids do to a slot, and to the clocks.
SlotQuiet(i) ==
    \/ orderInfo'[i] = orderInfo[i] /\ (Opened(i)' => Opened(i) \/ bids[i] = <<>>)
    \/ orderInfo'[i] = NoOrder /\ ~Opened(i)'

Quiet ==
    /\ now' \in Nat /\ now <= now'
    /\ intentCount' \in Nat /\ intentCount <= intentCount'
    /\ \A a \in Accounts : recentActionTime'[a] \in {recentActionTime[a], now}
    /\ \A i \in IntentIds : SlotQuiet(i)

LEMMA NonBiddingQuiet ==
    ASSUME HInv, NonBidding \/ UNCHANGED vars PROVE Quiet
<1>1. CASE Vault \/ Administration \/ Relisting \/ Tick \/ UNCHANGED vars
  <2>1. UNCHANGED board
    BY <1>1 DEF Vault, Deposit, Withdraw, Slash, ReceiveEther,
                Administration, SetMarketRegistry, SetLauncher,
                TransferOwnership, RenounceOwnership, Relisting, Relist, Tick,
                vars
  <2>2. now' \in {now, now + 1}
    BY <1>1 DEF Vault, Deposit, Withdraw, Slash, ReceiveEther,
                Administration, SetMarketRegistry, SetLauncher,
                TransferOwnership, RenounceOwnership, Relisting, Relist, Tick,
                vars
  <2>3. \A a \in Accounts : recentActionTime'[a] \in {recentActionTime[a], now}
    <3>1. \/ UNCHANGED recentActionTime
          \/ \E sender \in Accounts :
                 recentActionTime' = [recentActionTime EXCEPT ![sender] = now]
      BY <1>1 DEF Vault, Deposit, Restarted, Withdraw, Slash, ReceiveEther,
                  Administration, SetMarketRegistry, SetLauncher,
                  TransferOwnership, RenounceOwnership, Relisting, Relist,
                  Tick, books, vars
    <3> QED
      BY <3>1, HistTypes
  <2>4. \A i \in IntentIds : SlotQuiet(i)
    BY <2>1 DEF board, SlotQuiet, Opened
  <2> QED
    BY <2>1, <2>2, <2>3, <2>4, HistTypes DEF Quiet, board
<1>2. ASSUME NEW sender \in Accounts, NEW appID \in AppIds,
             NEW conditions \in Conditions, NEW duration \in Durations,
             NEW op \in UserOps,
             OpenIntent(sender, appID, conditions, duration, op)
      PROVE  Quiet
  <2>1. /\ UNCHANGED <<now, orderInfo, books>> /\ intentCount' = intentCount + 1
        /\ \A i \in IntentIds : i # intentCount => intentList'[i] = intentList[i]
    BY <1>2, HistTypes DEF OpenIntent
  <2>2. ASSUME NEW i \in IntentIds PROVE SlotQuiet(i)
    <3>1. i = intentCount => bids[i] = <<>>
      BY HistTypes DEF HInv, BidsLogged
    <3> QED
      BY <2>1, <3>1 DEF SlotQuiet, Opened
  <2> QED
    BY <2>1, <2>2, HistTypes DEF Quiet, books
<1>3. ASSUME NEW sender \in Accounts, NEW i \in IntentIds,
             CancelIntent(sender, i)
      PROVE  Quiet
  <2>1. /\ UNCHANGED <<now, intentCount, books>>
        /\ intentList' = [intentList EXCEPT ![i] = NoIntent]
        /\ orderInfo' = [orderInfo EXCEPT ![i] = NoOrder]
    BY <1>3 DEF CancelIntent, Cancelled
  <2>2. ASSUME NEW j \in IntentIds PROVE SlotQuiet(j)
    BY <2>1, HistTypes DEF SlotQuiet, Opened
  <2> QED
    BY <2>1, <2>2, HistTypes DEF Quiet, books
<1>4. ASSUME NEW i \in IntentIds, Opened(i), NEW new,
             intentList' = [intentList EXCEPT ![i] = new],
             UNCHANGED <<now, intentCount, orderInfo, books>>
      PROVE  Quiet
  <2>1. ASSUME NEW j \in IntentIds PROVE SlotQuiet(j)
    BY <1>4, HistTypes DEF SlotQuiet, Opened
  <2> QED
    BY <1>4, <2>1, HistTypes DEF Quiet, books
<1>5. ASSUME NEW sender \in Accounts, NEW i \in IntentIds,
             ForceCloseIntent(sender, i)
      PROVE  Quiet
  <2>1. Opened(i)
    BY <1>5, SlotOpened DEF ForceCloseIntent, MayForceClose, HInv, IInv
  <2> DEFINE new == [intentList[i] EXCEPT !.closeTime = now]
  <2>2. /\ intentList' = [intentList EXCEPT ![i] = new]
        /\ UNCHANGED <<now, intentCount, orderInfo, books>>
    BY <1>5, HistTypes DEF ForceCloseIntent
  <2> HIDE DEF new
  <2> QED
    BY <1>4, <2>1, <2>2
<1>6. ASSUME NEW sender \in Accounts, NEW i \in IntentIds, SetExecuted(sender, i)
      PROVE  Quiet
  <2>1. Opened(i)
    BY <1>6, SlotOpened DEF SetExecuted, MaySetExecuted, HInv, IInv
  <2> DEFINE new == [intentList[i] EXCEPT !.executed = TRUE]
  <2>2. /\ intentList' = [intentList EXCEPT ![i] = new]
        /\ UNCHANGED <<now, intentCount, orderInfo, books>>
    BY <1>6, HistTypes DEF SetExecuted
  <2> HIDE DEF new
  <2> QED
    BY <1>4, <2>1, <2>2
<1> QED
  BY <1>1, <1>2, <1>3, <1>5, <1>6 DEF NonBidding, Intending, Launching

\* Calls that are no bids keep the invariant: a slot keeps its order and its
\* bids, or it is zeroed.
LEMMA QuietHInv ==
    ASSUME HInv, IInv', Quiet, UNCHANGED bids PROVE HInv'
<1> USE HistTypes DEF HInv, Quiet
<1>1. ASSUME NEW i \in IntentIds, NEW type, BidsAre(i, type)'
      PROVE  BidsAre(i, type) /\ orderInfo'[i] = orderInfo[i]
  BY <1>1 DEF BidsAre, SlotQuiet
<1>2. ASSUME NEW i \in IntentIds PROVE FirstLeads(i)' /\ BestLeads(i)'
  BY <1>1 DEF FirstLeads, BestLeads, Leads, Tops
<1>3. ASSUME NEW i \in IntentIds
      PROVE  \/ orderInfo'[i] = orderInfo[i]
             \/ orderInfo'[i] = NoOrder
  BY DEF SlotQuiet
<1>4. BidsLogged'
  <2>1. ASSUME NEW i \in IntentIds
        PROVE  /\ i >= intentCount' => bids'[i] = <<>>
               /\ bids'[i] = <<>> => orderInfo'[i] = NoOrder
               /\ orderInfo'[i] # NoOrder => orderInfo'[i].sender \in Accounts
               /\ orderInfo'[i].submitTime <= now'
    <3>1. orderInfo[i].submitTime \in Nat /\ orderInfo[i].submitTime <= now
      BY DEF Orders, BidsLogged
    <3>2. NoOrder.submitTime = 0
      BY DEF NoOrder
    <3> QED
      BY <1>3, <3>1, <3>2 DEF BidsLogged
  <2>2. bids' \in [IntentIds -> Seq(Bids)]
    <3>1. bids' = bids
      OBVIOUS
    <3> QED
      BY <3>1, HistTypes
  <2> QED
    BY <2>1, <2>2 DEF BidsLogged
<1>5. DirectWinnerLocked'
  <2> SUFFICES ASSUME NEW i \in IntentIds, orderInfo'[i] # NoOrder,
                      \A k \in DOMAIN bids[i] :
                          bids[i][k].bidder = orderInfo'[i].sender
                              => bids[i][k].caller = bids[i][k].bidder
               PROVE  recentActionTime'[orderInfo'[i].sender]
                          >= orderInfo'[i].submitTime
    BY DEF DirectWinnerLocked, DirectlyLed, NoOrder
  <2>1. orderInfo'[i] = orderInfo[i]
    BY <1>3
  <2>2. recentActionTime[orderInfo[i].sender] >= orderInfo[i].submitTime
    BY <2>1 DEF DirectWinnerLocked, DirectlyLed
  <2>3. orderInfo[i].submitTime <= now
    BY DEF BidsLogged
  <2>4. orderInfo[i].sender \in Accounts
    BY <2>1 DEF BidsLogged
  <2> QED
    BY <2>1, <2>2, <2>3, <2>4
<1> QED
  BY <1>2, <1>4, <1>5

-----------------------------------------------------------------------------

\* order is what the bid b on slot i records.
Records(b, i, order) ==
    /\ order.sender = b.bidder /\ order.submitTime = now
    /\ b.type = HighestWins => order.score = b.score
    /\ orderInfo' = [orderInfo EXCEPT ![i] = order]
    /\ recentActionTime' = [recentActionTime EXCEPT ![b.caller] = now]

\* b is added to the bids on i, and recorded when it beats the recorded order.
BidOn(b, i) ==
    /\ Opened(i) /\ i < intentCount
    /\ UNCHANGED <<now, intentCount, intentList>>
    /\ bids' = [bids EXCEPT ![i] = Append(@, b)]
    /\ IF Beats(b.type, orderInfo[i], b.score)
       THEN \E order \in Orders : Records(b, i, order)
       ELSE UNCHANGED <<orderInfo, recentActionTime>>

LEMMA SubmitIsBid ==
    ASSUME HInv, NEW origin \in EOAs, NEW sender \in Accounts,
           NEW i \in IntentIds, NEW orderIntent \in OrderIntents,
           RecordedSubmit(origin, sender, i, orderIntent)
    PROVE  \E b \in Bids :
               /\ BidOn(b, i)
               /\ b.type \in {HighestWins, LowestWins} => b.score >= 0
<1> DEFINE b     == Bid(origin, sender, i, orderIntent)
           type  == Metadata(intentList[i].appID).scoringType
           order == NewOrder(i, origin, type, orderIntent)
<1> USE HistTypes
<1>1. SubmitOrder(origin, sender, i, orderIntent) /\ IInv
  BY DEF RecordedSubmit, HInv
<1>2. Opened(i)
  BY <1>1, SlotOpened DEF SubmitOrder, MaySubmit, Biddable, IInv
<1>3. i < intentCount
  BY <1>2 DEF HInv, IInv, FreshIds, Opened
<1>4. type \in ScoringTypes
  <2>1. /\ intentList[i].appID \in AppIds /\ registry \in Registries
        /\ listing \in [Registries -> [AppIds -> Listings]]
    BY <1>1 DEF SubmitOrder, MaySubmit, AppListed, IInv, TypeOK, Intents
  <2>2. Metadata(intentList[i].appID) \in Listings
    BY <2>1 DEF Metadata
  <2> QED
    BY <2>2, DataAssumption
<1>5. /\ b.bidder = origin /\ b.caller = sender /\ b.type = type
      /\ type \in {HighestWins, LowestWins} => b.score = order.score
      /\ order.sender = origin /\ order.submitTime = now
  BY DEF Bid, NewOrder, FirstComes, HighestWins, LowestWins
<1>6. GetScore(intentList[i].conditions, orderIntent) \in Int
  BY <1>2, DataAssumption DEF GetScore, HInv, IInv, IntentShape
<1>13. type \in {HighestWins, LowestWins}
           => GetScore(intentList[i].conditions, orderIntent) >= 0
  <2>1. type \in {HighestWins, LowestWins}
           => intentList[i].conditions.swapOutput <= orderIntent
    BY <1>1 DEF SubmitOrder, MaySubmit, Scorable
  <2>2. orderIntent \in Nat /\ intentList[i].conditions.swapOutput \in Nat
    BY <1>2, DataAssumption DEF HInv, IInv, IntentShape
  <2> QED
    BY <2>1, <2>2 DEF GetScore
<1>14. b.type \in {HighestWins, LowestWins} => b.score >= 0
  BY <1>5, <1>13 DEF Bid
<1>7. b \in Bids
  BY <1>4, <1>6 DEF Bid, Bids
<1>8. Beats(b.type, orderInfo[i], b.score)
        <=> Beats(type, orderInfo[i], order.score)
  BY <1>5 DEF Beats
<1>9. /\ UNCHANGED <<now, intentCount, intentList>>
      /\ bids' = [bids EXCEPT ![i] = Append(@, b)]
  BY <1>1 DEF RecordedSubmit, SubmitOrder
<1>10. ASSUME Beats(type, orderInfo[i], order.score)
       PROVE  order \in Orders /\ Records(b, i, order)
  <2>1. order \in Orders
    BY <1>1, <1>10, NewOrderType DEF SubmitOrder
  <2>2. /\ orderInfo' = [orderInfo EXCEPT ![i] = order]
        /\ recentActionTime' = [recentActionTime EXCEPT ![sender] = now]
    BY <1>1, <1>10 DEF SubmitOrder, Restarted
  <2> QED
    BY <1>5, <2>1, <2>2 DEF Records
<1>11. ~Beats(type, orderInfo[i], order.score)
           => UNCHANGED <<orderInfo, recentActionTime>>
  BY <1>1 DEF SubmitOrder
<1> HIDE DEF b, type, order
<1>12. BidOn(b, i)
  BY <1>2, <1>3, <1>8, <1>9, <1>10, <1>11 DEF BidOn
<1> QED
  BY <1>7, <1>12, <1>14

\* What a bid adds to the history.
LEMMA BidAppended ==
    ASSUME HInv, NEW b \in Bids, NEW i \in IntentIds, BidOn(b, i)
    PROVE  /\ bids' \in [IntentIds -> Seq(Bids)]
           /\ \A j \in IntentIds : j # i => bids'[j] = bids[j]
           /\ Len(bids[i]) \in Nat /\ Len(bids'[i]) = Len(bids[i]) + 1
           /\ DOMAIN bids[i] = 1 .. Len(bids[i])
           /\ DOMAIN bids'[i] = 1 .. Len(bids[i]) + 1
           /\ bids'[i][Len(bids[i]) + 1] = b
           /\ \A k \in DOMAIN bids[i] :
                  bids'[i][k] = bids[i][k] /\ bids[i][k] \in Bids
           /\ bids[i] = <<>> <=> Len(bids[i]) = 0
           /\ bids'[i] # <<>>
<1>1. /\ bids \in [IntentIds -> Seq(Bids)]
      /\ bids' = [bids EXCEPT ![i] = Append(bids[i], b)]
  BY HistTypes DEF BidOn
<1> DEFINE old == bids[i]
<1>2. old \in Seq(Bids) /\ bids'[i] = Append(old, b)
  BY <1>1
<1> HIDE DEF old
<1>3. /\ Append(old, b) \in Seq(Bids) /\ Append(old, b) # <<>>
      /\ Len(old) \in Nat /\ Len(Append(old, b)) = Len(old) + 1
      /\ DOMAIN old = 1 .. Len(old)
      /\ DOMAIN Append(old, b) = 1 .. Len(old) + 1
      /\ Append(old, b)[Len(old) + 1] = b
      /\ old = <<>> <=> Len(old) = 0
  BY <1>2
<1>4. ASSUME NEW k \in DOMAIN old
      PROVE  Append(old, b)[k] = old[k] /\ old[k] \in Bids
  BY <1>2, <1>4
<1>5. bids' \in [IntentIds -> Seq(Bids)]
  BY <1>1, <1>2, <1>3
<1>6. \A j \in IntentIds : j # i => bids'[j] = bids[j]
  BY <1>1
<1> QED
  BY <1>2, <1>3, <1>4, <1>5, <1>6 DEF old

LEMMA BidFirstLeads ==
    ASSUME HInv, NEW b \in Bids, NEW i \in IntentIds, BidOn(b, i)
    PROVE  FirstLeads(i)'
<1> USE HistTypes
<1> SUFFICES ASSUME BidsAre(i, FirstComes)'
             PROVE  /\ orderInfo'[i].sender = bids'[i][1].bidder
                    /\ orderInfo'[i].submitTime # 0
  BY DEF FirstLeads
<1>1. /\ b.type = FirstComes
      /\ \A k \in DOMAIN bids[i] : bids[i][k].type = FirstComes
  <2>1. \A k \in DOMAIN bids'[i] : bids'[i][k].type = FirstComes
    BY DEF BidsAre
  <2>2. PICK n \in DOMAIN bids'[i] : bids'[i][n] = b
    BY BidAppended
  <2>3. \A k \in DOMAIN bids[i] :
            k \in DOMAIN bids'[i] /\ bids'[i][k] = bids[i][k]
    BY BidAppended
  <2> QED
    BY <2>1, <2>2, <2>3
<1>2. CASE bids[i] = <<>>
  <2>1. orderInfo[i].submitTime = 0
    BY <1>2 DEF HInv, BidsLogged, NoOrder
  <2>2. PICK order \in Orders : Records(b, i, order)
    BY <1>1, <2>1 DEF BidOn, Beats, IsFirst
  <2>3. bids'[i][1] = b
    BY <1>2, BidAppended
  <2> QED
    BY <2>2, <2>3 DEF Records
<1>3. CASE bids[i] # <<>>
  <2>1. BidsAre(i, FirstComes)
    BY <1>1, <1>3 DEF BidsAre, BidOn
  <2>2. /\ orderInfo[i].sender = bids[i][1].bidder
        /\ orderInfo[i].submitTime # 0
    BY <2>1 DEF HInv, FirstLeads
  <2>3. UNCHANGED orderInfo
    BY <1>1, <2>2
       DEF BidOn, Beats, IsFirst, FirstComes, HighestWins, LowestWins
  <2>4. bids'[i][1] = bids[i][1]
    BY <1>3, BidAppended
  <2> QED
    BY <2>2, <2>3, <2>4
<1> QED
  BY <1>2, <1>3

LEMMA BidBestLeads ==
    ASSUME HInv, NEW b \in Bids, NEW i \in IntentIds, BidOn(b, i)
    PROVE  BestLeads(i)'
<1> USE HistTypes
<1>0. PICK n \in Nat : n = Len(bids[i])
  BY BidAppended
<1> SUFFICES ASSUME BidsAre(i, HighestWins)'
             PROVE  \/ /\ orderInfo'[i] = NoOrder
                       /\ \A k \in DOMAIN bids'[i] : bids'[i][k].score <= 0
                    \/ \E k \in DOMAIN bids'[i] :
                          /\ Leads(i, k)' /\ bids'[i][k].score > 0
                          /\ Tops(i, k)'
  BY DEF BestLeads
<1>1. /\ b.type = HighestWins /\ b.score \in Int
      /\ \A k \in DOMAIN bids[i] : /\ bids[i][k].type = HighestWins
                                   /\ bids[i][k].score \in Int
  <2>1. \A k \in DOMAIN bids'[i] : bids'[i][k].type = HighestWins
    BY DEF BidsAre
  <2>2. PICK k \in DOMAIN bids'[i] : bids'[i][k] = b
    BY BidAppended
  <2>3. \A j \in DOMAIN bids[i] : /\ j \in DOMAIN bids'[i]
                                  /\ bids'[i][j] = bids[i][j]
                                  /\ bids[i][j] \in Bids
    BY BidAppended
  <2>4. \A bid \in Bids : bid.score \in Int
    BY DEF Bids
  <2> QED
    BY <2>1, <2>2, <2>3, <2>4
<1>2. /\ orderInfo[i].score \in Nat /\ NoOrder.score = 0
  BY DEF Orders, NoOrder
\* Before the bid: nothing recorded and no bid above 0, or k leads.
<1>3. \/ /\ orderInfo[i] = NoOrder
         /\ \A k \in DOMAIN bids[i] : bids[i][k].score <= 0
      \/ \E k \in DOMAIN bids[i] :
            Leads(i, k) /\ bids[i][k].score > 0 /\ Tops(i, k)
  <2>1. CASE bids[i] = <<>>
    BY <2>1, BidAppended DEF HInv, BidsLogged
  <2>2. CASE bids[i] # <<>>
    BY <1>1, <2>2 DEF HInv, BestLeads, BidsAre, BidOn
  <2> QED
    BY <2>1, <2>2
<1>4. CASE b.score > orderInfo[i].score
  <2>1. PICK order \in Orders : Records(b, i, order)
    BY <1>1, <1>2, <1>4 DEF BidOn, Beats, IsHigher
  <2>2. \A k \in DOMAIN bids[i] : bids[i][k].score < b.score
    BY <1>1, <1>2, <1>3, <1>4 DEF Leads, Tops
  <2>3. n + 1 \in DOMAIN bids'[i] /\ bids'[i][n + 1] = b
    BY <1>0, BidAppended
  <2>4. Leads(i, n + 1)'
    BY <1>1, <2>1, <2>3 DEF Leads, Records
  <2>5. \A k \in DOMAIN bids'[i] : k = n + 1 \/ k \in DOMAIN bids[i]
    BY <1>0, BidAppended
  <2>6. Tops(i, n + 1)'
    <3>1. \A k \in 1 .. n + 1 - 1 :
              k \in DOMAIN bids[i] /\ bids'[i][k] = bids[i][k]
      BY <1>0, BidAppended
    <3>2. \A k \in DOMAIN bids'[i] : bids'[i][k].score <= b.score
      <4>1. \A k \in DOMAIN bids[i] : bids'[i][k] = bids[i][k]
        BY BidAppended
      <4>2. ASSUME NEW k \in DOMAIN bids[i]
            PROVE  bids'[i][k].score <= b.score
        BY <1>1, <2>2, <4>1
      <4>3. bids'[i][n + 1].score <= b.score
        BY <1>1, <2>3
      <4> QED
        BY <2>5, <4>2, <4>3
    <3> QED
      BY <2>2, <2>3, <3>1, <3>2 DEF Tops
  <2> QED
    BY <1>1, <1>2, <1>4, <2>3, <2>4, <2>6
<1>5. CASE b.score <= orderInfo[i].score
  <2>1. UNCHANGED orderInfo
    BY <1>1, <1>2, <1>5
       DEF BidOn, Beats, IsHigher, FirstComes, HighestWins, LowestWins
  <2>2. \A k \in DOMAIN bids'[i] :
            \/ k \in DOMAIN bids[i] /\ bids'[i][k] = bids[i][k]
            \/ bids'[i][k] = b
    BY BidAppended
  <2>3. CASE /\ orderInfo[i] = NoOrder
             /\ \A k \in DOMAIN bids[i] : bids[i][k].score <= 0
    BY <1>2, <1>5, <2>1, <2>2, <2>3
  <2>4. ASSUME NEW k \in DOMAIN bids[i],
               Leads(i, k), bids[i][k].score > 0, Tops(i, k)
        PROVE  /\ k \in DOMAIN bids'[i] /\ Leads(i, k)'
               /\ bids'[i][k].score > 0 /\ Tops(i, k)'
    <3>1. k \in DOMAIN bids'[i] /\ bids'[i][k] = bids[i][k]
      BY BidAppended
    <3>2. \A j \in DOMAIN bids'[i] : bids'[i][j].score <= bids'[i][k].score
      BY <1>5, <2>2, <2>4, <3>1 DEF Leads, Tops
    <3>3. \A j \in 1 .. k - 1 :
              j \in DOMAIN bids[i] /\ bids'[i][j] = bids[i][j]
      BY BidAppended
    <3> QED
      BY <2>1, <2>4, <3>1, <3>2, <3>3 DEF Leads, Tops
  <2> QED
    BY <1>3, <2>3, <2>4
<1> QED
  BY <1>1, <1>2, <1>4, <1>5

LEMMA BidKeepsLog ==
    ASSUME HInv, NEW b \in Bids, NEW i \in IntentIds, BidOn(b, i)
    PROVE  BidsLogged'
<1> USE HistTypes
<1>1. b.bidder \in Accounts
  BY DEF Bids, Accounts
<1>2. UNCHANGED <<now, intentCount>> /\ i < intentCount
  BY DEF BidOn
<1>3. ASSUME NEW j \in IntentIds, j # i
      PROVE  orderInfo'[j] = orderInfo[j] /\ bids'[j] = bids[j]
  BY <1>3, BidAppended DEF BidOn, Records
<1>4. \/ orderInfo'[i] = orderInfo[i]
      \/ orderInfo'[i].sender = b.bidder /\ orderInfo'[i].submitTime = now
  BY DEF BidOn, Records
<1>5. ASSUME NEW j \in IntentIds
      PROVE  /\ j >= intentCount' => bids'[j] = <<>>
             /\ bids'[j] = <<>> => orderInfo'[j] = NoOrder
             /\ orderInfo'[j] # NoOrder => orderInfo'[j].sender \in Accounts
             /\ orderInfo'[j].submitTime <= now'
  <2>1. CASE j = i
    BY <1>1, <1>2, <1>4, <2>1, BidAppended DEF HInv, BidsLogged
  <2>2. CASE j # i
    BY <1>2, <1>3, <2>2 DEF HInv, BidsLogged
  <2> QED
    BY <2>1, <2>2
<1> QED
  BY <1>5, BidAppended DEF BidsLogged

\* The clock restarted is the bidder's when it called from its own account.
LEMMA BidLocksWinner ==
    ASSUME HInv, NEW b \in Bids, NEW i \in IntentIds, BidOn(b, i)
    PROVE  DirectWinnerLocked'
<1> USE HistTypes
<1>1. b.bidder \in Accounts /\ b.caller \in Accounts
  BY DEF Bids, Accounts
<1>2. \A a \in Accounts : /\ recentActionTime'[a] \in Nat
                          /\ recentActionTime'[a] \in {recentActionTime[a], now}
  BY <1>1 DEF BidOn, Records
<1>3. ASSUME NEW j \in IntentIds, orderInfo'[j] # NoOrder,
             \A k \in DOMAIN bids'[j] :
                 bids'[j][k].bidder = orderInfo'[j].sender
                     => bids'[j][k].caller = bids'[j][k].bidder
      PROVE  recentActionTime'[orderInfo'[j].sender]
                 >= orderInfo'[j].submitTime
  <2>1. CASE orderInfo'[j] = orderInfo[j]
    <3>1. \A k \in DOMAIN bids[j] :
              k \in DOMAIN bids'[j] /\ bids'[j][k] = bids[j][k]
      <4>1. CASE j = i
        BY <4>1, BidAppended
      <4>2. CASE j # i
        BY <4>2, BidAppended
      <4> QED
        BY <4>1, <4>2
    <3>2. recentActionTime[orderInfo[j].sender] >= orderInfo[j].submitTime
      BY <1>3, <2>1, <3>1 DEF HInv, DirectWinnerLocked, DirectlyLed
    <3>3. /\ orderInfo[j].submitTime <= now /\ orderInfo[j].submitTime \in Nat
          /\ orderInfo[j].sender \in Accounts
      BY <1>3, <2>1 DEF HInv, BidsLogged, Orders
    <3> QED
      BY <1>2, <2>1, <3>2, <3>3
  <2>2. CASE orderInfo'[j] # orderInfo[j]
    <3>1. PICK order \in Orders : Records(b, i, order)
      BY <2>2 DEF BidOn
    <3>2. j = i
      BY <2>2, <3>1 DEF Records
    <3>3. orderInfo'[j].sender = b.bidder /\ orderInfo'[j].submitTime = now
      BY <3>1, <3>2 DEF Records
    <3>4. PICK k \in DOMAIN bids'[j] : bids'[j][k] = b
      BY <3>2, BidAppended
    <3>5. b.caller = b.bidder
      BY <1>3, <3>3, <3>4
    <3>6. recentActionTime'[b.caller] = now
      BY <1>1, <3>1 DEF Records
    <3> QED
      BY <3>3, <3>5, <3>6
  <2> QED
    BY <2>1, <2>2
<1> QED
  BY <1>3 DEF DirectWinnerLocked, DirectlyLed

LEMMA BidHInv ==
    ASSUME HInv, IInv', NEW b \in Bids, NEW i \in IntentIds, BidOn(b, i)
    PROVE  HInv'
<1>1. ASSUME NEW j \in IntentIds, j # i PROVE FirstLeads(j)' /\ BestLeads(j)'
  <2>1. /\ bids'[j] = bids[j] /\ orderInfo'[j] = orderInfo[j]
        /\ intentList' = intentList
    BY <1>1, BidAppended, HistTypes DEF BidOn, Records
  <2>2. \A type : BidsAre(j, type)' => BidsAre(j, type)
    BY <2>1 DEF BidsAre, Opened
  <2>3. FirstLeads(j) /\ BestLeads(j)
    BY DEF HInv
  <2> QED
    BY <2>1, <2>2, <2>3 DEF FirstLeads, BestLeads, Leads, Tops
<1>2. FirstLeads(i)' /\ BestLeads(i)'
  BY BidFirstLeads, BidBestLeads
<1>3. \A j \in IntentIds : FirstLeads(j)' /\ BestLeads(j)'
  BY <1>1, <1>2
<1>4. BidsLogged' /\ DirectWinnerLocked'
  BY BidKeepsLog, BidLocksWinner
<1> QED
  BY <1>3, <1>4 DEF HInv

-----------------------------------------------------------------------------

LEMMA InitHInv == HistInit => HInv
<1> SUFFICES ASSUME HistInit PROVE HInv
  OBVIOUS
<1>1. IInv
  BY InitIInv DEF HistInit
<1>2. \A i \in IntentIds : orderInfo[i] = NoOrder /\ bids[i] = <<>>
  BY DEF HistInit, Init
<1>3. BidsLogged
  <2>1. NoOrder.submitTime <= now
    BY <1>1, ZeroTypes DEF NoOrder, IInv, TypeOK
  <2>2. bids \in [IntentIds -> Seq(Bids)]
    BY DEF HistInit
  <2> QED
    BY <1>2, <2>1, <2>2 DEF BidsLogged
<1>4. DirectWinnerLocked
  BY <1>2 DEF DirectWinnerLocked, DirectlyLed
<1>5. \A i \in IntentIds : FirstLeads(i) /\ BestLeads(i)
  BY <1>2 DEF FirstLeads, BestLeads, BidsAre
<1> QED
  BY <1>1, <1>3, <1>4, <1>5 DEF HInv

LEMMA NextHInv == HInv /\ [HistNext]_histVars => HInv'
<1> SUFFICES ASSUME HInv, [HistNext]_histVars PROVE HInv'
  OBVIOUS
<1>1. CASE RecordedBidding
  <2>1. PICK origin \in EOAs, i \in IntentIds, orderIntent \in OrderIntents,
             sender \in Accounts :
                 RecordedSubmit(origin, sender, i, orderIntent)
    BY <1>1 DEF RecordedBidding, Callers, Accounts
  <2>2. PICK b \in Bids : BidOn(b, i)
    BY <2>1, SubmitIsBid
  <2>3. IInv'
    BY <2>1, SubmitOrderIInv DEF RecordedSubmit, HInv
  <2> QED
    BY <2>2, <2>3, BidHInv
<1>2. CASE (NonBidding /\ UNCHANGED bids) \/ UNCHANGED histVars
  <2>1. UNCHANGED bids /\ (NonBidding \/ UNCHANGED vars)
    BY <1>2 DEF histVars
  <2>2. IInv'
    BY <2>1, NextIInv DEF HInv, Next
  <2> QED
    BY <2>1, <2>2, NonBiddingQuiet, QuietHInv
<1> QED
  BY <1>1, <1>2 DEF HistNext

\* The history invariant.
THEOREM HistInvariance == HistSpec => []HInv
BY InitHInv, NextHInv, PTL DEF HistSpec

\* With first-come bids only, whoever came first wins, however many follow.
THEOREM FirstBidsWin == HistSpec => []FirstBidWins
<1>1. HInv => FirstBidWins
  BY DEF HInv, FirstLeads, FirstBidWins
<1> QED
  BY <1>1, HistInvariance, PTL

\* With bids by score of which one is above the user's minimum, the earliest of
\* the highest wins, in whatever order the bids come.
THEOREM HighestBidsWin == HistSpec => []HighestBidWins
<1>1. ASSUME HInv, NEW i \in IntentIds, BidsAre(i, HighestWins),
             NEW k \in DOMAIN bids[i], EarliestBest(i, k, >),
             bids[i][k].score > 0
      PROVE  Leads(i, k)
  <2>1. /\ DOMAIN bids[i] \subseteq Nat \ {0}
        /\ \A j \in DOMAIN bids[i] : /\ bids[i][j].score \in Int
                                     /\ 1 .. j - 1 \subseteq DOMAIN bids[i]
    <3>1. bids[i] \in Seq(Bids)
      BY <1>1, HistTypes
    <3>2. \A j \in DOMAIN bids[i] : bids[i][j] \in Bids
      BY <3>1
    <3> QED
      BY <3>1, <3>2 DEF Bids
  <2>2. /\ \A j \in DOMAIN bids[i] : bids[i][j].score <= bids[i][k].score
        /\ \A j \in 1 .. k - 1 : bids[i][j].score < bids[i][k].score
    BY <1>1, <2>1 DEF EarliestBest
  <2>3. CASE /\ orderInfo[i] = NoOrder
             /\ \A j \in DOMAIN bids[i] : bids[i][j].score <= 0
    <3>1. bids[i][k].score <= 0 /\ bids[i][k].score \in Int
      BY <1>1, <2>1, <2>3 DEF EarliestBest
    <3> QED
      BY <1>1, <3>1 DEF EarliestBest
  <2>4. ASSUME NEW j \in DOMAIN bids[i],
               Leads(i, j), bids[i][j].score > 0, Tops(i, j)
        PROVE  bids[i][k].score > 0 /\ Leads(i, k)
    <3>1. bids[i][j].score = bids[i][k].score
      BY <2>1, <2>2, <2>4 DEF Tops
    <3>2. j \notin 1 .. k - 1
      BY <2>1, <2>2, <2>4, <3>1
    <3>3. k \notin 1 .. j - 1
      <4>1. \A m \in 1 .. j - 1 : bids[i][m].score < bids[i][j].score
        BY <2>4 DEF Tops
      <4> QED
        BY <2>1, <2>4, <3>1, <4>1
    <3>4. k \in Nat \ {0} /\ j \in Nat \ {0}
      BY <1>1, <2>1, <2>4
    <3>5. k = j
      BY <3>2, <3>3, <3>4
    <3> QED
      BY <2>4, <3>5
  <2> QED
    BY <1>1, <2>3, <2>4 DEF HInv, BestLeads
<1>2. HInv => HighestBidWins
  BY <1>1 DEF HighestBidWins
<1> QED
  BY <1>2, HistInvariance, PTL

\* A winner that bids from its own account has its waiting period restarted
\* with its order, so its deposit is there while it can be slashed.
THEOREM DirectWinnersLocked == HistSpec => []DirectWinnerLocked
<1>1. HInv => DirectWinnerLocked
  BY DEF HInv
<1> QED
  BY <1>1, HistInvariance, PTL

\* A step of the engine with its history is a step of the engine.
LEMMA HistStep == [HistNext]_histVars => [Next]_vars
BY DEF HistNext, histVars, RecordedBidding, RecordedSubmit, Bidding, Next

\* So ImplementsAuction and ClosedAuctionIsFinal, proved of Spec, hold of the
\* engine with its history.
LEMMA HistoryWatchesOnly == HistSpec => Spec
<1>1. HistInit => Init
  BY DEF HistInit
<1> QED
  BY <1>1, HistStep, PTL DEF HistSpec, Spec

-----------------------------------------------------------------------------
(* Where nobody wins.                                                      *)

\* Bids by score, none of which promises more than the user's minimum.
ZeroBids(i) == /\ BidsAre(i, HighestWins)
               /\ \A k \in DOMAIN bids[i] : bids[i][k].score <= 0

ZeroBidsLose == \A i \in IntentIds : ZeroBids(i) => orderInfo[i] = NoOrder

\* README.md:102, "The Executor Candidate with the highest score is confirmed as
\* the Executor".  Constraints.check accepts a bid that promises exactly the
\* minimum, whose score is 0, and submitOrder takes it without recording it:
\* an auction with no better bid stays without an order, however many bid.
THEOREM ZeroBidsNeverWin == HistSpec => []ZeroBidsLose
<1>1. ASSUME HInv, NEW i \in IntentIds, ZeroBids(i)
      PROVE  orderInfo[i] = NoOrder
  <2>1. \A k \in DOMAIN bids[i] : bids[i][k].score \in Int
    <3>1. bids[i] \in Seq(Bids)
      BY <1>1, HistTypes
    <3>2. \A k \in DOMAIN bids[i] : bids[i][k] \in Bids
      BY <3>1
    <3> QED
      BY <3>2 DEF Bids
  <2>2. BestLeads(i) /\ BidsAre(i, HighestWins)
    BY <1>1 DEF HInv, ZeroBids
  <2>3. ~\E k \in DOMAIN bids[i] : bids[i][k].score > 0
    BY <1>1, <2>1 DEF ZeroBids
  <2> QED
    BY <2>2, <2>3 DEF BestLeads
<1>2. HInv => ZeroBidsLose
  BY <1>1 DEF ZeroBidsLose
<1> QED
  BY <1>2, HistInvariance, PTL

\* Where all bids are of type 2 nothing is recorded: the slot's score is 0, and
\* no score of an order falls below that.
NoneRecorded ==
    \A i \in IntentIds : BidsAre(i, LowestWins) => orderInfo[i] = NoOrder

LEMMA InitNoneRecorded == HistInit => NoneRecorded
BY DEF HistInit, Init, NoneRecorded

LEMMA BidNoneRecorded ==
    ASSUME HInv, NoneRecorded, NEW b \in Bids, NEW i \in IntentIds, BidOn(b, i),
           b.type = LowestWins => b.score >= 0
    PROVE  NoneRecorded'
<1> USE HistTypes
<1>1. ASSUME NEW j \in IntentIds, j # i, BidsAre(j, LowestWins)'
      PROVE  orderInfo'[j] = NoOrder
  <2>1. /\ bids'[j] = bids[j] /\ orderInfo'[j] = orderInfo[j]
        /\ intentList' = intentList
    BY <1>1, BidAppended DEF BidOn, Records
  <2> QED
    BY <1>1, <2>1 DEF NoneRecorded, BidsAre, Opened
<1>2. ASSUME BidsAre(i, LowestWins)' PROVE orderInfo'[i] = NoOrder
  <2>1. /\ b.type = LowestWins
        /\ \A k \in DOMAIN bids[i] : bids[i][k].type = LowestWins
    <3>1. \A k \in DOMAIN bids'[i] : bids'[i][k].type = LowestWins
      BY <1>2 DEF BidsAre
    <3>2. PICK n \in DOMAIN bids'[i] : bids'[i][n] = b
      BY BidAppended
    <3>3. \A k \in DOMAIN bids[i] :
              k \in DOMAIN bids'[i] /\ bids'[i][k] = bids[i][k]
      BY BidAppended
    <3> QED
      BY <3>1, <3>2, <3>3
  <2>2. orderInfo[i] = NoOrder
    <3>1. CASE bids[i] = <<>>
      BY <3>1 DEF HInv, BidsLogged
    <3>2. CASE bids[i] # <<>>
      BY <2>1, <3>2 DEF NoneRecorded, BidsAre, BidOn
    <3> QED
      BY <3>1, <3>2
  <2>3. orderInfo[i].score = 0 /\ b.score \in Int
    BY <2>2 DEF NoOrder, Bids
  <2>4. ~Beats(b.type, orderInfo[i], b.score)
    BY <2>1, <2>3 DEF Beats, FirstComes, HighestWins, LowestWins
  <2> QED
    BY <2>2, <2>4 DEF BidOn
<1> QED
  BY <1>1, <1>2 DEF NoneRecorded

LEMMA QuietNoneRecorded ==
    ASSUME HInv, NoneRecorded, Quiet, UNCHANGED bids PROVE NoneRecorded'
<1>1. ASSUME NEW i \in IntentIds, BidsAre(i, LowestWins)'
      PROVE  BidsAre(i, LowestWins) /\ orderInfo'[i] = orderInfo[i]
  BY <1>1 DEF BidsAre, Quiet, SlotQuiet
<1> QED
  BY <1>1 DEF NoneRecorded

\* Where all bids are scored by type 2, "Winner calculated in descending order
\* of score" (Constraints.sol:29), there is never a winner: no parameters, no
\* scores and no order of the calls make the scoring type work.
THEOREM NobodyWinsByLowest == HistSpec => []NoneRecorded
<1>1. HInv /\ NoneRecorded /\ [HistNext]_histVars => NoneRecorded'
  <2> SUFFICES ASSUME HInv, NoneRecorded, [HistNext]_histVars
               PROVE  NoneRecorded'
    OBVIOUS
  <2>1. CASE RecordedBidding
    <3>1. PICK origin \in EOAs, i \in IntentIds, orderIntent \in OrderIntents,
               sender \in Accounts :
                   RecordedSubmit(origin, sender, i, orderIntent)
      BY <2>1 DEF RecordedBidding, Callers, Accounts
    <3>2. PICK b \in Bids : BidOn(b, i) /\ (b.type = LowestWins => b.score >= 0)
      BY <3>1, SubmitIsBid
    <3> QED
      BY <3>2, BidNoneRecorded
  <2>2. CASE (NonBidding /\ UNCHANGED bids) \/ UNCHANGED histVars
    <3>1. UNCHANGED bids /\ (NonBidding \/ UNCHANGED vars)
      BY <2>2 DEF histVars
    <3> QED
      BY <3>1, NonBiddingQuiet, QuietNoneRecorded
  <2> QED
    BY <2>1, <2>2 DEF HistNext
<1> QED
  BY <1>1, InitNoneRecorded, HistInvariance, PTL DEF HistSpec

-----------------------------------------------------------------------------
(* A leader that bid from its own account can be slashed.                  *)

\* The waiting period of such a leader lasts as long as that of its order.
Answers(i) ==
    LET order == orderInfo[i] IN
    i \in backed /\ order # NoOrder =>
        /\ order.sender \in Accounts
        /\ order.submitTime <= now
        /\ order.submitTime <= recentActionTime[order.sender]
        /\ now <= order.submitTime + WithdrawDelay
               => depositInfo[order.sender] >= backing[order.sender]

VInv == /\ IInv
        /\ backing \in [Accounts -> Nat]
        /\ \A i \in IntentIds : Answers(i)

LEMMA VaultTypes ==
    ASSUME VInv
    PROVE  /\ now \in Nat /\ WithdrawDelay \in Nat
           /\ {MinimumDeposit, SlashingAmount} \subseteq Nat
           /\ recentActionTime \in [Accounts -> Nat]
           /\ depositInfo \in [Accounts -> Nat]
           /\ backing \in [Accounts -> Nat]
           /\ orderInfo \in [IntentIds -> Orders]
           /\ \A i \in IntentIds : orderInfo[i].submitTime \in Nat
BY NumberAssumption DEF VInv, IInv, TypeOK, Orders

\* A step keeps Answers(i) when it keeps the order, does not lower the deposit
\* below what is left of the backing, and restarts clocks at most.
LEMMA AnswersKept ==
    ASSUME VInv, NEW i \in IntentIds,
           \/ orderInfo'[i] = NoOrder
           \/ i \notin backed'
           \/ orderInfo'[i] = orderInfo[i] /\ i \in backed,
           now' \in Nat, now <= now',
           \A a \in Accounts :
               /\ recentActionTime'[a] \in {recentActionTime[a], now}
               /\ \/ recentActionTime[a] + WithdrawDelay < now
                  \/ depositInfo[a] >= backing[a]
                         => depositInfo'[a] >= backing'[a]
    PROVE  Answers(i)'
<1> SUFFICES ASSUME i \in backed', orderInfo'[i] # NoOrder
             PROVE  LET order == orderInfo'[i] IN
                    /\ order.sender \in Accounts
                    /\ order.submitTime <= now'
                    /\ order.submitTime <= recentActionTime'[order.sender]
                    /\ now' <= order.submitTime + WithdrawDelay
                         => depositInfo'[order.sender] >= backing'[order.sender]
  BY DEF Answers, NoOrder
<1>1. orderInfo'[i] = orderInfo[i] /\ i \in backed
  OBVIOUS
<1>2. PICK a \in Accounts, t \in Nat :
          a = orderInfo[i].sender /\ t = orderInfo[i].submitTime
  BY <1>1, VaultTypes DEF VInv, Answers
<1>3. /\ t <= now /\ t <= recentActionTime[a]
      /\ now <= t + WithdrawDelay => depositInfo[a] >= backing[a]
  BY <1>1, <1>2 DEF VInv, Answers
<1>4. recentActionTime[a] \in Nat /\ now \in Nat /\ WithdrawDelay \in Nat
  BY VaultTypes
<1>5. t <= now' /\ t <= recentActionTime'[a]
  BY <1>3, <1>4
<1>6. now' <= t + WithdrawDelay => depositInfo'[a] >= backing'[a]
  <2> SUFFICES ASSUME now' <= t + WithdrawDelay
               PROVE  depositInfo'[a] >= backing'[a]
    OBVIOUS
  <2>1. now <= t + WithdrawDelay /\ ~(recentActionTime[a] + WithdrawDelay < now)
    BY <1>3, <1>4
  <2> QED
    BY <1>3, <2>1
<1> QED
  BY <1>1, <1>2, <1>5, <1>6

LEMMA DepositAnswers ==
    ASSUME VInv, NEW sender \in Accounts, NEW value \in Payments,
           RecordedDeposit(sender, value)
    PROVE  backing' \in [Accounts -> Nat] /\ \A i \in IntentIds : Answers(i)'
<1>1. /\ UNCHANGED <<now, orderInfo, backed, backing>>
      /\ recentActionTime' = [recentActionTime EXCEPT ![sender] = now]
      /\ depositInfo' = [depositInfo EXCEPT ![sender] = @ + value]
      /\ value \in Nat
  BY DataAssumption DEF RecordedDeposit, Deposit, Restarted, board
<1>2. \A a \in Accounts :
          /\ recentActionTime'[a] \in {recentActionTime[a], now}
          /\ depositInfo[a] >= backing[a] => depositInfo'[a] >= backing'[a]
  BY <1>1, VaultTypes
<1>3. now' \in Nat /\ now <= now' /\ backing' \in [Accounts -> Nat]
  BY <1>1, VaultTypes
<1>4. ASSUME NEW i \in IntentIds PROVE Answers(i)'
  BY <1>1, <1>2, <1>3, AnswersKept
<1> QED
  BY <1>3, <1>4

\* An order that is recorded restarts the clock of its caller, who has the
\* minimum deposit; from the bidder's own account that is the bidder.
LEMMA OrderAnswers ==
    ASSUME VInv, NEW origin \in EOAs, NEW sender \in Accounts,
           NEW j \in IntentIds, NEW orderIntent \in OrderIntents,
           RecordedOrder(origin, sender, j, orderIntent)
    PROVE  backing' \in [Accounts -> Nat] /\ \A i \in IntentIds : Answers(i)'
<1> DEFINE type  == Metadata(intentList[j].appID).scoringType
           order == NewOrder(j, origin, type, orderIntent)
<1>1. /\ UNCHANGED <<now, depositInfo>>
      /\ depositInfo[sender] >= MinimumDeposit
      /\ \/ /\ orderInfo' = [orderInfo EXCEPT ![j] = order]
            /\ recentActionTime' = [recentActionTime EXCEPT ![sender] = now]
         \/ UNCHANGED <<orderInfo, recentActionTime>>
  BY DEF RecordedOrder, SubmitOrder, MaySubmit, HasDeposit, Restarted
<1>2. order.sender = origin /\ order.submitTime = now /\ origin \in Accounts
  BY DEF NewOrder, Accounts
<1> HIDE DEF order
<1>3. /\ now' \in Nat /\ now <= now'
      /\ \A a \in Accounts :
             recentActionTime'[a] \in {recentActionTime[a], now}
      /\ \A i \in IntentIds : i # j => orderInfo'[i] = orderInfo[i]
  BY <1>1, VaultTypes
<1>4. CASE orderInfo' = orderInfo /\ UNCHANGED history
  <2>1. UNCHANGED <<backed, backing>>
    BY <1>4 DEF history
  <2>2. ASSUME NEW i \in IntentIds PROVE Answers(i)'
    BY <1>1, <1>3, <1>4, <2>1, AnswersKept
  <2> QED
    BY <2>1, <2>2, VaultTypes
<1>5. CASE /\ orderInfo' # orderInfo /\ sender = origin
           /\ backed' = backed \cup {j}
           /\ backing' = [backing EXCEPT ![sender] = MinimumDeposit]
  <2>1. backing' \in [Accounts -> Nat]
    BY <1>5, VaultTypes
  <2>2. /\ \A a \in Accounts :
             depositInfo[a] >= backing[a] => depositInfo'[a] >= backing'[a]
        /\ depositInfo'[sender] >= backing'[sender]
    BY <1>1, <1>5, VaultTypes
  <2>3. ASSUME NEW i \in IntentIds, i # j PROVE Answers(i)'
    BY <1>3, <1>5, <2>2, <2>3, AnswersKept
  <2>4. orderInfo'[j] = order /\ recentActionTime'[sender] = now
    BY <1>1, <1>5, VaultTypes
  <2>5. Answers(j)'
    BY <1>1, <1>2, <1>5, <2>2, <2>4, VaultTypes DEF Answers
  <2> QED
    BY <2>1, <2>3, <2>5
<1>6. CASE backed' = backed \ {j} /\ UNCHANGED backing
  <2>1. ASSUME NEW i \in IntentIds PROVE Answers(i)'
    BY <1>1, <1>3, <1>6, AnswersKept
  <2> QED
    BY <1>6, <2>1, VaultTypes
<1> QED
  BY <1>4, <1>5, <1>6 DEF RecordedOrder

LEMMA SlashAnswers ==
    ASSUME VInv, NEW sender \in Accounts, NEW j \in IntentIds,
           NEW value \in Payments, RecordedSlash(sender, j, value)
    PROVE  backing' \in [Accounts -> Nat] /\ \A i \in IntentIds : Answers(i)'
<1>1. UNCHANGED <<now, orderInfo, recentActionTime, backed>>
  BY DEF RecordedSlash, Slash, board
<1>2. /\ backing' \in [Accounts -> Nat]
      /\ \A a \in Accounts :
             depositInfo[a] >= backing[a] => depositInfo'[a] >= backing'[a]
  <2>1. CASE ~Overdue(j)
    BY <2>1, VaultTypes DEF RecordedSlash, Slash
  <2>2. CASE Overdue(j)
    <3>1. PICK v \in Accounts :
              /\ v = orderInfo[j].sender /\ depositInfo[v] >= SlashingAmount
              /\ depositInfo' = [depositInfo EXCEPT ![v] = @ - SlashingAmount]
              /\ backing' = [backing EXCEPT ![v] = Slashed(@)]
      BY <2>2 DEF RecordedSlash, Slash, Chargeable, Charged
    <3>2. /\ Slashed(backing[v]) \in Nat
          /\ depositInfo[v] >= backing[v]
                 => depositInfo[v] - SlashingAmount >= Slashed(backing[v])
      BY <3>1, VaultTypes DEF Slashed
    <3> QED
      BY <3>1, <3>2, VaultTypes
  <2> QED
    BY <2>1, <2>2
<1>3. ASSUME NEW i \in IntentIds PROVE Answers(i)'
  BY <1>1, <1>2, AnswersKept, VaultTypes
<1> QED
  BY <1>2, <1>3

\* Steps no history records.
LEMMA UnrecordedAnswers ==
    ASSUME VInv, Unrecorded \/ UNCHANGED vaultVars
    PROVE  backing' \in [Accounts -> Nat] /\ \A i \in IntentIds : Answers(i)'
<1>1. UNCHANGED <<backed, backing>>
  BY DEF Unrecorded, vaultVars, history
<1>2. /\ now' \in {now, now + 1} /\ UNCHANGED recentActionTime
      /\ \A a \in Accounts : \/ recentActionTime[a] + WithdrawDelay < now
                            \/ depositInfo'[a] = depositInfo[a]
  <2>1. ASSUME NEW sender \in Accounts, NEW amount \in 0 .. MaxEther,
               Withdraw(sender, amount)
        PROVE  /\ UNCHANGED <<now, recentActionTime>>
               /\ \A a \in Accounts :
                      \/ recentActionTime[a] + WithdrawDelay < now
                      \/ depositInfo'[a] = depositInfo[a]
    BY <2>1, VaultTypes DEF Withdraw, Waited
  <2>2. CASE \/ \E value \in Payments : ReceiveEther(value)
             \/ Administration \/ Intending \/ Launching \/ Tick \/ Relisting
             \/ UNCHANGED vaultVars
    <3>1. now' \in {now, now + 1} /\ UNCHANGED <<depositInfo, recentActionTime>>
      BY <2>2
         DEF ReceiveEther, Administration, SetMarketRegistry, SetLauncher,
             TransferOwnership, RenounceOwnership, Intending, OpenIntent,
             CancelIntent, ForceCloseIntent, Launching, SetExecuted, Tick,
             Relisting, Relist, books, vaultVars, vars
    <3> QED
      BY <3>1
  <2> QED
    BY <2>1, <2>2 DEF Unrecorded
<1>3. ASSUME NEW i \in IntentIds
      PROVE  orderInfo'[i] = orderInfo[i] \/ orderInfo'[i] = NoOrder
  <2>1. ASSUME NEW sender \in Accounts, NEW j \in IntentIds,
               CancelIntent(sender, j)
        PROVE  orderInfo'[i] = orderInfo[i] \/ orderInfo'[i] = NoOrder
    BY <2>1, VaultTypes DEF CancelIntent, Cancelled
  <2>2. ASSUME ~\E sender \in Accounts, j \in IntentIds :
                    CancelIntent(sender, j)
        PROVE  UNCHANGED orderInfo
    BY <2>2
       DEF Unrecorded, Withdraw, ReceiveEther, Administration,
           SetMarketRegistry, SetLauncher, TransferOwnership,
           RenounceOwnership, Intending, OpenIntent, ForceCloseIntent,
           Launching, SetExecuted, Tick, Relisting, Relist, board, vaultVars,
           vars
  <2> QED
    BY <2>1, <2>2
<1>4. now' \in Nat /\ now <= now'
  BY <1>2, VaultTypes
<1>5. \A a \in Accounts :
          /\ recentActionTime'[a] \in {recentActionTime[a], now}
          /\ \/ recentActionTime[a] + WithdrawDelay < now
             \/ depositInfo[a] >= backing[a] => depositInfo'[a] >= backing'[a]
  BY <1>1, <1>2
<1>6. ASSUME NEW i \in IntentIds PROVE Answers(i)'
  BY <1>1, <1>3, <1>4, <1>5, AnswersKept
<1> QED
  BY <1>1, <1>6, VaultTypes

LEMMA VaultStep == [VaultNext]_vaultVars => [Next]_vars
BY DEF VaultNext, vaultVars, Recorded, RecordedDeposit, RecordedOrder,
       RecordedSlash, Unrecorded, Next, NonBidding, Vault, Bidding

LEMMA NextVInv == VInv /\ [VaultNext]_vaultVars => VInv'
<1> SUFFICES ASSUME VInv, [VaultNext]_vaultVars PROVE VInv'
  OBVIOUS
<1>1. IInv'
  BY VaultStep, NextIInv DEF VInv
<1>2. CASE Recorded
  <2>1. ASSUME NEW origin \in EOAs, NEW sender \in Callers(origin),
               NEW i \in IntentIds, NEW orderIntent \in OrderIntents,
               RecordedOrder(origin, sender, i, orderIntent)
        PROVE  VInv'
    BY <1>1, <2>1, OrderAnswers DEF Callers, Accounts, VInv
  <2> QED
    BY <1>1, <1>2, <2>1, DepositAnswers, SlashAnswers DEF Recorded, VInv
<1>3. CASE Unrecorded \/ UNCHANGED vaultVars
  BY <1>1, <1>3, UnrecordedAnswers DEF VInv
<1> QED
  BY <1>2, <1>3 DEF VaultNext

\* A bidder that leads an auction with an order from its own account has the
\* minimum deposit with the engine, less what it was slashed, for the whole
\* waiting period of the order: no sequence of deposits, bids on other intents
\* and withdrawals gets it out of reach of slash.
THEOREM LeadersAnswer == VaultSpec => []LeaderAnswers
<1>1. VaultInit => VInv
  <2> SUFFICES ASSUME VaultInit PROVE VInv
    OBVIOUS
  <2>1. IInv /\ backing \in [Accounts -> Nat] /\ backed = {}
    BY InitIInv DEF VaultInit
  <2> QED
    BY <2>1 DEF VInv, Answers
<1>2. VInv /\ [VaultNext]_vaultVars => VInv'
  BY NextVInv
<1>3. VInv => LeaderAnswers
  BY DEF VInv, Answers, LeaderAnswers
<1> QED
  BY <1>1, <1>2, <1>3, PTL DEF VaultSpec
=============================================================================
