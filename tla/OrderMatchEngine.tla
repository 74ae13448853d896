-------------------------- MODULE OrderMatchEngine --------------------------
(***************************************************************************)
(* The OrderMatchEngine contract                                           *)
(* (market-contracts/src/IntentMarket/OrderMatchEngine.sol).               *)
(*                                                                         *)
(* Wallets open intents, bidders bid for the right to execute them until   *)
(* closeTime, bidders keep ether with the engine that anyone may slash.    *)
(* One action is one external call that does not revert; a call that       *)
(* reverts changes nothing and is a stuttering step.  Calls are serialised *)
(* by the chain; Tick lets any number of calls share a block timestamp.    *)
(*                                                                         *)
(* withdraw and slash send ether as their last statement, after the books  *)
(* are updated, so a recipient that calls back in behaves like one that    *)
(* calls next: no call needs to be split.                                  *)
(*                                                                         *)
(* What the registry answers is the variable listing.  In this module it   *)
(* changes freely (Relist).                                                *)
(***************************************************************************)
EXTENDS Constraints, FiniteSets

CONSTANTS
    EOAs,            \* externally owned accounts: the possible tx.origin
    Contracts,       \* contract accounts, wallets among them
    NoAddr,          \* address(0)
    Admin,           \* the deployer, first owner of the engine
    Registries,      \* MarketRegistry deployments the owner may point to
    Launchers,       \* accounts the owner may name as launcher
    AppIds,          \* app ids a wallet may name
    Conditions,      \* what a wallet may ask for
    OrderIntents,    \* what a bidder may promise
    UserOps,         \* signed user operations, opaque here
    NoData,          \* zeroed bytes and structs
    Listings,        \* what getAppMetadata may answer
    Durations,       \* the closeTime argument of openIntent
    Payments,        \* msg.value of a payable call
    CloseFloor,      \* 5 seconds
    WinnerDeadline,  \* winnerDeadline, 3 minutes
    WithdrawDelay,   \* 7 days
    MinimumDeposit,  \* minimumDeposit, 1 ether
    SlashingAmount,  \* slashingAmount, 0.01 ether
    StartTime,       \* timestamp of the deployment
    MaxTime,         \* bound: last timestamp
    MaxIntents,      \* bound: number of intents
    MaxEther         \* bound: ether that ever sits in the engine

Accounts  == EOAs \cup Contracts
Addresses == Accounts \cup {NoAddr}
IntentIds == 0 .. MaxIntents

ASSUME AddressAssumption ==
    /\ NoAddr \notin Accounts
    /\ EOAs \cap Contracts = {}
    /\ IsFiniteSet(Accounts)
    /\ Admin \in Accounts
    /\ Launchers \subseteq Addresses
    /\ NoAddr \notin Registries

ASSUME DataAssumption ==
    /\ AppIds \subseteq Nat /\ 0 \in AppIds
    /\ OrderIntents \subseteq Nat
    /\ \A c \in Conditions : c.swapOutput \in Nat
    /\ Durations \subseteq Nat
    /\ Payments \subseteq Nat
    /\ Listings \subseteq [listed : BOOLEAN, scoringType : ScoringTypes,
                           whitelist : SUBSET EOAs]

\* Real timestamps are far larger than every delay.
ASSUME NumberAssumption ==
    /\ {CloseFloor, WinnerDeadline, WithdrawDelay} \subseteq Nat \ {0}
    /\ {MinimumDeposit, SlashingAmount} \subseteq Nat \ {0}
    /\ {StartTime, MaxTime, MaxIntents, MaxEther} \subseteq Nat
    /\ StartTime > WithdrawDelay

VARIABLES
    now,               \* block.timestamp
    engineOwner,       \* Ownable._owner
    registry,
    launcher,
    intentCount,
    intentList,
    orderInfo,
    depositInfo,
    recentActionTime,
    balance,           \* the engine's ether
    listing            \* what each registry answers for each app

books == <<depositInfo, recentActionTime, balance>>
admin == <<engineOwner, registry, launcher>>
board == <<intentCount, intentList, orderInfo>>
vars  == <<now, admin, board, books, listing>>

-----------------------------------------------------------------------------
(* Records.  creator and wallet of an intent are always the same address,  *)
(* executionPeriod and executionDeadline are never assigned.               *)

Intents == [appID : AppIds, conditions : Conditions \cup {NoData},
            closeTime : Nat, creator : Addresses, executed : BOOLEAN,
            op : UserOps \cup {NoData}]

NoIntent == [appID |-> 0, conditions |-> NoData, closeTime |-> 0,
             creator |-> NoAddr, executed |-> FALSE, op |-> NoData]

Orders == [orderIntent : OrderIntents \cup {NoData}, sender : Addresses,
           score : Nat, submitTime : Nat]

NoOrder == [orderIntent |-> NoData, sender |-> NoAddr, score |-> 0,
            submitTime |-> 0]

Init ==
    /\ now = StartTime
    /\ engineOwner = Admin
    /\ registry = NoAddr
    /\ launcher = NoAddr
    /\ intentCount = 0
    /\ intentList = [i \in IntentIds |-> NoIntent]
    /\ orderInfo = [i \in IntentIds |-> NoOrder]
    /\ depositInfo = [a \in Accounts |-> 0]
    /\ recentActionTime = [a \in Accounts |-> 0]
    /\ balance = 0
    /\ listing \in [Registries -> [AppIds -> Listings]]

-----------------------------------------------------------------------------
(* The bidders' ether.                                                     *)

\* mutant: the clock is not restarted
RestartedNever(sender) == recentActionTime

\* mutant: one clock for everybody
RestartedForAll(sender) == [a \in Accounts |-> now]

\* The waiting period of sender begins anew.
Restarted(sender) == [recentActionTime EXCEPT ![sender] = now]

\* mutant: no waiting period
WaitedNot(sender) == TRUE

Waited(sender) == recentActionTime[sender] + WithdrawDelay < now

Deposit(sender, value) ==
    /\ balance + value <= MaxEther
    /\ depositInfo' = [depositInfo EXCEPT ![sender] = @ + value]
    /\ recentActionTime' = Restarted(sender)
    /\ balance' = balance + value
    /\ UNCHANGED <<now, admin, board, listing>>

\* A low-level call whose result is dropped: a contract may refuse the ether,
\* and a call for more than the engine holds fails.
SendEther(to, amount, funds) ==
    \/ funds >= amount /\ balance' = funds - amount
    \/ (to \in Contracts \/ funds < amount) /\ balance' = funds

\* mutant: the comparison is strict
ExceedsDeposit(sender, amount) == amount > depositInfo[sender]

CoversDeposit(sender, amount) == amount >= depositInfo[sender]

Withdraw(sender, amount) ==
    /\ CoversDeposit(sender, amount)
    /\ Waited(sender)
    /\ amount <= depositInfo[sender]              \* checked subtraction
    /\ depositInfo' = [depositInfo EXCEPT ![sender] = @ - amount]
    /\ SendEther(sender, amount, balance)
    /\ UNCHANGED <<now, admin, board, recentActionTime, listing>>

Overdue(i) == orderInfo[i].submitTime + WinnerDeadline < now

\* mutant: the subtraction is not checked
ChargeableUnchecked(bidder) == bidder \in Accounts

\* The subtraction does not underflow; nobody ever deposits as address(0), so
\* slashing a missing order does.
Chargeable(bidder) ==
    bidder \in Accounts /\ depositInfo[bidder] >= SlashingAmount

\* mutant: paid without charging the bidder
ChargedNothing(bidder) == depositInfo

Charged(bidder) == [depositInfo EXCEPT ![bidder] = @ - SlashingAmount]

Slash(sender, i, value) ==
    /\ balance + value <= MaxEther
    /\ \/ /\ Overdue(i)
          /\ Chargeable(orderInfo[i].sender)
          /\ depositInfo' = Charged(orderInfo[i].sender)
          /\ SendEther(sender, SlashingAmount, balance + value)
       \/ /\ ~Overdue(i)
          /\ balance' = balance + value
          /\ UNCHANGED depositInfo
    /\ UNCHANGED <<now, admin, board, recentActionTime, listing>>

ReceiveEther(value) ==
    /\ balance + value <= MaxEther
    /\ balance' = balance + value
    /\ UNCHANGED <<now, admin, board, depositInfo, recentActionTime, listing>>

-----------------------------------------------------------------------------
(* The owner.                                                              *)

SetMarketRegistry(sender, r) ==
    /\ sender = engineOwner
    /\ registry' = r
    /\ UNCHANGED <<now, engineOwner, launcher, board, books, listing>>

SetLauncher(sender, l) ==
    /\ sender = engineOwner
    /\ launcher' = l
    /\ UNCHANGED <<now, engineOwner, registry, board, books, listing>>

TransferOwnership(sender, newOwner) ==
    /\ sender = engineOwner
    /\ newOwner # NoAddr
    /\ engineOwner' = newOwner
    /\ UNCHANGED <<now, registry, launcher, board, books, listing>>

RenounceOwnership(sender) ==
    /\ sender = engineOwner
    /\ engineOwner' = NoAddr
    /\ UNCHANGED <<now, registry, launcher, board, books, listing>>

-----------------------------------------------------------------------------
(* Intents and orders.                                                     *)

OpenIntent(sender, appID, conditions, duration, op) ==
    /\ intentCount < MaxIntents
    /\ now + duration >= now + CloseFloor
    /\ intentList' = [intentList EXCEPT ![intentCount] =
                        [appID |-> appID, conditions |-> conditions,
                         closeTime |-> now + duration, creator |-> sender,
                         executed |-> FALSE, op |-> op]]
    /\ intentCount' = intentCount + 1
    /\ UNCHANGED <<now, admin, orderInfo, books, listing>>

\* getWinner reverts up to and including closeTime.
WinnerKnown(i) == intentList[i].closeTime < now
GetWinner(i)   == orderInfo[i].sender

\* getAppMetadata on registry: a call to address(0) or for an app that lacks
\* a pass reverts.
AppListed(appID) == registry \in Registries /\ listing[registry][appID].listed
Metadata(appID)  == listing[registry][appID]

Permitted(appID, origin) ==
    \/ Metadata(appID).whitelist = {}
    \/ origin \in Metadata(appID).whitelist

\* mutant: the latest of the first-come orders replaces the recorded one
IsFirstNot(recorded) == TRUE

IsFirst(recorded) == recorded.submitTime = 0

\* mutant: a tie replaces the recorded order
IsHigherOrTie(recorded, score) == recorded.score <= score

IsHigher(recorded, score) == recorded.score < score

\* Whether an order replaces the recorded one.
Beats(scoringType, recorded, score) ==
    \/ scoringType = FirstComes  /\ IsFirst(recorded)
    \/ scoringType = HighestWins /\ IsHigher(recorded, score)
    \/ scoringType = LowestWins  /\ recorded.score > score

\* The order a scored submission records; first-come orders keep the score
\* slot as it is.
NewOrder(i, origin, scoringType, orderIntent) ==
    [orderIntent |-> orderIntent, sender |-> origin, submitTime |-> now,
     score |-> IF scoringType = FirstComes
               THEN orderInfo[i].score
               ELSE GetScore(intentList[i].conditions, orderIntent)]

\* mutant: off by one
BiddableAtClose(i) == intentList[i].closeTime >= now

Biddable(i) == intentList[i].closeTime > now

\* mutant: no deposit is asked for
HasDepositNot(sender) == TRUE

HasDeposit(sender) == depositInfo[sender] >= MinimumDeposit

\* The guards of submitOrder, every revert before an order is compared.
MaySubmit(origin, sender, i, orderIntent) ==
    LET intent == intentList[i] IN
    /\ HasDeposit(sender)
    /\ Biddable(i)
    /\ AppListed(intent.appID)
    /\ Permitted(intent.appID, origin)
    /\ Metadata(intent.appID).scoringType \in {HighestWins, LowestWins}
         => Scorable(intent.conditions, orderIntent)

\* The deposit checked and the clock restarted are msg.sender's, the bidder
\* recorded is tx.origin.
SubmitOrder(origin, sender, i, orderIntent) ==
    /\ MaySubmit(origin, sender, i, orderIntent)
    /\ LET type  == Metadata(intentList[i].appID).scoringType
           order == NewOrder(i, origin, type, orderIntent)
       IN IF Beats(type, orderInfo[i], order.score)
          THEN /\ orderInfo' = [orderInfo EXCEPT ![i] = order]
               /\ recentActionTime' = Restarted(sender)
          ELSE UNCHANGED <<orderInfo, recentActionTime>>
    /\ UNCHANGED <<now, admin, intentCount, intentList, depositInfo, balance,
                   listing>>

\* mutant: the order outlives its intent
CancelledOnly(i) == orderInfo

Cancelled(i) == [orderInfo EXCEPT ![i] = NoOrder]

\* mutant: open intents may be cancelled, closed ones may not
MayCancelOpen(sender, i) ==
    sender = intentList[i].creator /\ intentList[i].closeTime > now

MayCancel(sender, i) ==
    sender = intentList[i].creator /\ intentList[i].closeTime < now

CancelIntent(sender, i) ==
    /\ MayCancel(sender, i)
    /\ intentList' = [intentList EXCEPT ![i] = NoIntent]
    /\ orderInfo' = Cancelled(i)
    /\ UNCHANGED <<now, admin, intentCount, books, listing>>

\* mutant: the same window as getWinner
MaySetExecutedLater(sender, i) ==
    /\ sender = launcher
    /\ ~intentList[i].executed
    /\ intentList[i].closeTime < now

MaySetExecuted(sender, i) ==
    /\ sender = launcher
    /\ ~intentList[i].executed
    /\ intentList[i].closeTime > now

SetExecuted(sender, i) ==
    /\ MaySetExecuted(sender, i)
    /\ intentList' = [intentList EXCEPT ![i].executed = TRUE]
    /\ UNCHANGED <<now, admin, intentCount, orderInfo, books, listing>>

\* mutant: open intents may be closed, at once
MayForceCloseOpen(sender, i) == intentList[i].creator = sender

MayForceClose(sender, i) ==
    /\ intentList[i].closeTime < now
    /\ intentList[i].creator = sender

ForceCloseIntent(sender, i) ==
    /\ MayForceClose(sender, i)
    /\ intentList' = [intentList EXCEPT ![i].closeTime = now]
    /\ UNCHANGED <<now, admin, intentCount, orderInfo, books, listing>>

-----------------------------------------------------------------------------
(* The environment: time passes, a registry changes an app's listing.      *)

Tick ==
    /\ now < MaxTime
    /\ now' = now + 1
    /\ UNCHANGED <<admin, board, books, listing>>

Relist(r, a, l) ==
    /\ listing' = [listing EXCEPT ![r][a] = l]
    /\ UNCHANGED <<now, admin, board, books>>

-----------------------------------------------------------------------------
(* msg.sender of a transaction by origin: the origin or a contract it      *)
(* calls through.                                                          *)
Callers(origin) == {origin} \cup Contracts

Bidding ==
    \E origin \in EOAs, i \in IntentIds, orderIntent \in OrderIntents :
        \E sender \in Callers(origin) :
            SubmitOrder(origin, sender, i, orderIntent)

Vault ==
    \/ \E sender \in Accounts, value \in Payments : Deposit(sender, value)
    \/ \E sender \in Accounts, amount \in 0 .. MaxEther :
           Withdraw(sender, amount)
    \/ \E sender \in Accounts, i \in IntentIds, value \in Payments :
           Slash(sender, i, value)
    \/ \E value \in Payments : ReceiveEther(value)

Administration ==
    \E sender \in Accounts :
        \/ \E r \in Registries \cup {NoAddr} : SetMarketRegistry(sender, r)
        \/ \E l \in Launchers : SetLauncher(sender, l)
        \/ \E newOwner \in Addresses : TransferOwnership(sender, newOwner)
        \/ RenounceOwnership(sender)

Intending ==
    \E sender \in Accounts :
        \/ \E appID \in AppIds, conditions \in Conditions,
              duration \in Durations, op \in UserOps :
               OpenIntent(sender, appID, conditions, duration, op)
        \/ \E i \in IntentIds :
               \/ CancelIntent(sender, i)
               \/ ForceCloseIntent(sender, i)

Launching == \E sender \in Accounts, i \in IntentIds : SetExecuted(sender, i)

Relisting ==
    \E r \in Registries, a \in AppIds, l \in Listings : Relist(r, a, l)

NonBidding == \/ Vault \/ Administration \/ Intending \/ Launching
              \/ Tick \/ Relisting

Next == Bidding \/ NonBidding

Spec == Init /\ [][Next]_vars

-----------------------------------------------------------------------------
(* Properties.                                                             *)

TypeOK ==
    /\ now \in Nat /\ now >= StartTime
    /\ engineOwner \in Addresses
    /\ registry \in Registries \cup {NoAddr}
    /\ launcher \in Addresses
    /\ intentCount \in 0 .. MaxIntents
    /\ intentList \in [IntentIds -> Intents]
    /\ orderInfo \in [IntentIds -> Orders]
    /\ depositInfo \in [Accounts -> Nat]
    /\ recentActionTime \in [Accounts -> Nat]
    /\ balance \in Nat
    /\ listing \in [Registries -> [AppIds -> Listings]]

Opened(i) == intentList[i] # NoIntent

\* An order exists only while its intent does: ids are never reused, and the
\* two deletions of cancelIntent go together.  A leftover order would hand a
\* later intent a winner that never bid for it, or keep a bidder slashable
\* for an intent that is gone.
OrderHasIntent ==
    \A i \in IntentIds : orderInfo[i] # NoOrder => Opened(i) /\ i < intentCount

\* Every recorded order was handed in strictly before the intent's closeTime,
\* even when forceCloseIntent moves closeTime: no order enters an auction at
\* or after its close, and no close is moved to or before an order.
OrderBeforeClose ==
    \A i \in IntentIds :
        orderInfo[i] # NoOrder => orderInfo[i].submitTime < intentList[i].closeTime

\* The ether that deposits add up to, counted wei by wei so that the total is
\* the size of a finite set.
Wei(deposits) ==
    {wei \in Accounts \X (1 .. MaxEther) : wei[2] <= deposits[wei[1]]}

Owed == Cardinality(Wei(depositInfo))

\* The engine can pay every depositor in full: no sequence of deposits,
\* slashings, withdrawals and refused payments makes the books exceed the
\* ether held.
Solvent == Owed <= balance

\* The ether of a withdrawal arrives.  withdraw deletes the deposit first and drops
\* the result of its send, so a bidder the engine could not pay would lose the
\* deposit without a word.  A bidder without code is always paid in full.
PayoutArrives ==
    [][\A a \in EOAs, amount \in 1 .. MaxEther :
          Withdraw(a, amount) => balance' = balance - amount]_vars

\* A step leaves the closed auction of i alone, or its creator cancels it or
\* moves its close, not into the future.
WinnerStands(i) ==
    Opened(i) /\ intentList[i].closeTime <= now =>
        \/ CancelIntent(intentList[i].creator, i)
        \/ /\ orderInfo'[i] = orderInfo[i]
           /\ intentList'[i].closeTime <= now'
           /\ \/ intentList'[i] = intentList[i]
              \/ ForceCloseIntent(intentList[i].creator, i)

\* Once bidding is over the winner stands: no call changes the order of an
\* intent whose closeTime has come, or the intent, except its creator's
\* cancelIntent and forceCloseIntent.  Nobody else can end it, change it, open
\* it to bids again, or take from the creator the right to end it.
ClosedAuctionIsFinal == [][\A i \in IntentIds : WinnerStands(i)]_vars

\* A step that takes from a's deposit is a's own withdrawal of all of it, after
\* the waiting period, or takes the slashing amount for an overdue order of a.
LossJustified(a) ==
    depositInfo'[a] < depositInfo[a] =>
        \/ /\ Withdraw(a, depositInfo[a])
           /\ recentActionTime[a] + WithdrawDelay < now
        \/ /\ depositInfo'[a] = depositInfo[a] - SlashingAmount
           /\ \E i \in IntentIds : orderInfo[i].sender = a /\ Overdue(i)

\* A deposit shrinks in two ways only: its owner's withdrawal and a slash that
\* an order of its owner answers for.  Nobody else's calls and no refused
\* payment cost a bidder anything.
DepositOnlyLost == [][\A a \in Accounts : LossJustified(a)]_vars

-----------------------------------------------------------------------------
(* What the documents say and the code does not do.                        *)

\* README.md:92, slashed is a bidder "who won the Order Matching Competition and
\* was selected as the Executor", which takes a closed auction (README.md:104),
\* and did not execute.
OnlyDefaultersSlashed ==
    [][\A a \in Accounts :
          depositInfo'[a] < depositInfo[a] =>
              \/ Waited(a)
              \/ \E i \in IntentIds : /\ orderInfo[i].sender = a
                                      /\ WinnerKnown(i)
                                      /\ ~intentList[i].executed]_vars
=============================================================================
