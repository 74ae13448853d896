----------------------- MODULE OrderMatchEngineProofs -----------------------
(***************************************************************************)
(* Proofs about OrderMatchEngine, for all bidders, wallets, apps, payments *)
(* and delays.                                                             *)
(*                                                                         *)
(* The inductive invariant IInv adds two facts to the type invariant and   *)
(* the two invariants about orders: a slot of intentList is either zeroed  *)
(* or was written by openIntent, and the ids from intentCount on are       *)
(* untouched.                                                              *)
(***************************************************************************)
EXTENDS OrderMatchEngine, TLAPS

\* A slot that is not zeroed holds what a wallet handed to openIntent.
IntentShape ==
    \A i \in IntentIds :
        Opened(i) => /\ intentList[i].conditions \in Conditions
                     /\ intentList[i].creator \in Accounts

\* Ids are handed out in order.
FreshIds ==
    \A i \in IntentIds :
        i >= intentCount => intentList[i] = NoIntent /\ orderInfo[i] = NoOrder

IInv == TypeOK /\ IntentShape /\ FreshIds /\ OrderHasIntent /\ OrderBeforeClose

-----------------------------------------------------------------------------

LEMMA ZeroTypes ==
    /\ NoIntent \in Intents
    /\ NoOrder \in Orders
    /\ StartTime \in Nat /\ StartTime > 0 /\ MaxIntents \in Nat
BY AddressAssumption, DataAssumption, NumberAssumption
   DEF NoIntent, Intents, NoOrder, Orders, Addresses

\* The slot a submitOrder, setExecuted or forceCloseIntent call works on was
\* opened: a zeroed slot has closeTime 0 and no creator.
LEMMA SlotOpened ==
    ASSUME TypeOK, NEW i \in IntentIds,
           intentList[i].closeTime > now \/ intentList[i].creator \in Accounts
    PROVE  Opened(i)
<1>1. now \in Nat /\ now >= StartTime
  BY DEF TypeOK
<1>2. NoIntent.closeTime = 0 /\ NoIntent.creator = NoAddr
  BY DEF NoIntent
<1> QED
  BY <1>1, <1>2, ZeroTypes, AddressAssumption DEF Opened

LEMMA InitIInv == Init => IInv
<1> SUFFICES ASSUME Init PROVE IInv
  OBVIOUS
<1>1. TypeOK
  BY ZeroTypes, AddressAssumption, NumberAssumption, DataAssumption
     DEF Init, TypeOK, IntentIds, Addresses
<1> QED
  BY <1>1 DEF Init, IInv, IntentShape, FreshIds, OrderHasIntent,
              OrderBeforeClose, Opened

\* A call that leaves intents and orders alone keeps what is said about them.
LEMMA BoardUntouched ==
    ASSUME IInv, UNCHANGED board, TypeOK'
    PROVE  IInv'
BY DEF IInv, board, IntentShape, FreshIds, OrderHasIntent, OrderBeforeClose,
       Opened, TypeOK

LEMMA VaultIInv == ASSUME IInv, Vault PROVE IInv'
<1>1. UNCHANGED <<now, admin, board, listing>>
  BY DEF Vault, Deposit, Withdraw, Slash, ReceiveEther
<1>2. depositInfo' \in [Accounts -> Nat]
  <2>1. CASE \E sender \in Accounts, value \in Payments : Deposit(sender, value)
    BY <2>1, DataAssumption DEF Deposit, IInv, TypeOK
  <2>2. CASE \E sender \in Accounts, amount \in 0 .. MaxEther :
                 Withdraw(sender, amount)
    BY <2>2, NumberAssumption DEF Withdraw, CoversDeposit, IInv, TypeOK
  <2>3. CASE \E sender \in Accounts, i \in IntentIds, value \in Payments :
                 Slash(sender, i, value)
    BY <2>3, NumberAssumption DEF Slash, Chargeable, Charged, IInv, TypeOK
  <2>4. CASE \E value \in Payments : ReceiveEther(value)
    BY <2>4 DEF ReceiveEther, IInv, TypeOK
  <2> QED
    BY <2>1, <2>2, <2>3, <2>4 DEF Vault
<1>3. balance' \in Nat
  BY DataAssumption, NumberAssumption
     DEF Vault, Deposit, Withdraw, Slash, ReceiveEther, SendEther, IInv, TypeOK
<1>4. recentActionTime' \in [Accounts -> Nat]
  BY DEF Vault, Deposit, Withdraw, Slash, ReceiveEther, Restarted, IInv, TypeOK
<1>5. TypeOK'
  BY <1>1, <1>2, <1>3, <1>4 DEF IInv, TypeOK, admin, board
<1> QED
  BY <1>1, <1>5, BoardUntouched DEF board

LEMMA AdministrationIInv == ASSUME IInv, Administration PROVE IInv'
<1>1. UNCHANGED <<now, board, books, listing>>
  BY DEF Administration, SetMarketRegistry, SetLauncher, TransferOwnership,
         RenounceOwnership
<1>2. /\ engineOwner' \in Addresses
      /\ registry' \in Registries \cup {NoAddr}
      /\ launcher' \in Addresses
  BY AddressAssumption
     DEF Administration, SetMarketRegistry, SetLauncher, TransferOwnership,
         RenounceOwnership, IInv, TypeOK, Addresses
<1>3. TypeOK'
  BY <1>1, <1>2 DEF IInv, TypeOK, board, books
<1> QED
  BY <1>1, <1>3, BoardUntouched

LEMMA EnvironmentIInv == ASSUME IInv, Tick \/ Relisting PROVE IInv'
<1>1. UNCHANGED <<admin, board, books>>
  BY DEF Tick, Relisting, Relist
<1>2. now' \in Nat /\ now' >= StartTime
  BY ZeroTypes DEF Tick, Relisting, Relist, IInv, TypeOK
<1>3. listing' \in [Registries -> [AppIds -> Listings]]
  <2>1. listing \in [Registries -> [AppIds -> Listings]]
    BY DEF IInv, TypeOK
  <2>2. CASE Tick
    BY <2>1, <2>2 DEF Tick
  <2>3. ASSUME NEW r \in Registries, NEW a \in AppIds, NEW l \in Listings,
               Relist(r, a, l)
        PROVE  listing' \in [Registries -> [AppIds -> Listings]]
    <3>1. [listing[r] EXCEPT ![a] = l] \in [AppIds -> Listings]
      BY <2>1, <2>3
    <3>2. listing' = [listing EXCEPT ![r] = [listing[r] EXCEPT ![a] = l]]
      BY <2>1, <2>3 DEF Relist
    <3> HIDE <2>3
    <3> QED
      BY <2>1, <3>1, <3>2
  <2> QED
    BY <2>2, <2>3 DEF Relisting
<1>4. TypeOK'
  BY <1>1, <1>2, <1>3 DEF IInv, TypeOK, admin, board, books
<1> QED
  BY <1>1, <1>4, BoardUntouched

LEMMA OpenIntentIInv ==
    ASSUME IInv,
           NEW sender \in Accounts, NEW appID \in AppIds,
           NEW conditions \in Conditions, NEW duration \in Durations,
           NEW op \in UserOps,
           OpenIntent(sender, appID, conditions, duration, op)
    PROVE  IInv'
<1> DEFINE new == [appID |-> appID, conditions |-> conditions,
                   closeTime |-> now + duration, creator |-> sender,
                   executed |-> FALSE, op |-> op]
<1>1. /\ intentCount \in IntentIds
      /\ intentList' = [intentList EXCEPT ![intentCount] = new]
      /\ intentCount' = intentCount + 1
      /\ orderInfo' = orderInfo
      /\ intentCount < MaxIntents
  BY ZeroTypes DEF OpenIntent, IInv, TypeOK, IntentIds
<1>2. new \in Intents
  BY DataAssumption DEF Intents, IInv, TypeOK, Addresses
<1> HIDE DEF new
<1>3. TypeOK'
  <2>1. intentList' \in [IntentIds -> Intents]
    BY <1>1, <1>2 DEF IInv, TypeOK
  <2> QED
    BY <1>1, <2>1, ZeroTypes DEF OpenIntent, IInv, TypeOK, admin, books
<1>4. orderInfo[intentCount] = NoOrder
  BY <1>1 DEF IInv, TypeOK, FreshIds
<1>5. IntentShape'
  <2>1. new.conditions \in Conditions /\ new.creator \in Accounts
    BY DEF new
  <2> QED
    BY <1>1, <2>1 DEF IInv, TypeOK, IntentShape, Opened
<1>6. FreshIds'
  BY <1>1 DEF IInv, TypeOK, FreshIds, IntentIds
<1>7. OrderHasIntent'
  BY <1>1, <1>4 DEF IInv, TypeOK, OrderHasIntent, Opened, IntentIds
<1>8. OrderBeforeClose'
  BY <1>1, <1>4 DEF IInv, TypeOK, OrderBeforeClose
<1> QED
  BY <1>3, <1>5, <1>6, <1>7, <1>8 DEF IInv

LEMMA CancelIntentIInv ==
    ASSUME IInv, NEW sender \in Accounts, NEW i \in IntentIds,
           CancelIntent(sender, i)
    PROVE  IInv'
<1>1. /\ intentList' = [intentList EXCEPT ![i] = NoIntent]
      /\ orderInfo' = [orderInfo EXCEPT ![i] = NoOrder]
      /\ UNCHANGED <<now, admin, intentCount, books, listing>>
  BY DEF CancelIntent, MayCancel, Cancelled
<1>2. TypeOK'
  BY <1>1, ZeroTypes DEF IInv, TypeOK, admin, books
<1>3. IntentShape' /\ FreshIds' /\ OrderHasIntent' /\ OrderBeforeClose'
  BY <1>1 DEF IInv, TypeOK, IntentShape, FreshIds, OrderHasIntent,
              OrderBeforeClose, Opened
<1> QED
  BY <1>2, <1>3 DEF IInv

\* setExecuted and forceCloseIntent rewrite one field of one opened slot.
LEMMA AmendIntentIInv ==
    ASSUME IInv, NEW i \in IntentIds, NEW new \in Intents,
           Opened(i),
           new.conditions = intentList[i].conditions,
           new.creator = intentList[i].creator,
           new # NoIntent,
           orderInfo[i] # NoOrder => orderInfo[i].submitTime < new.closeTime,
           intentList' = [intentList EXCEPT ![i] = new],
           UNCHANGED <<now, admin, intentCount, orderInfo, books, listing>>
    PROVE  IInv'
<1>1. TypeOK'
  BY DEF IInv, TypeOK, admin, books
<1>2. IntentShape'
  BY DEF IInv, TypeOK, IntentShape, Opened
<1>3. FreshIds'
  BY DEF IInv, TypeOK, FreshIds, Opened
<1>4. OrderHasIntent'
  BY DEF IInv, TypeOK, OrderHasIntent, Opened
<1>5. OrderBeforeClose'
  BY DEF IInv, TypeOK, OrderBeforeClose
<1> QED
  BY <1>1, <1>2, <1>3, <1>4, <1>5 DEF IInv

LEMMA ForceCloseIInv ==
    ASSUME IInv, NEW sender \in Accounts, NEW i \in IntentIds,
           ForceCloseIntent(sender, i)
    PROVE  IInv'
<1> DEFINE new == [intentList[i] EXCEPT !.closeTime = now]
<1>1. intentList[i] \in Intents /\ orderInfo[i] \in Orders /\ now \in Nat
      /\ now > 0
  BY ZeroTypes DEF IInv, TypeOK
<1>2. Opened(i)
  BY SlotOpened DEF ForceCloseIntent, MayForceClose, IInv
<1>3. /\ new \in Intents
      /\ new.closeTime = now
      /\ new.conditions = intentList[i].conditions
      /\ new.creator = intentList[i].creator
  BY <1>1 DEF Intents
<1>4. new # NoIntent
  BY <1>1, <1>3 DEF NoIntent
<1>5. orderInfo[i] # NoOrder => orderInfo[i].submitTime < now
  BY <1>1 DEF ForceCloseIntent, MayForceClose, IInv, OrderBeforeClose, Orders, Intents
<1>6. /\ intentList' = [intentList EXCEPT ![i] = new]
      /\ UNCHANGED <<now, admin, intentCount, orderInfo, books, listing>>
  BY DEF ForceCloseIntent, MayForceClose, IInv, TypeOK
<1> HIDE DEF new
<1> QED
  BY <1>2, <1>3, <1>4, <1>5, <1>6, AmendIntentIInv

LEMMA SetExecutedIInv ==
    ASSUME IInv, NEW sender, NEW i \in IntentIds, SetExecuted(sender, i)
    PROVE  IInv'
<1> DEFINE new == [intentList[i] EXCEPT !.executed = TRUE]
<1>1. intentList[i] \in Intents
  BY DEF IInv, TypeOK
<1>2. Opened(i)
  BY SlotOpened DEF SetExecuted, MaySetExecuted, IInv
<1>3. /\ new \in Intents
      /\ new.closeTime = intentList[i].closeTime
      /\ new.conditions = intentList[i].conditions
      /\ new.creator = intentList[i].creator
      /\ new.executed
  BY <1>1 DEF Intents
<1>4. new # NoIntent
  BY <1>3 DEF NoIntent
<1>5. orderInfo[i] # NoOrder => orderInfo[i].submitTime < new.closeTime
  BY <1>3 DEF IInv, OrderBeforeClose
<1>6. /\ intentList' = [intentList EXCEPT ![i] = new]
      /\ UNCHANGED <<now, admin, intentCount, orderInfo, books, listing>>
  BY DEF SetExecuted, IInv, TypeOK
<1> HIDE DEF new
<1> QED
  BY <1>2, <1>3, <1>4, <1>5, <1>6, AmendIntentIInv

\* What submitOrder records is an order: the score is a number because
\* getScore reverts below the user's minimum, and the app is listed.
LEMMA NewOrderType ==
    ASSUME IInv,
           NEW origin \in EOAs, NEW sender \in Accounts, NEW i \in IntentIds,
           NEW orderIntent \in OrderIntents,
           MaySubmit(origin, sender, i, orderIntent),
           Beats(Metadata(intentList[i].appID).scoringType, orderInfo[i],
                 NewOrder(i, origin, Metadata(intentList[i].appID).scoringType,
                          orderIntent).score)
    PROVE  NewOrder(i, origin, Metadata(intentList[i].appID).scoringType,
                    orderIntent) \in Orders
<1> DEFINE type == Metadata(intentList[i].appID).scoringType
<1>1. /\ intentList[i] \in Intents
      /\ orderInfo[i].score \in Nat
      /\ now \in Nat
  BY DEF IInv, TypeOK, Orders
<1>2. intentList[i].conditions \in Conditions
  BY SlotOpened DEF MaySubmit, Biddable, IInv, IntentShape
<1>3. type \in {FirstComes, HighestWins, LowestWins}
  BY DEF Beats
<1>4. CASE type = FirstComes
  BY <1>1, <1>4 DEF NewOrder, Orders, Addresses, Accounts
<1>5. CASE type \in {HighestWins, LowestWins}
  <2>1. GetScore(intentList[i].conditions, orderIntent) \in Nat
    BY <1>2, <1>5, DataAssumption DEF MaySubmit, Scorable, GetScore
  <2> QED
    BY <1>1, <1>5, <2>1 DEF NewOrder, Orders, Addresses, Accounts,
       FirstComes, HighestWins, LowestWins
<1> QED
  BY <1>3, <1>4, <1>5

LEMMA SubmitOrderIInv ==
    ASSUME IInv,
           NEW origin \in EOAs, NEW sender \in Accounts, NEW i \in IntentIds,
           NEW orderIntent \in OrderIntents,
           SubmitOrder(origin, sender, i, orderIntent)
    PROVE  IInv'
<1> DEFINE type  == Metadata(intentList[i].appID).scoringType
           order == NewOrder(i, origin, type, orderIntent)
<1>1. UNCHANGED <<now, admin, intentCount, intentList, depositInfo, balance,
                  listing>>
  BY DEF SubmitOrder
<1>2. CASE Beats(type, orderInfo[i], order.score)
  <2>1. order \in Orders
    BY <1>2, NewOrderType DEF SubmitOrder
  <2>2. order.submitTime = now
    BY DEF NewOrder
  <2>3. Opened(i) /\ intentList[i].closeTime > now
    BY SlotOpened DEF SubmitOrder, MaySubmit, Biddable, IInv
  <2>4. /\ orderInfo' = [orderInfo EXCEPT ![i] = order]
        /\ recentActionTime' = [recentActionTime EXCEPT ![sender] = now]
    BY <1>2 DEF SubmitOrder, Restarted
  <2> HIDE DEF order
  <2>5. TypeOK'
    BY <1>1, <2>1, <2>4 DEF IInv, TypeOK, admin
  <2>6. IntentShape'
    BY <1>1 DEF IInv, IntentShape, Opened
  <2>7. i < intentCount
    BY <2>3 DEF IInv, TypeOK, FreshIds, IntentIds, Opened
  <2>8. FreshIds' /\ OrderHasIntent'
    BY <1>1, <2>3, <2>4, <2>7
       DEF IInv, TypeOK, FreshIds, OrderHasIntent, Opened, IntentIds
  <2>9. OrderBeforeClose'
    <3>1. now < intentList[i].closeTime
      BY <2>3 DEF IInv, TypeOK, Intents
    <3> QED
      BY <1>1, <2>2, <2>4, <3>1 DEF IInv, TypeOK, OrderBeforeClose
  <2> QED
    BY <2>5, <2>6, <2>8, <2>9 DEF IInv
<1>3. CASE ~Beats(type, orderInfo[i], order.score)
  <2>1. UNCHANGED <<orderInfo, recentActionTime>>
    BY <1>3 DEF SubmitOrder
  <2>2. TypeOK'
    BY <1>1, <2>1 DEF IInv, TypeOK, admin
  <2> QED
    BY <1>1, <2>1, <2>2, BoardUntouched DEF board
<1> QED
  BY <1>2, <1>3

-----------------------------------------------------------------------------
(* The theorems.                                                           *)

LEMMA NextIInv == IInv /\ [Next]_vars => IInv'
<1> SUFFICES ASSUME IInv, [Next]_vars PROVE IInv'
  OBVIOUS
<1>1. CASE Bidding
  BY <1>1, SubmitOrderIInv DEF Bidding, Callers, Accounts
<1>2. CASE Vault
  BY <1>2, VaultIInv
<1>3. CASE Administration
  BY <1>3, AdministrationIInv
<1>4. CASE Intending
  BY <1>4, OpenIntentIInv, CancelIntentIInv, ForceCloseIInv DEF Intending
<1>5. CASE Launching
  BY <1>5, SetExecutedIInv DEF Launching
<1>6. CASE Tick \/ Relisting
  BY <1>6, EnvironmentIInv
<1>7. CASE UNCHANGED vars
  <2>1. UNCHANGED <<now, admin, board, books, listing>>
    BY <1>7 DEF vars
  <2>2. TypeOK'
    BY <2>1 DEF IInv, TypeOK, admin, board, books
  <2> QED
    BY <2>1, <2>2, BoardUntouched
<1> QED
  BY <1>1, <1>2, <1>3, <1>4, <1>5, <1>6, <1>7 DEF Next, NonBidding

THEOREM Invariance == Spec => []IInv
<1>1. Init => IInv
  BY InitIInv
<1>2. IInv /\ [Next]_vars => IInv'
  BY NextIInv
<1> QED
  BY <1>1, <1>2, PTL DEF Spec

\* Every reachable state of the engine is well typed: no call underflows the
\* unsigned deposits, scores or the ether held.
THEOREM TypeCorrect == Spec => []TypeOK
<1>1. IInv => TypeOK
  BY DEF IInv
<1> QED
  BY <1>1, Invariance, PTL

\* No order outlives or precedes its intent.
THEOREM OrdersHaveIntents == Spec => []OrderHasIntent
<1>1. IInv => OrderHasIntent
  BY DEF IInv
<1> QED
  BY <1>1, Invariance, PTL

\* No order is recorded at or after the close of its intent, and no close is
\* moved to or before a recorded order.
THEOREM OrdersBeforeClose == Spec => []OrderBeforeClose
<1>1. IInv => OrderBeforeClose
  BY DEF IInv
<1> QED
  BY <1>1, Invariance, PTL

LEMMA WinnerStandsStep ==
    ASSUME IInv, [Next]_vars, NEW i \in IntentIds
    PROVE  WinnerStands(i)
<1> SUFFICES ASSUME Opened(i), intentList[i].closeTime <= now
             PROVE  \/ CancelIntent(intentList[i].creator, i)
                    \/ /\ orderInfo'[i] = orderInfo[i]
                       /\ intentList'[i].closeTime <= now'
                       /\ \/ intentList'[i] = intentList[i]
                          \/ ForceCloseIntent(intentList[i].creator, i)
  BY DEF WinnerStands
<1>1. /\ intentList \in [IntentIds -> Intents]
      /\ orderInfo \in [IntentIds -> Orders]
      /\ now \in Nat
      /\ intentList[i].closeTime \in Nat
      /\ i < intentCount
      /\ i \in Nat /\ intentCount \in Nat
  BY DEF IInv, TypeOK, FreshIds, Opened, IntentIds, Intents
<1>2. CASE Bidding
  <2>1. PICK origin \in EOAs, j \in IntentIds, orderIntent \in OrderIntents :
            \E sender \in Callers(origin) :
                SubmitOrder(origin, sender, j, orderIntent)
    BY <1>2 DEF Bidding
  <2>2. intentList[j].closeTime > now
    BY <2>1 DEF SubmitOrder, MaySubmit, Biddable
  <2>3. j # i
    BY <1>1, <2>2
  <2> QED
    BY <1>1, <2>1, <2>3 DEF SubmitOrder
<1>3. CASE UNCHANGED <<intentList, orderInfo>> /\ (now' = now \/ now' = now + 1)
  BY <1>1, <1>3
<1>4. CASE Intending
  <2>1. CASE \E sender \in Accounts, appID \in AppIds,
                conditions \in Conditions, duration \in Durations,
                op \in UserOps :
                 OpenIntent(sender, appID, conditions, duration, op)
    BY <1>1, <2>1 DEF OpenIntent
  <2>2. ASSUME NEW sender \in Accounts, NEW j \in IntentIds,
               CancelIntent(sender, j)
        PROVE  \/ CancelIntent(intentList[i].creator, i)
               \/ UNCHANGED <<intentList[i], orderInfo[i], now>>
    <3>1. CASE j = i
      <4>1. sender = intentList[i].creator
        BY <2>2, <3>1 DEF CancelIntent, MayCancel
      <4> QED
        BY <2>2, <3>1, <4>1
    <3>2. CASE j # i
      BY <1>1, <2>2, <3>2 DEF CancelIntent, Cancelled
    <3> QED
      BY <3>1, <3>2
  <2>3. ASSUME NEW sender \in Accounts, NEW j \in IntentIds,
               ForceCloseIntent(sender, j)
        PROVE  /\ orderInfo'[i] = orderInfo[i]
               /\ intentList'[i].closeTime <= now'
               /\ \/ intentList'[i] = intentList[i]
                  \/ ForceCloseIntent(intentList[i].creator, i)
    <3>1. CASE j = i
      <4>1. sender = intentList[i].creator
        BY <2>3, <3>1 DEF ForceCloseIntent, MayForceClose
      <4>2. intentList'[i].closeTime = now /\ UNCHANGED <<orderInfo, now>>
        BY <1>1, <2>3, <3>1 DEF ForceCloseIntent, Intents
      <4> QED
        BY <1>1, <2>3, <3>1, <4>1, <4>2
    <3>2. CASE j # i
      BY <1>1, <2>3, <3>2 DEF ForceCloseIntent
    <3> QED
      BY <3>1, <3>2
  <2> QED
    BY <1>4, <2>1, <2>2, <2>3 DEF Intending
<1>5. CASE Launching
  <2>1. PICK sender \in Accounts, j \in IntentIds : SetExecuted(sender, j)
    BY <1>5 DEF Launching
  <2>2. j # i
    BY <1>1, <2>1 DEF SetExecuted, MaySetExecuted
  <2> QED
    BY <1>1, <2>1, <2>2 DEF SetExecuted
<1>6. Vault \/ Administration \/ Relisting
          => UNCHANGED <<intentList, orderInfo, now>>
  BY DEF Vault, Deposit, Withdraw, Slash, ReceiveEther, Administration,
         SetMarketRegistry, SetLauncher, TransferOwnership, RenounceOwnership,
         Relisting, Relist, board
<1>7. Tick => UNCHANGED <<intentList, orderInfo>> /\ now' = now + 1
  BY DEF Tick, board
<1>8. UNCHANGED vars => UNCHANGED <<intentList, orderInfo, now>>
  BY DEF vars, board
<1> QED
  BY <1>2, <1>3, <1>4, <1>5, <1>6, <1>7, <1>8 DEF Next, NonBidding

\* From its close on, an auction and its intent are changed by its creator's
\* cancelIntent and forceCloseIntent only.
THEOREM ClosedAuctionsAreFinal == Spec => ClosedAuctionIsFinal
<1>1. IInv /\ [Next]_vars => [\A i \in IntentIds : WinnerStands(i)]_vars
  BY WinnerStandsStep
<1> QED
  BY <1>1, Invariance, PTL DEF Spec, ClosedAuctionIsFinal

LEMMA LossJustifiedStep ==
    ASSUME TypeOK, [Next]_vars, NEW a \in Accounts
    PROVE  LossJustified(a)
<1> SUFFICES ASSUME depositInfo'[a] < depositInfo[a]
             PROVE  \/ /\ Withdraw(a, depositInfo[a])
                       /\ recentActionTime[a] + WithdrawDelay < now
                    \/ /\ depositInfo'[a] = depositInfo[a] - SlashingAmount
                       /\ \E i \in IntentIds :
                              orderInfo[i].sender = a /\ Overdue(i)
  BY DEF LossJustified
<1>1. depositInfo \in [Accounts -> Nat]
  BY DEF TypeOK
<1>2. depositInfo' # depositInfo
  BY <1>1
<1>3. \/ \E sender \in Accounts, value \in Payments : Deposit(sender, value)
      \/ \E sender \in Accounts, amount \in 0 .. MaxEther :
             Withdraw(sender, amount)
      \/ \E sender \in Accounts, i \in IntentIds, value \in Payments :
             Slash(sender, i, value)
  <2>1. Bidding \/ Administration \/ Intending \/ Launching \/ Tick \/ Relisting
            => UNCHANGED depositInfo
    BY DEF Bidding, SubmitOrder, Administration, SetMarketRegistry,
           SetLauncher, TransferOwnership, RenounceOwnership, Intending,
           OpenIntent, CancelIntent, ForceCloseIntent, Launching, SetExecuted,
           Tick, Relisting, Relist, books
  <2>2. UNCHANGED vars => UNCHANGED depositInfo
    BY DEF vars, books
  <2>3. \A value \in Payments : ReceiveEther(value) => UNCHANGED depositInfo
    BY DEF ReceiveEther
  <2> QED
    BY <1>2, <2>1, <2>2, <2>3 DEF Next, NonBidding, Vault
<1>4. ASSUME NEW sender \in Accounts, NEW value \in Payments,
             Deposit(sender, value)
      PROVE  FALSE
  BY <1>1, <1>4, DataAssumption DEF Deposit
<1>5. ASSUME NEW sender \in Accounts, NEW amount \in 0 .. MaxEther,
             Withdraw(sender, amount)
      PROVE  /\ Withdraw(a, depositInfo[a])
             /\ recentActionTime[a] + WithdrawDelay < now
  <2>1. sender = a
    BY <1>1, <1>2, <1>5 DEF Withdraw
  <2>2. amount = depositInfo[a]
    BY <1>1, <1>5, <2>1, NumberAssumption DEF Withdraw, CoversDeposit
  <2> QED
    BY <1>5, <2>1, <2>2 DEF Withdraw, Waited
<1>6. ASSUME NEW sender \in Accounts, NEW i \in IntentIds,
             NEW value \in Payments, Slash(sender, i, value)
      PROVE  /\ depositInfo'[a] = depositInfo[a] - SlashingAmount
             /\ orderInfo[i].sender = a /\ Overdue(i)
  BY <1>1, <1>2, <1>6, NumberAssumption
     DEF Slash, Chargeable, Charged
<1> QED
  BY <1>3, <1>4, <1>5, <1>6

\* No sequence of calls takes from a deposit but its owner's withdrawal and a
\* slash for an overdue order of its owner.
THEOREM DepositsOnlyLost == Spec => DepositOnlyLost
<1>1. TypeOK /\ [Next]_vars => [\A a \in Accounts : LossJustified(a)]_vars
  BY LossJustifiedStep
<1> QED
  BY <1>1, TypeCorrect, PTL DEF Spec, DepositOnlyLost
=============================================================================
