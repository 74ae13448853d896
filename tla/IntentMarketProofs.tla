------------------------- MODULE IntentMarketProofs -------------------------
(***************************************************************************)
(* Proofs about IntentMarket, for all accounts, apps, intents, delays and  *)
(* numbers of either.                                                      *)
(*                                                                         *)
(* First, the engine among its registry is the engine of OrderMatchEngine: *)
(* whatever the registry's parties call changes the listing of one app at  *)
(* most, so all that is proved of the engine alone holds here.  Then two   *)
(* promises that span both contracts, by an inductive invariant CInv that  *)
(* carries the registry's clock over to the orders.  Last, the registry    *)
(* among the engine's users is the registry of MarketRegistry.             *)
(***************************************************************************)
EXTENDS IntentMarket, TLAPS

Ids == Eng!IntentIds

AppsOK ==
    /\ now \in Nat /\ now >= StartTime
    /\ appIndex \in AppIds
    /\ appInfo \in [AppIds -> Reg!AppData]

ClocksOK ==
    /\ recentUpdateTime \in [AppIds -> Nat]
    /\ written \in [AppIds -> Nat]
    /\ ownerWrote \subseteq AppIds

\* An app the owner never wrote by itself: it has contents only if it was
\* registered, its clock covers the last write, its passes are those the
\* contract gives, and come after the delay.
Reviewed(a) ==
    /\ a >= appIndex => appInfo[a].contents = NoContents
    /\ written[a] <= recentUpdateTime[a] /\ written[a] <= now
    /\ {appInfo[a].finalPass, appInfo[a].securityCouncilPass} \subseteq {0, 1}
    /\ \/ appInfo[a].finalPass = 0 /\ appInfo[a].securityCouncilPass = 0
       \/ written[a] + UpdateDelay <= now

AppsReviewed == \A a \in AppIds \ ownerWrote : Reviewed(a)

\* Slots behind the counter are zeroed.
BoardOK ==
    /\ intentCount \in Nat
    /\ intentList \in [Ids -> Eng!Intents]
    /\ orderInfo = [i \in Ids |-> orderInfo[i]]
    /\ \A i \in Ids : i >= intentCount => /\ intentList[i] = Eng!NoIntent
                                          /\ orderInfo[i] = Eng!NoOrder

\* The two promises, slot by slot.
Kept(i) == Led(i) => /\ intentList[i].appID < appIndex
                     /\ \/ Whitelist(i) = {}
                        \/ orderInfo[i].sender \in Whitelist(i)
                     /\ written[intentList[i].appID] + UpdateDelay
                            <= orderInfo[i].submitTime

RegInv == AppsOK /\ ClocksOK /\ AppsReviewed
CInv   == RegInv /\ BoardOK /\ \A i \in Ids : Kept(i)

-----------------------------------------------------------------------------
(* The registry seen from the engine.                                      *)

LEMMA AppIdsSame == Reg!AppIds = AppIds /\ AppIds \subseteq Nat
BY ReviewAssumption DEF Reg!AppIds, AppIds

\* A call to the registry writes one app, or none.
LEMMA OneAppWritten ==
    ASSUME AppsOK, RegistryCall
    PROVE  /\ now' = now
           /\ appIndex' \in AppIds
           /\ \/ UNCHANGED appInfo
              \/ \E a \in AppIds, ad \in Reg!AppData :
                     appInfo' = [appInfo EXCEPT ![a] = ad]
<1>1. ASSUME NEW sender \in RegistryCallers, NEW contents \in Contents,
             Reg!RegisterAppMetadata(sender, contents)
      PROVE  /\ now' = now /\ appIndex' \in AppIds
             /\ appInfo' = [appInfo EXCEPT ![appIndex] = Reg!App(contents, 0, 0)]
             /\ Reg!App(contents, 0, 0) \in Reg!AppData
  BY <1>1, ReviewAssumption
     DEF Reg!RegisterAppMetadata, Reg!App, Reg!AppData, AppsOK, AppIds
<1>2. ASSUME NEW sender \in RegistryCallers, NEW a \in AppIds,
             NEW contents \in Contents,
             Reg!UpdateAppMetadata(sender, a, contents)
      PROVE  /\ now' = now /\ appIndex' = appIndex
             /\ appInfo' = [appInfo EXCEPT ![a] =
                              [appInfo[a] EXCEPT !.contents = contents]]
             /\ [appInfo[a] EXCEPT !.contents = contents] \in Reg!AppData
  BY <1>2 DEF Reg!UpdateAppMetadata, Reg!AppData, AppsOK
<1>3. ASSUME NEW sender \in RegistryCallers, NEW a \in AppIds,
             NEW contents \in Contents,
             NEW councilPass \in Passes, NEW finalPass \in Passes,
             Reg!SuperUpdateOnlyAdmin(sender, a,
                 Reg!App(contents, councilPass, finalPass))
      PROVE  /\ now' = now /\ appIndex' = appIndex
             /\ appInfo' = [appInfo EXCEPT ![a] =
                              Reg!App(contents, councilPass, finalPass)]
             /\ Reg!App(contents, councilPass, finalPass) \in Reg!AppData
  BY <1>3 DEF Reg!SuperUpdateOnlyAdmin, Reg!App, Reg!AppData
<1>4. ASSUME NEW sender \in RegistryCallers, NEW a \in AppIds,
             \/ Reg!ApproveSecurityCouncil(sender, a)
             \/ Reg!RevokeCouncilPass(sender, a)
      PROVE  /\ now' = now /\ appIndex' = appIndex
             /\ \E p \in {0, 1} :
                    /\ appInfo' = [appInfo EXCEPT ![a] =
                           [appInfo[a] EXCEPT !.securityCouncilPass = p]]
                    /\ [appInfo[a] EXCEPT !.securityCouncilPass = p]
                           \in Reg!AppData
  BY <1>4, ReviewAssumption
     DEF Reg!ApproveSecurityCouncil, Reg!RevokeCouncilPass, Reg!AppData, AppsOK
<1>5. ASSUME NEW sender \in RegistryCallers, NEW a \in AppIds,
             \/ Reg!ApproveFinalPass(sender, a)
             \/ Reg!RevokeFinalPass(sender, a)
      PROVE  /\ now' = now /\ appIndex' = appIndex
             /\ \E p \in {0, 1} :
                    /\ appInfo' = [appInfo EXCEPT ![a] =
                           [appInfo[a] EXCEPT !.finalPass = p]]
                    /\ [appInfo[a] EXCEPT !.finalPass = p] \in Reg!AppData
  BY <1>5, ReviewAssumption
     DEF Reg!ApproveFinalPass, Reg!RevokeFinalPass, Reg!AppData, AppsOK
<1>6. ASSUME NEW sender \in RegistryCallers,
             \/ \E candidate \in RegistryCallers :
                    \/ Reg!RegisterSecurityCouncil(sender, candidate)
                    \/ Reg!RevokeCouncilMember(sender, candidate)
             \/ \E newOwner \in Reg!Addresses :
                    Reg!TransferOwnership(sender, newOwner)
             \/ Reg!RenounceOwnership(sender)
      PROVE  UNCHANGED <<now, appIndex, appInfo>>
  BY <1>6 DEF Reg!RegisterSecurityCouncil, Reg!RevokeCouncilMember,
              Reg!TransferOwnership, Reg!RenounceOwnership
<1>7. appIndex \in AppIds
  BY DEF AppsOK
<1>8. CASE Registering
  BY <1>1, <1>7, <1>8 DEF Registering
<1>9. CASE Updating
  <2>1. PICK sender \in RegistryCallers, a \in AppIds, contents \in Contents :
            Reg!UpdateAppMetadata(sender, a, contents)
    BY <1>9 DEF Updating
  <2> DEFINE ad == [appInfo[a] EXCEPT !.contents = contents]
  <2>2. /\ now' = now /\ appIndex' = appIndex
        /\ appInfo' = [appInfo EXCEPT ![a] = ad] /\ ad \in Reg!AppData
    BY <1>2, <2>1
  <2> HIDE DEF ad
  <2> QED
    BY <1>7, <2>2
<1>10. CASE SuperUpdating
  BY <1>3, <1>7, <1>10 DEF SuperUpdating
<1>11. CASE Reg!Reviewing
  BY <1>4, <1>7, <1>11, AppIdsSame DEF Reg!Reviewing
<1>12. CASE Reg!Owning
  BY <1>5, <1>6, <1>7, <1>12, AppIdsSame DEF Reg!Owning
<1> QED
  BY <1>8, <1>9, <1>10, <1>11, <1>12 DEF RegistryCall

LEMMA AppsOKInit == Init => AppsOK
BY ReviewAssumption
   DEF Init, Reg!Init, AppsOK, AppIds, Reg!AppIds, Reg!NoApp, Reg!App,
       Reg!AppData

LEMMA EngineCallQuiet == EngineCall => UNCHANGED <<now, registryVars, history>>
BY DEF EngineCall, Eng!Bidding, Eng!SubmitOrder, Eng!Vault, Eng!Deposit,
       Eng!Withdraw, Eng!Slash, Eng!ReceiveEther, Eng!Administration,
       Eng!SetMarketRegistry, Eng!SetLauncher, Eng!TransferOwnership,
       Eng!RenounceOwnership, Eng!Intending, Eng!OpenIntent, Eng!CancelIntent,
       Eng!ForceCloseIntent, Eng!Launching, Eng!SetExecuted

LEMMA AppsOKStep == AppsOK /\ [Next]_vars => AppsOK'
<1> SUFFICES ASSUME AppsOK, [Next]_vars PROVE AppsOK'
  OBVIOUS
<1>1. CASE EngineCall
  BY <1>1, EngineCallQuiet DEF AppsOK, registryVars
<1>2. CASE RegistryCall
  BY <1>2, OneAppWritten DEF AppsOK
<1>3. CASE Tick
  BY <1>3, ReviewAssumption DEF Tick, AppsOK, registryVars
<1>4. CASE UNCHANGED vars
  BY <1>4 DEF vars, AppsOK, registryVars
<1> QED
  BY <1>1, <1>2, <1>3, <1>4 DEF Next

-----------------------------------------------------------------------------
(* The engine among its registry.                                          *)

Listings == [listed : BOOLEAN, scoringType : ScoringTypes, whitelist : SUBSET EOAs]

listing == [r \in {Registry} |-> [a \in NamedApps |-> Shown(a)]]

\* What a registry call changes of the listing of one app is a Relist.
LEMMA RegistryCallRelists ==
    ASSUME AppsOK, AppsOK', RegistryCall PROVE [Eng!Next]_(Eng!vars)
<1>1. UNCHANGED <<now, engineVars>>
  BY OneAppWritten DEF RegistryCall
<1>2. CASE UNCHANGED appInfo
  <2>1. UNCHANGED listing
    BY <1>2 DEF listing, Shown, Reg!Passed, HasConstraints
  <2> QED
    BY <1>1, <2>1 DEF Eng!vars, Eng!admin, Eng!board, Eng!books, engineVars,
                      listing
<1>3. ASSUME NEW a \in AppIds, NEW ad \in Reg!AppData,
             appInfo' = [appInfo EXCEPT ![a] = ad]
      PROVE  [Eng!Next]_(Eng!vars)
  <2>1. \A b \in NamedApps : b # a => Shown(b)' = Shown(b)
    BY <1>3, MarketAssumption DEF AppsOK, Shown, Reg!Passed, HasConstraints
  <2>2. CASE a \in NamedApps
    <3>1. Shown(a)' \in Listings
      <4>1. appInfo'[a].contents \in Contents \cup {NoContents}
        BY DEF AppsOK, Reg!AppData
      <4> QED
        BY <4>1, ContentsAssumption
           DEF Shown, Listings, Reg!Passed, HasConstraints
    <3>2. [b \in NamedApps |-> Shown(b)']
              = [[b \in NamedApps |-> Shown(b)] EXCEPT ![a] = Shown(a)']
      BY <2>1, <2>2
    <3>3. listing' = [listing EXCEPT ![Registry][a] = Shown(a)']
      BY <3>2 DEF listing
    <3>4. Eng!Relist(Registry, a, Shown(a)')
      BY <1>1, <3>3 DEF Eng!Relist, Eng!admin, Eng!board, Eng!books, engineVars,
                        listing
    <3> QED
      BY <2>2, <3>1, <3>4 DEF Eng!Next, Eng!NonBidding, Eng!Relisting, Listings
  <2>3. CASE a \notin NamedApps
    <3>1. UNCHANGED listing
      BY <2>1, <2>3 DEF listing
    <3> QED
      BY <1>1, <3>1 DEF Eng!vars, Eng!admin, Eng!board, Eng!books, engineVars,
                        listing
  <2> QED
    BY <2>2, <2>3
<1> QED
  BY <1>2, <1>3, OneAppWritten

LEMMA EngineStep ==
    ASSUME AppsOK, AppsOK', [Next]_vars PROVE [Eng!Next]_(Eng!vars)
<1>1. CASE EngineCall
  BY <1>1 DEF EngineCall, Eng!Next, Eng!NonBidding
<1>2. CASE RegistryCall
  BY <1>2, RegistryCallRelists
<1>3. CASE Tick
  <2>1. UNCHANGED listing
    BY <1>3 DEF Tick, registryVars, listing, Shown, Reg!Passed, HasConstraints
  <2>2. Eng!Tick
    BY <1>3, <2>1 DEF Tick, engineVars, Eng!Tick, Eng!admin, Eng!board,
                      Eng!books, listing
  <2> QED
    BY <2>2 DEF Eng!Next, Eng!NonBidding
<1>4. CASE UNCHANGED vars
  <2>1. UNCHANGED listing
    BY <1>4 DEF vars, registryVars, listing, Shown, Reg!Passed, HasConstraints
  <2> QED
    BY <1>4, <2>1 DEF vars, engineVars, Eng!vars, Eng!admin, Eng!board,
                      Eng!books, listing
<1> QED
  BY <1>1, <1>2, <1>3, <1>4 DEF Next

\* Among the real registry the engine behaves as OrderMatchEngine says with a
\* registry that answers freely.
THEOREM MarketImplementsEngine == Spec => ImplementsEngine
<1>1. Init => AppsOK
  BY AppsOKInit
<1>2. AppsOK /\ [Next]_vars => AppsOK'
  BY AppsOKStep
<1>3. Init => Eng!Init
  BY DEF Init
<1>4. AppsOK /\ AppsOK' /\ [Next]_vars => [Eng!Next]_(Eng!vars)
  BY EngineStep
<1> QED
  BY <1>1, <1>2, <1>3, <1>4, PTL DEF Spec, ImplementsEngine, Eng!Spec

-----------------------------------------------------------------------------
(* What is proved of the engine holds among its registry.                  *)

EngP == INSTANCE EngineSolvencyProofs WITH
    Registries <- {Registry},
    AppIds     <- NamedApps,
    Listings   <- [listed : BOOLEAN, scoringType : ScoringTypes,
                   whitelist : SUBSET EOAs],
    listing    <- [r \in {Registry} |-> [a \in NamedApps |-> Shown(a)]]

\* EngP is Eng with its theorems: the same definitions under another name.
LEMMA SameData ==
    /\ EngP!Accounts = Eng!Accounts /\ EngP!Addresses = Eng!Addresses
    /\ EngP!IntentIds = Eng!IntentIds
    /\ EngP!NoIntent = Eng!NoIntent /\ EngP!NoOrder = Eng!NoOrder
    /\ EngP!ScoringTypes = Eng!ScoringTypes
BY DEF EngP!Accounts, Eng!Accounts, EngP!Addresses, Eng!Addresses,
       EngP!IntentIds, Eng!IntentIds, EngP!NoIntent, Eng!NoIntent,
       EngP!NoOrder, Eng!NoOrder,
       EngP!ScoringTypes, Eng!ScoringTypes

LEMMA SameAssumptions ==
    EngP!AddressAssumption /\ EngP!DataAssumption /\ EngP!NumberAssumption
<1>1. EngP!AddressAssumption
  BY EngineAssumption, SameData
     DEF EngineAssumption, Eng!AddressAssumption, EngP!AddressAssumption,
         Eng!IsFiniteSet, EngP!IsFiniteSet
<1>2. EngP!DataAssumption
  BY EngineAssumption, SameData
     DEF EngineAssumption, Eng!DataAssumption, EngP!DataAssumption
<1>3. EngP!NumberAssumption
  BY EngineAssumption
     DEF EngineAssumption, Eng!NumberAssumption, EngP!NumberAssumption
<1> QED
  BY <1>1, <1>2, <1>3

LEMMA SameInit == Eng!Init => EngP!Init
BY SameData DEF Eng!Init, EngP!Init

LEMMA SameBidding == Eng!Bidding => EngP!Bidding
BY SameData
   DEF Eng!Bidding, EngP!Bidding, Eng!SubmitOrder, EngP!SubmitOrder,
       Eng!MaySubmit, EngP!MaySubmit, Eng!HasDeposit, EngP!HasDeposit,
       Eng!Biddable, EngP!Biddable, Eng!AppListed, EngP!AppListed, Eng!Permitted, EngP!Permitted,
       Eng!Metadata, EngP!Metadata, Eng!NewOrder, EngP!NewOrder,
       Eng!Beats, EngP!Beats, Eng!IsFirst, EngP!IsFirst,
       Eng!IsHigher, EngP!IsHigher, Eng!Restarted, EngP!Restarted,
       Eng!admin, EngP!admin, Eng!Callers, EngP!Callers,
       Eng!Scorable, EngP!Scorable, Eng!GetScore, EngP!GetScore,
       Eng!FirstComes, EngP!FirstComes, Eng!HighestWins, EngP!HighestWins,
       Eng!LowestWins, EngP!LowestWins

LEMMA SameVault == Eng!Vault => EngP!Vault
BY SameData
   DEF Eng!Vault, EngP!Vault, Eng!Deposit, EngP!Deposit,
       Eng!Withdraw, EngP!Withdraw, Eng!CoversDeposit, EngP!CoversDeposit,
       Eng!Waited, EngP!Waited, Eng!SendEther, EngP!SendEther,
       Eng!Slash, EngP!Slash, Eng!Overdue, EngP!Overdue,
       Eng!Chargeable, EngP!Chargeable, Eng!Charged, EngP!Charged,
       Eng!ReceiveEther, EngP!ReceiveEther, Eng!Restarted, EngP!Restarted,
       Eng!admin, EngP!admin, Eng!board, EngP!board

LEMMA SameAdministration == Eng!Administration => EngP!Administration
BY SameData
   DEF Eng!Administration, EngP!Administration,
       Eng!SetMarketRegistry, EngP!SetMarketRegistry,
       Eng!SetLauncher, EngP!SetLauncher,
       Eng!TransferOwnership, EngP!TransferOwnership,
       Eng!RenounceOwnership, EngP!RenounceOwnership,
       Eng!board, EngP!board, Eng!books, EngP!books

LEMMA SameIntending == Eng!Intending \/ Eng!Launching
                           => EngP!Intending \/ EngP!Launching
BY SameData
   DEF Eng!Intending, EngP!Intending, Eng!OpenIntent, EngP!OpenIntent,
       Eng!CancelIntent, EngP!CancelIntent, Eng!MayCancel, EngP!MayCancel,
       Eng!Cancelled, EngP!Cancelled,
       Eng!ForceCloseIntent, EngP!ForceCloseIntent,
       Eng!MayForceClose, EngP!MayForceClose,
       Eng!Launching, EngP!Launching, Eng!SetExecuted, EngP!SetExecuted,
       Eng!MaySetExecuted, EngP!MaySetExecuted,
       Eng!admin, EngP!admin, Eng!books, EngP!books

LEMMA SameEnvironment == Eng!Tick \/ Eng!Relisting => EngP!Tick \/ EngP!Relisting
BY SameData
   DEF Eng!Tick, EngP!Tick, Eng!Relisting, EngP!Relisting,
       Eng!Relist, EngP!Relist, Eng!admin, EngP!admin,
       Eng!board, EngP!board, Eng!books, EngP!books

LEMMA SameNext == [Eng!Next]_(Eng!vars) => [EngP!Next]_(EngP!vars)
<1>1. Eng!Next => EngP!Next
  BY SameBidding, SameVault, SameAdministration, SameIntending, SameEnvironment
     DEF Eng!Next, EngP!Next, Eng!NonBidding, EngP!NonBidding
<1>2. UNCHANGED Eng!vars => UNCHANGED EngP!vars
  BY DEF EngP!vars, Eng!vars, EngP!admin, Eng!admin, EngP!board, Eng!board,
         EngP!books, Eng!books
<1> QED
  BY <1>1, <1>2

LEMMA SameSpec == Eng!Spec => EngP!Spec
BY SameInit, SameNext, PTL DEF Eng!Spec, EngP!Spec

\* Among the real registry, too, an order exists only with its intent, no
\* order comes after the close, and the engine can pay every depositor.
THEOREM EngineSoundInMarket ==
    Spec => [](Eng!OrderHasIntent /\ Eng!OrderBeforeClose /\ Eng!Solvent)
<1>1. Spec => EngP!Spec
  BY MarketImplementsEngine, SameSpec, PTL DEF ImplementsEngine
<1>2. EngP!Spec => []EngP!OrderHasIntent
  BY SameAssumptions, EngP!OrdersHaveIntents
<1>3. EngP!Spec => []EngP!OrderBeforeClose
  BY SameAssumptions, EngP!OrdersBeforeClose
<1>4. EngP!Spec => []EngP!Solvent
  BY SameAssumptions, EngP!EngineSolvent
<1>5. EngP!OrderHasIntent => Eng!OrderHasIntent
  BY SameData DEF EngP!OrderHasIntent, Eng!OrderHasIntent, EngP!Opened,
                  Eng!Opened
<1>6. EngP!OrderBeforeClose => Eng!OrderBeforeClose
  BY SameData DEF EngP!OrderBeforeClose, Eng!OrderBeforeClose
<1>7. EngP!Solvent => Eng!Solvent
  BY SameData DEF EngP!Solvent, Eng!Solvent, EngP!Owed, Eng!Owed, EngP!Wei,
                  Eng!Wei, EngP!Cardinality, Eng!Cardinality
<1> QED
  BY <1>1, <1>2, <1>3, <1>4, <1>5, <1>6, <1>7, PTL

LEMMA SameEnding ==
    ASSUME NEW sender, NEW i \in Eng!IntentIds
    PROVE  /\ EngP!CancelIntent(sender, i) => Eng!CancelIntent(sender, i)
           /\ EngP!ForceCloseIntent(sender, i)
                  => Eng!ForceCloseIntent(sender, i)
BY SameData
   DEF Eng!CancelIntent, EngP!CancelIntent, Eng!MayCancel, EngP!MayCancel,
       Eng!Cancelled, EngP!Cancelled,
       Eng!ForceCloseIntent, EngP!ForceCloseIntent,
       Eng!MayForceClose, EngP!MayForceClose,
       Eng!admin, EngP!admin, Eng!books, EngP!books

LEMMA SameWithdraw ==
    ASSUME NEW a, NEW amount
    PROVE  EngP!Withdraw(a, amount) <=> Eng!Withdraw(a, amount)
BY DEF EngP!Withdraw, Eng!Withdraw, EngP!CoversDeposit, Eng!CoversDeposit,
       EngP!Waited, Eng!Waited, EngP!SendEther, Eng!SendEther,
       EngP!admin, Eng!admin, EngP!board, Eng!board

\* Nor does any call, to either contract, change the winner of a closed auction
\* or cost a bidder its deposit or its ether other than by the engine's rules.
THEOREM EngineStepsSoundInMarket ==
    Spec => Eng!ClosedAuctionIsFinal /\ Eng!DepositOnlyLost /\ Eng!PayoutArrives
<1>1. Spec => EngP!Spec
  BY MarketImplementsEngine, SameSpec, PTL DEF ImplementsEngine
<1>2. EngP!Spec => EngP!ClosedAuctionIsFinal
  BY SameAssumptions, EngP!ClosedAuctionsAreFinal
<1>3. EngP!Spec => EngP!DepositOnlyLost
  BY SameAssumptions, EngP!DepositsOnlyLost
<1>4. EngP!Spec => EngP!PayoutArrives
  BY SameAssumptions, EngP!PayoutsArrive
<1>5. UNCHANGED EngP!vars => UNCHANGED Eng!vars
  BY DEF EngP!vars, Eng!vars, EngP!admin, Eng!admin, EngP!board, Eng!board,
         EngP!books, Eng!books
<1>6. ASSUME NEW i \in Eng!IntentIds, EngP!WinnerStands(i)
      PROVE  Eng!WinnerStands(i)
  BY <1>6, SameData, SameEnding
     DEF EngP!WinnerStands, Eng!WinnerStands, EngP!Opened, Eng!Opened
<1>7. [\A i \in EngP!IntentIds : EngP!WinnerStands(i)]_(EngP!vars)
          => [\A i \in Eng!IntentIds : Eng!WinnerStands(i)]_(Eng!vars)
  BY <1>5, <1>6, SameData
<1>8. [\A a \in EngP!Accounts : EngP!LossJustified(a)]_(EngP!vars)
          => [\A a \in Eng!Accounts : Eng!LossJustified(a)]_(Eng!vars)
  BY <1>5, SameData, SameWithdraw
     DEF EngP!LossJustified, Eng!LossJustified, EngP!Overdue, Eng!Overdue
<1>9. [\A a \in EOAs, amount \in 1 .. MaxEther :
          EngP!Withdraw(a, amount) => balance' = balance - amount]_(EngP!vars)
      => [\A a \in EOAs, amount \in 1 .. MaxEther :
             Eng!Withdraw(a, amount) => balance' = balance - amount]_(Eng!vars)
  BY <1>5, SameWithdraw
<1> QED
  BY <1>1, <1>2, <1>3, <1>4, <1>7, <1>8, <1>9, PTL
     DEF EngP!ClosedAuctionIsFinal, Eng!ClosedAuctionIsFinal,
         EngP!DepositOnlyLost, Eng!DepositOnlyLost, EngP!PayoutArrives,
         Eng!PayoutArrives

-----------------------------------------------------------------------------
(* What the calls to the registry leave of a reviewed app.                 *)

\* A registered app keeps what it shows.
Stands(a) == a < appIndex => /\ a < appIndex'
                             /\ appInfo'[a].contents = appInfo[a].contents
                             /\ written'[a] = written[a]

RegStep == /\ now' = now
           /\ ClocksOK' /\ AppsReviewed'
           /\ \A a \in AppIds \ ownerWrote' : a \notin ownerWrote /\ Stands(a)

LEMMA RegTypes ==
    ASSUME AppsOK, ClocksOK
    PROVE  /\ now \in Nat /\ appIndex \in Nat /\ UpdateDelay \in Nat
           /\ appIndex \in AppIds /\ AppIds \subseteq Nat
           /\ appInfo \in [AppIds -> Reg!AppData]
           /\ recentUpdateTime \in [AppIds -> Nat]
           /\ written \in [AppIds -> Nat]
           /\ ownerWrote \subseteq AppIds
BY AppIdsSame, ReviewAssumption DEF AppsOK, ClocksOK

\* An app a call does not touch, but for its clock.
LEMMA Untouched ==
    ASSUME AppsOK, ClocksOK, NEW a \in AppIds, Reviewed(a), now' = now,
           appIndex' \in Nat, appIndex <= appIndex',
           appInfo'[a] = appInfo[a], written'[a] = written[a],
           recentUpdateTime'[a] \in {recentUpdateTime[a], now}
    PROVE  Reviewed(a)' /\ Stands(a)
<1>1. /\ a \in Nat /\ written[a] \in Nat /\ recentUpdateTime[a] \in Nat
      /\ now \in Nat /\ appIndex \in Nat
  BY RegTypes
<1> QED
  BY <1>1 DEF Reviewed, Stands

LEMMA RegisteringStep ==
    ASSUME RegInv, Registering PROVE RegStep
<1> USE DEF RegInv
<1>1. PICK contents \in Contents :
          /\ appInfo' = [appInfo EXCEPT ![appIndex] = Reg!App(contents, 0, 0)]
          /\ recentUpdateTime' = [recentUpdateTime EXCEPT ![appIndex] = now]
          /\ appIndex' = appIndex + 1
          /\ now' = now
          /\ written' = [written EXCEPT ![appIndex] = now]
          /\ ownerWrote' = ownerWrote
  BY DEF Registering, Reg!RegisterAppMetadata, Reg!Restarted
<1>2. ClocksOK'
  BY <1>1, RegTypes DEF ClocksOK
<1>3. ASSUME NEW a \in AppIds \ ownerWrote, a # appIndex
      PROVE  Reviewed(a)' /\ Stands(a)
  <2>1. Reviewed(a) /\ a \in AppIds
    BY DEF AppsReviewed
  <2>2. /\ appInfo'[a] = appInfo[a] /\ written'[a] = written[a]
        /\ recentUpdateTime'[a] = recentUpdateTime[a]
    BY <1>1, <1>3, <2>1, RegTypes
  <2>3. appIndex' \in Nat /\ appIndex <= appIndex'
    BY <1>1, RegTypes
  <2> QED
    BY <1>1, <2>1, <2>2, <2>3, Untouched
<1>4. ASSUME NEW a \in AppIds \ ownerWrote, a = appIndex
      PROVE  Reviewed(a)' /\ Stands(a)
  <2>1. /\ appInfo'[a] = Reg!App(contents, 0, 0) /\ written'[a] = now
        /\ recentUpdateTime'[a] = now /\ a \in Nat /\ now \in Nat
    BY <1>1, <1>4, RegTypes
  <2> QED
    BY <1>1, <1>4, <2>1 DEF Reviewed, Stands, Reg!App
<1> QED
  BY <1>1, <1>2, <1>3, <1>4 DEF RegStep, AppsReviewed

\* Writes to an app that is the owner's, now or before.
LEMMA OwnersAppWritten ==
    ASSUME RegInv, NEW a \in AppIds, a \in ownerWrote', NEW ad,
           NEW clock \in AppIds,
           now' = now, appIndex' = appIndex,
           appInfo' = [appInfo EXCEPT ![a] = ad],
           written' = [written EXCEPT ![a] = now],
           recentUpdateTime' = [recentUpdateTime EXCEPT ![clock] = now],
           ownerWrote' = ownerWrote \cup {a}
    PROVE  RegStep
<1> USE DEF RegInv
<1>1. ClocksOK'
  BY RegTypes DEF ClocksOK
<1>2. ASSUME NEW b \in AppIds \ ownerWrote'
      PROVE  Reviewed(b)' /\ b \notin ownerWrote /\ Stands(b)
  <2>1. Reviewed(b) /\ b \in AppIds /\ b # a /\ b \notin ownerWrote
    BY DEF AppsReviewed
  <2>2. /\ appInfo'[b] = appInfo[b] /\ written'[b] = written[b]
        /\ recentUpdateTime'[b] \in {recentUpdateTime[b], now}
    BY <2>1, RegTypes
  <2>3. appIndex' \in Nat /\ appIndex <= appIndex'
    BY RegTypes
  <2> QED
    BY <2>1, <2>2, <2>3, Untouched
<1> QED
  BY <1>1, <1>2 DEF RegStep, AppsReviewed

\* A developer updates only where a pass is neither 0 nor 1, and only the
\* owner writes such passes.
LEMMA UpdatingStep ==
    ASSUME RegInv, Updating PROVE RegStep
<1> USE DEF RegInv
<1>1. PICK sender \in RegistryCallers, a \in AppIds, contents \in Contents :
          /\ Reg!UpdateAppMetadata(sender, a, contents)
          /\ written' = [written EXCEPT ![a] = now]
          /\ ownerWrote' = ownerWrote
  BY DEF Updating
<1> DEFINE ad == [appInfo[a] EXCEPT !.contents = contents]
<1>2. /\ appInfo' = [appInfo EXCEPT ![a] = ad]
      /\ recentUpdateTime' = [recentUpdateTime EXCEPT ![appIndex] = now]
      /\ now' = now /\ appIndex' = appIndex
  BY <1>1, RegTypes DEF Reg!UpdateAppMetadata, Reg!Restarted
<1>3. a \in ownerWrote
  <2>1. /\ appInfo[a].finalPass \notin {0, 1}
    BY <1>1 DEF Reg!UpdateAppMetadata, Reg!OnlyCreatorBeforePass, Reg!Passed
  <2> QED
    BY <2>1 DEF AppsReviewed, Reviewed
<1>4. ownerWrote' = ownerWrote \cup {a} /\ a \in ownerWrote'
  BY <1>1, <1>3
<1> HIDE DEF ad
<1> QED
  BY <1>1, <1>2, <1>4, RegTypes, OwnersAppWritten

LEMMA SuperUpdatingStep ==
    ASSUME RegInv, SuperUpdating PROVE RegStep
<1>1. PICK sender \in RegistryCallers, a \in AppIds, contents \in Contents,
           councilPass \in Passes, finalPass \in Passes :
          /\ Reg!SuperUpdateOnlyAdmin(sender, a,
                                      Reg!App(contents, councilPass, finalPass))
          /\ written' = [written EXCEPT ![a] = now]
          /\ ownerWrote' = ownerWrote \cup {a}
  BY DEF SuperUpdating
<1>2. /\ appInfo' = [appInfo EXCEPT ![a] =
                        Reg!App(contents, councilPass, finalPass)]
      /\ recentUpdateTime' = [recentUpdateTime EXCEPT ![a] = now]
      /\ now' = now /\ appIndex' = appIndex
  BY <1>1 DEF Reg!SuperUpdateOnlyAdmin, Reg!Restarted
<1> QED
  BY <1>1, <1>2, OwnersAppWritten

\* One pass of one app is given after the delay, or taken away.
LEMMA PassStep ==
    ASSUME RegInv, NEW a \in AppIds, NEW p,
           \/ appInfo' = [appInfo EXCEPT ![a].finalPass = p]
           \/ appInfo' = [appInfo EXCEPT ![a].securityCouncilPass = p],
           p = 0 \/ (p = 1 /\ Reg!DelayPassed(a)),
           \/ recentUpdateTime' = [recentUpdateTime EXCEPT ![a] = now]
           \/ UNCHANGED recentUpdateTime,
           UNCHANGED <<now, appIndex, written, ownerWrote>>
    PROVE  RegStep
<1> USE DEF RegInv
<1>1. ClocksOK'
  BY RegTypes DEF ClocksOK
<1>2. ASSUME NEW b \in AppIds \ ownerWrote, b # a
      PROVE  Reviewed(b)' /\ Stands(b)
  <2>1. Reviewed(b) /\ b \in AppIds
    BY DEF AppsReviewed
  <2>2. /\ appInfo'[b] = appInfo[b] /\ written'[b] = written[b]
        /\ recentUpdateTime'[b] = recentUpdateTime[b]
    BY <1>2, <2>1, RegTypes
  <2>3. appIndex' \in Nat /\ appIndex <= appIndex'
    BY RegTypes
  <2> QED
    BY <2>1, <2>2, <2>3, Untouched
<1>3. ASSUME a \notin ownerWrote
      PROVE  Reviewed(a)' /\ Stands(a)
  <2>1. Reviewed(a)
    BY <1>3 DEF AppsReviewed
  <2>2. /\ appInfo'[a].contents = appInfo[a].contents
        /\ \/ /\ appInfo'[a].finalPass = p
              /\ appInfo'[a].securityCouncilPass = appInfo[a].securityCouncilPass
           \/ /\ appInfo'[a].finalPass = appInfo[a].finalPass
              /\ appInfo'[a].securityCouncilPass = p
    BY RegTypes DEF Reg!AppData
  <2>3. /\ written[a] \in Nat /\ recentUpdateTime[a] \in Nat /\ now \in Nat
        /\ UpdateDelay \in Nat
        /\ recentUpdateTime'[a] \in {recentUpdateTime[a], now}
    BY RegTypes
  <2>4. \/ p = 0
        \/ p = 1 /\ recentUpdateTime[a] + UpdateDelay <= now
    BY DEF Reg!DelayPassed
  <2> QED
    BY <2>1, <2>2, <2>3, <2>4 DEF Reviewed, Stands
<1> QED
  BY <1>1, <1>2, <1>3 DEF RegStep, AppsReviewed

LEMMA RegistryCallStep ==
    ASSUME RegInv, RegistryCall PROVE RegStep /\ UNCHANGED engineVars
<1> SUFFICES RegStep
  BY DEF RegistryCall
<1>1. ASSUME NEW sender \in RegistryCallers, NEW a \in AppIds,
             \/ Reg!ApproveSecurityCouncil(sender, a)
             \/ Reg!RevokeCouncilPass(sender, a)
             \/ Reg!ApproveFinalPass(sender, a)
             \/ Reg!RevokeFinalPass(sender, a),
             UNCHANGED history
      PROVE  RegStep
  <2>1. UNCHANGED <<now, appIndex, written, ownerWrote>>
    BY <1>1 DEF Reg!ApproveSecurityCouncil, Reg!RevokeCouncilPass,
                Reg!ApproveFinalPass, Reg!RevokeFinalPass, history
  <2>2. CASE Reg!ApproveSecurityCouncil(sender, a)
    BY <2>1, <2>2, PassStep DEF Reg!ApproveSecurityCouncil
  <2>3. CASE Reg!RevokeCouncilPass(sender, a)
    BY <2>1, <2>3, PassStep DEF Reg!RevokeCouncilPass, Reg!Restarted
  <2>4. CASE Reg!ApproveFinalPass(sender, a)
    BY <2>1, <2>4, PassStep DEF Reg!ApproveFinalPass
  <2>5. CASE Reg!RevokeFinalPass(sender, a)
    BY <2>1, <2>5, PassStep DEF Reg!RevokeFinalPass
  <2> QED
    BY <1>1, <2>2, <2>3, <2>4, <2>5
<1>2. ASSUME UNCHANGED <<now, appIndex, appInfo, recentUpdateTime, history>>
      PROVE  RegStep
  <2>1. ClocksOK' /\ AppsReviewed'
    BY <1>2 DEF RegInv, ClocksOK, AppsReviewed, Reviewed, history
  <2> QED
    BY <1>2, <2>1 DEF RegStep, Stands, history
<1>3. CASE Reg!Reviewing /\ UNCHANGED history
  <2>1. PICK sender \in RegistryCallers, a \in Reg!AppIds :
            \/ Reg!ApproveSecurityCouncil(sender, a)
            \/ Reg!RevokeCouncilPass(sender, a)
    BY <1>3 DEF Reg!Reviewing
  <2>2. a \in AppIds
    BY AppIdsSame
  <2> QED
    BY <1>1, <1>3, <2>1, <2>2
<1>4. CASE Reg!Owning /\ UNCHANGED history
  <2>1. \/ \E sender \in RegistryCallers, a \in Reg!AppIds :
                Reg!ApproveFinalPass(sender, a) \/ Reg!RevokeFinalPass(sender, a)
        \/ UNCHANGED <<now, appIndex, appInfo, recentUpdateTime, history>>
    BY <1>4 DEF Reg!Owning, Reg!RegisterSecurityCouncil,
                Reg!RevokeCouncilMember, Reg!TransferOwnership,
                Reg!RenounceOwnership
  <2>2. CASE UNCHANGED <<now, appIndex, appInfo, recentUpdateTime, history>>
    BY <1>2, <2>2
  <2>3. ASSUME NEW sender \in RegistryCallers, NEW a \in Reg!AppIds,
               Reg!ApproveFinalPass(sender, a) \/ Reg!RevokeFinalPass(sender, a)
        PROVE  RegStep
    <3>1. a \in AppIds
      BY AppIdsSame
    <3> QED
      BY <1>1, <1>4, <2>3, <3>1
  <2> QED
    BY <2>1, <2>2, <2>3
<1> QED
  BY <1>3, <1>4, RegisteringStep, UpdatingStep, SuperUpdatingStep
     DEF RegistryCall

-----------------------------------------------------------------------------
(* What the calls to the engine leave of the orders.                       *)

LEMMA BoardTypes ==
    ASSUME BoardOK
    PROVE  /\ MaxIntents \in Nat /\ Ids = 0 .. MaxIntents
           /\ \A i \in Ids : /\ intentList[i] \in Eng!Intents
                            /\ intentList[i].appID \in AppIds
                            /\ intentList[i].closeTime \in Nat
           /\ Eng!NoIntent \in Eng!Intents
BY ReviewAssumption, MarketAssumption
   DEF BoardOK, Ids, Eng!IntentIds, Eng!Intents, Eng!NoIntent, Eng!Addresses

\* A slot whose intent may be bid on, marked or closed again was opened.
LEMMA Used ==
    ASSUME BoardOK, now \in Nat, NEW i \in Ids,
           \/ intentList[i].closeTime > now
           \/ intentList[i].creator \in EOAs \cup Contracts
    PROVE  i < intentCount
<1>1. i \in Nat /\ intentCount \in Nat
  BY BoardTypes DEF BoardOK
<1>2. Eng!NoIntent.closeTime = 0 /\ Eng!NoIntent.creator = NoAddr
  BY DEF Eng!NoIntent
<1>3. intentList[i] # Eng!NoIntent
  BY <1>2, MarketAssumption
<1> QED
  BY <1>1, <1>3 DEF BoardOK

\* A slot that keeps its app and its order, and one without an order.
LEMMA KeptOn ==
    ASSUME NEW i \in Ids, Kept(i), UNCHANGED <<registryVars, history>>,
           intentList'[i].appID = intentList[i].appID,
           orderInfo'[i] = orderInfo[i]
    PROVE  Kept(i)'
BY DEF Kept, Led, Whitelist, registryVars, history

LEMMA KeptEmpty ==
    ASSUME NEW i \in Ids, orderInfo'[i] = Eng!NoOrder PROVE Kept(i)'
BY DEF Kept, Led, Eng!NoOrder

EngStep == BoardOK' /\ \A i \in Ids : Kept(i)'

\* The new order comes from a bidder the app admits at that moment, after the
\* passes that stand for the delay.
LEMMA SubmitStep ==
    ASSUME CInv, UNCHANGED <<registryVars, history>>,
           NEW origin \in EOAs, NEW sender, NEW i \in Ids, NEW orderIntent,
           Eng!SubmitOrder(origin, sender, i, orderIntent)
    PROVE  EngStep
<1>1. /\ BoardOK /\ now \in Nat /\ \A j \in Ids : Kept(j)
      /\ UNCHANGED <<intentCount, intentList>>
      /\ Eng!MaySubmit(origin, sender, i, orderIntent)
  BY DEF CInv, RegInv, AppsOK, Eng!SubmitOrder
<1> DEFINE a     == intentList[i].appID
           new   == Eng!NewOrder(i, origin, Eng!Metadata(a).scoringType,
                                 orderIntent)
<1>2. UNCHANGED orderInfo \/ orderInfo' = [orderInfo EXCEPT ![i] = new]
  BY DEF Eng!SubmitOrder
<1>3. CASE UNCHANGED orderInfo
  <2>1. BoardOK'
    BY <1>1, <1>3 DEF BoardOK
  <2> QED
    BY <1>1, <1>3, <2>1, KeptOn DEF EngStep
<1>4. CASE orderInfo' = [orderInfo EXCEPT ![i] = new]
  <2>1. i < intentCount
    BY <1>1, Used DEF Eng!MaySubmit, Eng!Biddable
  <2>2. BoardOK'
    <3>1. i \in Nat /\ intentCount \in Nat
      BY <1>1, BoardTypes DEF BoardOK
    <3> HIDE DEF new
    <3>2. orderInfo' = [j \in Ids |-> orderInfo'[j]]
      BY <1>1, <1>4 DEF BoardOK
    <3>3. \A j \in Ids : j >= intentCount => orderInfo'[j] = orderInfo[j]
      BY <1>1, <1>4, <2>1, <3>1 DEF BoardOK
    <3> QED
      BY <1>1, <3>2, <3>3 DEF BoardOK
  <2>3. \A j \in Ids : j # i => Kept(j)'
    <3> HIDE DEF new
    <3>1. \A j \in Ids : j # i => orderInfo'[j] = orderInfo[j]
      BY <1>1, <1>4 DEF BoardOK
    <3> QED
      BY <1>1, <3>1, KeptOn
  <2>4. Kept(i)'
    <3>1. orderInfo'[i].sender = origin /\ orderInfo'[i].submitTime = now
      <4>1. new.sender = origin /\ new.submitTime = now
        BY DEF Eng!NewOrder
      <4> HIDE DEF new
      <4> QED
        BY <1>1, <1>4, <4>1 DEF BoardOK
    <3>2. /\ a \in NamedApps /\ a \in AppIds
          /\ Shown(a).listed
          /\ Shown(a).whitelist = {} \/ origin \in Shown(a).whitelist
      <4>1. a \in NamedApps /\ a \in AppIds
        BY <1>1, BoardTypes, MarketAssumption DEF BoardOK, Eng!Intents
      <4>2. registry = Registry
        BY <1>1 DEF Eng!MaySubmit, Eng!AppListed
      <4> QED
        BY <1>1, <4>1, <4>2
           DEF Eng!MaySubmit, Eng!AppListed, Eng!Permitted, Eng!Metadata
    <3>3. /\ appInfo[a].contents # NoContents
          /\ appInfo[a].finalPass # 0
          /\ \/ appInfo[a].contents.whitelist = {}
             \/ origin \in appInfo[a].contents.whitelist
      BY <3>2 DEF Shown, HasConstraints, Reg!Passed
    <3>4. a \notin ownerWrote =>
              a < appIndex /\ written[a] + UpdateDelay <= now
      <4>1. a \in Nat /\ appIndex \in Nat
        BY <3>2, RegTypes DEF CInv, RegInv
      <4> QED
        BY <3>2, <3>3, <4>1 DEF CInv, RegInv, AppsReviewed, Reviewed
    <3> QED
      BY <1>1, <3>1, <3>3, <3>4
         DEF Kept, Led, Whitelist, registryVars, history
  <2> QED
    BY <2>2, <2>3, <2>4 DEF EngStep
<1> QED
  BY <1>2, <1>3, <1>4

LEMMA OpenStep ==
    ASSUME CInv, UNCHANGED <<registryVars, history>>,
           NEW sender \in Eng!Accounts, NEW appID \in NamedApps,
           NEW conditions \in Conditions, NEW duration \in Durations,
           NEW op \in UserOps,
           Eng!OpenIntent(sender, appID, conditions, duration, op)
    PROVE  EngStep
<1> DEFINE new == [appID |-> appID, conditions |-> conditions,
                   closeTime |-> now + duration, creator |-> sender,
                   executed |-> FALSE, op |-> op]
<1>1. /\ BoardOK /\ now \in Nat /\ \A j \in Ids : Kept(j)
      /\ intentList' = [intentList EXCEPT ![intentCount] = new]
      /\ intentCount' = intentCount + 1 /\ intentCount \in Nat
      /\ UNCHANGED orderInfo
  BY DEF CInv, RegInv, AppsOK, BoardOK, Eng!OpenIntent
<1>2. new \in Eng!Intents
  BY <1>1, ReviewAssumption DEF Eng!Intents, Eng!Addresses
<1> HIDE DEF new
<1>3. BoardOK'
  <2>1. intentList' \in [Ids -> Eng!Intents]
    BY <1>1, <1>2 DEF BoardOK
  <2>2. \A j \in Ids : j >= intentCount' =>
            j >= intentCount /\ intentList'[j] = intentList[j]
    BY <1>1, BoardTypes DEF BoardOK
  <2> QED
    BY <1>1, <2>1, <2>2 DEF BoardOK
<1>4. ASSUME NEW j \in Ids PROVE Kept(j)'
  <2>1. CASE j = intentCount
    <3>1. orderInfo'[j] = Eng!NoOrder
      BY <1>1, <2>1 DEF BoardOK
    <3> QED
      BY <3>1, KeptEmpty
  <2>2. CASE j # intentCount
    BY <1>1, <2>2, KeptOn DEF BoardOK
  <2> QED
    BY <2>1, <2>2
<1> QED
  BY <1>3, <1>4 DEF EngStep

LEMMA CancelStep ==
    ASSUME CInv, UNCHANGED <<registryVars, history>>,
           NEW sender, NEW i \in Ids, Eng!CancelIntent(sender, i)
    PROVE  EngStep
<1>1. /\ BoardOK /\ \A j \in Ids : Kept(j)
      /\ intentList' = [intentList EXCEPT ![i] = Eng!NoIntent]
      /\ orderInfo' = [orderInfo EXCEPT ![i] = Eng!NoOrder]
      /\ UNCHANGED intentCount
  BY DEF CInv, Eng!CancelIntent, Eng!Cancelled
<1>2. BoardOK'
  BY <1>1, BoardTypes DEF BoardOK
<1>3. ASSUME NEW j \in Ids PROVE Kept(j)'
  <2>1. CASE j = i
    <3>1. orderInfo'[j] = Eng!NoOrder
      BY <1>1, <2>1 DEF BoardOK
    <3> QED
      BY <3>1, KeptEmpty
  <2>2. CASE j # i
    BY <1>1, <2>2, KeptOn DEF BoardOK
  <2> QED
    BY <2>1, <2>2
<1> QED
  BY <1>2, <1>3 DEF EngStep

\* One opened slot is rewritten but for its app; its order stays.
LEMMA AmendStep ==
    ASSUME CInv, UNCHANGED <<registryVars, history, intentCount, orderInfo>>,
           NEW i \in Ids, i < intentCount, NEW new \in Eng!Intents,
           new.appID = intentList[i].appID,
           intentList' = [intentList EXCEPT ![i] = new]
    PROVE  EngStep
<1>1. BoardOK /\ \A j \in Ids : Kept(j)
  BY DEF CInv
<1>2. BoardOK'
  BY <1>1, BoardTypes DEF BoardOK
<1>3. \A j \in Ids : intentList'[j].appID = intentList[j].appID
  BY <1>1 DEF BoardOK
<1> QED
  BY <1>1, <1>2, <1>3, KeptOn DEF EngStep

LEMMA ForceCloseStep ==
    ASSUME CInv, UNCHANGED <<registryVars, history>>,
           NEW sender \in Eng!Accounts, NEW i \in Ids,
           Eng!ForceCloseIntent(sender, i)
    PROVE  EngStep
<1> DEFINE new == [intentList[i] EXCEPT !.closeTime = now]
<1>1. /\ BoardOK /\ now \in Nat
      /\ intentList' = [intentList EXCEPT ![i] = new]
      /\ intentList[i].creator = sender
      /\ UNCHANGED <<intentCount, orderInfo>>
  BY DEF CInv, RegInv, AppsOK, BoardOK, Eng!ForceCloseIntent,
         Eng!MayForceClose
<1>2. new \in Eng!Intents /\ new.appID = intentList[i].appID
  BY <1>1, BoardTypes DEF Eng!Intents
<1>3. i < intentCount
  BY <1>1, Used DEF Eng!Accounts
<1> HIDE DEF new
<1> QED
  BY <1>1, <1>2, <1>3, AmendStep

LEMMA ExecutedStep ==
    ASSUME CInv, UNCHANGED <<registryVars, history>>,
           NEW sender, NEW i \in Ids, Eng!SetExecuted(sender, i)
    PROVE  EngStep
<1> DEFINE new == [intentList[i] EXCEPT !.executed = TRUE]
<1>1. /\ BoardOK /\ now \in Nat
      /\ intentList' = [intentList EXCEPT ![i] = new]
      /\ intentList[i].closeTime > now
      /\ UNCHANGED <<intentCount, orderInfo>>
  BY DEF CInv, RegInv, AppsOK, BoardOK, Eng!SetExecuted, Eng!MaySetExecuted
<1>2. new \in Eng!Intents /\ new.appID = intentList[i].appID
  BY <1>1, BoardTypes DEF Eng!Intents
<1>3. i < intentCount
  BY <1>1, Used
<1> HIDE DEF new
<1> QED
  BY <1>1, <1>2, <1>3, AmendStep

LEMMA EngineCallStep ==
    ASSUME CInv, EngineCall
    PROVE  EngStep /\ UNCHANGED <<now, registryVars, history>>
<1>1. UNCHANGED <<now, registryVars, history>>
  BY EngineCallQuiet
<1> SUFFICES EngStep
  BY <1>1
<1>2. CASE Eng!Bidding
  BY <1>1, <1>2, SubmitStep DEF Eng!Bidding, Ids
<1>3. CASE Eng!Intending
  BY <1>1, <1>3, OpenStep, CancelStep, ForceCloseStep DEF Eng!Intending, Ids
<1>4. CASE Eng!Launching
  BY <1>1, <1>4, ExecutedStep DEF Eng!Launching, Ids
<1>5. CASE Eng!Vault \/ Eng!Administration
  <2>1. UNCHANGED <<intentCount, intentList, orderInfo>>
    BY <1>5 DEF Eng!Vault, Eng!Deposit, Eng!Withdraw, Eng!Slash,
                Eng!ReceiveEther, Eng!Administration, Eng!SetMarketRegistry,
                Eng!SetLauncher, Eng!TransferOwnership, Eng!RenounceOwnership,
                Eng!board
  <2>2. BoardOK'
    BY <2>1 DEF CInv, BoardOK
  <2> QED
    BY <1>1, <2>1, <2>2, KeptOn DEF CInv, EngStep
<1> QED
  BY <1>2, <1>3, <1>4, <1>5 DEF EngineCall

-----------------------------------------------------------------------------
(* The invariant and the theorems.                                         *)

LEMMA InitCInv == Init => CInv
<1> SUFFICES ASSUME Init PROVE CInv
  OBVIOUS
<1>1. AppsOK
  BY AppsOKInit
<1>2. /\ now = StartTime /\ appIndex = 0
      /\ appInfo = [a \in AppIds |-> Reg!NoApp]
      /\ recentUpdateTime = [a \in AppIds |-> 0]
      /\ written = [a \in AppIds |-> 0] /\ ownerWrote = {}
  BY AppIdsSame DEF Init, Reg!Init
<1>3. ClocksOK
  BY <1>2 DEF ClocksOK
<1>4. AppsReviewed
  BY <1>2, ReviewAssumption DEF AppsReviewed, Reviewed, Reg!NoApp, Reg!App
<1>5. /\ intentCount = 0
      /\ intentList = [i \in Ids |-> Eng!NoIntent]
      /\ orderInfo = [i \in Ids |-> Eng!NoOrder]
  BY DEF Init, Eng!Init, Ids
<1>6. Eng!NoIntent \in Eng!Intents
  BY MarketAssumption DEF Eng!NoIntent, Eng!Intents, Eng!Addresses
<1>7. BoardOK
  BY <1>5, <1>6 DEF BoardOK
<1>8. \A i \in Ids : Kept(i)
  BY <1>5 DEF Kept, Led
<1> QED
  BY <1>1, <1>3, <1>4, <1>7, <1>8 DEF CInv, RegInv

LEMMA NextCInv == CInv /\ [Next]_vars => CInv'
<1> SUFFICES ASSUME CInv, [Next]_vars PROVE CInv'
  OBVIOUS
<1>1. AppsOK'
  BY AppsOKStep DEF CInv, RegInv
<1>2. CASE EngineCall
  <2>1. EngStep /\ UNCHANGED <<now, registryVars, history>>
    BY <1>2, EngineCallStep
  <2>2. ClocksOK' /\ AppsReviewed'
    BY <2>1 DEF CInv, RegInv, ClocksOK, AppsReviewed, Reviewed, registryVars,
                history
  <2> QED
    BY <1>1, <2>1, <2>2 DEF CInv, RegInv, EngStep
<1>3. CASE RegistryCall
  <2>1. RegStep /\ UNCHANGED engineVars
    BY <1>3, RegistryCallStep DEF CInv
  <2>2. UNCHANGED <<intentCount, intentList, orderInfo>>
    BY <2>1 DEF engineVars
  <2>3. BoardOK'
    BY <2>2 DEF CInv, BoardOK
  <2>4. ASSUME NEW i \in Ids PROVE Kept(i)'
    <3>1. Kept(i) /\ intentList[i].appID \in AppIds
      BY BoardTypes DEF CInv
    <3> QED
      BY <2>1, <2>2, <3>1 DEF Kept, Led, Whitelist, RegStep, Stands
  <2> QED
    BY <1>1, <2>1, <2>3, <2>4 DEF CInv, RegInv, RegStep
<1>4. CASE Tick
  <2>1. /\ now' = now + 1
        /\ UNCHANGED <<intentCount, intentList, orderInfo, registryVars, history>>
    BY <1>4 DEF Tick, engineVars
  <2>2. ClocksOK'
    BY <2>1 DEF CInv, RegInv, ClocksOK, registryVars, history
  <2>3. ASSUME NEW a \in AppIds \ ownerWrote PROVE Reviewed(a)'
    <3>1. Reviewed(a) /\ written[a] \in Nat /\ now \in Nat /\ UpdateDelay \in Nat
      BY RegTypes DEF CInv, RegInv, AppsReviewed
    <3> QED
      BY <2>1, <3>1 DEF Reviewed, registryVars, history
  <2>4. AppsReviewed'
    BY <2>1, <2>3 DEF AppsReviewed, history
  <2>5. BoardOK' /\ \A i \in Ids : Kept(i)'
    BY <2>1, KeptOn DEF CInv, BoardOK
  <2> QED
    BY <1>1, <2>2, <2>4, <2>5 DEF CInv, RegInv
<1>5. CASE UNCHANGED vars
  BY <1>1, <1>5
     DEF vars, engineVars, registryVars, history, CInv, RegInv, ClocksOK,
         AppsReviewed, Reviewed, BoardOK, Kept, Led, Whitelist
<1> QED
  BY <1>2, <1>3, <1>4, <1>5 DEF Next

THEOREM MarketInvariant == Spec => []CInv
<1>1. Init => CInv
  BY InitCInv
<1>2. CInv /\ [Next]_vars => CInv'
  BY NextCInv
<1> QED
  BY <1>1, <1>2, PTL DEF Spec

\* Whatever is registered, updated, approved and revoked after a bid, the leader
\* of an auction is admitted by the app as the registry has it, but for apps
\* the owner wrote by itself.
THEOREM WinnersAdmitted == Spec => []WinnerAdmitted
<1>1. CInv => WinnerAdmitted
  BY DEF CInv, Kept, WinnerAdmitted, Ids
<1> QED
  BY <1>1, MarketInvariant, PTL

\* No auction is led by a bid on contents that had stood for less than the
\* review delay.
THEOREM BidsAfterReview == Spec => []BidAfterReview
<1>1. CInv => BidAfterReview
  BY DEF CInv, Kept, BidAfterReview, Ids
<1> QED
  BY <1>1, MarketInvariant, PTL

-----------------------------------------------------------------------------
(* The registry next to the engine.                                        *)

LEMMA RegistryStep == ASSUME [Next]_vars PROVE [Reg!Next]_(Reg!vars)
<1>1. CASE EngineCall
  BY <1>1, EngineCallQuiet DEF registryVars, Reg!vars, Reg!registryVars
<1>2. CASE RegistryCall
  <2>1. CASE Registering
    BY <2>1 DEF Registering, Reg!Next, Reg!Developing
  <2>2. CASE Updating
    BY <2>2, AppIdsSame DEF Updating, Reg!Next, Reg!Developing
  <2>3. CASE SuperUpdating
    BY <2>3, AppIdsSame DEF SuperUpdating, Reg!Next, Reg!SuperUpdating
  <2> QED
    BY <1>2, <2>1, <2>2, <2>3 DEF RegistryCall, Reg!Next
<1>3. CASE Tick
  BY <1>3 DEF Tick, registryVars, Reg!Next, Reg!Tick, Reg!registryVars
<1>4. CASE UNCHANGED vars
  BY <1>4 DEF vars, registryVars, Reg!vars, Reg!registryVars
<1> QED
  BY <1>1, <1>2, <1>3, <1>4 DEF Next

\* The engine, which only asks it, leaves the registry to behave as
\* MarketRegistry says.
THEOREM MarketImplementsRegistry == Spec => Reg!Spec
<1>1. Init => Reg!Init
  BY DEF Init
<1> QED
  BY <1>1, RegistryStep, PTL DEF Spec, Reg!Spec
=============================================================================
