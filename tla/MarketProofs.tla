---------------------------- MODULE MarketProofs ----------------------------
(***************************************************************************)
(* Proofs about Market on top of its registry, for all subscribers, terms, *)
(* tokens and lengths of use.                                              *)
(*                                                                         *)
(* The inductive invariant MInv says of every slot of subscriptionData     *)
(* where its end comes from: the terms agreed on, and the payments made    *)
(* for it.                                                                 *)
(***************************************************************************)
EXTENDS Market, TLAPS

\* The end of a subscription is the one its terms gave it.
EndAgreed ==
    \A a \in AppIds, u \in Subscribers :
        LET s == subscriptionData[a][u] IN
        \/ s.endTime = 0
        \/ agreed[a][u].payFlag = 0 /\ s.endTime = Never
        \/ /\ agreed[a][u].payFlag # 0
           /\ s.startTime <= now
           /\ s.endTime = s.startTime + agreed[a][u].usePeriod

\* Nobody's end lies behind what it paid for, but for lax currencies.
EndPaid ==
    \A a \in AppIds, u \in Subscribers :
        LET s == subscriptionData[a][u] IN
        \/ s.startTime = 0
        \/ s.endTime <= paidUntil[a][u]
        \/ s.paymentCurrency \in LaxCurrencies

MInv == MarketTypeOK /\ EndAgreed /\ EndPaid

-----------------------------------------------------------------------------

LEMMA Types ==
    ASSUME TypeOK
    PROVE  /\ now \in Nat /\ MaxApps \in Nat
           /\ appIndex \in AppIds
           /\ recentUpdateTime \in [AppIds -> 0 .. now]
           /\ appInfo \in [AppIds -> AppData]
           /\ {0, 1} \subseteq Passes
BY RegistryNumberAssumption DEF TypeOK, AppIds

LEMMA Terms ==
    /\ \A c \in Contents \cup {NoContents} :
           c.payFlag \in {0, 1} /\ c.usePeriod \in Nat
    /\ Never \in Nat
BY MarketAssumption

LEMMA NoAppType == NoApp \in AppData /\ StartTime \in Nat
BY RegistryNumberAssumption DEF NoApp, App, AppData

\* One app is written, or none, and one clock is restarted, or none.
LEMMA WriteTypes ==
    ASSUME TypeOK, NEW a \in AppIds, NEW ad \in AppData, NEW b \in AppIds,
           appInfo' = [appInfo EXCEPT ![a] = ad],
           \/ recentUpdateTime' = [recentUpdateTime EXCEPT ![b] = now]
           \/ UNCHANGED recentUpdateTime,
           appIndex' \in 0 .. MaxApps,
           UNCHANGED <<now, registryOwner, securityCouncil>>
    PROVE  TypeOK'
<1>1. now \in 0 .. now
  BY Types
<1> QED
  BY <1>1 DEF TypeOK

LEMMA PassTypes ==
    ASSUME TypeOK, NEW a \in AppIds, NEW p \in Passes, NEW b \in AppIds,
           \/ appInfo' = [appInfo EXCEPT ![a].finalPass = p]
           \/ appInfo' = [appInfo EXCEPT ![a].securityCouncilPass = p],
           \/ recentUpdateTime' = [recentUpdateTime EXCEPT ![b] = now]
           \/ UNCHANGED recentUpdateTime,
           UNCHANGED <<now, registryOwner, appIndex, securityCouncil>>
    PROVE  TypeOK'
<1>1. /\ [appInfo[a] EXCEPT !.finalPass = p] \in AppData
      /\ [appInfo[a] EXCEPT !.securityCouncilPass = p] \in AppData
  BY Types DEF AppData
<1>2. \/ appInfo' = [appInfo EXCEPT ![a] =
                        [appInfo[a] EXCEPT !.finalPass = p]]
      \/ appInfo' = [appInfo EXCEPT ![a] =
                        [appInfo[a] EXCEPT !.securityCouncilPass = p]]
  BY Types
<1>3. appIndex' \in 0 .. MaxApps
  BY DEF TypeOK
<1> QED
  BY <1>1, <1>2, <1>3, WriteTypes

LEMMA DevelopingTypes == ASSUME TypeOK, Developing PROVE TypeOK'
<1>1. ASSUME NEW sender \in Accounts, NEW contents \in Contents,
             RegisterAppMetadata(sender, contents)
      PROVE  TypeOK'
  <2>1. App(contents, 0, 0) \in AppData /\ appIndex \in AppIds
    BY Types DEF App, AppData
  <2>2. appIndex' \in 0 .. MaxApps
    BY <1>1, RegistryNumberAssumption DEF RegisterAppMetadata, TypeOK
  <2> QED
    BY <1>1, <2>1, <2>2, WriteTypes DEF RegisterAppMetadata, Restarted
<1>2. ASSUME NEW sender \in Accounts, NEW contents \in Contents,
             NEW appId \in AppIds, UpdateAppMetadata(sender, appId, contents)
      PROVE  TypeOK'
  <2>1. /\ appInfo' = [appInfo EXCEPT ![appId] =
                          [appInfo[appId] EXCEPT !.contents = contents]]
        /\ [appInfo[appId] EXCEPT !.contents = contents] \in AppData
        /\ appIndex \in AppIds
    BY <1>2, Types DEF UpdateAppMetadata, AppData
  <2>2. appIndex' \in 0 .. MaxApps
    BY <1>2 DEF UpdateAppMetadata, TypeOK
  <2> QED
    BY <1>2, <2>1, <2>2, WriteTypes DEF UpdateAppMetadata, Restarted
<1> QED
  BY <1>1, <1>2 DEF Developing

LEMMA ReviewingTypes == ASSUME TypeOK, Reviewing PROVE TypeOK'
<1>1. ASSUME NEW sender \in Accounts, NEW appId \in AppIds,
             \/ ApproveSecurityCouncil(sender, appId)
             \/ RevokeCouncilPass(sender, appId)
      PROVE  TypeOK'
  BY <1>1, PassTypes, Types
     DEF ApproveSecurityCouncil, RevokeCouncilPass, Restarted
<1> QED
  BY <1>1 DEF Reviewing

LEMMA SuperUpdatingTypes == ASSUME TypeOK, SuperUpdating PROVE TypeOK'
<1>1. PICK sender \in Accounts, appId \in AppIds, contents \in Contents,
           councilPass \in Passes, finalPass \in Passes :
          SuperUpdateOnlyAdmin(sender, appId,
                               App(contents, councilPass, finalPass))
  BY DEF SuperUpdating
<1>2. App(contents, councilPass, finalPass) \in AppData
  BY DEF App, AppData
<1>3. appIndex' \in 0 .. MaxApps
  BY <1>1 DEF SuperUpdateOnlyAdmin, TypeOK
<1> QED
  BY <1>1, <1>2, <1>3, WriteTypes DEF SuperUpdateOnlyAdmin, Restarted

LEMMA OwningTypes == ASSUME TypeOK, Owning PROVE TypeOK'
<1>1. ASSUME NEW sender \in Accounts, NEW appId \in AppIds,
             \/ ApproveFinalPass(sender, appId)
             \/ RevokeFinalPass(sender, appId)
      PROVE  TypeOK'
  BY <1>1, PassTypes, Types DEF ApproveFinalPass, RevokeFinalPass
<1>2. ASSUME NEW sender \in Accounts, NEW candidate \in Accounts,
             \/ RegisterSecurityCouncil(sender, candidate)
             \/ RevokeCouncilMember(sender, candidate)
      PROVE  TypeOK'
  BY <1>2 DEF RegisterSecurityCouncil, RevokeCouncilMember, TypeOK
<1>3. ASSUME NEW sender \in Accounts,
             \/ \E newOwner \in Addresses : TransferOwnership(sender, newOwner)
             \/ RenounceOwnership(sender)
      PROVE  TypeOK'
  BY <1>3 DEF TransferOwnership, RenounceOwnership, TypeOK, Addresses
<1> QED
  BY <1>1, <1>2, <1>3 DEF Owning

LEMMA RegistryTypes ==
    ASSUME TypeOK, [Next]_vars PROVE TypeOK' /\ now <= now'
<1>1. CASE Tick
  <2>1. now' = now + 1 /\ UNCHANGED registryVars /\ now \in Nat
    BY <1>1, Types DEF Tick
  <2>2. recentUpdateTime' \in [AppIds -> 0 .. now']
    BY <2>1, Types DEF registryVars
  <2> QED
    BY <2>1, <2>2, RegistryNumberAssumption DEF TypeOK, registryVars
<1>2. CASE UNCHANGED vars
  BY <1>2, Types DEF TypeOK, vars, registryVars
<1>3. Developing \/ Reviewing \/ SuperUpdating \/ Owning => UNCHANGED now
  BY DEF Developing, RegisterAppMetadata, UpdateAppMetadata, Reviewing,
         ApproveSecurityCouncil, RevokeCouncilPass, SuperUpdating,
         SuperUpdateOnlyAdmin, Owning, ApproveFinalPass, RevokeFinalPass,
         RegisterSecurityCouncil, RevokeCouncilMember, TransferOwnership,
         RenounceOwnership
<1> QED
  BY <1>1, <1>2, <1>3, Types, DevelopingTypes, ReviewingTypes,
     SuperUpdatingTypes, OwningTypes DEF Next

-----------------------------------------------------------------------------

LEMMA InitMInv == MarketInit => MInv
<1> SUFFICES ASSUME MarketInit PROVE MInv
  OBVIOUS
<1>1. TypeOK
  BY NoAppType, RegistryAddressAssumption, RegistryNumberAssumption
     DEF MarketInit, Init, TypeOK, AppIds, Addresses
<1>2. NoSubscription \in Subscription
  BY DEF NoSubscription, Subscription
<1>3. MarketTypeOK
  BY <1>1, <1>2 DEF MarketInit, MarketTypeOK, EachSubscriber
<1>4. EndAgreed /\ EndPaid
  BY DEF MarketInit, EndAgreed, EndPaid, EachSubscriber, NoSubscription
<1> QED
  BY <1>3, <1>4 DEF MInv

\* What one call of subscribe writes into the caller's slot.
LEMMA RecordStep ==
    ASSUME MInv, NEW u \in Subscribers, NEW a \in AppIds,
           NEW s \in Subscription, NEW until \in Nat,
           Record(u, a, s, until),
           s.startTime = now,
           \/ TermsOf(a).payFlag = 0 /\ s.endTime = Never
           \/ /\ TermsOf(a).payFlag # 0
              /\ s.endTime = now + TermsOf(a).usePeriod,
           s.endTime <= until \/ s.paymentCurrency \in LaxCurrencies
    PROVE  MInv'
<1>1. /\ now \in Nat /\ until \in Nat
      /\ subscriptionData \in [AppIds -> [Subscribers -> Subscription]]
      /\ paidUntil \in [AppIds -> [Subscribers -> Nat]]
      /\ agreed \in [AppIds -> [Subscribers -> Contents \cup {NoContents}]]
      /\ TermsOf(a) \in Contents \cup {NoContents}
  BY Types DEF MInv, MarketTypeOK, TermsOf, AppData
<1> DEFINE paid == Later(paidUntil[a][u], until)
<1>2. /\ UNCHANGED vars
      /\ subscriptionData' = [subscriptionData EXCEPT ![a] =
                                [subscriptionData[a] EXCEPT ![u] = s]]
      /\ paidUntil' = [paidUntil EXCEPT ![a] =
                         [paidUntil[a] EXCEPT ![u] = paid]]
      /\ agreed' = [agreed EXCEPT ![a] = [agreed[a] EXCEPT ![u] = TermsOf(a)]]
  BY <1>1 DEF Record, TermsOf
<1>3. paid \in Nat /\ paid >= until
  BY <1>1 DEF Later
<1> HIDE DEF paid
<1>4. ASSUME NEW b \in AppIds, NEW v \in Subscribers
      PROVE  \/ /\ b = a /\ v = u
                /\ subscriptionData'[b][v] = s
                /\ paidUntil'[b][v] = paid
                /\ agreed'[b][v] = TermsOf(a)
             \/ /\ subscriptionData'[b][v] = subscriptionData[b][v]
                /\ paidUntil'[b][v] = paidUntil[b][v]
                /\ agreed'[b][v] = agreed[b][v]
  BY <1>1, <1>2
<1>5. MarketTypeOK'
  <2>1. TypeOK'
    BY <1>2, RegistryTypes DEF MInv, MarketTypeOK
  <2>2. subscriptionData' \in [AppIds -> [Subscribers -> Subscription]]
    BY <1>1, <1>2
  <2>3. paidUntil' \in [AppIds -> [Subscribers -> Nat]]
    BY <1>1, <1>2, <1>3
  <2>4. agreed' \in [AppIds -> [Subscribers -> Contents \cup {NoContents}]]
    BY <1>1, <1>2
  <2> QED
    BY <2>1, <2>2, <2>3, <2>4 DEF MarketTypeOK
<1>6. now' = now
  BY <1>2 DEF vars
<1>7. EndAgreed'
  BY <1>1, <1>4, <1>6 DEF MInv, EndAgreed
<1>8. EndPaid'
  <2>1. s.endTime \in Nat
    BY DEF Subscription
  <2> QED
    BY <1>3, <1>4, <2>1 DEF MInv, EndPaid
<1> QED
  BY <1>5, <1>7, <1>8 DEF MInv

\* The slot subscribe writes, and the payment that goes with it.
FreeSlot == [payFlag |-> FALSE, startTime |-> now, endTime |-> Never,
             paymentCurrency |-> NoAddr]

PaidSlot(a) == [payFlag |-> TRUE, startTime |-> now,
                endTime |-> now + TermsOf(a).usePeriod,
                paymentCurrency |-> TermsOf(a).paymentCurrency]

LEMMA PaidSlotType ==
    ASSUME MInv, NEW a \in AppIds, TermsOf(a).payFlag # 0
    PROVE  PaidSlot(a) \in Subscription
<1>1. TermsOf(a) \in Contents \cup {NoContents} /\ now \in Nat
  BY Types DEF MInv, MarketTypeOK, TermsOf, AppData
<1>2. TermsOf(a) \in Contents
  BY <1>1, MarketAssumption
<1> QED
  BY <1>1, <1>2, Terms DEF PaidSlot, Subscription

LEMMA SubscribingMInv == ASSUME MInv, Subscribing PROVE MInv'
<1>1. ASSUME NEW u \in Subscribers, NEW a \in AppIds, SubscribeFree(u, a)
      PROVE  MInv'
  <2>1. Record(u, a, FreeSlot, Never) /\ TermsOf(a).payFlag = 0
    BY <1>1 DEF SubscribeFree, FreeSlot
  <2>2. FreeSlot \in Subscription
    BY Terms, Types DEF FreeSlot, Subscription, MInv, MarketTypeOK
  <2>3. FreeSlot.startTime = now /\ FreeSlot.endTime = Never
    BY DEF FreeSlot
  <2> QED
    BY <2>1, <2>2, <2>3, RecordStep, Terms
<1>2. ASSUME NEW u \in Subscribers, NEW a \in AppIds, NEW moved \in BOOLEAN,
             SubscribePaid(u, a, moved)
      PROVE  MInv'
  <2> DEFINE until == IF moved THEN now + TermsOf(a).usePeriod ELSE 0
  <2>1. /\ Record(u, a, PaidSlot(a), until)
        /\ TermsOf(a).payFlag # 0
        /\ moved \/ TermsOf(a).paymentCurrency \in LaxCurrencies
    BY <1>2 DEF SubscribePaid, PaidSlot
  <2>2. PaidSlot(a) \in Subscription
    BY <2>1, PaidSlotType
  <2>3. /\ PaidSlot(a).startTime = now
        /\ PaidSlot(a).endTime = now + TermsOf(a).usePeriod
        /\ PaidSlot(a).paymentCurrency = TermsOf(a).paymentCurrency
    BY DEF PaidSlot
  <2>4. until \in Nat
    <3>1. TermsOf(a) \in Contents \cup {NoContents} /\ now \in Nat
      BY Types DEF MInv, MarketTypeOK, TermsOf, AppData
    <3> QED
      BY <3>1, Terms
  <2>5. \/ PaidSlot(a).endTime <= until
        \/ PaidSlot(a).paymentCurrency \in LaxCurrencies
    BY <2>1, <2>3, <2>4
  <2> HIDE DEF until
  <2> QED
    BY <2>1, <2>2, <2>3, <2>4, <2>5, RecordStep
<1> QED
  BY <1>1, <1>2 DEF Subscribing

LEMMA NextMInv == MInv /\ [MarketNext]_marketVars => MInv'
<1> SUFFICES ASSUME MInv, [MarketNext]_marketVars PROVE MInv'
  OBVIOUS
<1>1. CASE Subscribing
  BY <1>1, SubscribingMInv
<1>2. CASE [Next]_vars /\ UNCHANGED <<subscriptionData, paidUntil, agreed>>
  <2>1. TypeOK' /\ now <= now' /\ now \in Nat /\ now' \in Nat
    BY <1>2, RegistryTypes, Types DEF MInv, MarketTypeOK, TypeOK
  <2>2. MarketTypeOK'
    BY <1>2, <2>1 DEF MInv, MarketTypeOK
  <2>3. EndAgreed'
    <3>1. \A a \in AppIds, u \in Subscribers :
              subscriptionData[a][u].startTime \in Nat
      BY DEF MInv, MarketTypeOK, Subscription
    <3> QED
      BY <1>2, <2>1, <3>1 DEF MInv, EndAgreed
  <2>4. EndPaid'
    BY <1>2 DEF MInv, EndPaid
  <2> QED
    BY <2>2, <2>3, <2>4 DEF MInv
<1> QED
  BY <1>1, <1>2 DEF MarketNext, marketVars

THEOREM MarketInvariance == MarketSpec => []MInv
<1>1. MarketInit => MInv
  BY InitMInv
<1>2. MInv /\ [MarketNext]_marketVars => MInv'
  BY NextMInv
<1> QED
  BY <1>1, <1>2, PTL DEF MarketSpec

-----------------------------------------------------------------------------
(* The theorems.                                                           *)

\* Registry and subscriptions are well typed in every reachable state.
THEOREM MarketTypeCorrect == MarketSpec => []MarketTypeOK
<1>1. MInv => MarketTypeOK
  BY DEF MInv
<1> QED
  BY <1>1, MarketInvariance, PTL

\* Nobody has access to an app for longer than its payments for it reach,
\* except through a currency whose transfers fail silently.
THEOREM AccessIsPaidFor == MarketSpec => []AccessIsPaid
<1>1. MInv => AccessIsPaid
  <2> SUFFICES ASSUME MInv, NEW a \in AppIds, NEW u \in Subscribers,
                      Active(a, u), paidUntil[a][u] < now
               PROVE  subscriptionData[a][u].paymentCurrency \in LaxCurrencies
    BY DEF AccessIsPaid
  <2>1. /\ subscriptionData[a][u].endTime \in Nat
        /\ paidUntil[a][u] \in Nat /\ now \in Nat
    BY Types DEF MInv, MarketTypeOK, Subscription
  <2> QED
    BY <2>1 DEF MInv, EndPaid, Active, Unexpired
<1> QED
  BY <1>1, MarketInvariance, PTL

LEMMA AccessLastsStep ==
    ASSUME MInv, [MarketNext]_marketVars,
           NEW a \in AppIds, NEW u \in Subscribers, EndsEarlier(a, u)
    PROVE  appInfo[a].contents # agreed[a][u]
<1>1. /\ subscriptionData \in [AppIds -> [Subscribers -> Subscription]]
      /\ subscriptionData[a][u].endTime \in Nat
      /\ subscriptionData[a][u].startTime \in Nat
      /\ TermsOf(a) \in Contents \cup {NoContents}
      /\ now \in Nat
  BY Types DEF MInv, MarketTypeOK, Subscription, TermsOf, AppData
<1>2. TermsOf(a).payFlag \in {0, 1} /\ TermsOf(a).usePeriod \in Nat
      /\ Never \in Nat
  BY <1>1, Terms
<1>3. CASE UNCHANGED subscriptionData
  BY <1>1, <1>3 DEF EndsEarlier
<1>4. ASSUME NEW v \in Subscribers, NEW b \in AppIds, SubscribeFree(v, b),
             appInfo[a].contents = agreed[a][u]
      PROVE  FALSE
  <2>1. subscriptionData' = [subscriptionData EXCEPT ![b] =
                               [subscriptionData[b] EXCEPT ![v] = FreeSlot]]
    BY <1>1, <1>4 DEF SubscribeFree, Record, FreeSlot
  <2>2. b = a /\ v = u
    BY <1>1, <2>1 DEF EndsEarlier
  <2>3. subscriptionData'[a][u].endTime = Never
    BY <1>1, <2>1, <2>2 DEF FreeSlot
  <2>4. agreed[a][u].payFlag = 0
    BY <1>4, <2>2 DEF SubscribeFree, TermsOf
  <2> QED
    BY <1>1, <1>2, <2>3, <2>4 DEF EndsEarlier, MInv, EndAgreed
<1>5. ASSUME NEW v \in Subscribers, NEW b \in AppIds, NEW moved \in BOOLEAN,
             SubscribePaid(v, b, moved), appInfo[a].contents = agreed[a][u]
      PROVE  FALSE
  <2>1. subscriptionData' = [subscriptionData EXCEPT ![b] =
                               [subscriptionData[b] EXCEPT ![v] = PaidSlot(b)]]
    BY <1>1, <1>5 DEF SubscribePaid, Record, PaidSlot
  <2>2. b = a /\ v = u
    BY <1>1, <2>1 DEF EndsEarlier
  <2>3. subscriptionData'[a][u].endTime = now + TermsOf(a).usePeriod
    BY <1>1, <2>1, <2>2 DEF PaidSlot
  <2>4. agreed[a][u] = TermsOf(a) /\ agreed[a][u].payFlag # 0
    BY <1>5, <2>2 DEF SubscribePaid, TermsOf
  <2> QED
    BY <1>1, <1>2, <2>3, <2>4 DEF EndsEarlier, MInv, EndAgreed
<1>6. \/ UNCHANGED subscriptionData
      \/ Subscribing
  BY DEF MarketNext, marketVars
<1> QED
  BY <1>3, <1>4, <1>5, <1>6 DEF Subscribing

\* No subscription is cut short, whoever subscribes or rewrites apps, unless
\* its holder subscribes to an app that has other terms by then.
THEOREM SubscriptionsLast == MarketSpec => AccessLasts
<1>1. MInv /\ [MarketNext]_marketVars
          => [\A a \in AppIds, u \in Subscribers :
                 EndsEarlier(a, u) => appInfo[a].contents # agreed[a][u]]_marketVars
  BY AccessLastsStep
<1> QED
  BY <1>1, MarketInvariance, PTL DEF MarketSpec, AccessLasts
=============================================================================
