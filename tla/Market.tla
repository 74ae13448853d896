------------------------------- MODULE Market -------------------------------
(***************************************************************************)
(* The Market contract (market-contracts/src/IntentMarket/Market.sol) on   *)
(* top of the MarketRegistry it asks for the terms of an app: wallets      *)
(* subscribe to apps, for free or against the tokens the developer asked   *)
(* for, and the AppLauncher asks whether a subscription runs.              *)
(*                                                                         *)
(* The tokens are other contracts.  Of a payment only its outcome is       *)
(* modelled: transferFrom moves the price, or it reverts and the call of   *)
(* subscribe with it, or, for the currencies in LaxCurrencies, it moves    *)
(* nothing and answers FALSE.                                              *)
(***************************************************************************)
EXTENDS MarketRegistry

CONSTANTS
    Subscribers,     \* the callers of subscribe
    LaxCurrencies,   \* tokens whose transferFrom may answer FALSE
    Never            \* type(uint256).max, after every timestamp

ASSUME MarketAssumption ==
    /\ \A c \in Contents \cup {NoContents} :
           c.payFlag \in {0, 1} /\ c.usePeriod \in Nat
    /\ NoContents.payFlag = 0
    /\ Never \in Nat
    /\ \A c \in Contents : MaxTime + c.usePeriod < Never

VARIABLES
    subscriptionData,
    paidUntil,   \* history: the last instant each subscriber paid for, Never
                 \* where the terms were free
    agreed       \* history: the app contents each subscription was taken at

marketVars == <<vars, subscriptionData, paidUntil, agreed>>

Subscription == [payFlag : BOOLEAN, startTime : Nat, endTime : Nat,
                 paymentCurrency : {c.paymentCurrency : c \in Contents}
                                       \cup {NoAddr}]

NoSubscription == [payFlag |-> FALSE, startTime |-> 0, endTime |-> 0,
                   paymentCurrency |-> NoAddr]

EachSubscriber(value) == [a \in AppIds |-> [u \in Subscribers |-> value]]

MarketInit ==
    /\ Init
    /\ subscriptionData = EachSubscriber(NoSubscription)
    /\ paidUntil = EachSubscriber(0)
    /\ agreed = EachSubscriber(NoContents)

-----------------------------------------------------------------------------
Later(t, u) == IF t < u THEN u ELSE t

\* mutant: the terms of the app registered next
TermsOfNext(appId) == appInfo[appIndex].contents

\* getAppPaymentInfo answers for every id, reviewed or not; an id that is not
\* registered yet is free.
TermsOf(appId) == appInfo[appId].contents

\* The caller's slot is written over, whatever was left of it.
Record(sender, appId, subscription, until) ==
    /\ subscriptionData' =
           [subscriptionData EXCEPT ![appId][sender] = subscription]
    /\ paidUntil' = [paidUntil EXCEPT ![appId][sender] = Later(@, until)]
    /\ agreed' = [agreed EXCEPT ![appId][sender] = appInfo[appId].contents]
    /\ UNCHANGED vars

SubscribeFree(sender, appId) ==
    /\ TermsOf(appId).payFlag = 0
    /\ Record(sender, appId,
              [payFlag |-> FALSE, startTime |-> now, endTime |-> Never,
               paymentCurrency |-> NoAddr], Never)

\* What transferFrom answers is not looked at.
SubscribePaid(sender, appId, moved) ==
    LET terms == TermsOf(appId)
        ends  == now + terms.usePeriod
    IN /\ terms.payFlag # 0
       /\ moved \/ terms.paymentCurrency \in LaxCurrencies
       /\ Record(sender, appId,
                 [payFlag |-> TRUE, startTime |-> now, endTime |-> ends,
                  paymentCurrency |-> terms.paymentCurrency],
                 IF moved THEN ends ELSE 0)

\* mutant: a subscription does not expire
NotExpired(endTime) == TRUE

Unexpired(endTime) == endTime >= now

\* checkExpireSubscription does not revert.
Active(a, u) == /\ subscriptionData[a][u].startTime # 0
                /\ Unexpired(subscriptionData[a][u].endTime)

Subscribing ==
    \E sender \in Subscribers, appId \in AppIds :
        \/ SubscribeFree(sender, appId)
        \/ \E moved \in BOOLEAN : SubscribePaid(sender, appId, moved)

MarketNext ==
    \/ Subscribing
    \/ Next /\ UNCHANGED <<subscriptionData, paidUntil, agreed>>

MarketSpec == MarketInit /\ [][MarketNext]_marketVars

-----------------------------------------------------------------------------
(* Properties.                                                             *)

MarketTypeOK ==
    /\ TypeOK
    /\ subscriptionData \in [AppIds -> [Subscribers -> Subscription]]
    /\ paidUntil \in [AppIds -> [Subscribers -> Nat]]
    /\ agreed \in [AppIds -> [Subscribers -> Contents \cup {NoContents}]]

\* Nobody uses an app longer than it paid for, over all its subscriptions to
\* it, whatever the developer, the council and the owner do to the app in the
\* meantime; only a currency whose transfers fail silently gives more.
AccessIsPaid ==
    \A a \in AppIds, u \in Subscribers :
        Active(a, u) /\ paidUntil[a][u] < now
            => subscriptionData[a][u].paymentCurrency \in LaxCurrencies

EndsEarlier(a, u) ==
    subscriptionData'[a][u].endTime < subscriptionData[a][u].endTime

\* A subscription is never cut short: not by updates or revocations of the
\* app, nor by other subscribers, nor by subscribing again, unless the app has
\* other terms by then.
AccessLasts ==
    [][\A a \in AppIds, u \in Subscribers :
          EndsEarlier(a, u) => appInfo[a].contents # agreed[a][u]]_marketVars

-----------------------------------------------------------------------------
\* Market.sol:31, "If it is a paid Intent App, they must pay a specific amount
\* in the token designated by the developer": the running subscriptions to a
\* registered app that asks for payment are paid ones.
PaidAppIsPaidFor ==
    \A a \in AppIds, u \in Subscribers :
        /\ a < appIndex
        /\ appInfo[a].contents.payFlag # 0
        /\ Active(a, u)
        => subscriptionData[a][u].payFlag
=============================================================================
