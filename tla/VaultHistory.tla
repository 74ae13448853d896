---------------------------- MODULE VaultHistory ----------------------------
(***************************************************************************)
(* OrderMatchEngine with histories of what bidders did themselves: when    *)
(* they last deposited or had an order recorded, which recorded orders     *)
(* they handed in from their own account, and what is left, after slashes, *)
(* of the minimum deposit that stood behind the last one.  The engine      *)
(* keeps one clock per account, written by several functions, and compares *)
(* a deposit once; what they promise over time needs the histories.        *)
(***************************************************************************)
EXTENDS OrderMatchEngine

VARIABLES
    acted,    \* time of an account's own last deposit or recorded order
    backed,   \* intents whose recorded order came from its bidder's account
    backing   \* what slashes left of the minimum deposit behind a bidder's
              \* last order of that kind

history   == <<acted, backed, backing>>
vaultVars == <<vars, history>>

VaultInit ==
    /\ Init
    /\ acted = [a \in Accounts |-> 0]
    /\ backed = {}
    /\ backing = [a \in Accounts |-> 0]

Acts(sender) == acted' = [acted EXCEPT ![sender] = now]

RecordedDeposit(sender, value) ==
    /\ Deposit(sender, value)
    /\ Acts(sender)
    /\ UNCHANGED <<backed, backing>>

RecordedOrder(origin, sender, i, orderIntent) ==
    /\ SubmitOrder(origin, sender, i, orderIntent)
    /\ \/ /\ orderInfo' = orderInfo
          /\ UNCHANGED history
       \/ /\ orderInfo' # orderInfo /\ sender = origin
          /\ Acts(sender)
          /\ backed' = backed \cup {i}
          /\ backing' = [backing EXCEPT ![sender] = MinimumDeposit]
       \/ /\ orderInfo' # orderInfo /\ sender # origin
          /\ Acts(sender)
          /\ backed' = backed \ {i}
          /\ UNCHANGED backing

Slashed(amount) ==
    IF amount >= SlashingAmount THEN amount - SlashingAmount ELSE 0

RecordedSlash(sender, i, value) ==
    /\ Slash(sender, i, value)
    /\ backing' = IF Overdue(i)
                  THEN [backing EXCEPT ![orderInfo[i].sender] = Slashed(@)]
                  ELSE backing
    /\ UNCHANGED <<acted, backed>>

Recorded ==
    \/ \E sender \in Accounts, value \in Payments :
           RecordedDeposit(sender, value)
    \/ \E origin \in EOAs, i \in IntentIds, orderIntent \in OrderIntents :
           \E sender \in Callers(origin) :
               RecordedOrder(origin, sender, i, orderIntent)
    \/ \E sender \in Accounts, i \in IntentIds, value \in Payments :
           RecordedSlash(sender, i, value)

Unrecorded ==
    /\ \/ \E sender \in Accounts, amount \in 0 .. MaxEther :
              Withdraw(sender, amount)
       \/ \E value \in Payments : ReceiveEther(value)
       \/ Administration \/ Intending \/ Launching \/ Tick \/ Relisting
    /\ UNCHANGED history

VaultNext == Recorded \/ Unrecorded

VaultSpec == VaultInit /\ [][VaultNext]_vaultVars

-----------------------------------------------------------------------------
\* Until the waiting period of an order that a bidder handed in from its own
\* account is over, the engine holds the minimum deposit of that bidder, less
\* what it was slashed since: however it deposits, bids and withdraws, for
\* which other intents, and whoever calls in between.
LeaderAnswers ==
    \A i \in IntentIds :
        LET order == orderInfo[i] IN
        /\ i \in backed /\ order # NoOrder
        /\ now <= order.submitTime + WithdrawDelay
        => depositInfo[order.sender] >= backing[order.sender]
=============================================================================
