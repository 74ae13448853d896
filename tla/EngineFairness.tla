--------------------------- MODULE EngineFairness ---------------------------
(***************************************************************************)
(* OrderMatchEngine under fairness: block time advances, and a depositor   *)
(* whose waiting period is over asks for its deposit sooner or later.      *)
(* Nobody else is asked to do anything: no bidder bids, no winner          *)
(* executes, the owner and the registry answer as they like.               *)
(***************************************************************************)
EXTENDS VaultHistory

TakesOut(a) == \E amount \in 1 .. MaxEther : Withdraw(a, amount)

Fairness == WF_vars(Tick) /\ \A a \in Accounts : WF_vars(TakesOut(a))

FairSpec == VaultSpec /\ Fairness

-----------------------------------------------------------------------------
\* Whether a holds a deposit and itself did nothing since t that restarts its
\* waiting period, which ends within the bound on time.
Waiting(a, t) == /\ depositInfo[a] > 0 /\ acted[a] = t
                 /\ t + WithdrawDelay < MaxTime

\* A depositor that does nothing but ask gets its deposit out, or is slashed
\* of it.  Calls of others, slashes included, do not make it wait anew, for
\* what counts is when it last acted itself; and no deposit gets to an amount
\* that withdraw refuses for good.
DepositComesBack ==
    \A a \in Accounts, t \in StartTime .. MaxTime :
        Waiting(a, t) ~> depositInfo[a] = 0 \/ acted[a] # t
=============================================================================
