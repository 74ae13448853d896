------------------------- MODULE AppLauncherProofs --------------------------
(***************************************************************************)
(* Proofs about AppLauncher: to the engine, users that reach it through    *)
(* the EntryPoint and the AppLauncher are users like all others, so what   *)
(* is proved of the engine holds; and the AppLauncher contract never       *)
(* marks an intent as executed.                                            *)
(***************************************************************************)
EXTENDS AppLauncher, EngineSolvencyProofs

\* run needs an instant before and after closeTime at once.
LEMMA RunWindowEmpty ==
    ASSUME TypeOK, NEW origin, NEW sender, NEW i \in IntentIds
    PROVE  ~MayRun(origin, sender, i)
<1>1. intentList[i].closeTime \in Nat /\ now \in Nat
  BY DEF TypeOK, Intents
<1> QED
  BY <1>1 DEF MayRun, WinnerKnown, MaySetExecuted

\* So it reverts, however it is reached.
LEMMA RunReverts ==
    ASSUME TypeOK, NEW origin \in EOAs, NEW i \in IntentIds,
           NEW appDone \in BOOLEAN,
           \/ HandleOps(origin, i, appDone)
           \/ \E sender \in Callers(origin) :
                  DirectRun(origin, sender, i, appDone)
    PROVE  UNCHANGED vars
<1>1. CASE HandleOps(origin, i, appDone)
  <2>1. intentList[i].op \in UserOps
    BY <1>1 DEF HandleOps, TypeOK, Intents
  <2>2. intentList[i].op.intentID \in IntentIds
    BY <2>1, OpAssumption
  <2> QED
    BY <1>1, <2>2, RunWindowEmpty DEF HandleOps, Run
<1>2. CASE \E sender \in Callers(origin) : DirectRun(origin, sender, i, appDone)
  BY <1>2, RunWindowEmpty DEF DirectRun, Run
<1> QED
  BY <1>1, <1>2

LEMMA LaunchStep == TypeOK /\ [LaunchNext]_launchVars => [Next]_vars
<1> SUFFICES ASSUME TypeOK, [LaunchNext]_launchVars PROVE [Next]_vars
  OBVIOUS
<1>1. CASE Engine
  BY <1>1 DEF Engine, OthersLaunching, Launching, Next, NonBidding
<1>2. CASE \E origin \in EOAs, i \in IntentIds, appDone \in BOOLEAN :
               \/ HandleOps(origin, i, appDone)
               \/ \E sender \in Callers(origin) :
                      DirectRun(origin, sender, i, appDone)
  BY <1>2, RunReverts
<1>3. CASE \E wallet \in Contracts : OtherOp(wallet)
  BY <1>3 DEF OtherOp
<1>4. CASE \E pairs \in SUBSET (AppIds \X Accounts) : Resubscribe(pairs)
  BY <1>4 DEF Resubscribe
<1>5. CASE UNCHANGED launchVars
  BY <1>5 DEF launchVars
<1> QED
  BY <1>1, <1>2, <1>3, <1>4, <1>5 DEF LaunchNext

\* The composition implements the engine's own specification: everything
\* proved of the engine alone holds behind the AppLauncher.
THEOREM LaunchImplementsEngine == LaunchSpec => Spec
<1>1. LaunchInit => Init
  BY DEF LaunchInit
<1>2. TypeOK /\ [LaunchNext]_launchVars => [Next]_vars
  BY LaunchStep
<1>3. LaunchInit => IInv
  BY <1>1, InitIInv
<1>4. IInv /\ [LaunchNext]_launchVars => IInv'
  BY <1>2, NextIInv DEF IInv
<1>5. IInv => TypeOK
  BY DEF IInv
<1> QED
  BY <1>1, <1>2, <1>3, <1>4, <1>5, PTL DEF Spec, LaunchSpec

\* What is proved of the engine holds behind the AppLauncher, whatever its users,
\* the EntryPoint and the app's own contracts do: the books are covered, orders
\* keep to their intents and closes, the winner stands, and deposits and
\* payouts follow the engine's rules.
THEOREM EngineSoundBehindLauncher ==
    LaunchSpec => /\ [](TypeOK /\ OrderHasIntent /\ OrderBeforeClose /\ Solvent)
                  /\ ClosedAuctionIsFinal /\ DepositOnlyLost /\ PayoutArrives
BY LaunchImplementsEngine, TypeCorrect, OrdersHaveIntents, OrdersBeforeClose,
   EngineSolvent, ClosedAuctionsAreFinal, DepositsOnlyLost, PayoutsArrive, PTL

\* A step that executes an intent is the launcher's own setExecuted call, and
\* the AppLauncher contract makes none that stands.
LEMMA OthersExecute ==
    ASSUME TypeOK, LaunchNext, NEW i \in IntentIds,
           ~intentList[i].executed, intentList'[i].executed
    PROVE  launcher # Launcher
<1>1. intentList \in [IntentIds -> Intents]
  BY DEF TypeOK
<1>2. intentList' # intentList
  OBVIOUS
<1>3. CASE Engine
  <2>1. CASE OthersLaunching
    BY <2>1 DEF OthersLaunching, SetExecuted, MaySetExecuted
  <2>2. ~Intending
    BY <1>1
       DEF Intending, OpenIntent, CancelIntent, ForceCloseIntent, NoIntent,
           Intents
  <2>3. Bidding \/ Vault \/ Administration \/ Tick \/ Relisting
            => UNCHANGED intentList
    BY DEF Bidding, SubmitOrder, Vault, Deposit, Withdraw, Slash, ReceiveEther,
           Administration, SetMarketRegistry, SetLauncher, TransferOwnership,
           RenounceOwnership, Tick, Relisting, Relist, board
  <2> QED
    BY <1>2, <1>3, <2>1, <2>2, <2>3 DEF Engine
<1>4. ~\E origin \in EOAs, j \in IntentIds, appDone \in BOOLEAN :
          \/ HandleOps(origin, j, appDone)
          \/ \E sender \in Callers(origin) :
                 DirectRun(origin, sender, j, appDone)
  BY <1>2, RunReverts DEF vars, board
<1>5. /\ ~\E wallet \in Contracts : OtherOp(wallet)
      /\ ~\E pairs \in SUBSET (AppIds \X Accounts) : Resubscribe(pairs)
  BY <1>2 DEF OtherOp, Resubscribe, vars, board
<1> QED
  BY <1>3, <1>4, <1>5 DEF LaunchNext

\* Whoever the owner names as launcher and whoever calls run, by whatever way:
\* an intent becomes executed only while another account than the AppLauncher
\* contract is the launcher, by that account's own call.
THEOREM OnlyOthersExecute == LaunchSpec => ExecutedByOthersOnly
<1>1. TypeOK /\ [LaunchNext]_launchVars =>
          [\A i \in IntentIds :
              ~intentList[i].executed /\ intentList'[i].executed
                  => launcher # Launcher]_launchVars
  BY OthersExecute
<1> QED
  BY <1>1, TypeCorrect, LaunchImplementsEngine, PTL
     DEF LaunchSpec, ExecutedByOthersOnly
=============================================================================
