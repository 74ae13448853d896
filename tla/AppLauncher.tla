---------------------------- MODULE AppLauncher ----------------------------
(***************************************************************************)
(* The AppLauncher contract (market-contracts/src/IntentMarket/            *)
(* AppLauncher.sol) on top of the engine, and the ERC-4337 EntryPoint      *)
(* through which it is reached.                                            *)
(*                                                                         *)
(* The op stored with an intent is a user operation its wallet signed:     *)
(* "at this nonce, call AppLauncher.run for this intent id" (App.sol:55).  *)
(* Anybody reads it with getOp and hands it to the EntryPoint              *)
(* (SolverHelper.run), which uses the nonce up before it makes the call    *)
(* and keeps the nonce used when the call reverts.                         *)
(*                                                                         *)
(* Market.checkExpireSubscription is the variable subscribed, and whether  *)
(* the app and its Constraints contract are satisfied is a free choice.    *)
(***************************************************************************)
EXTENDS OrderMatchEngine

CONSTANTS
    Launcher,   \* address of the AppLauncher contract
    MaxNonce    \* bound: user operations per wallet

ASSUME LauncherAssumption == Launcher \in Contracts

ASSUME OpAssumption ==
    /\ MaxNonce \in Nat
    /\ UserOps \subseteq [sender : Contracts, nonce : Nat, intentID : IntentIds]
    /\ NoData \notin UserOps

VARIABLES
    nonceSequenceNumber,   \* the EntryPoint's next nonce of each wallet
    subscribed             \* <<app, account>> pairs with a running subscription

launchVars == <<vars, nonceSequenceNumber, subscribed>>

LaunchInit ==
    /\ Init
    /\ nonceSequenceNumber = [w \in Contracts |-> 0]
    /\ subscribed = {}

\* Every check of run except those of the app's own contracts: that of
\* getWinner, executed, the subscription of msg.sender, and setExecuted's.
MayRun(origin, sender, i) ==
    /\ WinnerKnown(i)
    /\ GetWinner(i) = origin
    /\ ~intentList[i].executed
    /\ <<intentList[i].appID, sender>> \in subscribed
    /\ MaySetExecuted(Launcher, i)

\* run(i), called by sender in a transaction of origin; the app's contracts
\* answer appDone.  A revert undoes what the app did.
Run(origin, sender, i, appDone) ==
    IF appDone /\ MayRun(origin, sender, i)
    THEN SetExecuted(Launcher, i)
    ELSE UNCHANGED vars

UseNonce(wallet) ==
    /\ nonceSequenceNumber[wallet] < MaxNonce
    /\ nonceSequenceNumber' = [nonceSequenceNumber EXCEPT ![wallet] = @ + 1]

\* handleOps with the op of intent i, sent by origin.  A wrong nonce reverts
\* the bundle; a revert of run does not.
HandleOps(origin, i, appDone) ==
    LET op == intentList[i].op IN
    /\ op # NoData
    /\ nonceSequenceNumber[op.sender] = op.nonce
    /\ UseNonce(op.sender)
    /\ Run(origin, op.sender, op.intentID, appDone)
    /\ UNCHANGED subscribed

\* run, called by other means.
DirectRun(origin, sender, i, appDone) ==
    /\ Run(origin, sender, i, appDone)
    /\ UNCHANGED <<nonceSequenceNumber, subscribed>>

\* Any other user operation of a wallet.
OtherOp(wallet) == UseNonce(wallet) /\ UNCHANGED <<vars, subscribed>>

\* A subscription begins or runs out.
Resubscribe(pairs) ==
    /\ subscribed' = pairs
    /\ UNCHANGED <<vars, nonceSequenceNumber>>

\* The AppLauncher contract calls setExecuted from run only.
OthersLaunching ==
    \E sender \in Accounts \ {Launcher}, i \in IntentIds :
        SetExecuted(sender, i)

Engine == \/ Bidding \/ Vault \/ Administration \/ Intending
          \/ OthersLaunching \/ Tick \/ Relisting

LaunchNext ==
    \/ Engine /\ UNCHANGED <<nonceSequenceNumber, subscribed>>
    \/ \E origin \in EOAs, i \in IntentIds, appDone \in BOOLEAN :
           \/ HandleOps(origin, i, appDone)
           \/ \E sender \in Callers(origin) :
                  DirectRun(origin, sender, i, appDone)
    \/ \E wallet \in Contracts : OtherOp(wallet)
    \/ \E pairs \in SUBSET (AppIds \X Accounts) : Resubscribe(pairs)

LaunchSpec == LaunchInit /\ [][LaunchNext]_launchVars

-----------------------------------------------------------------------------
(* Properties.                                                             *)

\* While the AppLauncher contract is the launcher no intent becomes executed,
\* whoever won it and whoever calls run, with the signed operation or without:
\* run asks for closeTime < now (getWinner) and for closeTime > now
\* (setExecuted) in one transaction.  Only another account that the owner
\* names as launcher marks intents as executed, and it does so without the
\* app having run.
ExecutedByOthersOnly ==
    [][\A i \in IntentIds :
          ~intentList[i].executed /\ intentList'[i].executed
              => launcher # Launcher]_launchVars

\* README.md:104, "Once the closeTime of the Order [...] has passed, the
\* Bundler selected as the Executor runs the two UserOperations": then no
\* check of run but the app's own stands in the executor's way.
WinnerCanExecute ==
    \A i \in IntentIds :
        LET op == intentList[i].op IN
        /\ WinnerKnown(i) /\ GetWinner(i) # NoAddr
        /\ launcher = Launcher
        /\ op # NoData /\ op.intentID = i
        /\ <<intentList[i].appID, op.sender>> \in subscribed
        => MayRun(GetWinner(i), op.sender, i)
=============================================================================
