-------------------------------- MODULE Swap --------------------------------
(***************************************************************************)
(* The execution of a swap intent: the wallet's batch, AppLauncher.run,    *)
(* the sample App (market-contracts/src/AppSample/App.sol), the check of   *)
(* Constraints, and the SolverHelper                                       *)
(* (market-contracts/src/SolverSample/SolverHelper.sol) that prepares the  *)
(* route and hands the operation in.                                       *)
(*                                                                         *)
(* App calls whatever router anybody set.  An honest router keeps to its   *)
(* interface: it takes the input it is allowed to take, sends some output, *)
(* at least 1, to the wallet, or reverts; App.main is one step then.  A    *)
(* hostile router does what it likes while main waits for it: it takes as  *)
(* much as it pleases, pays as much as it pleases, sets App up anew, calls *)
(* main again if App takes it for the launcher.  Then main is two steps,   *)
(* and calls holds the activations that wait.  Tokens move what they are   *)
(* told to or revert.                                                      *)
(*                                                                         *)
(* What run asks of the engine and of Market is a free choice here: that   *)
(* it is refused is the failure of an operation, which is always possible. *)
(* So is the time at which run is called, which only check reads.          *)
(***************************************************************************)
EXTENDS Constraints, Sequences, FiniteSets

CONSTANTS
    Assets,      \* the tokens
    Routers,     \* deployed routers
    Hostile,     \* those that do not keep to their interface
    Launcher,    \* the AppLauncher contract
    Strangers,   \* other accounts App may be told to take calls from
    NoAddr,      \* address(0)
    None,        \* no intent of this app, no transaction
    Conditions,  \* the arguments main may be called with
    Intents,     \* those the wallet may sign
    Pairs,       \* the pairs of assets whose route is set and read
    Routes,      \* sequences of assets somebody may set as a path
    Promises,    \* what the recorded order of an intent promised
    Outputs,     \* what an honest router may pay out
    Timestamps,  \* when run may be called
    Funds,       \* what the wallet holds of each asset in the beginning
    MaxDepth,    \* bound: activations of main within each other
    MaxHoldings  \* bound: what anybody holds of an asset by gifts

ASSUME SwapAssumption ==
    /\ NoAddr \notin Routers \cup Strangers \cup {Launcher}
    /\ Launcher \notin Strangers
    /\ Hostile \subseteq Routers
    /\ None \notin Conditions /\ Intents \subseteq Conditions
    /\ IsFiniteSet(Intents)
    /\ \A c \in Conditions :
          /\ c.swapInput \in Nat \ {0}
          /\ {c.swapOutput, c.marketTiming} \subseteq Nat
          /\ <<c.swapInputAsset, c.swapOutputAsset>> \in Pairs
    /\ Pairs \subseteq Assets \X Assets
    /\ \A route \in Routes : route \in Seq(Assets) /\ route # <<>>
    /\ Promises \subseteq Nat /\ Outputs \subseteq Nat \ {0}
    /\ Timestamps \subseteq Nat
    /\ Funds \in [Assets -> Nat]
    /\ {MaxDepth, MaxHoldings} \subseteq Nat

VARIABLES
    pathOptimization,   \* App: the route of each pair of assets
    router,             \* App
    appLauncher,        \* App
    bank,               \* what the tokens know of the wallet and of App
    op,                 \* of each intent: whom its operation calls, and what
                        \* became of it
    taken,              \* history: what left the wallet other than by a run
                        \* of the intent that was signed, by asset
    calls,              \* arguments of the activations of main that wait for
                        \* a hostile router, the innermost first
    begun               \* what a revert of the transaction goes back to

setup == <<pathOptimization, router, appLauncher>>
vars  == <<setup, bank, op, taken, calls, begun>>

Callees == {Launcher, NoAddr} \cup Strangers

\* swapped: App.main ran with what was signed; strayed: the batch went through
\* otherwise.  Both hold from the start of the transaction on and are undone
\* with it.
Ops == [target : Callees,
        status : {"unsigned", "signed", "swapped", "strayed", "failed"}]

Nothing == [asset \in Assets |-> 0]

Amounts == [Assets -> Nat]

Paths == [Pairs -> Routes \cup {<<>>}]

\* Balances of the wallet and of App, what App may take from the wallet, and
\* <<asset, router>> where the router may take App's tokens without limit.
Banks == [wallet : Amounts, held : Amounts, allowance : Amounts,
          routers : SUBSET (Assets \X Routers)]

\* intent: whose operation the transaction handles, if it does.
Snapshots == [intent : Intents \cup {None}, bank : Banks, taken : Amounts,
              paths : Paths, router : Routers \cup {NoAddr},
              appLauncher : Callees]

Init ==
    /\ pathOptimization = [pair \in Pairs |-> <<>>]
    /\ router = NoAddr
    /\ appLauncher = NoAddr
    /\ bank = [wallet |-> Funds, held |-> Nothing, allowance |-> Nothing,
               routers |-> {}]
    /\ op = [c \in Intents |-> [target |-> NoAddr, status |-> "unsigned"]]
    /\ taken = Nothing
    /\ calls = <<>>
    /\ begun = None

\* No transaction is under way.
Idle == calls = <<>>

-----------------------------------------------------------------------------
(* The setters of App, open to everybody, in transactions of their own and *)
(* from within a hostile router.                                           *)

SetLauncher(l) ==
    /\ appLauncher' = l
    /\ UNCHANGED <<pathOptimization, router, bank, op, taken, calls, begun>>

SetRouter(r) ==
    /\ router' = r
    /\ UNCHANGED <<pathOptimization, appLauncher, bank, op, taken, calls,
                   begun>>

SetPath(pair, route) ==
    /\ pathOptimization' = [pathOptimization EXCEPT ![pair] = route]
    /\ UNCHANGED <<router, appLauncher, bank, op, taken, calls, begun>>

-----------------------------------------------------------------------------
(* App.main, a chain of token calls on the bank b.                         *)

\* mutant: the token does not look at the allowance
CanPullAny(b, c) == b.wallet[c.swapInputAsset] >= c.swapInput

\* transferFrom(wallet, App, swapInput)
CanPull(b, c) == /\ b.wallet[c.swapInputAsset] >= c.swapInput
                 /\ b.allowance[c.swapInputAsset] >= c.swapInput

Pulled(b, c) ==
    [b EXCEPT !.wallet[c.swapInputAsset] = @ - c.swapInput,
              !.allowance[c.swapInputAsset] = @ - c.swapInput,
              !.held[c.swapInputAsset] = @ + c.swapInput]

\* approve(router, max)
Opened(b, c, r) == [b EXCEPT !.routers = @ \cup {<<c.swapInputAsset, r>>}]

\* swapExactTokensForTokens of an honest router: it takes the first asset of
\* the route from App and sends some of the last one to the wallet.
CanSwap(b, c, r, route) == /\ Len(route) >= 2
                           /\ <<route[1], r>> \in b.routers
                           /\ b.held[route[1]] >= c.swapInput

Swapped(b, c, route, output) ==
    [b EXCEPT !.held[route[1]] = @ - c.swapInput,
              !.wallet[route[Len(route)]] = @ + output]

\* mutant: the router keeps its allowance
NeverClosed(b, c, r) == b

\* approve(router, 0), of the router App names when the swap is over
Closed(b, c, r) == [b EXCEPT !.routers = @ \ {<<c.swapInputAsset, r>>}]

Route(paths, c) == paths[<<c.swapInputAsset, c.swapOutputAsset>>]

\* main called by caller gets to the router.
MainStarts(caller, b, c, r, paths) ==
    /\ caller = appLauncher
    /\ CanPull(b, c)
    /\ Route(paths, c) # <<>>
    /\ r \in Routers

\* Where main stands when it calls the router.
AtRouter(b, c, r) == Opened(Pulled(b, c), c, r)

\* The same, with an honest router, which nothing interrupts: main returns.
MainRuns(caller, b, c, r, paths) ==
    /\ MainStarts(caller, b, c, r, paths)
    /\ r \notin Hostile
    /\ CanSwap(AtRouter(b, c, r), c, r, Route(paths, c))

AfterMain(b, c, r, paths, output) ==
    Closed(Swapped(AtRouter(b, c, r), c, Route(paths, c), output), c, r)

Take(c) == taken' = [taken EXCEPT ![c.swapInputAsset] = @ + c.swapInput]

\* A transaction of nobody's intent begins, unless one is under way.
Begin ==
    begun' = IF Idle
             THEN [intent |-> None, bank |-> bank, taken |-> taken,
                   paths |-> pathOptimization, router |-> router,
                   appLauncher |-> appLauncher]
             ELSE begun

Enter(c) == Len(calls) < MaxDepth /\ calls' = <<c>> \o calls /\ Begin

\* main for the wallet, called by an account that App was told to take for the
\* launcher; its arguments are that account's.
MainByStranger(caller, c, output) ==
    /\ \/ /\ MainRuns(caller, bank, c, router, pathOptimization)
          /\ bank' = AfterMain(bank, c, router, pathOptimization, output)
          /\ UNCHANGED <<calls, begun>>
       \/ /\ MainStarts(caller, bank, c, router, pathOptimization)
          /\ router \in Hostile
          /\ bank' = AtRouter(bank, c, router)
          /\ Enter(c)
    /\ Take(c)
    /\ UNCHANGED <<setup, op>>

\* main for another wallet, by its operation or a stranger.  With an honest
\* router it leaves App as it was.
MainElsewhere(c) ==
    /\ appLauncher # NoAddr
    /\ Route(pathOptimization, c) # <<>>
    /\ router \in Hostile
    /\ bank.held[c.swapInputAsset] + c.swapInput <= MaxHoldings
    /\ bank' = Opened([bank EXCEPT !.held[c.swapInputAsset] = @ + c.swapInput],
                      c, router)
    /\ Enter(c)
    /\ UNCHANGED <<setup, op, taken>>

-----------------------------------------------------------------------------
(* What tokens do for strangers: a router uses an allowance it was left,   *)
(* tokens are sent to the wallet.                                          *)

TakeTokens(asset, r, amount) ==
    /\ <<asset, r>> \in bank.routers
    /\ amount <= bank.held[asset]
    /\ bank' = [bank EXCEPT !.held[asset] = @ - amount]
    /\ UNCHANGED <<setup, op, taken, calls, begun>>

Gift(asset, amount) ==
    /\ bank.wallet[asset] + amount <= MaxHoldings
    /\ bank' = [bank EXCEPT !.wallet[asset] = @ + amount]
    /\ UNCHANGED <<setup, op, taken, calls, begun>>

-----------------------------------------------------------------------------
(* The wallet's operation.                                                 *)

\* The user interface asks App.getUserCallData for the two calls of the batch;
\* the second one goes to App's launcher of that moment.
Sign(c) ==
    /\ Idle
    /\ op[c].status = "unsigned"
    /\ op' = [op EXCEPT ![c] = [target |-> appLauncher, status |-> "signed"]]
    /\ UNCHANGED <<setup, bank, taken, calls, begun>>

\* mutant: an allowance without limit
ApprovedUnlimited(c) == [bank EXCEPT !.allowance[c.swapInputAsset] = 1000]

\* approve(App, swapInput), the first call of the batch.
Approved(c) == [bank EXCEPT !.allowance[c.swapInputAsset] = c.swapInput]

\* The operation of c is used up, it calls nobody any more.
Becomes(c, status) ==
    op' = [op EXCEPT ![c] = [target |-> NoAddr, status |-> status]]

\* App.main is called with d: what was signed, or something else.
Launched(c, d) ==
    \/ d = c /\ Becomes(c, "swapped") /\ UNCHANGED taken
    \/ d # c /\ Becomes(c, "strayed") /\ Take(d)

\* AppLauncher.run goes through, with an honest router.
Runs(c, d, promise, timestamp, paths, r, output) ==
    /\ MainRuns(Launcher, Approved(c), d, r, paths)
    /\ Check(AfterMain(Approved(c), d, r, paths, output).wallet,
             GetPrevState(bank.wallet, d), d, promise, timestamp)
    /\ bank' = AfterMain(Approved(c), d, r, paths, output)
    /\ Launched(c, d)
    /\ UNCHANGED <<calls, begun>>

\* AppLauncher.run gets as far as a hostile router.
Starts(c, d, paths, r) ==
    /\ MainStarts(Launcher, Approved(c), d, r, paths)
    /\ r \in Hostile
    /\ bank' = AtRouter(Approved(c), d, r)
    /\ Launched(c, d)
    /\ calls' = <<d>>
    /\ begun' = [intent |-> c, bank |-> bank, taken |-> taken, paths |-> paths,
                 router |-> r, appLauncher |-> appLauncher]

\* mutant: a batch whose second call fails keeps the first
UndoneNot(c) == Approved(c)

Undone(c) == bank

\* handleOps with the operation of c: its nonce is used up, then the wallet
\* makes both calls or none.  d is what the engine holds under the id the
\* operation names, which another intent may have got; of another app, None.
\* A call to an account without code succeeds and does nothing.
HandleOp(c, d, promise, timestamp, paths, r, output) ==
    /\ Idle
    /\ op[c].status = "signed"
    /\ \/ /\ op[c].target = Launcher /\ d # None
          /\ \/ Runs(c, d, promise, timestamp, paths, r, output)
             \/ Starts(c, d, paths, r)
       \/ /\ op[c].target # Launcher \/ d = None
          /\ bank' = Approved(c)
          /\ Becomes(c, "strayed")
          /\ UNCHANGED <<taken, calls, begun>>
       \/ /\ bank' = Undone(c)
          /\ Becomes(c, "failed")
          /\ UNCHANGED <<taken, calls, begun>>

HandleOps(c, d, promise, timestamp, output) ==
    /\ HandleOp(c, d, promise, timestamp, pathOptimization, router, output)
    /\ UNCHANGED setup

\* SolverHelper.run: the solver's route and router first, then handleOps; they
\* stay when the operation fails.
HelperRun(c, d, r, route, promise, timestamp, output) ==
    /\ pathOptimization' =
           [pathOptimization EXCEPT ![<<route[1], route[Len(route)]>>] = route]
    /\ router' = r
    /\ HandleOp(c, d, promise, timestamp, pathOptimization', r, output)
    /\ UNCHANGED appLauncher

-----------------------------------------------------------------------------
(* How a transaction ends that waits for a hostile router.                 *)

\* The router returns to the innermost main, which closes the allowance of the
\* router App names by now.  The last one returns to run, if run called it:
\* check has to be content.
MainReturns(promise, timestamp) ==
    LET c == Head(calls) IN
    /\ ~Idle
    /\ bank' = Closed(bank, c, router)
    /\ calls' = Tail(calls)
    /\ IF Len(calls) = 1
       THEN /\ begun.intent # None =>
                   Check(bank.wallet, GetPrevState(begun.bank.wallet, c), c,
                         promise, timestamp)
            /\ begun' = None
       ELSE UNCHANGED begun
    /\ UNCHANGED <<setup, op, taken>>

\* mutant: what was done with the tokens stays
RestoredNot == bank

Restored == begun.bank

\* The transaction reverts, for whatever reason.  Of an operation the nonce
\* stays used.
Reverts ==
    /\ ~Idle
    /\ pathOptimization' = begun.paths
    /\ router' = begun.router
    /\ appLauncher' = begun.appLauncher
    /\ bank' = Restored
    /\ taken' = begun.taken
    /\ op' = IF begun.intent = None
             THEN op
             ELSE [op EXCEPT ![begun.intent] =
                      [target |-> NoAddr, status |-> "failed"]]
    /\ calls' = <<>>
    /\ begun' = None

-----------------------------------------------------------------------------
Setting ==
    \/ \E l \in Callees : SetLauncher(l)
    \/ \E r \in Routers \cup {NoAddr} : SetRouter(r)
    \/ \E pair \in Pairs, route \in Routes : SetPath(pair, route)

\* Routes of other pairs than Pairs are never read.
Executing ==
    \E c \in Intents, d \in Conditions \cup {None}, promise \in Promises,
       timestamp \in Timestamps, output \in Outputs :
        \/ HandleOps(c, d, promise, timestamp, output)
        \/ \E r \in Routers \cup {NoAddr}, route \in Routes :
               /\ <<route[1], route[Len(route)]>> \in Pairs
               /\ HelperRun(c, d, r, route, promise, timestamp, output)

Calling ==
    \E c \in Conditions :
        \/ \E caller \in Strangers, output \in Outputs :
               MainByStranger(caller, c, output)
        \/ MainElsewhere(c)

Moving ==
    \E asset \in Assets, amount \in 1 .. MaxHoldings :
        \/ \E r \in Hostile : TakeTokens(asset, r, amount)
        \/ Gift(asset, amount)

Ending ==
    \/ \E promise \in Promises, timestamp \in Timestamps :
           MainReturns(promise, timestamp)
    \/ Reverts

Next == \/ Setting \/ Executing \/ Calling \/ Moving \/ Ending
        \/ \E c \in Intents : Sign(c)

Spec == Init /\ [][Next]_vars

-----------------------------------------------------------------------------
(* Properties.                                                             *)

TypeOK ==
    /\ pathOptimization \in Paths
    /\ router \in Routers \cup {NoAddr}
    /\ appLauncher \in Callees
    /\ bank \in Banks
    /\ op \in [Intents -> Ops]
    /\ taken \in Amounts
    /\ calls \in Seq(Conditions)
    /\ IF Idle THEN begun = None ELSE begun \in Snapshots

\* The inputs of the operations that came to a status, counted unit by unit so
\* that the total is the size of a finite set.
Units(ops, status, asset) ==
    UNION {{c} \X (1 .. c.swapInput) :
              c \in {d \in Intents : /\ d.swapInputAsset = asset
                                     /\ ops[d].status = status}}

SignedFor(ops, status, asset) == Cardinality(Units(ops, status, asset))

\* Whoever sets launcher, router and routes, between which steps ever, and
\* whoever calls main: what leaves the wallet otherwise than by a run of what
\* it signed is covered by operations that strayed, each once.  An operation
\* that failed or that ran as it should gives nobody anything to take.
TakenOnlyFromStrays ==
    \A asset \in Assets :
        taken[asset] <= SignedFor(op, "strayed", asset)

\* Whatever routers and routes did to it, the wallet never holds less of a
\* token than it began with, less the inputs of its operations that went
\* through, for that token: no other token pays for a swap, and no failed run
\* costs anything.
RestIsKept ==
    \A asset \in Assets :
        bank.wallet[asset] + SignedFor(op, "swapped", asset)
            + SignedFor(op, "strayed", asset) >= Funds[asset]

\* App may take something from the wallet only if an operation strayed, and no
\* more than what that operation was signed for: an operation that ran took its
\* allowance along, one that failed left none, even with a router that calls
\* App again in the middle of it.
AllowanceOnlyFromStrays ==
    \A asset \in Assets :
        bank.allowance[asset] > 0 =>
            \E c \in Intents : /\ op[c].status = "strayed"
                               /\ c.swapInputAsset = asset
                               /\ bank.allowance[asset] <= c.swapInput

\* A swap by an honest router that goes through leaves App the tokens and the
\* routers' allowances it had: whichever route was set for the pair of assets,
\* and whatever hostile routers left in App before or do around it.
HonestSwapLeavesNothing ==
    [][calls' = calls /\ bank'.wallet # bank.wallet
           => bank'.held = bank.held /\ bank'.routers = bank.routers]_vars

\* Constraints.sol:62, "This function checks whether the minimum conditions
\* desired by the user have been met by comparing the state before executing
\* the intent with the state after its execution": wherever main runs as it
\* should, check is content with the wallets before and after only if the
\* output asset has grown by swapOutput.
CheckMeansMinimum ==
    \A c \in Intents, output \in Outputs, promise \in Promises,
       timestamp \in Timestamps :
        LET after == AfterMain(Approved(c), c, router, pathOptimization,
                               output).wallet
        IN /\ MainRuns(Launcher, Approved(c), c, router, pathOptimization)
           /\ Check(after, GetPrevState(bank.wallet, c), c, promise, timestamp)
           => after[c.swapOutputAsset]
                  >= bank.wallet[c.swapOutputAsset] + c.swapOutput
=============================================================================
