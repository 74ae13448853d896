# Intent market: models, checks and proofs

This directory holds the TLA+ development for the intent market contracts
(`src/market-contracts/src/`): modules that model the contracts, TLC
configurations that check them on small instances, and proofs of the main
properties for every instance, checked by TLAPS.

    tlc -config EngineAuction.cfg MCAuctionHistory.tla        # one run
    tlapm OrderMatchEngineProofs.tla                          # one proof module

`PROJECT.json` lists runs, mutants, theorems, hazards, findings and, for every
definition that models code, the lines it models.

## 1. The system

A user's smart wallet signs a user operation that runs an *intent* (a swap, say)
and opens the intent for bidding. Solvers bid with *orders*; when bidding is over
the winner hands the signed operation to the ERC-4337 EntryPoint, which makes the
wallet call the launcher, which runs the app and checks the result. Developers
register apps, a security council and the market's owner review them, users
subscribe to them.

| component | state | operations | modelled in |
|---|---|---|---|
| `OrderMatchEngine.sol` | `intentList`, `intentCount`, `orderInfo`, `depositInfo`, `recentActionTime`, registry, launcher, owner, ether held | `deposit`, `withdraw`, `slash`, `openIntent`, `submitOrder`, `cancelIntent`, `forceCloseIntent`, `setExecuted`, `getWinner`, `getOp`, setters, `receive` | `OrderMatchEngine`, `AuctionHistory`, `VaultHistory` |
| `MarketRegistry.sol` | `appInfo`, `appIndex`, `recentUpdateTime`, `securityCouncil`, owner | register, update, approve and revoke either pass, `superUpdateOnlyAdmin`, council membership, three getters | `MarketRegistry`, `RegistryReview` |
| `AppLauncher.sol` | addresses of the others, set once | `run` | `AppLauncher` (its guards), `Swap` (its effects) |
| EntryPoint, wallet nonces (vendored) | a nonce per wallet | `handleOps` | `AppLauncher`, `Swap` (bundles of one operation) |
| `Constraints.sol` (sample) | the engine's address, which nothing reads | `getScoringType`, `getScore`, `getPrevState`, `check` | `Constraints` |
| `Market.sol` | `subscriptionData` | `subscribe`, `checkExpireSubscription` | `Market` |
| `App.sol` (sample) | paths, router, launcher | `main`, `getUserCallData`, setters | `Swap` (hostile routers included) |
| `SolverHelper.sol` (sample) | addresses of the others | `run`; `setInfra` | `Swap` (`run`) |
| Kernel wallet, validators (vendored) | | `executeBatch` | `Swap`; otherwise a wallet is a contract that may call anything |
| gateway, OrderMaker, bundlers | | | off chain, not in the repository |

How they interact:

* `submitOrder` asks the registry for the app (`getAppMetadata`, which reverts
  unless both passes are non-zero), and the app's `Constraints` contract for
  the scoring type and the score, at *every* order. Nothing of this is frozen
  when the intent is opened.
* `AppLauncher.run` calls `engine.getWinner`, checks `executed` and the
  subscription, runs `Constraints.getPrevState`, `App.main`, `Constraints.check`
  and last `engine.setExecuted`, all in one transaction.
* The EntryPoint uses the wallet's nonce up before it makes the wallet's call, and
  swallows a revert of the call. So a failed `run` is final for that operation.
* The wallet's operation is a batch, `approve` and `run`, made in full or not at all. App's
  launcher, router and routes are set by anybody at any time; the helper of a
  solver sets them in the transaction that runs the operation.
* `Market.subscribe` asks the registry for the terms of an app of the moment,
  passed or not, and the token for the payment.
* `withdraw` and `slash` send ether with a low-level call whose result nobody reads.

Hard behaviours:

* *Ordering.* All calls of one block share a timestamp and come in any order;
  five functions compare `closeTime` with it, some with `<`, some with `>`.
* *Several actors on one record.* Wallet, bidders, anyone who slashes, the owner
  and the registry's three parties change what the others rely on.
* *Deadlines.* Three clocks (7 days for a withdrawal, 3 minutes for the winner, an
  hour for a review), each kept in one mapping that many functions restart.
* *Partial failure.* Refused ether, reverts swallowed by the EntryPoint, tokens that answer
  FALSE, a batch whose second call fails.
* *Progress.* A deposit comes back only when its owner asks, after a wait that several functions
  restart; a creator has no reward for ending its intent, and nobody else can.
* *Calls out in the middle.* `App.main` calls a router that anybody chose, and goes on afterwards.

The chain serialises transactions, so what interleaves is calls. Within a transaction it matters
where a contract calls out:

* `withdraw` and `slash` send ether last, with the books updated. A re-entrant call behaves
  like the next call.
* `App.main` calls the router (line 89) *before* it takes the router's allowance back (line
  90), and reads the storage variable `router` again for that. A router may call App's setters or
  `main` in between. `Swap` has these calls as steps of their own.
* `Market.subscribe` calls the token (line 47) *before* it records the subscription (line
  53). A token that calls back is left out.
* `AppLauncher.run` calls the app (line 40) *before* `setExecuted` (line 43). At this commit every
  call of `run` reverts: after `getWinner` the close is in the past, and no call, nested or not,
  moves it into the future again, so `setExecuted` refuses. Whatever the app did is undone.

What makes the parts correct:

* *Auction.* The winner is the first, or the earliest best, of the accepted
  orders; no order gets in at or after the close; from the close on the outcome
  stands, unless the creator cancels.
* *Vault.* The ether held covers the deposits; a deposit only shrinks by its owner's
  withdrawal or an order its owner answers for; a leader that bid for itself has its deposit, less what it was
  slashed, with the engine for the waiting period of its order.
* *Registry.* A pass covers contents that stood for the whole delay; a revocation
  lasts; what bidders are shown is not exchanged behind the reviewers.
* *Market.* Access ends when what was paid for ends, and not before.
* *Swap.* What leaves the wallet was signed for, and the wallet gets the minimum it asked for (it
  does not: finding 4); an honest swap leaves nothing behind in App.
* *Launcher.* Only the winner executes, once, after the close. The code does not get that far (finding
  1): the one thing that executes an intent is another launcher's own call.

## 2. The modules

**`Constraints`** is the scoring of the sample app. A wallet's condition is a record
whose `swapOutput` is the least acceptable output; a bidder's order is the promised
output, a number. `getScore` subtracts with checked arithmetic, so an order below
the minimum reverts: `Scorable` is a guard of `submitOrder`.

**`OrderMatchEngine`** has one action per external function, named after it. A call
that reverts changes nothing and is a stuttering step, so every `require` and every
checked subtraction is a guard. `msg.sender` (`sender`) and `tx.origin` (`origin`)
are separate parameters where the code uses both; `Callers(origin)` is who can be
`msg.sender` for an origin. `SendEther` is the low-level call: a contract may
refuse, an externally owned account cannot, and too little ether makes it fail. `Slash` has
the branch in which nothing is overdue: the function is payable and keeps the ether.
`Tick` advances the block time by one and may happen never, so any number of calls
share a timestamp. The registry is the variable `listing`: what `getAppMetadata`
answers for each app. `Relist`, which changes it freely, translates no function: it is the
environment, and `IntentMarket` replaces it by the registry's calls.

**`AuctionHistory`** adds the history variable `bids`, every accepted `submitOrder`
in chain order, so that the recorded order can be compared with all that were made.

**`VaultHistory`** adds what bidders did themselves: `acted`, when an account last deposited or had an
order recorded; `backed`, the intents led by an order from its bidder's own account; `backing`, what
slashes left of the minimum deposit behind the last such order. The engine's one clock
per account is written by several functions; the promises about it are stated against these.

**`AppLauncher`** puts the EntryPoint's nonces and `run` on top of the engine. `MayRun` is the
conjunction of the checks of `run`, whether app and constraints contract are content the parameter
`appDone`. `Run` is reached by the signed operation (`HandleOps`) and by any account's direct call
(`DirectRun`). The owner names any launcher, as `setLauncher` lets it;
`OthersLaunching` are the `setExecuted` calls of launchers that are not the AppLauncher contract.
The only assumption about the latter is that it is a contract.

**`MarketRegistry`** has one action per function; the overloaded
`revokeSecurityCouncil` is `RevokeCouncilPass` (app id) and `RevokeCouncilMember`
(address). `AppData` is split into the two pass fields and the `contents` a developer
submits. **`RegistryReview`** adds when contents were last written, when the council
last revoked a pass, and which apps the owner gave a pass by writing it.

The engine's deposits use a history-free total: `Wei(deposits)` holds one element
for each wei of each account, and `Owed` is its size. This makes the sum over
accounts something the library of finite sets has theorems about.

**`Auction`** is the abstract specification of the engine: ids, phases, a leading
order, and no time, money or accounts. **`EngineAuction`** reads phase and leader off
the engine's state (`Phase`): an id from `intentCount` on is unopened, a zeroed slot
below it dropped, any other open while `closeTime > now`. It states
`ImplementsAuction`. Time closes auctions, several at once; `forceCloseIntent` has
no counterpart in `Auction`, it must be a stuttering step.

**`EngineFairness`** adds fairness to the engine, see section 3.

**`IntentMarket`** composes engine and registry. Both are instances over shared time
and accounts; `listing` is no variable there but what `getAppMetadata` answers
(`Shown`), so `Relist` is replaced by the registry's calls. An app that was never
written names no `Constraints` contract and cannot be bid on even if it was given
passes (`HasConstraints`): the call to address 0 reverts. `written` and `ownerWrote` are history.

**`Market`** extends the registry by `subscribe` and the question
`checkExpireSubscription` asks (`Active`). Of a token only the outcome of a
payment is modelled; currencies in `LaxCurrencies` may answer FALSE and move nothing, which
`subscribe` does not notice. `paidUntil` and `agreed` are history.

**`Swap`** is what a run does to the wallet: the batch of `getUserCallData` (`Approved`, then
`run`), `App.main` as a chain of functions on the record `bank` (`Pulled`, `Opened`, `Swapped`,
`Closed`), and `Check`. Routers are of two kinds.

* An honest one takes the input it is allowed to take and pays something, or reverts. With it `main` is
  one step (`MainRuns`, `AfterMain`; `Runs` for the whole operation).
* A hostile one does as it likes. `main` then is two steps: one that gets as far as the router
  (`Starts` for an operation, `MainByStranger` and `MainElsewhere` for other callers of `main`), and
  `MainReturns`, which takes back the allowance of whichever router App names *by then*. In
  between the router takes tokens, pays, calls App's setters or `main` again. `calls` holds the activations
  that wait. `Reverts` ends the transaction at any point and goes back to the snapshot `begun`.

The second call of the batch goes to whoever App names as launcher at the moment of signing: an
account without code makes it a call that succeeds and does nothing. `run` takes the conditions of the
intent the engine holds under the id, not those that were signed: `d` is that intent, which may be
another one, or of another app (`None`). An operation is `swapped` when `main` ran with what was
signed, `strayed` when it went through otherwise, `failed` when its batch was undone. `taken` is history:
what left the wallet other than by a swapped operation. `HelperRun` is `SolverHelper.run`: its settings
stay when the operation fails. Whether engine and market admit the run is free here and modelled in
`AppLauncher`, which shows that at present they admit none; `Swap` says what a run does once
they do.

`MC*` modules instantiate these for TLC. `*Proofs` modules hold the theorems.
Definitions commented `mutant:` are wrong variants of the definition that follows;
no specification uses them. They show that each property can fail: with the
mutant in place of the definition, TLC finds the property violated.

## 3. The runs

| run | checks | what it shows |
|---|---|---|
| `auction` | `TypeOK`, `OrderBeforeClose`, `FirstBidWins`, `HighestBidWins`, `DirectWinnerLocked`, `ClosedAuctionIsFinal`, `ImplementsAuction` | who wins, against the history of all accepted orders, and that it stands; cancelling, force-closing and executing around `closeTime` |
| `vault` | `OrderHasIntent`, `Solvent`, `LeaderAnswers`, `DepositOnlyLost`, `PayoutArrives`, `DepositComesBack` | the books against the ether and each payment, a leader's deposit through its waiting period, with refused payments, repeated slashing, orders whose intent is cancelled; a deposit left alone comes back under fairness |
| `review` | `TypeOK`, `PassMeansReviewed`, `RevocationLasts`, `ShownContentsFrozen` | the review of an app, the owner's writes included |
| `composed` | `WinnerAdmitted`, `BidAfterReview` | the leader of an auction against the registry at the bid and ever after |
| `subscribe` | `MarketTypeOK`, `AccessIsPaid`, `AccessLasts` | subscriptions against the payments made and the terms agreed on |
| `launch` | `ExecutedByOthersOnly` | no path through EntryPoint and AppLauncher marks an intent as executed, whoever is named as launcher in between |
| `swap` | `TypeOK`, `TakenOnlyFromStrays`, `RestIsKept`, `AllowanceOnlyFromStrays`, `HonestSwapLeavesNothing` | the wallet's tokens and App's allowance against what was signed, with a hostile router that re-enters App; what an honest swap leaves in App |
| `slash_open`, `lowest_bid`, `run_window`, `minimum_output`, `free_ride` | one statement of a document or comment each | the code does otherwise: see the findings |

Bounds, and why they suffice:

* *Numbers.* Delays and amounts are scaled to 1, 2 or 3: the code only compares sums
  of timestamps and amounts, so what counts is their order and that the instants just
  before, at and just after each limit are reached. They are. `StartTime` exceeds
  `WithdrawDelay` and `UpdateDelay`, as real timestamps do: an account that never
  acted, or an app id never written, has passed its waiting period. `MaxTime` leaves room for the
  longest delay after the first call. Withdrawals take place in `vault`, whose time is long enough
  for a waiting period to be restarted by an order or a deposit, to run out and to be followed by the
  withdrawal; `auction` has none. 256-bit sums do not overflow with real
  timestamps and ether, so they are integers; subtractions are checked, as in
  Solidity 0.8.
* *Accounts.* Two bidders in `auction`: one to lead, one to overtake; they are
  interchangeable there (symmetry), as neither is the owner or a listed one. A wallet that may be
  launcher makes `setExecuted` happen. In `vault` one
  depositor and one that may refuse ether, which is wallet and owner as well. `launch` has a wallet that the owner may
  name as launcher, and the real one. `subscribe` has one subscriber: that subscribers do not disturb each
  other is in the theorems only.
  In `composed` one account that calls the registry in every role and one that does not.
* *Intents.* One auction, and next to it an id that is never handed out: a slash or a cancel
  may name it. A bid, an opening or a closing concerns one slot only. A bidder slashed for
  several intents with one deposit is in the theorems only, which are for any number of intents.
* *Listings.* `auction` has first-come and highest-score apps open to everybody and
  highest-score ones with a whitelist of one bidder; `Relist` switches among them while an auction
  runs. An app without passes has the effect of no registry at all, which the owner can set.
  Type 2 is what `lowest_bid` is about; a type that `submitOrder` does not know is left to the proofs.
* *Bids.* `MaxBids` = 2 accepted orders per intent, with three different promises:
  one and one that beats it, ties or falls behind.
* *Tokens and routes.* `swap` has two assets and two intents that sell the same one, of different
  sizes and with different times to wait for, so that an id of one may hold the other; a route that fits
  the pair and one turned round; an honest and a hostile router. The honest one pays 1, which is below one
  minimum and meets the other. `MaxDepth` = 2 activations of `main` within each other are
  what it takes to make line 90 miss a router; `MaxHoldings` = 1 bounds gifts and what other wallets
  swap, and `Funds` = 3 pays for both operations. The theorems have no such bounds on assets, intents, routers and depth.
* *Terms.* `subscribe` has a free app, one paid for an instant and one paid for longer in a
  token that may fail silently.
* *Passes.* 0 and 1 are special in the code, all other values of the `uint8`
  behave alike: 2 stands for them in `review`. `composed` and `subscribe` have 0 and 1 only; so
  `updateAppMetadata`, which needs an app with other passes, does not happen in these
  two runs. It does in `review`, and the theorems of section 4 cover it.
* *Apps.* One registered app and the id after it, which `updateAppMetadata` looks at and
  which can be passed or subscribed to before it is registered.
* *Nonces.* `MaxNonce` = 2: the operation's nonce, and another operation before it.

Deadlock is checked in all runs except `review`: there, when time has come to its bound and the
owner has renounced, nobody may call anything and nothing remains to be done.

Fairness (`EngineFairness`, used by `vault` only). Time advances: blocks come. A depositor
whose wait is over asks for its money sooner or later, with the one amount `withdraw` takes: it
is in its own interest and needs nobody's consent. Weak fairness is enough: once possible, the call stays
possible until it is made, or the books change in a way the property allows for. Nothing is
assumed of bidders, winners, creators, owner, registry or of those who slash. That a creator ends its intent is
neither assumed nor claimed: nothing rewards it.
`DepositComesBack` speaks of what the depositor itself did last (`acted`), so a call of anybody
else that restarted its wait for ever would violate it, and of waits that end within `MaxTime`, since
time stops there.

## 4. What is proved

For every value of the constants that meets the `ASSUME`s of the modules: any
finite number of accounts, any number of intents, apps, any delays and amounts.

| theorem | module | property |
|---|---|---|
| `TypeCorrect` | `OrderMatchEngineProofs` | `TypeOK` |
| `OrdersHaveIntents` | `OrderMatchEngineProofs` | `OrderHasIntent` |
| `OrdersBeforeClose` | `OrderMatchEngineProofs` | `OrderBeforeClose` |
| `ClosedAuctionsAreFinal` | `OrderMatchEngineProofs` | `ClosedAuctionIsFinal` |
| `DepositsOnlyLost` | `OrderMatchEngineProofs` | `DepositOnlyLost` |
| `EngineSolvent`, `PayoutsArrive` | `EngineSolvencyProofs` | `Solvent`, `PayoutArrives` |
| `EngineImplementsAuction` | `AuctionProofs` | `ImplementsAuction` |
| `FirstBidsWin`, `HighestBidsWin`, `DirectWinnersLocked` | `AuctionProofs` | `FirstBidWins`, `HighestBidWins`, `DirectWinnerLocked` |
| `LeadersAnswer` | `AuctionProofs` | `LeaderAnswers` |
| `ZeroBidsNeverWin` | `AuctionProofs` | `ZeroBidsLose`: when every bid by score promises just the minimum, no order is recorded |
| `NobodyWinsByLowest` | `AuctionProofs` | `NoneRecorded`: with type 2, no order is ever recorded |
| `LaunchImplementsEngine` | `AppLauncherProofs` | `LaunchSpec => Spec` |
| `EngineSoundBehindLauncher` | `AppLauncherProofs` | the engine's invariants and action properties, of `LaunchSpec` |
| `OnlyOthersExecute` | `AppLauncherProofs` | `ExecutedByOthersOnly` |
| `RegistryTypeCorrect` | `RegistryReviewProofs` | `TypeOK` |
| `PassesMeanReviewed` | `RegistryReviewProofs` | `PassMeansReviewed` |
| `RevocationsLast` | `RegistryReviewProofs` | `RevocationLasts` |
| `ShownContentsAreFrozen` | `RegistryReviewProofs` | `ShownContentsFrozen` |
| `ProposalsCannotBeUpdated` | `RegistryReviewProofs` | `UpdatesOwnersPassOnly`: `updateAppMetadata` needs passes that the owner wrote |
| `MarketImplementsEngine` | `IntentMarketProofs` | `ImplementsEngine` |
| `MarketImplementsRegistry` | `IntentMarketProofs` | the registry's own specification |
| `EngineSoundInMarket`, `EngineStepsSoundInMarket` | `IntentMarketProofs` | the engine's invariants and action properties, of the composition |
| `WinnersAdmitted`, `BidsAfterReview` | `IntentMarketProofs` | `WinnerAdmitted`, `BidAfterReview` |
| `MarketTypeCorrect`, `AccessIsPaidFor`, `SubscriptionsLast` | `MarketProofs` | `MarketTypeOK`, `AccessIsPaid`, `AccessLasts` |
| `SwapTypeCorrect`, `HonestSwapsLeaveNothing` | `SwapProofs` | `TypeOK`, `HonestSwapLeavesNothing` |
| `StraysPayForTaken`, `StraysLeaveAllowances` | `SwapProofs` | `TakenOnlyFromStrays`, `AllowanceOnlyFromStrays` |
| `WalletKeepsTheRest` | `SwapProofs` | `RestIsKept` |

*Engine.* The inductive invariant `IInv` joins types, `OrderHasIntent`,
`OrderBeforeClose` and what they lean on: the ids from `intentCount` on hold no
intent, which is why `openIntent` never finds an order waiting. `OrderBeforeClose` is
inductive only with it. The two action properties follow
step by step from `IInv`: only `submitOrder` and `cancelIntent` write an order, and the
former needs `closeTime > now`.

*Solvency.* `SInv` adds that nothing was cut off by the bound on ether. `WeiSplit` says
the total is one account's deposit plus the others', `OneDeposit` that a call which
changes one deposit changes the total by as much, `PayoutSolvent` that a payment
takes at most what the books lose. A withdrawal of `amount` needs a deposit of `amount`, which
the ether covers: a send to an account without code never fails (`PayoutStep`).

*Launcher.* To the engine, a `run` is a `setExecuted` call or a stuttering step, so `LaunchSpec`
implements `Spec` and inherits all that is proved of it (`EngineSoundBehindLauncher`).
`OnlyOthersExecute` needs one fact: `WinnerKnown` and `MaySetExecuted` exclude each other
(`RunWindowEmpty`), so `run` reverts however it is reached (`RunReverts`). What is left is
`setExecuted` called by a launcher that is not the AppLauncher contract, which happens: the theorem assumes nothing
about whom the owner names.

*Registry.* `RInv` relates the contract's clock to the history: for every app not
exempt, `recentUpdateTime` is not before the last write (`ClockCoversWrite`); for every
app it is not before the last revocation (`ClockCoversRevocation`). The delay that the
approvals check then covers both. `RInv` also bounds the passes of apps not exempt to 0 and 1; the
modifier of `updateAppMetadata` refuses 1 and the call refuses 0, whatever clock it looks at. That gives
`ProposalsCannotBeUpdated`, which says what the code does and not what its comment promises (section 5).

*Auction.* `EngineImplementsAuction` maps every engine call under `IInv` to a step of
`Auction` or a stutter: `openIntent` to `Open`, a recorded order to `Lead`, `cancelIntent`
to `Drop`, a tick to `Close` of all auctions that end there, everything else, force-closing
included, to nothing.

*Who wins.* `HInv` joins `IInv` and what the recorded order says of the history of its slot:
among first-come bids the slot is taken since the first one, so `submitTime` is not 0 any more
(`FirstLeads`); among bids by score either none exceeded 0 and nothing is recorded, or the
recorded one is the earliest of the highest (`BestLeads`). Every `submitOrder` call is an appended
bid (`SubmitIsBid`), and no other call touches an order except to zero it with its intent (`Quiet`).
`HighestBidWins` is the second case and `ZeroBidsLose` the first. The former says what src/README.md:102
promises, the latter that the promise fails where the best score is 0. `DirectWinnerLocked` is
inductive with them, since no order is later than the block time. With scoring type 2 the
inductive step of `NoneRecorded` is that a score would have to be below the 0 of the empty slot.

*Leaders.* `VInv` says of an order from its bidder's own account that the bidder's clock is not before
the order and that, until the clock has run, the deposit is at least `backing` (`Answers`). `submitOrder` makes
it true, as it checks the deposit and restarts the clock in the same call, also for the bidder's
other leading orders; a withdrawal
needs the clock to have run, a slash lowers `backing` with the deposit. Orders made through a contract are not in
`backed`: there deposit and order are of different accounts.

*Composition.* `OneAppWritten` is the link: whatever the registry's parties call, the contents
or passes of one app change at most, and that is a `Relist` of the engine's environment. So
`IntentMarket` implements `OrderMatchEngine`. The engine's theorems are taken over by instantiating
their module (`EngP`) with `Shown` for `listing`, not proved again. In the other direction the engine's calls
leave the registry's variables alone, and both share one tick: `MarketImplementsRegistry`. `CInv` then relates clock, passes
and history of every app the owner did not write by itself (`Reviewed`), and with it each
leading order to the delay.

*Market.* `MInv` says of every slot where its end comes from, the terms agreed on
(`EndAgreed`) and the payments made (`EndPaid`).

*Swap.* An allowance App still has could be used by anybody who makes itself App's
launcher, so `Ledger` counts it as taken: `taken + allowance` is at most the inputs of strayed
operations, and what the wallet holds is at least its funds less `taken` and the inputs of swapped
ones. `Allowed` is `AllowanceOnlyFromStrays`, `HostileOnly` says that only hostile routers are left an
allowance by App. `SInv` (`SwapInvariance`) states the three of the present, and, while a hostile router is at work, of
what a revert would go back to: without that half a step like `Reverts` preserves nothing. An operation counts as swapped or
strayed from the moment its batch begins, so a router that re-enters `main` finds the
allowance spent already. The totals are, like the engine's, sizes of sets (`Units`, an
element for each unit of each operation), which spares an induction over sums.

*Honest swaps.* `HonestSwapsLeaveNothing` follows: an honest router is allowed nothing but the asset just pulled, so
the route starts with it or the run reverts.

Only model-checked: the five violations, and `DepositComesBack`, which is out of the
prover's reach with its fairness.

The assumptions on constants are the `ASSUME`s of the modules, which TLC evaluates in the runs: the
engine's accounts are finite in number and address 0 is none of them; amounts and delays are naturals, the engine's
not zero; real timestamps exceed the delays; time stops before a free subscription would end
(`Never`). `LauncherAssumption` says that the AppLauncher is a contract, and nothing of the
owner. `EngineAssumption` says that what the composition `IntentMarket` hands to the engine meets the
engine's own assumptions.

## 5. Findings

With a run that shows a counterexample:

1. `run_window`: `getWinner` needs `closeTime < now` (`OrderMatchEngine.sol:95`),
   `setExecuted` needs `closeTime > now` (line 170), and `run` calls both. No run
   succeeds. `RunWindowEmpty` is the proof, `OnlyOthersExecute` what follows for the intents. The repository's test passes all the
   same: the EntryPoint swallows the revert, and the test does not look at the result
   (it never calls `setLauncher` either).
2. `slash_open`: `slash` charges the leader of an auction that is still open (line 62).
   Being executed, or having been slashed before, does not protect either.
3. `lowest_bid`: scoring type 2 accepts bids and records none (line 150).
4. `minimum_output`: `check` computes what the wallet got and never compares it; it compares
   the promise of the order, which `getScore` did before (`Constraints.sol:83`, `90`). The property is about
   `check` by itself, as at present no run gets that far (finding 1).
5. `free_ride`: a subscription to an id that is not registered yet is free and never
   ends, and stays when the id goes to a paid app (`Market.sol:35`).

Proved, without a run of their own:

* With scoring type 1 a bid of exactly the minimum, which `check` accepts (`Constraints.sol:90`),
  scores 0 and is accepted but never recorded (`OrderMatchEngine.sol:138`): an auction with no better
  bid ends without a winner. src/README.md:102 says "The Executor Candidate with the highest score is
  confirmed as the Executor". Theorem `ZeroBidsNeverWin`. With a type above 2 no bid is recorded either.
* `updateAppMetadata` is never possible for an app under review: it wants both passes to be
  non-zero and neither to be 1 (`MarketRegistry.sol:43` and `81`). `MarketRegistry.sol:72` says "Updates the
  metadata of an existing registration proposal", and its modifier is called
  `onlyCreatorBeforePass`. Theorem `ProposalsCannotBeUpdated`.

Read in the code, modelled as it is:

* `withdraw` refuses every amount but the whole deposit (`OrderMatchEngine.sol:55`); its message
  says "amount cannot exceed deposit". `DepositComesBack` shows that the whole is not locked.
* The deposit checked is that of `msg.sender`, the bidder recorded and later charged is
  `tx.origin` (lines 106, 131, 143, 155): a call through a contract records a bidder that need
  not have deposited anything.
* `updateAppMetadata` reads and restarts `recentUpdateTime[appIndex]`, the clock of the
  *next* app (lines 79, 85). It only matters for passes other than 0 and 1.
* Ids nobody registered can be given passes (their clock is 0). Registration clears them, and
  until then nobody can bid: that is `WinnerAdmitted`. An id the owner fills with
  `superUpdateOnlyAdmin` is overwritten by the next registration all the same.
* An app's `approveSecurityCouncil` is named by its developer, who may name itself.
  src/README.md:31 calls the council "An entity designated by the Market Admin".
* At `closeTime = now` neither bidding nor `getWinner` nor `forceCloseIntent` works;
  `forceCloseIntent`, which only works later, moves `closeTime` to that instant.
* `cancelIntent` after the close erases the winner, and with it what it could be slashed for.
* The operation a wallet signs names an intent id predicted before `openIntent` assigns it. If another
  intent of the app got the id, the run has that intent's conditions, within the signed allowance (`Launched`).
* An account other than the AppLauncher contract that the owner names as launcher marks open intents as
  executed without the app having run.
* An operation that is tried too early or by the wrong account is used up (`EntryPoint.sol:66`).
* An operation signed while App names an account without code as launcher goes through, does
  nothing but the `approve`, and leaves the allowance. Whoever is App's launcher later may have App pull that
  amount, once (`TakenOnlyFromStrays`, `AllowanceOnlyFromStrays`).
* Anybody may set App's router (`App.sol:40`). One that takes nothing leaves the wallet's input in App. One
  that calls `setRouter` while `main` waits for it makes line 90 clear another router's allowance and keeps its
  own, which is without limit. Both happen in run `swap`; so only honest swaps are claimed to leave nothing.
* A token that answers FALSE gives a paid subscription for nothing (`Market.sol:47`): `AccessIsPaid`
  excepts such currencies.

## 6. Not modelled, and what is left

| module | contents | state |
|---|---|---|
| `OrderMatchEngine`, `AuctionHistory`, `VaultHistory`, `MarketRegistry`, `RegistryReview`, `AppLauncher`, `Constraints` | the contracts one by one | done |
| `Market`, `Swap` | subscriptions; a run's effects | done |
| `IntentMarket` | engine and registry composed | done |
| `Auction`, `EngineAuction`, `EngineFairness` | abstract auction, refinement, liveness | done |
| wallet | an operation is signed again after its nonce was burnt, predicted ids | left |

Left out: `SolverHelper.setInfra` (a helper pointed elsewhere makes calls that are modelled for any
sender), `Constraints.setOrderMatchEngine` (writes a variable nothing reads), the `Ownable` of
`App` (no function asks for its owner), Kernel's validators and the EntryPoint's gas
accounting, paymasters and signatures (vendored, and not the market's logic), the
deployment script (commented out) and everything off chain. A hostile router's nested calls that revert by
themselves are calls not made. Tokens that call back are left out, in `Market` and in `Swap`.
