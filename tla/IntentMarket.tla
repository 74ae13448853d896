---------------------------- MODULE IntentMarket ----------------------------
(***************************************************************************)
(* The OrderMatchEngine and the MarketRegistry on one chain.  They share   *)
(* the block time and the accounts; what getAppMetadata answers to         *)
(* submitOrder is read off the registry's books at every order, where the  *)
(* module OrderMatchEngine alone lets it change freely.                    *)
(*                                                                         *)
(* The scoring type is that of the Constraints contract an app names.      *)
(***************************************************************************)
EXTENDS Constraints, FiniteSets

CONSTANTS
    \* of the engine, see there
    EOAs, Contracts, NoAddr, Admin, Launchers, Conditions, OrderIntents,
    UserOps, NoData, Durations, Payments, CloseFloor, WinnerDeadline,
    WithdrawDelay, MinimumDeposit, SlashingAmount, MaxIntents, MaxEther,
    \* of the registry, see there
    Contents, NoContents, Passes, UpdateDelay, MaxApps,
    RegistryCallers,   \* the accounts that call the registry
    \* of both
    StartTime, MaxTime,
    Registry,  \* the address of the registry
    NamedApps  \* the app ids wallets name

VARIABLES
    now,
    engineOwner, registry, launcher, intentCount, intentList, orderInfo,
    depositInfo, recentActionTime, balance,
    registryOwner, appIndex, appInfo, recentUpdateTime, securityCouncil,
    written,     \* history: when the contents of each app were last written
    ownerWrote   \* history: the apps the owner ever wrote by itself

AppIds == 0 .. MaxApps

Reg == INSTANCE MarketRegistry WITH Accounts <- RegistryCallers

\* mutant: a call to no contract answers
HasConstraintsAlways(a) == TRUE

\* checkAddr is a contract; an app that was never written names none, and the
\* call of getScoringType reverts.
HasConstraints(a) == appInfo[a].contents # NoContents

\* What submitOrder gets to know of app a.
Shown(a) == [listed |-> Reg!Passed(a) /\ HasConstraints(a),
             scoringType |-> appInfo[a].contents.scoringType,
             whitelist |-> appInfo[a].contents.whitelist]

Eng == INSTANCE OrderMatchEngine WITH
    Registries <- {Registry},
    AppIds     <- NamedApps,
    Listings   <- [listed : BOOLEAN, scoringType : ScoringTypes,
                   whitelist : SUBSET EOAs],
    listing    <- [r \in {Registry} |-> [a \in NamedApps |-> Shown(a)]]

ASSUME MarketAssumption ==
    /\ RegistryCallers \subseteq EOAs \cup Contracts
    /\ NoAddr \notin EOAs \cup Contracts
    /\ NamedApps \subseteq AppIds /\ 0 \in NamedApps

ASSUME ContentsAssumption ==
    \A c \in Contents \cup {NoContents} :
        c.scoringType \in ScoringTypes /\ c.whitelist \subseteq EOAs

ASSUME ReviewAssumption ==
    /\ {0, 1} \subseteq Passes
    /\ {UpdateDelay, StartTime, MaxApps, MaxIntents} \subseteq Nat
    /\ StartTime > UpdateDelay
    /\ Durations \subseteq Nat
    /\ NoContents \notin Contents

ASSUME EngineAssumption ==
    Eng!AddressAssumption /\ Eng!DataAssumption /\ Eng!NumberAssumption

engineVars == <<engineOwner, registry, launcher, intentCount, intentList,
                orderInfo, depositInfo, recentActionTime, balance>>
registryVars == <<registryOwner, appIndex, appInfo, recentUpdateTime,
                  securityCouncil>>
history == <<written, ownerWrote>>
vars == <<now, engineVars, registryVars, history>>

Init ==
    /\ now = StartTime
    /\ Reg!Init
    /\ Eng!Init
    /\ written = [a \in AppIds |-> 0]
    /\ ownerWrote = {}

\* A call to the engine; the registry is only asked.
EngineCall ==
    /\ UNCHANGED <<registryVars, history>>
    /\ \/ Eng!Bidding \/ Eng!Vault \/ Eng!Administration \/ Eng!Intending
       \/ Eng!Launching

\* The calls to the registry that write contents.
Registering ==
    \E sender \in RegistryCallers, contents \in Contents :
        /\ Reg!RegisterAppMetadata(sender, contents)
        /\ written' = [written EXCEPT ![appIndex] = now]
        /\ ownerWrote' = ownerWrote

Updating ==
    \E sender \in RegistryCallers, a \in AppIds, contents \in Contents :
        /\ Reg!UpdateAppMetadata(sender, a, contents)
        /\ written' = [written EXCEPT ![a] = now]
        /\ ownerWrote' = ownerWrote

SuperUpdating ==
    \E sender \in RegistryCallers, a \in AppIds, contents \in Contents,
       councilPass \in Passes, finalPass \in Passes :
        /\ Reg!SuperUpdateOnlyAdmin(sender, a,
                                    Reg!App(contents, councilPass, finalPass))
        /\ written' = [written EXCEPT ![a] = now]
        /\ ownerWrote' = ownerWrote \cup {a}

RegistryCall ==
    /\ UNCHANGED engineVars
    /\ \/ Registering \/ Updating \/ SuperUpdating
       \/ (Reg!Reviewing \/ Reg!Owning) /\ UNCHANGED history

Tick ==
    /\ now < MaxTime
    /\ now' = now + 1
    /\ UNCHANGED <<engineVars, registryVars, history>>

Next == EngineCall \/ RegistryCall \/ Tick

Spec == Init /\ [][Next]_vars

-----------------------------------------------------------------------------
(* Properties.                                                             *)

Led(i) == orderInfo[i] # Eng!NoOrder /\ intentList[i].appID \notin ownerWrote

Whitelist(i) == appInfo[intentList[i].appID].contents.whitelist

\* README.md:87, with a whitelist "only the Bundlers included" take part: at any
\* time after the bid, whoever registered, updated, approved or revoked
\* what in between, the leader of an auction is admitted by the app as the
\* registry has it, and the app is a registered one.  The engine never looks
\* back at the registry once it has recorded an order.  Apps the owner wrote
\* by itself are not promised anything.
WinnerAdmitted ==
    \A i \in Eng!IntentIds :
        Led(i) => /\ intentList[i].appID < appIndex
                  /\ \/ Whitelist(i) = {}
                     \/ orderInfo[i].sender \in Whitelist(i)

\* No auction is led by a bid on contents that had not stood for the whole
\* review delay by then: the delay, kept by the registry, reaches through both
\* passes to the engine.
BidAfterReview ==
    \A i \in Eng!IntentIds :
        Led(i) => written[intentList[i].appID] + UpdateDelay
                      <= orderInfo[i].submitTime

\* The engine behaves among its real registry as OrderMatchEngine says.
ImplementsEngine == Eng!Spec
=============================================================================
