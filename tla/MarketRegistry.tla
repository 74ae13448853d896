--------------------------- MODULE MarketRegistry ---------------------------
(***************************************************************************)
(* The MarketRegistry contract                                             *)
(* (market-contracts/src/IntentMarket/MarketRegistry.sol): developers      *)
(* register apps, a security council and the owner pass them, and          *)
(* getAppMetadata shows an app once both did.                              *)
(*                                                                         *)
(* One action is one external call that does not revert.  AppData is split *)
(* into its two pass fields and its contents, what the developer submits;  *)
(* of the contents the operations look at creator and                      *)
(* approveSecurityCouncil only, the other fields (addresses, UI metadata,  *)
(* price, whitelist) make contents differ and are left to Contents.        *)
(***************************************************************************)
EXTENDS Integers

CONSTANTS
    Accounts,     \* addresses that call the contract
    NoAddr,       \* address(0)
    Admin,        \* the deployer, first owner
    Contents,     \* the app contents somebody may submit
    NoContents,   \* the zeroed contents
    Passes,       \* values of the two uint8 pass fields: 0, 1 and, for
                  \* every value from 2 to 255, any other number
    UpdateDelay,  \* updateDelay, 3600 seconds
    StartTime,    \* timestamp of the deployment
    MaxTime,      \* bound: last timestamp
    MaxApps       \* bound: number of apps

Addresses == Accounts \cup {NoAddr}
AppIds    == 0 .. MaxApps

ASSUME RegistryAddressAssumption ==
    /\ NoAddr \notin Accounts
    /\ Admin \in Accounts
    /\ \A c \in Contents \cup {NoContents} :
           c.creator \in Addresses /\ c.approveSecurityCouncil \in Addresses
    /\ NoContents \notin Contents
    /\ NoContents.creator = NoAddr /\ NoContents.approveSecurityCouncil = NoAddr

ASSUME RegistryNumberAssumption ==
    /\ {0, 1} \subseteq Passes /\ Passes \subseteq Nat
    /\ {UpdateDelay, StartTime, MaxTime, MaxApps} \subseteq Nat
    /\ StartTime > UpdateDelay

VARIABLES
    now,               \* block.timestamp
    registryOwner,     \* Ownable._owner
    appIndex,
    appInfo,
    recentUpdateTime,
    securityCouncil    \* the accounts whose flag is 1

registryVars == <<registryOwner, appIndex, appInfo, recentUpdateTime,
                  securityCouncil>>
vars == <<now, registryVars>>

AppData == [contents : Contents \cup {NoContents},
            securityCouncilPass : Passes, finalPass : Passes]

App(contents, councilPass, finalPass) ==
    [contents |-> contents, securityCouncilPass |-> councilPass,
     finalPass |-> finalPass]

NoApp == App(NoContents, 0, 0)

Init ==
    /\ now = StartTime
    /\ registryOwner = Admin
    /\ appIndex = 0
    /\ appInfo = [a \in AppIds |-> NoApp]
    /\ recentUpdateTime = [a \in AppIds |-> 0]
    /\ securityCouncil = {}

-----------------------------------------------------------------------------
(* The review clock of an app.                                             *)

\* mutant: no clock is restarted
RestartedNever(appId) == recentUpdateTime

\* mutant: the end of the delay is stored
RestartedAtEnd(appId) ==
    [recentUpdateTime EXCEPT ![appId] = now + UpdateDelay]

Restarted(appId) == [recentUpdateTime EXCEPT ![appId] = now]

\* mutant: the delay is left out
DelayPassedAtOnce(appId) == recentUpdateTime[appId] <= now

DelayPassed(appId) == recentUpdateTime[appId] + UpdateDelay <= now

-----------------------------------------------------------------------------
(* The developer.                                                          *)

RegisterAppMetadata(sender, contents) ==
    /\ appIndex < MaxApps
    /\ contents.creator = sender
    /\ appInfo' = [appInfo EXCEPT ![appIndex] = App(contents, 0, 0)]
    /\ recentUpdateTime' = Restarted(appIndex)
    /\ appIndex' = appIndex + 1
    /\ UNCHANGED <<now, registryOwner, securityCouncil>>

\* mutant: the passes are not looked at
OnlyCreator(sender, appId) == sender = appInfo[appId].contents.creator

\* The modifier: the creator, until one of the passes is 1.
OnlyCreatorBeforePass(sender, appId) ==
    /\ sender = appInfo[appId].contents.creator
    /\ appInfo[appId].finalPass # 1
    /\ appInfo[appId].securityCouncilPass # 1

\* getAppMetadata answers instead of reverting.
Passed(appId) == /\ appInfo[appId].finalPass # 0
                 /\ appInfo[appId].securityCouncilPass # 0

\* The delay read and restarted is that of the next app, not of appId.
UpdateAppMetadata(sender, appId, contents) ==
    /\ OnlyCreatorBeforePass(sender, appId)
    /\ contents.creator = sender
    /\ DelayPassed(appIndex)
    /\ Passed(appId)
    /\ recentUpdateTime' = Restarted(appIndex)
    /\ appInfo' = [appInfo EXCEPT ![appId].contents = contents]
    /\ UNCHANGED <<now, registryOwner, appIndex, securityCouncil>>

-----------------------------------------------------------------------------
(* The security council: the firm the app names or any council member.     *)

OnlySecurityCouncil(sender, appId) ==
    \/ sender = appInfo[appId].contents.approveSecurityCouncil
    \/ sender \in securityCouncil

ApproveSecurityCouncil(sender, appId) ==
    /\ OnlySecurityCouncil(sender, appId)
    /\ DelayPassed(appId)
    /\ appInfo' = [appInfo EXCEPT ![appId].securityCouncilPass = 1]
    /\ UNCHANGED <<now, registryOwner, appIndex, recentUpdateTime,
                   securityCouncil>>

\* revokeSecurityCouncil(uint256 appId)
RevokeCouncilPass(sender, appId) ==
    /\ OnlySecurityCouncil(sender, appId)
    /\ appInfo' = [appInfo EXCEPT ![appId].securityCouncilPass = 0]
    /\ recentUpdateTime' = Restarted(appId)
    /\ UNCHANGED <<now, registryOwner, appIndex, securityCouncil>>

-----------------------------------------------------------------------------
(* The owner.                                                              *)

\* Every field as the owner gives it, the passes included.
SuperUpdateOnlyAdmin(sender, appId, ad) ==
    /\ sender = registryOwner
    /\ recentUpdateTime' = Restarted(appId)
    /\ appInfo' = [appInfo EXCEPT ![appId] = ad]
    /\ UNCHANGED <<now, registryOwner, appIndex, securityCouncil>>

ApproveFinalPass(sender, appId) ==
    /\ sender = registryOwner
    /\ DelayPassed(appId)
    /\ appInfo' = [appInfo EXCEPT ![appId].finalPass = 1]
    /\ UNCHANGED <<now, registryOwner, appIndex, recentUpdateTime,
                   securityCouncil>>

RevokeFinalPass(sender, appId) ==
    /\ sender = registryOwner
    /\ appInfo' = [appInfo EXCEPT ![appId].finalPass = 0]
    /\ UNCHANGED <<now, registryOwner, appIndex, recentUpdateTime,
                   securityCouncil>>

RegisterSecurityCouncil(sender, candidate) ==
    /\ sender = registryOwner
    /\ securityCouncil' = securityCouncil \cup {candidate}
    /\ UNCHANGED <<now, registryOwner, appIndex, appInfo, recentUpdateTime>>

\* revokeSecurityCouncil(address candidate)
RevokeCouncilMember(sender, candidate) ==
    /\ sender = registryOwner
    /\ securityCouncil' = securityCouncil \ {candidate}
    /\ UNCHANGED <<now, registryOwner, appIndex, appInfo, recentUpdateTime>>

TransferOwnership(sender, newOwner) ==
    /\ sender = registryOwner
    /\ newOwner # NoAddr
    /\ registryOwner' = newOwner
    /\ UNCHANGED <<now, appIndex, appInfo, recentUpdateTime, securityCouncil>>

RenounceOwnership(sender) ==
    /\ sender = registryOwner
    /\ registryOwner' = NoAddr
    /\ UNCHANGED <<now, appIndex, appInfo, recentUpdateTime, securityCouncil>>

-----------------------------------------------------------------------------
Tick == now < MaxTime /\ now' = now + 1 /\ UNCHANGED registryVars

Developing ==
    \E sender \in Accounts, contents \in Contents :
        \/ RegisterAppMetadata(sender, contents)
        \/ \E appId \in AppIds : UpdateAppMetadata(sender, appId, contents)

Reviewing ==
    \E sender \in Accounts, appId \in AppIds :
        \/ ApproveSecurityCouncil(sender, appId)
        \/ RevokeCouncilPass(sender, appId)

SuperUpdating ==
    \E sender \in Accounts, appId \in AppIds, contents \in Contents,
       councilPass \in Passes, finalPass \in Passes :
        SuperUpdateOnlyAdmin(sender, appId,
                             App(contents, councilPass, finalPass))

Owning ==
    \E sender \in Accounts :
        \/ \E appId \in AppIds : \/ ApproveFinalPass(sender, appId)
                                 \/ RevokeFinalPass(sender, appId)
        \/ \E candidate \in Accounts :
               \/ RegisterSecurityCouncil(sender, candidate)
               \/ RevokeCouncilMember(sender, candidate)
        \/ \E newOwner \in Addresses : TransferOwnership(sender, newOwner)
        \/ RenounceOwnership(sender)

Next == Developing \/ Reviewing \/ SuperUpdating \/ Owning \/ Tick

Spec == Init /\ [][Next]_vars

-----------------------------------------------------------------------------
(* Properties.                                                             *)

TypeOK ==
    /\ now \in Nat /\ now >= StartTime
    /\ registryOwner \in Addresses
    /\ appIndex \in 0 .. MaxApps
    /\ appInfo \in [AppIds -> AppData]
    /\ recentUpdateTime \in [AppIds -> 0 .. now]
    /\ securityCouncil \subseteq Accounts
=============================================================================
