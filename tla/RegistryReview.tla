--------------------------- MODULE RegistryReview ---------------------------
(***************************************************************************)
(* MarketRegistry with three history variables, from which one can tell    *)
(* whether a pass was reviewed: the registry's own recentUpdateTime is     *)
(* part of what is to be checked.                                          *)
(***************************************************************************)
EXTENDS MarketRegistry

VARIABLES
    written,   \* when the contents of each app were last written
    revoked,   \* when the council last revoked its pass
    exempt     \* apps to which the owner wrote a pass along with contents

reviewVars == <<vars, written, revoked, exempt>>

ReviewInit ==
    /\ Init
    /\ written = [a \in AppIds |-> 0]
    /\ revoked = [a \in AppIds |-> 0]
    /\ exempt = {}

RecordedRegister(sender, contents) ==
    /\ RegisterAppMetadata(sender, contents)
    /\ written' = [written EXCEPT ![appIndex] = now]
    /\ exempt' = exempt \ {appIndex}
    /\ UNCHANGED revoked

RecordedUpdate(sender, appId, contents) ==
    /\ UpdateAppMetadata(sender, appId, contents)
    /\ written' = [written EXCEPT ![appId] = now]
    /\ UNCHANGED <<revoked, exempt>>

RecordedRevoke(sender, appId) ==
    /\ RevokeCouncilPass(sender, appId)
    /\ revoked' = [revoked EXCEPT ![appId] = now]
    /\ UNCHANGED <<written, exempt>>

RecordedSuperUpdate(sender, appId, ad) ==
    /\ SuperUpdateOnlyAdmin(sender, appId, ad)
    /\ written' = [written EXCEPT ![appId] = now]
    /\ exempt' = IF ad.securityCouncilPass # 0 \/ ad.finalPass # 0
                 THEN exempt \cup {appId}
                 ELSE exempt \ {appId}
    /\ UNCHANGED revoked

Writing ==
    \E sender \in Accounts, contents \in Contents :
        \/ RecordedRegister(sender, contents)
        \/ \E appId \in AppIds : RecordedUpdate(sender, appId, contents)
        \/ \E appId \in AppIds, councilPass \in Passes, finalPass \in Passes :
               RecordedSuperUpdate(sender, appId,
                                   App(contents, councilPass, finalPass))

Revoking ==
    \E sender \in Accounts, appId \in AppIds : RecordedRevoke(sender, appId)

Approving ==
    \E sender \in Accounts, appId \in AppIds :
        ApproveSecurityCouncil(sender, appId)

ReviewNext ==
    \/ Writing
    \/ Revoking
    \/ (Approving \/ Owning \/ Tick) /\ UNCHANGED <<written, revoked, exempt>>

ReviewSpec == ReviewInit /\ [][ReviewNext]_reviewVars

-----------------------------------------------------------------------------
(* Properties.                                                             *)

\* A pass of either kind stands for at least updateDelay of review of the
\* very contents it covers, whatever registrations, updates, revocations and
\* owner writes came before, unless the owner wrote a pass itself.
PassMeansReviewed ==
    \A a \in AppIds \ exempt :
        appInfo[a].finalPass # 0 \/ appInfo[a].securityCouncilPass # 0
            => written[a] + UpdateDelay <= now

PassReturnsLate(a) ==
    appInfo[a].securityCouncilPass = 0 /\ appInfo'[a].securityCouncilPass # 0
        => a \in exempt' \/ revoked[a] + UpdateDelay <= now

\* A council pass does not come back before updateDelay has passed since the
\* council revoked it, unless the owner writes it.
RevocationLasts == [][\A a \in AppIds : PassReturnsLate(a)]_reviewVars

ShownContentsStay(a) ==
    Passed(a) /\ Passed(a)' /\ appInfo'[a].contents # appInfo[a].contents
        => a \in exempt'

\* What getAppMetadata shows to bidders and wallets is never replaced by other
\* shown contents, unless the owner wrote a pass itself: no developer swaps an
\* app that passed its reviews.
ShownContentsFrozen == [][\A a \in AppIds : ShownContentsStay(a)]_reviewVars
=============================================================================
