------------------------ MODULE RegistryReviewProofs ------------------------
(***************************************************************************)
(* Proofs about MarketRegistry with its review history, for all accounts,  *)
(* app contents, pass values and delays.                                   *)
(*                                                                         *)
(* The inductive invariant RInv says why the registry's one clock per app  *)
(* is enough: it never runs behind a council revocation, and behind a      *)
(* write only for apps the owner exempted; the passes of all other apps    *)
(* are 0 or 1, which keeps updateAppMetadata away from them.               *)
(***************************************************************************)
EXTENDS RegistryReview, TLAPS

HistoryOK ==
    /\ written \in [AppIds -> Nat]
    /\ revoked \in [AppIds -> Nat]
    /\ exempt \subseteq AppIds

\* The clock of an app that is not exempt is as late as its last write, and
\* its passes are those the contract gives.
ClockCoversWrite ==
    \A a \in AppIds \ exempt :
        /\ written[a] <= recentUpdateTime[a]
        /\ appInfo[a].finalPass \in {0, 1}
        /\ appInfo[a].securityCouncilPass \in {0, 1}

ClockCoversRevocation == \A a \in AppIds : revoked[a] <= recentUpdateTime[a]

RInv == /\ TypeOK /\ HistoryOK
        /\ ClockCoversWrite /\ ClockCoversRevocation /\ PassMeansReviewed

-----------------------------------------------------------------------------

LEMMA Types ==
    ASSUME TypeOK
    PROVE  /\ now \in Nat /\ now > UpdateDelay
           /\ UpdateDelay \in Nat /\ StartTime \in Nat /\ MaxApps \in Nat
           /\ appIndex \in AppIds
           /\ recentUpdateTime \in [AppIds -> Nat]
           /\ appInfo \in [AppIds -> AppData]
           /\ NoApp \in AppData
           /\ 0 \in Passes /\ 1 \in Passes
BY RegistryAddressAssumption, RegistryNumberAssumption
   DEF TypeOK, AppIds, AppData, NoApp, App

LEMMA InitRInv == ReviewInit => RInv
<1> SUFFICES ASSUME ReviewInit PROVE RInv
  OBVIOUS
<1>1. TypeOK
  BY RegistryAddressAssumption, RegistryNumberAssumption
     DEF ReviewInit, Init, TypeOK, AppIds, AppData, NoApp, App, Addresses
<1>2. HistoryOK /\ ClockCoversWrite /\ ClockCoversRevocation
  BY RegistryNumberAssumption
     DEF ReviewInit, Init, HistoryOK, ClockCoversWrite, ClockCoversRevocation,
         NoApp, App
<1>3. PassMeansReviewed
  BY DEF ReviewInit, Init, PassMeansReviewed, NoApp, App
<1> QED
  BY <1>1, <1>2, <1>3 DEF RInv

\* A write of app a by registerAppMetadata or the owner restarts its clock.
LEMMA WriteRInv ==
    ASSUME RInv, NEW a \in AppIds, NEW ad \in AppData,
           UNCHANGED <<now, revoked, securityCouncil, registryOwner>>,
           appIndex' \in 0 .. MaxApps,
           appInfo' = [appInfo EXCEPT ![a] = ad],
           recentUpdateTime' = [recentUpdateTime EXCEPT ![a] = now],
           written' = [written EXCEPT ![a] = now],
           \/ exempt' = exempt \cup {a}
           \/ /\ exempt' = exempt \ {a}
              /\ ad.finalPass = 0 /\ ad.securityCouncilPass = 0
    PROVE  RInv'
<1>1. now \in Nat
  BY Types DEF RInv
<1>2. TypeOK'
  BY DEF RInv, TypeOK
<1>3. HistoryOK'
  BY <1>1 DEF RInv, HistoryOK
<1>4. ClockCoversWrite' /\ PassMeansReviewed'
  BY <1>1, Types DEF RInv, ClockCoversWrite, PassMeansReviewed, HistoryOK
<1>5. ClockCoversRevocation'
  <2>1. \A b \in AppIds : recentUpdateTime[b] <= now
    BY DEF RInv, TypeOK
  <2> QED
    BY <1>1, <2>1, Types DEF RInv, ClockCoversRevocation, HistoryOK
<1> QED
  BY <1>2, <1>3, <1>4, <1>5 DEF RInv

LEMMA WritingRInv == ASSUME RInv, Writing PROVE RInv'
<1>1. ASSUME NEW sender \in Accounts, NEW contents \in Contents,
             RecordedRegister(sender, contents)
      PROVE  RInv'
  <2>1. App(contents, 0, 0) \in AppData /\ appIndex \in AppIds
    BY Types DEF App, AppData, RInv
  <2>2. /\ App(contents, 0, 0).finalPass = 0
        /\ App(contents, 0, 0).securityCouncilPass = 0
    BY DEF App
  <2>3. appIndex' \in 0 .. MaxApps
    BY <1>1, RegistryNumberAssumption
       DEF RecordedRegister, RegisterAppMetadata, RInv, TypeOK
  <2> QED
    BY <1>1, <2>1, <2>2, <2>3, WriteRInv
       DEF RecordedRegister, RegisterAppMetadata, Restarted
<1>2. ASSUME NEW sender \in Accounts, NEW contents \in Contents,
             NEW appId \in AppIds, RecordedUpdate(sender, appId, contents)
      PROVE  RInv'
  <2>1. appId \in exempt
    BY <1>2 DEF RecordedUpdate, UpdateAppMetadata, OnlyCreatorBeforePass,
                Passed, RInv, ClockCoversWrite
  <2>2. /\ appInfo' = [appInfo EXCEPT ![appId] =
                          [appInfo[appId] EXCEPT !.contents = contents]]
        /\ recentUpdateTime' = [recentUpdateTime EXCEPT ![appIndex] = now]
        /\ written' = [written EXCEPT ![appId] = now]
        /\ UNCHANGED <<now, registryOwner, appIndex, securityCouncil,
                       revoked, exempt>>
    BY <1>2, Types DEF RecordedUpdate, UpdateAppMetadata, Restarted, RInv
  <2>3. [appInfo[appId] EXCEPT !.contents = contents] \in AppData
    BY Types DEF AppData, RInv
  <2>4. \A b \in AppIds : /\ recentUpdateTime[b] <= recentUpdateTime'[b]
                          /\ recentUpdateTime'[b] \in 0 .. now
                          /\ recentUpdateTime[b] \in Nat
    BY <2>2, Types DEF RInv, TypeOK
  <2>5. TypeOK'
    BY <2>2, <2>3, Types DEF RInv, TypeOK
  <2>6. HistoryOK'
    BY <2>2, Types DEF RInv, HistoryOK
  <2>7. ClockCoversWrite'
    <3> SUFFICES ASSUME NEW b \in AppIds \ exempt
                 PROVE  /\ written'[b] <= recentUpdateTime'[b]
                        /\ appInfo'[b].finalPass \in {0, 1}
                        /\ appInfo'[b].securityCouncilPass \in {0, 1}
      BY <2>2 DEF ClockCoversWrite
    <3>1. b # appId
      BY <2>1
    <3>2. written'[b] = written[b] /\ appInfo'[b] = appInfo[b]
      BY <2>2, <3>1, Types DEF RInv, HistoryOK
    <3> QED
      BY <2>4, <3>2, Types DEF RInv, ClockCoversWrite, HistoryOK
  <2>8. ClockCoversRevocation'
    BY <2>2, <2>4, Types DEF RInv, ClockCoversRevocation, HistoryOK
  <2>9. PassMeansReviewed'
    BY <2>1, <2>2, Types DEF RInv, PassMeansReviewed, HistoryOK
  <2> QED
    BY <2>5, <2>6, <2>7, <2>8, <2>9 DEF RInv
<1>3. ASSUME NEW sender \in Accounts, NEW contents \in Contents,
             NEW appId \in AppIds,
             NEW councilPass \in Passes, NEW finalPass \in Passes,
             RecordedSuperUpdate(sender, appId,
                                 App(contents, councilPass, finalPass))
      PROVE  RInv'
  <2>1. App(contents, councilPass, finalPass) \in AppData
    BY DEF App, AppData
  <2>2. appIndex \in 0 .. MaxApps
    BY DEF RInv, TypeOK
  <2> QED
    BY <1>3, <2>1, <2>2, WriteRInv
       DEF RecordedSuperUpdate, SuperUpdateOnlyAdmin, Restarted
<1> QED
  BY <1>1, <1>2, <1>3 DEF Writing

LEMMA RevokingRInv == ASSUME RInv, Revoking PROVE RInv'
<1>1. PICK sender \in Accounts, appId \in AppIds : RecordedRevoke(sender, appId)
  BY DEF Revoking
<1>2. /\ appInfo' = [appInfo EXCEPT ![appId] =
                        [appInfo[appId] EXCEPT !.securityCouncilPass = 0]]
      /\ recentUpdateTime' = [recentUpdateTime EXCEPT ![appId] = now]
      /\ revoked' = [revoked EXCEPT ![appId] = now]
      /\ UNCHANGED <<now, registryOwner, appIndex, securityCouncil, written,
                     exempt>>
  BY <1>1, Types DEF RecordedRevoke, RevokeCouncilPass, Restarted, RInv
<1>3. [appInfo[appId] EXCEPT !.securityCouncilPass = 0] \in AppData
  BY Types DEF AppData, RInv
<1>4. \A b \in AppIds : /\ recentUpdateTime[b] <= recentUpdateTime'[b]
                        /\ recentUpdateTime'[b] \in 0 .. now
                        /\ recentUpdateTime[b] \in Nat
  BY <1>2, Types DEF RInv, TypeOK
<1>5. \A b \in AppIds :
          /\ appInfo'[b].finalPass = appInfo[b].finalPass
          /\ \/ appInfo'[b].securityCouncilPass = appInfo[b].securityCouncilPass
             \/ appInfo'[b].securityCouncilPass = 0
  BY <1>2, Types DEF RInv, AppData
<1>6. TypeOK'
  BY <1>2, <1>3, Types DEF RInv, TypeOK
<1>7. HistoryOK'
  BY <1>2, Types DEF RInv, HistoryOK
<1>8. ClockCoversWrite'
  <2> SUFFICES ASSUME NEW b \in AppIds \ exempt
               PROVE  /\ written[b] <= recentUpdateTime'[b]
                      /\ appInfo'[b].finalPass \in {0, 1}
                      /\ appInfo'[b].securityCouncilPass \in {0, 1}
    BY <1>2 DEF ClockCoversWrite
  <2> QED
    BY <1>4, <1>5, Types DEF RInv, ClockCoversWrite, HistoryOK
<1>9. ClockCoversRevocation'
  BY <1>2, Types DEF RInv, ClockCoversRevocation, HistoryOK
<1>10. PassMeansReviewed'
  BY <1>2, <1>5 DEF RInv, PassMeansReviewed
<1> QED
  BY <1>6, <1>7, <1>8, <1>9, <1>10 DEF RInv

\* A pass given by approveSecurityCouncil or approveFinalPass comes after the
\* delay, a pass taken away needs no reason.
LEMMA PassRInv ==
    ASSUME RInv, NEW a \in AppIds, NEW ad \in AppData,
           UNCHANGED <<now, registryOwner, appIndex, recentUpdateTime,
                       securityCouncil, written, revoked, exempt>>,
           appInfo' = [appInfo EXCEPT ![a] = ad],
           \/ DelayPassed(a)
           \/ /\ ad.finalPass # 0 => appInfo[a].finalPass # 0
              /\ ad.securityCouncilPass # 0 => appInfo[a].securityCouncilPass # 0,
           ad.finalPass \in {0, 1, appInfo[a].finalPass},
           ad.securityCouncilPass \in {0, 1, appInfo[a].securityCouncilPass}
    PROVE  RInv'
<1>1. TypeOK' /\ HistoryOK' /\ ClockCoversRevocation'
  BY DEF RInv, TypeOK, HistoryOK, ClockCoversRevocation
<1>2. ClockCoversWrite'
  BY Types DEF RInv, ClockCoversWrite
<1>3. PassMeansReviewed'
  <2> SUFFICES ASSUME NEW b \in AppIds \ exempt,
                      \/ appInfo'[b].finalPass # 0
                      \/ appInfo'[b].securityCouncilPass # 0
               PROVE  written[b] + UpdateDelay <= now
    BY DEF PassMeansReviewed
  <2>1. CASE b # a
    BY <2>1, Types DEF RInv, PassMeansReviewed
  <2>2. CASE b = a /\ DelayPassed(a)
    BY <2>2, Types DEF RInv, ClockCoversWrite, DelayPassed, HistoryOK
  <2>3. CASE b = a /\ ~DelayPassed(a)
    BY <2>3, Types DEF RInv, PassMeansReviewed
  <2> QED
    BY <2>1, <2>2, <2>3
<1> QED
  BY <1>1, <1>2, <1>3 DEF RInv

\* A call that leaves apps, clocks and history alone.
LEMMA AppsUntouched ==
    ASSUME RInv, UNCHANGED <<now, appIndex, appInfo, recentUpdateTime, written,
                             revoked, exempt>>,
           registryOwner' \in Addresses, securityCouncil' \subseteq Accounts
    PROVE  RInv'
BY DEF RInv, TypeOK, HistoryOK, ClockCoversWrite, ClockCoversRevocation,
       PassMeansReviewed

LEMMA ApprovingRInv ==
    ASSUME RInv, Approving, UNCHANGED <<written, revoked, exempt>>
    PROVE  RInv'
<1>1. PICK sender \in Accounts, appId \in AppIds :
          ApproveSecurityCouncil(sender, appId)
  BY DEF Approving
<1> DEFINE ad == [appInfo[appId] EXCEPT !.securityCouncilPass = 1]
<1>2. /\ appInfo' = [appInfo EXCEPT ![appId] = ad]
      /\ DelayPassed(appId)
      /\ UNCHANGED <<now, registryOwner, appIndex, recentUpdateTime,
                     securityCouncil>>
  BY <1>1, Types DEF ApproveSecurityCouncil, RInv
<1>3. /\ ad \in AppData
      /\ ad.securityCouncilPass = 1
      /\ ad.finalPass = appInfo[appId].finalPass
  BY Types DEF AppData, RInv
<1> HIDE DEF ad
<1> QED
  BY <1>2, <1>3, PassRInv

LEMMA OwningRInv ==
    ASSUME RInv, Owning, UNCHANGED <<written, revoked, exempt>>
    PROVE  RInv'
<1>1. ASSUME NEW sender \in Accounts, NEW appId \in AppIds,
             ApproveFinalPass(sender, appId)
      PROVE  RInv'
  <2> DEFINE ad == [appInfo[appId] EXCEPT !.finalPass = 1]
  <2>1. /\ appInfo' = [appInfo EXCEPT ![appId] = ad]
        /\ DelayPassed(appId)
        /\ UNCHANGED <<now, registryOwner, appIndex, recentUpdateTime,
                       securityCouncil>>
    BY <1>1, Types DEF ApproveFinalPass, RInv
  <2>2. /\ ad \in AppData
        /\ ad.finalPass = 1
        /\ ad.securityCouncilPass = appInfo[appId].securityCouncilPass
    BY Types DEF AppData, RInv
  <2> HIDE DEF ad
  <2> QED
    BY <2>1, <2>2, PassRInv
<1>2. ASSUME NEW sender \in Accounts, NEW appId \in AppIds,
             RevokeFinalPass(sender, appId)
      PROVE  RInv'
  <2> DEFINE ad == [appInfo[appId] EXCEPT !.finalPass = 0]
  <2>1. /\ appInfo' = [appInfo EXCEPT ![appId] = ad]
        /\ UNCHANGED <<now, registryOwner, appIndex, recentUpdateTime,
                       securityCouncil>>
    BY <1>2, Types DEF RevokeFinalPass, RInv
  <2>2. /\ ad \in AppData
        /\ ad.finalPass = 0
        /\ ad.securityCouncilPass = appInfo[appId].securityCouncilPass
    BY Types DEF AppData, RInv
  <2> HIDE DEF ad
  <2> QED
    BY <2>1, <2>2, PassRInv
<1>3. ASSUME NEW sender \in Accounts,
             \/ \E candidate \in Accounts :
                    \/ RegisterSecurityCouncil(sender, candidate)
                    \/ RevokeCouncilMember(sender, candidate)
             \/ \E newOwner \in Addresses : TransferOwnership(sender, newOwner)
             \/ RenounceOwnership(sender)
      PROVE  RInv'
  <2>1. UNCHANGED <<now, appIndex, appInfo, recentUpdateTime>>
    BY <1>3 DEF RegisterSecurityCouncil, RevokeCouncilMember,
                TransferOwnership, RenounceOwnership
  <2>2. registryOwner' \in Addresses /\ securityCouncil' \subseteq Accounts
    BY <1>3 DEF RegisterSecurityCouncil, RevokeCouncilMember,
                TransferOwnership, RenounceOwnership, RInv, TypeOK, Addresses
  <2> QED
    BY <2>1, <2>2, AppsUntouched
<1> QED
  BY <1>1, <1>2, <1>3 DEF Owning

LEMMA TickRInv ==
    ASSUME RInv, Tick, UNCHANGED <<written, revoked, exempt>>
    PROVE  RInv'
<1>1. now' = now + 1 /\ now \in Nat /\ UpdateDelay \in Nat
  BY Types DEF RInv, Tick
<1>2. TypeOK'
  BY <1>1, Types, RegistryNumberAssumption DEF RInv, TypeOK, Tick, registryVars
<1>3. HistoryOK' /\ ClockCoversWrite' /\ ClockCoversRevocation'
  BY DEF RInv, Tick, registryVars, HistoryOK, ClockCoversWrite,
         ClockCoversRevocation
<1>4. PassMeansReviewed'
  BY <1>1 DEF RInv, Tick, registryVars, HistoryOK, PassMeansReviewed
<1> QED
  BY <1>2, <1>3, <1>4 DEF RInv

LEMMA NextRInv == RInv /\ [ReviewNext]_reviewVars => RInv'
<1> SUFFICES ASSUME RInv, [ReviewNext]_reviewVars PROVE RInv'
  OBVIOUS
<1>1. CASE UNCHANGED reviewVars
  <2>1. UNCHANGED <<now, appIndex, appInfo, recentUpdateTime, written, revoked,
                    exempt, registryOwner, securityCouncil>>
    BY <1>1 DEF reviewVars, vars, registryVars
  <2> QED
    BY <2>1, AppsUntouched DEF RInv, TypeOK
<1> QED
  BY <1>1, WritingRInv, RevokingRInv, ApprovingRInv, OwningRInv, TickRInv
     DEF ReviewNext

THEOREM ReviewInvariance == ReviewSpec => []RInv
<1>1. ReviewInit => RInv
  BY InitRInv
<1>2. RInv /\ [ReviewNext]_reviewVars => RInv'
  BY NextRInv
<1> QED
  BY <1>1, <1>2, PTL DEF ReviewSpec

\* Every reachable state of the registry is well typed, and no clock is set in
\* the future.
THEOREM RegistryTypeCorrect == ReviewSpec => []TypeOK
<1>1. RInv => TypeOK
  BY DEF RInv
<1> QED
  BY <1>1, ReviewInvariance, PTL

\* A pass the contract gave covers contents that stood for the whole delay.
THEOREM PassesMeanReviewed == ReviewSpec => []PassMeansReviewed
<1>1. RInv => PassMeansReviewed
  BY DEF RInv
<1> QED
  BY <1>1, ReviewInvariance, PTL

-----------------------------------------------------------------------------

\* Only an approval, a registration or the owner's write changes a council
\* pass from zero.
LEMMA PassReturnsLateStep ==
    ASSUME RInv, [ReviewNext]_reviewVars, NEW a \in AppIds
    PROVE  PassReturnsLate(a)
<1> SUFFICES ASSUME appInfo[a].securityCouncilPass = 0,
                    appInfo'[a].securityCouncilPass # 0
             PROVE  a \in exempt' \/ revoked[a] + UpdateDelay <= now
  BY DEF PassReturnsLate
<1>1. appInfo \in [AppIds -> AppData] /\ appInfo' # appInfo
  BY Types DEF RInv
<1>2. CASE Writing
  <2>1. ASSUME NEW sender \in Accounts, NEW contents \in Contents,
               RecordedRegister(sender, contents)
        PROVE  FALSE
    BY <1>1, <2>1 DEF RecordedRegister, RegisterAppMetadata, App
  <2>2. ASSUME NEW sender \in Accounts, NEW contents \in Contents,
               NEW appId \in AppIds, RecordedUpdate(sender, appId, contents)
        PROVE  FALSE
    BY <1>1, <2>2 DEF RecordedUpdate, UpdateAppMetadata, AppData
  <2>3. ASSUME NEW sender \in Accounts, NEW contents \in Contents,
               NEW appId \in AppIds,
               NEW councilPass \in Passes, NEW finalPass \in Passes,
               RecordedSuperUpdate(sender, appId,
                                   App(contents, councilPass, finalPass))
        PROVE  a \in exempt'
    BY <1>1, <2>3 DEF RecordedSuperUpdate, SuperUpdateOnlyAdmin, App
  <2> QED
    BY <1>2, <2>1, <2>2, <2>3 DEF Writing
<1>3. CASE Revoking
  BY <1>1, <1>3 DEF Revoking, RecordedRevoke, RevokeCouncilPass, AppData
<1>4. CASE Approving
  <2>1. PICK sender \in Accounts, appId \in AppIds :
            ApproveSecurityCouncil(sender, appId)
    BY <1>4 DEF Approving
  <2>2. a = appId
    BY <1>1, <2>1 DEF ApproveSecurityCouncil
  <2> QED
    BY <2>1, <2>2, Types
       DEF ApproveSecurityCouncil, DelayPassed, RInv, ClockCoversRevocation,
           HistoryOK
<1>5. CASE Owning
  BY <1>1, <1>5
     DEF Owning, ApproveFinalPass, RevokeFinalPass, RegisterSecurityCouncil,
         RevokeCouncilMember, TransferOwnership, RenounceOwnership, AppData
<1>6. CASE Tick \/ UNCHANGED reviewVars
  BY <1>1, <1>6 DEF Tick, reviewVars, vars, registryVars
<1> QED
  BY <1>2, <1>3, <1>4, <1>5, <1>6 DEF ReviewNext

\* A council's revocation lasts for the whole delay.
THEOREM RevocationsLast == ReviewSpec => RevocationLasts
<1>1. RInv /\ [ReviewNext]_reviewVars
          => [\A a \in AppIds : PassReturnsLate(a)]_reviewVars
  BY PassReturnsLateStep
<1> QED
  BY <1>1, ReviewInvariance, PTL DEF ReviewSpec, RevocationLasts

LEMMA ShownContentsStayStep ==
    ASSUME RInv, [ReviewNext]_reviewVars, NEW a \in AppIds
    PROVE  ShownContentsStay(a)
<1> SUFFICES ASSUME Passed(a), Passed(a)',
                    appInfo'[a].contents # appInfo[a].contents
             PROVE  a \in exempt'
  BY DEF ShownContentsStay
<1>1. appInfo \in [AppIds -> AppData] /\ appInfo' # appInfo
  BY Types DEF RInv
<1>2. CASE Writing
  <2>1. ASSUME NEW sender \in Accounts, NEW contents \in Contents,
               RecordedRegister(sender, contents)
        PROVE  FALSE
    BY <1>1, <2>1 DEF RecordedRegister, RegisterAppMetadata, App, Passed
  <2>2. ASSUME NEW sender \in Accounts, NEW contents \in Contents,
               NEW appId \in AppIds, RecordedUpdate(sender, appId, contents)
        PROVE  a \in exempt'
    <3>1. a = appId
      BY <1>1, <2>2 DEF RecordedUpdate, UpdateAppMetadata
    <3> QED
      BY <2>2, <3>1 DEF RecordedUpdate, UpdateAppMetadata,
                        OnlyCreatorBeforePass, Passed, RInv, ClockCoversWrite
  <2>3. ASSUME NEW sender \in Accounts, NEW contents \in Contents,
               NEW appId \in AppIds,
               NEW councilPass \in Passes, NEW finalPass \in Passes,
               RecordedSuperUpdate(sender, appId,
                                   App(contents, councilPass, finalPass))
        PROVE  a \in exempt'
    BY <1>1, <2>3 DEF RecordedSuperUpdate, SuperUpdateOnlyAdmin, App, Passed
  <2> QED
    BY <1>2, <2>1, <2>2, <2>3 DEF Writing
<1>3. CASE Revoking
  BY <1>1, <1>3 DEF Revoking, RecordedRevoke, RevokeCouncilPass, AppData
<1>4. CASE Approving
  BY <1>1, <1>4 DEF Approving, ApproveSecurityCouncil, AppData
<1>5. CASE Owning
  BY <1>1, <1>5
     DEF Owning, ApproveFinalPass, RevokeFinalPass, RegisterSecurityCouncil,
         RevokeCouncilMember, TransferOwnership, RenounceOwnership, AppData
<1>6. CASE Tick \/ UNCHANGED reviewVars
  BY <1>1, <1>6 DEF Tick, reviewVars, vars, registryVars
<1> QED
  BY <1>2, <1>3, <1>4, <1>5, <1>6 DEF ReviewNext

\* No developer exchanges the contents of an app that passed its reviews.
THEOREM ShownContentsAreFrozen == ReviewSpec => ShownContentsFrozen
<1>1. RInv /\ [ReviewNext]_reviewVars
          => [\A a \in AppIds : ShownContentsStay(a)]_reviewVars
  BY ShownContentsStayStep
<1> QED
  BY <1>1, ReviewInvariance, PTL DEF ReviewSpec, ShownContentsFrozen

\* An updateAppMetadata call that goes through is for an app to which the owner
\* wrote a pass of its own.
UpdatesOwnersPassOnly ==
    [][\A sender \in Accounts, a \in AppIds, contents \in Contents :
          UpdateAppMetadata(sender, a, contents) => a \in exempt]_reviewVars

\* MarketRegistry.sol:72, "Updates the metadata of an existing registration
\* proposal", and the modifier's name, onlyCreatorBeforePass, promise the
\* developer updates until the app is passed.  The code gives none: the modifier
\* refuses an app with a pass that is 1, the call reverts without both passes.
\* What is left is an app to which the owner wrote other passes than 0 and 1.
THEOREM ProposalsCannotBeUpdated == ReviewSpec => UpdatesOwnersPassOnly
<1>1. ASSUME RInv, NEW sender \in Accounts, NEW a \in AppIds,
             NEW contents \in Contents, UpdateAppMetadata(sender, a, contents)
      PROVE  a \in exempt
  BY <1>1 DEF UpdateAppMetadata, OnlyCreatorBeforePass, Passed, RInv,
              ClockCoversWrite
<1>2. RInv /\ [ReviewNext]_reviewVars =>
          [\A sender \in Accounts, a \in AppIds, contents \in Contents :
              UpdateAppMetadata(sender, a, contents) => a \in exempt]_reviewVars
  BY <1>1
<1> QED
  BY <1>2, ReviewInvariance, PTL DEF ReviewSpec, UpdatesOwnersPassOnly
=============================================================================
