----------------------------- MODULE SwapProofs -----------------------------
(***************************************************************************)
(* Proofs about Swap, for all assets, routes, signed intents and routers,  *)
(* however many of these are hostile and however deep they nest the calls  *)
(* of main, and for all strangers that set App up.                         *)
(*                                                                         *)
(* The inductive invariant SInv says the same of the present and of what a *)
(* revert goes back to: what App may still take counts as taken, so that   *)
(* it is covered by operations that strayed (Ledger), and only hostile     *)
(* routers are allowed App's tokens (HostileOnly).                         *)
(***************************************************************************)
EXTENDS Swap, FiniteSetTheorems, TLAPS

\* Of a bank, of what was taken, of the operations.
Ledger(b, t, ops) ==
    \A asset \in Assets :
        /\ t[asset] + b.allowance[asset] <= SignedFor(ops, "strayed", asset)
        /\ b.wallet[asset] + t[asset] + SignedFor(ops, "swapped", asset)
               >= Funds[asset]

\* AllowanceOnlyFromStrays, likewise.
Allowed(b, ops) ==
    \A asset \in Assets :
        b.allowance[asset] > 0 =>
            \E c \in Intents : /\ ops[c].status = "strayed"
                               /\ c.swapInputAsset = asset
                               /\ b.allowance[asset] <= c.swapInput

HostileOnly(b) == b.routers \subseteq Assets \X Hostile

Good(b, t, ops) == Ledger(b, t, ops) /\ Allowed(b, ops) /\ HostileOnly(b)

\* The operations after a revert.
OpsReverted ==
    IF begun.intent = None
    THEN op
    ELSE [op EXCEPT ![begun.intent] = [target |-> NoAddr, status |-> "failed"]]

SInv == /\ TypeOK
        /\ Good(bank, taken, op)
        /\ ~Idle => Good(begun.bank, begun.taken, OpsReverted)

-----------------------------------------------------------------------------
(* Types.                                                                  *)

LEMMA ConditionTypes ==
    ASSUME NEW c \in Conditions
    PROVE  /\ c.swapInput \in Nat /\ c.swapInput > 0
           /\ c.swapInputAsset \in Assets /\ c.swapOutputAsset \in Assets
           /\ <<c.swapInputAsset, c.swapOutputAsset>> \in Pairs
BY SwapAssumption

LEMMA IntentTypes ==
    ASSUME NEW c \in Intents
    PROVE  /\ c \in Conditions
           /\ c.swapInput \in Nat /\ c.swapInput > 0
           /\ c.swapInputAsset \in Assets
<1>1. c \in Conditions
  BY SwapAssumption
<1> QED
  BY <1>1, ConditionTypes

LEMMA RouteTypes ==
    ASSUME NEW route \in Routes \cup {<<>>}, Len(route) >= 2
    PROVE  route[1] \in Assets /\ route[Len(route)] \in Assets
<1>1. route # <<>>
  OBVIOUS
<1>2. route \in Routes /\ route \in Seq(Assets)
  BY <1>1, SwapAssumption
<1>3. 1 \in 1 .. Len(route) /\ Len(route) \in 1 .. Len(route)
  BY <1>2
<1> QED
  BY <1>2, <1>3

LEMMA BankFields ==
    ASSUME NEW b \in Banks
    PROVE  /\ b.wallet \in [Assets -> Nat] /\ b.held \in [Assets -> Nat]
           /\ b.allowance \in [Assets -> Nat]
           /\ b.routers \subseteq Assets \X Routers
           /\ b = [wallet |-> b.wallet, held |-> b.held,
                   allowance |-> b.allowance, routers |-> b.routers]
BY DEF Banks, Amounts

LEMMA ApprovedFields ==
    ASSUME bank \in Banks, NEW c \in Intents
    PROVE  /\ Approved(c) \in Banks
           /\ Approved(c).wallet = bank.wallet
           /\ Approved(c).held = bank.held
           /\ Approved(c).routers = bank.routers
           /\ Approved(c).allowance =
                  [bank.allowance EXCEPT ![c.swapInputAsset] = c.swapInput]
<1> DEFINE l == [bank.allowance EXCEPT ![c.swapInputAsset] = c.swapInput]
<1>1. l \in [Assets -> Nat]
  BY BankFields, IntentTypes
<1>2. Approved(c) = [bank EXCEPT !.allowance = l]
  BY DEF Approved
<1> HIDE DEF l
<1>3. Approved(c) = [wallet |-> bank.wallet, held |-> bank.held,
                     allowance |-> l, routers |-> bank.routers]
  BY <1>2, BankFields
<1>4. Approved(c) \in Banks
  BY <1>1, <1>3, BankFields DEF Banks, Amounts
<1> QED
  BY <1>3, <1>4 DEF l

LEMMA PulledFields ==
    ASSUME NEW b \in Banks, NEW c, NEW in, in = c.swapInputAsset
    PROVE  Pulled(b, c) =
               [wallet    |-> [b.wallet EXCEPT ![in] = @ - c.swapInput],
                held      |-> [b.held EXCEPT ![in] = @ + c.swapInput],
                allowance |-> [b.allowance EXCEPT ![in] = @ - c.swapInput],
                routers   |-> b.routers]
<1> DEFINE w == [b.wallet EXCEPT ![in] = @ - c.swapInput]
           h == [b.held EXCEPT ![in] = @ + c.swapInput]
           l == [b.allowance EXCEPT ![in] = @ - c.swapInput]
<1>1. Pulled(b, c) = [b EXCEPT !.wallet = w, !.allowance = l, !.held = h]
  BY DEF Pulled
<1> HIDE DEF w, h, l
<1>2. Pulled(b, c) = [wallet |-> w, held |-> h, allowance |-> l,
                      routers |-> b.routers]
  BY <1>1, BankFields
<1> QED
  BY <1>2 DEF w, h, l

-----------------------------------------------------------------------------
(* main.                                                                   *)

\* What main does to the wallet: no more than the input is taken, and the
\* allowance falls by exactly that.
Effect(b, c, after) ==
    /\ after \in Banks
    /\ \A asset \in Assets :
          after.wallet[asset] >= IF asset = c.swapInputAsset
                                 THEN b.wallet[asset] - c.swapInput
                                 ELSE b.wallet[asset]
    /\ \A asset \in Assets :
          after.allowance[asset] = IF asset = c.swapInputAsset
                                   THEN b.allowance[asset] - c.swapInput
                                   ELSE b.allowance[asset]

\* The bank when main calls the router.
AtRouterIs(b, c, r, after) ==
    LET in == c.swapInputAsset IN
    /\ after \in Banks
    /\ after.wallet = [b.wallet EXCEPT ![in] = @ - c.swapInput]
    /\ after.held = [b.held EXCEPT ![in] = @ + c.swapInput]
    /\ after.allowance = [b.allowance EXCEPT ![in] = @ - c.swapInput]
    /\ after.routers = b.routers \cup {<<in, r>>}

LEMMA AtRouterFields ==
    ASSUME NEW b \in Banks, NEW c \in Conditions, NEW r \in Routers,
           CanPull(b, c)
    PROVE  AtRouterIs(b, c, r, AtRouter(b, c, r))
<1> DEFINE in == c.swapInputAsset
           w == [b.wallet EXCEPT ![in] = @ - c.swapInput]
           h == [b.held EXCEPT ![in] = @ + c.swapInput]
           l == [b.allowance EXCEPT ![in] = @ - c.swapInput]
           p == Pulled(b, c)
           rs == b.routers \cup {<<in, r>>}
<1>1. /\ in \in Assets /\ c.swapInput \in Nat
      /\ b.wallet[in] >= c.swapInput /\ b.allowance[in] >= c.swapInput
  BY ConditionTypes DEF CanPull
<1>2. w \in [Assets -> Nat] /\ h \in [Assets -> Nat] /\ l \in [Assets -> Nat]
  BY <1>1, BankFields
<1>3. p = [wallet |-> w, held |-> h, allowance |-> l, routers |-> b.routers]
  BY PulledFields
<1>4. AtRouter(b, c, r) = [p EXCEPT !.routers = p.routers \cup {<<in, r>>}]
  BY DEF AtRouter, Opened
<1>5. rs \subseteq Assets \X Routers
  BY <1>1, BankFields
<1> HIDE DEF w, h, l, p, rs
<1>6. AtRouter(b, c, r) = [wallet |-> w, held |-> h, allowance |-> l,
                           routers |-> rs]
  BY <1>3, <1>4 DEF rs
<1>7. AtRouter(b, c, r) \in Banks
  BY <1>2, <1>5, <1>6 DEF Banks, Amounts
<1> QED
  BY <1>6, <1>7 DEF w, h, l, rs, AtRouterIs

\* A hostile router finds the input in App, and a right to it.
LEMMA StartEffect ==
    ASSUME NEW b \in Banks, HostileOnly(b), NEW c \in Conditions,
           NEW r \in Hostile, CanPull(b, c)
    PROVE  /\ Effect(b, c, AtRouter(b, c, r))
           /\ HostileOnly(AtRouter(b, c, r))
<1> DEFINE in == c.swapInputAsset
           after == AtRouter(b, c, r)
<1>1. in \in Assets /\ c.swapInput \in Nat /\ r \in Routers
  BY ConditionTypes, SwapAssumption
<1>2. AtRouterIs(b, c, r, after)
  BY <1>1, AtRouterFields
<1>3. b.wallet \in [Assets -> Nat] /\ b.allowance \in [Assets -> Nat]
  BY BankFields
<1> HIDE DEF after
<1>4. Effect(b, c, after)
  BY <1>1, <1>2, <1>3 DEF Effect, AtRouterIs
<1>5. HostileOnly(after)
  BY <1>1, <1>2 DEF HostileOnly, AtRouterIs
<1> QED
  BY <1>4, <1>5 DEF after

\* An honest router leaves App what it had: the route has to start with the
\* asset that was pulled, for an honest router is allowed nothing else.
LEMMA MainEffect ==
    ASSUME NEW b \in Banks, HostileOnly(b), NEW c \in Conditions, NEW r,
           NEW paths \in Paths, NEW output \in Nat, NEW caller,
           MainRuns(caller, b, c, r, paths)
    PROVE  LET after == AfterMain(b, c, r, paths, output) IN
           /\ Effect(b, c, after)
           /\ after.held = b.held /\ after.routers = b.routers
<1> DEFINE in      == c.swapInputAsset
           route   == Route(paths, c)
           out     == route[Len(route)]
           amount  == c.swapInput
           less    == [b.wallet EXCEPT ![in] = @ - amount]
           more    == [less EXCEPT ![out] = @ + output]
           one     == [b.held EXCEPT ![in] = @ + amount]
           left    == [b.allowance EXCEPT ![in] = @ - amount]
           opened  == AtRouter(b, c, r)
           swapped == Swapped(opened, c, route, output)
           after   == Closed(swapped, c, r)
<1>1. in \in Assets /\ amount \in Nat
  BY ConditionTypes
<1>2. /\ b.wallet \in [Assets -> Nat] /\ b.allowance \in [Assets -> Nat]
      /\ b.held \in [Assets -> Nat]
      /\ b.wallet[in] >= amount /\ b.allowance[in] >= amount
  BY BankFields DEF MainRuns, MainStarts, CanPull
<1>3. less \in [Assets -> Nat] /\ left \in [Assets -> Nat]
  BY <1>1, <1>2
<1>4. [one EXCEPT ![in] = @ - amount] = b.held
  BY <1>1, <1>2
<1>5. route \in Routes \cup {<<>>}
  BY ConditionTypes DEF Paths, Route
<1>6. /\ r \in Routers /\ r \notin Hostile /\ CanPull(b, c)
      /\ Len(route) >= 2 /\ <<route[1], r>> \in opened.routers
  BY DEF MainRuns, MainStarts, CanSwap
<1>7. after = AfterMain(b, c, r, paths, output)
  BY DEF AfterMain
<1>8. opened \in Banks /\ opened.wallet = less /\ opened.held = one
      /\ opened.allowance = left /\ opened.routers = b.routers \cup {<<in, r>>}
  <2>1. AtRouterIs(b, c, r, opened)
    BY <1>6, AtRouterFields
  <2> HIDE DEF opened
  <2> QED
    BY <2>1 DEF AtRouterIs
<1> HIDE DEF less, one, left, amount, in, opened, route
<1>9. opened = [wallet |-> less, held |-> one, allowance |-> left,
                routers |-> b.routers \cup {<<in, r>>}]
  BY <1>8, BankFields
<1>10. route[1] = in /\ out \in Assets
  <2>1. <<route[1], r>> \notin b.routers
    BY <1>6 DEF HostileOnly
  <2> QED
    BY <1>5, <1>6, <1>8, <2>1, RouteTypes
<1>11. <<in, r>> \notin b.routers
  BY <1>6 DEF HostileOnly
<1> HIDE DEF out
<1>12. more \in [Assets -> Nat]
  BY <1>3, <1>10
<1>13. \A asset \in Assets : more[asset] >= less[asset]
  BY <1>3, <1>10
<1> HIDE DEF more
<1>14. swapped = [wallet |-> more, held |-> b.held, allowance |-> left,
                  routers |-> b.routers \cup {<<in, r>>}]
  <2>1. swapped = [opened EXCEPT
                      !.held = [opened.held EXCEPT ![in] = @ - amount],
                      !.wallet = [opened.wallet EXCEPT ![out] = @ + output]]
    BY <1>10 DEF Swapped, out, amount
  <2>2. [opened.wallet EXCEPT ![out] = @ + output] = more
    BY <1>8 DEF more
  <2>3. [opened.held EXCEPT ![in] = @ - amount] = b.held
    BY <1>4, <1>8
  <2>4. swapped = [opened EXCEPT !.held = b.held, !.wallet = more]
    BY <2>1, <2>2, <2>3
  <2> QED
    BY <1>9, <2>4
<1> HIDE DEF swapped
<1>15. after = [wallet |-> more, held |-> b.held, allowance |-> left,
                routers |-> b.routers]
  <2>1. after = [swapped EXCEPT !.routers = swapped.routers \ {<<in, r>>}]
    BY DEF Closed, in
  <2>2. swapped.routers \ {<<in, r>>} = b.routers
    BY <1>11, <1>14
  <2> QED
    BY <1>14, <2>1, <2>2
<1> HIDE DEF after
<1>16. after \in Banks
  BY <1>2, <1>3, <1>12, <1>15, BankFields DEF Banks, Amounts
<1>17. \A asset \in Assets :
           /\ less[asset] = IF asset = in THEN b.wallet[asset] - amount
                                          ELSE b.wallet[asset]
           /\ left[asset] = IF asset = in THEN b.allowance[asset] - amount
                                          ELSE b.allowance[asset]
  BY <1>2 DEF less, left
<1>18. /\ \A asset \in Assets : after.wallet[asset] >= less[asset]
       /\ after.allowance = left
       /\ after.held = b.held /\ after.routers = b.routers
  BY <1>13, <1>15
<1>19. Effect(b, c, after)
  BY <1>16, <1>17, <1>18 DEF Effect, in, amount
<1> QED
  BY <1>7, <1>18, <1>19

-----------------------------------------------------------------------------
(* What operations were signed for.                                        *)

Own(c) == {c} \X (1 .. c.swapInput)

Having(ops, status, asset) ==
    {d \in Intents : d.swapInputAsset = asset /\ ops[d].status = status}

LEMMA OwnSize ==
    ASSUME NEW c \in Intents
    PROVE  IsFiniteSet(Own(c)) /\ Cardinality(Own(c)) = c.swapInput
<1>1. c.swapInput \in Nat /\ 1 * c.swapInput = c.swapInput
  BY IntentTypes
<1>2. IsFiniteSet({c}) /\ Cardinality({c}) = 1
  BY FS_Singleton
<1>3. IsFiniteSet(1 .. c.swapInput) /\ Cardinality(1 .. c.swapInput) = c.swapInput
  BY <1>1, FS_Interval
<1>4. /\ IsFiniteSet({c} \X (1 .. c.swapInput))
      /\ Cardinality({c} \X (1 .. c.swapInput)) = 1 * c.swapInput
  BY <1>2, <1>3, FS_Product
<1> QED
  BY <1>1, <1>4 DEF Own

\* The total is that of finitely many units.
LEMMA UnitsFinite ==
    ASSUME NEW ops, NEW status, NEW asset
    PROVE  /\ IsFiniteSet(Units(ops, status, asset))
           /\ SignedFor(ops, status, asset) \in Nat
<1> DEFINE having == Having(ops, status, asset)
           family == {Own(c) : c \in having}
           own    == [c \in having |-> Own(c)]
<1>1. IsFiniteSet(having)
  <2>1. having \subseteq Intents
    BY DEF Having
  <2> QED
    BY <2>1, SwapAssumption, FS_Subset
<1>2. own \in Surjection(having, family)
  BY DEF Surjection
<1>3. IsFiniteSet(family)
  BY <1>1, <1>2, FS_Surjection
<1>4. \A units \in family : IsFiniteSet(units)
  BY OwnSize DEF Having
<1>5. IsFiniteSet(UNION family)
  BY <1>3, <1>4, FS_UNION
<1>6. Units(ops, status, asset) = UNION family
  BY DEF Units, Own, Having
<1> QED
  BY <1>5, <1>6, FS_CardinalityType DEF SignedFor

\* An operation that comes to a status adds its input to the total.
LEMMA OneMore ==
    ASSUME NEW status, NEW ops, NEW c \in Intents, ops[c].status # status,
           NEW ops2, ops2[c].status = status,
           \A d \in Intents : d # c => ops2[d].status = ops[d].status,
           NEW asset
    PROVE  SignedFor(ops2, status, asset) =
               IF asset = c.swapInputAsset
               THEN SignedFor(ops, status, asset) + c.swapInput
               ELSE SignedFor(ops, status, asset)
<1> DEFINE units  == Units(ops, status, asset)
           units2 == Units(ops2, status, asset)
<1>1. CASE asset = c.swapInputAsset
  <2>1. Having(ops2, status, asset) = Having(ops, status, asset) \cup {c}
    BY <1>1 DEF Having
  <2>2. units2 = units \cup Own(c)
    BY <2>1 DEF Units, Own, Having
  <2>3. units \cap Own(c) = {}
    BY DEF Units, Own
  <2>4. Cardinality(units \cap Own(c)) = 0
    BY <2>3, FS_EmptySet
  <2>5. /\ IsFiniteSet(Own(c)) /\ Cardinality(Own(c)) = c.swapInput
        /\ c.swapInput \in Nat
        /\ IsFiniteSet(units) /\ Cardinality(units) \in Nat
    BY OwnSize, UnitsFinite, IntentTypes DEF SignedFor
  <2> HIDE DEF units, units2
  <2>6. Cardinality(units \cup Own(c)) =
            Cardinality(units) + Cardinality(Own(c))
                - Cardinality(units \cap Own(c))
    BY <2>5, FS_Union
  <2>7. Cardinality(units2) = Cardinality(units) + c.swapInput - 0
    BY <2>2, <2>4, <2>5, <2>6
  <2>8. \A m, n \in Nat : m + n - 0 = m + n
    OBVIOUS
  <2>9. Cardinality(units2) = Cardinality(units) + c.swapInput
    BY <2>5, <2>7, <2>8
  <2> QED
    BY <1>1, <2>9 DEF SignedFor, units, units2
<1>2. CASE asset # c.swapInputAsset
  <2>1. Having(ops2, status, asset) = Having(ops, status, asset)
    BY <1>2 DEF Having
  <2>2. units2 = units
    BY <2>1 DEF Units, Having
  <2> QED
    BY <1>2, <2>2 DEF SignedFor
<1> QED
  BY <1>1, <1>2

LEMMA NoMore ==
    ASSUME NEW status, NEW ops, NEW ops2,
           \A c \in Intents : ops2[c].status = status <=> ops[c].status = status,
           NEW asset
    PROVE  SignedFor(ops2, status, asset) = SignedFor(ops, status, asset)
BY DEF SignedFor, Units

-----------------------------------------------------------------------------
(* The steps keep what SInv says of bank, taken and op.                    *)

\* An operation of the wallet takes on another status.
LEMMA StatusEffect ==
    ASSUME TypeOK, NEW c \in Intents, NEW o, NEW ops2,
           ops2 = [op EXCEPT ![c] = o]
    PROVE  /\ ops2[c] = o
           /\ \A d \in Intents : d # c => ops2[d] = op[d]
BY DEF TypeOK

LEMMA AmountTypes ==
    ASSUME NEW b \in Banks, NEW t \in Amounts, NEW asset \in Assets
    PROVE  /\ b.wallet[asset] \in Nat /\ b.allowance[asset] \in Nat
           /\ t[asset] \in Nat /\ Funds[asset] \in Nat
BY BankFields, SwapAssumption DEF Amounts

\* Operations that are signed, or fail, change nothing.
LEMMA HarmlessGood ==
    ASSUME NEW b, NEW t, NEW ops, Good(b, t, ops), NEW ops2,
           \A c \in Intents :
              ops2[c].status = ops[c].status \/
              {ops[c].status, ops2[c].status} \subseteq
                  {"unsigned", "signed", "failed"}
    PROVE  Good(b, t, ops2)
<1>1. \A c \in Intents :
          /\ ops2[c].status = "strayed" <=> ops[c].status = "strayed"
          /\ ops2[c].status = "swapped" <=> ops[c].status = "swapped"
  OBVIOUS
<1>2. \A asset :
          /\ SignedFor(ops2, "strayed", asset) = SignedFor(ops, "strayed", asset)
          /\ SignedFor(ops2, "swapped", asset) = SignedFor(ops, "swapped", asset)
  BY <1>1, NoMore
<1> QED
  BY <1>1, <1>2 DEF Good, Ledger, Allowed

\* main takes what the allowance is good for.
LEMMA TakenGood ==
    ASSUME TypeOK, Good(bank, taken, op), NEW c \in Conditions, Take(c),
           Effect(bank, c, bank'), HostileOnly(bank')
    PROVE  Good(bank', taken', op)
<1>1. bank \in Banks /\ taken \in Amounts /\ bank' \in Banks
  BY DEF TypeOK, Effect
<1>2. c.swapInput \in Nat /\ c.swapInputAsset \in Assets
  BY ConditionTypes
<1>3. taken' \in Amounts
  BY <1>1, <1>2 DEF Take, Amounts
<1>4. ASSUME NEW asset \in Assets
      PROVE  /\ taken'[asset] = IF asset = c.swapInputAsset
                                THEN taken[asset] + c.swapInput
                                ELSE taken[asset]
             /\ bank'.allowance[asset] = IF asset = c.swapInputAsset
                                         THEN bank.allowance[asset] - c.swapInput
                                         ELSE bank.allowance[asset]
             /\ bank'.wallet[asset] >= IF asset = c.swapInputAsset
                                       THEN bank.wallet[asset] - c.swapInput
                                       ELSE bank.wallet[asset]
  BY <1>1, <1>2 DEF Take, Effect, Amounts
<1>5. Ledger(bank', taken', op)
  <2> SUFFICES ASSUME NEW asset \in Assets
               PROVE  /\ taken'[asset] + bank'.allowance[asset]
                             <= SignedFor(op, "strayed", asset)
                      /\ bank'.wallet[asset] + taken'[asset]
                             + SignedFor(op, "swapped", asset) >= Funds[asset]
    BY DEF Ledger
  <2>1. /\ taken[asset] + bank.allowance[asset] <= SignedFor(op, "strayed", asset)
        /\ bank.wallet[asset] + taken[asset]
               + SignedFor(op, "swapped", asset) >= Funds[asset]
    BY DEF Good, Ledger
  <2>2. /\ SignedFor(op, "strayed", asset) \in Nat
        /\ SignedFor(op, "swapped", asset) \in Nat
    BY UnitsFinite
  <2>3. /\ bank.wallet[asset] \in Nat /\ bank.allowance[asset] \in Nat
        /\ taken[asset] \in Nat /\ Funds[asset] \in Nat
        /\ bank'.wallet[asset] \in Nat /\ bank'.allowance[asset] \in Nat
        /\ taken'[asset] \in Nat
    BY <1>1, <1>3, AmountTypes
  <2> QED
    BY <1>2, <1>4, <2>1, <2>2, <2>3
<1>6. Allowed(bank', op)
  <2> SUFFICES ASSUME NEW asset \in Assets, bank'.allowance[asset] > 0
               PROVE  \E d \in Intents : /\ op[d].status = "strayed"
                                         /\ d.swapInputAsset = asset
                                         /\ bank'.allowance[asset] <= d.swapInput
    BY DEF Allowed
  <2>1. /\ bank.allowance[asset] \in Nat /\ bank'.allowance[asset] \in Nat
        /\ bank'.allowance[asset] <= bank.allowance[asset]
    BY <1>1, <1>2, <1>4, AmountTypes
  <2>2. PICK d \in Intents : /\ op[d].status = "strayed"
                             /\ d.swapInputAsset = asset
                             /\ bank.allowance[asset] <= d.swapInput
    BY <2>1 DEF Good, Allowed
  <2> QED
    BY <2>1, <2>2, IntentTypes
<1> QED
  BY <1>5, <1>6 DEF Good

\* The batch of c goes through to App.main with d: the allowance it gives is
\* used up if d is what was signed.
LEMMA LaunchedGood ==
    ASSUME TypeOK, Good(bank, taken, op), NEW c \in Intents,
           op[c].status = "signed", NEW d \in Conditions, Launched(c, d),
           Effect(Approved(c), d, bank'), HostileOnly(bank')
    PROVE  Good(bank', taken', op') /\ taken' \in Amounts
<1>1. /\ bank \in Banks /\ taken \in Amounts /\ bank' \in Banks
      /\ op \in [Intents -> Ops]
  BY DEF TypeOK, Effect
<1>2. /\ d.swapInput \in Nat /\ d.swapInputAsset \in Assets
      /\ c.swapInput \in Nat /\ c.swapInputAsset \in Assets
  BY ConditionTypes, IntentTypes
<1>3. taken' \in Amounts
  BY <1>1, <1>2 DEF Launched, Take, Amounts
<1>4. ASSUME NEW asset \in Assets
      PROVE  /\ bank'.allowance[asset] =
                    (IF asset = c.swapInputAsset THEN c.swapInput
                                                 ELSE bank.allowance[asset])
                    - (IF asset = d.swapInputAsset THEN d.swapInput ELSE 0)
             /\ bank'.wallet[asset] >=
                    bank.wallet[asset]
                    - (IF asset = d.swapInputAsset THEN d.swapInput ELSE 0)
  <2>1. /\ Approved(c).wallet[asset] = bank.wallet[asset]
        /\ Approved(c).allowance[asset] = IF asset = c.swapInputAsset
                                          THEN c.swapInput
                                          ELSE bank.allowance[asset]
    BY <1>1, <1>2, ApprovedFields, BankFields
  <2>2. /\ bank'.allowance[asset] = IF asset = d.swapInputAsset
                                    THEN Approved(c).allowance[asset] - d.swapInput
                                    ELSE Approved(c).allowance[asset]
        /\ bank'.wallet[asset] >= IF asset = d.swapInputAsset
                                  THEN Approved(c).wallet[asset] - d.swapInput
                                  ELSE Approved(c).wallet[asset]
    BY DEF Effect
  <2>3. /\ bank.wallet[asset] \in Nat /\ bank.allowance[asset] \in Nat
        /\ bank'.wallet[asset] \in Nat /\ bank'.allowance[asset] \in Nat
    BY <1>1, AmountTypes
  <2> QED
    BY <1>2, <2>1, <2>2, <2>3
<1>5. \A asset \in Assets :
          /\ SignedFor(op, "strayed", asset) \in Nat
          /\ SignedFor(op, "swapped", asset) \in Nat
          /\ bank.wallet[asset] \in Nat /\ bank.allowance[asset] \in Nat
          /\ taken[asset] \in Nat /\ Funds[asset] \in Nat
          /\ bank'.wallet[asset] \in Nat /\ bank'.allowance[asset] \in Nat
          /\ taken'[asset] \in Nat
  BY <1>1, <1>3, AmountTypes, UnitsFinite
<1>6. \A asset \in Assets :
          /\ taken[asset] + bank.allowance[asset] <= SignedFor(op, "strayed", asset)
          /\ bank.wallet[asset] + taken[asset]
                 + SignedFor(op, "swapped", asset) >= Funds[asset]
  BY DEF Good, Ledger
<1>7. ASSUME NEW asset \in Assets, bank.allowance[asset] > 0
      PROVE  \E e \in Intents : /\ e # c /\ op[e].status = "strayed"
                                /\ e.swapInputAsset = asset
                                /\ bank.allowance[asset] <= e.swapInput
  BY <1>7 DEF Good, Allowed
<1>8. CASE d = c /\ Becomes(c, "swapped") /\ UNCHANGED taken
  <2>1. op'[c].status = "swapped" /\ \A e \in Intents : e # c => op'[e] = op[e]
    BY <1>8, StatusEffect DEF Becomes
  <2>2. ASSUME NEW asset \in Assets
        PROVE  /\ SignedFor(op', "swapped", asset) =
                      IF asset = c.swapInputAsset
                      THEN SignedFor(op, "swapped", asset) + c.swapInput
                      ELSE SignedFor(op, "swapped", asset)
               /\ SignedFor(op', "strayed", asset) = SignedFor(op, "strayed", asset)
    BY <2>1, OneMore, NoMore
  <2>3. Ledger(bank', taken', op')
    <3> SUFFICES ASSUME NEW asset \in Assets
                 PROVE  /\ taken'[asset] + bank'.allowance[asset]
                               <= SignedFor(op', "strayed", asset)
                        /\ bank'.wallet[asset] + taken'[asset]
                               + SignedFor(op', "swapped", asset) >= Funds[asset]
      BY DEF Ledger
    <3> QED
      BY <1>2, <1>4, <1>5, <1>6, <1>8, <2>2
  <2>4. Allowed(bank', op')
    <3> SUFFICES ASSUME NEW asset \in Assets, bank'.allowance[asset] > 0
                 PROVE  \E e \in Intents : /\ op'[e].status = "strayed"
                                           /\ e.swapInputAsset = asset
                                           /\ bank'.allowance[asset] <= e.swapInput
      BY DEF Allowed
    <3>1. asset # c.swapInputAsset
      BY <1>2, <1>4, <1>8
    <3>2. bank'.allowance[asset] = bank.allowance[asset]
      BY <1>4, <1>5, <1>8, <3>1
    <3> QED
      BY <1>7, <2>1, <3>2
  <2> QED
    BY <1>3, <2>3, <2>4 DEF Good
<1>9. CASE d # c /\ Becomes(c, "strayed") /\ Take(d)
  <2>1. op'[c].status = "strayed" /\ \A e \in Intents : e # c => op'[e] = op[e]
    BY <1>9, StatusEffect DEF Becomes
  <2>2. ASSUME NEW asset \in Assets
        PROVE  /\ SignedFor(op', "strayed", asset) =
                      IF asset = c.swapInputAsset
                      THEN SignedFor(op, "strayed", asset) + c.swapInput
                      ELSE SignedFor(op, "strayed", asset)
               /\ SignedFor(op', "swapped", asset) = SignedFor(op, "swapped", asset)
    BY <2>1, OneMore, NoMore
  <2>3. \A asset \in Assets :
            taken'[asset] = taken[asset]
                + (IF asset = d.swapInputAsset THEN d.swapInput ELSE 0)
    BY <1>1, <1>2, <1>5, <1>9 DEF Take, Amounts
  <2>4. Ledger(bank', taken', op')
    <3> SUFFICES ASSUME NEW asset \in Assets
                 PROVE  /\ taken'[asset] + bank'.allowance[asset]
                               <= SignedFor(op', "strayed", asset)
                        /\ bank'.wallet[asset] + taken'[asset]
                               + SignedFor(op', "swapped", asset) >= Funds[asset]
      BY DEF Ledger
    <3> QED
      BY <1>2, <1>4, <1>5, <1>6, <2>2, <2>3
  <2>5. Allowed(bank', op')
    <3> SUFFICES ASSUME NEW asset \in Assets, bank'.allowance[asset] > 0
                 PROVE  \E e \in Intents : /\ op'[e].status = "strayed"
                                           /\ e.swapInputAsset = asset
                                           /\ bank'.allowance[asset] <= e.swapInput
      BY DEF Allowed
    <3>1. CASE asset = c.swapInputAsset
      BY <1>2, <1>4, <1>5, <2>1, <3>1
    <3>2. CASE asset # c.swapInputAsset
      <4>1. bank'.allowance[asset] <= bank.allowance[asset]
        BY <1>2, <1>4, <1>5, <3>2
      <4>2. PICK e \in Intents : /\ e # c /\ op[e].status = "strayed"
                                 /\ e.swapInputAsset = asset
                                 /\ bank.allowance[asset] <= e.swapInput
        BY <1>5, <1>7, <4>1
      <4> QED
        BY <1>5, <2>1, <4>1, <4>2, IntentTypes
    <3> QED
      BY <3>1, <3>2
  <2> QED
    BY <1>3, <2>4, <2>5 DEF Good
<1> QED
  BY <1>8, <1>9 DEF Launched

\* The batch of c goes through without App.main: its allowance is left.
LEMMA ApprovedGood ==
    ASSUME TypeOK, Good(bank, taken, op), NEW c \in Intents,
           op[c].status = "signed", Becomes(c, "strayed")
    PROVE  Good(Approved(c), taken, op')
<1>1. /\ bank \in Banks /\ taken \in Amounts /\ op \in [Intents -> Ops]
      /\ c.swapInput \in Nat /\ c.swapInputAsset \in Assets
  BY IntentTypes DEF TypeOK
<1>2. op'[c].status = "strayed" /\ \A e \in Intents : e # c => op'[e] = op[e]
  <2>1. op' = [op EXCEPT ![c] = [target |-> NoAddr, status |-> "strayed"]]
    BY DEF Becomes
  <2> QED
    BY <1>1, <2>1
<1>3. /\ Approved(c).wallet = bank.wallet
      /\ Approved(c).routers = bank.routers
      /\ \A asset \in Assets :
            Approved(c).allowance[asset] = IF asset = c.swapInputAsset
                                           THEN c.swapInput
                                           ELSE bank.allowance[asset]
  BY <1>1, ApprovedFields, BankFields
<1>4. ASSUME NEW asset \in Assets
      PROVE  /\ SignedFor(op', "strayed", asset) =
                    IF asset = c.swapInputAsset
                    THEN SignedFor(op, "strayed", asset) + c.swapInput
                    ELSE SignedFor(op, "strayed", asset)
             /\ SignedFor(op', "swapped", asset) = SignedFor(op, "swapped", asset)
  BY <1>2, OneMore, NoMore
<1>5. Ledger(Approved(c), taken, op')
  <2> SUFFICES ASSUME NEW asset \in Assets
               PROVE  /\ taken[asset] + Approved(c).allowance[asset]
                             <= SignedFor(op', "strayed", asset)
                      /\ Approved(c).wallet[asset] + taken[asset]
                             + SignedFor(op', "swapped", asset) >= Funds[asset]
    BY DEF Ledger
  <2>1. /\ taken[asset] + bank.allowance[asset] <= SignedFor(op, "strayed", asset)
        /\ bank.wallet[asset] + taken[asset]
               + SignedFor(op, "swapped", asset) >= Funds[asset]
    BY DEF Good, Ledger
  <2>2. /\ SignedFor(op, "strayed", asset) \in Nat
        /\ bank.allowance[asset] \in Nat /\ taken[asset] \in Nat
    BY <1>1, AmountTypes, UnitsFinite
  <2> QED
    BY <1>1, <1>3, <1>4, <2>1, <2>2
<1>6. Allowed(Approved(c), op')
  <2> SUFFICES ASSUME NEW asset \in Assets, Approved(c).allowance[asset] > 0
               PROVE  \E e \in Intents :
                          /\ op'[e].status = "strayed"
                          /\ e.swapInputAsset = asset
                          /\ Approved(c).allowance[asset] <= e.swapInput
    BY DEF Allowed
  <2>1. CASE asset = c.swapInputAsset
    BY <1>1, <1>2, <1>3, <2>1
  <2>2. CASE asset # c.swapInputAsset
    <3>1. Approved(c).allowance[asset] = bank.allowance[asset]
      BY <1>3, <2>2
    <3>2. PICK e \in Intents : /\ e # c /\ op[e].status = "strayed"
                               /\ e.swapInputAsset = asset
                               /\ bank.allowance[asset] <= e.swapInput
      BY <3>1 DEF Good, Allowed
    <3> QED
      BY <1>2, <3>1, <3>2
  <2> QED
    BY <2>1, <2>2
<1> QED
  BY <1>3, <1>5, <1>6 DEF Good, HostileOnly

-----------------------------------------------------------------------------
(* SInv is inductive.                                                      *)

LEMMA InitSInv == Init => SInv
<1> SUFFICES ASSUME Init PROVE SInv
  OBVIOUS
<1>1. Nothing \in Amounts /\ Funds \in Amounts
  BY SwapAssumption DEF Nothing, Amounts
<1>2. bank \in Banks
  BY <1>1 DEF Init, Banks
<1>3. op \in [Intents -> Ops]
  BY DEF Init, Ops, Callees
<1>4. TypeOK
  BY <1>1, <1>2, <1>3 DEF Init, TypeOK, Idle, Callees, Paths
<1>5. Ledger(bank, taken, op)
  <2> SUFFICES ASSUME NEW asset \in Assets
               PROVE  /\ taken[asset] + bank.allowance[asset]
                             <= SignedFor(op, "strayed", asset)
                      /\ bank.wallet[asset] + taken[asset]
                             + SignedFor(op, "swapped", asset) >= Funds[asset]
    BY DEF Ledger
  <2>1. /\ SignedFor(op, "strayed", asset) \in Nat
        /\ SignedFor(op, "swapped", asset) \in Nat
    BY UnitsFinite
  <2>2. taken[asset] = 0 /\ bank.allowance[asset] = 0
        /\ bank.wallet[asset] = Funds[asset] /\ Funds[asset] \in Nat
    BY SwapAssumption DEF Init, Nothing
  <2> QED
    BY <2>1, <2>2
<1>6. Allowed(bank, op) /\ HostileOnly(bank)
  BY DEF Init, Nothing, Allowed, HostileOnly
<1> QED
  BY <1>4, <1>5, <1>6 DEF Good, SInv, Init, Idle

\* Steps that neither enter nor leave main, and use up no operation.
LEMMA PlainSInv ==
    ASSUME SInv, UNCHANGED <<op, calls, begun>>,
           Good(bank', taken', op), bank' \in Banks, taken' \in Amounts,
           pathOptimization' \in Paths, router' \in Routers \cup {NoAddr},
           appLauncher' \in Callees
    PROVE  SInv'
BY DEF SInv, TypeOK, Idle, OpsReverted

\* Tokens that come and go, but for App's right to the wallet's.
LEMMA BalancesSInv ==
    ASSUME SInv, UNCHANGED <<setup, op, taken>>,
           bank' \in Banks, HostileOnly(bank'),
           bank'.allowance = bank.allowance,
           \A asset \in Assets : bank'.wallet[asset] >= bank.wallet[asset]
    PROVE  Good(bank', taken', op)
<1>1. Ledger(bank', taken', op)
  <2> SUFFICES ASSUME NEW asset \in Assets
               PROVE  /\ taken[asset] + bank.allowance[asset]
                             <= SignedFor(op, "strayed", asset)
                      /\ bank'.wallet[asset] + taken[asset]
                             + SignedFor(op, "swapped", asset) >= Funds[asset]
    BY DEF Ledger
  <2>1. /\ taken[asset] + bank.allowance[asset] <= SignedFor(op, "strayed", asset)
        /\ bank.wallet[asset] + taken[asset]
               + SignedFor(op, "swapped", asset) >= Funds[asset]
    BY DEF SInv, Good, Ledger
  <2>2. /\ bank.wallet[asset] \in Nat /\ taken[asset] \in Nat
        /\ bank'.wallet[asset] \in Nat /\ Funds[asset] \in Nat
        /\ SignedFor(op, "swapped", asset) \in Nat
    BY AmountTypes, UnitsFinite DEF SInv, TypeOK
  <2>3. bank'.wallet[asset] >= bank.wallet[asset]
    OBVIOUS
  <2> QED
    BY <2>1, <2>2, <2>3
<1>2. Allowed(bank', op)
  BY DEF SInv, Good, Allowed
<1> QED
  BY <1>1, <1>2 DEF Good

LEMMA SettingSInv == ASSUME SInv, Setting PROVE SInv'
<1>1. UNCHANGED <<bank, op, taken, calls, begun>>
  BY DEF Setting, SetLauncher, SetRouter, SetPath
<1>2. /\ appLauncher' \in Callees
      /\ router' \in Routers \cup {NoAddr}
      /\ pathOptimization' \in Paths
  BY DEF Setting, SetLauncher, SetRouter, SetPath, SInv, TypeOK, Paths
<1> QED
  BY <1>1, <1>2, PlainSInv DEF SInv, TypeOK

LEMMA SignSInv == ASSUME SInv, NEW c \in Intents, Sign(c) PROVE SInv'
<1>1. /\ Idle /\ op[c].status = "unsigned"
      /\ op' = [op EXCEPT ![c] = [target |-> appLauncher, status |-> "signed"]]
      /\ UNCHANGED <<setup, bank, taken, calls, begun>>
  BY DEF Sign
<1>2. op \in [Intents -> Ops] /\ appLauncher \in Callees
  BY DEF SInv, TypeOK
<1>3. op' \in [Intents -> Ops]
  BY <1>1, <1>2 DEF Ops
<1>4. op'[c].status = "signed" /\ \A d \in Intents : d # c => op'[d] = op[d]
  BY <1>1, <1>2
<1>5. Good(bank, taken, op')
  <2>1. \A d \in Intents :
            op'[d].status = op[d].status \/
            {op[d].status, op'[d].status} \subseteq
                {"unsigned", "signed", "failed"}
    BY <1>1, <1>4
  <2>2. Good(bank, taken, op)
    BY DEF SInv
  <2> QED
    BY <2>1, <2>2, HarmlessGood
<1> QED
  BY <1>1, <1>3, <1>5 DEF SInv, TypeOK, Idle, setup

\* main gets to a hostile router, for whatever wallet.
LEMMA EnterSInv ==
    ASSUME SInv, NEW c \in Conditions, Enter(c), UNCHANGED <<setup, op>>,
           Good(bank', taken', op), bank' \in Banks, taken' \in Amounts
    PROVE  SInv'
<1>1. calls' \in Seq(Conditions) /\ calls' # <<>>
  BY DEF Enter, SInv, TypeOK
<1>2. begun' \in Snapshots
  <2>1. CASE Idle
    BY <2>1 DEF Enter, Begin, SInv, TypeOK, Snapshots
  <2>2. CASE ~Idle
    BY <2>2 DEF Enter, Begin, SInv, TypeOK
  <2> QED
    BY <2>1, <2>2
<1>3. TypeOK'
  BY <1>1, <1>2 DEF SInv, TypeOK, Idle, setup
<1>4. Good(begun'.bank, begun'.taken, OpsReverted')
  <2>1. CASE Idle
    <3>1. /\ begun'.bank = bank /\ begun'.taken = taken
          /\ begun'.intent = None
      BY <2>1 DEF Enter, Begin
    <3>2. OpsReverted' = op
      BY <3>1 DEF OpsReverted
    <3> QED
      BY <3>1, <3>2 DEF SInv
  <2>2. CASE ~Idle
    BY <2>2 DEF Enter, Begin, SInv, OpsReverted
  <2> QED
    BY <2>1, <2>2
<1> QED
  BY <1>3, <1>4 DEF SInv

LEMMA StrangerSInv ==
    ASSUME SInv, NEW caller, NEW c \in Conditions, NEW output \in Outputs,
           MainByStranger(caller, c, output)
    PROVE  SInv'
<1>1. /\ bank \in Banks /\ pathOptimization \in Paths /\ output \in Nat
      /\ HostileOnly(bank) /\ Good(bank, taken, op) /\ TypeOK
      /\ taken \in Amounts
  BY SwapAssumption DEF SInv, TypeOK, Good
<1>2. taken' \in Amounts /\ Take(c) /\ UNCHANGED <<setup, op>>
  <2>1. c.swapInput \in Nat /\ c.swapInputAsset \in Assets
    BY ConditionTypes
  <2>2. Take(c) /\ UNCHANGED <<setup, op>>
    BY DEF MainByStranger
  <2> QED
    BY <1>1, <2>1, <2>2 DEF Take, Amounts
<1>3. CASE /\ MainRuns(caller, bank, c, router, pathOptimization)
           /\ bank' = AfterMain(bank, c, router, pathOptimization, output)
           /\ UNCHANGED <<calls, begun>>
  <2>1. Effect(bank, c, bank') /\ bank'.routers = bank.routers
    BY <1>1, <1>3, MainEffect
  <2>2. HostileOnly(bank') /\ bank' \in Banks
    BY <1>1, <2>1 DEF HostileOnly, Effect
  <2>3. Good(bank', taken', op)
    BY <1>1, <1>2, <2>1, <2>2, TakenGood
  <2> QED
    BY <1>2, <1>3, <2>2, <2>3, PlainSInv DEF setup, SInv, TypeOK
<1>4. CASE /\ MainStarts(caller, bank, c, router, pathOptimization)
           /\ router \in Hostile
           /\ bank' = AtRouter(bank, c, router)
           /\ Enter(c)
  <2>1. Effect(bank, c, bank') /\ HostileOnly(bank')
    BY <1>1, <1>4, StartEffect DEF MainStarts
  <2>2. Good(bank', taken', op) /\ bank' \in Banks
    BY <1>1, <1>2, <2>1, TakenGood DEF Effect
  <2> QED
    BY <1>2, <1>4, <2>2, EnterSInv
<1> QED
  BY <1>3, <1>4 DEF MainByStranger

LEMMA ElsewhereSInv ==
    ASSUME SInv, NEW c \in Conditions, MainElsewhere(c)
    PROVE  SInv'
<1> DEFINE in == c.swapInputAsset
           h == [bank.held EXCEPT ![in] = @ + c.swapInput]
           lent == [bank EXCEPT !.held[in] = @ + c.swapInput]
<1>1. /\ bank \in Banks /\ HostileOnly(bank) /\ taken' \in Amounts
      /\ in \in Assets /\ c.swapInput \in Nat
      /\ router \in Hostile /\ router \in Routers
      /\ UNCHANGED <<setup, op, taken>>
  BY ConditionTypes, SwapAssumption DEF SInv, TypeOK, Good, MainElsewhere
<1>2. h \in Amounts
  BY <1>1, BankFields DEF Amounts
<1>3. lent = [bank EXCEPT !.held = h]
  OBVIOUS
<1>4. bank' = Opened(lent, c, router)
  BY DEF MainElsewhere
<1> HIDE DEF h, lent
<1>5. lent = [wallet |-> bank.wallet, held |-> h, allowance |-> bank.allowance,
              routers |-> bank.routers]
  BY <1>1, <1>3, BankFields
<1>6. bank' = [wallet |-> bank.wallet, held |-> h,
               allowance |-> bank.allowance,
               routers |-> bank.routers \cup {<<in, router>>}]
  BY <1>4, <1>5 DEF Opened
<1>7. bank.routers \cup {<<in, router>>} \subseteq Assets \X Routers
  BY <1>1, BankFields
<1>8. bank' \in Banks
  BY <1>1, <1>2, <1>6, <1>7, BankFields DEF Banks, Amounts
<1>9. HostileOnly(bank')
  BY <1>1, <1>6 DEF HostileOnly
<1>10. \A asset \in Assets : bank'.wallet[asset] >= bank.wallet[asset]
  BY <1>1, <1>6, AmountTypes DEF SInv, TypeOK
<1>11. bank'.allowance = bank.allowance
  BY <1>6
<1>12. Good(bank', taken', op)
  BY <1>1, <1>8, <1>9, <1>10, <1>11, BalancesSInv
<1>13. Enter(c)
  BY DEF MainElsewhere
<1> QED
  BY <1>1, <1>8, <1>12, <1>13, EnterSInv

LEMMA TakeTokensSInv ==
    ASSUME SInv, NEW asset \in Assets, NEW r, NEW amount \in Nat,
           TakeTokens(asset, r, amount)
    PROVE  SInv'
<1> DEFINE h == [bank.held EXCEPT ![asset] = @ - amount]
<1>1. /\ bank \in Banks /\ HostileOnly(bank) /\ amount <= bank.held[asset]
      /\ UNCHANGED <<setup, op, taken, calls, begun>>
      /\ taken' \in Amounts /\ bank.held \in [Assets -> Nat]
  BY BankFields DEF SInv, TypeOK, Good, TakeTokens
<1>2. h \in Amounts
  BY <1>1 DEF Amounts
<1>3. bank' = [bank EXCEPT !.held = h]
  BY DEF TakeTokens
<1> HIDE DEF h
<1>4. bank' = [wallet |-> bank.wallet, held |-> h, allowance |-> bank.allowance,
               routers |-> bank.routers]
  BY <1>1, <1>3, BankFields
<1>5. bank' \in Banks
  BY <1>1, <1>2, <1>4, BankFields DEF Banks, Amounts
<1>6. HostileOnly(bank')
  BY <1>1, <1>4 DEF HostileOnly
<1>7. \A a \in Assets : bank'.wallet[a] >= bank.wallet[a]
  BY <1>1, <1>4, AmountTypes DEF SInv, TypeOK
<1>8. bank'.allowance = bank.allowance
  BY <1>4
<1>9. Good(bank', taken', op)
  BY <1>1, <1>5, <1>6, <1>7, <1>8, BalancesSInv
<1> QED
  BY <1>1, <1>5, <1>9, PlainSInv DEF SInv, TypeOK, setup

LEMMA GiftSInv ==
    ASSUME SInv, NEW asset \in Assets, NEW amount \in Nat, Gift(asset, amount)
    PROVE  SInv'
<1> DEFINE w == [bank.wallet EXCEPT ![asset] = @ + amount]
<1>1. /\ bank \in Banks /\ HostileOnly(bank)
      /\ UNCHANGED <<setup, op, taken, calls, begun>>
      /\ taken' \in Amounts /\ bank.wallet \in [Assets -> Nat]
  BY BankFields DEF SInv, TypeOK, Good, Gift
<1>2. w \in Amounts
  BY <1>1 DEF Amounts
<1>3. \A a \in Assets : w[a] >= bank.wallet[a]
  BY <1>1
<1>4. bank' = [bank EXCEPT !.wallet = w]
  BY DEF Gift
<1> HIDE DEF w
<1>5. bank' = [wallet |-> w, held |-> bank.held, allowance |-> bank.allowance,
               routers |-> bank.routers]
  BY <1>1, <1>4, BankFields
<1>6. bank' \in Banks
  BY <1>1, <1>2, <1>5, BankFields DEF Banks, Amounts
<1>7. HostileOnly(bank')
  BY <1>1, <1>5 DEF HostileOnly
<1>8. bank'.allowance = bank.allowance /\ bank'.wallet = w
  BY <1>5
<1>9. Good(bank', taken', op)
  BY <1>1, <1>3, <1>6, <1>7, <1>8, BalancesSInv
<1> QED
  BY <1>1, <1>6, <1>9, PlainSInv DEF SInv, TypeOK, setup

\* An operation is handled, whatever paths and router were set before.
LEMMA HandleOpSInv ==
    ASSUME SInv, NEW c \in Intents, NEW d \in Conditions \cup {None},
           NEW promise, NEW timestamp, NEW paths \in Paths,
           NEW r \in Routers \cup {NoAddr}, NEW output \in Outputs,
           HandleOp(c, d, promise, timestamp, paths, r, output),
           pathOptimization' = paths, router' = r, UNCHANGED appLauncher
    PROVE  SInv'
<1>1. /\ TypeOK /\ Idle /\ op[c].status = "signed" /\ output \in Nat
      /\ bank \in Banks /\ taken \in Amounts /\ op \in [Intents -> Ops]
      /\ Good(bank, taken, op) /\ HostileOnly(bank) /\ begun = None
      /\ appLauncher \in Callees /\ c # None
  BY SwapAssumption DEF SInv, TypeOK, Good, HandleOp
<1>2. ASSUME NEW status \in {"swapped", "strayed", "failed"}, Becomes(c, status)
      PROVE  op' \in [Intents -> Ops]
  BY <1>1, <1>2 DEF Becomes, Ops, Callees
<1>3. ASSUME bank' \in Banks, taken' \in Amounts, op' \in [Intents -> Ops],
             Good(bank', taken', op'), UNCHANGED <<calls, begun>>
      PROVE  SInv'
  BY <1>1, <1>3 DEF SInv, TypeOK, Idle
<1>4. Approved(c) \in Banks /\ HostileOnly(Approved(c))
  BY <1>1, ApprovedFields DEF HostileOnly
<1>5. ASSUME d # None, Launched(c, d), bank' \in Banks, HostileOnly(bank'),
             Effect(Approved(c), d, bank')
      PROVE  /\ Good(bank', taken', op') /\ taken' \in Amounts
             /\ op' \in [Intents -> Ops]
  <2>1. d \in Conditions
    BY <1>5
  <2>2. op' \in [Intents -> Ops]
    BY <1>2, <1>5 DEF Launched
  <2> QED
    BY <1>1, <1>5, <2>1, <2>2, LaunchedGood
<1>6. CASE d # None /\ Runs(c, d, promise, timestamp, paths, r, output)
  <2>1. /\ MainRuns(Launcher, Approved(c), d, r, paths)
        /\ bank' = AfterMain(Approved(c), d, r, paths, output)
        /\ Launched(c, d) /\ UNCHANGED <<calls, begun>> /\ d \in Conditions
    BY <1>6 DEF Runs
  <2>2. Effect(Approved(c), d, bank') /\ bank'.routers = Approved(c).routers
    BY <1>1, <1>4, <2>1, MainEffect
  <2>3. HostileOnly(bank') /\ bank' \in Banks
    BY <1>4, <2>2 DEF HostileOnly, Effect
  <2> QED
    BY <1>3, <1>5, <1>6, <2>1, <2>2, <2>3
<1>7. CASE d # None /\ Starts(c, d, paths, r)
  <2>1. /\ MainStarts(Launcher, Approved(c), d, r, paths) /\ r \in Hostile
        /\ bank' = AtRouter(Approved(c), d, r) /\ Launched(c, d)
        /\ calls' = <<d>> /\ d \in Conditions
        /\ begun' = [intent |-> c, bank |-> bank, taken |-> taken,
                     paths |-> paths, router |-> r, appLauncher |-> appLauncher]
    BY <1>7 DEF Starts
  <2>2. Effect(Approved(c), d, bank') /\ HostileOnly(bank')
    BY <1>4, <2>1, StartEffect DEF MainStarts
  <2>3. bank' \in Banks
    BY <2>2 DEF Effect
  <2>4. /\ Good(bank', taken', op') /\ taken' \in Amounts
        /\ op' \in [Intents -> Ops]
    BY <1>5, <1>7, <2>1, <2>2, <2>3
  <2>5. begun' \in Snapshots
    BY <1>1, <2>1 DEF Snapshots
  <2>6. calls' \in Seq(Conditions) /\ calls' # <<>>
    BY <2>1
  <2>7. TypeOK'
    BY <1>1, <2>3, <2>4, <2>5, <2>6 DEF TypeOK, Idle
  <2>8. Good(bank, taken, OpsReverted')
    <3>1. OpsReverted' = [op' EXCEPT ![c] = [target |-> NoAddr,
                                             status |-> "failed"]]
      BY <1>1, <2>1 DEF OpsReverted
    <3>2. \A e \in Intents : e # c => op'[e] = op[e]
      BY <1>1, <2>1 DEF Launched, Becomes
    <3>3. /\ OpsReverted'[c].status = "failed"
          /\ \A e \in Intents : e # c => OpsReverted'[e] = op'[e]
      BY <2>4, <3>1
    <3> DEFINE ops2 == OpsReverted'
    <3>4. \A e \in Intents :
              ops2[e].status = op[e].status \/
              {op[e].status, ops2[e].status} \subseteq
                  {"unsigned", "signed", "failed"}
      BY <1>1, <3>2, <3>3
    <3> HIDE DEF ops2
    <3>5. Good(bank, taken, ops2)
      BY <1>1, <3>4, HarmlessGood
    <3> QED
      BY <3>5 DEF ops2
  <2>9. begun'.bank = bank /\ begun'.taken = taken
    BY <2>1
  <2> QED
    BY <2>4, <2>7, <2>8, <2>9 DEF SInv
<1>8. CASE /\ bank' = Approved(c) /\ Becomes(c, "strayed")
           /\ UNCHANGED <<taken, calls, begun>>
  <2>1. Good(bank', taken', op')
    BY <1>1, <1>8, ApprovedGood
  <2> QED
    BY <1>1, <1>2, <1>3, <1>4, <1>8, <2>1
<1>9. CASE /\ bank' = Undone(c) /\ Becomes(c, "failed")
           /\ UNCHANGED <<taken, calls, begun>>
  <2>1. op'[c].status = "failed" /\ \A e \in Intents : e # c => op'[e] = op[e]
    BY <1>1, <1>9 DEF Becomes
  <2> DEFINE ops2 == op'
  <2>2. \A e \in Intents :
            ops2[e].status = op[e].status \/
            {op[e].status, ops2[e].status} \subseteq
                {"unsigned", "signed", "failed"}
    BY <1>1, <2>1
  <2> HIDE DEF ops2
  <2>3. Good(bank, taken, ops2)
    BY <1>1, <2>2, HarmlessGood
  <2>4. Good(bank', taken', op')
    BY <1>9, <2>3 DEF ops2, Undone
  <2>5. op' \in [Intents -> Ops]
    BY <1>2, <1>9
  <2> QED
    BY <1>1, <1>3, <1>9, <2>4, <2>5 DEF Undone
<1> QED
  BY <1>6, <1>7, <1>8, <1>9 DEF HandleOp

LEMMA ExecutingSInv == ASSUME SInv, Executing PROVE SInv'
<1>1. PICK c \in Intents, d \in Conditions \cup {None}, promise \in Promises,
           timestamp \in Timestamps, output \in Outputs :
          \/ HandleOps(c, d, promise, timestamp, output)
          \/ \E r \in Routers \cup {NoAddr}, route \in Routes :
                 /\ <<route[1], route[Len(route)]>> \in Pairs
                 /\ HelperRun(c, d, r, route, promise, timestamp, output)
  BY DEF Executing
<1>2. CASE HandleOps(c, d, promise, timestamp, output)
  <2>1. /\ HandleOp(c, d, promise, timestamp, pathOptimization, router, output)
        /\ UNCHANGED setup
    BY <1>2 DEF HandleOps
  <2> QED
    BY <2>1, HandleOpSInv DEF SInv, TypeOK, setup
<1>3. ASSUME NEW r \in Routers \cup {NoAddr}, NEW route \in Routes,
             <<route[1], route[Len(route)]>> \in Pairs,
             HelperRun(c, d, r, route, promise, timestamp, output)
      PROVE  SInv'
  <2>1. /\ HandleOp(c, d, promise, timestamp, pathOptimization', r, output)
        /\ pathOptimization' = [pathOptimization EXCEPT
               ![<<route[1], route[Len(route)]>>] = route]
        /\ router' = r /\ UNCHANGED appLauncher
    BY <1>3 DEF HelperRun
  <2> DEFINE paths == pathOptimization'
  <2>2. paths \in Paths
    BY <2>1 DEF SInv, TypeOK, Paths
  <2> HIDE DEF paths
  <2>3. HandleOp(c, d, promise, timestamp, paths, r, output)
        /\ pathOptimization' = paths
    BY <2>1 DEF paths
  <2> QED
    BY <2>1, <2>2, <2>3, HandleOpSInv
<1> QED
  BY <1>1, <1>2, <1>3

\* main is through with its router, and gives App nothing new.
LEMMA ReturnsSInv ==
    ASSUME SInv, NEW promise, NEW timestamp, MainReturns(promise, timestamp)
    PROVE  SInv'
<1> DEFINE rs == bank.routers \ {<<Head(calls).swapInputAsset, router>>}
<1>1. /\ bank \in Banks /\ HostileOnly(bank) /\ taken \in Amounts
      /\ calls \in Seq(Conditions) /\ calls # <<>> /\ calls' = Tail(calls)
      /\ UNCHANGED <<setup, op, taken>> /\ begun \in Snapshots
      /\ Good(begun.bank, begun.taken, OpsReverted)
  BY DEF SInv, TypeOK, Good, MainReturns, Idle
<1>2. bank' = [bank EXCEPT !.routers = rs]
  BY DEF MainReturns, Closed
<1> HIDE DEF rs
<1>3. bank' = [wallet |-> bank.wallet, held |-> bank.held,
               allowance |-> bank.allowance, routers |-> rs]
  BY <1>1, <1>2, BankFields
<1>4. rs \subseteq bank.routers
  BY DEF rs
<1>5. bank' \in Banks /\ HostileOnly(bank')
  BY <1>1, <1>3, <1>4, BankFields DEF Banks, Amounts, HostileOnly
<1>6. Good(bank', taken', op)
  <2>1. \A asset \in Assets : bank'.wallet[asset] >= bank.wallet[asset]
    BY <1>1, <1>3, AmountTypes
  <2> QED
    BY <1>1, <1>3, <1>5, <2>1, BalancesSInv
<1>7. calls' \in Seq(Conditions)
  BY <1>1
<1>8. CASE Len(calls) = 1
  <2>1. calls' = <<>> /\ begun' = None
    BY <1>1, <1>8 DEF MainReturns
  <2> QED
    BY <1>1, <1>5, <1>6, <1>7, <2>1 DEF SInv, TypeOK, Idle, setup
<1>9. CASE Len(calls) # 1
  <2>1. calls' # <<>> /\ begun' = begun
    <3>1. Len(Tail(calls)) = Len(calls) - 1 /\ Len(calls) \in Nat
      BY <1>1
    <3>2. Tail(calls) # <<>>
      <4>1. Len(Tail(calls)) # 0
        BY <1>9, <3>1
      <4>2. Len(<<>>) = 0
        OBVIOUS
      <4> QED
        BY <4>1, <4>2, Zenon
    <3>3. begun' = begun
      BY <1>9 DEF MainReturns
    <3> QED
      BY <1>1, <3>2, <3>3
  <2>2. OpsReverted' = OpsReverted
    BY <1>1, <2>1 DEF OpsReverted
  <2> QED
    BY <1>1, <1>5, <1>6, <1>7, <2>1, <2>2 DEF SInv, TypeOK, Idle, setup
<1> QED
  BY <1>8, <1>9

LEMMA RevertsSInv == ASSUME SInv, Reverts PROVE SInv'
<1>1. /\ ~Idle /\ begun \in Snapshots /\ op \in [Intents -> Ops]
      /\ Good(begun.bank, begun.taken, OpsReverted)
  BY DEF SInv, TypeOK, Reverts
<1>2. /\ bank' = begun.bank /\ taken' = begun.taken /\ op' = OpsReverted
      /\ pathOptimization' = begun.paths /\ router' = begun.router
      /\ appLauncher' = begun.appLauncher
      /\ calls' = <<>> /\ begun' = None
  BY DEF Reverts, Restored, OpsReverted
<1>3. OpsReverted \in [Intents -> Ops]
  BY <1>1 DEF OpsReverted, Snapshots, Ops, Callees
<1>4. TypeOK'
  BY <1>1, <1>2, <1>3 DEF TypeOK, Snapshots, Idle
<1> QED
  BY <1>1, <1>2, <1>4 DEF SInv, Idle

LEMMA NextSInv == SInv /\ [Next]_vars => SInv'
<1> SUFFICES ASSUME SInv, [Next]_vars PROVE SInv'
  OBVIOUS
<1>1. CASE Setting
  BY <1>1, SettingSInv
<1>2. CASE Executing
  BY <1>2, ExecutingSInv
<1>3. CASE Calling
  BY <1>3, StrangerSInv, ElsewhereSInv DEF Calling
<1>4. CASE Moving
  <2>1. 1 .. MaxHoldings \subseteq Nat
    BY SwapAssumption
  <2> QED
    BY <1>4, <2>1, TakeTokensSInv, GiftSInv DEF Moving
<1>5. CASE Ending
  BY <1>5, ReturnsSInv, RevertsSInv DEF Ending
<1>6. CASE \E c \in Intents : Sign(c)
  BY <1>6, SignSInv
<1>7. CASE UNCHANGED vars
  <2>1. UNCHANGED <<pathOptimization, router, appLauncher, bank, op, taken,
                    calls, begun>>
    BY <1>7 DEF vars, setup
  <2> QED
    BY <2>1, PlainSInv DEF SInv, TypeOK
<1> QED
  BY <1>1, <1>2, <1>3, <1>4, <1>5, <1>6, <1>7 DEF Next

THEOREM SwapInvariance == Spec => []SInv
<1>1. Init => SInv
  BY InitSInv
<1>2. SInv /\ [Next]_vars => SInv'
  BY NextSInv
<1> QED
  BY <1>1, <1>2, PTL DEF Spec

-----------------------------------------------------------------------------
(* The theorems.                                                           *)

\* No balance and no allowance goes below zero, and a waiting transaction
\* knows what to go back to, whatever is pulled, swapped, paid and reverted.
THEOREM SwapTypeCorrect == Spec => []TypeOK
<1>1. SInv => TypeOK
  BY DEF SInv
<1> QED
  BY <1>1, SwapInvariance, PTL

\* Whoever sets App up, calls main and routes its swaps, what leaves the wallet
\* other than by a run of what it signed is covered by operations that strayed.
THEOREM StraysPayForTaken == Spec => []TakenOnlyFromStrays
<1>1. SInv => TakenOnlyFromStrays
  <2> SUFFICES ASSUME SInv, NEW asset \in Assets
               PROVE  taken[asset] <= SignedFor(op, "strayed", asset)
    BY DEF TakenOnlyFromStrays
  <2>1. taken[asset] + bank.allowance[asset] <= SignedFor(op, "strayed", asset)
    BY DEF SInv, Good, Ledger
  <2>2. /\ taken[asset] \in Nat /\ bank.allowance[asset] \in Nat
        /\ SignedFor(op, "strayed", asset) \in Nat
    BY AmountTypes, UnitsFinite DEF SInv, TypeOK
  <2> QED
    BY <2>1, <2>2
<1> QED
  BY <1>1, SwapInvariance, PTL

\* Of each token the wallet keeps what it did not sign away by an operation
\* that went through, whatever routes, routers and failed runs it came across.
THEOREM WalletKeepsTheRest == Spec => []RestIsKept
<1>1. SInv => RestIsKept
  <2> SUFFICES ASSUME SInv, NEW asset \in Assets
               PROVE  bank.wallet[asset] + SignedFor(op, "swapped", asset)
                          + SignedFor(op, "strayed", asset) >= Funds[asset]
    BY DEF RestIsKept
  <2>1. /\ taken[asset] + bank.allowance[asset] <= SignedFor(op, "strayed", asset)
        /\ bank.wallet[asset] + taken[asset]
               + SignedFor(op, "swapped", asset) >= Funds[asset]
    BY DEF SInv, Good, Ledger
  <2>2. /\ taken[asset] \in Nat /\ bank.allowance[asset] \in Nat
        /\ bank.wallet[asset] \in Nat /\ Funds[asset] \in Nat
        /\ SignedFor(op, "strayed", asset) \in Nat
        /\ SignedFor(op, "swapped", asset) \in Nat
    BY AmountTypes, UnitsFinite DEF SInv, TypeOK
  <2> QED
    BY <2>1, <2>2
<1> QED
  BY <1>1, SwapInvariance, PTL

\* App may take something from the wallet only on the strength of an operation
\* that strayed, and no more than that one was signed for: also in the middle
\* of a run, whatever a hostile router does then, and after any revert.
THEOREM StraysLeaveAllowances == Spec => []AllowanceOnlyFromStrays
<1>1. SInv => AllowanceOnlyFromStrays
  BY DEF SInv, Good, Allowed, AllowanceOnlyFromStrays
<1> QED
  BY <1>1, SwapInvariance, PTL

LEMMA MainChangesCalls ==
    ASSUME SInv, NEW c
    PROVE  /\ <<c>> \o calls # calls
           /\ ~Idle => Tail(calls) # calls
           /\ Idle => <<c>> # calls
<1>1. calls \in Seq(Conditions)
  BY DEF SInv, TypeOK
<1> DEFINE S == Conditions \cup {c}
<1>2. calls \in Seq(S) /\ <<c>> \in Seq(S)
  BY <1>1
<1> HIDE DEF S
<1>3. Len(<<c>> \o calls) = 1 + Len(calls) /\ Len(calls) \in Nat
  BY <1>2
<1>4. ~Idle => Len(Tail(calls)) = Len(calls) - 1
  BY <1>1 DEF Idle
<1> QED
  BY <1>3, <1>4 DEF Idle

\* A swap by an honest router leaves App the tokens and the allowances it had:
\* the only thing that router may take is what main has just pulled, whatever
\* hostile routers left in App before.
THEOREM HonestSwapsLeaveNothing == Spec => HonestSwapLeavesNothing
<1> DEFINE Kept == calls' = calls /\ bank'.wallet # bank.wallet
                       => bank'.held = bank.held /\ bank'.routers = bank.routers
<1>1. ASSUME SInv, Next PROVE Kept
  <2>1. /\ bank \in Banks /\ HostileOnly(bank) /\ TypeOK
        /\ pathOptimization \in Paths
    BY <1>1 DEF SInv, TypeOK, Good
  <2>2. CASE Setting \/ \E c \in Intents : Sign(c)
    BY <2>2 DEF Setting, SetLauncher, SetRouter, SetPath, Sign
  <2>3. ASSUME NEW c \in Intents, NEW d \in Conditions \cup {None}, NEW promise,
               NEW timestamp, NEW paths \in Paths, NEW r, NEW output \in Outputs,
               HandleOp(c, d, promise, timestamp, paths, r, output)
        PROVE  Kept
    <3>1. /\ Approved(c).wallet = bank.wallet
          /\ Approved(c).held = bank.held
          /\ Approved(c).routers = bank.routers
          /\ Approved(c) \in Banks
      BY <2>1, ApprovedFields
    <3>2. HostileOnly(Approved(c)) /\ output \in Nat
      BY <2>1, <3>1, SwapAssumption DEF HostileOnly
    <3>3. CASE d # None /\ Runs(c, d, promise, timestamp, paths, r, output)
      <4>1. /\ MainRuns(Launcher, Approved(c), d, r, paths)
            /\ bank' = AfterMain(Approved(c), d, r, paths, output)
            /\ d \in Conditions
        BY <3>3 DEF Runs
      <4>2. /\ bank'.held = Approved(c).held
            /\ bank'.routers = Approved(c).routers
        BY <3>1, <3>2, <4>1, MainEffect
      <4> QED
        BY <3>1, <4>2
    <3>4. CASE Starts(c, d, paths, r)
      <4>1. Idle /\ calls' = <<d>>
        BY <2>3, <3>4 DEF Starts, HandleOp
      <4> QED
        BY <1>1, <4>1, MainChangesCalls
    <3>5. CASE bank' = Approved(c) \/ bank' = Undone(c)
      BY <3>1, <3>5 DEF Undone
    <3> QED
      BY <2>3, <3>3, <3>4, <3>5 DEF HandleOp
  <2>4. CASE Executing
    <3>1. PICK c \in Intents, d \in Conditions \cup {None}, promise \in Promises,
               timestamp \in Timestamps, output \in Outputs :
              \/ HandleOps(c, d, promise, timestamp, output)
              \/ \E r \in Routers \cup {NoAddr}, route \in Routes :
                     /\ <<route[1], route[Len(route)]>> \in Pairs
                     /\ HelperRun(c, d, r, route, promise, timestamp, output)
      BY <2>4 DEF Executing
    <3> DEFINE paths == pathOptimization'
    <3>2. paths \in Paths
      BY <1>1, NextSInv DEF SInv, TypeOK
    <3>3. \/ HandleOp(c, d, promise, timestamp, pathOptimization, router, output)
          \/ \E r \in Routers \cup {NoAddr} :
                 HandleOp(c, d, promise, timestamp, paths, r, output)
      BY <3>1 DEF HandleOps, HelperRun
    <3> HIDE DEF paths
    <3> QED
      BY <2>1, <2>3, <3>2, <3>3
  <2>5. ASSUME NEW caller, NEW c \in Conditions, NEW output \in Outputs,
               MainByStranger(caller, c, output)
        PROVE  Kept
    <3>1. CASE /\ MainRuns(caller, bank, c, router, pathOptimization)
               /\ bank' = AfterMain(bank, c, router, pathOptimization, output)
      <4>1. output \in Nat
        BY SwapAssumption
      <4> QED
        BY <2>1, <3>1, <4>1, MainEffect
    <3>2. CASE Enter(c)
      BY <1>1, <3>2, MainChangesCalls DEF Enter
    <3> QED
      BY <2>5, <3>1, <3>2 DEF MainByStranger
  <2>6. ASSUME NEW c \in Conditions, MainElsewhere(c)
        PROVE  Kept
    BY <1>1, <2>6, MainChangesCalls DEF MainElsewhere, Enter
  <2>7. CASE Moving
    <3>1. ASSUME NEW asset \in Assets, NEW amount, Gift(asset, amount)
          PROVE  bank'.held = bank.held /\ bank'.routers = bank.routers
      BY <2>1, <3>1, BankFields DEF Gift
    <3>2. ASSUME NEW asset, NEW r, NEW amount, TakeTokens(asset, r, amount)
          PROVE  bank'.wallet = bank.wallet
      BY <2>1, <3>2, BankFields DEF TakeTokens
    <3> QED
      BY <2>7, <3>1, <3>2 DEF Moving
  <2>8. CASE Ending
    <3>1. ~Idle /\ (calls' = Tail(calls) \/ calls' = <<>>)
      BY <2>8 DEF Ending, MainReturns, Reverts
    <3> QED
      BY <1>1, <3>1, MainChangesCalls DEF Idle
  <2> QED
    BY <1>1, <2>2, <2>4, <2>5, <2>6, <2>7, <2>8 DEF Next, Calling
<1>2. SInv /\ [Next]_vars => [Kept]_vars
  BY <1>1
<1>3. Spec => [][Kept]_vars
  BY <1>2, SwapInvariance, PTL DEF Spec
<1> QED
  BY <1>3 DEF HonestSwapLeavesNothing
=============================================================================
