----------------------- MODULE EngineSolvencyProofs -------------------------
(***************************************************************************)
(* The engine of OrderMatchEngine can always pay its depositors, for any   *)
(* number of accounts, any payments and any slashing amount.               *)
(*                                                                         *)
(* Ether leaves by withdraw and slash only, and each takes at least as     *)
(* much off the books as it pays out.  That the books are a sum over all   *)
(* accounts of which one call changes one term is WeiSplit.  As the ether  *)
(* covers the books, no payment to an account without code fails.          *)
(***************************************************************************)
EXTENDS OrderMatchEngineProofs, FiniteSetTheorems

\* No deposit, and no total, is cut off by the bound on ether.
WithinBound ==
    /\ balance <= MaxEther
    /\ \A a \in Accounts : depositInfo[a] <= MaxEther

SInv == TypeOK /\ WithinBound /\ Solvent

\* What the accounts other than a are owed.
WeiBesides(deposits, a) == {wei \in Wei(deposits) : wei[1] # a}

LEMMA WeiFinite ==
    ASSUME NEW deposits
    PROVE  IsFiniteSet(Wei(deposits)) /\ Cardinality(Wei(deposits)) \in Nat
<1>1. IsFiniteSet(Accounts \X (1 .. MaxEther))
  <2>1. IsFiniteSet(Accounts)
    BY AddressAssumption
  <2>2. IsFiniteSet(1 .. MaxEther)
    BY NumberAssumption, FS_Interval
  <2> QED
    BY <2>1, <2>2, FS_Product
<1>2. Wei(deposits) \subseteq Accounts \X (1 .. MaxEther)
  BY DEF Wei
<1> QED
  BY <1>1, <1>2, FS_Subset, FS_CardinalityType

\* The books are what a is owed and what the others are owed.
LEMMA WeiSplit ==
    ASSUME NEW deposits \in [Accounts -> Nat], NEW a \in Accounts,
           deposits[a] <= MaxEther
    PROVE  /\ Cardinality(WeiBesides(deposits, a)) \in Nat
           /\ Cardinality(Wei(deposits)) =
                  Cardinality(WeiBesides(deposits, a)) + deposits[a]
<1> DEFINE own == {a} \X (1 .. deposits[a])
           besides == WeiBesides(deposits, a)
<1>1. deposits[a] \in Nat /\ MaxEther \in Nat
  BY NumberAssumption
<1>2. IsFiniteSet(own) /\ Cardinality(own) = deposits[a]
  <2>1. IsFiniteSet({a}) /\ Cardinality({a}) = 1
    BY FS_Singleton
  <2>2. /\ IsFiniteSet(1 .. deposits[a])
        /\ Cardinality(1 .. deposits[a]) = deposits[a]
    BY <1>1, FS_Interval
  <2> QED
    BY <1>1, <2>1, <2>2, FS_Product
<1>3. IsFiniteSet(besides) /\ Cardinality(besides) \in Nat
  <2>1. besides \subseteq Wei(deposits)
    BY DEF WeiBesides
  <2> QED
    BY <2>1, WeiFinite, FS_Subset, FS_CardinalityType
<1>4. Wei(deposits) = besides \cup own
  BY <1>1 DEF Wei, WeiBesides
<1>5. besides \cap own = {}
  BY DEF WeiBesides
<1>6. Cardinality(besides \cup own) =
          Cardinality(besides) + Cardinality(own) - Cardinality(besides \cap own)
  BY <1>2, <1>3, FS_Union
<1>7. Cardinality(besides \cap own) = 0
  BY <1>5, FS_EmptySet
<1> HIDE DEF own, besides
<1>8. Cardinality(Wei(deposits)) = Cardinality(besides) + deposits[a]
  BY <1>1, <1>2, <1>3, <1>4, <1>6, <1>7
<1> QED
  BY <1>3, <1>8 DEF besides

\* A call that sets the deposit of one account moves the total by as much.
LEMMA OneDeposit ==
    ASSUME NEW deposits \in [Accounts -> Nat], NEW a \in Accounts,
           NEW amount \in Nat,
           deposits[a] <= MaxEther, amount <= MaxEther
    PROVE  /\ Cardinality(Wei(deposits)) \in Nat
           /\ Cardinality(Wei([deposits EXCEPT ![a] = amount])) =
                  Cardinality(Wei(deposits)) - deposits[a] + amount
<1> DEFINE new == [deposits EXCEPT ![a] = amount]
<1>1. new \in [Accounts -> Nat] /\ new[a] = amount
  OBVIOUS
<1>2. WeiBesides(new, a) = WeiBesides(deposits, a)
  BY DEF WeiBesides, Wei
<1>3. /\ Cardinality(WeiBesides(deposits, a)) \in Nat
      /\ Cardinality(Wei(deposits)) =
             Cardinality(WeiBesides(deposits, a)) + deposits[a]
  BY WeiSplit
<1> HIDE DEF new
<1>4. Cardinality(Wei(new)) = Cardinality(WeiBesides(new, a)) + new[a]
  BY <1>1, WeiSplit
<1> QED
  BY <1>1, <1>2, <1>3, <1>4 DEF new

\* No account is owed more than all accounts together.
LEMMA OneOfAll ==
    ASSUME NEW deposits \in [Accounts -> Nat], NEW a \in Accounts,
           deposits[a] <= MaxEther
    PROVE  deposits[a] <= Cardinality(Wei(deposits))
BY WeiSplit

-----------------------------------------------------------------------------

LEMMA InitSInv == Init => SInv
<1> SUFFICES ASSUME Init PROVE SInv
  OBVIOUS
<1>1. TypeOK
  BY InitIInv DEF IInv
<1>2. WithinBound
  BY NumberAssumption DEF Init, WithinBound
<1>3. Wei(depositInfo) = {}
  BY NumberAssumption DEF Init, Wei
<1>4. Owed = 0
  BY <1>3, FS_EmptySet DEF Owed
<1>5. Solvent
  BY <1>4 DEF Init, Solvent
<1> QED
  BY <1>1, <1>2, <1>5 DEF SInv

LEMMA DepositSolvent ==
    ASSUME SInv, NEW sender \in Accounts, NEW value \in Payments,
           Deposit(sender, value)
    PROVE  WithinBound' /\ Solvent'
<1>1. /\ depositInfo \in [Accounts -> Nat]
      /\ depositInfo[sender] \in Nat /\ value \in Nat
      /\ balance \in Nat /\ MaxEther \in Nat
      /\ depositInfo[sender] <= MaxEther
  BY DataAssumption, NumberAssumption DEF SInv, TypeOK, WithinBound
<1>2. /\ depositInfo' =
             [depositInfo EXCEPT ![sender] = depositInfo[sender] + value]
      /\ balance' = balance + value
      /\ balance' <= MaxEther
  BY DEF Deposit
<1>3. depositInfo[sender] <= Owed /\ Owed <= balance /\ Owed \in Nat
  BY <1>1, OneOfAll, WeiFinite DEF Owed, SInv, Solvent
<1>4. depositInfo[sender] + value <= MaxEther
  BY <1>1, <1>2, <1>3
<1>5. Owed' = Owed - depositInfo[sender] + (depositInfo[sender] + value)
  <2>1. Owed' = Cardinality(Wei(depositInfo'))
    BY DEF Owed, Wei
  <2>2. depositInfo[sender] + value \in Nat
    BY <1>1
  <2> QED
    BY <1>1, <1>2, <1>4, <2>1, <2>2, OneDeposit DEF Owed
<1>6. Solvent'
  BY <1>1, <1>2, <1>3, <1>5 DEF Solvent
<1>7. WithinBound'
  BY <1>1, <1>2, <1>4 DEF SInv, WithinBound
<1> QED
  BY <1>6, <1>7

\* An account's deposit is lowered by at least what the engine pays out.
LEMMA PayoutSolvent ==
    ASSUME SInv, NEW a \in Accounts, NEW amount \in Nat, NEW funds \in Nat,
           NEW to,
           amount <= depositInfo[a],
           funds >= balance, funds <= MaxEther,
           depositInfo' = [depositInfo EXCEPT ![a] = depositInfo[a] - amount],
           SendEther(to, amount, funds)
    PROVE  WithinBound' /\ Solvent'
<1>1. /\ depositInfo \in [Accounts -> Nat]
      /\ depositInfo[a] \in Nat /\ balance \in Nat /\ MaxEther \in Nat
      /\ depositInfo[a] <= MaxEther
  BY NumberAssumption DEF SInv, TypeOK, WithinBound
<1>2. depositInfo[a] - amount \in Nat /\ depositInfo[a] - amount <= MaxEther
  BY <1>1
<1>3. /\ Owed \in Nat
      /\ Owed' = Owed - depositInfo[a] + (depositInfo[a] - amount)
  <2>1. Owed' = Cardinality(Wei(depositInfo'))
    BY DEF Owed, Wei
  <2> QED
    BY <1>1, <1>2, <2>1, OneDeposit DEF Owed
<1>4. Owed <= balance
  BY DEF SInv, Solvent
<1>5. balance' \in {funds, funds - amount}
  BY DEF SendEther
<1>6. Solvent'
  BY <1>1, <1>3, <1>4, <1>5 DEF Solvent
<1>7. WithinBound'
  BY <1>1, <1>2, <1>5 DEF SInv, WithinBound
<1> QED
  BY <1>6, <1>7

LEMMA VaultSolvent == ASSUME SInv, Vault PROVE WithinBound' /\ Solvent'
<1>1. /\ balance \in Nat /\ balance <= MaxEther /\ MaxEther \in Nat
      /\ depositInfo \in [Accounts -> Nat]
      /\ SlashingAmount \in Nat
  BY NumberAssumption DEF SInv, TypeOK, WithinBound
<1>2. ASSUME NEW sender \in Accounts, NEW value \in Payments,
             Deposit(sender, value)
      PROVE  WithinBound' /\ Solvent'
  BY <1>2, DepositSolvent
<1>3. ASSUME NEW sender \in Accounts, NEW amount \in 0 .. MaxEther,
             Withdraw(sender, amount)
      PROVE  WithinBound' /\ Solvent'
  <2>1. /\ amount <= depositInfo[sender]
        /\ depositInfo' =
               [depositInfo EXCEPT ![sender] = depositInfo[sender] - amount]
        /\ SendEther(sender, amount, balance)
    BY <1>3 DEF Withdraw, CoversDeposit
  <2>2. amount \in Nat /\ balance >= balance
    BY <1>1
  <2> QED
    BY <1>1, <2>1, <2>2, PayoutSolvent
<1>4. ASSUME NEW sender \in Accounts, NEW i \in IntentIds,
             NEW value \in Payments, Slash(sender, i, value)
      PROVE  WithinBound' /\ Solvent'
  <2>1. /\ value \in Nat /\ balance + value \in Nat
        /\ balance + value >= balance /\ balance + value <= MaxEther
    BY <1>1, <1>4, DataAssumption DEF Slash
  <2>2. CASE Overdue(i)
    <3> DEFINE bidder == orderInfo[i].sender
    <3>1. /\ bidder \in Accounts
          /\ SlashingAmount <= depositInfo[bidder]
          /\ depositInfo' = [depositInfo EXCEPT ![bidder] =
                                depositInfo[bidder] - SlashingAmount]
          /\ SendEther(sender, SlashingAmount, balance + value)
      BY <1>1, <1>4, <2>2 DEF Slash, Chargeable, Charged
    <3> HIDE DEF bidder
    <3> QED
      BY <1>1, <2>1, <3>1, PayoutSolvent
  <2>3. CASE ~Overdue(i)
    <3>1. depositInfo' = depositInfo /\ balance' = balance + value
      BY <1>4, <2>3 DEF Slash
    <3> QED
      BY <1>1, <2>1, <3>1, WeiFinite
         DEF SInv, WithinBound, Solvent, Owed
  <2> QED
    BY <2>2, <2>3
<1>5. ASSUME NEW value \in Payments, ReceiveEther(value)
      PROVE  WithinBound' /\ Solvent'
  BY <1>1, <1>5, DataAssumption, WeiFinite
     DEF ReceiveEther, SInv, WithinBound, Solvent, Owed
<1> QED
  BY <1>2, <1>3, <1>4, <1>5 DEF Vault

LEMMA NextSInv == SInv /\ TypeOK' /\ [Next]_vars => SInv'
<1> SUFFICES ASSUME SInv, TypeOK', [Next]_vars PROVE SInv'
  OBVIOUS
<1>1. CASE Vault
  BY <1>1, VaultSolvent DEF SInv
<1>2. CASE UNCHANGED <<depositInfo, balance>>
  BY <1>2 DEF SInv, WithinBound, Solvent, Owed
<1>3. Bidding \/ Administration \/ Intending \/ Launching \/ Tick \/ Relisting
          => UNCHANGED <<depositInfo, balance>>
  BY DEF Bidding, SubmitOrder, Administration, SetMarketRegistry, SetLauncher,
         TransferOwnership, RenounceOwnership, Intending, OpenIntent,
         CancelIntent, ForceCloseIntent, Launching, SetExecuted, Tick,
         Relisting, Relist, books
<1>4. UNCHANGED vars => UNCHANGED <<depositInfo, balance>>
  BY DEF vars, books
<1> QED
  BY <1>1, <1>2, <1>3, <1>4 DEF Next, NonBidding

\* The ether the engine holds covers all deposits in every reachable state.
THEOREM EngineSolvent == Spec => []Solvent
<1>1. Init => SInv
  BY InitSInv
<1>2. SInv /\ TypeOK' /\ [Next]_vars => SInv'
  BY NextSInv
<1>3. SInv => Solvent
  BY DEF SInv
<1> QED
  BY <1>1, <1>2, <1>3, TypeCorrect, PTL DEF Spec

\* A withdrawal by an account without code pays out: what it asks for is its
\* deposit, one term of a sum the engine holds.
LEMMA PayoutStep ==
    ASSUME TypeOK, WithinBound, Solvent,
           NEW a \in EOAs, NEW amount \in 1 .. MaxEther, Withdraw(a, amount)
    PROVE  balance' = balance - amount
<1>1. /\ depositInfo \in [Accounts -> Nat] /\ a \in Accounts
      /\ depositInfo[a] \in Nat /\ amount \in Nat /\ balance \in Nat
      /\ depositInfo[a] <= MaxEther
  BY NumberAssumption DEF TypeOK, WithinBound, Accounts
<1>2. amount <= depositInfo[a] /\ SendEther(a, amount, balance)
  BY DEF Withdraw
<1>3. depositInfo[a] <= Owed /\ Owed <= balance /\ Owed \in Nat
  BY <1>1, OneOfAll, WeiFinite DEF Owed, Solvent
<1>4. balance >= amount
  BY <1>1, <1>2, <1>3
<1>5. a \notin Contracts
  BY AddressAssumption
<1> QED
  BY <1>1, <1>2, <1>4, <1>5 DEF SendEther

\* No bidder's withdrawal finds the engine short of ether, whoever was slashed,
\* refused or paid before it.
THEOREM PayoutsArrive == Spec => PayoutArrives
<1>1. Init => SInv
  BY InitSInv
<1>2. SInv /\ TypeOK' /\ [Next]_vars => SInv'
  BY NextSInv
<1>3. SInv => \A a \in EOAs, amount \in 1 .. MaxEther :
                 Withdraw(a, amount) => balance' = balance - amount
  BY PayoutStep DEF SInv
<1> QED
  BY <1>1, <1>2, <1>3, TypeCorrect, PTL DEF Spec, PayoutArrives
=============================================================================
