----------------------- MODULE TokenGovernanceProofs ------------------------
(***************************************************************************)
(* Proofs about modules Token and TokenMetadata, for any number of         *)
(* accounts, any i128::MAX and batches of any length: tokens are neither   *)
(* made nor lost, no balance overflows, and the value of a withdrawn       *)
(* metadata key is frozen.                                                 *)
(*                                                                         *)
(* Proofs about module Governance, for any accounts, any number of         *)
(* proposals and any threshold: a proposal is executed with a quorum of    *)
(* different signers, a dead one stays dead, the digest is that of the     *)
(* action, and the admin changes only by consent.                          *)
(***************************************************************************)
EXTENDS TokenMetadata, Governance, SumsProofs, FiniteSetTheorems, SequenceTheorems

-----------------------------------------------------------------------------
(***************************************************************************)
(* The batch.  What all accounts receive is what the legs amount to: by    *)
(* induction over the legs, one leg crediting one account.                 *)
(***************************************************************************)

\* The amounts of the legs, and those of the legs to one account.
LegAmounts(legs) == [k \in DOMAIN legs |-> legs[k].amount]
LegAmountsTo(legs, a) ==
    [k \in DOMAIN legs |-> IF legs[k].to = a THEN legs[k].amount ELSE 0]

\* A batch is a list of legs with amounts that are natural numbers.
LEMMA BatchType ==
    ASSUME NEW legs \in Batches
    PROVE  /\ Len(legs) \in Nat
           /\ DOMAIN legs = 1 .. Len(legs)
           /\ \A k \in DOMAIN legs : legs[k].to \in Accounts /\ legs[k].amount \in Nat
<1>1. PICK n \in 1 .. BatchSize : legs \in [1 .. n -> Legs]
  BY DEF Batches
<1>2. n \in Nat /\ legs \in Seq(Legs) /\ Len(legs) = n
  BY <1>1, TokenAssumption, SMT, SMTT(40)
<1>3. \A x \in Legs : x.to \in Accounts /\ x.amount \in Amounts
  BY DEF Legs
<1>4. Amounts \subseteq Nat
  BY TokenAssumption, SMT, SMTT(40)
<1> QED  BY <1>1, <1>2, <1>3, <1>4, Zenon

\* batch_transfer credits, over all the accounts, the total it debits.
LEMMA CreditsAddUp ==
    ASSUME NEW legs \in Batches
    PROVE  SumTo([a \in Accounts |-> Credit(legs, a)], NumAccounts) = TotalOf(legs)
<1> DEFINE n == Len(legs)
           N == NumAccounts
           t == PartialSums(LegAmounts(legs), n)
           c == [a \in Accounts |-> PartialSums(LegAmountsTo(legs, a), n)]
           Col(m) == [a \in Accounts |-> c[a][m]]
<1>1. n \in Nat /\ DOMAIN legs = 1 .. n /\ N \in Nat /\ Accounts = 1 .. N
  BY BatchType, TokenAssumption DEF Accounts
<1>2. \A k \in 1 .. n : legs[k].to \in Accounts /\ legs[k].amount \in Nat
  BY <1>1, BatchType
<1>3. IsPartialSums(t, LegAmounts(legs), n)
  <2>1. LegAmounts(legs) \in [1 .. n -> Int]
    BY <1>1, <1>2, SMT, SMTT(40) DEF LegAmounts
  <2> QED  BY <1>1, <2>1, PartialSumsSolve
<1>4. \A a \in Accounts : IsPartialSums(c[a], LegAmountsTo(legs, a), n)
  <2> SUFFICES ASSUME NEW a \in Accounts
               PROVE  IsPartialSums(c[a], LegAmountsTo(legs, a), n)
    OBVIOUS
  <2>1. LegAmountsTo(legs, a) \in [1 .. n -> Int]
    BY <1>1, <1>2, SMT, SMTT(40) DEF LegAmountsTo
  <2>2. IsPartialSums(PartialSums(LegAmountsTo(legs, a), n), LegAmountsTo(legs, a), n)
    BY <1>1, <2>1, PartialSumsSolve
  <2> QED  BY <2>2
<1>5. TotalOf(legs) = t[n]
  BY DEF TotalOf, SumTo, LegAmounts
<1>6. [a \in Accounts |-> Credit(legs, a)] = Col(n)
  BY DEF Credit, SumTo, LegAmountsTo
<1> SUFFICES SumTo(Col(n), N) = t[n]
  BY <1>5, <1>6
<1> HIDE DEF n, N, t, c
<1>7. \A m \in 0 .. n : Col(m) \in [1 .. N -> Int] /\ t[m] \in Int
  BY <1>1, <1>3, <1>4 DEF IsPartialSums
<1> DEFINE T == {m \in Nat : m <= n /\ SumTo(Col(m), N) # t[m]}
<1>8. SUFFICES ASSUME n \in T PROVE FALSE
  BY <1>1, SMT, SMTT(40)
<1>9. PICK m \in T : \A k \in T : m <= k
  BY <1>8, LeastElement, Zenon
<1>10. m # 0
  <2>1. SUFFICES ASSUME m = 0 PROVE FALSE
    OBVIOUS
  <2>2. t[0] = 0
    BY <1>1, <1>3 DEF IsPartialSums
  <2>3. Col(0) = [a \in 1 .. N |-> 0]
    BY <1>1, <1>4 DEF IsPartialSums
  <2>4. SumTo([a \in 1 .. N |-> 0], N) = 0
    BY <1>1, SumOfZeros
  <2> QED  BY <1>9, <2>1, <2>2, <2>3, <2>4, Zenon
<1>11. m \in 1 .. n /\ m - 1 \in 0 .. n /\ SumTo(Col(m - 1), N) = t[m - 1]
  BY <1>1, <1>9, <1>10, SMT, SMTT(40)
<1>12. t[m] = t[m - 1] + legs[m].amount
  BY <1>1, <1>3, <1>11 DEF IsPartialSums, LegAmounts
<1>13. \A a \in Accounts :
          c[a][m] = c[a][m - 1] + (IF legs[m].to = a THEN legs[m].amount ELSE 0)
  BY <1>1, <1>4, <1>11 DEF IsPartialSums, LegAmountsTo
<1>14. legs[m].to \in 1 .. N /\ legs[m].amount \in Nat
  BY <1>1, <1>2, <1>11
<1> DEFINE f == Col(m - 1)
           g == Col(m)
<1>15. f \in [1 .. N -> Int] /\ g \in [1 .. N -> Int]
  BY <1>7, <1>11, SMT, SMTT(40)
<1>16. \A i \in 1 .. N : i # legs[m].to => g[i] = f[i]
  BY <1>1, <1>13, <1>15, SMT, SMTT(40)
<1>17. g[legs[m].to] = f[legs[m].to] + legs[m].amount
  BY <1>1, <1>13, <1>14
<1>18. SumTo(g, N) = SumTo(f, N) + g[legs[m].to] - f[legs[m].to]
  <2> HIDE DEF f, g
  <2> QED  BY <1>1, <1>14, <1>15, <1>16, SumUpdate, Zenon
<1>19. SumTo(g, N) = t[m]
  <2>1. f[legs[m].to] \in Int /\ SumTo(f, N) = t[m - 1] /\ t[m - 1] \in Int
    BY <1>7, <1>11, <1>14, <1>15
  <2> HIDE DEF f, g
  <2> QED  BY <1>12, <1>14, <1>17, <1>18, <2>1, SMT, SMTT(40)
<1> QED  BY <1>9, <1>19
-----------------------------------------------------------------------------
(***************************************************************************)
(* The invariant.  The supply is bounded by i128::MAX (mint checks it), so *)
(* balances that add up to the supply cannot overflow either: that is why  *)
(* the unchecked additions are safe, and why the sum has to be in it.      *)
(***************************************************************************)
TokenInv == TypeOK /\ SupplyConserved

\* initialize gives the whole supply to the admin.
LEMMA InitToken == TokenInit => TokenInv
<1> SUFFICES ASSUME TokenInit PROVE TokenInv
  OBVIOUS
<1> DEFINE z == [a \in 1 .. NumAccounts |-> 0]
           N == NumAccounts
<1>1. N \in Nat /\ 1 \in 1 .. N /\ Accounts = 1 .. N
  BY TokenAssumption, SMT, SMTT(40) DEF Accounts
<1>2. balance \in [Accounts -> 0 .. MaxInt] /\ balance[1] = Supply
  BY <1>1, TokenAssumption, SMT, SMTT(40) DEF TokenInit
<1>3. allowances \in [Pairs -> [amount : 0 .. MaxInt, expires : 0 .. MaxSeq]]
  <2>1. 0 \in 0 .. MaxInt /\ 0 \in 0 .. MaxSeq
    BY TokenAssumption, SMT, SMTT(40)
  <2> QED  BY <2>1 DEF TokenInit, NoAllowance
<1>4. TypeOK
  <2>1. 1 \in 1 .. MaxSeq /\ Supply \in 0 .. MaxInt
    BY TokenAssumption, SMT, SMTT(40)
  <2> QED  BY <1>1, <1>2, <1>3, <2>1, Zenon DEF TokenInit, TypeOK
<1>5. SupplyConserved
  <2>1. SumTo(z, N) = 0
    BY <1>1, SumOfZeros
  <2>2. balance \in [1 .. N -> Int] /\ z \in [1 .. N -> Int] /\ z[1] = 0
    BY <1>1, <1>2, SMT, SMTT(40)
  <2>3. \A i \in 1 .. N : i # 1 => balance[i] = z[i]
    BY <1>1 DEF TokenInit
  <2> HIDE DEF z
  <2>4. SumTo(balance, N) = SumTo(z, N) + balance[1] - z[1]
    BY <1>1, <2>2, <2>3, SumUpdate, Zenon
  <2>5. Supply \in Nat
    BY TokenAssumption, SMT, SMTT(40)
  <2> QED  BY <1>2, <2>1, <2>2, <2>4, <2>5, SMT, SMTT(40) DEF SupplyConserved, TokenInit
<1> QED  BY <1>4, <1>5 DEF TokenInv

\* Two balances fit into an i128 because all of them together do.
LEMMA PairsFit == TokenInv => NoOverflow
<1> SUFFICES ASSUME TokenInv, NEW a \in Accounts, NEW b \in Accounts, a # b
             PROVE  Fits(balance[a] + balance[b])
  BY DEF NoOverflow
<1>1. NumAccounts \in Nat /\ Accounts = 1 .. NumAccounts
  BY TokenAssumption DEF Accounts
<1>2. balance \in [1 .. NumAccounts -> Nat]
  BY <1>1, TokenAssumption, SMT, SMTT(40) DEF TokenInv, TypeOK
<1>3. balance[a] + balance[b] <= SumTo(balance, NumAccounts)
  BY <1>1, <1>2, SumOfTwo, Zenon
<1>4. SumTo(balance, NumAccounts) <= MaxInt /\ SumTo(balance, NumAccounts) \in Nat
  BY TokenAssumption, SMT, SMTT(40) DEF TokenInv, TypeOK, SupplyConserved
<1>5. balance[a] \in Nat /\ balance[b] \in Nat /\ MaxInt \in Nat
  BY <1>1, <1>2, TokenAssumption
<1> QED  BY <1>3, <1>4, <1>5, SMT, SMTT(40) DEF Fits

\* The allowances keep their type when one amount is replaced.
LEMMA SetAmountType ==
    ASSUME TypeOK, NEW o \in Accounts, NEW s \in Accounts, NEW n \in 0 .. MaxInt,
           SetAmount(o, s, n)
    PROVE  allowances' \in [Pairs -> [amount : 0 .. MaxInt, expires : 0 .. MaxSeq]]
  BY DEF TypeOK, SetAmount, Pairs

\* An allowance is an amount.
LEMMA AllowanceType ==
    ASSUME TypeOK, NEW o \in Accounts, NEW s \in Accounts
    PROVE  get_allowance(o, s) \in 0 .. MaxInt
  BY TokenAssumption, SMT, SMTT(40) DEF TypeOK, get_allowance, Pairs

\* Moving an amount from one account to another moves nothing else: the common
\* part of transfer and transfer_from.
LEMMA MoveStep ==
    ASSUME TokenInv, NEW from \in Accounts, NEW to \in Accounts, from # to,
           NEW n \in Amounts, balance[from] >= n, Fits(balance[to] + n),
           balance' = [balance EXCEPT ![from] = @ - n, ![to] = @ + n],
           supply' = supply
    PROVE  balance' \in [Accounts -> 0 .. MaxInt] /\ SupplyConserved'
<1> DEFINE g == [balance EXCEPT ![from] = @ - n]
           N == NumAccounts
<1>1. /\ N \in Nat /\ Accounts = 1 .. N /\ MaxInt \in Nat /\ n \in Nat
      /\ from \in 1 .. N /\ to \in 1 .. N
  BY TokenAssumption, SMT, SMTT(40) DEF Accounts
<1>2. balance \in [Accounts -> 0 .. MaxInt]
  BY DEF TokenInv, TypeOK
<1>3. balance' \in [Accounts -> 0 .. MaxInt]
  <2>1. balance[from] - n \in 0 .. MaxInt /\ balance[to] + n \in 0 .. MaxInt
    BY <1>1, <1>2, SMT, SMTT(40) DEF Fits
  <2>2. balance'[from] = balance[from] - n /\ balance'[to] = balance[to] + n
        /\ \A i \in Accounts : i # from /\ i # to => balance'[i] = balance[i]
    BY <1>2
  <2>3. balance' = [i \in Accounts |-> balance'[i]]
    BY <1>2, Zenon
  <2> QED  BY <1>2, <2>1, <2>2, <2>3
<1>4. balance \in [1 .. N -> Int] /\ balance' \in [1 .. N -> Int] /\ g \in [1 .. N -> Int]
  <2>1. balance \in [1 .. N -> Int]
    BY ONLY <1>1, <1>2, SMT, SMTT(40)
  <2>2. balance' \in [1 .. N -> Int]
    BY ONLY <1>1, <1>3, SMT, SMTT(40)
  <2>3. balance[from] - n \in Int
    BY <1>1, <2>1, SMT, SMTT(40)
  <2> QED BY <2>1, <2>2, <2>3, Zenon
<1>5. (\A i \in 1 .. N : i # from => g[i] = balance[i]) /\ g[from] = balance[from] - n
  BY <1>1, <1>2
<1>6. (\A i \in 1 .. N : i # to => balance'[i] = g[i]) /\ balance'[to] = g[to] + n
  BY <1>1, <1>2
<1> HIDE DEF g, N
<1>7. SumTo(g, N) = SumTo(balance, N) + g[from] - balance[from]
  BY ONLY <1>1, <1>4, <1>5, SumUpdate, Zenon
<1>8. SumTo(balance', N) = SumTo(g, N) + balance'[to] - g[to]
  BY ONLY <1>1, <1>4, <1>6, SumUpdate, Zenon
<1>9. SumTo(balance, N) \in Int /\ SumTo(g, N) \in Int
      /\ balance[from] \in Int /\ g[to] \in Int
  BY <1>1, <1>4, SumToType, Zenon
<1>10. SumTo(balance', N) = SumTo(balance, N)
  BY <1>1, <1>5, <1>6, <1>7, <1>8, <1>9, SMT, SMTT(40)
<1>11. SupplyConserved'
  BY <1>10 DEF N, TokenInv, SupplyConserved
<1> QED  BY <1>3, <1>11

\* Minting and burning change the supply by what they change a balance.
LEMMA SupplyStep ==
    ASSUME TokenInv, NEW a \in Accounts, NEW d \in Int,
           balance[a] + d \in 0 .. MaxInt,
           balance' = [balance EXCEPT ![a] = @ + d], supply' = supply + d
    PROVE  /\ balance' \in [Accounts -> 0 .. MaxInt]
           /\ SupplyConserved'
           /\ supply' \in Nat
<1> DEFINE N == NumAccounts
<1>1. N \in Nat /\ Accounts = 1 .. N /\ MaxInt \in Nat /\ a \in 1 .. N
  BY TokenAssumption DEF Accounts
<1>2. balance \in [Accounts -> 0 .. MaxInt]
  BY DEF TokenInv, TypeOK
<1>3. balance' \in [Accounts -> 0 .. MaxInt]
  BY <1>1, <1>2
<1>4. balance \in [1 .. N -> Int] /\ balance' \in [1 .. N -> Int]
      /\ balance' \in [1 .. N -> Nat]
  BY <1>1, <1>2, <1>3, SMT, SMTT(40)
<1>5. (\A i \in 1 .. N : i # a => balance'[i] = balance[i])
      /\ balance'[a] = balance[a] + d /\ balance[a] \in Int
  BY <1>1, <1>2, SMT, SMTT(40)
<1> HIDE DEF N
<1>6. SumTo(balance', N) = SumTo(balance, N) + balance'[a] - balance[a]
  BY ONLY <1>1, <1>4, <1>5, SumUpdate, Zenon
<1>7. SumTo(balance, N) \in Int /\ SumTo(balance', N) \in Nat
  BY <1>1, <1>4, SumToType, SumNat, Zenon
<1>8. SumTo(balance', N) = supply'
  BY <1>5, <1>6, <1>7, SMT, SMTT(40) DEF N, TokenInv, SupplyConserved
<1> QED  BY <1>3, <1>7, <1>8 DEF N, SupplyConserved

\* batch_transfer debits once what it credits leg by leg.
LEMMA BatchStep ==
    ASSUME TokenInv, NEW from \in Accounts, NEW legs \in Batches,
           batch_transfer(from, legs)
    PROVE  balance' \in [Accounts -> 0 .. MaxInt] /\ SupplyConserved'
<1> DEFINE N == NumAccounts
           c == [a \in Accounts |-> Credit(legs, a)]
           h == [a \in Accounts |-> balance[a] + c[a]]
           T == TotalOf(legs)
<1>1. N \in Nat /\ Accounts = 1 .. N /\ MaxInt \in Nat /\ from \in 1 .. N
  BY TokenAssumption DEF Accounts
<1>2. /\ Len(legs) \in Nat
      /\ DOMAIN legs = 1 .. Len(legs)
      /\ \A k \in DOMAIN legs : legs[k].to \in Accounts /\ legs[k].amount \in Nat
  BY BatchType
<1>3. T \in Nat
  <2>1. LegAmounts(legs) \in [1 .. Len(legs) -> Nat]
    BY <1>2 DEF LegAmounts
  <2> QED  BY <1>2, <2>1, SumNat DEF TotalOf, LegAmounts
<1>4. \A a \in Accounts : Credit(legs, a) \in Nat
  <2> SUFFICES ASSUME NEW a \in Accounts PROVE Credit(legs, a) \in Nat
    OBVIOUS
  <2>1. LegAmountsTo(legs, a) \in [1 .. Len(legs) -> Nat]
    BY <1>2 DEF LegAmountsTo
  <2> QED  BY <1>2, <2>1, SumNat DEF Credit, LegAmountsTo
<1>5. Credit(legs, from) = 0
  <2>1. LegAmountsTo(legs, from) = [k \in 1 .. Len(legs) |-> 0]
    BY <1>2 DEF LegAmountsTo, batch_transfer
  <2>2. SumTo([k \in 1 .. Len(legs) |-> 0], Len(legs)) = 0
    BY <1>2, SumOfZeros
  <2> QED  BY <2>1, <2>2 DEF Credit, LegAmountsTo
<1>6. SumTo(c, N) = T
  BY CreditsAddUp
<1>7. c \in [1 .. N -> Nat] /\ c[from] = 0
      /\ \A a \in Accounts : c[a] = Credit(legs, a)
  BY <1>1, <1>4, <1>5
<1> HIDE DEF c, T
<1>8. balance \in [Accounts -> 0 .. MaxInt]
  BY DEF TokenInv, TypeOK
<1>9. /\ \A a \in Accounts : balance[a] + c[a] <= MaxInt
      /\ balance[from] >= T
      /\ balance' = [a \in Accounts |->
                        IF a = from THEN balance[a] - T ELSE balance[a] + c[a]]
  BY <1>7 DEF batch_transfer, Fits, T
<1>10. balance' \in [Accounts -> 0 .. MaxInt]
  <2>1. balance[from] - T \in 0 .. MaxInt
    BY <1>1, <1>3, <1>8, <1>9, SMT, SMTT(40)
  <2>2. \A a \in Accounts : balance[a] + c[a] \in 0 .. MaxInt
    <3> SUFFICES ASSUME NEW a \in Accounts PROVE balance[a] + c[a] \in 0 .. MaxInt
      OBVIOUS
    <3>1. balance[a] \in Nat /\ c[a] \in Nat /\ balance[a] + c[a] <= MaxInt
      BY <1>1, <1>7, <1>8, <1>9, SMT, SMTT(40)
    <3> QED  BY ONLY <1>1, <3>1, SMT, SMTT(40)
  <2> QED  BY ONLY <1>9, <2>1, <2>2
<1>11. balance \in [1 .. N -> Int] /\ balance' \in [1 .. N -> Int]
       /\ c \in [1 .. N -> Int] /\ h \in [1 .. N -> Int]
  BY <1>1, <1>7, <1>8, <1>10, SMTT(20), SMTT(40)
<1>12. \A i \in 1 .. N : h[i] = balance[i] + c[i]
  BY <1>1
<1>13. \A i \in 1 .. N : i # from => balance'[i] = h[i]
  BY <1>1, <1>9
<1>14. h[from] = balance[from] /\ balance'[from] = balance[from] - T
       /\ balance[from] \in Int
  BY <1>1, <1>7, <1>8, <1>9, SMT, SMTT(40)
<1> HIDE DEF N, h
<1>15. SumTo(h, N) = SumTo(balance, N) + SumTo(c, N)
  BY ONLY <1>1, <1>11, <1>12, SumAdd, Zenon
<1>16. SumTo(balance', N) = SumTo(h, N) + balance'[from] - h[from]
  BY ONLY <1>1, <1>11, <1>13, SumUpdate, Zenon
<1>17. SumTo(balance, N) \in Int
  BY ONLY <1>1, <1>11, SumToType, Zenon
<1>18. SumTo(balance', N) = SumTo(balance, N)
  BY <1>3, <1>6, <1>14, <1>15, <1>16, <1>17, SMT, SMTT(40)
<1>19. SupplyConserved'
  BY <1>18 DEF N, TokenInv, SupplyConserved, batch_transfer
<1> QED  BY <1>10, <1>19

\* The steps that move tokens one at a time.
LEMMA MoneyStep ==
    ASSUME TokenInv, NEW a \in Accounts, NEW b \in Accounts, NEW d \in Accounts,
           NEW n \in Amounts,
           \/ transfer(a, b, n) \/ transfer_from(a, b, d, n)
           \/ burn(a, n) \/ burn_from(a, b, n)
           \/ mint(a, b, n) \/ admin_burn(a, b, n)
    PROVE  TokenInv'
<1>1. n \in Nat /\ MaxInt \in Nat /\ - n \in Int /\ balance \in [Accounts -> 0 .. MaxInt]
      /\ supply \in 0 .. MaxInt
  BY TokenAssumption, SMT, SMTT(40) DEF TokenInv, TypeOK
<1>2. CASE transfer(a, b, n)
  <2>1. balance' \in [Accounts -> 0 .. MaxInt] /\ SupplyConserved'
    BY <1>2, MoveStep, Zenon DEF transfer
  <2> QED  BY <1>2, <2>1 DEF TokenInv, TypeOK, transfer
<1>3. CASE transfer_from(a, b, d, n)
  <2>1. balance' \in [Accounts -> 0 .. MaxInt] /\ SupplyConserved'
    BY <1>3, MoveStep, Zenon DEF transfer_from
  <2>2. get_allowance(b, a) - n \in 0 .. MaxInt
    BY <1>1, <1>3, AllowanceType, SMT, SMTT(40) DEF TokenInv, transfer_from
  <2>3. allowances' \in [Pairs -> [amount : 0 .. MaxInt, expires : 0 .. MaxSeq]]
    BY <1>3, <2>2, SetAmountType, Zenon DEF TokenInv, transfer_from
  <2> QED  BY <1>3, <2>1, <2>3 DEF TokenInv, TypeOK, transfer_from
<1>4. CASE mint(a, b, n)
  <2>1. n \in Int /\ balance[b] + n \in 0 .. MaxInt
    BY <1>1, <1>4, SMT, SMTT(40) DEF mint, Fits
  <2>2. balance' \in [Accounts -> 0 .. MaxInt] /\ SupplyConserved'
    BY <1>4, <2>1, SupplyStep, Zenon DEF mint
  <2>3. supply' \in 0 .. MaxInt
    BY <1>1, <1>4, SMT, SMTT(40) DEF mint, Fits
  <2> QED  BY <1>4, <2>2, <2>3, Zenon DEF TokenInv, TypeOK, mint
<1>5. ASSUME NEW x \in Accounts, Burnt(x, n)
      PROVE  balance' \in [Accounts -> 0 .. MaxInt] /\ SupplyConserved'
             /\ supply' \in 0 .. MaxInt
  <2>1. balance[x] + (- n) \in 0 .. MaxInt /\ supply' = supply + (- n)
        /\ balance[x] - n = balance[x] + (- n)
    BY <1>1, <1>5, SMT, SMTT(40) DEF Burnt
  <2>2. balance' = [balance EXCEPT ![x] = @ + (- n)]
    BY <1>1, <1>5, <2>1, Zenon DEF Burnt
  <2>3. balance' \in [Accounts -> 0 .. MaxInt] /\ SupplyConserved' /\ supply' \in Nat
    BY <1>1, <2>1, <2>2, SupplyStep, Zenon
  <2> QED  BY <1>1, <2>1, <2>3, SMT, SMTT(40)
<1>6. CASE burn(a, n)
  <2>1. Burnt(a, n)
    BY <1>6 DEF burn
  <2> QED  BY <1>5, <1>6, <2>1 DEF TokenInv, TypeOK, burn
<1>7. CASE admin_burn(a, b, n)
  <2>1. Burnt(b, n)
    BY <1>7, Zenon DEF admin_burn
  <2> QED  BY <1>5, <1>7, <2>1 DEF TokenInv, TypeOK, admin_burn
<1>8. CASE burn_from(a, b, n)
  <2>1. Burnt(b, n)
    BY <1>8 DEF burn_from
  <2>2. get_allowance(b, a) - n \in 0 .. MaxInt
    BY <1>1, <1>8, AllowanceType, SMT, SMTT(40) DEF TokenInv, burn_from
  <2>3. allowances' \in [Pairs -> [amount : 0 .. MaxInt, expires : 0 .. MaxSeq]]
    BY <1>8, <2>2, SetAmountType, Zenon DEF TokenInv, burn_from
  <2> QED  BY <1>5, <1>8, <2>1, <2>3, Zenon DEF TokenInv, TypeOK, burn_from
<1> QED  BY <1>2, <1>3, <1>4, <1>6, <1>7, <1>8, Zenon

\* The steps that move no token.
LEMMA QuietStep ==
    ASSUME TokenInv, NEW a \in Accounts, NEW b \in Accounts,
           NEW n \in Amounts \cup {0}, NEW e \in 0 .. MaxSeq,
           \/ CloseLedger \/ approve(a, b, n, e)
           \/ n \in Amounts /\ increase_allowance(a, b, n)
           \/ n \in Amounts /\ decrease_allowance(a, b, n)
           \/ transfer_token_admin(a, b) \/ pause(a) \/ unpause(a)
    PROVE  TokenInv'
<1>1. n \in 0 .. MaxInt /\ MaxInt \in Nat /\ MaxSeq \in Nat /\ seq \in 1 .. MaxSeq
  BY TokenAssumption, SMT, SMTT(40) DEF TokenInv, TypeOK
<1>2. SupplyConserved'
  BY DEF TokenInv, SupplyConserved, CloseLedger, approve, increase_allowance,
         decrease_allowance, transfer_token_admin, pause, unpause
<1>3. CASE CloseLedger
  <2>1. seq' \in 1 .. MaxSeq
    BY <1>1, <1>3, SMT, SMTT(40) DEF CloseLedger
  <2> QED  BY <1>2, <1>3, <2>1, Zenon DEF TokenInv, TypeOK, CloseLedger
<1>4. CASE approve(a, b, n, e)
  <2>1. allowances' \in [Pairs -> [amount : 0 .. MaxInt, expires : 0 .. MaxSeq]]
    BY <1>1, <1>4, Zenon DEF TokenInv, TypeOK, approve, Pairs
  <2> QED  BY <1>2, <1>4, <2>1, Zenon DEF TokenInv, TypeOK, approve
<1>5. CASE increase_allowance(a, b, n)
  <2>1. get_allowance(a, b) + n \in 0 .. MaxInt
    BY <1>1, <1>5, AllowanceType, SMT, SMTT(40) DEF TokenInv, increase_allowance, Fits
  <2>2. allowances' \in [Pairs -> [amount : 0 .. MaxInt, expires : 0 .. MaxSeq]]
    BY <1>5, <2>1, SetAmountType, Zenon DEF TokenInv, increase_allowance
  <2> QED  BY <1>2, <1>5, <2>2, Zenon DEF TokenInv, TypeOK, increase_allowance
<1>6. CASE decrease_allowance(a, b, n)
  <2>1. get_allowance(a, b) - n \in 0 .. MaxInt
    BY <1>1, <1>6, AllowanceType, SMT, SMTT(40) DEF TokenInv, decrease_allowance
  <2>2. allowances' \in [Pairs -> [amount : 0 .. MaxInt, expires : 0 .. MaxSeq]]
    BY <1>6, <2>1, SetAmountType DEF TokenInv, decrease_allowance
  <2> QED  BY <1>2, <1>6, <2>2, Zenon DEF TokenInv, TypeOK, decrease_allowance
<1>7. CASE transfer_token_admin(a, b) \/ pause(a) \/ unpause(a)
  BY <1>2, <1>7, Zenon DEF TokenInv, TypeOK, transfer_token_admin, pause, unpause
<1> QED  BY <1>3, <1>4, <1>5, <1>6, <1>7, Zenon

\* Every call of the token contract keeps the invariant.
LEMMA NextToken == TokenInv /\ TokenNext => TokenInv'
<1> SUFFICES ASSUME TokenInv, TokenNext PROVE TokenInv'
  OBVIOUS
<1>1. 0 \in Amounts \cup {0} /\ 0 \in 0 .. MaxSeq /\ 1 \in Accounts
      /\ Amounts \subseteq Amounts \cup {0}
  BY TokenAssumption, SMT, SMTT(40) DEF Accounts
<1>2. CASE CloseLedger
  BY <1>1, <1>2, QuietStep, Zenon
<1>3. ASSUME NEW a \in Accounts, AccountNext(a)
      PROVE  TokenInv'
  <2>1. CASE \/ \E b \in Accounts, n \in Amounts : transfer(a, b, n)
             \/ \E b, d \in Accounts, n \in Amounts : transfer_from(a, b, d, n)
             \/ \E n \in Amounts : burn(a, n)
             \/ \E b \in Accounts, n \in Amounts : burn_from(a, b, n)
    BY <2>1, MoneyStep
  <2>2. CASE \/ \E b \in Spenders(a), n \in Amounts \cup {0}, e \in 0 .. MaxSeq :
                    approve(a, b, n, e)
             \/ \E b \in Spenders(a), n \in Amounts : increase_allowance(a, b, n)
             \/ \E b \in Spenders(a), n \in Amounts : decrease_allowance(a, b, n)
    BY <1>1, <2>2, QuietStep, Zenon DEF Spenders
  <2>3. CASE \E legs \in Batches : batch_transfer(a, legs)
    <3>1. PICK legs \in Batches : batch_transfer(a, legs)
      BY <2>3
    <3>2. balance' \in [Accounts -> 0 .. MaxInt] /\ SupplyConserved'
      BY <3>1, BatchStep
    <3> QED  BY <3>1, <3>2 DEF TokenInv, TypeOK, batch_transfer
  <2> QED  BY <1>3, <2>1, <2>2, <2>3, Zenon DEF AccountNext
<1>4. ASSUME NEW a \in Accounts, AdminNext(a)
      PROVE  TokenInv'
  <2>1. CASE \E b \in Accounts, n \in Amounts : mint(a, b, n) \/ admin_burn(a, b, n)
    BY <2>1, MoneyStep
  <2>2. CASE (\E b \in Accounts : transfer_token_admin(a, b)) \/ pause(a) \/ unpause(a)
    BY <1>1, <2>2, QuietStep
  <2> QED  BY <1>4, <2>1, <2>2, Zenon DEF AdminNext
<1> QED  BY <1>2, <1>3, <1>4 DEF TokenNext

\* So does every call about metadata, which leaves all the tokens alone.
LEMMA TokenInvariant == MetaSpec => []TokenInv
<1>1. MetaInit => TokenInv
  BY InitToken, Zenon DEF MetaInit
<1>2. TokenInv /\ [MetaNext]_<<tokenVars, metaVars>> => TokenInv'
  <2> SUFFICES ASSUME TokenInv, [MetaNext]_<<tokenVars, metaVars>> PROVE TokenInv'
    OBVIOUS
  <2>1. CASE UNCHANGED <<tokenVars, metaVars>>
    BY <2>1 DEF TokenInv, TypeOK, SupplyConserved, tokenVars
  <2>2. CASE TokenNext
    BY <2>2, NextToken, Zenon
  <2>3. ASSUME NEW a \in Accounts, UNCHANGED coinVars, caller' = a
        PROVE  TokenInv'
    BY <2>3 DEF TokenInv, TypeOK, SupplyConserved, coinVars
  <2> QED  BY <2>1, <2>2, <2>3, Zenon DEF MetaNext, add_allowed_metadata_key,
                remove_allowed_metadata_key, set_metadata, remove_metadata
<1> QED  BY <1>1, <1>2, PTL DEF MetaSpec

-----------------------------------------------------------------------------

\* No transfer, batch, mint or burn creates or loses tokens, for any number of
\* accounts and batches of any length (token lib.rs, transfer, transfer_from,
\* batch_transfer, mint, burn, burn_from, admin_burn).
THEOREM SupplyAlwaysConserved == MetaSpec => []SupplyConserved
<1>1. TokenInv => SupplyConserved
  BY DEF TokenInv
<1> QED  BY <1>1, TokenInvariant, PTL

\* No unchecked addition of two balances overflows an i128 (token lib.rs,
\* transfer_from and batch_transfer).
THEOREM NeverOverflows == MetaSpec => []NoOverflow
BY PairsFit, TokenInvariant, PTL

\* A spender's allowance shrinks by what is spent, and keeps its expiry: an
\* expired one allows nothing and amounts are positive.
LEMMA SpentIs ==
    ASSUME TokenInv, NEW o \in Accounts, NEW s \in Accounts, NEW n \in Amounts,
           get_allowance(o, s) >= n, SetAmount(o, s, get_allowance(o, s) - n), seq' = seq
    PROVE  get_allowance(o, s) - get_allowance(o, s)' = n
<1> DEFINE value == allowances[<<o, s>>]
           left == get_allowance(o, s) - n
<1>1. /\ value \in [amount : 0 .. MaxInt, expires : 0 .. MaxSeq] /\ n \in Nat /\ n > 0
      /\ MaxInt \in Nat /\ MaxSeq \in Nat /\ seq \in Nat /\ get_allowance(o, s) \in Nat
      /\ <<o, s>> \in Pairs
  BY AllowanceType, TokenAssumption, SMT, SMTT(40) DEF TokenInv, TypeOK, Pairs
<1>2. allowances'[<<o, s>>] = [value EXCEPT !.amount = left]
  BY <1>1, Zenon DEF TokenInv, TypeOK, SetAmount
<1>3. get_allowance(o, s) = IF seq <= value.expires THEN value.amount ELSE 0
  BY Zenon DEF get_allowance
<1>4. seq <= value.expires
  BY <1>1, <1>3, SMT, SMTT(40)
<1>5. get_allowance(o, s)' = left
  BY <1>1, <1>2, <1>4 DEF get_allowance
<1> QED BY <1>1, <1>5, SMT, SMTT(40)

\* The tokens of an account leave it only by the will of its holder, of the
\* admin, or of a spender whose unexpired allowance shrinks by the same amount,
\* whatever was approved, spent or renewed before (token lib.rs, transfer,
\* transfer_from, batch_transfer, burn, burn_from, admin_burn).
THEOREM AlwaysAuthorised == MetaSpec => Authorised
<1> DEFINE Willed(x) ==
               \/ caller' \in {x, tokenAdmin}
               \/ \E s \in Accounts :
                     /\ s = caller'
                     /\ get_allowance(x, s) - get_allowance(x, s)' = balance[x] - balance'[x]
           Step ==
               \A a \in Accounts : balance'[a] < balance[a] =>
                  \/ caller' \in {a, tokenAdmin}
                  \/ \E s \in Accounts :
                        /\ s = caller'
                        /\ get_allowance(a, s) - get_allowance(a, s)' =
                               balance[a] - balance'[a]
<1>1. ASSUME TokenInv, TokenNext PROVE Step
  <2>1. /\ balance \in [Accounts -> 0 .. MaxInt] /\ MaxInt \in Nat
        /\ \A n \in Amounts : n \in Nat
    BY <1>1, TokenAssumption, SMT, SMTT(40) DEF TokenInv, TypeOK
  <2>2. \A x \in Accounts : balance[x] \in Int /\ ~ balance[x] < balance[x]
    BY <2>1, SMT, SMTT(40)
  <2>3. CASE balance' = balance
    BY <2>2, <2>3, Zenon
  <2>4. ASSUME NEW y \in Accounts, Willed(y),
               \A x \in Accounts : balance'[x] < balance[x] => x = y
        PROVE  Step
    BY <2>4, Zenon
  <2>5. ASSUME NEW y \in Accounts, NEW z \in Accounts, NEW n \in Amounts,
               \/ y # z /\ balance' = [balance EXCEPT ![y] = @ - n, ![z] = @ + n]
               \/ balance' = [balance EXCEPT ![y] = @ - n]
        PROVE  /\ \A x \in Accounts : balance'[x] < balance[x] => x = y
               /\ balance[y] - balance'[y] = n
    BY <2>1, <2>5, SMT, SMTT(40)
  <2>6. ASSUME NEW a \in Accounts, NEW b \in Accounts, NEW n \in Amounts,
               transfer(a, b, n)
        PROVE  Step
    <3>1. (\A x \in Accounts : balance'[x] < balance[x] => x = a) /\ caller' = a
      BY <2>5, <2>6, Zenon DEF transfer
    <3> QED BY <2>4, <3>1, Zenon
  <2>7. ASSUME NEW a \in Accounts, NEW b \in Accounts, NEW d \in Accounts, NEW n \in Amounts,
               transfer_from(a, b, d, n) \/ burn_from(a, b, n)
        PROVE  Step
    <3>1. /\ \A x \in Accounts : balance'[x] < balance[x] => x = b
          /\ balance[b] - balance'[b] = n
      BY <2>5, <2>7, Zenon DEF transfer_from, burn_from, Burnt
    <3>2. /\ get_allowance(b, a) >= n /\ SetAmount(b, a, get_allowance(b, a) - n)
          /\ seq' = seq /\ caller' = a
      BY <2>7, Zenon DEF transfer_from, burn_from
    <3>3. get_allowance(b, a) - get_allowance(b, a)' = balance[b] - balance'[b]
      BY <1>1, <3>1, <3>2, SpentIs, ZenonT(40)
    <3> QED BY <2>4, <3>1, <3>2, <3>3, Zenon
  <2>8. ASSUME NEW a \in Accounts, NEW b \in Accounts, NEW n \in Amounts,
               burn(a, n) \/ admin_burn(a, b, n)
        PROVE  Step
    <3>1. CASE burn(a, n)
      <4>1. (\A x \in Accounts : balance'[x] < balance[x] => x = a) /\ caller' = a
        BY <2>5, <3>1, Zenon DEF burn, Burnt
      <4> QED BY <2>4, <4>1, Zenon
    <3>2. CASE admin_burn(a, b, n)
      <4>1. (\A x \in Accounts : balance'[x] < balance[x] => x = b) /\ caller' = tokenAdmin
        BY <2>5, <3>2, Zenon DEF admin_burn, Burnt
      <4> QED BY <2>4, <4>1, Zenon
    <3> QED BY <2>8, <3>1, <3>2, Zenon
  <2>9. ASSUME NEW a \in Accounts, NEW b \in Accounts, NEW n \in Amounts, mint(a, b, n)
        PROVE  Step
    <3>1. \A x \in Accounts : ~ balance'[x] < balance[x]
      BY <2>1, <2>9, SMT, SMTT(40) DEF mint
    <3> QED BY <3>1, Zenon
  <2>10. ASSUME NEW a \in Accounts, NEW legs \in Batches, batch_transfer(a, legs)
         PROVE  Step
    <3>1. ASSUME NEW x \in Accounts, balance'[x] < balance[x] PROVE x = a
      <4>1. Credit(legs, x) \in Nat
        <5> DEFINE f == LegAmountsTo(legs, x)
        <5>1. Len(legs) \in Nat /\ f \in [1 .. Len(legs) -> Nat]
          BY BatchType DEF LegAmountsTo
        <5>2. SumTo(f, Len(legs)) \in Nat
          <6> HIDE DEF f
          <6> QED BY <5>1, SumNat, Zenon
        <5> QED BY <5>2 DEF Credit, LegAmountsTo
      <4>2. x # a => balance'[x] = balance[x] + Credit(legs, x)
        BY <2>10, Zenon DEF batch_transfer
      <4> QED BY <2>2, <3>1, <4>1, <4>2, SMT, SMTT(40)
    <3>2. caller' = a
      BY <2>10 DEF batch_transfer
    <3> QED BY <2>4, <3>1, <3>2, Zenon
  <2>11. ASSUME NEW a \in Accounts, NEW b \in Accounts, NEW n, NEW e,
                \/ CloseLedger \/ approve(a, b, n, e) \/ increase_allowance(a, b, n)
                \/ decrease_allowance(a, b, n) \/ transfer_token_admin(a, b)
                \/ pause(a) \/ unpause(a)
         PROVE  Step
    <3>1. balance' = balance
      BY <2>11, Zenon DEF CloseLedger, approve, increase_allowance, decrease_allowance,
                          transfer_token_admin, pause, unpause
    <3> QED BY <2>3, <3>1
  <2> HIDE DEF Step
  <2>12. 1 \in Accounts
    BY TokenAssumption, SMT, SMTT(40) DEF Accounts
  <2>13. ASSUME NEW a \in Accounts, AccountNext(a) PROVE Step
    BY <2>6, <2>7, <2>8, <2>10, <2>11, <2>13, Zenon DEF AccountNext, Spenders
  <2>14. ASSUME NEW a \in Accounts, AdminNext(a) PROVE Step
    BY <2>8, <2>9, <2>11, <2>14, Zenon DEF AdminNext
  <2> QED BY <1>1, <2>11, <2>12, <2>13, <2>14, Zenon DEF TokenNext
<1>2. TokenInv /\ [MetaNext]_<<tokenVars, metaVars>> => [Step]_tokenVars
  <2> SUFFICES ASSUME TokenInv, MetaNext, ~ UNCHANGED tokenVars PROVE Step
    BY Zenon DEF tokenVars
  <2>1. CASE TokenNext
    BY <1>1, <2>1
  <2>2. CASE balance' = balance
    <3>1. \A x \in Accounts : ~ balance[x] < balance[x]
      BY TokenAssumption, SMT, SMTT(40) DEF TokenInv, TypeOK
    <3> QED BY <2>2, <3>1, Zenon
  <2> HIDE DEF Step
  <2> QED BY <2>1, <2>2, Zenon DEF MetaNext, add_allowed_metadata_key, coinVars,
                remove_allowed_metadata_key, set_metadata, remove_metadata
<1> QED BY <1>2, TokenInvariant, PTL DEF MetaSpec, Authorised

\* An expired allowance is worth nothing until its owner approves a new one:
\* raising, lowering or spending it keeps its expiry (token lib.rs,
\* increase_allowance, decrease_allowance, transfer_from, burn_from).
THEOREM ExpiredAlwaysDead == MetaSpec => ExpiredStaysDead
<1> DEFINE Dead(p) == \/ allowances'[p].expires < seq'
                      \/ caller' = p[1] /\ ~ paused
           Step == \A p \in Pairs :
                      seq > allowances[p].expires /\ allowances'[p] # allowances[p] => Dead(p)
<1>1. ASSUME TokenInv, TokenNext PROVE Step
  <2>1. /\ allowances \in [Pairs -> [amount : 0 .. MaxInt, expires : 0 .. MaxSeq]]
        /\ seq \in Nat /\ MaxSeq \in Nat
    BY <1>1, TokenAssumption, SMT, SMTT(40) DEF TokenInv, TypeOK
  <2>2. CASE allowances' = allowances
    BY <2>2, Zenon
  <2>3. ASSUME NEW o \in Accounts, NEW s \in Accounts, NEW m, SetAmount(o, s, m), seq' = seq
        PROVE  Step
    <3>1. \A p \in Pairs : allowances'[p].expires = allowances[p].expires
      BY <2>1, <2>3 DEF SetAmount
    <3>2. \A p \in Pairs : allowances[p].expires \in Nat
      BY <2>1, SMT, SMTT(40)
    <3>3. \A p \in Pairs : seq > allowances[p].expires => allowances'[p].expires < seq'
      BY <2>1, <2>3, <3>1, <3>2, Zenon
    <3> QED BY <3>3, Zenon
  <2>4. ASSUME NEW o \in Accounts, NEW s \in Accounts, NEW n, NEW e, approve(o, s, n, e)
        PROVE  Step
    <3> DEFINE q == <<o, s>>
               granted == [amount |-> n, expires |-> e]
    <3>1. /\ allowances' = [allowances EXCEPT ![q] = granted] /\ caller' = o /\ ~ paused
      BY <2>4, Zenon DEF approve
    <3>2. q[1] = o
      OBVIOUS
    <3> HIDE DEF q, granted
    <3>3. \A p \in Pairs : p # q => allowances'[p] = allowances[p]
      BY <2>1, <3>1, Zenon
    <3> QED BY <3>1, <3>2, <3>3, Zenon
  <2>5. ASSUME NEW a \in Accounts, NEW b \in Accounts, NEW d, NEW n,
               \/ transfer_from(a, b, d, n) \/ burn_from(a, b, n)
               \/ increase_allowance(a, b, n) \/ decrease_allowance(a, b, n)
        PROVE  Step
    <3>1. /\ seq' = seq
          /\ \/ SetAmount(b, a, get_allowance(b, a) - n)
             \/ SetAmount(a, b, get_allowance(a, b) + n)
             \/ SetAmount(a, b, get_allowance(a, b) - n)
      BY <2>5, Zenon DEF transfer_from, burn_from, increase_allowance, decrease_allowance
    <3> HIDE DEF Step
    <3> QED BY <2>3, <3>1, Zenon
  <2>6. ASSUME NEW a, NEW b, NEW n,
               \/ CloseLedger \/ transfer(a, b, n) \/ burn(a, n) \/ mint(a, b, n)
               \/ admin_burn(a, b, n) \/ transfer_token_admin(a, b) \/ pause(a) \/ unpause(a)
               \/ batch_transfer(a, n)
        PROVE  Step
    <3>1. allowances' = allowances
      BY <2>6, Zenon DEF CloseLedger, transfer, burn, mint, admin_burn, transfer_token_admin,
                         pause, unpause, batch_transfer
    <3> QED BY <2>2, <3>1
  <2> HIDE DEF Step
  <2>7. ASSUME NEW a \in Accounts, AccountNext(a) PROVE Step
    BY <2>4, <2>5, <2>6, <2>7, Zenon DEF AccountNext, Spenders
  <2>8. ASSUME NEW a \in Accounts, AdminNext(a) PROVE Step
    BY <2>6, <2>8, Zenon DEF AdminNext
  <2> QED BY <1>1, <2>6, <2>7, <2>8, Zenon DEF TokenNext
<1>2. TokenInv /\ [MetaNext]_<<tokenVars, metaVars>> => [Step]_tokenVars
  <2> SUFFICES ASSUME TokenInv, MetaNext, ~ UNCHANGED tokenVars PROVE Step
    BY DEF tokenVars
  <2>1. CASE TokenNext
    BY <1>1, <2>1
  <2>2. CASE allowances' = allowances
    BY <2>2, Zenon
  <2> HIDE DEF Step
  <2> QED BY <2>1, <2>2, Zenon DEF MetaNext, add_allowed_metadata_key, coinVars,
                remove_allowed_metadata_key, set_metadata, remove_metadata
<1> QED BY <1>2, TokenInvariant, PTL DEF MetaSpec, ExpiredStaysDead

\* The value of a withdrawn metadata key is not rewritten, and only the admin
\* of the moment changes a value or the allowlist, whatever calls come in
\* between (token lib.rs, set_metadata, remove_allowed_metadata_key).
THEOREM WithdrawnStaysFrozen == MetaSpec => WithdrawnFrozen
<1> DEFINE Step == \A k \in MetaKeys :
          /\ ~ is_metadata_key_allowed(k) => get_metadata(k)' \in {get_metadata(k), NoValue}
          /\ (get_metadata(k)' # get_metadata(k)
              \/ is_metadata_key_allowed(k)' # is_metadata_key_allowed(k)) =>
                caller' = tokenAdmin /\ tokenAdmin' = tokenAdmin
           Typed == metadata = [k \in MetaKeys |-> metadata[k]]
<1>1. MetaInit => Typed
  BY DEF MetaInit
<1>2. Typed /\ [MetaNext]_<<tokenVars, metaVars>> => Typed'
  BY Zenon DEF MetaNext, metaVars, add_allowed_metadata_key, remove_allowed_metadata_key,
         set_metadata, remove_metadata
<1>3. Typed /\ [MetaNext]_<<tokenVars, metaVars>> => Step
  <2> SUFFICES ASSUME Typed, [MetaNext]_<<tokenVars, metaVars>> PROVE Step
    OBVIOUS
  <2>1. CASE UNCHANGED metaVars
    BY <2>1, Zenon DEF metaVars, is_metadata_key_allowed, get_metadata
  <2>2. ASSUME NEW a \in Accounts, NEW k \in MetaKeys,
               add_allowed_metadata_key(a, k) \/ remove_allowed_metadata_key(a, k)
        PROVE  Step
    BY <2>2 DEF add_allowed_metadata_key, remove_allowed_metadata_key, coinVars,
                is_metadata_key_allowed, get_metadata
  <2>3. ASSUME NEW a \in Accounts, NEW k \in MetaKeys, NEW v \in MetaValues,
               set_metadata(a, k, v)
        PROVE  Step
    BY <2>3 DEF set_metadata, coinVars, is_metadata_key_allowed, get_metadata
  <2>4. ASSUME NEW a \in Accounts, NEW k \in MetaKeys, remove_metadata(a, k)
        PROVE  Step
    BY <2>4, Zenon DEF remove_metadata, coinVars, is_metadata_key_allowed, get_metadata
  <2> QED  BY <2>1, <2>2, <2>3, <2>4, Zenon DEF MetaNext, metaVars
<1> QED  BY <1>1, <1>2, <1>3, PTL DEF MetaSpec, WithdrawnFrozen

-----------------------------------------------------------------------------
(***************************************************************************)
(* Governance.                                                             *)
(***************************************************************************)

\* The approvals are of different addresses: there are as many approvers as
\* approvals.
Counted(approvals) ==
    /\ IsFiniteSet(Range(approvals))
    /\ Cardinality(Range(approvals)) = Len(approvals)

\* The inductive invariant.  The quorum is a matter of a step, but the step
\* only compares a length; that the length counts addresses is kept from
\* approval to approval.
GovInv ==
    /\ now \in Nat /\ counter \in Nat
    /\ proposals \in [ProposalIds -> Proposal \cup {None}]
    /\ digests = [id \in ProposalIds |-> digests[id]]
    /\ \A id \in ProposalIds : Stored(id) => Counted(proposals[id].approvals)
    /\ DigestMatches

\* One approval more, of an address that had not approved, is one approver
\* more (lib.rs, approve_action).
LEMMA CountAppend ==
    ASSUME NEW s \in Seq(Addresses), NEW a \in Addresses, Counted(s), a \notin Range(s)
    PROVE  Counted(Append(s, a))
<1>1. DOMAIN s = 1 .. Len(s) /\ Len(s) \in Nat /\ s \in [1 .. Len(s) -> Addresses]
  BY LenProperties, Zenon
<1>2. /\ Append(s, a) \in Seq(Addresses) /\ Len(Append(s, a)) = Len(s) + 1
      /\ \A i \in 1 .. Len(s) : Append(s, a)[i] = s[i]
      /\ Append(s, a)[Len(s) + 1] = a
  BY AppendProperties, SMT, SMTT(40)
<1>3. DOMAIN Append(s, a) = 1 .. Len(s) + 1
  BY <1>2, LenProperties, Zenon
<1>4. Range(Append(s, a)) = Range(s) \cup {a}
  BY <1>1, <1>2, <1>3, SMT, SMTT(40) DEF Range
<1>5. /\ IsFiniteSet(Range(s) \cup {a})
      /\ Cardinality(Range(s) \cup {a}) = Cardinality(Range(s)) + 1
  BY FS_AddElement, Zenon DEF Counted
<1> QED  BY <1>2, <1>4, <1>5, Zenon DEF Counted

\* A new proposal has one approval, its proposer's.
LEMMA CountOne ==
    ASSUME NEW a \in Addresses
    PROVE  Counted(<<a>>)
<1>1. Range(<<a>>) = {a} /\ Len(<<a>>) = 1
  BY SMT, SMTT(40) DEF Range
<1> QED  BY <1>1, FS_Singleton, Zenon DEF Counted

\* A proposal with the approval of a, executed or not.
Approved(p, a, e) == [p EXCEPT !.approvals = Append(@, a), !.executed = e]

\* What approve_action does to the proposal: one approval more, of an address
\* that had not approved, and executed only if the threshold is reached.
LEMMA ApproveShape ==
    ASSUME GovInv, NEW a \in Addresses, NEW id \in ProposalIds, approve_action(a, id)
    PROVE  /\ proposals[id] \in Proposal /\ proposals[id] # None
           /\ ~ Expired(proposals[id]) /\ ~ proposals[id].executed
           /\ a \notin Range(proposals[id].approvals)
           /\ \/ /\ proposals' = [proposals EXCEPT ![id] = Approved(proposals[id], a, TRUE)]
                 /\ Len(Append(proposals[id].approvals, a)) >= get_multisig_threshold
                 /\ Perform(proposals[id].action)
              \/ /\ proposals' = [proposals EXCEPT ![id] = Approved(proposals[id], a, FALSE)]
                 /\ UNCHANGED <<handover, version, open>>
           /\ UNCHANGED <<now, counter, digests>>
<1> DEFINE p == proposals[id]
           q == [p EXCEPT !.approvals = Append(@, a)]
<1>1. p \in Proposal
  BY DEF GovInv, approve_action, get_proposal
<1>2. /\ p # None /\ ~ Expired(p) /\ ~ p.executed /\ a \notin Range(p.approvals)
      /\ IF Len(q.approvals) >= get_multisig_threshold
           THEN execute_proposal_internal(id, q)
           ELSE set_proposal(id, q) /\ UNCHANGED <<handover, version, open>>
      /\ UNCHANGED <<now, counter, digests>>
  BY DEF approve_action, get_proposal
<1>3. /\ q.approvals = Append(p.approvals, a) /\ q.action = p.action
      /\ q = Approved(p, a, FALSE)
      /\ [q EXCEPT !.executed = TRUE] = Approved(p, a, TRUE)
  BY <1>1, <1>2, Zenon DEF Proposal, Approved
<1> HIDE DEF p, q
<1>4. CASE Len(q.approvals) >= get_multisig_threshold
  <2>1. /\ proposals' = [proposals EXCEPT ![id] = Approved(p, a, TRUE)]
        /\ Perform(p.action)
    BY <1>2, <1>3, <1>4, Zenon DEF execute_proposal_internal, set_proposal
  <2> QED  BY <1>1, <1>2, <1>3, <1>4, <2>1, Zenon DEF p
<1>5. CASE ~ (Len(q.approvals) >= get_multisig_threshold)
  <2>1. proposals' = [proposals EXCEPT ![id] = Approved(p, a, FALSE)]
    BY <1>2, <1>3, <1>5, Zenon DEF set_proposal
  <2> QED  BY <1>1, <1>2, <1>3, <1>5, <2>1, Zenon DEF p
<1> QED  BY <1>4, <1>5, Zenon

\* What execute_proposal does to the proposal.
LEMMA ExecuteShape ==
    ASSUME GovInv, NEW id \in ProposalIds, execute_proposal(id)
    PROVE  /\ proposals[id] \in Proposal /\ proposals[id] # None
           /\ ~ Expired(proposals[id]) /\ ~ proposals[id].executed
           /\ Len(proposals[id].approvals) >= get_multisig_threshold
           /\ proposals' = [proposals EXCEPT ![id] = [@ EXCEPT !.executed = TRUE]]
           /\ Perform(proposals[id].action)
           /\ UNCHANGED <<now, counter, digests>>
  BY Zenon DEF GovInv, execute_proposal, execute_proposal_internal, get_proposal,
         set_proposal

\* The other steps write no proposal.
LEMMA OtherShape ==
    ASSUME GovInv, [Next]_vars,
           ~ \E a \in Addresses, act \in AdminAction : Propose(a, act),
           ~ \E a \in Addresses, id \in ProposalIds : approve_action(a, id),
           ~ \E id \in ProposalIds : execute_proposal(id)
    PROVE  /\ UNCHANGED <<proposals, digests>>
           /\ now' \in Nat /\ counter' \in Nat
           /\ admin' = admin \/ (proposed = admin' /\ proposed' = None)
<1>1. CASE UNCHANGED vars
  BY <1>1 DEF GovInv, vars, ballots, handover
<1>2. CASE Tick \/ \E s \in Shipments : SettleShipment(s)
  BY <1>2, SMT, SMTT(40) DEF GovInv, Tick, SettleShipment, ballots, handover
<1>3. CASE (\E a \in Candidates : transfer_admin(a)) \/ accept_admin_transfer
  BY <1>3 DEF GovInv, transfer_admin, accept_admin_transfer, ballots
<1>4. CASE \E admins \in SUBSET Addresses, t \in 1 .. MaxAdmins : init_multisig(admins, t)
  BY <1>4, SMT, SMTT(40) DEF GovInv, init_multisig, handover
<1>5. CASE \E v \in 1 .. MaxVersion : upgrade(v)
  BY <1>5 DEF GovInv, upgrade, ballots, handover
<1>6. CASE \E a \in Addresses, act \in AdminAction :
              \/ propose_action(a, act)
              \/ \E salt \in Salts : propose_action_with_salt(a, act, salt)
  BY <1>6 DEF propose_action, propose_action_with_salt
<1> QED  BY <1>1, <1>2, <1>3, <1>4, <1>5, <1>6, ZenonT(40) DEF Next

\* propose_action writes the proposal and its digest together.
LEMMA ProposeStep ==
    ASSUME GovInv, NEW a \in Addresses, NEW act \in AdminAction, Propose(a, act)
    PROVE  GovInv'
<1> DEFINE new == NewProposal(a, act)
           id == counter + 1
<1>1. id \in ProposalIds /\ id \in Nat /\ counter' = id /\ now' = now /\ now \in Nat
  BY SMT, SMTT(40) DEF GovInv, Propose
<1>2. new \in Proposal /\ new.approvals = <<a>> /\ new.action = act
      /\ new.created_at = now
  BY GovernanceAssumption, <1>1, SMT, SMTT(40) DEF NewProposal, Proposal
<1>3. proposals' = [proposals EXCEPT ![id] = new]
  BY Zenon DEF Propose, set_proposal
<1>4. digests' = [digests EXCEPT ![id] = [proposal_id |-> id,
                     digest |-> compute_action_digest(id, act), computed_at |-> now]]
  BY DEF Propose, set_proposal_digest
<1> HIDE DEF new, id
<1>5. /\ proposals \in [ProposalIds -> Proposal \cup {None}]
      /\ digests = [i \in ProposalIds |-> digests[i]]
  BY Zenon DEF GovInv
<1>6. proposals' \in [ProposalIds -> Proposal \cup {None}]
      /\ digests' = [i \in ProposalIds |-> digests'[i]]
  BY <1>1, <1>2, <1>3, <1>4, <1>5, ZenonT(40)
<1>7. ASSUME NEW j \in ProposalIds, proposals'[j] # None
      PROVE  /\ Counted(proposals'[j].approvals)
             /\ digests'[j] = [proposal_id |-> j,
                   digest |-> compute_action_digest(j, proposals'[j].action),
                   computed_at |-> proposals'[j].created_at]
  <2>1. CASE j = id
    <3>1. proposals'[j] = new /\ digests'[j] = [proposal_id |-> id,
             digest |-> compute_action_digest(id, act), computed_at |-> now]
      BY <1>1, <1>3, <1>4, <1>5, <2>1, Zenon
    <3>2. Counted(<<a>>)
      BY CountOne, Zenon
    <3> QED  BY <1>2, <2>1, <3>1, <3>2, Zenon
  <2>2. CASE j # id
    <3>1. proposals'[j] = proposals[j] /\ digests'[j] = digests[j]
      BY <1>3, <1>4, <1>5, <2>2, Zenon
    <3> QED  BY <1>7, <3>1, Zenon DEF GovInv, DigestMatches, Stored,
                  get_proposal_action_digest, get_proposal
  <2> QED  BY <2>1, <2>2, Zenon
<1>8. DigestMatches'
  BY <1>7, Zenon DEF DigestMatches, Stored, get_proposal_action_digest, get_proposal,
              compute_action_digest
<1> QED  BY <1>1, <1>6, <1>7, <1>8, Zenon DEF GovInv, Stored

\* A rewritten proposal keeps its action and its creation time, and with them
\* its digest.
LEMMA RewriteStep ==
    ASSUME GovInv, NEW id \in ProposalIds, Stored(id), NEW q \in Proposal,
           q.action = proposals[id].action, q.created_at = proposals[id].created_at,
           Counted(q.approvals), proposals' = [proposals EXCEPT ![id] = q],
           UNCHANGED <<now, counter, digests>>
    PROVE  GovInv'
<1>1. proposals \in [ProposalIds -> Proposal \cup {None}]
  BY DEF GovInv
<1>2. proposals' \in [ProposalIds -> Proposal \cup {None}]
  BY <1>1, Zenon
<1>3. ASSUME NEW j \in ProposalIds, proposals'[j] # None
      PROVE  /\ Counted(proposals'[j].approvals)
             /\ digests[j] = [proposal_id |-> j,
                   digest |-> compute_action_digest(j, proposals'[j].action),
                   computed_at |-> proposals'[j].created_at]
  <2>1. CASE j = id
    <3>1. proposals'[j] = q
      BY <1>1, <2>1, Zenon
    <3> QED  BY <2>1, <3>1, Zenon DEF GovInv, DigestMatches, Stored,
                get_proposal_action_digest, get_proposal
  <2>2. CASE j # id
    <3>1. proposals'[j] = proposals[j]
      BY <1>1, <2>2, ZenonT(40)
    <3> QED  BY <1>3, <3>1, Zenon DEF GovInv, DigestMatches, Stored,
                get_proposal_action_digest, get_proposal
  <2> QED  BY <2>1, <2>2, Zenon
<1>4. DigestMatches'
  BY <1>3 DEF DigestMatches, Stored, get_proposal_action_digest, get_proposal,
              compute_action_digest
<1> QED  BY <1>2, <1>3, <1>4, Zenon DEF GovInv, Stored

\* The approvals an execution or an approval leaves are those of different
\* addresses, and the proposal is otherwise what it was.
LEMMA ApproveStep ==
    ASSUME GovInv, NEW a \in Addresses, NEW id \in ProposalIds, approve_action(a, id)
    PROVE  GovInv' /\ Counted(Append(proposals[id].approvals, a))
<1> DEFINE p == proposals[id]
<1>1. p \in Proposal /\ p # None /\ a \notin Range(p.approvals)
  BY ApproveShape, Zenon
<1>2. p.approvals \in Seq(Addresses) /\ Counted(p.approvals)
  BY <1>1, Zenon DEF Proposal, GovInv, Stored
<1>3. Counted(Append(p.approvals, a)) /\ Append(p.approvals, a) \in Seq(Addresses)
  BY <1>1, <1>2, CountAppend, SMT, SMTT(40)
<1>4. ASSUME NEW e \in BOOLEAN
      PROVE  /\ Approved(p, a, e) \in Proposal
             /\ Approved(p, a, e).approvals = Append(p.approvals, a)
             /\ Approved(p, a, e).action = p.action
             /\ Approved(p, a, e).created_at = p.created_at
  BY <1>1, <1>3, Zenon DEF Proposal, Approved
<1>5. PICK e \in BOOLEAN : proposals' = [proposals EXCEPT ![id] = Approved(p, a, e)]
  <2>1. \/ proposals' = [proposals EXCEPT ![id] = Approved(p, a, TRUE)]
        \/ proposals' = [proposals EXCEPT ![id] = Approved(p, a, FALSE)]
    BY ApproveShape, Zenon
  <2> QED  BY <2>1, Zenon
<1>6. UNCHANGED <<now, counter, digests>>
  BY ApproveShape, Zenon
<1>7. GovInv'
  BY <1>1, <1>3, <1>4, <1>5, <1>6, RewriteStep, Zenon DEF Stored
<1> QED  BY <1>3, <1>7

\* execute_proposal changes the flag alone.
LEMMA ExecuteStep ==
    ASSUME GovInv, NEW id \in ProposalIds, execute_proposal(id)
    PROVE  GovInv'
<1> DEFINE p == proposals[id]
           q == [p EXCEPT !.executed = TRUE]
<1>1. p \in Proposal /\ p # None
  BY ExecuteShape
<1>2. q \in Proposal /\ q.approvals = p.approvals /\ q.action = p.action
      /\ q.created_at = p.created_at
  BY <1>1, Zenon DEF Proposal
<1>3. Counted(p.approvals)
  BY <1>1 DEF GovInv, Stored
<1>4. proposals' = [proposals EXCEPT ![id] = q] /\ UNCHANGED <<now, counter, digests>>
  BY ExecuteShape
<1> HIDE DEF q
<1> QED  BY <1>1, <1>2, <1>3, <1>4, RewriteStep, Zenon DEF Stored

\* Every entry point keeps the invariant.
LEMMA GovInvariant == Spec => []GovInv
<1>1. Init => GovInv
  BY SMT, SMTT(40) DEF Init, GovInv, Stored, DigestMatches
<1>2. GovInv /\ [Next]_vars => GovInv'
  <2> SUFFICES ASSUME GovInv, [Next]_vars PROVE GovInv'
    OBVIOUS
  <2>1. CASE \E a \in Addresses, act \in AdminAction : Propose(a, act)
    BY <2>1, ProposeStep
  <2>2. CASE \E a \in Addresses, id \in ProposalIds : approve_action(a, id)
    BY <2>2, ApproveStep
  <2>3. CASE \E id \in ProposalIds : execute_proposal(id)
    BY <2>3, ExecuteStep, Zenon
  <2>4. CASE /\ UNCHANGED <<proposals, digests>>
             /\ now' \in Nat /\ counter' \in Nat
    BY <2>4 DEF GovInv, Stored, DigestMatches, get_proposal_action_digest,
                get_proposal, compute_action_digest
  <2> QED  BY <2>1, <2>2, <2>3, <2>4, OtherShape, Zenon
<1> QED  BY <1>1, <1>2, PTL DEF Spec

-----------------------------------------------------------------------------

\* The digest off-chain signers read is that of the proposal's action, for any
\* number of proposals and however often init_multisig restarts the ids
\* (lib.rs, propose_action).
THEOREM DigestAlwaysMatches == Spec => []DigestMatches
<1>1. GovInv => DigestMatches
  BY DEF GovInv
<1> QED  BY <1>1, GovInvariant, PTL

\* A step that writes no proposal executes none, and one that proposes stores
\* a proposal that is not executed.
LEMMA NoSurpriseExecution ==
    ASSUME GovInv, NEW id \in ProposalIds, Executes(id),
           UNCHANGED proposals \/ \E a \in Addresses, act \in AdminAction : Propose(a, act)
    PROVE  FALSE
<1>1. CASE UNCHANGED proposals
  BY <1>1, Zenon DEF Executes, Stored
<1>2. CASE \E a \in Addresses, act \in AdminAction : Propose(a, act)
  <2>1. PICK a \in Addresses, act \in AdminAction : Propose(a, act)
    BY <1>2, Zenon
  <2>2. proposals' = [proposals EXCEPT ![counter + 1] = NewProposal(a, act)]
    BY <2>1, Zenon DEF Propose, set_proposal
  <2>3. ~ NewProposal(a, act).executed
    BY DEF NewProposal
  <2>4. proposals \in [ProposalIds -> Proposal \cup {None}]
    BY DEF GovInv
  <2>5. proposals'[id] = proposals[id] \/ proposals'[id] = NewProposal(a, act)
    BY <2>2, <2>4, Zenon
  <2> QED  BY <2>3, <2>5, Zenon DEF Executes, Stored
<1> QED  BY <1>1, <1>2

\* Only the proposal an approval or an execution is about is executed by it.
LEMMA ExecutesOne ==
    ASSUME GovInv, NEW id \in ProposalIds, NEW j \in ProposalIds, Executes(id),
           NEW q, proposals' = [proposals EXCEPT ![j] = q]
    PROVE  id = j /\ proposals'[id] = q
<1>1. proposals \in [ProposalIds -> Proposal \cup {None}]
  BY DEF GovInv
<1> QED  BY <1>1, Zenon DEF Executes, Stored

\* A proposal is executed only with the approval of threshold many different
\* addresses, for every threshold, number of admins and order of approvals
\* (lib.rs, approve_action, execute_proposal_internal).
THEOREM QuorumAlwaysDistinct == Spec => QuorumOfDistinct
<1> DEFINE Step == \A id \in ProposalIds : Executes(id) =>
              Cardinality(Range(proposals'[id].approvals)) >= get_multisig_threshold
<1>1. GovInv /\ [Next]_vars => Step
  <2> SUFFICES ASSUME GovInv, [Next]_vars, NEW id \in ProposalIds, Executes(id)
               PROVE  Cardinality(Range(proposals'[id].approvals)) >= get_multisig_threshold
    OBVIOUS
  <2>1. CASE \E a \in Addresses, j \in ProposalIds : approve_action(a, j)
    <3>1. PICK a \in Addresses, j \in ProposalIds : approve_action(a, j)
      BY <2>1
    <3>2. Counted(Append(proposals[j].approvals, a))
      BY <3>1, ApproveStep
    <3>3. proposals[j] \in Proposal
      BY <3>1, ApproveShape, Zenon
    <3>4. \A e \in BOOLEAN :
             /\ Approved(proposals[j], a, e).approvals = Append(proposals[j].approvals, a)
             /\ Approved(proposals[j], a, e).executed = e
      BY <3>3 DEF Approved, Proposal
    <3>5. CASE /\ proposals' = [proposals EXCEPT ![j] = Approved(proposals[j], a, TRUE)]
               /\ Len(Append(proposals[j].approvals, a)) >= get_multisig_threshold
      <4> DEFINE q == Approved(proposals[j], a, TRUE)
      <4>1. Cardinality(Range(q.approvals)) >= get_multisig_threshold
        BY <3>2, <3>4, <3>5, Zenon DEF Counted
      <4>2. proposals' = [proposals EXCEPT ![j] = q]
        BY <3>5
      <4> HIDE DEF q
      <4>3. proposals'[id] = q
        BY <4>2, ExecutesOne, Zenon
      <4> QED  BY <4>1, <4>3
    <3>6. CASE proposals' = [proposals EXCEPT ![j] = Approved(proposals[j], a, FALSE)]
      <4> DEFINE q == Approved(proposals[j], a, FALSE)
      <4>1. ~ q.executed /\ proposals' = [proposals EXCEPT ![j] = q]
        BY <3>4, <3>6, Zenon
      <4> HIDE DEF q
      <4>2. proposals'[id] = q
        BY <4>1, ExecutesOne, Zenon
      <4> QED  BY <4>1, <4>2 DEF Executes
    <3> QED  BY <3>1, <3>5, <3>6, ApproveShape, Zenon
  <2>2. CASE \E j \in ProposalIds : execute_proposal(j)
    <3>1. PICK j \in ProposalIds : execute_proposal(j)
      BY <2>2
    <3>2. /\ proposals[j] \in Proposal /\ proposals[j] # None
          /\ Len(proposals[j].approvals) >= get_multisig_threshold
          /\ proposals' = [proposals EXCEPT ![j] = [@ EXCEPT !.executed = TRUE]]
      BY <3>1, ExecuteShape
    <3>3. [proposals[j] EXCEPT !.executed = TRUE].approvals = proposals[j].approvals
      BY <3>2 DEF Proposal
    <3>4. Counted(proposals[j].approvals)
      BY <3>2 DEF GovInv, Stored
    <3> DEFINE q == [proposals[j] EXCEPT !.executed = TRUE]
    <3>5. proposals' = [proposals EXCEPT ![j] = q]
      BY <3>2
    <3>6. Cardinality(Range(q.approvals)) >= get_multisig_threshold
      BY <3>2, <3>3, <3>4 DEF Counted
    <3> HIDE DEF q
    <3>7. proposals'[id] = q
      BY <3>5, ExecutesOne, Zenon
    <3> QED  BY <3>6, <3>7
  <2> QED  BY <2>1, <2>2, OtherShape, NoSurpriseExecution, Zenon
<1> QED  BY <1>1, GovInvariant, PTL DEF Spec, QuorumOfDistinct

\* An expired or executed proposal is never approved or executed again, for
\* any number of proposals running side by side (lib.rs, approve_action,
\* execute_proposal_internal).
THEOREM DeadStaysInert == Spec => DeadProposalInert
<1> DEFINE Step == \A id \in ProposalIds :
              (Stored(id) /\ (Expired(proposals[id]) \/ proposals[id].executed)) =>
                 proposals'[id] = proposals[id] \/ Reissued(id)
<1>1. GovInv /\ [Next]_vars => Step
  <2> SUFFICES ASSUME GovInv, [Next]_vars, NEW id \in ProposalIds,
                      Expired(proposals[id]) \/ proposals[id].executed
               PROVE  proposals'[id] = proposals[id] \/ Reissued(id)
    OBVIOUS
  <2>1. proposals \in [ProposalIds -> Proposal \cup {None}] /\ counter \in Nat
    BY Zenon DEF GovInv
  <2>2. CASE \E a \in Addresses, act \in AdminAction : Propose(a, act)
    <3>1. PICK a \in Addresses, act \in AdminAction : Propose(a, act)
      BY <2>2, Zenon
    <3>2. proposals' = [proposals EXCEPT ![counter + 1] = NewProposal(a, act)]
          /\ counter' = counter + 1
      BY <3>1, Zenon DEF Propose, set_proposal
    <3>3. CASE id = counter + 1
      BY <2>1, <3>2, <3>3, SMT, SMTT(40) DEF Reissued
    <3>4. CASE id # counter + 1
      BY <2>1, <3>2, <3>4, Zenon
    <3> QED  BY <3>3, <3>4
  <2>3. CASE \E a \in Addresses, j \in ProposalIds : approve_action(a, j)
    <3>1. PICK a \in Addresses, j \in ProposalIds : approve_action(a, j)
      BY <2>3
    <3>2. ~ Expired(proposals[j]) /\ ~ proposals[j].executed
          /\ \E q : proposals' = [proposals EXCEPT ![j] = q]
      BY <3>1, ApproveShape, Zenon
    <3> QED  BY <2>1, <3>2
  <2>4. CASE \E j \in ProposalIds : execute_proposal(j)
    <3>1. PICK j \in ProposalIds : execute_proposal(j)
      BY <2>4
    <3>2. ~ Expired(proposals[j]) /\ ~ proposals[j].executed
          /\ \E q : proposals' = [proposals EXCEPT ![j] = q]
      BY <3>1, ExecuteShape, Zenon
    <3> QED  BY <2>1, <3>2
  <2> QED  BY <2>2, <2>3, <2>4, OtherShape, Zenon
<1> QED  BY <1>1, GovInvariant, PTL DEF Spec, DeadProposalInert

\* An action that makes somebody the admin says so and names them.
LEMMA TransferNames ==
    ASSUME NEW act \in AdminAction, Perform(act), admin' # admin
    PROVE  act = [kind |-> "TransferAdmin", new_admin |-> admin']
<1>1. act.kind = "TransferAdmin" /\ admin' = act.new_admin
  BY Zenon DEF Perform, handover
<1>2. act \in [kind : {"TransferAdmin"}, new_admin : Candidates]
  BY <1>1 DEF AdminAction
<1> QED  BY <1>1, <1>2, Zenon

\* The admin changes only to the address the hand-over was pending for, or to
\* the one a TransferAdmin proposal executed by this step names (lib.rs,
\* accept_admin_transfer, execute_proposal_internal).
THEOREM AdminAlwaysByConsent == Spec => AdminByConsent
<1> DEFINE Step == admin' # admin =>
              \/ proposed = admin' /\ proposed' = None
              \/ \E id \in ProposalIds :
                    /\ Executes(id)
                    /\ proposals'[id].action =
                          [kind |-> "TransferAdmin", new_admin |-> admin']
<1>1. GovInv /\ [Next]_vars => Step
  <2> SUFFICES ASSUME GovInv, [Next]_vars, admin' # admin
               PROVE  \/ proposed = admin' /\ proposed' = None
                      \/ \E id \in ProposalIds :
                            /\ Executes(id)
                            /\ proposals'[id].action =
                                  [kind |-> "TransferAdmin", new_admin |-> admin']
    OBVIOUS
  <2>1. proposals \in [ProposalIds -> Proposal \cup {None}]
    BY Zenon DEF GovInv
  <2>2. ASSUME NEW j \in ProposalIds, NEW q \in Proposal, q.executed,
               proposals[j] \in Proposal, ~ proposals[j].executed,
               q.action = proposals[j].action, Perform(proposals[j].action),
               proposals' = [proposals EXCEPT ![j] = q]
        PROVE  /\ Executes(j)
               /\ proposals'[j].action = [kind |-> "TransferAdmin", new_admin |-> admin']
    <3>1. proposals'[j] = q
      BY <2>1, <2>2, Zenon
    <3>2. proposals[j].action \in AdminAction
      BY <2>2, Zenon DEF Proposal
    <3>3. proposals[j].action = [kind |-> "TransferAdmin", new_admin |-> admin']
      BY <2>2, <3>2, TransferNames, ZenonT(40)
    <3> QED  BY <2>2, <3>1, <3>3, NoneIsNoProposal, Zenon DEF Executes, Stored
  <2>3. CASE \E a \in Addresses, act \in AdminAction : Propose(a, act)
    BY <2>3 DEF Propose, handover
  <2>4. CASE \E j \in ProposalIds : execute_proposal(j)
    <3>1. PICK j \in ProposalIds : execute_proposal(j)
      BY <2>4
    <3> DEFINE q == [proposals[j] EXCEPT !.executed = TRUE]
    <3>2. /\ proposals[j] \in Proposal /\ ~ proposals[j].executed
          /\ proposals' = [proposals EXCEPT ![j] = q] /\ Perform(proposals[j].action)
      BY <3>1, ExecuteShape
    <3>3. q \in Proposal /\ q.executed /\ q.action = proposals[j].action
      BY <3>2, Zenon DEF Proposal
    <3> HIDE DEF q
    <3> QED  BY <2>2, <3>2, <3>3, Zenon
  <2>5. CASE \E a \in Addresses, j \in ProposalIds : approve_action(a, j)
    <3>1. PICK a \in Addresses, j \in ProposalIds : approve_action(a, j)
      BY <2>5
    <3> DEFINE q == Approved(proposals[j], a, TRUE)
    <3>2. /\ proposals[j] \in Proposal /\ ~ proposals[j].executed
          /\ proposals' = [proposals EXCEPT ![j] = q] /\ Perform(proposals[j].action)
      BY <3>1, ApproveShape, Zenon DEF handover
    <3>3. q \in Proposal /\ q.executed /\ q.action = proposals[j].action
      BY <3>2, AppendProperties, Zenon DEF Proposal, Approved
    <3> HIDE DEF q
    <3> QED  BY <2>2, <3>2, <3>3, Zenon
  <2> QED  BY <2>3, <2>4, <2>5, OtherShape, Zenon
<1> QED  BY <1>1, GovInvariant, PTL DEF Spec, AdminByConsent

=============================================================================
