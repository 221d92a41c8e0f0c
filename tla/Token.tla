------------------------------- MODULE Token --------------------------------
(***************************************************************************)
(* The token contract: balances, allowances that expire, mint, burn and    *)
(* pause.  As in module Shipment a call is one step and a call that fails  *)
(* is a stutter; arithmetic that overflows makes the call fail, whether it *)
(* is written with checked_add or with + (overflow-checks is on).          *)
(*                                                                         *)
(* Accounts are numbered so that balances can be added up.  The metadata   *)
(* of the token is in module TokenMetadata.                                *)
(***************************************************************************)
EXTENDS Integers, Sequences, Sums

CONSTANTS
    NumAccounts,    \* addresses
    Supply,         \* total_supply given to initialize
    MaxInt,         \* i128::MAX
    Amounts,        \* the amounts offered to the entry points
    MaxSeq,         \* bound: ledger sequence
    BatchSize,      \* bound: recipients of a batch_transfer
    Grants          \* bound: the <<owner, spender>> pairs that use allowances

Accounts == 1 .. NumAccounts

ASSUME TokenAssumption ==
    /\ NumAccounts \in Nat \ {0}
    /\ MaxInt \in Nat /\ Supply \in 1 .. MaxInt
    /\ Amounts \subseteq 1 .. MaxInt
    /\ MaxSeq \in Nat \ {0} /\ BatchSize \in Nat
    /\ Grants \subseteq Accounts \X Accounts

VARIABLES
    seq,         \* ledger sequence number
    tokenAdmin,       \* DataKey::Admin
    paused,      \* DataKey::Paused
    supply,      \* DataKey::TotalSupply
    balance,     \* DataKey::Balance, 0 when absent
    allowances,  \* DataKey::Allowance: what get_allowance_raw returns
    caller       \* the address whose require_auth the last call passed

tokenVars == <<seq, tokenAdmin, paused, supply, balance, allowances, caller>>

Pairs == Accounts \X Accounts

\* No entry reads like an entry of 0 that expired at ledger 0.
NoAllowance == [amount |-> 0, expires |-> 0]

get_allowance(owner, spender) ==
    LET value == allowances[<<owner, spender>>] IN
    IF seq <= value.expires THEN value.amount ELSE 0

\* The amount changes and the expiry is preserved, as transfer_from,
\* burn_from, increase_allowance and decrease_allowance do.
SetAmount(owner, spender, amount) ==
    allowances' = [allowances EXCEPT ![<<owner, spender>>].amount = amount]

Fits(n) == n <= MaxInt

-----------------------------------------------------------------------------
TokenInit ==
    /\ seq = 1
    /\ tokenAdmin = 1
    /\ paused = FALSE
    /\ supply = Supply
    /\ balance = [a \in Accounts |-> IF a = 1 THEN Supply ELSE 0]
    /\ allowances = [p \in Pairs |-> NoAllowance]
    /\ caller = 1

CloseLedger ==
    /\ seq < MaxSeq
    /\ seq' = seq + 1
    /\ UNCHANGED <<tokenAdmin, paused, supply, balance, allowances, caller>>

transfer(from, to, amount) ==
    /\ ~ paused
    /\ from # to
    /\ balance[from] >= amount
    /\ Fits(balance[to] + amount)
    /\ balance' = [balance EXCEPT ![from] = @ - amount, ![to] = @ + amount]
    /\ caller' = from
    /\ UNCHANGED <<seq, tokenAdmin, paused, supply, allowances>>

transfer_from(spender, from, to, amount) ==
    /\ ~ paused
    /\ from # to
    /\ get_allowance(from, spender) >= amount
    /\ balance[from] >= amount
    /\ Fits(balance[to] + amount)
    /\ balance' = [balance EXCEPT ![from] = @ - amount, ![to] = @ + amount]
    /\ SetAmount(from, spender, get_allowance(from, spender) - amount)
    /\ caller' = spender
    /\ UNCHANGED <<seq, tokenAdmin, paused, supply>>

approve(from, spender, amount, expires) ==
    /\ ~ paused
    /\ from # spender
    /\ amount > 0 => expires >= seq
    /\ allowances' = [allowances EXCEPT ![<<from, spender>>] =
                        [amount |-> amount, expires |-> expires]]
    /\ caller' = from
    /\ UNCHANGED <<seq, tokenAdmin, paused, supply, balance>>

\* Mutant of increase_allowance: the raw amount and a fresh expiry.
increase_and_renew(owner, spender, delta) ==
    /\ owner # spender
    /\ Fits(get_allowance(owner, spender) + delta)
    /\ allowances' = [allowances EXCEPT ![<<owner, spender>>] =
                        [amount |-> @.amount + delta, expires |-> MaxSeq]]
    /\ caller' = owner
    /\ UNCHANGED <<seq, tokenAdmin, paused, supply, balance>>

\* Not subject to pause, and neither is decrease_allowance.
increase_allowance(owner, spender, delta) ==
    /\ owner # spender
    /\ Fits(get_allowance(owner, spender) + delta)
    /\ SetAmount(owner, spender, get_allowance(owner, spender) + delta)
    /\ caller' = owner
    /\ UNCHANGED <<seq, tokenAdmin, paused, supply, balance>>

decrease_allowance(owner, spender, delta) ==
    /\ owner # spender
    /\ delta <= get_allowance(owner, spender)
    /\ SetAmount(owner, spender, get_allowance(owner, spender) - delta)
    /\ caller' = owner
    /\ UNCHANGED <<seq, tokenAdmin, paused, supply, balance>>

transfer_token_admin(current, new) ==
    /\ tokenAdmin = current
    /\ tokenAdmin' = new
    /\ caller' = current
    /\ UNCHANGED <<seq, paused, supply, balance, allowances>>

\* Mutant of mint: the supply is not checked for overflow.
mint_unchecked(a, to, amount) ==
    /\ ~ paused
    /\ tokenAdmin = a
    /\ Fits(balance[to] + amount)
    /\ supply' = supply + amount
    /\ balance' = [balance EXCEPT ![to] = @ + amount]
    /\ caller' = a
    /\ UNCHANGED <<seq, tokenAdmin, paused, allowances>>

mint(a, to, amount) ==
    /\ ~ paused
    /\ tokenAdmin = a
    /\ Fits(supply + amount)
    /\ Fits(balance[to] + amount)
    /\ supply' = supply + amount
    /\ balance' = [balance EXCEPT ![to] = @ + amount]
    /\ caller' = a
    /\ UNCHANGED <<seq, tokenAdmin, paused, allowances>>

\* What admin_burn, burn and burn_from have in common.
Burnt(from, amount) ==
    /\ ~ paused
    /\ balance[from] >= amount
    /\ supply' = supply - amount
    /\ balance' = [balance EXCEPT ![from] = @ - amount]

admin_burn(a, from, amount) ==
    /\ tokenAdmin = a
    /\ Burnt(from, amount)
    /\ caller' = a
    /\ UNCHANGED <<seq, tokenAdmin, paused, allowances>>

burn(from, amount) ==
    /\ Burnt(from, amount)
    /\ caller' = from
    /\ UNCHANGED <<seq, tokenAdmin, paused, allowances>>

\* Mutant of burn_from: the allowance is not consumed.
burn_from_unspent(spender, from, amount) ==
    /\ get_allowance(from, spender) >= amount
    /\ Burnt(from, amount)
    /\ caller' = spender
    /\ UNCHANGED <<seq, tokenAdmin, paused, allowances>>

burn_from(spender, from, amount) ==
    /\ get_allowance(from, spender) >= amount
    /\ Burnt(from, amount)
    /\ SetAmount(from, spender, get_allowance(from, spender) - amount)
    /\ caller' = spender
    /\ UNCHANGED <<seq, tokenAdmin, paused>>

pause(a) ==
    /\ tokenAdmin = a
    /\ paused' = TRUE
    /\ caller' = a
    /\ UNCHANGED <<seq, tokenAdmin, supply, balance, allowances>>

unpause(a) ==
    /\ tokenAdmin = a
    /\ paused' = FALSE
    /\ caller' = a
    /\ UNCHANGED <<seq, tokenAdmin, supply, balance, allowances>>

\* A batch is a sequence of recipients, which may repeat.
Legs == [to : Accounts, amount : Amounts]

TotalOf(legs) == SumTo([k \in DOMAIN legs |-> legs[k].amount], Len(legs))

\* Mutant of Credit: the balances are read before the loop, so that of two
\* legs to one recipient only the last counts.
CreditLast(legs, a) ==
    LET mine == {k \in DOMAIN legs : legs[k].to = a} IN
    IF mine = {} THEN 0
    ELSE legs[CHOOSE k \in mine : \A j \in mine : j <= k].amount

Credit(legs, a) ==
    SumTo([k \in DOMAIN legs |-> IF legs[k].to = a THEN legs[k].amount ELSE 0],
          Len(legs))

batch_transfer(from, legs) ==
    /\ ~ paused
    /\ legs # <<>>
    /\ \A k \in DOMAIN legs : legs[k].to # from
    /\ Fits(TotalOf(legs))
    /\ balance[from] >= TotalOf(legs)
    /\ \A a \in Accounts : Fits(balance[a] + Credit(legs, a))
    /\ balance' = [a \in Accounts |->
                     IF a = from THEN balance[a] - TotalOf(legs)
                                 ELSE balance[a] + Credit(legs, a)]
    /\ caller' = from
    /\ UNCHANGED <<seq, tokenAdmin, paused, supply, allowances>>

Batches == UNION {[1 .. n -> Legs] : n \in 1 .. BatchSize}

Spenders(a) == {b \in Accounts : <<a, b>> \in Grants}

AccountNext(a) ==
    \/ \E b \in Accounts, n \in Amounts : transfer(a, b, n)
    \/ \E b, c \in Accounts, n \in Amounts : transfer_from(a, b, c, n)
    \/ \E b \in Spenders(a), n \in Amounts \cup {0}, e \in 0 .. MaxSeq :
           approve(a, b, n, e)
    \/ \E b \in Spenders(a), n \in Amounts : increase_allowance(a, b, n)
    \/ \E b \in Spenders(a), n \in Amounts : decrease_allowance(a, b, n)
    \/ \E n \in Amounts : burn(a, n)
    \/ \E b \in Accounts, n \in Amounts : burn_from(a, b, n)
    \/ \E legs \in Batches : batch_transfer(a, legs)

AdminNext(a) ==
    \/ \E b \in Accounts : transfer_token_admin(a, b)
    \/ \E b \in Accounts, n \in Amounts : mint(a, b, n)
    \/ \E b \in Accounts, n \in Amounts : admin_burn(a, b, n)
    \/ pause(a)
    \/ unpause(a)

TokenNext ==
    \/ CloseLedger
    \/ \E a \in Accounts : AccountNext(a) \/ AdminNext(a)

TokenSpec == TokenInit /\ [][TokenNext]_tokenVars

-----------------------------------------------------------------------------
\* Every variable has its type; no amount is negative or beyond an i128.
TypeOK ==
    /\ seq \in 1 .. MaxSeq /\ tokenAdmin \in Accounts /\ paused \in BOOLEAN
    /\ supply \in 0 .. MaxInt
    /\ balance \in [Accounts -> 0 .. MaxInt]
    /\ allowances \in [Pairs -> [amount : 0 .. MaxInt, expires : 0 .. MaxSeq]]
    /\ caller \in Accounts

\* The balances add up to the total supply: no transfer, batch, mint or burn
\* creates or loses tokens.
SupplyConserved == SumTo(balance, NumAccounts) = supply

\* Two balances together fit into an i128, so none of the unchecked additions
\* of transfer_from and batch_transfer can overflow and no transfer is ever
\* refused because its recipient is too rich.
NoOverflow ==
    \A a, b \in Accounts : a # b => Fits(balance[a] + balance[b])

\* A balance goes down only by the will of its holder, of the admin, or of a
\* spender whose unexpired allowance shrinks by the same amount.
Authorised ==
    [][\A a \in Accounts : balance'[a] < balance[a] =>
          \/ caller' \in {a, tokenAdmin}
          \/ \E s \in Accounts :
                /\ s = caller'
                /\ get_allowance(a, s) - get_allowance(a, s)' =
                       balance[a] - balance'[a]]_tokenVars

\* An allowance that has expired stays worthless until its owner approves a
\* new one: raising or spending it never brings it back.
ExpiredStaysDead ==
    [][\A p \in Pairs :
          seq > allowances[p].expires /\ allowances'[p] # allowances[p]
          => \/ allowances'[p].expires < seq'
             \/ caller' = p[1] /\ ~ paused]_tokenVars
=============================================================================
