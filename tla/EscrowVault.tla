---------------------------- MODULE EscrowVault -----------------------------
(***************************************************************************)
(* What the shipment contract promises about money, and nothing else: an   *)
(* account for every shipment, kept in one pool of tokens.  An account is  *)
(* filled once at a time by a deposit, less a fee; it is paid out, in one  *)
(* or more slices, to the company or a carrier; or it is written off, when *)
(* the contract forgets the claim and keeps the tokens.                    *)
(***************************************************************************)
EXTENDS Integers, Sums

CONSTANTS Companies, Carriers, Contract, Treasury, MaxShipments

VaultIds == 1 .. MaxShipments

VARIABLES owed, bal

vaultVars == <<owed, bal>>

VaultInit ==
    /\ owed = [i \in VaultIds |-> 0]
    /\ bal[Contract] = 0

Deposit(i, from) ==
    /\ owed[i] = 0
    /\ \E net \in 0 .. bal[from] :
        /\ owed' = [owed EXCEPT ![i] = net]
        /\ \E fee \in 0 .. bal[from] - net :
              /\ net + fee > 0
              /\ bal' = [bal EXCEPT ![from] = @ - net - fee,
                                    ![Contract] = @ + net,
                                    ![Treasury] = @ + fee]

Pay(i, to) ==
    \E amount \in 1 .. owed[i] :
        /\ owed' = [owed EXCEPT ![i] = @ - amount]
        /\ bal' = [bal EXCEPT ![Contract] = @ - amount, ![to] = @ + amount]

WriteOff(i) ==
    /\ owed' = [owed EXCEPT ![i] = 0]
    /\ UNCHANGED bal

VaultNext ==
    \E i \in VaultIds :
        \/ \E from \in Companies : Deposit(i, from)
        \/ \E to \in Companies \cup Carriers : Pay(i, to)
        \/ WriteOff(i)

VaultSpec == VaultInit /\ [][VaultNext]_vaultVars
=============================================================================
