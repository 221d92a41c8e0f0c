------------------------------ MODULE MCToken -------------------------------
(***************************************************************************)
(* An instance of TokenMetadata, and with it of Token, for TLC.            *)
(***************************************************************************)
EXTENDS TokenMetadata

\* Account 3 spends for account 2, which starts with nothing.
ThirdSpends == {<<2, 3>>}
==================================================
