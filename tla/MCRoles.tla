------------------------------ MODULE MCRoles -------------------------------
(***************************************************************************)
(* An instance of Roles for TLC.                                           *)
(***************************************************************************)
EXTENDS Roles

CONSTANTS a1, a2

\* An address may be asked about twice.
MCCandidates == <<a2, a1, a2>>
=============================================================================
