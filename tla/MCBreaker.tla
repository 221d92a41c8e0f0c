----------------------------- MODULE MCBreaker -----------------------------
(***************************************************************************)
(* An instance of Breaker for TLC: the three named presets, a custom one   *)
(* on the lower limits and three that resolve refuses.                     *)
(***************************************************************************)
EXTENDS Breaker

MCPresets ==
    {Named("Default"), Named("Strict"), Named("Permissive"), Custom(1, 0, 1),
     Custom(0, 60, 1), Custom(1001, 60, 1), Custom(2, 60, 0)}
=============================================================================
