----------------------------- MODULE MCQueries -----------------------------
(***************************************************************************)
(* An instance of Queries for TLC: three shipments of two receivers.       *)
(***************************************************************************)
EXTENDS Queries

CONSTANTS acme, roadco, shop, depot

MCReceiverOf == <<shop, depot, shop>>

\* One of each kind: two that change and two that do not.
MCFilters ==
    {<<"status", "InTransit">>, <<"carrier", roadco>>, <<"sender", acme>>,
     <<"receiver", shop>>}

NoMilestones == {<<>>}

\* Pages of one; none at all, which validate_config refuses.
MCOffered ==
    {[DefaultConfig EXCEPT !.batch_operation_limit = 1],
     [DefaultConfig EXCEPT !.batch_operation_limit = 0]}
=============================================================================
