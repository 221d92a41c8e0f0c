---------------------------- MODULE MCThrottle ----------------------------
(***************************************************************************)
(* An instance of Throttle for TLC.                                        *)
(***************************************************************************)
EXTENDS Throttle

\* Disabled; one shipment in 10 seconds; one that is refused.
MCQuotas == {<<0, 0>>, <<1, 10>>, <<1, 0>>}

\* Intervals that a bounded run can see the end of.
Short ==
    [DefaultConfig EXCEPT !.min_status_update_interval = 10,
                          !.idempotency_window_seconds = 20,
                          !.creation_quota_max = 2,
                          !.creation_quota_window_seconds = 15]

\* Another interval and no quota, and two that are refused.
MCOffered ==
    {Short,
     [Short EXCEPT !.min_status_update_interval = 15, !.creation_quota_max = 0],
     [Short EXCEPT !.min_status_update_interval = 5],
     [Short EXCEPT !.batch_operation_limit = 0]}
=============================================================================
