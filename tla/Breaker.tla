------------------------------ MODULE Breaker ------------------------------
(***************************************************************************)
(* The circuit breaker around token transfers (circuit_breaker.rs and      *)
(* invoke_token_transfer in lib.rs).                                       *)
(*                                                                         *)
(* A transfer asks the breaker, calls the token and reports the outcome to *)
(* the breaker, all in one transaction.  KeepFailures says what becomes of *)
(* the report of a failed transfer: TRUE when the writes of the call are   *)
(* kept, the setting the unit tests of circuit_breaker.rs use; FALSE when  *)
(* the entry point passes the error on and the host discards them, which   *)
(* is what every caller of invoke_token_transfer does.                     *)
(*                                                                         *)
(* Only differences of times matter, so instead of the clock the model     *)
(* keeps ages in seconds, which stop growing at Horizon.                   *)
(***************************************************************************)
EXTENDS Integers

CONSTANTS
    Presets,         \* the CircuitBreakerPreset values offered
    KeepFailures,    \* whether the writes of a failed transfer survive
    Admin,           \* DataKey::Admin
    AdminList,       \* DataKey::AdminList
    Step,            \* bound: the seconds from one ledger to the next
    Horizon,         \* bound: ages stop growing here
    MaxRun           \* bound: runs of failures are counted up to here

MAX_FAILURE_THRESHOLD == 1000
MAX_RECOVERY_TIMEOUT == 30 * 24 * 60 * 60
MAX_HALF_OPEN_REQUESTS == 1000

CircuitBreakerConfig(threshold, timeout, half_open_max) ==
    [failure_threshold |-> threshold, recovery_timeout |-> timeout,
     half_open_max_requests |-> half_open_max]

default == CircuitBreakerConfig(5, 300, 3)
strict == CircuitBreakerConfig(3, 600, 1)
permissive == CircuitBreakerConfig(10, 60, 5)

\* CircuitBreakerPreset::Custom carries its three numbers.
Custom(threshold, timeout, half_open_max) ==
    [preset |-> "Custom",
     config |-> CircuitBreakerConfig(threshold, timeout, half_open_max)]

Named(preset) == [preset |-> preset, config |-> default]

\* CircuitBreakerPreset::resolve: whether it returns Ok, and what.
Resolves(p) ==
    p.preset = "Custom" =>
       /\ p.config.failure_threshold \in 1 .. MAX_FAILURE_THRESHOLD
       /\ p.config.recovery_timeout \in 0 .. MAX_RECOVERY_TIMEOUT
       /\ p.config.half_open_max_requests \in 1 .. MAX_HALF_OPEN_REQUESTS

resolve(p) ==
    CASE p.preset = "Default" -> default
      [] p.preset = "Strict" -> strict
      [] p.preset = "Permissive" -> permissive
      [] p.preset = "Custom" -> p.config

Configs ==
    [failure_threshold : 1 .. MAX_FAILURE_THRESHOLD,
     recovery_timeout : 0 .. MAX_RECOVERY_TIMEOUT,
     half_open_max_requests : 1 .. MAX_HALF_OPEN_REQUESTS]

ASSUME BreakerAssumption ==
    /\ Presets \subseteq
          [preset : {"Default", "Strict", "Permissive", "Custom"},
           config : [failure_threshold : Nat, recovery_timeout : Nat,
                     half_open_max_requests : Nat]]
    /\ KeepFailures \in BOOLEAN
    /\ Step \in Nat \ {0} /\ MaxRun \in Nat
    /\ Horizon \in Nat /\ default.recovery_timeout <= Horizon
    /\ \A p \in Presets : Resolves(p) => resolve(p).recovery_timeout <= Horizon

VARIABLES
    breakerConfig,  \* DataKey::CircuitBreakerConfig
    breaker,        \* DataKey::CircuitBreakerState
    quiet,          \* seconds since a transfer was last tried
    failures        \* transfers that failed since the last that succeeded

breakerVars == <<breakerConfig, breaker, quiet, failures>>

Older(age) == IF age + Step < Horizon THEN age + Step ELSE Horizon

\* CircuitBreakerTracker::new; open_for is the age of opened_at.
new ==
    [state |-> "Closed", failure_count |-> 0, open_for |-> Horizon,
     half_open_requests |-> 0]

-----------------------------------------------------------------------------

\* Mutant of record_success: a half-open breaker waits for all its probes.
success_after_all_probes(b) ==
    IF b.state = "HalfOpen" /\ b.half_open_requests = breakerConfig.half_open_max_requests
      THEN [b EXCEPT !.state = "Closed", !.failure_count = 0,
                     !.half_open_requests = 0]
      ELSE b

\* Another: after a successful probe the breaker waits for a further one.
success_reopens(b) ==
    IF b.state = "HalfOpen"
      THEN [b EXCEPT !.state = "Open", !.open_for = 0, !.half_open_requests = 0]
      ELSE b

record_success(b) ==
    IF b.state = "HalfOpen"
      THEN [b EXCEPT !.state = "Closed", !.failure_count = 0,
                     !.half_open_requests = 0]
      ELSE b

\* Mutant of record_failure: a failed probe does not start the recovery timeout
\* again.
failure_keeps_timer(b) ==
    CASE b.state = "Closed" ->
           LET n == b.failure_count + 1 IN
           IF n >= breakerConfig.failure_threshold
             THEN [b EXCEPT !.failure_count = n, !.state = "Open",
                            !.open_for = 0]
             ELSE [b EXCEPT !.failure_count = n]
      [] b.state = "Open" -> [b EXCEPT !.failure_count = @ + 1]
      [] b.state = "HalfOpen" ->
           [b EXCEPT !.state = "Open", !.half_open_requests = 0]

record_failure(b) ==
    CASE b.state = "Closed" ->
           LET n == b.failure_count + 1 IN
           IF n >= breakerConfig.failure_threshold
             THEN [b EXCEPT !.failure_count = n, !.state = "Open",
                            !.open_for = 0]
             ELSE [b EXCEPT !.failure_count = n]
      [] b.state = "Open" -> [b EXCEPT !.failure_count = @ + 1]
      [] b.state = "HalfOpen" ->
           [b EXCEPT !.state = "Open", !.open_for = 0,
                     !.half_open_requests = 0]

\* should_allow_request: whether it returns Ok, and the breaker it leaves.
Allows(b) ==
    \/ b.state = "Closed"
    \/ b.state = "Open" /\ b.open_for >= breakerConfig.recovery_timeout
    \/ /\ b.state = "HalfOpen"
       /\ b.half_open_requests < breakerConfig.half_open_max_requests

Asked(b) ==
    CASE b.state = "Closed" -> b
      [] b.state = "Open" ->
           [b EXCEPT !.state = "HalfOpen", !.half_open_requests = 1]
      [] b.state = "HalfOpen" -> [b EXCEPT !.half_open_requests = @ + 1]

get_recovery_time_remaining(b) ==
    IF b.state = "Open" /\ b.open_for < breakerConfig.recovery_timeout
      THEN breakerConfig.recovery_timeout - b.open_for
      ELSE 0

get_breaker_status ==
    [state |-> breaker.state, failure_count |-> breaker.failure_count,
     remaining |-> get_recovery_time_remaining(breaker)]

\* get_config falls back to the default.
BreakerInit ==
    /\ breakerConfig = default
    /\ breaker = new
    /\ quiet = Horizon
    /\ failures = 0

Tick ==
    /\ breaker' = [breaker EXCEPT !.open_for = Older(@)]
    /\ quiet' = Older(quiet)
    /\ UNCHANGED <<breakerConfig, failures>>

TransferSucceeds ==
    /\ Allows(breaker)
    /\ breaker' = record_success(Asked(breaker))
    /\ quiet' = 0
    /\ failures' = 0
    /\ UNCHANGED breakerConfig

TransferFails ==
    /\ Allows(breaker)
    /\ breaker' = IF KeepFailures THEN record_failure(Asked(breaker)) ELSE breaker
    /\ quiet' = 0
    /\ failures' = IF failures < MaxRun THEN failures + 1 ELSE MaxRun
    /\ UNCHANGED breakerConfig

manual_reset(a) ==
    /\ a \in AdminList
    /\ breaker' = new
    /\ UNCHANGED <<breakerConfig, quiet, failures>>

set_circuit_breaker_config(a, p) ==
    /\ a = Admin
    /\ Resolves(p)
    /\ breakerConfig' = resolve(p)
    /\ UNCHANGED <<breaker, quiet, failures>>

BreakerNext ==
    \/ Tick
    \/ TransferSucceeds
    \/ TransferFails
    \/ \E a \in {Admin} \cup AdminList :
          \/ manual_reset(a)
          \/ \E p \in Presets : set_circuit_breaker_config(a, p)

BreakerSpec == BreakerInit /\ [][BreakerNext]_breakerVars

\* Time passes, and a transfer that would succeed is tried again and again.
\* Nobody is assumed ever to reset the breaker or to change its configuration.
FairBreakerSpec == BreakerSpec /\ WF_breakerVars(Tick) /\ SF_breakerVars(TransferSucceeds)

-----------------------------------------------------------------------------

\* Every stored value has its type.
BreakerTypeOK ==
    /\ breakerConfig \in Configs
    /\ breaker \in [state : {"Closed", "Open", "HalfOpen"}, failure_count : Nat,
                    open_for : 0 .. Horizon, half_open_requests : Nat]
    /\ quiet \in 0 .. Horizon /\ failures \in 0 .. MaxRun

\* The stored failure_count never passes the largest threshold that resolve
\* accepts, however the threshold is raised and lowered between failures, so
\* the unchecked += 1 of record_failure cannot overflow (circuit_breaker.rs).
CountBounded == breaker.failure_count <= MAX_FAILURE_THRESHOLD

\* What the status query says is what the next transfer meets: the breaker is
\* never found half-open, because the one probe a recovery admits is reported
\* before the call ends, and the time remaining is 0 exactly when
\* should_allow_request would let a transfer through (circuit_breaker.rs,
\* get_breaker_status and should_allow_request; lib.rs, invoke_token_transfer).
StatusForetells ==
    /\ get_breaker_status.state \in {"Closed", "Open"}
    /\ breaker.half_open_requests = 0
    /\ get_breaker_status.remaining = 0 <=> Allows(breaker)

\* A transfer is tried on an open breaker only after a full recovery timeout in
\* which none was tried, however often it opened before and whatever happened
\* to the configuration (circuit_breaker.rs, should_allow_request).
OpenShields ==
    [][breaker.state = "Open" /\ (TransferSucceeds \/ TransferFails) =>
          quiet >= breakerConfig.recovery_timeout]_breakerVars

\* An open breaker closes again without the admin: "Automatic recovery after
\* time window" (circuit_breaker.rs).
Recovers == breaker.state = "Open" ~> breaker.state = "Closed"

\* "tracking consecutive failures and entering open state" (circuit_breaker.rs):
\* after failure_threshold failures in a row the breaker is not closed.
OpensAtThreshold ==
    [][TransferFails /\ failures' >= breakerConfig.failure_threshold =>
          breaker'.state = "Open"]_breakerVars
=============================================================================
