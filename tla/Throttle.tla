------------------------------ MODULE Throttle ------------------------------
(***************************************************************************)
(* What slows callers down: the per-company creation quota, the window in  *)
(* which a repeated call is refused, and the minimum interval between two  *)
(* status updates of a shipment.                                           *)
(*                                                                         *)
(* The limits are those of the configuration in force, which the admin may *)
(* change between any two calls.  Pausing is left out: it only takes calls *)
(* away.                                                                   *)
(*                                                                         *)
(* A ledger closes every LedgerSeconds.  Timestamps are seconds; temporary *)
(* storage, which holds the repeated-call window, counts ledgers.  A call  *)
(* refused by any of the three leaves no trace in the other two.           *)
(***************************************************************************)
EXTENDS Config, Sums, FiniteSetsExt

CONSTANTS
    Companies,        \* companies that create shipments
    Shipments,        \* shipments whose status is updated
    Hashes,           \* data hashes offered by the callers
    BatchSizes,       \* lengths of create_shipments_batch
    MinTempTtl,       \* host: ledgers a new temporary entry lives
    LedgerSeconds,    \* host: seconds between two ledgers
    MaxLedger         \* bound: ledger sequence number

Keys == (Companies \cup Shipments) \X Hashes

ASSUME ThrottleAssumption ==
    /\ BatchSizes \subseteq Nat
    /\ MaxLedger \in Nat
    /\ MinTempTtl \in Nat \ {0} /\ LedgerSeconds \in Nat \ {0}

VARIABLES
    seq,         \* ledger sequence number
    tracker,     \* DataKey::CompanyCreationQuota(company)
    liveUntil,   \* last ledger that DataKey::IdempotencyWindow(hash) lives in
    lastUpdate,  \* DataKey::LastStatusUpdate(shipment), -1 when absent
    made,        \* history: what this quota let a company make, by ledger
    accepted,    \* history: when a call with a key was last accepted, or -1
    updates      \* history: the last update of a shipment and whether by admin

throttleVars == <<seq, cfgVars, tracker, liveUntil, lastUpdate, made, accepted, updates>>

\* config.creation_quota_max and creation_quota_window_seconds, as a pair.
quota == <<config.creation_quota_max, config.creation_quota_window_seconds>>

now == seq * LedgerSeconds
Ledgers == 0 .. MaxLedger
NoTracker == [count |-> 0, window_start |-> -1]
NothingMade == [c \in Companies |-> [l \in Ledgers |-> 0]]

-----------------------------------------------------------------------------

\* Mutants of Rolled: the window ends one second late; an expired window is
\* emptied but not restarted.
RolledLate(c) ==
    IF tracker[c] = NoTracker \/ now > tracker[c].window_start + quota[2]
      THEN [count |-> 0, window_start |-> now]
      ELSE tracker[c]
RolledStartKept(c) ==
    IF tracker[c] = NoTracker THEN [count |-> 0, window_start |-> now]
    ELSE IF now >= tracker[c].window_start + quota[2]
      THEN [tracker[c] EXCEPT !.count = 0]
      ELSE tracker[c]

\* The tracker after the roll-over at the top of
\* check_and_update_creation_quota_by.
Rolled(c) ==
    IF tracker[c] = NoTracker \/ now >= tracker[c].window_start + quota[2]
      THEN [count |-> 0, window_start |-> now]
      ELSE tracker[c]

QuotaAllows(c, requested) ==
    quota[1] = 0 \/ requested = 0 \/ Rolled(c).count + requested <= quota[1]

check_and_update_creation_quota_by(c, requested) ==
    /\ QuotaAllows(c, requested)
    /\ IF quota[1] = 0 \/ requested = 0
         THEN UNCHANGED <<tracker, made>>
         ELSE /\ tracker' = [tracker EXCEPT ![c] =
                               [Rolled(c) EXCEPT !.count = @ + requested]]
              /\ made' = [made EXCEPT ![c][seq] = @ + requested]

\* get_creation_quota_status: used and remaining; -1 stands for u32::MAX.
get_creation_quota_status(c) ==
    IF quota[1] = 0 THEN <<0, -1>>
    ELSE IF tracker[c] = NoTracker \/ now >= tracker[c].window_start + quota[2]
           THEN <<0, quota[1]>>
           ELSE <<tracker[c].count, Max({0, quota[1] - tracker[c].count})>>

has_idempotency_window(k) == liveUntil[k] >= seq

div_ceil(a, b) == (a + b - 1) \div b

\* The host's extend_ttl(key, threshold, extend_to): the life of an entry is
\* prolonged only when no more than threshold ledgers of it are left.
extend_ttl(until, limit, extend_to) ==
    IF until - seq <= limit THEN Max({until, seq + extend_to}) ELSE until

set_idempotency_window(k) ==
    liveUntil' = [liveUntil EXCEPT ![k] =
        extend_ttl(seq + MinTempTtl - 1, 0,
                   Max({1, div_ceil(config.idempotency_window_seconds, 5)}))]

check_idempotency(k) ==
    /\ ~ has_idempotency_window(k)
    /\ set_idempotency_window(k)
    /\ accepted' = [accepted EXCEPT ![k] = now]

ThrottleInit ==
    /\ seq = 0
    /\ ConfigInit
    /\ tracker = [c \in Companies |-> NoTracker]
    /\ liveUntil = [k \in Keys |-> -1]
    /\ lastUpdate = [s \in Shipments |-> -1]
    /\ made = NothingMade
    /\ accepted = [k \in Keys |-> -1]
    /\ updates = [s \in Shipments |-> <<-1, FALSE>>]

CloseLedger ==
    /\ seq < MaxLedger
    /\ seq' = seq + 1
    /\ UNCHANGED <<cfgVars, tracker, liveUntil, lastUpdate, made, accepted, updates>>

create_shipment(c, h) ==
    /\ check_idempotency(<<c, h>>)
    /\ check_and_update_creation_quota_by(c, 1)
    /\ UNCHANGED <<seq, cfgVars, lastUpdate, updates>>

create_shipments_batch(c, n) ==
    /\ n <= config.batch_operation_limit
    /\ check_and_update_creation_quota_by(c, n)
    /\ UNCHANGED <<seq, cfgVars, liveUntil, lastUpdate, accepted, updates>>

\* Mutant of update_status: an update by the admin is not remembered.
update_status_forgetting(s, byAdmin, h) ==
    /\ check_idempotency(<<s, h>>)
    /\ \/ byAdmin
       \/ lastUpdate[s] = -1
       \/ now - lastUpdate[s] >= config.min_status_update_interval
    /\ lastUpdate' = IF byAdmin THEN lastUpdate ELSE [lastUpdate EXCEPT ![s] = now]
    /\ updates' = [updates EXCEPT ![s] = <<now, byAdmin>>]
    /\ UNCHANGED <<seq, cfgVars, tracker, made>>

update_status(s, byAdmin, h) ==
    /\ check_idempotency(<<s, h>>)
    /\ \/ byAdmin
       \/ lastUpdate[s] = -1
       \/ now - lastUpdate[s] >= config.min_status_update_interval
    /\ lastUpdate' = [lastUpdate EXCEPT ![s] = now]
    /\ updates' = [updates EXCEPT ![s] = <<now, byAdmin>>]
    /\ UNCHANGED <<seq, cfgVars, tracker, made>>

\* What was made under another quota does not count against a new one.
Reconfigured ==
    /\ made' = IF quota' = quota THEN made ELSE NothingMade
    /\ UNCHANGED <<seq, tracker, liveUntil, lastUpdate, accepted, updates>>

ThrottleNext ==
    \/ CloseLedger
    \/ \E c \in Companies :
          \/ \E h \in Hashes : create_shipment(c, h)
          \/ \E n \in BatchSizes : create_shipments_batch(c, n)
    \/ \E s \in Shipments, byAdmin \in BOOLEAN, h \in Hashes :
          update_status(s, byAdmin, h)
    \/ \E q \in Quotas : set_creation_quota(q) /\ Reconfigured
    \/ \E new_config \in Offered : update_config(new_config) /\ Reconfigured

ThrottleSpec == ThrottleInit /\ [][ThrottleNext]_throttleVars

-----------------------------------------------------------------------------

MadeIn(c, first, last) ==
    SumTo([l \in 1 .. MaxLedger + 1 |->
              IF l - 1 >= first /\ l - 1 < last THEN made[c][l - 1] ELSE 0],
          MaxLedger + 1)

\* Within the window that is open a company has made no more than the quota,
\* counting single and batch creation together.  The windows do not slide, so
\* two of them can meet, but no stretch of time as long as the window ever sees
\* more than twice the quota (lib.rs, check_and_update_creation_quota_by).
QuotaBound ==
    quota[1] > 0 =>
        \A c \in Companies :
            /\ tracker[c] # NoTracker /\ now < tracker[c].window_start + quota[2] =>
                  MadeIn(c, div_ceil(tracker[c].window_start, LedgerSeconds),
                         MaxLedger + 1) <= quota[1]
            /\ \A l \in Ledgers :
                  MadeIn(c, l, l + div_ceil(quota[2], LedgerSeconds)) <= 2 * quota[1]

\* get_creation_quota_status tells the truth: exactly the requests that fit in
\* the remaining quota it reports are let through, also at the instant the
\* window ends and after the quota was lowered.
StatusPredicts ==
    \A c \in Companies, n \in BatchSizes \cup {1} :
        LET remaining == get_creation_quota_status(c)[2] IN
        QuotaAllows(c, n) <=> (remaining = -1 \/ n <= remaining)

\* Accepted calls keep their distance, whatever was accepted, refused or
\* reconfigured in between: two calls with the same key are at least the life
\* of a temporary entry apart (lib.rs, check_idempotency), and a carrier's
\* status update comes at least the interval in force after any earlier update
\* of the shipment, the admin's included (lib.rs, update_status).
CallsApart ==
    [][/\ \A k \in Keys :
             (accepted[k] # -1 /\ accepted'[k] # accepted[k]) =>
                accepted'[k] - accepted[k] >= MinTempTtl * LedgerSeconds
       /\ \A s \in Shipments :
             (updates'[s] # updates[s] /\ updates[s][1] # -1 /\ ~ updates'[s][2]) =>
                updates'[s][1] - updates[s][1] >= config.min_status_update_interval
      ]_throttleVars
=============================================================================
