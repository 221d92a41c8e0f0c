------------------------------ MODULE Queries ------------------------------
(***************************************************************************)
(* Reading the shipments page by page while others change them.            *)
(*                                                                         *)
(* A client walks through the shipments that match a filter, by cursor     *)
(* (search_shipments_by_...) or by offset (get_shipments_by_..._page), or  *)
(* through the windows of check_consistency_paginated.  Each page is one   *)
(* call; between two pages shipments are created, moved, handed over,      *)
(* archived and lost, and the admin may change the configuration, with it  *)
(* the largest page.                                                       *)
(*                                                                         *)
(* Of the entry points of module Shipment those are taken that change what *)
(* a query can see; the amounts play no part here.                         *)
(***************************************************************************)
EXTENDS Audit, Config

CONSTANTS
    ReceiverOf,    \* the receiver of each shipment, which never changes
    Moves,         \* the statuses update_status is called with
    Filters,       \* pairs of a field and a value the client filters by
    PageSizes      \* the page sizes the client asks for

ASSUME QueriesAssumption ==
    /\ DOMAIN ReceiverOf = Ids
    /\ Moves \subseteq ShipmentStatus
    /\ \A f \in Filters : f[1] \in {"status", "sender", "carrier", "receiver"}
    /\ PageSizes \subseteq Nat

VARIABLE walk    \* the client: what it walks through and how far it is

queryVars == <<vars, cfgVars, walk>>

-----------------------------------------------------------------------------
(***************************************************************************)
(* Pages.                                                                  *)
(***************************************************************************)
\* The ids from first on that can be read and match, in ascending order.
MatchingFrom(first, matching) ==
    SelectSeq([k \in 1 .. counter - first + 1 |-> first + k - 1],
              LAMBDA i : get_shipment(i) /\ i \in matching)

UpTo(s, n) == SubSeq(s, 1, IF Len(s) < n THEN Len(s) ELSE n)

\* The loop that the four searches share.  0 stands for None: as a cursor it is
\* the same, cursor.unwrap_or(0).
Search(cursor, page_size, matching) ==
    LET ids == UpTo(MatchingFrom(cursor + 1, matching), page_size) IN
    [shipment_ids |-> ids,
     next_cursor |-> IF Len(ids) = page_size /\ ids[page_size] < counter
                     THEN ids[page_size] ELSE 0]

\* Mutant of search_shipments_by_status: the id after the cursor is passed over.
search_by_status_skipping(status, cursor, n) ==
    Search(IF cursor = 0 THEN 0 ELSE cursor + 1, n,
           {i \in Ids : ship[i].status = status})

search_shipments_by_status(status, cursor, n) ==
    Search(cursor, n, {i \in Ids : ship[i].status = status})

search_shipments_by_sender(sender, cursor, n) ==
    Search(cursor, n, {i \in Ids : ship[i].sender = sender})

search_shipments_by_carrier(carrier, cursor, n) ==
    Search(cursor, n, {i \in Ids : ship[i].carrier = carrier})

search_shipments_by_receiver(receiver, cursor, n) ==
    Search(cursor, n, {i \in Ids : ReceiverOf[i] = receiver})

\* The loop that the four page queries share: offset matches are skipped.
Page(offset, limit, matching) ==
    LET ids == MatchingFrom(1, matching) IN
    UpTo(SubSeq(ids, offset + 1, Len(ids)), limit)

get_shipments_by_status_page(status, offset, limit) ==
    Page(offset, limit, {i \in Ids : ship[i].status = status})

\* The queries without an offset.
get_shipments_by_status(status, limit) ==
    get_shipments_by_status_page(status, 0, limit)

get_shipments_by_sender_page(sender, offset, limit) ==
    Page(offset, limit, {i \in Ids : ship[i].sender = sender})

get_shipments_by_sender(sender, limit) ==
    get_shipments_by_sender_page(sender, 0, limit)

get_shipments_by_carrier_page(carrier, offset, limit) ==
    Page(offset, limit, {i \in Ids : ship[i].carrier = carrier})

get_shipments_by_carrier(carrier, limit) ==
    get_shipments_by_carrier_page(carrier, 0, limit)

get_shipments_by_receiver_page(receiver, offset, limit) ==
    Page(offset, limit, {i \in Ids : ReceiverOf[i] = receiver})

get_shipments_by_receiver(receiver, limit) ==
    get_shipments_by_receiver_page(receiver, 0, limit)

\* None in the place of an id that is unknown.
NoShipment == [status |-> "None"]

get_shipments_batch(shipment_ids) ==
    IF Len(shipment_ids) > effective_batch_query_limit
    THEN "BatchTooLarge"
    ELSE [k \in DOMAIN shipment_ids |->
            IF get_shipment(shipment_ids[k]) THEN ship[shipment_ids[k]] ELSE NoShipment]

-----------------------------------------------------------------------------
(***************************************************************************)
(* The client.  got is what the pages returned, in order; steady are the   *)
(* shipments that have matched ever since the walk began; disturbed says   *)
(* that a shipment that was there already has begun or ceased to match.    *)
(***************************************************************************)
NoFilter == <<"violation">>

Matching(filter) ==
    {i \in 1 .. counter :
        CASE filter = NoFilter -> check_shipment_invariants(i) # {}
          [] filter[1] = "status" -> get_shipment(i) /\ ship[i].status = filter[2]
          [] filter[1] = "sender" -> get_shipment(i) /\ ship[i].sender = filter[2]
          [] filter[1] = "carrier" -> get_shipment(i) /\ ship[i].carrier = filter[2]
          [] OTHER -> get_shipment(i) /\ ReceiverOf[i] = filter[2]}

Idle == [kind |-> "none", done |-> FALSE]

StartWalk(kind, filter) ==
    /\ walk = Idle
    /\ counter > 0
    /\ walk' = [kind |-> kind, filter |-> filter, pos |-> 0, got |-> <<>>,
                steady |-> Matching(filter), disturbed |-> FALSE, done |-> FALSE]
    /\ UNCHANGED <<vars, cfgVars>>

CursorPage(n) ==
    LET value == walk.filter[2]
        page == CASE walk.filter[1] = "status" ->
                       search_shipments_by_status(value, walk.pos, n)
                  [] walk.filter[1] = "sender" ->
                       search_shipments_by_sender(value, walk.pos, n)
                  [] walk.filter[1] = "carrier" ->
                       search_shipments_by_carrier(value, walk.pos, n)
                  [] OTHER -> search_shipments_by_receiver(value, walk.pos, n)
    IN
    /\ n \in 1 .. config.batch_operation_limit
    /\ walk' = [walk EXCEPT !.got = @ \o page.shipment_ids,
                            !.pos = page.next_cursor,
                            !.done = page.next_cursor = 0]

\* A page that is not full is the last one.
OffsetPage(n) ==
    LET field == walk.filter[1]
        value == walk.filter[2]
        first == CASE field = "status" -> get_shipments_by_status(value, n)
                   [] field = "sender" -> get_shipments_by_sender(value, n)
                   [] field = "carrier" -> get_shipments_by_carrier(value, n)
                   [] OTHER -> get_shipments_by_receiver(value, n)
        next == CASE field = "status" ->
                       get_shipments_by_status_page(value, walk.pos, n)
                  [] field = "sender" ->
                       get_shipments_by_sender_page(value, walk.pos, n)
                  [] field = "carrier" ->
                       get_shipments_by_carrier_page(value, walk.pos, n)
                  [] OTHER -> get_shipments_by_receiver_page(value, walk.pos, n)
        page == IF walk.pos = 0 THEN first ELSE next
    IN
    /\ n \in 1 .. effective_batch_query_limit
    /\ walk' = [walk EXCEPT !.got = @ \o page,
                            !.pos = @ + Len(page),
                            !.done = Len(page) < n]

\* An empty page means a healthy window, not the end: that is the last id.
check_consistency_paginated(n) ==
    LET found == check_all_consistency_range(walk.pos + 1, n)
        ids == {v[2] : v \in {w \in found : Len(w) = 2}}
    IN
    /\ n \in 1 .. effective_batch_query_limit
    /\ walk' = [walk EXCEPT !.got = @ \o SelectSeq([k \in 1 .. counter |-> k],
                                                   LAMBDA i : i \in ids),
                            !.pos = @ + n,
                            !.done = walk.pos + n >= counter]

NextPage ==
    /\ walk # Idle /\ ~ walk.done
    /\ \E n \in PageSizes :
           \/ walk.kind = "cursor" /\ CursorPage(n)
           \/ walk.kind = "offset" /\ OffsetPage(n)
           \/ walk.kind = "audit" /\ check_consistency_paginated(n)
    /\ UNCHANGED <<vars, cfgVars>>

-----------------------------------------------------------------------------
(***************************************************************************)
(* Everybody else.                                                         *)
(***************************************************************************)
\* The client's history follows the change another call made.
Watched ==
    IF walk = Idle
    THEN UNCHANGED walk
    ELSE \E filter \in {walk.filter} :
             walk' = [walk EXCEPT
                        !.steady = @ \cap Matching(filter)',
                        !.disturbed =
                            \/ @
                            \/ Matching(filter)' \cap 1 .. counter # Matching(filter)]

\* What happens after the last page is of no interest.
Others ==
    /\ ~ walk.done
    /\ \/ \E c \in Companies, input \in ShipmentInput : create_shipment(c, input)
       \/ \E i \in Ids :
             \/ \E s \in Moves : update_status(i, s)
             \/ \E k \in Carriers : handoff_shipment(i, k)
             \/ ArchiveNext(i)
    /\ Watched
    /\ UNCHANGED cfgVars

Reconfigure ==
    /\ ~ paused
    /\ ~ walk.done
    /\ \E new_config \in Offered : update_config(new_config)
    /\ UNCHANGED <<vars, walk>>

QueryInit ==
    /\ Init
    /\ ConfigInit
    /\ walk = Idle

QueryNext ==
    \/ \E filter \in Filters, kind \in {"cursor", "offset"} : StartWalk(kind, filter)
    \/ StartWalk("audit", NoFilter)
    \/ NextPage
    \/ Others
    \/ Reconfigure

\* The client asks for the next page until there is none.
QuerySpec ==
    /\ QueryInit
    /\ [][QueryNext]_queryVars
    /\ WF_queryVars(NextPage)

-----------------------------------------------------------------------------
(***************************************************************************)
(* Properties.                                                             *)
(***************************************************************************)

\* A finished walk has returned every shipment that matched all along, none
\* twice, whatever pages it asked for and whatever happened in between.  By
\* cursor and by window that holds always.  An offset counts matches, so there
\* it holds as long as no shipment already there began or ceased to match;
\* new ones come last and do no harm.  What a cursor walk returned, ids only,
\* can then be fetched in one batch: get_shipments_batch has a record in the
\* place of every shipment that matched all along.
WalkComplete ==
    walk.done =>
        LET returned == {walk.got[k] : k \in DOMAIN walk.got} IN
        walk.kind # "offset" \/ ~ walk.disturbed =>
            /\ walk.steady \subseteq returned
            /\ Cardinality(returned) = Len(walk.got)
            /\ walk.kind = "cursor" =>
                  \A k \in DOMAIN walk.got :
                     walk.got[k] \in walk.steady =>
                        get_shipments_batch(walk.got)[k] # NoShipment

\* Every walk ends, also when the admin changes the largest page on the way:
\* the configuration never gets to a state in which no page size is accepted.
WalkEnds == walk # Idle ~> walk.done
=============================================================================
