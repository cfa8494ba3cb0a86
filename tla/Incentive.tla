------------------------------ MODULE Incentive ------------------------------
(***************************************************************************)
(* Bandwidth receipts (src/src/mesh/incentive.c).  Every node counts the   *)
(* bytes it relays for a peer; once per window it signs a receipt for them *)
(* and sends it to the peer, which keeps it until BTCPay has paid for it.  *)
(* A receipt may be delivered late, never, or again.                       *)
(***************************************************************************)
EXTENDS Naturals, FiniteSetsExt

CONSTANTS
    Traders,       \* the nodes
    MinUnits,      \* BW_MIN_BYTES_FOR_RECEIPT, in units of relayed bytes
    MaxBuffered,   \* BW_MAX_RECEIPTS_BUFFERED
    MaxTracked,    \* BW_MAX_TRACKED_PEERS
    MaxRelayed,    \* bound: units relayed for one peer
    MaxWindows     \* bound: settlements of a node

ASSUME IncentiveAssumption ==
    /\ {MinUnits, MaxBuffered, MaxTracked} \subseteq Nat \ {0}
    /\ {MaxRelayed, MaxWindows} \subseteq Nat

VARIABLES
    tracked,   \* node -> the entries of inc->peers
    windows,   \* node -> settlements so far: its clock
    issued,    \* the receipts signed and sent; a node's own are inc->issued
    held,      \* node -> inc->received
    credits,   \* node -> [receipt -> how often it was accepted]
    worked,    \* <<node, peer>> -> the units node relayed for peer
    evicted    \* the nodes that gave up an entry

incentiveVars == <<tracked, windows, issued, held, credits, worked, evicted>>

IncentiveInit ==
    /\ tracked = [n \in Traders |-> {}]
    /\ windows = [n \in Traders |-> 0]
    /\ issued = {}
    /\ held = [n \in Traders |-> {}]
    /\ credits = [n \in Traders |-> <<>>]
    /\ worked = [w \in Traders \X Traders |-> 0]
    /\ evicted = {}

\* An entry is found by the fingerprint of a peer; the payer of a receipt has one under
\* the hash of its signature key, which is another name.
ByFingerprint(p) == <<"fingerprint", p>>
ByKey(p) == <<"key", p>>

FreshBook(n, name) == [name |-> name, bytes |-> 0, since |-> windows[n], serial |-> 1, last |-> 0]

\* incentive_get_or_create_peer: the tables with the entry in them, and the entry.  A
\* full table gives up the entry with the oldest window.
Found(n, name) ==
    LET t == tracked[n]
        oldest == {e \in t : \A f \in t : e.since <= f.since}
    IN IF \E e \in t : e.name = name THEN {[table |-> t, entry |-> e] : e \in {x \in t : x.name = name}}
       ELSE IF Cardinality(t) < MaxTracked
       THEN {[table |-> t \cup {FreshBook(n, name)}, entry |-> FreshBook(n, name)]}
       ELSE {[table |-> (t \ {e}) \cup {FreshBook(n, name)}, entry |-> FreshBook(n, name)] : e \in oldest}

Put(f, e) == (f.table \ {f.entry}) \cup {e}
Evictions(n, f) == IF tracked[n] \subseteq f.table THEN evicted ELSE evicted \cup {n}

\* trellis_incentive_record_relay.
RecordRelay(n, p) ==
    /\ worked[<<n, p>>] < MaxRelayed
    /\ \E f \in Found(n, ByFingerprint(p)) :
        /\ tracked' = [tracked EXCEPT ![n] = Put(f, [f.entry EXCEPT !.bytes = @ + 1])]
        /\ evicted' = Evictions(n, f)
    /\ worked' = [worked EXCEPT ![<<n, p>>] = @ + 1]
    /\ UNCHANGED <<windows, issued, held, credits>>

Own(n) == {r \in issued : r.payer = n}

\* incentive_build_receipt, for the peer of an entry.
Receipt(n, e) == [payer |-> n, relay |-> e.name[2], units |-> e.bytes, serial |-> e.serial, window |-> windows[n]]

\* Faulty variant of Settled: the counters of the window are not reset.
SettledKept(n, e) == [e EXCEPT !.since = windows[n] + 1, !.serial = @ + 1]

\* An entry after its receipt was issued.
Settled(n, e) == [e EXCEPT !.bytes = 0, !.since = windows[n] + 1, !.serial = @ + 1]

\* incentive_settlement_cb, incentive_settle_peer: the entries with enough to settle,
\* as far as the buffer of issued receipts has room.
Settle(n) ==
    /\ windows[n] < MaxWindows
    /\ \E due \in SUBSET {e \in tracked[n] : e.bytes >= MinUnits} :
        /\ Cardinality(Own(n)) + Cardinality(due) <= MaxBuffered
        /\ due = {e \in tracked[n] : e.bytes >= MinUnits} \/ Cardinality(Own(n)) + Cardinality(due) = MaxBuffered
        /\ issued' = issued \cup {Receipt(n, e) : e \in due}
        /\ tracked' = [tracked EXCEPT ![n] = (@ \ due) \cup {Settled(n, e) : e \in due}]
    /\ windows' = [windows EXCEPT ![n] = @ + 1]
    /\ UNCHANGED <<held, credits, worked, evicted>>

\* Faulty variant of Newer: serials are compared without the equal one.
NewerOrSame(r, e) == r.serial >= e.last

Newer(r, e) == r.serial > e.last

\* trellis_incentive_accept_receipt: a receipt for this node, with a serial above the
\* last one of its payer.  The serial counts although the buffer may be full.
AcceptReceipt(n) ==
    /\ \E r \in {x \in issued : x.relay = n} : \E f \in Found(n, ByKey(r.payer)) :
        /\ evicted' = Evictions(n, f)
        /\ IF Newer(r, f.entry)
           THEN /\ tracked' = [tracked EXCEPT ![n] = Put(f, [f.entry EXCEPT !.last = r.serial])]
                /\ IF Cardinality(held[n]) < MaxBuffered
                   THEN /\ held' = [held EXCEPT ![n] = @ \cup {r}]
                        /\ credits' = [credits EXCEPT ![n] = [x \in DOMAIN @ \cup {r} |->
                                (IF x \in DOMAIN @ THEN @[x] ELSE 0) + (IF x = r THEN 1 ELSE 0)]]
                   ELSE UNCHANGED <<held, credits>>
           ELSE tracked' = [tracked EXCEPT ![n] = f.table] /\ UNCHANGED <<held, credits>>
    /\ UNCHANGED <<windows, issued, worked>>

\* trellis_incentive_redeem, when BTCPay or lncli says that the invoice is settled: it
\* changes nothing in every other case.
Redeem(n) ==
    /\ held[n] # {}
    /\ held' = [held EXCEPT ![n] = {}]
    /\ UNCHANGED <<tracked, windows, issued, credits, worked, evicted>>

IncentiveNext ==
    \E n \in Traders : \/ Settle(n) \/ AcceptReceipt(n) \/ Redeem(n)
                       \/ \E p \in Traders \ {n} : RecordRelay(n, p)

IncentiveSpec == IncentiveInit /\ [][IncentiveNext]_incentiveVars

-----------------------------------------------------------------------------
\* An entry per name, in tables and buffers of their sizes.
IncentiveTypeOK ==
    \A n \in Traders :
        /\ Cardinality(tracked[n]) <= MaxTracked /\ Cardinality(held[n]) <= MaxBuffered
        /\ Cardinality(Own(n)) <= MaxBuffered
        /\ \A e, f \in tracked[n] : e.name = f.name => e = f
        /\ windows[n] \in 0..MaxWindows

\* A receipt is credited once, however often it arrives and in which order receipts
\* arrive, as long as the table of peers had room for their payers.
CreditedOnce ==
    \A n \in Traders \ evicted : \A r \in DOMAIN credits[n] : credits[n][r] <= 1

UnitsOf(rs) == MapThenSumSet(LAMBDA r : r.units, rs)

\* What a node signed for a peer was relayed, and signed for in one receipt only.
SignedAsRelayed ==
    \A n \in Traders, p \in Traders :
        n \notin evicted => UnitsOf({r \in Own(n) : r.relay = p}) <= worked[<<n, p>>]
=============================================================================
