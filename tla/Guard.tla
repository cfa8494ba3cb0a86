------------------------------- MODULE Guard -------------------------------
(***************************************************************************)
(* Entry guards and vanguards (src/src/mesh/guard.c), the file they are    *)
(* kept in, and the path-bias counters that circuits through a guard move  *)
(* (src/src/mesh/routing.c, sdk/client.c).  The process may stop at any    *)
(* time, also while it writes the file.                                    *)
(***************************************************************************)
EXTENDS Naturals, FiniteSets

CONSTANTS
    GuardPeers,    \* the peers of the routing table that qualify
    SubnetOf,      \* peer -> its /16 prefix
    GuardCount,    \* GUARD_COUNT (3)
    VanguardCount, \* VANGUARD_L2_COUNT and VANGUARD_L3_COUNT (2)
    GuardLife,     \* the lifetimes a guard may be given (60 to 90 days)
    VanguardLife,  \* VanguardLife[2], VanguardLife[3]: those of a vanguard
    FailLimit,     \* GUARD_FAIL_THRESHOLD (3)
    BiasMin,       \* PATH_BIAS_MIN_CIRCUITS (20)
    BiasPct,       \* PATH_BIAS_DISABLE_RATIO in percent (30)
    MaxGuardCircuits,   \* bound: circuits through a guard
    GuardMaxTime   \* bound: the clock

ASSUME GuardAssumption ==
    /\ {GuardCount, VanguardCount, FailLimit} \subseteq Nat \ {0}
    /\ GuardLife \subseteq Nat /\ VanguardLife \in [2..3 -> SUBSET Nat]
    /\ {BiasMin, BiasPct, MaxGuardCircuits, GuardMaxTime} \subseteq Nat
    /\ GuardPeers = DOMAIN SubnetOf

VARIABLES
    guards,     \* g->guards
    vanguards,  \* g->l2 and g->l3: <<layer, position>> -> entry
    file,       \* the file at persist_path, or NoFile
    guardNow    \* trellis_now_ms()

guardVars == <<guards, vanguards, file, guardNow>>

NoGuard == [valid |-> FALSE, attempted |-> 0, succeeded |-> 0, collapsed |-> 0]
NoVanguard == [valid |-> FALSE]
NoFile == [intact |-> FALSE]
GuardSlots == 1..GuardCount
VanguardSlots == (2..3) \X (1..VanguardCount)

ValidSlots(gs) == {i \in GuardSlots : gs[i].valid}
Fps(gs) == {gs[i].fp : i \in ValidSlots(gs)}

\* What guard_save keeps: not the path-bias counters.
Image(gs, vs) ==
    [intact |-> TRUE, vanguards |-> vs,
     guards |-> [i \in GuardSlots |->
        IF gs[i].valid THEN [gs[i] EXCEPT !.attempted = 0, !.succeeded = 0, !.collapsed = 0]
        ELSE NoGuard]]

GuardInit ==
    /\ guards = [i \in GuardSlots |-> NoGuard]
    /\ vanguards = [v \in VanguardSlots |-> NoVanguard]
    /\ file = NoFile
    /\ guardNow = 1

-----------------------------------------------------------------------------
(* Selection. *)

\* Faulty variant of GuardChoices: the subnets of the other guards are ignored.
GuardChoicesAnySubnet(gs) == GuardPeers \ Fps(gs)

\* select_peer_for_slot, for a guard.
GuardChoices(gs) ==
    {p \in GuardPeers \ Fps(gs) : \A i \in ValidSlots(gs) : SubnetOf[gs[i].fp] # SubnetOf[p]}

\* The path-bias counters of the slot stay as they are.
NewGuard(g, p, life) ==
    [valid |-> TRUE, fp |-> p, expires |-> guardNow + life, failures |-> 0, active |-> TRUE,
     attempted |-> g.attempted, succeeded |-> g.succeeded, collapsed |-> g.collapsed]

\* The states in which the empty slots have been filled, the first one first, as far as
\* there are peers.
GuardsFilled(gs) ==
    LET Until(g, i) == [k \in GuardSlots |-> IF k < i THEN g[k] ELSE gs[k]]
        New(i, peers) == {NewGuard(gs[i], p, life) : p \in peers, life \in GuardLife}
        Filling(i, free) == IF gs[i].valid \/ free = {} THEN {gs[i]} ELSE New(i, free)
    IN {g \in [GuardSlots -> UNION {New(i, GuardPeers) \cup {gs[i]} : i \in GuardSlots}] :
            \A i \in GuardSlots : g[i] \in Filling(i, GuardChoices(Until(g, i)))}

Due(e) == e.valid => guardNow >= e.rotates

\* The fingerprints a vanguard may not have: the guards, the second-layer vanguards
\* that stay or were already chosen, and the third-layer ones already chosen.
Excluded(gs, vs, old, slot) ==
    Fps(gs)
    \cup {vs[<<2, k>>].fp : k \in {k \in 1..VanguardCount :
            /\ vs[<<2, k>>].valid
            /\ IF slot[1] = 2 THEN k < slot[2] ELSE TRUE
            /\ vs[<<2, k>>] # old[<<2, k>>] \/ ~Due(old[<<2, k>>])}}
    \cup {vs[<<3, k>>].fp : k \in {k \in 1..VanguardCount :
            slot[1] = 3 /\ k < slot[2] /\ vs[<<3, k>>] # old[<<3, k>>] /\ vs[<<3, k>>].valid}}

\* Likewise, the second layer first.
VanguardsFilled(gs, old) ==
    LET Before(w, slot) == w[1] < slot[1] \/ (w[1] = slot[1] /\ w[2] < slot[2])
        Until(vs, slot) == [w \in VanguardSlots |-> IF Before(w, slot) THEN vs[w] ELSE old[w]]
        New(slot, peers) == {[valid |-> TRUE, fp |-> p, rotates |-> guardNow + life] :
                                p \in peers, life \in VanguardLife[slot[1]]}
        Filling(slot, free) == IF ~Due(old[slot]) \/ free = {} THEN {old[slot]} ELSE New(slot, free)
    IN {vs \in [VanguardSlots -> UNION {New(w, GuardPeers) \cup {old[w]} : w \in VanguardSlots}] :
            \A slot \in VanguardSlots :
                vs[slot] \in Filling(slot, GuardPeers \ Excluded(gs, Until(vs, slot), old, slot))}

Lapsed(gs) ==
    [i \in GuardSlots |->
        IF gs[i].valid /\ guardNow > gs[i].expires
        THEN [NoGuard EXCEPT !.attempted = gs[i].attempted, !.succeeded = gs[i].succeeded,
                             !.collapsed = gs[i].collapsed]
        ELSE gs[i]]

\* Faulty variant of Saved: a change of the guards alone is not written.
SavedForVanguards(gs, vs, oldGs, oldVs) == IF vs # oldVs THEN Image(gs, vs) ELSE file

\* guard_save at the end of the selection, if a slot was filled.
Saved(gs, vs, oldGs, oldVs) == IF gs # oldGs \/ vs # oldVs THEN Image(gs, vs) ELSE file

\* trellis_guard_select.
Select(gs0) ==
    LET gs == Lapsed(gs0)
    IN \E fg \in GuardsFilled(gs) : \E fv \in VanguardsFilled(fg, vanguards) :
        /\ guards' = fg
        /\ vanguards' = fv
        /\ file' = Saved(fg, fv, gs, vanguards)

\* trellis_guard_tick.
NeedSelect ==
    \/ ValidSlots(guards) # GuardSlots
    \/ \E i \in ValidSlots(guards) : guardNow > guards[i].expires
    \/ \E v \in VanguardSlots : Due(vanguards[v])

GuardTick == NeedSelect /\ Select(guards) /\ UNCHANGED guardNow

-----------------------------------------------------------------------------
(* What circuits report. *)

Update(i, g) ==
    /\ guards' = [guards EXCEPT ![i] = g]
    /\ UNCHANGED <<vanguards, file, guardNow>>

\* A circuit is sent through guard i: trellis_guard_mark_used, then
\* trellis_guard_path_bias_attempt.
Attempt(i) ==
    /\ guards[i].valid /\ guards[i].attempted < MaxGuardCircuits
    /\ Update(i, [guards[i] EXCEPT !.attempted = @ + 1, !.active = TRUE, !.failures = 0])

\* trellis_guard_path_bias_success, _collapse: data came back, or the circuit was
\* torn down.
Outcome(i, good) ==
    /\ guards[i].valid
    /\ guards[i].succeeded + guards[i].collapsed < guards[i].attempted
    /\ Update(i, IF good THEN [guards[i] EXCEPT !.succeeded = @ + 1]
                 ELSE [guards[i] EXCEPT !.collapsed = @ + 1])

Biased(g) ==
    /\ g.valid /\ g.active
    /\ g.attempted >= BiasMin
    /\ g.succeeded * 100 < g.attempted * BiasPct

\* trellis_guard_path_bias_check.
BiasCheck ==
    LET gs == [i \in GuardSlots |->
                IF Biased(guards[i]) THEN [guards[i] EXCEPT !.active = FALSE] ELSE guards[i]]
    IN /\ gs # guards
       /\ guards' = gs
       /\ file' = Image(gs, vanguards)
       /\ UNCHANGED <<vanguards, guardNow>>

\* trellis_guard_on_failure, of a guard: the last strike replaces it.
GuardFails(i) ==
    /\ guards[i].valid
    /\ LET g == [guards[i] EXCEPT !.failures = @ + 1]
       IN IF g.failures < FailLimit THEN Update(i, g)
          ELSE /\ Select([guards EXCEPT ![i] = [NoGuard EXCEPT !.attempted = g.attempted,
                            !.succeeded = g.succeeded, !.collapsed = g.collapsed]])
               /\ UNCHANGED guardNow

\* trellis_guard_on_failure, of a vanguard: due at once.
VanguardFails(v) ==
    /\ vanguards[v].valid
    /\ vanguards' = [w \in VanguardSlots |->
            IF vanguards[w].valid /\ vanguards[w].fp = vanguards[v].fp
            THEN [vanguards[w] EXCEPT !.rotates = 0] ELSE vanguards[w]]
    /\ UNCHANGED <<guards, file, guardNow>>

-----------------------------------------------------------------------------
(* The process. *)

Reloaded(f) ==
    /\ guards' = IF f.intact THEN f.guards ELSE [i \in GuardSlots |-> NoGuard]
    /\ vanguards' = IF f.intact THEN f.vanguards ELSE [v \in VanguardSlots |-> NoVanguard]
    /\ file' = f
    /\ UNCHANGED guardNow

\* The process stops and starts again: trellis_guard_new, guard_load.
Restart == Reloaded(file)

\* The same while guard_save runs, which empties the file first.
StopInSave == NeedSelect /\ Reloaded(NoFile)

GuardClock ==
    /\ guardNow < GuardMaxTime
    /\ guardNow' = guardNow + 1
    /\ UNCHANGED <<guards, vanguards, file>>

GuardNext ==
    \/ GuardTick \/ BiasCheck \/ Restart \/ GuardClock
    \/ StopInSave
    \/ \E i \in GuardSlots : Attempt(i) \/ GuardFails(i)
    \/ \E i \in GuardSlots, good \in BOOLEAN : Outcome(i, good)
    \/ \E v \in VanguardSlots : VanguardFails(v)

GuardSpec == GuardInit /\ [][GuardNext]_guardVars

-----------------------------------------------------------------------------
(* Properties. *)

GuardTypeOK ==
    /\ \A i \in ValidSlots(guards) : guards[i].fp \in GuardPeers
    /\ \A v \in VanguardSlots : vanguards[v].valid => vanguards[v].fp \in GuardPeers

\* A guard in use is the one the file has in its slot, so that a restart does not
\* change it (guard_save, guard_load).
GuardsKept ==
    \A i \in ValidSlots(guards) :
        file.intact /\ file.guards[i].valid /\ file.guards[i].fp = guards[i].fp

\* The guards are different peers of different subnets, through failures,
\* rotations and restarts (trellis_guard_select).
GuardsDiverse ==
    \A i, j \in ValidSlots(guards) :
        i # j => SubnetOf[guards[i].fp] # SubnetOf[guards[j].fp]
=============================================================================
