------------------------------- MODULE Timing -------------------------------
(***************************************************************************)
(* The pure part of src/src/timing.rs: the decisions MulticastTracker takes *)
(* on its map of time stamps, and the response delay of each DelayClass.    *)
(* Time is counted in ticks; a tick is whatever fraction of a second the    *)
(* constants below say it is.                                               *)
(***************************************************************************)
EXTENDS Integers

CONSTANTS
    MIN_MULTICAST_INTERVAL,  \* one second
    PROBE_DEFENSE_INTERVAL   \* 250 ms

ASSUME IntervalAssumption ==
    /\ MIN_MULTICAST_INTERVAL \in Nat
    /\ PROBE_DEFENSE_INTERVAL \in Nat \ {0}
    /\ PROBE_DEFENSE_INTERVAL <= MIN_MULTICAST_INTERVAL

\* No entry in the map, or no such event yet.
Never == -1

Instants == Nat \cup {Never}

Intervals == {MIN_MULTICAST_INTERVAL, PROBE_DEFENSE_INTERVAL}

\* Instant::duration_since saturates at zero.
DurationSince(later, earlier) ==
    IF later > earlier THEN later - earlier ELSE 0

\* Mutant: a tick too early.
BadRateLimited(t, at, min_interval) ==
    t # Never /\ DurationSince(at, t) + 1 < min_interval

\* The test of check_and_mark and of allows, on the stamp `t' of a key.
RateLimited(t, at, min_interval) ==
    t # Never /\ DurationSince(at, t) < min_interval

\* Mutant: the interval of probe defence decides what is stale.
BadPruneOlderThan(last, at, min_interval) ==
    [s \in DOMAIN last |-> IF RateLimited(last[s], at, PROBE_DEFENSE_INTERVAL)
                           THEN last[s] ELSE Never]

\* `retain' keeps the entries that still limit something.
PruneOlderThan(last, at, min_interval) ==
    [s \in DOMAIN last |-> IF RateLimited(last[s], at, min_interval)
                           THEN last[s] ELSE Never]
=============================================================================
