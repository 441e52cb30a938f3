------------------------------ MODULE CacheOps ------------------------------
(***************************************************************************)
(* The operations of src/src/cache.rs on the map `by_key', as functions of  *)
(* the map and of the clock.  A key is a RecordKey (src/src/record_key.rs): *)
(* a record with fields name, type and data (one class throughout).  A      *)
(* cached entry keeps what an operation reads again: its deadline, its      *)
(* cache-flush bit and the interface it was learned on.                     *)
(***************************************************************************)
EXTENDS Integers, FiniteSets, Functions

CONSTANTS
    SECOND,             \* ticks of the clock per second of TTL
    CACHE_MAX_ENTRIES,  \* config cache_max_entries
    CACHE_MAX_TTL,      \* config cache_max_ttl_secs: unset and 0 are both 0
    NoIface             \* the None of source_ifindex

ASSUME CacheAssumption ==
    /\ SECOND \in Nat \ {0}
    /\ CACHE_MAX_ENTRIES \in Nat
    /\ CACHE_MAX_TTL \in Nat

\* with_capacity_and_max_ttl: max_entries.max(1).
MaxEntries == IF CACHE_MAX_ENTRIES = 0 THEN 1 ELSE CACHE_MAX_ENTRIES

\* Mutant: the cap of the configuration is ignored.
BadCapTtl(ttl) == ttl

\* A goodbye is never capped, because no cap is below 1.
CapTtl(ttl) ==
    IF CACHE_MAX_TTL # 0 /\ CACHE_MAX_TTL < ttl THEN CACHE_MAX_TTL ELSE ttl

\* Same (name, type, class), different rdata.
Sibling(k, j) == k.name = j.name /\ k.type = j.type /\ k.data # j.data

\* Mutant: the cache-flush bit is not honoured.
BadUnflushed(c, rec) == DOMAIN c

\* The keys that survive the cache-flush bit of `rec'.
Unflushed(c, rec) ==
    {k \in DOMAIN c : ~(rec.flush /\ Sibling(k, rec.key))}

\* min_by_key over a HashMap: any of the entries with the least deadline.
Soonest(c, S) == {k \in S : \A j \in S : c[k].deadline <= c[j].deadline}

\* The map with keys S of c, and `rec' stored under its own key.
Store(c, S, rec, source, at) ==
    [k \in S \cup {rec.key} |->
        IF k = rec.key
        THEN [deadline |-> at + CapTtl(rec.ttl) * SECOND,
              flush |-> rec.flush, source |-> source]
        ELSE c[k]]

\* Mutant: a goodbye is ignored.
BadGoodbye(c, d, rec) == CapTtl(rec.ttl) = 0 /\ d = c

\* The four ways through insert_from; d is the map it leaves.
Goodbye(c, d, rec) ==
    /\ CapTtl(rec.ttl) = 0
    /\ d = Restrict(c, DOMAIN c \ {rec.key})

Refresh(c, d, rec, source, at) ==
    /\ CapTtl(rec.ttl) > 0
    /\ rec.key \in DOMAIN c
    /\ d = Store(c, Unflushed(c, rec), rec,
                 IF source = NoIface THEN c[rec.key].source ELSE source, at)

InsertInRoom(c, d, rec, source, at) ==
    /\ CapTtl(rec.ttl) > 0
    /\ rec.key \notin DOMAIN c
    /\ Cardinality(Unflushed(c, rec)) < MaxEntries
    /\ d = Store(c, Unflushed(c, rec), rec, source, at)

\* Mutants: room is made before the flush has been applied; or never.
BadInsertFull(c, d, rec, source, at) ==
    /\ CapTtl(rec.ttl) > 0
    /\ rec.key \notin DOMAIN c
    /\ Cardinality(DOMAIN c) >= MaxEntries
    /\ \E victim \in Soonest(c, DOMAIN c) :
          d = Store(c, Unflushed(c, rec) \ {victim}, rec, source, at)

WorseInsertFull(c, d, rec, source, at) ==
    /\ CapTtl(rec.ttl) > 0
    /\ rec.key \notin DOMAIN c
    /\ Cardinality(Unflushed(c, rec)) >= MaxEntries
    /\ d = Store(c, Unflushed(c, rec), rec, source, at)

InsertFull(c, d, rec, source, at) ==
    /\ CapTtl(rec.ttl) > 0
    /\ rec.key \notin DOMAIN c
    /\ Cardinality(Unflushed(c, rec)) >= MaxEntries
    /\ \E victim \in Soonest(c, Unflushed(c, rec)) :
          d = Store(c, Unflushed(c, rec) \ {victim}, rec, source, at)

InsertFrom(c, d, rec, source, at) ==
    \/ Goodbye(c, d, rec)
    \/ Refresh(c, d, rec, source, at)
    \/ InsertInRoom(c, d, rec, source, at)
    \/ InsertFull(c, d, rec, source, at)

EvictExpired(c, at) == RestrictValues(c, LAMBDA e : e.deadline > at)

\* record_with_remaining_ttl: whole seconds, rounded up; 0 is "no record".
RemainingTtl(deadline, at) ==
    IF deadline <= at THEN 0 ELSE (deadline - at + SECOND - 1) \div SECOND

RecordMatches(k, name, type) == k.name = name /\ type \in {"ANY", k.type}

\* Mutant: an entry without a known source is relayed, too.
BadLookupFromOtherIfaces(c, name, type, arrival, at) ==
    {[key |-> k, ttl |-> RemainingTtl(c[k].deadline, at), flush |-> FALSE] :
        k \in {k \in DOMAIN c : /\ RecordMatches(k, name, type)
                                /\ c[k].source # arrival
                                /\ RemainingTtl(c[k].deadline, at) > 0}}

\* Mutant: the cache-flush bit is passed on.
WorseLookupFromOtherIfaces(c, name, type, arrival, at) ==
    {[key |-> k, ttl |-> RemainingTtl(c[k].deadline, at), flush |-> c[k].flush] :
        k \in {k \in DOMAIN c : /\ RecordMatches(k, name, type)
                                /\ c[k].source \notin {NoIface, arrival}
                                /\ RemainingTtl(c[k].deadline, at) > 0}}

\* The records learned elsewhere; their cache-flush bit is cleared.
LookupFromOtherIfaces(c, name, type, arrival, at) ==
    {[key |-> k, ttl |-> RemainingTtl(c[k].deadline, at), flush |-> FALSE] :
        k \in {k \in DOMAIN c : /\ RecordMatches(k, name, type)
                                /\ c[k].source \notin {NoIface, arrival}
                                /\ RemainingTtl(c[k].deadline, at) > 0}}
=============================================================================
