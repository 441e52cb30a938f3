----------------------------- MODULE RecordCache -----------------------------
(***************************************************************************)
(* The record cache of src/src/cache.rs, shared by the tasks that insert    *)
(* what is heard on the links, the tasks that look up answers for queries,  *)
(* and the evictor.  insert_from reads the clock under the lock and is one  *)
(* step.  lookup_inner and evict_expired read the clock BEFORE they take    *)
(* the lock: Begin... reads it, the next step holds the lock.               *)
(***************************************************************************)
EXTENDS CacheOps

CONSTANTS
    Keys,       \* the record keys seen on the links
    Ttls,       \* the TTLs they are announced with, in seconds
    FlushBits,  \* the values of the cache-flush bit they carry
    Ifaces,     \* ifindexes
    Questions,  \* [name, type] pairs; type "ANY" matches every type
    Readers,    \* handlers of queries
    MaxStall,   \* bound on the time from a reader's clock read to its lock
    MaxTime     \* bound of the clock

ASSUME RecordCacheAssumption ==
    /\ Ttls \subseteq Nat
    /\ FlushBits \subseteq BOOLEAN
    /\ NoIface \notin Ifaces
    /\ MaxStall \in Nat
    /\ MaxTime \in Nat

VARIABLES
    now,     \* Instant::now()
    by_key,  \* Inner.by_key
    lookup,  \* per reader: the lookup whose clock is read, if any
    sweep,   \* the clock as read by the evict_expired in progress, or Never
    heard    \* history: when, with which TTL and where a cached key was heard

vars == <<now, by_key, lookup, sweep, heard>>

Never == -1
Instants == Nat \cup {Never}
Sources == Ifaces \cup {NoIface}
Entries == [deadline : Nat, flush : BOOLEAN, source : Sources]
NoLookup == [at |-> Never]
Lookups == {NoLookup} \cup [at : Nat, question : Questions, arrival : Ifaces]

\* One type invariant: every entry of the map belongs to a record that was heard.
TypeOK ==
    /\ now \in Nat
    /\ by_key \in [DOMAIN by_key -> Entries]
    /\ DOMAIN by_key \subseteq Keys
    /\ lookup \in [Readers -> Lookups]
    /\ sweep \in Instants
    /\ heard \in [Keys -> [at : Instants, ttl : Nat, on : SUBSET Ifaces]]

Unheard == [at |-> Never, ttl |-> 0, on |-> {}]

\* History is kept for the records that stay in the cache.
OfCached(h) == [k \in Keys |-> IF k \in DOMAIN by_key' THEN h[k] ELSE Unheard]

\* handle_response_msg hands a record heard on `source' to insert_from.
Hear(rec, source) ==
    /\ InsertFrom(by_key, by_key', rec, source, now)
    /\ heard' = OfCached([heard EXCEPT ![rec.key] =
                   [at |-> now, ttl |-> rec.ttl,
                    on |-> heard[rec.key].on \cup ({source} \cap Ifaces)]])
    /\ UNCHANGED <<now, lookup, sweep>>

BeginLookup(r, question, arrival) ==
    /\ lookup[r] = NoLookup
    /\ lookup' = [lookup EXCEPT ![r] =
                     [at |-> now, question |-> question, arrival |-> arrival]]
    /\ UNCHANGED <<now, by_key, sweep, heard>>

\* What lookup_from_other_ifaces gives the reader when it gets the lock now.
Relayed(r) ==
    LookupFromOtherIfaces(by_key, lookup[r].question.name, lookup[r].question.type,
                          lookup[r].arrival, lookup[r].at)

EndLookup(r) ==
    /\ lookup[r] # NoLookup
    /\ lookup' = [lookup EXCEPT ![r] = NoLookup]
    /\ UNCHANGED <<now, by_key, sweep, heard>>

\* Mutant: a grace period is subtracted from the clock, before its origin.
BadBeginEvict ==
    /\ sweep = Never
    /\ sweep' = now - SECOND
    /\ UNCHANGED <<now, by_key, lookup, heard>>

BeginEvict ==
    /\ sweep = Never
    /\ sweep' = now
    /\ UNCHANGED <<now, by_key, lookup, heard>>

\* Mutant: the sweep keeps an entry whose deadline is the current instant.
BadEvict ==
    /\ sweep # Never
    /\ by_key' = EvictExpired(by_key, sweep - 1)
    /\ heard' = OfCached(heard)
    /\ sweep' = Never
    /\ UNCHANGED <<now, lookup>>

Evict ==
    /\ sweep # Never
    /\ by_key' = EvictExpired(by_key, sweep)
    /\ heard' = OfCached(heard)
    /\ sweep' = Never
    /\ UNCHANGED <<now, lookup>>

Tick ==
    /\ now < MaxTime
    /\ \A r \in Readers : lookup[r] # NoLookup => now - lookup[r].at < MaxStall
    /\ now' = now + 1
    /\ UNCHANGED <<by_key, lookup, sweep, heard>>

Init ==
    /\ now = 0
    /\ by_key = [k \in {} |-> {}]
    /\ lookup = [r \in Readers |-> NoLookup]
    /\ sweep = Never
    /\ heard = [k \in Keys |-> Unheard]

Records == [key : Keys, ttl : Ttls, flush : FlushBits]

Next ==
    \/ Tick
    \/ BeginEvict
    \/ Evict
    \/ \E rec \in Records, source \in Sources : Hear(rec, source)
    \/ \E r \in Readers :
          \/ \E q \in Questions, i \in Ifaces : BeginLookup(r, q, i)
          \/ EndLookup(r)

\* The evictor's interval keeps firing (cache_evictor).
Spec == Init /\ [][Next]_vars /\ WF_vars(BeginEvict) /\ WF_vars(Evict)

-----------------------------------------------------------------------------
\* However records arrive, the cache never outgrows cache_max_entries, the
\* bound that "protects the daemon" (cache.rs, module comment).
CapacityBound == Cardinality(DOMAIN by_key) <= MaxEntries

\* A record cached with the cache-flush bit coexists only with siblings that
\* were heard no earlier than itself (insert_from, RFC 6762 section 10.2).
FlushSupersedes ==
    \A j, k \in DOMAIN by_key :
        (Sibling(j, k) /\ by_key[k].flush) => heard[j].at >= heard[k].at

\* Admitting a new record costs the siblings it flushes, and beyond them only
\* a record that expires no later than every survivor, and only when the cache
\* is full after the flush (insert_from: flush first, then make room).
EvictionOrder ==
    [][\A n \in DOMAIN by_key' \ DOMAIN by_key, k \in DOMAIN by_key \ DOMAIN by_key' :
          \/ by_key'[n].flush /\ Sibling(k, n)
          \/ /\ Cardinality(DOMAIN by_key') = MaxEntries
             /\ \A j \in DOMAIN by_key \cap DOMAIN by_key' :
                   by_key[k].deadline <= by_key[j].deadline]_vars

\* A record relayed onto a link was heard on another one, also after
\* refreshes from elsewhere or without a known interface (source_ifindex).
RelayedFromElsewhere ==
    \A r \in Readers : lookup[r] # NoLookup =>
        \A a \in Relayed(r) : heard[a.key].on \ {lookup[r].arrival} # {}

\* A host that takes a relayed TTL at its word forgets the record less than a
\* second (the rounding) plus the reader's stall after its owner, or the cap,
\* wanted it gone.
RelayedLifetime ==
    \A r \in Readers : lookup[r] # NoLookup =>
        \A a \in Relayed(r) :
            /\ now + a.ttl * SECOND <
                   heard[a.key].at + (heard[a.key].ttl + 1) * SECOND + MaxStall
            /\ CACHE_MAX_TTL # 0 => now + a.ttl * SECOND <
                   heard[a.key].at + (CACHE_MAX_TTL + 1) * SECOND + MaxStall

\* Every expired entry leaves the map, unless the record is heard again.
ExpiredGo ==
    \A k \in Keys : (k \in DOMAIN by_key /\ by_key[k].deadline <= now)
        ~> (k \notin DOMAIN by_key \/ by_key[k].deadline > now)

-----------------------------------------------------------------------------
\* A statement of the documentation that the code does not keep.

\* "Cached answers are not sent back onto the same interface where the record
\* was learned": a cached record is not relayed to a link it was heard on.
NotAnsweredWhereLearned ==
    \A r \in Readers : lookup[r] # NoLookup =>
        \A a \in Relayed(r) : lookup[r].arrival \notin heard[a.key].on
=============================================================================
