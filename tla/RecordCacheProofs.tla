-------------------------- MODULE RecordCacheProofs --------------------------
(***************************************************************************)
(* The cache stays well-typed and within its capacity, honours the          *)
(* cache-flush bit, evicts in order, and relays a record only to another    *)
(* link and for no longer than it has to live: for any records, interfaces, *)
(* readers and limits.                                                      *)
(***************************************************************************)
EXTENDS RecordCache, FiniteSetTheorems, TLAPS

\* What a map of the cache satisfies at all times.
GoodMap(c) ==
    /\ c \in [DOMAIN c -> Entries]
    /\ DOMAIN c \subseteq Keys
    /\ IsFiniteSet(DOMAIN c)
    /\ Cardinality(DOMAIN c) <= MaxEntries

\* Nothing has been heard in the future.
HeardInv == \A k \in Keys : heard[k].at <= now

\* An entry says where its record was heard, and for how long it was to live.
EntryInv ==
    \A k \in DOMAIN by_key :
        /\ by_key[k].deadline = heard[k].at + CapTtl(heard[k].ttl) * SECOND
        /\ by_key[k].source # NoIface => by_key[k].source \in heard[k].on

\* No reader has stalled for longer than the bound.
StallInv ==
    \A r \in Readers : lookup[r] # NoLookup =>
        lookup[r].at <= now /\ now - lookup[r].at <= MaxStall

Inv ==
    TypeOK /\ GoodMap(by_key) /\ HeardInv /\ FlushSupersedes /\ EntryInv /\ StallInv

USE CacheAssumption, RecordCacheAssumption

LEMMA MaxEntriesType == MaxEntries \in Nat \ {0}
BY DEF MaxEntries

LEMMA CapTtlType == \A ttl \in Nat : CapTtl(ttl) \in Nat
BY DEF CapTtl

\* Storing a record in a part S of a good map that leaves room for it.
LEMMA StoreGood ==
    ASSUME NEW c, GoodMap(c), NEW S \in SUBSET (DOMAIN c),
           NEW rec \in Records, NEW source \in Sources, NEW at \in Nat,
           rec.key \in S \/ Cardinality(S) < MaxEntries
    PROVE  /\ GoodMap(Store(c, S, rec, source, at))
           /\ DOMAIN Store(c, S, rec, source, at) = S \cup {rec.key}
<1> DEFINE d == Store(c, S, rec, source, at)
<1>1. DOMAIN d = S \cup {rec.key}
  BY DEF Store
<1>2. rec.key \in Keys /\ rec.ttl \in Nat /\ rec.flush \in BOOLEAN
  BY Zenon DEF Records
<1>3. at + CapTtl(rec.ttl) * SECOND \in Nat
  <2>1. CapTtl(rec.ttl) \in Nat
    BY <1>2, CapTtlType
  <2> QED
    BY <2>1
<1>4. d \in [DOMAIN d -> Entries]
  BY <1>1, <1>2, <1>3 DEF Store, GoodMap, Entries
<1>5. IsFiniteSet(S) /\ Cardinality(S) <= Cardinality(DOMAIN c)
  BY FS_Subset DEF GoodMap
<1>6. IsFiniteSet(S \cup {rec.key})
  BY <1>5, FS_AddElement
<1>7. Cardinality(S \cup {rec.key}) <= MaxEntries
  <2>0. Cardinality(S) \in Nat /\ Cardinality(DOMAIN c) \in Nat /\ MaxEntries \in Nat
    BY <1>5, FS_CardinalityType, MaxEntriesType DEF GoodMap
  <2>1. CASE rec.key \in S
    <3>1. S \cup {rec.key} = S
      BY <2>1
    <3> QED
      BY <3>1, <1>5, <2>0 DEF GoodMap
  <2>2. CASE rec.key \notin S
    <3>1. Cardinality(S \cup {rec.key}) = Cardinality(S) + 1
      BY <2>2, <1>5, FS_AddElement, Zenon
    <3> QED
      BY <3>1, <2>0, <2>2
  <2> QED
    BY <2>1, <2>2
<1> QED
  BY <1>1, <1>2, <1>4, <1>6, <1>7 DEF GoodMap

\* Apart from the record itself an insertion only drops entries, and it drops
\* those the record's cache-flush bit supersedes.  A record without a known
\* interface keeps the one it had.
AfterInsert(c, d, rec, source, at) ==
    /\ \A k \in DOMAIN d : k # rec.key => k \in DOMAIN c /\ d[k] = c[k]
    /\ rec.key \in DOMAIN d =>
          /\ d[rec.key].flush = rec.flush
          /\ rec.flush => \A k \in DOMAIN d : ~Sibling(k, rec.key)
          /\ d[rec.key].deadline = at + CapTtl(rec.ttl) * SECOND
          /\ \/ d[rec.key].source = source
             \/ rec.key \in DOMAIN c /\ d[rec.key].source = c[rec.key].source

\* A new entry costs the siblings it flushes and at most one more, the soonest to
\* expire, of a full cache.
InOrder(c, d) ==
    \A n \in DOMAIN d \ DOMAIN c, k \in DOMAIN c \ DOMAIN d :
        \/ d[n].flush /\ Sibling(k, n)
        \/ /\ Cardinality(DOMAIN d) = MaxEntries
           /\ \A j \in DOMAIN c \cap DOMAIN d : c[k].deadline <= c[j].deadline

\* insert_from maps good maps to good maps.
LEMMA InsertGood ==
    ASSUME NEW c, GoodMap(c), NEW d, NEW rec \in Records, NEW source \in Sources,
           NEW at \in Nat, InsertFrom(c, d, rec, source, at)
    PROVE  GoodMap(d) /\ AfterInsert(c, d, rec, source, at) /\ InOrder(c, d)
<1>0. Unflushed(c, rec) \subseteq DOMAIN c
  BY DEF Unflushed
<1>f. IsFiniteSet(Unflushed(c, rec)) /\ Cardinality(Unflushed(c, rec)) <= Cardinality(DOMAIN c)
  BY <1>0, FS_Subset DEF GoodMap
<1>n. ~Sibling(rec.key, rec.key)
  BY DEF Sibling
<1>s. ASSUME NEW S \in SUBSET Unflushed(c, rec), NEW src,
             src = source \/ (rec.key \in DOMAIN c /\ src = c[rec.key].source),
             d = Store(c, S, rec, src, at)
      PROVE  AfterInsert(c, d, rec, source, at)
  BY <1>s, <1>0, <1>n DEF Store, Unflushed, AfterInsert
<1>1. CASE Goodbye(c, d, rec)
  <2>1. /\ DOMAIN d = DOMAIN c \ {rec.key}
        /\ \A k \in DOMAIN d : d[k] = c[k]
        /\ d = [k \in DOMAIN d |-> c[k]]
    BY <1>1 DEF Goodbye, Restrict
  <2>2. IsFiniteSet(DOMAIN d) /\ Cardinality(DOMAIN d) <= Cardinality(DOMAIN c)
    BY <2>1, FS_Subset DEF GoodMap
  <2>3. Cardinality(DOMAIN d) <= MaxEntries
    BY <2>2, FS_CardinalityType, MaxEntriesType DEF GoodMap
  <2> QED
    BY <2>1, <2>2, <2>3 DEF GoodMap, AfterInsert, InOrder
<1>2. CASE Refresh(c, d, rec, source, at)
  <2> DEFINE src == IF source = NoIface THEN c[rec.key].source ELSE source
  <2>1. d = Store(c, Unflushed(c, rec), rec, src, at) /\ rec.key \in DOMAIN c
    BY <1>2 DEF Refresh
  <2>2. rec.key \in Unflushed(c, rec)
    BY <2>1, <1>n DEF Unflushed
  <2>3. src \in Sources
    BY <2>1 DEF GoodMap, Entries
  <2>4. GoodMap(d)
    BY <1>0, <2>1, <2>2, <2>3, StoreGood, Zenon
  <2>5. InOrder(c, d)
    BY <1>0, <2>1 DEF InOrder, Store
  <2> QED
    <3>1. src = source \/ (rec.key \in DOMAIN c /\ src = c[rec.key].source)
      BY <2>1
    <3> HIDE DEF src
    <3>2. AfterInsert(c, d, rec, source, at)
      BY <2>1, <3>1, <1>s
    <3> QED
      BY <2>4, <2>5, <3>2
<1>3. CASE InsertInRoom(c, d, rec, source, at)
  <2>1. GoodMap(d)
    BY <1>3, <1>0, StoreGood, Zenon DEF InsertInRoom
  <2>2. InOrder(c, d)
    BY <1>3 DEF InsertInRoom, InOrder, Store, Unflushed
  <2> QED
    <3>1. AfterInsert(c, d, rec, source, at)
      BY <1>3, <1>s DEF InsertInRoom
    <3> QED
      BY <2>1, <2>2, <3>1
<1>4. CASE InsertFull(c, d, rec, source, at)
  <2>1. PICK victim \in Soonest(c, Unflushed(c, rec)) :
          d = Store(c, Unflushed(c, rec) \ {victim}, rec, source, at)
    BY <1>4, Zenon DEF InsertFull
  <2>2. victim \in Unflushed(c, rec)
    BY DEF Soonest
  <2>3. Cardinality(Unflushed(c, rec) \ {victim}) = Cardinality(Unflushed(c, rec)) - 1
    BY <2>2, <1>f, FS_RemoveElement, Zenon
  <2>4. Cardinality(Unflushed(c, rec) \ {victim}) < MaxEntries
    BY <2>3, <1>f, FS_CardinalityType, MaxEntriesType DEF GoodMap
  <2>5. Unflushed(c, rec) \ {victim} \in SUBSET (DOMAIN c)
    BY <1>0
  <2>6. GoodMap(d) /\ DOMAIN d = (Unflushed(c, rec) \ {victim}) \cup {rec.key}
    BY <2>1, <2>4, <2>5, StoreGood
  <2>7. Cardinality(DOMAIN d) = MaxEntries
    <3>1. rec.key \notin Unflushed(c, rec) /\ MaxEntries <= Cardinality(Unflushed(c, rec))
      BY <1>4, <1>0 DEF InsertFull
    <3>2. Cardinality(DOMAIN d) = Cardinality(Unflushed(c, rec) \ {victim}) + 1
      <4>1. IsFiniteSet(Unflushed(c, rec) \ {victim})
        BY <1>f, FS_RemoveElement
      <4>2. rec.key \notin Unflushed(c, rec) \ {victim}
        BY <3>1
      <4> HIDE DEF Unflushed
      <4> QED
        BY <4>1, <4>2, <2>6, FS_AddElement, Zenon
    <3> QED
      BY <3>1, <3>2, <2>3, <1>f, FS_CardinalityType, MaxEntriesType DEF GoodMap
  <2>8. InOrder(c, d)
    <3> SUFFICES ASSUME NEW n \in DOMAIN d \ DOMAIN c, NEW k \in DOMAIN c \ DOMAIN d
                 PROVE  \/ d[n].flush /\ Sibling(k, n)
                        \/ \A j \in DOMAIN c \cap DOMAIN d : c[k].deadline <= c[j].deadline
      BY <2>7 DEF InOrder
    <3>1. n = rec.key /\ d[n].flush = rec.flush
      BY <2>1, <2>5, <2>6 DEF Store
    <3>2. CASE k = victim
      BY <3>2, <2>6, <1>4 DEF Soonest, InsertFull
    <3>3. CASE k # victim
      BY <3>1, <3>3, <2>6 DEF Unflushed
    <3> QED
      BY <3>2, <3>3
  <2> QED
    <3>1. AfterInsert(c, d, rec, source, at)
      BY <2>1, <1>s
    <3> QED
      BY <2>6, <2>8, <3>1
<1> QED
  BY <1>1, <1>2, <1>3, <1>4 DEF InsertFrom

\* evict_expired only drops entries.
LEMMA EvictGood ==
    ASSUME NEW c, GoodMap(c), NEW at
    PROVE  /\ GoodMap(EvictExpired(c, at))
           /\ DOMAIN EvictExpired(c, at) \subseteq DOMAIN c
           /\ \A k \in DOMAIN EvictExpired(c, at) : EvictExpired(c, at)[k] = c[k]
<1> DEFINE d == EvictExpired(c, at)
<1>1. /\ DOMAIN d \subseteq DOMAIN c
      /\ \A k \in DOMAIN d : d[k] = c[k]
      /\ d = [k \in DOMAIN d |-> c[k]]
  BY DEF EvictExpired, RestrictValues, Restrict
<1>2. IsFiniteSet(DOMAIN d) /\ Cardinality(DOMAIN d) <= Cardinality(DOMAIN c)
  BY <1>1, FS_Subset DEF GoodMap
<1>3. Cardinality(DOMAIN d) <= MaxEntries
  BY <1>2, FS_CardinalityType, MaxEntriesType DEF GoodMap
<1>4. d \in [DOMAIN d -> Entries] /\ DOMAIN d \subseteq Keys
  BY <1>1 DEF GoodMap
<1> QED
  BY <1>1, <1>2, <1>3, <1>4 DEF GoodMap

LEMMA InitInv == Init => Inv
<1> SUFFICES ASSUME Init PROVE Inv
  OBVIOUS
<1>1. DOMAIN by_key = {}
  BY DEF Init
<1>2. GoodMap(by_key)
  BY <1>1, FS_EmptySet, MaxEntriesType DEF GoodMap
<1>3. TypeOK
  BY <1>1 DEF Init, TypeOK, Lookups, Unheard, Instants, Never
<1>4. HeardInv /\ FlushSupersedes /\ EntryInv /\ StallInv
  BY <1>1 DEF Init, HeardInv, FlushSupersedes, EntryInv, StallInv, Unheard, Never
<1> QED
  BY <1>2, <1>3, <1>4 DEF Inv

\* The step that hands a record to insert_from.
LEMMA HearStep ==
    ASSUME Inv, NEW rec \in Records, NEW source \in Sources, Hear(rec, source)
    PROVE  Inv'
<1>0. /\ now \in Nat /\ now' = now
      /\ rec.key \in Keys /\ rec.ttl \in Nat /\ rec.flush \in BOOLEAN
      /\ heard \in [Keys -> [at : Instants, ttl : Nat, on : SUBSET Ifaces]]
  BY DEF Inv, TypeOK, Hear, Records
<1>1. /\ GoodMap(by_key')
      /\ \A k \in DOMAIN by_key' :
            k # rec.key => k \in DOMAIN by_key /\ by_key'[k] = by_key[k]
      /\ rec.key \in DOMAIN by_key' =>
            /\ by_key'[rec.key].flush = rec.flush
            /\ rec.flush => \A k \in DOMAIN by_key' : ~Sibling(k, rec.key)
            /\ by_key'[rec.key].deadline = now + CapTtl(rec.ttl) * SECOND
            /\ \/ by_key'[rec.key].source = source
               \/ rec.key \in DOMAIN by_key /\ by_key'[rec.key].source = by_key[rec.key].source
  <2>1. GoodMap(by_key) /\ InsertFrom(by_key, by_key', rec, source, now)
    BY DEF Inv, Hear
  <2>2. GoodMap(by_key') /\ AfterInsert(by_key, by_key', rec, source, now)
    BY <1>0, <2>1, InsertGood
  <2> QED
    BY <2>2 DEF AfterInsert
<1> DEFINE h == [heard EXCEPT ![rec.key] =
                   [at |-> now, ttl |-> rec.ttl,
                    on |-> heard[rec.key].on \cup ({source} \cap Ifaces)]]
<1>2. /\ h \in [Keys -> [at : Instants, ttl : Nat, on : SUBSET Ifaces]]
      /\ h[rec.key].at = now /\ h[rec.key].ttl = rec.ttl
      /\ h[rec.key].on = heard[rec.key].on \cup ({source} \cap Ifaces)
      /\ \A k \in Keys : k # rec.key => h[k] = heard[k]
  BY <1>0 DEF Instants
<1>3. heard' = [k \in Keys |-> IF k \in DOMAIN by_key' THEN h[k] ELSE Unheard]
  BY DEF Hear, OfCached
<1>4. Unheard \in [at : Instants, ttl : Nat, on : SUBSET Ifaces] /\ Unheard.at = Never
  BY DEF Unheard, Instants
<1>5. TypeOK'
  <2>1. heard' \in [Keys -> [at : Instants, ttl : Nat, on : SUBSET Ifaces]]
    BY <1>2, <1>3, <1>4
  <2> QED
    BY <1>1, <2>1, Zenon DEF Inv, TypeOK, Hear, GoodMap
<1>6. \A k \in DOMAIN by_key' :
        k \in Keys /\ heard'[k].at = IF k = rec.key THEN now ELSE heard[k].at
  BY <1>1, <1>2, <1>3 DEF GoodMap
<1>7. HeardInv'
  <2> SUFFICES ASSUME NEW k \in Keys PROVE heard'[k].at <= now
    BY <1>0 DEF HeardInv
  <2>1. CASE k \in DOMAIN by_key'
    BY <2>1, <1>0, <1>6 DEF Inv, HeardInv
  <2>2. CASE k \notin DOMAIN by_key'
    BY <2>2, <1>0, <1>3, <1>4 DEF Never
  <2> QED
    BY <2>1, <2>2
<1>8. FlushSupersedes'
  <2> SUFFICES ASSUME NEW j \in DOMAIN by_key', NEW k \in DOMAIN by_key',
                      Sibling(j, k), by_key'[k].flush
               PROVE  heard'[j].at >= heard'[k].at
    BY DEF FlushSupersedes
  <2>1. k # rec.key
    BY <1>1
  <2>2. k \in DOMAIN by_key /\ by_key[k].flush /\ heard'[k].at = heard[k].at
    BY <2>1, <1>1, <1>6
  <2>3. CASE j = rec.key
    BY <2>3, <2>2, <1>6, <1>0 DEF Inv, HeardInv
  <2>4. CASE j # rec.key
    BY <2>4, <2>2, <1>1, <1>6 DEF Inv, FlushSupersedes
  <2> QED
    BY <2>3, <2>4
<1>9. EntryInv'
  <2> SUFFICES ASSUME NEW k \in DOMAIN by_key'
               PROVE  /\ by_key'[k].deadline = heard'[k].at + CapTtl(heard'[k].ttl) * SECOND
                      /\ by_key'[k].source # NoIface => by_key'[k].source \in heard'[k].on
    BY DEF EntryInv
  <2>1. k \in Keys /\ heard'[k] = h[k]
    BY <1>1, <1>3 DEF GoodMap
  <2>2. CASE k = rec.key
    <3>1. by_key'[k].deadline = heard'[k].at + CapTtl(heard'[k].ttl) * SECOND
      BY <2>1, <2>2, <1>1, <1>2
    <3>2. CASE by_key'[k].source = source
      BY <2>1, <2>2, <3>1, <3>2, <1>2 DEF Sources
    <3>3. CASE k \in DOMAIN by_key /\ by_key'[k].source = by_key[k].source
      <4>1. by_key[k].source # NoIface => by_key[k].source \in heard[k].on
        BY <3>3 DEF Inv, EntryInv
      <4> QED
        BY <2>1, <2>2, <3>1, <3>3, <4>1, <1>2
    <3> QED
      BY <2>2, <3>2, <3>3, <1>1
  <2>3. CASE k # rec.key
    BY <2>1, <2>3, <1>1, <1>2 DEF Inv, EntryInv
  <2> QED
    BY <2>2, <2>3
<1>10. StallInv'
  BY DEF Inv, StallInv, Hear
<1> QED
  BY <1>1, <1>5, <1>7, <1>8, <1>9, <1>10 DEF Inv

LEMMA InvStep == Inv /\ [Next]_vars => Inv'
<1> SUFFICES ASSUME Inv, [Next]_vars PROVE Inv'
  OBVIOUS
<1> USE DEF Never, Instants
<1>1. CASE Tick
  <2>1. UNCHANGED <<by_key, lookup, sweep, heard>> /\ now' = now + 1 /\ now \in Nat
    BY <1>1 DEF Tick, Inv, TypeOK
  <2>2. HeardInv'
    BY <2>1 DEF Inv, HeardInv, TypeOK
  <2>3. StallInv'
    <3> SUFFICES ASSUME NEW r \in Readers, lookup[r] # NoLookup
                 PROVE  lookup[r].at <= now' /\ now' - lookup[r].at <= MaxStall
      BY <2>1 DEF StallInv
    <3>1. lookup[r].at \in Nat
      BY DEF Inv, TypeOK, Lookups
    <3>2. lookup[r].at <= now /\ now - lookup[r].at < MaxStall
      BY <1>1 DEF Inv, StallInv, Tick
    <3> QED
      BY <3>1, <3>2, <2>1
  <2> QED
    BY <2>1, <2>2, <2>3 DEF Inv, TypeOK, GoodMap, FlushSupersedes, EntryInv
<1>2. CASE BeginEvict
  BY <1>2 DEF BeginEvict, Inv, TypeOK, GoodMap, HeardInv, FlushSupersedes, EntryInv, StallInv
<1>3. CASE Evict
  <2>1. /\ GoodMap(by_key')
        /\ DOMAIN by_key' \subseteq DOMAIN by_key
        /\ \A k \in DOMAIN by_key' : by_key'[k] = by_key[k]
    BY <1>3, EvictGood DEF Evict, Inv
  <2>2. \A k \in Keys : heard'[k] = IF k \in DOMAIN by_key' THEN heard[k] ELSE Unheard
    BY <1>3 DEF Evict, OfCached
  <2>3. TypeOK'
    <3>1. heard' \in [Keys -> [at : Instants, ttl : Nat, on : SUBSET Ifaces]]
      BY <1>3 DEF Evict, OfCached, Unheard, Inv, TypeOK
    <3> QED
      BY <1>3, <2>1, <3>1 DEF Evict, Inv, TypeOK, GoodMap
  <2>4. HeardInv'
    BY <1>3, <2>2 DEF Evict, Inv, TypeOK, HeardInv, Unheard
  <2>5. FlushSupersedes'
    BY <2>1, <2>2 DEF Inv, FlushSupersedes, GoodMap
  <2>6. EntryInv'
    BY <2>1, <2>2 DEF Inv, EntryInv, GoodMap
  <2>7. StallInv'
    BY <1>3 DEF Evict, Inv, StallInv
  <2> QED
    BY <2>1, <2>3, <2>4, <2>5, <2>6, <2>7 DEF Inv
<1>4. ASSUME NEW rec \in Records, NEW source \in Sources, Hear(rec, source) PROVE Inv'
  BY <1>4, HearStep
<1>5. ASSUME NEW r \in Readers, NEW q \in Questions, NEW i \in Ifaces,
             BeginLookup(r, q, i)
      PROVE Inv'
  <2>1. [at |-> now, question |-> q, arrival |-> i] \in Lookups
    BY DEF Lookups, Inv, TypeOK
  <2>2. StallInv'
    <3> SUFFICES ASSUME NEW x \in Readers, lookup'[x] # NoLookup
                 PROVE  lookup'[x].at <= now /\ now - lookup'[x].at <= MaxStall
      BY <1>5 DEF StallInv, BeginLookup
    <3>1. CASE x = r
      BY <3>1, <1>5 DEF BeginLookup, Inv, TypeOK
    <3>2. CASE x # r
      BY <3>2, <1>5 DEF BeginLookup, Inv, TypeOK, StallInv
    <3> QED
      BY <3>1, <3>2
  <2> QED
    BY <1>5, <2>1, <2>2 DEF BeginLookup, Inv, TypeOK, GoodMap, HeardInv, FlushSupersedes, EntryInv
<1>6. ASSUME NEW r \in Readers, EndLookup(r) PROVE Inv'
  BY <1>6 DEF EndLookup, Lookups, Inv, TypeOK, GoodMap, HeardInv, FlushSupersedes, EntryInv,
              StallInv
<1>7. CASE UNCHANGED vars
  BY <1>7 DEF vars, Inv, TypeOK, GoodMap, HeardInv, FlushSupersedes, EntryInv, StallInv
<1> QED
  BY <1>1, <1>2, <1>3, <1>4, <1>5, <1>6, <1>7 DEF Next

\* Every reachable state of the cache satisfies the inductive invariant.
THEOREM Invariance == Spec => []Inv
BY InitInv, InvStep, PTL DEF Spec

\* Type correctness of the cache and of the calls in progress (cache.rs).
THEOREM TypeCorrect == Spec => []TypeOK
<1>1. Inv => TypeOK
  BY DEF Inv
<1> QED
  BY Invariance, <1>1, PTL

\* No sequence of insertions, refreshes, flushes and sweeps takes the cache
\* over cache_max_entries (insert_from).
THEOREM CapacityAlways == Spec => []CapacityBound
<1>1. Inv => CapacityBound
  BY DEF Inv, GoodMap, CapacityBound
<1> QED
  BY Invariance, <1>1, PTL

\* A flush-marked entry never coexists with an older sibling (insert_from).
THEOREM FlushAlways == Spec => []FlushSupersedes
<1>1. Inv => FlushSupersedes
  BY DEF Inv
<1> QED
  BY Invariance, <1>1, PTL

\* A record that lookup_from_other_ifaces hands out comes from an entry that was
\* learned on another interface and has time left.
LEMMA RelayedEntry ==
    ASSUME Inv, NEW r \in Readers, lookup[r] # NoLookup, NEW a \in Relayed(r)
    PROVE  /\ a.key \in DOMAIN by_key
           /\ by_key[a.key].source \notin {NoIface, lookup[r].arrival}
           /\ a.ttl = RemainingTtl(by_key[a.key].deadline, lookup[r].at)
           /\ a.ttl > 0
BY DEF Relayed, LookupFromOtherIfaces

\* source_ifindex tells where a record was heard also after a refresh from
\* elsewhere or without a known interface, so what is relayed onto a link was
\* heard on another one.
THEOREM RelayedFromElsewhereAlways == Spec => []RelayedFromElsewhere
<1>1. Inv => RelayedFromElsewhere
  <2> SUFFICES ASSUME Inv, NEW r \in Readers, lookup[r] # NoLookup, NEW a \in Relayed(r)
               PROVE  heard[a.key].on \ {lookup[r].arrival} # {}
    BY DEF RelayedFromElsewhere
  <2> QED
    BY RelayedEntry DEF Inv, EntryInv
<1> QED
  BY Invariance, <1>1, PTL

\* record_with_remaining_ttl rounds up by less than a second.
LEMMA RemainingRounds ==
    ASSUME NEW deadline \in Nat, NEW at \in Nat, RemainingTtl(deadline, at) > 0
    PROVE  /\ RemainingTtl(deadline, at) \in Nat
           /\ RemainingTtl(deadline, at) * SECOND < deadline - at + SECOND
<1> DEFINE x == deadline - at + SECOND - 1
<1>1. deadline > at /\ RemainingTtl(deadline, at) = x \div SECOND
  BY DEF RemainingTtl
<1>2. x \in Nat
  BY <1>1
<1> HIDE DEF x
<1>3. x \div SECOND \in Nat /\ (x \div SECOND) * SECOND <= x
  BY <1>2
<1> QED
  BY <1>1, <1>3 DEF x

\* A listener that believes a relayed TTL keeps the record for less than a second
\* and the reader's stall longer than its owner, or cache_max_ttl_secs, wanted.
THEOREM RelayedLifetimeAlways == Spec => []RelayedLifetime
<1>1. Inv => RelayedLifetime
  <2> SUFFICES ASSUME Inv, NEW r \in Readers, lookup[r] # NoLookup, NEW a \in Relayed(r)
               PROVE  /\ now + a.ttl * SECOND <
                             heard[a.key].at + (heard[a.key].ttl + 1) * SECOND + MaxStall
                      /\ CACHE_MAX_TTL # 0 => now + a.ttl * SECOND <
                             heard[a.key].at + (CACHE_MAX_TTL + 1) * SECOND + MaxStall
    BY DEF RelayedLifetime
  <2> DEFINE h == heard[a.key]
             D == by_key[a.key].deadline
             cap == CapTtl(h.ttl)
  <2>1. /\ a.key \in DOMAIN by_key /\ a.key \in Keys
        /\ a.ttl = RemainingTtl(D, lookup[r].at) /\ a.ttl > 0
    BY RelayedEntry DEF Inv, TypeOK
  <2>2. lookup[r].at \in Nat /\ D \in Nat /\ now \in Nat
    BY <2>1 DEF Inv, TypeOK, Lookups, Entries
  <2>3. h.at \in Int /\ h.ttl \in Nat
    BY <2>1 DEF Inv, TypeOK, Instants, Never
  <2>4. /\ cap \in Nat /\ cap <= h.ttl
        /\ CACHE_MAX_TTL # 0 => cap <= CACHE_MAX_TTL
    <3> HIDE DEF h
    <3> QED
      BY <2>3 DEF CapTtl
  <2>5. D = h.at + cap * SECOND
    BY <2>1 DEF Inv, EntryInv
  <2>6. now - lookup[r].at <= MaxStall
    BY DEF Inv, StallInv
  <2>7. a.ttl \in Nat /\ a.ttl * SECOND < D - lookup[r].at + SECOND
    BY <2>1, <2>2, RemainingRounds
  <2> DEFINE life == a.ttl * SECOND
             capped == cap * SECOND
  <2>8. life \in Int /\ capped \in Int
    BY <2>4, <2>7
  <2>9. \A t \in Nat : cap <= t => capped + SECOND <= (t + 1) * SECOND
    BY <2>4
  <2> HIDE DEF D, cap, life, capped
  <2>10. now + life < h.at + capped + SECOND + MaxStall
    BY <2>2, <2>3, <2>5, <2>6, <2>7, <2>8 DEF life, capped
  <2>11. ASSUME NEW t \in Nat, cap <= t
         PROVE  now + life < h.at + (t + 1) * SECOND + MaxStall
    BY <2>2, <2>3, <2>8, <2>9, <2>10, <2>11
  <2> QED
    BY <2>3, <2>4, <2>11, Zenon DEF life
<1> QED
  BY Invariance, <1>1, PTL

\* What one step may evict: the siblings a new record flushes, or the entry of a
\* full cache that is the soonest to expire (insert_from).
THEOREM EvictionOrderAlways == Spec => EvictionOrder
<1>1. ASSUME Inv, [Next]_vars,
             NEW n \in DOMAIN by_key' \ DOMAIN by_key,
             NEW k \in DOMAIN by_key \ DOMAIN by_key'
      PROVE  \/ by_key'[n].flush /\ Sibling(k, n)
             \/ /\ Cardinality(DOMAIN by_key') = MaxEntries
                /\ \A j \in DOMAIN by_key \cap DOMAIN by_key' :
                      by_key[k].deadline <= by_key[j].deadline
  <2>1. ~UNCHANGED by_key
    OBVIOUS
  <2>2. ~Evict
    <3>1. GoodMap(by_key)
      BY <1>1 DEF Inv
    <3>2. DOMAIN EvictExpired(by_key, sweep) \subseteq DOMAIN by_key
      BY <3>1, EvictGood
    <3> QED
      BY <3>2 DEF Evict
  <2>3. PICK rec \in Records, source \in Sources : Hear(rec, source)
    BY <1>1, <2>1, <2>2 DEF Next, vars, Tick, BeginEvict, BeginLookup, EndLookup
  <2>4. InOrder(by_key, by_key')
    BY <1>1, <2>3, InsertGood, Zenon DEF Hear, Inv, TypeOK
  <2> QED
    BY <2>4 DEF InOrder
<1>2. Inv /\ [Next]_vars =>
        [\A n \in DOMAIN by_key' \ DOMAIN by_key, k \in DOMAIN by_key \ DOMAIN by_key' :
            \/ by_key'[n].flush /\ Sibling(k, n)
            \/ /\ Cardinality(DOMAIN by_key') = MaxEntries
               /\ \A j \in DOMAIN by_key \cap DOMAIN by_key' :
                     by_key[k].deadline <= by_key[j].deadline]_vars
  BY <1>1
<1> QED
  BY Invariance, <1>2, PTL DEF Spec, EvictionOrder
=============================================================================
