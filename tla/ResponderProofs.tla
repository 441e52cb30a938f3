-------------------------- MODULE ResponderProofs --------------------------
(***************************************************************************)
(* What any number of concurrent handle_query calls may put on the wire,    *)
(* for any records, queries, delays and intervals.                          *)
(***************************************************************************)
EXTENDS Responder, TLAPS

\* A record that may be sent on interface i.
RecOK(r, i) == r.key \in AllKeys /\ (r.flush => r \in UniqueForIface(i))

\* A call in progress.
CallOK(t) ==
    /\ t.pc \in {"lookup", "sleep", "answers", "additionals"}
    /\ t.iface \in Ifaces
    /\ \A r \in t.answers : RecOK(r, t.iface)
    /\ t.pc # "lookup" => t.iv \in Intervals /\ \A r \in t.adds : RecOK(r, t.iface)
    /\ t.pc \in {"answers", "additionals"} => \A r \in t.todo : RecOK(r, t.iface)
    /\ t.pc \in {"lookup", "sleep"} => t.answers # {}

TypeInv ==
    /\ now \in Nat
    /\ last \in [Slots -> Instants] /\ onwire \in [Slots -> Instants]
    /\ bye \in [PeerKeys -> Instants]
    /\ DOMAIN by_key \subseteq PeerKeys
    /\ DOMAIN task = Tasks
    /\ \A h \in Tasks : task[h] = Idle \/ CallOK(task[h])

\* The slots a call has been granted and not used yet.
GrantedSlots(h) == {<<task[h].iface, r.key>> : r \in Granted(h)}

\* In what follows U is a set of slots that are also multicast without a stamp:
\* none by handle_query, the shared records' by announce_all.

\* A grant is of this very instant, and its slot is free on the wire.
GrantInv(U) ==
    \A h \in Tasks : \A s \in GrantedSlots(h) :
        /\ s \in Slots /\ last[s] = now
        /\ s \in U \/ onwire[s] = Never \/ now - onwire[s] >= task[h].iv

Disjoint == \A g, h \in Tasks : g # h => GrantedSlots(g) \cap GrantedSlots(h) = {}

\* A transmission is covered by a stamp until the longer interval is over.
StampInv(U) ==
    \A s \in Slots :
        /\ last[s] <= now /\ onwire[s] <= now
        /\ \/ s \in U \/ onwire[s] = Never \/ now - onwire[s] >= MIN_MULTICAST_INTERVAL
           \/ last[s] >= onwire[s]

Inv(U) == TypeInv /\ GrantInv(U) /\ Disjoint /\ StampInv(U)

-----------------------------------------------------------------------------
\* What the responder takes for an answer.

LEMMA PublishedOK ==
    ASSUME NEW i \in Ifaces, NEW S \in SUBSET Published, NEW r \in OnArrival(S, i)
    PROVE  RecOK(r, i)
  <1>1. r \in Published /\ (r.key.type \in {"A", "AAAA"} => r \in HostRecordsForIface(i))
    BY DEF OnArrival
  <1>2. r.key \in AllKeys
    BY <1>1 DEF AllKeys
  <1>3. CASE r \in HostRecordsForIface(i)
    BY <1>2, <1>3 DEF RecOK, UniqueForIface
  <1>4. CASE r \in host_a \cup host_aaaa
    <2>1. r.key.type \in {"A", "AAAA"}
      BY <1>4 DEF host_a, host_aaaa, HostRecords, Record
    <2> QED BY <1>1, <1>3, <2>1
  <1>5. ASSUME NEW s \in ServiceConfigs, r \in {Srv(s), Txt(s)} PROVE RecOK(r, i)
    <2>1. r \in UniqueServiceRecords
      BY <1>5 DEF UniqueServiceRecords
    <2> QED BY <1>2, <2>1 DEF RecOK, UniqueForIface
  <1>6. ASSUME NEW s \in ServiceConfigs, r \in {PtrTypeToInstance(s), PtrMetaToType(s)}
        PROVE  RecOK(r, i)
    <2>1. ~r.flush
      BY <1>6 DEF PtrTypeToInstance, PtrMetaToType, Record
    <2> QED BY <1>2, <2>1 DEF RecOK
  <1> QED BY <1>1, <1>4, <1>5, <1>6 DEF Published

LEMMA CachedOK ==
    ASSUME TypeInv, NEW i \in Ifaces, NEW name, NEW type, NEW r \in Cached(name, type, i)
    PROVE  RecOK(r, i)
  <1>1. PICK k \in DOMAIN by_key :
           r = [key |-> k, ttl |-> RemainingTtl(by_key[k].deadline, now), flush |-> FALSE]
    BY DEF Cached, LookupFromOtherIfaces
  <1>2. r.key \in AllKeys
    BY <1>1 DEF TypeInv, AllKeys
  <1>3. ~r.flush
    BY <1>1
  <1> QED BY <1>2, <1>3 DEF RecOK

LEMMA AnswersOK ==
    ASSUME TypeInv, NEW msg, NEW i \in Ifaces,
           NEW r \in ApplyKnownAnswers(CandidateAnswers(msg, i), msg)
    PROVE  RecOK(r, i)
  <1>1. r \in CandidateAnswers(msg, i)
    BY DEF ApplyKnownAnswers
  <1>2. \/ \E q \in msg.questions : r \in OnArrival(Answer(q.name, q.type), i)
        \/ \E q \in msg.questions : r \in Cached(q.name, q.type, i)
    BY <1>1 DEF CandidateAnswers, PushUnique
  <1>3. \A q : Answer(q.name, q.type) \in SUBSET Published
    BY DEF Answer
  <1> QED BY <1>2, <1>3, PublishedOK, CachedOK

LEMMA AdditionalsOK ==
    ASSUME TypeInv, NEW answers, NEW i \in Ifaces, NEW r \in CachedAdditionals(answers, i)
    PROVE  RecOK(r, i)
  <1>1. \E name, type : r \in Cached(name, type, i)
    BY DEF CachedAdditionals, PushUnique
  <1> QED BY <1>1, CachedOK

\* insert_from stores nothing but the record it is given.
LEMMA InsertDomain ==
    ASSUME NEW c, NEW d, NEW rec, NEW source, NEW at, InsertFrom(c, d, rec, source, at)
    PROVE  DOMAIN d \subseteq DOMAIN c \cup {rec.key}
  <1>1. CASE Goodbye(c, d, rec)
    BY <1>1 DEF Goodbye, Restrict
  <1>2. CASE Refresh(c, d, rec, source, at)
    BY <1>2 DEF Refresh, Store, Unflushed
  <1>3. CASE InsertInRoom(c, d, rec, source, at)
    BY <1>3 DEF InsertInRoom, Store, Unflushed
  <1>4. CASE InsertFull(c, d, rec, source, at)
    BY <1>4 DEF InsertFull, Store, Unflushed
  <1> QED BY <1>1, <1>2, <1>3, <1>4 DEF InsertFrom

-----------------------------------------------------------------------------
\* A step of one call leaves the others alone.
Becomes(h, t) ==
    DOMAIN task' = Tasks /\ task'[h] = t /\ \A g \in Tasks \ {h} : task'[g] = task[g]

LEMMA UpdateTask ==
    ASSUME TypeInv, NEW h \in Tasks, NEW t, task' = [task EXCEPT ![h] = t]
    PROVE  Becomes(h, t)
  BY DEF TypeInv, Becomes

\* A step of one call keeps the types if what the call becomes is of its type.
LEMMA BecomesTyped ==
    ASSUME TypeInv, NEW h \in Tasks, NEW t, Becomes(h, t), t = Idle \/ CallOK(t),
           now' \in Nat, last' \in [Slots -> Instants], onwire' \in [Slots -> Instants],
           by_key' = by_key, bye' = bye
    PROVE  TypeInv'
  <1>1. \A g \in Tasks : task'[g] = Idle \/ CallOK(task'[g])
    BY DEF Becomes, TypeInv
  <1> QED BY <1>1 DEF Becomes, TypeInv

\* A call's grants are a matter of the call alone.
GrantsOf(t) ==
    IF t.pc = "answers" THEN {<<t.iface, r.key>> : r \in t.answers}
    ELSE IF t.pc = "additionals" THEN {<<t.iface, r.key>> : r \in t.answers \cup t.adds}
    ELSE {}

LEMMA GrantsAre == \A h : GrantedSlots(h) = GrantsOf(task[h])
  <1> SUFFICES ASSUME NEW h PROVE GrantedSlots(h) = GrantsOf(task[h])
    OBVIOUS
  <1>1. CASE task[h].pc = "answers"
    BY <1>1 DEF GrantedSlots, GrantsOf, Granted
  <1>2. CASE task[h].pc = "additionals"
    BY <1>2 DEF GrantedSlots, GrantsOf, Granted, Sent
  <1>3. CASE task[h].pc \notin {"answers", "additionals"}
    BY <1>3 DEF GrantedSlots, GrantsOf, Granted
  <1> QED BY <1>1, <1>2, <1>3

LEMMA GrantsAreNext == \A h : GrantedSlots(h)' = GrantsOf(task'[h])
  <1> SUFFICES ASSUME NEW h PROVE GrantedSlots(h)' = GrantsOf(task'[h])
    OBVIOUS
  <1>1. CASE task'[h].pc = "answers"
    BY <1>1 DEF GrantedSlots, GrantsOf, Granted
  <1>2. CASE task'[h].pc = "additionals"
    BY <1>2 DEF GrantedSlots, GrantsOf, Granted, Sent
  <1>3. CASE task'[h].pc \notin {"answers", "additionals"}
    BY <1>3 DEF GrantedSlots, GrantsOf, Granted
  <1> QED BY <1>1, <1>2, <1>3

\* A step that grants nothing new and touches neither clock, stamps nor wire.
LEMMA QuietStep ==
    ASSUME NEW U, Inv(U), NEW h \in Tasks, NEW t, Becomes(h, t),
           GrantsOf(t) \subseteq GrantsOf(task[h]),
           GrantsOf(t) # {} => t.iv = task[h].iv,
           now' = now, last' = last, onwire' = onwire
    PROVE  GrantInv(U)' /\ Disjoint' /\ StampInv(U)'
  <1>1. ASSUME NEW g \in Tasks
        PROVE  /\ GrantedSlots(g)' \subseteq GrantedSlots(g)
               /\ GrantedSlots(g)' # {} => task'[g].iv = task[g].iv
    BY GrantsAre, GrantsAreNext DEF Becomes
  <1>2. GrantInv(U)'
    <2> SUFFICES ASSUME NEW g \in Tasks, NEW s \in GrantedSlots(g)'
                 PROVE  /\ s \in Slots /\ last'[s] = now'
                        /\ s \in U \/ onwire'[s] = Never \/ now' - onwire'[s] >= task'[g].iv
      BY DEF GrantInv, Slots, AllKeys, PeerKeys
    <2> QED BY <1>1 DEF Inv, GrantInv
  <1>3. Disjoint'
    BY <1>1 DEF Inv, Disjoint
  <1>4. StampInv(U)'
    BY DEF Inv, StampInv
  <1> QED BY <1>2, <1>3, <1>4

\* A record passes the rate limiter: its slot was nobody's, and is free on the wire.
LEMMA GrantStep ==
    ASSUME NEW U, Inv(U), NEW h \in Tasks, NEW t, Becomes(h, t), NEW s0 \in Slots,
           GrantsOf(t) \subseteq GrantsOf(task[h]) \cup {s0},
           t.iv = task[h].iv, task[h].iv \in Intervals,
           ~RateLimited(last[s0], now, task[h].iv),
           last' = [last EXCEPT ![s0] = now], now' = now, onwire' = onwire
    PROVE  GrantInv(U)' /\ Disjoint' /\ StampInv(U)'
  <1>0. /\ now \in Nat /\ last[s0] \in Instants /\ onwire[s0] \in Instants
        /\ last[s0] <= now
        /\ task[h].iv \in Nat /\ 0 < task[h].iv /\ task[h].iv <= MIN_MULTICAST_INTERVAL
        /\ MIN_MULTICAST_INTERVAL \in Nat
    BY IntervalAssumption DEF Inv, TypeInv, StampInv, Intervals
  <1>1. last[s0] = Never \/ now - last[s0] >= task[h].iv
    BY <1>0 DEF RateLimited, DurationSince, Instants, Never
  <1>2. last[s0] # now
    BY <1>0, <1>1 DEF Instants, Never
  <1>3. s0 \in U \/ onwire[s0] = Never \/ now - onwire[s0] >= task[h].iv
    <2>1. s0 \in U \/ onwire[s0] = Never \/ now - onwire[s0] >= MIN_MULTICAST_INTERVAL
             \/ last[s0] >= onwire[s0]
      BY DEF Inv, StampInv
    <2> QED BY <2>1, <1>0, <1>1 DEF Instants, Never
  <1>4. /\ last'[s0] = now
        /\ \A s \in Slots : s # s0 => last'[s] = last[s]
    BY DEF Inv, TypeInv
  <1>5. \A g \in Tasks : s0 \notin GrantedSlots(g)
    BY <1>2 DEF Inv, GrantInv
  <1>6. /\ GrantedSlots(h)' \subseteq GrantedSlots(h) \cup {s0}
        /\ \A g \in Tasks \ {h} : GrantedSlots(g)' = GrantedSlots(g)
        /\ \A g \in Tasks : task'[g].iv = task[g].iv
    BY GrantsAre, GrantsAreNext DEF Becomes
  <1>7. GrantInv(U)'
    <2> SUFFICES ASSUME NEW g \in Tasks, NEW s \in GrantedSlots(g)'
                 PROVE  /\ s \in Slots /\ last'[s] = now'
                        /\ s \in U \/ onwire'[s] = Never \/ now' - onwire'[s] >= task'[g].iv
      BY DEF GrantInv, Slots, AllKeys, PeerKeys
    <2>1. CASE s = s0
      <3>1. g = h
        BY <2>1, <1>5, <1>6
      <3> QED BY <2>1, <3>1, <1>3, <1>4, <1>6
    <2>2. CASE s # s0
      <3>1. s \in GrantedSlots(g)
        BY <2>2, <1>6
      <3>2. /\ s \in Slots /\ last[s] = now
            /\ s \in U \/ onwire[s] = Never \/ now - onwire[s] >= task[g].iv
        BY <3>1 DEF Inv, GrantInv
      <3> QED BY <2>2, <3>2, <1>4, <1>6
    <2> QED BY <2>1, <2>2
  <1>8. Disjoint'
    <2> SUFFICES ASSUME NEW g \in Tasks, NEW k \in Tasks, g # k,
                        NEW s, s \in GrantedSlots(g)', s \in GrantedSlots(k)'
                 PROVE  FALSE
      BY DEF Disjoint
    <2> QED BY <1>5, <1>6 DEF Inv, Disjoint
  <1>9. StampInv(U)'
    <2> SUFFICES ASSUME NEW s \in Slots
                 PROVE  /\ last'[s] <= now' /\ onwire'[s] <= now'
                        /\ \/ s \in U \/ onwire'[s] = Never \/ now' - onwire'[s] >= MIN_MULTICAST_INTERVAL
                           \/ last'[s] >= onwire'[s]
      BY DEF StampInv, Slots, AllKeys, PeerKeys
    <2>1. /\ last[s] <= now /\ onwire[s] <= now
          /\ \/ s \in U \/ onwire[s] = Never \/ now - onwire[s] >= MIN_MULTICAST_INTERVAL
             \/ last[s] >= onwire[s]
      BY DEF Inv, StampInv
    <2>2. CASE s = s0
      <3>1. onwire[s] \in Instants
        BY DEF Inv, TypeInv
      <3> QED BY <2>1, <2>2, <3>1, <1>0, <1>4 DEF Instants, Never
    <2>3. CASE s # s0
      BY <2>1, <2>3, <1>4
    <2> QED BY <2>2, <2>3
  <1> QED BY <1>7, <1>8, <1>9

-----------------------------------------------------------------------------
LEMMA ArriveInv ==
    ASSUME NEW U, Inv(U), NEW h \in Tasks, NEW msg, msg.iface \in Ifaces, Arrive(h, msg)
    PROVE  Inv(U)'
  <1> DEFINE ans == ApplyKnownAnswers(CandidateAnswers(msg, msg.iface), msg)
             t == [pc |-> "lookup", iface |-> msg.iface, answers |-> ans, msg |-> msg]
  <1>1. Becomes(h, t)
    BY UpdateTask, Zenon DEF Arrive, Inv
  <1>2. ans # {}
    BY DEF Arrive
  <1>3. \A r \in ans : RecOK(r, msg.iface)
    BY AnswersOK DEF Inv
  <1> HIDE DEF ans
  <1>4. CallOK(t)
    BY <1>2, <1>3 DEF CallOK
  <1>5. GrantsOf(t) = {}
    BY DEF GrantsOf
  <1> HIDE DEF t
  <1>6. TypeInv'
    BY <1>1, <1>4, BecomesTyped DEF Inv, TypeInv, Arrive
  <1> QED BY <1>1, <1>5, <1>6, QuietStep DEF Inv, Arrive

\* A call that is at some stage is not idle.
LEMMA AtStage ==
    ASSUME TypeInv, NEW h \in Tasks,
           task[h].pc \in {"lookup", "sleep", "answers", "additionals"}
    PROVE  CallOK(task[h])
  BY DEF TypeInv, Idle

LEMMA FindAdditionalsInv ==
    ASSUME NEW U, Inv(U), NEW h \in Tasks, FindAdditionals(h) PROVE Inv(U)'
  <1> DEFINE i == task[h].iface
             adds == CachedAdditionals(task[h].answers, i)
             iv == MinInterval(IsProbeForUs(task[h].msg, i))
  <1>1. PICK d : task' = [task EXCEPT ![h] =
                    [pc |-> "sleep", iface |-> i, answers |-> task[h].answers,
                     adds |-> adds, wake |-> now + d, iv |-> iv]]
    BY Zenon DEF FindAdditionals
  <1>2. CallOK(task[h]) /\ task[h].pc = "lookup"
    BY AtStage DEF Inv, FindAdditionals
  <1>3. iv \in Intervals
    BY DEF MinInterval, Intervals
  <1>4. \A r \in adds : RecOK(r, i)
    BY <1>2, AdditionalsOK DEF Inv, CallOK
  <1> HIDE DEF adds, iv
  <1> DEFINE t == [pc |-> "sleep", iface |-> i, answers |-> task[h].answers,
                   adds |-> adds, wake |-> now + d, iv |-> iv]
  <1>5. Becomes(h, t)
    BY <1>1, UpdateTask, Zenon DEF Inv
  <1>6. CallOK(t)
    BY <1>2, <1>3, <1>4, Zenon DEF CallOK
  <1>7. GrantsOf(t) = {}
    BY Zenon DEF GrantsOf
  <1> HIDE DEF t
  <1>8. TypeInv'
    BY <1>5, <1>6, BecomesTyped DEF Inv, TypeInv, FindAdditionals
  <1> QED BY <1>5, <1>7, <1>8, QuietStep DEF Inv, FindAdditionals

LEMMA WakeInv ==
    ASSUME NEW U, Inv(U), NEW h \in Tasks, Wake(h) PROVE Inv(U)'
  <1> DEFINE t == [pc |-> "answers", iface |-> task[h].iface, iv |-> task[h].iv,
                   answers |-> {}, todo |-> task[h].answers, adds |-> task[h].adds]
  <1>1. Becomes(h, t)
    BY UpdateTask, Zenon DEF Wake, Inv
  <1>2. CallOK(task[h]) /\ task[h].pc = "sleep"
    BY AtStage DEF Inv, Wake
  <1>3. CallOK(t)
    BY <1>2, Zenon DEF CallOK
  <1>4. GrantsOf(t) = {}
    BY DEF GrantsOf
  <1> HIDE DEF t
  <1>5. TypeInv'
    BY <1>1, <1>3, BecomesTyped, Zenon DEF Inv, TypeInv, Wake
  <1> QED BY <1>1, <1>4, <1>5, QuietStep DEF Inv, Wake

LEMMA AnswersDoneInv ==
    ASSUME NEW U, Inv(U), NEW h \in Tasks, AnswersDone(h) PROVE Inv(U)'
  <1>1. CallOK(task[h]) /\ task[h].pc = "answers"
    BY AtStage DEF Inv, AnswersDone
  <1>2. PICK t : t \in {Idle, ToAdditionals(h)} /\ task' = [task EXCEPT ![h] = t]
    BY DEF AnswersDone
  <1>3. Becomes(h, t)
    BY <1>2, UpdateTask, Zenon DEF Inv
  <1>4. t = Idle \/ CallOK(t)
    BY <1>1, <1>2 DEF ToAdditionals, CallOK
  <1>5. GrantsOf(Idle) = {}
    BY DEF GrantsOf, Idle
  <1>6. GrantsOf(ToAdditionals(h)) = GrantsOf(task[h]) /\ ToAdditionals(h).iv = task[h].iv
    BY <1>1 DEF GrantsOf, ToAdditionals
  <1>7. TypeInv'
    BY <1>3, <1>4, BecomesTyped DEF Inv, TypeInv, AnswersDone
  <1> QED BY <1>2, <1>3, <1>5, <1>6, <1>7, QuietStep DEF Inv, AnswersDone

\* check_and_mark on record r: the call becomes t, which holds r only if it passed.
LEMMA RetainInv ==
    ASSUME NEW U, Inv(U), NEW h \in Tasks, NEW r \in task[h].todo, NEW t,
           task[h].pc \in {"answers", "additionals"}, CheckAndMark(h, r), Becomes(h, t),
           CallOK(t), t.iv = task[h].iv,
           GrantsOf(t) \subseteq
              GrantsOf(task[h]) \cup {<<task[h].iface, x.key>> : x \in Passed(h, r)},
           UNCHANGED <<now, by_key, onwire, bye>>
    PROVE  Inv(U)'
  <1> DEFINE s0 == <<task[h].iface, r.key>>
  <1>1. CallOK(task[h])
    BY AtStage DEF Inv
  <1>2. s0 \in Slots /\ task[h].iv \in Intervals
    BY <1>1 DEF CallOK, RecOK, Slots
  <1>3. CASE Passed(h, r) = {}
    <2>1. last' = last
      BY <1>3 DEF CheckAndMark
    <2>2. GrantsOf(t) \subseteq GrantsOf(task[h])
      BY <1>3
    <2>3. TypeInv'
      BY <2>1, BecomesTyped DEF Inv, TypeInv
    <2> QED BY <2>1, <2>2, <2>3, QuietStep DEF Inv
  <1>4. CASE Passed(h, r) # {}
    <2>1. last' = [last EXCEPT ![s0] = now] /\ ~RateLimited(last[s0], now, task[h].iv)
      BY <1>4 DEF CheckAndMark, Passed
    <2>2. GrantsOf(t) \subseteq GrantsOf(task[h]) \cup {s0}
      BY DEF Passed
    <2>3. last' \in [Slots -> Instants]
      BY <2>1, <1>2 DEF Inv, TypeInv, Instants
    <2>4. TypeInv'
      BY <2>3, BecomesTyped DEF Inv, TypeInv
    <2> HIDE DEF s0
    <2> QED BY <2>1, <2>2, <2>4, <1>2, GrantStep, Zenon DEF Inv
  <1> QED BY <1>3, <1>4

LEMMA RetainAnswerInv ==
    ASSUME NEW U, Inv(U), NEW h \in Tasks, RetainAnswer(h) PROVE Inv(U)'
  <1>1. PICK r \in task[h].todo :
          /\ CheckAndMark(h, r)
          /\ task' = [task EXCEPT ![h] =
                         [pc |-> "answers", iface |-> task[h].iface, iv |-> task[h].iv,
                          answers |-> task[h].answers \cup Passed(h, r),
                          todo |-> task[h].todo \ {r}, adds |-> task[h].adds]]
    BY Zenon DEF RetainAnswer
  <1> DEFINE t == [pc |-> "answers", iface |-> task[h].iface, iv |-> task[h].iv,
                   answers |-> task[h].answers \cup Passed(h, r),
                   todo |-> task[h].todo \ {r}, adds |-> task[h].adds]
  <1>2. CallOK(task[h]) /\ task[h].pc = "answers"
    BY AtStage DEF Inv, RetainAnswer
  <1>3. Becomes(h, t)
    BY <1>1, UpdateTask, Zenon DEF Inv
  <1>4. CallOK(t) /\ t.iv = task[h].iv
    BY <1>1, <1>2 DEF CallOK, Passed
  <1>5. GrantsOf(t) \subseteq
           GrantsOf(task[h]) \cup {<<task[h].iface, x.key>> : x \in Passed(h, r)}
    BY <1>2, Zenon DEF GrantsOf
  <1> HIDE DEF t
  <1> QED BY <1>1, <1>2, <1>3, <1>4, <1>5, RetainInv DEF RetainAnswer

LEMMA RetainAdditionalInv ==
    ASSUME NEW U, Inv(U), NEW h \in Tasks, RetainAdditional(h) PROVE Inv(U)'
  <1>1. PICK r \in task[h].todo :
          /\ CheckAndMark(h, r)
          /\ task' = [task EXCEPT ![h] =
                         [pc |-> "additionals", iface |-> task[h].iface, iv |-> task[h].iv,
                          answers |-> task[h].answers,
                          todo |-> task[h].todo \ {r}, adds |-> task[h].adds \cup Passed(h, r)]]
    BY Zenon DEF RetainAdditional
  <1> DEFINE t == [pc |-> "additionals", iface |-> task[h].iface, iv |-> task[h].iv,
                   answers |-> task[h].answers,
                   todo |-> task[h].todo \ {r}, adds |-> task[h].adds \cup Passed(h, r)]
  <1>2. CallOK(task[h]) /\ task[h].pc = "additionals"
    BY AtStage DEF Inv, RetainAdditional
  <1>3. Becomes(h, t)
    BY <1>1, UpdateTask, Zenon DEF Inv
  <1>4. CallOK(t) /\ t.iv = task[h].iv
    BY <1>1, <1>2 DEF CallOK, Passed
  <1>5. GrantsOf(t) \subseteq
           GrantsOf(task[h]) \cup {<<task[h].iface, x.key>> : x \in Passed(h, r)}
    BY <1>2, Zenon DEF GrantsOf
  <1> HIDE DEF t
  <1> QED BY <1>1, <1>2, <1>3, <1>4, <1>5, RetainInv DEF RetainAdditional

\* Nobody else was granted what goes out, and what goes out is stamped.
LEMMA SendInv ==
    ASSUME NEW U, Inv(U), NEW h \in Tasks, Send(h) PROVE Inv(U)'
  <1>1. PICK ok : onwire' = [s \in Slots |->
                               IF ok /\ s \in {<<task[h].iface, r.key>> : r \in Sent(h)}
                               THEN now ELSE onwire[s]]
    BY DEF Send
  <1>2. task[h].pc = "additionals"
    BY DEF Send, ReadyToSend
  <1>3. GrantedSlots(h) = {<<task[h].iface, r.key>> : r \in Sent(h)}
    BY <1>2 DEF GrantedSlots, Granted
  <1>4. Becomes(h, Idle)
    BY UpdateTask, Zenon DEF Send, Inv
  <1>5. now' = now /\ last' = last /\ by_key' = by_key /\ bye' = bye
    BY DEF Send
  <1>6. \A s \in Slots : \/ onwire'[s] = onwire[s]
                         \/ s \in GrantedSlots(h) /\ onwire'[s] = now
    BY <1>1, <1>3
  <1>7. TypeInv'
    <2>1. onwire' \in [Slots -> Instants]
      BY <1>1 DEF Inv, TypeInv, Instants
    <2> QED BY <2>1, <1>4, <1>5, BecomesTyped DEF Inv, TypeInv
  <1>8. /\ GrantedSlots(h)' = {}
        /\ \A g \in Tasks \ {h} : /\ GrantedSlots(g)' = GrantedSlots(g)
                                 /\ task'[g] = task[g]
    <2>1. GrantsOf(Idle) = {}
      BY DEF GrantsOf, Idle
    <2> QED BY <2>1, <1>4, GrantsAre, GrantsAreNext DEF Becomes
  <1>9. GrantInv(U)'
    <2> SUFFICES ASSUME NEW g \in Tasks, NEW s \in GrantedSlots(g)'
                 PROVE  /\ s \in Slots /\ last'[s] = now'
                        /\ s \in U \/ onwire'[s] = Never \/ now' - onwire'[s] >= task'[g].iv
      BY DEF GrantInv, Slots, AllKeys, PeerKeys
    <2>1. g # h /\ s \in GrantedSlots(g) /\ task'[g] = task[g]
      BY <1>8
    <2>2. s \notin GrantedSlots(h)
      BY <2>1 DEF Inv, Disjoint
    <2>3. /\ s \in Slots /\ last[s] = now
          /\ s \in U \/ onwire[s] = Never \/ now - onwire[s] >= task[g].iv
      BY <2>1 DEF Inv, GrantInv
    <2> QED BY <2>1, <2>2, <2>3, <1>5, <1>6
  <1>10. Disjoint'
    BY <1>8 DEF Inv, Disjoint
  <1>11. StampInv(U)'
    <2> SUFFICES ASSUME NEW s \in Slots
                 PROVE  /\ last'[s] <= now' /\ onwire'[s] <= now'
                        /\ \/ s \in U \/ onwire'[s] = Never \/ now' - onwire'[s] >= MIN_MULTICAST_INTERVAL
                           \/ last'[s] >= onwire'[s]
      BY DEF StampInv, Slots, AllKeys, PeerKeys
    <2>1. CASE onwire'[s] = onwire[s]
      BY <2>1, <1>5 DEF Inv, StampInv
    <2>2. CASE s \in GrantedSlots(h) /\ onwire'[s] = now
      <3>1. last[s] = now /\ now \in Nat
        BY <2>2 DEF Inv, GrantInv, TypeInv
      <3> QED BY <3>1, <2>2, <1>5
    <2> QED BY <2>1, <2>2, <1>6
  <1> QED BY <1>7, <1>9, <1>10, <1>11 DEF Inv

LEMMA HearInv ==
    ASSUME NEW U, Inv(U), NEW p, p.rec.key \in PeerKeys, Hear(p) PROVE Inv(U)'
  <1>1. UNCHANGED <<now, last, task, onwire>>
    BY DEF Hear
  <1>2. DOMAIN by_key' \subseteq DOMAIN by_key \cup {p.rec.key}
    BY InsertDomain DEF Hear
  <1>3. TypeInv'
    <2>1. bye' \in [PeerKeys -> Instants]
      BY DEF Hear, Inv, TypeInv, Instants
    <2> QED BY <1>1, <1>2, <2>1 DEF Inv, TypeInv, PeerKeys
  <1>4. \A h : GrantedSlots(h)' = GrantedSlots(h)
    BY <1>1, GrantsAre, GrantsAreNext
  <1>5. GrantInv(U)' /\ Disjoint' /\ StampInv(U)'
    BY <1>1, <1>4 DEF Inv, GrantInv, Disjoint, StampInv
  <1> QED BY <1>3, <1>5 DEF Inv

\* The evictor drops only stamps that no longer limit anything.
LEMMA SweepInv ==
    ASSUME NEW U, Inv(U), Sweep PROVE Inv(U)'
  <1>1. UNCHANGED <<now, task, onwire, bye>>
    BY DEF Sweep
  <1>2. DOMAIN by_key' \subseteq DOMAIN by_key
    BY DEF Sweep, EvictExpired, RestrictValues, Restrict
  <1>3. last' = [s \in Slots |-> IF RateLimited(last[s], now, MIN_MULTICAST_INTERVAL)
                                 THEN last[s] ELSE Never]
    BY DEF Sweep, PruneOlderThan, Inv, TypeInv
  <1>4. TypeInv'
    <2>1. last' \in [Slots -> Instants]
      BY <1>3 DEF Inv, TypeInv, Instants
    <2> QED BY <2>1, <1>1, <1>2 DEF Inv, TypeInv
  <1>5. \A h : GrantedSlots(h)' = GrantedSlots(h)
    BY <1>1, GrantsAre, GrantsAreNext
  <1>6. MIN_MULTICAST_INTERVAL \in Nat /\ 0 < MIN_MULTICAST_INTERVAL /\ now \in Nat
    BY IntervalAssumption DEF Inv, TypeInv
  <1>7. GrantInv(U)'
    <2> SUFFICES ASSUME NEW h \in Tasks, NEW s \in GrantedSlots(h)
                 PROVE  /\ s \in Slots /\ last'[s] = now
                        /\ s \in U \/ onwire[s] = Never \/ now - onwire[s] >= task[h].iv
      BY <1>1, <1>5 DEF GrantInv
    <2>1. /\ s \in Slots /\ last[s] = now
          /\ s \in U \/ onwire[s] = Never \/ now - onwire[s] >= task[h].iv
      BY DEF Inv, GrantInv
    <2>2. RateLimited(last[s], now, MIN_MULTICAST_INTERVAL)
      BY <2>1, <1>6 DEF RateLimited, DurationSince, Never
    <2> QED BY <2>1, <2>2, <1>3
  <1>8. Disjoint'
    BY <1>5 DEF Inv, Disjoint
  <1>9. StampInv(U)'
    <2> SUFFICES ASSUME NEW s \in Slots
                 PROVE  /\ last'[s] <= now /\ onwire[s] <= now
                        /\ \/ s \in U \/ onwire[s] = Never \/ now - onwire[s] >= MIN_MULTICAST_INTERVAL
                           \/ last'[s] >= onwire[s]
      BY <1>1 DEF StampInv
    <2>1. /\ last[s] <= now /\ onwire[s] <= now
          /\ \/ s \in U \/ onwire[s] = Never \/ now - onwire[s] >= MIN_MULTICAST_INTERVAL
             \/ last[s] >= onwire[s]
          /\ last[s] \in Instants /\ onwire[s] \in Instants
      BY DEF Inv, StampInv, TypeInv
    <2>2. CASE RateLimited(last[s], now, MIN_MULTICAST_INTERVAL)
      BY <2>1, <2>2, <1>3
    <2>3. CASE ~RateLimited(last[s], now, MIN_MULTICAST_INTERVAL)
      <3>1. last'[s] = Never
        BY <2>3, <1>3
      <3>2. last[s] = Never \/ now - last[s] >= MIN_MULTICAST_INTERVAL
        BY <2>1, <2>3, <1>6 DEF RateLimited, DurationSince, Instants, Never
      <3> QED BY <2>1, <3>1, <3>2, <1>6 DEF Instants, Never
    <2> QED BY <2>2, <2>3
  <1> QED BY <1>4, <1>7, <1>8, <1>9 DEF Inv

\* Time passes only when no call holds a grant.
LEMMA TickInv ==
    ASSUME NEW U, Inv(U), RespTick PROVE Inv(U)'
  <1>1. now \in Nat /\ now' = now + 1 /\ UNCHANGED <<by_key, last, task, bye>>
        /\ MIN_MULTICAST_INTERVAL \in Nat
    BY IntervalAssumption DEF RespTick, Inv, TypeInv
  <1>2. onwire' = [s \in Slots |->
                     IF onwire[s] # Never /\ now' - onwire[s] >= MIN_MULTICAST_INTERVAL
                     THEN Never ELSE onwire[s]]
    BY DEF RespTick
  <1>3. TypeInv'
    <2>1. onwire' \in [Slots -> Instants]
      BY <1>2 DEF Inv, TypeInv, Instants
    <2> QED BY <2>1, <1>1 DEF Inv, TypeInv
  <1>4. \A h \in Tasks : GrantedSlots(h)' = {}
    <2> SUFFICES ASSUME NEW h \in Tasks PROVE GrantsOf(task[h]) = {}
      BY <1>1, GrantsAreNext
    <2>1. task[h].pc \in {"idle", "sleep"}
      BY DEF RespTick, Asleep, Idle
    <2> QED BY <2>1 DEF GrantsOf
  <1>5. GrantInv(U)' /\ Disjoint'
    BY <1>4 DEF GrantInv, Disjoint
  <1>6. StampInv(U)'
    <2> SUFFICES ASSUME NEW s \in Slots
                 PROVE  /\ last[s] <= now' /\ onwire'[s] <= now'
                        /\ \/ s \in U \/ onwire'[s] = Never \/ now' - onwire'[s] >= MIN_MULTICAST_INTERVAL
                           \/ last[s] >= onwire'[s]
      BY <1>1 DEF StampInv
    <2>1. /\ last[s] <= now /\ onwire[s] <= now
          /\ \/ s \in U \/ onwire[s] = Never \/ now - onwire[s] >= MIN_MULTICAST_INTERVAL
             \/ last[s] >= onwire[s]
          /\ last[s] \in Instants /\ onwire[s] \in Instants
      BY DEF Inv, StampInv, TypeInv
    <2>2. onwire'[s] = Never \/ onwire'[s] = onwire[s]
      BY <1>2
    <2> QED BY <2>1, <2>2, <1>1 DEF Instants, Never
  <1> QED BY <1>3, <1>5, <1>6 DEF Inv

-----------------------------------------------------------------------------
LEMMA InitInv ==
    ASSUME NEW U, RespInit PROVE Inv(U)
  <1>1. TypeInv
    BY DEF RespInit, TypeInv, Instants, Never
  <1>2. \A h \in Tasks : GrantedSlots(h) = {}
    <2>1. GrantsOf(Idle) = {}
      BY DEF GrantsOf, Idle
    <2> QED BY <2>1, GrantsAre DEF RespInit
  <1>3. GrantInv(U) /\ Disjoint
    BY <1>2 DEF GrantInv, Disjoint
  <1>4. StampInv(U)
    BY DEF RespInit, StampInv, Never
  <1> QED BY <1>1, <1>3, <1>4 DEF Inv

LEMMA StutterInv ==
    ASSUME NEW U, Inv(U), UNCHANGED respVars PROVE Inv(U)'
  <1>1. UNCHANGED <<now, by_key, last, task, onwire, bye>>
    BY DEF respVars
  <1>2. TypeInv'
    BY <1>1 DEF Inv, TypeInv
  <1>3. \A h : GrantedSlots(h)' = GrantedSlots(h)
    BY <1>1, GrantsAre, GrantsAreNext
  <1>4. GrantInv(U)' /\ Disjoint' /\ StampInv(U)'
    BY <1>1, <1>3 DEF Inv, GrantInv, Disjoint, StampInv
  <1> QED BY <1>2, <1>4 DEF Inv

LEMMA TaskStepInv ==
    ASSUME NEW U, Inv(U), NEW h \in Tasks, TaskStep(h) PROVE Inv(U)'
  BY FindAdditionalsInv, WakeInv, RetainAnswerInv, AnswersDoneInv, RetainAdditionalInv,
     SendInv DEF TaskStep

\* The calls, the cache and the tracker under any traffic: queries and peers'
\* records of whatever origin.
AnyNext ==
    \/ RespTick
    \/ Sweep
    \/ \E p : p.rec.key \in PeerKeys /\ Hear(p)
    \/ \E h \in Tasks : TaskStep(h)
    \/ \E h \in Tasks : \E msg : msg.iface \in Ifaces /\ Arrive(h, msg)

AnySpec == RespInit /\ [][AnyNext]_respVars

LEMMA NextInv ==
    ASSUME NEW U, Inv(U), [AnyNext]_respVars PROVE Inv(U)'
  <1>1. CASE RespTick
    BY <1>1, TickInv
  <1>2. CASE Sweep
    BY <1>2, SweepInv
  <1>3. CASE \E p : p.rec.key \in PeerKeys /\ Hear(p)
    BY <1>3, HearInv
  <1>4. CASE \E h \in Tasks : TaskStep(h)
    BY <1>4, TaskStepInv
  <1>5. CASE \E h \in Tasks : \E msg : msg.iface \in Ifaces /\ Arrive(h, msg)
    BY <1>5, ArriveInv
  <1>6. CASE UNCHANGED respVars
    BY <1>6, StutterInv
  <1> QED BY <1>1, <1>2, <1>3, <1>4, <1>5, <1>6 DEF AnyNext

\* The traffic of RespSpec is traffic.
LEMMA RespIsAny == RespSpec => AnySpec
  <1>1. [RespNext]_respVars => [AnyNext]_respVars
    <2> SUFFICES ASSUME RespNext PROVE AnyNext
      OBVIOUS
    <2>1. \A p \in PeerRecords : p.rec.key \in PeerKeys
      BY DEF PeerKeys
    <2>2. \A msg \in Queries : msg.iface \in Ifaces
      BY ResponderAssumption
    <2> QED BY <2>1, <2>2 DEF RespNext, AnyNext
  <1> QED BY <1>1, PTL DEF RespSpec, AnySpec

\* The inductive invariant holds of any number of concurrent calls of handle_query,
\* under any traffic.
THEOREM Invariance == AnySpec => []Inv({})
  <1>1. RespInit => Inv({})
    BY InitInv
  <1>2. Inv({}) /\ [AnyNext]_respVars => Inv({})'
    BY NextInv
  <1> QED BY <1>1, <1>2, PTL DEF AnySpec

LEMMA TypeInvOK == TypeInv => RespTypeOK
  <1> SUFFICES ASSUME TypeInv PROVE RespTypeOK
    OBVIOUS
  <1>1. ASSUME NEW h \in Tasks, task[h] # Idle
        PROVE  /\ task[h].pc \in {"lookup", "sleep", "answers", "additionals"}
               /\ task[h].iface \in Ifaces
               /\ {r.key : r \in task[h].answers} \subseteq AllKeys
               /\ task[h].pc \in {"lookup", "sleep"} => task[h].answers # {}
    <2>1. CallOK(task[h])
      BY <1>1 DEF TypeInv
    <2> QED BY <2>1 DEF CallOK, RecOK
  <1> QED BY <1>1 DEF TypeInv, RespTypeOK

LEMMA GrantsApart ==
    ASSUME NEW U, Inv(U) PROVE NoDoubleTransmit
  <1> SUFFICES ASSUME NEW h \in Tasks, NEW g \in Tasks, h # g,
                      task[h].iface = task[g].iface,
                      NEW r \in Granted(h), NEW q \in Granted(g), r.key = q.key
               PROVE  FALSE
    BY DEF NoDoubleTransmit
  <1>1. /\ <<task[h].iface, r.key>> \in GrantedSlots(h)
        /\ <<task[h].iface, r.key>> \in GrantedSlots(g)
    BY DEF GrantedSlots
  <1> QED BY <1>1 DEF Inv, Disjoint

LEMMA AnyNoDoubleTransmit == AnySpec => []NoDoubleTransmit
  <1>1. Inv({}) => NoDoubleTransmit
    BY GrantsApart
  <1> QED BY <1>1, Invariance, PTL

\* Two calls of handle_query never have one record on its way out on one
\* interface: check_and_mark lets one of them through.
THEOREM NoDoubleTransmitAlways == RespSpec => []NoDoubleTransmit
  BY AnyNoDoubleTransmit, RespIsAny, PTL

LEMMA AnyResponseSpacing == AnySpec => []ResponseSpacing
  <1>1. Inv({}) => ResponseSpacing
    <2> SUFFICES ASSUME Inv({}), NEW h \in Tasks, ReadyToSend(h), NEW r \in Sent(h)
                 PROVE  \/ onwire[<<task[h].iface, r.key>>] = Never
                        \/ now - onwire[<<task[h].iface, r.key>>] >= task[h].iv
      BY DEF ResponseSpacing
    <2>1. <<task[h].iface, r.key>> \in GrantedSlots(h)
      BY DEF GrantedSlots, Granted, ReadyToSend
    <2> QED BY <2>1 DEF Inv, GrantInv
  <1> QED BY <1>1, Invariance, PTL

\* What a response carries was not multicast by another one within the interval
\* that handle_query applies, however calls, evictions and failed sends mix.
THEOREM ResponseSpacingAlways == RespSpec => []ResponseSpacing
  BY AnyResponseSpacing, RespIsAny, PTL

LEMMA FlushOurs ==
    ASSUME NEW U, Inv(U) PROVE FlushOnlyOurs
  <1> SUFFICES ASSUME NEW h \in Tasks, ReadyToSend(h), NEW r \in Sent(h)
               PROVE  r.flush => r \in UniqueForIface(task[h].iface)
    BY DEF FlushOnlyOurs
  <1>1. CallOK(task[h]) /\ task[h].pc = "additionals"
    BY AtStage DEF Inv, ReadyToSend
  <1> QED BY <1>1 DEF CallOK, Sent, RecOK

LEMMA AnyFlushOnlyOurs == AnySpec => []FlushOnlyOurs
  <1>1. Inv({}) => FlushOnlyOurs
    BY FlushOurs
  <1> QED BY <1>1, Invariance, PTL

\* A record leaves with the cache-flush bit only on an interface it is ours on:
\* on_arrival strips the other interfaces' addresses, and what comes from the
\* cache has lost the bit.
THEOREM FlushOnlyOursAlways == RespSpec => []FlushOnlyOurs
  BY AnyFlushOnlyOurs, RespIsAny, PTL

-----------------------------------------------------------------------------
\* When sends succeed, a stamp that still limits stands for a transmission.

\* A stamp on slot s is no longer of use, or was sent, or is about to be.
Accounted(s) ==
    \/ last[s] = Never \/ now - last[s] >= MIN_MULTICAST_INTERVAL \/ onwire[s] >= last[s]
    \/ \E h \in Tasks : s \in GrantedSlots(h)

LEMMA StampsAre == StampsWereSent <=> \A s \in Slots : Accounted(s)
  BY DEF StampsWereSent, Accounted, GrantedSlots

LEMMA StampsAreNext == StampsWereSent' <=> \A s \in Slots : Accounted(s)'
  BY DEF StampsWereSent, Accounted, GrantedSlots, Slots, AllKeys, PeerKeys

\* A step that takes no grant back, and stamps at most slots that it grants.
LEMMA KeptGrants ==
    ASSUME StampsWereSent, now' = now, onwire' = onwire,
           \A h \in Tasks : GrantedSlots(h) \subseteq GrantedSlots(h)',
           \A s \in Slots : \/ last'[s] \in {last[s], Never}
                            \/ \E h \in Tasks : s \in GrantedSlots(h)'
    PROVE  StampsWereSent'
  BY StampsAre, StampsAreNext DEF Accounted

LEMMA CallKeepsGrants ==
    ASSUME StampsWereSent, NEW h \in Tasks, NEW t, Becomes(h, t),
           GrantsOf(task[h]) \subseteq GrantsOf(t), now' = now, onwire' = onwire,
           \A s \in Slots : last'[s] = last[s] \/ s \in GrantsOf(t)
    PROVE  StampsWereSent'
  <1>1. \A g \in Tasks : GrantedSlots(g) \subseteq GrantedSlots(g)'
    BY GrantsAre, GrantsAreNext DEF Becomes
  <1>2. GrantedSlots(h)' = GrantsOf(t)
    BY GrantsAreNext DEF Becomes
  <1> QED BY <1>1, <1>2, KeptGrants

\* check_and_mark stamps the slot of a record that passes, and of no other.
LEMMA MarkedIsPassed ==
    ASSUME TypeInv, NEW h \in Tasks, NEW r, CheckAndMark(h, r), NEW s \in Slots
    PROVE  last'[s] = last[s] \/ (r \in Passed(h, r) /\ s = <<task[h].iface, r.key>>)
  <1>1. CASE Passed(h, r) = {}
    BY <1>1 DEF CheckAndMark
  <1>2. CASE Passed(h, r) # {}
    <2>1. r \in Passed(h, r)
      BY <1>2 DEF Passed
    <2>2. last' = [last EXCEPT ![<<task[h].iface, r.key>>] = now]
      BY <1>2 DEF CheckAndMark
    <2> QED BY <2>1, <2>2 DEF TypeInv
  <1> QED BY <1>1, <1>2

LEMMA StampsTaskStep ==
    ASSUME Inv({}), StampsWereSent, NEW h \in Tasks, TaskStep(h),
           Send(h) => SendResults[task[h].iface] \subseteq {TRUE}
    PROVE  StampsWereSent'
  <1>0. TypeInv
    BY DEF Inv
  <1>1. CASE FindAdditionals(h)
    <2>1. PICK t : task' = [task EXCEPT ![h] = t]
      BY <1>1, Zenon DEF FindAdditionals
    <2>2. Becomes(h, t)
      BY <2>1, <1>0, UpdateTask, Zenon
    <2>3. GrantsOf(task[h]) = {}
      BY <1>1 DEF FindAdditionals, GrantsOf
    <2> QED BY <1>1, <2>2, <2>3, CallKeepsGrants DEF FindAdditionals
  <1>2. CASE Wake(h)
    <2>1. PICK t : task' = [task EXCEPT ![h] = t]
      BY <1>2, Zenon DEF Wake
    <2>2. Becomes(h, t)
      BY <2>1, <1>0, UpdateTask
    <2>3. GrantsOf(task[h]) = {}
      BY <1>2 DEF Wake, GrantsOf
    <2> QED BY <1>2, <2>2, <2>3, CallKeepsGrants DEF Wake
  <1>3. CASE RetainAnswer(h)
    <2>1. PICK r \in task[h].todo :
            /\ CheckAndMark(h, r)
            /\ task' = [task EXCEPT ![h] =
                           [pc |-> "answers", iface |-> task[h].iface, iv |-> task[h].iv,
                            answers |-> task[h].answers \cup Passed(h, r),
                            todo |-> task[h].todo \ {r}, adds |-> task[h].adds]]
      BY <1>3, Zenon DEF RetainAnswer
    <2> DEFINE t == [pc |-> "answers", iface |-> task[h].iface, iv |-> task[h].iv,
                     answers |-> task[h].answers \cup Passed(h, r),
                     todo |-> task[h].todo \ {r}, adds |-> task[h].adds]
    <2>2. Becomes(h, t)
      BY <2>1, <1>0, UpdateTask, Zenon
    <2>3. /\ GrantsOf(task[h]) \subseteq GrantsOf(t)
          /\ r \in Passed(h, r) => <<task[h].iface, r.key>> \in GrantsOf(t)
      BY <1>3, Zenon DEF RetainAnswer, GrantsOf
    <2> HIDE DEF t
    <2>4. \A s \in Slots : last'[s] = last[s] \/ s \in GrantsOf(t)
      BY <2>1, <2>3, <1>0, MarkedIsPassed
    <2> QED BY <1>3, <2>2, <2>3, <2>4, CallKeepsGrants DEF RetainAnswer
  <1>4. CASE AnswersDone(h)
    <2>1. PICK t : /\ t = IF task[h].answers = {} THEN Idle ELSE ToAdditionals(h)
                   /\ task' = [task EXCEPT ![h] = t]
      BY <1>4 DEF AnswersDone
    <2>2. Becomes(h, t)
      BY <2>1, <1>0, UpdateTask
    <2>3. GrantsOf(task[h]) \subseteq GrantsOf(t)
      BY <1>4, <2>1 DEF AnswersDone, GrantsOf, ToAdditionals
    <2> QED BY <1>4, <2>2, <2>3, CallKeepsGrants DEF AnswersDone
  <1>5. CASE RetainAdditional(h)
    <2>1. PICK r \in task[h].todo :
            /\ CheckAndMark(h, r)
            /\ task' = [task EXCEPT ![h] =
                           [pc |-> "additionals", iface |-> task[h].iface, iv |-> task[h].iv,
                            answers |-> task[h].answers,
                            todo |-> task[h].todo \ {r}, adds |-> task[h].adds \cup Passed(h, r)]]
      BY <1>5, Zenon DEF RetainAdditional
    <2> DEFINE t == [pc |-> "additionals", iface |-> task[h].iface, iv |-> task[h].iv,
                     answers |-> task[h].answers,
                     todo |-> task[h].todo \ {r}, adds |-> task[h].adds \cup Passed(h, r)]
    <2>2. Becomes(h, t)
      BY <2>1, <1>0, UpdateTask, Zenon
    <2>3. /\ GrantsOf(task[h]) \subseteq GrantsOf(t)
          /\ r \in Passed(h, r) => <<task[h].iface, r.key>> \in GrantsOf(t)
      BY <1>5, Zenon DEF RetainAdditional, GrantsOf
    <2> HIDE DEF t
    <2>4. \A s \in Slots : last'[s] = last[s] \/ s \in GrantsOf(t)
      BY <2>1, <2>3, <1>0, MarkedIsPassed
    <2> QED BY <1>5, <2>2, <2>3, <2>4, CallKeepsGrants DEF RetainAdditional
  <1>6. CASE Send(h)
    <2>1. onwire' = [s \in Slots |-> IF s \in {<<task[h].iface, r.key>> : r \in Sent(h)}
                                    THEN now ELSE onwire[s]]
      BY <1>6, Zenon DEF Send
    <2>2. GrantedSlots(h) = {<<task[h].iface, r.key>> : r \in Sent(h)}
      BY <1>6 DEF Send, ReadyToSend, GrantedSlots, Granted
    <2>3. \A g \in Tasks \ {h} : GrantedSlots(g)' = GrantedSlots(g)
      <3>1. Becomes(h, Idle)
        BY <1>6, <1>0, UpdateTask, Zenon DEF Send
      <3> QED BY <3>1, GrantsAre, GrantsAreNext DEF Becomes
    <2> SUFFICES ASSUME NEW s \in Slots PROVE Accounted(s)'
      BY StampsAreNext
    <2>4. now' = now /\ last' = last
      BY <1>6 DEF Send
    <2>5. CASE s \in GrantedSlots(h)
      <3>1. onwire'[s] = now /\ last[s] <= now
        BY <2>1, <2>2, <2>5 DEF Inv, StampInv
      <3> QED BY <3>1, <2>4, <1>0 DEF Accounted, TypeInv, Instants, Never
    <2>6. CASE s \notin GrantedSlots(h)
      <3>1. onwire'[s] = onwire[s]
        BY <2>1, <2>2, <2>6
      <3>2. Accounted(s)
        BY StampsAre
      <3> QED BY <3>1, <3>2, <2>3, <2>4, <2>6 DEF Accounted
    <2> QED BY <2>5, <2>6
  <1> QED BY <1>1, <1>2, <1>3, <1>4, <1>5, <1>6 DEF TaskStep

LEMMA StampsTick ==
    ASSUME Inv({}), StampsWereSent, RespTick PROVE StampsWereSent'
  <1>1. \A h \in Tasks : GrantedSlots(h) = {}
    <2> SUFFICES ASSUME NEW h \in Tasks PROVE GrantsOf(task[h]) = {}
      BY GrantsAre
    <2>1. task[h].pc \in {"idle", "sleep"}
      BY DEF RespTick, Asleep, Idle
    <2> QED BY <2>1 DEF GrantsOf
  <1> SUFFICES ASSUME NEW s \in Slots PROVE Accounted(s)'
    BY StampsAreNext
  <1>2. /\ now \in Nat /\ now' = now + 1 /\ last' = last /\ MIN_MULTICAST_INTERVAL \in Nat
        /\ last[s] \in Instants /\ onwire[s] \in Instants
        /\ onwire'[s] = IF onwire[s] # Never /\ now' - onwire[s] >= MIN_MULTICAST_INTERVAL
                        THEN Never ELSE onwire[s]
    BY IntervalAssumption DEF RespTick, Inv, TypeInv
  <1>3. \/ last[s] = Never \/ now - last[s] >= MIN_MULTICAST_INTERVAL \/ onwire[s] >= last[s]
    BY <1>1, StampsAre DEF Accounted
  <1>4. \/ last'[s] = Never \/ now' - last'[s] >= MIN_MULTICAST_INTERVAL
        \/ onwire'[s] >= last'[s]
    BY <1>2, <1>3 DEF Instants, Never
  <1> QED BY <1>4 DEF Accounted

LEMMA StampsSweep ==
    ASSUME Inv({}), StampsWereSent, Sweep PROVE StampsWereSent'
  <1>1. UNCHANGED <<now, task, onwire>>
    BY DEF Sweep
  <1>2. \A s \in Slots : last'[s] \in {last[s], Never}
    BY DEF Sweep, PruneOlderThan, Inv, TypeInv
  <1>3. \A h : GrantedSlots(h)' = GrantedSlots(h)
    BY <1>1, GrantsAre, GrantsAreNext
  <1> QED BY <1>1, <1>2, <1>3, KeptGrants

LEMMA StampsArrive ==
    ASSUME Inv({}), StampsWereSent, NEW h \in Tasks, NEW msg, Arrive(h, msg)
    PROVE  StampsWereSent'
  <1>1. PICK t : task' = [task EXCEPT ![h] = t]
    BY Zenon DEF Arrive
  <1>2. Becomes(h, t)
    BY <1>1, UpdateTask, Zenon DEF Inv
  <1>3. GrantsOf(task[h]) = {}
    <2>1. task[h] = Idle
      BY DEF Arrive
    <2>2. GrantsOf(Idle) = {}
      BY DEF GrantsOf, Idle
    <2> QED BY <2>1, <2>2
  <1> QED BY <1>2, <1>3, CallKeepsGrants DEF Arrive

LEMMA AnyStampsWereSent ==
    ASSUME SendsSucceed PROVE AnySpec => []StampsWereSent
  <1> DEFINE IInv == Inv({}) /\ StampsWereSent
  <1>1. RespInit => IInv
    <2> SUFFICES ASSUME RespInit PROVE IInv
      OBVIOUS
    <2>1. StampsWereSent
      BY DEF RespInit, StampsWereSent
    <2> QED BY <2>1, InitInv
  <1>2. IInv /\ [AnyNext]_respVars => IInv'
    <2> SUFFICES ASSUME IInv, [AnyNext]_respVars PROVE StampsWereSent'
      BY NextInv
    <2>1. CASE RespTick
      BY <2>1, StampsTick
    <2>2. CASE Sweep
      BY <2>2, StampsSweep
    <2>3. ASSUME UNCHANGED <<now, last, task, onwire>> PROVE StampsWereSent'
      <3>1. \A h : GrantedSlots(h)' = GrantedSlots(h)
        BY <2>3, GrantsAre, GrantsAreNext
      <3> QED BY <2>3, <3>1, KeptGrants
    <2>4. CASE \E p : p.rec.key \in PeerKeys /\ Hear(p)
      BY <2>3, <2>4 DEF Hear
    <2>5. ASSUME NEW h \in Tasks, TaskStep(h) PROVE StampsWereSent'
      <3>1. Send(h) => task[h].iface \in Ifaces
        BY AtStage DEF Send, ReadyToSend, Inv, CallOK
      <3> QED BY <2>5, <3>1, StampsTaskStep, Zenon DEF SendsSucceed
    <2>6. CASE \E h \in Tasks : \E msg : msg.iface \in Ifaces /\ Arrive(h, msg)
      BY <2>6, StampsArrive
    <2>7. CASE UNCHANGED respVars
      BY <2>3, <2>7 DEF respVars
    <2> QED BY <2>1, <2>2, <2>4, <2>5, <2>6, <2>7 DEF AnyNext
  <1> QED BY <1>1, <1>2, PTL DEF AnySpec

\* With sends that succeed, every stamp the rate limiter still goes by stands
\* for a transmission, made or imminent: what it holds back, a listener has
\* heard or is about to hear.  No additional is stamped for a response that is
\* not sent.
THEOREM StampsWereSentAlways ==
    ASSUME SendsSucceed PROVE RespSpec => []StampsWereSent
  BY AnyStampsWereSent, RespIsAny, PTL

-----------------------------------------------------------------------------
\* How long a record may be relayed after its owner's goodbye.

Delays == {0} \cup SharedDelay \cup TruncatedDelay

\* At time n, with goodbyes b: every record of recs that a peer has withdrawn
\* was withdrawn at most d before.
WithdrawnWithin(recs, b, n, d) ==
    \A r \in recs : (r.key \in PeerKeys /\ b[r.key] # Never) => n <= b[r.key] + d

\* A call collects at an instant what is cached, wakes up within the delay it has
\* drawn, and is done at that instant.
ByeOK(t, b, n) ==
    /\ t.pc = "lookup" => WithdrawnWithin(t.answers, b, n, 0)
    /\ t.pc = "sleep" => \E d \in Delays :
          /\ t.wake \in n .. n + d
          /\ WithdrawnWithin(t.answers \cup t.adds, b, t.wake, d)
    /\ t.pc \in {"answers", "additionals"} => \E d \in Delays :
          WithdrawnWithin(t.answers \cup t.adds \cup t.todo, b, n, d)

ByeInv ==
    /\ \A k \in PeerKeys : bye[k] <= now
    /\ \A k \in DOMAIN by_key : bye[k] = Never
    /\ \A h \in Tasks : ByeOK(task[h], bye, now)

\* What is collected from the cache is of peers that have not withdrawn it.
LEMMA CachedNotWithdrawn ==
    ASSUME ByeInv, NEW name, NEW type, NEW i, NEW r \in Cached(name, type, i)
    PROVE  bye[r.key] = Never
  <1>1. r \in LookupFromOtherIfaces(by_key, name, type, i, now)
    BY DEF Cached
  <1>2. PICK k \in DOMAIN by_key :
          r = [key |-> k, ttl |-> RemainingTtl(by_key[k].deadline, now), flush |-> FALSE]
    BY <1>1 DEF LookupFromOtherIfaces
  <1>3. r.key \in DOMAIN by_key
    BY <1>2
  <1> QED BY <1>3 DEF ByeInv

LEMMA AnswersNotWithdrawn ==
    ASSUME PeersApart, ByeInv, NEW msg, NEW i
    PROVE  WithdrawnWithin(ApplyKnownAnswers(CandidateAnswers(msg, i), msg), bye, now, 0)
  <1> SUFFICES ASSUME NEW r \in ApplyKnownAnswers(CandidateAnswers(msg, i), msg)
               PROVE  r.key \in PeerKeys => bye[r.key] = Never
    BY DEF WithdrawnWithin
  <1>1. \/ \E q \in msg.questions : r \in OnArrival(Answer(q.name, q.type), i)
        \/ \E q \in msg.questions : r \in Cached(q.name, q.type, i)
    BY DEF ApplyKnownAnswers, CandidateAnswers, PushUnique
  <1>2. CASE \E q \in msg.questions : r \in OnArrival(Answer(q.name, q.type), i)
    <2>1. r \in Published
      BY <1>2 DEF OnArrival, Answer
    <2> QED BY <2>1 DEF PeersApart
  <1> QED BY <1>1, <1>2, CachedNotWithdrawn

LEMMA AdditionalsNotWithdrawn ==
    ASSUME ByeInv, NEW answers, NEW i, NEW r \in CachedAdditionals(answers, i)
    PROVE  bye[r.key] = Never
  <1>1. \E name, type : r \in Cached(name, type, i)
    BY DEF CachedAdditionals, PushUnique
  <1> QED BY <1>1, CachedNotWithdrawn

LEMMA DelayIsDelay ==
    ASSUME NEW msg, NEW answers, NEW probe,
           NEW d \in ResponseDelay(ClassifyDelay(msg, answers, probe))
    PROVE  d \in Delays
  BY DEF ResponseDelay, ClassifyDelay, Delays

LEMMA DelaysType == Delays \subseteq Nat
  BY ResponderAssumption DEF Delays

\* A wake-up time within a delay of now is one, and a tick that does not pass it
\* keeps it within the delay of the new time.
LEMMA WakeWindow ==
    ASSUME NEW t \in Nat, NEW d \in Nat, NEW w \in t .. t + d
    PROVE  /\ w \in Nat /\ t <= w /\ w <= t + d
           /\ t < w => w \in t + 1 .. t + 1 + d
  OBVIOUS

\* A call never goes back to its lookup, and draws its delay right after it.
StepsTo(h, t) ==
    /\ Becomes(h, t)
    /\ t.pc # "lookup"
    /\ t.pc = "sleep" => task[h].pc = "lookup" /\ \E d \in Delays : t.wake = now + d

LEMMA StepShape ==
    ASSUME TypeInv, NEW h \in Tasks, TaskStep(h)
    PROVE  task[h] # Idle /\ now' = now /\ \E t : StepsTo(h, t)
  <1>1. CASE FindAdditionals(h)
    <2> DEFINE adds == CachedAdditionals(task[h].answers, task[h].iface)
               iv == MinInterval(IsProbeForUs(task[h].msg, task[h].iface))
    <2>1. PICK d \in Delays : task' = [task EXCEPT ![h] =
             [pc |-> "sleep", iface |-> task[h].iface, answers |-> task[h].answers,
              adds |-> adds, wake |-> now + d, iv |-> iv]]
      BY <1>1, DelayIsDelay, Zenon DEF FindAdditionals
    <2> HIDE DEF adds, iv
    <2> DEFINE t == [pc |-> "sleep", iface |-> task[h].iface, answers |-> task[h].answers,
                     adds |-> adds, wake |-> now + d, iv |-> iv]
    <2>2. Becomes(h, t) /\ t.pc = "sleep" /\ t.wake = now + d
      BY <2>1, UpdateTask, Zenon
    <2>3. task[h].pc = "lookup" /\ now' = now /\ task[h] # Idle
      BY <1>1 DEF FindAdditionals, Idle
    <2> HIDE DEF t
    <2> QED BY <2>2, <2>3 DEF StepsTo
  <1>2. ASSUME NEW t, task' = [task EXCEPT ![h] = t], t.pc \in {"idle", "answers", "additionals"},
               task[h].pc \in {"sleep", "answers", "additionals"}, now' = now
        PROVE  task[h] # Idle /\ now' = now /\ StepsTo(h, t)
    <2>1. task[h] # Idle
      BY <1>2 DEF Idle
    <2>2. Becomes(h, t)
      BY <1>2, UpdateTask, Zenon
    <2> QED BY <1>2, <2>1, <2>2 DEF StepsTo
  <1>3. CASE Wake(h)
    <2>1. task[h].pc = "sleep" /\ now' = now
      BY <1>3 DEF Wake
    <2> DEFINE t == [pc |-> "answers", iface |-> task[h].iface, iv |-> task[h].iv,
                     answers |-> {}, todo |-> task[h].answers, adds |-> task[h].adds]
    <2>2. task' = [task EXCEPT ![h] = t] /\ t.pc = "answers"
      BY <1>3 DEF Wake
    <2> HIDE DEF t
    <2> QED BY <1>2, <2>1, <2>2, Zenon
  <1>4. CASE RetainAnswer(h)
    <2>1. task[h].pc = "answers" /\ now' = now
      BY <1>4 DEF RetainAnswer
    <2>2. \E t : task' = [task EXCEPT ![h] = t] /\ t.pc = "answers"
      BY <1>4, Zenon DEF RetainAnswer
    <2> QED BY <1>2, <2>1, <2>2, Zenon
  <1>5. CASE AnswersDone(h)
    <2>1. task[h].pc = "answers" /\ now' = now
      BY <1>5 DEF AnswersDone
    <2>2. Idle.pc = "idle" /\ ToAdditionals(h).pc = "additionals"
      BY DEF Idle, ToAdditionals
    <2>3. \E t : task' = [task EXCEPT ![h] = t] /\ t.pc \in {"idle", "additionals"}
      BY <1>5, <2>2, Zenon DEF AnswersDone
    <2> QED BY <1>2, <2>1, <2>3, Zenon
  <1>6. CASE RetainAdditional(h)
    <2>1. task[h].pc = "additionals" /\ now' = now
      BY <1>6 DEF RetainAdditional
    <2>2. \E t : task' = [task EXCEPT ![h] = t] /\ t.pc = "additionals"
      BY <1>6, Zenon DEF RetainAdditional
    <2> QED BY <1>2, <2>1, <2>2, Zenon
  <1>7. CASE Send(h)
    <2>1. task[h].pc = "additionals" /\ now' = now
      BY <1>7 DEF Send, ReadyToSend
    <2>2. Idle.pc = "idle" /\ task' = [task EXCEPT ![h] = Idle]
      BY <1>7 DEF Send, Idle
    <2> QED BY <1>2, <2>1, <2>2, Zenon
  <1> QED BY <1>1, <1>3, <1>4, <1>5, <1>6, <1>7 DEF TaskStep

\* A step of one call, which leaves cache, clock and goodbyes alone.
LEMMA CallKeepsBye ==
    ASSUME ByeInv, NEW h \in Tasks, NEW t, Becomes(h, t), ByeOK(t, bye, now),
           UNCHANGED <<now, by_key, bye>>
    PROVE  ByeInv'
  <1>1. \A g \in Tasks : ByeOK(task'[g], bye, now)
    BY DEF ByeInv, Becomes
  <1> QED BY <1>1 DEF ByeInv, PeerKeys

LEMMA ByeTaskStep ==
    ASSUME Inv({}), ByeInv, NEW h \in Tasks, TaskStep(h) PROVE ByeInv'
  <1>0. TypeInv /\ now \in Nat /\ ByeOK(task[h], bye, now)
    BY DEF Inv, TypeInv, ByeInv
  <1>1. CASE FindAdditionals(h)
    <2> DEFINE adds == CachedAdditionals(task[h].answers, task[h].iface)
               iv == MinInterval(IsProbeForUs(task[h].msg, task[h].iface))
    <2>1. PICK d \in Delays : task' = [task EXCEPT ![h] =
             [pc |-> "sleep", iface |-> task[h].iface, answers |-> task[h].answers,
              adds |-> adds, wake |-> now + d, iv |-> iv]]
      BY <1>1, DelayIsDelay, Zenon DEF FindAdditionals
    <2>2. \A r \in adds : bye[r.key] = Never
      BY AdditionalsNotWithdrawn
    <2> HIDE DEF adds, iv
    <2> DEFINE t == [pc |-> "sleep", iface |-> task[h].iface, answers |-> task[h].answers,
                     adds |-> adds, wake |-> now + d, iv |-> iv]
    <2>3. Becomes(h, t)
      BY <2>1, <1>0, UpdateTask, Zenon
    <2>4. WithdrawnWithin(task[h].answers, bye, now, 0)
      BY <1>0, <1>1 DEF ByeOK, FindAdditionals
    <2>5. d \in Nat /\ bye \in [PeerKeys -> Instants]
      BY DelaysType, <1>0 DEF TypeInv
    <2>6. WithdrawnWithin(task[h].answers \cup adds, bye, now + d, d)
      BY <2>2, <2>4, <2>5, <1>0 DEF WithdrawnWithin, Instants, Never
    <2>7. ByeOK(t, bye, now)
      <3>1. /\ t.pc = "sleep" /\ t.wake = now + d
            /\ t.answers = task[h].answers /\ t.adds = adds
        OBVIOUS
      <3>2. now + d \in now .. now + d
        BY <2>5, <1>0
      <3> HIDE DEF t
      <3> QED BY <2>6, <3>1, <3>2 DEF ByeOK
    <2> HIDE DEF t
    <2> QED BY <1>1, <2>3, <2>7, CallKeepsBye DEF FindAdditionals
  <1>2. CASE Wake(h)
    <2> DEFINE t == [pc |-> "answers", iface |-> task[h].iface, iv |-> task[h].iv,
                     answers |-> {}, todo |-> task[h].answers, adds |-> task[h].adds]
    <2>1. Becomes(h, t)
      BY <1>0, <1>2, UpdateTask, Zenon DEF Wake
    <2>2. PICK d \in Delays :
            /\ task[h].wake \in now .. now + d
            /\ WithdrawnWithin(task[h].answers \cup task[h].adds, bye, task[h].wake, d)
      BY <1>0, <1>2, Zenon DEF ByeOK, Wake
    <2>3. WithdrawnWithin(t.answers \cup t.adds \cup t.todo, bye, now, d)
      <3> SUFFICES ASSUME NEW r \in task[h].answers \cup task[h].adds,
                          r.key \in PeerKeys, bye[r.key] # Never
                   PROVE  now <= bye[r.key] + d
        BY DEF WithdrawnWithin
      <3>1. bye[r.key] \in Nat /\ d \in Nat
        BY DelaysType, <1>0 DEF TypeInv, Instants
      <3>2. task[h].wake <= bye[r.key] + d
        BY <2>2 DEF WithdrawnWithin
      <3>3. task[h].wake \in Nat /\ now <= task[h].wake
        BY <2>2, <3>1, <1>0, WakeWindow, Zenon
      <3>4. \A a, b, e, f \in Nat : a <= b /\ b <= e + f => a <= e + f
        OBVIOUS
      <3> QED BY <3>1, <3>2, <3>3, <3>4, <1>0, Zenon
    <2>4. ByeOK(t, bye, now)
      BY <2>3, Zenon DEF ByeOK
    <2> HIDE DEF t
    <2> QED BY <1>2, <2>1, <2>4, CallKeepsBye DEF Wake
  <1>3. CASE RetainAnswer(h) \/ RetainAdditional(h) \/ AnswersDone(h)
    <2>1. PICK d \in Delays :
            WithdrawnWithin(task[h].answers \cup task[h].adds \cup task[h].todo, bye, now, d)
      BY <1>0, <1>3 DEF ByeOK, RetainAnswer, RetainAdditional, AnswersDone
    <2> DEFINE Left(t) == /\ t.pc \in {"answers", "additionals"}
                          /\ t.answers \cup t.adds \cup t.todo \subseteq
                                task[h].answers \cup task[h].adds \cup task[h].todo
    <2>2. PICK t : task' = [task EXCEPT ![h] = t] /\ (t = Idle \/ Left(t))
      <3>1. CASE RetainAnswer(h)
        <4>1. PICK r \in task[h].todo : task' = [task EXCEPT ![h] =
                 [pc |-> "answers", iface |-> task[h].iface, iv |-> task[h].iv,
                  answers |-> task[h].answers \cup Passed(h, r),
                  todo |-> task[h].todo \ {r}, adds |-> task[h].adds]]
          BY <3>1, Zenon DEF RetainAnswer
        <4>2. Left([pc |-> "answers", iface |-> task[h].iface, iv |-> task[h].iv,
                    answers |-> task[h].answers \cup Passed(h, r),
                    todo |-> task[h].todo \ {r}, adds |-> task[h].adds])
          BY Zenon DEF Passed
        <4> HIDE DEF Left
        <4> QED BY <4>1, <4>2, Zenon
      <3>2. CASE RetainAdditional(h)
        <4>1. PICK r \in task[h].todo : task' = [task EXCEPT ![h] =
                 [pc |-> "additionals", iface |-> task[h].iface, iv |-> task[h].iv,
                  answers |-> task[h].answers,
                  todo |-> task[h].todo \ {r}, adds |-> task[h].adds \cup Passed(h, r)]]
          BY <3>2, Zenon DEF RetainAdditional
        <4>2. Left([pc |-> "additionals", iface |-> task[h].iface, iv |-> task[h].iv,
                    answers |-> task[h].answers,
                    todo |-> task[h].todo \ {r}, adds |-> task[h].adds \cup Passed(h, r)])
          BY Zenon DEF Passed
        <4> HIDE DEF Left
        <4> QED BY <4>1, <4>2, Zenon
      <3>3. CASE AnswersDone(h)
        <4>1. Left(ToAdditionals(h))
          BY DEF ToAdditionals
        <4> HIDE DEF Left
        <4> QED BY <3>3, <4>1, Zenon DEF AnswersDone
      <3> QED BY <1>3, <3>1, <3>2, <3>3
    <2>3. Becomes(h, t)
      BY <2>2, <1>0, UpdateTask, Zenon
    <2>4. ByeOK(t, bye, now)
      <3>1. CASE t = Idle
        <4>1. t.pc \notin {"lookup", "sleep", "answers", "additionals"}
          BY <3>1 DEF Idle
        <4> QED BY <4>1 DEF ByeOK
      <3>2. CASE Left(t)
        <4>1. WithdrawnWithin(t.answers \cup t.adds \cup t.todo, bye, now, d)
          BY <2>1, <3>2 DEF WithdrawnWithin
        <4>2. t.pc \in {"answers", "additionals"}
          BY <3>2
        <4> HIDE DEF Left
        <4> QED BY <4>1, <4>2 DEF ByeOK
      <3> QED BY <2>2, <3>1, <3>2
    <2> QED BY <1>3, <2>3, <2>4, CallKeepsBye DEF RetainAnswer, RetainAdditional, AnswersDone
  <1>4. CASE Send(h)
    <2>1. Becomes(h, Idle)
      BY <1>0, <1>4, UpdateTask, Zenon DEF Send
    <2>2. ByeOK(Idle, bye, now)
      BY DEF ByeOK, Idle
    <2> QED BY <1>4, <2>1, <2>2, CallKeepsBye DEF Send
  <1> QED BY <1>1, <1>2, <1>3, <1>4 DEF TaskStep

LEMMA ByeArrive ==
    ASSUME PeersApart, Inv({}), ByeInv, NEW h \in Tasks, NEW msg, Arrive(h, msg)
    PROVE  ByeInv'
  <1> DEFINE ans == ApplyKnownAnswers(CandidateAnswers(msg, msg.iface), msg)
             t == [pc |-> "lookup", iface |-> msg.iface, answers |-> ans, msg |-> msg]
  <1>1. Becomes(h, t)
    BY UpdateTask, Zenon DEF Arrive, Inv
  <1>2. WithdrawnWithin(ans, bye, now, 0)
    BY AnswersNotWithdrawn
  <1> HIDE DEF ans
  <1>3. ByeOK(t, bye, now)
    BY <1>2 DEF ByeOK
  <1> HIDE DEF t
  <1> QED BY <1>1, <1>3, CallKeepsBye DEF Arrive

\* A record whose goodbye is heard is no longer cached; one that is cached has
\* been heard since.
LEMMA ByeHear ==
    ASSUME Inv({}), ByeInv, NEW p, p.rec.key \in PeerKeys, Hear(p) PROVE ByeInv'
  <1> DEFINE key == p.rec.key
  <1>0. /\ key \in PeerKeys /\ now \in Nat /\ UNCHANGED <<now, task>>
        /\ bye \in [PeerKeys -> Instants]
    BY DEF Hear, Inv, TypeInv, PeerKeys
  <1>1. /\ bye'[key] = IF p.rec.ttl = 0 THEN now ELSE Never
        /\ \A k \in PeerKeys : k # key => bye'[k] = bye[k]
    BY <1>0 DEF Hear
  <1>2. \A k \in PeerKeys : bye'[k] <= now'
    BY <1>0, <1>1 DEF ByeInv, Never
  <1>3. DOMAIN by_key' \subseteq DOMAIN by_key \cup {key}
    BY InsertDomain DEF Hear
  <1>4. p.rec.ttl = 0 => key \notin DOMAIN by_key'
    <2> SUFFICES ASSUME p.rec.ttl = 0 PROVE key \notin DOMAIN by_key'
      OBVIOUS
    <2>1. CapTtl(p.rec.ttl) = 0
      BY CacheAssumption DEF CapTtl
    <2>2. Goodbye(by_key, by_key', p.rec)
      <3>1. InsertFrom(by_key, by_key', p.rec, p.iface, now)
        BY DEF Hear
      <3>2. /\ ~Refresh(by_key, by_key', p.rec, p.iface, now)
            /\ ~InsertInRoom(by_key, by_key', p.rec, p.iface, now)
            /\ ~InsertFull(by_key, by_key', p.rec, p.iface, now)
        <4>1. ~(CapTtl(p.rec.ttl) > 0)
          BY <2>1
        <4> QED BY <4>1, Zenon DEF Refresh, InsertInRoom, InsertFull
      <3> QED BY <3>1, <3>2, Zenon DEF InsertFrom
    <2> QED BY <2>2 DEF Goodbye, Restrict
  <1>5. \A k \in DOMAIN by_key' : bye'[k] = Never
    BY <1>0, <1>1, <1>3, <1>4, Zenon DEF ByeInv, Inv, TypeInv
  <1>6. ASSUME NEW h \in Tasks PROVE ByeOK(task[h], bye', now)
    <2>0. ByeOK(task[h], bye, now)
      BY DEF ByeInv
    <2>1. ASSUME NEW recs, NEW n \in Nat, NEW d \in Nat, n <= now + d,
                 WithdrawnWithin(recs, bye, n, d)
          PROVE  WithdrawnWithin(recs, bye', n, d)
      BY <2>1, <1>0, <1>1 DEF WithdrawnWithin
    <2>2. CASE task[h].pc = "lookup"
      <3>1. WithdrawnWithin(task[h].answers, bye, now, 0)
        BY <2>0, <2>2 DEF ByeOK
      <3>2. WithdrawnWithin(task[h].answers, bye', now, 0)
        BY <3>1, <2>1, <1>0
      <3> QED BY <2>2, <3>2 DEF ByeOK
    <2>3. CASE task[h].pc = "sleep"
      <3>1. PICK d \in Delays :
              /\ task[h].wake \in now .. now + d
              /\ WithdrawnWithin(task[h].answers \cup task[h].adds, bye, task[h].wake, d)
        BY <2>0, <2>3, Zenon DEF ByeOK
      <3>2. d \in Nat
        BY DelaysType, Zenon
      <3>4. task[h].wake \in Nat /\ task[h].wake <= now + d
        BY <3>1, <3>2, <1>0, WakeWindow, Zenon
      <3>3. WithdrawnWithin(task[h].answers \cup task[h].adds, bye', task[h].wake, d)
        BY <3>1, <3>2, <3>4, <2>1
      <3> QED BY <2>3, <3>1, <3>3 DEF ByeOK
    <2>4. CASE task[h].pc \in {"answers", "additionals"}
      <3>1. PICK d \in Delays :
              WithdrawnWithin(task[h].answers \cup task[h].adds \cup task[h].todo, bye, now, d)
        BY <2>0, <2>4, Zenon DEF ByeOK
      <3>2. WithdrawnWithin(task[h].answers \cup task[h].adds \cup task[h].todo, bye', now, d)
        <4>1. d \in Nat /\ now \in Nat /\ now <= now + d
          BY <1>0, DelaysType
        <4> QED BY <3>1, <4>1, <2>1
      <3> QED BY <2>4, <3>2 DEF ByeOK
    <2>5. CASE task[h].pc \notin {"lookup", "sleep", "answers", "additionals"}
      BY <2>5 DEF ByeOK
    <2> QED BY <2>2, <2>3, <2>4, <2>5
  <1> QED BY <1>0, <1>2, <1>5, <1>6 DEF ByeInv, PeerKeys

LEMMA ByeTick ==
    ASSUME Inv({}), ByeInv, RespTick PROVE ByeInv'
  <1>0. now \in Nat /\ now' = now + 1 /\ UNCHANGED <<by_key, task, bye>>
        /\ bye \in [PeerKeys -> Instants]
    BY DEF RespTick, Inv, TypeInv
  <1>1. ASSUME NEW h \in Tasks PROVE ByeOK(task[h], bye, now + 1)
    <2>1. ByeOK(task[h], bye, now)
      BY DEF ByeInv
    <2>2. CASE task[h] = Idle
      <3>1. task[h].pc \notin {"lookup", "sleep", "answers", "additionals"}
        BY <2>2 DEF Idle
      <3> QED BY <3>1 DEF ByeOK
    <2>3. CASE task[h].pc = "sleep" /\ now < task[h].wake
      <3>1. PICK d \in Delays :
              /\ task[h].wake \in now .. now + d
              /\ WithdrawnWithin(task[h].answers \cup task[h].adds, bye, task[h].wake, d)
        BY <2>1, <2>3, Zenon DEF ByeOK
      <3>2. d \in Nat
        BY DelaysType, Zenon
      <3>3. task[h].wake \in now + 1 .. now + 1 + d
        BY <2>3, <3>1, <3>2, <1>0, WakeWindow, Zenon
      <3> QED BY <2>3, <3>1, <3>3 DEF ByeOK
    <2> QED BY <2>2, <2>3 DEF RespTick, Asleep
  <1>2. \A k \in PeerKeys : bye[k] <= now + 1
    BY <1>0 DEF ByeInv, Instants, Never
  <1> QED BY <1>0, <1>1, <1>2 DEF ByeInv, PeerKeys

LEMMA AnyGoodbyeHonoured ==
    ASSUME PeersApart PROVE AnySpec => []GoodbyeHonouredAfterDelay
  <1> DEFINE IInv == Inv({}) /\ ByeInv
  <1>1. RespInit => IInv
    <2> SUFFICES ASSUME RespInit PROVE IInv
      OBVIOUS
    <2>1. ByeOK(Idle, bye, now)
      BY DEF ByeOK, Idle
    <2>2. ByeInv
      BY <2>1 DEF RespInit, ByeInv, Never
    <2> QED BY <2>2, InitInv
  <1>2. IInv /\ [AnyNext]_respVars => IInv'
    <2> SUFFICES ASSUME IInv, [AnyNext]_respVars PROVE ByeInv'
      BY NextInv
    <2>1. CASE RespTick
      BY <2>1, ByeTick
    <2>2. CASE Sweep
      <3>1. DOMAIN by_key' \subseteq DOMAIN by_key
        BY <2>2 DEF Sweep, EvictExpired, RestrictValues, Restrict
      <3> QED BY <2>2, <3>1 DEF Sweep, ByeInv, PeerKeys
    <2>3. CASE \E p : p.rec.key \in PeerKeys /\ Hear(p)
      BY <2>3, ByeHear
    <2>4. CASE \E h \in Tasks : TaskStep(h)
      BY <2>4, ByeTaskStep
    <2>5. CASE \E h \in Tasks : \E msg : msg.iface \in Ifaces /\ Arrive(h, msg)
      BY <2>5, ByeArrive
    <2>6. CASE UNCHANGED respVars
      BY <2>6 DEF respVars, ByeInv, PeerKeys
    <2> QED BY <2>1, <2>2, <2>3, <2>4, <2>5, <2>6 DEF AnyNext
  <1>3. IInv => GoodbyeHonouredAfterDelay
    <2> SUFFICES ASSUME IInv, NEW h \in Tasks, ReadyToSend(h), NEW r \in Sent(h),
                        r.key \in PeerKeys, bye[r.key] # Never
                 PROVE  \E d \in SharedDelay \cup TruncatedDelay : now - bye[r.key] <= d
      BY DEF GoodbyeHonouredAfterDelay
    <2>1. PICK d \in Delays : now <= bye[r.key] + d
      BY DEF ByeInv, ByeOK, ReadyToSend, Sent, WithdrawnWithin
    <2>2. now \in Nat /\ bye[r.key] \in Nat
      BY DEF Inv, TypeInv, Instants
    <2>3. PICK e \in SharedDelay : e \in Nat
      BY ResponderAssumption, Zenon
    <2>4. CASE d = 0
      BY <2>1, <2>2, <2>3, <2>4
    <2>5. CASE d \in SharedDelay \cup TruncatedDelay
      BY <2>1, <2>2, <2>5, DelaysType
    <2> QED BY <2>4, <2>5 DEF Delays
  <1> QED BY <1>1, <1>2, <1>3, PTL DEF AnySpec

\* Answers are collected before the delay, so handle_query may relay a record
\* after its owner has said goodbye: but no later than the longest delay after
\* it, unless the owner has taken the goodbye back.
THEOREM GoodbyeHonouredAlways ==
    ASSUME PeersApart PROVE RespSpec => []GoodbyeHonouredAfterDelay
  BY AnyGoodbyeHonoured, RespIsAny, PTL
=============================================================================
