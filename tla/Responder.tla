----------------------------- MODULE Responder -----------------------------
(***************************************************************************)
(* handle_query of src/src/responder.rs, run by any number of tasks at a    *)
(* time over the shared cache and the shared rate limiter, while records    *)
(* come and go on the links.                                                *)
(*                                                                          *)
(* A task's steps are separated where another task can get in between:      *)
(* before the additionals are looked up, while it sleeps, and between any   *)
(* two check_and_mark calls.  Only sleeping takes time: a task that can run *)
(* does so before the clock ticks.  (MulticastTracker and RecordCache study *)
(* threads that stall around a lock.)                                       *)
(***************************************************************************)
EXTENDS Services, CacheOps, Timing

CONSTANTS
    PeerRecords,      \* [iface, rec]: what other hosts multicast, goodbyes included
    Queries,          \* [iface, questions, known, authority, tc]: the queries that arrive
    AnswerFromCache,  \* config answer_from_cache
    SharedDelay,      \* response_delay, in ticks: 20 to 120 ms
    TruncatedDelay,   \* 400 to 500 ms
    SendResults,      \* what sending on an interface may return: TRUE for Ok
    Tasks,            \* tasks that run handle_query
    MaxTime           \* bound of the clock

ASSUME ResponderAssumption ==
    /\ SharedDelay \subseteq Nat /\ SharedDelay # {}
    /\ TruncatedDelay \subseteq Nat /\ TruncatedDelay # {}
    /\ SendResults \in [Ifaces -> SUBSET BOOLEAN]
    /\ AnswerFromCache \in BOOLEAN
    /\ \A msg \in Queries : msg.iface \in Ifaces
    /\ MaxTime \in Nat

VARIABLES
    now,     \* Instant::now()
    by_key,  \* State.cache
    last,    \* State.mc_tracker
    task,    \* the handle_query calls in progress
    onwire,  \* history: when a record was multicast on an interface, for as long as
             \* the rate limit looks back
    bye      \* history: when a record's goodbye was heard, if not heard since

respVars == <<now, by_key, last, task, onwire, bye>>

PeerKeys == {p.rec.key : p \in PeerRecords}
AllKeys == PeerKeys \cup {r.key : r \in Published}
Slots == Ifaces \X AllKeys
Idle == [pc |-> "idle"]

\* Host addresses that belong to another interface are stripped.
OnArrival(recs, i) ==
    {r \in recs : r.key.type \in {"A", "AAAA"} => r \in HostRecordsForIface(i)}

Cached(name, type, i) ==
    {r \in LookupFromOtherIfaces(by_key, name, type, i, now) : AnswerFromCache}

\* push_unique: a key that is already listed is not listed again.
PushUnique(out, recs) == out \cup {r \in recs : \A o \in out : o.key # r.key}

CandidateAnswers(msg, i) ==
    PushUnique(UNION {OnArrival(Answer(q.name, q.type), i) : q \in msg.questions},
               UNION {Cached(q.name, q.type, i) : q \in msg.questions})

ApplyKnownAnswers(answers, msg) ==
    {r \in answers : ~\E k \in msg.known : k.key = r.key /\ k.ttl * 2 >= r.ttl}

\* PTR answers bring their target's SRV and TXT; every SRV its target's addresses.
CachedAdditionals(answers, i) ==
    LET targets == {r.key.data : r \in {a \in answers : a.key.type = "PTR"}}
        service == UNION {Cached(t, "SRV", i) \cup Cached(t, "TXT", i) : t \in targets}
        hosts == {r.key.data : r \in {a \in answers \cup service : a.key.type = "SRV"}}
        addrs == UNION {Cached(h, "A", i) \cup Cached(h, "AAAA", i) : h \in hosts}
    IN  PushUnique(answers, service \cup addrs) \ answers

IsProbeForUs(msg, i) ==
    \E a \in msg.authority, u \in UniqueForIface(i) :
        u.key.name = a.name /\ u.key.type = a.type

\* classify_delay, a DelayClass.
ClassifyDelay(msg, answers, probe) ==
    IF probe THEN "ProbeDefense"
    ELSE IF msg.tc THEN "Truncated"
    ELSE IF Cardinality(msg.questions) = 1 /\ \A r \in answers : r.flush THEN "UniqueAnswer"
    ELSE "Shared"

\* Mutant: a truncated query waits for the shared delay as well.
BadResponseDelay(class) ==
    CASE class \in {"ProbeDefense", "UniqueAnswer"} -> {0}
      [] class = "Shared" -> SharedDelay
      [] class = "Truncated" -> {d + e : d \in SharedDelay, e \in TruncatedDelay}

ResponseDelay(class) ==
    CASE class \in {"ProbeDefense", "UniqueAnswer"} -> {0}
      [] class = "Shared" -> SharedDelay
      [] class = "Truncated" -> TruncatedDelay

MinInterval(probe) == IF probe THEN PROBE_DEFENSE_INTERVAL ELSE MIN_MULTICAST_INTERVAL

-----------------------------------------------------------------------------
\* One type invariant: the shape of a task at every stage of handle_query.
RespTypeOK ==
    /\ now \in Nat
    /\ DOMAIN by_key \subseteq PeerKeys
    /\ last \in [Slots -> Instants]
    /\ onwire \in [Slots -> Instants]
    /\ bye \in [PeerKeys -> Instants]
    /\ \A h \in Tasks : task[h] # Idle =>
          /\ task[h].pc \in {"lookup", "sleep", "answers", "additionals"}
          /\ task[h].iface \in Ifaces
          /\ {r.key : r \in task[h].answers} \subseteq AllKeys
          /\ task[h].pc \in {"lookup", "sleep"} => task[h].answers # {}

\* Mutant: a query goes on without an answer.
BadArrive(h, msg) ==
    /\ task[h] = Idle
    /\ \A d \in SharedDelay \cup TruncatedDelay : now + d <= MaxTime
    /\ task' = [task EXCEPT ![h] =
                   [pc |-> "lookup", iface |-> msg.iface, msg |-> msg,
                    answers |-> ApplyKnownAnswers(CandidateAnswers(msg, msg.iface), msg)]]
    /\ UNCHANGED <<now, by_key, last, onwire, bye>>

\* handle_query up to the lookup of the additionals.  A query that yields no
\* answer changes nothing.
Arrive(h, msg) ==
    LET answers == ApplyKnownAnswers(CandidateAnswers(msg, msg.iface), msg) IN
    /\ task[h] = Idle
    /\ \A d \in SharedDelay \cup TruncatedDelay : now + d <= MaxTime
    /\ answers # {}
    /\ task' = [task EXCEPT ![h] =
                   [pc |-> "lookup", iface |-> msg.iface, answers |-> answers, msg |-> msg]]
    /\ UNCHANGED <<now, by_key, last, onwire, bye>>

\* The additionals are collected, the delay is drawn, and the task sleeps.
FindAdditionals(h) ==
    /\ task[h].pc = "lookup"
    /\ LET t == task[h]
           probe == IsProbeForUs(t.msg, t.iface)
       IN  \E d \in ResponseDelay(ClassifyDelay(t.msg, t.answers, probe)) :
              task' = [task EXCEPT ![h] =
                 [pc |-> "sleep", iface |-> t.iface, answers |-> t.answers,
                  adds |-> CachedAdditionals(t.answers, t.iface), wake |-> now + d,
                  iv |-> MinInterval(probe)]]
    /\ UNCHANGED <<now, by_key, last, onwire, bye>>

\* From here on `answers' and `adds' hold what the rate limiter let through and
\* `todo' what it has not seen yet.
Wake(h) ==
    /\ task[h].pc = "sleep"
    /\ now >= task[h].wake
    /\ task' = [task EXCEPT ![h] =
                   [pc |-> "answers", iface |-> task[h].iface, iv |-> task[h].iv,
                    answers |-> {}, todo |-> task[h].answers, adds |-> task[h].adds]]
    /\ UNCHANGED <<now, by_key, last, onwire, bye>>

\* What the rate limiter leaves of one record.
Passed(h, r) == {x \in {r} : ~RateLimited(last[<<task[h].iface, r.key>>], now, task[h].iv)}

\* Mutant: the record is checked and left to be marked after the send.
BadCheckAndMark(h, r) == UNCHANGED last

\* check_and_mark on one record of `todo'.
CheckAndMark(h, r) ==
    last' = IF Passed(h, r) = {} THEN last ELSE [last EXCEPT ![<<task[h].iface, r.key>>] = now]

RetainAnswer(h) ==
    /\ task[h].pc = "answers"
    /\ \E r \in task[h].todo :
          /\ CheckAndMark(h, r)
          /\ task' = [task EXCEPT ![h] =
                         [pc |-> "answers", iface |-> task[h].iface, iv |-> task[h].iv,
                          answers |-> task[h].answers \cup Passed(h, r),
                          todo |-> task[h].todo \ {r}, adds |-> task[h].adds]]
    /\ UNCHANGED <<now, by_key, onwire, bye>>

ToAdditionals(h) ==
    [pc |-> "additionals", iface |-> task[h].iface, iv |-> task[h].iv,
     answers |-> task[h].answers, todo |-> task[h].adds, adds |-> {}]

\* Mutant: the additionals are marked although there is nothing to send.
BadAnswersDone(h) ==
    /\ task[h].pc = "answers"
    /\ task[h].todo = {}
    /\ task' = [task EXCEPT ![h] = IF task[h].answers = {} THEN Idle ELSE ToAdditionals(h)]
    /\ last' = [s \in Slots |->
                   IF s \in {<<task[h].iface, r.key>> : r \in task[h].adds} THEN now ELSE last[s]]
    /\ UNCHANGED <<now, by_key, onwire, bye>>

\* With every answer limited away there is no response, and no additional is
\* marked.
AnswersDone(h) ==
    /\ task[h].pc = "answers"
    /\ task[h].todo = {}
    /\ task' = [task EXCEPT ![h] = IF task[h].answers = {} THEN Idle ELSE ToAdditionals(h)]
    /\ UNCHANGED <<now, by_key, last, onwire, bye>>

RetainAdditional(h) ==
    /\ task[h].pc = "additionals"
    /\ \E r \in task[h].todo :
          /\ CheckAndMark(h, r)
          /\ task' = [task EXCEPT ![h] =
                         [pc |-> "additionals", iface |-> task[h].iface, iv |-> task[h].iv,
                          answers |-> task[h].answers,
                          todo |-> task[h].todo \ {r}, adds |-> task[h].adds \cup Passed(h, r)]]
    /\ UNCHANGED <<now, by_key, onwire, bye>>

\* All records are through the rate limiter: the response goes out, or fails to.
ReadyToSend(h) == task[h].pc = "additionals" /\ task[h].todo = {}
Sent(h) == task[h].answers \cup task[h].adds

Send(h) ==
    /\ ReadyToSend(h)
    /\ \E ok \in SendResults[task[h].iface] :
          onwire' = [s \in Slots |->
                       IF ok /\ s \in {<<task[h].iface, r.key>> : r \in Sent(h)}
                       THEN now ELSE onwire[s]]
    /\ task' = [task EXCEPT ![h] = Idle]
    /\ UNCHANGED <<now, by_key, last, bye>>

\* handle_response_msg, for one record heard from another host.
Hear(p) ==
    /\ InsertFrom(by_key, by_key', p.rec, p.iface, now)
    /\ bye' = [bye EXCEPT ![p.rec.key] = IF p.rec.ttl = 0 THEN now ELSE Never]
    /\ UNCHANGED <<now, last, task, onwire>>

\* One round of engine::cache_evictor.
Sweep ==
    /\ by_key' = EvictExpired(by_key, now)
    /\ last' = PruneOlderThan(last, now, MIN_MULTICAST_INTERVAL)
    /\ UNCHANGED <<now, task, onwire, bye>>

Asleep(h) == task[h] = Idle \/ (task[h].pc = "sleep" /\ now < task[h].wake)

RespTick ==
    /\ \A h \in Tasks : Asleep(h)
    /\ now' = now + 1
    /\ onwire' = [s \in Slots |->
                    IF onwire[s] # Never /\ now' - onwire[s] >= MIN_MULTICAST_INTERVAL
                    THEN Never ELSE onwire[s]]
    /\ UNCHANGED <<by_key, last, task, bye>>

\* A daemon that has been up for a while: nothing cached, nothing limited.
RespInit ==
    /\ now = 0
    /\ by_key = [k \in {} |-> {}]
    /\ last = [s \in Slots |-> Never]
    /\ task = [h \in Tasks |-> Idle]
    /\ onwire = [s \in Slots |-> Never]
    /\ bye = [k \in PeerKeys |-> Never]

TaskStep(h) ==
    \/ FindAdditionals(h)
    \/ Wake(h)
    \/ RetainAnswer(h)
    \/ AnswersDone(h)
    \/ RetainAdditional(h)
    \/ Send(h)

RespNext ==
    \/ now < MaxTime /\ RespTick
    \/ Sweep
    \/ \E p \in PeerRecords : Hear(p)
    \/ \E h \in Tasks : \/ TaskStep(h)
                         \/ \E msg \in Queries : Arrive(h, msg)

\* The runtime polls a task that can run, and time passes: only finitely many
\* queries arrive within a tick.
RespSpec ==
    /\ RespInit /\ [][RespNext]_respVars
    /\ SF_respVars(now < MaxTime /\ RespTick)
    /\ \A h \in Tasks : WF_respVars(TaskStep(h))

-----------------------------------------------------------------------------
Granted(h) ==
    IF task[h].pc = "answers" THEN task[h].answers
    ELSE IF task[h].pc = "additionals" THEN Sent(h) ELSE {}

\* "two concurrent handlers can't both see the slot as free and both transmit"
\* (handle_query): no record is on its way out twice on one interface, as an
\* answer of one response and an additional of another included.
NoDoubleTransmit ==
    \A h, g \in Tasks : (h # g /\ Granted(h) # {} /\ Granted(g) # {}
                            /\ task[h].iface = task[g].iface) =>
        {r.key : r \in Granted(h)} \cap {r.key : r \in Granted(g)} = {}

\* A response repeats nothing that a response multicast on the same interface
\* within the last second, or 250 ms when it defends against a probe.
ResponseSpacing ==
    \A h \in Tasks : ReadyToSend(h) => \A r \in Sent(h) :
        LET t == onwire[<<task[h].iface, r.key>>]
        IN  t = Never \/ now - t >= task[h].iv

\* Only the owner may tell others to flush: a record that leaves with the
\* cache-flush bit is one of our unique records for that very interface.
FlushOnlyOurs ==
    \A h \in Tasks : ReadyToSend(h) =>
        \A r \in Sent(h) : r.flush => r \in UniqueForIface(task[h].iface)

\* No peer publishes a record of ours.
PeersApart == PeerKeys \cap {r.key : r \in Published} = {}

\* The answers are collected before the delay, so a record may be relayed after
\* its owner's goodbye: but no later than the longest delay after it.
GoodbyeHonouredAfterDelay ==
    \A h \in Tasks : ReadyToSend(h) => \A r \in Sent(h) :
        (r.key \in PeerKeys /\ bye[r.key] # Never) =>
            \E d \in SharedDelay \cup TruncatedDelay : now - bye[r.key] <= d

\* No send fails.
SendsSucceed == \A i \in Ifaces : SendResults[i] \subseteq {TRUE}

\* The rate limiter holds back only what went on-wire or is about to (comment
\* in handle_query on the additionals of an empty response): a stamp that still
\* limits stands for a transmission.
StampsWereSent ==
    \A s \in Slots :
        \/ last[s] = Never \/ now - last[s] >= MIN_MULTICAST_INTERVAL
        \/ onwire[s] >= last[s]
        \/ \E h \in Tasks : s \in {<<task[h].iface, r.key>> : r \in Granted(h)}
=============================================================================
