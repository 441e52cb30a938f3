--------------------------- MODULE DispatchProofs ---------------------------
(***************************************************************************)
(* What the receive loop and its tasks do with the datagrams, for any       *)
(* interfaces, lists, datagrams and number of permits.                      *)
(***************************************************************************)
EXTENDS Dispatch, ResponderProofs, AddressesProofs, FiniteSetTheorems

PeerRecs == {p.rec : p \in PeerRecords}
KindOf(d) == Datagrams[d].kind

\* The job j is at time n no older than the delays allow, and will not get older:
\* its call t has yet to draw its delay, or wakes up in time.
Timely(j, t, n) ==
    /\ j.at \in Nat /\ j.at <= n
    /\ j.at # n => /\ KindOf(j.dg) = "query"
                   /\ \E m \in SharedDelay \cup TruncatedDelay : n <= j.at + m
    /\ (j.pc = "admit" \/ t.pc = "lookup") => j.at = n
    /\ t.pc = "sleep" => \E m \in Delays : t.wake \in Nat /\ t.wake <= j.at + m

\* A permit that is free, or a task's; only handle_query has a call t.
JobOK(j, t, n) ==
    \/ j = NoJob /\ t = Idle
    \/ /\ j.pc \in {"admit", "query", "insert", "forward", "done"}
       /\ j.dg \in Ids
       /\ j.pc = "query" <=> t # Idle
       /\ j.pc = "query" => KindOf(j.dg) = "query"
       /\ j.pc \in {"query", "insert", "forward"} => j.dg \in Admitted
       /\ j.pc = "insert" => j.todo \in Seq(PeerRecs)
       /\ Timely(j, t, n)

DInv ==
    /\ Inv({})
    /\ DOMAIN job = Tasks
    /\ \A h \in Tasks : JobOK(job[h], task[h], now)
    /\ heardOn \in [PeerKeys -> SUBSET Ifaces]
    /\ now <= MaxTime

-----------------------------------------------------------------------------
\* Iterator::position yields one of the indices it is asked about.
LEMMA RecvIdxIn ==
    ASSUME NEW d \in Ids
    PROVE  RecvIdx[d] \subseteq DOMAIN StateIfaces
  <1>1. RecvIdx[d] = identify_recv_iface(Datagrams[d], StateIfaces)
    BY DEF RecvIdx
  <1> QED BY <1>1 DEF identify_recv_iface, Position

\* source_ifindex is an interface's, or None.
LEMMA SourceIs ==
    ASSUME NEW d \in Ids
    PROVE  \/ RecvIdx[d] = {} /\ SourceIfindex[d] = NoIface
           \/ \E n \in RecvIdx[d] : SourceIfindex[d] = StateIfaces[n].ifindex
  <1>1. SourceIfindex[d] = IF RecvIdx[d] = {} THEN NoIface
                           ELSE StateIfaces[CHOOSE n \in RecvIdx[d] : TRUE].ifindex
    BY DEF SourceIfindex
  <1>2. RecvIdx[d] # {} => (CHOOSE n \in RecvIdx[d] : TRUE) \in RecvIdx[d]
    OBVIOUS
  <1> QED BY <1>1, <1>2, Zenon

LEMMA SourceInIfaces ==
    ASSUME NEW d \in Ids, RecvIdx[d] # {}
    PROVE  SourceIfindex[d] \in Ifaces
  <1>1. PICK n \in RecvIdx[d] : SourceIfindex[d] = StateIfaces[n].ifindex
    BY SourceIs
  <1>2. n \in DOMAIN StateIfaces
    BY RecvIdxIn
  <1> QED BY <1>1, <1>2, DispatchAssumption

\* A response's records are peers' records, in whatever section they come.
LEMMA RecordsOfType ==
    ASSUME NEW d \in Ids
    PROVE  RecordsOf(Datagrams[d]) \in Seq(PeerRecs)
  <1>1. \A part \in {"answers", "authorities", "additionals"} : Datagrams[d][part] \in Seq(PeerRecs)
    BY DispatchAssumption DEF Ids, PeerRecs
  <1>2. /\ Datagrams[d].answers \in Seq(PeerRecs)
        /\ Datagrams[d].authorities \in Seq(PeerRecs)
        /\ Datagrams[d].additionals \in Seq(PeerRecs)
    BY <1>1
  <1>3. Datagrams[d].answers \o Datagrams[d].authorities \in Seq(PeerRecs)
    BY <1>2
  <1> QED BY <1>2, <1>3 DEF RecordsOf

-----------------------------------------------------------------------------
\* A step of one job.
JobMoves(h, j) ==
    DOMAIN job' = Tasks /\ job'[h] = j /\ \A g \in Tasks \ {h} : job'[g] = job[g]

LEMMA MoveJob ==
    ASSUME DInv, NEW h \in Tasks, NEW j, SetJob(h, j)
    PROVE  JobMoves(h, j)
  BY DEF DInv, SetJob, JobMoves

LEMMA JobStepInv ==
    ASSUME DInv, NEW h \in Tasks, NEW j, JobMoves(h, j), Inv({})', now' = now,
           heardOn' = heardOn, \A g \in Tasks \ {h} : task'[g] = task[g],
           JobOK(j, task'[h], now)
    PROVE  DInv'
  <1>1. \A g \in Tasks : JobOK(job'[g], task'[g], now')
    BY DEF DInv, JobMoves
  <1>2. heardOn' \in [PeerKeys -> SUBSET Ifaces] /\ now' <= MaxTime
    BY DEF DInv
  <1> QED BY <1>1, <1>2 DEF DInv, JobMoves, PeerKeys

LEMMA QuietJobInv ==
    ASSUME DInv, NEW h \in Tasks, NEW j, SetJob(h, j), UNCHANGED <<respVars, heardOn>>,
           JobOK(j, task[h], now)
    PROVE  DInv'
  <1>1. Inv({})'
    BY StutterInv DEF DInv
  <1>2. now' = now /\ task' = task /\ heardOn' = heardOn
    BY DEF respVars
  <1> QED BY <1>1, <1>2, MoveJob, JobStepInv

\* What a job that is at work knows.
LEMMA AtWork ==
    ASSUME DInv, NEW h \in Tasks, job[h].pc \in {"admit", "query", "insert", "forward", "done"}
    PROVE  /\ job[h].dg \in Ids /\ Timely(job[h], task[h], now)
           /\ job[h].pc # "query" => task[h] = Idle
           /\ JobOK(job[h], task[h], now)
           /\ job[h].pc \in {"query", "insert", "forward"} => job[h].dg \in Admitted
           /\ job[h].pc = "insert" => job[h].todo \in Seq(PeerRecs)
  <1>1. job[h] # NoJob
    BY DEF NoJob
  <1> QED BY <1>1 DEF DInv, JobOK

\* A job without a call goes on with what it has.
LEMMA NextStage ==
    ASSUME DInv, NEW h \in Tasks, job[h].pc \in {"admit", "insert", "forward"},
           NEW j, j.dg = job[h].dg, j.at = job[h].at,
           j.pc \in {"insert", "forward", "done"},
           j.pc \in {"insert", "forward"} => j.dg \in Admitted,
           j.pc = "insert" => j.todo \in Seq(PeerRecs)
    PROVE  JobOK(j, task[h], now)
  <1>1. job[h].dg \in Ids /\ Timely(job[h], task[h], now) /\ task[h] = Idle
    BY AtWork
  <1>2. Timely(j, task[h], now)
    BY <1>1 DEF Timely, Idle
  <1> QED BY <1>1, <1>2 DEF JobOK

LEMMA ReceiveInv ==
    ASSUME DInv, NEW h \in Tasks, NEW d \in Ids, Receive(h, d)
    PROVE  DInv'
  <1> DEFINE j == [pc |-> "admit", dg |-> d, at |-> now]
  <1>1. task[h] = Idle /\ now \in Nat
    BY DEF Receive, DInv, JobOK, NoJob, Inv, TypeInv
  <1>2. Timely(j, task[h], now)
    BY <1>1 DEF Timely, Idle
  <1>3. JobOK(j, task[h], now)
    BY <1>1, <1>2 DEF JobOK
  <1>4. SetJob(h, j) /\ UNCHANGED <<respVars, heardOn>>
    BY DEF Receive, SetJob
  <1> HIDE DEF j
  <1> QED BY <1>3, <1>4, QuietJobInv

LEMMA StageInv ==
    ASSUME DInv, NEW h \in Tasks,
           \/ Refuse(h) \/ StartResponse(h) \/ NotParsed(h) \/ NothingToAnswer(h)
           \/ ResponseDone(h) \/ Forward(h)
    PROVE  DInv'
  <1>1. ASSUME NEW S, NEW pc \in {"admit", "forward"}, job[h].pc = pc, Done(h, S),
               UNCHANGED <<respVars, heardOn>>
        PROVE  DInv'
    <2> DEFINE j == [pc |-> "done", dg |-> job[h].dg, at |-> job[h].at, on |-> S]
    <2>1. j.dg = job[h].dg /\ j.at = job[h].at /\ j.pc = "done" /\ SetJob(h, j)
      BY <1>1 DEF Done
    <2> HIDE DEF j
    <2>2. JobOK(j, task[h], now)
      BY <1>1, <2>1, NextStage
    <2> QED BY <1>1, <2>1, <2>2, QuietJobInv
  <1>2. ASSUME job[h].pc \in {"admit", "insert"}, job[h].dg \in Admitted,
               SetJob(h, Stage(job[h], "forward")), UNCHANGED <<respVars, heardOn>>
        PROVE  DInv'
    <2> DEFINE j == Stage(job[h], "forward")
    <2>1. j.dg = job[h].dg /\ j.at = job[h].at /\ j.pc = "forward" /\ SetJob(h, j)
      BY <1>2 DEF Stage
    <2> HIDE DEF j
    <2>2. JobOK(j, task[h], now)
      BY <1>2, <2>1, NextStage
    <2> QED BY <1>2, <2>1, <2>2, QuietJobInv
  <1>3. CASE Refuse(h)
    BY <1>1, <1>3 DEF Refuse
  <1>4. CASE StartResponse(h)
    <2> DEFINE j == Inserting(job[h], RecordsOf(Dg(h)), TRUE)
    <2>1. job[h].pc = "admit" /\ job[h].dg \in Admitted /\ UNCHANGED <<respVars, heardOn>>
      BY <1>4 DEF StartResponse
    <2>2. job[h].dg \in Ids
      BY <2>1, AtWork
    <2>3. /\ j.dg = job[h].dg /\ j.at = job[h].at /\ j.pc = "insert" /\ SetJob(h, j)
          /\ j.todo = RecordsOf(Datagrams[job[h].dg])
      BY <1>4 DEF StartResponse, Inserting, Dg
    <2>4. j.todo \in Seq(PeerRecs)
      BY <2>2, <2>3, RecordsOfType, Zenon
    <2> HIDE DEF j
    <2>5. JobOK(j, task[h], now)
      BY <2>1, <2>3, <2>4, NextStage
    <2> QED BY <2>1, <2>3, <2>5, QuietJobInv
  <1>5. CASE NotParsed(h) \/ NothingToAnswer(h)
    BY <1>2, <1>5 DEF NotParsed, NothingToAnswer
  <1>6. CASE ResponseDone(h)
    <2>1. job[h].pc = "insert"
      BY <1>6 DEF ResponseDone, Inserted
    <2>2. job[h].dg \in Admitted
      BY <2>1, AtWork
    <2> QED BY <1>2, <1>6, <2>1, <2>2 DEF ResponseDone
  <1>7. CASE Forward(h)
    BY <1>1, <1>7 DEF Forward
  <1> QED BY <1>3, <1>4, <1>5, <1>6, <1>7

LEMMA ReleaseInv ==
    ASSUME DInv, NEW h \in Tasks, Release(h) PROVE DInv'
  <1>1. job[h].pc = "done" /\ SetJob(h, NoJob) /\ UNCHANGED <<respVars, heardOn>>
    BY DEF Release
  <1>2. task[h] = Idle
    BY <1>1, AtWork
  <1>3. JobOK(NoJob, task[h], now)
    BY <1>2 DEF JobOK
  <1> QED BY <1>1, <1>3, QuietJobInv

\* handle_query starts at the instant the datagram was received.
LEMMA StartQueryInv ==
    ASSUME DInv, NEW h \in Tasks, StartQuery(h) PROVE DInv'
  <1> DEFINE msg == QueryOn(Dg(h).msg, SourceIfindex[job[h].dg])
             ans == ApplyKnownAnswers(CandidateAnswers(msg, msg.iface), msg)
             t == [pc |-> "lookup", iface |-> msg.iface, answers |-> ans, msg |-> msg]
             j == Stage(job[h], "query")
  <1>1. /\ job[h].pc = "admit" /\ KindOf(job[h].dg) = "query" /\ job[h].dg \in Admitted
        /\ RecvIdx[job[h].dg] # {} /\ Arrive(h, msg) /\ SetJob(h, j) /\ heardOn' = heardOn
    BY DEF StartQuery, Dg, KindOf
  <1>2. job[h].dg \in Ids /\ Timely(job[h], task[h], now)
    BY <1>1, AtWork
  <1>3. msg.iface \in Ifaces
    BY <1>1, <1>2, SourceInIfaces DEF QueryOn
  <1>4. Inv({})' /\ now' = now
    <2> HIDE DEF msg
    <2> QED BY <1>1, <1>3, ArriveInv, Zenon DEF DInv, Arrive
  <1>5. Becomes(h, t)
    <2> HIDE DEF msg
    <2> QED BY <1>1, UpdateTask, Zenon DEF DInv, Inv, Arrive
  <1>6. t.pc = "lookup" /\ t # Idle
    BY Zenon DEF Idle
  <1>7. j.pc = "query" /\ j.dg = job[h].dg /\ j.at = job[h].at
    BY DEF Stage
  <1> HIDE DEF msg, t, j
  <1>8. Timely(j, t, now)
    BY <1>1, <1>2, <1>6, <1>7 DEF Timely
  <1>9. JobOK(j, t, now)
    BY <1>1, <1>2, <1>6, <1>7, <1>8 DEF JobOK
  <1> QED BY <1>1, <1>4, <1>5, <1>9, MoveJob, JobStepInv DEF Becomes

\* It sleeps for no longer than the delay it draws, and then goes on to the
\* repeater.
LEMMA QueryStepInv ==
    ASSUME DInv, NEW h \in Tasks, QueryStep(h) PROVE DInv'
  <1>1. job[h].pc = "query" /\ TaskStep(h) /\ heardOn' = heardOn /\ TypeInv /\ now \in Nat
    BY DEF QueryStep, DInv, Inv, TypeInv
  <1>2. PICK t : StepsTo(h, t)
    BY <1>1, StepShape
  <1>3. task[h] # Idle /\ now' = now /\ Inv({})'
    BY <1>1, StepShape, TaskStepInv DEF DInv
  <1>4. /\ job[h].dg \in Ids /\ Timely(job[h], task[h], now)
        /\ KindOf(job[h].dg) = "query" /\ job[h].dg \in Admitted
    BY <1>1, AtWork DEF JobOK, NoJob
  <1>5. t.pc # "lookup" /\ Becomes(h, t)
    BY <1>2 DEF StepsTo
  <1>6. t.pc = "sleep" => \E m \in Delays : t.wake \in Nat /\ t.wake <= job[h].at + m
    <2> SUFFICES ASSUME t.pc = "sleep"
                 PROVE  \E m \in Delays : t.wake \in Nat /\ t.wake <= job[h].at + m
      OBVIOUS
    <2>1. PICK d \in Delays : t.wake = now + d /\ task[h].pc = "lookup"
      BY <1>2 DEF StepsTo
    <2>2. job[h].at = now
      BY <1>4, <2>1 DEF Timely
    <2>3. t.wake \in Nat /\ t.wake <= job[h].at + d
      BY <1>1, <2>1, <2>2, DelaysType
    <2> QED BY <2>3
  <1>7. ASSUME NEW j, j.pc \in {"query", "forward"}, j.dg = job[h].dg, j.at = job[h].at,
               j.pc = "query" <=> t # Idle, SetJob(h, j)
        PROVE  DInv'
    <2>1. Timely(j, t, now)
      BY <1>4, <1>5, <1>6, <1>7 DEF Timely
    <2>2. JobOK(j, t, now)
      BY <1>4, <1>7, <2>1 DEF JobOK
    <2> QED BY <1>1, <1>3, <1>5, <1>7, <2>2, MoveJob, JobStepInv DEF Becomes
  <1>8. CASE t # Idle
    <2>1. SetJob(h, job[h])
      BY <1>5, <1>8 DEF QueryStep, Becomes
    <2> QED BY <1>1, <1>7, <1>8, <2>1
  <1>9. CASE t = Idle
    <2> DEFINE j == [pc |-> "forward", dg |-> job[h].dg, at |-> job[h].at, on |-> {}]
    <2>1. SetJob(h, j)
      BY <1>5, <1>9 DEF QueryStep, Becomes, AfterQuery
    <2>2. j.pc = "forward" /\ j.dg = job[h].dg /\ j.at = job[h].at
      OBVIOUS
    <2> HIDE DEF j
    <2> QED BY <1>7, <1>9, <2>1, <2>2
  <1> QED BY <1>8, <1>9

\* The task that inserts, and those it overtakes.
LEMMA InsertMoves ==
    ASSUME DInv, NEW h \in Tasks, InsertRecord(h)
    PROVE  /\ job'[h] = Inserting(job[h], Tail(job[h].todo), job[h].alone)
           /\ DOMAIN job' = Tasks
           /\ \A g \in Tasks \ {h} :
                 job'[g] = IF job[g].pc = "insert" THEN Inserting(job[g], job[g].todo, FALSE)
                           ELSE job[g]
  BY DEF InsertRecord

\* The record it inserts is a peer's.
LEMMA HeadIsPeers ==
    ASSUME DInv, NEW h \in Tasks, InsertRecord(h)
    PROVE  /\ job[h].todo \in Seq(PeerRecs) /\ job[h].todo # <<>>
           /\ Head(job[h].todo) \in PeerRecs /\ Head(job[h].todo).key \in PeerKeys
           /\ job[h].dg \in Ids /\ job[h].dg \in Admitted
  <1>1. job[h].pc = "insert" /\ job[h].todo # <<>>
    BY DEF InsertRecord
  <1>2. job[h].todo \in Seq(PeerRecs) /\ job[h].dg \in Ids /\ job[h].dg \in Admitted
    BY <1>1, AtWork
  <1>3. Head(job[h].todo) \in PeerRecs
    BY <1>1, <1>2
  <1> QED BY <1>1, <1>2, <1>3 DEF PeerRecs, PeerKeys

LEMMA InsertRecordInv ==
    ASSUME DInv, NEW h \in Tasks, InsertRecord(h) PROVE DInv'
  <1> DEFINE rec == Head(job[h].todo)
             p == [rec |-> rec, iface |-> SourceIfindex[job[h].dg]]
  <1>1. /\ job[h].todo \in Seq(PeerRecs) /\ job[h].todo # <<>> /\ rec.key \in PeerKeys
        /\ job[h].dg \in Ids /\ job[h].dg \in Admitted
    BY HeadIsPeers
  <1>2. p.rec.key \in PeerKeys /\ Hear(p)
    BY <1>1 DEF InsertRecord
  <1>3. Inv({})' /\ now' = now /\ task' = task
    <2> HIDE DEF p
    <2> QED BY <1>2, HearInv, Zenon DEF DInv, Hear
  <1>4. \A g \in Tasks : JobOK(job'[g], task'[g], now')
    <2> SUFFICES ASSUME NEW g \in Tasks PROVE JobOK(job'[g], task[g], now)
      BY <1>3
    <2>1. ASSUME NEW todo \in Seq(PeerRecs), NEW alone, job[g].pc = "insert",
                 job'[g] = Inserting(job[g], todo, alone)
          PROVE  JobOK(job'[g], task[g], now)
      <3> DEFINE j == Inserting(job[g], todo, alone)
      <3>1. j.pc = "insert" /\ j.dg = job[g].dg /\ j.at = job[g].at /\ j.todo = todo
        BY DEF Inserting
      <3>2. job[g].dg \in Admitted
        BY <2>1, AtWork
      <3> HIDE DEF j
      <3>3. JobOK(j, task[g], now)
        BY <2>1, <3>1, <3>2, NextStage
      <3> QED BY <2>1, <3>3 DEF j
    <2>2. CASE g = h
      <3>1. Tail(job[h].todo) \in Seq(PeerRecs)
        BY <1>1
      <3> QED BY <2>1, <2>2, <3>1, InsertMoves, Zenon DEF InsertRecord
    <2>3. CASE g # h /\ job[g].pc = "insert"
      <3>1. job[g].todo \in Seq(PeerRecs)
        BY <2>3, AtWork
      <3> QED BY <2>1, <2>3, <3>1, InsertMoves, Zenon
    <2>4. CASE g # h /\ job[g].pc # "insert"
      BY <2>4, InsertMoves, Zenon DEF DInv
    <2> QED BY <2>2, <2>3, <2>4
  <1>5. heardOn' \in [PeerKeys -> SUBSET Ifaces]
    <2>1. Dg(h).link \in Ifaces
      BY <1>1, DispatchAssumption, Zenon DEF Dg, Ids
    <2>2. heardOn[rec.key] \cup {i \in {Dg(h).link} : job[h].dg \in Wanted} \in SUBSET Ifaces
      BY <1>1, <2>1 DEF DInv
    <2> QED BY <1>1, <2>2 DEF InsertRecord, DInv
  <1> QED BY <1>3, <1>4, <1>5, InsertMoves, Zenon DEF DInv, PeerKeys

LEMMA EvictorInv == ASSUME DInv, Evictor PROVE DInv'
  <1>1. Inv({})' /\ now' = now /\ task' = task /\ UNCHANGED <<job, heardOn>>
    BY SweepInv DEF Evictor, Sweep, DInv
  <1> QED BY <1>1 DEF DInv, PeerKeys

\* Time passes for the free permits, where nothing gets older, and for the calls
\* that are asleep, which have not used up the delay they drew.
LEMMA DispatchTickInv == ASSUME DInv, Tick PROVE DInv'
  <1>1. /\ RespTick /\ UNCHANGED <<job, heardOn>> /\ task' = task
        /\ now \in Nat /\ now' = now + 1 /\ now' <= MaxTime
    <2>1. now \in Nat
      BY DEF DInv, Inv, TypeInv
    <2>2. RespTick /\ UNCHANGED <<job, heardOn>> /\ now < MaxTime
      BY DEF Tick
    <2>3. now' = now + 1 /\ task' = task
      BY <2>2 DEF RespTick
    <2>4. MaxTime \in Nat
      BY ResponderAssumption
    <2> QED BY <2>1, <2>2, <2>3, <2>4
  <1>2. Inv({})'
    BY <1>1, TickInv DEF DInv
  <1>3. ASSUME NEW h \in Tasks PROVE JobOK(job[h], task[h], now + 1)
    <2>1. job[h].pc \in {"free", "query"} /\ Asleep(h)
      BY <1>1 DEF Tick, RespTick
    <2>2. CASE job[h] = NoJob
      BY <2>2 DEF DInv, JobOK, NoJob
    <2>3. CASE job[h] # NoJob
      <3>1. /\ job[h].pc = "query" /\ task[h] # Idle /\ job[h].dg \in Ids
            /\ KindOf(job[h].dg) = "query" /\ job[h].dg \in Admitted
            /\ Timely(job[h], task[h], now)
        BY <2>1, <2>3 DEF DInv, JobOK
      <3>2. task[h].pc = "sleep" /\ now < task[h].wake
        BY <2>1, <3>1 DEF Asleep
      <3>3. PICK m \in Delays : task[h].wake \in Nat /\ task[h].wake <= job[h].at + m
        BY <3>1, <3>2 DEF Timely
      <3>4. job[h].at \in Nat /\ job[h].at <= now /\ m \in Nat
        BY <3>1, DelaysType DEF Timely
      <3>5. now + 1 <= job[h].at + m /\ m # 0
        BY <1>1, <3>2, <3>3, <3>4
      <3>6. m \in SharedDelay \cup TruncatedDelay
        BY <3>5 DEF Delays
      <3>7. job[h].at <= now + 1
        BY <1>1, <3>4
      <3>8. Timely(job[h], task[h], now + 1)
        BY <3>1, <3>2, <3>3, <3>4, <3>5, <3>6, <3>7 DEF Timely
      <3> QED BY <3>1, <3>8 DEF JobOK
    <2> QED BY <2>2, <2>3
  <1>4. \A h \in Tasks : JobOK(job'[h], task'[h], now')
    BY <1>1, <1>3
  <1> QED BY <1>1, <1>2, <1>4 DEF DInv, PeerKeys

LEMMA DispatchInit == Init => DInv
  <1> SUFFICES ASSUME Init PROVE DInv
    OBVIOUS
  <1>1. Inv({})
    BY InitInv DEF Init
  <1>2. \A h \in Tasks : JobOK(job[h], task[h], now)
    BY DEF Init, RespInit, JobOK
  <1>3. now <= MaxTime
    BY ResponderAssumption DEF Init, RespInit
  <1>4. DOMAIN job = Tasks /\ heardOn \in [PeerKeys -> SUBSET Ifaces]
    BY DEF Init
  <1> QED BY <1>1, <1>2, <1>3, <1>4 DEF DInv

LEMMA DispatchNext == DInv /\ [Next]_vars => DInv'
  <1> SUFFICES ASSUME DInv, [Next]_vars PROVE DInv'
    OBVIOUS
  <1>1. CASE UNCHANGED vars
    <2>1. UNCHANGED <<respVars, job, heardOn>> /\ now' = now /\ task' = task
      BY <1>1 DEF vars, respVars
    <2>2. Inv({})'
      BY <2>1, StutterInv DEF DInv
    <2> QED BY <2>1, <2>2 DEF DInv, PeerKeys
  <1>2. ASSUME NEW h \in Tasks, JobStep(h) PROVE DInv'
    BY <1>2, StageInv, StartQueryInv, QueryStepInv, InsertRecordInv, ReleaseInv DEF JobStep
  <1>3. ASSUME NEW h \in Tasks, NEW d \in Ids, Receive(h, d) PROVE DInv'
    BY <1>3, ReceiveInv
  <1> QED BY <1>1, <1>2, <1>3, EvictorInv, DispatchTickInv DEF Next

\* The inductive invariant of the receive loop and its tasks.
THEOREM DispatchInvariance == Spec => []DInv
  BY DispatchInit, DispatchNext, PTL DEF Spec

\* The cache, the tracker, the permits and the handle_query calls keep their types;
\* handle_query runs just as long as its job says so.
THEOREM DispatchTypeCorrect == Spec => []DispatchTypeOK
  <1>1. DInv => DispatchTypeOK
    <2> SUFFICES ASSUME DInv PROVE DispatchTypeOK
      OBVIOUS
    <2>1. RespTypeOK
      BY TypeInvOK DEF DInv, Inv
    <2>2. ASSUME NEW h \in Tasks
          PROVE  /\ job[h].pc \in {"free", "admit", "query", "insert", "forward", "done"}
                 /\ job[h].pc = "query" <=> task[h] # Idle
      BY DEF DInv, JobOK, NoJob
    <2> QED BY <2>1, <2>2 DEF DispatchTypeOK, DInv
  <1> QED BY <1>1, DispatchInvariance, PTL

\* main_loop's permits, any number of them under any traffic: a query's task keeps
\* its permit for no longer than the longest response_delay, any other for no time.
THEOREM PermitHeldBrieflyAlways == Spec => []PermitHeldBriefly
  <1>1. DInv => PermitHeldBriefly
    <2> SUFFICES ASSUME DInv, NEW h \in Tasks, job[h] # NoJob
                 PROVE  now - job[h].at \in
                          {0} \cup {d \in 0..MaxTime : /\ Dg(h).kind = "query"
                                     /\ \E m \in SharedDelay \cup TruncatedDelay : d <= m}
      BY DEF PermitHeldBriefly
    <2>1. Timely(job[h], task[h], now) /\ now \in Nat /\ now <= MaxTime
      BY DEF DInv, JobOK, Inv, TypeInv
    <2>2. job[h].at \in Nat /\ job[h].at <= now
      BY <2>1 DEF Timely
    <2>3. CASE job[h].at = now
      BY <2>2, <2>3
    <2>4. CASE job[h].at # now
      <3>1. PICK m \in SharedDelay \cup TruncatedDelay : now <= job[h].at + m
        BY <2>1, <2>4 DEF Timely
      <3>2. Dg(h).kind = "query"
        BY <2>1, <2>4 DEF Timely, KindOf, Dg
      <3>3. m \in Nat
        BY ResponderAssumption
      <3>4. now - job[h].at \in 0..MaxTime /\ now - job[h].at <= m
        BY <2>1, <2>2, <3>1, <3>3, ResponderAssumption
      <3> QED BY <3>2, <3>4
    <2> QED BY <2>3, <2>4
  <1> QED BY <1>1, DispatchInvariance, PTL

-----------------------------------------------------------------------------
\* Iterator::position finds something unless there is nothing.
LEMMA PositionFinds ==
    ASSUME NEW T \in SUBSET Nat, T # {} PROVE Position(T) # {}
  BY Least DEF Position

\* The filters of handle_datagram let in what should be let in.
LEMMA AdmittedWanted ==
    ASSUME NEW d \in Ids
    PROVE  d \in Admitted <=> d \in Wanted /\ (Repeat \/ RecvIdx[d] # {})
  <1> DEFINE dg == Datagrams[d]
  <1>1. dg.source \in Addrs
    BY DispatchAssumption, Zenon DEF Ids
  <1>2. allow_source(Config.whitelist, Config.blacklist, dg.source) <=> Permits(Lists, dg.source)
    <2>1. /\ Config.whitelist = {parse_subnet(e) : e \in Lists.whitelist}
          /\ Config.blacklist = {parse_subnet(e) : e \in Lists.blacklist}
      BY DEF Config
    <2> HIDE DEF dg
    <2> QED BY <1>1, <2>1, AllowSourceExact, DispatchAssumption
  <1>3. Config.repeat = Repeat /\ RecvIdx[d] = identify_recv_iface(dg, StateIfaces)
    BY DEF Config, RecvIdx
  <1>4. d \in Admitted <=> Admits(dg, StateIfaces, Config)
    BY DEF Admitted
  <1>5. d \in Wanted <=> /\ dg.mdns_port
                         /\ ~\E n \in DOMAIN StateIfaces : has_addr(StateIfaces[n], dg.source)
                         /\ Permits(Lists, dg.source)
    BY DEF Wanted
  <1> HIDE DEF dg
  <1> QED BY <1>2, <1>3, <1>4, <1>5 DEF Admits

LinkLocal(a) == a.fam = "V6" /\ is_unicast_link_local_v6(a.bits)

\* What identify_recv_iface goes by: the kernel's word, which is true, or the
\* subnets.
LEMMA Attribution ==
    ASSUME LinksTell, NEW d \in Ids
    PROVE  \/ /\ Datagrams[d].recv_ifindex # {}
              /\ RecvIdx[d] # {}
              /\ \A n \in RecvIdx[d] : StateIfaces[n].ifindex = Datagrams[d].link
           \/ /\ Datagrams[d].recv_ifindex = {} /\ LinkLocal(Datagrams[d].source)
              /\ RecvIdx[d] = {}
           \/ /\ Datagrams[d].recv_ifindex = {} /\ ~LinkLocal(Datagrams[d].source)
              /\ RecvIdx[d] = Position({n \in DOMAIN StateIfaces :
                                          contains(StateIfaces[n], Datagrams[d].source)})
  <1> DEFINE dg == Datagrams[d]
             known == {i \in DOMAIN StateIfaces : StateIfaces[i].ifindex \in dg.recv_ifindex}
  <1>1. dg.recv_ifindex \subseteq {dg.link} /\ dg.link \in Ifaces
    BY DispatchAssumption, Zenon DEF LinksTell, Ids
  <1>2. RecvIdx[d] = identify_recv_iface(dg, StateIfaces)
    BY DEF RecvIdx
  <1>3. CASE dg.recv_ifindex # {}
    <2>1. dg.recv_ifindex = {dg.link}
      BY <1>1, <1>3
    <2>2. PICK n \in DOMAIN StateIfaces : StateIfaces[n].ifindex = dg.link
      BY <1>1, DispatchAssumption
    <2>3. known # {} /\ known \in SUBSET Nat
      BY <2>1, <2>2, DispatchAssumption
    <2>4. RecvIdx[d] = Position(known)
      BY <1>2, <2>3 DEF identify_recv_iface
    <2>5. \A n1 \in known : StateIfaces[n1].ifindex = dg.link
      BY <2>1
    <2> HIDE DEF known
    <2>6. Position(known) # {} /\ Position(known) \subseteq known
      BY <2>3, PositionFinds DEF Position
    <2> QED BY <1>3, <2>4, <2>5, <2>6, Zenon
  <1>4. CASE dg.recv_ifindex = {}
    <2>1. known = {}
      BY <1>4
    <2> QED BY <1>2, <1>4, <2>1 DEF identify_recv_iface, LinkLocal
  <1> QED BY <1>3, <1>4

\* However it was attributed, a datagram is attributed to its own link.
LEMMA AttributedRight ==
    ASSUME LinksTell, NEW d \in Ids, NEW n \in RecvIdx[d]
    PROVE  StateIfaces[n].ifindex = Datagrams[d].link
  <1>1. CASE Datagrams[d].recv_ifindex # {}
    BY <1>1, Attribution, Zenon
  <1>2. CASE Datagrams[d].recv_ifindex = {}
    <2>1. /\ ~LinkLocal(Datagrams[d].source)
          /\ n \in Position({m \in DOMAIN StateIfaces :
                               contains(StateIfaces[m], Datagrams[d].source)})
      BY <1>2, Attribution
    <2>2. n \in DOMAIN StateIfaces /\ contains(StateIfaces[n], Datagrams[d].source)
      BY <2>1 DEF Position
    <2> QED BY <1>2, <2>1, <2>2 DEF LinksTell, LinkLocal
  <1> QED BY <1>1, <1>2

-----------------------------------------------------------------------------
\* An entry of the cache has the source it had, or the one of the record that has
\* been inserted.
LEMMA InsertSources ==
    ASSUME NEW c, NEW d, NEW rec, NEW source, NEW at, InsertFrom(c, d, rec, source, at),
           NEW k \in DOMAIN d
    PROVE  \/ k \in DOMAIN c /\ d[k].source = c[k].source
           \/ k = rec.key /\ d[k].source = source
  <1>1. CASE Goodbye(c, d, rec)
    BY <1>1 DEF Goodbye, Restrict
  <1>2. ASSUME NEW S, S \subseteq DOMAIN c, NEW src, d = Store(c, S, rec, src, at)
        PROVE  \/ k \in DOMAIN c /\ k # rec.key /\ d[k].source = c[k].source
               \/ k = rec.key /\ d[k].source = src
    BY <1>2 DEF Store
  <1>3. CASE Refresh(c, d, rec, source, at)
    <2> DEFINE src == IF source = NoIface THEN c[rec.key].source ELSE source
    <2>1. rec.key \in DOMAIN c /\ d = Store(c, Unflushed(c, rec), rec, src, at)
      BY <1>3 DEF Refresh
    <2>2. Unflushed(c, rec) \subseteq DOMAIN c
      BY DEF Unflushed
    <2> QED BY <1>2, <2>1, <2>2
  <1>4. CASE InsertInRoom(c, d, rec, source, at)
    BY <1>2, <1>4 DEF InsertInRoom, Unflushed
  <1>5. CASE InsertFull(c, d, rec, source, at)
    <2>1. PICK v : d = Store(c, Unflushed(c, rec) \ {v}, rec, source, at)
      BY <1>5, Zenon DEF InsertFull
    <2>2. Unflushed(c, rec) \ {v} \subseteq DOMAIN c
      BY DEF Unflushed
    <2> QED BY <1>2, <2>1, <2>2
  <1> QED BY <1>1, <1>3, <1>4, <1>5, Zenon DEF InsertFrom

LEMMA EvictKeeps ==
    ASSUME NEW c, NEW at, NEW k \in DOMAIN EvictExpired(c, at)
    PROVE  k \in DOMAIN c /\ EvictExpired(c, at)[k] = c[k]
  BY DEF EvictExpired, RestrictValues, Restrict

\* A key that is cached at all was heard where the cache says.
HeardOK(src, on) == on # {} /\ src \in on \cup {NoIface}

LEMMA LearnedInsert ==
    ASSUME LinksTell, DInv, LearnedWhereHeard, NEW h \in Tasks, InsertRecord(h)
    PROVE  LearnedWhereHeard'
  <1> DEFINE rec == Head(job[h].todo)
             source == SourceIfindex[job[h].dg]
             link == Datagrams[job[h].dg].link
  <1>1. rec.key \in PeerKeys /\ job[h].dg \in Ids /\ job[h].dg \in Admitted
    BY HeadIsPeers
  <1>2. job[h].dg \in Wanted
    BY <1>1, AdmittedWanted
  <1>3. source \in {link, NoIface}
    BY <1>1, SourceIs, AttributedRight
  <1>4. InsertFrom(by_key, by_key', rec, source, now)
    BY Zenon DEF InsertRecord, Hear
  <1>5. heardOn' = [heardOn EXCEPT ![rec.key] = heardOn[rec.key] \cup {link}]
    <2>1. {i \in {link} : job[h].dg \in Wanted} = {link}
      BY <1>2
    <2> QED BY <2>1, Zenon DEF InsertRecord, Dg
  <1>6. link \in heardOn'[rec.key] /\ \A k \in PeerKeys : heardOn[k] \subseteq heardOn'[k]
    BY <1>1, <1>5, Zenon DEF DInv
  <1> HIDE DEF rec, source, link
  <1>7. ASSUME NEW k \in DOMAIN by_key' PROVE HeardOK(by_key'[k].source, heardOn'[k])
    <2>1. CASE k \in DOMAIN by_key /\ by_key'[k].source = by_key[k].source
      <3>1. k \in PeerKeys
        BY <2>1 DEF DInv, Inv, TypeInv
      <3> QED BY <1>6, <2>1, <3>1 DEF LearnedWhereHeard, HeardOK
    <2>2. CASE k = rec.key /\ by_key'[k].source = source
      BY <1>3, <1>6, <2>2 DEF HeardOK
    <2> QED BY <1>4, <2>1, <2>2, InsertSources
  <1> QED BY <1>7 DEF LearnedWhereHeard, HeardOK

\* Nothing but a response changes what is cached, and the evictor takes away.
LEMMA OnlyInserts ==
    ASSUME DInv, [Next]_vars
    PROVE  \/ by_key' = by_key /\ heardOn' = heardOn
           \/ by_key' = EvictExpired(by_key, now) /\ heardOn' = heardOn
           \/ \E h \in Tasks : InsertRecord(h)
  <1>1. CASE UNCHANGED vars
    BY <1>1 DEF vars, respVars
  <1>2. CASE Tick
    BY <1>2 DEF Tick, RespTick
  <1>3. CASE Evictor
    BY <1>3 DEF Evictor, Sweep
  <1>4. ASSUME NEW h \in Tasks, NEW d \in Ids, Receive(h, d)
        PROVE  by_key' = by_key /\ heardOn' = heardOn
    BY <1>4 DEF Receive, respVars
  <1>5. ASSUME NEW h \in Tasks, JobStep(h), ~InsertRecord(h)
        PROVE  by_key' = by_key /\ heardOn' = heardOn
    <2>1. CASE QueryStep(h)
      BY <2>1, Zenon DEF QueryStep, TaskStep, FindAdditionals, Wake, RetainAnswer, AnswersDone,
                  RetainAdditional, Send
    <2>2. CASE StartQuery(h)
      BY <2>2, Zenon DEF StartQuery, Arrive
    <2>3. CASE ~QueryStep(h) /\ ~StartQuery(h)
      BY <1>5, <2>3, Zenon DEF JobStep, Refuse, StartResponse, NotParsed, NothingToAnswer,
                        ResponseDone, Forward, Release, respVars
    <2> QED BY <2>1, <2>2, <2>3
  <1> QED BY <1>1, <1>2, <1>3, <1>4, <1>5 DEF Next

\* Where the links can be told apart, for any traffic: no record of a datagram that
\* handle_datagram should refuse is cached, and the interface that
\* handle_response_msg notes for a record is a link it was heard on.
THEOREM LearnedWhereHeardAlways == ASSUME LinksTell PROVE Spec => []LearnedWhereHeard
  <1>1. Init => LearnedWhereHeard
    BY DEF Init, RespInit, LearnedWhereHeard
  <1>2. DInv /\ LearnedWhereHeard /\ [Next]_vars => LearnedWhereHeard'
    <2> SUFFICES ASSUME DInv, LearnedWhereHeard, [Next]_vars PROVE LearnedWhereHeard'
      OBVIOUS
    <2>1. CASE by_key' = by_key /\ heardOn' = heardOn
      BY <2>1 DEF LearnedWhereHeard
    <2>2. CASE by_key' = EvictExpired(by_key, now) /\ heardOn' = heardOn
      <3>1. \A k \in DOMAIN by_key' : k \in DOMAIN by_key /\ by_key'[k] = by_key[k]
        BY <2>2, EvictKeeps
      <3> QED BY <2>2, <3>1 DEF LearnedWhereHeard
    <2> QED BY <2>1, <2>2, OnlyInserts, LearnedInsert
  <1> QED BY <1>1, <1>2, DispatchInvariance, PTL DEF Spec

-----------------------------------------------------------------------------
\* The interfaces other than the datagram's own that have a socket of its family.
OtherLinks(d) ==
    {StateIfaces[n].ifindex :
        n \in {n \in DOMAIN StateIfaces : Datagrams[d].source.fam \in families(StateIfaces[n])}}
       \ {Datagrams[d].link}

\* Where the repeater tries to send a datagram that was attributed: everywhere else.
LEMMA ForwardKnown ==
    ASSUME LinksTell, IfacesDistinct, NEW d \in Ids, Repeat, RecvIdx[d] # {}
    PROVE  ForwardTo[d] = OtherLinks(d)
  <1> DEFINE fam == Datagrams[d].source.fam
             N == {n \in DOMAIN StateIfaces : fam \in families(StateIfaces[n])}
  <1>1. forward_targets(RecvIdx[d], Datagrams[d].source, StateIfaces)
           = DOMAIN StateIfaces \ RecvIdx[d]
    BY DEF forward_targets
  <1>2. ForwardTo[d] = {StateIfaces[n].ifindex : n \in N \ RecvIdx[d]}
    <2>1. ForwardTo[d] = {StateIfaces[n].ifindex :
             n \in {n \in DOMAIN StateIfaces \ RecvIdx[d] :
                      Repeat /\ fam \in families(StateIfaces[n])}}
      BY <1>1 DEF ForwardTo
    <2>2. {n \in DOMAIN StateIfaces \ RecvIdx[d] : Repeat /\ fam \in families(StateIfaces[n])}
             = N \ RecvIdx[d]
      OBVIOUS
    <2> QED BY <2>1, <2>2
  <1>3. ASSUME NEW n \in N PROVE n \in RecvIdx[d] <=> StateIfaces[n].ifindex = Datagrams[d].link
    <2>1. PICK m \in RecvIdx[d] : m \in DOMAIN StateIfaces
      BY RecvIdxIn
    <2> QED BY <2>1, AttributedRight DEF IfacesDistinct
  <1>4. OtherLinks(d) = {StateIfaces[n].ifindex : n \in N} \ {Datagrams[d].link}
    BY DEF OtherLinks
  <1> HIDE DEF N
  <1> QED BY <1>2, <1>3, <1>4

\* One that could not be attributed is not repeated at all.
LEMMA ForwardUnknown ==
    ASSUME LinksTell, NEW d \in Ids, ~Repeat \/ RecvIdx[d] = {}
    PROVE  ForwardTo[d] = {}
  <1> DEFINE source == Datagrams[d].source
             on == {n \in DOMAIN StateIfaces : contains(StateIfaces[n], source)}
             targets == forward_targets(RecvIdx[d], source, StateIfaces)
  <1>0. ForwardTo[d] = {StateIfaces[n].ifindex :
                          n \in {n \in targets : Repeat /\ source.fam \in families(StateIfaces[n])}}
    BY DEF ForwardTo
  <1> SUFFICES ASSUME NEW n \in targets, Repeat, source.fam \in families(StateIfaces[n])
               PROVE  FALSE
    BY <1>0
  <1>1. RecvIdx[d] = {}
    OBVIOUS
  <1>2. n \in DOMAIN StateIfaces /\ n \notin on /\ on # {}
    BY <1>1 DEF forward_targets
  <1>3. CASE LinkLocal(source) /\ Datagrams[d].recv_ifindex = {}
    BY <1>2, <1>3 DEF LinksTell, LinkLocal
  <1>4. CASE ~LinkLocal(source) /\ Datagrams[d].recv_ifindex = {}
    <2>1. Position(on) = {}
      BY <1>1, <1>4, Attribution
    <2>2. on \in SUBSET Nat
      BY DispatchAssumption
    <2> HIDE DEF on
    <2> QED BY <1>2, <2>1, <2>2, PositionFinds
  <1> QED BY <1>1, <1>3, <1>4, Attribution, Zenon

\* A job that is done, and where its datagram got to.
RepeatOK(j) ==
    j.pc = "done" =>
        IF Repeat /\ j.dg \in Wanted /\ RecvIdx[j.dg] # {}
        THEN /\ j.on \subseteq OtherLinks(j.dg)
             /\ {i \in OtherLinks(j.dg) : SendResults[i] = {TRUE}} \subseteq j.on
        ELSE j.on = {}

RepeatInv == \A h \in Tasks : RepeatOK(job[h])

LEMMA RepeatRefuse ==
    ASSUME DInv, NEW h \in Tasks, Refuse(h) PROVE RepeatOK(job'[h])
  <1>1. job[h].dg \in Ids /\ job[h].dg \notin Admitted
    BY AtWork, Zenon DEF Refuse
  <1>2. job'[h].dg = job[h].dg /\ job'[h].on = {}
    BY DEF Refuse, Done, SetJob, DInv
  <1>3. ~(Repeat /\ job[h].dg \in Wanted)
    BY <1>1, AdmittedWanted
  <1> QED BY <1>2, <1>3, Zenon DEF RepeatOK

LEMMA RepeatForward ==
    ASSUME LinksTell, IfacesDistinct, DInv, NEW h \in Tasks, Forward(h)
    PROVE  RepeatOK(job'[h])
  <1>1. job[h].dg \in Ids /\ job[h].dg \in Admitted
    <2>1. job[h].pc = "forward"
      BY DEF Forward
    <2> QED BY <2>1, AtWork, Zenon
  <1>2. job[h].dg \in Wanted
    BY <1>1, AdmittedWanted
  <1>3. PICK S \in SUBSET ForwardTo[job[h].dg] :
           /\ \A i \in ForwardTo[job[h].dg] : (i \in S) \in SendResults[i]
           /\ Done(h, S)
    BY DEF Forward
  <1>4. job'[h].dg = job[h].dg /\ job'[h].on = S
    BY <1>3 DEF Done, SetJob, DInv
  <1>5. CASE Repeat /\ RecvIdx[job[h].dg] # {}
    <2>1. ForwardTo[job[h].dg] = OtherLinks(job[h].dg)
      BY <1>1, <1>5, ForwardKnown
    <2>2. {i \in OtherLinks(job[h].dg) : SendResults[i] = {TRUE}} \subseteq S
      BY <1>3, <2>1, Zenon
    <2> QED BY <1>2, <1>3, <1>4, <1>5, <2>1, <2>2, Zenon DEF RepeatOK
  <1>6. CASE ~Repeat \/ RecvIdx[job[h].dg] = {}
    <2>1. S = {}
      BY <1>1, <1>3, <1>6, ForwardUnknown
    <2> QED BY <1>4, <1>6, <2>1, Zenon DEF RepeatOK
  <1> QED BY <1>5, <1>6

\* Every other step of a job leaves it, or the others, at another stage.
LEMMA RepeatOthers ==
    ASSUME DInv, RepeatInv, [Next]_vars, NEW g \in Tasks,
           ~Refuse(g), ~Forward(g)
    PROVE  RepeatOK(job'[g])
  <1>1. ASSUME NEW h \in Tasks, NEW j, SetJob(h, j), g = h => j.pc # "done"
        PROVE  RepeatOK(job'[g])
    <2>1. JobMoves(h, j)
      BY <1>1, MoveJob
    <2> QED BY <1>1, <2>1, Zenon DEF JobMoves, RepeatInv, RepeatOK
  <1>2. CASE UNCHANGED job
    BY <1>2 DEF RepeatInv
  <1>3. ASSUME NEW h \in Tasks, NEW d \in Ids, Receive(h, d) PROVE RepeatOK(job'[g])
    <2> DEFINE j == [pc |-> "admit", dg |-> d, at |-> now]
    <2>1. SetJob(h, j) /\ j.pc # "done"
      BY <1>3 DEF Receive, SetJob
    <2> HIDE DEF j
    <2> QED BY <1>1, <2>1
  <1>4. ASSUME NEW h \in Tasks, JobStep(h) PROVE RepeatOK(job'[g])
    <2>1. CASE Refuse(h) \/ Forward(h)
      <3>1. g # h
        BY <2>1
      <3>2. PICK S : Done(h, S)
        BY <2>1 DEF Refuse, Forward
      <3> DEFINE j == [pc |-> "done", dg |-> job[h].dg, at |-> job[h].at, on |-> S]
      <3>3. SetJob(h, j)
        BY <3>2 DEF Done
      <3> HIDE DEF j
      <3> QED BY <1>1, <3>1, <3>3
    <2>2. CASE StartResponse(h)
      <3> DEFINE j == Inserting(job[h], RecordsOf(Dg(h)), TRUE)
      <3>1. SetJob(h, j) /\ j.pc # "done"
        BY <2>2 DEF StartResponse, Inserting
      <3> HIDE DEF j
      <3> QED BY <1>1, <3>1
    <2>3. CASE NotParsed(h) \/ NothingToAnswer(h) \/ ResponseDone(h)
      <3>1. SetJob(h, Stage(job[h], "forward")) /\ Stage(job[h], "forward").pc # "done"
        BY <2>3, Zenon DEF NotParsed, NothingToAnswer, ResponseDone, Stage
      <3> QED BY <1>1, <3>1
    <2>4. CASE StartQuery(h)
      <3>1. SetJob(h, Stage(job[h], "query")) /\ Stage(job[h], "query").pc # "done"
        BY <2>4 DEF StartQuery, Stage
      <3> QED BY <1>1, <3>1
    <2>5. CASE QueryStep(h)
      <3> DEFINE j == IF task'[h] # Idle THEN job[h]
                      ELSE [pc |-> AfterQuery, dg |-> job[h].dg, at |-> job[h].at, on |-> {}]
      <3>1. SetJob(h, j) /\ j.pc # "done"
        BY <2>5, Zenon DEF QueryStep, AfterQuery
      <3> HIDE DEF j
      <3> QED BY <1>1, <3>1
    <2>6. CASE InsertRecord(h)
      <3>2. CASE g = h \/ job[g].pc = "insert"
        <4>1. CASE g = h
          <5>1. job'[g] = Inserting(job[h], Tail(job[h].todo), job[h].alone)
            BY <2>6, <4>1, InsertMoves, Zenon
          <5>2. job'[g].pc = "insert"
            BY <5>1 DEF Inserting
          <5> QED BY <5>2 DEF RepeatOK
        <4>2. CASE g # h /\ job[g].pc = "insert"
          <5>1. job'[g] = Inserting(job[g], job[g].todo, FALSE)
            BY <2>6, <4>2, InsertMoves, Zenon
          <5>2. job'[g].pc = "insert"
            BY <5>1 DEF Inserting
          <5> QED BY <5>2 DEF RepeatOK
        <4> QED BY <3>2, <4>1, <4>2
      <3>3. CASE g # h /\ job[g].pc # "insert"
        <4>1. job'[g] = job[g]
          BY <2>6, <3>3, InsertMoves, Zenon
        <4> QED BY <4>1 DEF RepeatInv
      <3> QED BY <3>2, <3>3
    <2>7. CASE Release(h)
      <3>1. SetJob(h, NoJob) /\ NoJob.pc # "done"
        BY <2>7 DEF Release, NoJob
      <3> QED BY <1>1, <3>1
    <2> QED BY <1>4, <2>1, <2>2, <2>3, <2>4, <2>5, <2>6, <2>7 DEF JobStep
  <1>5. CASE Tick \/ Evictor \/ UNCHANGED vars
    BY <1>2, <1>5 DEF Tick, Evictor, vars
  <1> QED BY <1>3, <1>4, <1>5 DEF Next

\* Where the links can be told apart and no interface is configured twice, for any
\* traffic: handle_datagram repeats what should be let in, whatever becomes of its
\* query or response, to every other link and not back to its own; and forward's
\* rule for an unknown interface repeats nothing.
THEOREM RepeatedUnlessRefusedAlways ==
    ASSUME LinksTell, IfacesDistinct PROVE Spec => []RepeatedUnlessRefused
  <1>1. Init => RepeatInv
    BY DEF Init, RepeatInv, RepeatOK, NoJob
  <1>2. DInv /\ RepeatInv /\ [Next]_vars => RepeatInv'
    <2> SUFFICES ASSUME DInv, RepeatInv, [Next]_vars, NEW g \in Tasks PROVE RepeatOK(job'[g])
      BY DEF RepeatInv
    <2>1. CASE Refuse(g)
      BY <2>1, RepeatRefuse
    <2>2. CASE Forward(g)
      BY <2>2, RepeatForward
    <2>3. CASE ~Refuse(g) /\ ~Forward(g)
      BY <2>3, RepeatOthers
    <2> QED BY <2>1, <2>2, <2>3
  <1>3. RepeatInv => RepeatedUnlessRefused
    BY Zenon DEF RepeatInv, RepeatOK, OtherLinks, RepeatedUnlessRefused, Dg
  <1> QED BY <1>1, <1>2, <1>3, DispatchInvariance, PTL DEF Spec

-----------------------------------------------------------------------------
\* A record m undoes what record n of a message says.
Undoes(m, n) ==
    \/ m.key = n.key
    \/ m.flush /\ m.ttl > 0 /\ Sibling(n.key, m.key)

\* At time at, the cache c says what the record says, and will for a while.
Says(c, rec, at) ==
    IF rec.ttl > 0 THEN rec.key \in DOMAIN c /\ c[rec.key].deadline > at
    ELSE rec.key \notin DOMAIN c

\* The first i records of a message are in, and the rest is still to come.
UpTo(recs, i, todo, c, at) ==
    /\ Len(todo) = Len(recs) - i
    /\ \A n \in 1..Len(todo) : todo[n] = recs[i + n]
    /\ \A n \in 1..i :
          (\A m \in (n + 1)..i : ~Undoes(recs[m], recs[n])) => Says(c, recs[n], at)

\* handle_response_msg is part of the way through its message.
InsertOK(j, c, at) ==
    (j.pc = "insert" /\ j.alone) =>
        LET recs == RecordsOf(Datagrams[j.dg])
        IN  \E i \in 0..Len(recs) : UpTo(recs, i, j.todo, c, at)

WholeInv == \A h \in Tasks : InsertOK(job[h], by_key, now)

LEMMA CapKeepsZero ==
    ASSUME NEW ttl \in Nat PROVE CapTtl(ttl) \in Nat /\ (CapTtl(ttl) = 0 <=> ttl = 0)
  BY CacheAssumption DEF CapTtl

LEMMA ProductPositive ==
    ASSUME NEW a \in Nat, NEW b \in Nat, a > 0, b > 0 PROVE a * b \in Nat /\ a * b > 0
  OBVIOUS

\* With room for all that the peers publish, nothing is evicted to make room.
LEMMA Room ==
    ASSUME CacheHolds, NEW c, DOMAIN c \subseteq PeerKeys, NEW rec, rec.key \in PeerKeys,
           rec.key \notin DOMAIN c
    PROVE  Cardinality(Unflushed(c, rec)) < MaxEntries
  <1> DEFINE P == PeerKeys \ {rec.key}
             U == Unflushed(c, rec)
  <1>1. IsFiniteSet(PeerKeys) /\ Cardinality(PeerKeys) <= MaxEntries
    BY DEF CacheHolds
  <1>2. Cardinality(PeerKeys) \in Nat
    BY <1>1, FS_CardinalityType
  <1>3. IsFiniteSet(P) /\ Cardinality(P) = Cardinality(PeerKeys) - 1
    BY <1>1, FS_RemoveElement, Zenon
  <1>4. U \in SUBSET P
    BY DEF Unflushed
  <1> HIDE DEF P, U
  <1>5. IsFiniteSet(U) /\ Cardinality(U) <= Cardinality(P)
    BY <1>3, <1>4, FS_Subset
  <1>6. Cardinality(U) \in Nat /\ MaxEntries \in Nat
    BY <1>5, FS_CardinalityType, CacheAssumption DEF MaxEntries
  <1>7. Cardinality(U) < MaxEntries
    BY <1>1, <1>2, <1>3, <1>5, <1>6
  <1> QED BY <1>7 DEF U

\* insert_from makes the cache say what the record says, and takes back nothing
\* that the record does not undo.
LEMMA InsertSays ==
    ASSUME CacheHolds, NEW c, DOMAIN c \subseteq PeerKeys, NEW rec \in PeerRecs, NEW d,
           NEW source, NEW at \in Nat, InsertFrom(c, d, rec, source, at)
    PROVE  /\ Says(d, rec, at)
           /\ \A r \in PeerRecs : (~Undoes(rec, r) /\ Says(c, r, at)) => Says(d, r, at)
  <1>1. rec.key \in PeerKeys /\ rec.ttl \in Nat
    BY DispatchAssumption, Zenon DEF PeerRecs, PeerKeys
  <1>2. CapTtl(rec.ttl) \in Nat /\ (CapTtl(rec.ttl) = 0 <=> rec.ttl = 0)
    BY <1>1, CapKeepsZero
  <1>3. CASE Goodbye(c, d, rec)
    <2>1. rec.ttl = 0 /\ DOMAIN d = DOMAIN c \ {rec.key} /\ \A k \in DOMAIN d : d[k] = c[k]
      BY <1>2, <1>3 DEF Goodbye, Restrict
    <2>2. Says(d, rec, at)
      BY <2>1 DEF Says
    <2>3. \A r \in PeerRecs : (~Undoes(rec, r) /\ Says(c, r, at)) => Says(d, r, at)
      BY <2>1 DEF Says, Undoes
    <2> QED BY <2>2, <2>3
  <1>4. ASSUME NEW src, CapTtl(rec.ttl) > 0, d = Store(c, Unflushed(c, rec), rec, src, at)
        PROVE  /\ Says(d, rec, at)
               /\ \A r \in PeerRecs : (~Undoes(rec, r) /\ Says(c, r, at)) => Says(d, r, at)
    <2>1. CapTtl(rec.ttl) * SECOND \in Nat /\ CapTtl(rec.ttl) * SECOND > 0
      <3>1. SECOND \in Nat /\ SECOND > 0
        BY CacheAssumption
      <3> QED BY <1>2, <1>4, <3>1, ProductPositive
    <2>2. rec.ttl > 0
      BY <1>1, <1>2, <1>4
    <2>3. /\ DOMAIN d = Unflushed(c, rec) \cup {rec.key}
          /\ d[rec.key].deadline = at + CapTtl(rec.ttl) * SECOND
          /\ \A k \in Unflushed(c, rec) : k # rec.key => d[k] = c[k]
      <3> DEFINE e == [deadline |-> at + CapTtl(rec.ttl) * SECOND,
                       flush |-> rec.flush, source |-> src]
      <3>1. d = [k \in Unflushed(c, rec) \cup {rec.key} |-> IF k = rec.key THEN e ELSE c[k]]
        BY <1>4 DEF Store
      <3>2. e.deadline = at + CapTtl(rec.ttl) * SECOND
        OBVIOUS
      <3> HIDE DEF e
      <3>3. d[rec.key] = e
        BY <3>1
      <3> QED BY <3>1, <3>2, <3>3
    <2>4. Says(d, rec, at)
      BY <2>1, <2>2, <2>3 DEF Says
    <2>5. ASSUME NEW r \in PeerRecs, ~Undoes(rec, r), Says(c, r, at) PROVE Says(d, r, at)
      <3>1. r.key # rec.key /\ ~(rec.flush /\ Sibling(r.key, rec.key))
        BY <2>2, <2>5 DEF Undoes
      <3>2. r.key \in DOMAIN c => r.key \in Unflushed(c, rec)
        BY <3>1, Zenon DEF Unflushed
      <3>3. r.key \notin DOMAIN c => r.key \notin DOMAIN d
        BY <2>3, <3>1, Zenon DEF Unflushed
      <3> QED BY <2>3, <2>5, <3>1, <3>2, <3>3, Zenon DEF Says
    <2> QED BY <2>4, <2>5
  <1>5. CASE Refresh(c, d, rec, source, at)
    <2>1. PICK src : CapTtl(rec.ttl) > 0 /\ d = Store(c, Unflushed(c, rec), rec, src, at)
      BY <1>5 DEF Refresh
    <2> QED BY <1>4, <2>1
  <1>6. CASE InsertInRoom(c, d, rec, source, at)
    BY <1>4, <1>6, Zenon DEF InsertInRoom
  <1>7. ~InsertFull(c, d, rec, source, at)
    <2> SUFFICES ASSUME InsertFull(c, d, rec, source, at) PROVE FALSE
      OBVIOUS
    <2>1. rec.key \notin DOMAIN c /\ Cardinality(Unflushed(c, rec)) >= MaxEntries
      BY DEF InsertFull
    <2>2. Cardinality(Unflushed(c, rec)) < MaxEntries
      BY <1>1, <2>1, Room, Zenon
    <2>3. IsFiniteSet(Unflushed(c, rec))
      BY FS_Subset DEF CacheHolds, Unflushed
    <2>4. Cardinality(Unflushed(c, rec)) \in Nat /\ MaxEntries \in Nat
      BY <2>3, FS_CardinalityType, CacheAssumption DEF MaxEntries
    <2>5. \A a, b \in Nat : ~(a >= b /\ a < b)
      OBVIOUS
    <2> QED BY <2>1, <2>2, <2>4, <2>5, Zenon
  <1> QED BY <1>3, <1>5, <1>6, <1>7 DEF InsertFrom

\* The evictor takes away nothing that is still to be said.
LEMMA EvictSays ==
    ASSUME NEW c, NEW r, NEW at, Says(c, r, at) PROVE Says(EvictExpired(c, at), r, at)
  <1> DEFINE d == EvictExpired(c, at)
  <1>1. DOMAIN d = {k \in DOMAIN c : c[k].deadline > at} /\ \A k \in DOMAIN d : d[k] = c[k]
    BY DEF EvictExpired, RestrictValues, Restrict
  <1> HIDE DEF d
  <1>2. Says(d, r, at)
    BY <1>1 DEF Says
  <1> QED BY <1>2 DEF d

\* Where an index other than the last one lies.
LEMMA EarlierIndex ==
    ASSUME NEW l \in Nat, NEW i \in Nat, i + 1 \in 0..l, NEW n \in 1..(i + 1), n # i + 1
    PROVE  n \in 1..i /\ n \in 1..l /\ i + 1 \in (n + 1)..(i + 1)
           /\ \A m \in (n + 1)..i : m \in (n + 1)..(i + 1)
  OBVIOUS

\* One more record.
LEMMA OneMore ==
    ASSUME CacheHolds, NEW recs \in Seq(PeerRecs), NEW i \in 0..Len(recs),
           NEW todo \in Seq(PeerRecs), todo # <<>>, NEW c, DOMAIN c \subseteq PeerKeys,
           NEW at \in Nat, UpTo(recs, i, todo, c, at), NEW d, NEW source,
           InsertFrom(c, d, Head(todo), source, at)
    PROVE  i + 1 \in 0..Len(recs) /\ UpTo(recs, i + 1, Tail(todo), d, at)
  <1>1. Len(todo) \in Nat /\ Len(recs) \in Nat /\ i \in Nat /\ Len(todo) > 0
    OBVIOUS
  <1>2. Len(todo) = Len(recs) - i /\ \A n \in 1..Len(todo) : todo[n] = recs[i + n]
    BY DEF UpTo
  <1>3. i + 1 \in 0..Len(recs) /\ i + 1 \in 1..Len(recs)
    BY <1>1, <1>2
  <1>4. Head(todo) = recs[i + 1] /\ recs[i + 1] \in PeerRecs
    BY <1>1, <1>2, <1>3
  <1>5. Tail(todo) \in Seq(PeerRecs) /\ Len(Tail(todo)) = Len(todo) - 1
        /\ \A n \in 1..Len(Tail(todo)) : Tail(todo)[n] = todo[n + 1]
    BY <1>1
  <1>6. Len(Tail(todo)) = Len(recs) - (i + 1)
    BY <1>1, <1>2, <1>5
  <1>7. ASSUME NEW n \in 1..Len(Tail(todo)) PROVE Tail(todo)[n] = recs[(i + 1) + n]
    <2>1. n + 1 \in 1..Len(todo) /\ i + (n + 1) = (i + 1) + n
      BY <1>1, <1>5
    <2> QED BY <1>2, <1>5, <2>1
  <1>8. ASSUME NEW n \in 1..(i + 1), \A m \in (n + 1)..(i + 1) : ~Undoes(recs[m], recs[n])
        PROVE  Says(d, recs[n], at)
    <2>1. CASE n = i + 1
      BY <1>4, <2>1, InsertSays
    <2>2. CASE n # i + 1
      <3>1. n \in 1..i /\ n \in 1..Len(recs) /\ i + 1 \in (n + 1)..(i + 1)
            /\ \A m \in (n + 1)..i : m \in (n + 1)..(i + 1)
        BY <1>1, <1>3, <2>2, EarlierIndex, Zenon
      <3>2. ~Undoes(recs[i + 1], recs[n]) /\ Says(c, recs[n], at)
        <4>1. ~Undoes(recs[i + 1], recs[n]) /\ \A m \in (n + 1)..i : ~Undoes(recs[m], recs[n])
          BY <1>8, <3>1, Zenon
        <4> QED BY <3>1, <4>1, Zenon DEF UpTo
      <3>3. recs[n] \in PeerRecs
        BY <3>1
      <3> QED BY <1>4, <3>2, <3>3, InsertSays
    <2> QED BY <2>1, <2>2
  <1> QED BY <1>3, <1>6, <1>7, <1>8, Zenon DEF UpTo

LEMMA WholeInsert ==
    ASSUME CacheHolds, DInv, WholeInv, NEW h \in Tasks, InsertRecord(h),
           NEW g \in Tasks
    PROVE  InsertOK(job'[g], by_key', now')
  <1> DEFINE recs == RecordsOf(Datagrams[job[h].dg])
             todo == job[h].todo
  <1>1. /\ todo \in Seq(PeerRecs) /\ todo # <<>> /\ job[h].dg \in Ids
    BY HeadIsPeers
  <1>2. /\ job[h].pc = "insert" /\ now' = now /\ now \in Nat /\ DOMAIN by_key \subseteq PeerKeys
        /\ InsertFrom(by_key, by_key', Head(todo), SourceIfindex[job[h].dg], now)
    BY Zenon DEF InsertRecord, Hear, DInv, Inv, TypeInv
  <1>3. CASE g = h
    <2>1. job'[h] = Inserting(job[h], Tail(todo), job[h].alone)
      BY InsertMoves, Zenon
    <2>2. /\ job'[h].dg = job[h].dg /\ job'[h].todo = Tail(todo)
          /\ job'[h].alone = job[h].alone
      BY <2>1 DEF Inserting
    <2> SUFFICES ASSUME job[h].alone PROVE \E i \in 0..Len(recs) : UpTo(recs, i, Tail(todo), by_key', now)
      BY <1>2, <1>3, <2>2, Zenon DEF InsertOK
    <2>3. PICK i \in 0..Len(recs) : UpTo(recs, i, todo, by_key, now)
      BY <1>2, Zenon DEF WholeInv, InsertOK
    <2>4. recs \in Seq(PeerRecs)
      BY <1>1, RecordsOfType
    <2> HIDE DEF recs, todo
    <2>5. i + 1 \in 0..Len(recs) /\ UpTo(recs, i + 1, Tail(todo), by_key', now)
      BY <1>1, <1>2, <2>3, <2>4, OneMore, Zenon
    <2> QED BY <2>5
  <1>4. CASE g # h /\ job[g].pc = "insert"
    <2>1. job'[g] = Inserting(job[g], job[g].todo, FALSE)
      BY <1>4, InsertMoves, Zenon
    <2>2. job'[g].alone = FALSE
      BY <2>1 DEF Inserting
    <2> QED BY <2>2, Zenon DEF InsertOK
  <1>5. CASE g # h /\ job[g].pc # "insert"
    <2>1. job'[g] = job[g]
      BY <1>5, InsertMoves, Zenon
    <2> QED BY <1>5, <2>1 DEF InsertOK
  <1> QED BY <1>3, <1>4, <1>5

\* Before the first record there is nothing to be said.
LEMMA WholeStart ==
    ASSUME DInv, NEW h \in Tasks, StartResponse(h)
    PROVE  InsertOK(job'[h], by_key, now)
  <1> DEFINE recs == RecordsOf(Datagrams[job[h].dg])
  <1>1. job[h].dg \in Ids
    BY AtWork, Zenon DEF StartResponse
  <1>2. job'[h].dg = job[h].dg /\ job'[h].todo = recs
    BY DEF StartResponse, SetJob, Inserting, DInv, Dg
  <1>3. recs \in Seq(PeerRecs)
    BY <1>1, RecordsOfType
  <1> HIDE DEF recs
  <1>4. Len(recs) \in Nat
    BY <1>3
  <1>5. UpTo(recs, 0, recs, by_key, now) /\ 0 \in 0..Len(recs)
    BY <1>3, <1>4 DEF UpTo
  <1> QED BY <1>2, <1>5 DEF InsertOK, recs

\* Any other step of a job leaves the inserting ones and the cache alone.
LEMMA WholeOthers ==
    ASSUME DInv, WholeInv, NEW h \in Tasks, NEW j, SetJob(h, j), j.pc # "insert",
           by_key' = by_key, now' = now
    PROVE  WholeInv'
  <1>1. JobMoves(h, j)
    BY MoveJob
  <1>2. \A g \in Tasks : InsertOK(job'[g], by_key, now)
    BY <1>1, Zenon DEF JobMoves, WholeInv, InsertOK
  <1> QED BY <1>2 DEF WholeInv

LEMMA WholeJobStep ==
    ASSUME CacheHolds, DInv, WholeInv, NEW h \in Tasks, JobStep(h)
    PROVE  WholeInv'
  <1>1. CASE InsertRecord(h)
    BY <1>1, WholeInsert DEF WholeInv
  <1>2. CASE StartResponse(h)
    <2>1. by_key' = by_key /\ now' = now
      BY <1>2 DEF StartResponse, respVars
    <2>2. \A g \in Tasks \ {h} : job'[g] = job[g]
      BY <1>2 DEF StartResponse, SetJob, DInv
    <2>3. \A g \in Tasks : InsertOK(job'[g], by_key, now)
      BY <1>2, <2>2, WholeStart DEF WholeInv
    <2> QED BY <2>1, <2>3 DEF WholeInv
  <1>3. CASE Refuse(h) \/ Forward(h)
    <2>1. PICK S : Done(h, S)
      BY <1>3 DEF Refuse, Forward
    <2> DEFINE j == [pc |-> "done", dg |-> job[h].dg, at |-> job[h].at, on |-> S]
    <2>2. SetJob(h, j) /\ j.pc # "insert" /\ by_key' = by_key /\ now' = now
      BY <1>3, <2>1, Zenon DEF Done, Refuse, Forward, respVars
    <2> HIDE DEF j
    <2> QED BY <2>2, WholeOthers
  <1>4. CASE NotParsed(h) \/ NothingToAnswer(h) \/ ResponseDone(h)
    <2>1. /\ SetJob(h, Stage(job[h], "forward")) /\ Stage(job[h], "forward").pc # "insert"
          /\ by_key' = by_key /\ now' = now
      BY <1>4, Zenon DEF NotParsed, NothingToAnswer, ResponseDone, Stage, respVars
    <2> QED BY <2>1, WholeOthers
  <1>5. CASE StartQuery(h)
    <2>1. /\ SetJob(h, Stage(job[h], "query")) /\ Stage(job[h], "query").pc # "insert"
          /\ by_key' = by_key /\ now' = now
      BY <1>5, Zenon DEF StartQuery, Stage, Arrive
    <2> QED BY <2>1, WholeOthers
  <1>6. CASE QueryStep(h)
    <2> DEFINE j == IF task'[h] # Idle THEN job[h]
                    ELSE [pc |-> AfterQuery, dg |-> job[h].dg, at |-> job[h].at, on |-> {}]
    <2>1. SetJob(h, j) /\ j.pc # "insert"
      BY <1>6, Zenon DEF QueryStep, AfterQuery
    <2>2. by_key' = by_key /\ now' = now
      BY <1>6, Zenon DEF QueryStep, TaskStep, FindAdditionals, Wake, RetainAnswer, AnswersDone,
                  RetainAdditional, Send
    <2> HIDE DEF j
    <2> QED BY <2>1, <2>2, WholeOthers
  <1>7. CASE Release(h)
    <2>1. SetJob(h, NoJob) /\ NoJob.pc # "insert" /\ by_key' = by_key /\ now' = now
      BY <1>7 DEF Release, NoJob, respVars
    <2> QED BY <2>1, WholeOthers
  <1> QED BY <1>1, <1>2, <1>3, <1>4, <1>5, <1>6, <1>7 DEF JobStep

LEMMA WholeEvictor ==
    ASSUME WholeInv, Evictor PROVE WholeInv'
  <1>1. job' = job /\ now' = now /\ by_key' = EvictExpired(by_key, now)
    BY DEF Evictor, Sweep
  <1>2. ASSUME NEW recs, NEW i, NEW todo, UpTo(recs, i, todo, by_key, now)
        PROVE  UpTo(recs, i, todo, by_key', now)
    BY <1>1, <1>2, EvictSays DEF UpTo
  <1>3. ASSUME NEW g \in Tasks PROVE InsertOK(job[g], by_key', now)
    BY <1>2, Zenon DEF WholeInv, InsertOK
  <1> QED BY <1>1, <1>3 DEF WholeInv

LEMMA WholeNext ==
    ASSUME CacheHolds, DInv, WholeInv, [Next]_vars PROVE WholeInv'
  <1>1. CASE UNCHANGED vars
    BY <1>1 DEF vars, respVars, WholeInv
  <1>2. CASE Tick
    BY <1>2 DEF Tick, WholeInv, InsertOK
  <1>3. ASSUME NEW h \in Tasks, NEW d \in Ids, Receive(h, d) PROVE WholeInv'
    <2> DEFINE j == [pc |-> "admit", dg |-> d, at |-> now]
    <2>1. SetJob(h, j) /\ j.pc # "insert" /\ by_key' = by_key /\ now' = now
      BY <1>3 DEF Receive, SetJob, respVars
    <2> HIDE DEF j
    <2> QED BY <2>1, WholeOthers
  <1> QED BY <1>1, <1>2, <1>3, WholeEvictor, WholeJobStep DEF Next

\* In a cache with room for what the peers publish, and unless another task's
\* insertions get in between: when handle_response_msg is through with a message,
\* whatever its sections hold, the cache says what the message says as a whole.
THEOREM WholeMessageAlways == ASSUME CacheHolds PROVE Spec => []WholeMessage
  <1>1. Init => WholeInv
    <2>1. NoJob.pc # "insert"
      BY DEF NoJob
    <2>2. Init => \A h \in Tasks : job[h] = NoJob
      BY DEF Init
    <2> QED BY <2>1, <2>2 DEF WholeInv, InsertOK
  <1>2. DInv /\ WholeInv /\ [Next]_vars => WholeInv'
    BY WholeNext
  <1>3. DInv /\ WholeInv => WholeMessage
    <2> SUFFICES ASSUME DInv, WholeInv, NEW h \in Tasks, Inserted(h), job[h].alone,
                        NEW recs, recs = RecordsOf(Dg(h)), NEW n \in DOMAIN recs,
                        ~\E m \in (n + 1)..Len(recs) :
                            \/ recs[m].key = recs[n].key
                            \/ recs[m].flush /\ recs[m].ttl > 0
                               /\ Sibling(recs[n].key, recs[m].key)
                 PROVE  recs[n].key \in DOMAIN by_key <=> recs[n].ttl > 0
      BY Zenon DEF WholeMessage, RecordsOf
    <2>1. job[h].pc = "insert" /\ job[h].todo = <<>>
      BY DEF Inserted
    <2>2. recs \in Seq(PeerRecs)
      BY <2>1, AtWork, RecordsOfType, Zenon DEF Dg
    <2>3. PICK i \in 0..Len(recs) : UpTo(recs, i, <<>>, by_key, now)
      <3>1. InsertOK(job[h], by_key, now)
        BY Zenon DEF WholeInv
      <3>2. RecordsOf(Datagrams[job[h].dg]) = recs
        BY Zenon DEF Dg
      <3> QED BY <2>1, <3>1, <3>2, Zenon DEF InsertOK
    <2>4. i = Len(recs) /\ n \in 1..i
      <3>1. Len(recs) \in Nat /\ DOMAIN recs = 1..Len(recs)
        BY <2>2
      <3>2. Len(<<>>) = Len(recs) - i
        BY <2>3, Zenon DEF UpTo
      <3>3. Len(recs) - i = 0
        BY <3>2
      <3>4. \A l \in Nat : \A k \in 0..l : l - k = 0 => k = l
        OBVIOUS
      <3>5. i = Len(recs)
        BY <3>1, <3>3, <3>4, Zenon
      <3> QED BY <3>1, <3>5
    <2>5. \A m \in (n + 1)..i : ~Undoes(recs[m], recs[n])
      BY <2>4, Zenon DEF Undoes
    <2>6. Says(by_key, recs[n], now)
      BY <2>3, <2>4, <2>5, Zenon DEF UpTo
    <2> QED BY <2>6 DEF Says
  <1> QED BY <1>1, <1>2, <1>3, DispatchInvariance, PTL DEF Spec

-----------------------------------------------------------------------------
\* What a step of the receive loop is to the responder: a step of its own, or none.
LEMMA DispatchStep == DInv /\ [Next]_vars => [AnyNext]_respVars
  <1> SUFFICES ASSUME DInv, [Next]_vars PROVE [AnyNext]_respVars
    OBVIOUS
  <1>1. CASE UNCHANGED vars
    BY <1>1 DEF vars
  <1>2. CASE Tick \/ Evictor
    BY <1>2 DEF Tick, Evictor, AnyNext
  <1>3. ASSUME NEW h \in Tasks, JobStep(h) PROVE [AnyNext]_respVars
    <2>1. CASE \/ Refuse(h) \/ StartResponse(h) \/ NotParsed(h) \/ NothingToAnswer(h)
               \/ ResponseDone(h) \/ Forward(h) \/ Release(h)
      <3>1. UNCHANGED respVars
        BY <2>1, Zenon DEF Refuse, StartResponse, NotParsed, NothingToAnswer, ResponseDone, Forward,
                    Release
      <3> QED BY <3>1
    <2>2. CASE StartQuery(h)
      <3> DEFINE msg == QueryOn(Dg(h).msg, SourceIfindex[job[h].dg])
      <3>1. job[h].pc = "admit" /\ RecvIdx[job[h].dg] # {} /\ Arrive(h, msg)
        BY <2>2, Zenon DEF StartQuery
      <3>2. msg.iface \in Ifaces
        BY <3>1, AtWork, SourceInIfaces, Zenon DEF QueryOn
      <3> HIDE DEF msg
      <3> QED BY <3>1, <3>2, Zenon DEF AnyNext
    <2>3. CASE QueryStep(h)
      BY <2>3, Zenon DEF QueryStep, AnyNext
    <2>4. CASE InsertRecord(h)
      <3> DEFINE p == [rec |-> Head(job[h].todo), iface |-> SourceIfindex[job[h].dg]]
      <3>1. Hear(p)
        BY <2>4, Zenon DEF InsertRecord
      <3>2. p.rec.key \in PeerKeys
        BY <2>4, HeadIsPeers
      <3> HIDE DEF p
      <3> QED BY <3>1, <3>2 DEF AnyNext
    <2> QED BY <1>3, <2>1, <2>2, <2>3, <2>4 DEF JobStep
  <1>4. ASSUME NEW h \in Tasks, NEW d \in Ids, Receive(h, d) PROVE [AnyNext]_respVars
    BY <1>4 DEF Receive
  <1> QED BY <1>1, <1>2, <1>3, <1>4 DEF Next

\* Seen by the responder, the receive loop is some traffic: handle_datagram and
\* handle_response_msg drive handle_query, the cache and the tracker only as the
\* responder's specification has it.
THEOREM DispatchIsResponder == Spec => AnySpec
  <1>1. Init => RespInit
    BY DEF Init
  <1> QED BY <1>1, DispatchStep, DispatchInvariance, PTL DEF Spec, AnySpec

\* So what is shown of the responder alone holds behind the receive loop, for any
\* number of permits: no two tasks send a record on one interface at once, no
\* response repeats what another one multicast within its interval, and the
\* cache-flush bit stays on our own unique records.
THEOREM DispatchResponds ==
    Spec => [](NoDoubleTransmit /\ ResponseSpacing /\ FlushOnlyOurs)
  BY DispatchIsResponder, AnyNoDoubleTransmit, AnyResponseSpacing, AnyFlushOnlyOurs, PTL

\* Behind the receive loop too, where sends succeed the tracker's stamps are of
\* multicasts that went out.
THEOREM DispatchStamps == ASSUME SendsSucceed PROVE Spec => []StampsWereSent
  BY DispatchIsResponder, AnyStampsWereSent, PTL

\* And no record is relayed later than the longest delay after the goodbye that
\* handle_response_msg inserted for it.
THEOREM DispatchHonoursGoodbye ==
    ASSUME PeersApart PROVE Spec => []GoodbyeHonouredAfterDelay
  BY DispatchIsResponder, AnyGoodbyeHonoured, PTL
=============================================================================
