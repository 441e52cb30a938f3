------------------------------ MODULE Dispatch ------------------------------
(***************************************************************************)
(* The receive loop of src/src/engine.rs and the tasks it spawns: main_loop *)
(* with its semaphore, handle_datagram with its filters, handle_query of    *)
(* Responder, handle_response_msg and the repeater's forward.  A task is a  *)
(* permit of the semaphore: a datagram that finds none free is dropped and  *)
(* changes nothing.                                                         *)
(***************************************************************************)
EXTENDS Responder, Repeater

CONSTANTS
    StateIfaces,  \* State.ifaces: the records of Addresses, ifindexes from Ifaces
    Lists,        \* [whitelist, blacklist] of the configuration, as written
    Repeat,       \* config repeat
    Datagrams     \* what the links carry, by an identifier: [kind, link, source,
                  \* mdns_port, recv_ifindex, msg, answers, authorities, additionals]

\* State.ifaces is a list; its interfaces are the links; Resolved::parse has
\* accepted the lists; a response carries records of the peers.
ASSUME DispatchAssumption ==
    /\ DOMAIN StateIfaces \subseteq Nat
    /\ {StateIfaces[n].ifindex : n \in DOMAIN StateIfaces} = Ifaces
    /\ Repeat \in BOOLEAN
    /\ Lists.whitelist = {} \/ Lists.blacklist = {}
    /\ \A e \in Lists.whitelist \cup Lists.blacklist : Entry(e) /\ parses(e)
    /\ \A p \in PeerRecords : p.rec.ttl \in Nat
    /\ \A d \in DOMAIN Datagrams :
          /\ Datagrams[d].kind \in {"query", "response", "other"}
          /\ Datagrams[d].link \in Ifaces /\ Datagrams[d].source \in Addrs
          /\ \A part \in {"answers", "authorities", "additionals"} :
                Datagrams[d][part] \in Seq({p.rec : p \in PeerRecords})

VARIABLES
    job,     \* handle_datagram calls: the permit's datagram and how far it is
    heardOn  \* history: where a key was heard in datagrams that should be let in

vars == <<respVars, job, heardOn>>

Ids == DOMAIN Datagrams
NoJob == [pc |-> "free"]
Dg(h) == Datagrams[job[h].dg]

\* One type invariant: a task runs handle_query just as long as its job says so.
DispatchTypeOK ==
    /\ RespTypeOK
    /\ \A h \in Tasks :
          /\ job[h].pc \in {"free", "admit", "query", "insert", "forward", "done"}
          /\ job[h].pc = "query" <=> task[h] # Idle
    /\ heardOn \in [PeerKeys -> SUBSET Ifaces]

Config ==
    [repeat |-> Repeat,
     whitelist |-> {parse_subnet(e) : e \in Lists.whitelist},
     blacklist |-> {parse_subnet(e) : e \in Lists.blacklist}]

\* main_loop: a permit is taken and a task spawned.
Receive(h, d) ==
    /\ job[h] = NoJob
    /\ \A t \in SharedDelay \cup TruncatedDelay : now + t <= MaxTime
    /\ job' = [job EXCEPT ![h] = [pc |-> "admit", dg |-> d, at |-> now]]
    /\ UNCHANGED <<respVars, heardOn>>

SetJob(h, j) == job' = [job EXCEPT ![h] = j]

\* The job goes on at another stage; it inserts; it is done.
Stage(j, pc) == [pc |-> pc, dg |-> j.dg, at |-> j.at]
Inserting(j, todo, alone) ==
    [pc |-> "insert", dg |-> j.dg, at |-> j.at, todo |-> todo, alone |-> alone]
Done(h, on) == SetJob(h, [pc |-> "done", dg |-> job[h].dg, at |-> job[h].at, on |-> on])

\* handle_datagram's recv_idx, an Option, and its source_ifindex.
RecvIdx == [d \in Ids |-> identify_recv_iface(Datagrams[d], StateIfaces)]
SourceIfindex ==
    [d \in Ids |-> IF RecvIdx[d] = {} THEN NoIface
                   ELSE StateIfaces[CHOOSE n \in RecvIdx[d] : TRUE].ifindex]

\* The datagrams that get past its early returns.
Admitted == {d \in Ids : Admits(Datagrams[d], StateIfaces, Config)}

\* The early returns of handle_datagram.
Refuse(h) ==
    /\ job[h].pc = "admit"
    /\ job[h].dg \notin Admitted
    /\ Done(h, {})
    /\ UNCHANGED <<respVars, heardOn>>

\* Mutant: a response's additionals are not looked at.
BadRecordsOf(dg) == dg.answers \o dg.authorities

\* The records of a response, in the order handle_response_msg takes them.
RecordsOf(dg) == dg.answers \o dg.authorities \o dg.additionals

StartResponse(h) ==
    /\ job[h].pc = "admit" /\ Dg(h).kind = "response"
    /\ job[h].dg \in Admitted
    /\ SetJob(h, Inserting(job[h], RecordsOf(Dg(h)), TRUE))
    /\ UNCHANGED <<respVars, heardOn>>

\* A payload that is no message is only repeated.
NotParsed(h) ==
    /\ job[h].pc = "admit" /\ Dg(h).kind = "other"
    /\ job[h].dg \in Admitted
    /\ SetJob(h, Stage(job[h], "forward"))
    /\ UNCHANGED <<respVars, heardOn>>

\* The query as handle_query gets it, with the interface it came in on.
QueryOn(msg, i) ==
    [iface |-> i, questions |-> msg.questions, known |-> msg.known,
     authority |-> msg.authority, tc |-> msg.tc]

\* handle_query_msg, with a known interface and something to answer.
StartQuery(h) ==
    /\ job[h].pc = "admit" /\ Dg(h).kind = "query"
    /\ job[h].dg \in Admitted
    /\ RecvIdx[job[h].dg] # {}
    /\ Arrive(h, QueryOn(Dg(h).msg, SourceIfindex[job[h].dg]))
    /\ SetJob(h, Stage(job[h], "query"))
    /\ UNCHANGED heardOn

NothingToAnswer(h) ==
    /\ job[h].pc = "admit" /\ Dg(h).kind = "query"
    /\ job[h].dg \in Admitted
    /\ \/ RecvIdx[job[h].dg] = {}
       \/ LET msg == Dg(h).msg
              i == SourceIfindex[job[h].dg]
          IN  ApplyKnownAnswers(CandidateAnswers(msg, i), msg) = {}
    /\ SetJob(h, Stage(job[h], "forward"))
    /\ UNCHANGED <<respVars, heardOn>>

\* Mutant: the query that was answered is not repeated.
BadAfterQuery == "done"

AfterQuery == "forward"

\* handle_query runs, with its delay; however it returns, the datagram goes on to
\* the repeater.
QueryStep(h) ==
    /\ job[h].pc = "query"
    /\ TaskStep(h)
    /\ SetJob(h, IF task'[h] # Idle THEN job[h]
                 ELSE [pc |-> AfterQuery, dg |-> job[h].dg, at |-> job[h].at, on |-> {}])
    /\ UNCHANGED heardOn

\* What should be let in: from port 5353, not from ourselves, and from a source
\* the lists permit.
Wanted ==
    {d \in Ids :
        /\ Datagrams[d].mdns_port
        /\ ~\E n \in DOMAIN StateIfaces : has_addr(StateIfaces[n], Datagrams[d].source)
        /\ Permits(Lists, Datagrams[d].source)}

\* handle_response_msg, one record at a time; `alone' is for the properties.
InsertRecord(h) ==
    /\ job[h].pc = "insert" /\ job[h].todo # <<>>
    /\ LET rec == Head(job[h].todo)
       IN  /\ Hear([rec |-> rec, iface |-> SourceIfindex[job[h].dg]])
           /\ heardOn' = [heardOn EXCEPT ![rec.key] =
                             heardOn[rec.key] \cup {i \in {Dg(h).link} : job[h].dg \in Wanted}]
    /\ job' = [g \in Tasks |->
                  IF g = h THEN Inserting(job[h], Tail(job[h].todo), job[h].alone)
                  ELSE IF job[g].pc = "insert" THEN Inserting(job[g], job[g].todo, FALSE)
                  ELSE job[g]]

Inserted(h) == job[h].pc = "insert" /\ job[h].todo = <<>>

ResponseDone(h) ==
    /\ Inserted(h)
    /\ SetJob(h, Stage(job[h], "forward"))
    /\ UNCHANGED <<respVars, heardOn>>

\* The links forward tries that have a socket of the datagram's family.
ForwardTo ==
    [d \in Ids |->
        LET fam == Datagrams[d].source.fam
        IN  {StateIfaces[n].ifindex :
                n \in {n \in forward_targets(RecvIdx[d], Datagrams[d].source, StateIfaces) :
                         Repeat /\ fam \in families(StateIfaces[n])}}]

\* forward; `on' is where the datagram got to.
Forward(h) ==
    /\ job[h].pc = "forward"
    /\ \E S \in SUBSET ForwardTo[job[h].dg] :
          /\ \A i \in ForwardTo[job[h].dg] : (i \in S) \in SendResults[i]
          /\ Done(h, S)
    /\ UNCHANGED <<respVars, heardOn>>

\* Mutant: the permit outlives a datagram that was refused.
BadRelease(h) ==
    /\ job[h].pc = "done"
    /\ job[h].on # {}
    /\ SetJob(h, NoJob)
    /\ UNCHANGED <<respVars, heardOn>>

\* The task is over and its permit returned.
Release(h) ==
    /\ job[h].pc = "done"
    /\ SetJob(h, NoJob)
    /\ UNCHANGED <<respVars, heardOn>>

JobStep(h) ==
    \/ Refuse(h) \/ StartResponse(h) \/ NotParsed(h) \/ StartQuery(h) \/ NothingToAnswer(h)
    \/ QueryStep(h)
    \/ InsertRecord(h) \/ ResponseDone(h)
    \/ Forward(h)
    \/ Release(h)

Evictor ==
    /\ Sweep
    /\ UNCHANGED <<job, heardOn>>

\* Only handle_query sleeps.
Tick ==
    /\ now < MaxTime
    /\ \A h \in Tasks : job[h].pc \in {"free", "query"}
    /\ RespTick
    /\ UNCHANGED <<job, heardOn>>

Init ==
    /\ RespInit
    /\ job = [h \in Tasks |-> NoJob]
    /\ heardOn = [k \in PeerKeys |-> {}]

Next ==
    \/ Tick
    \/ Evictor
    \/ \E h \in Tasks : JobStep(h) \/ \E d \in Ids : Receive(h, d)

\* The runtime polls a task that can run, and only finitely many datagrams arrive
\* within a tick.
Spec ==
    /\ Init /\ [][Next]_vars
    /\ SF_vars(Tick)
    /\ \A h \in Tasks : WF_vars(JobStep(h))

-----------------------------------------------------------------------------
\* "a 400-500 ms truncated-query delay must not block the receive loop": a permit
\* is kept by a query for no longer than the longest delay, and by a response or
\* anything else for no time at all; so 256 of them last, and a goodbye and the
\* announcement it overtakes were received in the same instant.
PermitHeldBriefly ==
    \A h \in Tasks : job[h] # NoJob =>
        now - job[h].at \in
            {0} \cup {d \in 0..MaxTime : /\ Dg(h).kind = "query"
                                         /\ \E m \in SharedDelay \cup TruncatedDelay : d <= m}

\* Every permit comes back, whichever way the handler takes.
PermitReturned == \A h \in Tasks : (job[h] # NoJob) ~> (job[h] = NoJob)

\* The cache has room for whatever the peers publish.
CacheHolds == IsFiniteSet(PeerKeys) /\ Cardinality(PeerKeys) <= MaxEntries

\* A response that nothing else interferes with leaves in the cache what its
\* records say together: those that no later record of the message withdraws or
\* flushes, whichever section they are in.
WholeMessage ==
    \A h \in Tasks : (Inserted(h) /\ job[h].alone) =>
        LET dg == Dg(h)
            recs == dg.answers \o dg.authorities \o dg.additionals
            undone(n) == \E m \in (n + 1)..Len(recs) :
                            \/ recs[m].key = recs[n].key
                            \/ recs[m].flush /\ recs[m].ttl > 0 /\ Sibling(recs[n].key, recs[m].key)
        IN  \A n \in DOMAIN recs : ~undone(n) =>
                (recs[n].key \in DOMAIN by_key <=> recs[n].ttl > 0)

\* No interface is configured twice.
IfacesDistinct ==
    \A n, m \in DOMAIN StateIfaces : StateIfaces[n].ifindex = StateIfaces[m].ifindex => n = m

\* The kernel reports the link itself, or nothing; then a source is on the subnet
\* of its own link only or, if it is link-local, on that of every interface with
\* IPv6.
LinksTell ==
    \A d \in Ids :
        LET dg == Datagrams[d]
        IN  /\ dg.recv_ifindex \subseteq {dg.link}
            /\ dg.recv_ifindex = {} => \A n \in DOMAIN StateIfaces :
                  IF dg.source.fam = "V6" /\ is_unicast_link_local_v6(dg.source.bits)
                  THEN "V6" \in families(StateIfaces[n]) => contains(StateIfaces[n], dg.source)
                  ELSE contains(StateIfaces[n], dg.source) => StateIfaces[n].ifindex = dg.link

\* What is cached was heard in a datagram that should be let in, and its source
\* is a link it was really heard on, with or without the kernel's word for it:
\* on this rests that answers do not go back where they come from.
LearnedWhereHeard ==
    \A k \in DOMAIN by_key :
        /\ heardOn[k] # {}
        /\ by_key[k].source \in heardOn[k] \cup {NoIface}

\* Whatever becomes of its query or response, a datagram that should be let in
\* is repeated to every other link with its family where sending works, never
\* back to its own, and nothing else is repeated.
RepeatedUnlessRefused ==
    \A h \in Tasks : job[h].pc = "done" =>
        LET dg == Dg(h)
            others == {StateIfaces[n].ifindex :
                         n \in {n \in DOMAIN StateIfaces :
                                  dg.source.fam \in families(StateIfaces[n])}} \ {dg.link}
        IN  IF Repeat /\ job[h].dg \in Wanted /\ RecvIdx[job[h].dg] # {}
            THEN /\ job[h].on \subseteq others
                 /\ {i \in others : SendResults[i] = {TRUE}} \subseteq job[h].on
            ELSE job[h].on = {}
=============================================================================
