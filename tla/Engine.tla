------------------------------- MODULE Engine -------------------------------
(***************************************************************************)
(* The life of the daemon: engine::run of src/src/engine.rs with probe_all, *)
(* announce_all and announce_goodbye of src/src/responder.rs, the signal    *)
(* watcher, and the query handlers of Responder.  A listener on every link  *)
(* hears all that is multicast there and remembers our records until their  *)
(* goodbye.                                                                 *)
(***************************************************************************)
EXTENDS Responder, Sequences

CONSTANTS
    IfaceSeq,        \* State.ifaces, in order
    ProbeJitter,     \* jitter_0_to_max(PROBE_INITIAL_MAX), in ticks
    PROBE_INTERVAL,  \* 250 ms
    ANNOUNCE_GAP,    \* one second
    MaxServe         \* bound on how long the daemon serves before it is stopped

\* iface::setup refuses an interface without an address, so every interface has
\* something to probe for, to announce and to withdraw: the `continue's and the
\* early return for empty lists are never taken.
ASSUME EngineAssumption ==
    /\ IfaceSeq \in Seq(Ifaces) /\ IfaceSeq # <<>>
    /\ \A i \in Ifaces : AddrV4[i] # NoAddr \/ AddrV6[i] # NoAddr
    /\ ProbeJitter \subseteq Nat
    /\ PROBE_INTERVAL \in Nat
    /\ ANNOUNCE_GAP \in Nat
    /\ \A d \in SharedDelay \cup TruncatedDelay : d < ANNOUNCE_GAP
    /\ MaxServe \in Nat

VARIABLES
    run,        \* where engine::run stands: phase, interface, round, wake-up time
    watching,   \* signal_watcher has installed its handlers
    signalled,  \* SIGINT or SIGTERM reached an installed handler
    shutdown,   \* State.shutdown is cancelled
    believed,   \* history: the slots of ours a listener on the link holds
    parted      \* history: the interfaces whose second goodbye went out

engineVars == <<run, watching, signalled, shutdown, believed, parted>>
vars == <<respVars, engineVars>>

Phases == {"probe", "probing", "announce", "gap", "serve",
           "goodbye", "byegap", "drain", "exit", "killed"}

\* One type invariant: the program counter of engine::run and the listeners.
EngineTypeOK ==
    /\ run \in [phase : Phases, idx : Nat, round : 0..2, wake : Nat]
    /\ {watching, signalled, shutdown} \subseteq BOOLEAN
    /\ believed \subseteq Slots
    /\ parted \subseteq Ifaces
    /\ RespTypeOK

Goto(phase, idx, round, wake) ==
    run' = [phase |-> phase, idx |-> idx, round |-> round, wake |-> wake]

OnlyRunMoves == UNCHANGED <<respVars, watching, signalled, shutdown, believed, parted>>

At(phase) == run.phase = phase /\ now >= run.wake
More == run.idx <= Len(IfaceSeq)
Iface == IfaceSeq[run.idx]
SlotsOf(i, recs) == {<<i, r.key>> : r \in recs}

\* probe_all: a jitter, then three probes, given up when a send fails.
ProbeIface ==
    /\ At("probe")
    /\ More
    /\ \E j \in ProbeJitter : Goto("probing", run.idx, 0, now + j)
    /\ OnlyRunMoves

\* Nothing has kept an instant of the probing: time is counted from here.
ProbesDone ==
    /\ At("probe")
    /\ ~More
    /\ Goto("announce", 1, 0, 0)
    /\ now' = 0
    /\ UNCHANGED <<by_key, last, task, onwire, bye,
                   watching, signalled, shutdown, believed, parted>>

\* Mutant: one probe too many.
BadSendProbe ==
    /\ At("probing")
    /\ \E ok \in SendResults[Iface] :
          IF ok /\ run.round <= 2
          THEN Goto("probing", run.idx, run.round + 1, now + PROBE_INTERVAL)
          ELSE Goto("probe", run.idx + 1, 0, now)
    /\ OnlyRunMoves

\* `round' counts the attempts.
SendProbe ==
    /\ At("probing")
    /\ \E ok \in SendResults[Iface] :
          IF ok /\ run.round < 2
          THEN Goto("probing", run.idx, run.round + 1, now + PROBE_INTERVAL)
          ELSE Goto("probe", run.idx + 1, 0, now)
    /\ OnlyRunMoves

\* Mutant: nothing is marked.
BadAnnounce ==
    /\ At("announce")
    /\ More
    /\ \E ok \in SendResults[Iface] :
          /\ onwire' = [s \in Slots |-> IF ok /\ s \in SlotsOf(Iface, Announcement(Iface))
                                        THEN now ELSE onwire[s]]
          /\ believed' = believed \cup {s \in SlotsOf(Iface, Announcement(Iface)) : ok}
    /\ Goto("announce", run.idx + 1, run.round, now)
    /\ UNCHANGED <<now, by_key, last, task, bye, watching, signalled, shutdown, parted>>

\* announce_all on one interface: the announcement goes out, and the unique
\* records of the interface are marked.
Announce ==
    /\ At("announce")
    /\ More
    /\ \E ok \in SendResults[Iface] :
          /\ onwire' = [s \in Slots |-> IF ok /\ s \in SlotsOf(Iface, Announcement(Iface))
                                        THEN now ELSE onwire[s]]
          /\ last' = [s \in Slots |-> IF ok /\ s \in SlotsOf(Iface, UniqueForIface(Iface))
                                      THEN now ELSE last[s]]
          /\ believed' = believed \cup {s \in SlotsOf(Iface, Announcement(Iface)) : ok}
    /\ Goto("announce", run.idx + 1, run.round, now)
    /\ UNCHANGED <<now, by_key, task, bye, watching, signalled, shutdown, parted>>

\* After the first round announce_all waits out ANNOUNCE_GAP (its select on
\* the shutdown token waits for a token nobody can cancel yet); after the
\* second the background tasks are spawned and the receive loop starts.
AnnounceRoundDone ==
    /\ At("announce")
    /\ ~More
    /\ \/ run.round = 0 /\ Goto("gap", 1, 0, now + ANNOUNCE_GAP)
       \/ run.round = 1 /\ Goto("serve", 1, 0, now)
    /\ OnlyRunMoves

AnnounceGap ==
    /\ At("gap")
    /\ Goto("announce", 1, 1, now)
    /\ OnlyRunMoves

\* signal_watcher runs for the first time.
InstallHandlers ==
    /\ run.phase = "serve"
    /\ ~watching
    /\ watching' = TRUE
    /\ UNCHANGED <<respVars, run, signalled, shutdown, believed, parted>>

\* SIGINT or SIGTERM: without a handler it ends the process.
Signal ==
    /\ run.phase \notin {"exit", "killed"}
    /\ \/ watching /\ ~signalled /\ signalled' = TRUE /\ UNCHANGED run
       \/ ~watching /\ Goto("killed", 1, 0, now) /\ UNCHANGED signalled
    /\ UNCHANGED <<respVars, watching, shutdown, believed, parted>>

\* Mutant: the watcher returns without cancelling the token.
BadSignalWatcher ==
    /\ signalled
    /\ UNCHANGED vars

SignalWatcher ==
    /\ signalled
    /\ ~shutdown
    /\ shutdown' = TRUE
    /\ UNCHANGED <<respVars, run, watching, signalled, believed, parted>>

\* main_loop returns once its select takes the cancelled branch.
LeaveMainLoop ==
    /\ At("serve")
    /\ shutdown
    /\ Goto("goodbye", 1, 0, now)
    /\ OnlyRunMoves

\* announce_goodbye on one interface; its errors are ignored.
Goodbyes ==
    /\ At("goodbye")
    /\ More
    /\ \E ok \in SendResults[Iface] :
          /\ believed' = believed \ {s \in SlotsOf(Iface, GoodbyeRecords) : ok}
          /\ parted' = parted \cup {i \in {Iface} : ok /\ run.round = 1}
    /\ Goto("goodbye", run.idx + 1, run.round, now)
    /\ UNCHANGED <<respVars, watching, signalled, shutdown>>

\* Mutant: no pause between the rounds.
BadGoodbyeRoundDone ==
    /\ At("goodbye")
    /\ ~More
    /\ \/ run.round = 0 /\ Goto("goodbye", 1, 1, now)
       \/ run.round = 1 /\ Goto("drain", 1, 0, now)
    /\ OnlyRunMoves

GoodbyeRoundDone ==
    /\ At("goodbye")
    /\ ~More
    /\ \/ run.round = 0 /\ Goto("byegap", 1, 0, now + ANNOUNCE_GAP)
       \/ run.round = 1 /\ Goto("drain", 1, 0, now)
    /\ OnlyRunMoves

GoodbyeGap ==
    /\ At("byegap")
    /\ Goto("goodbye", 1, 1, now)
    /\ OnlyRunMoves

\* The background tasks are awaited for at most 200 ms, less than a tick.
Drain ==
    /\ At("drain")
    /\ Goto("exit", 1, 0, now)
    /\ OnlyRunMoves

RunStep ==
    \/ ProbeIface \/ SendProbe \/ ProbesDone
    \/ Announce \/ AnnounceRoundDone \/ AnnounceGap
    \/ LeaveMainLoop
    \/ Goodbyes \/ GoodbyeRoundDone \/ GoodbyeGap
    \/ Drain

\* A handler that outlives the receive loop keeps running until the exit.
Alive == run.phase \notin {"exit", "killed"}

HandlerStep(h) ==
    /\ Alive
    /\ TaskStep(h)
    /\ believed' = believed \cup
          {s \in Slots : /\ ReadyToSend(h)
                         /\ s \in SlotsOf(task[h].iface, Sent(h))
                         /\ onwire'[s] = now}
    /\ UNCHANGED <<run, watching, signalled, shutdown, parted>>

\* main_loop spawns a handler for a query, and one for a peer's response.
Receive ==
    /\ run.phase = "serve"
    /\ \/ \E h \in Tasks, msg \in Queries : Arrive(h, msg)
       \/ \E p \in PeerRecords : Hear(p)
    /\ UNCHANGED engineVars

\* The select of cache_evictor may take the ready tick once more after the token
\* is cancelled.
Background ==
    /\ run.phase \in {"serve", "goodbye"}
    /\ Sweep
    /\ UNCHANGED engineVars

\* Time passes when nothing but sleeping is left to do.  While the daemon
\* serves, run.wake is the time it began to.
Tick ==
    /\ \/ Alive /\ now < run.wake
       \/ run.phase = "serve" /\ watching /\ ~signalled /\ now < run.wake + MaxServe
    /\ RespTick
    /\ UNCHANGED engineVars

Init ==
    /\ RespInit
    /\ run = [phase |-> "probe", idx |-> 1, round |-> 0, wake |-> 0]
    /\ watching = FALSE
    /\ signalled = FALSE
    /\ shutdown = FALSE
    /\ believed = {}
    /\ parted = {}

Next ==
    \/ Tick
    \/ RunStep
    \/ InstallHandlers
    \/ Signal
    \/ SignalWatcher
    \/ Background
    \/ Receive
    \/ \E h \in Tasks : HandlerStep(h)

\* The runtime polls whatever can run and time passes; signals are not owed.
Spec ==
    /\ Init /\ [][Next]_vars
    /\ SF_vars(Tick) /\ WF_vars(RunStep)
    /\ WF_vars(InstallHandlers) /\ WF_vars(SignalWatcher)
    /\ \A h \in Tasks : WF_vars(HandlerStep(h))

-----------------------------------------------------------------------------
\* Handlers still asleep when the goodbyes begin may answer after the first
\* round, but the second one has the last word, whether or not the first went
\* out: when the daemon has left, no listener it reached holds a record that
\* announce_goodbye withdraws.
GoodbyeIsLastWord ==
    run.phase = "exit" =>
        \A i \in parted : believed \cap SlotsOf(i, GoodbyeRecords) = {}

\* A unique record is not multicast within a second (250 ms in defence against
\* a probe) of its last multicast on the interface, announcements included.
UniqueSpacing ==
    \A h \in Tasks : ReadyToSend(h) =>
        \A r \in Sent(h) \cap UniqueForIface(task[h].iface) :
            LET t == onwire[<<task[h].iface, r.key>>]
            IN  t = Never \/ now - t >= task[h].iv

\* A signal that is handled leads to a graceful exit, whatever arrives and
\* whoever is asleep meanwhile.
SignalEndsDaemon == signalled ~> (run.phase = "exit")

-----------------------------------------------------------------------------
\* Three statements of the documentation that the code does not keep.

\* timing.rs: a responder "MUST NOT (except in the one special case of answering
\* probe queries) multicast a record on a given interface until at least one
\* second has elapsed since the last time that record was multicast on that
\* particular interface": announcements are multicasts, too.
MulticastSpacing ==
    \A h \in Tasks : ReadyToSend(h) => \A r \in Sent(h) :
        LET t == onwire[<<task[h].iface, r.key>>]
        IN  t = Never \/ now - t >= task[h].iv

\* tests/rfc6762.rs: a host sends "an unsolicited goodbye packet with a TTL of
\* zero" for every record it had advertised.
EveryAdvertisedWithdrawn ==
    run.phase = "exit" => \A i \in Ifaces : believed \cap SlotsOf(i, Published) = {}

\* README: "On SIGTERM / SIGINT it sends "goodbye" packets with TTL 0".
SignalSendsGoodbye == run.phase = "killed" => believed = {}
=============================================================================
