---------------------------- MODULE EngineProofs ----------------------------
(***************************************************************************)
(* The life of the daemon, for any interfaces, services, queries and        *)
(* delays: what its announcements and goodbyes have in common with the      *)
(* responses of the query handlers.                                         *)
(***************************************************************************)
EXTENDS Engine, ResponderProofs

\* announce_all multicasts the shared records without a stamp.
SharedSlots == {s \in Slots : s[2].type = "PTR"}

AllIdle == \A h \in Tasks : task[h] = Idle

Starting == run.phase \in {"probe", "probing", "announce", "gap"}
Leaving == run.phase \in {"drain", "exit"} \/ (run.phase = "goodbye" /\ run.round = 1)

RunInv ==
    /\ run \in [phase : Phases, idx : Nat \ {0}, round : 0..2, wake : Nat]
    /\ run.phase = "probing" => More
    /\ run.phase \in {"goodbye", "drain"} => run.wake <= now /\ run.round \in {0, 1}
    /\ {watching, signalled, shutdown} \subseteq BOOLEAN
    /\ believed \subseteq Slots
    /\ parted \subseteq Ifaces

\* Until the receive loop starts there are no handlers, and until the first
\* announcement nothing is on the wire.
StartInv ==
    /\ Starting => AllIdle
    /\ run.phase \in {"probe", "probing"} =>
          last = [s \in Slots |-> Never] /\ onwire = [s \in Slots |-> Never]

\* A call that sleeps at time n has drawn its delay by then.
WakesSoon(t, n) == t.pc = "sleep" => \E d \in Delays : t.wake \in Nat /\ t.wake <= n + d

\* A call that is over before time w.
OverBy(t, n, w) ==
    /\ t # Idle => n < w
    /\ t.pc = "lookup" => \A d \in Delays : n + d < w
    /\ t.pc = "sleep" => t.wake \in Nat /\ t.wake < w

\* The handlers that are left when the receive loop ends are done before the
\* second round of goodbyes, which nothing follows.
LeaveInv ==
    /\ \A h \in Tasks : WakesSoon(task[h], now)
    /\ run.phase = "byegap" => \A h \in Tasks : OverBy(task[h], now, run.wake)
    /\ Leaving => /\ AllIdle
                  /\ \A i \in parted : believed \cap SlotsOf(i, GoodbyeRecords) = {}
    /\ ~Leaving /\ run.phase # "killed" => parted = {}

EngineInv == Inv(SharedSlots) /\ RunInv /\ StartInv /\ LeaveInv

-----------------------------------------------------------------------------
\* The records announced: all on their interface's slots, all unique but the PTRs.
LEMMA AnnouncementSlots ==
    ASSUME NEW i \in Ifaces
    PROVE  /\ SlotsOf(i, Announcement(i)) \subseteq Slots
           /\ SlotsOf(i, Announcement(i)) \subseteq
                 SlotsOf(i, UniqueForIface(i)) \cup SharedSlots
  <1> SUFFICES ASSUME NEW r \in Announcement(i)
               PROVE  /\ <<i, r.key>> \in Slots
                      /\ r \in UniqueForIface(i) \/ r.key.type = "PTR"
    BY DEF SlotsOf, SharedSlots
  <1>1. CASE r \in HostRecordsForIface(i)
    <2>1. r \in Published
      BY <1>1 DEF HostRecordsForIface, Published
    <2> QED BY <1>1, <2>1 DEF Slots, AllKeys, UniqueForIface
  <1>2. ASSUME NEW s \in ServiceConfigs, r \in {Srv(s), Txt(s)}
        PROVE  <<i, r.key>> \in Slots /\ r \in UniqueForIface(i)
    <2>1. r \in Published
      BY <1>2 DEF Published
    <2>2. r \in UniqueServiceRecords
      BY <1>2 DEF UniqueServiceRecords
    <2> QED BY <2>1, <2>2 DEF Slots, AllKeys, UniqueForIface
  <1>3. ASSUME NEW s \in ServiceConfigs, r \in {PtrTypeToInstance(s), PtrMetaToType(s)}
        PROVE  <<i, r.key>> \in Slots /\ r.key.type = "PTR"
    <2>1. r \in Published
      BY <1>3 DEF Published
    <2>2. r.key.type = "PTR"
      BY <1>3 DEF PtrTypeToInstance, PtrMetaToType, Record
    <2> QED BY <2>1, <2>2 DEF Slots, AllKeys
  <1> QED BY <1>1, <1>2, <1>3 DEF Announcement

LEMMA UniqueNotShared ==
    ASSUME NEW i, NEW r \in UniqueForIface(i) PROVE r.key.type # "PTR"
  <1>1. CASE r \in HostRecordsForIface(i)
    BY <1>1 DEF HostRecordsForIface, host_a, host_aaaa, HostRecords, Record
  <1>2. ASSUME NEW s \in ServiceConfigs, r \in {Srv(s), Txt(s)} PROVE r.key.type # "PTR"
    BY <1>2 DEF Srv, Txt, Record
  <1> QED BY <1>1, <1>2 DEF UniqueForIface, UniqueServiceRecords

-----------------------------------------------------------------------------
\* A step of engine::run that neither sends nor waits for anyone.
LEMMA RunMoves ==
    ASSUME EngineInv, OnlyRunMoves PROVE Inv(SharedSlots)'
  <1>1. PICK U : U = SharedSlots
    OBVIOUS
  <1>2. Inv(U)'
    BY <1>1, StutterInv DEF EngineInv, OnlyRunMoves
  <1> QED BY <1>1, <1>2

LEMMA ProbeStep ==
    ASSUME EngineInv, ProbeIface \/ SendProbe PROVE EngineInv'
  <1>1. OnlyRunMoves /\ run.phase \in {"probe", "probing"} /\ now \in Nat
    BY DEF ProbeIface, SendProbe, At, EngineInv, Inv, TypeInv
  <1>2. Inv(SharedSlots)'
    BY <1>1, RunMoves
  <1>3. PICK phase \in {"probe", "probing"}, idx \in Nat \ {0}, round \in 0..2, wake \in Nat :
          /\ Goto(phase, idx, round, wake)
          /\ phase = "probing" => idx <= Len(IfaceSeq)
    <2>1. CASE ProbeIface
      <3>1. PICK j \in ProbeJitter : Goto("probing", run.idx, 0, now + j)
        BY <2>1 DEF ProbeIface
      <3>2. run.idx \in Nat \ {0} /\ run.idx <= Len(IfaceSeq) /\ now + j \in Nat
        BY <2>1, <1>1, EngineAssumption DEF ProbeIface, More, EngineInv, RunInv
      <3> QED BY <3>1, <3>2
    <2>2. CASE SendProbe
      <3>1. run.idx \in Nat \ {0} /\ run.idx <= Len(IfaceSeq) /\ run.round \in 0..2
        BY <2>2 DEF SendProbe, At, More, EngineInv, RunInv
      <3>2. \/ run.round < 2 /\ Goto("probing", run.idx, run.round + 1, now + PROBE_INTERVAL)
            \/ Goto("probe", run.idx + 1, 0, now)
        BY <2>2 DEF SendProbe
      <3>3. CASE run.round < 2 /\ Goto("probing", run.idx, run.round + 1, now + PROBE_INTERVAL)
        <4>1. run.round + 1 \in 0..2 /\ now + PROBE_INTERVAL \in Nat
          BY <3>1, <3>3, <1>1, EngineAssumption
        <4> QED BY <3>1, <3>3, <4>1
      <3>4. CASE Goto("probe", run.idx + 1, 0, now)
        <4>1. run.idx + 1 \in Nat \ {0}
          BY <3>1
        <4> QED BY <3>4, <4>1, <1>1
      <3> QED BY <3>2, <3>3, <3>4
    <2> QED BY <2>1, <2>2
  <1>4. run'.phase = phase /\ run'.idx = idx /\ run'.round = round /\ run'.wake = wake
    BY <1>3 DEF Goto
  <1>5. /\ UNCHANGED <<now, by_key, last, task, onwire, bye, watching, signalled, shutdown>>
        /\ UNCHANGED <<believed, parted>>
    BY <1>1 DEF OnlyRunMoves, respVars
  <1>6. RunInv'
    BY <1>3, <1>4, <1>5 DEF EngineInv, RunInv, Goto, Phases, More, Slots, AllKeys, PeerKeys
  <1>7. StartInv'
    BY <1>1, <1>4, <1>5 DEF EngineInv, StartInv, Starting, AllIdle, Slots, AllKeys, PeerKeys
  <1>8. LeaveInv'
    BY <1>1, <1>3, <1>4, <1>5 DEF EngineInv, LeaveInv, Leaving, AllIdle
  <1> QED BY <1>2, <1>6, <1>7, <1>8 DEF EngineInv

\* What a phase asks of the calls in progress and of the listeners.
LEMMA MoveTo ==
    ASSUME EngineInv, OnlyRunMoves, NEW phase \in Phases \ {"probe", "probing"},
           NEW idx \in Nat \ {0}, NEW round \in {0, 1}, NEW wake \in Nat,
           Goto(phase, idx, round, wake),
           phase \in {"announce", "gap"} => AllIdle,
           phase \in {"goodbye", "drain"} => wake <= now,
           phase = "byegap" => \A h \in Tasks : OverBy(task[h], now, wake),
           (phase \in {"drain", "exit"} \/ (phase = "goodbye" /\ round = 1)) =>
              AllIdle /\ \A i \in parted : believed \cap SlotsOf(i, GoodbyeRecords) = {},
           (phase \in {"announce", "gap", "serve", "byegap"}
               \/ (phase = "goodbye" /\ round # 1)) => parted = {}
    PROVE  EngineInv'
  <1>1. Inv(SharedSlots)'
    BY RunMoves
  <1>2. run'.phase = phase /\ run'.idx = idx /\ run'.round = round /\ run'.wake = wake
    BY DEF Goto
  <1>3. /\ UNCHANGED <<now, by_key, last, task, onwire, bye, watching, signalled, shutdown>>
        /\ UNCHANGED <<believed, parted>>
    BY DEF OnlyRunMoves, respVars
  <1>4. RunInv'
    BY <1>2, <1>3 DEF EngineInv, RunInv, Goto, More, Slots, AllKeys, PeerKeys
  <1>5. StartInv'
    BY <1>2, <1>3 DEF EngineInv, StartInv, Starting, AllIdle
  <1>6. LeaveInv'
    <2>1. \A h \in Tasks : WakesSoon(task'[h], now')
      BY <1>3 DEF EngineInv, LeaveInv
    <2>2. run'.phase = "byegap" => \A h \in Tasks : OverBy(task'[h], now', run'.wake)
      BY <1>2, <1>3
    <2>3. Leaving' <=> (phase \in {"drain", "exit"} \/ (phase = "goodbye" /\ round = 1))
      BY <1>2 DEF Leaving
    <2>4. AllIdle' <=> AllIdle
      BY <1>3 DEF AllIdle
    <2>5. ~Leaving' /\ run'.phase # "killed" => parted' = {}
      BY <1>2, <1>3, <2>3 DEF Phases
    <2> QED BY <1>3, <2>1, <2>2, <2>3, <2>4, <2>5 DEF LeaveInv
  <1> QED BY <1>1, <1>4, <1>5, <1>6 DEF EngineInv

LEMMA QuietRunStep ==
    ASSUME EngineInv,
           AnnounceRoundDone \/ AnnounceGap \/ LeaveMainLoop \/ GoodbyeRoundDone
              \/ GoodbyeGap \/ Drain
    PROVE  EngineInv'
  <1>0. /\ now \in Nat /\ run.wake \in Nat /\ ANNOUNCE_GAP \in Nat
        /\ \A d \in Delays : d \in Nat /\ d < ANNOUNCE_GAP
        /\ \A h \in Tasks : WakesSoon(task[h], now)
        /\ RunInv /\ StartInv /\ LeaveInv
    <2>1. PICK e \in SharedDelay : e \in Nat
      BY ResponderAssumption, Zenon
    <2>2. e < ANNOUNCE_GAP /\ ANNOUNCE_GAP \in Nat
      BY EngineAssumption
    <2>3. \A d \in Delays : d \in Nat /\ d < ANNOUNCE_GAP
      BY <2>1, <2>2, DelaysType, EngineAssumption DEF Delays
    <2> QED BY <2>2, <2>3 DEF EngineInv, Inv, TypeInv, RunInv, LeaveInv
  <1>1. CASE AnnounceRoundDone
    <2>1. OnlyRunMoves /\ AllIdle /\ parted = {}
      BY <1>0, <1>1 DEF AnnounceRoundDone, At, StartInv, Starting, LeaveInv, Leaving
    <2>2. CASE Goto("gap", 1, 0, now + ANNOUNCE_GAP)
      BY <2>1, <2>2, <1>0, MoveTo DEF Phases
    <2>3. CASE Goto("serve", 1, 0, now)
      BY <2>1, <2>3, <1>0, MoveTo DEF Phases
    <2> QED BY <1>1, <2>2, <2>3 DEF AnnounceRoundDone
  <1>2. CASE AnnounceGap
    <2>1. OnlyRunMoves /\ AllIdle /\ parted = {} /\ Goto("announce", 1, 1, now)
      BY <1>0, <1>2 DEF AnnounceGap, At, StartInv, Starting, LeaveInv, Leaving
    <2> QED BY <2>1, <1>0, MoveTo DEF Phases
  <1>3. CASE LeaveMainLoop
    <2>1. OnlyRunMoves /\ parted = {} /\ Goto("goodbye", 1, 0, now)
      BY <1>0, <1>3 DEF LeaveMainLoop, At, LeaveInv, Leaving
    <2> QED BY <2>1, <1>0, MoveTo DEF Phases
  <1>4. CASE GoodbyeRoundDone
    <2>1. CASE run.round = 0 /\ Goto("byegap", 1, 0, now + ANNOUNCE_GAP)
      <3>1. OnlyRunMoves /\ parted = {}
        BY <1>0, <1>4, <2>1 DEF GoodbyeRoundDone, At, LeaveInv, Leaving
      <3>2. ASSUME NEW h \in Tasks PROVE OverBy(task[h], now, now + ANNOUNCE_GAP)
        <4>1. now < now + ANNOUNCE_GAP
          BY <1>0 DEF Delays
        <4>2. WakesSoon(task[h], now)
          BY <1>0
        <4> QED BY <4>1, <4>2, <1>0 DEF OverBy, WakesSoon
      <3> QED BY <2>1, <3>1, <3>2, <1>0, MoveTo DEF Phases
    <2>2. CASE run.round = 1 /\ Goto("drain", 1, 0, now)
      <3>1. OnlyRunMoves /\ Leaving
        BY <1>4, <2>2 DEF GoodbyeRoundDone, At, Leaving
      <3> QED BY <2>2, <3>1, <1>0, MoveTo DEF Phases, LeaveInv
    <2> QED BY <1>4, <2>1, <2>2 DEF GoodbyeRoundDone
  <1>5. CASE GoodbyeGap
    <2>1. OnlyRunMoves /\ parted = {} /\ Goto("goodbye", 1, 1, now) /\ now >= run.wake
      BY <1>0, <1>5 DEF GoodbyeGap, At, LeaveInv, Leaving
    <2>2. \A h \in Tasks : OverBy(task[h], now, run.wake)
      BY <1>0, <1>5 DEF GoodbyeGap, At, LeaveInv
    <2>3. AllIdle
      BY <1>0, <2>1, <2>2 DEF AllIdle, OverBy
    <2> QED BY <2>1, <2>3, <1>0, MoveTo DEF Phases
  <1>6. CASE Drain
    <2>1. OnlyRunMoves /\ Leaving /\ Goto("exit", 1, 0, now)
      BY <1>6 DEF Drain, At, Leaving
    <2> QED BY <2>1, <1>0, MoveTo DEF Phases, LeaveInv
  <1> QED BY <1>1, <1>2, <1>3, <1>4, <1>5, <1>6

\* Nobody has been granted anything while there are no calls.
LEMMA IdleGrants ==
    ASSUME AllIdle PROVE \A h \in Tasks : GrantedSlots(h) = {}
  <1>1. GrantsOf(Idle) = {}
    BY DEF GrantsOf, Idle
  <1> QED BY <1>1, GrantsAre DEF AllIdle

LEMMA IdleGrantsNext ==
    ASSUME AllIdle' PROVE \A h \in Tasks : GrantedSlots(h)' = {}
  <1>1. GrantsOf(Idle) = {}
    BY DEF GrantsOf, Idle
  <1> QED BY <1>1, GrantsAreNext DEF AllIdle

\* The clock can be set back because nothing has been stamped yet.
LEMMA ProbesDoneInv ==
    ASSUME EngineInv, ProbesDone PROVE EngineInv'
  <1>1. /\ now' = 0 /\ UNCHANGED <<by_key, last, task, onwire, bye>>
        /\ UNCHANGED <<watching, signalled, shutdown, believed, parted>>
        /\ Goto("announce", 1, 0, 0) /\ run.phase = "probe"
    BY DEF ProbesDone, At
  <1>2. /\ AllIdle /\ parted = {}
        /\ last = [s \in Slots |-> Never] /\ onwire = [s \in Slots |-> Never]
    BY <1>1 DEF EngineInv, StartInv, Starting, LeaveInv, Leaving
  <1>3. AllIdle'
    BY <1>1, <1>2 DEF AllIdle
  <1>4. Inv(SharedSlots)'
    <2>1. PICK U : U = SharedSlots
      OBVIOUS
    <2>2. TypeInv'
      BY <1>1 DEF EngineInv, Inv, TypeInv
    <2>3. GrantInv(U)' /\ Disjoint'
      BY <1>3, IdleGrantsNext DEF GrantInv, Disjoint
    <2>4. StampInv(U)'
      BY <1>1, <1>2 DEF StampInv, Never, Slots, AllKeys, PeerKeys
    <2>5. Inv(U)'
      BY <2>2, <2>3, <2>4 DEF Inv
    <2> QED BY <2>1, <2>5
  <1>5. RunInv'
    BY <1>1 DEF EngineInv, RunInv, Goto, Phases, Slots, AllKeys, PeerKeys
  <1>6. StartInv'
    BY <1>1, <1>3 DEF StartInv, Goto
  <1>7. LeaveInv'
    BY <1>1, <1>2, <1>3 DEF LeaveInv, Goto, Leaving, AllIdle, WakesSoon, Idle
  <1> QED BY <1>4, <1>5, <1>6, <1>7 DEF EngineInv

\* An announcement stamps what it multicasts, the shared records excepted.
LEMMA AnnounceInv ==
    ASSUME EngineInv, Announce PROVE EngineInv'
  <1>1. /\ UNCHANGED <<now, by_key, task, bye>>
        /\ UNCHANGED <<watching, signalled, shutdown, parted>>
        /\ Goto("announce", run.idx + 1, run.round, now) /\ run.phase = "announce" /\ More
    BY DEF Announce, At
  <1>2. /\ AllIdle /\ parted = {} /\ now \in Nat /\ run.idx \in Nat \ {0} /\ run.round \in 0..2
        /\ last \in [Slots -> Instants] /\ onwire \in [Slots -> Instants] /\ believed \subseteq Slots
    BY <1>1 DEF EngineInv, Inv, TypeInv, RunInv, StartInv, Starting, LeaveInv, Leaving
  <1>3. Iface \in Ifaces
    BY <1>1, <1>2, EngineAssumption DEF Iface, More
  <1>4. PICK ok :
          /\ onwire' = [s \in Slots |-> IF ok /\ s \in SlotsOf(Iface, Announcement(Iface))
                                        THEN now ELSE onwire[s]]
          /\ last' = [s \in Slots |-> IF ok /\ s \in SlotsOf(Iface, UniqueForIface(Iface))
                                      THEN now ELSE last[s]]
          /\ believed' = believed \cup {s \in SlotsOf(Iface, Announcement(Iface)) : ok}
    BY DEF Announce
  <1>5. /\ SlotsOf(Iface, Announcement(Iface)) \subseteq Slots
        /\ SlotsOf(Iface, Announcement(Iface)) \subseteq
              SlotsOf(Iface, UniqueForIface(Iface)) \cup SharedSlots
    BY <1>3, AnnouncementSlots
  <1>6. AllIdle'
    BY <1>1, <1>2 DEF AllIdle
  <1>7. Inv(SharedSlots)'
    <2>1. PICK U : U = SharedSlots
      OBVIOUS
    <2>2. TypeInv'
      <3>1. last' \in [Slots -> Instants] /\ onwire' \in [Slots -> Instants]
        BY <1>2, <1>4 DEF Instants
      <3> QED BY <1>1, <3>1 DEF EngineInv, Inv, TypeInv
    <2>3. GrantInv(U)' /\ Disjoint'
      BY <1>6, IdleGrantsNext DEF GrantInv, Disjoint
    <2>4. StampInv(U)'
      <3> SUFFICES ASSUME NEW s \in Slots
                   PROVE  /\ last'[s] <= now /\ onwire'[s] <= now
                          /\ \/ s \in U \/ onwire'[s] = Never
                             \/ now - onwire'[s] >= MIN_MULTICAST_INTERVAL
                             \/ last'[s] >= onwire'[s]
        BY <1>1 DEF StampInv, Slots, AllKeys, PeerKeys
      <3>1. /\ last[s] <= now /\ onwire[s] <= now
            /\ \/ s \in U \/ onwire[s] = Never \/ now - onwire[s] >= MIN_MULTICAST_INTERVAL
               \/ last[s] >= onwire[s]
        BY <2>1 DEF EngineInv, Inv, StampInv
      <3>2. \/ last'[s] = last[s] /\ onwire'[s] = onwire[s]
            \/ last'[s] = now /\ onwire'[s] \in {now, onwire[s]}
            \/ last'[s] = last[s] /\ onwire'[s] = now /\ s \in U
        BY <1>4, <1>5, <2>1
      <3>3. last[s] \in Instants /\ onwire[s] \in Instants
        BY <1>2
      <3> QED BY <3>1, <3>2, <3>3, <1>2 DEF Instants, Never
    <2>5. Inv(U)'
      BY <2>2, <2>3, <2>4 DEF Inv
    <2> QED BY <2>1, <2>5
  <1>8. RunInv'
    <2>1. believed' \subseteq Slots
      BY <1>2, <1>4, <1>5
    <2> QED BY <1>1, <1>2, <2>1 DEF EngineInv, RunInv, Goto, Phases, Slots, AllKeys, PeerKeys
  <1>9. StartInv'
    BY <1>1, <1>6 DEF StartInv, Goto
  <1>10. LeaveInv'
    BY <1>1, <1>2, <1>6 DEF LeaveInv, Goto, Leaving, AllIdle, WakesSoon, Idle
  <1> QED BY <1>7, <1>8, <1>9, <1>10 DEF EngineInv

LEMMA GoodbyesInv ==
    ASSUME EngineInv, Goodbyes PROVE EngineInv'
  <1>1. /\ UNCHANGED respVars /\ UNCHANGED <<watching, signalled, shutdown>>
        /\ Goto("goodbye", run.idx + 1, run.round, now) /\ run.phase = "goodbye" /\ More
    BY DEF Goodbyes, At
  <1>2. /\ UNCHANGED <<now, by_key, last, task, onwire, bye>> /\ now \in Nat
        /\ run.idx \in Nat \ {0} /\ run.round \in {0, 1}
    BY <1>1 DEF respVars, EngineInv, Inv, TypeInv, RunInv
  <1>3. PICK ok : /\ believed' = believed \ {s \in SlotsOf(Iface, GoodbyeRecords) : ok}
                  /\ parted' = parted \cup {i \in {Iface} : ok /\ run.round = 1}
    BY DEF Goodbyes
  <1>4. Inv(SharedSlots)'
    <2>1. PICK U : U = SharedSlots
      OBVIOUS
    <2>2. Inv(U)'
      BY <1>1, <2>1, StutterInv DEF EngineInv
    <2> QED BY <2>1, <2>2
  <1>5. RunInv'
    <2>1. Iface \in Ifaces
      BY <1>1, <1>2, EngineAssumption DEF Iface, More
    <2>2. believed' \subseteq Slots /\ parted' \subseteq Ifaces
      BY <1>3, <2>1 DEF EngineInv, RunInv
    <2> QED BY <1>1, <1>2, <2>2 DEF EngineInv, RunInv, Goto, Phases, Slots, AllKeys, PeerKeys
  <1>6. StartInv'
    BY <1>1 DEF StartInv, Starting, Goto
  <1>7. LeaveInv'
    <2>1. \A h \in Tasks : WakesSoon(task'[h], now')
      BY <1>2 DEF EngineInv, LeaveInv
    <2>2. run'.phase = "goodbye" /\ run'.round = run.round
      BY <1>1 DEF Goto
    <2>3. CASE run.round = 0
      <3>1. parted' = {}
        BY <1>1, <1>3, <2>3 DEF EngineInv, LeaveInv, Leaving
      <3> QED BY <2>1, <2>2, <2>3, <3>1 DEF LeaveInv, Leaving
    <2>4. CASE run.round = 1
      <3>1. AllIdle /\ \A i \in parted : believed \cap SlotsOf(i, GoodbyeRecords) = {}
        BY <1>1, <2>4 DEF EngineInv, LeaveInv, Leaving
      <3>2. AllIdle'
        BY <1>2, <3>1 DEF AllIdle
      <3>3. \A i \in parted' : believed' \cap SlotsOf(i, GoodbyeRecords) = {}
        BY <1>3, <3>1
      <3> QED BY <2>1, <2>2, <2>4, <3>2, <3>3 DEF LeaveInv, Leaving
    <2> QED BY <1>2, <2>3, <2>4
  <1> QED BY <1>4, <1>5, <1>6, <1>7 DEF EngineInv

LEMMA SignalsInv ==
    ASSUME EngineInv, InstallHandlers \/ Signal \/ SignalWatcher PROVE EngineInv'
  <1>0. now \in Nat /\ RunInv
    BY DEF EngineInv, Inv, TypeInv
  <1>1. CASE Goto("killed", 1, 0, now) /\ OnlyRunMoves
    BY <1>0, <1>1, MoveTo DEF Phases
  <1>2. CASE /\ UNCHANGED <<respVars, run, believed, parted>>
             /\ {watching', signalled', shutdown'} \subseteq BOOLEAN
    <2>1. UNCHANGED <<now, by_key, last, task, onwire, bye, run, believed, parted>>
      BY <1>2 DEF respVars
    <2>2. Inv(SharedSlots)'
      <3>1. PICK U : U = SharedSlots
        OBVIOUS
      <3>2. Inv(U)'
        BY <1>2, <3>1, StutterInv DEF EngineInv
      <3> QED BY <3>1, <3>2
    <2>3. RunInv'
      BY <1>0, <1>2, <2>1 DEF RunInv, More, Slots, AllKeys, PeerKeys
    <2>4. StartInv' /\ LeaveInv'
      BY <2>1 DEF EngineInv, StartInv, LeaveInv, Starting, Leaving, AllIdle, Slots, AllKeys,
                  PeerKeys
    <2> QED BY <2>2, <2>3, <2>4 DEF EngineInv
  <1> QED BY <1>0, <1>1, <1>2, Zenon
          DEF InstallHandlers, Signal, SignalWatcher, OnlyRunMoves, RunInv

LEMMA BackgroundInv ==
    ASSUME EngineInv, Background PROVE EngineInv'
  <1>1. /\ Sweep /\ UNCHANGED <<now, task, run, watching, signalled, shutdown, believed, parted>>
        /\ run.phase \in {"serve", "goodbye"}
    BY DEF Background, Sweep, engineVars
  <1>2. Inv(SharedSlots)'
    <2>1. PICK U : U = SharedSlots
      OBVIOUS
    <2>2. Inv(U)'
      BY <1>1, <2>1, SweepInv DEF EngineInv
    <2> QED BY <2>1, <2>2
  <1>3. RunInv'
    BY <1>1 DEF EngineInv, RunInv, More, Slots, AllKeys, PeerKeys
  <1>4. StartInv' /\ LeaveInv'
    BY <1>1 DEF EngineInv, StartInv, LeaveInv, Starting, Leaving, AllIdle
  <1> QED BY <1>2, <1>3, <1>4 DEF EngineInv

LEMMA ReceiveInv ==
    ASSUME EngineInv, Receive PROVE EngineInv'
  <1>1. /\ UNCHANGED <<run, watching, signalled, shutdown, believed, parted>>
        /\ run.phase = "serve"
    BY DEF Receive, engineVars
  <1>2. PICK U : U = SharedSlots
    OBVIOUS
  <1>3. /\ Inv(U)' /\ now' = now
        /\ \A h \in Tasks : WakesSoon(task'[h], now)
    <2>0. Inv(U) /\ \A h \in Tasks : WakesSoon(task[h], now)
      BY <1>2 DEF EngineInv, LeaveInv
    <2>1. ASSUME NEW h \in Tasks, NEW msg \in Queries, Arrive(h, msg)
          PROVE  Inv(U)' /\ now' = now /\ \A g \in Tasks : WakesSoon(task'[g], now)
      <3>1. Inv(U)' /\ now' = now
        BY <2>0, <2>1, ArriveInv, ResponderAssumption, Zenon DEF Arrive
      <3> DEFINE ans == ApplyKnownAnswers(CandidateAnswers(msg, msg.iface), msg)
                 t == [pc |-> "lookup", iface |-> msg.iface, answers |-> ans, msg |-> msg]
      <3>2. Becomes(h, t)
        BY <2>0, <2>1, UpdateTask, Zenon DEF Arrive, Inv
      <3>3. WakesSoon(t, now)
        BY DEF WakesSoon
      <3> HIDE DEF t
      <3> QED BY <2>0, <3>1, <3>2, <3>3 DEF Becomes
    <2>2. ASSUME NEW p \in PeerRecords, Hear(p)
          PROVE  Inv(U)' /\ now' = now /\ \A g \in Tasks : WakesSoon(task'[g], now)
      BY <2>0, <2>2, HearInv, Zenon DEF Hear, PeerKeys
    <2> QED BY <2>1, <2>2 DEF Receive
  <1>4. RunInv'
    BY <1>1, <1>3 DEF EngineInv, RunInv, Slots, AllKeys, PeerKeys
  <1>5. StartInv' /\ LeaveInv'
    BY <1>1, <1>3 DEF EngineInv, StartInv, LeaveInv, Starting, Leaving
  <1> QED BY <1>2, <1>3, <1>4, <1>5 DEF EngineInv

\* A handler that is left over uses up the time it has drawn, and no more.
LEMMA HandlerInv ==
    ASSUME EngineInv, NEW h \in Tasks, HandlerStep(h) PROVE EngineInv'
  <1>1. /\ TaskStep(h) /\ UNCHANGED <<run, watching, signalled, shutdown, parted>>
        /\ TypeInv /\ now \in Nat /\ run.wake \in Nat
    BY DEF HandlerStep, EngineInv, Inv, TypeInv, RunInv
  <1>2. PICK t : StepsTo(h, t)
    BY <1>1, StepShape
  <1>3. task[h] # Idle /\ now' = now
    BY <1>1, StepShape
  <1>4. ~Starting /\ ~Leaving
    BY <1>3 DEF EngineInv, StartInv, LeaveInv, AllIdle
  <1>5. ~Starting' /\ ~Leaving'
    BY <1>1, <1>4 DEF Starting, Leaving
  <1>6. Inv(SharedSlots)'
    <2>1. PICK U : U = SharedSlots
      OBVIOUS
    <2>2. Inv(U)'
      BY <1>1, <2>1, TaskStepInv DEF EngineInv
    <2> QED BY <2>1, <2>2
  <1>7. RunInv'
    <2>1. believed' \subseteq Slots
      BY DEF HandlerStep, EngineInv, RunInv
    <2> QED BY <1>1, <1>3, <2>1 DEF EngineInv, RunInv, More, Slots, AllKeys, PeerKeys
  <1>8. StartInv'
    BY <1>5 DEF StartInv, Starting
  <1>9. \A g \in Tasks : WakesSoon(task'[g], now)
    <2>1. WakesSoon(t, now)
      BY <1>1, <1>2, DelaysType DEF WakesSoon, StepsTo
    <2> QED BY <1>2, <2>1 DEF StepsTo, Becomes, EngineInv, LeaveInv
  <1>10. run.phase = "byegap" => \A g \in Tasks : OverBy(task'[g], now, run.wake)
    <2> SUFFICES ASSUME run.phase = "byegap"
                 PROVE  \A g \in Tasks : OverBy(task'[g], now, run.wake)
      OBVIOUS
    <2>1. \A g \in Tasks : OverBy(task[g], now, run.wake)
      BY DEF EngineInv, LeaveInv
    <2>2. now < run.wake /\ (task[h].pc = "lookup" => \A d \in Delays : now + d < run.wake)
      BY <1>3, <2>1 DEF OverBy
    <2>3. t.pc = "sleep" => t.wake \in Nat /\ t.wake < run.wake
      <3> SUFFICES ASSUME t.pc = "sleep" PROVE t.wake \in Nat /\ t.wake < run.wake
        OBVIOUS
      <3>1. PICK d \in Delays : t.wake = now + d
        BY <1>2 DEF StepsTo
      <3>2. now + d < run.wake
        BY <1>2, <2>2 DEF StepsTo
      <3> QED BY <1>1, <3>1, <3>2, DelaysType
    <2>4. OverBy(t, now, run.wake)
      BY <1>2, <2>2, <2>3 DEF OverBy, StepsTo
    <2> QED BY <1>2, <2>1, <2>4 DEF StepsTo, Becomes
  <1>11. LeaveInv'
    BY <1>1, <1>3, <1>4, <1>5, <1>9, <1>10 DEF EngineInv, LeaveInv
  <1> QED BY <1>6, <1>7, <1>8, <1>11 DEF EngineInv

LEMMA EngineTick ==
    ASSUME EngineInv, Tick PROVE EngineInv'
  <1>1. /\ RespTick /\ UNCHANGED <<run, watching, signalled, shutdown, believed, parted>>
        /\ UNCHANGED <<last, task>> /\ now' = now + 1 /\ now \in Nat /\ run.wake \in Nat
        /\ now < run.wake \/ run.phase = "serve"
    BY DEF Tick, RespTick, engineVars, EngineInv, Inv, TypeInv, RunInv
  <1>2. Inv(SharedSlots)'
    <2>1. PICK U : U = SharedSlots
      OBVIOUS
    <2>2. Inv(U)'
      BY <1>1, <2>1, TickInv DEF EngineInv
    <2> QED BY <2>1, <2>2
  <1>3. RunInv'
    BY <1>1 DEF EngineInv, RunInv, More, Slots, AllKeys, PeerKeys
  <1>4. StartInv'
    <2>1. run.phase \in {"probe", "probing"} => onwire' = [s \in Slots |-> Never]
      BY <1>1, Zenon DEF EngineInv, StartInv, RespTick
    <2> QED BY <1>1, <2>1, Zenon DEF EngineInv, StartInv, Starting, AllIdle, Slots, AllKeys, PeerKeys
  <1>5. \A h \in Tasks : WakesSoon(task[h], now + 1)
    <2> SUFFICES ASSUME NEW h \in Tasks, task[h].pc = "sleep"
                 PROVE  \E d \in Delays : task[h].wake \in Nat /\ task[h].wake <= now + 1 + d
      BY DEF WakesSoon
    <2>1. PICK d \in Delays : task[h].wake \in Nat /\ task[h].wake <= now + d
      BY Zenon DEF EngineInv, LeaveInv, WakesSoon
    <2>2. task[h].wake <= now + 1 + d
      BY <1>1, <2>1, DelaysType
    <2> QED BY <2>1, <2>2
  <1>6. run.phase = "byegap" => \A h \in Tasks : OverBy(task[h], now + 1, run.wake)
    <2> SUFFICES ASSUME run.phase = "byegap", NEW h \in Tasks
                 PROVE  OverBy(task[h], now + 1, run.wake)
      OBVIOUS
    <2>1. OverBy(task[h], now, run.wake)
      BY DEF EngineInv, LeaveInv
    <2>2. CASE task[h] = Idle
      BY <2>2 DEF OverBy, Idle
    <2>3. CASE task[h].pc = "sleep" /\ now < task[h].wake
      BY <1>1, <2>1, <2>3 DEF OverBy
    <2> QED BY <1>1, <2>2, <2>3 DEF RespTick, Asleep
  <1>7. LeaveInv'
    BY <1>1, <1>5, <1>6 DEF EngineInv, LeaveInv, Leaving, AllIdle
  <1> QED BY <1>2, <1>3, <1>4, <1>7 DEF EngineInv

-----------------------------------------------------------------------------
LEMMA EngineInit == Init => EngineInv
  <1> SUFFICES ASSUME Init PROVE EngineInv
    OBVIOUS
  <1>1. Inv(SharedSlots)
    BY InitInv DEF Init
  <1>2. RunInv
    <2>1. /\ run \in [phase : Phases, idx : Nat \ {0}, round : 0..2, wake : Nat]
          /\ run.phase = "probe"
      BY DEF Init, Phases
    <2>2. {watching, signalled, shutdown} \subseteq BOOLEAN /\ believed = {} /\ parted = {}
      BY Zenon DEF Init
    <2> QED BY <2>1, <2>2 DEF RunInv
  <1>3. StartInv
    BY DEF Init, StartInv, RespInit, AllIdle
  <1>4. LeaveInv
    <2>1. WakesSoon(Idle, now)
      BY DEF WakesSoon, Idle
    <2>2. \A h \in Tasks : WakesSoon(task[h], now)
      BY <2>1 DEF Init, RespInit
    <2>3. run.phase = "probe" /\ parted = {}
      BY DEF Init
    <2> QED BY <2>2, <2>3 DEF LeaveInv, Leaving
  <1> QED BY <1>1, <1>2, <1>3, <1>4 DEF EngineInv

LEMMA EngineNext == EngineInv /\ [Next]_vars => EngineInv'
  <1> SUFFICES ASSUME EngineInv, [Next]_vars PROVE EngineInv'
    OBVIOUS
  <1>1. CASE RunStep
    BY <1>1, ProbeStep, ProbesDoneInv, AnnounceInv, GoodbyesInv, QuietRunStep DEF RunStep
  <1>2. CASE Tick \/ Background \/ Receive
    BY <1>2, EngineTick, BackgroundInv, ReceiveInv
  <1>3. CASE InstallHandlers \/ Signal \/ SignalWatcher
    BY <1>3, SignalsInv
  <1>4. CASE \E h \in Tasks : HandlerStep(h)
    BY <1>4, HandlerInv
  <1>5. CASE UNCHANGED vars
    <2>1. /\ UNCHANGED <<now, by_key, last, task, onwire, bye>>
          /\ UNCHANGED <<run, watching, signalled, shutdown, believed, parted>>
      BY <1>5 DEF vars, respVars, engineVars
    <2>2. Inv(SharedSlots)'
      BY <2>1, RunMoves DEF OnlyRunMoves, respVars
    <2>3. RunInv'
      BY <2>1 DEF EngineInv, RunInv, More, Slots, AllKeys, PeerKeys
    <2>4. StartInv' /\ LeaveInv'
      BY <2>1, Zenon DEF EngineInv, StartInv, LeaveInv, Starting, Leaving, AllIdle, Slots, AllKeys,
                  PeerKeys
    <2> QED BY <2>2, <2>3, <2>4 DEF EngineInv
  <1> QED BY <1>1, <1>2, <1>3, <1>4, <1>5 DEF Next

\* The inductive invariant holds of engine::run, its handlers and its signals.
THEOREM EngineInvariance == Spec => []EngineInv
  BY EngineInit, EngineNext, PTL DEF Spec

\* The variables of engine::run and of the handlers keep their types: no phase
\* reads past the list of interfaces, and no probe is sent a fourth time.
THEOREM EngineTypeCorrect == Spec => []EngineTypeOK
  <1>1. EngineInv => EngineTypeOK
    BY TypeInvOK DEF EngineInv, Inv, RunInv, EngineTypeOK
  <1> QED BY <1>1, EngineInvariance, PTL

\* The announcements, which do not ask the rate limiter, leave the calls of
\* handle_query what they have alone: no two of them send a record on one interface
\* at once, and the cache-flush bit stays on our own unique records.
THEOREM EngineResponds == Spec => [](NoDoubleTransmit /\ FlushOnlyOurs)
  <1>1. EngineInv => NoDoubleTransmit /\ FlushOnlyOurs
    <2> SUFFICES ASSUME EngineInv PROVE NoDoubleTransmit /\ FlushOnlyOurs
      OBVIOUS
    <2>1. PICK U : U = SharedSlots
      OBVIOUS
    <2>2. Inv(U)
      BY <2>1 DEF EngineInv
    <2> QED BY <2>2, GrantsApart, FlushOurs
  <1> QED BY <1>1, EngineInvariance, PTL

\* Announcements stamp the unique records they multicast, so a response repeats
\* none of them within its interval, at start-up included.
THEOREM UniqueSpacingAlways == Spec => []UniqueSpacing
  <1>1. EngineInv => UniqueSpacing
    <2> SUFFICES ASSUME EngineInv, NEW h \in Tasks, ReadyToSend(h), NEW r \in Sent(h),
                        r \in UniqueForIface(task[h].iface)
                 PROVE  \/ onwire[<<task[h].iface, r.key>>] = Never
                        \/ now - onwire[<<task[h].iface, r.key>>] >= task[h].iv
      BY DEF UniqueSpacing
    <2>1. <<task[h].iface, r.key>> \in GrantedSlots(h)
      BY DEF GrantedSlots, Granted, ReadyToSend
    <2>2. <<task[h].iface, r.key>> \notin SharedSlots
      BY UniqueNotShared DEF SharedSlots
    <2> QED BY <2>1, <2>2 DEF EngineInv, Inv, GrantInv
  <1> QED BY <1>1, EngineInvariance, PTL

\* The second round of announce_goodbye has the last word: every handler that
\* outlives the receive loop is done before it, because the gap between the
\* rounds is longer than any delay a handler can draw.
THEOREM GoodbyeIsLastWordAlways == Spec => []GoodbyeIsLastWord
  <1>1. EngineInv => GoodbyeIsLastWord
    BY DEF EngineInv, LeaveInv, Leaving, GoodbyeIsLastWord
  <1> QED BY <1>1, EngineInvariance, PTL
=============================================================================
