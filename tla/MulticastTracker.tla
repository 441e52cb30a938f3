-------------------------- MODULE MulticastTracker --------------------------
(***************************************************************************)
(* MulticastTracker of src/src/timing.rs under concurrent callers.          *)
(*                                                                          *)
(* check_and_mark and prune_older_than read the clock BEFORE they take the  *)
(* lock, so a call is two steps: Begin... reads the clock, and the step     *)
(* named after the function does what happens under the lock.  A query      *)
(* handler that was granted a record then sends it (Transmit).  A thread    *)
(* may lose up to MaxStall ticks between its clock read and the send.       *)
(***************************************************************************)
EXTENDS Timing

CONSTANTS
    Slots,     \* the keys of the map: (ifindex, RecordKey) pairs
    Callers,   \* the query handlers
    MaxStall,  \* bound on the time from a handler's clock read to its send
    MaxTime    \* bound of the clock

\* A thread is never held up for as long as the shortest interval.
ASSUME StallAssumption ==
    /\ MaxStall \in Nat
    /\ MaxTime \in Nat
    /\ MaxStall < PROBE_DEFENSE_INTERVAL

VARIABLES
    now,       \* Instant::now()
    last,      \* MulticastTracker.last: the stamp of a key, Never if it has none
    call,      \* per handler: the check_and_mark call it is in, if any
    sweep,     \* the clock as read by the prune_older_than in progress, or Never
    serving,   \* FALSE during announce_all, which ends before handlers exist
    wire       \* history: the last transmission of every slot

vars == <<now, last, call, sweep, serving, wire>>

Idle == [op |-> "idle"]

\* "check": the clock is read, the lock is not held yet; "granted":
\* check_and_mark returned true and the record has not been sent yet.
Calls == {Idle} \cup [op : {"check", "granted"}, slot : Slots, iv : Intervals, at : Nat]

\* One type invariant: what the map, the calls in progress and the wire hold.
TypeOK ==
    /\ now \in Nat
    /\ last \in [Slots -> Instants]
    /\ call \in [Callers -> Calls]
    /\ sweep \in Instants
    /\ serving \in BOOLEAN
    /\ wire \in [Slots -> [at : Instants, iv : Intervals \cup {0}, flip : {0, 1}]]

Leaves(s, min_interval) ==
    wire' = [wire EXCEPT ![s] =
                [at |-> now, iv |-> min_interval, flip |-> 1 - wire[s].flip]]

\* announce_all multicasts a record and marks it: `mark' reads the clock under
\* the lock.
Mark(s) ==
    /\ ~serving
    /\ last' = [last EXCEPT ![s] = now]
    /\ Leaves(s, 0)
    /\ UNCHANGED <<now, call, sweep, serving>>

\* engine::run spawns the evictor and enters the receive loop.
Serve ==
    /\ ~serving
    /\ serving' = TRUE
    /\ UNCHANGED <<now, last, call, sweep, wire>>

BeginCheckAndMark(c, s, min_interval) ==
    /\ serving
    /\ call[c] = Idle
    /\ call' = [call EXCEPT ![c] =
                   [op |-> "check", slot |-> s, iv |-> min_interval, at |-> now]]
    /\ UNCHANGED <<now, last, sweep, serving, wire>>

\* Mutant: the verdict is reached under the lock, the stamp is left to others.
BadCheckAndMark(c) ==
    /\ call[c].op = "check"
    /\ call' = [call EXCEPT ![c] =
                   IF RateLimited(last[call[c].slot], call[c].at, call[c].iv)
                   THEN Idle ELSE [call[c] EXCEPT !.op = "granted"]]
    /\ UNCHANGED <<now, last, sweep, serving, wire>>

CheckAndMark(c) ==
    /\ call[c].op = "check"
    /\ \/ /\ RateLimited(last[call[c].slot], call[c].at, call[c].iv)
          /\ call' = [call EXCEPT ![c] = Idle]
          /\ UNCHANGED last
       \/ /\ ~RateLimited(last[call[c].slot], call[c].at, call[c].iv)
          /\ call' = [call EXCEPT ![c] = [call[c] EXCEPT !.op = "granted"]]
          /\ last' = [last EXCEPT ![call[c].slot] = call[c].at]
    /\ UNCHANGED <<now, sweep, serving, wire>>

\* handle_query sends the records it was granted.
Transmit(c) ==
    /\ call[c].op = "granted"
    /\ Leaves(call[c].slot, call[c].iv)
    /\ call' = [call EXCEPT ![c] = Idle]
    /\ UNCHANGED <<now, last, sweep, serving>>

\* Mutant: the cutoff is computed first, before the origin of the clock.
BadBeginPrune ==
    /\ serving
    /\ sweep = Never
    /\ sweep' = now - MIN_MULTICAST_INTERVAL
    /\ UNCHANGED <<now, last, call, serving, wire>>

\* The evictor task calls prune_older_than(MIN_MULTICAST_INTERVAL).
BeginPrune ==
    /\ serving
    /\ sweep = Never
    /\ sweep' = now
    /\ UNCHANGED <<now, last, call, serving, wire>>

\* Mutant: entries are kept although the interval has passed.
BadPrune ==
    /\ sweep # Never
    /\ sweep' = Never
    /\ UNCHANGED <<now, last, call, serving, wire>>

Prune ==
    /\ sweep # Never
    /\ last' = PruneOlderThan(last, sweep, MIN_MULTICAST_INTERVAL)
    /\ sweep' = Never
    /\ UNCHANGED <<now, call, serving, wire>>

Tick ==
    /\ now < MaxTime
    /\ \A c \in Callers : call[c] # Idle => now - call[c].at < MaxStall
    /\ now' = now + 1
    /\ UNCHANGED <<last, call, sweep, serving, wire>>

Init ==
    /\ now = 0
    /\ last = [s \in Slots |-> Never]
    /\ call = [c \in Callers |-> Idle]
    /\ sweep = Never
    /\ serving = FALSE
    /\ wire = [s \in Slots |-> [at |-> Never, iv |-> 0, flip |-> 0]]

Next ==
    \/ Tick
    \/ Serve
    \/ BeginPrune
    \/ Prune
    \/ \E s \in Slots : Mark(s)
    \/ \E c \in Callers :
          \/ \E s \in Slots, iv \in Intervals : BeginCheckAndMark(c, s, iv)
          \/ CheckAndMark(c)
          \/ Transmit(c)

\* The runtime lets engine::run reach its receive loop, and the evictor's
\* interval keeps firing; nothing is assumed of the query handlers.
Spec == Init /\ [][Next]_vars /\ WF_vars(Serve) /\ WF_vars(BeginPrune) /\ WF_vars(Prune)

-----------------------------------------------------------------------------
\* "Use this from the hot path so concurrent handlers cannot both observe
\* `allows() == true` and then double-send" (check_and_mark): no two handlers
\* hold a grant for the same record on the same interface.
NoDoubleGrant ==
    \A c, d \in Callers :
        (c # d /\ call[c].op = "granted" /\ call[d].op = "granted")
            => call[c].slot # call[d].slot

\* The table of stamps, pruned while handlers with an old clock reading are
\* waiting for the lock, enforces the rate limit of RFC 6762 section 6.
Promise == INSTANCE RateLimit WITH Slack <- MaxStall
ImplementsRateLimit == Promise!Spec

\* The evictor keeps the map from growing: an entry that no longer limits
\* anything goes away, unless the record is sent again (prune_older_than).
StaleEntriesGo ==
    \A s \in Slots :
        (last[s] # Never /\ now - last[s] >= MIN_MULTICAST_INTERVAL)
            ~> (last[s] = Never \/ now - last[s] < MIN_MULTICAST_INTERVAL)
=============================================================================
