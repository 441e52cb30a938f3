------------------------------ MODULE Browser ------------------------------
(***************************************************************************)
(* The browser task, src/src/browser.rs, of a daemon that has started (see  *)
(* Startup), with send_mdns_all and send_mdns_on of src/src/iface.rs.       *)
(* Sends take no time; a sleep is counted down in ticks.                    *)
(***************************************************************************)
EXTENDS Startup

CONSTANTS
    SECOND,             \* ticks of a second
    FirstQueryJitter,   \* first_query_jitter, in ticks: 20 to 120 ms
    MAX_DURATION        \* Duration::MAX, in ticks

ASSUME BrowserAssumption ==
    /\ SECOND \in Nat \ {0}
    /\ MAX_DURATION \in Nat /\ MAX_DURATION >= SECOND
    /\ FirstQueryJitter \subseteq 0..MAX_DURATION
    /\ \A r \in RawConfigs \ {Unreadable} :
          /\ r.browse_interval_secs \in Nat
          /\ r.browse_interval_secs * SECOND <= MAX_DURATION

VARIABLES
    br,        \* the task: where it is, the sleep left, delay, the interface it is at
    shutdown,  \* State.shutdown is cancelled
    asked,     \* history: the sends tried in this round, as <<interface, family>>
    got,       \* history: those that succeeded
    gap,       \* history: ticks since the last round began, an Option
    lastgap    \* history: ticks between the last two rounds, an Option

browserVars == <<br, shutdown, asked, got, gap, lastgap>>
vars == <<startVars, browserVars>>

BrPcs == {"spawn", "jitter", "top", "send", "sleep", "done"}

\* One type invariant, with the interval within its bounds.
BrowserTypeOK ==
    /\ br.pc \in BrPcs
    /\ br.delay \in 1..MAX_DURATION
    /\ br.left \in 0..MAX_DURATION
    /\ got \subseteq asked
    /\ StartTypeOK

\* Mutant: the multiplication wraps around.
BadNextBackoff(cur, cap) == Min({(cur * 2) % (MAX_DURATION + 1), cap})

next_backoff(cur, cap) == Min({cur * 2, MAX_DURATION, cap})

\* Mutant: an interval of 0 is taken as it is.
BadCap == Cfg.browse_interval_secs * SECOND

Cap == Max({Cfg.browse_interval_secs, 1}) * SECOND

\* Mutant: the first error ends send_mdns_all.
BadSendMdnsAll(iface) ==
    {[tried |-> S, sent |-> S] : S \in {families(iface)}} \cup
    {[tried |-> {f}, sent |-> {}] : f \in families(iface)}

\* send_mdns_all: every family is tried, whichever of them fail.
send_mdns_all(iface) ==
    {[tried |-> families(iface), sent |-> S] : S \in SUBSET families(iface)}

\* The task goes on at pc, with `left' ticks to sleep.
Continue(pc, left) == br' = [pc |-> pc, left |-> left, delay |-> br.delay, idx |-> br.idx]

\* Mutant: a name that does not parse keeps the others from being asked for.
BadSpawn ==
    /\ At("running") /\ br.pc = "spawn"
    /\ IF Cfg.browse = {TRUE}
       THEN \E j \in FirstQueryJitter : Continue("jitter", j)
       ELSE Continue("done", br.left)
    /\ UNCHANGED <<startVars, shutdown, asked, got, gap, lastgap>>

\* run, first part: nothing to ask for, or a first sleep.  A browse name that
\* does not parse is left out; names stand for whether they do.
Spawn ==
    /\ At("running") /\ br.pc = "spawn"
    /\ IF TRUE \in Cfg.browse
       THEN \E j \in FirstQueryJitter : Continue("jitter", j)
       ELSE Continue("done", br.left)
    /\ UNCHANGED <<startVars, shutdown, asked, got, gap, lastgap>>

\* select! between a sleep and the token: either branch if both are ready.
Sleeping == br.pc \in {"jitter", "sleep"}

\* The interval grows after a round, not after the first sleep.
NextDelay == IF br.pc = "sleep" THEN next_backoff(br.delay, Cap) ELSE br.delay

WakeUp ==
    /\ Sleeping /\ br.left = 0
    /\ br' = [pc |-> "top", left |-> 0, delay |-> NextDelay, idx |-> br.idx]
    /\ UNCHANGED <<startVars, shutdown, asked, got, gap, lastgap>>

Cancelled ==
    /\ Sleeping /\ shutdown
    /\ Continue("done", br.left)
    /\ UNCHANGED <<startVars, shutdown, asked, got, gap, lastgap>>

\* The top of the loop.
BeginRound ==
    /\ br.pc = "top" /\ ~shutdown
    /\ br' = [pc |-> "send", left |-> 0, delay |-> br.delay, idx |-> 1]
    /\ asked' = {} /\ got' = {} /\ gap' = {0} /\ lastgap' = gap
    /\ UNCHANGED <<startVars, shutdown>>

\* Mutant: the round is skipped and the loop goes on.
BadReturnAtTop ==
    /\ br.pc = "top" /\ shutdown
    /\ Continue("sleep", br.delay)
    /\ UNCHANGED <<startVars, shutdown, asked, got, gap, lastgap>>

ReturnAtTop ==
    /\ br.pc = "top" /\ shutdown
    /\ Continue("done", br.left)
    /\ UNCHANGED <<startVars, shutdown, asked, got, gap, lastgap>>

\* send_queries on one interface; an error is logged.
SendQuery ==
    /\ br.pc = "send" /\ br.idx <= Len(ifaces)
    /\ \E r \in send_mdns_all(ifaces[br.idx]) :
          /\ asked' = asked \cup ({br.idx} \X r.tried)
          /\ got' = got \cup ({br.idx} \X r.sent)
    /\ br' = [pc |-> "send", left |-> 0, delay |-> br.delay, idx |-> br.idx + 1]
    /\ UNCHANGED <<startVars, shutdown, gap, lastgap>>

GoToSleep ==
    /\ br.pc = "send" /\ br.idx > Len(ifaces)
    /\ Continue("sleep", br.delay)
    /\ UNCHANGED <<startVars, shutdown, asked, got, gap, lastgap>>

\* signal_watcher, at any time.
Shutdown ==
    /\ At("running") /\ ~shutdown
    /\ shutdown' = TRUE
    /\ UNCHANGED <<startVars, br, asked, got, gap, lastgap>>

\* Time passes while the task sleeps.
Tick ==
    /\ Sleeping /\ br.left > 0
    /\ Continue(br.pc, br.left - 1)
    /\ gap' = {g + 1 : g \in gap}
    /\ UNCHANGED <<startVars, shutdown, asked, got, lastgap>>

BrowserStep ==
    \/ Spawn \/ WakeUp \/ Cancelled
    \/ BeginRound \/ ReturnAtTop \/ SendQuery \/ GoToSleep

Init ==
    /\ StartInit
    /\ br = [pc |-> "spawn", left |-> 0, delay |-> SECOND, idx |-> 1]
    /\ shutdown = FALSE
    /\ asked = {} /\ got = {} /\ gap = {} /\ lastgap = {}

Next ==
    \/ StartStep /\ UNCHANGED browserVars
    \/ BrowserStep
    \/ Tick
    \/ Shutdown

\* main does not stop half-way, the runtime polls the task and time passes.
\* Nobody owes a shutdown.
Spec ==
    /\ Init /\ [][Next]_vars
    /\ WF_vars(StartStep /\ UNCHANGED browserVars)
    /\ WF_vars(BrowserStep) /\ WF_vars(Tick)

-----------------------------------------------------------------------------
RoundBegins == br.pc # "send" /\ br'.pc = "send"

\* RFC 6762 5.2 as browser.rs quotes it, "Successive query intervals double (1 s,
\* 2 s, 4 s, ...) up to a configured ceiling": a round begins one second after the
\* first one, and then at twice the interval before, up to the ceiling, whatever
\* the ceiling is (0 and the longest duration included).
BrowseBackoff ==
    [][RoundBegins => \A g \in gap :
          g = IF lastgap = {} THEN SECOND
              ELSE Min({2 * Max(lastgap), Max({Cfg.browse_interval_secs, 1}) * SECOND})]_vars

\* A round that is over has asked on every family of every interface, whichever
\* of the sends failed: the cache of no link goes cold for the sake of another's.
RoundAsksEverywhere ==
    br.pc = "sleep" =>
        asked = UNION {{n} \X families(ifaces[n]) : n \in DOMAIN ifaces}

\* A shutdown ends the task, wherever it is (engine::run waits for it).
BrowserReturns == shutdown ~> br.pc = "done"

\* As long as the daemon runs it keeps asking, if there is a name to ask for.
KeepsAsking ==
    (At("running") /\ TRUE \in Cfg.browse) ~> (shutdown \/ br.pc = "send")
=============================================================================
