------------------------------ MODULE RateLimit ------------------------------
(***************************************************************************)
(* What the multicast rate limiter promises, without any table of stamps:   *)
(* RFC 6762 section 6 as src/src/timing.rs quotes it.  A record leaves on   *)
(* an interface in answer to a query only when the interval asked for has   *)
(* passed since the record last left on that interface, give or take Slack, *)
(* the time a thread may lose between reading the clock and sending.        *)
(* Announcements are unconditional, and over before the first answer.       *)
(***************************************************************************)
EXTENDS Integers

CONSTANTS Slots, Intervals, Slack

Never == -1

VARIABLES
    now,       \* the clock
    serving,   \* the announcements are over
    wire       \* per slot: when it last left, the interval it was held to, and
               \* a bit that every transmission flips

vars == <<now, serving, wire>>

\* Slot s leaves now, held to `min_interval' (0 for an announcement).
Leaves(s, min_interval) ==
    wire' = [wire EXCEPT ![s] =
                [at |-> now, iv |-> min_interval, flip |-> 1 - wire[s].flip]]

Announce(s) ==
    /\ ~serving
    /\ Leaves(s, 0)
    /\ UNCHANGED <<now, serving>>

Serve ==
    /\ serving' = TRUE
    /\ UNCHANGED <<now, wire>>

Respond(s, min_interval) ==
    /\ serving
    /\ wire[s].at = Never \/ now - wire[s].at >= min_interval - Slack
    /\ Leaves(s, min_interval)
    /\ UNCHANGED <<now, serving>>

Tick ==
    /\ now' = now + 1
    /\ UNCHANGED <<serving, wire>>

Init ==
    /\ now = 0
    /\ serving = FALSE
    /\ wire = [s \in Slots |-> [at |-> Never, iv |-> 0, flip |-> 0]]

Next ==
    \/ Tick
    \/ Serve
    \/ \E s \in Slots : Announce(s) \/ \E iv \in Intervals : Respond(s, iv)

Spec == Init /\ [][Next]_vars
=============================================================================
