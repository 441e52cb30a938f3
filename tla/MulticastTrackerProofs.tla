----------------------- MODULE MulticastTrackerProofs -----------------------
(***************************************************************************)
(* The rate limiter keeps its promise for any number of handlers and        *)
(* records, any intervals, and any stall shorter than the probe-defence     *)
(* interval.                                                                *)
(***************************************************************************)
EXTENDS MulticastTracker, TLAPS

\* Nothing is stamped, sent or read in the future, and a call is at most
\* MaxStall old.
ClockInv ==
    /\ sweep <= now
    /\ \A s \in Slots : last[s] <= now /\ wire[s].at <= now
    /\ \A c \in Callers : call[c] # Idle =>
          serving /\ call[c].at <= now /\ now - call[c].at <= MaxStall

\* A stamp is at most MaxStall older than the transmission it stands for, and
\* an absent one hides no transmission of the last interval.
StampInv ==
    \A s \in Slots : wire[s].at # Never =>
        IF last[s] # Never
        THEN wire[s].at <= last[s] + MaxStall
        ELSE now - wire[s].at >= MIN_MULTICAST_INTERVAL - MaxStall

\* While a grant is unspent the slot carries its stamp, and the previous
\* transmission is far enough in the past.
GrantInv ==
    \A c \in Callers : call[c].op = "granted" =>
        /\ last[call[c].slot] = call[c].at
        /\ \/ wire[call[c].slot].at = Never
           \/ now - wire[call[c].slot].at >= call[c].iv - MaxStall

Inv == TypeOK /\ ClockInv /\ StampInv /\ GrantInv /\ NoDoubleGrant

USE IntervalAssumption, StallAssumption DEF Never, Instants, Intervals

\* What the kinds of call look like.
LEMMA CallShape ==
    ASSUME TypeOK, NEW c \in Callers
    PROVE  /\ call[c] = Idle <=> call[c].op = "idle"
           /\ call[c] # Idle => /\ call[c].op \in {"check", "granted"}
                                /\ call[c].slot \in Slots
                                /\ call[c].iv \in Intervals
                                /\ call[c].at \in Nat
BY DEF TypeOK, Calls, Idle

LEMMA InitInv == Init => Inv
<1> SUFFICES ASSUME Init PROVE Inv
  OBVIOUS
<1>1. TypeOK
  BY Zenon DEF Init, TypeOK, Calls
<1>2. \A s \in Slots : last[s] = Never /\ wire[s].at = Never
  BY DEF Init
<1>3. \A c \in Callers : call[c] = Idle /\ call[c].op # "granted"
  BY DEF Init, Idle
<1> QED
  BY <1>1, <1>2, <1>3 DEF Init, Inv, ClockInv, StampInv, GrantInv, NoDoubleGrant

\* TypeOK, preserved by each step.
LEMMA TypeStep == TypeOK /\ [Next]_vars => TypeOK'
<1> SUFFICES ASSUME TypeOK, [Next]_vars PROVE TypeOK'
  OBVIOUS
<1>1. CASE Tick
  BY <1>1 DEF Tick, TypeOK
<1>2. CASE Serve
  BY <1>2 DEF Serve, TypeOK
<1>3. CASE BeginPrune
  BY <1>3 DEF BeginPrune, TypeOK
<1>4. CASE Prune
  <2>1. last' \in [Slots -> Instants]
    BY <1>4 DEF Prune, TypeOK, PruneOlderThan
  <2> QED
    BY <2>1, <1>4 DEF Prune, TypeOK
<1>5. ASSUME NEW s \in Slots, Mark(s) PROVE TypeOK'
  BY <1>5 DEF Mark, Leaves, TypeOK
<1>6. ASSUME NEW c \in Callers, NEW s \in Slots, NEW iv \in Intervals,
             BeginCheckAndMark(c, s, iv)
      PROVE TypeOK'
  <2>1. [op |-> "check", slot |-> s, iv |-> iv, at |-> now] \in Calls
    BY DEF Calls, TypeOK
  <2> QED
    BY <1>6, <2>1 DEF BeginCheckAndMark, TypeOK
<1>7. ASSUME NEW c \in Callers, CheckAndMark(c) PROVE TypeOK'
  <2>1. call[c] \in [op : {"check", "granted"}, slot : Slots, iv : Intervals, at : Nat]
    BY <1>7 DEF CheckAndMark, TypeOK, Calls, Idle
  <2>2. /\ [call[c] EXCEPT !.op = "granted"] \in Calls
        /\ Idle \in Calls
    BY <2>1 DEF Calls
  <2> QED
    BY <1>7, <2>1, <2>2 DEF CheckAndMark, TypeOK
<1>8. ASSUME NEW c \in Callers, Transmit(c) PROVE TypeOK'
  <2>1. call[c].slot \in Slots /\ call[c].iv \in Intervals
    BY <1>8, CallShape DEF Transmit, Idle
  <2> QED
    BY <1>8, <2>1 DEF Transmit, Leaves, TypeOK, Calls
<1>9. CASE UNCHANGED vars
  BY <1>9 DEF vars, TypeOK
<1> QED
  BY <1>1, <1>2, <1>3, <1>4, <1>5, <1>6, <1>7, <1>8, <1>9 DEF Next

\* The other conjuncts, one case per action.
LEMMA InvStep == Inv /\ [Next]_vars => Inv'
<1> SUFFICES ASSUME Inv, [Next]_vars PROVE Inv'
  OBVIOUS
<1>t. TypeOK /\ TypeOK'
  BY TypeStep DEF Inv
<1>s. \A c \in Callers :
        /\ call[c] = Idle <=> call[c].op = "idle"
        /\ call[c] # Idle => /\ call[c].op \in {"check", "granted"}
                             /\ call[c].slot \in Slots
                             /\ call[c].iv \in Intervals
                             /\ call[c].at \in Nat
  BY <1>t, CallShape
<1>n. now \in Nat /\ sweep \in Instants /\ \A s \in Slots : last[s] \in Instants /\ wire[s].at \in Instants
  BY <1>t DEF TypeOK
<1>1. CASE Tick
  <2>1. ClockInv'
    BY <1>1, <1>s, <1>n DEF Inv, Tick, ClockInv
  <2>2. StampInv'
    BY <1>1, <1>n DEF Inv, Tick, StampInv
  <2>3. GrantInv'
    BY <1>1, <1>s, <1>n DEF Inv, Tick, GrantInv, Idle
  <2>4. NoDoubleGrant'
    BY <1>1 DEF Inv, Tick, NoDoubleGrant
  <2> QED
    BY <1>t, <2>1, <2>2, <2>3, <2>4 DEF Inv
<1>2. CASE Serve
  BY <1>2, <1>t DEF Inv, Serve, ClockInv, StampInv, GrantInv, NoDoubleGrant
<1>3. CASE BeginPrune
  BY <1>3, <1>t, <1>n DEF Inv, BeginPrune, ClockInv, StampInv, GrantInv, NoDoubleGrant
<1>4. CASE Prune
  <2>1. \A s \in Slots :
          /\ last'[s] \in {last[s], Never}
          /\ last'[s] = Never /\ last[s] # Never
                => now - last[s] >= MIN_MULTICAST_INTERVAL
    BY <1>4, <1>t, <1>n DEF Inv, Prune, PruneOlderThan, RateLimited, DurationSince, ClockInv, TypeOK
  <2>2. ClockInv'
    BY <1>4, <1>n, <2>1 DEF Inv, Prune, ClockInv
  <2>3. StampInv'
    BY <1>4, <1>n, <2>1 DEF Inv, Prune, StampInv
  <2>4. GrantInv'
    <3> SUFFICES ASSUME NEW c \in Callers, call[c].op = "granted"
                 PROVE  last'[call[c].slot] = call[c].at
      BY <1>4 DEF Inv, Prune, GrantInv
    <3>1. /\ last[call[c].slot] = call[c].at
          /\ now - call[c].at <= MaxStall
          /\ call[c].slot \in Slots
          /\ call[c].at \in Nat
      BY <1>s DEF Inv, GrantInv, ClockInv
    <3> QED
      BY <3>1, <2>1, <1>n
  <2>5. NoDoubleGrant'
    BY <1>4 DEF Inv, Prune, NoDoubleGrant
  <2> QED
    BY <1>t, <2>2, <2>3, <2>4, <2>5 DEF Inv
<1>5. ASSUME NEW s \in Slots, Mark(s) PROVE Inv'
  <2>1. \A c \in Callers : call[c] = Idle /\ call[c].op # "granted"
    BY <1>5, <1>s DEF Inv, Mark, ClockInv
  <2>2. /\ last' = [last EXCEPT ![s] = now]
        /\ \A r \in Slots : wire'[r].at = IF r = s THEN now ELSE wire[r].at
        /\ UNCHANGED <<now, call, sweep, serving>>
    BY <1>5, <1>t DEF Mark, Leaves, TypeOK
  <2>3. ClockInv' /\ StampInv'
    BY <2>1, <2>2, <1>n, <1>t DEF Inv, ClockInv, StampInv, TypeOK
  <2>4. GrantInv' /\ NoDoubleGrant'
    BY <2>1, <2>2 DEF GrantInv, NoDoubleGrant
  <2> QED
    BY <1>t, <2>3, <2>4 DEF Inv
<1>6. ASSUME NEW c \in Callers, NEW s \in Slots, NEW iv \in Intervals,
             BeginCheckAndMark(c, s, iv)
      PROVE Inv'
  <2>1. /\ call'[c].op = "check" /\ call'[c].at = now
        /\ \A d \in Callers : d # c => call'[d] = call[d]
        /\ serving
        /\ UNCHANGED <<now, last, sweep, serving, wire>>
    BY <1>6, <1>t DEF BeginCheckAndMark, TypeOK
  <2>2. ClockInv'
    BY <2>1, <1>n DEF Inv, ClockInv
  <2>3. StampInv'
    BY <2>1 DEF Inv, StampInv
  <2>4. \A d \in Callers : call'[d].op = "granted" => d # c /\ call'[d] = call[d]
    BY <2>1
  <2>5. GrantInv'
    BY <2>1, <2>4 DEF Inv, GrantInv
  <2>6. NoDoubleGrant'
    BY <2>4 DEF Inv, NoDoubleGrant
  <2> QED
    BY <1>t, <2>2, <2>3, <2>5, <2>6 DEF Inv
<1>7. ASSUME NEW c \in Callers, CheckAndMark(c),
             RateLimited(last[call[c].slot], call[c].at, call[c].iv)
      PROVE Inv'
  <2>1. /\ call'[c] = Idle
        /\ \A d \in Callers : d # c => call'[d] = call[d]
        /\ UNCHANGED <<now, last, sweep, serving, wire>>
    BY <1>7, <1>t DEF CheckAndMark, TypeOK
  <2>2. \A d \in Callers : call'[d].op = "granted" => d # c /\ call'[d] = call[d]
    BY <2>1 DEF Idle
  <2>3. ClockInv' /\ StampInv'
    BY <2>1 DEF Inv, ClockInv, StampInv
  <2>4. GrantInv'
    BY <2>1, <2>2 DEF Inv, GrantInv
  <2>5. NoDoubleGrant'
    BY <2>2 DEF Inv, NoDoubleGrant
  <2> QED
    BY <1>t, <2>3, <2>4, <2>5 DEF Inv
<1>8. ASSUME NEW c \in Callers, CheckAndMark(c),
             ~RateLimited(last[call[c].slot], call[c].at, call[c].iv)
      PROVE Inv'
  <2> DEFINE s == call[c].slot
             r == call[c].at
             iv == call[c].iv
  <2>0. /\ s \in Slots /\ iv \in Intervals /\ r \in Nat /\ call[c] # Idle
        /\ r <= now /\ now - r <= MaxStall
    BY <1>8, <1>s DEF CheckAndMark, Idle, Inv, ClockInv
  <2>1. /\ call'[c] = [call[c] EXCEPT !.op = "granted"]
        /\ \A d \in Callers : d # c => call'[d] = call[d]
        /\ last'[s] = r
        /\ \A q \in Slots : q # s => last'[q] = last[q]
        /\ UNCHANGED <<now, sweep, serving, wire>>
    BY <1>8, <1>t, <2>0 DEF CheckAndMark, TypeOK
  <2>2. /\ call'[c].op = "granted" /\ call'[c].slot = s
        /\ call'[c].at = r /\ call'[c].iv = iv /\ call'[c] # Idle
    <3>1. call[c] \in [op : {"check", "granted"}, slot : Slots, iv : Intervals, at : Nat]
      BY <2>0, <1>t DEF TypeOK, Calls, Idle
    <3> QED
      BY <3>1, <2>1 DEF Idle
  <2>3. last[s] # Never => r - last[s] >= iv
    BY <1>8, <2>0, <1>n DEF RateLimited, DurationSince
  <2>4. wire[s].at = Never \/ now - wire[s].at >= iv - MaxStall
    BY <2>0, <2>3, <1>n DEF Inv, StampInv
  <2>5. wire[s].at # Never => wire[s].at <= r + MaxStall
    BY <2>0, <2>3, <1>n DEF Inv, StampInv
  <2>6. \A d \in Callers : d # c /\ call[d].op = "granted" => call[d].slot # s
    <3> SUFFICES ASSUME NEW d \in Callers, d # c, call[d].op = "granted", call[d].slot = s
                 PROVE  FALSE
      OBVIOUS
    <3>1. /\ last[s] = call[d].at /\ call[d].at \in Nat
          /\ now - call[d].at <= MaxStall
      BY <1>s DEF Inv, GrantInv, ClockInv
    <3> QED
      BY <3>1, <2>0, <2>3, <1>n
  <2>7. ClockInv'
    BY <2>0, <2>1, <2>2, <1>n, Zenon DEF Inv, ClockInv
  <2>8. StampInv'
    BY <2>0, <2>1, <2>5, <1>n DEF Inv, StampInv
  <2>9. GrantInv'
    <3> SUFFICES ASSUME NEW d \in Callers, call'[d].op = "granted"
                 PROVE  /\ last'[call'[d].slot] = call'[d].at
                        /\ \/ wire[call'[d].slot].at = Never
                           \/ now - wire[call'[d].slot].at >= call'[d].iv - MaxStall
      BY <2>1 DEF GrantInv
    <3>1. CASE d = c
      BY <3>1, <2>1, <2>2, <2>4
    <3>2. CASE d # c
      BY <3>2, <2>1, <2>6, <1>s DEF Inv, GrantInv
    <3> QED
      BY <3>1, <3>2
  <2>10. NoDoubleGrant'
    <3> SUFFICES ASSUME NEW d \in Callers, NEW e \in Callers, d # e,
                        call'[d].op = "granted", call'[e].op = "granted"
                 PROVE  call'[d].slot # call'[e].slot
      BY DEF NoDoubleGrant
    <3>1. CASE d = c
      BY <3>1, <2>1, <2>2, <2>6
    <3>2. CASE e = c
      BY <3>2, <2>1, <2>2, <2>6
    <3>3. CASE d # c /\ e # c
      BY <3>3, <2>1 DEF Inv, NoDoubleGrant
    <3> QED
      BY <3>1, <3>2, <3>3
  <2> QED
    BY <1>t, <2>7, <2>8, <2>9, <2>10 DEF Inv
<1>9. ASSUME NEW c \in Callers, Transmit(c) PROVE Inv'
  <2> DEFINE s == call[c].slot
  <2>0. /\ s \in Slots /\ call[c].op = "granted" /\ call[c] # Idle
        /\ call[c].at \in Nat /\ now - call[c].at <= MaxStall
        /\ last[s] = call[c].at
    BY <1>9, <1>s DEF Transmit, Idle, Inv, ClockInv, GrantInv
  <2>1. /\ call'[c] = Idle
        /\ \A d \in Callers : d # c => call'[d] = call[d]
        /\ \A q \in Slots : wire'[q].at = IF q = s THEN now ELSE wire[q].at
        /\ UNCHANGED <<now, last, sweep, serving>>
    BY <1>9, <1>t, <2>0 DEF Transmit, Leaves, TypeOK
  <2>2. \A d \in Callers : call'[d].op = "granted" =>
          d # c /\ call'[d] = call[d] /\ call[d].slot # s /\ call[d].slot \in Slots
    BY <2>0, <2>1, <1>s DEF Idle, Inv, NoDoubleGrant
  <2>3. ClockInv'
    BY <2>1, <1>n DEF Inv, ClockInv
  <2>4. StampInv'
    BY <2>0, <2>1, <1>n DEF Inv, StampInv
  <2>5. GrantInv'
    BY <2>1, <2>2 DEF Inv, GrantInv
  <2>6. NoDoubleGrant'
    BY <2>2 DEF Inv, NoDoubleGrant
  <2> QED
    BY <1>t, <2>3, <2>4, <2>5, <2>6 DEF Inv
<1>10. CASE UNCHANGED vars
  BY <1>10, <1>t DEF vars, Inv, ClockInv, StampInv, GrantInv, NoDoubleGrant
<1> QED
  BY <1>1, <1>2, <1>3, <1>4, <1>5, <1>6, <1>7, <1>8, <1>9, <1>10 DEF Next

\* Every reachable state of the tracker satisfies the inductive invariant.
THEOREM Invariance == Spec => []Inv
BY InitInv, InvStep, PTL DEF Spec

\* Type correctness of the tracker under concurrent callers (timing.rs).
THEOREM TypeCorrect == Spec => []TypeOK
<1>1. Inv => TypeOK
  BY DEF Inv
<1> QED
  BY Invariance, <1>1, PTL

\* check_and_mark never lets two handlers send the same record on the same
\* interface at once, although each reads the clock before it has the lock.
THEOREM NoDoubleGrantAlways == Spec => []NoDoubleGrant
<1>1. Inv => NoDoubleGrant
  BY DEF Inv
<1> QED
  BY Invariance, <1>1, PTL

\* The table of stamps, with its concurrent pruning, implements the rate limit
\* of RFC 6762 section 6: every step is a step of RateLimit or stutters.
THEOREM Refinement == Spec => ImplementsRateLimit
<1>1. Init => Promise!Init
  BY DEF Init, Promise!Init, Promise!Never
<1>2. Inv /\ [Next]_vars => [Promise!Next]_(Promise!vars)
  <2> SUFFICES ASSUME Inv, [Next]_vars PROVE [Promise!Next]_(Promise!vars)
    OBVIOUS
  <2>1. CASE Tick
    BY <2>1 DEF Tick, Promise!Next, Promise!Tick
  <2>2. CASE Serve
    BY <2>2 DEF Serve, Promise!Next, Promise!Serve
  <2>3. CASE BeginPrune
    BY <2>3 DEF BeginPrune, Promise!vars
  <2>4. CASE Prune
    BY <2>4 DEF Prune, Promise!vars
  <2>5. ASSUME NEW s \in Slots, Mark(s) PROVE Promise!Next
    BY <2>5, Zenon DEF Mark, Leaves, Promise!Next, Promise!Announce, Promise!Leaves
  <2>6. ASSUME NEW c \in Callers, NEW s \in Slots, NEW iv \in Intervals,
               BeginCheckAndMark(c, s, iv)
        PROVE  UNCHANGED Promise!vars
    BY <2>6 DEF BeginCheckAndMark, Promise!vars
  <2>7. ASSUME NEW c \in Callers, CheckAndMark(c) PROVE UNCHANGED Promise!vars
    BY <2>7 DEF CheckAndMark, Promise!vars
  <2>8. ASSUME NEW c \in Callers, Transmit(c) PROVE Promise!Next
    <3>1. /\ call[c].slot \in Slots /\ call[c].iv \in Intervals /\ serving
          /\ \/ wire[call[c].slot].at = Never
             \/ now - wire[call[c].slot].at >= call[c].iv - MaxStall
      BY <2>8, CallShape DEF Inv, Transmit, Idle, GrantInv, ClockInv
    <3>2. Promise!Respond(call[c].slot, call[c].iv)
      BY <2>8, <3>1 DEF Transmit, Leaves, Promise!Respond, Promise!Leaves, Promise!Never
    <3> QED
      BY <3>1, <3>2 DEF Promise!Next
  <2>9. CASE UNCHANGED vars
    BY <2>9 DEF vars, Promise!vars
  <2> QED
    BY <2>1, <2>2, <2>3, <2>4, <2>5, <2>6, <2>7, <2>8, <2>9 DEF Next
<1> QED
  BY <1>1, <1>2, Invariance, PTL DEF Spec, ImplementsRateLimit, Promise!Spec
=============================================================================
