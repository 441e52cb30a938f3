--------------------------- MODULE StartupProofs ---------------------------
(***************************************************************************)
(* What holds of every start of the daemon: for any files, interfaces and   *)
(* address widths, whatever the system refuses and whenever it does.  The   *)
(* specification is Browser's, in which the browser runs once the start has *)
(* succeeded.                                                               *)
(***************************************************************************)
EXTENDS Browser, AddressesProofs, FiniteSetTheorems

Codes == {OK, CONFIG, CONFIG_VALIDATION, RUNTIME, INTERFACE_SETUP, SERVICE_RECORDS}

\* What a --check that succeeds has seen of the file.
Good == Parses(raw) /\ Builds(raw.services) /\ NamesParse(raw.browse)

\* The configuration is the file's, and there is one where it is used.
ConfigInv ==
    /\ raw \in RawConfigs
    /\ cfg = {} \/ (Parses(raw) /\ cfg = {Resolved(raw)})
    /\ proc.step \in Steps \ {"load", "exited"} => cfg = {Resolved(raw)} /\ Parses(raw)

\* Only a start gets past the configuration.
PhaseInv ==
    /\ proc \in [mode : {"check", "run"}, step : Steps, code : Codes]
    /\ proc.step = "check" => Checking
    /\ proc.step \in {"runtime", "discover", "ifaces", "running"} => ~Checking

\* What each exit code says, and what is known of a file that was checked.
CodeInv ==
    /\ (proc.step # "exited" \/ Checking) => blame = {}
    /\ proc.step = "exited" =>
          /\ proc.code = RUNTIME <=> "runtime" \in blame
          /\ proc.code = INTERFACE_SETUP <=> blame \cap {"interface", "socket"} # {}
          /\ proc.code \in {CONFIG_VALIDATION, OK} => Checking
          /\ proc.code = SERVICE_RECORDS => ~Builds(raw.services)
          /\ proc.code = CONFIG => ~Parses(raw)
          /\ (Checking /\ proc.code = OK) => Good
    /\ checked = {OK} => Good

\* The groups that the first k interfaces are members of.
Joined(f, k) ==
    {Membership(ifaces[n], f) : n \in {m \in 1..k : f \in families(ifaces[m])}}

\* The receive sockets have joined for the interfaces that are open.
SocketInv ==
    /\ \E S : ifaces \in Seq(S)
    /\ \A n \in DOMAIN ifaces : families(ifaces[n]) # {}
    /\ open \in 0..Len(ifaces)
    /\ Checking \/ proc.step \in {"load", "runtime"} => ifaces = <<>>
    /\ Checking \/ proc.step \in {"load", "runtime", "discover"} => open = 0
    /\ proc.step \in {"ifaces", "running"} =>
          \A f \in Families : recv[f] = IF Have(f) THEN {Joined(f, open)} ELSE {}
    /\ proc.step = "running" => open = Len(ifaces)

IInv == ConfigInv /\ PhaseInv /\ CodeInv /\ SocketInv

-----------------------------------------------------------------------------
LEMMA InitInv == Init => IInv
  <1> SUFFICES ASSUME Init PROVE IInv
    OBVIOUS
  <1> USE DEF Init, StartInit
  <1>1. ConfigInv
    BY DEF ConfigInv, Steps
  <1>2. PhaseInv
    BY DEF PhaseInv, Steps, Codes
  <1>3. CodeInv
    BY DEF CodeInv
  <1>4. SocketInv
    <2>1. ifaces \in Seq({})
      OBVIOUS
    <2> QED BY <2>1 DEF SocketInv
  <1> QED BY <1>1, <1>2, <1>3, <1>4 DEF IInv

\* The configuration in use.
LEMMA CfgIs == ASSUME ConfigInv, proc.step \in Steps \ {"load", "exited"}
               PROVE  Cfg = Resolved(raw) /\ Parses(raw)
  BY DEF ConfigInv, Cfg

LEMMA LoadInv == ASSUME IInv, Load PROVE IInv'
  <1> USE DEF IInv, Load, Checking, At, Goto, Exit, Steps, Codes, PhaseInv
  <1>1. ConfigInv'
    BY DEF ConfigInv, Parses
  <1>2. PhaseInv'
    OBVIOUS
  <1>3. CodeInv'
    BY DEF CodeInv, Good, Parses, OK, CONFIG, CONFIG_VALIDATION, RUNTIME, INTERFACE_SETUP,
           SERVICE_RECORDS
  <1>4. SocketInv'
    BY DEF SocketInv
  <1> QED BY <1>1, <1>2, <1>3, <1>4

\* --check looks at what a start will build.
LEMMA CheckInv == ASSUME IInv, Check PROVE IInv'
  <1>0. Cfg.services = raw.services /\ Cfg.browse = raw.browse /\ Parses(raw)
    BY CfgIs DEF IInv, Check, At, Steps, Resolved
  <1> USE <1>0 DEF IInv, Check, Checking, At, Exit, Steps, Codes, PhaseInv
  <1>1. ConfigInv'
    BY DEF ConfigInv, Parses
  <1>2. PhaseInv'
    OBVIOUS
  <1>3. CodeInv'
    BY DEF CodeInv, Good, Validates, Parses, OK, CONFIG, CONFIG_VALIDATION, RUNTIME,
           INTERFACE_SETUP, SERVICE_RECORDS
  <1>4. SocketInv'
    BY DEF SocketInv
  <1> QED BY <1>1, <1>2, <1>3, <1>4

LEMMA StartDaemonInv == ASSUME IInv, StartDaemon PROVE IInv'
  <1> USE DEF IInv, StartDaemon, Checking, At, Steps, Codes, PhaseInv
  <1>1. ConfigInv'
    BY DEF ConfigInv
  <1>2. PhaseInv'
    OBVIOUS
  <1>3. CodeInv'
    BY DEF CodeInv, Good, Parses, OK, CONFIG, CONFIG_VALIDATION, RUNTIME, INTERFACE_SETUP,
           SERVICE_RECORDS
  <1>4. SocketInv'
    BY DEF SocketInv
  <1> QED BY <1>1, <1>2, <1>3, <1>4

LEMMA BuildRuntimeInv == ASSUME IInv, BuildRuntime PROVE IInv'
  <1> USE DEF IInv, BuildRuntime, Checking, At, Goto, Exit, Refuse, Steps, Codes, PhaseInv
  <1>1. ConfigInv'
    BY DEF ConfigInv, Parses
  <1>2. PhaseInv'
    OBVIOUS
  <1>3. CodeInv'
    BY DEF CodeInv, Good, Parses, OK, CONFIG, CONFIG_VALIDATION, RUNTIME, INTERFACE_SETUP,
           SERVICE_RECORDS
  <1>4. SocketInv'
    BY DEF SocketInv
  <1> QED BY <1>1, <1>2, <1>3, <1>4

LEMMA BuildServicesInv == ASSUME IInv, BuildServices PROVE IInv'
  <1>0. Cfg.services = raw.services
    BY CfgIs DEF IInv, BuildServices, At, Steps, Resolved
  <1> USE <1>0 DEF IInv, BuildServices, Checking, At, Goto, Exit, Steps, Codes, PhaseInv
  <1>1. ConfigInv'
    BY DEF ConfigInv, Parses
  <1>2. PhaseInv'
    OBVIOUS
  <1>3. CodeInv'
    BY DEF CodeInv, Good, Parses, OK, CONFIG, CONFIG_VALIDATION, RUNTIME, INTERFACE_SETUP,
           SERVICE_RECORDS
  <1>4. SocketInv'
    <2>1. \A f \in Families : Have(f)' <=> Have(f)
      BY DEF Have
    <2>2. \A f \in Families : Joined(f, open)' = Joined(f, open)
      BY DEF Joined, Membership
    <2>3. proc.step = "ifaces" /\ proc'.mode = proc.mode /\ proc'.step \in {"running", "exited"}
      OBVIOUS
    <2> QED BY <2>1, <2>2, <2>3, Zenon DEF SocketInv
  <1> QED BY <1>1, <1>2, <1>3, <1>4

-----------------------------------------------------------------------------
LEMMA HasFamily == ASSUME NEW i, i.v4 # {} \/ i.v6 # {} PROVE families(i) # {}
  <1>1. CASE i.v4 # {}
    <2>1. "V4" \in families(i)
      BY <1>1 DEF families, Families
    <2> QED BY <2>1
  <1>2. CASE i.v6 # {}
    <2>1. "V6" \in families(i)
      BY <1>2 DEF families, Families
    <2> QED BY <2>1
  <1> QED BY <1>1, <1>2

LEMMA DiscoveredSockets ==
    ASSUME SocketInv, proc.step = "discover", proc.mode = "run",
           NEW new, families(new) # {},
           ifaces' = Append(ifaces, new), proc' = proc, open' = open
    PROVE  SocketInv'
  <1>0. PICK S : ifaces \in Seq(S)
    BY DEF SocketInv
  <1>1. ifaces \in Seq(S \cup {new}) /\ Append(ifaces, new) \in Seq(S \cup {new})
    BY <1>0
  <1>2. /\ \E T : Append(ifaces, new) \in Seq(T)
        /\ Len(Append(ifaces, new)) = Len(ifaces) + 1
        /\ \A n \in DOMAIN ifaces : Append(ifaces, new)[n] = ifaces[n]
        /\ Append(ifaces, new)[Len(ifaces) + 1] = new
        /\ DOMAIN Append(ifaces, new) = 1..(Len(ifaces) + 1)
        /\ DOMAIN ifaces = 1..Len(ifaces)
        /\ Len(ifaces) \in Nat
    BY <1>1
  <1>3. \A n \in DOMAIN ifaces' : families(ifaces'[n]) # {}
    BY <1>2 DEF SocketInv
  <1>4. open' = 0 /\ Len(ifaces') \in Nat /\ \E T : ifaces' \in Seq(T)
    BY <1>2 DEF SocketInv, Checking
  <1> QED BY <1>3, <1>4 DEF SocketInv, Checking

\* An interface that setup takes has an address.
LEMMA DiscoverInv == ASSUME IInv, Discover PROVE IInv'
  <1> USE DEF IInv, Checking, At, Exit, Refuse, Steps, Codes, PhaseInv
  <1>0. PICK os \in OsStates :
          LET name == Cfg.interfaces[Len(ifaces) + 1]
              addrs == iface_addrs(os.ifaddrs, name)
          IN  IF os.index[name] = {} \/ (addrs.v4 = {} /\ addrs.v6 = {})
              THEN Exit(INTERFACE_SETUP) /\ Refuse("interface") /\ UNCHANGED ifaces
              ELSE /\ ifaces' = Append(ifaces,
                          [name |-> name, ifindex |-> CHOOSE i \in os.index[name] : TRUE,
                           v4 |-> addrs.v4, v6 |-> addrs.v6, seen |-> os.ifaddrs])
                   /\ UNCHANGED <<proc, blame>>
    BY Zenon DEF Discover
  <1>a. proc.step = "discover" /\ UNCHANGED <<raw, cfg, open, recv, checked>>
    BY DEF Discover
  <1> DEFINE name == Cfg.interfaces[Len(ifaces) + 1]
             addrs == iface_addrs(os.ifaddrs, name)
             new == [name |-> name, ifindex |-> CHOOSE i \in os.index[name] : TRUE,
                     v4 |-> addrs.v4, v6 |-> addrs.v6, seen |-> os.ifaddrs]
  <1>1. CASE Exit(INTERFACE_SETUP) /\ Refuse("interface") /\ UNCHANGED ifaces
    <2> USE <1>a, <1>1
    <2>1. ConfigInv'
      BY DEF ConfigInv, Parses
    <2>2. PhaseInv'
      OBVIOUS
    <2>3. CodeInv'
      BY DEF CodeInv, Good, Parses, OK, CONFIG, CONFIG_VALIDATION, RUNTIME, INTERFACE_SETUP,
             SERVICE_RECORDS
    <2>4. SocketInv'
      BY DEF SocketInv
    <2> QED BY <2>1, <2>2, <2>3, <2>4
  <1>2. CASE /\ ifaces' = Append(ifaces, new)
             /\ UNCHANGED <<proc, blame>>
             /\ addrs.v4 # {} \/ addrs.v6 # {}
    <2> USE <1>a, <1>2
    <2>1. ConfigInv'
      BY DEF ConfigInv, Parses
    <2>2. PhaseInv'
      OBVIOUS
    <2>3. CodeInv'
      BY Zenon DEF CodeInv, Good, Parses
    <2>4. SocketInv'
      <3>1. families(new) # {}
        <4>1. new.v4 # {} \/ new.v6 # {}
          OBVIOUS
        <4> HIDE DEF new
        <4> QED BY <4>1, HasFamily
      <3> HIDE DEF new
      <3> QED BY <3>1, DiscoveredSockets, Zenon
    <2> QED BY <2>1, <2>2, <2>3, <2>4
  <1> QED BY <1>0, <1>1, <1>2

\* The receive sockets are there for the families of all interfaces.
LEMMA OpenRecvInv == ASSUME IInv, OpenRecv PROVE IInv'
  <1> USE DEF IInv, Checking, At, Goto, Exit, Refuse, Steps, Codes, PhaseInv
  <1>a. proc.step = "discover" /\ UNCHANGED <<raw, cfg, ifaces, open, checked>>
    BY DEF OpenRecv
  <1>b. \/ Goto("ifaces") /\ UNCHANGED blame
        \/ Exit(INTERFACE_SETUP) /\ Refuse("socket")
    BY DEF OpenRecv
  <1>1. ConfigInv'
    BY <1>a, <1>b DEF ConfigInv, Parses
  <1>2. PhaseInv'
    BY <1>a, <1>b
  <1>3. CodeInv'
    <2>1. blame = {} /\ proc.mode = "run" /\ (checked = {OK} => Good)
      BY <1>a DEF CodeInv
    <2>2. Good' = Good
      BY <1>a DEF Good, Parses
    <2>3. CASE Goto("ifaces") /\ UNCHANGED blame
      BY <1>a, <2>1, <2>2, <2>3 DEF CodeInv
    <2>4. CASE Exit(INTERFACE_SETUP) /\ Refuse("socket")
      BY <1>a, <2>1, <2>2, <2>4 DEF CodeInv, OK, CONFIG, CONFIG_VALIDATION, RUNTIME,
             INTERFACE_SETUP, SERVICE_RECORDS
    <2> QED BY <1>b, <2>3, <2>4
  <1>4. SocketInv'
    <2>1. \A f \in Families : Have(f)' <=> Have(f)
      BY <1>a DEF Have
    <2>2. proc'.mode = "run" /\ open = 0 /\ open' = 0
      BY <1>a, <1>b DEF SocketInv
    <2>3. \A f \in Families : Joined(f, open)' = {}
      BY <2>2 DEF Joined
    <2>4. CASE Exit(INTERFACE_SETUP)
      BY <1>a, <2>2, <2>4 DEF SocketInv
    <2>5. CASE /\ recv' = [f \in Families |-> IF Have(f) THEN {{}} ELSE {}]
               /\ Goto("ifaces")
      BY <1>a, <2>1, <2>2, <2>3, <2>5, Zenon DEF SocketInv
    <2> QED BY <2>4, <2>5 DEF OpenRecv, build_recv_socket
  <1> QED BY <1>1, <1>2, <1>3, <1>4

\* Leaving the group first, joining cannot fail for its being joined already, and
\* the two groups of the interface are added.
LEMMA OpenIfaceInv == ASSUME IInv, OpenIface PROVE IInv'
  <1> USE DEF IInv, Checking, At, Exit, Refuse, Steps, Codes, PhaseInv
  <1> DEFINE iface == ifaces[open + 1]
             joins == {f \in families(iface) : recv[f] # {}}
             m(f) == Membership(iface, f)
             left(f) == Leave(UNION recv[f], m(f))
  <1>a. /\ proc.step = "ifaces" /\ proc.mode = "run" /\ open < Len(ifaces)
        /\ UNCHANGED <<raw, cfg, ifaces, checked>>
    BY DEF OpenIface
  <1>b. ~\E f \in joins : JoinFails(left(f), m(f))
    BY DEF JoinFails, Leave
  <1>1. CASE Exit(INTERFACE_SETUP) /\ Refuse("socket") /\ UNCHANGED <<recv, open>>
    <2> USE <1>a, <1>1
    <2>1. ConfigInv'
      BY DEF ConfigInv, Parses
    <2>2. PhaseInv'
      OBVIOUS
    <2>3. CodeInv'
      BY DEF CodeInv, Good, Parses, OK, CONFIG, CONFIG_VALIDATION, RUNTIME, INTERFACE_SETUP,
             SERVICE_RECORDS
    <2>4. SocketInv'
      BY DEF SocketInv
    <2> QED BY <2>1, <2>2, <2>3, <2>4
  <1>2. CASE /\ recv' = [f \in Families |->
                            IF f \in joins THEN {left(f) \cup {m(f)}} ELSE recv[f]]
             /\ open' = open + 1
             /\ UNCHANGED <<proc, blame>>
    <2>1. ConfigInv'
      BY <1>a, <1>2 DEF ConfigInv, Parses
    <2>2. PhaseInv'
      BY <1>a, <1>2
    <2>3. CodeInv'
      BY <1>a, <1>2, Zenon DEF CodeInv, Good, Parses
    <2>4. SocketInv'
      <3>1. \A f \in Families : Have(f)' <=> Have(f)
        BY <1>a DEF Have
      <3>2. open \in Nat /\ open + 1 \in 0..Len(ifaces) /\ DOMAIN ifaces = 1..Len(ifaces)
              /\ open + 1 \in DOMAIN ifaces
        BY <1>a DEF SocketInv
      <3>3. ASSUME NEW f \in Families
            PROVE  recv'[f] = IF Have(f)' THEN {Joined(f, open)'} ELSE {}
        <4>1. CASE f \notin families(iface)
          <5>1. Joined(f, open)' = Joined(f, open)
            BY <1>a, <1>2, <3>2, <4>1 DEF Joined, Membership
          <5>2. recv'[f] = recv[f]
            BY <1>2, <4>1
          <5>3. recv[f] = IF Have(f) THEN {Joined(f, open)} ELSE {}
            BY <1>a, Zenon DEF SocketInv
          <5> QED BY <3>1, <5>1, <5>2, <5>3
        <4>2. CASE f \in families(iface)
          <5>1. Have(f)
            BY <3>2, <4>2 DEF Have
          <5>2. recv[f] = {Joined(f, open)}
            BY <1>a, <5>1, Zenon DEF SocketInv
          <5>3. recv'[f] = {(Joined(f, open) \ {m(f)}) \cup {m(f)}}
            BY <1>2, <4>2, <5>2 DEF Leave
          <5>4. Joined(f, open)' = Joined(f, open) \cup {m(f)}
            <6>1. \A n : n \in 1..(open + 1) <=> n \in 1..open \/ n = open + 1
              BY <3>2
            <6>2. Joined(f, open)' =
                    {Membership(ifaces[n], f) :
                        n \in {k \in 1..(open + 1) : f \in families(ifaces[k])}}
              BY <1>a, <1>2 DEF Joined, Membership
            <6> QED BY <4>2, <6>1, <6>2 DEF Joined
          <5> QED BY <3>1, <5>1, <5>3, <5>4
        <4> QED BY <4>1, <4>2
      <3> QED BY <1>a, <1>2, <3>2, <3>3, Zenon DEF SocketInv
    <2> QED BY <2>1, <2>2, <2>3, <2>4
  <1>3. \/ Exit(INTERFACE_SETUP) /\ Refuse("socket") /\ UNCHANGED <<recv, open>>
        \/ /\ recv' = [f \in Families |->
                          IF f \in joins THEN {left(f) \cup {m(f)}} ELSE recv[f]]
           /\ open' = open + 1
           /\ UNCHANGED <<proc, blame>>
    BY <1>b, Zenon DEF OpenIface
  <1> QED BY <1>1, <1>2, <1>3, Zenon

\* The steps of the browser leave the start as it is.
LEMMA StutterInv == ASSUME IInv, UNCHANGED startVars PROVE IInv'
  <1> USE DEF startVars, IInv, Checking
  <1>1. ConfigInv'
    BY DEF ConfigInv, Parses
  <1>2. PhaseInv'
    BY DEF PhaseInv
  <1>3. CodeInv'
    BY DEF CodeInv, Good, Parses
  <1>4. SocketInv'
    <2>1. \A f \in Families : Have(f)' <=> Have(f)
      BY DEF Have
    <2>2. \A f \in Families : Joined(f, open)' = Joined(f, open)
      BY DEF Joined, Membership
    <2> QED BY <2>1, <2>2, Zenon DEF SocketInv
  <1> QED BY <1>1, <1>2, <1>3, <1>4

LEMMA NextInv == IInv /\ [Next]_vars => IInv'
  <1> SUFFICES ASSUME IInv, [Next]_vars PROVE IInv'
    OBVIOUS
  <1>1. CASE StartStep
    BY <1>1, LoadInv, CheckInv, StartDaemonInv, BuildRuntimeInv, DiscoverInv, OpenRecvInv,
       OpenIfaceInv, BuildServicesInv DEF StartStep
  <1>2. CASE UNCHANGED startVars
    BY <1>2, StutterInv
  <1>3. StartStep \/ UNCHANGED startVars
    BY Zenon DEF Next, vars, BrowserStep, Spawn, WakeUp, Cancelled, BeginRound, ReturnAtTop,
           SendQuery, GoToSleep, Tick, Shutdown
  <1> QED BY <1>1, <1>2, <1>3

LEMMA Invariance == Spec => []IInv
  <1> QED BY InitInv, NextInv, PTL DEF Spec

-----------------------------------------------------------------------------
\* For any lists, address widths and prefix lengths, the filter of the running
\* daemon (Resolved::allow_source on what parse_subnet made of the lists) lets in
\* what the file says by prefixes.
THEOREM FilterAlways == Spec => []FilterExact
  <1>1. IInv => FilterExact
    <2> SUFFICES ASSUME IInv, NEW c \in cfg, NEW ip \in Addrs
                 PROVE  allow_source(c.whitelist, c.blacklist, ip) <=> Permits(raw, ip)
      BY DEF FilterExact
    <2>1. c = Resolved(raw) /\ Parses(raw) /\ raw \in RawConfigs
      BY DEF IInv, ConfigInv
    <2>2. /\ raw.whitelist = {} \/ raw.blacklist = {}
          /\ \A e \in raw.whitelist \cup raw.blacklist : Entry(e) /\ parses(e)
      BY <2>1, StartAssumption DEF Parses
    <2>3. /\ c.whitelist = {parse_subnet(e) : e \in raw.whitelist}
          /\ c.blacklist = {parse_subnet(e) : e \in raw.blacklist}
      BY <2>1 DEF Resolved
    <2>4. allow_source({parse_subnet(e) : e \in raw.whitelist},
                       {parse_subnet(e) : e \in raw.blacklist}, ip) <=> Permits(raw, ip)
      BY <2>2, AllowSourceExact
    <2> QED BY <2>3, <2>4
  <1> QED BY Invariance, <1>1, PTL

\* For any files: what --check (main) passed, a start does not fail on, whatever
\* the system does in between.
THEOREM CheckedConfigAlways == Spec => []CheckedConfigStarts
  <1>1. IInv => CheckedConfigStarts
    <2> SUFFICES ASSUME IInv, checked = {OK}
                 PROVE  /\ At("exited") => proc.code \notin {CONFIG, SERVICE_RECORDS}
                        /\ At("running") => NamesParse(Cfg.browse)
      BY DEF CheckedConfigStarts
    <2>1. Good
      BY DEF IInv, CodeInv
    <2>2. At("exited") => proc.code \notin {CONFIG, SERVICE_RECORDS}
      BY <2>1 DEF IInv, CodeInv, Good, At
    <2>3. At("running") => Cfg.browse = raw.browse
      BY CfgIs DEF IInv, At, Steps, Resolved
    <2> QED BY <2>1, <2>2, <2>3 DEF Good
  <1> QED BY Invariance, <1>1, PTL

\* For any files and any refusals of the system: the exit code of main and
\* engine::run names the phase that failed.
THEOREM ExitExplainedAlways == Spec => []ExitExplained
  <1>1. IInv => ExitExplained
    BY DEF IInv, CodeInv, ExitExplained, At
  <1> QED BY Invariance, <1>1, PTL

\* For any interfaces, the same one listed twice included, and whatever addresses
\* come and go during setup: a daemon that runs has joined the groups it needs.
THEOREM SocketsAlways == Spec => []SocketsReady
  <1>1. IInv => SocketsReady
    <2> SUFFICES ASSUME IInv, At("running")
                 PROVE  /\ \A n \in DOMAIN ifaces : families(ifaces[n]) # {}
                        /\ \A f \in Families :
                              UNION recv[f] = {Membership(ifaces[n], f) :
                                  n \in {k \in DOMAIN ifaces : f \in families(ifaces[k])}}
      BY DEF SocketsReady
    <2>1. \A n \in DOMAIN ifaces : families(ifaces[n]) # {}
      BY DEF IInv, SocketInv
    <2>2. DOMAIN ifaces = 1..open
      BY DEF IInv, SocketInv, At
    <2>3. ASSUME NEW f \in Families
          PROVE  UNION recv[f] = {Membership(ifaces[n], f) :
                                  n \in {k \in DOMAIN ifaces : f \in families(ifaces[k])}}
      <3>1. recv[f] = IF Have(f) THEN {Joined(f, open)} ELSE {}
        BY Zenon DEF IInv, SocketInv, At
      <3>2. CASE Have(f)
        BY <2>2, <3>1, <3>2 DEF Joined
      <3>3. CASE ~Have(f)
        BY <3>1, <3>3 DEF Have
      <3> QED BY <3>2, <3>3
    <2> QED BY <2>1, <2>3
  <1> QED BY Invariance, <1>1, PTL

\* Every interface has the addresses that iface_addrs found for it.
AddrsInv ==
    \A n \in DOMAIN ifaces : \E os \in OsStates :
        /\ ifaces[n].seen = os.ifaddrs
        /\ ifaces[n].v4 = iface_addrs(os.ifaddrs, ifaces[n].name).v4
        /\ ifaces[n].v6 = iface_addrs(os.ifaddrs, ifaces[n].name).v6

LEMMA AddrsDiscover == ASSUME SocketInv, AddrsInv, Discover PROVE AddrsInv'
  <1>1. PICK os \in OsStates :
          LET name == Cfg.interfaces[Len(ifaces) + 1]
              addrs == iface_addrs(os.ifaddrs, name)
          IN  \/ UNCHANGED ifaces
              \/ ifaces' = Append(ifaces,
                          [name |-> name, ifindex |-> CHOOSE i \in os.index[name] : TRUE,
                           v4 |-> addrs.v4, v6 |-> addrs.v6, seen |-> os.ifaddrs])
    BY Zenon DEF Discover
  <1> DEFINE name == Cfg.interfaces[Len(ifaces) + 1]
             addrs == iface_addrs(os.ifaddrs, name)
             new == [name |-> name, ifindex |-> CHOOSE i \in os.index[name] : TRUE,
                     v4 |-> addrs.v4, v6 |-> addrs.v6, seen |-> os.ifaddrs]
  <1>2. CASE UNCHANGED ifaces
    BY <1>2 DEF AddrsInv
  <1>3. CASE ifaces' = Append(ifaces, new)
    <2>1. /\ new.seen = os.ifaddrs
          /\ new.v4 = iface_addrs(os.ifaddrs, new.name).v4
          /\ new.v6 = iface_addrs(os.ifaddrs, new.name).v6
      OBVIOUS
    <2> HIDE DEF new
    <2>2. PICK S : ifaces \in Seq(S)
      BY DEF SocketInv
    <2>3. ifaces \in Seq(S \cup {new})
      BY <2>2
    <2>4. \A n \in DOMAIN ifaces' : (n \in DOMAIN ifaces /\ ifaces'[n] = ifaces[n]) \/ ifaces'[n] = new
      BY <1>3, <2>3
    <2> QED BY <2>1, <2>4 DEF AddrsInv
  <1> QED BY <1>1, <1>2, <1>3

\* For any host, mask and address width, and whatever addresses come and go: by
\* Iface::contains a datagram is on a link's subnet just when it agrees with the
\* interface's first usable address on the kernel's mask.
THEOREM OnLinkAlways == Spec => []OnLinkExact
  <1>1. Init => AddrsInv
    BY DEF Init, StartInit, AddrsInv
  <1>2. IInv /\ AddrsInv /\ [Next]_vars => AddrsInv'
    <2> SUFFICES ASSUME IInv, AddrsInv, [Next]_vars PROVE AddrsInv'
      OBVIOUS
    <2>1. CASE Discover
      BY <2>1, AddrsDiscover DEF IInv
    <2>2. CASE UNCHANGED ifaces
      BY <2>2 DEF AddrsInv
    <2>3. Discover \/ UNCHANGED ifaces
      BY Zenon DEF Next, vars, startVars, StartStep, Load, Check, StartDaemon, BuildRuntime, OpenRecv,
             OpenIface, BuildServices, BrowserStep, Spawn, WakeUp, Cancelled, BeginRound,
             ReturnAtTop, SendQuery, GoToSleep, Tick, Shutdown
    <2> QED BY <2>1, <2>2, <2>3
  <1>3. AddrsInv => OnLinkExact
    <2> SUFFICES ASSUME AddrsInv, NEW n \in DOMAIN ifaces, NEW ip \in Addrs
                 PROVE  contains(ifaces[n], ip) <=>
                           \E a \in Usable(ifaces[n].seen, ifaces[n].name, ip.fam) :
                              AgreeOn(NetmaskOf(a, ip.fam), a.bits, ip.bits)
      BY Zenon DEF OnLinkExact, NetmaskOf
    <2>1. PICK os \in OsStates :
             /\ ifaces[n].seen = os.ifaddrs
             /\ ifaces[n].v4 = iface_addrs(os.ifaddrs, ifaces[n].name).v4
             /\ ifaces[n].v6 = iface_addrs(os.ifaddrs, ifaces[n].name).v6
      BY DEF AddrsInv
    <2>2. \A k \in DOMAIN os.ifaddrs : IfAddr(os.ifaddrs[k])
      BY StartAssumption, Zenon
    <2> QED BY <2>1, <2>2, ContainsExact, Zenon
  <1> QED BY <1>1, <1>2, <1>3, Invariance, PTL DEF Spec

\* For any file: the cast of insert_from keeps the cap that the file gives.
THEOREM CapAlways == Spec => []CapAsConfigured
  <1>1. IInv => CapAsConfigured
    <2> SUFFICES ASSUME IInv, NEW c \in cfg
                 PROVE  {t % (MAX_CACHE_TTL_SECS + 1) : t \in c.cache_max_ttl_secs}
                           = raw.cache_max_ttl_secs \ {0}
      BY Zenon DEF CapAsConfigured
    <2>1. /\ c.cache_max_ttl_secs = raw.cache_max_ttl_secs \ {0}
          /\ \A t \in raw.cache_max_ttl_secs : t \in 0..MAX_CACHE_TTL_SECS
      <3>1. c = Resolved(raw) /\ Parses(raw) /\ raw \in RawConfigs
        BY DEF IInv, ConfigInv
      <3>2. c.cache_max_ttl_secs = raw.cache_max_ttl_secs \ {0}
        BY <3>1 DEF Resolved, CacheMaxTtl
      <3>3. raw \in RawConfigs \ {Unreadable}
            /\ \A t \in raw.cache_max_ttl_secs : t <= MAX_CACHE_TTL_SECS
        BY <3>1 DEF Parses
      <3>4. MAX_CACHE_TTL_SECS \in Nat /\ raw.cache_max_ttl_secs \subseteq Nat
        BY <3>3, StartAssumption
      <3> QED BY <3>2, <3>3, <3>4
    <2>2. \A t \in 0..MAX_CACHE_TTL_SECS : t % (MAX_CACHE_TTL_SECS + 1) = t
      BY StartAssumption, SmallMod
    <2> QED BY <2>1, <2>2
  <1> QED BY Invariance, <1>1, PTL

-----------------------------------------------------------------------------
\* The browser of a daemon that runs.

\* There is at most one receive socket per family, at every stage of the start.
RecvInv == \A f \in Families : recv[f] = {} \/ \E groups \in recv[f] : recv[f] = {groups}

\* The interval due after one of `l', an Option: the first one is a second.
Due(l, cap) == IF l = {} THEN SECOND ELSE next_backoff(Max(l), cap)

Interval(l) == \E d \in 1..MAX_DURATION : l = {d}

\* The interval to wait for next, and the two before it.
BackoffInv ==
    /\ lastgap = {} \/ Interval(lastgap)
    /\ br.pc \in {"spawn", "jitter"} => gap = {} /\ lastgap = {} /\ br.delay = SECOND
    /\ br.pc = "top" => /\ br.delay = Due(gap, Cap)
                        /\ gap = {} \/ gap = {Due(lastgap, Cap)}
    /\ br.pc = "send" => gap = {0} /\ br.delay = Due(lastgap, Cap)
    /\ br.pc = "sleep" => /\ gap = {br.delay - br.left} /\ br.left <= br.delay
                          /\ br.delay = Due(lastgap, Cap)

\* The sends to the first k interfaces.
AskedOn(k) == UNION {{n} \X families(ifaces[n]) : n \in 1..k}

RoundInv ==
    /\ br.idx \in Nat
    /\ br.pc = "send" => br.idx \in 1..(Len(ifaces) + 1) /\ asked = AskedOn(br.idx - 1)
    /\ br.pc = "sleep" => asked = AskedOn(Len(ifaces))

BrInv ==
    /\ br.pc \in BrPcs
    /\ br.pc # "spawn" => At("running")
    /\ br.delay \in 1..MAX_DURATION
    /\ br.left \in 0..MAX_DURATION
    /\ got \subseteq asked

BInv == IInv /\ RecvInv /\ BrInv /\ BackoffInv /\ RoundInv

LEMMA MinIs ==
    ASSUME NEW S \in SUBSET Int, NEW m \in S, \A y \in S : m <= y
    PROVE  Min(S) = m
  <1>1. Min(S) \in S /\ \A y \in S : Min(S) <= y
    BY Zenon DEF Min
  <1>2. Min(S) <= m /\ m <= Min(S) /\ m \in Int /\ Min(S) \in Int
    BY <1>1, Zenon
  <1> QED BY <1>2

LEMMA MaxIs ==
    ASSUME NEW S \in SUBSET Int, NEW m \in S, \A y \in S : m >= y
    PROVE  Max(S) = m
  <1>1. Max(S) \in S /\ \A y \in S : Max(S) >= y
    BY Zenon DEF Max
  <1>2. Max(S) >= m /\ m >= Max(S) /\ m \in Int /\ Max(S) \in Int
    BY <1>1, Zenon
  <1> QED BY <1>2

\* next_backoff neither overflows nor exceeds its ceiling.
LEMMA NextBackoff ==
    ASSUME NEW cur \in 1..MAX_DURATION, NEW cap \in 1..MAX_DURATION
    PROVE  /\ next_backoff(cur, cap) \in 1..MAX_DURATION
           /\ next_backoff(cur, cap) = Min({2 * cur, cap})
  <1>0. MAX_DURATION \in Nat
    BY BrowserAssumption
  <1>1. CASE 2 * cur <= cap
    <2>1. next_backoff(cur, cap) = 2 * cur
      BY <1>0, <1>1, MinIs DEF next_backoff
    <2>2. Min({2 * cur, cap}) = 2 * cur
      BY <1>1, MinIs
    <2> QED BY <1>0, <1>1, <2>1, <2>2
  <1>2. CASE cap < 2 * cur
    <2>1. next_backoff(cur, cap) = cap
      BY <1>0, <1>2, MinIs DEF next_backoff
    <2>2. Min({2 * cur, cap}) = cap
      BY <1>2, MinIs
    <2> QED BY <2>1, <2>2
  <1> QED BY <1>0, <1>1, <1>2

LEMMA DueType ==
    ASSUME NEW l, l = {} \/ Interval(l), NEW cap \in 1..MAX_DURATION
    PROVE  Due(l, cap) \in 1..MAX_DURATION
  <1>1. CASE l = {}
    BY <1>1, BrowserAssumption DEF Due
  <1>2. ASSUME NEW d \in 1..MAX_DURATION, l = {d} PROVE Due(l, cap) \in 1..MAX_DURATION
    <2>1. Max(l) = d
      BY <1>2, MaxIs
    <2> QED BY <1>2, <2>1, NextBackoff, Zenon DEF Due
  <1> QED BY <1>1, <1>2 DEF Interval

LEMMA DueOne ==
    ASSUME NEW d \in 1..MAX_DURATION, NEW cap
    PROVE  Due({d}, cap) = next_backoff(d, cap)
  <1>1. Max({d}) = d
    BY MaxIs
  <1> QED BY <1>1 DEF Due

\* The ceiling of a daemon that runs is at least a second, and a Duration.
LEMMA CapType == ASSUME IInv, At("running") PROVE Cap \in 1..MAX_DURATION
  <1>1. Cfg.browse_interval_secs = raw.browse_interval_secs /\ raw \in RawConfigs \ {Unreadable}
    <2>1. Cfg = Resolved(raw) /\ Parses(raw)
      BY CfgIs DEF IInv, At, Steps
    <2>2. raw \in RawConfigs
      BY DEF IInv, ConfigInv
    <2>3. Resolved(raw).browse_interval_secs = raw.browse_interval_secs
      BY DEF Resolved
    <2>4. raw # Unreadable
      BY <2>1 DEF Parses
    <2> QED BY <2>1, <2>2, <2>3, <2>4
  <1> DEFINE secs == raw.browse_interval_secs
  <1>2. secs \in Nat /\ secs * SECOND <= MAX_DURATION
    BY <1>1, BrowserAssumption
  <1>3. SECOND \in Nat \ {0} /\ MAX_DURATION \in Nat /\ SECOND <= MAX_DURATION
    BY BrowserAssumption
  <1> HIDE DEF secs
  <1>4. CASE secs = 0
    <2>1. Max({secs, 1}) = 1
      BY <1>4, MaxIs
    <2> QED BY <1>1, <1>3, <2>1 DEF Cap, secs
  <1>5. CASE secs # 0
    <2>1. Max({secs, 1}) = secs
      BY <1>2, <1>5, MaxIs
    <2>2. secs * SECOND >= 1
      BY <1>2, <1>3, <1>5
    <2>3. Cap = secs * SECOND
      BY <1>1, <2>1 DEF Cap, secs
    <2>4. secs * SECOND \in Int
      BY <1>2, <1>3
    <2> QED BY <1>2, <1>3, <2>2, <2>3, <2>4
  <1> QED BY <1>4, <1>5

LEMMA BrowserInit == Init => BInv
  <1> SUFFICES ASSUME Init PROVE BInv
    OBVIOUS
  <1>1. IInv
    BY InitInv
  <1>2. RecvInv
    BY DEF Init, StartInit, RecvInv
  <1>3. BrInv
    BY BrowserAssumption DEF Init, BrInv, BrPcs
  <1>4. BackoffInv /\ RoundInv
    BY DEF Init, BackoffInv, RoundInv
  <1> QED BY <1>1, <1>2, <1>3, <1>4 DEF BInv

\* As long as the start goes on, the browser has not been spawned.
LEMMA StartStepInv == ASSUME BInv, StartStep, UNCHANGED browserVars PROVE BInv'
  <1>0. IInv'
    BY NextInv DEF BInv, Next
  <1>1. UNCHANGED <<br, shutdown, asked, got, gap, lastgap>>
    BY DEF browserVars
  <1>2. ~At("running")
    BY Zenon DEF StartStep, Load, Check, StartDaemon, BuildRuntime, Discover, OpenRecv, OpenIface,
           BuildServices, At
  <1>3. br.pc = "spawn"
    BY <1>2 DEF BInv, BrInv
  <1>4. RecvInv'
    <2>1. CASE OpenRecv
      BY <2>1, Zenon DEF OpenRecv, RecvInv, BInv, build_recv_socket
    <2>2. CASE OpenIface
      <3>1. \A f \in Families : recv'[f] = recv[f] \/ \E groups : recv'[f] = {groups}
        BY <2>2, Zenon DEF OpenIface
      <3> QED BY <3>1 DEF RecvInv, BInv
    <2>3. CASE UNCHANGED recv
      BY <2>3 DEF RecvInv, BInv
    <2> QED BY <2>1, <2>2, <2>3, Zenon DEF StartStep, Load, Check, StartDaemon, BuildRuntime, Discover,
                                    BuildServices
  <1>5. BrInv'
    BY <1>1, <1>3 DEF BInv, BrInv
  <1>6. BackoffInv'
    BY <1>1, <1>3 DEF BInv, BackoffInv, Interval
  <1>7. RoundInv'
    BY <1>1, <1>3 DEF BInv, RoundInv
  <1> QED BY <1>0, <1>4, <1>5, <1>6, <1>7 DEF BInv

\* What the steps of the browser find of the start, and leave as it is.
LEMMA Browsing ==
    ASSUME BInv, UNCHANGED startVars
    PROVE  /\ IInv' /\ RecvInv'
           /\ Cap' = Cap /\ At("running")' = At("running")
           /\ At("running") => Cap \in 1..MAX_DURATION
           /\ ifaces' = ifaces /\ Len(ifaces) \in Nat
           /\ \A k \in Nat : AskedOn(k)' = AskedOn(k)
  <1>1. IInv'
    BY StutterInv DEF BInv
  <1>2. UNCHANGED <<recv, cfg, proc, ifaces>>
    BY DEF startVars
  <1>3. RecvInv' /\ At("running")' = At("running")
    BY <1>2 DEF BInv, RecvInv, At
  <1>4. Cap' = Cap
    BY <1>2 DEF Cap, Cfg
  <1>5. At("running") => Cap \in 1..MAX_DURATION
    BY CapType DEF BInv
  <1>6. Len(ifaces) \in Nat
    BY DEF BInv, IInv, SocketInv
  <1>7. \A k \in Nat : AskedOn(k)' = AskedOn(k)
    BY <1>2 DEF AskedOn, families
  <1> QED BY <1>1, <1>2, <1>3, <1>4, <1>5, <1>6, <1>7

LEMMA SpawnInv == ASSUME BInv, Spawn PROVE BrInv' /\ BackoffInv' /\ RoundInv'
  <1>0. MAX_DURATION \in Nat /\ FirstQueryJitter \subseteq 0..MAX_DURATION
    BY BrowserAssumption
  <1>1. /\ br.pc = "spawn" /\ br'.pc \in {"jitter", "done"} /\ At("running")
        /\ br'.delay = br.delay /\ br'.idx = br.idx /\ br'.left \in 0..MAX_DURATION
        /\ UNCHANGED <<startVars, asked, got, gap, lastgap>>
    <2>1. CASE TRUE \in Cfg.browse
      <3>1. PICK j \in FirstQueryJitter : Continue("jitter", j)
        BY <2>1 DEF Spawn
      <3> QED BY <1>0, <3>1 DEF Spawn, Continue
    <2>2. CASE TRUE \notin Cfg.browse
      BY <2>2 DEF Spawn, Continue, BInv, BrInv
    <2> QED BY <2>1, <2>2, Zenon
  <1>2. BrInv'
    BY <1>1, Browsing DEF BInv, BrInv, BrPcs
  <1>3. BackoffInv'
    BY <1>1 DEF BInv, BackoffInv, Interval
  <1>4. RoundInv'
    BY <1>1, Zenon DEF BInv, RoundInv
  <1> QED BY <1>2, <1>3, <1>4

\* The interval grows from one round to the next.
LEMMA WakeUpInv == ASSUME BInv, WakeUp PROVE BrInv' /\ BackoffInv' /\ RoundInv'
  <1>1. /\ br.pc \in {"jitter", "sleep"} /\ br.left = 0
        /\ br'.pc = "top" /\ br'.left = 0 /\ br'.idx = br.idx /\ br'.delay = NextDelay
        /\ UNCHANGED <<startVars, asked, got, gap, lastgap>>
    BY DEF WakeUp, Sleeping
  <1>2. At("running") /\ br.delay \in 1..MAX_DURATION
    BY <1>1 DEF BInv, BrInv
  <1>3. Cap' = Cap /\ Cap \in 1..MAX_DURATION /\ At("running")'
    BY <1>1, <1>2, Browsing
  <1>4. CASE br.pc = "jitter"
    <2>1. gap = {} /\ lastgap = {} /\ br'.delay = SECOND
      BY <1>1, <1>4 DEF BInv, BackoffInv, NextDelay
    <2>2. br'.delay = Due(gap, Cap)
      BY <2>1 DEF Due
    <2>3. BackoffInv'
      BY <1>1, <1>3, <2>1, <2>2 DEF BackoffInv
    <2>4. BrInv'
      BY <1>1, <1>2, <1>3, <2>1, BrowserAssumption DEF BInv, BrInv, BrPcs
    <2> QED BY <1>1, <2>3, <2>4 DEF BInv, RoundInv
  <1>5. CASE br.pc = "sleep"
    <2>1. gap = {br.delay} /\ br.delay = Due(lastgap, Cap) /\ (lastgap = {} \/ Interval(lastgap))
      BY <1>1, <1>2, <1>5 DEF BInv, BackoffInv
    <2>2. br'.delay = next_backoff(br.delay, Cap)
      BY <1>1, <1>5 DEF NextDelay
    <2>3. br'.delay = Due(gap, Cap)
      BY <1>2, <2>1, <2>2, DueOne
    <2>4. br'.delay \in 1..MAX_DURATION
      BY <1>2, <1>3, <2>2, NextBackoff, Zenon
    <2>5. BackoffInv'
      BY <1>1, <1>3, <2>1, <2>3 DEF BackoffInv, Interval
    <2>6. BrInv'
      BY <1>1, <1>3, <2>4, BrowserAssumption DEF BInv, BrInv, BrPcs
    <2> QED BY <1>1, <2>5, <2>6 DEF BInv, RoundInv
  <1> QED BY <1>1, <1>4, <1>5

LEMMA ReturnInv == ASSUME BInv, Cancelled \/ ReturnAtTop PROVE BrInv' /\ BackoffInv' /\ RoundInv'
  <1>1. /\ br'.pc = "done" /\ br'.left = br.left /\ br'.idx = br.idx /\ br'.delay = br.delay
        /\ br.pc # "spawn"
        /\ UNCHANGED <<startVars, asked, got, gap, lastgap>>
    BY DEF Cancelled, ReturnAtTop, Sleeping, Continue
  <1>2. BrInv'
    BY <1>1, Browsing DEF BInv, BrInv, BrPcs
  <1>3. BackoffInv' /\ RoundInv'
    BY <1>1 DEF BInv, BackoffInv, RoundInv, Interval
  <1> QED BY <1>2, <1>3

LEMMA BeginRoundInv == ASSUME BInv, BeginRound PROVE BrInv' /\ BackoffInv' /\ RoundInv'
  <1>1. /\ br.pc = "top" /\ br'.pc = "send" /\ br'.left = 0 /\ br'.idx = 1 /\ br'.delay = br.delay
        /\ asked' = {} /\ got' = {} /\ gap' = {0} /\ lastgap' = gap
        /\ UNCHANGED startVars
    BY DEF BeginRound
  <1>2. At("running") /\ br.delay \in 1..MAX_DURATION
    BY <1>1 DEF BInv, BrInv
  <1>3. Cap' = Cap /\ Cap \in 1..MAX_DURATION /\ At("running")' /\ Len(ifaces) \in Nat
           /\ ifaces' = ifaces
    BY <1>1, <1>2, Browsing
  <1>4. BrInv'
    BY <1>1, <1>2, <1>3, BrowserAssumption DEF BrInv, BrPcs
  <1>5. BackoffInv'
    <2>1. br.delay = Due(gap, Cap) /\ (gap = {} \/ gap = {Due(lastgap, Cap)})
      BY <1>1 DEF BInv, BackoffInv
    <2>2. Due(lastgap, Cap) \in 1..MAX_DURATION
      BY <1>3, DueType, Zenon DEF BInv, BackoffInv
    <2> QED BY <1>1, <1>3, <2>1, <2>2 DEF BackoffInv, Interval
  <1>6. RoundInv'
    <2>1. AskedOn(0)' = {}
      BY DEF AskedOn
    <2> QED BY <1>1, <1>3, <2>1 DEF RoundInv
  <1> QED BY <1>4, <1>5, <1>6

LEMMA SendQueryInv == ASSUME BInv, SendQuery PROVE BrInv' /\ BackoffInv' /\ RoundInv'
  <1>1. PICK r \in send_mdns_all(ifaces[br.idx]) :
          /\ asked' = asked \cup ({br.idx} \X r.tried)
          /\ got' = got \cup ({br.idx} \X r.sent)
    BY DEF SendQuery
  <1>2. r.tried = families(ifaces[br.idx]) /\ r.sent \subseteq r.tried
    BY DEF send_mdns_all
  <1>3. /\ br.pc = "send" /\ br.idx <= Len(ifaces)
        /\ br'.pc = "send" /\ br'.left = 0 /\ br'.idx = br.idx + 1 /\ br'.delay = br.delay
        /\ UNCHANGED <<startVars, gap, lastgap>>
    BY DEF SendQuery
  <1>4. At("running") /\ br.delay \in 1..MAX_DURATION /\ got \subseteq asked
    BY <1>3 DEF BInv, BrInv
  <1>5. /\ Cap' = Cap /\ At("running")' /\ ifaces' = ifaces /\ Len(ifaces) \in Nat
        /\ \A k \in Nat : AskedOn(k)' = AskedOn(k)
    BY <1>3, <1>4, Browsing
  <1>6. BrInv'
    <2>1. got' \subseteq asked'
      BY <1>1, <1>2, <1>4
    <2> QED BY <1>3, <1>4, <1>5, <2>1, BrowserAssumption DEF BrInv, BrPcs
  <1>7. BackoffInv'
    BY <1>3, <1>5 DEF BInv, BackoffInv, Interval
  <1>8. RoundInv'
    <2>1. br.idx \in 1..Len(ifaces) /\ asked = AskedOn(br.idx - 1)
      <3>1. br.idx \in 1..(Len(ifaces) + 1) /\ asked = AskedOn(br.idx - 1)
        BY <1>3, Zenon DEF BInv, RoundInv
      <3>2. \A i, n \in Int : i \in 1..(n + 1) /\ i <= n => i \in 1..n
        OBVIOUS
      <3>3. br.idx \in Int /\ Len(ifaces) \in Int
        BY <3>1, <1>5
      <3> QED BY <3>1, <3>2, <3>3, <1>3, Zenon
    <2>2. \A n : n \in 1..br.idx <=> n \in 1..(br.idx - 1) \/ n = br.idx
      BY <2>1, <1>5
    <2>3. AskedOn(br.idx) = AskedOn(br.idx - 1) \cup ({br.idx} \X families(ifaces[br.idx]))
      <3> DEFINE F(n) == {n} \X families(ifaces[n])
      <3>1. \A k : \A x : x \in AskedOn(k) <=> \E n \in 1..k : x \in F(n)
        BY DEF AskedOn
      <3>2. F(br.idx) = {br.idx} \X families(ifaces[br.idx])
        OBVIOUS
      <3> HIDE DEF F
      <3>3. \A x : x \in AskedOn(br.idx) <=> x \in AskedOn(br.idx - 1) \/ x \in F(br.idx)
        BY <2>2, <3>1
      <3> QED BY <3>2, <3>3
    <2>4. asked' = AskedOn(br.idx)
      BY <1>1, <1>2, <2>1, <2>3
    <2>5. br'.idx - 1 = br.idx /\ br.idx \in Nat /\ br'.idx \in 1..(Len(ifaces) + 1)
      <3>1. \A n \in Int : \A i \in 1..n : i + 1 - 1 = i /\ i \in Nat /\ i + 1 \in 1..(n + 1)
        OBVIOUS
      <3>2. Len(ifaces) \in Int
        BY <1>5
      <3>3. br.idx + 1 - 1 = br.idx /\ br.idx \in Nat /\ br.idx + 1 \in 1..(Len(ifaces) + 1)
        BY <2>1, <3>1, <3>2, Zenon
      <3>4. br'.idx = br.idx + 1
        BY <1>3, Zenon
      <3> QED BY <3>3, <3>4
    <2>6. AskedOn(br.idx - 1)' = AskedOn(br.idx)
      BY <1>3, <1>5, <2>5 DEF AskedOn, families
    <2> QED BY <1>3, <1>5, <2>4, <2>5, <2>6 DEF RoundInv
  <1> QED BY <1>6, <1>7, <1>8

LEMMA GoToSleepInv == ASSUME BInv, GoToSleep PROVE BrInv' /\ BackoffInv' /\ RoundInv'
  <1>1. /\ br.pc = "send" /\ br.idx > Len(ifaces)
        /\ br'.pc = "sleep" /\ br'.left = br.delay /\ br'.idx = br.idx /\ br'.delay = br.delay
        /\ UNCHANGED <<startVars, asked, got, gap, lastgap>>
    BY DEF GoToSleep, Continue
  <1>2. At("running") /\ br.delay \in 1..MAX_DURATION
    BY <1>1 DEF BInv, BrInv
  <1>3. /\ Cap' = Cap /\ At("running")' /\ ifaces' = ifaces /\ Len(ifaces) \in Nat
        /\ \A k \in Nat : AskedOn(k)' = AskedOn(k)
    BY <1>1, <1>2, Browsing
  <1>4. BrInv'
    BY <1>1, <1>2, <1>3, BrowserAssumption DEF BInv, BrInv, BrPcs
  <1>5. BackoffInv'
    BY <1>1, <1>2, <1>3 DEF BInv, BackoffInv, Interval
  <1>6. RoundInv'
    <2>1. br.idx \in 1..(Len(ifaces) + 1) /\ asked = AskedOn(br.idx - 1)
      BY <1>1 DEF BInv, RoundInv
    <2>2. br.idx - 1 = Len(ifaces)
      BY <1>1, <1>3, <2>1
    <2>3. asked' = AskedOn(Len(ifaces))'
      BY <1>1, <1>3, <2>1, <2>2 DEF AskedOn, families
    <2> QED BY <1>1, <2>3 DEF BInv, RoundInv
  <1> QED BY <1>4, <1>5, <1>6

LEMMA TickInv == ASSUME BInv, Tick PROVE BrInv' /\ BackoffInv' /\ RoundInv'
  <1>1. /\ br.pc \in {"jitter", "sleep"} /\ br.left > 0
        /\ br'.pc = br.pc /\ br'.left = br.left - 1 /\ br'.idx = br.idx /\ br'.delay = br.delay
        /\ gap' = {g + 1 : g \in gap}
        /\ UNCHANGED <<startVars, asked, got, lastgap>>
    BY DEF Tick, Sleeping, Continue
  <1>2. At("running") /\ br.delay \in 1..MAX_DURATION /\ br.left \in 0..MAX_DURATION
    BY <1>1 DEF BInv, BrInv
  <1>3. /\ Cap' = Cap /\ At("running")' /\ ifaces' = ifaces /\ Len(ifaces) \in Nat
        /\ \A k \in Nat : AskedOn(k)' = AskedOn(k)
    BY <1>1, <1>2, Browsing
  <1>4. br'.left \in 0..MAX_DURATION /\ br'.left <= br.left
    BY <1>1, <1>2, BrowserAssumption
  <1>5. BrInv'
    BY <1>1, <1>2, <1>3, <1>4 DEF BInv, BrInv
  <1>6. BackoffInv'
    <2>1. CASE br.pc = "jitter"
      BY <1>1, <1>3, <2>1, Zenon DEF BInv, BackoffInv, Interval
    <2>2. CASE br.pc = "sleep"
      <3>1. gap = {br.delay - br.left} /\ br.left <= br.delay
        BY <2>2 DEF BInv, BackoffInv
      <3>2. br.delay - br.left + 1 = br'.delay - br'.left /\ br'.left <= br'.delay
        <4>1. \A d, l \in Int : l <= d => d - l + 1 = d - (l - 1) /\ l - 1 <= d
          OBVIOUS
        <4>2. br.delay \in Int /\ br.left \in Int
          BY <1>2, BrowserAssumption
        <4> QED BY <1>1, <3>1, <4>1, <4>2, Zenon
      <3>3. gap' = {br'.delay - br'.left}
        BY <1>1, <3>1, <3>2
      <3> QED BY <1>1, <1>3, <2>2, <3>2, <3>3 DEF BInv, BackoffInv, Interval
    <2> QED BY <1>1, <2>1, <2>2
  <1>7. RoundInv'
    BY <1>1, <1>3 DEF BInv, RoundInv
  <1> QED BY <1>5, <1>6, <1>7

LEMMA BrowserNext == BInv /\ [Next]_vars => BInv'
  <1> SUFFICES ASSUME BInv, [Next]_vars PROVE BInv'
    OBVIOUS
  <1>1. CASE StartStep /\ UNCHANGED browserVars
    BY <1>1, StartStepInv
  <1>2. CASE BrowserStep \/ Tick
    <2>1. UNCHANGED startVars
      BY <1>2, Zenon DEF BrowserStep, Spawn, WakeUp, Cancelled, BeginRound, ReturnAtTop, SendQuery,
                  GoToSleep, Tick
    <2>2. BrInv' /\ BackoffInv' /\ RoundInv'
      BY <1>2, SpawnInv, WakeUpInv, ReturnInv, BeginRoundInv, SendQueryInv, GoToSleepInv, TickInv
         DEF BrowserStep
    <2> QED BY <2>1, <2>2, Browsing DEF BInv
  <1>3. CASE Shutdown \/ UNCHANGED vars
    <2>1. UNCHANGED <<startVars, br, asked, got, gap, lastgap>>
      BY <1>3 DEF Shutdown, vars, browserVars
    <2>2. /\ IInv' /\ RecvInv' /\ Cap' = Cap /\ At("running")' = At("running") /\ ifaces' = ifaces
          /\ Len(ifaces) \in Nat /\ \A k \in Nat : AskedOn(k)' = AskedOn(k)
      BY <2>1, Browsing
    <2>3. BrInv'
      BY <2>1, <2>2 DEF BInv, BrInv
    <2>4. BackoffInv'
      BY <2>1, <2>2 DEF BInv, BackoffInv, Interval
    <2>5. RoundInv'
      <3>1. br' = br /\ ifaces' = ifaces
        BY <2>1, <2>2, Zenon
      <3>2. AskedOn(br.idx - 1)' = AskedOn(br.idx - 1)
        BY <3>1 DEF AskedOn, families
      <3>3. AskedOn(Len(ifaces))' = AskedOn(Len(ifaces))
        BY <3>1 DEF AskedOn, families
      <3> QED BY <2>1, <3>1, <3>2, <3>3 DEF BInv, RoundInv
    <2> QED BY <2>2, <2>3, <2>4, <2>5 DEF BInv
  <1> QED BY <1>1, <1>2, <1>3 DEF Next

\* The browser's inductive invariant, along the whole life of the daemon.
THEOREM BrowserInvariance == Spec => []BInv
  BY BrowserInit, BrowserNext, PTL DEF Spec

\* For any files, interfaces and durations: delay and sleep of the browser stay
\* within Duration, nothing is sent that was not tried, and each stage of the
\* start has put its part in place (browser::run, main, iface::setup).
THEOREM BrowserTypeCorrect == Spec => []BrowserTypeOK
  <1>1. BInv => BrowserTypeOK
    <2> SUFFICES ASSUME BInv PROVE BrowserTypeOK
      OBVIOUS
    <2>1. proc.step \in Steps /\ proc.code \in Codes
      BY DEF BInv, IInv, PhaseInv
    <2>2. proc.step \notin {"load", "exited"} => Cardinality(cfg) = 1
      BY <2>1, FS_Singleton DEF BInv, IInv, ConfigInv
    <2>3. open \in 0..Len(ifaces)
      BY DEF BInv, IInv, SocketInv
    <2>4. \A f \in Families : Cardinality(recv[f]) <= 1
      <3> TAKE f \in Families
      <3>1. CASE recv[f] = {}
        BY <3>1, FS_EmptySet
      <3>2. ASSUME NEW groups, recv[f] = {groups} PROVE Cardinality(recv[f]) <= 1
        <4>1. Cardinality({groups}) = 1
          BY FS_Singleton
        <4> QED BY <3>2, <4>1
      <3> QED BY <3>1, <3>2 DEF BInv, RecvInv
    <2>5. StartTypeOK
      BY <2>1, <2>2, <2>3, <2>4 DEF StartTypeOK, Codes
    <2> QED BY <2>5 DEF BInv, BrInv, BrowserTypeOK
  <1> QED BY BrowserInvariance, <1>1, PTL

\* For any interfaces, and whichever sends fail: when send_queries has been round,
\* it has tried every family of every interface.
THEOREM RoundAlways == Spec => []RoundAsksEverywhere
  <1>1. BInv => RoundAsksEverywhere
    <2> SUFFICES ASSUME BInv, br.pc = "sleep"
                 PROVE  asked = UNION {{n} \X families(ifaces[n]) : n \in DOMAIN ifaces}
      BY DEF RoundAsksEverywhere
    <2>1. asked = AskedOn(Len(ifaces))
      BY DEF BInv, RoundInv
    <2>2. DOMAIN ifaces = 1..Len(ifaces)
      BY DEF BInv, IInv, SocketInv
    <2> QED BY <2>1, <2>2 DEF AskedOn
  <1> QED BY BrowserInvariance, <1>1, PTL

\* For any ceiling of the configuration: the intervals of browser::run are a second
\* and then twice the one before, up to the ceiling.
THEOREM BackoffAlways == Spec => BrowseBackoff
  <1>1. ASSUME BInv, [Next]_vars, RoundBegins, NEW g \in gap
        PROVE  g = IF lastgap = {} THEN SECOND
                   ELSE Min({2 * Max(lastgap), Max({Cfg.browse_interval_secs, 1}) * SECOND})
    <2>1. BeginRound
      <3>1. br.pc # "send" /\ br'.pc = "send"
        BY <1>1 DEF RoundBegins
      <3>c. ASSUME NEW pc, NEW left, Continue(pc, left) PROVE br'.pc = pc
        BY <3>c DEF Continue
      <3>s. ~Spawn
        BY <3>1, <3>c, Zenon DEF Spawn
      <3>2. ~WakeUp /\ ~Cancelled /\ ~ReturnAtTop /\ ~SendQuery /\ ~GoToSleep
        <4>1. WakeUp => br'.pc = "top"
          BY DEF WakeUp
        <4>2. Cancelled \/ ReturnAtTop => br'.pc = "done"
          BY <3>c DEF Cancelled, ReturnAtTop
        <4>3. SendQuery => br.pc = "send"
          BY DEF SendQuery
        <4>4. GoToSleep => br.pc = "send"
          BY DEF GoToSleep
        <4> QED BY <3>1, <4>1, <4>2, <4>3, <4>4
      <3>3. ~Tick /\ ~Shutdown /\ ~UNCHANGED browserVars /\ ~UNCHANGED vars
        BY <3>1 DEF Tick, Shutdown, browserVars, vars, Continue
      <3> QED BY <1>1, <3>s, <3>2, <3>3 DEF Next, BrowserStep
    <2>2. At("running") /\ g = Due(lastgap, Cap) /\ (lastgap = {} \/ Interval(lastgap))
      BY <1>1, <2>1 DEF BeginRound, BInv, BrInv, BackoffInv
    <2>3. CASE lastgap = {}
      BY <2>2, <2>3 DEF Due
    <2>4. ASSUME NEW d \in 1..MAX_DURATION, lastgap = {d}
          PROVE  g = Min({2 * Max(lastgap), Cap})
      <3>1. Cap \in 1..MAX_DURATION
        BY <1>1, <2>2, CapType DEF BInv
      <3>2. g = next_backoff(d, Cap)
        BY <2>2, <2>4, DueOne
      <3>3. Max(lastgap) = d
        BY <2>4, MaxIs
      <3> QED BY <3>1, <3>2, <3>3, NextBackoff
    <2>5. CASE lastgap # {}
      BY <2>2, <2>4, <2>5 DEF Interval, Cap
    <2> QED BY <2>3, <2>5
  <1>2. BInv /\ [Next]_vars =>
          [RoundBegins => \A g \in gap :
              g = IF lastgap = {} THEN SECOND
                  ELSE Min({2 * Max(lastgap), Max({Cfg.browse_interval_secs, 1}) * SECOND})]_vars
    BY <1>1
  <1> QED BY BrowserInvariance, <1>2, PTL DEF Spec, BrowseBackoff
=============================================================================
