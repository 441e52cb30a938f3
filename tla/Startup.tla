------------------------------ MODULE Startup ------------------------------
(***************************************************************************)
(* From the command line to the running daemon: main of src/src/main.rs,    *)
(* Resolved::load of src/src/config.rs, iface::setup of src/src/iface.rs    *)
(* and the first half of engine::run.  An operator tries the file with      *)
(* --check or not, and starts the daemon on it.  Interfaces come and go     *)
(* meanwhile, and any call to the system may fail.                          *)
(***************************************************************************)
EXTENDS Addresses, FiniteSetsExt

CONSTANTS
    RawConfigs,          \* the files: RawConfig, or Unreadable
    Unreadable,          \* no file, or no TOML of this shape
    OsStates,            \* [index: by name, an Option; ifaddrs: what getifaddrs returns]
    MAX_CACHE_TTL_SECS   \* u32::MAX, also the modulus of `as u32', less one

ASSUME StartAssumption ==
    /\ MAX_CACHE_TTL_SECS \in Nat
    /\ \A r \in RawConfigs \ {Unreadable} :
          /\ \A e \in r.whitelist \cup r.blacklist : Entry(e)
          /\ r.cache_max_ttl_secs \subseteq Nat
          /\ r.interfaces \in Seq(STRING)
    /\ \A os \in OsStates : \A n \in DOMAIN os.ifaddrs : IfAddr(os.ifaddrs[n])

VARIABLES
    raw,      \* the configuration file
    proc,     \* the process: its mode, where it is, its exit code
    cfg,      \* Resolved, an Option
    ifaces,   \* setup's discovered, then State.ifaces once they are open
    open,     \* how many of them are
    recv,     \* RecvSocket: by family, an Option of the groups joined
    checked,  \* history: the exit code of --check on this file, an Option
    blame     \* history: what the system has refused

startVars == <<raw, proc, cfg, ifaces, open, recv, checked, blame>>

OK == 0
CONFIG == 10
CONFIG_VALIDATION == 11
RUNTIME == 14
INTERFACE_SETUP == 20
SERVICE_RECORDS == 22

Steps == {"load", "check", "runtime", "discover", "ifaces", "running", "exited"}

\* One type invariant: what each stage of the start has put in place.
StartTypeOK ==
    /\ proc.step \in Steps
    /\ proc.step = "exited"
          => proc.code \in {OK, CONFIG, CONFIG_VALIDATION, RUNTIME, INTERFACE_SETUP, SERVICE_RECORDS}
    /\ proc.step \notin {"load", "exited"} => Cardinality(cfg) = 1
    /\ open \in 0..Len(ifaces)
    /\ \A f \in Families : Cardinality(recv[f]) <= 1

Checking == proc.mode = "check"
At(step) == proc.step = step
Goto(step) == proc' = [mode |-> proc.mode, step |-> step, code |-> proc.code]
Exit(code) == proc' = [mode |-> proc.mode, step |-> "exited", code |-> code]
Refuse(what) == blame' = blame \cup {what}

-----------------------------------------------------------------------------
\* Mutant: 0 is a cap, too.
BadCacheMaxTtl(r) == r.cache_max_ttl_secs

\* The cap of Resolved: 0 is none.
CacheMaxTtl(r) == r.cache_max_ttl_secs \ {0}

\* Resolved::load and ::parse come to an end without a ConfigError.
Parses(r) ==
    /\ r # Unreadable
    /\ r.interfaces # <<>>
    /\ r.blacklist = {} \/ r.whitelist = {}
    /\ \A e \in r.blacklist \cup r.whitelist : parses(e)
    /\ \A t \in r.cache_max_ttl_secs : t <= MAX_CACHE_TTL_SECS

Resolved(r) ==
    [interfaces |-> r.interfaces, services |-> r.services,
     browse |-> r.browse, browse_interval_secs |-> r.browse_interval_secs,
     cache_max_ttl_secs |-> CacheMaxTtl(r),
     blacklist |-> {parse_subnet(e) : e \in r.blacklist},
     whitelist |-> {parse_subnet(e) : e \in r.whitelist}]

\* services::build fails on a name that does not parse: the type, the instance,
\* the two together, or the host, which need not be given.
Builds(services) ==
    \A s \in services : s.service /\ s.name /\ s.composes /\ \A h \in s.host : h

\* Mutant: --check leaves the hosts out.
BadValidates(services) == \A s \in services : s.service /\ s.name /\ s.composes

\* services::validate.
Validates(services) == Builds(services)

\* Every browse name parses; a name stands for whether it does.
NamesParse(browse) == FALSE \notin browse

Load ==
    /\ At("load")
    /\ IF Parses(raw)
       THEN /\ cfg' = {Resolved(raw)}
            /\ IF Checking THEN Goto("check") ELSE Goto("runtime")
       ELSE cfg' = {} /\ Exit(CONFIG)
    /\ UNCHANGED <<raw, ifaces, open, recv, checked, blame>>

Cfg == CHOOSE c \in cfg : TRUE

\* main --check.
Check ==
    /\ At("check")
    /\ IF Validates(Cfg.services) /\ NamesParse(Cfg.browse)
       THEN Exit(OK) ELSE Exit(CONFIG_VALIDATION)
    /\ UNCHANGED <<raw, cfg, ifaces, open, recv, checked, blame>>

\* The operator starts the daemon, whatever --check said.
StartDaemon ==
    /\ At("exited") /\ Checking
    /\ checked' = {proc.code}
    /\ proc' = [mode |-> "run", step |-> "load", code |-> OK]
    /\ cfg' = {}
    /\ UNCHANGED <<raw, ifaces, open, recv, blame>>

\* tokio::runtime::Builder::build.
BuildRuntime ==
    /\ At("runtime")
    /\ \/ Goto("discover") /\ UNCHANGED blame
       \/ Exit(RUNTIME) /\ Refuse("runtime")
    /\ UNCHANGED <<raw, cfg, ifaces, open, recv, checked>>

-----------------------------------------------------------------------------
\* iface::setup.  The first loop, for one name: its index and its addresses, as
\* the system has them at this moment; `seen' is for the properties.
Discover ==
    /\ At("discover")
    /\ Len(ifaces) < Len(Cfg.interfaces)
    /\ \E os \in OsStates :
          LET name == Cfg.interfaces[Len(ifaces) + 1]
              addrs == iface_addrs(os.ifaddrs, name)
          IN  IF os.index[name] = {} \/ (addrs.v4 = {} /\ addrs.v6 = {})
              THEN Exit(INTERFACE_SETUP) /\ Refuse("interface") /\ UNCHANGED ifaces
              ELSE /\ ifaces' = Append(ifaces,
                          [name |-> name, ifindex |-> CHOOSE i \in os.index[name] : TRUE,
                           v4 |-> addrs.v4, v6 |-> addrs.v6, seen |-> os.ifaddrs])
                   /\ UNCHANGED <<proc, blame>>
    /\ UNCHANGED <<raw, cfg, open, recv, checked>>

\* Mutant: only the last interface decides.
BadHave(f) == f \in families(ifaces[Len(ifaces)])

\* have_v4, have_v6.
Have(f) == \E i \in DOMAIN ifaces : f \in families(ifaces[i])

\* A receive socket as it is built: it has joined no group yet.
build_recv_socket == {}

\* The shared receive sockets, for the families there are.
OpenRecv ==
    /\ At("discover")
    /\ Len(ifaces) = Len(Cfg.interfaces)
    /\ \/ /\ recv' = [f \in Families |-> IF Have(f) THEN {build_recv_socket} ELSE {}]
          /\ Goto("ifaces") /\ UNCHANGED blame
       \/ Exit(INTERFACE_SETUP) /\ Refuse("socket") /\ UNCHANGED recv
    /\ UNCHANGED <<raw, cfg, ifaces, open, checked>>

\* What a membership is: of an address for IPv4, of an interface for IPv6.
Membership(iface, f) ==
    IF f = "V4" THEN (CHOOSE v4 \in iface.v4 : TRUE).addr ELSE iface.ifindex

\* join_multicast fails on a group that is joined already.
JoinFails(groups, m) == m \in groups

\* Mutant: the group is not left first.
BadLeave(groups, m) == groups

Leave(groups, m) == groups \ {m}

\* The second loop, for one interface and both of its families.
OpenIface ==
    /\ At("ifaces")
    /\ open < Len(ifaces)
    /\ LET iface == ifaces[open + 1]
           joins == {f \in families(iface) : recv[f] # {}}
           m(f) == Membership(iface, f)
           left(f) == Leave(UNION recv[f], m(f))
       IN  \/ IF \E f \in joins : JoinFails(left(f), m(f))
              THEN Exit(INTERFACE_SETUP) /\ UNCHANGED <<recv, open, blame>>
              ELSE /\ recv' = [f \in Families |->
                                 IF f \in joins THEN {left(f) \cup {m(f)}} ELSE recv[f]]
                   /\ open' = open + 1
                   /\ UNCHANGED <<proc, blame>>
           \/ Exit(INTERFACE_SETUP) /\ Refuse("socket") /\ UNCHANGED <<recv, open>>
    /\ UNCHANGED <<raw, cfg, ifaces, checked>>

\* engine::run after setup: services::build.
BuildServices ==
    /\ At("ifaces")
    /\ open = Len(ifaces)
    /\ IF Builds(Cfg.services) THEN Goto("running") ELSE Exit(SERVICE_RECORDS)
    /\ UNCHANGED <<raw, cfg, ifaces, open, recv, checked, blame>>

StartInit ==
    /\ raw \in RawConfigs
    /\ proc \in [mode : {"check", "run"}, step : {"load"}, code : {OK}]
    /\ cfg = {}
    /\ ifaces = <<>> /\ open = 0
    /\ recv = [f \in Families |-> {}]
    /\ checked = {}
    /\ blame = {}

StartStep ==
    \/ Load \/ Check \/ StartDaemon \/ BuildRuntime
    \/ Discover \/ OpenRecv \/ OpenIface \/ BuildServices

-----------------------------------------------------------------------------
\* The filter that reaches the receive loop, through split and masked entries,
\* lets in what the lists say by prefixes: at every length, 0 and the full width
\* included, and never across families.
FilterExact ==
    \A c \in cfg : \A ip \in Addrs :
        allow_source(c.whitelist, c.blacklist, ip) <=> Permits(raw, ip)

\* The subnets by which datagrams are attributed (Iface::contains) are those the
\* kernel had when the interface was looked up: of its first usable address, with
\* the kernel's mask.
OnLinkExact ==
    \A n \in DOMAIN ifaces : \A ip \in Addrs :
        contains(ifaces[n], ip) <=>
            \E a \in Usable(ifaces[n].seen, ifaces[n].name, ip.fam) :
                AgreeOn(IF a.netmask = {}
                        THEN PrefixMask(ip.fam, IF ip.fam = "V4" THEN DEFAULT_V4_LEN
                                                ELSE DEFAULT_V6_LEN)
                        ELSE CHOOSE m \in a.netmask : TRUE,
                        a.bits, ip.bits)

\* A daemon that runs hears what it answers to: for every family of every
\* interface a receive socket has joined the group, and there is no other socket.
SocketsReady ==
    At("running") =>
        /\ \A n \in DOMAIN ifaces : families(ifaces[n]) # {}
        /\ \A f \in Families :
              UNION recv[f] = {Membership(ifaces[n], f) :
                                  n \in {k \in DOMAIN ifaces : f \in families(ifaces[k])}}

\* main: bad names "fail `--check` instead of crashing the unit at first start";
\* services: "the two cannot drift apart".  After a --check that succeeded only the
\* system keeps the daemon from running, and the browser skips no name.
CheckedConfigStarts ==
    checked = {OK} =>
        /\ At("exited") => proc.code \notin {CONFIG, SERVICE_RECORDS}
        /\ At("running") => NamesParse(Cfg.browse)

\* EXIT STATUS in nmdns.8: the code tells which phase failed, and it did.
ExitExplained ==
    At("exited") =>
        /\ proc.code = RUNTIME <=> "runtime" \in blame
        /\ proc.code = INTERFACE_SETUP <=> blame \cap {"interface", "socket"} # {}
        /\ proc.code \in {CONFIG_VALIDATION, OK} => Checking
        /\ proc.code = SERVICE_RECORDS => ~Builds(raw.services)

\* insert_from: "`max_ttl` is guaranteed by config validation to be in
\* 1..=u32::MAX, so the `as u32` cast is safe": whatever the file says, a record
\* that is not a goodbye is capped to what the file says and never becomes one.
CapAsConfigured ==
    \A c \in cfg : \A ttl \in 1..MAX_CACHE_TTL_SECS :
        LET capped == Min({ttl} \cup {t % (MAX_CACHE_TTL_SECS + 1) : t \in c.cache_max_ttl_secs})
        IN  capped = Min({ttl} \cup (raw.cache_max_ttl_secs \ {0}))
=============================================================================
