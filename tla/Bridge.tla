------------------------------- MODULE Bridge -------------------------------
(***************************************************************************)
(* The repeater (src/src/repeater.rs) at work in a network: any number of   *)
(* daemons, each with interfaces on some of the links, repeat what they     *)
(* hear.  Multicast loops back to its sender, copies reach the daemons in   *)
(* any order, a send may fail, and the kernel may leave out the index of    *)
(* the receiving interface.                                                 *)
(***************************************************************************)
EXTENDS Repeater

CONSTANTS
    Links,
    Daemons,
    IfacesOf,   \* State.ifaces of a daemon; an ifindex is the link itself
    ConfigOf,   \* [repeat, whitelist, blacklist] of a daemon, the lists as written
    HearsOn,    \* the links a daemon's sockets hear: another program on its host
                \* may have joined the group on a link that is not monitored
    Frames,     \* [link, source, mdns_port]: what the hosts on the links multicast
    PktInfo,    \* whether the kernel reports the receiving interface, by family
    Lossy,      \* the links on which a send may fail
    MaxFrames   \* bound on how many of the frames are sent; a daemon handles each
                \* of them without any state that another one could change

ASSUME BridgeAssumption ==
    /\ \A d \in Daemons : \A i, j \in DOMAIN IfacesOf[d] :
          IfacesOf[d][i].ifindex = IfacesOf[d][j].ifindex => i = j
    /\ \A d \in Daemons : \A i \in DOMAIN IfacesOf[d] :
          i \in Nat /\ IfacesOf[d][i].ifindex \in Links
    /\ \A d \in Daemons :
          /\ ConfigOf[d].whitelist = {} \/ ConfigOf[d].blacklist = {}
          /\ \A e \in ConfigOf[d].whitelist \cup ConfigOf[d].blacklist : Entry(e) /\ parses(e)
    /\ \A f \in Frames : f.link \in Links /\ f.source \in Addrs
    /\ PktInfo \in [Families -> SUBSET BOOLEAN]

VARIABLES
    wire,     \* the copies on the links: [frame, link, source, path, via]
    handled   \* which daemon has handled which copy

vars == <<wire, handled>>

\* A copy has been repeated once for every link of its path but the first.
TypeOK ==
    /\ \A c \in wire : /\ c.frame \in Frames
                       /\ c.path \in Seq(Links) /\ c.via \in Seq(Daemons)
                       /\ Len(c.path) = Len(c.via) + 1
                       /\ c.link = c.path[Len(c.path)]
    /\ handled \subseteq Daemons \X wire

\* A host on a link multicasts.
Original(f) ==
    [frame |-> f, link |-> f.link, source |-> f.source, path |-> <<f.link>>, via |-> <<>>]

Emit(f) ==
    /\ Original(f) \notin wire
    /\ Cardinality({c \in wire : c.via = <<>>}) < MaxFrames
    /\ wire' = wire \cup {Original(f)}
    /\ UNCHANGED handled

\* The Datagram that recv makes of it.  The daemons send from port 5353.
Datagram(c, info) ==
    [source |-> c.source, mdns_port |-> c.via # <<>> \/ c.frame.mdns_port,
     recv_ifindex |-> {l \in {c.link} : info}]

\* What a copy's source is: the address its send socket is bound to.
SendSource(iface, f) ==
    [fam |-> f, bits |-> IF f = "V4" THEN (CHOOSE v4 \in iface.v4 : TRUE).addr
                         ELSE (CHOOSE v6 \in iface.v6 : TRUE).addr]

\* send_mdns_on: the same bytes, on the family the datagram came with.
Copy(d, c, j) ==
    LET iface == IfacesOf[d][j]
    IN  [frame |-> c.frame, link |-> iface.ifindex,
         source |-> SendSource(iface, c.source.fam),
         path |-> Append(c.path, iface.ifindex), via |-> Append(c.via, d)]

\* Mutant: the first failure ends the loop over the targets.
BadSent(d, targets) ==
    {{j \in targets : j < k} : k \in {j \in targets : IfacesOf[d][j].ifindex \in Lossy}}
    \cup {targets}

\* forward: the sends that succeed; an error is logged and the next one tried.
Sent(d, targets) ==
    {S \in SUBSET targets : \A j \in targets \ S : IfacesOf[d][j].ifindex \in Lossy}

\* The filters as Resolved::parse leaves them.
Config(d) ==
    [repeat |-> ConfigOf[d].repeat,
     whitelist |-> {parse_subnet(e) : e \in ConfigOf[d].whitelist},
     blacklist |-> {parse_subnet(e) : e \in ConfigOf[d].blacklist}]

\* handle_datagram, as far as repeating goes.
Handle(d, c) ==
    /\ <<d, c>> \notin handled
    /\ c.link \in HearsOn[d]
    /\ handled' = handled \cup {<<d, c>>}
    /\ \E info \in PktInfo[c.source.fam] :
          LET pkt == Datagram(c, info)
              ifaces == IfacesOf[d]
              targets == {j \in forward_targets(identify_recv_iface(pkt, ifaces),
                                                c.source, ifaces) :
                             c.source.fam \in families(ifaces[j])}
          IN  IF Admits(pkt, ifaces, Config(d)) /\ Config(d).repeat
              THEN \E S \in Sent(d, targets) : wire' = wire \cup {Copy(d, c, j) : j \in S}
              ELSE UNCHANGED wire

Init ==
    /\ wire = {}
    /\ handled = {}

Next ==
    \/ \E f \in Frames : Emit(f)
    \/ \E d \in Daemons : \E c \in wire : Handle(d, c)

\* The receive loops do not all stop while there are datagrams to be read.
Spec ==
    /\ Init /\ [][Next]_vars
    /\ WF_vars(\E d \in Daemons : \E c \in wire : Handle(d, c))

-----------------------------------------------------------------------------
\* What crosses the repeaters never comes back to a link it has been on: neither
\* from one daemon, which drops its own datagrams (engine.rs "Loopback
\* prevention") and does not repeat to the interface it received from, nor by way
\* of several, when those that join the same links refuse each other.
NoReturn ==
    \A c \in wire : \A i, j \in DOMAIN c.path : c.path[i] = c.path[j] => i = j

\* Daemons that refuse each other: none's lists permit an address that another one
\* sends from.  A single daemon does.
Refusing ==
    \A d, e \in Daemons : \A i \in DOMAIN IfacesOf[e] : \A f \in families(IfacesOf[e][i]) :
        /\ SendSource(IfacesOf[e][i], f) \in Addrs
        /\ d # e => ~Permits(ConfigOf[d], SendSource(IfacesOf[e][i], f))

\* Where the kernel may leave out the receiving interface, subnets tell the links
\* apart: a source is on the subnet of its own link only or, if it is link-local,
\* on that of every interface with IPv6.
SubnetsTell ==
    \A f \in Frames : FALSE \in PktInfo[f.source.fam] =>
        \A d \in Daemons : \A i \in DOMAIN IfacesOf[d] :
            IF f.source.fam = "V6" /\ is_unicast_link_local_v6(f.source.bits)
            THEN "V6" \in families(IfacesOf[d][i]) => contains(IfacesOf[d][i], f.source)
            ELSE contains(IfacesOf[d][i], f.source) => IfacesOf[d][i].ifindex = f.link

\* A datagram that a daemon's filter refuses, or one that was not sent from port
\* 5353, is not on any link it was not sent to.  The filter is read as it is
\* written, by prefixes (nmdns.8: "applies to both responder and repeater").
RefusedStays ==
    \A c \in wire :
        c.via # <<>> => c.frame.mdns_port /\ Permits(ConfigOf[c.via[1]], c.frame.source)

\* The links that a frame should get to, over any number of repeaters and without
\* the sends that may fail: the smallest set of links that the repeaters close.
Reached ==
    [f \in Frames |->
        LET joins(l, m) == \E d \in Daemons : \E i, j \in DOMAIN IfacesOf[d] :
                /\ ConfigOf[d].repeat
                /\ IfacesOf[d][i].ifindex = l /\ f.source.fam \in families(IfacesOf[d][i])
                /\ IfacesOf[d][j].ifindex = m /\ f.source.fam \in families(IfacesOf[d][j])
            closed(L) == \A l \in L : \A m \in Links \ Lossy : joins(l, m) => m \in L
        IN  {m \in Links : \A L \in SUBSET Links : f.link \in L /\ closed(L) => m \in L}]

\* Every datagram gets to every link that a chain of repeaters leads to, in spite
\* of the sends that fail on other links and of the copies that are refused
\* (repeater.rs: "Forwards every monitored datagram to all *other* monitored
\* interfaces").
Crosses ==
    \A f \in Frames :
        (/\ f.mdns_port
         /\ \A d \in Daemons : Permits(ConfigOf[d], f.source))
        => (Original(f) \in wire
            ~> \A l \in Reached[f] : \E c \in wire : c.frame = f /\ c.link = l)
=============================================================================
