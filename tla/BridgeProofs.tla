---------------------------- MODULE BridgeProofs ----------------------------
(***************************************************************************)
(* The repeater in any network: any links, daemons, interfaces and lists,   *)
(* any order of delivery and any sends that fail.                           *)
(***************************************************************************)
EXTENDS Bridge, AddressesProofs

\* What is true of a copy, over however many repeaters it came.
CopyOK(c) ==
    /\ c.frame \in Frames
    /\ c.path \in Seq(Links) /\ c.via \in Seq(Daemons)
    /\ Len(c.path) = Len(c.via) + 1
    /\ c.link = c.path[Len(c.path)]
    /\ c.source.fam \in Families
    /\ c.via = <<>> => c = Original(c.frame)
    /\ c.via # <<>> => c.frame.mdns_port /\ Permits(ConfigOf[c.via[1]], c.frame.source)

WireInv == (\A c \in wire : CopyOK(c)) /\ handled \subseteq Daemons \X wire

\* handle_datagram goes on only with a source that the lists permit.
LEMMA AdmitsPermits ==
    ASSUME NEW d \in Daemons, NEW pkt, pkt.source \in Addrs,
           Admits(pkt, IfacesOf[d], Config(d))
    PROVE  Permits(ConfigOf[d], pkt.source)
  <1>1. allow_source({parse_subnet(e) : e \in ConfigOf[d].whitelist},
                     {parse_subnet(e) : e \in ConfigOf[d].blacklist}, pkt.source)
    BY DEF Admits, Config
  <1>2. /\ ConfigOf[d].whitelist = {} \/ ConfigOf[d].blacklist = {}
        /\ \A e \in ConfigOf[d].whitelist \cup ConfigOf[d].blacklist : Entry(e) /\ parses(e)
    BY BridgeAssumption
  <1> QED BY <1>1, <1>2, AllowSourceExact

LEMMA OriginalOK == ASSUME NEW f \in Frames PROVE CopyOK(Original(f))
  <1>1. f.link \in Links /\ f.source.fam \in Families
    BY BridgeAssumption DEF Addrs
  <1>2. <<f.link>> \in Seq(Links) /\ Len(<<f.link>>) = 1 /\ <<f.link>>[1] = f.link
    BY <1>1
  <1> QED BY <1>1, <1>2 DEF CopyOK, Original

LEMMA CopyCopyOK ==
    ASSUME NEW d \in Daemons, NEW c, CopyOK(c), NEW j \in DOMAIN IfacesOf[d],
           NEW info, Admits(Datagram(c, info), IfacesOf[d], Config(d))
    PROVE  CopyOK(Copy(d, c, j))
  <1> DEFINE k == Copy(d, c, j)
             l == IfacesOf[d][j].ifindex
  <1>1. /\ k.frame = c.frame /\ k.link = l /\ k.source = SendSource(IfacesOf[d][j], c.source.fam)
        /\ k.path = Append(c.path, l) /\ k.via = Append(c.via, d)
    BY DEF Copy
  <1>2. l \in Links /\ k.source.fam = c.source.fam
    BY <1>1, BridgeAssumption DEF SendSource
  <1>3. /\ c.path \in Seq(Links) /\ c.via \in Seq(Daemons)
        /\ Len(c.path) = Len(c.via) + 1 /\ c.frame \in Frames /\ c.source.fam \in Families
    BY DEF CopyOK
  <1>4. /\ k.path \in Seq(Links) /\ k.via \in Seq(Daemons) /\ k.via # <<>>
        /\ Len(k.path) = Len(k.via) + 1 /\ k.path[Len(k.path)] = l
        /\ k.via[1] = IF c.via = <<>> THEN d ELSE c.via[1]
    <2> HIDE DEF k, l
    <2>1. /\ Append(c.path, l) \in Seq(Links) /\ Append(c.via, d) \in Seq(Daemons)
          /\ Len(Append(c.path, l)) = Len(c.path) + 1 /\ Len(Append(c.via, d)) = Len(c.via) + 1
          /\ Append(c.path, l)[Len(c.path) + 1] = l
      BY <1>2, <1>3
    <2>2. Append(c.via, d)[1] = IF c.via = <<>> THEN d ELSE c.via[1]
      BY <1>3
    <2> QED BY <1>1, <1>3, <2>1, <2>2
  <1>5. c.frame.mdns_port /\ Permits(ConfigOf[k.via[1]], c.frame.source)
    <2>1. CASE c.via = <<>>
      <3>1. c.source = c.frame.source
        <4>1. c = Original(c.frame)
          BY <2>1 DEF CopyOK
        <4>2. Original(c.frame).source = c.frame.source
          BY DEF Original
        <4> QED BY <4>1, <4>2
      <3>2. c.source \in Addrs
        BY <1>3, <3>1, BridgeAssumption
      <3>3. Datagram(c, info).source = c.source
        BY DEF Datagram
      <3>4. Permits(ConfigOf[d], c.source)
        BY <3>2, <3>3, AdmitsPermits
      <3>5. Datagram(c, info).mdns_port
        BY DEF Admits
      <3>6. c.frame.mdns_port
        BY <2>1, <3>5, Zenon DEF Datagram
      <3> QED BY <1>4, <2>1, <3>1, <3>4, <3>6
    <2>2. CASE c.via # <<>>
      BY <1>4, <2>2 DEF CopyOK
    <2> QED BY <2>1, <2>2
  <1> SUFFICES CopyOK(k)
    OBVIOUS
  <1> HIDE DEF k, l
  <1>6. k.frame.mdns_port /\ Permits(ConfigOf[k.via[1]], k.frame.source)
    BY <1>1, <1>5
  <1> QED BY <1>1, <1>2, <1>3, <1>4, <1>6 DEF CopyOK

LEMMA WireInit == Init => WireInv
  BY DEF Init, WireInv

\* What Handle adds to the wire.
LEMMA HandleAdds ==
    ASSUME NEW d \in Daemons, NEW c \in wire, Handle(d, c), NEW k \in wire' \ wire
    PROVE  \E info \in PktInfo[c.source.fam] :
              LET pkt == Datagram(c, info)
                  ifaces == IfacesOf[d]
              IN  /\ Admits(pkt, ifaces, Config(d))
                  /\ \E j \in forward_targets(identify_recv_iface(pkt, ifaces), c.source, ifaces) :
                        /\ c.source.fam \in families(ifaces[j])
                        /\ k = Copy(d, c, j)
  <1> DEFINE Targets(info) ==
               {j \in forward_targets(identify_recv_iface(Datagram(c, info), IfacesOf[d]),
                                      c.source, IfacesOf[d]) :
                   c.source.fam \in families(IfacesOf[d][j])}
  <1>1. PICK info \in PktInfo[c.source.fam] :
          IF Admits(Datagram(c, info), IfacesOf[d], Config(d)) /\ Config(d).repeat
          THEN \E S \in Sent(d, Targets(info)) : wire' = wire \cup {Copy(d, c, j) : j \in S}
          ELSE UNCHANGED wire
    BY DEF Handle
  <1>2. Admits(Datagram(c, info), IfacesOf[d], Config(d))
    BY <1>1
  <1>3. PICK S \in Sent(d, Targets(info)) : wire' = wire \cup {Copy(d, c, j) : j \in S}
    BY <1>1
  <1>4. S \subseteq Targets(info)
    BY DEF Sent
  <1>5. PICK j \in S : k = Copy(d, c, j)
    BY <1>3
  <1>6. /\ j \in forward_targets(identify_recv_iface(Datagram(c, info), IfacesOf[d]),
                                c.source, IfacesOf[d])
        /\ c.source.fam \in families(IfacesOf[d][j])
    BY <1>4, <1>5
  <1> QED BY <1>2, <1>5, <1>6

LEMMA TargetsAreIfaces ==
    ASSUME NEW recv_idx, NEW source, NEW ifaces
    PROVE  forward_targets(recv_idx, source, ifaces) \subseteq DOMAIN ifaces
  BY DEF forward_targets

LEMMA WireNext == WireInv /\ [Next]_vars => WireInv'
  <1> SUFFICES ASSUME WireInv, [Next]_vars PROVE WireInv'
    OBVIOUS
  <1>1. CASE UNCHANGED vars
    BY <1>1 DEF WireInv, vars
  <1>2. ASSUME NEW f \in Frames, Emit(f) PROVE WireInv'
    BY <1>2, OriginalOK DEF WireInv, Emit
  <1>3. ASSUME NEW d \in Daemons, NEW c \in wire, Handle(d, c) PROVE WireInv'
    <2>1. ASSUME NEW k \in wire' \ wire PROVE CopyOK(k)
      <3>1. PICK info \in PktInfo[c.source.fam] :
              /\ Admits(Datagram(c, info), IfacesOf[d], Config(d))
              /\ \E j \in forward_targets(identify_recv_iface(Datagram(c, info), IfacesOf[d]),
                                          c.source, IfacesOf[d]) : k = Copy(d, c, j)
        BY <1>3, <2>1, HandleAdds
      <3>2. PICK j \in DOMAIN IfacesOf[d] : k = Copy(d, c, j)
        BY <3>1, TargetsAreIfaces
      <3>3. CopyOK(c)
        BY DEF WireInv
      <3> QED BY <3>1, <3>2, <3>3, CopyCopyOK
    <2>2. wire \subseteq wire' /\ handled' = handled \cup {<<d, c>>}
      BY <1>3, Zenon DEF Handle
    <2> QED BY <2>1, <2>2 DEF WireInv
  <1> QED BY <1>1, <1>2, <1>3 DEF Next

LEMMA WireAlways == Spec => []WireInv
  BY WireInit, WireNext, PTL DEF Spec

\* Every copy on every link has been repeated by one daemon per link of its path
\* but the first.
THEOREM TypeCorrect == Spec => []TypeOK
  <1>1. WireInv => TypeOK
    BY DEF WireInv, CopyOK, TypeOK
  <1> QED BY WireAlways, <1>1, PTL

\* In any network: handle_datagram keeps what a daemon's lists refuse, read by
\* prefixes, and what does not come from port 5353, on the link it was sent to.
THEOREM RefusedStaysAlways == Spec => []RefusedStays
  <1>1. WireInv => RefusedStays
    BY DEF WireInv, CopyOK, RefusedStays
  <1> QED BY WireAlways, <1>1, PTL

-----------------------------------------------------------------------------
\* A daemon's copy comes from one of its own addresses.
FromOwn(c, d) ==
    \E j \in DOMAIN IfacesOf[d] : /\ c.source.fam \in families(IfacesOf[d][j])
                                  /\ c.source = SendSource(IfacesOf[d][j], c.source.fam)

\* At most one daemon has repeated it, to another link.
Hop(c) ==
    c.via = <<>> \/ \E d \in Daemons :
        /\ c.via = <<d>> /\ FromOwn(c, d)
        /\ c.path[1] = c.frame.link /\ c.link # c.frame.link

HopInv == \A c \in wire : Hop(c)

\* An address a daemon sends from is one of its interfaces'.
LEMMA OwnAddr ==
    ASSUME NEW iface, NEW f \in families(iface)
    PROVE  has_addr(iface, SendSource(iface, f))
  <1>1. CASE f = "V4"
    <2>1. iface.v4 # {}
      BY <1>1 DEF families
    <2>2. (CHOOSE v4 \in iface.v4 : TRUE) \in iface.v4
      BY <2>1
    <2> QED BY <1>1, <2>2, Zenon DEF has_addr, SendSource
  <1>2. CASE f = "V6"
    <2>1. iface.v6 # {}
      BY <1>2 DEF families
    <2>2. (CHOOSE v6 \in iface.v6 : TRUE) \in iface.v6
      BY <2>1
    <2> QED BY <1>2, <2>2, Zenon DEF has_addr, SendSource
  <1> QED BY <1>1, <1>2 DEF families, Families

\* Loopback prevention and the lists together: no copy is repeated again.
LEMMA CopyNotAdmitted ==
    ASSUME Refusing, NEW d \in Daemons, NEW e \in Daemons, NEW c, FromOwn(c, e), NEW info
    PROVE  ~Admits(Datagram(c, info), IfacesOf[d], Config(d))
  <1>0. Datagram(c, info).source = c.source
    BY DEF Datagram
  <1>1. PICK j \in DOMAIN IfacesOf[e] : /\ c.source.fam \in families(IfacesOf[e][j])
                                        /\ c.source = SendSource(IfacesOf[e][j], c.source.fam)
    BY DEF FromOwn
  <1>2. CASE d = e
    <2>1. has_addr(IfacesOf[d][j], c.source)
      BY <1>1, <1>2, OwnAddr
    <2> QED BY <1>0, <1>2, <2>1 DEF Admits
  <1>3. CASE d # e
    <2>1. c.source \in Addrs /\ ~Permits(ConfigOf[d], c.source)
      BY <1>1, <1>3 DEF Refusing
    <2> QED BY <1>0, <2>1, AdmitsPermits
  <1> QED BY <1>2, <1>3

\* forward_targets leaves out the link of the frame itself, however it was
\* attributed.
LEMMA TargetsElsewhere ==
    ASSUME SubnetsTell, NEW f \in Frames, NEW d \in Daemons,
           NEW info \in PktInfo[f.source.fam],
           NEW j \in forward_targets(
                        identify_recv_iface(Datagram(Original(f), info), IfacesOf[d]),
                        f.source, IfacesOf[d]),
           f.source.fam \in families(IfacesOf[d][j])
    PROVE  IfacesOf[d][j].ifindex # f.link
  <1> DEFINE ifs == IfacesOf[d]
             pkt == Datagram(Original(f), info)
             known == {i \in DOMAIN ifs : ifs[i].ifindex \in pkt.recv_ifindex}
             on == {i \in DOMAIN ifs : contains(ifs[i], f.source)}
  <1>0. /\ pkt.source = f.source
        /\ pkt.recv_ifindex = {l \in {f.link} : info}
    BY DEF Datagram, Original
  <1>1. j \in DOMAIN ifs
    BY TargetsAreIfaces
  <1>2. /\ info \in BOOLEAN
        /\ \A i, k \in DOMAIN ifs : ifs[i].ifindex = ifs[k].ifindex => i = k
        /\ \A i \in DOMAIN ifs : i \in Nat
    BY BridgeAssumption DEF Addrs
  <1> SUFFICES ASSUME ifs[j].ifindex = f.link PROVE FALSE
    OBVIOUS
  <1>3. CASE info
    <2>1. known = {j}
      BY <1>0, <1>1, <1>2, <1>3
    <2>2. Position(known) = {j}
      BY <1>1, <1>2, <2>1 DEF Position
    <2>3. identify_recv_iface(pkt, ifs) = {j}
      BY <2>1, <2>2 DEF identify_recv_iface
    <2> QED BY <2>3 DEF forward_targets
  <1>4. CASE ~info
    <2>1. known = {}
      BY <1>0, <1>4
    <2>2. FALSE \in PktInfo[f.source.fam]
      BY <1>2, <1>4, Zenon
    <2>3. CASE f.source.fam = "V6" /\ is_unicast_link_local_v6(f.source.bits)
      <3>1. identify_recv_iface(pkt, ifs) = {}
        BY <1>0, <2>1, <2>3 DEF identify_recv_iface
      <3>2. contains(ifs[j], f.source)
        BY <1>1, <2>2, <2>3, Zenon DEF SubnetsTell
      <3> QED BY <3>1, <3>2 DEF forward_targets
    <2>4. CASE ~(f.source.fam = "V6" /\ is_unicast_link_local_v6(f.source.bits))
      <3>1. identify_recv_iface(pkt, ifs) = Position(on)
        BY <1>0, <2>1, <2>4 DEF identify_recv_iface
      <3>2. \A i \in on : i = j
        BY <1>1, <1>2, <2>2, <2>4, Zenon DEF SubnetsTell
      <3>3. on \subseteq {j} /\ (Position(on) = {} \/ Position(on) = {j})
        BY <3>2 DEF Position
      <3>4. CASE Position(on) = {j}
        BY <3>1, <3>4 DEF forward_targets
      <3>5. CASE Position(on) = {}
        <4>1. ~contains(ifs[j], f.source) /\ \E i \in DOMAIN ifs : contains(ifs[i], f.source)
          BY <3>1, <3>5 DEF forward_targets
        <4> QED BY <3>2, <4>1
      <3> QED BY <3>3, <3>4, <3>5
    <2> QED BY <2>3, <2>4
  <1> QED BY <1>2, <1>3, <1>4

LEMMA HopNext ==
    ASSUME Refusing, SubnetsTell, WireInv, HopInv, [Next]_vars
    PROVE  HopInv'
  <1>1. CASE UNCHANGED vars
    BY <1>1 DEF HopInv, vars
  <1>2. ASSUME NEW f \in Frames, Emit(f) PROVE HopInv'
    <2>1. Hop(Original(f))
      BY DEF Hop, Original
    <2> QED BY <1>2, <2>1 DEF HopInv, Emit
  <1>3. ASSUME NEW d \in Daemons, NEW c \in wire, Handle(d, c) PROVE HopInv'
    <2>1. ASSUME NEW k \in wire' \ wire PROVE Hop(k)
      <3>1. PICK info \in PktInfo[c.source.fam] :
              /\ Admits(Datagram(c, info), IfacesOf[d], Config(d))
              /\ \E j \in forward_targets(identify_recv_iface(Datagram(c, info), IfacesOf[d]),
                                          c.source, IfacesOf[d]) :
                    c.source.fam \in families(IfacesOf[d][j]) /\ k = Copy(d, c, j)
        BY <1>3, <2>1, HandleAdds
      <3>2. PICK j \in forward_targets(identify_recv_iface(Datagram(c, info), IfacesOf[d]),
                                       c.source, IfacesOf[d]) :
              c.source.fam \in families(IfacesOf[d][j]) /\ k = Copy(d, c, j)
        BY <3>1
      <3>3. CopyOK(c) /\ Hop(c)
        BY DEF WireInv, HopInv
      <3>4. c.via = <<>>
        BY <3>1, <3>3, CopyNotAdmitted DEF Hop
      <3>5. c.frame \in Frames /\ c = Original(c.frame)
        BY <3>3, <3>4 DEF CopyOK
      <3>6. c.source = c.frame.source /\ c.path = <<c.frame.link>>
        <4>1. /\ Original(c.frame).source = c.frame.source
              /\ Original(c.frame).path = <<c.frame.link>>
          BY DEF Original
        <4> QED BY <3>5, <4>1
      <3>7. IfacesOf[d][j].ifindex # c.frame.link
        <4> DEFINE f == c.frame
        <4>1. f \in Frames /\ c = Original(f) /\ f.source = c.source
          BY <3>5, <3>6
        <4> HIDE DEF f
        <4>2. IfacesOf[d][j].ifindex # f.link
          BY <3>2, <4>1, TargetsElsewhere
        <4> QED BY <4>2 DEF f
      <3>8. /\ k.frame = c.frame /\ k.link = IfacesOf[d][j].ifindex
            /\ k.source = SendSource(IfacesOf[d][j], c.source.fam)
            /\ k.path = Append(c.path, IfacesOf[d][j].ifindex) /\ k.via = Append(c.via, d)
        BY <3>2 DEF Copy
      <3>9. k.via = <<d>> /\ k.path[1] = k.frame.link
        <4>1. Append(<<>>, d) = <<d>>
          OBVIOUS
        <4>2. c.path \in Seq(Links) /\ Len(c.path) = 1 /\ IfacesOf[d][j].ifindex \in Links
          BY <3>2, <3>3, <3>6, TargetsAreIfaces, BridgeAssumption DEF CopyOK
        <4>3. Append(c.path, IfacesOf[d][j].ifindex)[1] = c.path[1]
          BY <4>2
        <4> QED BY <3>4, <3>6, <3>8, <4>1, <4>3
      <3>10. FromOwn(k, d)
        <4>1. k.source.fam = c.source.fam
          BY <3>8 DEF SendSource
        <4> QED BY <3>2, <3>8, <4>1, TargetsAreIfaces DEF FromOwn
      <3> QED BY <3>7, <3>8, <3>9, <3>10 DEF Hop
    <2>2. wire \subseteq wire'
      BY <1>3, Zenon DEF Handle
    <2> QED BY <2>1, <2>2 DEF HopInv
  <1> QED BY <1>1, <1>2, <1>3 DEF Next

\* In any network whose daemons refuse each other (a single daemon on any number of
\* links is one) and whose subnets tell the links apart where the kernel may not:
\* nothing that forward repeats comes back to a link it has been on.
THEOREM NoReturnAlways == ASSUME Refusing, SubnetsTell PROVE Spec => []NoReturn
  <1>1. Init => HopInv
    BY DEF Init, HopInv
  <1>2. WireInv /\ HopInv /\ [Next]_vars => HopInv'
    BY HopNext
  <1>3. WireInv /\ HopInv => NoReturn
    <2> SUFFICES ASSUME WireInv, HopInv, NEW c \in wire,
                        NEW i \in DOMAIN c.path, NEW j \in DOMAIN c.path, c.path[i] = c.path[j]
                 PROVE  i = j
      BY DEF NoReturn
    <2>1. CopyOK(c) /\ Hop(c)
      BY DEF WireInv, HopInv
    <2>2. CASE c.via = <<>>
      <3>1. c.path = <<c.frame.link>>
        <4>1. c = Original(c.frame)
          BY <2>1, <2>2 DEF CopyOK
        <4>2. Original(c.frame).path = <<c.frame.link>>
          BY DEF Original
        <4> QED BY <4>1, <4>2
      <3> QED BY <3>1
    <2>3. CASE c.via # <<>>
      <3>1. PICK d \in Daemons : /\ c.via = <<d>>
                                 /\ c.path[1] = c.frame.link /\ c.link # c.frame.link
        BY <2>1, <2>3 DEF Hop
      <3>2. c.path \in Seq(Links) /\ Len(c.path) = 2 /\ c.link = c.path[2]
        BY <2>1, <3>1 DEF CopyOK
      <3>3. i \in {1, 2} /\ j \in {1, 2}
        BY <3>2
      <3> QED BY <3>1, <3>2, <3>3
    <2> QED BY <2>1, <2>2, <2>3 DEF Hop
  <1> QED BY <1>1, <1>2, <1>3, WireAlways, PTL DEF Spec
=============================================================================
