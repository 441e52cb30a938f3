----------------------------- MODULE MCDispatch -----------------------------
(***************************************************************************)
(* A daemon between lan and iot, with a printer on iot.  IPv4 addresses     *)
(* have two bits for the link and two for the host.  A tick is half a       *)
(* second.                                                                  *)
(***************************************************************************)
EXTENDS Dispatch, TLC

MCWidth == [V4 |-> 4, V6 |-> 4]
MCLinkLocal == [bits |-> {3}, len |-> 1]
Mask == {2, 3}

MCStateIfaces ==
    <<[name |-> "lan", ifindex |-> "lan",
       v4 |-> {IfaceAddrV4([bits |-> {0}, netmask |-> {Mask}])}, v6 |-> {}],
      [name |-> "iot", ifindex |-> "iot",
       v4 |-> {IfaceAddrV4([bits |-> {0, 2}, netmask |-> {Mask}])},
       v6 |-> {IfaceAddrV6([bits |-> {0, 3}, netmask |-> {}])}]>>

MCLists == [whitelist |-> {}, blacklist |-> {[form |-> "cidr", fam |-> "V4", bits |-> {0, 1, 2}, len |-> 4]}]

MCAddrV4 == [i \in Ifaces |-> IF i = "lan" THEN "10.0.0.1" ELSE "10.0.1.1"]
MCAddrV6 == [i \in Ifaces |-> NoAddr]
Reliable == [i \in Ifaces |-> {TRUE}]

A1(ttl) == Record("prn", "A", "10.0.1.7", ttl, TRUE)
A2(ttl) == Record("prn", "A", "10.0.1.8", ttl, TRUE)
MCPeers == {[iface |-> "iot", rec |-> r] : r \in {A1(2), A2(2), A2(0)}}

V4(bits) == [fam |-> "V4", bits |-> bits]
NoMsg == [questions |-> {}, known |-> {}, authority |-> {}, tc |-> FALSE]
Packet(kind, link, bits, index) ==
    [kind |-> kind, link |-> link, source |-> V4(bits), mdns_port |-> TRUE,
     recv_ifindex |-> {l \in {link} : index}, msg |-> NoMsg,
     answers |-> <<>>, authorities |-> <<>>, additionals |-> <<>>]
Q(name, type) == [name |-> name, type |-> type]

Probe == [Packet("query", "lan", {1}, FALSE) EXCEPT !.msg.questions = {Q("router", "ANY")},
                                                  !.msg.authority = {Q("router", "A")}]
Resolve == [Packet("query", "lan", {1}, TRUE) EXCEPT !.msg.questions = {Q("prn", "A")}, !.msg.tc = TRUE]
Response(answers, authorities, additionals, bits, index) ==
    [Packet("response", "iot", bits, index) EXCEPT
        !.answers = answers, !.authorities = authorities, !.additionals = additionals]

MCDatagrams ==
    [probe |-> Probe, resolve |-> Resolve,
     \* two addresses of one host, the second in another section
     announce |-> Response(<<A1(2)>>, <<>>, <<A2(2)>>, {1, 2}, FALSE),
     goodbye |-> Response(<<>>, <<A2(0)>>, <<>>, {1, 2}, TRUE),
     offlink |-> Response(<<A2(2)>>, <<>>, <<>>, {3}, FALSE),
     blacklisted |-> Response(<<A1(2)>>, <<>>, <<>>, {0, 1, 2}, TRUE),
     echo |-> Response(<<A1(2)>>, <<>>, <<>>, {0, 2}, TRUE),
     otherport |-> [Response(<<A1(2)>>, <<>>, <<>>, {1, 2}, TRUE) EXCEPT !.mdns_port = FALSE],
     payload |-> Packet("other", "lan", {1}, TRUE)]

\* The hypotheses of the theorems hold of this instance.
ASSUME Hypotheses == CacheHolds /\ LinksTell /\ IfacesDistinct /\ SendsSucceed /\ PeersApart
=============================================================================
