------------------------------ MODULE Repeater ------------------------------
(***************************************************************************)
(* The decisions taken on a datagram before it is handled or repeated:      *)
(* handle_datagram's filters in src/src/engine.rs, identify_recv_iface and  *)
(* forward_targets in src/src/repeater.rs.  `ifaces' is State.ifaces; an    *)
(* index into it is an Option.  A datagram has a source address, whose      *)
(* family is the datagram's, and recv_ifindex, an Option.                   *)
(***************************************************************************)
EXTENDS Addresses

\* Iterator::position.
Position(S) == {i \in S : \A j \in S : i <= j}

\* By the index the kernel reports, else by subnet; a link-local source is on
\* every link's subnet and is not guessed.
identify_recv_iface(pkt, ifaces) ==
    LET known == {i \in DOMAIN ifaces : ifaces[i].ifindex \in pkt.recv_ifindex}
    IN  IF known # {} THEN Position(known)
        ELSE IF pkt.source.fam = "V6" /\ is_unicast_link_local_v6(pkt.source.bits) THEN {}
        ELSE Position({i \in DOMAIN ifaces : contains(ifaces[i], pkt.source)})

\* Every other interface; for an unknown one, those the source is not on,
\* provided that it is on some.
forward_targets(recv_idx, source, ifaces) ==
    IF recv_idx # {} THEN DOMAIN ifaces \ recv_idx
    ELSE {j \in DOMAIN ifaces : /\ ~contains(ifaces[j], source)
                                /\ \E i \in DOMAIN ifaces : contains(ifaces[i], source)}

\* Mutants: the daemon's own datagrams are let in; those from any port are.
WorseAdmits(pkt, ifaces, config) ==
    /\ ~\E i \in DOMAIN ifaces : has_addr(ifaces[i], pkt.source)
    /\ allow_source(config.whitelist, config.blacklist, pkt.source)
    /\ config.repeat \/ identify_recv_iface(pkt, ifaces) # {}

BadAdmits(pkt, ifaces, config) ==
    /\ pkt.mdns_port
    /\ allow_source(config.whitelist, config.blacklist, pkt.source)
    /\ config.repeat \/ identify_recv_iface(pkt, ifaces) # {}

\* The early returns of handle_datagram: a source port other than 5353, one of
\* our own addresses, the source filter, an unknown interface and no repeating.
Admits(pkt, ifaces, config) ==
    /\ pkt.mdns_port
    /\ ~\E i \in DOMAIN ifaces : has_addr(ifaces[i], pkt.source)
    /\ allow_source(config.whitelist, config.blacklist, pkt.source)
    /\ config.repeat \/ identify_recv_iface(pkt, ifaces) # {}
=============================================================================
