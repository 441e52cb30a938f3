------------------------------ MODULE MCBridge ------------------------------
(***************************************************************************)
(* Two daemons join lan and iot and refuse each other's addresses; a third  *)
(* joins iot, lab and guest.  IPv4 addresses have two bits for the link and *)
(* two for the host; IPv6 ones are link-local, with three bits for the      *)
(* host.                                                                    *)
(***************************************************************************)
EXTENDS Bridge

MCWidth == [V4 |-> 4, V6 |-> 4]
MCLinkLocal == [bits |-> {3}, len |-> 1]
MCPktInfo == [V4 |-> BOOLEAN, V6 |-> {TRUE}]

Net == [lan |-> {}, iot |-> {2}, lab |-> {3}, guest |-> {2, 3}]
Host == [d1 |-> {0}, d2 |-> {1}, d3 |-> {0, 1}, host |-> {}]

V4(l, h) == [fam |-> "V4", bits |-> Net[l] \cup Host[h]]
V6(h) == [fam |-> "V6", bits |-> {3} \cup Host[h]]

IfaceOn(d, l, fams) ==
    [name |-> l, ifindex |-> l,
     v4 |-> IF "V4" \in fams
            THEN {IfaceAddrV4([bits |-> V4(l, d).bits, netmask |-> {{2, 3}}])} ELSE {},
     v6 |-> IF "V6" \in fams
            THEN {IfaceAddrV6([bits |-> V6(d).bits, netmask |-> {}])} ELSE {}]

MCIfacesOf ==
    [d1 |-> <<IfaceOn("d1", "lan", Families), IfaceOn("d1", "iot", Families)>>,
     d2 |-> <<IfaceOn("d2", "iot", Families), IfaceOn("d2", "lan", {"V4"})>>,
     d3 |-> <<IfaceOn("d3", "iot", Families), IfaceOn("d3", "lab", {"V4"}),
              IfaceOn("d3", "guest", Families)>>]

Cidr(a, n) == [form |-> "cidr", fam |-> a.fam, bits |-> a.bits, len |-> n]

MCConfigOf ==
    [d1 |-> [repeat |-> TRUE, whitelist |-> {},
             blacklist |-> {Cidr(V4("lan", "d2"), 4), Cidr(V4("iot", "d2"), 4), Cidr(V6("d2"), 4)}],
     d2 |-> [repeat |-> TRUE, whitelist |-> {},
             blacklist |-> {Cidr(V4("lan", "d1"), 4), Cidr(V4("iot", "d1"), 4), Cidr(V6("d1"), 4)}],
     \* d3 takes lan and iot, by a prefix of one bit, and any IPv6.
     d3 |-> [repeat |-> TRUE, whitelist |-> {Cidr(V4("iot", "d3"), 1), Cidr(V6("d3"), 0)},
             blacklist |-> {}]]

\* d3's host has joined the group on lan for another program.
MCHearsOn == [d1 |-> {"lan", "iot"}, d2 |-> {"lan", "iot"},
              d3 |-> {"lan", "iot", "lab", "guest"}]

MCFrames ==
    {[link |-> "lan", source |-> V4("lan", "host"), mdns_port |-> TRUE],
     [link |-> "iot", source |-> V4("iot", "host"), mdns_port |-> FALSE],
     [link |-> "lab", source |-> V4("lab", "host"), mdns_port |-> TRUE],
     [link |-> "lan", source |-> V6("host"), mdns_port |-> TRUE]}
=============================================================================
