----------------------------- MODULE Addresses -----------------------------
(***************************************************************************)
(* Addresses, masks and subnets of src/src/iface.rs and src/src/config.rs.  *)
(* An address of a family is the set of its one bits, position 0 the least  *)
(* significant; the widths are parameters.  An Option is a set of at most   *)
(* one element.                                                             *)
(***************************************************************************)
EXTENDS Integers, Sequences, FiniteSets

CONSTANTS
    Width,          \* bits of an address, by family: 32 and 128
    Octet,          \* bits of an octet
    LINK_LOCAL,     \* fe80::/10, as [bits, len]
    DEFAULT_V4_LEN, \* /24, for an interface without a netmask
    DEFAULT_V6_LEN  \* /64

Families == {"V4", "V6"}

ASSUME AddressAssumption ==
    /\ Width \in [Families -> Nat \ {0}]
    /\ Octet \in Nat \ {0}
    /\ Octet * (Width["V6"] \div Octet) = Width["V6"]
    /\ LINK_LOCAL.len \in 0..Width["V6"]
    /\ DEFAULT_V4_LEN \in 0..Width["V4"]
    /\ DEFAULT_V6_LEN \in 0..Width["V6"]

Positions(f) == 0..(Width[f] - 1)
Addrs == UNION {[fam : {f}, bits : SUBSET Positions(f)] : f \in Families}

\* All ones << n: a shift by the full width wraps around to no shift at all (it
\* panics in a debug build).
OnesShl(f, n) == {p \in Positions(f) : p >= n % Width[f]}

\* Mutant: the prefix of length 0 is not set apart.
BadPrefixMask(f, len) == OnesShl(f, Width[f] - len)

PrefixMask(f, len) == IF len = 0 THEN {} ELSE OnesShl(f, Width[f] - len)

ipv6_net(bits, len) == bits \cap PrefixMask("V6", len)

is_unicast_link_local_v6(bits) ==
    ipv6_net(bits, LINK_LOCAL.len) = ipv6_net(LINK_LOCAL.bits, LINK_LOCAL.len)

\* The octets of an IPv6 address from the top, and the positions in one of them.
octets == Width["V6"] \div Octet
octet(i) == (Width["V6"] - (i + 1) * Octet)..(Width["V6"] - i * Octet - 1)

\* u8::leading_ones, of an octet of a mask.
leading_ones(mask, i) == Cardinality({p \in octet(i) : \A q \in octet(i) : q >= p => q \in mask})

\* Mutant: only whole octets count.
BadIpv6PrefixLen(mask) ==
    Octet * Cardinality({i \in 0..(octets - 1) : \A j \in 0..i : octet(j) \subseteq mask})

\* The leading ones of a mask: octets of ones count in full, the first other one
\* counts its leading ones and ends the loop.
ipv6_prefix_len(mask) ==
    LET bits[i \in 0..octets] ==
            IF i = octets THEN 0
            ELSE IF octet(i) \subseteq mask THEN Octet + bits[i + 1]
            ELSE leading_ones(mask, i)
    IN  bits[0]

-----------------------------------------------------------------------------
\* An entry of a filter list as it is written: what comes before the slash, what
\* comes after it, and `form', whether they parse (if they do not, the rest is
\* arbitrary).  A mask longer than an address is refused.
Entry(e) == e.fam \in Families /\ e.bits \subseteq Positions(e.fam) /\ e.len \in Nat

parses(e) == e.form = "cidr" /\ e.len <= Width[e.fam]

\* parse_subnet, for an entry that parses.
parse_subnet(e) ==
    IF e.fam = "V6"
    THEN [fam |-> "V6", prefix_len |-> e.len, net |-> ipv6_net(e.bits, e.len)]
    ELSE [fam |-> "V4", mask |-> PrefixMask("V4", e.len),
          net |-> e.bits \cap PrefixMask("V4", e.len)]

\* Subnet::matches: never across families.
matches(s, ip) ==
    /\ s.fam = ip.fam
    /\ IF s.fam = "V4" THEN ip.bits \cap s.mask = s.net
       ELSE ipv6_net(ip.bits, s.prefix_len) = s.net

\* Resolved::allow_source.
allow_source(whitelist, blacklist, ip) ==
    IF whitelist # {} THEN \E s \in whitelist : matches(s, ip)
    ELSE ~\E s \in blacklist : matches(s, ip)

-----------------------------------------------------------------------------
\* Iface: an interface's index and, per family, its address and network.
has_addr(iface, ip) ==
    IF ip.fam = "V4" THEN \E v4 \in iface.v4 : v4.addr = ip.bits
    ELSE \E v6 \in iface.v6 : v6.addr = ip.bits

contains(iface, ip) ==
    IF ip.fam = "V4" THEN \E v4 \in iface.v4 : ip.bits \cap v4.mask = v4.net
    ELSE \E v6 \in iface.v6 : ipv6_net(ip.bits, v6.prefix_len) = v6.net

families(iface) ==
    {f \in Families : IF f = "V4" THEN iface.v4 # {} ELSE iface.v6 # {}}

\* An entry of getifaddrs: the netmask of an IPv6 address is a prefix's.
IfAddr(a) ==
    /\ a.fam \in Families /\ a.bits \subseteq Positions(a.fam)
    /\ \A m \in a.netmask :
          /\ m \subseteq Positions(a.fam)
          /\ a.fam = "V6" => \E len \in 0..Width["V6"] :
                                m = {p \in Positions("V6") : p >= Width["V6"] - len}

\* iface_addrs on one entry of getifaddrs, [bits, netmask].
IfaceAddrV4(a) ==
    LET mask == IF a.netmask = {} THEN PrefixMask("V4", DEFAULT_V4_LEN)
                ELSE CHOOSE m \in a.netmask : TRUE
    IN  [addr |-> a.bits, mask |-> mask, net |-> a.bits \cap mask]

IfaceAddrV6(a) ==
    LET prefix_len == IF a.netmask = {} THEN DEFAULT_V6_LEN
                      ELSE ipv6_prefix_len(CHOOSE m \in a.netmask : TRUE)
    IN  [addr |-> a.bits, prefix_len |-> prefix_len, net |-> ipv6_net(a.bits, prefix_len)]

\* iface_addrs on the list of getifaddrs, by family: the first entry of an
\* interface that can be used, an Option.
Usable(ifaddrs, name, f) ==
    LET fits == {n \in DOMAIN ifaddrs :
                    /\ ifaddrs[n].name = name /\ ifaddrs[n].fam = f
                    /\ f = "V6" => is_unicast_link_local_v6(ifaddrs[n].bits)}
    IN  {ifaddrs[n] : n \in {n \in fits : \A m \in fits : n <= m}}

iface_addrs(ifaddrs, name) ==
    [v4 |-> {IfaceAddrV4(a) : a \in Usable(ifaddrs, name, "V4")},
     v6 |-> {IfaceAddrV6(a) : a \in Usable(ifaddrs, name, "V6")}]

-----------------------------------------------------------------------------
\* Reference: two addresses agree on their first `len' bits.
SamePrefix(f, a, b, len) ==
    \A p \in Positions(f) : p >= Width[f] - len => (p \in a <=> p \in b)

\* Reference: what an entry of a filter list is meant to cover.
Covers(e, ip) == e.fam = ip.fam /\ SamePrefix(e.fam, e.bits, ip.bits, e.len)

\* Reference: what the two lists are meant to let in.
Permits(lists, ip) ==
    /\ lists.whitelist # {} => \E e \in lists.whitelist : Covers(e, ip)
    /\ ~\E e \in lists.blacklist : Covers(e, ip)

\* Reference: on the bits of a netmask, two addresses agree.
AgreeOn(mask, a, b) == \A p \in mask : p \in a <=> p \in b
=============================================================================
