-------------------------- MODULE AddressesProofs --------------------------
(***************************************************************************)
(* For every width of an address and every length of a prefix: the filter   *)
(* that the code works out with shifts and masks is the one that the lists  *)
(* say by prefixes.                                                         *)
(***************************************************************************)
EXTENDS Addresses, FiniteSetTheorems, WellFoundedInduction, TLAPS

\* The least-number principle: what a search from the front finds exists.
LEMMA Least ==
    ASSUME NEW T \in SUBSET Nat, T # {}
    PROVE  \E x \in T : \A y \in T : x <= y
  <1> DEFINE R == {ss \in Nat \X Nat : ss[1] < ss[2]}
  <1>1. OpToRel(<, Nat) = R
    BY Zenon DEF OpToRel
  <1>2. \E x \in T : \A y \in T : ~ (<<y, x>> \in OpToRel(<, Nat))
    BY NatLessThanWellFounded, WFMin, Zenon
  <1>3. \E x \in T : \A y \in T : ~ (<<y, x>> \in R)
    BY <1>1, <1>2, Zenon
  <1>4. PICK x \in T : \A y \in T : ~ (<<y, x>> \in R)
    BY <1>3
  <1>5. ASSUME NEW y \in T PROVE x <= y
    <2>1. y \in Nat /\ x \in Nat /\ ~(<<y, x>> \in R)
      BY <1>4
    <2>2. ASSUME y < x PROVE <<y, x>> \in R
      <3> DEFINE ss == <<y, x>>
      <3>1. ss \in Nat \X Nat
        BY <2>1
      <3>2. ss[1] < ss[2]
        BY <2>2
      <3> QED BY <3>1, <3>2
    <2>3. ~(y < x)
      BY <2>1, <2>2
    <2> QED BY <2>1, <2>3
  <1> QED BY <1>5

\* A shift by less than the width is one by its own amount.
LEMMA SmallMod ==
    ASSUME NEW w \in Nat \ {0}, NEW n \in 0..(w - 1)
    PROVE  n % w = n
  OBVIOUS

\* The mask of parse_subnet, ipv6_net and iface_addrs selects the first `len' bits,
\* at both ends of the range of `len' as well.
LEMMA PrefixMaskBits ==
    ASSUME NEW f \in Families, NEW len \in 0..Width[f]
    PROVE  PrefixMask(f, len) = {p \in Positions(f) : p >= Width[f] - len}
  <1>0. Width[f] \in Nat \ {0}
    BY AddressAssumption
  <1>1. CASE len = 0
    BY <1>0, <1>1 DEF PrefixMask, Positions
  <1>2. CASE len # 0
    <2>1. Width[f] - len \in 0..(Width[f] - 1)
      BY <1>0, <1>2
    <2>2. (Width[f] - len) % Width[f] = Width[f] - len
      BY <1>0, <2>1, SmallMod
    <2> QED BY <1>2, <2>2 DEF PrefixMask, OnesShl
  <1> QED BY <1>1, <1>2

\* Comparing under that mask is comparing prefixes.
LEMMA MaskedEqual ==
    ASSUME NEW f \in Families, NEW len \in 0..Width[f],
           NEW a \in SUBSET Positions(f), NEW b \in SUBSET Positions(f)
    PROVE  (b \cap PrefixMask(f, len) = a \cap PrefixMask(f, len)) <=> SamePrefix(f, a, b, len)
  <1> DEFINE M == {p \in Positions(f) : p >= Width[f] - len}
  <1>1. PrefixMask(f, len) = M
    BY PrefixMaskBits
  <1>2. SamePrefix(f, a, b, len) <=> \A p \in M : p \in a <=> p \in b
    BY DEF SamePrefix
  <1>3. (b \cap M = a \cap M) <=> \A p \in M : p \in a <=> p \in b
    OBVIOUS
  <1> QED BY <1>1, <1>2, <1>3

\* Subnet::matches on what parse_subnet makes of an entry, for both families and
\* across them.
LEMMA MatchesCovers ==
    ASSUME NEW e, Entry(e), parses(e), NEW ip \in Addrs
    PROVE  matches(parse_subnet(e), ip) <=> Covers(e, ip)
  <1>1. e.fam \in Families /\ e.len \in 0..Width[e.fam] /\ e.bits \in SUBSET Positions(e.fam)
    BY AddressAssumption DEF Entry, parses
  <1>2. ip.fam \in Families /\ ip.bits \in SUBSET Positions(ip.fam)
    BY DEF Addrs
  <1>3. parse_subnet(e).fam = e.fam
    BY <1>1 DEF parse_subnet, Families
  <1>4. CASE ip.fam # e.fam
    BY <1>3, <1>4 DEF matches, Covers
  <1>5. CASE ip.fam = e.fam /\ e.fam = "V4"
    <2>1. matches(parse_subnet(e), ip)
             <=> ip.bits \cap PrefixMask("V4", e.len) = e.bits \cap PrefixMask("V4", e.len)
      BY <1>5 DEF matches, parse_subnet
    <2> QED BY <1>1, <1>2, <1>5, <2>1, MaskedEqual DEF Covers
  <1>6. CASE ip.fam = e.fam /\ e.fam = "V6"
    <2>1. matches(parse_subnet(e), ip)
             <=> ip.bits \cap PrefixMask("V6", e.len) = e.bits \cap PrefixMask("V6", e.len)
      BY <1>6 DEF matches, parse_subnet, ipv6_net
    <2> QED BY <1>1, <1>2, <1>6, <2>1, MaskedEqual DEF Covers
  <1> QED BY <1>1, <1>4, <1>5, <1>6 DEF Families

\* Resolved::allow_source, for lists that Resolved::parse accepts, is Permits.
THEOREM AllowSourceExact ==
    ASSUME NEW lists,
           lists.whitelist = {} \/ lists.blacklist = {},
           \A e \in lists.whitelist \cup lists.blacklist : Entry(e) /\ parses(e),
           NEW ip \in Addrs
    PROVE  allow_source({parse_subnet(e) : e \in lists.whitelist},
                        {parse_subnet(e) : e \in lists.blacklist}, ip)
              <=> Permits(lists, ip)
  <1>1. \A e \in lists.whitelist \cup lists.blacklist :
           matches(parse_subnet(e), ip) <=> Covers(e, ip)
    BY MatchesCovers
  <1>2. CASE lists.whitelist = {}
    BY <1>1, <1>2 DEF allow_source, Permits
  <1>3. CASE lists.whitelist # {}
    BY <1>1, <1>3 DEF allow_source, Permits
  <1> QED BY <1>2, <1>3

-----------------------------------------------------------------------------
\* The mask of a prefix of length len.
Run(len) == {p \in Positions("V6") : p >= Width["V6"] - len}

LEMMA OctetsType ==
    /\ octets \in Nat /\ Octet \in Nat \ {0} /\ Width["V6"] \in Nat \ {0}
    /\ octets * Octet = Width["V6"]
  <1>1. Octet \in Nat \ {0} /\ Width["V6"] \in Nat \ {0}
    BY AddressAssumption DEF Families
  <1>2. octets \in Nat
    BY <1>1 DEF octets
  <1>3. Octet * octets = Width["V6"]
    BY AddressAssumption DEF octets
  <1> QED BY <1>1, <1>2, <1>3

\* Where octet i is, if there is one.
LEMMA OctetAt ==
    ASSUME NEW i \in 0..(octets - 1)
    PROVE  /\ i * Octet \in Nat /\ (i + 1) * Octet = i * Octet + Octet
           /\ i * Octet + Octet <= Width["V6"]
           /\ octet(i) = (Width["V6"] - i * Octet - Octet)..(Width["V6"] - i * Octet - 1)
  <1>1. i \in Nat /\ octets - (i + 1) \in Nat
    BY OctetsType
  <1>2. i * Octet \in Nat /\ (i + 1) * Octet = i * Octet + Octet
    BY <1>1, OctetsType
  <1>3. i * Octet + Octet <= Width["V6"]
    <2>1. (octets - (i + 1)) * Octet \in Nat
      BY <1>1, OctetsType
    <2>2. (octets - (i + 1)) * Octet = octets * Octet - (i + 1) * Octet
      BY <1>1, OctetsType
    <2> QED BY <1>2, <2>1, <2>2, OctetsType
  <1>4. Width["V6"] - (i + 1) * Octet = Width["V6"] - i * Octet - Octet
    BY <1>2, OctetsType
  <1> QED BY <1>2, <1>3, <1>4 DEF octet

\* The ones of the prefix that are left from octet i on.
Left(len, i) == IF len >= i * Octet THEN len - i * Octet ELSE 0

\* An octet of a prefix: full of ones, or the one where they end, or without any.
LEMMA OctetOfPrefix ==
    ASSUME NEW len \in 0..Width["V6"], NEW i \in 0..(octets - 1)
    PROVE  Left(len, i) = IF octet(i) \subseteq Run(len) THEN Octet + Left(len, i + 1)
                          ELSE leading_ones(Run(len), i)
  <1> DEFINE W == Width["V6"]
             t == i * Octet
  <1>1. /\ W \in Nat \ {0} /\ t \in Nat /\ Octet \in Nat \ {0} /\ len \in Nat /\ len <= W
        /\ t + Octet <= W /\ (i + 1) * Octet = t + Octet
        /\ octet(i) = (W - t - Octet)..(W - t - 1)
    BY OctetsType, OctetAt
  <1>2. Left(len, i) = (IF len >= t THEN len - t ELSE 0)
        /\ Left(len, i + 1) = (IF len >= t + Octet THEN len - (t + Octet) ELSE 0)
    BY <1>1 DEF Left
  <1>3. Run(len) = {p \in 0..(W - 1) : p >= W - len}
    BY DEF Run, Positions
  <1> HIDE DEF W, t
  <1>4. octet(i) \subseteq Run(len) <=> len >= t + Octet
    <2>1. W - t - Octet \in octet(i) /\ (W - t - Octet >= W - len <=> len >= t + Octet)
      BY <1>1
    <2>2. len >= t + Octet => octet(i) \subseteq Run(len)
      BY <1>1, <1>3
    <2> QED BY <1>3, <2>1, <2>2
  <1>5. CASE len >= t + Octet
    <2>1. len >= t /\ len - t = Octet + (len - (t + Octet))
      BY <1>1, <1>5
    <2> QED BY <1>2, <1>4, <1>5, <2>1
  <1>6. CASE ~(len >= t + Octet)
    <2> DEFINE ones == {p \in octet(i) : \A q \in octet(i) : q >= p => q \in Run(len)}
    <2>1. ones = {p \in octet(i) : p >= W - len}
      <3>1. ASSUME NEW p \in octet(i)
            PROVE  (\A q \in octet(i) : q >= p => q \in Run(len)) <=> p >= W - len
        <4>1. p \in Int /\ p >= p
          BY <1>1
        <4>2. (\A q \in octet(i) : q >= p => q \in Run(len)) => p >= W - len
          BY <1>3, <4>1
        <4>3. ASSUME p >= W - len, NEW q \in octet(i), q >= p PROVE q \in Run(len)
          BY <1>1, <1>3, <4>3
        <4> QED BY <4>2, <4>3
      <3> QED BY <3>1
    <2>2. CASE len >= t
      <3>1. ones = (W - len)..(W - t - 1)
        BY <1>1, <1>6, <2>1, <2>2
      <3>2. Cardinality((W - len)..(W - t - 1)) = len - t
        <4>1. W - len \in Int /\ W - t - 1 \in Int
          BY <1>1
        <4>2. Cardinality((W - len)..(W - t - 1))
                 = IF W - len > W - t - 1 THEN 0 ELSE (W - t - 1) - (W - len) + 1
          BY <4>1, FS_Interval
        <4> QED BY <1>1, <2>2, <4>2
      <3> QED BY <1>2, <1>4, <1>6, <2>2, <3>1, <3>2, Zenon DEF leading_ones
    <2>3. CASE ~(len >= t)
      <3>1. ones = {}
        BY <1>1, <2>1, <2>3
      <3>2. Cardinality({}) = 0
        BY FS_EmptySet
      <3> QED BY <1>2, <1>4, <1>6, <2>3, <3>1, <3>2 DEF leading_ones
    <2> QED BY <2>2, <2>3
  <1> QED BY <1>5, <1>6

\* One round of ipv6_prefix_len's loop, with f for what the later rounds yield.
Round(f, mask, i) ==
    IF i = octets THEN 0
    ELSE IF octet(i) \subseteq mask THEN Octet + f[i + 1]
    ELSE leading_ones(mask, i)

Solves(f, mask) == f = [i \in 0..octets |-> Round(f, mask, i)]

\* The loop has a result on a prefix's mask ...
LEMMA LoopResult ==
    ASSUME NEW len \in 0..Width["V6"]
    PROVE  Solves([i \in 0..octets |-> Left(len, i)], Run(len))
  <1> DEFINE g == [i \in 0..octets |-> Left(len, i)]
  <1>1. ASSUME NEW i \in 0..octets PROVE Left(len, i) = Round(g, Run(len), i)
    <2>1. CASE i = octets
      <3>1. Left(len, octets) = 0
        BY OctetsType DEF Left
      <3> QED BY <2>1, <3>1 DEF Round
    <2>2. CASE i # octets
      <3>1. i \in 0..(octets - 1) /\ i + 1 \in 0..octets
        BY <2>2, OctetsType
      <3>2. g[i + 1] = Left(len, i + 1)
        BY <3>1
      <3> QED BY <2>2, <3>1, <3>2, OctetOfPrefix DEF Round
    <2> QED BY <2>1, <2>2
  <1> QED BY <1>1 DEF Solves

\* ... and only one: two results differ in no round, the last one to differ being
\* followed by one where they agree.
LEMMA LoopDetermined ==
    ASSUME NEW mask, NEW f, NEW g, Solves(f, mask), Solves(g, mask)
    PROVE  \A i \in 0..octets : f[i] = g[i]
  <1> DEFINE T == {n \in Nat : n <= octets /\ f[octets - n] # g[octets - n]}
  <1>1. ASSUME NEW i \in 0..octets PROVE f[i] = Round(f, mask, i) /\ g[i] = Round(g, mask, i)
    BY Zenon DEF Solves
  <1>2. T = {}
    <2> SUFFICES ASSUME T # {} PROVE FALSE
      OBVIOUS
    <2>1. T \in SUBSET Nat
      OBVIOUS
    <2>2. \E n \in T : \A m \in T : n <= m
      <3> HIDE DEF T
      <3> QED BY <2>1, Least
    <2>3. PICK n \in T : \A m \in T : n <= m
      BY <2>2
    <2>4. n \in Nat /\ n <= octets /\ f[octets - n] # g[octets - n] /\ octets - n \in 0..octets
      BY OctetsType
    <2>5. CASE n = 0
      <3>1. octets - n = octets
        BY <2>5, OctetsType
      <3> QED BY <1>1, <2>4, <3>1 DEF Round
    <2>6. CASE n # 0
      <3>1. n - 1 \in Nat /\ n - 1 <= octets /\ ~(n <= n - 1) /\ octets - (n - 1) = (octets - n) + 1
        BY <2>4, <2>6, OctetsType
      <3>2. n - 1 \notin T
        BY <2>3, <3>1
      <3>3. f[(octets - n) + 1] = g[(octets - n) + 1]
        BY <3>1, <3>2
      <3> QED BY <1>1, <2>4, <3>3 DEF Round
    <2> QED BY <2>5, <2>6
  <1>3. ASSUME NEW i \in 0..octets PROVE f[i] = g[i]
    <2>1. octets - i \in Nat /\ octets - i <= octets /\ octets - (octets - i) = i
      BY OctetsType
    <2>2. octets - i \notin T
      BY <1>2
    <2> QED BY <2>1, <2>2
  <1> QED BY <1>3

\* ipv6_prefix_len is exact on the netmasks that the kernel has, for any number and
\* size of octets.
THEOREM PrefixLenExact ==
    ASSUME NEW len \in 0..Width["V6"]
    PROVE  ipv6_prefix_len({p \in Positions("V6") : p >= Width["V6"] - len}) = len
  <1> DEFINE f == CHOOSE f : f = [i \in 0..octets |->
                    IF i = octets THEN 0
                    ELSE IF octet(i) \subseteq Run(len) THEN Octet + f[i + 1]
                    ELSE leading_ones(Run(len), i)]
             g == [i \in 0..octets |-> Left(len, i)]
  <1>1. ipv6_prefix_len(Run(len)) = f[0]
    BY DEF ipv6_prefix_len
  <1>2. f = CHOOSE h : Solves(h, Run(len))
    BY DEF Solves, Round
  <1>3. Solves(g, Run(len))
    BY LoopResult
  <1> HIDE DEF f, g
  <1>4. Solves(f, Run(len))
    BY <1>2, <1>3
  <1>5. 0 \in 0..octets /\ 0 * Octet = 0
    BY OctetsType
  <1>6. f[0] = g[0]
    BY <1>3, <1>4, <1>5, LoopDetermined
  <1>7. g[0] = len
    BY <1>5, OctetsType DEF g, Left
  <1>8. ipv6_prefix_len(Run(len)) = len
    BY <1>1, <1>6, <1>7
  <1> QED BY <1>8 DEF Run

-----------------------------------------------------------------------------
\* The netmask that iface_addrs goes by.
NetmaskOf(a, f) ==
    IF a.netmask = {}
    THEN PrefixMask(f, IF f = "V4" THEN DEFAULT_V4_LEN ELSE DEFAULT_V6_LEN)
    ELSE CHOOSE m \in a.netmask : TRUE

\* Comparing under a mask is agreeing on its bits.
LEMMA AgreeMasked ==
    ASSUME NEW m, NEW a, NEW b PROVE (b \cap m = a \cap m) <=> AgreeOn(m, a, b)
  BY DEF AgreeOn

\* The network of an IPv6 address, by the length of its mask, is the one of the
\* mask.
LEMMA MaskOfLen ==
    ASSUME NEW a, IfAddr(a), a.fam = "V6"
    PROVE  PrefixMask("V6", IfaceAddrV6(a).prefix_len) = NetmaskOf(a, "V6")
  <1>1. CASE a.netmask = {}
    BY <1>1 DEF IfaceAddrV6, NetmaskOf
  <1>2. CASE a.netmask # {}
    <2> DEFINE m == CHOOSE m \in a.netmask : TRUE
    <2>1. m \in a.netmask
      BY <1>2
    <2>2. PICK len \in 0..Width["V6"] : m = {p \in Positions("V6") : p >= Width["V6"] - len}
      BY <2>1, Zenon DEF IfAddr
    <2>3. ipv6_prefix_len(m) = len
      BY <2>2, PrefixLenExact, Zenon
    <2>4. PrefixMask("V6", len) = m
      BY <2>2, PrefixMaskBits DEF Families
    <2>5. IfaceAddrV6(a).prefix_len = ipv6_prefix_len(m) /\ NetmaskOf(a, "V6") = m
      BY <1>2 DEF IfaceAddrV6, NetmaskOf
    <2> QED BY <2>3, <2>4, <2>5, Zenon
  <1> QED BY <1>1, <1>2

\* Iface::contains, for the addresses that iface_addrs finds: being on the subnet
\* of the first usable address of the family.
THEOREM ContainsExact ==
    ASSUME NEW ifaddrs, \A n \in DOMAIN ifaddrs : IfAddr(ifaddrs[n]), NEW name,
           NEW iface, iface.v4 = iface_addrs(ifaddrs, name).v4,
           iface.v6 = iface_addrs(ifaddrs, name).v6, NEW ip \in Addrs
    PROVE  contains(iface, ip) <=>
              \E a \in Usable(ifaddrs, name, ip.fam) :
                 AgreeOn(NetmaskOf(a, ip.fam), a.bits, ip.bits)
  <1>1. ASSUME NEW f, NEW a \in Usable(ifaddrs, name, f) PROVE IfAddr(a) /\ a.fam = f
    BY DEF Usable
  <1>2. CASE ip.fam = "V4"
    <2>1. iface.v4 = {IfaceAddrV4(a) : a \in Usable(ifaddrs, name, "V4")}
      BY DEF iface_addrs
    <2>2. ASSUME NEW a
          PROVE  ip.bits \cap IfaceAddrV4(a).mask = IfaceAddrV4(a).net
                    <=> AgreeOn(NetmaskOf(a, "V4"), a.bits, ip.bits)
      <3>1. /\ IfaceAddrV4(a).mask = NetmaskOf(a, "V4")
            /\ IfaceAddrV4(a).net = a.bits \cap NetmaskOf(a, "V4")
        BY DEF IfaceAddrV4, NetmaskOf
      <3> QED BY <3>1, AgreeMasked
    <2>3. contains(iface, ip) <=> \E v4 \in iface.v4 : ip.bits \cap v4.mask = v4.net
      BY <1>2 DEF contains
    <2> QED BY <1>2, <2>1, <2>2, <2>3
  <1>3. CASE ip.fam = "V6"
    <2>1. iface.v6 = {IfaceAddrV6(a) : a \in Usable(ifaddrs, name, "V6")}
      BY DEF iface_addrs
    <2>2. ASSUME NEW a \in Usable(ifaddrs, name, "V6")
          PROVE  ipv6_net(ip.bits, IfaceAddrV6(a).prefix_len) = IfaceAddrV6(a).net
                    <=> AgreeOn(NetmaskOf(a, "V6"), a.bits, ip.bits)
      <3>1. IfaceAddrV6(a).net = ipv6_net(a.bits, IfaceAddrV6(a).prefix_len)
        BY DEF IfaceAddrV6
      <3>2. PrefixMask("V6", IfaceAddrV6(a).prefix_len) = NetmaskOf(a, "V6")
        BY <1>1, MaskOfLen
      <3> QED BY <3>1, <3>2, AgreeMasked DEF ipv6_net
    <2>3. contains(iface, ip)
             <=> \E v6 \in iface.v6 : ipv6_net(ip.bits, v6.prefix_len) = v6.net
      BY <1>3 DEF contains
    <2> QED BY <1>3, <2>1, <2>2, <2>3
  <1>4. ip.fam \in Families
    BY DEF Addrs
  <1> QED BY <1>2, <1>3, <1>4 DEF Families
=============================================================================
