----------------------------- MODULE MCBrowser -----------------------------
(***************************************************************************)
(* Files that use every key the start depends on, right and wrong, and a    *)
(* host whose interfaces come and go.  Addresses have four bits; IPv6 ones  *)
(* have two octets of two bits and are link-local if the first bit is set.  *)
(***************************************************************************)
EXTENDS Browser

MCWidth == [V4 |-> 4, V6 |-> 4]
MCLinkLocal == [bits |-> {3}, len |-> 1]

Cidr(f, bits, len) == [form |-> "cidr", fam |-> f, bits |-> bits, len |-> len]
Service(ok, hosts) == [service |-> ok, name |-> ok, composes |-> ok, host |-> hosts]

Base ==
    [interfaces |-> <<"lan", "iot">>, blacklist |-> {}, whitelist |-> {},
     services |-> {Service(TRUE, {})}, browse |-> {TRUE}, browse_interval_secs |-> 3,
     cache_max_ttl_secs |-> {}]

MCRawConfigs ==
    {Unreadable,
     Base,
     [Base EXCEPT !.interfaces = <<>>],
     [Base EXCEPT !.interfaces = <<"lan", "lan">>, !.browse_interval_secs = 7,
                  !.cache_max_ttl_secs = {7}],
     [Base EXCEPT !.interfaces = <<"iot">>, !.browse_interval_secs = 0, !.browse = {TRUE, FALSE},
                  !.cache_max_ttl_secs = {0},
                  !.blacklist = {Cidr("V4", {0, 3}, 3), Cidr("V6", {0, 1, 3}, 1)}],
     [Base EXCEPT !.interfaces = <<"iot">>, !.browse = {FALSE}, !.cache_max_ttl_secs = {3},
                  !.whitelist = {Cidr("V4", {1, 2}, 4), Cidr("V6", {2}, 0)}],
     [Base EXCEPT !.interfaces = <<"lan">>, !.browse = {}, !.cache_max_ttl_secs = {1},
                  !.services = {Service(TRUE, {}), Service(TRUE, {FALSE})},
                  !.blacklist = {Cidr("V4", {2}, 0)}],
     [Base EXCEPT !.services = {Service(FALSE, {TRUE})}],
     [Base EXCEPT !.cache_max_ttl_secs = {8}],
     [Base EXCEPT !.whitelist = {Cidr("V4", {}, 5)}],
     [Base EXCEPT !.blacklist = {[Cidr("V6", {}, 0) EXCEPT !.form = "bad mask"]}],
     [Base EXCEPT !.whitelist = {Cidr("V4", {}, 1)}, !.blacklist = {Cidr("V4", {}, 3)}]}

Addr(name, f, bits, netmask) == [name |-> name, fam |-> f, bits |-> bits, netmask |-> netmask]

Up(ifaddrs) == [index |-> [lan |-> {2}, iot |-> {3}], ifaddrs |-> ifaddrs]

MCOsStates ==
    {Up(<<Addr("lan", "V6", {0, 1}, {{3}}), Addr("lan", "V4", {0, 2}, {{2, 3}}),
          Addr("iot", "V4", {0, 3}, {}), Addr("lan", "V6", {0, 3}, {{1, 2, 3}}),
          Addr("lan", "V4", {1}, {{3}}), Addr("iot", "V6", {0, 3}, {})>>),
     \* no IPv6 on iot, an address other than a link-local one on lan
     Up(<<Addr("lan", "V6", {0}, {{3}}), Addr("lan", "V6", {1, 3}, {{3}}),
          Addr("iot", "V4", {1, 3}, {{}})>>),
     \* no address that can be used on iot, and no lan
     [index |-> [lan |-> {}, iot |-> {3}], ifaddrs |-> <<Addr("iot", "V6", {1}, {})>>]}
=============================================================================
