------------------------------ MODULE Services ------------------------------
(***************************************************************************)
(* The records the daemon publishes: src/src/services.rs.  A record is      *)
(* [key |-> [name, type, data], ttl, flush]; the data of a PTR or SRV is    *)
(* the name it points to, that of an A or AAAA the address.                 *)
(***************************************************************************)
EXTENDS Integers, FiniteSets

CONSTANTS
    Ifaces,          \* the managed interfaces, by ifindex
    AddrV4, AddrV6,  \* the address of each interface, or NoAddr
    NoAddr,
    Hostname,
    ServiceConfigs,  \* [name, service, host]: instance, type and target names
    TTL_HOST, TTL_SERVICE

ASSUME TtlAssumption == TTL_HOST \in Nat \ {0} /\ TTL_SERVICE \in Nat \ {0}

Record(name, type, data, ttl, flush) ==
    [key |-> [name |-> name, type |-> type, data |-> data], ttl |-> ttl, flush |-> flush]

\* build: host addresses, SRV and TXT are unique, the two PTRs are shared.
HostRecords(type, addr) ==
    {Record(Hostname, type, addr[i], TTL_HOST, TRUE) : i \in {j \in Ifaces : addr[j] # NoAddr}}

host_a == HostRecords("A", AddrV4)
host_aaaa == HostRecords("AAAA", AddrV6)

PtrTypeToInstance(s) == Record(s.service, "PTR", s.name, TTL_SERVICE, FALSE)
PtrMetaToType(s) == Record("_services._dns-sd._udp", "PTR", s.service, TTL_SERVICE, FALSE)
Srv(s) == Record(s.name, "SRV", s.host, TTL_HOST, TRUE)
Txt(s) == Record(s.name, "TXT", s.name, TTL_SERVICE, TRUE)

Published ==
    host_a \cup host_aaaa \cup
    UNION {{PtrTypeToInstance(s), PtrMetaToType(s), Srv(s), Txt(s)} : s \in ServiceConfigs}

\* Published::answer, one filter per group of records in the code.
Answer(name, type) ==
    {r \in Published : r.key.name = name /\ type \in {"ANY", r.key.type}}

HostRecordsForIface(i) ==
    {r \in host_a : r.key.data = AddrV4[i]} \cup {r \in host_aaaa : r.key.data = AddrV6[i]}

UniqueServiceRecords == UNION {{Srv(s), Txt(s)} : s \in ServiceConfigs}

UniqueForIface(i) == HostRecordsForIface(i) \cup UniqueServiceRecords

\* responder::build_announce.
Announcement(i) ==
    HostRecordsForIface(i) \cup
    UNION {{PtrTypeToInstance(s), PtrMetaToType(s), Srv(s), Txt(s)} : s \in ServiceConfigs}

\* services::goodbye, for every interface alike.
GoodbyeRecords ==
    {[r EXCEPT !.ttl = 0] :
        r \in host_a \cup host_aaaa \cup
              UNION {{PtrTypeToInstance(s), Srv(s), Txt(s)} : s \in ServiceConfigs}}
=============================================================================
