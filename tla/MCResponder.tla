----------------------------- MODULE MCResponder -----------------------------
(* A daemon with one service between two links, and a printer on link "iot".
   A tick is 250 ms. *)
EXTENDS Responder, TLC

MCAddrV4 == [i \in Ifaces |-> IF i = "lan" THEN "10.0.0.1" ELSE "10.0.1.1"]
MCAddrV6 == [i \in Ifaces |-> NoAddr]
MCServices == {[name |-> "web._ipp", service |-> "_ipp", host |-> "router"]}

Printer(type, name, data, ttl) == [iface |-> "iot", rec |-> Record(name, type, data, ttl, type # "PTR")]
MCPeers == {Printer("PTR", "_ipp", "prn._ipp", 2), Printer("SRV", "prn._ipp", "prn", 2),
            Printer("PTR", "_ipp", "prn._ipp", 0), Printer("SRV", "prn._ipp", "prn", 0)}

Query(questions, known, authority, tc) ==
    [iface |-> "lan", questions |-> questions, known |-> known, authority |-> authority, tc |-> tc]
Q(name, type) == [name |-> name, type |-> type]
Browse == Query({Q("_ipp", "PTR")}, {[key |-> PtrTypeToInstance(s).key, ttl |-> 4] : s \in ServiceConfigs}, {}, FALSE)
Resolve == Query({Q("prn._ipp", "ANY")}, {}, {}, TRUE)
Probe == Query({Q("router", "ANY")}, {}, {Q("router", "A")}, FALSE)
MCQueries == {Browse, Resolve, Probe}
Reliable == [i \in Ifaces |-> {TRUE}]
TaskSymmetry == Permutations(Tasks)

\* The hypotheses of the theorems hold of this instance.
ASSUME Hypotheses == SendsSucceed /\ PeersApart
=============================================================================
