------------------------------ MODULE MCEngine ------------------------------
(* One service on two links, one of which drops what is sent now and then;
   a tick is 250 ms. *)
EXTENDS Engine

MCAddrV4 == [i \in Ifaces |-> IF i = "lan" THEN "10.0.0.1" ELSE "10.0.1.1"]
MCAddrV6 == [i \in Ifaces |-> NoAddr]
MCServices == {[name |-> "web._ipp", service |-> "_ipp", host |-> "router"]}
MCIfaceSeq == <<"lan", "iot">>
MCSendResults == [i \in Ifaces |-> IF i = "lan" THEN {TRUE, FALSE} ELSE {TRUE}]
Reliable == [i \in Ifaces |-> {TRUE}]

MCPeers == {[iface |-> "iot", rec |-> Record("_ipp", "PTR", "prn._ipp", 1, FALSE)]}

Query(questions, tc) ==
    [iface |-> "lan", questions |-> questions, known |-> {}, authority |-> {}, tc |-> tc]
MCQueries == {Query({[name |-> "_ipp", type |-> "PTR"]}, TRUE),
              Query({[name |-> "router", type |-> "A"]}, FALSE)}
=============================================================================
