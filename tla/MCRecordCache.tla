---------------------------- MODULE MCRecordCache ----------------------------
(* Two siblings and an unrelated record on two links; a tick is half a second. *)
EXTENDS RecordCache

A1 == [name |-> "host", type |-> "A", data |-> 1]
A2 == [name |-> "host", type |-> "A", data |-> 2]
TXT == [name |-> "host", type |-> "TXT", data |-> 3]
MCQuestions == {[name |-> "host", type |-> "A"], [name |-> "host", type |-> "ANY"]}
MCRelayKeys == {A1, TXT}
MCKeys == {A1, A2, TXT}
=============================================================================
