---------------------------- MODULE MCEndpoints ----------------------------
(* Two callers that may both send and receive; one has something to give. *)
EXTENDS Endpoints

TwoCallers == 0 .. 1
FirstCaller == {0}
BothWays == [c \in Callers |-> {"SEND", "RECV"}]
=============================================================================
