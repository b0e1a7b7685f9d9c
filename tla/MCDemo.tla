------------------------------ MODULE MCDemo ------------------------------
(* kernel_entry's tables: both tasks hold SEND | RECV on one endpoint. *)
EXTENDS Demo

ThreeTasks == 0 .. 2
NewRightsAll == [c \in Callers |-> {}]
DemoTables ==
  [c \in ThreeTasks |->
     IF c = 2 THEN [h \in {} |-> {}]
     ELSE [h \in {c + 1} |-> [rights |-> {"SEND", "RECV"}, parent |-> NoParent,
                              object |-> EpObject([index |-> 0, generation |-> 0])]]]
=============================================================================
