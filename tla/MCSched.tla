------------------------------ MODULE MCSched ------------------------------
(* Task sets for TLC. *)
EXTENDS Sched, TLC

Cap(rights, object) == [rights |-> rights, object |-> object, parent |-> NoParent]
E0 == [index |-> 0, generation |-> 0]
E1 == [index |-> 1, generation |-> 0]
Token == [kind |-> "Other", ref |-> 0]

ThreeTasks == 0 .. 2
TwoTasks == 0 .. 1

\* Every task may send and receive through an endpoint created later.
NewRightsAll == [c \in Callers |-> {"SEND", "RECV"}]
\* The same, without the idle task.
NewRightsOfTwo == [c \in Callers |-> IF c < 2 THEN {"SEND", "RECV"} ELSE {}]

Empty == [h \in {} |-> {}]

\* The tasks of kernel_entry: two tasks with both directions of one endpoint
\* (here one of them also has a capability to give away, and the table of
\* the other may be full), and the idle task.
PingPong ==
  [c \in ThreeTasks |->
     IF c = 0 THEN (1 :> Cap({"RECV", "SEND"}, EpObject(E0)) @@ 2 :> Cap({}, Token))
     ELSE IF c = 1 THEN (3 :> Cap({"RECV", "SEND"}, EpObject(E0)) @@ 4 :> Cap({"TRANSFER"}, Token))
     ELSE Empty]

\* The idle task can neither send nor receive.
ASSUME PingPongIdle ==
  InitTables = PingPong => KeptFrom({2}, {"RECV"}) /\ Peers(0, 1)

\* Two receivers on one endpoint, one of them with a full table, and a
\* sender with a capability to give away.
TwoReceivers ==
  [c \in ThreeTasks |->
     IF c = 0 THEN (1 :> Cap({"RECV"}, EpObject(E0)))
     ELSE IF c = 1 THEN (2 :> Cap({"RECV"}, EpObject(E0)) @@ 3 :> Cap({}, Token))
     ELSE (4 :> Cap({"SEND"}, EpObject(E0)) @@ 5 :> Cap({"TRANSFER"}, Token))]

\* No idle task: a receiver and a sender.
NoIdle ==
  [c \in TwoTasks |->
     IF c = 0 THEN (1 :> Cap({"RECV"}, EpObject(E0))) ELSE (2 :> Cap({"RECV", "SEND"}, EpObject(E1)))]
=============================================================================
