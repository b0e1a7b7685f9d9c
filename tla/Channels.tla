------------------------------ MODULE Channels ------------------------------
(***************************************************************************)
(* What the endpoints promise their users: every endpoint is a channel of  *)
(* its own with room for one message (and a capability with it) and a flag *)
(* for one registered receiver.  There are no slots, no generations and no *)
(* stale state: nothing of a closed channel shows in a later one.          *)
(* Endpoints implements this specification.                                *)
(***************************************************************************)
CONSTANT Empty   \* no message

VARIABLES
  used,     \* every channel ever opened
  box,      \* open channel -> the message in it, or Empty
  waiting   \* the channels with a registered receiver

vars == <<used, box, waiting>>

Opened == DOMAIN box

Init == used = {} /\ waiting = {} /\ box = [e \in {} |-> Empty]

Open(e) ==
  /\ e \notin used /\ used' = used \cup {e}
  /\ box' = [f \in Opened \cup {e} |-> IF f = e THEN Empty ELSE box[f]]
  /\ UNCHANGED waiting

\* A message that was not taken goes down with its channel.
Close(e) ==
  /\ box' = [f \in Opened \ {e} |-> box[f]]
  /\ waiting' = waiting \ {e}
  /\ UNCHANGED used

\* A message goes into an empty box and answers the registered receiver.
Put(e) ==
  /\ box[e] = Empty
  /\ box'[e] # Empty /\ box' = [box EXCEPT ![e] = box'[e]]
  /\ waiting' = waiting \ {e}
  /\ UNCHANGED used

Take(e) ==
  /\ box[e] # Empty
  /\ box' = [box EXCEPT ![e] = Empty]
  /\ UNCHANGED <<used, waiting>>

\* One receiver registers, where nothing is to be had.
Wait(e) ==
  /\ box[e] = Empty /\ e \notin waiting
  /\ waiting' = waiting \cup {e}
  /\ UNCHANGED <<used, box>>

Next ==
  \/ \E e \in Opened' \ Opened : Open(e)
  \/ \E e \in Opened \ Opened' : Close(e)
  \/ \E e \in Opened \cap Opened' : Put(e) \/ Take(e) \/ Wait(e)

Spec == Init /\ [][Next]_vars
=============================================================================
