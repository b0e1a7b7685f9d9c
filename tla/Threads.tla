------------------------------ MODULE Threads ------------------------------
(***************************************************************************)
(* Intrusive singly linked lists, as kernel/src/cap/table.rs and           *)
(* kernel/src/obj/arena.rs build them out of slot indices: a head, and one *)
(* link per member, with `None` for the Option::None that ends the list.   *)
(* Both lists of the kernel (the free list and a parent's list of          *)
(* children) only ever grow at the head, so a list that is intact is the   *)
(* list of its members by decreasing time of arrival.  `stamp` holds the   *)
(* arrival times; it is auxiliary, the code has no such field.             *)
(***************************************************************************)
EXTENDS Integers

None == -1

\* head and next thread exactly the members of S, each once, newest first.
Threaded(S, head, next, stamp) ==
  /\ \A s, t \in S : stamp[s] = stamp[t] => s = t
  /\ IF S = {} THEN head = None
     ELSE head \in S /\ \A t \in S : stamp[t] =< stamp[head]
  /\ \A s \in S :
       IF \A t \in S : stamp[t] >= stamp[s] THEN next[s] = None
       ELSE /\ next[s] \in S
            /\ stamp[next[s]] < stamp[s]
            /\ \A t \in S : stamp[t] < stamp[s] => stamp[t] =< stamp[next[s]]
=============================================================================
