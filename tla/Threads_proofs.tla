--------------------------- MODULE Threads_proofs ---------------------------
(***************************************************************************)
(* What push, pop and unlink do to an intact linked list.                  *)
(***************************************************************************)
EXTENDS Threads, TLAPS

\* Only the links and stamps of the members matter.
LEMMA ThreadedFrame ==
  ASSUME NEW S, NEW head, NEW next, NEW stamp, NEW next2, NEW stamp2,
         Threaded(S, head, next, stamp),
         \A s \in S : next2[s] = next[s] /\ stamp2[s] = stamp[s]
  PROVE  Threaded(S, head, next2, stamp2)
BY DEF Threaded

\* The head of a list with members is a member; None is the head of the
\* empty list only.
LEMMA ThreadedHead ==
  ASSUME NEW S, None \notin S, NEW head, NEW next, NEW stamp,
         Threaded(S, head, next, stamp)
  PROVE  /\ head = None <=> S = {}
         /\ head # None => head \in S
BY DEF Threaded

\* A new head, newer than all members, linked to the old head.
LEMMA ThreadedPush ==
  ASSUME NEW S, NEW head, NEW next, NEW stamp, NEW n, NEW next2, NEW stamp2,
         None \notin S, n \notin S,
         Threaded(S, head, next, stamp),
         \A s \in S : stamp[s] \in Int,
         \A s \in S : next2[s] = next[s] /\ stamp2[s] = stamp[s] /\ stamp[s] < stamp2[n],
         stamp2[n] \in Int, next2[n] = head
  PROVE  Threaded(S \cup {n}, n, next2, stamp2)
<1>1. \A s \in S : /\ stamp2[s] \in Int /\ stamp2[s] < stamp2[n]
                   /\ stamp2[s] = stamp[s] /\ next2[s] = next[s]
  OBVIOUS
<1>2. \A s, t \in S \cup {n} : stamp2[s] = stamp2[t] => s = t
  BY <1>1 DEF Threaded
<1>3. n \in S \cup {n} /\ \A t \in S \cup {n} : stamp2[t] =< stamp2[n]
  BY <1>1
<1>4. ASSUME NEW s \in S \cup {n}
      PROVE  IF \A t \in S \cup {n} : stamp2[t] >= stamp2[s] THEN next2[s] = None
             ELSE /\ next2[s] \in S \cup {n}
                  /\ stamp2[next2[s]] < stamp2[s]
                  /\ \A t \in S \cup {n} : stamp2[t] < stamp2[s] => stamp2[t] =< stamp2[next2[s]]
  <2>1. CASE s = n
    <3>1. CASE S = {}
      BY <2>1, <3>1 DEF Threaded
    <3>2. CASE S # {}
      <4>1. head \in S /\ \A t \in S : stamp[t] =< stamp[head]
        BY <3>2 DEF Threaded
      <4>2. stamp2[head] < stamp2[n] /\ ~(stamp2[head] >= stamp2[n])
        BY <1>1, <4>1
      <4> QED  BY <1>1, <2>1, <4>1, <4>2
    <3> QED  BY <3>1, <3>2
  <2>2. CASE s \in S
    <3>1. (\A t \in S \cup {n} : stamp2[t] >= stamp2[s]) <=> (\A t \in S : stamp[t] >= stamp[s])
      BY <1>1, <2>2
    <3>2. CASE \A t \in S : stamp[t] >= stamp[s]
      <4>1. next2[s] = None
        BY <1>1, <2>2, <3>2 DEF Threaded
      <4> QED  BY <3>1, <3>2, <4>1
    <3>3. CASE ~(\A t \in S : stamp[t] >= stamp[s])
      <4>1. /\ next[s] \in S /\ stamp[next[s]] < stamp[s]
            /\ \A t \in S : stamp[t] < stamp[s] => stamp[t] =< stamp[next[s]]
        BY <2>2, <3>3 DEF Threaded
      <4> QED  BY <1>1, <2>2, <3>1, <3>3, <4>1
    <3> QED  BY <3>2, <3>3
  <2> QED  BY <2>1, <2>2
<1> QED  BY <1>2, <1>3, <1>4 DEF Threaded

\* The rest of a list is intact.
LEMMA ThreadedPop ==
  ASSUME NEW S, NEW head, NEW next, NEW stamp,
         Threaded(S, head, next, stamp), head \in S,
         \A s \in S : stamp[s] \in Int
  PROVE  Threaded(S \ {head}, next[head], next, stamp)
<1> DEFINE R == S \ {head}
<1>1. \A t \in S : stamp[t] =< stamp[head]
  BY DEF Threaded
<1>2. \A t \in R : stamp[t] < stamp[head]
  BY <1>1 DEF Threaded
<1>3. IF R = {} THEN next[head] = None
      ELSE next[head] \in R /\ \A t \in R : stamp[t] =< stamp[next[head]]
  <2>1. CASE R = {}
    <3>1. \A t \in S : stamp[t] >= stamp[head]
      BY <2>1
    <3> QED  BY <2>1, <3>1 DEF Threaded
  <2>2. CASE R # {}
    <3>1. ~(\A t \in S : stamp[t] >= stamp[head])
      BY <1>2, <2>2
    <3>2. /\ next[head] \in S /\ stamp[next[head]] < stamp[head]
          /\ \A t \in S : stamp[t] < stamp[head] => stamp[t] =< stamp[next[head]]
      BY <3>1 DEF Threaded
    <3> QED  BY <1>2, <2>2, <3>2
  <2> QED  BY <2>1, <2>2
<1>4. ASSUME NEW s \in R
      PROVE  IF \A t \in R : stamp[t] >= stamp[s] THEN next[s] = None
             ELSE /\ next[s] \in R /\ stamp[next[s]] < stamp[s]
                  /\ \A t \in R : stamp[t] < stamp[s] => stamp[t] =< stamp[next[s]]
  <2>1. (\A t \in R : stamp[t] >= stamp[s]) <=> (\A t \in S : stamp[t] >= stamp[s])
    BY <1>1
  <2>2. CASE \A t \in S : stamp[t] >= stamp[s]
    BY <2>1, <2>2 DEF Threaded
  <2>3. CASE ~(\A t \in S : stamp[t] >= stamp[s])
    <3>1. /\ next[s] \in S /\ stamp[next[s]] < stamp[s]
          /\ \A t \in S : stamp[t] < stamp[s] => stamp[t] =< stamp[next[s]]
      BY <2>3 DEF Threaded
    <3>2. next[s] # head
      BY <1>1, <3>1
    <3> QED  BY <2>1, <2>3, <3>1, <3>2
  <2> QED  BY <2>2, <2>3
<1> QED  BY <1>3, <1>4 DEF Threaded

\* Unlinking the successor d of a member c, which takes over d's link.
LEMMA ThreadedUnlink ==
  ASSUME NEW S, None \notin S, NEW head, NEW next, NEW stamp, NEW c \in S, NEW d \in S,
         NEW next2,
         Threaded(S, head, next, stamp), \A s \in S : stamp[s] \in Int,
         next[c] = d,
         next2[c] = next[d], \A s \in S \ {c} : next2[s] = next[s]
  PROVE  Threaded(S \ {d}, head, next2, stamp)
<1> DEFINE R == S \ {d}
<1>1. \A s, t \in S : stamp[s] = stamp[t] => s = t
  BY DEF Threaded
<1>2. \A s \in S :
        /\ (\A t \in S : stamp[t] >= stamp[s]) => next[s] = None
        /\ ~(\A t \in S : stamp[t] >= stamp[s]) =>
             /\ next[s] \in S /\ stamp[next[s]] < stamp[s]
             /\ \A t \in S : stamp[t] < stamp[s] => stamp[t] =< stamp[next[s]]
  BY DEF Threaded
<1>3. stamp[d] < stamp[c] /\ c # d
      /\ \A t \in S : stamp[t] < stamp[c] => stamp[t] =< stamp[d]
  BY <1>2
<1>4. head \in R /\ \A t \in R : stamp[t] =< stamp[head]
  <2>1. head \in S /\ \A t \in S : stamp[t] =< stamp[head]
    BY DEF Threaded
  <2> QED  BY <1>3, <2>1
<1>5. ASSUME NEW s \in R
      PROVE  IF \A t \in R : stamp[t] >= stamp[s] THEN next2[s] = None
             ELSE /\ next2[s] \in R /\ stamp[next2[s]] < stamp[s]
                  /\ \A t \in R : stamp[t] < stamp[s] => stamp[t] =< stamp[next2[s]]
  <2>1. CASE s = c
    <3>1. \A t \in R : stamp[t] < stamp[c] <=> stamp[t] < stamp[d]
      BY <1>1, <1>3
    <3>2. CASE \A t \in S : stamp[t] >= stamp[d]
      <4>1. next[d] = None /\ \A t \in R : ~(stamp[t] < stamp[d])
        BY <1>2, <3>2
      <4>2. \A t \in R : stamp[t] >= stamp[c]
        BY <3>1, <4>1
      <4> QED  BY <2>1, <4>1, <4>2
    <3>3. CASE ~(\A t \in S : stamp[t] >= stamp[d])
      <4>1. /\ next[d] \in S /\ stamp[next[d]] < stamp[d]
            /\ \A t \in S : stamp[t] < stamp[d] => stamp[t] =< stamp[next[d]]
        BY <1>2, <3>3
      <4>2. next[d] \in R /\ stamp[next[d]] < stamp[c]
        BY <1>3, <4>1
      <4>3. ~(\A t \in R : stamp[t] >= stamp[c])
        BY <4>2
      <4> QED  BY <2>1, <3>1, <4>1, <4>2, <4>3
    <3> QED  BY <3>2, <3>3
  <2>2. CASE s # c
    <3>1. next2[s] = next[s] /\ s \in S
      BY <2>2
    <3>2. CASE \A t \in S : stamp[t] >= stamp[s]
      BY <1>2, <3>1, <3>2
    <3>3. CASE ~(\A t \in S : stamp[t] >= stamp[s])
      <4>1. /\ next[s] \in S /\ stamp[next[s]] < stamp[s]
            /\ \A t \in S : stamp[t] < stamp[s] => stamp[t] =< stamp[next[s]]
        BY <1>2, <3>1, <3>3
      <4>2. next[s] # d
        <5> SUFFICES ASSUME next[s] = d PROVE FALSE
          OBVIOUS
        <5>1. stamp[c] < stamp[s] \/ stamp[s] < stamp[c]
          BY <1>1, <2>2
        <5> QED  BY <1>3, <4>1, <5>1
      <4>3. ~(\A t \in R : stamp[t] >= stamp[s])
        BY <4>1, <4>2
      <4> QED  BY <3>1, <4>1, <4>2, <4>3
    <3> QED  BY <3>2, <3>3
  <2> QED  BY <2>1, <2>2
<1> QED  BY <1>1, <1>4, <1>5 DEF Threaded
=============================================================================
