----------------------------- MODULE LossyQueue -----------------------------
(***************************************************************************)
(* What a set of pipes promises its readers and writers: each is a queue   *)
(* that keeps the newest Capacity bytes.  A read takes what it can get     *)
(* from the front, in the order of the writes; no byte is read twice and   *)
(* none that was not written.                                              *)
(***************************************************************************)
EXTENDS Integers, Sequences

CONSTANTS Queue, Message, Length, Capacity

VARIABLES
  queue,   \* queue[q]: the bytes in q, oldest first
  got      \* got[q]: what the latest read of q returned

Newest(s) == IF Len(s) <= Capacity THEN s
             ELSE SubSeq(s, Len(s) - Capacity + 1, Len(s))

Init == queue = [q \in Queue |-> <<>>] /\ got = [q \in Queue |-> <<>>]

Send(q, bytes) ==
  /\ queue' = [queue EXCEPT ![q] = Newest(@ \o bytes)]
  /\ UNCHANGED got

Receive(q, n) ==
  LET m == IF n < Len(queue[q]) THEN n ELSE Len(queue[q])
  IN  /\ got' = [got EXCEPT ![q] = SubSeq(queue[q], 1, m)]
      /\ queue' = [queue EXCEPT ![q] = SubSeq(@, m + 1, Len(@))]

Next == \E q \in Queue : \/ \E bytes \in Message : Send(q, bytes)
                         \/ \E n \in Length : Receive(q, n)

Spec == Init /\ [][Next]_<<queue, got>>
=============================================================================
