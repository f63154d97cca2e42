---------------------------- MODULE BoundedQueue ----------------------------
(***************************************************************************)
(* What a queue of xpr promises its callers, whatever stores the elements: *)
(* elements leave in the order they arrived, each is handed to exactly one *)
(* reader, and no more than Capacity of them wait.  Fifo implements it.    *)
(*                                                                         *)
(* taken[c] is what the current call of reader c has removed so far.       *)
(***************************************************************************)
EXTENDS Naturals, Sequences

CONSTANTS
  Elements,  \* what can be queued
  Capacity,  \* how many can wait
  Readers    \* the threads that remove elements

VARIABLES queue, taken

vars == <<queue, taken>>

Init ==
  /\ queue = <<>>
  /\ taken = [c \in Readers |-> <<>>]

Enqueue(e) ==
  /\ Len(queue) < Capacity
  /\ queue' = Append(queue, e)
  /\ UNCHANGED taken

Dequeue(c) ==
  /\ queue # <<>>
  /\ taken' = [taken EXCEPT ![c] = Append(@, Head(queue))]
  /\ queue' = Tail(queue)

\* Reader c starts another call.
Forget(c) ==
  /\ taken' = [taken EXCEPT ![c] = <<>>]
  /\ UNCHANGED queue

\* The first n elements are thrown away.
Discard(n) ==
  /\ queue' = SubSeq(queue, n + 1, Len(queue))
  /\ UNCHANGED taken

Next ==
  \/ \E e \in Elements : Enqueue(e)
  \/ \E c \in Readers : Dequeue(c) \/ Forget(c)
  \/ \E n \in 1 .. Len(queue) : Discard(n)

Spec == Init /\ [][Next]_vars
=============================================================================
