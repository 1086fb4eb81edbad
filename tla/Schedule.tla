------------------------------ MODULE Schedule ------------------------------
(***************************************************************************)
(* What a superscalar queue promises the execution pipelines, whatever the *)
(* way it computes its positions: the copies of an instruction, one for    *)
(* each of several iterations of a loop, get consecutive positions of      *)
(* their pipeline's queue that nothing else uses, and a copy comes after   *)
(* everything that its own thread did before, by the latency of each.      *)
(***************************************************************************)
EXTENDS Integers

CONSTANTS Types,        \* the pipelines
          Latency,      \* of each of them, in positions
          QueueLength   \* positions of a queue

VARIABLE placed  \* the copies that have a position

Positions == 0..QueueLength - 1
Copies == [type: Types, position: Positions,
           step: Nat,   \* the instruction of the loop's body
           first: Nat,  \* the first iteration of its group of iterations
           copy: Nat]   \* its thread: iteration first + copy

(* In the order of the program, of two copies of one thread.               *)
Before(c, d) == c.first < d.first \/ (c.first = d.first /\ c.step < d.step)

Group(type, spot, size, step, first) ==
    {[type |-> type, position |-> spot + copy, step |-> step, first |-> first,
      copy |-> copy] : copy \in 0..size - 1}

Place(type, spot, size, step, first) ==
    LET group == Group(type, spot, size, step, first)
    IN  /\ group \subseteq Copies
        /\ \A c \in placed, d \in group :
             /\ c.type = d.type => c.position # d.position
             /\ c.copy = d.copy => /\ Before(c, d)
                                   /\ c.position + Latency[c.type] <= d.position
        /\ placed' = placed \cup group

Init == placed = {}
Next == \E type \in Types, spot \in Positions, size \in 1..QueueLength,
           step \in Nat, first \in Nat : Place(type, spot, size, step, first)
Spec == Init /\ [][Next]_placed

-----------------------------------------------------------------------------
(* A position holds one copy.                                              *)
Exclusive ==
    \A c, d \in placed : c.type = d.type /\ c.position = d.position => c = d

(* A thread's instructions start when what the thread did before is done.  *)
Spaced ==
    \A c, d \in placed :
      c.copy = d.copy /\ Before(c, d) => c.position + Latency[c.type] <= d.position
=============================================================================
