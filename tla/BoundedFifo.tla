---------------------------- MODULE BoundedFifo ----------------------------
(***************************************************************************)
(* What core/FIFO/smplfifo.v promises to the modules that instantiate it:  *)
(* a FIFO of at most Capacity values with a first-word-fall-through        *)
(* output.  One step is one rising clock edge.                             *)
(*                                                                         *)
(*   queue     the values written and not yet read, oldest first           *)
(*   out       the value the FIFO shows at o_data                          *)
(*   overrun   whether a write has been refused since the last reset       *)
(*   sampled   what the input ports were at the last edge                  *)
(*   edge      flips at every edge, so that no edge is a stuttering step   *)
(*                                                                         *)
(* The ports of an edge decide which step it is: one of Reset, Idle, Pop,  *)
(* Push, Refuse and PopPush is enabled for each of their values, and none  *)
(* of the others.  An accepted write that adds nothing, a refused one that *)
(* is not reported or a fill that drops to zero is no step at all.         *)
(***************************************************************************)
EXTENDS Naturals, Sequences

CONSTANTS Data, Undef, Capacity

VARIABLES queue, out, overrun, sampled, edge

vars == <<queue, out, overrun, sampled, edge>>

Ports == [i_reset : BOOLEAN, i_wr : BOOLEAN, i_rd : BOOLEAN, i_data : Data]
NoPorts == [i_reset |-> FALSE, i_wr |-> FALSE, i_rd |-> FALSE, i_data |-> Undef]

Init == /\ queue = << >>
        /\ out \in Data \cup {Undef}
        /\ overrun = FALSE
        /\ sampled = NoPorts \* no edge yet
        /\ edge = FALSE

Full == Len(queue) = Capacity

(* A read of an empty FIFO is ignored.                                     *)
Reads(in) == in.i_rd /\ queue # << >>

(* The reading side shows the oldest value as soon as there is one; with   *)
(* nothing to read the output is arbitrary.                                *)
ShowHead == /\ out' \in Data \cup {Undef}
            /\ queue' # << >> => out' = Head(queue')

Reset(in) == /\ in.i_reset
             /\ queue' = << >>
             /\ overrun' = FALSE

Idle(in) == /\ ~in.i_reset /\ ~in.i_wr /\ ~Reads(in)
            /\ UNCHANGED <<queue, overrun>>

Pop(in) == /\ ~in.i_reset /\ ~in.i_wr /\ Reads(in)
           /\ queue' = Tail(queue)
           /\ UNCHANGED overrun

Push(in) == /\ ~in.i_reset /\ in.i_wr /\ ~Reads(in) /\ ~Full
            /\ queue' = Append(queue, in.i_data)
            /\ UNCHANGED overrun

Refuse(in) == /\ ~in.i_reset /\ in.i_wr /\ ~Reads(in) /\ Full
              /\ UNCHANGED queue
              /\ overrun' = TRUE

(* A read makes room for the write of the same edge, even when full.       *)
PopPush(in) == /\ ~in.i_reset /\ in.i_wr /\ Reads(in)
               /\ queue' = Append(Tail(queue), in.i_data)
               /\ UNCHANGED overrun

Next == \E in \in Ports :
            /\ sampled' = in
            /\ edge' = ~edge
            /\ ShowHead
            /\ \/ Reset(in) \/ Idle(in) \/ Pop(in)
               \/ Push(in) \/ Refuse(in) \/ PopPush(in)

Spec == Init /\ [][Next]_vars
=============================================================================
