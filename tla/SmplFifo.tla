------------------------------ MODULE SmplFifo ------------------------------
(***************************************************************************)
(* core/FIFO/smplfifo.v, register by register.  Every always block of the  *)
(* module samples the registers before the edge and all of them change at  *)
(* the edge, so a step, Run or Reset, is one rising edge of i_clk; its     *)
(* parameters are the values of the input ports at that edge, which the    *)
(* history variable sampled keeps for BoundedFifo.                         *)
(*                                                                         *)
(* FLEN is 1 << LGFLEN.  The pointers are LGFLEN bits wide: Inc and Minus  *)
(* are the additions and subtractions of that width.                       *)
(***************************************************************************)
EXTENDS Integers, Sequences

CONSTANTS Data,   \* what BW bits can hold
          Undef,  \* a memory word or register no one has written yet
          FLEN    \* number of words of the memory

ASSUME FifoAssumption == /\ FLEN \in Nat /\ FLEN >= 4
                         /\ Undef \notin Data

VARIABLES
    fifo,                         \* the memory
    r_first, r_last, r_next,      \* write pointer, read pointer, r_last + 1
    will_overflow, will_underflow,
    r_ovfl,                       \* o_err
    fifo_here, fifo_next, r_data, \* candidates for the output
    osrc,                         \* which of them o_data shows
    r_empty_n,                    \* o_empty_n
    r_fill,                       \* the fill of o_status
    sampled,                      \* history: the ports at the last edge
    edge                          \* history: flips at every edge

pointers == <<r_first, r_last, r_next>>
flags == <<will_overflow, will_underflow, r_ovfl, r_empty_n, r_fill>>
datapath == <<fifo, fifo_here, fifo_next, r_data, osrc>>
vars == <<fifo, r_first, r_last, r_next, will_overflow, will_underflow, r_ovfl,
          fifo_here, fifo_next, r_data, osrc, r_empty_n, r_fill, sampled, edge>>

Slots == 0 .. FLEN - 1
Words == Data \cup {Undef}
Ports == [i_reset : BOOLEAN, i_wr : BOOLEAN, i_rd : BOOLEAN, i_data : Data]
NoPorts == [i_reset |-> FALSE, i_wr |-> FALSE, i_rd |-> FALSE, i_data |-> Undef]

(* Variants of the code, which the properties must tell from it: each      *)
(* operator named Variant... stands for the definition that follows it.    *)
VariantInc(p) == p + 1
Inc(p) == IF p = FLEN - 1 THEN 0 ELSE p + 1
Minus(a, b) == IF a >= b THEN a - b ELSE a - b + FLEN

o_data == IF osrc \in {0, 1} THEN r_data
          ELSE IF osrc = 3 THEN fifo_next ELSE fifo_here

Init == /\ fifo = [s \in Slots |-> Undef]
        /\ r_first = 0 /\ r_last = 0 /\ r_next = 1
        /\ will_overflow = FALSE /\ will_underflow = TRUE
        /\ r_ovfl = FALSE /\ r_empty_n = FALSE /\ r_fill = 0
        /\ fifo_here = Undef /\ fifo_next = Undef /\ r_data = Undef
        /\ osrc \in 0 .. 3
        /\ sampled = NoPorts /\ edge = FALSE

Sample(i_reset, i_wr, i_rd, i_data) ==
    /\ sampled' = [i_reset |-> i_reset, i_wr |-> i_wr, i_rd |-> i_rd,
                   i_data |-> i_data]
    /\ edge' = ~edge

-----------------------------------------------------------------------------
(* The memory and the output candidates ignore i_reset: the word at the    *)
(* write pointer is overwritten even by a refused write.                   *)
WriteMemory(i_wr, i_data) ==
    fifo' = IF i_wr THEN [fifo EXCEPT ![r_first] = i_data] ELSE fifo

VariantSelectOutput(i_rd, i_data) == \* no bypass of a write to the last slot
    /\ fifo_here' = fifo[r_last] /\ fifo_next' = fifo[r_next]
    /\ r_data' = i_data
    /\ osrc' = IF will_underflow THEN 0 ELSE IF i_rd THEN 3 ELSE 2

SelectOutput(i_rd, i_data) ==
    /\ fifo_here' = fifo[r_last]
    /\ fifo_next' = fifo[r_next]
    /\ r_data' = i_data
    /\ osrc' = CASE will_underflow -> 0
                 [] ~will_underflow /\ i_rd /\ r_first = r_next -> 1
                 [] ~will_underflow /\ i_rd /\ r_first # r_next -> 3
                 [] OTHER -> 2

NextOverflow(i_wr, i_rd) ==
    IF i_rd THEN will_overflow /\ i_wr
    ELSE IF i_wr THEN will_overflow \/ Inc(Inc(r_first)) = r_last
    ELSE will_overflow \/ Inc(r_first) = r_last

VariantNextUnderflow(i_wr, i_rd) == \* the read of this edge is not counted
    ~i_wr /\ (will_underflow \/ r_last = r_first)

NextUnderflow(i_wr, i_rd) ==
    IF i_wr THEN FALSE
    ELSE IF i_rd THEN will_underflow \/ r_next = r_first
    ELSE r_last = r_first

VariantWritePointer(i_wr, i_rd) == \* a refused write is not reported
    /\ r_first' = IF i_wr /\ (i_rd \/ ~will_overflow)
                  THEN Inc(r_first) ELSE r_first
    /\ UNCHANGED r_ovfl

WritePointer(i_wr, i_rd) ==
    LET accepted == i_rd \/ ~will_overflow
    IN  /\ r_first' = IF i_wr /\ accepted THEN Inc(r_first) ELSE r_first
        /\ r_ovfl' = (r_ovfl \/ (i_wr /\ ~accepted))

VariantReadPointer(i_rd) == \* reads an empty FIFO
    IF i_rd THEN r_last' = r_next /\ r_next' = Inc(Inc(r_last))
    ELSE UNCHANGED <<r_last, r_next>>

ReadPointer(i_rd) ==
    IF i_rd /\ ~will_underflow
    THEN r_last' = r_next /\ r_next' = Inc(Inc(r_last))
    ELSE UNCHANGED <<r_last, r_next>>

NextEmptyN(i_wr, i_rd) ==
    CASE i_wr /\ (~i_rd \/ will_underflow) -> TRUE
      [] i_wr /\ i_rd /\ ~will_underflow -> r_first # r_last
      [] ~i_wr /\ ~i_rd -> r_first # r_last
      [] ~i_wr /\ i_rd /\ ~will_underflow -> r_first # r_next
      [] OTHER -> r_empty_n

NextFill(i_wr, i_rd) ==
    LET pop == i_rd /\ ~will_underflow
    IN  CASE ~i_wr /\ pop -> Minus(r_first, r_next)
          [] i_wr /\ ~will_overflow /\ ~pop -> Inc(Minus(r_first, r_last))
          [] OTHER -> Minus(r_first, r_last)

Run(i_wr, i_rd, i_data) ==
    /\ Sample(FALSE, i_wr, i_rd, i_data)
    /\ WriteMemory(i_wr, i_data)
    /\ SelectOutput(i_rd, i_data)
    /\ WritePointer(i_wr, i_rd)
    /\ ReadPointer(i_rd)
    /\ will_overflow' = NextOverflow(i_wr, i_rd)
    /\ will_underflow' = NextUnderflow(i_wr, i_rd)
    /\ r_empty_n' = NextEmptyN(i_wr, i_rd)
    /\ r_fill' = NextFill(i_wr, i_rd)

Reset(i_wr, i_rd, i_data) ==
    /\ Sample(TRUE, i_wr, i_rd, i_data)
    /\ WriteMemory(i_wr, i_data)
    /\ SelectOutput(i_rd, i_data)
    /\ r_first' = 0 /\ r_last' = 0 /\ r_next' = 1
    /\ will_overflow' = FALSE /\ will_underflow' = TRUE
    /\ r_ovfl' = FALSE /\ r_empty_n' = FALSE /\ r_fill' = 0

Next == \E i_wr, i_rd \in BOOLEAN, i_data \in Data :
            Run(i_wr, i_rd, i_data) \/ Reset(i_wr, i_rd, i_data)

Spec == Init /\ [][Next]_vars

-----------------------------------------------------------------------------
(* What the registers stand for.                                           *)
Fill == Minus(r_first, r_last)
SlotAfter(p, k) == IF p + k < FLEN THEN p + k ELSE p + k - FLEN
Window(mem, p, n) == [k \in 1 .. n |-> mem[SlotAfter(p, k - 1)]]
Contents == Window(fifo, r_last, Fill)

(* The registers hold values of their widths.                              *)
TypeOK == /\ fifo \in [Slots -> Words]
          /\ r_first \in Slots /\ r_last \in Slots /\ r_next \in Slots
          /\ will_overflow \in BOOLEAN /\ will_underflow \in BOOLEAN
          /\ r_ovfl \in BOOLEAN /\ r_empty_n \in BOOLEAN
          /\ fifo_here \in Words /\ fifo_next \in Words /\ r_data \in Words
          /\ osrc \in 0 .. 3
          /\ r_fill \in Slots
          /\ sampled \in Ports \cup {NoPorts} /\ edge \in BOOLEAN

(* The flags are registers that each predict the fill from the inputs of   *)
(* the edge before, by rules of their own; at every edge they agree with   *)
(* the pointers (the assertions of smplfifo.v:279-300): an instantiating   *)
(* module that waits for o_empty_n or will_overflow is never misled.       *)
FlagsExact == /\ r_next = Inc(r_last)
              /\ (will_underflow <=> Fill = 0)
              /\ (r_empty_n <=> Fill # 0)
              /\ (will_overflow <=> Fill = FLEN - 1)
              /\ r_fill = Fill

(* Whenever there is something to read, o_data already shows the oldest    *)
(* value, although the memory output is one edge old and the write may     *)
(* have come on that same edge (smplfifo.v:149-168).                       *)
HeadOnOutput == Fill # 0 => o_data = fifo[r_last]

(* smplfifo implements a FIFO of FLEN - 1 values whose every edge does     *)
(* what its ports ask: a write that finds room, or comes with a read, is   *)
(* appended, any other is reported in o_err and changes nothing, a read    *)
(* drops exactly the oldest value, a read of an empty FIFO is ignored, and *)
(* only i_reset empties it (smplfifo.v:81-91, 135-147).                    *)
Abstract == INSTANCE BoundedFifo
                WITH Capacity <- FLEN - 1,
                     queue <- Contents, out <- o_data, overrun <- r_ovfl

ImplementsFifo == Abstract!Spec
=============================================================================
