----------------------------- MODULE VarrayOps -----------------------------
(***************************************************************************)
(* The registers of core/FIFO/varray.sv and what one clock edge does to    *)
(* them.  A varray is a sparse array of 65536 elements, written and read   *)
(* at increasing addresses, kept as a ring of QUEUE_LENGTH entries; an     *)
(* entry says "the len elements from start on all hold dat".               *)
(*                                                                         *)
(* The instruction queue has four of them, so the registers are a record   *)
(* and the clock edge an operator on it.  Positions are natural numbers:   *)
(* the modules that use this one bound them below 2^16.                    *)
(***************************************************************************)
EXTENDS Integers

CONSTANTS QUEUE_LENGTH,  \* entries of the ring (64)
          Nothing        \* what an element that was never written reads as

ASSUME VarrayAssumption == QUEUE_LENGTH \in Nat /\ QUEUE_LENGTH >= 4

Slots == 0 .. QUEUE_LENGTH - 1
NextSlot(s) == IF s = QUEUE_LENGTH - 1 THEN 0 ELSE s + 1

(* The memories power up as zeros: an entry of no elements.                *)
Unwritten == [start |-> 0, len |-> 0, dat |-> Nothing]
EndOf(entry) == entry.start + entry.len
Covers(entry, pos) == entry.start <= pos /\ pos < EndOf(entry)

AfterReset(mem) ==
    [mem |-> mem, head |-> 0, tail |-> 0, varray_len |-> 0,
     is_new_superscalar_group |-> TRUE]

PowerUp == AfterReset([s \in Slots |-> Unwritten])

-----------------------------------------------------------------------------
(* The outputs.  The wrapped branch counts one entry too few (varray.sv:27).*)
queue_size(v) == IF v.head >= v.tail THEN v.head - v.tail
                 ELSE QUEUE_LENGTH - 1 - v.tail + v.head

(* Variants of the code, which the properties must tell from it: each      *)
(* operator named Variant... stands for the definition that follows it.    *)
VariantQueueAlmostFull(v) == queue_size(v) > QUEUE_LENGTH - 2
queue_almost_full(v) == queue_size(v) > QUEUE_LENGTH - 3

VariantDatR(v, read_addr) == \* one element too many
    LET entry == v.mem[v.tail]
    IN  IF entry.start <= read_addr /\ read_addr <= EndOf(entry) THEN entry.dat
        ELSE Nothing

dat_r(v, read_addr) ==
    LET entry == v.mem[v.tail]
    IN  IF Covers(entry, read_addr) THEN entry.dat ELSE Nothing

VariantLastOf(entry, read_addr) == read_addr = EndOf(entry)
LastOf(entry, read_addr) == read_addr + 1 = EndOf(entry)

(* The clock edge: a write (we) and a read (re) may share it, and both see *)
(* the registers as they were before it.                                   *)
Clock(v, we, entry, re, read_addr) ==
    LET oldest == v.mem[v.tail]
    IN  [mem |-> IF we THEN [v.mem EXCEPT ![v.head] = entry] ELSE v.mem,
         head |-> IF we THEN NextSlot(v.head) ELSE v.head,
         tail |-> IF re /\ queue_size(v) # 0 /\ LastOf(oldest, read_addr)
                  THEN NextSlot(v.tail) ELSE v.tail,
         varray_len |-> IF we THEN EndOf(entry) ELSE v.varray_len,
         is_new_superscalar_group |->
             IF re THEN read_addr < oldest.start \/ LastOf(oldest, read_addr)
             ELSE v.is_new_superscalar_group]
=============================================================================
