------------------------------- MODULE Varray -------------------------------
(***************************************************************************)
(* One varray (core/FIFO/varray.sv) driven the way the instruction queue   *)
(* drives it, next to the array it stands for.                             *)
(*                                                                         *)
(* The instruction queue reads the positions one after the other, each at  *)
(* an edge with re, and never writes a position it has read or is reading. *)
(* It is itself written by the control unit, which looks at the stall      *)
(* signal in one cycle and writes in the next, and looks again only after  *)
(* that write (control_unit.sv:157-192).                                   *)
(***************************************************************************)
EXTENDS VarrayOps

CONSTANTS MaxPos,    \* bound on the positions
          MaxLen,    \* longest superscalar group (16)
          MaxResets  \* bound on the resets after the first

VARIABLES
    v,        \* the registers
    read_pos, \* the reader's position: read_addr
    granted,  \* the writer saw ~queue_almost_full one edge ago
    resets,
    \* history variables
    arr,      \* the array: what was written at each position since the reset
    stale,    \* slots whose entry is older than the last reset
    raced     \* starts of groups written into an empty ring at the very edge
              \* that reads the position before them

ASSUME VarrayBounds == MaxPos \in Nat /\ MaxLen \in Nat /\ MaxResets \in Nat

vars == <<v, read_pos, granted, resets, arr, stale, raced>>

Positions == 0 .. MaxPos
Blank == [p \in Positions |-> Nothing]
Group == [start : Positions, len : 1 .. MaxLen, dat : Positions]

Init == /\ v = PowerUp
        /\ read_pos = 0 /\ granted = FALSE /\ resets = 0
        /\ arr = Blank /\ stale = {} /\ raced = {}

Reset == /\ resets < MaxResets
         /\ v' = AfterReset(v.mem)
         /\ read_pos' = 0 /\ granted' = FALSE /\ resets' = resets + 1
         /\ arr' = Blank /\ stale' = Slots /\ raced' = {}

(* A group is told from the others by its start, so that is its payload.   *)
MayWrite(start, len) ==
    /\ granted
    /\ start >= v.varray_len
    /\ start > read_pos
    /\ start + len - 1 <= MaxPos

Read(re) == /\ re => read_pos < MaxPos
            /\ read_pos' = IF re THEN read_pos + 1 ELSE read_pos
            /\ UNCHANGED resets

NoWrite(re) ==
    /\ Read(re)
    /\ v' = Clock(v, FALSE, Unwritten, re, read_pos)
    /\ granted' = ~queue_almost_full(v)
    /\ UNCHANGED <<arr, stale, raced>>

Write(re, start, len) ==
    LET entry == [start |-> start, len |-> len, dat |-> start]
    IN  /\ MayWrite(start, len)
        /\ Read(re)
        /\ v' = Clock(v, TRUE, entry, re, read_pos)
        /\ granted' = FALSE
        /\ arr' = [p \in Positions |-> IF Covers(entry, p) THEN start ELSE arr[p]]
        /\ stale' = stale \ {v.head}
        /\ raced' = IF re /\ start = read_pos + 1 /\ v.head = v.tail
                    THEN raced \cup {start} ELSE raced

Next == \/ Reset
        \/ \E re \in BOOLEAN :
              \/ NoWrite(re)
              \/ \E start \in Positions, len \in 1 .. MaxLen : Write(re, start, len)

Spec == Init /\ [][Next]_vars

-----------------------------------------------------------------------------
Live == IF v.head >= v.tail THEN v.tail .. v.head - 1
        ELSE (v.tail .. QUEUE_LENGTH - 1) \cup (0 .. v.head - 1)

(* The ring is not empty but its oldest entry has been read to its end:    *)
(* nothing will ever move the tail again.                                  *)
Stuck == v.head # v.tail /\ EndOf(v.mem[v.tail]) <= read_pos

(* Although the size is miscounted when the ring has wrapped and the       *)
(* writer looks one edge too early, an entry is never overwritten before   *)
(* it has been read: everything written and not yet read is still in a     *)
(* slot between tail and head (varray.sv:27-41).                           *)
UnreadKept ==
    \A p \in Positions :
        p >= read_pos /\ arr[p] # Nothing =>
            \E s \in Live : Covers(v.mem[s], p) /\ v.mem[s].dat = arr[p]

(* A read returns the element that was written there, or nothing when      *)
(* nothing was.  The two exceptions are exactly a tail that is stuck,      *)
(* which reads as nothing, and a slot that still holds an entry from       *)
(* before the reset (varray.sv:46-60).                                     *)
ReadsTheArray ==
    \/ dat_r(v, read_pos) = arr[read_pos]
    \/ Stuck /\ dat_r(v, read_pos) = Nothing
    \/ v.tail \in stale

(* The tail can get stuck at no other slot than the last of the ring.      *)
SticksOnlyAtTheWrap == Stuck => v.tail = QUEUE_LENGTH - 1

(* The instruction queue restarts the thread number and the addresses of a *)
(* group when is_new_superscalar_group is up, and counts on otherwise: it  *)
(* must be up at the first element of a group and at no other.  It is,     *)
(* except at the start of the groups in raced, where it was computed from  *)
(* whatever entry the slot held before (varray.sv:52, iq.sv:57).           *)
GroupFlagExact ==
    /\ dat_r(v, read_pos) # Nothing
    /\ v.tail \notin stale
    /\ read_pos \notin raced
    => (v.is_new_superscalar_group <=> read_pos = v.mem[v.tail].start)
=============================================================================
