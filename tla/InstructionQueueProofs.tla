----------------------- MODULE InstructionQueueProofs -----------------------
(***************************************************************************)
(* The instruction queue, for any superscalar width, any latencies, any    *)
(* length of the rings and any number of pushes and resets.                *)
(*                                                                         *)
(* First the spacing.  A position is chosen from the group pushed last and *)
(* from the last group of the same type; LatenciesKept speaks of any two   *)
(* groups.  The inductive invariant, Spacing, is what the position         *)
(* registers say about all the groups since the last reset.                *)
(*                                                                         *)
(* Then the copies.  The inductive invariant, CopyInv, adds to Spacing the *)
(* picture of the four rings (which groups their slots hold, and in which  *)
(* order), what the output registers hold, and what the flag that starts   *)
(* the count of threads is worth; from it, where each copy of a group is.  *)
(***************************************************************************)
EXTENDS InstructionQueue, VarrayRing, TLAPS

(* The position registers, the lengths of the varrays and the history are  *)
(* of their types.                                                         *)
PositionsTyped ==
    /\ prev_instr_type \in Types
    /\ next_free_spot_in_varray \in [Types -> Nat]
    /\ varray_pos_when_done \in [Types -> Nat]
    /\ varray_read_pos \in Nat
    /\ \A t \in Types : varr_len(t) \in Nat
    /\ pushed \in Seq(GroupOf)
    /\ first \in Nat \ {0}

(* Every group ends within its varray and within the room of its type.     *)
GroupsWithin ==
    \A n \in Groups, t \in Types :
        pushed[n].type = t =>
            /\ pushed[n].pos + pushed[n].len <= varr_len(t)
            /\ pushed[n].pos + pushed[n].len <= next_free_spot_in_varray[t]

(* The last group is the one the next position is chosen from.             *)
LastRemembered ==
    Len(pushed) \in Groups =>
        LET g == pushed[Len(pushed)]
        IN  /\ prev_instr_type = g.type
            /\ varray_pos_when_done[g.type] = g.pos + latency(g.type)

Spacing == PositionsTyped /\ GroupsWithin /\ LastRemembered /\ LatenciesKept

-----------------------------------------------------------------------------
LEMMA TypeValues ==
    /\ LOAD_STORE \in Types /\ RAM \in Types
    /\ ARITHMETIC \in Types /\ PROG_END \in Types
    /\ \A t \in Types : t \in {LOAD_STORE, RAM, ARITHMETIC, PROG_END}
  BY DEF Types

LEMMA GroupFields ==
    ASSUME NEW g \in GroupOf
    PROVE  /\ g.type \in Types /\ g.pos \in Nat
           /\ g.len \in 1 .. SUPERSCALAR_WIDTH /\ g.len \in Nat \ {0}
<1>1. g.type \in Types /\ g.pos \in Nat /\ g.len \in 1 .. SUPERSCALAR_WIDTH
  BY DEF GroupOf
<1>2. \A k \in 1 .. SUPERSCALAR_WIDTH : k \in Nat \ {0}
  BY QueueAssumption DEF QueueAssumption
<1> QED
  BY <1>1, <1>2

(* A latency is at least one clock.                                        *)
LEMMA LatencyPositive == ASSUME NEW t \in Types PROVE latency(t) \in Nat \ {0}
  BY TypeValues, QueueAssumption
     DEF QueueAssumption, latency, LOAD_STORE, RAM, ARITHMETIC, PROG_END

(* max4 of the four varrays is a length and latency that exceeds all.      *)
LEMMA EndBehindAll ==
    ASSUME PositionsTyped
    PROVE  /\ insert_varray_pos(PROG_END) \in Nat
           /\ \A t \in Types : varr_len(t) + latency(t) <= insert_varray_pos(PROG_END)
<1>1. \A t \in Types : varr_len(t) \in Nat /\ latency(t) \in Nat
  BY LatencyPositive DEF PositionsTyped
<1>2. \A t \in Types : LenAndLatency(t) \in Nat
  BY <1>1 DEF LenAndLatency
<1>3. \A t \in Types : LenAndLatency(t) <= insert_varray_pos(PROG_END)
  BY <1>2, TypeValues DEF insert_varray_pos, max4, Larger
<1>4. insert_varray_pos(PROG_END) \in Nat
  BY <1>2, TypeValues DEF insert_varray_pos, max4, Larger
<1> QED
  BY <1>3, <1>4 DEF LenAndLatency

(* The position of any other group respects the three registers.           *)
LEMMA PositionBehind ==
    ASSUME PositionsTyped, NEW t \in Types, t # PROG_END
    PROVE  /\ insert_varray_pos(t) \in Nat
           /\ varray_pos_when_done[prev_instr_type] <= insert_varray_pos(t)
           /\ next_free_spot_in_varray[t] <= insert_varray_pos(t)
           /\ varray_read_pos < insert_varray_pos(t)
  BY DEF PositionsTyped, insert_varray_pos, max, Larger

-----------------------------------------------------------------------------
LEMMA SpacingInit == Init => Spacing
<1> SUFFICES ASSUME Init PROVE Spacing
  OBVIOUS
<1>1. Len(pushed) = 0 /\ first = 1 /\ pushed \in Seq(GroupOf)
  BY DEF Init
<1>2. Groups = {}
  BY <1>1 DEF Groups
<1>3. \A t \in Types : varr_len(t) = 0
  BY DEF Init, varr_len, PowerUp, AfterReset
<1>4. PositionsTyped
  BY <1>1, <1>3, TypeValues DEF Init, PositionsTyped
<1> QED
  BY <1>2, <1>4 DEF Spacing, GroupsWithin, LastRemembered, LatenciesKept

(* What a push does to the state Spacing speaks of.                        *)
LEMMA PushEffect ==
    ASSUME NEW freeze \in BOOLEAN, NEW t \in Types, NEW c \in 1 .. SUPERSCALAR_WIDTH,
           PositionsTyped, Push(freeze, t, c)
    PROVE  \E len \in 1 .. SUPERSCALAR_WIDTH :
              LET pos == insert_varray_pos(t)
              IN  /\ pushed' = Append(pushed, [type |-> t, pos |-> pos, len |-> len])
                  /\ first' = first
                  /\ prev_instr_type' = t
                  /\ varray_pos_when_done' =
                        [varray_pos_when_done EXCEPT ![t] = pos + latency(t)]
                  /\ next_free_spot_in_varray' =
                        [next_free_spot_in_varray EXCEPT ![t] = pos + SUPERSCALAR_WIDTH]
                  /\ varr_len(t)' = pos + len
                  /\ \A u \in Types \ {t} : varr_len(u)' = varr_len(u)
                  /\ varray_read_pos' \in Nat
<1> DEFINE len == IF t = PROG_END THEN 1 ELSE c
           pos == insert_varray_pos(t)
           n == Len(pushed) + 1
           re == ~empty /\ ~freeze
           entry == [start |-> pos, len |-> len,
                     dat |-> [instr |-> n, addr |-> n, d_addr |-> 1]]
<1>1. len \in 1 .. SUPERSCALAR_WIDTH
  BY QueueAssumption DEF QueueAssumption
<1>2. varrays' = [u \in Types |->
                    IF u = t THEN Clock(varrays[u], TRUE, entry, re, varray_read_pos)
                    ELSE Clock(varrays[u], FALSE, entry, re, varray_read_pos)]
  BY DEF Push
<1>3. /\ varrays'[t] = Clock(varrays[t], TRUE, entry, re, varray_read_pos)
      /\ \A u \in Types \ {t} :
            varrays'[u] = Clock(varrays[u], FALSE, entry, re, varray_read_pos)
  BY <1>2
<1>4. varr_len(t)' = pos + len /\ \A u \in Types \ {t} : varr_len(u)' = varr_len(u)
  <2>1. re \in BOOLEAN /\ entry.start = pos /\ entry.len = len
    OBVIOUS
  <2> HIDE DEF re, entry, pos, len
  <2>2. varrays'[t].varray_len = pos + len
    BY <1>3, <2>1 DEF Clock, EndOf
  <2>3. ASSUME NEW u \in Types \ {t}
        PROVE  varrays'[u].varray_len = varrays[u].varray_len
    <3>1. varrays'[u] = Clock(varrays[u], FALSE, entry, re, varray_read_pos)
      BY <1>3
    <3> QED
      BY <2>1, <3>1 DEF Clock
  <2> QED
    BY <2>2, <2>3 DEF varr_len
<1>5. varray_read_pos' \in Nat
  BY DEF Push, Pop, PositionsTyped
<1>6. /\ pushed' = Append(pushed, [type |-> t, pos |-> pos, len |-> len])
      /\ first' = first
      /\ prev_instr_type' = t
      /\ varray_pos_when_done' = [varray_pos_when_done EXCEPT ![t] = pos + latency(t)]
      /\ next_free_spot_in_varray' =
            [next_free_spot_in_varray EXCEPT ![t] = pos + SUPERSCALAR_WIDTH]
  BY DEF Push
<1> QED
  BY <1>1, <1>4, <1>5, <1>6

LEMMA SpacingPush ==
    ASSUME Spacing,
           NEW freeze \in BOOLEAN, NEW t \in Types, NEW c \in 1 .. SUPERSCALAR_WIDTH,
           Push(freeze, t, c)
    PROVE  Spacing'
<1> DEFINE pos == insert_varray_pos(t)
           last == Len(pushed)
<1>1. PositionsTyped /\ GroupsWithin /\ LastRemembered /\ LatenciesKept
  BY DEF Spacing
<1>2. PICK len \in 1 .. SUPERSCALAR_WIDTH :
         /\ pushed' = Append(pushed, [type |-> t, pos |-> pos, len |-> len])
         /\ first' = first
         /\ prev_instr_type' = t
         /\ varray_pos_when_done' =
               [varray_pos_when_done EXCEPT ![t] = pos + latency(t)]
         /\ next_free_spot_in_varray' =
               [next_free_spot_in_varray EXCEPT ![t] = pos + SUPERSCALAR_WIDTH]
         /\ varr_len(t)' = pos + len
         /\ \A u \in Types \ {t} : varr_len(u)' = varr_len(u)
         /\ varray_read_pos' \in Nat
  BY <1>1, PushEffect
<1>3. pos \in Nat
  BY <1>1, EndBehindAll, PositionBehind
<1>4. latency(t) \in Nat \ {0}
  BY LatencyPositive
<1>5. /\ last \in Nat /\ Len(pushed') = last + 1
      /\ pushed'[last + 1] = [type |-> t, pos |-> pos, len |-> len]
      /\ \A m \in 1 .. last : pushed'[m] = pushed[m]
      /\ \A m \in 1 .. last : pushed[m] \in GroupOf
  BY <1>1, <1>2 DEF PositionsTyped
<1>6. [type |-> t, pos |-> pos, len |-> len] \in GroupOf
  BY <1>2, <1>3 DEF GroupOf
<1>7. Groups = first .. last /\ Groups' = first .. last + 1 /\ first \in Nat \ {0}
  BY <1>1, <1>2, <1>5 DEF Groups, PositionsTyped
<1> HIDE DEF pos, last
<1>8. PositionsTyped'
  <2>1. \A u \in Types : varr_len(u)' \in Nat
    BY SMTT(60), <1>1, <1>2, <1>3 DEF PositionsTyped
  <2>2. SUPERSCALAR_WIDTH \in Nat
    BY QueueAssumption DEF QueueAssumption
  <2>3. pushed' \in Seq(GroupOf)
    BY <1>1, <1>2, <1>6 DEF PositionsTyped
  <2>4. varray_pos_when_done' \in [Types -> Nat]
    <3>1. varray_pos_when_done \in [Types -> Nat] /\ pos + latency(t) \in Nat
      BY <1>1, <1>3, <1>4 DEF PositionsTyped
    <3> QED
      BY <1>2, <3>1
  <2>5. next_free_spot_in_varray' \in [Types -> Nat]
    <3>1. next_free_spot_in_varray \in [Types -> Nat] /\ pos + SUPERSCALAR_WIDTH \in Nat
      BY <1>1, <1>3, <2>2 DEF PositionsTyped
    <3> QED
      BY <1>2, <3>1
  <2> QED
    BY <1>1, <1>2, <2>1, <2>3, <2>4, <2>5 DEF PositionsTyped
(* Old groups end before the position of the new one of their type.        *)
<1>9. ASSUME NEW m \in Groups
      PROVE  /\ pushed[m].type = t => pushed[m].pos + pushed[m].len <= pos
             /\ pushed[m].pos + latency(pushed[m].type) <= pos
             /\ t = PROG_END =>
                   pushed[m].pos + pushed[m].len + latency(pushed[m].type) <= pos
  <2>1. m \in 1 .. last /\ pushed[m] \in GroupOf
    BY <1>5, <1>7
  <2>2. /\ pushed[m].type \in Types /\ pushed[m].pos \in Nat /\ pushed[m].len \in Nat \ {0}
        /\ latency(pushed[m].type) \in Nat /\ varr_len(pushed[m].type) \in Nat
    BY <1>1, <2>1, GroupFields, LatencyPositive DEF PositionsTyped
  <2>3. /\ pushed[m].pos + pushed[m].len <= varr_len(pushed[m].type)
        /\ pushed[m].pos + pushed[m].len <= next_free_spot_in_varray[pushed[m].type]
    BY <1>1, <2>2 DEF GroupsWithin
  <2>4. CASE t = PROG_END
    <3>1. varr_len(pushed[m].type) + latency(pushed[m].type) <= pos
      BY <1>1, <2>2, <2>4, EndBehindAll DEF pos
    <3>2. pushed[m].pos + pushed[m].len + latency(pushed[m].type) <= pos
      BY <1>3, <2>2, <2>3, <3>1
    <3> QED
      BY <1>3, <2>2, <3>2
  <2>5. CASE t # PROG_END
    <3>1. /\ varray_pos_when_done[prev_instr_type] <= pos
          /\ next_free_spot_in_varray[t] <= pos
      BY <1>1, <2>5, PositionBehind DEF pos
    <3>2. pushed[m].type = t => pushed[m].pos + pushed[m].len <= pos
      BY SMTT(60), <1>1, <1>3, <2>2, <2>3, <3>1 DEF PositionsTyped
    <3>3. last \in Groups /\ pushed[last] \in GroupOf
      BY <1>5, <1>7, <2>1
    <3>4. varray_pos_when_done[prev_instr_type] = pushed[last].pos + latency(pushed[last].type)
      BY <1>1, <3>3 DEF LastRemembered, last
    <3>5. pushed[last].pos + latency(pushed[last].type) <= pos
      BY <3>1, <3>4
    <3>6. pushed[last].pos \in Nat /\ latency(pushed[last].type) \in Nat
      BY <3>3, GroupFields, LatencyPositive
    <3>7. pushed[m].pos + latency(pushed[m].type) <= pos
      <4>1. CASE m = last
        BY <3>5, <4>1
      <4>2. CASE m # last
        <5>1. m < last
          BY <1>5, <1>7, <2>1, <4>2
        <5>2. Behind(m, last)
          BY <1>1, <3>3, <5>1 DEF LatenciesKept
        <5>3. pushed[m].pos + latency(pushed[m].type) <= pushed[last].pos
          BY <2>2, <3>6, <5>2 DEF Behind
        <5> QED
          BY <1>3, <2>2, <3>5, <3>6, <5>3
      <4> QED
        BY <4>1, <4>2
    <3> QED
      BY <2>5, <3>2, <3>7
  <2> QED
    BY <2>4, <2>5
<1>10. GroupsWithin'
  <2> SUFFICES ASSUME NEW m \in Groups', NEW u \in Types, pushed'[m].type = u
               PROVE  /\ pushed'[m].pos + pushed'[m].len <= varr_len(u)'
                      /\ pushed'[m].pos + pushed'[m].len <= next_free_spot_in_varray'[u]
    BY DEF GroupsWithin
  <2>1. SUPERSCALAR_WIDTH \in Nat /\ next_free_spot_in_varray \in [Types -> Nat]
    BY <1>1, QueueAssumption DEF QueueAssumption, PositionsTyped
  <2>2. CASE m = last + 1
    <3>1. u = t /\ pushed'[m].pos = pos /\ pushed'[m].len = len
      BY <1>5, <2>2
    <3>2. varr_len(u)' = pos + len /\ next_free_spot_in_varray'[u] = pos + SUPERSCALAR_WIDTH
      BY <1>2, <2>1, <3>1
    <3> QED
      BY <1>3, <2>1, <3>1, <3>2
  <2>3. CASE m # last + 1
    <3>1. m \in Groups /\ m \in 1 .. last
      BY <1>5, <1>7, <2>3
    <3>2. pushed'[m] = pushed[m] /\ pushed[m] \in GroupOf
      BY <1>5, <3>1
    <3>3. pushed[m].type = u /\ pushed[m].pos + pushed[m].len \in Nat
      BY <3>2, GroupFields
    <3>4. /\ pushed[m].pos + pushed[m].len <= varr_len(u)
          /\ pushed[m].pos + pushed[m].len <= next_free_spot_in_varray[u]
      BY <1>1, <3>1, <3>3 DEF GroupsWithin
    <3>5. CASE u # t
      BY <1>2, <2>1, <3>2, <3>4, <3>5
    <3>6. CASE u = t
      <4>1. pushed[m].pos + pushed[m].len <= pos
        BY <1>9, <3>1, <3>3, <3>6
      <4>2. varr_len(u)' = pos + len /\ next_free_spot_in_varray'[u] = pos + SUPERSCALAR_WIDTH
        BY <1>2, <2>1, <3>6
      <4> QED
        BY <1>3, <2>1, <3>2, <3>3, <4>1, <4>2
    <3> QED
      BY <3>5, <3>6
  <2> QED
    BY <2>2, <2>3
<1>11. LastRemembered'
  <2>1. varray_pos_when_done'[t] = pos + latency(t)
    BY <1>1, <1>2 DEF PositionsTyped
  <2> QED
    BY <1>2, <1>5, <2>1 DEF LastRemembered
<1>12. LatenciesKept'
  <2> SUFFICES ASSUME NEW m \in Groups', NEW n \in Groups', m < n
               PROVE  Behind(m, n)'
    BY DEF LatenciesKept
  <2>1. m \in Groups /\ m \in 1 .. last /\ pushed'[m] = pushed[m]
    BY <1>5, <1>7
  <2>2. CASE n # last + 1
    <3>1. n \in Groups /\ pushed'[n] = pushed[n]
      BY <1>5, <1>7, <2>2
    <3>2. Behind(m, n)
      BY <1>1, <2>1, <3>1 DEF LatenciesKept
    <3> QED
      BY <2>1, <3>1, <3>2 DEF Behind
  <2>3. CASE n = last + 1
    <3>1. pushed[m].pos \in Nat /\ pushed[m].len \in Nat /\ latency(pushed[m].type) \in Nat
      BY <1>5, <2>1, GroupFields, LatencyPositive
    <3>2. /\ pushed[m].type = t => pushed[m].pos + pushed[m].len <= pos
          /\ pushed[m].pos + latency(pushed[m].type) <= pos
          /\ t = PROG_END =>
                pushed[m].pos + pushed[m].len + latency(pushed[m].type) <= pos
      BY <1>9, <2>1
    <3>3. pushed'[n].type = t /\ pushed'[n].pos = pos
      BY <1>5, <2>3
    <3>4. pushed'[n].pos >= pushed'[m].pos + latency(pushed'[m].type)
      BY <1>3, <2>1, <3>1, <3>2, <3>3
    <3>5. pushed'[n].type = pushed'[m].type =>
             pushed'[n].pos >= pushed'[m].pos + pushed'[m].len
      BY <1>3, <2>1, <3>1, <3>2, <3>3
    <3>6. pushed'[n].type = PROG_END =>
             pushed'[n].pos >= pushed'[m].pos + pushed'[m].len - 1
                                 + latency(pushed'[m].type)
      BY <1>3, <2>1, <3>1, <3>2, <3>3
    <3> QED
      BY <3>4, <3>5, <3>6 DEF Behind, latency
  <2> QED
    BY <2>2, <2>3
<1> QED
  BY <1>8, <1>10, <1>11, <1>12 DEF Spacing

-----------------------------------------------------------------------------
(* An edge without a push moves no group, and no register of the positions *)
(* but the reading one.                                                    *)
LEMMA SpacingStep ==
    ASSUME Spacing, NEW freeze \in BOOLEAN, Step(freeze)
    PROVE  Spacing'
<1>1. \A t \in Types : varr_len(t)' = varr_len(t)
  <2> SUFFICES ASSUME NEW t \in Types PROVE varr_len(t)' = varr_len(t)
    OBVIOUS
  <2> DEFINE re == ~empty /\ ~freeze
  <2>1. varrays' = [u \in Types |->
                      Clock(varrays[u], FALSE, Unwritten, re, varray_read_pos)]
    BY DEF Step
  <2>2. varrays'[t] = Clock(varrays[t], FALSE, Unwritten, re, varray_read_pos)
    BY <2>1
  <2>3. re \in BOOLEAN
    OBVIOUS
  <2> HIDE DEF re
  <2>4. varrays'[t].varray_len = varrays[t].varray_len
    BY <2>2, <2>3 DEF Clock
  <2> QED
    BY <2>4 DEF varr_len
<1>2. UNCHANGED <<pushed, first, prev_instr_type, next_free_spot_in_varray,
                  varray_pos_when_done>>
  BY DEF Step
<1>3. varray_read_pos' \in Nat
  BY DEF Spacing, PositionsTyped, Step, Pop
<1>4. PositionsTyped'
  BY <1>1, <1>2, <1>3 DEF Spacing, PositionsTyped
<1>5. Groups' = Groups
  BY <1>2 DEF Groups
<1>6. \A n \in Groups : pushed[n].type \in Types
  BY GroupFields DEF Spacing, PositionsTyped, Groups
<1>7. GroupsWithin'
  BY <1>1, <1>2, <1>5, <1>6 DEF Spacing, GroupsWithin
<1>8. LastRemembered' /\ LatenciesKept'
  BY <1>2, <1>5 DEF Spacing, LastRemembered, LatenciesKept, Behind
<1> QED
  BY <1>4, <1>7, <1>8 DEF Spacing

(* After a reset there are no groups.                                      *)
LEMMA SpacingReset == ASSUME Spacing, Reset PROVE Spacing'
<1>1. pushed' = pushed /\ first' = Len(pushed) + 1 /\ Len(pushed) \in Nat
  BY DEF Spacing, PositionsTyped, Reset
<1>2. Groups' = {}
  BY <1>1 DEF Groups
<1>3. Len(pushed)' \notin Groups'
  BY <1>2
<1>4. \A t \in Types : varr_len(t)' = 0
  BY DEF Reset, varr_len, AfterReset
<1>5. PositionsTyped'
  BY SMTT(60), <1>1, <1>4, TypeValues DEF Spacing, PositionsTyped, Reset
<1> QED
  BY <1>2, <1>3, <1>5 DEF Spacing, GroupsWithin, LastRemembered, LatenciesKept

LEMMA SpacingUnchanged == ASSUME Spacing, UNCHANGED vars PROVE Spacing'
  BY DEF vars, Spacing, PositionsTyped, GroupsWithin, LastRemembered,
         LatenciesKept, Behind, Groups, varr_len

(* The spacing the hardware relies on instead of interlocks (iq.sv:47-58): *)
(* in every reachable state any two groups since the last reset are a      *)
(* latency apart, groups of a type do not overlap, and a program's end is  *)
(* behind everything.                                                      *)
THEOREM LatenciesAlwaysKept == Spec => []LatenciesKept
<1>1. Spacing /\ [Next]_vars => Spacing'
  BY SpacingPush, SpacingStep, SpacingReset, SpacingUnchanged DEF Next, Edge
<1> QED
  BY SpacingInit, <1>1, PTL DEF Spec, Spacing

-----------------------------------------------------------------------------
(* What a ring entry and an output register may hold.                      *)
Fetched == [instr : Nat, addr : Nat, d_addr : Nat]
Payload == Fetched \cup {Nothing}
Output == [valid : BOOLEAN, instr : Nat, thread : Nat, addr : Nat]

(* The registers and the histories the copies are counted in are of their  *)
(* types.                                                                  *)
CopiesTyped ==
    /\ varrays \in [Types -> RegistersOf(Payload)]
    /\ out \in [Types -> Output]
    /\ empty \in BOOLEAN /\ granted \in BOOLEAN
    /\ taken \in [1 .. MaxPushes -> Nat]
    /\ raced \subseteq 1 .. Len(pushed)
    /\ Len(pushed) <= MaxPushes
    /\ first <= Len(pushed) + 1

(* What push n gives a varray, and the entry it becomes.                   *)
InstrOf(n) == [instr |-> n, addr |-> n, d_addr |-> 1]
EntryOf(n) == [start |-> pushed[n].pos, len |-> pushed[n].len, dat |-> InstrOf(n)]

(* The rings: each is intact (VarrayRing), has room when a push was        *)
(* granted, and is not longer than the room reserved in it; the reading    *)
(* position stays near the end of the longest one, one beyond it only when *)
(* everything is read.                                                     *)
RingsIntact == \A t \in Types : Intact(varrays[t], varray_read_pos)
Room == granted => \A t \in Types : NextSlot(varrays[t].head) # varrays[t].tail
ReadNear ==
    \E t \in Types : varray_read_pos <= varr_len(t) + (IF empty THEN 1 ELSE 0)
LenFree == \A t \in Types : varr_len(t) <= next_free_spot_in_varray[t]

RingsSound == CopiesTyped /\ RingsIntact /\ Room /\ ReadNear /\ LenFree

-----------------------------------------------------------------------------
(* An edge in one form: W is the set of types whose varray it writes (one, *)
(* or none), entry is what it writes there, and re is whether it reads.    *)
Reading(freeze) == ~empty /\ ~freeze
Into(t, W) == t \in W
Takes(t, freeze) == Pops(varrays[t], Reading(freeze), varray_read_pos)

EdgeIs(freeze, W, entry) ==
    LET re == Reading(freeze)
        n == Len(pushed) + 1
    IN  /\ varrays' = [t \in Types |-> Clock(varrays[t], Into(t, W), entry, re, varray_read_pos)]
        /\ Pop(re) /\ Take(freeze) /\ first' = first
        /\ \/ /\ W = {} /\ pushed' = pushed /\ raced' = raced
              /\ granted' = ~stall_push
              /\ empty' = IF re THEN AllRead ELSE empty
              /\ next_free_spot_in_varray' = next_free_spot_in_varray
           \/ \E t \in Types :
                 /\ W = {t} /\ granted /\ granted' = FALSE /\ empty' = FALSE
                 /\ n <= MaxPushes
                 /\ entry.start = insert_varray_pos(t)
                 /\ entry.len \in 1 .. SUPERSCALAR_WIDTH /\ entry.dat = InstrOf(n)
                 /\ pushed' = Append(pushed, [type |-> t, pos |-> entry.start,
                                              len |-> entry.len])
                 /\ next_free_spot_in_varray' =
                       [next_free_spot_in_varray EXCEPT
                          ![t] = entry.start + SUPERSCALAR_WIDTH]
                 /\ raced' = IF re /\ entry.start = varray_read_pos + 1
                                /\ varrays[t].head = varrays[t].tail
                             THEN raced \cup {n} ELSE raced

(* Every position is a natural number.                                     *)
LEMMA Position == ASSUME PositionsTyped, NEW t \in Types
                  PROVE  insert_varray_pos(t) \in Nat
  BY EndBehindAll, PositionBehind

(* Every edge, with a push or without one, is of the form above.           *)
LEMMA EdgeForm ==
    ASSUME Spacing, RingsSound, NEW freeze \in BOOLEAN, Edge(freeze)
    PROVE  \E W \in SUBSET Types, entry \in EntriesOf(Payload) :
              EdgeIs(freeze, W, entry)
<1>1. CASE Step(freeze)
  <2>1. Unwritten \in EntriesOf(Payload)
    BY DEF Unwritten, EntriesOf, Payload
  <2>2. varrays' = [t \in Types |->
                      Clock(varrays[t], FALSE, Unwritten, Reading(freeze), varray_read_pos)]
    BY <1>1 DEF Step, Reading
  <2>3. varrays' = [t \in Types |->
                      Clock(varrays[t], Into(t, {}), Unwritten, Reading(freeze), varray_read_pos)]
    <3>1. ASSUME NEW t \in Types
          PROVE  Clock(varrays[t], Into(t, {}), Unwritten, Reading(freeze), varray_read_pos)
                   = Clock(varrays[t], FALSE, Unwritten, Reading(freeze), varray_read_pos)
      <4>1. Into(t, {}) = FALSE
        BY DEF Into
      <4> QED
        BY <4>1
    <3> QED
      BY <2>2, <3>1
  <2>4. EdgeIs(freeze, {}, Unwritten)
    BY <1>1, <2>3 DEF Step, EdgeIs, Reading
  <2> QED
    BY <2>1, <2>4
<1>2. ASSUME NEW t \in Types, NEW c \in 1 .. SUPERSCALAR_WIDTH, Push(freeze, t, c)
      PROVE  \E W \in SUBSET Types, entry \in EntriesOf(Payload) :
                EdgeIs(freeze, W, entry)
  <2> DEFINE len == IF t = PROG_END THEN 1 ELSE c
             pos == insert_varray_pos(t)
             n == Len(pushed) + 1
             re == ~empty /\ ~freeze
             entry == [start |-> pos, len |-> len,
                       dat |-> [instr |-> n, addr |-> n, d_addr |-> 1]]
  <2>1. len \in 1 .. SUPERSCALAR_WIDTH /\ len \in Nat
    BY QueueAssumption DEF QueueAssumption
  <2>2. n \in Nat /\ pos \in Nat
    BY Position DEF Spacing, PositionsTyped
  <2>3. InstrOf(n) \in Payload
    BY <2>2 DEF InstrOf, Payload, Fetched
  <2>4. entry \in EntriesOf(Payload) /\ entry.start = pos /\ entry.len = len
        /\ entry.dat = InstrOf(n)
    BY <2>1, <2>2, <2>3 DEF EntriesOf, InstrOf
  <2>5. varrays' = [u \in Types |->
                      IF u = t THEN Clock(varrays[u], TRUE, entry, re, varray_read_pos)
                      ELSE Clock(varrays[u], FALSE, entry, re, varray_read_pos)]
    BY <1>2 DEF Push
  <2>6. varrays' = [u \in Types |-> Clock(varrays[u], Into(u, {t}), entry, re, varray_read_pos)]
    <3>1. ASSUME NEW u \in Types
          PROVE  Clock(varrays[u], Into(u, {t}), entry, re, varray_read_pos)
                   = IF u = t THEN Clock(varrays[u], TRUE, entry, re, varray_read_pos)
                     ELSE Clock(varrays[u], FALSE, entry, re, varray_read_pos)
      <4> HIDE DEF entry, re
      <4>1. CASE u = t
        <5>1. Into(u, {t}) = TRUE
          BY <4>1 DEF Into
        <5> QED
          BY <4>1, <5>1
      <4>2. CASE u # t
        <5>1. Into(u, {t}) = FALSE
          BY <4>2 DEF Into
        <5> QED
          BY <4>2, <5>1
      <4> QED
        BY <4>1, <4>2
    <3> HIDE DEF entry, re
    <3> QED
      BY <2>5, <3>1
  <2>7. /\ granted /\ granted' = FALSE /\ n <= MaxPushes
        /\ empty' = IF c = 1 /\ re THEN empty ELSE FALSE
        /\ Pop(re) /\ Take(freeze) /\ first' = first
        /\ pushed' = Append(pushed, [type |-> t, pos |-> pos, len |-> len])
        /\ next_free_spot_in_varray' =
              [next_free_spot_in_varray EXCEPT ![t] = pos + SUPERSCALAR_WIDTH]
        /\ raced' = IF re /\ pos = varray_read_pos + 1
                       /\ varrays[t].head = varrays[t].tail
                    THEN raced \cup {n} ELSE raced
    BY <1>2 DEF Push, WithinBounds
  <2>8. empty' = FALSE
    BY <2>7 DEF RingsSound, CopiesTyped
  <2> HIDE DEF entry, pos, len
  <2>9. EdgeIs(freeze, {t}, entry)
    BY <2>1, <2>4, <2>6, <2>7, <2>8 DEF EdgeIs, Reading, pos
  <2> QED
    BY <2>4, <2>9
<1> QED
  BY <1>1, <1>2 DEF Edge

-----------------------------------------------------------------------------
(* The two kinds of edge.                                                  *)
LEMMA EdgeKinds ==
    ASSUME Spacing, RingsSound, NEW freeze \in BOOLEAN, NEW W \in SUBSET Types,
           NEW entry \in EntriesOf(Payload), EdgeIs(freeze, W, entry)
    PROVE  /\ first' = first /\ first \in Nat \ {0} /\ Len(pushed) \in Nat
           /\ varray_read_pos \in Nat
           /\ varray_read_pos' = IF Reading(freeze) THEN varray_read_pos + 1
                                 ELSE varray_read_pos
           /\ \A n \in 1 .. Len(pushed) :
                 pushed'[n] = pushed[n] /\ pushed[n] \in GroupOf
           /\ Len(pushed') \in Nat /\ Len(pushed') >= Len(pushed)
           /\ W = {} => pushed' = pushed /\ raced' = raced
           /\ W # {} =>
                 /\ Len(pushed') = Len(pushed) + 1
                 /\ raced \subseteq raced' /\ raced' \subseteq raced \cup {Len(pushed')}
                 /\ Len(pushed') <= MaxPushes
                 /\ ~ empty'
<1>1. first' = first /\ varray_read_pos' = IF Reading(freeze) THEN varray_read_pos + 1
                                           ELSE varray_read_pos
  BY DEF EdgeIs, Pop
<1>2. first \in Nat \ {0} /\ varray_read_pos \in Nat /\ pushed \in Seq(GroupOf)
      /\ Len(pushed) \in Nat
  BY DEF Spacing, PositionsTyped
<1>3. CASE W = {} /\ pushed' = pushed /\ raced' = raced
  BY <1>1, <1>2, <1>3
<1>4. ASSUME NEW t \in Types, W = {t}, ~ empty', Len(pushed) + 1 <= MaxPushes,
             entry.len \in 1 .. SUPERSCALAR_WIDTH,
             entry.dat = InstrOf(Len(pushed) + 1),
             pushed' = Append(pushed, [type |-> t, pos |-> entry.start, len |-> entry.len]),
             raced' = raced \/ raced' = raced \cup {Len(pushed) + 1}
      PROVE  /\ Len(pushed') = Len(pushed) + 1
             /\ \A n \in 1 .. Len(pushed) : pushed'[n] = pushed[n]
             /\ pushed'[Len(pushed')] = [type |-> t, pos |-> entry.start, len |-> entry.len]
             /\ entry.start \in Nat
             /\ raced \subseteq raced' /\ raced' \subseteq raced \cup {Len(pushed')}
  <2>1. /\ Len(pushed') = Len(pushed) + 1
        /\ \A n \in 1 .. Len(pushed) : pushed'[n] = pushed[n]
        /\ pushed'[Len(pushed) + 1] = [type |-> t, pos |-> entry.start, len |-> entry.len]
    BY <1>2, <1>4
  <2>2. entry.start \in Nat
    BY DEF EntriesOf
  <2>3. raced \subseteq raced' /\ raced' \subseteq raced \cup {Len(pushed')}
    BY <1>4, <2>1
  <2> QED
    BY <2>1, <2>2, <2>3
<1>5. \/ W = {} /\ pushed' = pushed /\ raced' = raced
      \/ \E t \in Types :
            /\ W = {t} /\ ~ empty' /\ Len(pushed) + 1 <= MaxPushes
            /\ entry.len \in 1 .. SUPERSCALAR_WIDTH
            /\ entry.dat = InstrOf(Len(pushed) + 1)
            /\ pushed' = Append(pushed, [type |-> t, pos |-> entry.start, len |-> entry.len])
            /\ raced' = raced \/ raced' = raced \cup {Len(pushed) + 1}
  BY DEF EdgeIs
<1>6. CASE W # {}
  <2>1. PICK t \in Types :
            /\ W = {t} /\ ~ empty' /\ Len(pushed) + 1 <= MaxPushes
            /\ entry.len \in 1 .. SUPERSCALAR_WIDTH
            /\ entry.dat = InstrOf(Len(pushed) + 1)
            /\ pushed' = Append(pushed, [type |-> t, pos |-> entry.start, len |-> entry.len])
            /\ raced' = raced \/ raced' = raced \cup {Len(pushed) + 1}
    BY <1>5, <1>6
  <2>2. /\ Len(pushed') = Len(pushed) + 1
        /\ \A n \in 1 .. Len(pushed) : pushed'[n] = pushed[n]
        /\ pushed'[Len(pushed')] = [type |-> t, pos |-> entry.start, len |-> entry.len]
        /\ entry.start \in Nat
        /\ raced \subseteq raced' /\ raced' \subseteq raced \cup {Len(pushed')}
    BY <1>4, <2>1
  <2>4. Len(pushed') \in Nat /\ Len(pushed') >= Len(pushed) /\ Len(pushed') <= MaxPushes
    BY <1>2, <2>1, <2>2
  <2>5. \A n \in 1 .. Len(pushed) : pushed[n] \in GroupOf
    BY <1>2
  <2> HIDE DEF EdgeIs
  <2> QED
    BY <1>1, <1>2, <2>1, <2>2, <2>4, <2>5
<1>7. CASE W = {}
  BY <1>3, <1>5, <1>7
<1> QED
  BY <1>6, <1>7

(* The group an edge with a push adds.                                     *)
LEMMA EdgeNew ==
    ASSUME Spacing, RingsSound, NEW freeze \in BOOLEAN, NEW W \in SUBSET Types,
           NEW entry \in EntriesOf(Payload), EdgeIs(freeze, W, entry),
           NEW n \in 1 .. Len(pushed'), n \notin 1 .. Len(pushed)
    PROVE  /\ W = {pushed'[n].type}
           /\ pushed'[n].pos = entry.start /\ pushed'[n].len = entry.len
           /\ entry.dat = InstrOf(n) /\ EntryOf(n)' = entry
<1>1. pushed \in Seq(GroupOf) /\ Len(pushed) \in Nat
  BY DEF Spacing, PositionsTyped
<1>2. pushed' # pushed
  OBVIOUS
<1>3. PICK t \in Types :
         /\ W = {t} /\ entry.dat = InstrOf(Len(pushed) + 1)
         /\ pushed' = Append(pushed, [type |-> t, pos |-> entry.start,
                                      len |-> entry.len])
  BY <1>2 DEF EdgeIs
<1>4. /\ Len(pushed') = Len(pushed) + 1
      /\ pushed'[Len(pushed) + 1] = [type |-> t, pos |-> entry.start, len |-> entry.len]
  BY <1>1, <1>3
<1>5. n = Len(pushed) + 1
  BY <1>1, <1>4
<1>6. pushed'[n] = [type |-> t, pos |-> entry.start, len |-> entry.len]
  BY <1>4, <1>5
<1>7. entry = [start |-> entry.start, len |-> entry.len, dat |-> entry.dat]
  BY DEF EntriesOf
<1>8. entry.dat = InstrOf(n) /\ W = {pushed'[n].type}
      /\ pushed'[n].pos = entry.start /\ pushed'[n].len = entry.len
  BY <1>3, <1>5, <1>6
<1>9. EntryOf(n)' = [start |-> pushed'[n].pos, len |-> pushed'[n].len, dat |-> InstrOf(n)]
  BY DEF EntryOf, InstrOf
<1> QED
  BY <1>7, <1>8, <1>9

(* A group is written behind all the groups of its type, and at a position *)
(* that has not been read: for the end of a program because the reading    *)
(* position is never beyond the longest varray by more than the one step   *)
(* that finds everything read, and a latency is at least one.              *)
LEMMA EdgeWrites ==
    ASSUME Spacing, RingsSound, NEW freeze \in BOOLEAN, NEW W \in SUBSET Types,
           NEW entry \in EntriesOf(Payload), EdgeIs(freeze, W, entry),
           NEW t \in Types
    PROVE  /\ WritesBehind(varrays[t], Into(t, W), entry, varray_read_pos')
           /\ t \in W /\ t # PROG_END => entry.start > varray_read_pos
<1> SUFFICES ASSUME t \in W
             PROVE  /\ NextSlot(varrays[t].head) # varrays[t].tail
                    /\ entry.len >= 1 /\ entry.start >= varrays[t].varray_len
                    /\ entry.start >= varray_read_pos'
                    /\ t # PROG_END => entry.start > varray_read_pos
  BY DEF WritesBehind, Into
<1>1. granted /\ entry.start = insert_varray_pos(t) /\ entry.len \in 1 .. SUPERSCALAR_WIDTH
  BY DEF EdgeIs
<1>2. PositionsTyped
  BY DEF Spacing
<1>3. NextSlot(varrays[t].head) # varrays[t].tail
  BY <1>1 DEF RingsSound, Room
<1>4. entry.len >= 1 /\ entry.start \in Nat
  BY <1>1, QueueAssumption DEF QueueAssumption, EntriesOf
<1>5. /\ varray_read_pos \in Nat
      /\ varray_read_pos' = IF Reading(freeze) THEN varray_read_pos + 1 ELSE varray_read_pos
  BY EdgeKinds
<1>6. \A u \in Types : varr_len(u) \in Nat /\ latency(u) \in Nat \ {0}
  BY <1>2, LatencyPositive DEF PositionsTyped
<1>7. CASE t = PROG_END
  <2>1. \A u \in Types : varr_len(u) + latency(u) <= entry.start
    BY <1>1, <1>2, <1>7, EndBehindAll
  <2>2. PICK u \in Types : varray_read_pos <= varr_len(u) + (IF empty THEN 1 ELSE 0)
    BY DEF RingsSound, ReadNear
  <2>3. varr_len(t) <= entry.start
    <3>1. varr_len(t) + latency(t) <= entry.start /\ varr_len(t) \in Nat /\ latency(t) \in Nat
      BY <1>6, <2>1
    <3> QED
      BY <1>4, <3>1
  <2>4. varray_read_pos' <= entry.start
    <3>1. varr_len(u) + latency(u) <= entry.start /\ varr_len(u) \in Nat
          /\ latency(u) \in Nat \ {0}
      BY <1>6, <2>1
    <3>2. CASE empty
      <4>1. varray_read_pos' = varray_read_pos /\ varray_read_pos <= varr_len(u) + 1
        BY <1>5, <2>2, <3>2 DEF Reading
      <4> QED
        BY <1>4, <1>5, <3>1, <4>1
    <3>3. CASE ~ empty
      <4>1. varray_read_pos <= varr_len(u) + 0
        BY <2>2, <3>3
      <4> QED
        BY <1>4, <1>5, <3>1, <4>1
    <3> QED
      BY <3>2, <3>3
  <2> QED
    BY <1>3, <1>4, <1>7, <2>3, <2>4 DEF varr_len
<1>8. CASE t # PROG_END
  <2>1. next_free_spot_in_varray[t] <= entry.start /\ varray_read_pos < entry.start
    BY <1>1, <1>2, <1>8, PositionBehind
  <2>2. varr_len(t) <= next_free_spot_in_varray[t] /\ next_free_spot_in_varray[t] \in Nat
    BY <1>2 DEF RingsSound, LenFree, PositionsTyped
  <2>3. varr_len(t) <= entry.start
    BY <1>4, <1>6, <2>1, <2>2
  <2>4. varray_read_pos' <= entry.start
    BY <1>4, <1>5, <2>1
  <2> QED
    BY <1>3, <1>4, <2>1, <2>3, <2>4 DEF varr_len
<1> QED
  BY <1>7, <1>8

(* What an edge does to one of the rings.                                  *)
LEMMA RingAt ==
    ASSUME Spacing, RingsSound, NEW freeze \in BOOLEAN, NEW W \in SUBSET Types,
           NEW entry \in EntriesOf(Payload), EdgeIs(freeze, W, entry),
           NEW t \in Types
    PROVE  /\ varrays[t] \in RegistersOf(Payload)
           /\ Intact(varrays[t], varray_read_pos)
           /\ Into(t, W) \in BOOLEAN /\ (Into(t, W) <=> t \in W) /\ Reading(freeze) \in BOOLEAN
           /\ varray_read_pos \in Nat
           /\ varray_read_pos' = NextPos(Reading(freeze), varray_read_pos)
           /\ WritesBehind(varrays[t], Into(t, W), entry, varray_read_pos')
           /\ varrays'[t] = Clock(varrays[t], Into(t, W), entry, Reading(freeze),
                                  varray_read_pos)
           /\ varrays'[t] \in RegistersOf(Payload)
<1>1. varrays[t] \in RegistersOf(Payload) /\ Intact(varrays[t], varray_read_pos)
  BY DEF RingsSound, CopiesTyped, RingsIntact
<1>2. Into(t, W) \in BOOLEAN /\ (Into(t, W) <=> t \in W)
      /\ Reading(freeze) \in BOOLEAN
  BY DEF RingsSound, CopiesTyped, Reading, Into
<1>3. varrays'[t] = Clock(varrays[t], Into(t, W), entry, Reading(freeze), varray_read_pos)
  BY DEF EdgeIs
<1>4. varray_read_pos \in Nat
      /\ varray_read_pos' = NextPos(Reading(freeze), varray_read_pos)
  <2>1. varray_read_pos \in Nat
        /\ varray_read_pos' = IF Reading(freeze) THEN varray_read_pos + 1 ELSE varray_read_pos
    BY EdgeKinds
  <2> QED
    BY <2>1 DEF NextPos
<1>5. varrays'[t] \in RegistersOf(Payload)
  BY <1>1, <1>2, <1>3, <1>4, ClockFields
<1>6. WritesBehind(varrays[t], Into(t, W), entry, varray_read_pos')
  BY EdgeWrites
<1> QED
  BY <1>1, <1>2, <1>3, <1>4, <1>5, <1>6

(* The facts of VarrayRing at that ring.                                   *)
LEMMA RingFields ==
    ASSUME Spacing, RingsSound, NEW freeze \in BOOLEAN, NEW W \in SUBSET Types,
           NEW entry \in EntriesOf(Payload), EdgeIs(freeze, W, entry),
           NEW t \in Types
    PROVE  /\ varrays'[t].head = IF t \in W THEN NextSlot(varrays[t].head)
                                 ELSE varrays[t].head
           /\ varrays'[t].tail = IF Takes(t, freeze) THEN NextSlot(varrays[t].tail)
                                 ELSE varrays[t].tail
           /\ varrays'[t].varray_len = IF t \in W THEN entry.start + entry.len
                                       ELSE varrays[t].varray_len
<1>1. /\ varrays[t] \in RegistersOf(Payload)
      /\ Intact(varrays[t], varray_read_pos)
      /\ Into(t, W) \in BOOLEAN /\ (Into(t, W) <=> t \in W) /\ Reading(freeze) \in BOOLEAN
      /\ varray_read_pos \in Nat
      /\ varray_read_pos' = NextPos(Reading(freeze), varray_read_pos)
      /\ WritesBehind(varrays[t], Into(t, W), entry, varray_read_pos')
      /\ varrays'[t] = Clock(varrays[t], Into(t, W), entry, Reading(freeze),
                             varray_read_pos)
  BY RingAt
<1>2. /\ varrays'[t].head = IF Into(t, W) THEN NextSlot(varrays[t].head)
                            ELSE varrays[t].head
      /\ varrays'[t].tail = IF Takes(t, freeze) THEN NextSlot(varrays[t].tail)
                            ELSE varrays[t].tail
      /\ varrays'[t].varray_len = IF Into(t, W) THEN EndOf(entry)
                                  ELSE varrays[t].varray_len
  BY <1>1, ClockFields DEF Takes
<1>3. EndOf(entry) = entry.start + entry.len
  BY DEF EndOf
<1> QED
  BY <1>1, <1>2, <1>3

(* The live slots of a ring after an edge: what it wrote, and what was     *)
(* live before except a tail that has been read to its end.                *)
LEMMA RingContents ==
    ASSUME Spacing, RingsSound, NEW freeze \in BOOLEAN, NEW W \in SUBSET Types,
           NEW entry \in EntriesOf(Payload), EdgeIs(freeze, W, entry),
           NEW t \in Types
    PROVE  /\ varrays[t].head \notin LiveIn(varrays[t])
           /\ t \in W => /\ varrays[t].head \in LiveIn(varrays'[t])
                         /\ varrays'[t].mem[varrays[t].head] = entry
           /\ \A s \in LiveIn(varrays'[t]) :
                 \/ t \in W /\ s = varrays[t].head /\ varrays'[t].mem[s] = entry
                 \/ /\ s \in LiveIn(varrays[t]) /\ varrays'[t].mem[s] = varrays[t].mem[s]
                    /\ Takes(t, freeze) => s # varrays[t].tail
           /\ \A s \in LiveIn(varrays[t]) :
                 (Takes(t, freeze) => s # varrays[t].tail)
                    => s \in LiveIn(varrays'[t]) /\ varrays'[t].mem[s] = varrays[t].mem[s]
           /\ \A s \in Slots \ LiveIn(varrays'[t]) :
                 /\ varrays'[t].mem[s] = varrays[t].mem[s]
                 /\ s \notin LiveIn(varrays[t])
                       \/ (Takes(t, freeze) /\ s = varrays[t].tail)
<1>1. /\ varrays[t] \in RegistersOf(Payload)
      /\ Intact(varrays[t], varray_read_pos)
      /\ Into(t, W) \in BOOLEAN /\ (Into(t, W) <=> t \in W) /\ Reading(freeze) \in BOOLEAN
      /\ varray_read_pos \in Nat
      /\ varray_read_pos' = NextPos(Reading(freeze), varray_read_pos)
      /\ WritesBehind(varrays[t], Into(t, W), entry, varray_read_pos')
      /\ varrays'[t] = Clock(varrays[t], Into(t, W), entry, Reading(freeze),
                             varray_read_pos)
  BY RingAt
<1>3. /\ varrays[t].head \notin LiveIn(varrays[t])
      /\ Into(t, W) => /\ varrays[t].head \in LiveIn(varrays'[t])
                       /\ varrays'[t].mem[varrays[t].head] = entry
      /\ \A s \in LiveIn(varrays'[t]) :
            \/ Into(t, W) /\ s = varrays[t].head /\ varrays'[t].mem[s] = entry
            \/ /\ s \in LiveIn(varrays[t]) /\ varrays'[t].mem[s] = varrays[t].mem[s]
               /\ Takes(t, freeze) => s # varrays[t].tail
      /\ \A s \in LiveIn(varrays[t]) :
            (Takes(t, freeze) => s # varrays[t].tail)
               => s \in LiveIn(varrays'[t]) /\ varrays'[t].mem[s] = varrays[t].mem[s]
      /\ \A s \in Slots \ LiveIn(varrays'[t]) :
            /\ varrays'[t].mem[s] = varrays[t].mem[s]
            /\ s \notin LiveIn(varrays[t]) \/ (Takes(t, freeze) /\ s = varrays[t].tail)
  BY <1>1, ClockRing DEF Takes
<1> HIDE DEF EdgeIs
<1> QED
  BY <1>1, <1>3

(* Two parts of it on their own: what is written becomes live,             *)
LEMMA RingWritten ==
    ASSUME Spacing, RingsSound, NEW freeze \in BOOLEAN, NEW W \in SUBSET Types,
           NEW entry \in EntriesOf(Payload), EdgeIs(freeze, W, entry),
           NEW t \in Types
    PROVE  t \in W => varrays[t].head \in LiveIn(varrays'[t])
                      /\ varrays'[t].mem[varrays[t].head] = entry
<1>1. /\ varrays[t] \in RegistersOf(Payload)
      /\ Intact(varrays[t], varray_read_pos)
      /\ Into(t, W) \in BOOLEAN /\ (Into(t, W) <=> t \in W) /\ Reading(freeze) \in BOOLEAN
      /\ varray_read_pos \in Nat
      /\ varray_read_pos' = NextPos(Reading(freeze), varray_read_pos)
      /\ WritesBehind(varrays[t], Into(t, W), entry, varray_read_pos')
      /\ varrays'[t] = Clock(varrays[t], Into(t, W), entry, Reading(freeze),
                             varray_read_pos)
  BY RingAt
<1>2. \/ ~ Into(t, W)
      \/ /\ varrays[t].head \in LiveIn(varrays'[t])
         /\ varrays'[t].mem[varrays[t].head] = entry
  BY <1>1, ClockWrites
<1> QED
  BY <1>1, <1>2

(* and what is not taken stays live and unchanged.                         *)
LEMMA RingKeeps ==
    ASSUME Spacing, RingsSound, NEW freeze \in BOOLEAN, NEW W \in SUBSET Types,
           NEW entry \in EntriesOf(Payload), EdgeIs(freeze, W, entry),
           NEW t \in Types,
           NEW s \in LiveIn(varrays[t]), ~ (Takes(t, freeze) /\ s = varrays[t].tail)
    PROVE  s \in LiveIn(varrays'[t]) /\ varrays'[t].mem[s] = varrays[t].mem[s]
  BY RingContents

(* An edge keeps a ring intact and a stuck tail stuck, and moves a tail    *)
(* exactly at the end of its entry.                                        *)
LEMMA RingKept ==
    ASSUME Spacing, RingsSound, NEW freeze \in BOOLEAN, NEW W \in SUBSET Types,
           NEW entry \in EntriesOf(Payload), EdgeIs(freeze, W, entry),
           NEW t \in Types
    PROVE  /\ Intact(varrays'[t], varray_read_pos')
           /\ StuckAt(varrays[t], varray_read_pos) =>
                 /\ StuckAt(varrays'[t], varray_read_pos')
                 /\ varrays'[t].mem[varrays'[t].tail] = varrays[t].mem[varrays[t].tail]
           /\ Takes(t, freeze) => /\ varrays[t].tail \in LiveIn(varrays[t])
                                  /\ EndOf(varrays[t].mem[varrays[t].tail]) = varray_read_pos'
<1>1. /\ varrays[t] \in RegistersOf(Payload)
      /\ Intact(varrays[t], varray_read_pos)
      /\ Into(t, W) \in BOOLEAN /\ (Into(t, W) <=> t \in W) /\ Reading(freeze) \in BOOLEAN
      /\ varray_read_pos \in Nat
      /\ varray_read_pos' = NextPos(Reading(freeze), varray_read_pos)
      /\ WritesBehind(varrays[t], Into(t, W), entry, varray_read_pos')
      /\ varrays'[t] = Clock(varrays[t], Into(t, W), entry, Reading(freeze),
                             varray_read_pos)
  BY RingAt
<1>2. Takes(t, freeze) => /\ varrays[t].tail \in LiveIn(varrays[t])
                         /\ EndOf(varrays[t].mem[varrays[t].tail]) = varray_read_pos'
  BY <1>1, ClockRing DEF Takes
<1>4. Intact(varrays'[t], varray_read_pos')
  BY <1>1, ClockIntact
<1>5. StuckAt(varrays[t], varray_read_pos) =>
        /\ StuckAt(varrays'[t], varray_read_pos')
        /\ varrays'[t].mem[varrays'[t].tail] = varrays[t].mem[varrays[t].tail]
  BY <1>1, ClockStuck
<1> QED
  BY <1>2, <1>4, <1>5

(* The output registers stay of their type, and so do the counts of what   *)
(* the pipelines take.                                                     *)
LEMMA OutputsTyped ==
    ASSUME Spacing, RingsSound, NEW freeze \in BOOLEAN, NEW W \in SUBSET Types,
           NEW entry \in EntriesOf(Payload), EdgeIs(freeze, W, entry)
    PROVE  out' \in [Types -> Output] /\ taken' \in [1 .. MaxPushes -> Nat]
<1>1. out \in [Types -> Output] /\ taken \in [1 .. MaxPushes -> Nat]
      /\ varrays \in [Types -> RegistersOf(Payload)] /\ empty \in BOOLEAN
  BY DEF RingsSound, CopiesTyped
<1>2. Pop(Reading(freeze)) /\ Take(freeze)
  BY DEF EdgeIs
<1>3. ASSUME NEW t \in Types
      PROVE  /\ dat_r(varrays[t], varray_read_pos) \in Payload
             /\ varrays[t].is_new_superscalar_group \in BOOLEAN
  <2>1. varrays[t] \in RegistersOf(Payload)
    BY <1>1
  <2>2. varrays[t].mem[varrays[t].tail].dat \in Payload
    BY <2>1, RegisterTypes
  <2> QED
    BY <2>1, <2>2 DEF dat_r, Payload, RegistersOf
<1>4. ASSUME NEW t \in Types PROVE NextThread(t) \in Nat
  <2>1. out[t].thread \in Nat
    BY <1>1 DEF Output
  <2>2. (out[t].thread + 1) % SUPERSCALAR_WIDTH \in Nat
    BY <2>1, QueueAssumption DEF QueueAssumption
  <2> QED
    BY <2>2 DEF NextThread
<1>5. ASSUME NEW t \in Types PROVE NextOut(t) \in Output
  <2> DEFINE dat == dat_r(varrays[t], varray_read_pos)
             got == IF dat = Nothing THEN NoInstr ELSE dat
  <2>1. got \in Fetched
    BY <1>3 DEF Payload, Fetched, NoInstr
  <2>2. got.instr \in Nat /\ got.addr \in Nat /\ got.d_addr \in Nat
    BY <2>1 DEF Fetched
  <2>3. out[t].addr \in Nat
    BY <1>1 DEF Output
  <2>4. out[t].addr + got.d_addr \in Nat
    BY <2>2, <2>3
  <2>5. NextOut(t) = [valid |-> dat # Nothing, instr |-> got.instr, thread |-> NextThread(t),
                      addr |-> IF varrays[t].is_new_superscalar_group THEN got.addr
                               ELSE out[t].addr + got.d_addr]
    BY DEF NextOut
  <2> HIDE DEF got, dat
  <2> QED
    BY <1>4, <2>2, <2>4, <2>5 DEF Output
<1>6. NextEndOut \in Output
  <2> DEFINE dat == dat_r(varrays[PROG_END], varray_read_pos)
  <2>1. dat \in Payload
    BY <1>3, TypeValues
  <2>2. (IF dat = Nothing THEN 0 ELSE dat.instr) \in Nat
    BY <2>1 DEF Payload, Fetched
  <2> DEFINE instr == IF dat = Nothing THEN 0 ELSE dat.instr
             valid == dat # Nothing
  <2>4. NextEndOut = [Idle EXCEPT !.valid = valid, !.instr = instr]
    BY DEF NextEndOut
  <2>5. valid \in BOOLEAN
    OBVIOUS
  <2> HIDE DEF dat, instr, valid
  <2>3. NextEndOut = [valid |-> valid, instr |-> instr, thread |-> 0, addr |-> 0]
    BY <2>4 DEF Idle
  <2>6. instr \in Nat
    BY <2>2 DEF instr
  <2> QED
    BY <2>3, <2>5, <2>6 DEF Output
<1>7. ASSUME NEW t \in Types PROVE [out[t] EXCEPT !.valid = FALSE] \in Output
  BY <1>1 DEF Output
<1>8. out' \in [Types -> Output]
  BY <1>1, <1>2, <1>5, <1>6, <1>7 DEF Pop
<1>9. taken' \in [1 .. MaxPushes -> Nat]
  <2>1. CASE freeze
    BY <1>1, <1>2, <2>1 DEF Take
  <2>2. CASE ~ freeze
    <3>1. taken' = [n \in 1 .. MaxPushes |->
                      taken[n] + (IF \E t \in Types : out[t].valid /\ out[t].instr = n
                                  THEN 1 ELSE 0)]
      BY <1>2, <2>2 DEF Take
    <3>2. ASSUME NEW n \in 1 .. MaxPushes
          PROVE  taken[n] + (IF \E t \in Types : out[t].valid /\ out[t].instr = n
                             THEN 1 ELSE 0) \in Nat
      <4>1. taken[n] \in Nat
        BY <1>1
      <4> DEFINE one == IF \E t \in Types : out[t].valid /\ out[t].instr = n THEN 1 ELSE 0
      <4>2. one = 0 \/ one = 1
        OBVIOUS
      <4> HIDE DEF one
      <4>3. taken[n] + one \in Nat
        BY <4>1, <4>2
      <4> QED
        BY <4>3 DEF one
    <3> QED
      BY <3>1, <3>2
  <2> QED
    BY <2>1, <2>2
<1> QED
  BY <1>8, <1>9

(* No edge breaks the rings: a push finds room because almost_full holds   *)
(* back one entry more than the one push that can follow a grant.          *)
LEMMA RingsEdge ==
    ASSUME Spacing, RingsSound, NEW freeze \in BOOLEAN, NEW W \in SUBSET Types,
           NEW entry \in EntriesOf(Payload), EdgeIs(freeze, W, entry)
    PROVE  RingsSound'
<1>1. CopiesTyped'
  <2>1. varrays' \in [Types -> RegistersOf(Payload)]
    <3>1. \A t \in Types : varrays'[t] \in RegistersOf(Payload)
      BY RingAt
    <3>2. varrays' = [t \in Types |-> varrays'[t]]
      BY DEF EdgeIs
    <3> QED
      BY <3>1, <3>2
  <2>4. first' <= Len(pushed') + 1
    <3>1. first <= Len(pushed) + 1
      BY DEF RingsSound, CopiesTyped
    <3>2. first' = first /\ first \in Nat /\ Len(pushed) \in Nat /\ Len(pushed') \in Nat
          /\ Len(pushed') >= Len(pushed)
      BY EdgeKinds
    <3> QED
      BY <3>1, <3>2
  <2>2. empty' \in BOOLEAN /\ granted' \in BOOLEAN
    BY DEF EdgeIs, RingsSound, CopiesTyped, AllRead, stall_push
  <2>3. raced' \subseteq 1 .. Len(pushed') /\ Len(pushed') <= MaxPushes
    <3>1. raced \subseteq 1 .. Len(pushed) /\ Len(pushed) <= MaxPushes
      BY DEF RingsSound, CopiesTyped
    <3>2. CASE W = {}
      BY <3>1, <3>2, EdgeKinds
    <3>3. CASE W # {}
      <4>1. /\ Len(pushed') = Len(pushed) + 1 /\ Len(pushed') <= MaxPushes
            /\ raced' \subseteq raced \cup {Len(pushed')} /\ Len(pushed) \in Nat
        BY <3>3, EdgeKinds
      <4> QED
        BY <3>1, <4>1
    <3> QED
      BY <3>2, <3>3
  <2> QED
    BY <2>1, <2>2, <2>3, <2>4, OutputsTyped DEF CopiesTyped
<1>2. RingsIntact'
  <2> SUFFICES ASSUME NEW t \in Types PROVE Intact(varrays'[t], varray_read_pos')
    BY DEF RingsIntact
  <2> QED
    BY RingKept
<1>3. Room'
  <2> SUFFICES ASSUME granted', NEW t \in Types
               PROVE  NextSlot(varrays'[t].head) # varrays'[t].tail
    BY DEF Room
  <2>1. W = {} /\ granted' = ~ stall_push
    BY DEF EdgeIs
  <2>2. ~ queue_almost_full(varrays[t])
    BY <2>1 DEF stall_push
  <2>3. varrays[t] \in RegistersOf(Payload) /\ varrays[t].head \in Slots
        /\ varrays[t].tail \in Slots
    BY RingAt, RegisterTypes
  <2>4. NextSlot(varrays[t].head) # varrays[t].tail
    BY <2>2, <2>3, SizeTells
  <2>5. /\ varrays'[t].head = varrays[t].head
        /\ varrays'[t].tail = IF Takes(t, freeze)
                              THEN NextSlot(varrays[t].tail) ELSE varrays[t].tail
    <3>1. t \notin W
      BY <2>1
    <3>2. /\ varrays'[t].head = IF t \in W THEN NextSlot(varrays[t].head)
                                ELSE varrays[t].head
          /\ varrays'[t].tail = IF Takes(t, freeze) THEN NextSlot(varrays[t].tail)
                                ELSE varrays[t].tail
      BY RingFields
    <3> QED
      BY <3>1, <3>2
  <2>6. Takes(t, freeze) => varrays[t].head # varrays[t].tail
    BY <2>3, SizeTells DEF Pops, Takes
  <2> QED
    BY <2>3, <2>4, <2>5, <2>6, RingPop
<1>4. \A t \in Types : varr_len(t)' = IF t \in W THEN entry.start + entry.len ELSE varr_len(t)
  <2> SUFFICES ASSUME NEW t \in Types
               PROVE  varrays'[t].varray_len = IF t \in W THEN entry.start + entry.len
                                               ELSE varrays[t].varray_len
    BY DEF varr_len
  <2> QED
    BY RingFields
<1>5. ReadNear'
  <2>0. /\ varray_read_pos \in Nat /\ empty \in BOOLEAN
        /\ varray_read_pos' = IF Reading(freeze) THEN varray_read_pos + 1 ELSE varray_read_pos
        /\ \A t \in Types : varr_len(t) \in Nat
    BY EdgeKinds DEF Spacing, PositionsTyped, RingsSound, CopiesTyped
  <2>1. CASE W = {} /\ empty' = IF Reading(freeze) THEN AllRead ELSE empty
    <3>1. \A t \in Types : varr_len(t)' = varr_len(t)
      BY <1>4, <2>1
    <3>2. CASE Reading(freeze) /\ AllRead
      <4>1. empty' = TRUE /\ varray_read_pos' = varray_read_pos + 1 /\ ~ empty
        BY <2>0, <2>1, <3>2 DEF Reading, AllRead
      <4>2. PICK t \in Types : varray_read_pos <= varr_len(t) + 0
        BY <4>1 DEF RingsSound, ReadNear
      <4>3. varr_len(t)' \in Nat /\ varray_read_pos' <= varr_len(t)' + 1
        BY <2>0, <3>1, <4>1, <4>2
      <4> QED
        BY <4>1, <4>3 DEF ReadNear
    <3>3. CASE Reading(freeze) /\ ~ AllRead
      <4>1. empty' = FALSE /\ varray_read_pos' = varray_read_pos + 1
        BY <2>0, <2>1, <3>3 DEF AllRead
      <4>2. PICK t \in Types : ~ (varray_read_pos >= varr_len(t))
        BY <3>3 DEF AllRead
      <4>3. varr_len(t)' \in Nat /\ varray_read_pos' <= varr_len(t)' + 0
        BY <2>0, <3>1, <4>1, <4>2
      <4> QED
        BY <4>1, <4>3 DEF ReadNear
    <3>4. CASE ~ Reading(freeze)
      <4>1. empty' = empty /\ varray_read_pos' = varray_read_pos
        BY <2>0, <2>1, <3>4
      <4> QED
        BY <3>1, <4>1 DEF RingsSound, ReadNear
    <3> QED
      BY <3>2, <3>3, <3>4
  <2>2. CASE empty' = FALSE /\ \E t \in Types : W = {t}
    <3>1. PICK t \in Types : W = {t}
      BY <2>2
    <3>2. varr_len(t)' = entry.start + entry.len
      BY <1>4, <3>1
    <3>3. entry.start >= varray_read_pos' /\ entry.len >= 1
      BY <3>1, EdgeWrites DEF WritesBehind, Into
    <3>4. entry.start \in Nat /\ entry.len \in Nat /\ varray_read_pos' \in Nat
      BY <2>0 DEF EntriesOf
    <3>5. varray_read_pos' <= varr_len(t)' + 0
      BY <3>2, <3>3, <3>4
    <3> QED
      BY <2>2, <3>5 DEF ReadNear
  <2> QED
    BY <2>1, <2>2 DEF EdgeIs
<1>6. LenFree'
  <2> SUFFICES ASSUME NEW t \in Types
               PROVE  varr_len(t)' <= next_free_spot_in_varray'[t]
    BY DEF LenFree
  <2>0. /\ next_free_spot_in_varray \in [Types -> Nat] /\ varr_len(t) \in Nat
        /\ varr_len(t) <= next_free_spot_in_varray[t] /\ SUPERSCALAR_WIDTH \in Nat
    BY QueueAssumption DEF Spacing, PositionsTyped, QueueAssumption, RingsSound, LenFree
  <2>1. CASE W = {} /\ next_free_spot_in_varray' = next_free_spot_in_varray
    BY <1>4, <2>0, <2>1
  <2>2. ASSUME NEW u \in Types, W = {u}, entry.len \in 1 .. SUPERSCALAR_WIDTH,
               next_free_spot_in_varray' =
                  [next_free_spot_in_varray EXCEPT ![u] = entry.start + SUPERSCALAR_WIDTH]
        PROVE  varr_len(t)' <= next_free_spot_in_varray'[t]
    <3>1. CASE t = u
      <4>1. varr_len(t)' = entry.start + entry.len
        BY <1>4, <2>2, <3>1
      <4>2. next_free_spot_in_varray'[t] = entry.start + SUPERSCALAR_WIDTH
        BY <2>0, <2>2, <3>1
      <4>3. entry.start \in Nat
        BY DEF EntriesOf
      <4> QED
        BY <2>0, <2>2, <4>1, <4>2, <4>3
    <3>2. CASE t # u
      <4>1. varr_len(t)' = varr_len(t)
        BY <1>4, <2>2, <3>2
      <4>2. next_free_spot_in_varray'[t] = next_free_spot_in_varray[t]
        BY <2>0, <2>2, <3>2
      <4> QED
        BY <2>0, <4>1, <4>2
    <3> QED
      BY <3>1, <3>2
  <2> QED
    BY <2>1, <2>2 DEF EdgeIs
<1> QED
  BY <1>1, <1>2, <1>3, <1>5, <1>6 DEF RingsSound

-----------------------------------------------------------------------------
(* What the rings hold: every group not read to its end is live in the     *)
(* ring of its type, every live slot is such a group, and any other slot   *)
(* reads as nothing, or as a group from before the last reset, or has been *)
(* passed.                                                                 *)
Held ==
    \A t \in Types : \A n \in Groups :
        pushed[n].type = t /\ pushed[n].pos + pushed[n].len > varray_read_pos
        => \E s \in LiveIn(varrays[t]) : varrays[t].mem[s] = EntryOf(n)

LiveHeld ==
    \A t \in Types : \A s \in LiveIn(varrays[t]) :
        \E n \in Groups : pushed[n].type = t /\ varrays[t].mem[s] = EntryOf(n)

DeadRead ==
    \A t \in Types : \A s \in Slots \ LiveIn(varrays[t]) :
        LET entry == varrays[t].mem[s]
        IN  \/ entry.dat = Nothing
            \/ /\ entry.dat.instr \in 1 .. Len(pushed)
               /\ entry.dat.instr < first \/ EndOf(entry) <= varray_read_pos

Contents == Held /\ LiveHeld /\ DeadRead

(* What is known of one group.                                             *)
LEMMA GroupsTyped ==
    ASSUME Spacing, NEW n \in Groups
    PROVE  /\ n \in 1 .. Len(pushed) /\ n \in Nat /\ n >= first
           /\ pushed[n].type \in Types
           /\ pushed[n].pos \in Nat /\ pushed[n].len \in Nat \ {0}
           /\ pushed[n].len \in 1 .. SUPERSCALAR_WIDTH
           /\ EndOf(EntryOf(n)) = pushed[n].pos + pushed[n].len
           /\ EntryOf(n).dat = InstrOf(n) /\ InstrOf(n).instr = n
           /\ EntryOf(n).start = pushed[n].pos
           /\ InstrOf(n) # Nothing
<1>1. n \in 1 .. Len(pushed) /\ n \in Nat /\ n >= first /\ pushed[n] \in GroupOf
  BY DEF Spacing, PositionsTyped, Groups
<1>2. InstrOf(n) # Nothing /\ InstrOf(n).instr = n
  BY <1>1, NothingAssumption DEF NothingAssumption, InstrOf
<1>3. /\ EndOf(EntryOf(n)) = pushed[n].pos + pushed[n].len
      /\ EntryOf(n).dat = InstrOf(n) /\ EntryOf(n).start = pushed[n].pos
  BY DEF EntryOf, EndOf
<1> QED
  BY <1>1, <1>2, <1>3, GroupFields

(* An edge keeps the groups and adds at most the one it pushes.            *)
LEMMA EdgeGroups ==
    ASSUME Spacing, RingsSound, NEW freeze \in BOOLEAN, NEW W \in SUBSET Types,
           NEW entry \in EntriesOf(Payload), EdgeIs(freeze, W, entry)
    PROVE  /\ \A n \in Groups :
                 n \in Groups' /\ pushed'[n] = pushed[n] /\ EntryOf(n)' = EntryOf(n)
           /\ \A n \in Groups' :
                 \/ n \in Groups
                 \/ /\ n = Len(pushed') /\ n \notin 1 .. Len(pushed) /\ n \in 1 .. MaxPushes
                    /\ W = {pushed'[n].type} /\ ~ empty'
                    /\ pushed'[n].pos = entry.start /\ pushed'[n].len = entry.len
                    /\ EntryOf(n)' = entry
           /\ \A n \in 1 .. Len(pushed) : n \in 1 .. Len(pushed')
                                          /\ (n \in Groups' => n \in Groups)
           /\ W # {} => Len(pushed') \in Groups' /\ Len(pushed') \notin 1 .. Len(pushed)
<1>1. /\ first' = first /\ first \in Nat \ {0} /\ Len(pushed) \in Nat
      /\ \A n \in 1 .. Len(pushed) : pushed'[n] = pushed[n]
      /\ Len(pushed') \in Nat /\ Len(pushed') >= Len(pushed)
  BY EdgeKinds
<1>2. Groups = first .. Len(pushed) /\ Groups' = first .. Len(pushed')
  BY <1>1 DEF Groups
<1>3. ASSUME NEW n \in Groups
      PROVE  n \in Groups' /\ pushed'[n] = pushed[n] /\ EntryOf(n)' = EntryOf(n)
  <2>1. n \in Groups' /\ pushed'[n] = pushed[n]
    BY <1>1, <1>2
  <2> QED
    BY <2>1 DEF EntryOf
<1>4. /\ W = {} => pushed' = pushed
      /\ W # {} => Len(pushed') = Len(pushed) + 1 /\ Len(pushed') <= MaxPushes /\ ~ empty'
  BY EdgeKinds
<1>5. ASSUME NEW n \in Groups', n \notin Groups
      PROVE  /\ n = Len(pushed') /\ n \notin 1 .. Len(pushed) /\ n \in 1 .. MaxPushes
             /\ W = {pushed'[n].type} /\ ~ empty'
             /\ pushed'[n].pos = entry.start /\ pushed'[n].len = entry.len
             /\ EntryOf(n)' = entry
  <2>1. Len(pushed') = Len(pushed) + 1 /\ W # {}
    BY <1>2, <1>4, <1>5
  <2>2. n = Len(pushed') /\ n \notin 1 .. Len(pushed) /\ n >= 1 /\ n \in 1 .. Len(pushed')
    BY <1>1, <1>2, <1>5, <2>1
  <2>3. MaxPushes \in Nat /\ n \in Nat
    BY <1>1, <2>2, QueueAssumption DEF QueueAssumption
  <2>4. n <= MaxPushes /\ ~ empty'
    BY <1>4, <2>1, <2>2
  <2> QED
    BY <2>2, <2>3, <2>4, EdgeNew
<1>6. \A n \in 1 .. Len(pushed) : n \in 1 .. Len(pushed') /\ (n \in Groups' => n \in Groups)
  BY <1>1, <1>2
<1>7. W # {} => Len(pushed') \in Groups' /\ Len(pushed') \notin 1 .. Len(pushed)
  <2> SUFFICES ASSUME W # {}
               PROVE  Len(pushed') \in Groups' /\ Len(pushed') \notin 1 .. Len(pushed)
    OBVIOUS
  <2>1. Len(pushed') = Len(pushed) + 1
    BY <1>4
  <2>2. first <= Len(pushed) + 1
    BY DEF RingsSound, CopiesTyped
  <2> QED
    BY <1>1, <1>2, <2>1, <2>2
<1> QED
  BY <1>3, <1>5, <1>6, <1>7

(* What a slot loses is a group that has been read to its end.             *)
LEMMA ContentsEdge ==
    ASSUME Spacing, RingsSound, Contents, NEW freeze \in BOOLEAN,
           NEW W \in SUBSET Types, NEW entry \in EntriesOf(Payload),
           EdgeIs(freeze, W, entry)
    PROVE  Contents'
<1>1. Held /\ LiveHeld /\ DeadRead
  BY DEF Contents
<1>2. varray_read_pos \in Nat /\ varray_read_pos' \in Nat
      /\ varray_read_pos <= varray_read_pos'
  <2>1. varray_read_pos \in Nat
        /\ varray_read_pos' = IF Reading(freeze) THEN varray_read_pos + 1 ELSE varray_read_pos
    BY EdgeKinds
  <2> QED
    BY <2>1
<1>3. Held'
  <2> SUFFICES ASSUME NEW t \in Types, NEW n \in Groups', pushed'[n].type = t,
                      pushed'[n].pos + pushed'[n].len > varray_read_pos'
               PROVE  \E s \in LiveIn(varrays'[t]) : varrays'[t].mem[s] = EntryOf(n)'
    BY DEF Held
  <2>1. CASE n \in Groups
    <3>1. pushed'[n] = pushed[n] /\ EntryOf(n)' = EntryOf(n)
      BY <2>1, EdgeGroups
    <3>2. pushed[n].pos \in Nat /\ pushed[n].len \in Nat
          /\ EndOf(EntryOf(n)) = pushed[n].pos + pushed[n].len
      BY <2>1, GroupsTyped
    <3>3. pushed[n].pos + pushed[n].len > varray_read_pos
      BY <1>2, <3>1, <3>2
    <3>4. PICK s \in LiveIn(varrays[t]) : varrays[t].mem[s] = EntryOf(n)
      BY <1>1, <2>1, <3>1, <3>3 DEF Held
    <3>5. ~ (Takes(t, freeze) /\ s = varrays[t].tail)
      <4> SUFFICES ASSUME Takes(t, freeze), s = varrays[t].tail PROVE FALSE
        OBVIOUS
      <4>1. EndOf(varrays[t].mem[s]) = varray_read_pos'
        BY RingKept
      <4>2. pushed[n].pos + pushed[n].len = varray_read_pos'
        BY <3>2, <3>4, <4>1
      <4> QED
        BY <1>2, <3>1, <4>2
    <3>6. s \in LiveIn(varrays'[t]) /\ varrays'[t].mem[s] = varrays[t].mem[s]
      BY <3>5, RingKeeps
    <3> QED
      BY <3>1, <3>4, <3>6
  <2>2. CASE n \notin Groups
    <3>1. W = {t} /\ EntryOf(n)' = entry
      BY <2>2, EdgeGroups
    <3>2. varrays[t].head \in LiveIn(varrays'[t])
          /\ varrays'[t].mem[varrays[t].head] = entry
      <4>1. t \in W
        BY <3>1
      <4> QED
        BY <4>1, RingWritten
    <3> QED
      BY <3>1, <3>2
  <2> QED
    BY <2>1, <2>2
<1>4. LiveHeld'
  <2> SUFFICES ASSUME NEW t \in Types, NEW s \in LiveIn(varrays'[t])
               PROVE  \E n \in Groups' : pushed'[n].type = t
                                         /\ varrays'[t].mem[s] = EntryOf(n)'
    BY DEF LiveHeld
  <2>1. \/ t \in W /\ varrays'[t].mem[s] = entry
        \/ s \in LiveIn(varrays[t]) /\ varrays'[t].mem[s] = varrays[t].mem[s]
    BY RingContents
  <2>2. CASE t \in W /\ varrays'[t].mem[s] = entry
    <3>1. Len(pushed') \in Groups' /\ Len(pushed') \notin 1 .. Len(pushed)
      BY <2>2, EdgeGroups
    <3>2. Len(pushed') \notin Groups
      BY <3>1, GroupsTyped
    <3>3. PICK n \in Groups' : n \notin Groups
      BY <3>1, <3>2
    <3>4. W = {pushed'[n].type} /\ EntryOf(n)' = entry
      BY <3>3, EdgeGroups
    <3> QED
      BY <2>2, <3>4
  <2>3. CASE s \in LiveIn(varrays[t]) /\ varrays'[t].mem[s] = varrays[t].mem[s]
    <3>1. PICK n \in Groups : pushed[n].type = t /\ varrays[t].mem[s] = EntryOf(n)
      BY <1>1, <2>3 DEF LiveHeld
    <3>2. n \in Groups' /\ pushed'[n] = pushed[n] /\ EntryOf(n)' = EntryOf(n)
      BY EdgeGroups
    <3> QED
      BY <2>3, <3>1, <3>2
  <2> QED
    BY <2>1, <2>2, <2>3
<1>5. DeadRead'
  <2> SUFFICES ASSUME NEW t \in Types, NEW s \in Slots, s \notin LiveIn(varrays'[t]),
                      varrays'[t].mem[s].dat # Nothing
               PROVE  /\ varrays'[t].mem[s].dat.instr \in 1 .. Len(pushed')
                      /\ \/ varrays'[t].mem[s].dat.instr < first'
                         \/ EndOf(varrays'[t].mem[s]) <= varray_read_pos'
    BY DEF DeadRead
  <2> DEFINE old == varrays[t].mem[s]
  <2>1. /\ varrays'[t].mem[s] = old
        /\ s \notin LiveIn(varrays[t]) \/ (Takes(t, freeze) /\ s = varrays[t].tail)
    BY RingContents
  <2>2. first' = first /\ first \in Nat
    BY EdgeKinds
  <2>3. CASE s \notin LiveIn(varrays[t])
    <3>1. old.dat.instr \in 1 .. Len(pushed)
          /\ (old.dat.instr < first \/ EndOf(old) <= varray_read_pos)
      BY <1>1, <2>1, <2>3 DEF DeadRead
    <3>2. old.dat.instr \in 1 .. Len(pushed')
      BY <3>1, EdgeGroups
    <3>3. EndOf(old) \in Nat
      BY RingAt, RegisterTypes
    <3>4. EndOf(old) <= varray_read_pos => EndOf(old) <= varray_read_pos'
      BY <1>2, <3>3
    <3> QED
      BY <2>1, <2>2, <3>1, <3>2, <3>4
  <2>4. CASE s \in LiveIn(varrays[t])
    <3>1. Takes(t, freeze) /\ s = varrays[t].tail
      BY <2>1, <2>4
    <3>2. EndOf(old) = varray_read_pos'
      BY <3>1, RingKept
    <3>3. PICK n \in Groups : old = EntryOf(n)
      BY <1>1, <2>4 DEF LiveHeld
    <3>4. old.dat.instr = n
      BY <3>3, GroupsTyped
    <3>5. n \in 1 .. Len(pushed')
      BY GroupsTyped, EdgeGroups
    <3> QED
      BY <1>2, <2>1, <3>2, <3>4, <3>5
  <2> QED
    BY <2>3, <2>4
<1> QED
  BY <1>3, <1>4, <1>5 DEF Contents

-----------------------------------------------------------------------------
(* A valid output register holds a group that was pushed, on the port of   *)
(* its type, and the queue is not empty while it does.                     *)
OutKnown ==
    \A t \in Types :
        out[t].valid =>
            /\ out[t].instr \in 1 .. Len(pushed)
            /\ out[t].instr \in Groups => ~ empty /\ pushed[out[t].instr].type = t

(* Only what was pushed has been taken.                                    *)
Untaken == \A n \in 1 .. MaxPushes : n \notin 1 .. Len(pushed) => taken[n] = 0

(* What the tail of a ring reads as is a group since the last reset that   *)
(* covers the position, or one thrown away by a reset.                     *)
LEMMA ReadsGroup ==
    ASSUME Spacing, RingsSound, Contents, NEW t \in Types,
           NEW d, d = dat_r(varrays[t], varray_read_pos), d # Nothing
    PROVE  /\ d.instr \in 1 .. Len(pushed)
           /\ d.instr \in Groups =>
                 /\ varrays[t].tail \in LiveIn(varrays[t])
                 /\ varrays[t].mem[varrays[t].tail] = EntryOf(d.instr)
                 /\ d = InstrOf(d.instr) /\ pushed[d.instr].type = t
                 /\ pushed[d.instr].pos <= varray_read_pos
                 /\ varray_read_pos < pushed[d.instr].pos + pushed[d.instr].len
<1> DEFINE entry == varrays[t].mem[varrays[t].tail]
<1>1. Covers(entry, varray_read_pos) /\ d = entry.dat
  BY DEF dat_r
<1>2. entry.start <= varray_read_pos /\ varray_read_pos < EndOf(entry)
  BY <1>1 DEF Covers
<1>3. varrays[t] \in RegistersOf(Payload) /\ varray_read_pos \in Nat
  BY DEF RingsSound, CopiesTyped, Spacing, PositionsTyped
<1>4. varrays[t].tail \in Slots /\ EndOf(entry) \in Nat /\ entry.start \in Nat
  BY <1>3, RegisterTypes
<1>5. CASE varrays[t].tail \in LiveIn(varrays[t])
  <2>1. PICK n \in Groups : pushed[n].type = t /\ entry = EntryOf(n)
    BY <1>5 DEF Contents, LiveHeld
  <2>2. /\ n \in 1 .. Len(pushed)
        /\ EndOf(entry) = pushed[n].pos + pushed[n].len
        /\ entry.dat = InstrOf(n) /\ InstrOf(n).instr = n /\ entry.start = pushed[n].pos
    BY <2>1, GroupsTyped
  <2>3. d.instr = n /\ d = InstrOf(n)
    BY <1>1, <2>2
  <2> QED
    BY <1>2, <1>5, <2>1, <2>2, <2>3
<1>6. CASE varrays[t].tail \notin LiveIn(varrays[t])
  <2>1. /\ d.instr \in 1 .. Len(pushed)
        /\ d.instr < first \/ EndOf(entry) <= varray_read_pos
    BY <1>1, <1>4, <1>6 DEF Contents, DeadRead
  <2>2. d.instr < first
    BY <1>2, <1>3, <1>4, <2>1
  <2>3. d.instr \notin Groups
    BY <2>1, <2>2, GroupsTyped DEF Groups, Spacing, PositionsTyped
  <2> QED
    BY <2>1, <2>3
<1> QED
  BY <1>5, <1>6

(* The output registers after an edge.                                     *)
LEMMA PopForm ==
    ASSUME Spacing, RingsSound, NEW freeze \in BOOLEAN, NEW W \in SUBSET Types,
           NEW entry \in EntriesOf(Payload), EdgeIs(freeze, W, entry),
           NEW t \in Types, NEW d, d = dat_r(varrays[t], varray_read_pos)
    PROVE  /\ Reading(freeze) => /\ out'[t].valid <=> d # Nothing
                                 /\ d # Nothing => out'[t].instr = d.instr
                                 /\ t # PROG_END => out'[t] = NextOut(t)
           /\ ~ Reading(freeze) /\ empty => out'[t] = [out[t] EXCEPT !.valid = FALSE]
           /\ ~ Reading(freeze) /\ ~ empty => out'[t] = out[t]
<1>1. Pop(Reading(freeze)) /\ Reading(freeze) \in BOOLEAN /\ empty \in BOOLEAN
      /\ out \in [Types -> Output]
  BY DEF EdgeIs, Reading, RingsSound, CopiesTyped
<1>2. CASE Reading(freeze)
  <2>1. out'[t] = IF t = PROG_END THEN NextEndOut ELSE NextOut(t)
    BY <1>1, <1>2 DEF Pop
  <2>2. CASE t = PROG_END
    <3>1. NextEndOut = [Idle EXCEPT !.valid = d # Nothing,
                                    !.instr = IF d = Nothing THEN 0 ELSE d.instr]
      BY <2>2 DEF NextEndOut
    <3>2. (NextEndOut.valid <=> d # Nothing)
          /\ (d # Nothing => NextEndOut.instr = d.instr)
      BY <3>1 DEF Idle
    <3> QED
      BY <1>2, <2>1, <2>2, <3>2
  <2>3. CASE t # PROG_END
    <3>1. (NextOut(t).valid <=> d # Nothing) /\ (d # Nothing => NextOut(t).instr = d.instr)
      BY DEF NextOut
    <3> QED
      BY <1>2, <2>1, <2>3, <3>1
  <2> QED
    BY <2>2, <2>3
<1>3. CASE ~ Reading(freeze) /\ empty
  BY <1>1, <1>3 DEF Pop
<1>4. CASE ~ Reading(freeze) /\ ~ empty
  BY <1>1, <1>4 DEF Pop
<1> QED
  BY <1>1, <1>2, <1>3, <1>4

(* What an output register holds after an edge, if not thrown away by a    *)
(* reset, was read by that edge or kept by a freeze.                       *)
LEMMA OutReads ==
    ASSUME Spacing, RingsSound, Contents, OutKnown, NEW freeze \in BOOLEAN,
           NEW W \in SUBSET Types, NEW entry \in EntriesOf(Payload),
           EdgeIs(freeze, W, entry),
           NEW t \in Types, out'[t].valid, NEW n, n = out'[t].instr,
           NEW d, d = dat_r(varrays[t], varray_read_pos)
    PROVE  /\ n \in 1 .. Len(pushed)
           /\ n \in Groups =>
                 /\ pushed[n].type = t /\ ~ empty
                 /\ \/ Reading(freeze) /\ d # Nothing /\ d.instr = n
                    \/ ~ Reading(freeze) /\ out'[t] = out[t]
<1>1. CASE Reading(freeze)
  <2>1. d # Nothing /\ n = d.instr /\ ~ empty
    BY <1>1, PopForm DEF Reading
  <2>2. n \in 1 .. Len(pushed) /\ (n \in Groups => pushed[n].type = t)
    BY <2>1, ReadsGroup
  <2> QED
    BY <1>1, <2>1, <2>2
<1>2. CASE ~ Reading(freeze) /\ empty
  <2>1. out'[t] = [out[t] EXCEPT !.valid = FALSE]
    BY <1>2, PopForm
  <2>2. out[t] \in Output
    BY DEF RingsSound, CopiesTyped
  <2>3. ~ out'[t].valid
    BY <2>1, <2>2 DEF Output
  <2> QED
    BY <2>3
<1>3. CASE ~ Reading(freeze) /\ ~ empty
  <2>1. out'[t] = out[t]
    BY <1>3, PopForm
  <2>2. n \in 1 .. Len(pushed) /\ (n \in Groups => pushed[n].type = t)
    BY <2>1 DEF OutKnown
  <2> QED
    BY <1>3, <2>1, <2>2
<1> QED
  BY <1>1, <1>2, <1>3

(* While there is something in an output register the queue is not empty:  *)
(* it has not been read beyond the end of that group.                      *)
LEMMA OutKnownEdge ==
    ASSUME Spacing, RingsSound, Contents, OutKnown, NEW freeze \in BOOLEAN,
           NEW W \in SUBSET Types, NEW entry \in EntriesOf(Payload),
           EdgeIs(freeze, W, entry)
    PROVE  OutKnown'
<1> SUFFICES ASSUME NEW t \in Types, out'[t].valid
             PROVE  /\ out'[t].instr \in 1 .. Len(pushed')
                    /\ out'[t].instr \in Groups' =>
                          ~ empty' /\ pushed'[out'[t].instr].type = t
  BY DEF OutKnown
<1> DEFINE n == out'[t].instr
           d == dat_r(varrays[t], varray_read_pos)
<1>1. n \in 1 .. Len(pushed)
  BY OutReads
<1>2. n \in 1 .. Len(pushed') /\ (n \in Groups' => n \in Groups)
  BY <1>1, EdgeGroups
<1>3. ASSUME n \in Groups PROVE ~ empty' /\ pushed'[n].type = t
  <2>1. /\ pushed[n].type = t /\ ~ empty
        /\ \/ Reading(freeze) /\ d # Nothing /\ d.instr = n
           \/ ~ Reading(freeze)
    BY <1>3, OutReads
  <2>2. pushed'[n] = pushed[n]
    BY <1>3, EdgeGroups
  <2>3. CASE W # {}
    BY <2>1, <2>2, <2>3, EdgeKinds
  <2>4. CASE W = {} /\ Reading(freeze)
    <3>1. varray_read_pos < pushed[n].pos + pushed[n].len
      BY <1>3, <2>1, <2>4, ReadsGroup
    <3>2. pushed[n].pos + pushed[n].len <= varr_len(t)
      BY <1>3, <2>1 DEF Spacing, GroupsWithin
    <3>3. varr_len(t) \in Nat /\ varray_read_pos \in Nat
          /\ pushed[n].pos \in Nat /\ pushed[n].len \in Nat
      BY <1>3, GroupsTyped DEF Spacing, PositionsTyped
    <3>4. ~ AllRead
      BY <3>1, <3>2, <3>3 DEF AllRead
    <3>5. empty' = AllRead
      BY <2>4 DEF EdgeIs
    <3> QED
      BY <2>1, <2>2, <3>4, <3>5
  <2>5. CASE W = {} /\ ~ Reading(freeze)
    <3>1. empty' = empty
      BY <2>5 DEF EdgeIs
    <3> QED
      BY <2>1, <2>2, <3>1
  <2> QED
    BY <2>3, <2>4, <2>5
<1> QED
  BY <1>2, <1>3

(* What the pipelines have taken of a group after an edge.                 *)
LEMMA TakeForm ==
    ASSUME NEW freeze \in BOOLEAN, NEW W \in SUBSET Types,
           NEW entry \in EntriesOf(Payload), EdgeIs(freeze, W, entry),
           NEW n \in 1 .. MaxPushes
    PROVE  taken'[n] = IF freeze THEN taken[n] ELSE taken[n] + InOutput(n)
  BY DEF EdgeIs, Take, InOutput

(* Nothing is taken of a group before it is pushed.                        *)
LEMMA UntakenEdge ==
    ASSUME Spacing, RingsSound, Contents, OutKnown, Untaken, NEW freeze \in BOOLEAN,
           NEW W \in SUBSET Types, NEW entry \in EntriesOf(Payload),
           EdgeIs(freeze, W, entry)
    PROVE  Untaken'
<1> SUFFICES ASSUME NEW n \in 1 .. MaxPushes, n \notin 1 .. Len(pushed')
             PROVE  taken'[n] = 0
  BY DEF Untaken
<1>1. n \notin 1 .. Len(pushed)
  BY EdgeGroups
<1>2. taken[n] = 0
  BY <1>1 DEF Untaken
<1>3. InOutput(n) = 0
  BY <1>1 DEF InOutput, OutKnown
<1>4. taken'[n] = IF freeze THEN taken[n] ELSE taken[n] + InOutput(n)
  BY TakeForm
<1> QED
  BY <1>2, <1>3, <1>4

-----------------------------------------------------------------------------
(* No copy exists twice.                                                   *)
NeverTwice == \A n \in Groups : Copies(n) <= pushed[n].len

CopyState == Spacing /\ RingsSound /\ Contents /\ OutKnown /\ Untaken

(* The three places of a copy are counts.                                  *)
LEMMA CountsTyped ==
    ASSUME Spacing, RingsSound, NEW n \in Groups
    PROVE  /\ n \in 1 .. MaxPushes
           /\ taken[n] \in Nat /\ InOutput(n) \in {0, 1} /\ Unread(n) \in Nat
<1>1. n \in 1 .. MaxPushes
  BY GroupsTyped, QueueAssumption
     DEF RingsSound, CopiesTyped, QueueAssumption, Spacing, PositionsTyped
<1>2. taken[n] \in Nat
  BY <1>1 DEF RingsSound, CopiesTyped
<1>3. InOutput(n) \in {0, 1}
  BY DEF InOutput
<1>4. pushed[n].pos \in Nat /\ pushed[n].len \in Nat /\ varray_read_pos \in Nat
  BY GroupsTyped DEF Spacing, PositionsTyped
<1>5. Unread(n) \in Nat
  BY <1>4 DEF Unread
<1> QED
  BY <1>1, <1>2, <1>3, <1>5

(* In an intact ring a stuck tail is in the last slot.                     *)
LEMMA StuckInLastSlot ==
    ASSUME RingsSound, NEW t \in Types
    PROVE  TailStuck(t) <=> StuckAt(varrays[t], varray_read_pos)
<1>1. Intact(varrays[t], varray_read_pos)
  BY DEF RingsSound, RingsIntact
<1> QED
  BY <1>1 DEF TailStuck, TailEnd, StuckAt, Intact

(* A group with copies to read is lost if the tail of its type is stuck.   *)
LEMMA UnreadLost ==
    ASSUME Spacing, RingsSound, NEW n \in Groups,
           varray_read_pos < pushed[n].pos + pushed[n].len,
           StuckAt(varrays[pushed[n].type], varray_read_pos)
    PROVE  Lost(n)
<1> DEFINE t == pushed[n].type
<1>1. t \in Types /\ pushed[n].pos \in Nat /\ pushed[n].len \in Nat
      /\ varray_read_pos \in Nat
  BY GroupsTyped DEF Spacing, PositionsTyped
<1>2. varrays[t] \in RegistersOf(Payload)
  BY <1>1 DEF RingsSound, CopiesTyped
<1>3. TailEnd(t) \in Nat
  BY <1>2, RegisterTypes DEF TailEnd
<1>4. TailStuck(t) /\ TailEnd(t) <= varray_read_pos
  BY <1>1, StuckInLastSlot DEF StuckAt, TailEnd
<1> QED
  BY <1>1, <1>3, <1>4 DEF Lost

(* A read of a position that a group covers takes one of its copies to the *)
(* output, unless the group is lost; any other read takes none.            *)
LEMMA ReadTakesOne ==
    ASSUME CopyState, NEW freeze \in BOOLEAN, NEW W \in SUBSET Types,
           NEW entry \in EntriesOf(Payload), EdgeIs(freeze, W, entry),
           Reading(freeze), NEW n \in Groups,
           NEW covered, covered = (/\ pushed[n].pos <= varray_read_pos
                                   /\ varray_read_pos < pushed[n].pos + pushed[n].len)
    PROVE  /\ InOutput(n)' = 1 => covered
           /\ covered /\ ~ Lost(n) => InOutput(n)' = 1
           /\ InOutput(n)' \in {0, 1}
<1>1. Spacing /\ RingsSound /\ Contents /\ OutKnown
  BY DEF CopyState
<1>2. InOutput(n)' = IF \E t \in Types : out'[t].valid /\ out'[t].instr = n THEN 1 ELSE 0
  BY DEF InOutput
<1>3. ASSUME NEW t \in Types, out'[t].valid, out'[t].instr = n PROVE covered
  <2> DEFINE d == dat_r(varrays[t], varray_read_pos)
  <2>1. d # Nothing /\ d.instr = n
    BY <1>1, <1>3, OutReads
  <2> QED
    BY <1>1, <2>1, ReadsGroup
<1>4. ASSUME covered, ~ Lost(n)
      PROVE  \E t \in Types : out'[t].valid /\ out'[t].instr = n
  <2> DEFINE t == pushed[n].type
             d == dat_r(varrays[t], varray_read_pos)
  <2>1. /\ t \in Types /\ pushed[n].pos \in Nat /\ pushed[n].len \in Nat
        /\ EndOf(EntryOf(n)) = pushed[n].pos + pushed[n].len
        /\ EntryOf(n).dat = InstrOf(n) /\ InstrOf(n).instr = n
        /\ EntryOf(n).start = pushed[n].pos /\ InstrOf(n) # Nothing
        /\ varray_read_pos \in Nat
    BY <1>1, GroupsTyped DEF Spacing, PositionsTyped
  <2>2. PICK s \in LiveIn(varrays[t]) : varrays[t].mem[s] = EntryOf(n)
    <3>1. pushed[n].pos + pushed[n].len > varray_read_pos
      BY <1>4, <2>1
    <3> QED
      BY <1>1, <2>1, <3>1 DEF Contents, Held
  <2>3. Covers(varrays[t].mem[s], varray_read_pos)
    BY <1>4, <2>1, <2>2 DEF Covers
  <2>4. varrays[t] \in RegistersOf(Payload) /\ Intact(varrays[t], varray_read_pos)
        /\ ~ StuckAt(varrays[t], varray_read_pos)
    BY <1>1, <1>4, <2>1, UnreadLost DEF RingsSound, CopiesTyped, RingsIntact
  <2>5. d = varrays[t].mem[s].dat
    BY <2>1, <2>3, <2>4, ReadsAtTail
  <2>6. d = InstrOf(n)
    BY <2>1, <2>2, <2>5
  <2> HIDE DEF t
  <2>7. (out'[t].valid <=> d # Nothing) /\ (d # Nothing => out'[t].instr = d.instr)
    BY <1>1, <2>1, PopForm
  <2> QED
    BY <2>1, <2>6, <2>7
<1> QED
  BY <1>2, <1>3, <1>4

(* An edge moves a copy from the unread positions to the output, and from  *)
(* there to the pipelines; only a lost group loses one.                    *)
LEMMA CopiesEdge ==
    ASSUME CopyState, NEW freeze \in BOOLEAN, NEW W \in SUBSET Types,
           NEW entry \in EntriesOf(Payload), EdgeIs(freeze, W, entry),
           NEW n \in Groups
    PROVE  /\ Copies(n)' <= Copies(n) /\ Copies(n) \in Nat /\ Copies(n)' \in Nat
           /\ Lost(n) \/ Copies(n)' = Copies(n)
<1>1. Spacing /\ RingsSound /\ Contents /\ OutKnown
  BY DEF CopyState
<1>2. n \in 1 .. MaxPushes /\ taken[n] \in Nat /\ InOutput(n) \in {0, 1}
      /\ Unread(n) \in Nat
  BY <1>1, CountsTyped
<1>3. pushed'[n] = pushed[n] /\ pushed[n].pos \in Nat /\ pushed[n].len \in Nat
      /\ varray_read_pos \in Nat
  BY <1>1, EdgeGroups, GroupsTyped, EdgeKinds
<1>4. taken'[n] = IF freeze THEN taken[n] ELSE taken[n] + InOutput(n)
  BY <1>2, TakeForm
<1>5. Unread(n)' = LET end == pushed[n].pos + pushed[n].len
                   IN  IF varray_read_pos' <= pushed[n].pos THEN pushed[n].len
                       ELSE IF varray_read_pos' < end THEN end - varray_read_pos' ELSE 0
  BY <1>3 DEF Unread
<1>6. varray_read_pos' = IF Reading(freeze) THEN varray_read_pos + 1 ELSE varray_read_pos
  BY <1>1, EdgeKinds
<1>7. Copies(n) \in Nat
  BY <1>2 DEF Copies
<1>8. CASE ~ Reading(freeze)
  <2>1. Unread(n)' = Unread(n)
    BY <1>3, <1>5, <1>6, <1>8 DEF Unread
  <2>2. CASE empty
    <3>1. InOutput(n) = 0
      BY <1>1, <2>2 DEF InOutput, OutKnown
    <3>2. \A t \in Types : ~ out'[t].valid
      <4> SUFFICES ASSUME NEW t \in Types PROVE ~ out'[t].valid
        OBVIOUS
      <4>1. out'[t] = [out[t] EXCEPT !.valid = FALSE]
        BY <1>1, <1>8, <2>2, PopForm
      <4>2. out[t] \in Output
        BY <1>1 DEF RingsSound, CopiesTyped
      <4> QED
        BY <4>1, <4>2 DEF Output
    <3>3. InOutput(n)' = 0
      BY <3>2 DEF InOutput
    <3>4. taken'[n] = taken[n]
      BY <1>2, <1>4, <3>1
    <3> QED
      BY <1>7, <2>1, <3>1, <3>3, <3>4 DEF Copies
  <2>3. CASE ~ empty
    <3>1. freeze
      BY <1>8, <2>3 DEF Reading
    <3>2. \A t \in Types : out'[t] = out[t]
      BY <1>1, <1>8, <2>3, PopForm
    <3>3. InOutput(n)' = InOutput(n)
      BY <3>2 DEF InOutput
    <3>4. taken'[n] = taken[n]
      BY <1>4, <3>1
    <3> QED
      BY <1>7, <2>1, <3>3, <3>4 DEF Copies
  <2> QED
    BY <2>2, <2>3
<1>9. CASE Reading(freeze)
  <2> DEFINE covered == /\ pushed[n].pos <= varray_read_pos
                        /\ varray_read_pos < pushed[n].pos + pushed[n].len
  <2>1. /\ InOutput(n)' = 1 => covered
        /\ covered /\ ~ Lost(n) => InOutput(n)' = 1
        /\ InOutput(n)' \in {0, 1}
    BY <1>9, ReadTakesOne
  <2>2. Unread(n)' = IF covered THEN Unread(n) - 1 ELSE Unread(n)
    BY <1>3, <1>5, <1>6, <1>9 DEF Unread
  <2>3. taken'[n] = taken[n] + InOutput(n)
    BY <1>4, <1>9 DEF Reading
  <2>4. covered => Unread(n) >= 1
    BY <1>3 DEF Unread
  <2>5. Copies(n)' = taken[n] + InOutput(n) + InOutput(n)' + Unread(n)'
    BY <2>3 DEF Copies
  <2> HIDE DEF covered
  <2>6. CASE covered
    <3>1. Unread(n)' = Unread(n) - 1 /\ Unread(n) - 1 \in Nat
      BY <1>2, <2>2, <2>4, <2>6
    <3>2. Copies(n)' = taken[n] + InOutput(n) + InOutput(n)' + (Unread(n) - 1)
      BY <2>5, <3>1
    <3>3. InOutput(n) \in Nat /\ InOutput(n)' \in Nat /\ InOutput(n)' <= 1
      BY <1>2, <2>1
    <3>4. Copies(n)' <= Copies(n) /\ Copies(n)' \in Nat
      BY <1>2, <3>1, <3>2, <3>3 DEF Copies
    <3>5. InOutput(n)' = 1 => Copies(n)' = Copies(n)
      BY <1>2, <3>1, <3>2, <3>3 DEF Copies
    <3> QED
      BY <1>7, <2>1, <2>6, <3>4, <3>5
  <2>7. CASE ~ covered
    <3>1. Unread(n)' = Unread(n) /\ InOutput(n)' = 0
      BY <2>1, <2>2, <2>7
    <3>2. Copies(n)' = Copies(n)
      BY <1>2, <2>5, <3>1 DEF Copies
    <3> QED
      BY <1>7, <3>2
  <2> QED
    BY <2>6, <2>7
<1> QED
  BY <1>8, <1>9

(* A new group is all unread: it is written beyond the reading position.   *)
LEMMA CopiesNew ==
    ASSUME CopyState, NEW freeze \in BOOLEAN, NEW W \in SUBSET Types,
           NEW entry \in EntriesOf(Payload), EdgeIs(freeze, W, entry),
           NEW n \in Groups', n \notin Groups
    PROVE  Copies(n)' = pushed'[n].len /\ pushed'[n].len \in Nat
<1>1. Spacing /\ RingsSound /\ Contents /\ OutKnown /\ Untaken
  BY DEF CopyState
<1>2. /\ n \notin 1 .. Len(pushed) /\ n \in 1 .. MaxPushes
      /\ W = {pushed'[n].type} /\ pushed'[n].pos = entry.start
      /\ pushed'[n].len = entry.len
  <2>1. n \notin 1 .. Len(pushed) /\ n \in 1 .. MaxPushes
    BY <1>1, EdgeGroups
  <2>2. n \in 1 .. Len(pushed')
    <3>1. first' = first /\ first \in Nat \ {0} /\ Len(pushed') \in Nat
      BY <1>1, EdgeKinds
    <3> QED
      BY <3>1 DEF Groups
  <2> QED
    BY <1>1, <2>1, <2>2, EdgeNew
<1>3. taken[n] = 0 /\ InOutput(n) = 0
  BY <1>1, <1>2 DEF Untaken, InOutput, OutKnown
<1>4. taken'[n] = 0
  <2>1. taken'[n] = IF freeze THEN taken[n] ELSE taken[n] + InOutput(n)
    BY <1>2, TakeForm
  <2> QED
    BY <1>3, <2>1
<1>5. InOutput(n)' = 0
  <2>1. ASSUME NEW t \in Types, out'[t].valid, out'[t].instr = n PROVE FALSE
    <3>1. out'[t].instr \in 1 .. Len(pushed)
      BY <1>1, <2>1, OutReads
    <3> QED
      BY <1>2, <2>1, <3>1
  <2> QED
    BY <2>1 DEF InOutput
<1>6. PICK t \in Types : t \in W
  BY <1>2
<1>7. varray_read_pos' <= entry.start
  BY <1>1, <1>6, EdgeWrites DEF WritesBehind, Into
<1>8. entry.len \in Nat /\ entry.start \in Nat
  BY DEF EntriesOf
<1>9. varray_read_pos' <= pushed'[n].pos
  BY <1>2, <1>7
<1>10. Unread(n)' = pushed'[n].len
  BY <1>9 DEF Unread
<1> QED
  BY <1>2, <1>4, <1>5, <1>8, <1>10 DEF Copies

(* So the copies of every group add up as before.                          *)
LEMMA OnceEdge ==
    ASSUME CopyState, NeverTwice, EachCopyOnce, NEW freeze \in BOOLEAN,
           NEW W \in SUBSET Types, NEW entry \in EntriesOf(Payload),
           EdgeIs(freeze, W, entry)
    PROVE  NeverTwice' /\ EachCopyOnce'
<1>1. Spacing /\ RingsSound /\ Contents /\ OutKnown /\ Untaken
  BY DEF CopyState
<1>2. ASSUME NEW n \in Groups'
      PROVE  /\ Copies(n)' <= pushed'[n].len
             /\ Lost(n)' \/ Copies(n)' = pushed'[n].len
  <2>1. CASE n \in Groups
    <3>1. /\ Copies(n)' <= Copies(n) /\ Copies(n) \in Nat /\ Copies(n)' \in Nat
          /\ Lost(n) \/ Copies(n)' = Copies(n)
      BY <2>1, CopiesEdge
    <3>2. /\ Copies(n) <= pushed[n].len
          /\ Lost(n) \/ Copies(n) = pushed[n].len
      BY <2>1 DEF NeverTwice, EachCopyOnce
    <3>3. pushed'[n] = pushed[n] /\ pushed[n].len \in Nat /\ pushed[n].type \in Types
      BY <1>1, <2>1, EdgeGroups, GroupsTyped
    <3>4. ASSUME NEW t \in Types, t = pushed[n].type, Lost(n)
          PROVE  Lost(n)'
      <4>1. StuckAt(varrays[t], varray_read_pos)
        BY <1>1, <3>4, StuckInLastSlot DEF Lost
      <4>2. /\ StuckAt(varrays'[t], varray_read_pos')
            /\ varrays'[t].mem[varrays'[t].tail] = varrays[t].mem[varrays[t].tail]
            /\ Intact(varrays'[t], varray_read_pos')
        BY <1>1, <4>1, RingKept
      <4>3. TailStuck(t)' /\ TailEnd(t)' = TailEnd(t)
        BY <4>2 DEF TailStuck, TailEnd, StuckAt, Intact
      <4> QED
        BY <3>3, <3>4, <4>3 DEF Lost
    <3>5. Copies(n)' <= pushed'[n].len
      BY <3>1, <3>2, <3>3
    <3> QED
      BY <3>1, <3>2, <3>3, <3>4, <3>5
  <2>2. CASE n \notin Groups
    <3>1. Copies(n)' = pushed'[n].len /\ pushed'[n].len \in Nat
      BY <2>2, CopiesNew
    <3> QED
      BY <3>1
  <2> QED
    BY <2>1, <2>2
<1> QED
  BY <1>2 DEF NeverTwice, EachCopyOnce

-----------------------------------------------------------------------------
RacedInstrs == {InstrOf(n) : n \in raced}

(* The flag that starts the count is right (VarrayRing) in every ring with *)
(* threads, and between two copies of a group the output holds the thread  *)
(* and the address of the last one read.                                   *)
Flags ==
    \A t \in Types \ {PROG_END} : FlagRight(varrays[t], varray_read_pos, RacedInstrs)

CountedOn ==
    \A t \in Types \ {PROG_END} : \A n \in Groups \ raced :
        /\ varrays[t].tail \in LiveIn(varrays[t])
        /\ varrays[t].mem[varrays[t].tail] = EntryOf(n)
        /\ pushed[n].pos < varray_read_pos
        /\ varray_read_pos < pushed[n].pos + pushed[n].len
        => /\ out[t].thread = varray_read_pos - 1 - pushed[n].pos
           /\ out[t].addr = n + (varray_read_pos - 1 - pushed[n].pos)

(* The flag stays right across an edge.                                    *)
LEMMA FlagsEdge ==
    ASSUME CopyState, Flags, NEW freeze \in BOOLEAN, NEW W \in SUBSET Types,
           NEW entry \in EntriesOf(Payload), EdgeIs(freeze, W, entry)
    PROVE  Flags'
<1>1. Spacing /\ RingsSound
  BY DEF CopyState
<1> SUFFICES ASSUME NEW t \in Types \ {PROG_END}
             PROVE  FlagRight(varrays'[t], varray_read_pos', RacedInstrs')
  BY DEF Flags
<1>2. /\ varrays[t] \in RegistersOf(Payload)
      /\ Intact(varrays[t], varray_read_pos)
      /\ Into(t, W) \in BOOLEAN /\ Reading(freeze) \in BOOLEAN
      /\ varray_read_pos \in Nat
      /\ varray_read_pos' = NextPos(Reading(freeze), varray_read_pos)
      /\ WritesBehind(varrays[t], Into(t, W), entry, varray_read_pos')
      /\ varrays'[t] = Clock(varrays[t], Into(t, W), entry, Reading(freeze),
                             varray_read_pos)
  BY <1>1, RingAt
<1>3. FlagRight(varrays[t], varray_read_pos, RacedInstrs)
  BY DEF Flags
<1>4. raced \subseteq raced'
  <2>1. CASE W = {}
    BY <1>1, <2>1, EdgeKinds
  <2>2. CASE W # {}
    BY <1>1, <2>2, EdgeKinds
  <2> QED
    BY <2>1, <2>2
<1>5. RacedInstrs \subseteq RacedInstrs'
  BY <1>4 DEF RacedInstrs, InstrOf
<1>6. Into(t, W) => entry.start > varray_read_pos
  BY <1>1, EdgeWrites DEF Into
<1>7. Into(t, W) /\ Reading(freeze) /\ entry.start = varray_read_pos + 1
        /\ varrays[t].head = varrays[t].tail => entry.dat \in RacedInstrs'
  <2> SUFFICES ASSUME t \in W, Reading(freeze), entry.start = varray_read_pos + 1,
                      varrays[t].head = varrays[t].tail
               PROVE  entry.dat \in RacedInstrs'
    BY DEF Into
  <2>1. /\ entry.dat = InstrOf(Len(pushed) + 1)
        /\ raced' = raced \cup {Len(pushed) + 1}
    BY DEF EdgeIs
  <2>2. Len(pushed) + 1 \in raced'
    BY <2>1
  <2> QED
    BY <2>1, <2>2 DEF RacedInstrs, InstrOf
<1>8. RacesInto(varrays[t], Into(t, W), entry, Reading(freeze), varray_read_pos,
                RacedInstrs')
  BY <1>6, <1>7 DEF RacesInto
<1> QED
  BY <1>2, <1>3, <1>5, <1>8, ClockFlag

(* A read in the middle of a group counts on, one at its start starts anew.*)
LEMMA CountsOn ==
    ASSUME CopyState, Flags, CountedOn, NEW t \in Types \ {PROG_END},
           NEW n \in Groups, n \notin raced,
           varrays[t].tail \in LiveIn(varrays[t]),
           varrays[t].mem[varrays[t].tail] = EntryOf(n),
           pushed[n].pos <= varray_read_pos,
           varray_read_pos < pushed[n].pos + pushed[n].len
    PROVE  /\ NextOut(t).thread = varray_read_pos - pushed[n].pos
           /\ NextOut(t).addr = n + (varray_read_pos - pushed[n].pos)
<1>1. Spacing /\ RingsSound
  BY DEF CopyState
<1>2. /\ pushed[n].pos \in Nat /\ pushed[n].len \in 1 .. SUPERSCALAR_WIDTH
      /\ EndOf(EntryOf(n)) = pushed[n].pos + pushed[n].len
      /\ EntryOf(n).dat = InstrOf(n) /\ InstrOf(n).instr = n
      /\ EntryOf(n).start = pushed[n].pos /\ InstrOf(n) # Nothing
      /\ varray_read_pos \in Nat /\ SUPERSCALAR_WIDTH \in Nat \ {0} /\ n \in Nat
  BY <1>1, GroupsTyped, QueueAssumption DEF QueueAssumption, Spacing, PositionsTyped
<1>3. Covers(varrays[t].mem[varrays[t].tail], varray_read_pos)
  BY <1>2 DEF Covers
<1>4. dat_r(varrays[t], varray_read_pos) = InstrOf(n)
  BY <1>2, <1>3 DEF dat_r
<1>5. InstrOf(n) \notin RacedInstrs
  <2> SUFFICES ASSUME NEW m \in raced, InstrOf(m) = InstrOf(n) PROVE FALSE
    BY DEF RacedInstrs
  <2>1. m = n
    BY DEF InstrOf
  <2> QED
    BY <2>1
<1>6. varrays[t].is_new_superscalar_group <=> varray_read_pos = pushed[n].pos
  <2>1. FlagRight(varrays[t], varray_read_pos, RacedInstrs)
    BY DEF Flags
  <2> QED
    BY <1>2, <1>3, <1>5, <2>1 DEF FlagRight
<1>7. NextOut(t).thread = NextThread(t)
      /\ NextOut(t).addr = IF varrays[t].is_new_superscalar_group THEN n
                           ELSE out[t].addr + 1
  BY <1>2, <1>4 DEF NextOut, InstrOf
<1>8. CASE varray_read_pos = pushed[n].pos
  <2>1. NextThread(t) = 0
    BY <1>6, <1>8 DEF NextThread
  <2> QED
    BY <1>2, <1>6, <1>7, <1>8, <2>1
<1>9. CASE varray_read_pos # pushed[n].pos
  <2>1. pushed[n].pos < varray_read_pos
    BY <1>2, <1>9
  <2>2. /\ out[t].thread = varray_read_pos - 1 - pushed[n].pos
        /\ out[t].addr = n + (varray_read_pos - 1 - pushed[n].pos)
    BY <2>1 DEF CountedOn
  <2>3. NextThread(t) = (out[t].thread + 1) % SUPERSCALAR_WIDTH
    BY <1>6, <1>9 DEF NextThread
  <2>4. out[t].thread + 1 = varray_read_pos - pushed[n].pos
    BY <1>2, <2>1, <2>2
  <2>5. varray_read_pos - pushed[n].pos \in Nat
        /\ varray_read_pos - pushed[n].pos < SUPERSCALAR_WIDTH
    BY <1>2, <2>1
  <2>6. \A a \in Nat : a < SUPERSCALAR_WIDTH => a % SUPERSCALAR_WIDTH = a
    BY <1>2
  <2>7. NextThread(t) = varray_read_pos - pushed[n].pos
    BY <2>3, <2>4, <2>5, <2>6
  <2>8. out[t].addr + 1 = n + (varray_read_pos - pushed[n].pos)
    BY <1>2, <2>1, <2>2
  <2> QED
    BY <1>6, <1>7, <1>9, <2>7, <2>8
<1> QED
  BY <1>8, <1>9

(* A group that raced a read has always raced it.                          *)
LEMMA RacedGrows ==
    ASSUME CopyState, NEW freeze \in BOOLEAN, NEW W \in SUBSET Types,
           NEW entry \in EntriesOf(Payload), EdgeIs(freeze, W, entry)
    PROVE  raced \subseteq raced'
<1>1. Spacing /\ RingsSound
  BY DEF CopyState
<1>2. CASE W = {}
  BY <1>1, <1>2, EdgeKinds
<1>3. CASE W # {}
  BY <1>1, <1>3, EdgeKinds
<1> QED
  BY <1>2, <1>3

(* The output counts on from the last copy read, whatever was frozen       *)
(* between.                                                                *)
LEMMA CountedOnEdge ==
    ASSUME CopyState, Flags, CountedOn, NEW freeze \in BOOLEAN,
           NEW W \in SUBSET Types, NEW entry \in EntriesOf(Payload),
           EdgeIs(freeze, W, entry)
    PROVE  CountedOn'
<1>1. Spacing /\ RingsSound /\ Contents
  BY DEF CopyState
<1> SUFFICES ASSUME NEW t \in Types \ {PROG_END}, NEW n \in Groups', n \notin raced',
                    varrays'[t].tail \in LiveIn(varrays'[t]),
                    varrays'[t].mem[varrays'[t].tail] = EntryOf(n)',
                    pushed'[n].pos < varray_read_pos',
                    varray_read_pos' < pushed'[n].pos + pushed'[n].len
             PROVE  /\ out'[t].thread = varray_read_pos' - 1 - pushed'[n].pos
                    /\ out'[t].addr = n + (varray_read_pos' - 1 - pushed'[n].pos)
  BY DEF CountedOn
<1> DEFINE s == varrays'[t].tail
<1>2. EntryOf(n)' = [start |-> pushed'[n].pos, len |-> pushed'[n].len, dat |-> InstrOf(n)]
  BY DEF EntryOf, InstrOf
<1>3. EntryOf(n)'.start = pushed'[n].pos /\ EntryOf(n)'.dat = InstrOf(n)
  BY <1>2
<1>4. varray_read_pos' \in Nat /\ varray_read_pos \in Nat
      /\ varray_read_pos' = IF Reading(freeze) THEN varray_read_pos + 1 ELSE varray_read_pos
  <2>1. varray_read_pos \in Nat
        /\ varray_read_pos' = IF Reading(freeze) THEN varray_read_pos + 1 ELSE varray_read_pos
    BY <1>1, EdgeKinds
  <2> QED
    BY <2>1
<1>5. ~ (t \in W /\ varrays'[t].mem[s] = entry)
  <2> SUFFICES ASSUME t \in W, varrays'[t].mem[s] = entry PROVE FALSE
    OBVIOUS
  <2>1. entry.start >= varray_read_pos'
    BY <1>1, EdgeWrites DEF WritesBehind, Into
  <2>2. entry.start = pushed'[n].pos /\ entry.start \in Nat
    BY <1>3 DEF EntriesOf
  <2> QED
    BY <1>4, <2>1, <2>2
<1>6. ~ Takes(t, freeze)
  <2> SUFFICES ASSUME Takes(t, freeze) PROVE FALSE
    OBVIOUS
  <2>1. Pops(varrays[t], Reading(freeze), varray_read_pos)
    BY DEF Takes
  <2>2. /\ varrays[t] \in RegistersOf(Payload)
        /\ Intact(varrays[t], varray_read_pos)
        /\ Into(t, W) \in BOOLEAN /\ Reading(freeze) \in BOOLEAN
        /\ varray_read_pos \in Nat
        /\ varray_read_pos' = NextPos(Reading(freeze), varray_read_pos)
        /\ WritesBehind(varrays[t], Into(t, W), entry, varray_read_pos')
        /\ varrays'[t] = Clock(varrays[t], Into(t, W), entry, Reading(freeze),
                               varray_read_pos)
    BY <1>1, RingAt
  <2>5. varrays'[t] \in RegistersOf(Payload)
    BY <1>1, RingAt
  <2>3. varrays'[t].mem[s].start >= varray_read_pos'
    BY <2>1, <2>2, NextTailStarts
  <2>4. varrays'[t].mem[s].start = pushed'[n].pos /\ pushed'[n].pos \in Nat
    BY <1>3, <2>5, RegisterTypes
  <2> QED
    BY <1>4, <2>3, <2>4
<1>7. s = varrays[t].tail
  BY <1>1, <1>6, RingFields
<1>8. s \in LiveIn(varrays[t]) /\ varrays'[t].mem[s] = varrays[t].mem[s]
  <2>1. \/ t \in W /\ s = varrays[t].head /\ varrays'[t].mem[s] = entry
        \/ /\ s \in LiveIn(varrays[t]) /\ varrays'[t].mem[s] = varrays[t].mem[s]
           /\ Takes(t, freeze) => s # varrays[t].tail
    BY <1>1, RingContents
  <2> QED
    BY <1>5, <2>1
<1>9. n \in Groups /\ varrays[t].mem[s] = EntryOf(n)
  <2>1. PICK m \in Groups : varrays[t].mem[s] = EntryOf(m)
    BY <1>1, <1>8 DEF Contents, LiveHeld
  <2>2. EntryOf(m).dat = InstrOf(m) /\ EntryOf(n)'.dat = InstrOf(n)
    BY <1>1, <1>3, GroupsTyped
  <2>3. InstrOf(m) = InstrOf(n)
    BY <1>8, <2>1, <2>2
  <2>4. m = n
    BY <2>3 DEF InstrOf
  <2> QED
    BY <2>1, <2>4
<1>10. pushed'[n] = pushed[n] /\ n \notin raced
       /\ pushed[n].pos \in Nat /\ pushed[n].len \in Nat
  BY <1>1, <1>9, EdgeGroups, RacedGrows, GroupsTyped
<1> HIDE DEF s
<1>11. CASE Reading(freeze)
  <2>1. pushed[n].pos <= varray_read_pos
        /\ varray_read_pos < pushed[n].pos + pushed[n].len
    BY <1>4, <1>10, <1>11
  <2>2. /\ NextOut(t).thread = varray_read_pos - pushed[n].pos
        /\ NextOut(t).addr = n + (varray_read_pos - pushed[n].pos)
    BY <1>7, <1>8, <1>9, <1>10, <2>1, CountsOn
  <2>3. out'[t] = NextOut(t)
    BY <1>1, <1>11, PopForm
  <2>4. varray_read_pos - pushed[n].pos = varray_read_pos' - 1 - pushed'[n].pos
    BY <1>4, <1>10, <1>11
  <2> QED
    BY <2>2, <2>3, <2>4
<1>12. CASE ~ Reading(freeze)
  <2>1. varray_read_pos' = varray_read_pos
    BY <1>4, <1>12
  <2>2. out'[t].thread = out[t].thread /\ out'[t].addr = out[t].addr
    <3>1. CASE empty
      <4>1. out'[t] = [out[t] EXCEPT !.valid = FALSE] /\ out[t] \in Output
        BY <1>1, <1>12, <3>1, PopForm DEF RingsSound, CopiesTyped
      <4> QED
        BY <4>1 DEF Output
    <3>2. CASE ~ empty
      BY <1>1, <1>12, <3>2, PopForm
    <3> QED
      BY <3>1, <3>2
  <2>3. /\ out[t].thread = varray_read_pos - 1 - pushed[n].pos
        /\ out[t].addr = n + (varray_read_pos - 1 - pushed[n].pos)
    <3>1. pushed[n].pos < varray_read_pos
          /\ varray_read_pos < pushed[n].pos + pushed[n].len
      BY <1>10, <2>1
    <3> QED
      BY <1>7, <1>8, <1>9, <1>10, <3>1 DEF CountedOn
  <2> QED
    BY <1>10, <2>1, <2>2, <2>3
<1> QED
  BY <1>11, <1>12

(* So the copy in an output register has the thread and the address of its *)
(* place: as many copies have been taken as are before it.                 *)
LEMMA RebuiltEdge ==
    ASSUME CopyState, EachCopyOnce, Flags, CountedOn, CopiesRebuilt,
           NEW freeze \in BOOLEAN, NEW W \in SUBSET Types,
           NEW entry \in EntriesOf(Payload), EdgeIs(freeze, W, entry)
    PROVE  CopiesRebuilt'
<1>1. Spacing /\ RingsSound /\ Contents /\ OutKnown
  BY DEF CopyState
<1> SUFFICES ASSUME NEW t \in Types, out'[t].valid, out'[t].instr \in Groups'
             PROVE  /\ pushed'[out'[t].instr].type = t
                    /\ t # PROG_END /\ out'[t].instr \notin raced' =>
                          /\ out'[t].thread = taken'[out'[t].instr]
                          /\ out'[t].addr = out'[t].instr + taken'[out'[t].instr]
  BY DEF CopiesRebuilt
<1> DEFINE n == out'[t].instr
           d == dat_r(varrays[t], varray_read_pos)
<1>2. n \in 1 .. Len(pushed)
  BY <1>1, OutReads
<1>3. n \in Groups
  BY <1>1, <1>2, EdgeGroups
<1>4. /\ pushed[n].type = t /\ ~ empty
      /\ \/ Reading(freeze) /\ d # Nothing /\ d.instr = n
         \/ ~ Reading(freeze) /\ out'[t] = out[t]
  BY <1>1, <1>3, OutReads
<1>5. pushed'[n] = pushed[n]
  BY <1>1, <1>3, EdgeGroups
<1>6. taken'[n] = IF freeze THEN taken[n] ELSE taken[n] + InOutput(n)
  BY <1>1, <1>3, TakeForm, CountsTyped
<1>7. ASSUME t # PROG_END, n \notin raced'
      PROVE  out'[t].thread = taken'[n] /\ out'[t].addr = n + taken'[n]
  <2>1. n \notin raced
    BY <1>7, RacedGrows
  <2>2. CASE Reading(freeze)
    <3>1. /\ varrays[t].tail \in LiveIn(varrays[t])
          /\ varrays[t].mem[varrays[t].tail] = EntryOf(n)
          /\ pushed[n].pos <= varray_read_pos
          /\ varray_read_pos < pushed[n].pos + pushed[n].len
      BY <1>1, <1>3, <1>4, <2>2, ReadsGroup
    <3>2. out'[t] = NextOut(t)
      BY <1>1, <1>7, <2>2, PopForm
    <3>3. /\ NextOut(t).thread = varray_read_pos - pushed[n].pos
          /\ NextOut(t).addr = n + (varray_read_pos - pushed[n].pos)
      <4> HIDE DEF n
      <4> QED
        BY <1>3, <1>7, <2>1, <3>1, CountsOn
    <3>4. /\ EndOf(EntryOf(n)) = pushed[n].pos + pushed[n].len
          /\ pushed[n].pos \in Nat /\ pushed[n].len \in Nat /\ varray_read_pos \in Nat
          /\ taken[n] \in Nat /\ InOutput(n) \in {0, 1}
      BY <1>1, <1>3, GroupsTyped, CountsTyped DEF Spacing, PositionsTyped
    <3>5. ~ Lost(n)
      <4> HIDE DEF n
      <4>1. TailEnd(t) = pushed[n].pos + pushed[n].len
        BY <3>1, <3>4 DEF TailEnd
      <4> QED
        BY <1>4, <3>4, <4>1 DEF Lost
    <3>6. Copies(n) = pushed[n].len
      BY <1>3, <1>4, <3>5 DEF EachCopyOnce
    <3>7. Unread(n) = pushed[n].pos + pushed[n].len - varray_read_pos
      BY <3>1, <3>4 DEF Unread
    <3>8. taken'[n] = taken[n] + InOutput(n)
      BY <1>6, <2>2 DEF Reading
    <3> HIDE DEF n
    <3>9. taken'[n] = varray_read_pos - pushed[n].pos
      <4>1. taken[n] + InOutput(n) + Unread(n) = pushed[n].len
        BY <3>6 DEF Copies
      <4>2. /\ pushed[n].pos \in Nat /\ pushed[n].len \in Nat /\ varray_read_pos \in Nat
            /\ taken[n] \in Nat /\ InOutput(n) \in Nat
        BY <3>4
      <4>3. taken'[n] + (pushed[n].pos + pushed[n].len - varray_read_pos) = pushed[n].len
        BY <3>7, <3>8, <4>1
      <4>4. taken'[n] \in Nat
        BY <3>8, <4>2
      <4>5. \A a, b, c, e \in Nat : a + (b + c - e) = c => a = e - b
        OBVIOUS
      <4> QED
        BY <4>2, <4>3, <4>4, <4>5
    <3> QED
      BY <3>2, <3>3, <3>9
  <2>3. CASE ~ Reading(freeze)
    <3>1. out'[t] = out[t] /\ freeze
      BY <1>4, <2>3 DEF Reading
    <3>2. taken'[n] = taken[n]
      BY <1>6, <3>1
    <3>3. out[t].thread = taken[n] /\ out[t].addr = n + taken[n]
      BY <1>3, <1>7, <2>1, <3>1 DEF CopiesRebuilt
    <3> QED
      BY <3>1, <3>2, <3>3
  <2> QED
    BY <2>2, <2>3
<1> QED
  BY <1>4, <1>5, <1>7

-----------------------------------------------------------------------------
(* Fewer groups than slots since the last reset: no ring has wrapped.      *)
NoWrap ==
    Len(pushed) - first + 1 < QUEUE_LENGTH =>
        \A t \in Types : /\ varrays[t].tail <= varrays[t].head
                         /\ varrays[t].head <= Len(pushed) - first + 1

(* A head moves at most once for each group pushed.                        *)
LEMMA NoWrapEdge ==
    ASSUME CopyState, NoWrap, NEW freeze \in BOOLEAN, NEW W \in SUBSET Types,
           NEW entry \in EntriesOf(Payload), EdgeIs(freeze, W, entry)
    PROVE  NoWrap'
<1>1. Spacing /\ RingsSound
  BY DEF CopyState
<1> SUFFICES ASSUME Len(pushed') - first' + 1 < QUEUE_LENGTH, NEW t \in Types
             PROVE  /\ varrays'[t].tail <= varrays'[t].head
                    /\ varrays'[t].head <= Len(pushed') - first' + 1
  BY DEF NoWrap
<1> DEFINE c == Len(pushed) - first + 1
<1>2. /\ first' = first /\ first \in Nat \ {0} /\ Len(pushed) \in Nat
      /\ Len(pushed') \in Nat /\ Len(pushed') >= Len(pushed)
  BY <1>1, EdgeKinds
<1>3. W # {} => Len(pushed') = Len(pushed) + 1
  BY <1>1, EdgeKinds
<1>4. c \in Int /\ c <= Len(pushed') - first' + 1 /\ c < QUEUE_LENGTH
      /\ QUEUE_LENGTH \in Nat
  BY <1>2, VarrayAssumption DEF VarrayAssumption
<1>5. varrays[t].tail <= varrays[t].head /\ varrays[t].head <= c
  BY <1>4 DEF NoWrap
<1>6. varrays[t] \in RegistersOf(Payload)
      /\ varrays[t].head \in Slots /\ varrays[t].tail \in Slots
  BY <1>1, RingAt, RegisterTypes
<1>7. varrays[t].head \in Nat /\ varrays[t].tail \in Nat
      /\ varrays[t].head < QUEUE_LENGTH /\ varrays[t].tail < QUEUE_LENGTH
  BY <1>4, <1>6 DEF Slots
<1>8. /\ varrays'[t].head = IF t \in W THEN NextSlot(varrays[t].head) ELSE varrays[t].head
      /\ varrays'[t].tail = IF Takes(t, freeze) THEN NextSlot(varrays[t].tail)
                            ELSE varrays[t].tail
  BY <1>1, RingFields
<1>9. /\ varrays'[t].head \in Nat
      /\ varrays[t].head <= varrays'[t].head
      /\ varrays'[t].head <= Len(pushed') - first' + 1
  <2>1. CASE t \in W
    <3>1. c + 1 = Len(pushed') - first' + 1
      BY <1>2, <1>3, <2>1
    <3>2. varrays[t].head + 1 < QUEUE_LENGTH
      BY <1>4, <1>5, <1>7, <3>1
    <3>3. varrays'[t].head = varrays[t].head + 1
      BY <1>4, <1>7, <1>8, <2>1, <3>2 DEF NextSlot
    <3> QED
      BY <1>4, <1>5, <1>7, <3>1, <3>3
  <2>2. CASE t \notin W
    BY <1>2, <1>4, <1>5, <1>7, <1>8, <2>2
  <2> QED
    BY <2>1, <2>2
<1>10. varrays'[t].tail <= varrays'[t].head
  <2>1. CASE Takes(t, freeze)
    <3>1. varrays[t].tail \in LiveIn(varrays[t])
      BY <1>1, <2>1, RingKept
    <3>2. varrays[t].head # varrays[t].tail
      BY <1>6, <3>1, RegisterTypes
    <3>3. varrays[t].tail < varrays[t].head
      BY <1>5, <1>7, <3>2
    <3>4. varrays'[t].tail = varrays[t].tail + 1
      BY <1>4, <1>7, <1>8, <2>1, <3>3 DEF NextSlot
    <3> QED
      BY <1>7, <1>9, <3>3, <3>4
  <2>2. CASE ~ Takes(t, freeze)
    BY <1>5, <1>7, <1>8, <1>9, <2>2
  <2> QED
    BY <2>1, <2>2
<1> QED
  BY <1>9, <1>10

(* Without a wrap no tail is stuck.                                        *)
LEMMA NotStuck ==
    ASSUME RingsSound, NoWrap, Len(pushed) - first + 1 < QUEUE_LENGTH, NEW t \in Types
    PROVE  ~ TailStuck(t)
<1> SUFFICES ASSUME TailStuck(t) PROVE FALSE
  OBVIOUS
<1>1. varrays[t] \in RegistersOf(Payload) /\ Intact(varrays[t], varray_read_pos)
  BY DEF RingsSound, CopiesTyped, RingsIntact
<1>2. varrays[t].head \in Slots /\ varrays[t].tail \in Slots
  BY <1>1, RegisterTypes
<1>3. varrays[t].head # varrays[t].tail /\ varrays[t].tail = QUEUE_LENGTH - 1
  BY DEF TailStuck
<1>4. varrays[t].tail <= varrays[t].head
  BY DEF NoWrap
<1> QED
  BY <1>2, <1>3, <1>4, VarrayAssumption DEF VarrayAssumption, Slots

-----------------------------------------------------------------------------
(* The inductive invariant of the copies.                                  *)
CopyInv ==
    /\ CopyState /\ NeverTwice /\ EachCopyOnce
    /\ Flags /\ CountedOn /\ CopiesRebuilt /\ NoWrap

(* What power up and a reset leave: rings without live slots, no groups.   *)
Fresh ==
    /\ Spacing /\ CopiesTyped /\ DeadRead /\ Untaken
    /\ ~ granted /\ empty /\ varray_read_pos = 0
    /\ first = Len(pushed) + 1
    /\ \A t \in Types : /\ varrays[t].head = 0 /\ varrays[t].tail = 0
                        /\ varrays[t].varray_len = 0 /\ ~ out[t].valid

(* Both satisfy the invariant.                                             *)
LEMMA FreshInv == Fresh => CopyInv
<1> SUFFICES ASSUME Fresh PROVE CopyInv
  OBVIOUS
<1>1. Spacing /\ CopiesTyped /\ DeadRead /\ Untaken
  BY DEF Fresh
<1>2. ~ granted /\ empty /\ varray_read_pos = 0 /\ first = Len(pushed) + 1
  BY DEF Fresh
<1>3. Len(pushed) \in Nat
  BY <1>1 DEF Spacing, PositionsTyped
<1>4. Groups = {}
  BY <1>2, <1>3 DEF Groups
<1>5. \A t \in Types : ~ out[t].valid /\ varr_len(t) = 0
                       /\ varrays[t].head = 0 /\ varrays[t].tail = 0
  BY DEF Fresh, varr_len
<1>6. \A t \in Types : LiveIn(varrays[t]) = {}
  <2> SUFFICES ASSUME NEW t \in Types PROVE LiveIn(varrays[t]) = {}
    OBVIOUS
  <2>1. varrays[t] \in RegistersOf(Payload)
    BY <1>1 DEF CopiesTyped
  <2> QED
    BY <1>5, <2>1, RegisterTypes
<1>7. RingsSound
  <2>1. RingsIntact
    BY <1>5, <1>6 DEF RingsIntact, Intact, StuckAt
  <2>2. Room
    BY <1>2 DEF Room
  <2>3. ReadNear
    BY <1>2, <1>5, TypeValues DEF ReadNear
  <2>4. LenFree
    BY <1>1, <1>5 DEF LenFree, Spacing, PositionsTyped
  <2> QED
    BY <1>1, <2>1, <2>2, <2>3, <2>4 DEF RingsSound
<1>8. Contents
  BY <1>1, <1>4, <1>6 DEF Contents, Held, LiveHeld
<1>9. OutKnown
  BY <1>5 DEF OutKnown
<1>10. NeverTwice /\ EachCopyOnce
  BY <1>4 DEF NeverTwice, EachCopyOnce
<1>11. Flags /\ CountedOn
  BY <1>6 DEF Flags, CountedOn, FlagRight
<1>12. CopiesRebuilt
  BY <1>4 DEF CopiesRebuilt
<1>13. NoWrap
  BY <1>2, <1>3, <1>5 DEF NoWrap
<1> QED
  BY <1>1, <1>7, <1>8, <1>9, <1>10, <1>11, <1>12, <1>13 DEF CopyInv, CopyState

(* Power up.                                                               *)
LEMMA CopyInit == Init => CopyInv
<1> SUFFICES ASSUME Init PROVE Fresh
  BY FreshInv
<1>1. Spacing
  BY SpacingInit
<1>2. Len(pushed) = 0 /\ first = 1 /\ taken = [n \in 1 .. MaxPushes |-> 0] /\ raced = {}
      /\ empty = TRUE /\ granted = FALSE /\ varray_read_pos = 0
      /\ out = [t \in Types |-> Idle] /\ varrays = [t \in Types |-> PowerUp]
  BY DEF Init
<1>3. 0 \in Slots
  BY VarrayAssumption DEF VarrayAssumption, Slots
<1>4. PowerUp \in RegistersOf(Payload) /\ PowerUp.head = 0 /\ PowerUp.tail = 0
      /\ PowerUp.varray_len = 0 /\ \A s \in Slots : PowerUp.mem[s].dat = Nothing
  <2>1. Unwritten \in EntriesOf(Payload) /\ Unwritten.dat = Nothing
    BY DEF Unwritten, EntriesOf, Payload
  <2>2. [s \in Slots |-> Unwritten] \in [Slots -> EntriesOf(Payload)]
    BY <2>1
  <2> QED
    BY <1>3, <2>1, <2>2 DEF PowerUp, AfterReset, RegistersOf
<1>5. Idle \in Output /\ ~ Idle.valid
  BY DEF Idle, Output
<1>6. CopiesTyped
  <2>1. varrays \in [Types -> RegistersOf(Payload)]
    BY <1>2, <1>4
  <2>2. out \in [Types -> Output]
    BY <1>2, <1>5
  <2>3. taken \in [1 .. MaxPushes -> Nat]
    BY <1>2
  <2>4. empty \in BOOLEAN /\ granted \in BOOLEAN
    BY DEF Init
  <2>5. raced \subseteq 1 .. Len(pushed)
    BY <1>2
  <2>6. Len(pushed) <= MaxPushes /\ first <= Len(pushed) + 1
    BY <1>2, QueueAssumption DEF QueueAssumption
  <2> QED
    BY <2>1, <2>2, <2>3, <2>4, <2>5, <2>6 DEF CopiesTyped
<1>7. DeadRead
  BY <1>2, <1>4 DEF DeadRead
<1>8. Untaken
  BY <1>2 DEF Untaken
<1> QED
  BY <1>1, <1>2, <1>4, <1>5, <1>6, <1>7, <1>8 DEF Fresh

(* A reset throws the groups away; what is left in the rings and in taken  *)
(* belongs to groups that count no longer.                                 *)
LEMMA CopyReset == CopyInv /\ Reset => CopyInv'
<1> SUFFICES ASSUME CopyInv, Reset PROVE Fresh'
  BY FreshInv, PTL
<1>1. Spacing /\ RingsSound /\ Contents /\ OutKnown /\ Untaken /\ CopiesTyped
  BY DEF CopyInv, CopyState, RingsSound
<1>2. Spacing'
  BY <1>1, SpacingReset
<1>3. /\ varrays' = [t \in Types |-> AfterReset(varrays[t].mem)]
      /\ pushed' = pushed /\ taken' = taken /\ raced' = raced /\ empty' = TRUE
      /\ granted' = FALSE /\ out' = [t \in Types |-> Idle] /\ varray_read_pos' = 0
      /\ first' = Len(pushed) + 1
  BY DEF Reset
<1>4. Len(pushed) \in Nat
  BY <1>1 DEF Spacing, PositionsTyped
<1>5. ASSUME NEW t \in Types
      PROVE  /\ varrays'[t] \in RegistersOf(Payload)
             /\ varrays'[t].head = 0 /\ varrays'[t].tail = 0
             /\ varrays'[t].varray_len = 0 /\ varrays'[t].mem = varrays[t].mem
  <2>1. varrays'[t] = AfterReset(varrays[t].mem)
    BY <1>3
  <2>2. varrays[t].mem \in [Slots -> EntriesOf(Payload)]
    BY <1>1 DEF CopiesTyped, RegistersOf
  <2>3. 0 \in Slots
    BY VarrayAssumption DEF VarrayAssumption, Slots
  <2> QED
    BY <2>1, <2>2, <2>3 DEF AfterReset, RegistersOf
<1>6. Idle \in Output /\ ~ Idle.valid
  BY DEF Idle, Output
<1>7. CopiesTyped'
  <2>1. varrays' \in [Types -> RegistersOf(Payload)]
    BY <1>3, <1>5
  <2>2. out' \in [Types -> Output]
    BY <1>3, <1>6
  <2>3. empty' \in BOOLEAN /\ granted' \in BOOLEAN
    BY DEF Reset
  <2>4. taken' \in [1 .. MaxPushes -> Nat]
    BY <1>1, <1>3 DEF CopiesTyped
  <2>5. raced' \subseteq 1 .. Len(pushed')
    BY <1>1, <1>3 DEF CopiesTyped
  <2>6. Len(pushed') <= MaxPushes
    BY <1>1, <1>3 DEF CopiesTyped
  <2>7. first' <= Len(pushed') + 1
    BY <1>3, <1>4
  <2> QED
    BY <2>1, <2>2, <2>3, <2>4, <2>5, <2>6, <2>7 DEF CopiesTyped
<1>8. DeadRead'
  <2> SUFFICES ASSUME NEW t \in Types, NEW s \in Slots,
                      varrays'[t].mem[s].dat # Nothing
               PROVE  /\ varrays'[t].mem[s].dat.instr \in 1 .. Len(pushed')
                      /\ varrays'[t].mem[s].dat.instr < first'
    BY DEF DeadRead
  <2> DEFINE d == varrays[t].mem[s].dat
  <2>1. varrays'[t].mem[s].dat = d
    BY <1>5
  <2>2. d.instr \in 1 .. Len(pushed)
    <3>1. CASE s \in LiveIn(varrays[t])
      <4>1. PICK n \in Groups : varrays[t].mem[s] = EntryOf(n)
        BY <1>1, <3>1 DEF Contents, LiveHeld
      <4>2. EntryOf(n).dat = InstrOf(n) /\ InstrOf(n).instr = n /\ n \in 1 .. Len(pushed)
        BY <1>1, GroupsTyped
      <4> QED
        BY <4>1, <4>2
    <3>2. CASE s \notin LiveIn(varrays[t])
      BY <1>1, <2>1, <3>2 DEF Contents, DeadRead
    <3> QED
      BY <3>1, <3>2
  <2> QED
    BY <1>3, <1>4, <2>1, <2>2
<1>9. Untaken'
  BY <1>1, <1>3 DEF Untaken
<1> QED
  BY <1>2, <1>3, <1>5, <1>6, <1>7, <1>8, <1>9 DEF Fresh

(* An edge.                                                                *)
LEMMA CopyEdge ==
    ASSUME CopyInv, NEW freeze \in BOOLEAN, Edge(freeze)
    PROVE  CopyInv'
<1>1. Spacing /\ RingsSound /\ Contents /\ OutKnown /\ Untaken
  BY DEF CopyInv, CopyState
<1>2. CopyState /\ NeverTwice /\ EachCopyOnce /\ Flags /\ CountedOn
      /\ CopiesRebuilt /\ NoWrap
  BY DEF CopyInv
<1>3. PICK W \in SUBSET Types, entry \in EntriesOf(Payload) : EdgeIs(freeze, W, entry)
  BY <1>1, EdgeForm
<1>4. Spacing'
  BY <1>1, SpacingPush, SpacingStep DEF Edge
<1>5. CopyState'
  BY <1>1, <1>3, <1>4, RingsEdge, ContentsEdge, OutKnownEdge, UntakenEdge DEF CopyState
<1> QED
  BY <1>2, <1>3, <1>5, OnceEdge, FlagsEdge, CountedOnEdge, RebuiltEdge, NoWrapEdge
     DEF CopyInv

(* Nothing.                                                                *)
LEMMA CopyUnchanged == CopyInv /\ UNCHANGED vars => CopyInv'
<1> SUFFICES ASSUME CopyInv, UNCHANGED vars PROVE CopyInv'
  OBVIOUS
<1>1. Spacing'
  BY SpacingUnchanged DEF CopyInv, CopyState
<1> QED
  BY <1>1 DEF vars, CopyInv, CopyState, RingsSound, CopiesTyped, RingsIntact, Room,
     ReadNear, LenFree, varr_len, Contents, Held, LiveHeld, DeadRead, EntryOf, Groups,
     OutKnown, Untaken, NeverTwice, EachCopyOnce, Copies, InOutput, Unread, Lost,
     TailStuck, TailEnd, Flags, RacedInstrs, CountedOn, CopiesRebuilt, NoWrap

(* The inductive invariant of the copies holds in every reachable state.   *)
LEMMA CopyInvariant == Spec => []CopyInv
<1>1. CopyInv /\ [Next]_vars => CopyInv'
  BY CopyReset, CopyEdge, CopyUnchanged DEF Next
<1> QED
  BY CopyInit, <1>1, PTL DEF Spec

-----------------------------------------------------------------------------
(* In every reachable state a copy that comes out carries the port, the    *)
(* thread and the address of its place in its group, although the copies   *)
(* share one entry and the output counts on from its last value: the flag  *)
(* that starts the count (varray.sv, iq.sv:163-212) is right for every     *)
(* group that was not placed right behind the read of an empty varray.     *)
THEOREM CopiesAlwaysRebuilt == Spec => []CopiesRebuilt
  BY CopyInvariant, PTL DEF CopyInv

(* In every reachable state no copy of a group has been issued, or is      *)
(* still to be issued, a second time: freeze holds an output register      *)
(* without the pipelines taking it twice (iq.sv:213, top.sv:36).           *)
THEOREM NoCopyTwice == Spec => []NeverTwice
  BY CopyInvariant, PTL DEF CopyInv

(* In every reachable state each copy of a group has been taken, waits in  *)
(* an output register or is at a position still to be read.  The one       *)
(* exception is a group behind a stuck tail: a tail that rests in the last *)
(* slot of the ring, behind a head that wrapped, where queue_size counts   *)
(* one entry too few (varray.sv:27) and the tail did not move on.          *)
THEOREM OnceUnlessTailStuck == Spec => []EachCopyOnce
  BY CopyInvariant, PTL DEF CopyInv

(* Until the groups since the last reset fill the ring there is no wrap,   *)
(* so each of their copies reaches its pipeline once, without exception    *)
(* (iq.sv:213).                                                            *)
THEOREM NothingLostUntilWrap ==
    Spec => [](Len(pushed) - first + 1 < QUEUE_LENGTH =>
                  \A n \in Groups : Copies(n) = pushed[n].len)
<1>1. ASSUME CopyInv, Len(pushed) - first + 1 < QUEUE_LENGTH, NEW n \in Groups
      PROVE  Copies(n) = pushed[n].len
  <2>1. pushed[n].type \in Types
    BY <1>1, GroupsTyped DEF CopyInv, CopyState
  <2>2. ~ Lost(n)
    BY <1>1, <2>1, NotStuck DEF CopyInv, CopyState, Lost
  <2> QED
    BY <1>1, <2>2 DEF CopyInv, EachCopyOnce
<1>2. CopyInv => (Len(pushed) - first + 1 < QUEUE_LENGTH =>
                     \A n \in Groups : Copies(n) = pushed[n].len)
  BY <1>1
<1> QED
  BY <1>2, CopyInvariant, PTL
=============================================================================
