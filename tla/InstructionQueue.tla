-------------------------- MODULE InstructionQueue --------------------------
(***************************************************************************)
(* The superscalar instruction queue, core/FIFO/iq.sv: the control unit    *)
(* pushes groups of up to SUPERSCALAR_WIDTH copies of an instruction, the  *)
(* three pipelines pop one copy each per clock.  Every pipeline's queue is *)
(* a varray, and all of them are read at the same position; the position   *)
(* given to a group is what keeps dependent instructions apart.            *)
(*                                                                         *)
(* One action is one clock edge.  The pushing side is the control unit     *)
(* (it sees stall_push one edge before it pushes, and ends a program with  *)
(* PROG_END, after which it pushes nothing), the popping side is top.sv:   *)
(* the pipelines take the output registers at every edge without freeze.   *)
(***************************************************************************)
EXTENDS VarrayOps, Sequences

CONSTANTS SUPERSCALAR_WIDTH,
          DMA_INSTRUCTION_LATENCY, REGFILE_INSTRUCTION_LATENCY,
          ARITH_INSTRUCTION_LATENCY, PROG_END_INSTRUCTION_LATENCY,
          MaxPushes, \* bound on the groups pushed
          MaxMixed,  \* bound on the groups pushed in any order and around resets
          MaxResets  \* bound on the resets after the first

ASSUME QueueAssumption ==
    /\ SUPERSCALAR_WIDTH \in Nat \ {0}
    /\ DMA_INSTRUCTION_LATENCY \in Nat \ {0}
    /\ REGFILE_INSTRUCTION_LATENCY \in Nat \ {0}
    /\ ARITH_INSTRUCTION_LATENCY \in Nat \ {0}
    /\ PROG_END_INSTRUCTION_LATENCY \in Nat \ {0}
    /\ MaxPushes \in Nat /\ MaxMixed \in Nat \ {0} /\ MaxResets \in Nat

(* What an element that was never written reads as is no group's entry.    *)
ASSUME NothingAssumption == Nothing \notin [instr : Nat, addr : Nat, d_addr : Nat]

LOAD_STORE == 0
RAM        == 1
ARITHMETIC == 2
PROG_END   == 3
Types      == {LOAD_STORE, RAM, ARITHMETIC, PROG_END}

VARIABLES
    varrays,                  \* the four varrays
    prev_instr_type,
    next_free_spot_in_varray,
    varray_pos_when_done,
    varray_read_pos,
    empty,
    out,                      \* the output registers of each type
    granted,                  \* the control unit saw ~stall_push one edge ago
    resets,
    \* history variables
    pushed,                   \* the groups pushed, in order, with their positions
    first,                    \* the first of them since the last reset
    taken,                    \* how many copies of each the pipelines have taken
    raced                     \* groups placed right behind a read that found
                              \* their varray empty

vars == <<varrays, prev_instr_type, next_free_spot_in_varray,
          varray_pos_when_done, varray_read_pos, empty, out, granted, resets,
          pushed, first, taken, raced>>

-----------------------------------------------------------------------------
latency(t) == CASE t = RAM        -> DMA_INSTRUCTION_LATENCY
                [] t = LOAD_STORE -> REGFILE_INSTRUCTION_LATENCY
                [] t = ARITHMETIC -> ARITH_INSTRUCTION_LATENCY
                [] OTHER          -> PROG_END_INSTRUCTION_LATENCY

Larger(a, b) == IF a > b THEN a ELSE b
max(a, b, c) == Larger(Larger(a, b), c)
max4(a, b, c, d) == Larger(Larger(a, b), Larger(c, d))

varr_len(t) == varrays[t].varray_len

(* Variants of the code, which the properties must tell from it: each      *)
(* operator named Variant... stands for the definition that follows it.    *)
VariantLenAndLatency(t) == varr_len(t)
LenAndLatency(t) == varr_len(t) + latency(t)

(* Where a group goes: a program's end behind everything else, any other   *)
(* group behind the latency of the group before it, behind the room of the *)
(* last group of its own type, and not at a position already read.         *)
insert_varray_pos(t) ==
    IF t = PROG_END
    THEN max4(LenAndLatency(LOAD_STORE), LenAndLatency(RAM),
              LenAndLatency(ARITHMETIC), LenAndLatency(PROG_END))
    ELSE max(varray_pos_when_done[prev_instr_type],
             next_free_spot_in_varray[t],
             varray_read_pos + 1)

stall_push == \E t \in Types : queue_almost_full(varrays[t])

(* What a varray holds for a group: the instruction (here the number of    *)
(* the push), an address and its stride.                                   *)
NoInstr == [instr |-> 0, addr |-> 0, d_addr |-> 0]
Idle == [valid |-> FALSE, instr |-> 0, thread |-> 0, addr |-> 0]

(* The output registers of one type: the copies of a group share an entry, *)
(* the thread number and the addresses are counted on from the last read.  *)
VariantNextThread(t) == (out[t].thread + 1) % SUPERSCALAR_WIDTH \* not restarted
NextThread(t) == IF varrays[t].is_new_superscalar_group THEN 0
                 ELSE (out[t].thread + 1) % SUPERSCALAR_WIDTH

NextOut(t) ==
    LET dat == dat_r(varrays[t], varray_read_pos)
        got == IF dat = Nothing THEN NoInstr ELSE dat
    IN  [valid  |-> dat # Nothing,
         instr  |-> got.instr,
         thread |-> NextThread(t),
         addr   |-> IF varrays[t].is_new_superscalar_group THEN got.addr
                    ELSE out[t].addr + got.d_addr]

(* A program's end is one bit, without thread and address.                 *)
NextEndOut == [Idle EXCEPT
                 !.valid = dat_r(varrays[PROG_END], varray_read_pos) # Nothing,
                 !.instr = IF dat_r(varrays[PROG_END], varray_read_pos) = Nothing
                           THEN 0 ELSE dat_r(varrays[PROG_END], varray_read_pos).instr]

VariantPop(re) == \* a frozen output is dropped
    /\ varray_read_pos' = IF re THEN varray_read_pos + 1 ELSE varray_read_pos
    /\ out' = [t \in Types |-> IF ~re THEN [out[t] EXCEPT !.valid = FALSE]
                              ELSE IF t = PROG_END THEN NextEndOut ELSE NextOut(t)]

Pop(re) ==
    /\ varray_read_pos' = IF re THEN varray_read_pos + 1 ELSE varray_read_pos
    /\ out' = IF re THEN [t \in Types |-> IF t = PROG_END THEN NextEndOut ELSE NextOut(t)]
              ELSE IF empty THEN [t \in Types |-> [out[t] EXCEPT !.valid = FALSE]]
              ELSE out

(* The pipelines take what the output registers hold.                      *)
Take(freeze) ==
    taken' = IF freeze THEN taken
             ELSE [n \in 1 .. MaxPushes |->
                     taken[n] + (IF \E t \in Types : out[t].valid /\ out[t].instr = n
                                 THEN 1 ELSE 0)]

VariantAllRead == \A t \in Types : varray_read_pos + 1 >= varr_len(t)
AllRead == \A t \in Types : varray_read_pos >= varr_len(t)

-----------------------------------------------------------------------------
Init == /\ varrays = [t \in Types |-> PowerUp]
        /\ prev_instr_type = LOAD_STORE
        /\ next_free_spot_in_varray = [t \in Types |-> 0]
        /\ varray_pos_when_done = [t \in Types |-> 0]
        /\ varray_read_pos = 0
        /\ empty = TRUE
        /\ out = [t \in Types |-> Idle]
        /\ granted = FALSE
        /\ resets = 0
        /\ pushed = << >> /\ first = 1
        /\ taken = [n \in 1 .. MaxPushes |-> 0]
        /\ raced = {}

Reset == /\ resets < MaxResets
         /\ Len(pushed) <= MaxMixed
         /\ resets' = resets + 1
         /\ varrays' = [t \in Types |-> AfterReset(varrays[t].mem)]
         /\ prev_instr_type' = LOAD_STORE
         /\ next_free_spot_in_varray' = [t \in Types |-> 0]
         /\ varray_pos_when_done' = [t \in Types |-> 0]
         /\ varray_read_pos' = 0
         /\ empty' = TRUE
         /\ out' = [t \in Types |-> Idle]
         /\ granted' = FALSE
         /\ first' = Len(pushed) + 1
         /\ UNCHANGED <<pushed, taken, raced>>

(* An edge without a push.                                                 *)
Step(freeze) ==
    LET re == ~empty /\ ~freeze
    IN  /\ varrays' = [t \in Types |->
                         Clock(varrays[t], FALSE, Unwritten, re, varray_read_pos)]
        /\ empty' = IF re THEN AllRead ELSE empty
        /\ Pop(re) /\ Take(freeze)
        /\ granted' = ~stall_push
        /\ UNCHANGED <<prev_instr_type, next_free_spot_in_varray,
                       varray_pos_when_done, resets, pushed, first, raced>>

(* Group n is pushed within the bounds: after MaxMixed groups a program    *)
(* only repeats its last instruction, as a loop of one instruction does,   *)
(* until it ends.                                                          *)
WithinBounds(n, t, copy_count) ==
    /\ n <= MaxPushes
    /\ n > MaxMixed => /\ resets = 0
                       /\ t \in {pushed[n - 1].type, PROG_END}
                       /\ copy_count = SUPERSCALAR_WIDTH

(* An edge with a push of a group of copy_count copies.  The varray of a   *)
(* program's end is given one element whatever copy_count says.            *)
Push(freeze, in_instr_type, copy_count) ==
    LET re == ~empty /\ ~freeze
        n == Len(pushed) + 1
        pos == insert_varray_pos(in_instr_type)
        len == IF in_instr_type = PROG_END THEN 1 ELSE copy_count
        entry == [start |-> pos, len |-> len,
                  dat |-> [instr |-> n, addr |-> n, d_addr |-> 1]]
        target == varrays[in_instr_type]
        clocked(t, we) == Clock(varrays[t], we, entry, re, varray_read_pos)
    IN  /\ granted
        /\ WithinBounds(n, in_instr_type, copy_count)
        /\ n > first => pushed[n - 1].type # PROG_END
        /\ varrays' = [t \in Types |-> IF t = in_instr_type THEN clocked(t, TRUE)
                                       ELSE clocked(t, FALSE)]
        /\ varray_pos_when_done' = [varray_pos_when_done EXCEPT
                                      ![in_instr_type] = pos + latency(in_instr_type)]
        /\ next_free_spot_in_varray' = [next_free_spot_in_varray EXCEPT
                                          ![in_instr_type] = pos + SUPERSCALAR_WIDTH]
        /\ prev_instr_type' = in_instr_type
        /\ empty' = IF copy_count = 1 /\ re THEN empty ELSE FALSE
        /\ Pop(re) /\ Take(freeze)
        /\ granted' = FALSE
        /\ pushed' = Append(pushed, [type |-> in_instr_type, pos |-> pos, len |-> len])
        /\ raced' = IF re /\ pos = varray_read_pos + 1 /\ target.head = target.tail
                    THEN raced \cup {n} ELSE raced
        /\ UNCHANGED <<resets, first>>

Edge(freeze) == \/ Step(freeze)
                \/ \E t \in Types, c \in 1 .. SUPERSCALAR_WIDTH : Push(freeze, t, c)

Next == Reset \/ \E freeze \in BOOLEAN : Edge(freeze)

(* The DMA pipeline does not freeze the core forever.                      *)
Spec == Init /\ [][Next]_vars /\ WF_vars(Edge(FALSE))

-----------------------------------------------------------------------------
Groups == first .. Len(pushed)
GroupOf == [type : Types, pos : Nat, len : 1 .. SUPERSCALAR_WIDTH]

(* The pipelines have no interlock: a copy may only come out when the copy *)
(* of the same thread of every earlier group has had its latency, two      *)
(* groups of one type may not overlap, and the end of the program may only *)
(* come when the last copy of everything before it is done.  It holds for  *)
(* any two groups, although a position is chosen from the previous group   *)
(* and the previous one of the type alone (iq.sv:47-58).                   *)
Behind(m, n) ==
    /\ pushed[n].pos >= pushed[m].pos + latency(pushed[m].type)
    /\ pushed[n].type = pushed[m].type =>
          pushed[n].pos >= pushed[m].pos + pushed[m].len
    /\ pushed[n].type = PROG_END =>
          pushed[n].pos >= pushed[m].pos + pushed[m].len - 1
                             + latency(pushed[m].type)

LatenciesKept == \A m, n \in Groups : m < n => Behind(m, n)

Unread(n) == LET end == pushed[n].pos + pushed[n].len
             IN  IF varray_read_pos <= pushed[n].pos THEN pushed[n].len
                 ELSE IF varray_read_pos < end THEN end - varray_read_pos ELSE 0

InOutput(n) == IF \E t \in Types : out[t].valid /\ out[t].instr = n THEN 1 ELSE 0

Copies(n) == taken[n] + InOutput(n) + Unread(n)

(* The tail of a type is stuck once it has been read to its end in the     *)
(* last slot of the ring, behind a head that has wrapped: there queue_size *)
(* counts one entry too few, and a queue of one counts as empty            *)
(* (varray.sv:27, 41).  It rests there until a reset, and the groups of    *)
(* the type that end after it are lost.                                    *)
TailEnd(t) == EndOf(varrays[t].mem[varrays[t].tail])
TailStuck(t) == /\ varrays[t].head # varrays[t].tail
                /\ varrays[t].tail = QUEUE_LENGTH - 1
                /\ TailEnd(t) <= varray_read_pos
Lost(n) == /\ TailStuck(pushed[n].type)
           /\ TailEnd(pushed[n].type) < pushed[n].pos + pushed[n].len

(* Each copy of a group reaches its pipeline once and only once: it is     *)
(* taken already, or in an output register, or at a position still to be   *)
(* read.  No edge loses one, whatever freeze, empty and a push on the same *)
(* edge do (top.sv:36 and iq.sv:213 ask whether one can) - except behind a *)
(* stuck tail, where copies are lost indeed.                               *)
EachCopyOnce == \A n \in Groups : Lost(n) \/ Copies(n) = pushed[n].len

(* The copies of a group come out on the port of its type with the threads *)
(* 0, 1, 2, ... and the addresses base + i * stride, although all of them  *)
(* share one entry and the output counts on from whatever it held before.  *)
(* The groups in raced are excepted (iq.sv:163-212).                       *)
CopiesRebuilt ==
    \A t \in Types :
        LET n == out[t].instr
        IN  out[t].valid /\ n \in Groups =>
               /\ pushed[n].type = t
               /\ t # PROG_END /\ n \notin raced =>
                     /\ out[t].thread = taken[n]
                     /\ out[t].addr = n + taken[n]

(* When no more is pushed, as after the end of a program (MaxPushes here), *)
(* everything is issued in full sooner or later: the queue does not go     *)
(* idle with work in it, except for the groups behind a stuck tail, for    *)
(* which it does (iq.sv:213, varray.sv:27).                                *)
EverythingIssued ==
    []<>(\A n \in Groups : Lost(n) \/ taken[n] = pushed[n].len)
=============================================================================
