---------------------------- MODULE Superscalar ----------------------------
(***************************************************************************)
(* experiments/superscalar.py, "the superscalar algorithm we will          *)
(* implement in hardware": a loop is unrolled by SUPERSCALAR_WIDTH, and    *)
(* superscalar_push gives the copies of every instruction consecutive      *)
(* positions in the queue of its type, from the first position at which    *)
(* the instruction before it is done and its own queue is free.            *)
(*                                                                         *)
(* The script runs once over constants that its author edits: they are     *)
(* the set-up here, chosen at the start.                                   *)
(***************************************************************************)
EXTENDS Integers, Sequences, FiniteSets

CONSTANTS None,         \* "_", an empty position of a queue
          QueueLength,  \* 1000 positions in memory_q and processing_q
          LATENCY,
          Setups        \* [SUPERSCALAR_WIDTH, LOOP_ITER, program]

Types == {"memory", "processing"}
Instructions == {"load", "store", "matmul"}

ASSUME SuperscalarAssumption ==
    /\ None \notin [step: Nat, first: Nat, copy: Nat]
    /\ QueueLength \in Nat /\ LATENCY \in [Types -> Nat]
    /\ Setups \subseteq [SUPERSCALAR_WIDTH: Nat \ {0}, LOOP_ITER: Nat \ {0},
                         program: Seq(Instructions) \ {<< >>}]

VARIABLES setup,
          i, k,     \* the iteration and the instruction that the loops are at
          queues,   \* memory_q and processing_q; an entry is the copy, not its name
          next_spot_in_queue,
          queue_position_when_done_for_queue_type,
          prevInstrType,
          outcome   \* "running", "done" or "IndexError"

vars == <<setup, i, k, queues, next_spot_in_queue,
          queue_position_when_done_for_queue_type, prevInstrType, outcome>>

Positions == 0..QueueLength - 1
Entries == [step: Nat, first: Nat, copy: Nat]

get_type(instr) == IF instr \in {"load", "store"} THEN "memory" ELSE "processing"
Larger(a, b) == IF a > b THEN a ELSE b

instr_type == get_type(setup.program[k])
VariantCopyCount == setup.SUPERSCALAR_WIDTH \* in the last group too
copy_count ==
    IF setup.LOOP_ITER - i > setup.SUPERSCALAR_WIDTH
    THEN setup.SUPERSCALAR_WIDTH
    ELSE setup.LOOP_ITER - i
VariantInsertSpot == queue_position_when_done_for_queue_type[prevInstrType] \* free or not
insert_spot ==
    Larger(queue_position_when_done_for_queue_type[prevInstrType],
           next_spot_in_queue[instr_type])

-----------------------------------------------------------------------------
Init == /\ setup \in Setups
        /\ i = 0 /\ k = 1
        /\ queues = [type \in Types |-> [p \in Positions |-> None]]
        /\ next_spot_in_queue = [type \in Types |-> 0]
        /\ queue_position_when_done_for_queue_type = [type \in Types |-> 0]
        /\ prevInstrType = "memory"
        /\ outcome = "running"

(* The copies are written one by one, up to the first that has no place.   *)
NextSpot == insert_spot + setup.SUPERSCALAR_WIDTH
WhenDone == insert_spot + LATENCY[instr_type]
superscalar_push ==
    /\ next_spot_in_queue' = [next_spot_in_queue EXCEPT ![instr_type] = NextSpot]
    /\ queue_position_when_done_for_queue_type' =
         [queue_position_when_done_for_queue_type EXCEPT ![instr_type] = WhenDone]
    /\ prevInstrType' = instr_type
    /\ queues' = [queues EXCEPT ![instr_type] =
         [p \in Positions |->
            IF p \in insert_spot..insert_spot + copy_count - 1
            THEN [step |-> k, first |-> i, copy |-> p - insert_spot]
            ELSE queues[instr_type][p]]]

(* The two for loops of the script, "the control unit".                    *)
VariantAdvance == \* the next group does not start at the first instruction
    IF k < Len(setup.program)
    THEN k' = k + 1 /\ UNCHANGED <<i, outcome>>
    ELSE /\ k' = k + 1
         /\ i' = i + setup.SUPERSCALAR_WIDTH
         /\ outcome' = IF i' < setup.LOOP_ITER THEN "running" ELSE "done"
Advance ==
    IF k < Len(setup.program)
    THEN k' = k + 1 /\ UNCHANGED <<i, outcome>>
    ELSE /\ k' = 1
         /\ i' = i + setup.SUPERSCALAR_WIDTH
         /\ outcome' = IF i' < setup.LOOP_ITER THEN "running" ELSE "done"
Push ==
    /\ outcome = "running"
    /\ superscalar_push
    /\ IF insert_spot + copy_count <= QueueLength
       THEN Advance
       ELSE outcome' = "IndexError" /\ UNCHANGED <<i, k>>
    /\ UNCHANGED setup

Next == Push
Spec == Init /\ [][Next]_vars

-----------------------------------------------------------------------------
(* Type invariant.                                                         *)
TypeOK ==
    /\ setup \in Setups
    /\ i \in Nat /\ k \in 1..Len(setup.program)
    /\ queues \in [Types -> [Positions -> Entries \cup {None}]]
    /\ next_spot_in_queue \in [Types -> Nat]
    /\ queue_position_when_done_for_queue_type \in [Types -> Nat]
    /\ prevInstrType \in Types
    /\ outcome \in {"running", "done", "IndexError"}

(* The queues hold a schedule (Schedule.tla): superscalar_push, which      *)
(* looks at the type of one earlier instruction and at two numbers per     *)
(* type (superscalar.py:38-42), never puts a copy on top of another, in no *)
(* queue and in no group of iterations, and never starts one before        *)
(* everything its thread did earlier is done.                              *)
Occupied == {o \in Types \X Positions : queues[o[1]][o[2]] # None}
CopyAt(type, p) ==
    [type |-> type, position |-> p, step |-> queues[type][p].step,
     first |-> queues[type][p].first, copy |-> queues[type][p].copy]
placed == {CopyAt(o[1], o[2]) : o \in Occupied}
S == INSTANCE Schedule WITH Latency <- LATENCY
HoldsASchedule == S!Init /\ [][\E type \in Types, spot \in Positions, size \in 1..QueueLength :
                                 S!Place(type, spot, size, k, i)]_placed
SpacedInQueues == S!Exclusive /\ S!Spaced

(* At the end every iteration has every instruction of the program once,   *)
(* in the queue of its type, and the statistics of the script count them   *)
(* all (superscalar.py:57-63, 80-81), also when the last group of          *)
(* iterations is smaller.                                                  *)
instructions_used == Larger(next_spot_in_queue["memory"], next_spot_in_queue["processing"])
q_used(type) == Cardinality({p \in Positions : /\ p < instructions_used
                                               /\ queues[type][p] # None})
StepsOf(type) == {step \in 1..Len(setup.program) : get_type(setup.program[step]) = type}
EachIterationOnce ==
    outcome = "done" =>
      \A type \in Types :
        /\ {<<c.step, c.first + c.copy>> : c \in {d \in placed : d.type = type}}
             = StepsOf(type) \X (0..setup.LOOP_ITER - 1)
        /\ q_used(type) = Cardinality(StepsOf(type)) * setup.LOOP_ITER
=============================================================================
