------------------------- MODULE ControlUnitProofs -------------------------
(***************************************************************************)
(* What the control unit does for every set of programs without empty      *)
(* loops, whatever the widths and the stalls are: its types are correct,   *)
(* it never pushes on two consecutive edges, and its loop stack is the     *)
(* nesting of the program text, so that its own assertions hold.           *)
(*                                                                         *)
(* queue.we is set in two states of the machine and cleared in two others: *)
(* PortInv says that it is only ever up in a state whose next edge clears  *)
(* it.  The nesting is the conjunct PlaceInv of the invariant Inv: in the  *)
(* states that read an instruction the stack is the nesting at pc, in      *)
(* those that move on it is already the nesting at the next pc.  The types *)
(* rest on it: the depth stays in range, and no pc or count is negative,   *)
(* because a loop's end always meets the level of its own start.           *)
(*                                                                         *)
(* The addresses are the conjunct AddressesFollow of FirstInv: as long as  *)
(* no loop has ended, every address register is the constant of its formula*)
(* plus the coefficients times the loop variables on the stack, up to the  *)
(* increment that UPDATE_APU still has to add.  A loop that starts adds the*)
(* last increment once more, which is harmless only because there is none  *)
(* before the first end of a loop (Ahead).                                 *)
(*                                                                         *)
(* The counts are the invariant CountInv: how often an instruction has     *)
(* been pushed is the number that the levels of the stack write (Reached). *)
(* Each level is a digit, its base is the total of its loop, and a loop    *)
(* that ends carries into the loop around it.                              *)
(***************************************************************************)
EXTENDS ControlUnit, FiniteSetTheorems, WellFoundedInduction, TLAPS

PortInv == /\ "we" \in DOMAIN queue
           /\ queue.we => S \in {"UPDATE_PC", "FINISH_PROGRAM_2"}

(* One edge of the machine, or a step of its environment.                  *)
Quiet == queue.we /\ started' = started => ~queue'.we

LEMMA PortInit == Init => PortInv
  BY DEF Init, Silent, PortInv

LEMMA PortReset == ASSUME PortInv, Reset PROVE PortInv' /\ Quiet
<1>1. queue' = [queue EXCEPT !.we = FALSE, !.type = "LOAD_STORE", !.copy_count = 0]
  BY DEF Reset
<1>2. "we" \in DOMAIN queue' /\ ~queue'.we
  BY <1>1 DEF PortInv
<1> QED
  BY <1>2 DEF PortInv, Quiet

LEMMA PortStartProgram ==
    ASSUME PortInv, NEW p \in Programs, StartProgram(p), started \in Nat
    PROVE  PortInv' /\ Quiet
  BY DEF PortInv, StartProgram, Quiet

(* The states that neither push nor clear the port are left and entered    *)
(* with it down.                                                           *)
LEMMA PortEdge ==
    ASSUME PortInv, NEW stall \in BOOLEAN, Edge(stall)
    PROVE  PortInv' /\ Quiet
<1>1. CASE S \notin {"UPDATE_PC", "FINISH_PROGRAM_2"} /\ UNCHANGED queue
  BY <1>1 DEF PortInv, Quiet
<1>2. CASE InsertToQueue(stall)
  <2>1. S = "INSERT_TO_QUEUE" /\ S' = "UPDATE_PC"
    BY <1>2 DEF InsertToQueue
  <2>2. "we" \in DOMAIN queue'
    BY <1>2 DEF InsertToQueue
  <2> QED
    BY <2>1, <2>2 DEF PortInv, Quiet
<1>3. CASE FinishProgram1(stall)
  <2>1. S = "FINISH_PROGRAM_1" /\ S' = "FINISH_PROGRAM_2"
    BY <1>3 DEF FinishProgram1
  <2>2. queue' = [queue EXCEPT !.we = TRUE, !.type = "PROG_END"]
    BY <1>3 DEF FinishProgram1
  <2> QED
    BY <2>1, <2>2 DEF PortInv, Quiet
<1>4. CASE UpdatePc \/ FinishProgram2
  <2>1. queue' = [queue EXCEPT !.we = FALSE]
    BY <1>4 DEF UpdatePc, FinishProgram2
  <2>2. "we" \in DOMAIN queue' /\ ~queue'.we
    BY <2>1 DEF PortInv
  <2> QED
    BY <2>2 DEF PortInv, Quiet
<1>5. CASE \/ FetchProgram \/ PrepareProgram0 \/ PrepareProgram1 \/ PrepareProgram2
           \/ Decode \/ StartNewLoop \/ IncrementLoop \/ UpdateApu \/ Wait(stall)
  <2>1. S \notin {"UPDATE_PC", "FINISH_PROGRAM_2"} /\ UNCHANGED queue
    BY <1>5 DEF FetchProgram, PrepareProgram0, PrepareProgram1, PrepareProgram2,
                LoadFormulas, Decode, StartNewLoop, IncrementLoop, UpdateApu, Wait
  <2> QED
    BY <1>1, <2>1
<1> QED
  BY <1>2, <1>3, <1>4, <1>5 DEF Edge

LEMMA StartedCounts == Init => started \in Nat
  BY DEF Init

LEMMA StartedStep == ASSUME started \in Nat, [Next]_vars PROVE started' \in Nat
<1>1. CASE Reset
  BY <1>1 DEF Reset
<1>2. CASE \E p \in Programs : StartProgram(p)
  BY <1>2 DEF StartProgram
<1>3. ASSUME NEW stall \in BOOLEAN, Edge(stall) PROVE started' \in Nat
  <2>1. UNCHANGED environment
    BY <1>3 DEF Edge, FetchProgram, PrepareProgram0, PrepareProgram1,
                PrepareProgram2, LoadFormulas, Decode, StartNewLoop, IncrementLoop,
                UpdateApu, InsertToQueue, UpdatePc, FinishProgram1, FinishProgram2, Wait
  <2> QED
    BY <2>1 DEF environment
<1>4. CASE UNCHANGED vars
  BY <1>4 DEF vars, environment
<1> QED
  BY <1>1, <1>2, <1>3, <1>4 DEF Next

(* The instruction queue counts a push into its fill one edge late, and    *)
(* the control unit looks at stall_push one edge early: pushes are never   *)
(* back to back (control_unit.sv:157, 182, 188, 194).                      *)
THEOREM PushesAlwaysSpaced == Spec => PushesSpaced
<1> DEFINE Inv == PortInv /\ started \in Nat
<1>1. Init => Inv
  BY PortInit, StartedCounts
<1>2. Inv /\ [Next]_vars => Inv' /\ [Quiet]_vars
  <2> SUFFICES ASSUME Inv, [Next]_vars PROVE Inv' /\ [Quiet]_vars
    OBVIOUS
  <2>1. started' \in Nat
    BY StartedStep
  <2>2. CASE Next
    <3>1. PortInv' /\ Quiet
      BY <2>2, PortReset, PortStartProgram, PortEdge DEF Next
    <3> QED
      BY <2>1, <3>1
  <2>3. CASE UNCHANGED vars
    BY <2>1, <2>3 DEF vars, PortInv
  <2> QED
    BY <2>2, <2>3
<1>3. [Quiet]_vars => [queue.we /\ started' = started => ~queue'.we]_vars
  BY DEF Quiet
<1> QED
  BY <1>1, <1>2, <1>3, PTL DEF Spec, PushesSpaced

-----------------------------------------------------------------------------
(* The ends of the loops, and the loops around an instruction.             *)
LEMMA LoopShape ==
    ASSUME NEW prog, Encoded(prog), WellNested(prog),
           NEW s \in StartsOf(prog)
    PROVE  /\ s \in Int /\ prog.start <= s /\ EndOf(prog, s) \in Int
           /\ s < EndOf(prog, s) /\ EndOf(prog, s) < prog.end
           /\ EndOf(prog, s) \notin StartsOf(prog)
           /\ prog.code[s].name \in Depths
           /\ HeaderOf(prog, s).iteration_count \in Word \ {0}
           /\ HeaderOf(prog, s).jump_amount \in Nat \ {0}
<1>1. s \in DOMAIN prog.code /\ prog.code[s].type = "LOOP"
  BY DEF StartsOf
<1>2. s \in Int /\ prog.start <= s
  BY <1>1 DEF Encoded
<1>3. prog.code[s].name \in Depths
  BY <1>1 DEF Encoded
<1>4. HeaderOf(prog, s) \in [iteration_count : Word, jump_amount : Nat]
  BY <1>3 DEF Encoded, HeaderOf
<1>5. /\ HeaderOf(prog, s).iteration_count > 0 /\ HeaderOf(prog, s).jump_amount > 0
      /\ EndOf(prog, s) \in DOMAIN prog.code /\ EndOf(prog, s) \notin StartsOf(prog)
  BY DEF WellNested
<1>6. EndOf(prog, s) \in prog.start .. prog.end - 1 /\ prog.start \in Int /\ prog.end \in Int
  BY <1>5 DEF Encoded
<1>7. HeaderOf(prog, s).iteration_count \in Word \ {0}
  BY <1>4, <1>5
<1>8. HeaderOf(prog, s).jump_amount \in Nat \ {0}
  BY <1>4, <1>5
<1>9. EndOf(prog, s) = s + HeaderOf(prog, s).jump_amount
  BY DEF EndOf
<1> QED
  BY <1>2, <1>3, <1>5, <1>6, <1>7, <1>8, <1>9

LEMMA AroundFinite ==
    ASSUME NEW prog, Encoded(prog), NEW p
    PROVE  /\ IsFiniteSet(AroundOf(prog, p)) /\ AroundOf(prog, p) \subseteq StartsOf(prog)
           /\ Cardinality(AroundOf(prog, p)) \in Nat
<1>1. AroundOf(prog, p) \subseteq StartsOf(prog)
  BY DEF AroundOf
<1>2. prog.start \in Int /\ prog.end - 1 \in Int /\ StartsOf(prog) \subseteq prog.start .. prog.end - 1
  BY DEF StartsOf, Encoded
<1>3. IsFiniteSet(prog.start .. prog.end - 1)
  BY <1>2, FS_Interval
<1>4. IsFiniteSet(AroundOf(prog, p))
  BY <1>1, <1>2, <1>3, FS_Subset
<1> QED
  BY <1>1, <1>4, FS_CardinalityType

(* No loop is around the first instruction, and none is left at the end.   *)
LEMMA AroundNothing ==
    ASSUME NEW prog, Encoded(prog), WellNested(prog)
    PROVE  /\ Cardinality(AroundOf(prog, prog.start)) = 0
           /\ AroundOf(prog, prog.start) = {}
           /\ AroundOf(prog, prog.end) = {}
<1>1. prog.start \in Int /\ prog.end \in Int
  BY DEF Encoded
<1>2. AroundOf(prog, prog.start) = {}
  BY <1>1, LoopShape DEF AroundOf
<1>3. AroundOf(prog, prog.end) = {}
  BY <1>1, LoopShape DEF AroundOf
<1> QED
  BY <1>2, <1>3, FS_EmptySet

(* An instruction that is not a loop's leaves the nesting as it is.        *)
LEMMA AroundPush ==
    ASSUME NEW prog, Encoded(prog), WellNested(prog),
           NEW p \in DOMAIN prog.code, prog.code[p].type # "LOOP"
    PROVE  AroundOf(prog, p + 1) = AroundOf(prog, p)
<1>1. p \in Int /\ p \notin StartsOf(prog)
  BY DEF Encoded, StartsOf
<1>2. \A s \in StartsOf(prog) : EndOf(prog, s) # p
  BY DEF WellNested
<1>3. ASSUME NEW s \in StartsOf(prog)
      PROVE  s < p + 1 /\ p + 1 <= EndOf(prog, s) <=> s < p /\ p <= EndOf(prog, s)
  <2>1. s \in Int /\ EndOf(prog, s) \in Int /\ s # p /\ EndOf(prog, s) # p
    BY <1>1, <1>2, LoopShape
  <2> QED
    BY <2>1, <1>1
<1> QED
  BY <1>3 DEF AroundOf

(* The start of a loop puts it around what follows.                        *)
LEMMA AroundStart ==
    ASSUME NEW prog, Encoded(prog), WellNested(prog), NEW p \in StartsOf(prog)
    PROVE  /\ p \notin AroundOf(prog, p)
           /\ AroundOf(prog, p + 1) = AroundOf(prog, p) \cup {p}
           /\ Cardinality(AroundOf(prog, p + 1)) = Cardinality(AroundOf(prog, p)) + 1
           /\ Cardinality(AroundOf(prog, p)) < LOOP_CNT
<1>1. p \in Int /\ p + 1 <= EndOf(prog, p) /\ EndOf(prog, p) \in Int
  BY LoopShape
<1>2. p \notin AroundOf(prog, p)
  BY <1>1 DEF AroundOf
<1>3. ASSUME NEW s \in StartsOf(prog)
      PROVE  s < p + 1 /\ p + 1 <= EndOf(prog, s)
                <=> (s < p /\ p <= EndOf(prog, s)) \/ s = p
  <2>1. /\ s \in Int /\ EndOf(prog, s) \in Int
        /\ EndOf(prog, s) \notin StartsOf(prog)
    BY LoopShape
  <2>2. EndOf(prog, s) # p
    BY <2>1
  <2> QED
    BY <2>1, <2>2, <1>1
<1>4. AroundOf(prog, p + 1) = AroundOf(prog, p) \cup {p}
  BY <1>3 DEF AroundOf
<1>5. Cardinality(AroundOf(prog, p + 1)) = Cardinality(AroundOf(prog, p)) + 1
  BY <1>2, <1>4, AroundFinite, FS_AddElement
<1> QED
  BY <1>2, <1>4, <1>5 DEF WellNested

(* The loops around a loop are around all of it, and it is deeper.         *)
LEMMA AroundInner ==
    ASSUME NEW prog, Encoded(prog), WellNested(prog), NEW p \in Int,
           NEW s \in AroundOf(prog, p)
    PROVE  /\ AroundOf(prog, s) \subseteq AroundOf(prog, p)
           /\ Cardinality(AroundOf(prog, s)) < Cardinality(AroundOf(prog, p))
           /\ Cardinality(AroundOf(prog, s)) \in Depths
<1>1. s \in StartsOf(prog) /\ s < p /\ p <= EndOf(prog, s)
  BY DEF AroundOf
<1>2. ASSUME NEW t \in AroundOf(prog, s) PROVE t \in AroundOf(prog, p)
  <2>1. t \in StartsOf(prog) /\ t < s /\ s <= EndOf(prog, t)
    BY <1>2 DEF AroundOf
  <2>2. EndOf(prog, s) < EndOf(prog, t)
    BY <1>1, <2>1 DEF WellNested
  <2>3. t \in Int /\ s \in Int /\ EndOf(prog, t) \in Int /\ EndOf(prog, s) \in Int
    BY <1>1, <2>1, LoopShape
  <2>4. t < p /\ p <= EndOf(prog, t)
    BY <1>1, <2>1, <2>2, <2>3
  <2> QED
    BY <2>1, <2>4 DEF AroundOf
<1>3. s \notin AroundOf(prog, s) /\ Cardinality(AroundOf(prog, s)) < LOOP_CNT
  BY <1>1, AroundStart
<1>4. IsFiniteSet(AroundOf(prog, p)) /\ Cardinality(AroundOf(prog, s)) \in Nat
      /\ Cardinality(AroundOf(prog, p)) \in Nat
  BY AroundFinite
<1>5. AroundOf(prog, s) \subseteq AroundOf(prog, p) /\ AroundOf(prog, s) # AroundOf(prog, p)
  BY <1>2, <1>3
<1>6. Cardinality(AroundOf(prog, s)) <= Cardinality(AroundOf(prog, p))
      /\ Cardinality(AroundOf(prog, s)) # Cardinality(AroundOf(prog, p))
  BY <1>4, <1>5, FS_Subset
<1>7. Cardinality(AroundOf(prog, s)) < Cardinality(AroundOf(prog, p))
  BY <1>4, <1>6
<1> QED
  BY <1>3, <1>4, <1>5, <1>7, ControlAssumption DEF Depths, ControlAssumption

(* The end of a loop is inside it and inside the loops around it; behind   *)
(* it only these are left.                                                 *)
LEMMA AroundEnd ==
    ASSUME NEW prog, Encoded(prog), WellNested(prog), NEW s \in StartsOf(prog)
    PROVE  /\ AroundOf(prog, EndOf(prog, s)) = AroundOf(prog, s) \cup {s}
           /\ AroundOf(prog, EndOf(prog, s) + 1) = AroundOf(prog, s)
           /\ AroundOf(prog, s + 1) = AroundOf(prog, EndOf(prog, s))
<1> DEFINE e == EndOf(prog, s)
<1>1. s \in Int /\ e \in Int /\ s < e /\ e \notin StartsOf(prog)
  BY LoopShape
<1>2. ASSUME NEW t \in StartsOf(prog), t # s
      PROVE  /\ (t < e /\ e <= EndOf(prog, t) <=> t < s /\ s <= EndOf(prog, t))
             /\ (t < e + 1 /\ e + 1 <= EndOf(prog, t) <=> t < s /\ s <= EndOf(prog, t))
  <2>1. t \in Int /\ EndOf(prog, t) \in Int /\ t < EndOf(prog, t)
        /\ EndOf(prog, t) \notin StartsOf(prog) /\ t # e
    BY <1>1, LoopShape
  <2>2. t < s /\ s <= EndOf(prog, t) => e < EndOf(prog, t)
    BY DEF WellNested
  <2>3. s < t /\ t <= e => EndOf(prog, t) < e
    BY DEF WellNested
  <2>4. EndOf(prog, t) # s
    BY <2>1
  <2> HIDE DEF e
  <2>5. CASE t < s
    BY <2>1, <2>2, <2>4, <2>5, <1>1
  <2>6. CASE s < t
    BY <2>1, <2>3, <2>4, <2>6, <1>1
  <2> QED
    BY <2>1, <1>1, <1>2, <2>5, <2>6
<1>3. AroundOf(prog, e) = AroundOf(prog, s) \cup {s}
  <2>1. s < e /\ e <= EndOf(prog, s)
    BY <1>1
  <2> QED
    BY <1>2, <2>1 DEF AroundOf
<1>4. AroundOf(prog, e + 1) = AroundOf(prog, s)
  <2>1. ~(e + 1 <= EndOf(prog, s)) /\ ~(s < s)
    BY <1>1
  <2> QED
    BY <1>2, <2>1 DEF AroundOf
<1> QED
  BY <1>3, <1>4, AroundStart

-----------------------------------------------------------------------------
(* The stack holds the loops around p, outermost loop first, and none of   *)
(* them has run to its end.                                                *)
Level == [value : Word, total : Word, jump : Nat, independent : BOOLEAN, name : Depths]
HoldsLoop(prog, s, level) ==
    /\ level.name = prog.code[s].name
    /\ level.total = HeaderOf(prog, s).iteration_count
    /\ level.jump = HeaderOf(prog, s).jump_amount
    /\ level.value < level.total
    /\ level.independent = prog.code[s].is_independent
Nests(prog, p, depth, stack) ==
    /\ depth + 1 = Cardinality(AroundOf(prog, p))
    /\ \A s \in AroundOf(prog, p) :
          HoldsLoop(prog, s, stack[Cardinality(AroundOf(prog, s))])

(* The depths are what is left of an index of LOG_LOOP_CNT bits.           *)
LEMMA DepthsShape == /\ LOOP_CNT \in Nat \ {0} /\ 0 \in Depths
                     /\ \A d \in Int : d % LOOP_CNT \in Depths
                     /\ \A n \in Nat : n < LOOP_CNT => n \in Depths
                     /\ \A d \in Depths : d \in Nat /\ d < LOOP_CNT /\ d % LOOP_CNT = d
  BY ControlAssumption DEF ControlAssumption, Depths

(* A new level for the loop that starts extends the stack.                 *)
LEMMA NestsStart ==
    ASSUME NEW prog, Encoded(prog), WellNested(prog), NEW p \in StartsOf(prog),
           NEW depth \in Int, NEW stack \in [Depths -> Level], NEW level,
           Nests(prog, p, depth, stack), HoldsLoop(prog, p, level),
           NEW d, d = (depth + 1) % LOOP_CNT
    PROVE  d \in Depths /\ Nests(prog, p + 1, d, [stack EXCEPT ![d] = level])
<1> DEFINE N(q) == Cardinality(AroundOf(prog, q))
           new == [stack EXCEPT ![d] = level]
<1>1. N(p) \in Nat /\ N(p) < LOOP_CNT /\ N(p + 1) = N(p) + 1
      /\ AroundOf(prog, p + 1) = AroundOf(prog, p) \cup {p}
  BY AroundFinite, AroundStart
<1>2. depth + 1 = N(p) /\ \A s \in AroundOf(prog, p) : HoldsLoop(prog, s, stack[N(s)])
  BY DEF Nests
<1>3. N(p) \in Depths
  BY <1>1, DepthsShape
<1>4. d = N(p) /\ d \in Depths
  BY <1>2, <1>3, DepthsShape
<1>5. p \in Int
  BY LoopShape
<1>6. ASSUME NEW s \in AroundOf(prog, p) PROVE HoldsLoop(prog, s, new[N(s)])
  <2>1. N(s) < N(p) /\ N(s) \in Depths /\ N(s) \in Nat
    BY <1>5, AroundInner, AroundFinite
  <2>2. N(s) # d
    BY <2>1, <1>1, <1>4
  <2>3. new[N(s)] = stack[N(s)]
    BY <2>1, <2>2
  <2> QED
    BY <1>2, <2>3
<1>7. HoldsLoop(prog, p, new[N(p)])
  <2>1. new[N(p)] = level
    BY <1>4
  <2> QED
    BY <2>1
<1>8. \A s \in AroundOf(prog, p + 1) : HoldsLoop(prog, s, new[N(s)])
  BY <1>1, <1>6, <1>7
<1>9. d + 1 = N(p + 1)
  BY <1>1, <1>4
<1> QED
  BY <1>4, <1>8, <1>9 DEF Nests

(* At the end of a loop that loop is the innermost.                        *)
LEMMA NestsTop ==
    ASSUME NEW prog, Encoded(prog), WellNested(prog), NEW s \in StartsOf(prog),
           NEW depth \in Int, NEW stack \in [Depths -> Level],
           Nests(prog, EndOf(prog, s), depth, stack)
    PROVE  /\ depth \in Depths /\ depth % LOOP_CNT = depth
           /\ depth = Cardinality(AroundOf(prog, s))
           /\ HoldsLoop(prog, s, stack[depth])
<1>1. AroundOf(prog, EndOf(prog, s)) = AroundOf(prog, s + 1) /\ s \in AroundOf(prog, s + 1)
  BY AroundEnd, AroundStart
<1>2. Cardinality(AroundOf(prog, s + 1)) = Cardinality(AroundOf(prog, s)) + 1
      /\ Cardinality(AroundOf(prog, s)) < LOOP_CNT
  BY AroundStart
<1>3. Cardinality(AroundOf(prog, s)) \in Nat
  BY AroundFinite
<1>4. depth + 1 = Cardinality(AroundOf(prog, s + 1))
      /\ HoldsLoop(prog, s, stack[Cardinality(AroundOf(prog, s))])
  BY <1>1 DEF Nests
<1>5. depth = Cardinality(AroundOf(prog, s))
  BY <1>2, <1>3, <1>4
<1>6. depth \in Depths
  BY <1>2, <1>3, <1>5, DepthsShape
<1> QED
  BY <1>4, <1>5, <1>6, DepthsShape

(* The innermost loop is left behind its end, or goes on behind its start. *)
LEMMA NestsEnd ==
    ASSUME NEW prog, Encoded(prog), WellNested(prog), NEW s \in StartsOf(prog),
           NEW depth \in Int, NEW stack \in [Depths -> Level], NEW level,
           Nests(prog, EndOf(prog, s), depth, stack)
    PROVE  /\ Nests(prog, EndOf(prog, s) + 1, depth - 1, [stack EXCEPT ![depth] = level])
           /\ HoldsLoop(prog, s, level) =>
                Nests(prog, s + 1, depth, [stack EXCEPT ![depth] = level])
<1> DEFINE N(q) == Cardinality(AroundOf(prog, q))
           e == EndOf(prog, s)
           new == [stack EXCEPT ![depth] = level]
<1>1. /\ AroundOf(prog, e + 1) = AroundOf(prog, s)
      /\ AroundOf(prog, s + 1) = AroundOf(prog, s) \cup {s}
      /\ N(s + 1) = N(s) + 1 /\ AroundOf(prog, e) = AroundOf(prog, s + 1)
  BY AroundEnd, AroundStart
<1>2. depth \in Depths /\ depth = N(s)
  BY NestsTop
<1>3. \A t \in AroundOf(prog, s) : HoldsLoop(prog, t, stack[N(t)])
  BY <1>1 DEF Nests
<1>4. s \in Int
  BY LoopShape
<1>5. ASSUME NEW t \in AroundOf(prog, s) PROVE HoldsLoop(prog, t, new[N(t)])
  <2>1. N(t) < N(s) /\ N(t) \in Depths /\ N(t) \in Nat /\ N(s) \in Nat
    BY <1>4, AroundInner, AroundFinite
  <2>2. N(t) # depth
    BY <2>1, <1>2
  <2>3. new[N(t)] = stack[N(t)]
    BY <2>1, <2>2
  <2> QED
    BY <1>3, <2>3
<1>6. depth - 1 + 1 = N(e + 1)
  BY <1>1, <1>2
<1>7. Nests(prog, e + 1, depth - 1, new)
  BY <1>1, <1>5, <1>6 DEF Nests
<1>8. ASSUME HoldsLoop(prog, s, level) PROVE Nests(prog, s + 1, depth, new)
  <2>1. new[N(s)] = level
    BY <1>2
  <2>2. \A t \in AroundOf(prog, s + 1) : HoldsLoop(prog, t, new[N(t)])
    BY <1>1, <1>5, <1>8, <2>1
  <2>3. depth + 1 = N(s + 1)
    BY <1>1, <1>2
  <2> QED
    BY <2>2, <2>3 DEF Nests
<1> QED
  BY <1>7, <1>8

-----------------------------------------------------------------------------
(* The states that read an instruction, and those that move on.            *)
Reading == {"DECODE", "INSERT_TO_QUEUE", "START_NEW_LOOP", "INCREMENT_LOOP"}
Moving == {"UPDATE_APU", "UPDATE_PC"}
NextPc == pc + 1 - jump_amount

(* The execution queue is read only while it has a program.                *)
QueueInv == /\ Len(execution_queue) <= started
            /\ S = "PREPARE_PROGRAM_0" => execution_queue # << >>

(* Where the machine stands in the text, and that the stack is the nesting *)
(* there: at pc when an instruction is read, at the next pc when it has    *)
(* been carried out.                                                       *)
PlaceInv ==
    /\ S \in {"IDLE", "PREPARE_PROGRAM_0", "PREPARE_PROGRAM_1", "PREPARE_PROGRAM_2"} =>
          loop_cur_depth = -1
    /\ S \in {"PREPARE_PROGRAM_1", "PREPARE_PROGRAM_2"} => pc = program.start
    /\ S \notin {"IDLE", "PREPARE_PROGRAM_0"} => program_end_pc = program.end
    /\ S \notin Moving => jump_amount = 0
    /\ S \in Reading => /\ pc \in DOMAIN program.code
                        /\ Nests(program, pc, loop_cur_depth, loop_stack)
    /\ S = "INSERT_TO_QUEUE" => Instruction.type # "LOOP"
    /\ S = "START_NEW_LOOP" => pc \in StartsOf(program)
    /\ S = "INCREMENT_LOOP" => Instruction.type = "LOOP" /\ pc \notin StartsOf(program)
    /\ S \in Moving => /\ NextPc \in program.start .. program.end
                       /\ Nests(program, NextPc, loop_cur_depth, loop_stack)

Inv == TypeOK /\ QueueInv /\ PlaceInv

(* What a program of the host looks like.                                  *)
LEMMA ProgramShape ==
    ASSUME NEW prog \in Programs
    PROVE  /\ Encoded(prog) /\ WellNested(prog)
           /\ prog.start \in Nat /\ prog.end \in Nat /\ prog.start < prog.end
           /\ DOMAIN prog.code = prog.start .. prog.end - 1
           /\ prog.loops \in [Depths -> [iteration_count : Word, jump_amount : Nat]]
           /\ prog.formulas \in [APUs -> [constant : Word, coefficients : [Depths -> Word]]]
<1>1. Encoded(prog) /\ WellNested(prog)
  BY NestingAssumption
<1> QED
  BY <1>1 DEF Encoded

(* The 18-bit words: what a remainder is, and what fits.                   *)
LEMMA WordShape == /\ WORDS \in Nat \ {0} /\ SUPERSCALAR_WIDTH \in Word \ {0}
                   /\ 0 \in Word /\ 1 \in Word
                   /\ \A n \in Int : n % WORDS \in Word
                   /\ \A n \in Word : n \in Nat /\ n < WORDS
                   /\ \A n \in Nat : n < WORDS => n \in Word
  BY ControlAssumption DEF ControlAssumption, Word

(* The values after a reset have their types.                              *)
LEMMA StartShape ==
    /\ 0 \in Word /\ 0 \in Depths /\ 0 \in Nat /\ -1 \in -1 .. LOOP_CNT - 1
    /\ 0 \in 0 .. SUPERSCALAR_WIDTH /\ 0 \in 0 .. MaxPrograms /\ 0 \in 0 .. MaxResets
    /\ "IDLE" \in States
  BY ControlAssumption DEF ControlAssumption, Word, Depths, States

(* The invariant holds at power-on and after a reset: no loop is running.  *)
LEMMA InitInv == Init => Inv
<1> SUFFICES ASSUME Init PROVE Inv
  OBVIOUS
<1> USE StartShape
<1>1. program \in Programs
  BY NestingAssumption DEF Init
<1>2. NoLoop \in [value : Word, total : Word, jump : Nat, independent : BOOLEAN, name : Depths]
  BY DEF NoLoop
<1>3. NoFormula \in [Depths -> Word]
  BY DEF NoFormula
<1>4. Silent \in [we : BOOLEAN, type : {"LOAD_STORE", "RAM", "ARITHMETIC", "PROG_END"},
                  copy_count : 0 .. SUPERSCALAR_WIDTH,
                  cache_addr : Word, d_cache_addr : Word,
                  main_mem_addr : Word, d_main_mem_addr : Word]
  BY ControlAssumption DEF Silent, ControlAssumption
<1>5. execution_queue \in Seq(Programs) /\ Len(execution_queue) = 0
  BY DEF Init
<1>6. loop_stack \in [Depths -> [value : Word, total : Word, jump : Nat,
                                 independent : BOOLEAN, name : Depths]]
  BY <1>2 DEF Init
<1>7. pushed \in [DOMAIN program.code -> Word]
  BY DEF Init
<1>8. TypeOK
  <2>1. /\ S \in States /\ pc \in Nat /\ program_end_pc \in Nat
        /\ loop_cur_depth \in -1 .. LOOP_CNT - 1 /\ jump_amount \in Nat
        /\ apu_in_loop_var \in Depths /\ apu_in_di \in Word
        /\ execution_queue_read_enable \in BOOLEAN /\ loop_ended \in BOOLEAN
        /\ started \in 0 .. MaxPrograms /\ resets \in 0 .. MaxResets
    BY DEF Init
  <2>2. /\ apu_linear_formulas \in [APUs -> [Depths -> Word]]
        /\ apu_address_registers \in [APUs -> Word]
    BY <1>3 DEF Init
  <2>3. Len(execution_queue) <= MaxPrograms
    BY <1>5, ControlAssumption DEF ControlAssumption
  <2>4. queue = Silent
    BY DEF Init
  <2> QED
    BY <1>1, <1>4, <1>5, <1>6, <1>7, <2>1, <2>2, <2>3, <2>4 DEF TypeOK
<1>9. QueueInv /\ PlaceInv
  BY <1>5 DEF Init, QueueInv, PlaceInv, Reading, Moving
<1> QED
  BY <1>8, <1>9 DEF Inv

LEMMA ResetInv == ASSUME Inv, Reset PROVE Inv'
<1> USE StartShape
<1>1. TypeOK
  BY DEF Inv
<1>2. loop_stack' \in [Depths -> [value : Word, total : Word, jump : Nat,
                                  independent : BOOLEAN, name : Depths]]
  <2>1. ASSUME NEW d \in Depths
        PROVE  [NoLoop EXCEPT !.independent = loop_stack[d].independent] \in
                 [value : Word, total : Word, jump : Nat, independent : BOOLEAN, name : Depths]
    <3>1. loop_stack[d].independent \in BOOLEAN
      BY <1>1 DEF TypeOK
    <3>2. NoLoop \in [value : Word, total : Word, jump : Nat, independent : BOOLEAN, name : Depths]
      BY DEF NoLoop
    <3> QED
      BY <3>1, <3>2
  <2>2. loop_stack' = [d \in Depths |->
                         [NoLoop EXCEPT !.independent = loop_stack[d].independent]]
    BY DEF Reset
  <2> QED
    BY <2>1, <2>2
<1>3. queue' \in [we : BOOLEAN, type : {"LOAD_STORE", "RAM", "ARITHMETIC", "PROG_END"},
                  copy_count : 0 .. SUPERSCALAR_WIDTH,
                  cache_addr : Word, d_cache_addr : Word,
                  main_mem_addr : Word, d_main_mem_addr : Word]
  <2>1. 0 \in 0 .. SUPERSCALAR_WIDTH
    BY ControlAssumption DEF ControlAssumption
  <2>2. queue' = [queue EXCEPT !.we = FALSE, !.type = "LOAD_STORE", !.copy_count = 0]
    BY DEF Reset
  <2> QED
    BY <1>1, <2>1, <2>2 DEF TypeOK
<1>4. execution_queue' \in Seq(Programs) /\ Len(execution_queue') = 0
      /\ resets' \in 0 .. MaxResets
  <2>1. resets \in 0 .. MaxResets /\ MaxResets \in Nat /\ resets < MaxResets
    BY <1>1, ControlAssumption DEF Reset, TypeOK, ControlAssumption
  <2>2. resets' = resets + 1 /\ execution_queue' = << >>
    BY DEF Reset
  <2> QED
    BY <2>1, <2>2
<1>5. apu_linear_formulas' \in [APUs -> [Depths -> Word]]
      /\ apu_address_registers' \in [APUs -> Word]
  BY DEF Reset, NoFormula
<1>6. pushed' \in [DOMAIN program'.code -> Word]
  BY DEF Reset
<1>7. TypeOK'
  <2>1. /\ S' \in States /\ pc' \in Nat /\ program_end_pc' \in Nat
        /\ loop_cur_depth' \in -1 .. LOOP_CNT - 1 /\ jump_amount' \in Nat
        /\ apu_in_loop_var' \in Depths /\ apu_in_di' \in Word
        /\ execution_queue_read_enable' \in BOOLEAN /\ loop_ended' \in BOOLEAN
    BY DEF Reset
  <2>2. program' \in Programs /\ started' \in 0 .. MaxPrograms
    BY <1>1 DEF Reset, TypeOK
  <2>3. Len(execution_queue') <= MaxPrograms
    BY <1>4, ControlAssumption DEF ControlAssumption
  <2> QED
    BY <1>2, <1>3, <1>4, <1>5, <1>6, <2>1, <2>2, <2>3 DEF TypeOK
<1>8. started' \in Nat
  BY <1>7, ControlAssumption DEF TypeOK, ControlAssumption
<1>9. QueueInv' /\ PlaceInv'
  BY <1>4, <1>8 DEF Reset, QueueInv, PlaceInv, Reading, Moving
<1> QED
  BY <1>7, <1>9 DEF Inv

(* The host only adds to the execution queue.                              *)
LEMMA StartProgramInv == ASSUME Inv, NEW p \in Programs, StartProgram(p) PROVE Inv'
<1>1. TypeOK /\ started \in Nat /\ MaxPrograms \in Nat
  BY ControlAssumption DEF Inv, TypeOK, ControlAssumption
<1>2. /\ execution_queue' \in Seq(Programs) /\ execution_queue' # << >>
      /\ Len(execution_queue') = Len(execution_queue) + 1
  BY <1>1 DEF StartProgram, TypeOK
<1>3. Len(execution_queue) \in Nat
  BY <1>1 DEF TypeOK
<1>4. QueueInv'
  BY <1>1, <1>2, <1>3 DEF Inv, QueueInv, StartProgram
<1>5. started' \in 0 .. MaxPrograms
  BY <1>1 DEF StartProgram
<1>6. Len(execution_queue') <= MaxPrograms
  BY <1>1, <1>2, <1>3, <1>5 DEF Inv, QueueInv, StartProgram
<1>7. UNCHANGED <<S, pc, program_end_pc, loop_cur_depth, loop_stack, jump_amount,
                  apu_in_loop_var, apu_in_di, apu_linear_formulas,
                  apu_address_registers, queue, execution_queue_read_enable,
                  program, resets, pushed, loop_ended>>
  BY DEF StartProgram, loops, apu, history
<1>8. TypeOK'
  BY <1>1, <1>2, <1>5, <1>6, <1>7 DEF TypeOK
<1>9. PlaceInv'
  BY <1>7 DEF Inv, PlaceInv, NextPc, Instruction
<1> QED
  BY <1>4, <1>8, <1>9 DEF Inv

-----------------------------------------------------------------------------
(* The edges of the machine.                                               *)
LEMMA FetchProgramInv == ASSUME Inv, FetchProgram PROVE Inv'
<1>1. TypeOK
  BY DEF Inv
<1>2. /\ S = "IDLE" /\ S' = "PREPARE_PROGRAM_0" /\ execution_queue # << >>
      /\ execution_queue_read_enable' = TRUE
      /\ UNCHANGED <<pc, program_end_pc, loop_cur_depth, loop_stack, jump_amount,
                     apu_in_loop_var, apu_in_di, apu_linear_formulas,
                     apu_address_registers, queue, execution_queue,
                     program, started, resets, pushed, loop_ended>>
  BY DEF FetchProgram, loops, apu, fetch, environment, history
<1>3. TypeOK'
  BY <1>1, <1>2 DEF TypeOK, States
<1>4. QueueInv'
  BY <1>2 DEF Inv, QueueInv
<1>5. PlaceInv'
  BY <1>2 DEF Inv, PlaceInv, Reading, Moving
<1> QED
  BY <1>3, <1>4, <1>5 DEF Inv

(* The queue is not empty when its head is taken: only this state reads it.*)
LEMMA PrepareProgram0Inv == ASSUME Inv, PrepareProgram0 PROVE Inv'
<1>1. TypeOK
  BY DEF Inv
<1>2. /\ S = "PREPARE_PROGRAM_0" /\ S' = "PREPARE_PROGRAM_1"
      /\ program' = Head(execution_queue) /\ execution_queue' = Tail(execution_queue)
      /\ pc' = program'.start /\ program_end_pc' = program'.end
      /\ execution_queue_read_enable' = FALSE
      /\ pushed' = [i \in DOMAIN program'.code |-> 0] /\ loop_ended' = FALSE
      /\ UNCHANGED <<loop_cur_depth, loop_stack, jump_amount,
                     apu_in_loop_var, apu_in_di, apu_linear_formulas,
                     apu_address_registers, queue, started, resets>>
  BY DEF PrepareProgram0, loops, apu, environment
<1>3. execution_queue # << >> /\ execution_queue \in Seq(Programs)
      /\ Len(execution_queue) <= started /\ Len(execution_queue) <= MaxPrograms
  BY <1>1, <1>2 DEF Inv, QueueInv, TypeOK
<1>4. /\ program' \in Programs /\ execution_queue' \in Seq(Programs)
      /\ Len(execution_queue') = Len(execution_queue) - 1 /\ Len(execution_queue) \in Nat
  BY <1>2, <1>3
<1>5. started \in Nat /\ MaxPrograms \in Nat
  BY <1>1, ControlAssumption DEF TypeOK, ControlAssumption
<1>6. Len(execution_queue') <= started /\ Len(execution_queue') <= MaxPrograms
  BY <1>3, <1>4, <1>5
<1>7. pc' \in Nat /\ program_end_pc' \in Nat
  BY <1>2, <1>4, ProgramShape
<1>8. pushed' \in [DOMAIN program'.code -> Word]
  BY <1>2, StartShape
<1>9. TypeOK'
  BY <1>1, <1>2, <1>4, <1>6, <1>7, <1>8 DEF TypeOK, States
<1>10. QueueInv'
  BY <1>2, <1>6 DEF QueueInv
<1>11. PlaceInv'
  BY <1>2 DEF Inv, PlaceInv, Reading, Moving
<1> QED
  BY <1>9, <1>10, <1>11 DEF Inv

(* The formulas come out of the header whole.                              *)
LEMMA LoadFormulasTyped ==
    ASSUME TypeOK, NEW half, LoadFormulas(half)
    PROVE  /\ apu_linear_formulas' \in [APUs -> [Depths -> Word]]
           /\ apu_address_registers' \in [APUs -> Word]
           /\ execution_queue_read_enable' = FALSE
           /\ UNCHANGED <<pc, program_end_pc, loop_cur_depth, loop_stack, jump_amount,
                          apu_in_loop_var, apu_in_di, queue, execution_queue,
                          program, started, resets, pushed, loop_ended>>
<1>1. program.formulas \in [APUs -> [constant : Word, coefficients : [Depths -> Word]]]
  BY ProgramShape DEF TypeOK
<1>2. \A k \in APUs : /\ program.formulas[k].constant \in Word
                      /\ program.formulas[k].coefficients \in [Depths -> Word]
                      /\ apu_address_registers[k] \in Word
                      /\ apu_linear_formulas[k] \in [Depths -> Word]
  BY <1>1 DEF TypeOK
<1>3. apu_linear_formulas' \in [APUs -> [Depths -> Word]]
  BY <1>2 DEF LoadFormulas
<1>4. apu_address_registers' \in [APUs -> Word]
  BY <1>2 DEF LoadFormulas
<1> QED
  BY <1>3, <1>4 DEF LoadFormulas, loops, fetch, environment, history

(* The header is loaded in two halves, with pc at the first instruction.   *)
LEMMA PrepareProgram1Inv == ASSUME Inv, PrepareProgram1 PROVE Inv'
<1>1. TypeOK /\ S = "PREPARE_PROGRAM_1" /\ S' = "PREPARE_PROGRAM_2"
  BY DEF Inv, PrepareProgram1
<1>2. LoadFormulas(FirstHalf)
  BY DEF PrepareProgram1
<1>3. /\ apu_linear_formulas' \in [APUs -> [Depths -> Word]]
      /\ apu_address_registers' \in [APUs -> Word]
      /\ execution_queue_read_enable' = FALSE
      /\ UNCHANGED <<pc, program_end_pc, loop_cur_depth, loop_stack, jump_amount,
                     apu_in_loop_var, apu_in_di, queue, execution_queue,
                     program, started, resets, pushed, loop_ended>>
  BY <1>1, <1>2, LoadFormulasTyped
<1>4. TypeOK'
  BY <1>1, <1>3 DEF TypeOK, States
<1>5. QueueInv' /\ PlaceInv'
  BY <1>1, <1>3 DEF Inv, QueueInv, PlaceInv, Reading, Moving
<1> QED
  BY <1>4, <1>5 DEF Inv

LEMMA PrepareProgram2Inv == ASSUME Inv, PrepareProgram2 PROVE Inv'
<1>1. TypeOK /\ S = "PREPARE_PROGRAM_2" /\ S' = "DECODE" /\ program \in Programs
  BY DEF Inv, PrepareProgram2, TypeOK
<1>2. LoadFormulas(APUs \ FirstHalf)
  BY DEF PrepareProgram2
<1>3. /\ apu_linear_formulas' \in [APUs -> [Depths -> Word]]
      /\ apu_address_registers' \in [APUs -> Word]
      /\ execution_queue_read_enable' = FALSE
      /\ UNCHANGED <<pc, program_end_pc, loop_cur_depth, loop_stack, jump_amount,
                     apu_in_loop_var, apu_in_di, queue, execution_queue,
                     program, started, resets, pushed, loop_ended>>
  BY <1>1, <1>2, LoadFormulasTyped
<1>4. TypeOK'
  BY <1>1, <1>3 DEF TypeOK, States
<1>5. loop_cur_depth = -1 /\ pc = program.start /\ program_end_pc = program.end
      /\ jump_amount = 0
  BY <1>1 DEF Inv, PlaceInv, Moving
<1>6. pc \in DOMAIN program.code
  <2>1. /\ DOMAIN program.code = program.start .. program.end - 1
        /\ program.start \in Nat /\ program.end \in Nat /\ program.start < program.end
    BY <1>1, ProgramShape
  <2> QED
    BY <2>1, <1>5
<1>7. Nests(program, pc, loop_cur_depth, loop_stack)
  <2>1. AroundOf(program, program.start) = {}
        /\ Cardinality(AroundOf(program, program.start)) = 0
    BY <1>1, ProgramShape, AroundNothing
  <2> QED
    BY <2>1, <1>5 DEF Nests
<1>8. PlaceInv'
  BY <1>1, <1>3, <1>5, <1>6, <1>7 DEF PlaceInv, Reading, Moving
<1>9. QueueInv'
  BY <1>1, <1>3 DEF Inv, QueueInv
<1> QED
  BY <1>4, <1>8, <1>9 DEF Inv

(* DECODE sends each instruction to the state for its kind.                *)
LEMMA DecodeInv == ASSUME Inv, Decode PROVE Inv'
<1>1. /\ TypeOK /\ S = "DECODE" /\ execution_queue_read_enable' = FALSE
      /\ UNCHANGED <<pc, program_end_pc, loop_cur_depth, loop_stack, jump_amount,
                     apu_in_loop_var, apu_in_di, apu_linear_formulas,
                     apu_address_registers, queue, execution_queue,
                     program, started, resets, pushed, loop_ended>>
  BY DEF Inv, Decode, loops, apu, fetch, environment, history
<1>2. /\ pc \in DOMAIN program.code /\ Nests(program, pc, loop_cur_depth, loop_stack)
      /\ program_end_pc = program.end /\ jump_amount = 0
  BY <1>1 DEF Inv, PlaceInv, Reading, Moving
<1>3. /\ S' \in {"INSERT_TO_QUEUE", "START_NEW_LOOP", "INCREMENT_LOOP"}
      /\ S' = "INSERT_TO_QUEUE" => Instruction.type # "LOOP"
      /\ S' = "START_NEW_LOOP" => pc \in StartsOf(program)
      /\ S' = "INCREMENT_LOOP" => Instruction.type = "LOOP" /\ pc \notin StartsOf(program)
  BY <1>2 DEF Decode, Instruction, StartsOf
<1>4. TypeOK'
  BY <1>1, <1>3 DEF TypeOK, States
<1>5. Instruction' = Instruction
  BY <1>1 DEF Instruction
<1>6. PlaceInv'
  BY <1>1, <1>2, <1>3, <1>5 DEF PlaceInv, Reading, Moving
<1>7. QueueInv'
  BY <1>1, <1>3 DEF Inv, QueueInv
<1> QED
  BY <1>4, <1>6, <1>7 DEF Inv

-----------------------------------------------------------------------------
(* A new loop: the level that is written is the first free one.            *)
LEMMA StartNewLoopInv == ASSUME Inv, StartNewLoop PROVE Inv'
<1> DEFINE d == loop_cur_depth_plus_one
           level == [value |-> 0,
                     total |-> program.loops[Instruction.name].iteration_count,
                     jump |-> program.loops[Instruction.name].jump_amount,
                     independent |-> Instruction.is_independent,
                     name |-> Instruction.name]
<1>1. /\ TypeOK /\ S = "START_NEW_LOOP" /\ S' = "UPDATE_APU"
      /\ execution_queue_read_enable' = FALSE
      /\ loop_cur_depth' = d /\ loop_stack' = [loop_stack EXCEPT ![d] = level]
      /\ UNCHANGED <<pc, program_end_pc, jump_amount,
                     apu_in_loop_var, apu_in_di, apu_linear_formulas,
                     apu_address_registers, queue, execution_queue,
                     program, started, resets, pushed, loop_ended>>
  BY DEF Inv, StartNewLoop, apu, fetch, environment, history
<1>2. /\ pc \in StartsOf(program) /\ Nests(program, pc, loop_cur_depth, loop_stack)
      /\ program_end_pc = program.end /\ jump_amount = 0
  BY <1>1 DEF Inv, PlaceInv, Reading, Moving
<1>3. /\ program \in Programs /\ loop_cur_depth \in Int /\ loop_stack \in [Depths -> Level]
      /\ Encoded(program) /\ WellNested(program)
  BY <1>1, ProgramShape, ControlAssumption DEF TypeOK, Level, ControlAssumption
<1>4. /\ Instruction.type = "LOOP" /\ Instruction.is_independent \in BOOLEAN
      /\ Instruction.name = program.code[pc].name
      /\ Instruction.is_independent = program.code[pc].is_independent
  BY <1>2, <1>3 DEF Instruction, StartsOf, Encoded
<1>5. /\ Instruction.name \in Depths
      /\ HeaderOf(program, pc) = program.loops[Instruction.name]
      /\ HeaderOf(program, pc).iteration_count \in Word \ {0}
      /\ HeaderOf(program, pc).jump_amount \in Nat \ {0}
  BY <1>2, <1>3, <1>4, LoopShape DEF HeaderOf
<1>6. level \in Level
  BY <1>4, <1>5, StartShape DEF Level
<1>7. HoldsLoop(program, pc, level)
  <2>1. 0 < HeaderOf(program, pc).iteration_count
    BY <1>5, WordShape
  <2> QED
    BY <1>4, <1>5, <2>1 DEF HoldsLoop
<1>8. d = (loop_cur_depth + 1) % LOOP_CNT
  BY DEF loop_cur_depth_plus_one
<1> HIDE DEF d, level
<1>9. d \in Depths /\ Nests(program, pc + 1, d, [loop_stack EXCEPT ![d] = level])
  BY <1>2, <1>3, <1>7, <1>8, NestsStart
<1>10. loop_stack' \in [Depths -> Level] /\ d \in -1 .. LOOP_CNT - 1
  <2>1. loop_stack' \in [Depths -> Level]
    BY <1>1, <1>3, <1>6, <1>9
  <2>2. d \in -1 .. LOOP_CNT - 1
    BY <1>9, DepthsShape DEF Depths
  <2> QED
    BY <2>1, <2>2
<1>11. TypeOK'
  BY <1>1, <1>10 DEF TypeOK, States, Level
<1>12. QueueInv'
  BY <1>1 DEF Inv, QueueInv
<1>13. NextPc' = pc + 1 /\ pc + 1 \in program.start .. program.end
  <2>1. pc \in program.start .. program.end - 1 /\ program.start \in Nat /\ program.end \in Nat
    BY <1>2, <1>3, ProgramShape DEF StartsOf
  <2>2. NextPc' = pc + 1 - 0
    BY <1>1, <1>2 DEF NextPc
  <2> QED
    BY <2>1, <2>2
<1>14. Nests(program', NextPc', loop_cur_depth', loop_stack')
  BY <1>1, <1>9, <1>13
<1>15. PlaceInv'
  BY <1>1, <1>2, <1>13, <1>14 DEF PlaceInv, Reading, Moving
<1> QED
  BY <1>11, <1>12, <1>15 DEF Inv

(* What the innermost loop still has to do at its end.                     *)
LEMMA RemainingIterations ==
    ASSUME TypeOK, Innermost.value < Innermost.total
    PROVE  /\ loop_cur_remaining_iterations = Innermost.total - Innermost.value
           /\ loop_cur_remaining_iterations \in Nat \ {0}
           /\ (Innermost.value + Chunk) % WORDS \in Word
           /\ ~((Innermost.independent /\ LastChunk) \/ loop_cur_remaining_iterations = 1)
                => /\ (Innermost.value + Chunk) % WORDS < Innermost.total
                   /\ (Innermost.value + Chunk) % WORDS = Innermost.value + Chunk
                   /\ Chunk = IF Innermost.independent THEN SUPERSCALAR_WIDTH ELSE 1
           /\ (-Innermost.total) % WORDS \in Word
<1> DEFINE v == Innermost.value
           t == Innermost.total
           r == loop_cur_remaining_iterations
<1>1. top \in Depths
  <2>1. loop_cur_depth \in Int
    BY DepthsShape DEF TypeOK
  <2> QED
    BY <2>1, DepthsShape DEF top
<1>2. v \in Word /\ t \in Word /\ Innermost.independent \in BOOLEAN
  BY <1>1 DEF TypeOK, Innermost
<1>3. v \in Nat /\ t \in Nat /\ t < WORDS /\ WORDS \in Nat \ {0}
  BY <1>2, WordShape
<1> HIDE DEF v, t
<1>4. r = (t - v) % WORDS
  BY DEF loop_cur_remaining_iterations, v, t
<1>5. v < t
  BY DEF v, t
<1>6. r = t - v /\ r \in Nat \ {0}
  BY <1>3, <1>4, <1>5
<1> HIDE DEF r
<1>7. SUPERSCALAR_WIDTH \in Nat \ {0}
  BY ControlAssumption DEF ControlAssumption
<1>8. LastChunk <=> r <= SUPERSCALAR_WIDTH
  BY DEF LastChunk, r
<1>9. Chunk = IF ~Innermost.independent THEN 1 ELSE IF LastChunk THEN r
              ELSE SUPERSCALAR_WIDTH
  BY DEF Chunk, r
<1>10. Chunk \in Nat /\ Chunk <= r
  BY <1>6, <1>7, <1>8, <1>9
<1>11. v + Chunk \in Nat /\ v + Chunk <= t
  BY <1>3, <1>6, <1>10
<1>12. (v + Chunk) % WORDS = v + Chunk /\ (v + Chunk) % WORDS \in Word
  <2>1. ASSUME NEW n \in Nat, n <= t PROVE n % WORDS = n /\ n \in Word
    <3>1. n < WORDS
      BY <1>3, <2>1
    <3>2. n \in Word
      BY <3>1, WordShape
    <3>3. n % WORDS = n
      BY <1>3, <3>1
    <3> QED
      BY <3>2, <3>3
  <2> QED
    BY <1>11, <2>1
<1>13. ASSUME ~((Innermost.independent /\ LastChunk) \/ r = 1)
       PROVE  Chunk < r
  BY <1>6, <1>7, <1>8, <1>9, <1>13
<1>14. ASSUME ~((Innermost.independent /\ LastChunk) \/ r = 1)
       PROVE  (v + Chunk) % WORDS < t
  BY <1>3, <1>6, <1>10, <1>12, <1>13, <1>14
<1>15. (-t) % WORDS \in Word
  BY <1>3, WordShape
<1>16. ASSUME ~((Innermost.independent /\ LastChunk) \/ r = 1)
       PROVE  Chunk = IF Innermost.independent THEN SUPERSCALAR_WIDTH ELSE 1
  BY <1>9, <1>16
<1> QED
  BY <1>6, <1>12, <1>14, <1>15, <1>16 DEF v, t, r

(* The end of a loop: its level is the innermost one, which is taken off   *)
(* before the instruction behind it, or stays for its first one.           *)
LEMMA IncrementLoopInv == ASSUME Inv, IncrementLoop PROVE Inv'
<1> DEFINE ended == (Innermost.independent /\ LastChunk) \/ loop_cur_remaining_iterations = 1
           level == [loop_stack[top] EXCEPT !.value = (@ + Chunk) % WORDS]
<1>1. /\ TypeOK /\ S = "INCREMENT_LOOP" /\ S' = "UPDATE_APU"
      /\ execution_queue_read_enable' = FALSE
      /\ loop_stack' = [loop_stack EXCEPT ![top].value = (@ + Chunk) % WORDS]
      /\ apu_in_loop_var' = Innermost.name
      /\ UNCHANGED <<pc, program_end_pc, apu_linear_formulas,
                     apu_address_registers, queue, execution_queue,
                     program, started, resets, pushed>>
  BY DEF Inv, IncrementLoop, fetch, environment
<1>2. IF ended THEN /\ apu_in_di' = (-Innermost.total) % WORDS
                    /\ loop_cur_depth' = loop_cur_depth - 1
                    /\ loop_ended' = TRUE /\ jump_amount' = jump_amount
               ELSE /\ apu_in_di' = IF Innermost.independent THEN SUPERSCALAR_WIDTH ELSE 1
                    /\ jump_amount' = Innermost.jump
                    /\ loop_cur_depth' = loop_cur_depth /\ loop_ended' = loop_ended
  BY DEF IncrementLoop
<1>3. /\ pc \in DOMAIN program.code /\ Nests(program, pc, loop_cur_depth, loop_stack)
      /\ program_end_pc = program.end /\ jump_amount = 0
      /\ program.code[pc].type = "LOOP" /\ pc \notin StartsOf(program)
  BY <1>1 DEF Inv, PlaceInv, Reading, Moving, Instruction
<1>4. /\ program \in Programs /\ loop_cur_depth \in Int /\ loop_stack \in [Depths -> Level]
      /\ Encoded(program) /\ WellNested(program)
  BY <1>1, ProgramShape, ControlAssumption DEF TypeOK, Level, ControlAssumption
<1>5. PICK s \in StartsOf(program) : EndOf(program, s) = pc
  BY <1>3, <1>4 DEF WellNested
<1>6. /\ loop_cur_depth \in Depths /\ top = loop_cur_depth
      /\ HoldsLoop(program, s, loop_stack[loop_cur_depth])
  BY <1>3, <1>4, <1>5, NestsTop DEF top
<1>7. /\ Innermost = loop_stack[top] /\ Innermost \in Level
      /\ Innermost.name = program.code[s].name
      /\ Innermost.total = HeaderOf(program, s).iteration_count
      /\ Innermost.jump = HeaderOf(program, s).jump_amount
      /\ Innermost.value < Innermost.total
      /\ Innermost.independent = program.code[s].is_independent
  BY <1>4, <1>6 DEF Innermost, HoldsLoop
<1>8. /\ (Innermost.value + Chunk) % WORDS \in Word
      /\ ~ended => (Innermost.value + Chunk) % WORDS < Innermost.total
      /\ (-Innermost.total) % WORDS \in Word
  BY <1>1, <1>7, RemainingIterations
<1> HIDE DEF ended
<1>9. loop_stack' = [loop_stack EXCEPT ![loop_cur_depth] = level]
  BY <1>1, <1>4, <1>6
<1>10. level \in Level /\ (~ended => HoldsLoop(program, s, level))
  <2>1. level = [Innermost EXCEPT !.value = (Innermost.value + Chunk) % WORDS]
    BY <1>7
  <2>2. level \in Level
    BY <1>7, <1>8, <2>1 DEF Level
  <2>3. /\ level.value = (Innermost.value + Chunk) % WORDS
        /\ level.name = Innermost.name /\ level.total = Innermost.total
        /\ level.jump = Innermost.jump /\ level.independent = Innermost.independent
    BY <1>7, <2>1 DEF Level
  <2>4. ~ended => HoldsLoop(program, s, level)
    BY <1>7, <1>8, <2>3 DEF HoldsLoop
  <2> QED
    BY <2>2, <2>4
<1> HIDE DEF level
<1>11. /\ Nests(program, pc + 1, loop_cur_depth - 1, loop_stack')
       /\ ~ended => Nests(program, s + 1, loop_cur_depth, loop_stack')
  BY <1>3, <1>4, <1>5, <1>9, <1>10, NestsEnd
<1>12. /\ s \in Int /\ program.start <= s /\ s < pc /\ pc < program.end /\ pc \in Int
       /\ pc = s + Innermost.jump /\ Innermost.jump \in Nat \ {0}
       /\ program.start \in Nat /\ program.end \in Nat
  BY <1>4, <1>5, <1>7, LoopShape, ProgramShape DEF EndOf
<1>13. loop_stack' \in [Depths -> Level]
  BY <1>4, <1>6, <1>9, <1>10
<1>14. /\ apu_in_loop_var' \in Depths /\ apu_in_di' \in Word
  <2>1. Innermost.name \in Depths
    BY <1>7 DEF Level
  <2> QED
    BY <1>1, <1>2, <1>8, <2>1, WordShape
<1>15. /\ loop_cur_depth' \in -1 .. LOOP_CNT - 1 /\ jump_amount' \in Nat
       /\ loop_ended' \in BOOLEAN
  <2>1. loop_cur_depth \in 0 .. LOOP_CNT - 1 /\ LOOP_CNT \in Nat
    BY <1>6, DepthsShape DEF Depths
  <2>2. loop_ended \in BOOLEAN
    BY <1>1 DEF TypeOK
  <2>3. jump_amount' \in Nat /\ loop_ended' \in BOOLEAN
    <3>1. Innermost.jump \in Nat /\ jump_amount \in Nat
      BY <1>3, <1>12
    <3>2. jump_amount' \in {jump_amount, Innermost.jump}
      BY <1>2
    <3>3. loop_ended' = TRUE \/ loop_ended' = loop_ended
      BY <1>2
    <3>4. loop_ended' \in BOOLEAN
      BY <2>2, <3>3
    <3> QED
      BY <3>1, <3>2, <3>4
  <2>4. loop_cur_depth' \in {loop_cur_depth - 1, loop_cur_depth}
    BY <1>2
  <2>5. loop_cur_depth' \in -1 .. LOOP_CNT - 1
    BY <2>1, <2>4
  <2> QED
    BY <2>3, <2>5
<1>16. TypeOK'
  BY <1>1, <1>13, <1>14, <1>15 DEF TypeOK, States, Level
<1>17. QueueInv'
  BY <1>1 DEF Inv, QueueInv
<1>18. /\ NextPc' \in program.start .. program.end
       /\ Nests(program, NextPc', loop_cur_depth', loop_stack')
  <2>1. CASE ended
    <3>1. NextPc' = pc + 1 /\ loop_cur_depth' = loop_cur_depth - 1
      <4>1. NextPc' = pc + 1 - 0 /\ loop_cur_depth' = loop_cur_depth - 1
        BY <1>1, <1>2, <1>3, <2>1 DEF NextPc
      <4> QED
        BY <4>1, <1>12
    <3> QED
      BY <3>1, <1>11, <1>12
  <2>2. CASE ~ended
    <3>1. NextPc' = s + 1 /\ loop_cur_depth' = loop_cur_depth
      <4>1. NextPc' = pc + 1 - Innermost.jump /\ loop_cur_depth' = loop_cur_depth
        BY <1>1, <1>2, <2>2 DEF NextPc
      <4> QED
        BY <4>1, <1>12
    <3> QED
      BY <3>1, <2>2, <1>11, <1>12
  <2> QED
    BY <2>1, <2>2
<1>19. PlaceInv'
  BY <1>1, <1>3, <1>18 DEF PlaceInv, Reading, Moving
<1> QED
  BY <1>16, <1>17, <1>19 DEF Inv

-----------------------------------------------------------------------------
(* The coefficients are words.                                             *)
LEMMA DeltaTyped ==
    ASSUME TypeOK, NEW k \in APUs, NEW name \in Depths
    PROVE  daddr_di(k, name) \in Word
  BY DEF TypeOK, daddr_di

(* The addresses stay words; the place in the text does not change.        *)
LEMMA UpdateApuInv == ASSUME Inv, UpdateApu PROVE Inv'
<1>1. /\ TypeOK /\ S = "UPDATE_APU" /\ S' = "UPDATE_PC"
      /\ execution_queue_read_enable' = FALSE
      /\ UNCHANGED <<pc, program_end_pc, loop_cur_depth, loop_stack, jump_amount,
                     apu_in_loop_var, apu_in_di, apu_linear_formulas,
                     queue, execution_queue,
                     program, started, resets, pushed, loop_ended>>
  BY DEF Inv, UpdateApu, loops, fetch, environment, history
<1>2. apu_address_registers' \in [APUs -> Word]
  <2>1. ASSUME NEW k \in APUs
        PROVE  (apu_address_registers[k] + apu_in_di * daddr_di(k, apu_in_loop_var)) % WORDS
                  \in Word
    <3>1. apu_address_registers[k] \in Int /\ apu_in_di \in Int
      BY <1>1, WordShape DEF TypeOK
    <3>2. daddr_di(k, apu_in_loop_var) \in Int
      <4>1. daddr_di(k, apu_in_loop_var) \in Word
        BY <1>1, DeltaTyped DEF TypeOK
      <4> QED
        BY <4>1, WordShape
    <3> DEFINE i == daddr_di(k, apu_in_loop_var)
    <3> HIDE DEF i
    <3>3. apu_in_di * i \in Int
      BY <3>1, <3>2 DEF i
    <3>4. apu_address_registers[k] + apu_in_di * i \in Int
      BY <3>1, <3>3
    <3> QED
      BY <3>4, WordShape DEF i
  <2> QED
    BY <2>1 DEF UpdateApu
<1>3. TypeOK'
  BY <1>1, <1>2 DEF TypeOK, States
<1>4. QueueInv'
  BY <1>1 DEF Inv, QueueInv
<1>5. PlaceInv'
  BY <1>1 DEF Inv, PlaceInv, Reading, Moving, NextPc
<1> QED
  BY <1>3, <1>4, <1>5 DEF Inv

(* No more copies than the width, whatever the level holds.                *)
LEMMA ChunkTyped ==
    ASSUME TypeOK
    PROVE  top \in Depths /\ Chunk \in Nat /\ Chunk <= SUPERSCALAR_WIDTH
<1>1. top \in Depths
  <2>1. loop_cur_depth \in Int
    BY DepthsShape DEF TypeOK
  <2> QED
    BY <2>1, DepthsShape DEF top
<1>2. Innermost.total \in Int /\ Innermost.value \in Int
  <2>1. Innermost.total \in Word /\ Innermost.value \in Word
    BY <1>1 DEF TypeOK, Innermost
  <2> QED
    BY <2>1, WordShape
<1>3. loop_cur_remaining_iterations \in Word
  <2>1. Innermost.total - Innermost.value \in Int
    BY <1>2
  <2> QED
    BY <2>1, WordShape DEF loop_cur_remaining_iterations
<1>4. loop_cur_remaining_iterations \in Nat /\ SUPERSCALAR_WIDTH \in Nat \ {0}
  BY <1>3, WordShape, ControlAssumption DEF ControlAssumption
<1>5. Chunk \in Nat /\ Chunk <= SUPERSCALAR_WIDTH
  BY <1>4 DEF Chunk, LastChunk
<1> QED
  BY <1>1, <1>5

(* A push leaves the nesting as it is.                                     *)
LEMMA InsertToQueueInv ==
    ASSUME Inv, NEW stall \in BOOLEAN, InsertToQueue(stall) PROVE Inv'
<1>1. /\ TypeOK /\ S = "INSERT_TO_QUEUE" /\ S' = "UPDATE_PC"
      /\ execution_queue_read_enable' = FALSE
      /\ pushed' = [pushed EXCEPT ![pc] = (@ + Chunk) % WORDS]
      /\ UNCHANGED <<pc, program_end_pc, loop_cur_depth, loop_stack, jump_amount,
                     apu_in_loop_var, apu_in_di, apu_linear_formulas,
                     apu_address_registers, execution_queue,
                     program, started, resets, loop_ended>>
  BY DEF Inv, InsertToQueue, loops, apu, fetch, environment
<1>2. /\ pc \in DOMAIN program.code /\ Nests(program, pc, loop_cur_depth, loop_stack)
      /\ program_end_pc = program.end /\ jump_amount = 0
      /\ Instruction.type # "LOOP" /\ Instruction = program.code[pc]
  BY <1>1 DEF Inv, PlaceInv, Reading, Moving, Instruction
<1>3. program \in Programs /\ Encoded(program) /\ WellNested(program)
  BY <1>1, ProgramShape DEF TypeOK
<1>4. /\ Instruction.type \in {"LOAD_STORE", "RAM", "ARITHMETIC"}
      /\ Instruction.cache_apu \in APUs /\ Instruction.main_apu \in APUs
  BY <1>2, <1>3 DEF Encoded
<1>5. top \in Depths /\ Chunk \in Nat /\ Chunk <= SUPERSCALAR_WIDTH
  BY <1>1, ChunkTyped
<1>6. queue' \in [we : BOOLEAN, type : {"LOAD_STORE", "RAM", "ARITHMETIC", "PROG_END"},
                  copy_count : 0 .. SUPERSCALAR_WIDTH,
                  cache_addr : Word, d_cache_addr : Word,
                  main_mem_addr : Word, d_main_mem_addr : Word]
  <2> DEFINE cached == Instruction.type \in {"LOAD_STORE", "RAM"}
             main == Instruction.type = "RAM"
             a == IF cached THEN apu_address_registers[Instruction.cache_apu]
                  ELSE queue.cache_addr
             b == IF cached THEN daddr_di(Instruction.cache_apu, top)
                  ELSE queue.d_cache_addr
             c == IF main THEN apu_address_registers[Instruction.main_apu]
                  ELSE queue.main_mem_addr
             e == IF main THEN daddr_di(Instruction.main_apu, top)
                  ELSE queue.d_main_mem_addr
  <2>1. queue' = [we |-> TRUE, type |-> Instruction.type, copy_count |-> Chunk,
                  cache_addr |-> a, d_cache_addr |-> b,
                  main_mem_addr |-> c, d_main_mem_addr |-> e]
    BY DEF InsertToQueue
  <2>2. /\ queue.cache_addr \in Word /\ queue.d_cache_addr \in Word
        /\ queue.main_mem_addr \in Word /\ queue.d_main_mem_addr \in Word
    BY <1>1 DEF TypeOK
  <2>3. /\ apu_address_registers[Instruction.cache_apu] \in Word
        /\ apu_address_registers[Instruction.main_apu] \in Word
    BY <1>1, <1>4 DEF TypeOK
  <2>4. /\ daddr_di(Instruction.cache_apu, top) \in Word
        /\ daddr_di(Instruction.main_apu, top) \in Word
    BY <1>1, <1>4, <1>5, DeltaTyped
  <2>5. a \in Word /\ b \in Word /\ c \in Word /\ e \in Word
    BY <2>2, <2>3, <2>4
  <2> HIDE DEF a, b, c, e
  <2>6. Chunk \in 0 .. SUPERSCALAR_WIDTH
    BY <1>5, ControlAssumption DEF ControlAssumption
  <2> QED
    BY <1>4, <2>1, <2>5, <2>6
<1>7. pushed' \in [DOMAIN program.code -> Word]
  <2>1. pushed \in [DOMAIN program.code -> Word]
    BY <1>1 DEF TypeOK
  <2>2. pushed[pc] \in Nat
    BY <1>2, <2>1, WordShape
  <2>3. pushed[pc] + Chunk \in Int
    BY <1>5, <2>2
  <2>4. (pushed[pc] + Chunk) % WORDS \in Word
    BY <2>3, WordShape
  <2> QED
    BY <1>1, <2>1, <2>4
<1>8. TypeOK'
  BY <1>1, <1>6, <1>7 DEF TypeOK, States
<1>9. QueueInv'
  BY <1>1 DEF Inv, QueueInv
<1>10. NextPc' = pc + 1 /\ pc + 1 \in program.start .. program.end
  <2>1. pc \in program.start .. program.end - 1 /\ program.start \in Nat /\ program.end \in Nat
    BY <1>2, <1>3, ProgramShape
  <2>2. NextPc' = pc + 1 - 0
    BY <1>1, <1>2 DEF NextPc
  <2> QED
    BY <2>1, <2>2
<1>11. Nests(program, pc + 1, loop_cur_depth, loop_stack)
  <2>1. AroundOf(program, pc + 1) = AroundOf(program, pc)
    BY <1>2, <1>3, AroundPush
  <2> QED
    BY <1>2, <2>1 DEF Nests
<1>12. PlaceInv'
  BY <1>1, <1>2, <1>10, <1>11 DEF PlaceInv, Reading, Moving
<1> QED
  BY <1>8, <1>9, <1>12 DEF Inv

(* The port keeps its type when it is taken down or carries the end.       *)
LEMMA SilencedPort ==
    ASSUME TypeOK, NEW up \in BOOLEAN
    PROVE  /\ [queue EXCEPT !.we = up] \in
                [we : BOOLEAN, type : {"LOAD_STORE", "RAM", "ARITHMETIC", "PROG_END"},
                 copy_count : 0 .. SUPERSCALAR_WIDTH,
                 cache_addr : Word, d_cache_addr : Word,
                 main_mem_addr : Word, d_main_mem_addr : Word]
           /\ [queue EXCEPT !.we = up, !.type = "PROG_END"] \in
                [we : BOOLEAN, type : {"LOAD_STORE", "RAM", "ARITHMETIC", "PROG_END"},
                 copy_count : 0 .. SUPERSCALAR_WIDTH,
                 cache_addr : Word, d_cache_addr : Word,
                 main_mem_addr : Word, d_main_mem_addr : Word]
  BY DEF TypeOK

(* The move to the next pc, whose nesting the stack holds already.         *)
LEMMA UpdatePcInv == ASSUME Inv, UpdatePc PROVE Inv'
<1>1. /\ TypeOK /\ S = "UPDATE_PC" /\ pc' = NextPc /\ jump_amount' = 0
      /\ S' = IF pc' >= program_end_pc THEN "FINISH_PROGRAM_1" ELSE "DECODE"
      /\ execution_queue_read_enable' = FALSE
      /\ queue' = [queue EXCEPT !.we = FALSE]
      /\ UNCHANGED <<program_end_pc, loop_cur_depth, loop_stack,
                     apu_in_loop_var, apu_in_di, apu_linear_formulas,
                     apu_address_registers, execution_queue,
                     program, started, resets, pushed, loop_ended>>
  BY DEF Inv, UpdatePc, apu, fetch, environment, history, NextPc
<1>2. /\ NextPc \in program.start .. program.end /\ program_end_pc = program.end
      /\ Nests(program, NextPc, loop_cur_depth, loop_stack)
  BY <1>1 DEF Inv, PlaceInv, Moving
<1>3. /\ program.start \in Nat /\ program.end \in Nat
      /\ DOMAIN program.code = program.start .. program.end - 1
  BY <1>1, ProgramShape DEF TypeOK
<1>4. /\ pc' \in Nat /\ S' \in {"FINISH_PROGRAM_1", "DECODE"}
      /\ S' = "DECODE" => pc' \in DOMAIN program.code
  BY <1>1, <1>2, <1>3
<1>5. TypeOK'
  <2>1. queue' \in [we : BOOLEAN, type : {"LOAD_STORE", "RAM", "ARITHMETIC", "PROG_END"},
                    copy_count : 0 .. SUPERSCALAR_WIDTH,
                    cache_addr : Word, d_cache_addr : Word,
                    main_mem_addr : Word, d_main_mem_addr : Word]
    BY <1>1, SilencedPort
  <2> QED
    BY <1>1, <1>4, <2>1 DEF TypeOK, States
<1>6. QueueInv'
  BY <1>1, <1>4 DEF Inv, QueueInv
<1>7. PlaceInv'
  BY <1>1, <1>2, <1>4 DEF PlaceInv, Reading, Moving
<1> QED
  BY <1>5, <1>6, <1>7 DEF Inv

(* The end marker, and the state the machine stays in.                     *)
LEMMA FinishInv ==
    ASSUME Inv, NEW stall \in BOOLEAN, FinishProgram1(stall) \/ FinishProgram2
    PROVE  Inv'
<1>1. /\ TypeOK /\ S \in {"FINISH_PROGRAM_1", "FINISH_PROGRAM_2"}
      /\ S' = "FINISH_PROGRAM_2" /\ execution_queue_read_enable' = FALSE
      /\ \/ queue' = [queue EXCEPT !.we = TRUE, !.type = "PROG_END"]
         \/ queue' = [queue EXCEPT !.we = FALSE]
      /\ UNCHANGED <<pc, program_end_pc, loop_cur_depth, loop_stack, jump_amount,
                     apu_in_loop_var, apu_in_di, apu_linear_formulas,
                     apu_address_registers, execution_queue,
                     program, started, resets, pushed, loop_ended>>
  BY DEF Inv, FinishProgram1, FinishProgram2, loops, apu, fetch, environment, history
<1>2. queue' \in [we : BOOLEAN, type : {"LOAD_STORE", "RAM", "ARITHMETIC", "PROG_END"},
                  copy_count : 0 .. SUPERSCALAR_WIDTH,
                  cache_addr : Word, d_cache_addr : Word,
                  main_mem_addr : Word, d_main_mem_addr : Word]
  BY <1>1, SilencedPort
<1>3. TypeOK'
  BY <1>1, <1>2 DEF TypeOK, States
<1>4. QueueInv' /\ PlaceInv'
  BY <1>1 DEF Inv, QueueInv, PlaceInv, Reading, Moving
<1> QED
  BY <1>3, <1>4 DEF Inv

(* Waiting changes nothing.                                                *)
LEMMA WaitInv == ASSUME Inv, NEW stall \in BOOLEAN, Wait(stall) PROVE Inv'
<1>1. /\ TypeOK /\ execution_queue_read_enable' = FALSE
      /\ UNCHANGED <<S, pc, program_end_pc, loop_cur_depth, loop_stack, jump_amount,
                     apu_in_loop_var, apu_in_di, apu_linear_formulas,
                     apu_address_registers, queue, execution_queue,
                     program, started, resets, pushed, loop_ended>>
  BY DEF Inv, Wait, loops, apu, fetch, environment, history
<1>2. TypeOK'
  BY <1>1 DEF TypeOK
<1>3. QueueInv' /\ PlaceInv'
  BY <1>1 DEF Inv, QueueInv, PlaceInv, NextPc, Instruction
<1> QED
  BY <1>2, <1>3 DEF Inv

(* Nor does any other step of the system.                                  *)
LEMMA StutterInv == ASSUME Inv, UNCHANGED vars PROVE Inv'
<1>1. UNCHANGED <<S, pc, program_end_pc, loop_cur_depth, loop_stack, jump_amount,
                  apu_in_loop_var, apu_in_di, apu_linear_formulas,
                  apu_address_registers, queue, execution_queue,
                  execution_queue_read_enable,
                  program, started, resets, pushed, loop_ended>>
  BY DEF vars, loops, apu, fetch, environment, history
<1>2. TypeOK'
  BY <1>1 DEF Inv, TypeOK
<1>3. QueueInv' /\ PlaceInv'
  BY <1>1 DEF Inv, QueueInv, PlaceInv, NextPc, Instruction
<1> QED
  BY <1>2, <1>3 DEF Inv

(* Every step keeps the invariant.                                         *)
LEMMA StepInv == Inv /\ [Next]_vars => Inv'
<1> SUFFICES ASSUME Inv, [Next]_vars PROVE Inv'
  OBVIOUS
<1>1. ASSUME NEW stall \in BOOLEAN, Edge(stall) PROVE Inv'
  BY <1>1, FetchProgramInv, PrepareProgram0Inv, PrepareProgram1Inv,
     PrepareProgram2Inv, DecodeInv, StartNewLoopInv, IncrementLoopInv,
     UpdateApuInv, InsertToQueueInv, UpdatePcInv, FinishInv, WaitInv DEF Edge
<1> QED
  BY <1>1, ResetInv, StartProgramInv, StutterInv DEF Next

(* The invariant always holds.                                             *)
LEMMA InvAlways == Spec => []Inv
  BY InitInv, StepInv, PTL DEF Spec

(* Every register keeps its type: no count, depth or pc leaves its range,  *)
(* and no push has more copies than the queue is wide                      *)
(* (control_unit.sv:52-83, 86-224).                                        *)
THEOREM TypeCorrect == Spec => []TypeOK
<1>1. Inv => TypeOK
  BY DEF Inv
<1> QED
  BY <1>1, InvAlways, PTL

(* Whenever an instruction is decoded, the loop stack holds the loops      *)
(* around it in the program text, outermost first, with their counts, and  *)
(* none of them has run to its end: for every program, up to a full stack, *)
(* whatever loops came and ended before (control_unit.sv:71, 120-150).     *)
THEOREM StackAlwaysFollowsNesting == Spec => []StackFollowsNesting
<1>1. Inv => StackFollowsNesting
  <2> SUFFICES ASSUME Inv, S = "DECODE" PROVE
        /\ loop_cur_depth + 1 = Cardinality(LoopsAround(pc))
        /\ \A s \in LoopsAround(pc) :
              LET d == Cardinality(LoopsAround(s))
              IN  /\ loop_stack[d].name = program.code[s].name
                  /\ loop_stack[d].total = Header(s).iteration_count
                  /\ loop_stack[d].value < loop_stack[d].total
    BY DEF StackFollowsNesting
  <2>1. Nests(program, pc, loop_cur_depth, loop_stack)
    BY DEF Inv, PlaceInv, Reading
  <2> QED
    BY <2>1 DEF Nests, HoldsLoop, LoopsAround, Header
<1> QED
  BY <1>1, InvAlways, PTL

(* What control_unit.sv asserts of itself.                                 *)
InLoop ==
    /\ S = "INCREMENT_LOOP" => loop_cur_depth >= 0
    /\ S = "INSERT_TO_QUEUE" /\ LoopsAround(pc) # {} => loop_cur_depth >= 0
    /\ S = "START_NEW_LOOP" => loop_cur_depth_plus_one = loop_cur_depth + 1

(* The machine increments a loop only while one runs, it pushes outside of *)
(* every loop only what the text has there, and the index of a new level   *)
(* is not truncated in the state that uses it (control_unit.sv:134, 158    *)
(* and 278; the last is asserted of every edge there, which is more than   *)
(* the full stack allows).                                                 *)
THEOREM AssertionsHold == Spec => []InLoop
<1>1. Inv => InLoop
  <2>1. ASSUME Inv, S = "INCREMENT_LOOP" PROVE loop_cur_depth >= 0
    <3>1. /\ pc \in DOMAIN program.code /\ Nests(program, pc, loop_cur_depth, loop_stack)
          /\ program.code[pc].type = "LOOP" /\ pc \notin StartsOf(program)
      BY <2>1 DEF Inv, PlaceInv, Reading, Instruction
    <3>2. /\ program \in Programs /\ loop_cur_depth \in Int
          /\ loop_stack \in [Depths -> Level]
          /\ Encoded(program) /\ WellNested(program)
      BY <2>1, ProgramShape, ControlAssumption DEF Inv, TypeOK, Level, ControlAssumption
    <3>3. PICK s \in StartsOf(program) : EndOf(program, s) = pc
      BY <3>1, <3>2 DEF WellNested
    <3>4. loop_cur_depth \in Depths
      BY <3>1, <3>2, <3>3, NestsTop
    <3> QED
      BY <3>4, DepthsShape
  <2>2. ASSUME Inv, S = "INSERT_TO_QUEUE", LoopsAround(pc) # {}
        PROVE  loop_cur_depth >= 0
    <3>1. /\ Nests(program, pc, loop_cur_depth, loop_stack)
          /\ program \in Programs /\ loop_cur_depth \in Int
      BY <2>2, ControlAssumption DEF Inv, PlaceInv, Reading, TypeOK, ControlAssumption
    <3>2. /\ IsFiniteSet(LoopsAround(pc)) /\ Cardinality(LoopsAround(pc)) \in Nat
          /\ loop_cur_depth + 1 = Cardinality(LoopsAround(pc))
      BY <3>1, ProgramShape, AroundFinite DEF Nests, LoopsAround
    <3>3. Cardinality(LoopsAround(pc)) # 0
      BY <2>2, <3>2, FS_EmptySet
    <3> QED
      BY <3>1, <3>2, <3>3
  <2>3. ASSUME Inv, S = "START_NEW_LOOP"
        PROVE  loop_cur_depth_plus_one = loop_cur_depth + 1
    <3>1. /\ Nests(program, pc, loop_cur_depth, loop_stack) /\ pc \in StartsOf(program)
          /\ program \in Programs /\ loop_cur_depth \in Int
      BY <2>3, ControlAssumption DEF Inv, PlaceInv, Reading, TypeOK, ControlAssumption
    <3>2. /\ Cardinality(AroundOf(program, pc)) < LOOP_CNT
          /\ Cardinality(AroundOf(program, pc)) \in Nat
      BY <3>1, ProgramShape, AroundStart, AroundFinite
    <3>3. loop_cur_depth + 1 = Cardinality(AroundOf(program, pc))
      BY <3>1 DEF Nests
    <3>4. loop_cur_depth + 1 \in Depths
      BY <3>2, <3>3, DepthsShape
    <3> QED
      BY <3>4, DepthsShape DEF loop_cur_depth_plus_one
  <2> QED
    BY <2>1, <2>2, <2>3 DEF InLoop
<1> QED
  BY <1>1, InvAlways, PTL

-----------------------------------------------------------------------------
(* Induction over the numbers: a set of numbers has a smallest member, so  *)
(* one with 0 and with every successor has all of them.                    *)
LEMMA Smallest ==
    ASSUME NEW T \in SUBSET Nat, T # {}
    PROVE  \E x \in T : \A y \in T : x <= y
<1> DEFINE R == OpToRel(<, Nat)
<1>1. R = {ss \in Nat \X Nat : ss[1] < ss[2]}
  BY DEF OpToRel
<1>2. IsWellFoundedOn(R, Nat)
  BY NatLessThanWellFounded
<1> HIDE DEF R
<1>3. PICK x \in T : \A y \in T : << y, x >> \notin R
  BY <1>2, WFMin
<1>4. ASSUME NEW y \in T PROVE x <= y
  <2>1. x \in Nat /\ y \in Nat
    OBVIOUS
  <2>2. << y, x >> \notin R
    BY <1>3
  <2>3. ASSUME y < x PROVE FALSE
    <3>1. << y, x >> \in Nat \X Nat /\ << y, x >>[1] < << y, x >>[2]
      BY <2>1, <2>3
    <3> QED
      BY <1>1, <2>2, <3>1
  <2> QED
    BY ONLY <2>1, <2>3
<1> QED
  BY <1>4

(* Induction, for a set of numbers.                                        *)
LEMMA SetInduction ==
    ASSUME NEW T, 0 \in T, \A n \in Nat : n \in T => n + 1 \in T
    PROVE  Nat \subseteq T
<1> SUFFICES ASSUME Nat \ T # {} PROVE FALSE
  OBVIOUS
<1>1. PICK x \in Nat \ T : \A y \in Nat \ T : x <= y
  BY Smallest
<1>2. x # 0 /\ x - 1 \in Nat
  BY <1>1
<1>3. x - 1 \in T
  BY <1>1, <1>2
<1> QED
  BY <1>1, <1>2, <1>3

(* The sum of the first m of the values of a function on the depths.       *)
IsSum(f, h, m) == f = [n \in 0 .. m |-> IF n = 0 THEN 0 ELSE f[n - 1] + h[n - 1]]
SumTo(h, m) == (CHOOSE f : IsSum(f, h, m))[m]

(* Two such functions with the same values are one.                        *)
LEMMA SumEqual ==
    ASSUME NEW h, NEW m, NEW f, NEW g, IsSum(f, h, m), IsSum(g, h, m),
           \A n \in 0 .. m : f[n] = g[n]
    PROVE  f = g
<1> DEFINE e == [n \in 0 .. m |-> IF n = 0 THEN 0 ELSE f[n - 1] + h[n - 1]]
           k == [n \in 0 .. m |-> IF n = 0 THEN 0 ELSE g[n - 1] + h[n - 1]]
<1>1. f = e /\ g = k
  BY DEF IsSum
<1>2. e = [n \in 0 .. m |-> e[n]] /\ k = [n \in 0 .. m |-> k[n]]
  OBVIOUS
<1> HIDE DEF e, k
<1>3. [n \in 0 .. m |-> f[n]] = [n \in 0 .. m |-> g[n]]
  OBVIOUS
<1> QED
  BY <1>1, <1>2, <1>3

(* g is f with the next sum behind it.                                     *)
LengthenedBy(g, f, h, m) == /\ g[m + 1] = f[m] + h[m]
                            /\ \A n \in 0 .. m : g[n] = f[n]

(* A sum of one more term holds the sum without it, and the other way.     *)
LEMMA ShorterSum ==
    ASSUME NEW h, NEW m \in Nat, NEW f, IsSum(f, h, m + 1)
    PROVE  \E g : IsSum(g, h, m) /\ LengthenedBy(f, g, h, m)
<1> DEFINE g == [n \in 0 .. m |-> f[n]]
           e == [n \in 0 .. m |-> IF n = 0 THEN 0 ELSE g[n - 1] + h[n - 1]]
<1>1. \A n \in 0 .. m + 1 : f[n] = IF n = 0 THEN 0 ELSE f[n - 1] + h[n - 1]
  BY DEF IsSum
<1>2. f[m + 1] = g[m] + h[m]
  <2>1. PICK n \in 0 .. m + 1 : n = m + 1
    OBVIOUS
  <2>2. n # 0 /\ n - 1 = m /\ m \in 0 .. m
    BY <2>1
  <2>3. f[n] = f[n - 1] + h[n - 1]
    BY <1>1, <2>2
  <2> QED
    BY <2>1, <2>2, <2>3
<1>3. ASSUME NEW n \in 0 .. m PROVE g[n] = e[n]
  <2>1. n \in 0 .. m + 1 /\ (n # 0 => n - 1 \in 0 .. m)
    OBVIOUS
  <2> QED
    BY <1>1, <2>1
<1>4. g = e
  BY <1>3
<1>5. IsSum(g, h, m)
  BY <1>4 DEF IsSum
<1>6. \A n \in 0 .. m : f[n] = g[n]
  OBVIOUS
<1> HIDE DEF g
<1> QED
  BY <1>2, <1>5, <1>6 DEF LengthenedBy

LEMMA LongerSum ==
    ASSUME NEW h, NEW m \in Nat, NEW f, IsSum(f, h, m)
    PROVE  \E g : IsSum(g, h, m + 1) /\ LengthenedBy(g, f, h, m)
<1> DEFINE g == [n \in 0 .. m + 1 |-> IF n = m + 1 THEN f[m] + h[m] ELSE f[n]]
           e == [n \in 0 .. m + 1 |-> IF n = 0 THEN 0 ELSE g[n - 1] + h[n - 1]]
<1>1. \A n \in 0 .. m : f[n] = IF n = 0 THEN 0 ELSE f[n - 1] + h[n - 1]
  BY DEF IsSum
<1>2. ASSUME NEW n \in 0 .. m + 1 PROVE g[n] = e[n]
  <2>1. CASE n = m + 1
    <3>1. n # 0 /\ n - 1 = m /\ m \in 0 .. m + 1 /\ m # m + 1
      BY <2>1
    <3>2. g[n] = f[m] + h[m] /\ g[m] = f[m]
      BY <2>1, <3>1
    <3>3. e[n] = g[n - 1] + h[n - 1]
      BY <3>1
    <3> HIDE DEF g, e
    <3> QED
      BY <3>1, <3>2, <3>3
  <2>2. CASE n # m + 1
    <3>1. n \in 0 .. m /\ (n # 0 => n - 1 \in 0 .. m + 1 /\ n - 1 # m + 1)
      BY <2>2
    <3>2. g[n] = f[n] /\ (n # 0 => g[n - 1] = f[n - 1])
      BY <2>2, <3>1
    <3>3. e[n] = IF n = 0 THEN 0 ELSE g[n - 1] + h[n - 1]
      OBVIOUS
    <3> HIDE DEF g, e
    <3> QED
      BY <1>1, <3>1, <3>2, <3>3
  <2> QED
    BY <2>1, <2>2
<1>3. g = e
  BY <1>2
<1>4. IsSum(g, h, m + 1)
  BY <1>3 DEF IsSum
<1>5. /\ g[m + 1] = f[m] + h[m]
      /\ \A n \in 0 .. m : g[n] = f[n]
  <2>1. \A n \in 0 .. m : n \in 0 .. m + 1 /\ n # m + 1
    OBVIOUS
  <2>2. m + 1 \in 0 .. m + 1
    OBVIOUS
  <2> QED
    BY <2>1, <2>2
<1> HIDE DEF g
<1> QED
  BY <1>4, <1>5 DEF LengthenedBy

(* There is one such sum, and it is a whole number.                        *)
LEMMA SumExists ==
    ASSUME NEW h \in [Depths -> Int], NEW m \in 0 .. LOOP_CNT
    PROVE  \E f \in [0 .. m -> Int] : IsSum(f, h, m) /\ \A g : IsSum(g, h, m) => g = f
<1> DEFINE P(n) == \E f \in [0 .. n -> Int] : IsSum(f, h, n) /\ \A g : IsSum(g, h, n) => g = f
           T == {n \in Nat : n <= LOOP_CNT => P(n)}
<1>0. LOOP_CNT \in Nat /\ \A n \in Nat : n < LOOP_CNT => n \in Depths
  BY DepthsShape
<1>1. P(0)
  <2> DEFINE f == [n \in 0 .. 0 |-> 0]
  <2>1. f \in [0 .. 0 -> Int]
    OBVIOUS
  <2>2. \A g : IsSum(g, h, 0) <=> g = f
    <3>1. \A n \in 0 .. 0 : n = 0
      OBVIOUS
    <3>2. ASSUME NEW g PROVE [n \in 0 .. 0 |-> IF n = 0 THEN 0 ELSE g[n - 1] + h[n - 1]] = f
      BY <3>1
    <3> QED
      BY <3>2 DEF IsSum
  <2> QED
    BY <2>1, <2>2
<1>2. ASSUME NEW n \in Nat, P(n), n + 1 <= LOOP_CNT PROVE P(n + 1)
  <2>1. PICK f \in [0 .. n -> Int] : IsSum(f, h, n) /\ \A g : IsSum(g, h, n) => g = f
    BY <1>2
  <2>5. PICK e : IsSum(e, h, n + 1) /\ LengthenedBy(e, f, h, n)
    BY <2>1, LongerSum
  <2>2. /\ IsSum(e, h, n + 1)
        /\ e[n + 1] = f[n] + h[n] /\ \A j \in 0 .. n : e[j] = f[j]
    BY <2>5 DEF LengthenedBy
  <2>3. e \in [0 .. n + 1 -> Int]
    <3>1. n \in 0 .. n /\ n \in Depths
      BY <1>0, <1>2
    <3>2. f[n] + h[n] \in Int
      BY <3>1
    <3>3. \A j \in 0 .. n + 1 : j # n + 1 => j \in 0 .. n
      OBVIOUS
    <3>4. \A j \in 0 .. n + 1 : j # n + 1 => e[j] \in Int
      BY <2>2, <3>3
    <3>5. \A j \in 0 .. n + 1 : e[j] \in Int
      BY <2>2, <3>2, <3>4
    <3> QED
      BY <2>2, <3>5 DEF IsSum
  <2>4. ASSUME NEW g, IsSum(g, h, n + 1) PROVE g = e
    <3>4. PICK k : IsSum(k, h, n) /\ LengthenedBy(g, k, h, n)
      BY <2>4, ShorterSum
    <3>1. /\ IsSum(k, h, n) /\ g[n + 1] = k[n] + h[n]
          /\ \A j \in 0 .. n : g[j] = k[j]
      BY <3>4 DEF LengthenedBy
    <3>2. k = f
      BY <2>1, <3>1
    <3>3. ASSUME NEW j \in 0 .. n + 1 PROVE g[j] = e[j]
      <4>1. CASE j = n + 1
        BY <2>2, <3>1, <3>2, <4>1
      <4>2. CASE j # n + 1
        <5>1. j \in 0 .. n
          BY <4>2
        <5> QED
          BY <2>2, <3>1, <3>2, <5>1
      <4> QED
        BY <4>1, <4>2
    <3> QED
      BY <2>2, <2>4, <3>3, SumEqual
  <2> QED
    BY <2>2, <2>3, <2>4
<1> HIDE DEF P
<1>3. 0 \in T
  BY <1>1
<1>4. \A n \in Nat : n \in T => n + 1 \in T
  <2> SUFFICES ASSUME NEW n \in Nat, n \in T, n + 1 <= LOOP_CNT PROVE P(n + 1)
    OBVIOUS
  <2>1. n <= LOOP_CNT
    BY <1>0
  <2> QED
    BY <1>2, <2>1
<1> HIDE DEF T
<1>5. m \in T
  BY <1>0, <1>3, <1>4, SetInduction
<1>6. P(m)
  BY <1>0, <1>5 DEF T
<1> QED
  BY <1>6 DEF P

(* What the sum is, term by term.                                          *)
LEMMA SumIs ==
    ASSUME NEW h \in [Depths -> Int], NEW m \in 0 .. LOOP_CNT
    PROVE  /\ SumTo(h, m) \in Int
           /\ \A f : IsSum(f, h, m) => SumTo(h, m) = f[m]
           /\ SumTo(h, 0) = 0
           /\ m < LOOP_CNT => SumTo(h, m + 1) = SumTo(h, m) + h[m]
<1>1. PICK f \in [0 .. m -> Int] : IsSum(f, h, m) /\ \A g : IsSum(g, h, m) => g = f
  BY SumExists
<1>0. LOOP_CNT \in Nat /\ m \in 0 .. m
  BY DepthsShape
<1>2. SumTo(h, m) = f[m]
  <2>1. IsSum(CHOOSE g : IsSum(g, h, m), h, m)
    BY <1>1
  <2> QED
    BY <1>1, <2>1 DEF SumTo
<1>3. SumTo(h, 0) = 0
  <2>1. 0 \in 0 .. LOOP_CNT
    BY <1>0
  <2>2. PICK e \in [0 .. 0 -> Int] : IsSum(e, h, 0) /\ \A g : IsSum(g, h, 0) => g = e
    BY <2>1, SumExists
  <2>3. IsSum(CHOOSE g : IsSum(g, h, 0), h, 0)
    BY <2>2
  <2>4. SumTo(h, 0) = e[0]
    BY <2>2, <2>3 DEF SumTo
  <2>5. e[0] = 0
    <3>1. 0 \in 0 .. 0
      OBVIOUS
    <3> QED
      BY <2>2, <3>1 DEF IsSum
  <2> QED
    BY <2>4, <2>5
<1>4. ASSUME m < LOOP_CNT PROVE SumTo(h, m + 1) = SumTo(h, m) + h[m]
  <2>1. m + 1 \in 0 .. LOOP_CNT /\ m \in Nat
    BY <1>0, <1>4
  <2>2. PICK e \in [0 .. m + 1 -> Int] : IsSum(e, h, m + 1) /\ \A g : IsSum(g, h, m + 1) => g = e
    BY <2>1, SumExists
  <2>3. IsSum(CHOOSE g : IsSum(g, h, m + 1), h, m + 1)
    BY <2>2
  <2>4. SumTo(h, m + 1) = e[m + 1]
    BY <2>2, <2>3 DEF SumTo
  <2>5. PICK k : IsSum(k, h, m) /\ e[m + 1] = k[m] + h[m]
    <3>1. IsSum(e, h, m + 1)
      BY <2>2
    <3>2. m \in Nat
      BY <2>1
    <3>3. \E g : IsSum(g, h, m) /\ LengthenedBy(e, g, h, m)
      BY ONLY <3>1, <3>2, ShorterSum
    <3> QED
      BY <3>3 DEF LengthenedBy
  <2>6. k = f
    BY <1>1, <2>5
  <2> QED
    BY <1>2, <2>4, <2>5, <2>6
<1> QED
  BY <1>0, <1>1, <1>2, <1>3, <1>4

(* It depends on these terms only.                                         *)
LEMMA SumSame ==
    ASSUME NEW h \in [Depths -> Int], NEW g \in [Depths -> Int], NEW m \in 0 .. LOOP_CNT,
           \A n \in Depths : n < m => g[n] = h[n]
    PROVE  SumTo(g, m) = SumTo(h, m)
<1> DEFINE T == {n \in Nat : n <= m => SumTo(g, n) = SumTo(h, n)}
<1>0. LOOP_CNT \in Nat /\ \A n \in Nat : n < LOOP_CNT => n \in Depths
  BY DepthsShape
<1>1. 0 \in T
  <2>1. 0 \in 0 .. LOOP_CNT
    BY <1>0
  <2>2. SumTo(g, 0) = 0 /\ SumTo(h, 0) = 0
    BY <2>1, SumIs
  <2> QED
    BY <2>2
<1>2. ASSUME NEW n \in Nat, n \in T PROVE n + 1 \in T
  <2>1. SUFFICES ASSUME n + 1 <= m PROVE SumTo(g, n + 1) = SumTo(h, n + 1)
    OBVIOUS
  <2>2. n \in 0 .. LOOP_CNT /\ n < LOOP_CNT /\ n <= m /\ n < m /\ n \in Depths
    BY <1>0, <2>1
  <2>3. SumTo(g, n + 1) = SumTo(g, n) + g[n] /\ SumTo(h, n + 1) = SumTo(h, n) + h[n]
    BY <2>2, SumIs
  <2> QED
    BY <1>2, <2>2, <2>3
<1> HIDE DEF T
<1>3. m \in T
  BY <1>0, <1>1, <1>2, SetInduction
<1>4. m <= m
  BY <1>0
<1> QED
  BY <1>3, <1>4 DEF T

-----------------------------------------------------------------------------
(* The address a formula gives at a depth of a stack: its constant and the *)
(* terms of the loops that run.  Its stride is the coefficient of the      *)
(* innermost of them.                                                      *)
Term(formula, stack) == [d \in Depths |-> formula.coefficients[stack[d].name] * stack[d].value]
Address(prog, k, depth, stack) ==
    (prog.formulas[k].constant + SumTo(Term(prog.formulas[k], stack), depth + 1)) % WORDS
Stride(prog, k, depth, stack) ==
    prog.formulas[k].coefficients[stack[depth % LOOP_CNT].name]

(* The terms are whole numbers.                                            *)
LEMMA TermTyped ==
    ASSUME NEW prog \in Programs, NEW k \in APUs, NEW stack \in [Depths -> Level]
    PROVE  /\ Term(prog.formulas[k], stack) \in [Depths -> Int]
           /\ prog.formulas[k].constant \in Int
           /\ \A name \in Depths : prog.formulas[k].coefficients[name] \in Int
<1>1. prog.formulas[k] \in [constant : Word, coefficients : [Depths -> Word]]
  BY ProgramShape
<1>2. \A name \in Depths : prog.formulas[k].coefficients[name] \in Int
  BY <1>1, WordShape
<1>3. prog.formulas[k].constant \in Int
  BY <1>1, WordShape
<1>4. ASSUME NEW d \in Depths
      PROVE  prog.formulas[k].coefficients[stack[d].name] * stack[d].value \in Int
  <2>1. stack[d].name \in Depths /\ stack[d].value \in Word
    BY DEF Level
  <2>2. stack[d].value \in Int
    BY <2>1, WordShape
  <2>3. prog.formulas[k].coefficients[stack[d].name] \in Int
    BY <1>2, <2>1
  <2> QED
    BY ONLY <2>2, <2>3
<1> QED
  BY <1>2, <1>3, <1>4 DEF Term

(* A quotient and a remainder are unique.                                  *)
LEMMA OneRemainder ==
    ASSUME NEW w \in Nat \ {0}, NEW q \in Int, NEW p \in Int, NEW r \in 0 .. w - 1,
           NEW t \in 0 .. w - 1, w * q + r = w * p + t
    PROVE  r = t
<1>1. w * (q - p) = t - r /\ q - p \in Int
  OBVIOUS
<1>2. CASE q - p >= 1
  <2>1. w * (q - p) >= w
    BY <1>2
  <2> QED
    BY <1>1, <2>1
<1>3. CASE q - p <= -1
  <2>1. w * (q - p) <= -w
    BY <1>3
  <2> QED
    BY <1>1, <2>1
<1>4. CASE q - p = 0
  <2>1. q = p
    BY <1>4
  <2> QED
    BY <2>1
<1> QED
  BY <1>1, <1>2, <1>3, <1>4

(* Words that are added wrap around once or twice alike.                   *)
LEMMA ModAdd ==
    ASSUME NEW a \in Int, NEW b \in Int
    PROVE  ((a % WORDS) + b) % WORDS = (a + b) % WORDS
<1>1. PICK w \in Nat \ {0} : w = WORDS
  BY WordShape
<1>2. PICK q \in Int, r \in 0 .. w - 1 : r = a % w /\ a = w * q + r
  <2>1. a = w * (a \div w) + (a % w) /\ a \div w \in Int /\ a % w \in 0 .. w - 1
    OBVIOUS
  <2> QED
    BY <2>1
<1>3. ASSUME NEW c \in Int PROVE \E p \in Int : c = w * p + (c % w) /\ c % w \in 0 .. w - 1
  <2>1. c = w * (c \div w) + (c % w) /\ c \div w \in Int /\ c % w \in 0 .. w - 1
    OBVIOUS
  <2> QED
    BY <2>1
<1>4. a + b \in Int /\ r + b \in Int
  BY <1>2
<1>5. PICK p \in Int, t \in 0 .. w - 1 : t = (a + b) % w /\ a + b = w * p + t
  BY <1>3, <1>4
<1>6. PICK o \in Int, v \in 0 .. w - 1 : v = (r + b) % w /\ r + b = w * o + v
  BY <1>3, <1>4
<1>7. w * (q + o) + v = w * p + t
  <2>1. /\ w * (q + o) = w * q + w * o
        /\ w * q \in Int /\ w * o \in Int /\ w * (q + o) \in Int /\ w * p \in Int
    OBVIOUS
  <2>2. a = w * q + r /\ a + b = w * p + t /\ r + b = w * o + v
    BY <1>2, <1>5, <1>6
  <2>3. a \in Int /\ b \in Int /\ r \in Int /\ t \in Int /\ v \in Int
    OBVIOUS
  <2> QED
    BY ONLY <2>2, <2>3, <2>1
<1>8. v = t
  BY <1>7, OneRemainder
<1> QED
  BY <1>1, <1>2, <1>5, <1>6, <1>8

(* Linear, of any program and stack.                                       *)
LinearOf(prog, depth, stack, k, i) ==
    LET formula == prog.formulas[k]
        sum[n \in 0 .. depth + 1] ==
            IF n = 0 THEN 0
            ELSE sum[n - 1] + formula.coefficients[stack[n - 1].name]
                                 * stack[n - 1].value
    IN  (formula.constant + sum[depth + 1]
           + i * formula.coefficients[stack[depth % LOOP_CNT].name]) % WORDS

(* The address of copy i is that of the first one plus i strides.          *)
LEMMA LinearIs ==
    ASSUME NEW prog \in Programs, NEW depth \in -1 .. LOOP_CNT - 1,
           NEW stack \in [Depths -> Level], NEW k \in APUs, NEW i \in Int
    PROVE  LinearOf(prog, depth, stack, k, i)
             = (Address(prog, k, depth, stack) + i * Stride(prog, k, depth, stack)) % WORDS
<1> DEFINE formula == prog.formulas[k]
           h == Term(formula, stack)
           sum[n \in 0 .. depth + 1] ==
             IF n = 0 THEN 0
             ELSE sum[n - 1] + formula.coefficients[stack[n - 1].name] * stack[n - 1].value
<1>0. depth \in Int /\ depth + 1 \in 0 .. LOOP_CNT /\ depth % LOOP_CNT \in Depths
  BY DepthsShape
<1>1. h \in [Depths -> Int] /\ formula.constant \in Int
      /\ \A name \in Depths : formula.coefficients[name] \in Int
  BY TermTyped
<1>2. PICK m \in 0 .. LOOP_CNT : m = depth + 1
  BY <1>0
<1>3. PICK f \in [0 .. m -> Int] : IsSum(f, h, m) /\ \A g : IsSum(g, h, m) => g = f
  BY <1>1, SumExists
<1>4. ASSUME NEW g
      PROVE  [n \in 0 .. m |-> IF n = 0 THEN 0 ELSE g[n - 1] + h[n - 1]]
               = [n \in 0 .. m |-> IF n = 0 THEN 0
                    ELSE g[n - 1] + formula.coefficients[stack[n - 1].name] * stack[n - 1].value]
  <2>1. ASSUME NEW n \in 0 .. m, n # 0
        PROVE  h[n - 1] = formula.coefficients[stack[n - 1].name] * stack[n - 1].value
    <3>1. n - 1 \in Depths
      BY <2>1, DepthsShape
    <3> QED
      BY <3>1 DEF Term
  <2> HIDE DEF h, formula
  <2> QED
    BY <2>1
<1>5. sum = f
  <2>1. sum = CHOOSE g : g = [n \in 0 .. depth + 1 |-> IF n = 0 THEN 0
                    ELSE g[n - 1] + formula.coefficients[stack[n - 1].name] * stack[n - 1].value]
    OBVIOUS
  <2>2. \A g : IsSum(g, h, m) <=> g = [n \in 0 .. depth + 1 |-> IF n = 0 THEN 0
                    ELSE g[n - 1] + formula.coefficients[stack[n - 1].name] * stack[n - 1].value]
    <3> HIDE DEF h, formula
    <3> QED
      BY <1>2, <1>4 DEF IsSum
  <2> DEFINE body(g) == g = [n \in 0 .. depth + 1 |-> IF n = 0 THEN 0
                    ELSE g[n - 1] + formula.coefficients[stack[n - 1].name] * stack[n - 1].value]
  <2>3. sum = CHOOSE g : body(g)
    BY <2>1
  <2>4. \A g : IsSum(g, h, m) <=> body(g)
    BY <2>2
  <2> HIDE DEF sum, body, h
  <2>5. body(f) /\ \A g : body(g) => g = f
    BY <1>3, <2>4
  <2> QED
    BY <2>3, <2>5
<1>6. SumTo(h, m) = f[m] /\ SumTo(h, m) \in Int
  BY <1>1, <1>3, SumIs
<1>7. LinearOf(prog, depth, stack, k, i)
        = (formula.constant + sum[depth + 1]
             + i * formula.coefficients[stack[depth % LOOP_CNT].name]) % WORDS
  BY DEF LinearOf
<1>8. stack[depth % LOOP_CNT].name \in Depths
  BY <1>0 DEF Level
<1>9. Stride(prog, k, depth, stack) \in Int
      /\ Stride(prog, k, depth, stack) = formula.coefficients[stack[depth % LOOP_CNT].name]
  BY <1>1, <1>8 DEF Stride
<1>10. Address(prog, k, depth, stack) = (formula.constant + SumTo(h, m)) % WORDS
  BY <1>2 DEF Address
<1>11. i * Stride(prog, k, depth, stack) \in Int
  BY ONLY <1>9, i \in Int
<1> HIDE DEF sum, h, formula
<1>12. formula.constant + SumTo(h, m) \in Int
  BY <1>1, <1>6
<1>13. LinearOf(prog, depth, stack, k, i)
        = (formula.constant + SumTo(h, m) + i * Stride(prog, k, depth, stack)) % WORDS
  BY <1>2, <1>5, <1>6, <1>7, <1>9
<1> QED
  BY <1>10, <1>11, <1>12, <1>13, ModAdd

(* Outside of every loop the address is the constant.                      *)
LEMMA AddressEmpty ==
    ASSUME NEW prog \in Programs, NEW k \in APUs, NEW stack \in [Depths -> Level]
    PROVE  Address(prog, k, -1, stack) = prog.formulas[k].constant
<1>1. Term(prog.formulas[k], stack) \in [Depths -> Int]
  BY TermTyped
<1>2. 0 \in 0 .. LOOP_CNT
  BY DepthsShape
<1>3. SumTo(Term(prog.formulas[k], stack), 0) = 0
  BY <1>1, <1>2, SumIs
<1>4. prog.formulas[k].constant \in Word
  BY ProgramShape
<1>5. PICK c \in Word : c = prog.formulas[k].constant
  BY <1>4
<1>6. c \in Nat /\ c < WORDS /\ WORDS \in Nat \ {0}
  BY WordShape
<1>7. (c + 0) % WORDS = c
  BY <1>6
<1>8. Address(prog, k, -1, stack) = (c + SumTo(Term(prog.formulas[k], stack), 0)) % WORDS
  BY <1>5 DEF Address
<1> QED
  BY <1>3, <1>5, <1>7, <1>8

(* A loop that starts adds nothing to it.                                  *)
LEMMA AddressStart ==
    ASSUME NEW prog \in Programs, NEW k \in APUs, NEW stack \in [Depths -> Level],
           NEW d \in Depths, NEW level \in Level, level.value = 0
    PROVE  Address(prog, k, d, [stack EXCEPT ![d] = level]) = Address(prog, k, d - 1, stack)
<1> DEFINE new == [stack EXCEPT ![d] = level]
           h == Term(prog.formulas[k], stack)
           g == Term(prog.formulas[k], new)
<1>1. new \in [Depths -> Level]
  OBVIOUS
<1>2. h \in [Depths -> Int] /\ g \in [Depths -> Int]
  BY <1>1, TermTyped
<1>3. \A n \in Depths : n < d => g[n] = h[n]
  <2>1. ASSUME NEW n \in Depths, n < d PROVE new[n] = stack[n]
    <3>1. n # d
      BY <2>1, DepthsShape
    <3> QED
      BY <3>1
  <2> QED
    BY <2>1 DEF Term
<1>4. g[d] = 0
  <2>1. new[d] = level /\ level.name \in Depths
    BY DEF Level
  <2>2. prog.formulas[k].coefficients[level.name] \in Int
    BY <2>1, TermTyped
  <2>3. g[d] = prog.formulas[k].coefficients[level.name] * 0
    BY <2>1 DEF Term
  <2> QED
    BY <2>2, <2>3
<1>5. d \in 0 .. LOOP_CNT /\ d < LOOP_CNT /\ d \in Int /\ d - 1 + 1 = d
  BY DepthsShape
<1> HIDE DEF g, h
<1>6. SumTo(g, d + 1) = SumTo(g, d) + g[d] /\ SumTo(g, d) = SumTo(h, d) /\ SumTo(h, d) \in Int
  BY <1>2, <1>3, <1>5, SumIs, SumSame
<1>7. SumTo(g, d + 1) = SumTo(h, d)
  BY <1>4, <1>6
<1> QED
  BY <1>5, <1>7 DEF Address, g, h

(* A chunk of c iterations adds c strides of the innermost loop.           *)
LEMMA AddressGrows ==
    ASSUME NEW prog \in Programs, NEW k \in APUs, NEW stack \in [Depths -> Level],
           NEW d \in Depths, NEW level \in Level, NEW c \in Int,
           level.name = stack[d].name, level.value = stack[d].value + c
    PROVE  Address(prog, k, d, [stack EXCEPT ![d] = level])
             = (Address(prog, k, d, stack)
                  + c * prog.formulas[k].coefficients[level.name]) % WORDS
<1> DEFINE new == [stack EXCEPT ![d] = level]
           h == Term(prog.formulas[k], stack)
           g == Term(prog.formulas[k], new)
           x == prog.formulas[k].coefficients[level.name]
<1>1. new \in [Depths -> Level]
  OBVIOUS
<1>2. h \in [Depths -> Int] /\ g \in [Depths -> Int]
  BY <1>1, TermTyped
<1>3. \A n \in Depths : n < d => g[n] = h[n]
  <2>1. ASSUME NEW n \in Depths, n < d PROVE new[n] = stack[n]
    <3>1. n # d
      BY <2>1, DepthsShape
    <3> QED
      BY <3>1
  <2> QED
    BY <2>1 DEF Term
<1>4. x \in Int /\ stack[d].value \in Int
  <2>1. level.name \in Depths /\ stack[d].value \in Word
    BY DEF Level
  <2> QED
    BY <2>1, TermTyped, WordShape
<1>5. g[d] = h[d] + c * x
  <2>1. new[d] = level
    OBVIOUS
  <2>2. g[d] = x * (stack[d].value + c) /\ h[d] = x * stack[d].value
    BY <2>1 DEF Term
  <2>3. PICK a \in Int, v \in Int : a = x /\ v = stack[d].value
    BY <1>4
  <2>4. a * (v + c) = a * v + c * a
    OBVIOUS
  <2> HIDE DEF g, h, x
  <2> QED
    BY <2>2, <2>3, <2>4
<1>6. d \in 0 .. LOOP_CNT /\ d < LOOP_CNT /\ d \in Int /\ d + 1 \in 0 .. LOOP_CNT
  BY DepthsShape
<1> HIDE DEF g, h, x
<1>7. /\ SumTo(g, d + 1) = SumTo(g, d) + g[d] /\ SumTo(g, d) = SumTo(h, d)
      /\ SumTo(h, d + 1) = SumTo(h, d) + h[d] /\ SumTo(h, d) \in Int
      /\ h[d] \in Int /\ SumTo(h, d + 1) \in Int
  BY <1>2, <1>3, <1>6, SumIs, SumSame
<1>8. c * x \in Int
  BY <1>4
<1>9. PICK y \in Int : y = c * x
  BY <1>8
<1>10. SumTo(g, d + 1) = SumTo(h, d + 1) + y
  BY <1>5, <1>7, <1>9
<1>11. prog.formulas[k].constant \in Int
  BY TermTyped
<1>12. PICK b \in Int : b = prog.formulas[k].constant + SumTo(h, d + 1)
  BY <1>7, <1>11
<1>13. prog.formulas[k].constant + SumTo(g, d + 1) = b + y
  BY <1>7, <1>10, <1>11, <1>12
<1>14. ((b % WORDS) + y) % WORDS = (b + y) % WORDS
  BY ModAdd
<1>15. Address(prog, k, d, new) = (b + y) % WORDS /\ Address(prog, k, d, stack) = b % WORDS
  BY <1>12, <1>13 DEF Address, g, h
<1> QED
  BY <1>9, <1>14, <1>15 DEF x

-----------------------------------------------------------------------------
(* The states before the first instruction of a program.                   *)
Before == {"IDLE", "PREPARE_PROGRAM_0", "PREPARE_PROGRAM_1", "PREPARE_PROGRAM_2"}

(* All the ends of loops are ahead of p.  Once an increment has been made, *)
(* p is in the body of the loop that ends first, and no loop starts there. *)
Ahead(prog, p, di) ==
    /\ \A t \in StartsOf(prog) : p <= EndOf(prog, t)
    /\ di # 0 => \E s \in StartsOf(prog) :
                    s < p /\ \A t \in StartsOf(prog) : EndOf(prog, s) <= EndOf(prog, t)

(* The formulas come out of the header in two halves.                      *)
HeaderLoaded ==
    /\ S = "PREPARE_PROGRAM_2" => \A k \in FirstHalf :
          /\ apu_linear_formulas[k] = program.formulas[k].coefficients
          /\ apu_address_registers[k] = program.formulas[k].constant
    /\ S \notin Before => \A k \in APUs :
          apu_linear_formulas[k] = program.formulas[k].coefficients

(* As long as no loop has ended: the counts of an empty stack are clear,   *)
(* and the ends of all loops are ahead.                                    *)
FirstNest ==
    /\ S \in Before => loop_ended = FALSE /\ apu_in_di = 0
    /\ loop_ended = FALSE /\ loop_cur_depth = -1 =>
          \A d \in Depths : loop_stack[d].value = 0 /\ loop_stack[d].total = 0
    /\ loop_ended = FALSE /\ S \in Reading => Ahead(program, pc, apu_in_di)
    /\ loop_ended = FALSE /\ S \in Moving => Ahead(program, NextPc, apu_in_di)

(* The registers hold the addresses of the stack; between the step of a    *)
(* loop and UPDATE_APU they do with the increment that is pending.         *)
AddressesFollow ==
    loop_ended = FALSE /\ S \notin Before => \A k \in APUs :
        Address(program, k, loop_cur_depth, loop_stack) =
            IF S = "UPDATE_APU"
            THEN (apu_address_registers[k]
                    + apu_in_di * program.formulas[k].coefficients[apu_in_loop_var]) % WORDS
            ELSE apu_address_registers[k]

(* What a first nest of loops keeps.                                       *)
FirstInv == HeaderLoaded /\ FirstNest /\ AddressesFollow /\ AddressesLinearInFirstNest

(* AddressesLinearInFirstNest, of any push.                                *)
LinearPush(q, instruction, prog, depth, stack) ==
    q.we /\ q.type \in {"LOAD_STORE", "RAM"} =>
        \A i \in 0 .. q.copy_count - 1 :
            /\ (q.cache_addr + i * q.d_cache_addr) % WORDS
                  = LinearOf(prog, depth, stack, instruction.cache_apu, i)
            /\ q.type = "RAM" =>
                  (q.main_mem_addr + i * q.d_main_mem_addr) % WORDS
                     = LinearOf(prog, depth, stack, instruction.main_apu, i)
FirstPush(q, instruction, prog, depth, stack, ended) ==
    ~ended /\ (\A d \in 0 .. depth : stack[d].name = d)
        => LinearPush(q, instruction, prog, depth, stack)

(* They are the same, before and after a step.                             *)
LEMMA FirstPushIs ==
    /\ AddressesLinearInFirstNest <=>
         FirstPush(queue, Instruction, program, loop_cur_depth, loop_stack, loop_ended)
    /\ AddressesLinearInFirstNest' <=>
         FirstPush(queue', Instruction', program', loop_cur_depth', loop_stack', loop_ended')
<1>1. ASSUME NEW k, NEW i
      PROVE  /\ Linear(k, i) = LinearOf(program, loop_cur_depth, loop_stack, k, i)
             /\ Linear(k, i)' = LinearOf(program', loop_cur_depth', loop_stack', k, i)
  BY DEF Linear, LinearOf, Innermost, top
<1>2. AddressesLinear <=> LinearPush(queue, Instruction, program, loop_cur_depth, loop_stack)
  BY <1>1 DEF AddressesLinear, LinearPush
<1>3. AddressesLinear'
        <=> LinearPush(queue', Instruction', program', loop_cur_depth', loop_stack')
  <2>1. AddressesLinear' <=>
          (queue'.we /\ queue'.type \in {"LOAD_STORE", "RAM"} =>
             \A i \in 0 .. queue'.copy_count - 1 :
               /\ (queue'.cache_addr + i * queue'.d_cache_addr) % WORDS
                     = Linear(Instruction.cache_apu, i)'
               /\ queue'.type = "RAM" =>
                     (queue'.main_mem_addr + i * queue'.d_main_mem_addr) % WORDS
                        = Linear(Instruction.main_apu, i)')
    BY DEF AddressesLinear
  <2>2. ASSUME NEW i
        PROVE  /\ Linear(Instruction.cache_apu, i)' =
                    LinearOf(program', loop_cur_depth', loop_stack', Instruction'.cache_apu, i)
               /\ Linear(Instruction.main_apu, i)' =
                    LinearOf(program', loop_cur_depth', loop_stack', Instruction'.main_apu, i)
    BY DEF Linear, LinearOf, Innermost, top
  <2> QED
    BY <2>1, <2>2 DEF LinearPush
<1> QED
  BY <1>2, <1>3 DEF AddressesLinearInFirstNest, FirstPush

(* Nothing is to be shown of an edge that pushes no instruction.           *)
LEMMA NothingPushed ==
    ASSUME queue'.we = FALSE \/ queue'.type = "PROG_END"
    PROVE  AddressesLinearInFirstNest'
<1>1. FirstPush(queue', Instruction', program', loop_cur_depth', loop_stack', loop_ended')
  BY DEF FirstPush, LinearPush
<1> QED
  BY <1>1, FirstPushIs

(* The port is down where PortInv says so.                                 *)
LEMMA PortDown ==
    ASSUME Inv, PortInv, S \notin {"UPDATE_PC", "FINISH_PROGRAM_2"}
    PROVE  queue.we = FALSE
  BY DEF Inv, TypeOK, PortInv

(* The invariant at power-on, after a reset, and in the steps that leave   *)
(* what it speaks of alone.                                                *)
LEMMA FirstInit == ASSUME Init PROVE FirstInv
<1>1. /\ S = "IDLE" /\ loop_ended = FALSE /\ apu_in_di = 0
      /\ loop_stack = [d \in Depths |-> NoLoop] /\ queue = Silent
  BY DEF Init
<1>2. HeaderLoaded /\ FirstNest /\ AddressesFollow
  BY <1>1 DEF HeaderLoaded, FirstNest, AddressesFollow, Before, Reading, Moving, NoLoop
<1>3. AddressesLinear
  BY <1>1 DEF AddressesLinear, Silent
<1> QED
  BY <1>2, <1>3 DEF FirstInv, AddressesLinearInFirstNest

(* A reset clears the counts of the stack, and the last increment.         *)
LEMMA FirstReset == ASSUME Inv, Reset PROVE FirstInv'
<1>1. /\ S' = "IDLE" /\ loop_ended' = FALSE /\ apu_in_di' = 0
      /\ loop_stack' = [d \in Depths |->
                          [NoLoop EXCEPT !.independent = loop_stack[d].independent]]
      /\ queue' = [queue EXCEPT !.we = FALSE, !.type = "LOAD_STORE", !.copy_count = 0]
  BY DEF Reset
<1>2. \A d \in Depths : loop_stack'[d].value = 0 /\ loop_stack'[d].total = 0
  BY <1>1 DEF NoLoop
<1>3. HeaderLoaded' /\ FirstNest' /\ AddressesFollow'
  BY <1>1, <1>2 DEF HeaderLoaded, FirstNest, AddressesFollow, Before, Reading, Moving
<1>4. queue'.we = FALSE
  BY <1>1 DEF Inv, TypeOK
<1> QED
  BY <1>3, <1>4, NothingPushed DEF FirstInv

(* What no step but those of the loops and the header changes.             *)
LEMMA FirstUnchanged ==
    ASSUME FirstInv,
           UNCHANGED <<S, pc, loop_cur_depth, loop_stack, jump_amount, apu_in_loop_var,
                       apu_in_di, apu_linear_formulas, apu_address_registers, queue,
                       program, loop_ended>>
    PROVE  FirstInv'
<1>1. HeaderLoaded' /\ FirstNest' /\ AddressesFollow'
  BY DEF FirstInv, HeaderLoaded, FirstNest, AddressesFollow, NextPc
<1>2. Instruction' = Instruction
  BY DEF Instruction
<1>3. AddressesLinearInFirstNest'
  BY <1>2, FirstPushIs DEF FirstInv
<1> QED
  BY <1>1, <1>3 DEF FirstInv

(* The steps of the host, and the ones that wait.                          *)
LEMMA FirstStartProgram == ASSUME FirstInv, NEW p \in Programs, StartProgram(p) PROVE FirstInv'
  BY FirstUnchanged DEF StartProgram, loops, apu, history

LEMMA FirstStutter == ASSUME FirstInv, UNCHANGED vars PROVE FirstInv'
  BY FirstUnchanged DEF vars, loops, apu, fetch, environment, history

LEMMA FirstWait == ASSUME FirstInv, NEW stall \in BOOLEAN, Wait(stall) PROVE FirstInv'
  BY FirstUnchanged DEF Wait, loops, apu, fetch, environment, history

(* The fetch of a program, up to its header.                               *)
LEMMA FirstFetchProgram == ASSUME Inv, PortInv, FirstInv, FetchProgram PROVE FirstInv'
<1>1. /\ S = "IDLE" /\ S' = "PREPARE_PROGRAM_0"
      /\ UNCHANGED <<loop_cur_depth, loop_stack, apu_in_di, queue, loop_ended>>
  BY DEF FetchProgram, loops, apu, fetch, environment, history
<1>2. HeaderLoaded' /\ FirstNest' /\ AddressesFollow'
  BY <1>1 DEF FirstInv, HeaderLoaded, FirstNest, AddressesFollow, Before, Reading, Moving
<1>3. queue'.we = FALSE
  BY <1>1, PortDown
<1> QED
  BY <1>2, <1>3, NothingPushed DEF FirstInv

LEMMA FirstPrepareProgram0 == ASSUME Inv, PortInv, FirstInv, PrepareProgram0 PROVE FirstInv'
<1>1. /\ S = "PREPARE_PROGRAM_0" /\ S' = "PREPARE_PROGRAM_1" /\ loop_ended' = FALSE
      /\ UNCHANGED <<loop_cur_depth, loop_stack, apu_in_di, queue>>
  BY DEF PrepareProgram0, loops, apu, environment
<1>2. HeaderLoaded' /\ FirstNest' /\ AddressesFollow'
  BY <1>1 DEF FirstInv, HeaderLoaded, FirstNest, AddressesFollow, Before, Reading, Moving
<1>3. queue'.we = FALSE
  BY <1>1, PortDown
<1> QED
  BY <1>2, <1>3, NothingPushed DEF FirstInv

(* The header: the constants are the addresses outside of every loop.      *)
LEMMA FirstPrepareProgram1 == ASSUME Inv, PortInv, FirstInv, PrepareProgram1 PROVE FirstInv'
<1>1. /\ S = "PREPARE_PROGRAM_1" /\ S' = "PREPARE_PROGRAM_2" /\ LoadFormulas(FirstHalf)
  BY DEF PrepareProgram1
<1>2. UNCHANGED <<program, loop_cur_depth, loop_stack, apu_in_di, queue, loop_ended>>
  BY <1>1 DEF LoadFormulas, loops, fetch, environment, history
<1>3. \A k \in FirstHalf : /\ apu_linear_formulas'[k] = program.formulas[k].coefficients
                           /\ apu_address_registers'[k] = program.formulas[k].constant
  BY <1>1 DEF LoadFormulas, FirstHalf
<1>4. HeaderLoaded'
  BY <1>1, <1>2, <1>3 DEF HeaderLoaded, Before
<1>5. FirstNest' /\ AddressesFollow'
  BY <1>1, <1>2 DEF FirstInv, FirstNest, AddressesFollow, Before, Reading, Moving
<1>6. queue'.we = FALSE
  BY <1>1, <1>2, PortDown
<1> QED
  BY <1>4, <1>5, <1>6, NothingPushed DEF FirstInv

LEMMA FirstPrepareProgram2 == ASSUME Inv, PortInv, FirstInv, PrepareProgram2 PROVE FirstInv'
<1>1. /\ S = "PREPARE_PROGRAM_2" /\ S' = "DECODE" /\ LoadFormulas(APUs \ FirstHalf)
      /\ program \in Programs /\ loop_stack \in [Depths -> Level]
  BY DEF PrepareProgram2, Inv, TypeOK, Level
<1>2. UNCHANGED <<pc, program, loop_cur_depth, loop_stack, apu_in_di, queue, loop_ended>>
  BY <1>1 DEF LoadFormulas, loops, fetch, environment, history
<1>3. \A k \in APUs : /\ apu_linear_formulas'[k] = program.formulas[k].coefficients
                      /\ apu_address_registers'[k] = program.formulas[k].constant
  <2>1. \A k \in FirstHalf : /\ apu_linear_formulas[k] = program.formulas[k].coefficients
                             /\ apu_address_registers[k] = program.formulas[k].constant
    BY <1>1 DEF FirstInv, HeaderLoaded
  <2> QED
    BY <1>1, <2>1 DEF LoadFormulas
<1>4. HeaderLoaded'
  BY <1>1, <1>2, <1>3 DEF HeaderLoaded
<1>5. loop_cur_depth = -1 /\ pc = program.start /\ apu_in_di = 0 /\ loop_ended = FALSE
  BY <1>1 DEF Inv, PlaceInv, FirstInv, FirstNest, Before
<1>6. FirstNest'
  <2>1. Ahead(program, pc, 0)
    <3>1. ASSUME NEW t \in StartsOf(program) PROVE program.start <= EndOf(program, t)
      <4>1. /\ t \in Int /\ program.start <= t /\ EndOf(program, t) \in Int
            /\ t < EndOf(program, t) /\ program.start \in Int
        BY <1>1, ProgramShape, LoopShape
      <4> QED
        BY ONLY <4>1
    <3> QED
      BY <1>5, <3>1 DEF Ahead
  <2> QED
    BY <1>1, <1>2, <1>5, <2>1 DEF FirstInv, FirstNest, Before, Reading, Moving
<1>7. AddressesFollow'
  <2>1. \A k \in APUs : Address(program, k, -1, loop_stack) = program.formulas[k].constant
    BY <1>1, AddressEmpty
  <2> QED
    BY <1>1, <1>2, <1>3, <1>5, <2>1 DEF AddressesFollow
<1>8. queue'.we = FALSE
  BY <1>1, <1>2, PortDown
<1> QED
  BY <1>4, <1>6, <1>7, <1>8, NothingPushed DEF FirstInv

(* Reading and moving on do not touch the address registers.               *)
LEMMA FirstDecode == ASSUME Inv, PortInv, FirstInv, Decode PROVE FirstInv'
<1>1. /\ S = "DECODE" /\ S' \in {"INSERT_TO_QUEUE", "START_NEW_LOOP", "INCREMENT_LOOP"}
      /\ UNCHANGED <<pc, loop_cur_depth, loop_stack, jump_amount, apu_in_loop_var,
                     apu_in_di, apu_linear_formulas, apu_address_registers, queue,
                     program, loop_ended>>
  BY DEF Decode, loops, apu, fetch, environment, history
<1>2. HeaderLoaded'
  BY <1>1 DEF FirstInv, HeaderLoaded, Before
<1>3. FirstNest'
  BY <1>1 DEF FirstInv, FirstNest, Before, Reading, Moving
<1>4. AddressesFollow'
  BY <1>1 DEF FirstInv, AddressesFollow, Before
<1>5. queue'.we = FALSE
  BY <1>1, PortDown
<1> QED
  BY <1>2, <1>3, <1>4, <1>5, NothingPushed DEF FirstInv

LEMMA FirstUpdatePc == ASSUME Inv, FirstInv, UpdatePc PROVE FirstInv'
<1>1. /\ S = "UPDATE_PC" /\ S' \in {"FINISH_PROGRAM_1", "DECODE"} /\ pc' = NextPc
      /\ queue' = [queue EXCEPT !.we = FALSE]
      /\ UNCHANGED <<loop_cur_depth, loop_stack, apu_in_loop_var,
                     apu_in_di, apu_linear_formulas, apu_address_registers,
                     program, loop_ended>>
  BY DEF UpdatePc, apu, fetch, environment, history, NextPc
<1>2. HeaderLoaded'
  BY <1>1 DEF FirstInv, HeaderLoaded, Before
<1>3. FirstNest'
  BY <1>1 DEF FirstInv, FirstNest, Before, Reading, Moving
<1>4. AddressesFollow'
  BY <1>1 DEF FirstInv, AddressesFollow, Before
<1>5. queue'.we = FALSE
  BY <1>1 DEF Inv, TypeOK
<1> QED
  BY <1>2, <1>3, <1>4, <1>5, NothingPushed DEF FirstInv

LEMMA FirstFinish ==
    ASSUME Inv, FirstInv, NEW stall \in BOOLEAN, FinishProgram1(stall) \/ FinishProgram2
    PROVE  FirstInv'
<1>1. /\ S \in {"FINISH_PROGRAM_1", "FINISH_PROGRAM_2"} /\ S' = "FINISH_PROGRAM_2"
      /\ \/ queue' = [queue EXCEPT !.we = TRUE, !.type = "PROG_END"]
         \/ queue' = [queue EXCEPT !.we = FALSE]
      /\ UNCHANGED <<loop_cur_depth, loop_stack, apu_in_loop_var,
                     apu_in_di, apu_linear_formulas, apu_address_registers,
                     program, loop_ended>>
  BY DEF FinishProgram1, FinishProgram2, loops, apu, fetch, environment, history
<1>2. HeaderLoaded'
  BY <1>1 DEF FirstInv, HeaderLoaded, Before
<1>3. FirstNest'
  BY <1>1 DEF FirstInv, FirstNest, Before, Reading, Moving
<1>4. AddressesFollow'
  BY <1>1 DEF FirstInv, AddressesFollow, Before
<1>5. queue'.we = FALSE \/ queue'.type = "PROG_END"
  BY <1>1 DEF Inv, TypeOK
<1> QED
  BY <1>2, <1>3, <1>4, <1>5, NothingPushed DEF FirstInv

(* The registers take the increment that was pending.                      *)
LEMMA FirstUpdateApu == ASSUME Inv, PortInv, FirstInv, UpdateApu PROVE FirstInv'
<1>1. /\ S = "UPDATE_APU" /\ S' = "UPDATE_PC"
      /\ apu_address_registers' = [k \in APUs |->
            (apu_address_registers[k] + apu_in_di * daddr_di(k, apu_in_loop_var)) % WORDS]
      /\ UNCHANGED <<pc, loop_cur_depth, loop_stack, jump_amount, apu_in_loop_var,
                     apu_in_di, apu_linear_formulas, queue, program, loop_ended>>
  BY DEF UpdateApu, loops, fetch, environment, history
<1>2. HeaderLoaded'
  BY <1>1 DEF FirstInv, HeaderLoaded, Before
<1>3. FirstNest'
  BY <1>1 DEF FirstInv, FirstNest, Before, Reading, Moving, NextPc
<1>4. AddressesFollow'
  <2>1. ASSUME NEW k \in APUs, loop_ended = FALSE
        PROVE  Address(program, k, loop_cur_depth, loop_stack) = apu_address_registers'[k]
    <3>1. daddr_di(k, apu_in_loop_var) = program.formulas[k].coefficients[apu_in_loop_var]
      BY <1>1 DEF FirstInv, HeaderLoaded, Before, daddr_di
    <3> QED
      BY <1>1, <2>1, <3>1 DEF FirstInv, AddressesFollow, Before
  <2> QED
    BY <1>1, <2>1 DEF AddressesFollow
<1>5. queue'.we = FALSE
  BY <1>1, PortDown
<1> QED
  BY <1>2, <1>3, <1>4, <1>5, NothingPushed DEF FirstInv

(* No loop ends where the machine only moves on.                           *)
LEMMA AheadNext ==
    ASSUME NEW prog \in Programs, NEW p \in Int, NEW di, Ahead(prog, p, di),
           \A t \in StartsOf(prog) : EndOf(prog, t) # p
    PROVE  Ahead(prog, p + 1, di)
<1>1. \A t \in StartsOf(prog) : t \in Int /\ EndOf(prog, t) \in Int
  BY ProgramShape, LoopShape
<1>2. \A t \in StartsOf(prog) : p + 1 <= EndOf(prog, t)
  BY <1>1 DEF Ahead
<1>3. \A s \in StartsOf(prog) : s < p => s < p + 1
  BY <1>1
<1> QED
  BY <1>2, <1>3 DEF Ahead

(* A loop starts only while no increment is pending: behind an increment   *)
(* the machine is in the loop that ends first, which has no loop inside.   *)
LEMMA FirstStartNewLoop == ASSUME Inv, PortInv, FirstInv, StartNewLoop PROVE FirstInv'
<1> DEFINE level == [value |-> 0,
                     total |-> program.loops[Instruction.name].iteration_count,
                     jump |-> program.loops[Instruction.name].jump_amount,
                     independent |-> Instruction.is_independent,
                     name |-> Instruction.name]
<1>1. /\ S = "START_NEW_LOOP" /\ S' = "UPDATE_APU"
      /\ loop_cur_depth' = loop_cur_depth_plus_one
      /\ loop_stack' = [loop_stack EXCEPT ![loop_cur_depth_plus_one] = level]
      /\ UNCHANGED <<pc, jump_amount, apu_in_loop_var,
                     apu_in_di, apu_linear_formulas, apu_address_registers, queue,
                     program, loop_ended>>
  BY DEF StartNewLoop, apu, fetch, environment, history
<1>2. /\ pc \in StartsOf(program) /\ Nests(program, pc, loop_cur_depth, loop_stack)
      /\ jump_amount = 0 /\ program \in Programs /\ loop_cur_depth \in Int /\ pc \in Int
      /\ loop_stack \in [Depths -> Level] /\ Encoded(program) /\ WellNested(program)
  BY <1>1, ProgramShape, ControlAssumption
     DEF Inv, PlaceInv, Reading, Moving, TypeOK, Level, ControlAssumption
<1>3. PICK d \in Depths : /\ d = loop_cur_depth_plus_one /\ loop_cur_depth = d - 1
                          /\ d \in Nat /\ d # -1
  <2>1. /\ Cardinality(AroundOf(program, pc)) < LOOP_CNT
        /\ Cardinality(AroundOf(program, pc)) \in Nat
    BY <1>2, AroundStart, AroundFinite
  <2>2. loop_cur_depth + 1 = Cardinality(AroundOf(program, pc))
    BY <1>2 DEF Nests
  <2>3. loop_cur_depth + 1 \in Depths
    BY <2>1, <2>2, DepthsShape
  <2>4. loop_cur_depth + 1 = loop_cur_depth_plus_one
    BY <2>3, DepthsShape DEF loop_cur_depth_plus_one
  <2> QED
    BY <1>2, <2>1, <2>2, <2>3, <2>4
<1>4. level \in Level /\ level.value = 0
  <2>1. /\ Instruction.is_independent \in BOOLEAN /\ Instruction.name = program.code[pc].name
    BY <1>2 DEF Instruction, StartsOf, Encoded
  <2>2. /\ Instruction.name \in Depths
        /\ HeaderOf(program, pc) = program.loops[Instruction.name]
        /\ HeaderOf(program, pc).iteration_count \in Word
        /\ HeaderOf(program, pc).jump_amount \in Nat
    BY <1>2, <2>1, LoopShape DEF HeaderOf
  <2> QED
    BY <2>1, <2>2, StartShape DEF Level
<1> HIDE DEF level
<1>5. HeaderLoaded'
  BY <1>1 DEF FirstInv, HeaderLoaded, Before
<1>6. ASSUME loop_ended = FALSE PROVE apu_in_di = 0 /\ Ahead(program, NextPc', 0)
  <2>1. Ahead(program, pc, apu_in_di)
    BY <1>1, <1>6 DEF FirstInv, FirstNest, Reading
  <2>2. ASSUME apu_in_di # 0 PROVE FALSE
    <3>1. PICK s \in StartsOf(program) :
             s < pc /\ \A t \in StartsOf(program) : EndOf(program, s) <= EndOf(program, t)
      BY <2>1, <2>2 DEF Ahead
    <3>2. pc <= EndOf(program, s) /\ EndOf(program, s) <= EndOf(program, pc)
      BY <1>2, <2>1, <3>1 DEF Ahead
    <3>3. EndOf(program, pc) < EndOf(program, s)
      BY <1>2, <3>1, <3>2 DEF WellNested
    <3>4. EndOf(program, pc) \in Int /\ EndOf(program, s) \in Int
      BY <1>2, LoopShape
    <3> QED
      BY ONLY <3>2, <3>3, <3>4
  <2>3. \A t \in StartsOf(program) : EndOf(program, t) # pc
    BY <1>2, LoopShape
  <2>4. NextPc' = pc + 1
    <3>1. NextPc' = pc + 1 - 0
      BY <1>1, <1>2 DEF NextPc
    <3> QED
      BY <1>2, <3>1
  <2> QED
    BY <1>2, <2>1, <2>2, <2>3, <2>4, AheadNext
<1>7. FirstNest'
  BY <1>1, <1>3, <1>6 DEF FirstNest, Before, Reading, Moving
<1>8. AddressesFollow'
  <2>1. ASSUME NEW k \in APUs, loop_ended = FALSE
        PROVE  Address(program, k, loop_cur_depth', loop_stack') =
                 (apu_address_registers[k]
                    + apu_in_di * program.formulas[k].coefficients[apu_in_loop_var]) % WORDS
    <3>1. Address(program, k, d, [loop_stack EXCEPT ![d] = level])
            = Address(program, k, d - 1, loop_stack)
      BY <1>2, <1>4, AddressStart
    <3>2. Address(program, k, loop_cur_depth, loop_stack) = apu_address_registers[k]
      BY <1>1, <2>1 DEF FirstInv, AddressesFollow, Before
    <3>3. Address(program, k, loop_cur_depth', loop_stack') = apu_address_registers[k]
      BY <1>1, <1>3, <3>1, <3>2
    <3>4. program.formulas[k].coefficients[apu_in_loop_var] \in Int
          /\ apu_address_registers[k] \in Word
      BY <1>2, TermTyped DEF Inv, TypeOK
    <3>5. ASSUME NEW c \in Int, NEW r \in Word PROVE (r + 0 * c) % WORDS = r
      <4>1. r \in Nat /\ r < WORDS /\ WORDS \in Nat \ {0}
        BY WordShape
      <4> QED
        BY ONLY <4>1, c \in Int
    <3> QED
      BY <1>6, <2>1, <3>3, <3>4, <3>5
  <2> QED
    BY <1>1, <2>1 DEF AddressesFollow
<1>9. queue'.we = FALSE
  BY <1>1, PortDown
<1> QED
  BY <1>5, <1>7, <1>8, <1>9, NothingPushed DEF FirstInv

(* An increment adds its chunk to the level, and to the registers next.    *)
LEMMA FirstIncrementLoop == ASSUME Inv, PortInv, FirstInv, IncrementLoop PROVE FirstInv'
<1> DEFINE ended == (Innermost.independent /\ LastChunk) \/ loop_cur_remaining_iterations = 1
           level == [loop_stack[top] EXCEPT !.value = (@ + Chunk) % WORDS]
<1>1. /\ S = "INCREMENT_LOOP" /\ S' = "UPDATE_APU"
      /\ loop_stack' = [loop_stack EXCEPT ![top].value = (@ + Chunk) % WORDS]
      /\ apu_in_loop_var' = Innermost.name
      /\ UNCHANGED <<pc, apu_linear_formulas, apu_address_registers, queue, program>>
  BY DEF IncrementLoop, fetch, environment
<1>2. IF ended THEN loop_ended' = TRUE
               ELSE /\ apu_in_di' = IF Innermost.independent THEN SUPERSCALAR_WIDTH ELSE 1
                    /\ jump_amount' = Innermost.jump
                    /\ loop_cur_depth' = loop_cur_depth /\ loop_ended' = loop_ended
  BY DEF IncrementLoop
<1>3. HeaderLoaded'
  BY <1>1 DEF FirstInv, HeaderLoaded, Before
<1>4. queue'.we = FALSE
  BY <1>1, PortDown
<1>5. CASE ended
  <2>1. FirstNest' /\ AddressesFollow'
    BY <1>1, <1>2, <1>5 DEF FirstNest, AddressesFollow, Before, Reading, Moving
  <2> QED
    BY <1>3, <1>4, <2>1, NothingPushed DEF FirstInv
<1>6. CASE ~ended /\ loop_ended = FALSE
  <2>1. /\ Nests(program, pc, loop_cur_depth, loop_stack)
        /\ program.code[pc].type = "LOOP" /\ pc \notin StartsOf(program)
        /\ program \in Programs /\ loop_cur_depth \in Int /\ pc \in Int
        /\ loop_stack \in [Depths -> Level] /\ Encoded(program) /\ WellNested(program)
        /\ pc \in DOMAIN program.code /\ TypeOK
    <3>1. /\ Nests(program, pc, loop_cur_depth, loop_stack)
          /\ Instruction.type = "LOOP" /\ pc \notin StartsOf(program)
          /\ pc \in DOMAIN program.code /\ TypeOK
      BY <1>1 DEF Inv, PlaceInv, Reading
    <3>2. /\ program \in Programs /\ loop_cur_depth \in Int /\ pc \in Int
          /\ loop_stack \in [Depths -> Level]
      BY <3>1, ControlAssumption DEF TypeOK, Level, ControlAssumption
    <3> QED
      BY <3>1, <3>2, ProgramShape DEF Instruction
  <2>2. PICK s \in StartsOf(program) : EndOf(program, s) = pc
    BY <2>1 DEF WellNested
  <2>3. /\ loop_cur_depth \in Depths /\ top = loop_cur_depth
        /\ HoldsLoop(program, s, loop_stack[loop_cur_depth])
    BY <2>1, <2>2, NestsTop DEF top
  <2>4. /\ Innermost = loop_stack[loop_cur_depth] /\ Innermost \in Level
        /\ Innermost.jump = HeaderOf(program, s).jump_amount
        /\ Innermost.value < Innermost.total
    BY <2>1, <2>3 DEF Innermost, HoldsLoop
  <2>5. /\ (Innermost.value + Chunk) % WORDS \in Word
        /\ (Innermost.value + Chunk) % WORDS = Innermost.value + Chunk
        /\ apu_in_di' = Chunk
    BY <1>2, <1>6, <2>1, <2>4, RemainingIterations
  <2>6. Chunk \in Int
    BY <2>1, ChunkTyped
  <2>7. /\ level \in Level /\ level.name = Innermost.name
        /\ level.value = Innermost.value + Chunk
        /\ loop_stack' = [loop_stack EXCEPT ![loop_cur_depth] = level]
    <3>1. level = [Innermost EXCEPT !.value = (Innermost.value + Chunk) % WORDS]
      BY <2>3, <2>4
    <3>2. level \in Level /\ level.name = Innermost.name
          /\ level.value = (Innermost.value + Chunk) % WORDS
      BY <2>4, <2>5, <3>1 DEF Level
    <3>3. loop_stack' = [loop_stack EXCEPT ![loop_cur_depth] = level]
      BY <1>1, <2>1, <2>3
    <3> QED
      BY <2>5, <3>2, <3>3
  <2> HIDE DEF ended, level
  <2>8. FirstNest'
    <3>1. NextPc' = s + 1
      <4>1. NextPc' = pc + 1 - Innermost.jump
        BY <1>1, <1>2, <1>6 DEF NextPc
      <4>2. /\ s \in Int /\ pc = s + Innermost.jump /\ Innermost.jump \in Nat
        BY <2>1, <2>2, <2>4, LoopShape DEF EndOf
      <4> QED
        BY ONLY <4>1, <4>2
    <3>2. Ahead(program, pc, apu_in_di)
      BY <1>1, <1>6 DEF FirstInv, FirstNest, Reading
    <3>3. /\ s \in Int /\ s < pc
          /\ \A t \in StartsOf(program) : t \in Int /\ EndOf(program, t) \in Int
      BY <2>1, <2>2, LoopShape
    <3>4. \A t \in StartsOf(program) : pc <= EndOf(program, t)
      BY <3>2 DEF Ahead
    <3>5. \A t \in StartsOf(program) : s + 1 <= EndOf(program, t)
      BY <2>1, <3>3, <3>4
    <3>6. s < s + 1 /\ \A t \in StartsOf(program) : EndOf(program, s) <= EndOf(program, t)
      BY <2>2, <3>3, <3>4
    <3>7. Ahead(program, NextPc', apu_in_di')
      BY <3>1, <3>5, <3>6 DEF Ahead
    <3>8. loop_cur_depth # -1
      BY <2>3, DepthsShape
    <3> QED
      BY <1>1, <1>2, <1>6, <3>7, <3>8 DEF FirstNest, Before, Reading, Moving
  <2>9. AddressesFollow'
    <3>1. ASSUME NEW k \in APUs
          PROVE  Address(program, k, loop_cur_depth', loop_stack') =
                   (apu_address_registers[k]
                      + apu_in_di' * program.formulas[k].coefficients[apu_in_loop_var']) % WORDS
      <4>1. PICK d \in Depths : d = loop_cur_depth
        BY <2>3
      <4>2. Address(program, k, d, [loop_stack EXCEPT ![d] = level])
              = (Address(program, k, d, loop_stack)
                   + Chunk * program.formulas[k].coefficients[level.name]) % WORDS
        <5>1. PICK l \in Level, stack \in [Depths -> Level], c \in Int :
                 l = level /\ stack = loop_stack /\ c = Chunk
          BY <2>1, <2>6, <2>7
        <5>2. l.name = stack[d].name /\ l.value = stack[d].value + c
          BY <2>4, <2>7, <4>1, <5>1
        <5>3. Address(program, k, d, [stack EXCEPT ![d] = l])
                = (Address(program, k, d, stack)
                     + c * program.formulas[k].coefficients[l.name]) % WORDS
          <6>1. program \in Programs
            BY <2>1
          <6> QED
            BY ONLY <6>1, <5>2, AddressGrows, k \in APUs, d \in Depths, l \in Level,
                    stack \in [Depths -> Level], c \in Int
        <5> QED
          BY <5>1, <5>3
      <4>3. Address(program, k, loop_cur_depth, loop_stack) = apu_address_registers[k]
        BY <1>1, <1>6 DEF FirstInv, AddressesFollow, Before
      <4>4. loop_cur_depth' = d /\ loop_stack' = [loop_stack EXCEPT ![d] = level]
        BY <1>2, <1>6, <2>7, <4>1
      <4> QED
        BY <1>1, <2>5, <2>7, <4>1, <4>2, <4>3, <4>4
    <3> QED
      BY <1>1, <3>1 DEF AddressesFollow
  <2> QED
    BY <1>3, <1>4, <2>8, <2>9, NothingPushed DEF FirstInv
<1>7. CASE ~ended /\ loop_ended # FALSE
  <2>1. loop_ended' # FALSE
    BY <1>2, <1>7
  <2>2. FirstNest' /\ AddressesFollow'
    BY <1>1, <2>1 DEF FirstNest, AddressesFollow, Before, Reading, Moving
  <2> QED
    BY <1>3, <1>4, <2>2, NothingPushed DEF FirstInv
<1> QED
  BY <1>5, <1>6, <1>7

(* No more than one copy outside of every loop.                            *)
LEMMA ChunkOutside ==
    ASSUME Inv, Innermost.value = 0, Innermost.total = 0 PROVE Chunk \in {0, 1}
<1>1. loop_cur_remaining_iterations = 0
  <2>1. 0 % WORDS = 0 /\ 0 - 0 = 0
    BY WordShape
  <2> QED
    BY <2>1 DEF loop_cur_remaining_iterations
<1>2. LastChunk
  BY <1>1, ControlAssumption DEF LastChunk, ControlAssumption
<1> QED
  BY <1>1, <1>2 DEF Chunk

(* A push: the stride of its depth is that of its innermost loop.          *)
LEMMA FirstInsertToQueue ==
    ASSUME Inv, FirstInv, NEW stall \in BOOLEAN, InsertToQueue(stall) PROVE FirstInv'
<1>1. /\ S = "INSERT_TO_QUEUE" /\ S' = "UPDATE_PC"
      /\ UNCHANGED <<pc, loop_cur_depth, loop_stack, jump_amount, apu_in_loop_var,
                     apu_in_di, apu_linear_formulas, apu_address_registers,
                     program, loop_ended>>
  BY DEF InsertToQueue, loops, apu, fetch, environment
<1>2. /\ Instruction.type # "LOOP" /\ pc \in DOMAIN program.code /\ jump_amount = 0
      /\ program \in Programs /\ pc \in Int /\ loop_cur_depth \in -1 .. LOOP_CNT - 1
      /\ loop_stack \in [Depths -> Level] /\ Encoded(program) /\ WellNested(program) /\ TypeOK
  BY <1>1, ProgramShape, ControlAssumption
     DEF Inv, PlaceInv, Reading, Moving, TypeOK, Level, ControlAssumption
<1>3. Instruction.cache_apu \in APUs /\ Instruction.main_apu \in APUs
      /\ Instruction' = Instruction
  BY <1>1, <1>2 DEF Instruction, Encoded
<1>4. HeaderLoaded'
  BY <1>1 DEF FirstInv, HeaderLoaded, Before
<1>5. FirstNest'
  <2>1. ASSUME loop_ended = FALSE PROVE Ahead(program, NextPc', apu_in_di)
    <3>1. Ahead(program, pc, apu_in_di)
      BY <1>1, <2>1 DEF FirstInv, FirstNest, Reading
    <3>2. \A t \in StartsOf(program) : EndOf(program, t) # pc
      BY <1>2 DEF WellNested, Instruction
    <3>3. NextPc' = pc + 1 - 0
      BY <1>1, <1>2 DEF NextPc
    <3>4. NextPc' = pc + 1
      BY <1>2, <3>3
    <3> QED
      BY <1>2, <3>1, <3>2, <3>4, AheadNext
  <2> QED
    BY <1>1, <2>1 DEF FirstInv, FirstNest, Before, Reading, Moving
<1>6. AddressesFollow'
  BY <1>1 DEF FirstInv, AddressesFollow, Before
<1>7. ASSUME ~loop_ended, \A d \in 0 .. loop_cur_depth : loop_stack[d].name = d
      PROVE  LinearPush(queue', Instruction, program, loop_cur_depth, loop_stack)
  <2>1. loop_ended = FALSE
    BY <1>2, <1>7 DEF TypeOK
  <2>2. /\ queue'.type = Instruction.type /\ queue'.copy_count = Chunk
        /\ Instruction.type \in {"LOAD_STORE", "RAM"} =>
              /\ queue'.cache_addr = apu_address_registers[Instruction.cache_apu]
              /\ queue'.d_cache_addr = daddr_di(Instruction.cache_apu, top)
        /\ Instruction.type = "RAM" =>
              /\ queue'.main_mem_addr = apu_address_registers[Instruction.main_apu]
              /\ queue'.d_main_mem_addr = daddr_di(Instruction.main_apu, top)
    BY DEF InsertToQueue
  <2>3. top \in Depths /\ Chunk \in Nat
    BY <1>2, ChunkTyped
  <2>4. ASSUME NEW k \in APUs, NEW i \in 0 .. Chunk - 1
        PROVE  (apu_address_registers[k] + i * daddr_di(k, top)) % WORDS
                 = LinearOf(program, loop_cur_depth, loop_stack, k, i)
    <3>1. Address(program, k, loop_cur_depth, loop_stack) = apu_address_registers[k]
      BY <1>1, <2>1 DEF FirstInv, AddressesFollow, Before
    <3>2. daddr_di(k, top) = program.formulas[k].coefficients[top]
          /\ daddr_di(k, top) \in Int
      BY <1>1, <1>2, <2>3, TermTyped DEF FirstInv, HeaderLoaded, Before, daddr_di
    <3>3. LinearOf(program, loop_cur_depth, loop_stack, k, i)
            = (Address(program, k, loop_cur_depth, loop_stack)
                 + i * Stride(program, k, loop_cur_depth, loop_stack)) % WORDS
      BY <1>2, <2>3, LinearIs
    <3>4. CASE loop_cur_depth = -1
      <4>1. Innermost.value = 0 /\ Innermost.total = 0
        BY <2>1, <2>3, <3>4 DEF FirstInv, FirstNest, Innermost
      <4>2. i = 0
        BY <2>3, <4>1, ChunkOutside
      <4>3. Stride(program, k, loop_cur_depth, loop_stack) \in Int
        <5>1. loop_stack[top].name \in Depths
          BY <1>2, <2>3 DEF Level
        <5> QED
          BY <1>2, <5>1, TermTyped DEF Stride, top
      <4>4. \A c \in Int : 0 * c = 0
        OBVIOUS
      <4>5. i * daddr_di(k, top) = 0
            /\ i * Stride(program, k, loop_cur_depth, loop_stack) = 0
        BY <3>2, <4>2, <4>3, <4>4
      <4> QED
        BY <3>1, <3>3, <4>5
    <3>5. CASE loop_cur_depth # -1
      <4>1. loop_cur_depth \in Depths /\ loop_cur_depth \in 0 .. loop_cur_depth
        BY <1>2, <3>5, DepthsShape
      <4>2. top = loop_cur_depth /\ loop_stack[loop_cur_depth].name = loop_cur_depth
        BY <1>7, <4>1, DepthsShape DEF top
      <4>3. Stride(program, k, loop_cur_depth, loop_stack) = daddr_di(k, top)
        BY <3>2, <4>2 DEF Stride, top
      <4> QED
        BY <3>1, <3>3, <4>3
    <3> QED
      BY <3>4, <3>5
  <2> QED
    BY <1>3, <2>2, <2>4 DEF LinearPush
<1>8. AddressesLinearInFirstNest'
  <2>1. FirstPush(queue', Instruction', program', loop_cur_depth', loop_stack', loop_ended')
    BY <1>1, <1>3, <1>7 DEF FirstPush
  <2> QED
    BY <2>1, FirstPushIs
<1> QED
  BY <1>4, <1>5, <1>6, <1>8 DEF FirstInv

(* Every step keeps the invariant.                                         *)
LEMMA FirstStep == Inv /\ PortInv /\ FirstInv /\ [Next]_vars => FirstInv'
<1> SUFFICES ASSUME Inv, PortInv, FirstInv, [Next]_vars PROVE FirstInv'
  OBVIOUS
<1>1. ASSUME NEW stall \in BOOLEAN, Edge(stall) PROVE FirstInv'
  BY <1>1, FirstFetchProgram, FirstPrepareProgram0, FirstPrepareProgram1,
     FirstPrepareProgram2, FirstDecode, FirstStartNewLoop, FirstIncrementLoop,
     FirstUpdateApu, FirstInsertToQueue, FirstUpdatePc, FirstFinish, FirstWait DEF Edge
<1> QED
  BY <1>1, FirstReset, FirstStartProgram, FirstStutter DEF Next

(* PortInv always holds.                                                   *)
LEMMA PortAlways == Spec => []PortInv
<1>1. PortInv /\ Inv /\ [Next]_vars => PortInv'
  <2> SUFFICES ASSUME PortInv, Inv, [Next]_vars PROVE PortInv'
    OBVIOUS
  <2>1. started \in Nat
    BY ControlAssumption DEF Inv, TypeOK, ControlAssumption
  <2>2. CASE Next
    BY <2>1, <2>2, PortReset, PortStartProgram, PortEdge DEF Next
  <2>3. CASE UNCHANGED vars
    BY <2>3 DEF vars, PortInv
  <2> QED
    BY <2>2, <2>3
<1> QED
  BY <1>1, PortInit, InvAlways, PTL DEF Spec

(* As long as no loop of the program has ended and every loop has its depth*)
(* for a name, the copies of a push have the addresses that are linear in  *)
(* the loop variables, chunk after chunk, and for every copy of a chunk    *)
(* (control_unit.sv:98-113, 139-156, 161-168).                             *)
THEOREM FirstNestLinear == Spec => []AddressesLinearInFirstNest
<1>1. Init => FirstInv
  BY FirstInit
<1>2. FirstInv => AddressesLinearInFirstNest
  BY DEF FirstInv
<1> QED
  BY <1>1, <1>2, FirstStep, InvAlways, PortAlways, PTL DEF Spec

-----------------------------------------------------------------------------
(* Levels are numbers of loops; an induction over them.                    *)
Levels == 0 .. LOOP_CNT

LEMMA LevelInduction ==
    ASSUME NEW T, 0 \in T, \A n \in Nat : n < LOOP_CNT /\ n \in T => n + 1 \in T
    PROVE  Levels \subseteq T
<1> SUFFICES ASSUME Levels \ T # {} PROVE FALSE
  OBVIOUS
<1>1. LOOP_CNT \in Nat
  BY DepthsShape
<1>2. Levels \ T \in SUBSET Nat
  BY <1>1 DEF Levels
<1>3. PICK x \in Levels \ T : \A y \in Levels \ T : x <= y
  BY <1>2, Smallest
<1>4. x # 0 /\ x - 1 \in Nat /\ x - 1 < LOOP_CNT /\ x - 1 \in Levels /\ x - 1 + 1 = x
  BY <1>1, <1>3 DEF Levels
<1>5. x - 1 \in T
  <2>1. ~(x <= x - 1)
    BY <1>4
  <2> QED
    BY <1>3, <1>4, <2>1
<1> QED
  BY <1>3, <1>4, <1>5

(* What LOOP_CNT and the levels are.                                       *)
LEMMA LevelsShape ==
    /\ LOOP_CNT \in Nat \ {0} /\ LOOP_CNT \in Levels /\ 0 \in Levels
    /\ \A n \in Levels : n \in Nat /\ n <= LOOP_CNT
    /\ \A n \in Levels : n # 0 => n - 1 \in Depths /\ n - 1 \in Levels
    /\ \A n \in Nat : n <= LOOP_CNT => n \in Levels
    /\ \A d \in Depths : d \in Levels /\ d + 1 \in Levels
  BY DepthsShape DEF Levels, Depths

-----------------------------------------------------------------------------
(* The numbers that a loop over the levels computes: each is the one before*)
(* times a factor, plus a term.                                            *)
Runs(f, a, b, m) == /\ f \in [0 .. m -> Int] /\ f[0] = b[0]
                    /\ \A n \in 1 .. m : f[n] = f[n - 1] * a[n] + b[n]
Run(a, b) == CHOOSE f : Runs(f, a, b, LOOP_CNT)

LEMMA RunExists ==
    ASSUME NEW a \in [Levels -> Int], NEW b \in [Levels -> Int]
    PROVE  Runs(Run(a, b), a, b, LOOP_CNT)
<1> DEFINE T == {n \in Nat : \E f : Runs(f, a, b, n)}
<1>1. 0 \in T
  <2> DEFINE f == [n \in 0 .. 0 |-> b[0]]
  <2>1. f \in [0 .. 0 -> Int] /\ f[0] = b[0]
    BY LevelsShape
  <2>2. 1 .. 0 = {}
    OBVIOUS
  <2>3. Runs(f, a, b, 0)
    BY <2>1, <2>2 DEF Runs
  <2> QED
    BY <2>3
<1>2. ASSUME NEW n \in Nat, n < LOOP_CNT, n \in T PROVE n + 1 \in T
  <2>1. PICK f : Runs(f, a, b, n)
    BY <1>2
  <2>2. PICK k \in Levels : k = n + 1
    BY <1>2, LevelsShape
  <2> DEFINE g == [j \in 0 .. k |-> IF j = k THEN f[n] * a[k] + b[k] ELSE f[j]]
  <2>3. f \in [0 .. n -> Int] /\ n \in 0 .. n /\ 0 \in 0 .. n
    BY <2>1 DEF Runs
  <2>4. f[n] * a[k] + b[k] \in Int
    <3>1. f[n] \in Int /\ a[k] \in Int /\ b[k] \in Int
      BY <2>3
    <3> QED
      BY <3>1
  <2>5. \A j \in 0 .. k : j # k => j \in 0 .. n
    BY <2>2
  <2>6. g \in [0 .. k -> Int]
    BY <2>3, <2>4, <2>5
  <2>7. g[0] = b[0]
    <3>1. 0 \in 0 .. k /\ 0 # k
      BY <2>2
    <3> QED
      BY <2>1, <3>1 DEF Runs
  <2>8. ASSUME NEW j \in 1 .. k PROVE g[j] = g[j - 1] * a[j] + b[j]
    <3>1. j \in 0 .. k /\ j - 1 \in 0 .. k /\ j - 1 # k
      BY <2>2
    <3>2. g[j - 1] = f[j - 1]
      BY <3>1
    <3>3. CASE j = k
      <4>1. j - 1 = n
        BY <2>2, <3>3
      <4> HIDE DEF g
      <4>2. g[j] = f[n] * a[k] + b[k]
        BY <3>1, <3>3 DEF g
      <4> QED
        BY <3>2, <3>3, <4>1, <4>2
    <3>4. CASE j # k
      <4>1. j \in 1 .. n
        BY <2>2, <3>4
      <4>2. f[j] = f[j - 1] * a[j] + b[j]
        BY <2>1, <4>1 DEF Runs
      <4>3. g[j] = f[j]
        BY <3>1, <3>4
      <4> HIDE DEF g
      <4> QED
        BY <3>2, <4>2, <4>3
    <3> QED
      BY <3>3, <3>4
  <2> HIDE DEF g
  <2>9. Runs(g, a, b, k)
    BY <2>6, <2>7, <2>8 DEF Runs
  <2> QED
    BY <2>2, <2>9
<1> HIDE DEF T
<1>3. LOOP_CNT \in T
  BY <1>1, <1>2, LevelInduction, LevelsShape
<1>4. \E f : Runs(f, a, b, LOOP_CNT)
  BY <1>3 DEF T
<1> QED
  BY <1>4 DEF Run

(* The values of a run, level by level.                                    *)
LEMMA RunIs ==
    ASSUME NEW a \in [Levels -> Int], NEW b \in [Levels -> Int]
    PROVE  /\ Run(a, b) \in [Levels -> Int] /\ Run(a, b)[0] = b[0]
           /\ \A n \in Levels : n # 0 => Run(a, b)[n] = Run(a, b)[n - 1] * a[n] + b[n]
           /\ \A d \in Depths : Run(a, b)[d + 1] = Run(a, b)[d] * a[d + 1] + b[d + 1]
<1>1. Runs(Run(a, b), a, b, LOOP_CNT)
  BY RunExists
<1>2. \A n \in Levels : n # 0 => n \in 1 .. LOOP_CNT
  BY DepthsShape DEF Levels
<1>3. \A n \in 1 .. LOOP_CNT : Run(a, b)[n] = Run(a, b)[n - 1] * a[n] + b[n]
  BY <1>1 DEF Runs
<1>4. ASSUME NEW d \in Depths PROVE Run(a, b)[d + 1] = Run(a, b)[d] * a[d + 1] + b[d + 1]
  <2>1. PICK n \in 1 .. LOOP_CNT : n = d + 1 /\ n - 1 = d
    BY DepthsShape
  <2> QED
    BY <1>3, <2>1
<1> QED
  BY <1>1, <1>2, <1>3, <1>4 DEF Runs, Levels

(* A run up to a level depends on the factors and terms up to there.       *)
LEMMA RunSame ==
    ASSUME NEW a \in [Levels -> Int], NEW b \in [Levels -> Int],
           NEW c \in [Levels -> Int], NEW e \in [Levels -> Int], NEW m \in Levels,
           \A n \in Levels : n <= m => (n # 0 => a[n] = c[n]) /\ b[n] = e[n]
    PROVE  Run(a, b)[m] = Run(c, e)[m]
<1> DEFINE T == {n \in Levels : n <= m => Run(a, b)[n] = Run(c, e)[n]}
<1>1. 0 \in T
  BY RunIs, LevelsShape
<1>2. ASSUME NEW n \in Nat, n < LOOP_CNT, n \in T PROVE n + 1 \in T
  <2>1. PICK k \in Levels : k = n + 1 /\ k # 0 /\ n = k - 1
    BY <1>2, LevelsShape
  <2>2. ASSUME k <= m PROVE Run(a, b)[k] = Run(c, e)[k]
    <3>1. n <= m
      BY <2>1, <2>2, LevelsShape
    <3>2. Run(a, b)[n] = Run(c, e)[n]
      BY <1>2, <3>1
    <3>3. a[k] = c[k] /\ b[k] = e[k]
      BY <2>1, <2>2
    <3>4. /\ Run(a, b)[k] = Run(a, b)[k - 1] * a[k] + b[k]
          /\ Run(c, e)[k] = Run(c, e)[k - 1] * c[k] + e[k]
      BY <2>1, RunIs
    <3> QED
      BY <2>1, <3>2, <3>3, <3>4
  <2> QED
    BY <2>1, <2>2
<1> HIDE DEF T
<1>3. m \in T
  BY <1>1, <1>2, LevelInduction
<1>4. m <= m
  BY LevelsShape
<1> QED
  BY <1>3, <1>4 DEF T

-----------------------------------------------------------------------------
(* The loops around a place, and those that it shares with another place.  *)
N(prog, p) == Cardinality(AroundOf(prog, p))
Shared(prog, p, q) == AroundOf(prog, p) \cap AroundOf(prog, q)
Common(prog, p, q) == Cardinality(Shared(prog, p, q))

(* A set of loops around p that holds with a loop those around it has one  *)
(* at each depth.                                                          *)
LEMMA LoopsByDepth ==
    ASSUME NEW prog \in Programs, NEW p \in Int, NEW D \in SUBSET AroundOf(prog, p),
           \A s \in D : AroundOf(prog, s) \subseteq D
    PROVE  /\ Cardinality(D) \in Nat
           /\ \A s \in D : N(prog, s) < Cardinality(D)
           /\ \A d \in 0 .. Cardinality(D) - 1 : \E s \in D : N(prog, s) = d
           /\ \A s, t \in AroundOf(prog, p) : N(prog, s) = N(prog, t) => s = t
<1> DEFINE c == Cardinality(D)
           f == [s \in D |-> N(prog, s)]
<1>1. /\ Encoded(prog) /\ WellNested(prog)
      /\ IsFiniteSet(AroundOf(prog, p)) /\ AroundOf(prog, p) \subseteq StartsOf(prog)
  BY ProgramShape, AroundFinite
<1>2. IsFiniteSet(D) /\ c \in Nat
  BY <1>1, FS_Subset, FS_CardinalityType
<1>3. ASSUME NEW s \in AroundOf(prog, p), NEW t \in AroundOf(prog, p), s < t
      PROVE  N(prog, s) < N(prog, t)
  <2>1. s \in AroundOf(prog, t)
    <3>1. s \in StartsOf(prog) /\ s < p /\ p <= EndOf(prog, s) /\ t < p /\ t \in StartsOf(prog)
      BY DEF AroundOf
    <3>2. EndOf(prog, s) \in Int /\ s \in Int /\ t \in Int
      BY <1>1, <3>1, LoopShape
    <3>3. t <= EndOf(prog, s)
      BY <3>1, <3>2
    <3> QED
      BY <1>3, <3>1, <3>3 DEF AroundOf
  <2>2. t \in Int
    BY <1>1, LoopShape
  <2> QED
    BY <1>1, <2>1, <2>2, AroundInner DEF N
<1>4. \A s \in AroundOf(prog, p) : s \in Int /\ N(prog, s) \in Nat
  <2>1. ASSUME NEW s \in AroundOf(prog, p) PROVE s \in Int /\ N(prog, s) \in Nat
    BY <1>1, LoopShape, AroundFinite DEF N
  <2> QED
    BY <2>1
<1>5. \A s, t \in AroundOf(prog, p) : N(prog, s) = N(prog, t) => s = t
  <2>1. ASSUME NEW s \in AroundOf(prog, p), NEW t \in AroundOf(prog, p),
               N(prog, s) = N(prog, t), s # t
        PROVE  FALSE
    <3>1. s \in Int /\ t \in Int /\ N(prog, s) \in Nat /\ N(prog, t) \in Nat
      BY <1>4
    <3>2. s < t \/ t < s
      BY <2>1, <3>1
    <3>3. N(prog, s) < N(prog, t) \/ N(prog, t) < N(prog, s)
      BY <1>3, <3>2
    <3> QED
      BY <2>1, <3>1, <3>3
  <2> QED
    BY <2>1
<1>6. ASSUME NEW s \in D PROVE N(prog, s) < c
  <2>1. AroundOf(prog, s) \subseteq D /\ s \in Int
    BY <1>4
  <2>2. s \notin AroundOf(prog, s)
    BY <2>1 DEF AroundOf
  <2>3. IsFiniteSet(AroundOf(prog, s))
    BY <1>2, <2>1, FS_Subset
  <2>4. AroundOf(prog, s) # D
    BY <2>2
  <2>5. Cardinality(AroundOf(prog, s)) <= c
    BY <1>2, <2>1, FS_Subset
  <2>6. Cardinality(AroundOf(prog, s)) # c
    BY <1>2, <2>1, <2>4, FS_Subset
  <2>7. N(prog, s) \in Nat
    BY <1>4
  <2> QED
    BY <1>2, <2>5, <2>6, <2>7 DEF N
<1>7. f \in Injection(D, 0 .. c - 1)
  <2>1. \A s \in D : f[s] \in 0 .. c - 1
    BY <1>2, <1>4, <1>6
  <2>2. \A s, t \in D : f[s] = f[t] => s = t
    BY <1>5
  <2> HIDE DEF c
  <2> QED
    BY <2>1, <2>2 DEF Injection, IsInjective
<1>8. IsFiniteSet(0 .. c - 1) /\ Cardinality(0 .. c - 1) = c
  <2>1. PICK b \in Int : b = c - 1 /\ c = b + 1 /\ 0 <= b + 1 /\ 0 \in Int
    BY <1>2
  <2>2. IsFiniteSet(0 .. b) /\ Cardinality(0 .. b) = IF 0 > b THEN 0 ELSE b - 0 + 1
    BY <2>1, FS_Interval
  <2> HIDE DEF c
  <2> QED
    BY <2>1, <2>2
<1>9. f \in Surjection(D, 0 .. c - 1)
  <2> HIDE DEF f
  <2> QED
    BY <1>2, <1>7, <1>8, FS_Injection
<1>10. \A d \in 0 .. c - 1 : \E s \in D : f[s] = d
  BY <1>9 DEF Surjection
<1> QED
  BY <1>2, <1>5, <1>6, <1>10

(* The loops that p and q share: one at each depth below their number, as  *)
(* the loops around p are.                                                 *)
LEMMA CommonShape ==
    ASSUME NEW prog \in Programs, NEW p \in Int, NEW q \in Int
    PROVE  /\ Common(prog, p, q) \in Nat /\ N(prog, p) \in Nat /\ N(prog, p) \in Levels
           /\ Common(prog, p, q) <= N(prog, p) /\ Common(prog, p, q) <= N(prog, q)
           /\ \A s \in Shared(prog, p, q) : N(prog, s) \in Depths /\ N(prog, s) < Common(prog, p, q)
           /\ \A d \in 0 .. Common(prog, p, q) - 1 :
                 d \in Depths /\ \E s \in Shared(prog, p, q) : N(prog, s) = d
           /\ \A d \in 0 .. N(prog, p) - 1 :
                 d \in Depths /\ \E s \in AroundOf(prog, p) : N(prog, s) = d
           /\ \A s, t \in AroundOf(prog, p) : N(prog, s) = N(prog, t) => s = t
<1>1. /\ Encoded(prog) /\ WellNested(prog)
      /\ IsFiniteSet(AroundOf(prog, p)) /\ N(prog, p) \in Nat
      /\ IsFiniteSet(AroundOf(prog, q)) /\ N(prog, q) \in Nat
  BY ProgramShape, AroundFinite DEF N
<1>2. Shared(prog, p, q) \in SUBSET AroundOf(prog, p) /\ Shared(prog, p, q) \in SUBSET AroundOf(prog, q)
  BY DEF Shared
<1>3. Common(prog, p, q) <= N(prog, p) /\ Common(prog, p, q) <= N(prog, q)
  BY <1>1, <1>2, FS_Subset DEF Common, N
<1>4. \A s \in Shared(prog, p, q) : AroundOf(prog, s) \subseteq Shared(prog, p, q)
  <2>1. ASSUME NEW s \in Shared(prog, p, q) PROVE AroundOf(prog, s) \subseteq Shared(prog, p, q)
    <3>1. AroundOf(prog, s) \subseteq AroundOf(prog, p)
      BY <1>1, <1>2, AroundInner
    <3>2. AroundOf(prog, s) \subseteq AroundOf(prog, q)
      BY <1>1, <1>2, AroundInner
    <3> QED
      BY <3>1, <3>2 DEF Shared
  <2> QED
    BY <2>1
<1>5. \A s \in AroundOf(prog, p) : AroundOf(prog, s) \subseteq AroundOf(prog, p)
  BY <1>1, AroundInner
<1>6. /\ Common(prog, p, q) \in Nat
      /\ \A s \in Shared(prog, p, q) : N(prog, s) < Common(prog, p, q)
      /\ \A d \in 0 .. Common(prog, p, q) - 1 : \E s \in Shared(prog, p, q) : N(prog, s) = d
      /\ \A s, t \in AroundOf(prog, p) : N(prog, s) = N(prog, t) => s = t
  BY <1>2, <1>4, LoopsByDepth DEF Common
<1>7. \A d \in 0 .. N(prog, p) - 1 : \E s \in AroundOf(prog, p) : N(prog, s) = d
  BY <1>5, LoopsByDepth DEF N
<1>8. \A s \in AroundOf(prog, p) : N(prog, s) \in Depths
  BY <1>1, AroundInner DEF N
<1>9. N(prog, p) \in Levels
  <2>1. CASE N(prog, p) = 0
    BY <2>1, LevelsShape
  <2>2. CASE N(prog, p) # 0
    <3>1. PICK d \in Nat : d = N(prog, p) - 1 /\ d \in 0 .. N(prog, p) - 1 /\ N(prog, p) = d + 1
      BY <1>1, <2>2
    <3>2. d \in Depths
      BY <1>7, <1>8, <3>1
    <3> QED
      BY <3>1, <3>2, LevelsShape
  <2> QED
    BY <2>1, <2>2
<1> QED
  BY <1>1, <1>2, <1>3, <1>6, <1>7, <1>8, <1>9

(* Around p, the loop at the depth of s is s.                              *)
LEMMA LoopAtIs ==
    ASSUME NEW prog \in Programs, NEW p \in Int, NEW s \in AroundOf(prog, p)
    PROVE  LoopAt(prog, p, N(prog, s)) = s
<1>1. \A t \in AroundOf(prog, p) : N(prog, s) = N(prog, t) => s = t
  BY CommonShape
<1> HIDE DEF N
<1> DEFINE d == N(prog, s)
<1>2. LoopAt(prog, p, d) = CHOOSE t \in AroundOf(prog, p) : N(prog, t) = d
  BY DEF LoopAt, N
<1>3. \E t \in AroundOf(prog, p) : N(prog, t) = d
  OBVIOUS
<1> HIDE DEF d
<1>4. LoopAt(prog, p, d) \in AroundOf(prog, p) /\ N(prog, LoopAt(prog, p, d)) = d
  BY <1>2, <1>3
<1> QED
  BY <1>1, <1>4 DEF d

(* The counts of the loops around p.                                       *)
Counts(prog, p) ==
    [n \in Levels |-> IF n \in 1 .. N(prog, p)
                      THEN HeaderOf(prog, LoopAt(prog, p, n - 1)).iteration_count ELSE 0]

LEMMA CountsShape ==
    ASSUME NEW prog \in Programs, NEW p \in Int
    PROVE  /\ Counts(prog, p) \in [Levels -> Nat] /\ Counts(prog, p) \in [Levels -> Int]
           /\ \A s \in AroundOf(prog, p) :
                 /\ N(prog, s) \in Depths /\ N(prog, s) + 1 \in Levels
                 /\ N(prog, s) + 1 <= N(prog, p)
                 /\ Counts(prog, p)[N(prog, s) + 1] = HeaderOf(prog, s).iteration_count
                 /\ HeaderOf(prog, s).iteration_count \in Nat \ {0}
<1>1. /\ Encoded(prog) /\ WellNested(prog) /\ AroundOf(prog, p) \subseteq StartsOf(prog)
  BY ProgramShape, AroundFinite
<1>2. /\ N(prog, p) \in Nat /\ N(prog, p) \in Levels
      /\ \A d \in 0 .. N(prog, p) - 1 : \E s \in AroundOf(prog, p) : N(prog, s) = d
  BY CommonShape
<1>3. \A s \in AroundOf(prog, p) : HeaderOf(prog, s).iteration_count \in Nat \ {0}
  <2>1. ASSUME NEW s \in AroundOf(prog, p)
        PROVE  HeaderOf(prog, s).iteration_count \in Nat \ {0}
    <3>1. HeaderOf(prog, s).iteration_count \in Word \ {0}
      BY <1>1, LoopShape
    <3> QED
      BY <3>1, WordShape
  <2> QED
    BY <2>1
<1>4. ASSUME NEW n \in 1 .. N(prog, p)
      PROVE  HeaderOf(prog, LoopAt(prog, p, n - 1)).iteration_count \in Nat
  <2>1. PICK d \in 0 .. N(prog, p) - 1 : d = n - 1
    BY <1>2
  <2>2. PICK s \in AroundOf(prog, p) : N(prog, s) = d
    BY <1>2
  <2>3. LoopAt(prog, p, n - 1) = s
    BY <2>1, <2>2, LoopAtIs
  <2> QED
    BY <1>3, <2>3
<1>5. Counts(prog, p) \in [Levels -> Nat]
  BY <1>4 DEF Counts
<1>6. Counts(prog, p) \in [Levels -> Int]
  <2>1. \A n \in Nat : n \in Int
    OBVIOUS
  <2> QED
    BY <1>5, <2>1
<1>7. ASSUME NEW s \in AroundOf(prog, p)
      PROVE  /\ N(prog, s) \in Depths /\ N(prog, s) + 1 \in Levels
             /\ N(prog, s) + 1 <= N(prog, p)
             /\ Counts(prog, p)[N(prog, s) + 1] = HeaderOf(prog, s).iteration_count
  <2>1. N(prog, s) \in Depths /\ N(prog, s) < N(prog, p)
    BY <1>1, AroundInner DEF N
  <2>2. PICK n \in Levels : n = N(prog, s) + 1 /\ n - 1 = N(prog, s)
    BY <2>1, DepthsShape, LevelsShape
  <2>3. n \in 1 .. N(prog, p)
    BY <1>2, <2>1, <2>2, DepthsShape
  <2>4. Counts(prog, p)[n] = HeaderOf(prog, LoopAt(prog, p, n - 1)).iteration_count
    BY <2>3 DEF Counts
  <2> QED
    BY <2>1, <2>2, <2>3, <2>4, LoopAtIs
<1> QED
  BY <1>3, <1>5, <1>6, <1>7

-----------------------------------------------------------------------------
(* How often an instruction has been pushed when the machine is at place q *)
(* of the text: each loop that it shares with q has passed the iterations  *)
(* of its value, and behind p the innermost of these loops has passed the  *)
(* chunk that is running, too.  Every loop around p that q is not in has   *)
(* been run whole, or not at all.                                          *)
ChunkOf(level) ==
    IF ~level.independent THEN 1
    ELSE LET left == (level.total - level.value) % WORDS
         IN  IF left <= SUPERSCALAR_WIDTH THEN left ELSE SUPERSCALAR_WIDTH
NextValue(level) == level.value + ChunkOf(level)
Behind(c, stack) == IF c = 0 THEN 1 ELSE ChunkOf(stack[c - 1])
Passed(c, behind, stack) ==
    [n \in Levels |-> (IF n = 0 \/ n > c THEN 0 ELSE stack[n - 1].value)
                        + (IF n = c /\ behind THEN Behind(c, stack) ELSE 0)]
Reached(prog, p, q, stack) ==
    Run(Counts(prog, p), Passed(Common(prog, p, q), p < q, stack))[N(prog, p)]

LEMMA ChunkShape ==
    ASSUME NEW level \in Level
    PROVE  /\ ChunkOf(level) \in Nat
           /\ ~level.independent => ChunkOf(level) = 1
           /\ level.value < level.total => ChunkOf(level) <= level.total - level.value
<1>1. level.value \in Word /\ level.total \in Word
  BY DEF Level
<1>2. PICK v \in Nat, t \in Nat, w \in Nat \ {0} :
        v = level.value /\ t = level.total /\ w = WORDS /\ v < w /\ t < w
  BY <1>1, WordShape
<1>3. SUPERSCALAR_WIDTH \in Nat
  BY WordShape
<1>4. (t - v) % w \in Nat
  OBVIOUS
<1>5. v < t => (t - v) % w = t - v
  <2>1. ASSUME v < t PROVE (t - v) % w = t - v
    <3>1. t - v \in 0 .. w - 1
      BY <1>2, <2>1
    <3> QED
      BY <3>1
  <2> QED
    BY <2>1
<1>6. v < t => 1 <= t - v
  OBVIOUS
<1> QED
  BY <1>2, <1>3, <1>4, <1>5, <1>6 DEF ChunkOf

LEMMA BehindShape ==
    ASSUME NEW c \in Levels, NEW stack \in [Depths -> Level]
    PROVE  Behind(c, stack) \in Nat
<1>1. CASE c = 0
  BY <1>1 DEF Behind
<1>2. CASE c # 0
  <2>1. stack[c - 1] \in Level
    BY <1>2, LevelsShape
  <2> QED
    BY <1>2, <2>1, ChunkShape DEF Behind
<1> QED
  BY <1>1, <1>2

LEMMA PassedShape ==
    ASSUME NEW c \in Levels, NEW behind \in BOOLEAN, NEW stack \in [Depths -> Level]
    PROVE  /\ Passed(c, behind, stack) \in [Levels -> Nat]
           /\ Passed(c, behind, stack) \in [Levels -> Int]
           /\ \A n \in Levels : n > c => Passed(c, behind, stack)[n] = 0
           /\ \A n \in Levels : n # 0 /\ n < c => Passed(c, behind, stack)[n] = stack[n - 1].value
           /\ 0 < c => Passed(c, behind, stack)[0] = 0
           /\ c # 0 => Passed(c, behind, stack)[c]
                         = stack[c - 1].value + IF behind THEN ChunkOf(stack[c - 1]) ELSE 0
           /\ c = 0 => Passed(c, behind, stack)[0] = IF behind THEN 1 ELSE 0
           /\ \A n \in Levels : n # 0 => stack[n - 1].value \in Nat
<1> DEFINE a(n) == IF n = 0 \/ n > c THEN 0 ELSE stack[n - 1].value
           b(n) == IF n = c /\ behind THEN Behind(c, stack) ELSE 0
<1>1. \A n \in Levels : n # 0 => stack[n - 1].value \in Nat
  <2>1. ASSUME NEW n \in Levels, n # 0 PROVE stack[n - 1].value \in Nat
    <3>1. n - 1 \in Depths
      BY <2>1, LevelsShape
    <3>2. stack[n - 1].value \in Word
      BY <3>1 DEF Level
    <3> QED
      BY <3>2, WordShape
  <2> QED
    BY <2>1
<1>2. \A n \in Levels : a(n) \in Nat /\ b(n) \in Nat
  BY <1>1, BehindShape
<1>3. Passed(c, behind, stack) = [n \in Levels |-> a(n) + b(n)]
  BY DEF Passed
<1>4. c \in Nat /\ 0 \in Levels /\ \A n \in Levels : n \in Nat
  BY LevelsShape
<1>5. \A n \in Levels : n > c => a(n) = 0 /\ b(n) = 0
  BY <1>4
<1>6. \A n \in Levels : n # 0 /\ n < c => a(n) = stack[n - 1].value /\ b(n) = 0
  BY <1>4
<1>7. 0 < c => a(0) = 0 /\ b(0) = 0
  BY <1>4
<1>8. c # 0 => a(c) = stack[c - 1].value /\ b(c) = IF behind THEN ChunkOf(stack[c - 1]) ELSE 0
  BY <1>4 DEF Behind
<1>9. c = 0 => a(0) = 0 /\ b(0) = IF behind THEN 1 ELSE 0
  BY DEF Behind
<1> HIDE DEF a, b
<1>10. /\ Passed(c, behind, stack) \in [Levels -> Nat]
       /\ Passed(c, behind, stack) \in [Levels -> Int]
  <2>1. ASSUME NEW n \in Levels PROVE a(n) + b(n) \in Nat /\ a(n) + b(n) \in Int
    <3>1. a(n) \in Nat /\ b(n) \in Nat
      BY <1>2
    <3> QED
      BY <3>1
  <2> QED
    BY <1>3, <2>1
<1>11. \A n \in Levels : Passed(c, behind, stack)[n] = a(n) + b(n)
  BY <1>3
<1>12. \A n \in Levels : n > c => Passed(c, behind, stack)[n] = 0
  BY <1>5, <1>11
<1>13. ASSUME NEW n \in Levels, n # 0, n < c
       PROVE  Passed(c, behind, stack)[n] = stack[n - 1].value
  BY <1>1, <1>6, <1>11, <1>13
<1>14. 0 < c => Passed(c, behind, stack)[0] = 0
  BY <1>4, <1>7, <1>11
<1>15. c # 0 => Passed(c, behind, stack)[c]
                  = stack[c - 1].value + IF behind THEN ChunkOf(stack[c - 1]) ELSE 0
  BY <1>8, <1>11
<1>16. c = 0 => Passed(c, behind, stack)[0] = IF behind THEN 1 ELSE 0
  BY <1>4, <1>9, <1>11
<1> QED
  BY <1>1, <1>10, <1>12, <1>13, <1>14, <1>15, <1>16

(* In front of p, they are the values of the levels.                       *)
LEMMA PassedAhead ==
    ASSUME NEW c \in Levels, NEW stack \in [Depths -> Level]
    PROVE  /\ Passed(c, FALSE, stack) \in [Levels -> Nat]
           /\ Passed(c, FALSE, stack)[0] = 0
           /\ \A n \in Levels : n > c => Passed(c, FALSE, stack)[n] = 0
           /\ \A n \in Levels : n # 0 /\ n <= c => Passed(c, FALSE, stack)[n] = stack[n - 1].value
           /\ \A n \in Levels : n # 0 => stack[n - 1].value \in Nat
<1> DEFINE A == Passed(c, FALSE, stack)
<1>1. /\ A \in [Levels -> Nat] /\ A \in [Levels -> Int]
      /\ \A n \in Levels : n > c => A[n] = 0
      /\ \A n \in Levels : n # 0 /\ n < c => A[n] = stack[n - 1].value
      /\ 0 < c => A[0] = 0
      /\ c # 0 => A[c] = stack[c - 1].value + IF FALSE THEN ChunkOf(stack[c - 1]) ELSE 0
      /\ c = 0 => A[0] = IF FALSE THEN 1 ELSE 0
      /\ \A n \in Levels : n # 0 => stack[n - 1].value \in Nat
  <2>1. PICK behind \in BOOLEAN : behind = FALSE
    OBVIOUS
  <2> QED
    BY <2>1, PassedShape
<1>2. c \in Nat /\ \A n \in Levels : n \in Nat
  BY LevelsShape
<1> HIDE DEF A
<1>3. A[0] = 0
  BY <1>1, <1>2
<1>4. c # 0 => A[c] = stack[c - 1].value
  <2>1. \A v \in Nat : v + 0 = v
    OBVIOUS
  <2> QED
    BY <1>1, <2>1
<1>5. \A n \in Levels : n # 0 /\ n <= c => A[n] = stack[n - 1].value
  <2>1. \A n \in Levels : n <= c => n < c \/ n = c
    BY <1>2
  <2> QED
    BY <1>1, <1>4, <2>1
<1> QED
  BY <1>1, <1>3, <1>5 DEF A

(* Behind p, the chunk of the innermost level is added.                    *)
LEMMA PassedBehind ==
    ASSUME NEW c \in Levels, NEW stack \in [Depths -> Level]
    PROVE  /\ Passed(c, TRUE, stack) \in [Levels -> Nat]
           /\ Passed(c, TRUE, stack)[0] = IF c = 0 THEN 1 ELSE 0
           /\ \A n \in Levels : n > c => Passed(c, TRUE, stack)[n] = 0
           /\ \A n \in Levels : n # 0 /\ n < c => Passed(c, TRUE, stack)[n] = stack[n - 1].value
           /\ c # 0 => Passed(c, TRUE, stack)[c] = stack[c - 1].value + ChunkOf(stack[c - 1])
<1> DEFINE A == Passed(c, TRUE, stack)
<1>1. /\ A \in [Levels -> Nat]
      /\ \A n \in Levels : n > c => A[n] = 0
      /\ \A n \in Levels : n # 0 /\ n < c => A[n] = stack[n - 1].value
      /\ 0 < c => A[0] = 0
      /\ c # 0 => A[c] = stack[c - 1].value + IF TRUE THEN ChunkOf(stack[c - 1]) ELSE 0
      /\ c = 0 => A[0] = IF TRUE THEN 1 ELSE 0
  <2>1. PICK behind \in BOOLEAN : behind = TRUE
    OBVIOUS
  <2> QED
    BY <2>1, PassedShape
<1>2. c \in Nat
  BY LevelsShape
<1> HIDE DEF A
<1>3. c # 0 => 0 < c
  BY <1>2
<1> QED
  BY <1>1, <1>3 DEF A

(* Only the levels that p and q share count.                               *)
LEMMA PassedSame ==
    ASSUME NEW c \in Levels, NEW behind \in BOOLEAN, NEW stack \in [Depths -> Level],
           NEW new \in [Depths -> Level], \A d \in Depths : d < c => new[d] = stack[d]
    PROVE  Passed(c, behind, new) = Passed(c, behind, stack)
<1>1. \A n \in Levels : n # 0 /\ ~(n > c) => new[n - 1] = stack[n - 1]
  <2>1. ASSUME NEW n \in Levels, n # 0, ~(n > c) PROVE new[n - 1] = stack[n - 1]
    <3>1. n - 1 \in Depths /\ n \in Nat /\ c \in Nat
      BY <2>1, LevelsShape
    <3>2. n - 1 < c
      BY <2>1, <3>1
    <3> QED
      BY <3>1, <3>2
  <2> QED
    BY <2>1
<1>2. c # 0 => new[c - 1] = stack[c - 1]
  <2>1. ~(c > c)
    BY LevelsShape
  <2> QED
    BY <1>1, <2>1
<1>3. Behind(c, new) = Behind(c, stack)
  BY <1>2 DEF Behind
<1> QED
  BY <1>1, <1>3 DEF Passed

(* Behind all of p's loops, each of them has run as often as it should.    *)
LEMMA IterationsIs ==
    ASSUME NEW prog \in Programs, NEW p \in Int, NEW stack \in [Depths -> Level]
    PROVE  IterationsOf(prog, p) = Run(Counts(prog, p), Passed(0, TRUE, stack))[N(prog, p)]
<1> DEFINE depth == N(prog, p)
           C == Counts(prog, p)
           count[n \in 0 .. depth] ==
             IF n = 0 THEN 1
             ELSE count[n - 1] * HeaderOf(prog, LoopAt(prog, p, n - 1)).iteration_count
           x(n) == HeaderOf(prog, LoopAt(prog, p, n - 1)).iteration_count
           B == Passed(0, TRUE, stack)
           R == Run(C, B)
           f == [n \in 0 .. depth |-> R[n]]
<1>1. depth \in Nat /\ depth \in Levels
  BY CommonShape
<1>2. C \in [Levels -> Int] /\ \A n \in Levels : n \in 1 .. depth => C[n] = x(n)
  BY CountsShape DEF Counts
<1>3. B \in [Levels -> Int] /\ B[0] = 1 /\ \A n \in Levels : n > 0 => B[n] = 0
  BY PassedShape, LevelsShape
<1>4. \A n \in 0 .. depth : n \in Levels /\ n \in Nat
  BY <1>1, LevelsShape
<1>5. /\ R \in [Levels -> Int] /\ R[0] = 1
      /\ \A n \in Levels : n # 0 => R[n] = R[n - 1] * C[n] + B[n]
  BY <1>2, <1>3, RunIs
<1> HIDE DEF depth, C, B, R, x
<1>6. ASSUME NEW n \in 0 .. depth, n # 0 PROVE R[n] = R[n - 1] * x(n) /\ n - 1 \in 0 .. depth
  <2>1. n \in Levels /\ n \in 1 .. depth /\ n > 0 /\ n - 1 \in 0 .. depth
    BY <1>1, <1>4, <1>6
  <2>2. C[n] = x(n) /\ B[n] = 0 /\ R[n] = R[n - 1] * C[n] + B[n]
    BY <1>2, <1>3, <1>5, <1>6, <2>1
  <2>3. R[n - 1] \in Int /\ C[n] \in Int
    BY <1>2, <1>4, <1>5, <2>1
  <2>4. \A i, j \in Int : i * j + 0 = i * j
    OBVIOUS
  <2> QED
    BY <2>1, <2>2, <2>3, <2>4
<1>7. f = [n \in 0 .. depth |-> IF n = 0 THEN 1 ELSE f[n - 1] * x(n)]
  <2> DEFINE e == [n \in 0 .. depth |-> IF n = 0 THEN 1 ELSE f[n - 1] * x(n)]
  <2>1. ASSUME NEW n \in 0 .. depth PROVE f[n] = e[n]
    <3>1. CASE n = 0
      BY <1>5, <3>1
    <3>2. CASE n # 0
      <4>1. f[n] = R[n] /\ f[n - 1] = R[n - 1] /\ R[n] = R[n - 1] * x(n)
        BY <1>6, <3>2
      <4>2. e[n] = f[n - 1] * x(n)
        BY <3>2
      <4> HIDE DEF e, f
      <4> QED
        BY <4>1, <4>2
    <3> QED
      BY <3>1, <3>2
  <2>2. f = [n \in 0 .. depth |-> f[n]] /\ e = [n \in 0 .. depth |-> e[n]]
    OBVIOUS
  <2> HIDE DEF e, f
  <2>3. f = e
    BY <2>1, <2>2
  <2> QED
    BY <2>3 DEF e
<1>8. count = [n \in 0 .. depth |-> IF n = 0 THEN 1 ELSE count[n - 1] * x(n)]
  <2> DEFINE body(g) == g = [n \in 0 .. depth |-> IF n = 0 THEN 1 ELSE g[n - 1] * x(n)]
  <2>1. count = CHOOSE g : body(g)
    BY DEF x
  <2>2. body(f)
    BY <1>7
  <2> HIDE DEF count, body, f
  <2>3. body(count)
    BY <2>1, <2>2
  <2> QED
    BY <2>3 DEF body
<1>9. IterationsOf(prog, p) = count[depth]
  BY DEF IterationsOf, depth, N
<1> HIDE DEF count, f
<1>10. count[depth] = R[depth]
  <2> DEFINE T == {n \in Levels : n <= depth => count[n] = R[n]}
  <2>1. 0 \in T
    <3>1. 0 \in 0 .. depth
      BY <1>1
    <3>2. count[0] = 1
      BY <1>8, <3>1
    <3> QED
      BY <1>5, <3>2, LevelsShape
  <2>2. ASSUME NEW n \in Nat, n < LOOP_CNT, n \in T PROVE n + 1 \in T
    <3>1. PICK l \in Levels : l = n + 1 /\ l # 0 /\ n = l - 1
      BY <2>2, LevelsShape
    <3>2. ASSUME l <= depth PROVE count[l] = R[l]
      <4>1. l \in 0 .. depth /\ n <= depth
        BY <1>1, <3>1, <3>2, LevelsShape
      <4>2. count[l] = count[l - 1] * x(l)
        BY <1>8, <3>1, <4>1
      <4>3. count[n] = R[n]
        BY <2>2, <4>1
      <4>4. R[l] = R[l - 1] * x(l)
        BY <1>6, <3>1, <4>1
      <4> QED
        BY <3>1, <4>2, <4>3, <4>4
    <3> QED
      BY <3>1, <3>2
  <2> HIDE DEF T
  <2>3. depth \in T
    BY <1>1, <2>1, <2>2, LevelInduction
  <2>4. depth <= depth
    BY <1>1
  <2> QED
    BY <2>3, <2>4 DEF T
<1> QED
  BY <1>9, <1>10 DEF depth, R, C, B

(* Nothing is reached before the first instruction.                        *)
LEMMA NothingReached ==
    ASSUME NEW prog \in Programs, NEW p \in Int, NEW stack \in [Depths -> Level]
    PROVE  Run(Counts(prog, p), Passed(0, FALSE, stack))[N(prog, p)] = 0
<1> DEFINE C == Counts(prog, p)
           B == Passed(0, FALSE, stack)
           R == Run(C, B)
           T == {n \in Levels : R[n] = 0}
<1>1. C \in [Levels -> Int] /\ N(prog, p) \in Levels
  BY CountsShape, CommonShape
<1>2. B \in [Levels -> Int] /\ B[0] = 0 /\ \A n \in Levels : n > 0 => B[n] = 0
  BY PassedShape, LevelsShape
<1>3. /\ R \in [Levels -> Int] /\ R[0] = 0
      /\ \A n \in Levels : n # 0 => R[n] = R[n - 1] * C[n] + B[n]
  BY <1>1, <1>2, RunIs
<1> HIDE DEF C, B, R
<1>4. 0 \in T
  BY <1>3, LevelsShape
<1>5. ASSUME NEW n \in Nat, n < LOOP_CNT, n \in T PROVE n + 1 \in T
  <2>1. PICK l \in Levels : l = n + 1 /\ l # 0 /\ n = l - 1 /\ l > 0
    BY <1>5, LevelsShape
  <2>2. R[l] = R[n] * C[l] + B[l] /\ R[n] = 0 /\ B[l] = 0 /\ C[l] \in Int
    BY <1>1, <1>2, <1>3, <1>5, <2>1
  <2>3. R[l] = 0
    BY <2>2
  <2> QED
    BY <2>1, <2>3
<1> HIDE DEF T
<1>6. N(prog, p) \in T
  BY <1>1, <1>4, <1>5, LevelInduction
<1> QED
  BY <1>6 DEF T, R, C, B

(* A digit that is short of its base does not carry.                       *)
LEMMA Carries ==
    ASSUME NEW r \in Nat, NEW q \in Nat, NEW c \in Nat, NEW b \in Nat
    PROVE  /\ r * c \in Nat /\ q * c \in Nat
           /\ r <= q => r * c <= q * c
           /\ r + 1 <= q /\ b <= c => r * c + b <= q * c
           /\ r + 1 <= q /\ b + 1 <= c => r * c + b + 1 <= q * c
<1>1. r * c \in Nat /\ q * c \in Nat
  OBVIOUS
<1>2. ASSUME r <= q PROVE r * c <= q * c
  <2>1. PICK e \in Nat : q = r + e
    <3>1. q - r \in Nat /\ q = r + (q - r)
      BY <1>2
    <3> QED
      BY <3>1
  <2>2. e * c \in Nat /\ q * c = r * c + e * c
    BY <2>1
  <2> QED
    BY <1>1, <2>2
<1>3. ASSUME r + 1 <= q PROVE r * c + c <= q * c
  <2>1. PICK e \in Nat : q = r + 1 + e
    <3>1. q - r - 1 \in Nat /\ q = r + 1 + (q - r - 1)
      BY <1>3
    <3> QED
      BY <3>1
  <2>2. e * c \in Nat /\ q * c = r * c + c + e * c
    BY <2>1
  <2> QED
    BY <1>1, <2>2
<1> QED
  BY <1>1, <1>2, <1>3

(* What is reached is never more than all of it.                           *)
LEMMA ReachedBound ==
    ASSUME NEW prog \in Programs, NEW p \in Int, NEW q \in Int,
           NEW depth, NEW stack \in [Depths -> Level], Nests(prog, q, depth, stack)
    PROVE  /\ Reached(prog, p, q, stack) \in Nat /\ IterationsOf(prog, p) \in Nat
           /\ Reached(prog, p, q, stack) <= IterationsOf(prog, p)
<1> DEFINE m == N(prog, p)
           c == Common(prog, p, q)
           b == p < q
           C == Counts(prog, p)
           A == Passed(0, TRUE, stack)
           B == Passed(c, b, stack)
           P == Run(C, A)
           R == Run(C, B)
           T == {n \in Levels : n <= m => /\ R[n] \in Nat /\ P[n] \in Nat /\ R[n] <= P[n]
                                          /\ n < c => R[n] + 1 <= P[n]}
<1>1. /\ m \in Nat /\ m \in Levels /\ c \in Nat /\ c <= m
      /\ \A d \in 0 .. c - 1 : \E s \in Shared(prog, p, q) : N(prog, s) = d
  BY CommonShape
<1>2. c \in Levels /\ b \in BOOLEAN
  BY <1>1, LevelsShape
<1>3. C \in [Levels -> Nat] /\ C \in [Levels -> Int]
  BY CountsShape
<1>4. /\ A \in [Levels -> Int] /\ A[0] = 1 /\ \A n \in Levels : n > 0 => A[n] = 0
  BY PassedShape, LevelsShape
<1>5. /\ B \in [Levels -> Nat] /\ B \in [Levels -> Int]
      /\ \A n \in Levels : n > c => B[n] = 0
      /\ \A n \in Levels : n # 0 /\ n < c => B[n] = stack[n - 1].value
      /\ 0 < c => B[0] = 0
      /\ c # 0 => B[c] = stack[c - 1].value + IF b THEN ChunkOf(stack[c - 1]) ELSE 0
      /\ c = 0 => B[0] = IF b THEN 1 ELSE 0
      /\ \A n \in Levels : n # 0 => stack[n - 1].value \in Nat
  BY <1>2, PassedShape
<1>6. \A n \in Levels : n # 0 /\ n <= c =>
         /\ stack[n - 1] \in Level /\ stack[n - 1].value < stack[n - 1].total
         /\ stack[n - 1].total = C[n] /\ C[n] \in Nat
  <2>1. ASSUME NEW n \in Levels, n # 0, n <= c
        PROVE  /\ stack[n - 1] \in Level /\ stack[n - 1].value < stack[n - 1].total
               /\ stack[n - 1].total = C[n] /\ C[n] \in Nat
    <3>1. n - 1 \in Depths /\ n \in Nat /\ n - 1 \in 0 .. c - 1
      BY <1>1, <2>1, LevelsShape
    <3>2. PICK s \in Shared(prog, p, q) : N(prog, s) = n - 1
      BY <1>1, <3>1
    <3>3. s \in AroundOf(prog, p) /\ s \in AroundOf(prog, q)
      BY DEF Shared
    <3>4. HoldsLoop(prog, s, stack[n - 1])
      BY <3>2, <3>3 DEF Nests, N
    <3>5. N(prog, s) + 1 = n
      BY <3>1, <3>2
    <3>6. C[n] = HeaderOf(prog, s).iteration_count
      BY <3>3, <3>5, CountsShape
    <3> QED
      BY <1>3, <3>1, <3>4, <3>6 DEF HoldsLoop
  <2> QED
    BY <2>1
<1>7. \A n \in Levels : n # 0 /\ n < c => B[n] + 1 <= C[n]
  <2>1. ASSUME NEW n \in Levels, n # 0, n < c PROVE B[n] + 1 <= C[n]
    <3>1. n <= c
      BY <1>1, <2>1, LevelsShape
    <3>2. B[n] = stack[n - 1].value /\ stack[n - 1].value \in Nat /\ C[n] \in Nat
          /\ stack[n - 1].value < C[n]
      BY <1>5, <1>6, <2>1, <3>1
    <3> QED
      BY <3>2
  <2> QED
    BY <2>1
<1>8. c # 0 => B[c] <= C[c]
  <2>1. ASSUME c # 0 PROVE B[c] <= C[c]
    <3>1. c <= c
      BY <1>1
    <3>2. /\ stack[c - 1] \in Level /\ stack[c - 1].value < stack[c - 1].total
          /\ stack[c - 1].total = C[c] /\ C[c] \in Nat /\ stack[c - 1].value \in Nat
      BY <1>2, <1>5, <1>6, <2>1, <3>1
    <3>3. ChunkOf(stack[c - 1]) \in Nat /\ ChunkOf(stack[c - 1]) <= C[c] - stack[c - 1].value
      BY <3>2, ChunkShape
    <3>4. B[c] = stack[c - 1].value + IF b THEN ChunkOf(stack[c - 1]) ELSE 0
      BY <1>5, <2>1
    <3> HIDE DEF c, b, B, C
    <3> QED
      BY <3>2, <3>3, <3>4
  <2> QED
    BY <2>1
<1>9. /\ P \in [Levels -> Int] /\ P[0] = 1
      /\ \A n \in Levels : n # 0 => P[n] = P[n - 1] * C[n] + A[n]
  BY <1>3, <1>4, RunIs
<1>10. /\ R \in [Levels -> Int] /\ R[0] = B[0]
       /\ \A n \in Levels : n # 0 => R[n] = R[n - 1] * C[n] + B[n]
  BY <1>3, <1>5, RunIs
<1>11. Reached(prog, p, q, stack) = R[m] /\ IterationsOf(prog, p) = P[m]
  BY IterationsIs DEF Reached
<1> HIDE DEF m, c, b, C, A, B, P, R
<1>12. 0 \in T
  <2>1. B[0] \in {0, 1} /\ (0 < c => B[0] = 0)
    BY <1>1, <1>5
  <2> QED
    BY <1>9, <1>10, <2>1, LevelsShape
<1>13. ASSUME NEW n \in Nat, n < LOOP_CNT, n \in T PROVE n + 1 \in T
  <2>1. PICK k \in Levels : k = n + 1 /\ k # 0 /\ n = k - 1 /\ k > 0 /\ k \in Nat
    BY <1>13, LevelsShape
  <2>2. ASSUME k <= m
        PROVE  R[k] \in Nat /\ P[k] \in Nat /\ R[k] <= P[k] /\ (k < c => R[k] + 1 <= P[k])
    <3>1. n <= m
      BY <1>1, <2>1, <2>2
    <3>2. PICK r \in Nat, q1 \in Nat, x \in Nat, y \in Nat :
             r = R[n] /\ q1 = P[n] /\ x = C[k] /\ y = B[k]
      BY <1>3, <1>5, <1>13, <2>1, <3>1
    <3>3. r <= q1 /\ (n < c => r + 1 <= q1)
      BY <1>13, <3>1, <3>2
    <3>4. R[k] = r * x + y /\ P[k] = q1 * x
      <4>1. R[k] = R[k - 1] * C[k] + B[k] /\ P[k] = P[k - 1] * C[k] + A[k] /\ A[k] = 0
        BY <1>4, <1>9, <1>10, <2>1
      <4>2. q1 * x + 0 = q1 * x
        OBVIOUS
      <4> QED
        BY <2>1, <3>2, <4>1, <4>2
    <3>5. /\ r * x \in Nat /\ q1 * x \in Nat /\ r * x <= q1 * x
          /\ n < c /\ y <= x => r * x + y <= q1 * x
          /\ n < c /\ y + 1 <= x => r * x + y + 1 <= q1 * x
      BY <3>3, Carries
    <3>6. CASE k < c
      <4>1. y + 1 <= x /\ n < c
        BY <1>1, <1>7, <2>1, <3>2, <3>6
      <4> QED
        BY <3>4, <3>5, <4>1
    <3>7. CASE k = c
      <4>1. y <= x /\ n < c /\ ~(k < c)
        BY <1>1, <1>8, <2>1, <3>2, <3>7
      <4> QED
        BY <3>4, <3>5, <4>1
    <3>8. CASE k > c
      <4>1. y = 0 /\ ~(k < c)
        BY <1>1, <1>5, <2>1, <3>2, <3>8
      <4> QED
        BY <3>4, <3>5, <4>1
    <3> QED
      BY <1>1, <2>1, <3>6, <3>7, <3>8
  <2> QED
    BY <2>1, <2>2
<1> HIDE DEF T
<1>14. m \in T
  BY <1>1, <1>12, <1>13, LevelInduction
<1>15. m <= m
  BY <1>1
<1> QED
  BY <1>11, <1>14, <1>15 DEF T

(* Two runs that meet stay together while their factors and terms agree.   *)
LEMMA RunOn ==
    ASSUME NEW a \in [Levels -> Int], NEW b \in [Levels -> Int], NEW e \in [Levels -> Int],
           NEW k \in Levels, NEW m \in Levels, k <= m, Run(a, b)[k] = Run(a, e)[k],
           \A n \in Levels : n > k => b[n] = e[n]
    PROVE  Run(a, b)[m] = Run(a, e)[m]
<1> DEFINE T == {n \in Levels : k <= n => Run(a, b)[n] = Run(a, e)[n]}
<1>1. 0 \in T
  <2>1. k <= 0 => k = 0
    BY LevelsShape
  <2> QED
    BY <2>1, LevelsShape
<1>2. ASSUME NEW n \in Nat, n < LOOP_CNT, n \in T PROVE n + 1 \in T
  <2>1. PICK l \in Levels : l = n + 1 /\ l # 0 /\ n = l - 1 /\ l \in Nat
    BY <1>2, LevelsShape
  <2>2. CASE l <= k
    <3>1. k <= l => l = k
      BY <2>1, <2>2, LevelsShape
    <3> QED
      BY <2>1, <3>1
  <2>3. CASE ~(l <= k)
    <3>1. k <= n /\ l > k
      BY <2>1, <2>3, LevelsShape
    <3>2. b[l] = e[l] /\ Run(a, b)[n] = Run(a, e)[n]
      BY <1>2, <3>1
    <3>3. /\ Run(a, b)[l] = Run(a, b)[l - 1] * a[l] + b[l]
          /\ Run(a, e)[l] = Run(a, e)[l - 1] * a[l] + e[l]
      BY <2>1, RunIs
    <3> QED
      BY <2>1, <3>2, <3>3
  <2> QED
    BY <2>2, <2>3
<1> HIDE DEF T
<1>3. m \in T
  BY <1>1, <1>2, LevelInduction
<1> QED
  BY <1>3 DEF T

(* An instruction is no loop's start and no loop's end.                    *)
LEMMA InstructionShape ==
    ASSUME NEW prog \in Programs, NEW p \in DOMAIN prog.code, prog.code[p].type # "LOOP",
           NEW s \in StartsOf(prog)
    PROVE  /\ p \in Int /\ s \in Int /\ EndOf(prog, s) \in Int /\ s < EndOf(prog, s)
           /\ p # s /\ p # EndOf(prog, s) /\ N(prog, s) \in Depths /\ N(prog, s) \in Nat
           /\ N(prog, s) \in Levels /\ N(prog, s) + 1 \in Levels
<1>1. Encoded(prog) /\ WellNested(prog) /\ DOMAIN prog.code = prog.start .. prog.end - 1
      /\ prog.start \in Nat /\ prog.end \in Nat
  BY ProgramShape
<1>2. s \in Int /\ EndOf(prog, s) \in Int /\ s < EndOf(prog, s)
  BY <1>1, LoopShape
<1>3. p # s
  BY DEF StartsOf
<1>4. p # EndOf(prog, s)
  BY <1>1 DEF WellNested
<1>5. N(prog, s) \in Depths
  <2>1. Cardinality(AroundOf(prog, s)) < LOOP_CNT /\ Cardinality(AroundOf(prog, s)) \in Nat
    BY <1>1, AroundStart, AroundFinite
  <2> QED
    BY <2>1, DepthsShape DEF N
<1> QED
  BY <1>1, <1>2, <1>3, <1>4, <1>5, DepthsShape, LevelsShape

(* What an instruction shares with the places that a loop leads to.        *)
LEMMA SharedLoop ==
    ASSUME NEW prog \in Programs, NEW p \in DOMAIN prog.code, prog.code[p].type # "LOOP",
           NEW s \in StartsOf(prog)
    PROVE  /\ Common(prog, p, EndOf(prog, s)) = Common(prog, p, s + 1)
           /\ Common(prog, p, EndOf(prog, s) + 1) = Common(prog, p, s)
           /\ Common(prog, p, s) \in Levels /\ Common(prog, p, s + 1) \in Levels
           /\ s \in AroundOf(prog, p) => /\ Common(prog, p, s) = N(prog, s)
                                         /\ Common(prog, p, s + 1) = N(prog, s) + 1
                                         /\ s < p /\ p < EndOf(prog, s)
           /\ s \notin AroundOf(prog, p) => /\ Common(prog, p, s + 1) = Common(prog, p, s)
                                            /\ \A d \in Depths : d < Common(prog, p, s) => d # N(prog, s)
                                            /\ p < s <=> p < s + 1
                                            /\ p < s <=> p < EndOf(prog, s)
                                            /\ p < s <=> p < EndOf(prog, s) + 1
<1>1. Encoded(prog) /\ WellNested(prog)
  BY ProgramShape
<1>2. /\ AroundOf(prog, s + 1) = AroundOf(prog, s) \cup {s}
      /\ N(prog, s + 1) = N(prog, s) + 1
      /\ AroundOf(prog, EndOf(prog, s)) = AroundOf(prog, s + 1)
      /\ AroundOf(prog, EndOf(prog, s) + 1) = AroundOf(prog, s)
  BY <1>1, AroundStart, AroundEnd DEF N
<1>3. /\ p \in Int /\ s \in Int /\ EndOf(prog, s) \in Int /\ s < EndOf(prog, s)
      /\ p # s /\ p # EndOf(prog, s) /\ N(prog, s) \in Nat
  BY InstructionShape
<1>4. /\ Common(prog, p, s) \in Nat /\ Common(prog, p, s) <= N(prog, s)
      /\ Common(prog, p, s) <= N(prog, p) /\ N(prog, p) \in Levels
  BY <1>3, CommonShape
<1>5. Common(prog, p, s) \in Levels
  BY <1>4, LevelsShape
<1>6. Common(prog, p, s + 1) \in Levels
  <2>1. PICK q \in Int : q = s + 1
    BY <1>3
  <2>2. PICK c \in Nat, m \in Levels : c = Common(prog, p, q) /\ m = N(prog, p) /\ c <= m
    BY <1>3, CommonShape
  <2>3. c \in Levels
    BY <2>2, LevelsShape
  <2> QED
    BY <2>1, <2>2, <2>3
<1>7. ASSUME s \in AroundOf(prog, p)
      PROVE  /\ Common(prog, p, s) = N(prog, s) /\ Common(prog, p, s + 1) = N(prog, s) + 1
             /\ s < p /\ p < EndOf(prog, s)
  <2>1. AroundOf(prog, s) \subseteq AroundOf(prog, p)
    BY <1>1, <1>3, <1>7, AroundInner
  <2>2. Shared(prog, p, s) = AroundOf(prog, s) /\ Shared(prog, p, s + 1) = AroundOf(prog, s + 1)
    BY <1>2, <1>7, <2>1 DEF Shared
  <2>3. s < p /\ p <= EndOf(prog, s)
    BY <1>7 DEF AroundOf
  <2> QED
    BY <1>2, <1>3, <2>2, <2>3 DEF Common, N
<1>8. ASSUME s \notin AroundOf(prog, p)
      PROVE  /\ Common(prog, p, s + 1) = Common(prog, p, s)
             /\ \A d \in Depths : d < Common(prog, p, s) => d # N(prog, s)
             /\ p < s <=> p < s + 1
             /\ p < s <=> p < EndOf(prog, s)
             /\ p < s <=> p < EndOf(prog, s) + 1
  <2>1. Shared(prog, p, s + 1) = Shared(prog, p, s)
    BY <1>2, <1>8 DEF Shared
  <2>2. ~(s < p /\ p <= EndOf(prog, s))
    BY <1>8 DEF AroundOf
  <2>3. \A d \in Depths : d < Common(prog, p, s) => d # N(prog, s)
    BY <1>3, <1>4, DepthsShape
  <2> QED
    BY <1>3, <2>1, <2>2, <2>3 DEF Common
<1>9. /\ Common(prog, p, EndOf(prog, s)) = Common(prog, p, s + 1)
      /\ Common(prog, p, EndOf(prog, s) + 1) = Common(prog, p, s)
  BY <1>2 DEF Common, Shared
<1> QED
  BY <1>5, <1>6, <1>7, <1>8, <1>9

(* A push passes its instruction and no other.                             *)
LEMMA ReachedPush ==
    ASSUME NEW prog \in Programs, NEW p \in DOMAIN prog.code, prog.code[p].type # "LOOP",
           NEW q \in DOMAIN prog.code, prog.code[q].type # "LOOP",
           NEW stack \in [Depths -> Level]
    PROVE  /\ p # q => Reached(prog, p, q + 1, stack) = Reached(prog, p, q, stack)
           /\ p = q /\ AroundOf(prog, p) # {} =>
                 Reached(prog, p, q + 1, stack)
                   = Reached(prog, p, q, stack) + ChunkOf(stack[N(prog, p) - 1])
<1>1. /\ Encoded(prog) /\ WellNested(prog) /\ DOMAIN prog.code = prog.start .. prog.end - 1
      /\ prog.start \in Nat /\ prog.end \in Nat
  BY ProgramShape
<1>2. p \in Int /\ q \in Int
  BY <1>1
<1>3. AroundOf(prog, q + 1) = AroundOf(prog, q)
  BY <1>1, AroundPush
<1>4. Common(prog, p, q + 1) = Common(prog, p, q)
  BY <1>3 DEF Common, Shared
<1>5. ASSUME p # q PROVE Reached(prog, p, q + 1, stack) = Reached(prog, p, q, stack)
  <2>1. p < q + 1 <=> p < q
    BY <1>2, <1>5
  <2>2. (p < q + 1) = (p < q)
    BY <1>2, <2>1
  <2> QED
    BY <1>4, <2>2 DEF Reached
<1>6. ASSUME p = q, AroundOf(prog, p) # {}
      PROVE  Reached(prog, p, q + 1, stack)
               = Reached(prog, p, q, stack) + ChunkOf(stack[N(prog, p) - 1])
  <2> DEFINE m == N(prog, p)
             C == Counts(prog, p)
             A == Passed(m, FALSE, stack)
             B == Passed(m, TRUE, stack)
  <2>1. m \in Levels /\ m # 0 /\ m \in Nat
    <3>1. IsFiniteSet(AroundOf(prog, p))
      BY <1>1, AroundFinite
    <3>2. m # 0
      BY <1>6, <3>1, FS_EmptySet DEF N
    <3> QED
      BY <1>2, <3>2, CommonShape
  <2>2. Common(prog, p, q) = m
    BY <1>6 DEF Common, Shared, N
  <2>3. (p < q + 1) = TRUE /\ (p < q) = FALSE
    BY <1>2, <1>6
  <2>4. /\ Reached(prog, p, q + 1, stack) = Run(C, B)[m]
        /\ Reached(prog, p, q, stack) = Run(C, A)[m]
    BY <1>4, <2>2, <2>3 DEF Reached
  <2>5. C \in [Levels -> Int] /\ A \in [Levels -> Int] /\ B \in [Levels -> Int]
    BY <1>2, <2>1, CountsShape, PassedShape
  <2>6. /\ A[m] = stack[m - 1].value + 0
        /\ B[m] = stack[m - 1].value + ChunkOf(stack[m - 1])
        /\ stack[m - 1].value \in Nat /\ stack[m - 1] \in Level
    BY <2>1, PassedShape, LevelsShape
  <2>7. \A n \in Levels : n < m => A[n] = B[n]
    <3>0. 0 < m
      BY <2>1
    <3> HIDE DEF m
    <3>1. A[0] = 0 /\ B[0] = 0
      BY <2>1, <3>0, PassedShape
    <3>2. \A n \in Levels : n # 0 /\ n < m => A[n] = stack[n - 1].value
      BY <2>1, PassedShape
    <3>3. \A n \in Levels : n # 0 /\ n < m => B[n] = stack[n - 1].value
      BY <2>1, PassedShape
    <3> QED
      BY <3>1, <3>2, <3>3
  <2>8. PICK k \in Levels : k = m - 1 /\ k \in Nat
    BY <2>1, LevelsShape
  <2> HIDE DEF m, C, A, B
  <2>9. \A n \in Levels : n <= k => (n # 0 => C[n] = C[n]) /\ A[n] = B[n]
    BY <2>1, <2>7, <2>8, LevelsShape
  <2>10. Run(C, A)[k] = Run(C, B)[k]
    BY <2>5, <2>9, RunSame
  <2>11. /\ Run(C, A)[m] = Run(C, A)[k] * C[m] + A[m]
         /\ Run(C, B)[m] = Run(C, B)[k] * C[m] + B[m]
         /\ Run(C, A)[k] \in Int /\ C[m] \in Int
    BY <2>1, <2>5, <2>8, RunIs
  <2>12. ChunkOf(stack[m - 1]) \in Nat
    BY <2>6, ChunkShape
  <2>13. PICK x \in Int, y \in Int : x = Run(C, A)[k] /\ y = C[m]
    BY <2>11
  <2>14. x * y \in Int
    OBVIOUS
  <2>15. Run(C, A)[m] = x * y + stack[m - 1].value
         /\ Run(C, B)[m] = x * y + (stack[m - 1].value + ChunkOf(stack[m - 1]))
    BY <2>6, <2>10, <2>11, <2>13
  <2>16. Run(C, B)[m] = Run(C, A)[m] + ChunkOf(stack[m - 1])
    BY ONLY <2>6, <2>12, <2>14, <2>15
  <2> QED
    BY <2>4, <2>16 DEF m
<1> QED
  BY <1>5, <1>6

(* A loop that starts has passed nothing: its level is 0.                  *)
LEMMA ReachedStart ==
    ASSUME NEW prog \in Programs, NEW p \in DOMAIN prog.code, prog.code[p].type # "LOOP",
           NEW s \in StartsOf(prog), NEW stack \in [Depths -> Level],
           NEW level \in Level, level.value = 0
    PROVE  Reached(prog, p, s + 1, [stack EXCEPT ![N(prog, s)] = level])
             = Reached(prog, p, s, stack)
<1> DEFINE d == N(prog, s)
           new == [stack EXCEPT ![d] = level]
<1>1. /\ p \in Int /\ s \in Int /\ d \in Depths /\ d \in Nat /\ d \in Levels /\ d + 1 \in Levels
      /\ p # s
  BY InstructionShape
<1>2. new \in [Depths -> Level] /\ new[d] = level /\ \A x \in Depths : x # d => new[x] = stack[x]
  BY <1>1
<1>3. Common(prog, p, s) \in Levels
  BY SharedLoop
<1> HIDE DEF new
<1>4. CASE s \notin AroundOf(prog, p)
  <2>1. /\ Common(prog, p, s + 1) = Common(prog, p, s)
        /\ \A x \in Depths : x < Common(prog, p, s) => x # d
        /\ p < s <=> p < s + 1
    BY <1>4, SharedLoop
  <2>2. \A x \in Depths : x < Common(prog, p, s) => new[x] = stack[x]
    BY <1>2, <2>1
  <2>3. (p < s + 1) = (p < s)
    BY <1>1, <2>1
  <2>4. PICK b \in BOOLEAN : b = (p < s)
    <3>1. (p < s) = TRUE \/ (p < s) = FALSE
      BY <1>1
    <3> QED
      BY <3>1
  <2>5. Passed(Common(prog, p, s), b, new) = Passed(Common(prog, p, s), b, stack)
    BY <1>2, <1>3, <2>2, PassedSame
  <2> QED
    BY <2>1, <2>3, <2>4, <2>5 DEF Reached, new, d
<1>5. CASE s \in AroundOf(prog, p)
  <2>1. Common(prog, p, s) = d /\ Common(prog, p, s + 1) = d + 1 /\ s < p
    BY <1>5, SharedLoop
  <2>2. (p < s + 1) = FALSE /\ (p < s) = FALSE
    BY <1>1, <2>1
  <2> DEFINE A == Passed(d, FALSE, stack)
             B == Passed(d + 1, FALSE, new)
  <2>3. PICK k \in Levels : k = d + 1 /\ k # 0 /\ k - 1 = d /\ 0 < k /\ d < k
    BY <1>1
  <2> HIDE DEF d
  <2>4. /\ A \in [Levels -> Nat] /\ A[0] = 0
        /\ \A n \in Levels : n > d => A[n] = 0
        /\ \A n \in Levels : n # 0 /\ n <= d => A[n] = stack[n - 1].value
    BY <1>1, PassedAhead
  <2>5. /\ B \in [Levels -> Nat] /\ B[0] = 0
        /\ \A n \in Levels : n > k => B[n] = 0
        /\ \A n \in Levels : n # 0 /\ n <= k => B[n] = new[n - 1].value
    BY <1>2, <2>3, PassedAhead
  <2> HIDE DEF A, B
  <2>6. ASSUME NEW n \in Levels PROVE A[n] = B[n]
    <3>1. n \in Nat
      BY LevelsShape
    <3>2. CASE n > k
      BY <1>1, <2>3, <2>4, <2>5, <3>1, <3>2
    <3>3. CASE n = k
      <4>1. n > d /\ n <= k /\ n # 0 /\ n - 1 = d
        BY <1>1, <2>3, <3>1, <3>3
      <4> QED
        BY <1>2, <2>4, <2>5, <4>1
    <3>4. CASE n < k /\ n # 0
      <4>1. n - 1 \in Depths /\ n - 1 # d /\ n <= d
        BY <1>1, <2>3, <3>1, <3>4, LevelsShape
      <4>2. n <= k
        BY <2>3, <3>1, <3>4, LevelsShape
      <4> QED
        BY <1>2, <2>4, <2>5, <3>4, <4>1, <4>2
    <3>5. CASE n = 0
      BY <1>1, <2>4, <2>5, <3>5
    <3>6. k \in Nat
      BY LevelsShape
    <3> QED
      BY <3>1, <3>2, <3>3, <3>4, <3>5, <3>6
  <2>7. A = B
    BY <2>4, <2>5, <2>6
  <2> QED
    BY <2>1, <2>2, <2>7 DEF Reached, A, B, new, d
<1> QED
  BY <1>4, <1>5

(* At its end the loop at s goes on with its next iterations: what the     *)
(* increment makes of the level, the stack and the position.               *)
Continues(prog, s, stack, level, next, new) ==
    /\ level.value = NextValue(stack[N(prog, s)])
    /\ next = s + 1
    /\ new = [stack EXCEPT ![N(prog, s)] = level]

(* A loop that goes on passes the chunk that ended.                        *)
LEMMA ReachedAgain ==
    ASSUME NEW prog \in Programs, NEW p \in DOMAIN prog.code, prog.code[p].type # "LOOP",
           NEW s \in StartsOf(prog), NEW stack \in [Depths -> Level],
           NEW level \in Level,
           NEW next, NEW new, Continues(prog, s, stack, level, next, new)
    PROVE  Reached(prog, p, next, new) = Reached(prog, p, EndOf(prog, s), stack)
<1> SUFFICES ASSUME level.value = NextValue(stack[N(prog, s)])
             PROVE  Reached(prog, p, s + 1, [stack EXCEPT ![N(prog, s)] = level])
                      = Reached(prog, p, EndOf(prog, s), stack)
  BY DEF Continues
<1> DEFINE d == N(prog, s)
           e == EndOf(prog, s)
           changed == [stack EXCEPT ![d] = level]
<1>1. /\ p \in Int /\ s \in Int /\ d \in Depths /\ d \in Nat /\ d \in Levels /\ d + 1 \in Levels
      /\ p # s /\ e \in Int
  BY InstructionShape
<1>2. changed \in [Depths -> Level] /\ changed[d] = level /\ \A x \in Depths : x # d => changed[x] = stack[x]
  BY <1>1
<1>3. Common(prog, p, s) \in Levels /\ Common(prog, p, e) = Common(prog, p, s + 1)
  BY SharedLoop
<1> HIDE DEF changed, e
<1>4. CASE s \notin AroundOf(prog, p)
  <2>1. /\ Common(prog, p, s + 1) = Common(prog, p, s)
        /\ \A x \in Depths : x < Common(prog, p, s) => x # d
        /\ p < s <=> p < s + 1
        /\ p < s <=> p < e
    BY <1>4, SharedLoop DEF e
  <2>2. \A x \in Depths : x < Common(prog, p, s) => changed[x] = stack[x]
    BY <1>2, <2>1
  <2>3. (p < s + 1) = (p < e)
    BY <1>1, <2>1
  <2>4. PICK b \in BOOLEAN : b = (p < e)
    <3>1. (p < e) = TRUE \/ (p < e) = FALSE
      BY <1>1
    <3> QED
      BY <3>1
  <2>5. Passed(Common(prog, p, s), b, changed) = Passed(Common(prog, p, s), b, stack)
    BY <1>2, <1>3, <2>2, PassedSame
  <2> QED
    BY <1>3, <2>1, <2>3, <2>4, <2>5 DEF Reached, changed, e, d
<1>5. CASE s \in AroundOf(prog, p)
  <2>1. Common(prog, p, s + 1) = d + 1 /\ s < p /\ p < e
    BY <1>5, SharedLoop DEF e
  <2>2. (p < s + 1) = FALSE /\ (p < e) = TRUE
    BY <1>1, <2>1
  <2> DEFINE A == Passed(d + 1, TRUE, stack)
             B == Passed(d + 1, FALSE, changed)
  <2>3. PICK k \in Levels : k = d + 1 /\ k # 0 /\ k - 1 = d /\ 0 < k /\ d < k
    BY <1>1
  <2>0. level.value = stack[d].value + ChunkOf(stack[d])
    BY DEF NextValue
  <2> HIDE DEF d
  <2>4. /\ A \in [Levels -> Nat] /\ \A n \in Levels : n > k => A[n] = 0
        /\ \A n \in Levels : n # 0 /\ n < k => A[n] = stack[n - 1].value
        /\ A[0] = 0
        /\ A[k] = stack[k - 1].value + ChunkOf(stack[k - 1])
    <3>1. A = Passed(k, TRUE, stack)
      BY <2>3
    <3> HIDE DEF A
    <3> QED
      BY <2>3, <3>1, PassedBehind
  <2>5. /\ B \in [Levels -> Nat] /\ B[0] = 0
        /\ \A n \in Levels : n > k => B[n] = 0
        /\ \A n \in Levels : n # 0 /\ n <= k => B[n] = changed[n - 1].value
    BY <1>2, <2>3, PassedAhead
  <2>9. k <= k /\ \A n \in Levels : n < k => n <= k
    BY LevelsShape
  <2> HIDE DEF A, B
  <2>6. ASSUME NEW n \in Levels PROVE A[n] = B[n]
    <3>1. n \in Nat
      BY LevelsShape
    <3>2. CASE n > k
      BY <2>4, <2>5, <3>2
    <3>3. CASE n = k
      BY <1>2, <2>0, <2>3, <2>4, <2>5, <2>9, <3>3
    <3>4. CASE n < k /\ n # 0
      <4>1. n - 1 \in Depths /\ n - 1 # d
        BY <1>1, <2>3, <3>1, <3>4, LevelsShape
      <4> QED
        BY <1>2, <2>4, <2>5, <2>9, <3>4, <4>1
    <3>5. CASE n = 0
      BY <2>4, <2>5, <3>5
    <3>6. k \in Nat
      BY LevelsShape
    <3> QED
      BY <3>1, <3>2, <3>3, <3>4, <3>5, <3>6
  <2>7. A = B
    BY <2>4, <2>5, <2>6
  <2> QED
    BY <1>3, <2>1, <2>2, <2>7 DEF Reached, A, B, changed, d, e
<1> QED
  BY <1>4, <1>5

(* At its end the loop at s has no iterations left and is over: nothing    *)
(* around it runs its iterations by chunks.                                *)
Completes(prog, s, stack, level, next, new) ==
    /\ NextValue(stack[N(prog, s)]) = HeaderOf(prog, s).iteration_count
    /\ N(prog, s) # 0 => ~stack[N(prog, s) - 1].independent
    /\ next = EndOf(prog, s) + 1
    /\ new = [stack EXCEPT ![N(prog, s)] = level]

(* A loop that ends carries: its iterations become one pass of the loop    *)
(* around it.                                                              *)
LEMMA ReachedEnd ==
    ASSUME NEW prog \in Programs, NEW p \in DOMAIN prog.code, prog.code[p].type # "LOOP",
           NEW s \in StartsOf(prog), NEW stack \in [Depths -> Level],
           NEW level \in Level,
           NEW next, NEW new, Completes(prog, s, stack, level, next, new)
    PROVE  Reached(prog, p, next, new) = Reached(prog, p, EndOf(prog, s), stack)
<1> SUFFICES ASSUME NextValue(stack[N(prog, s)]) = HeaderOf(prog, s).iteration_count,
                    N(prog, s) # 0 => ~stack[N(prog, s) - 1].independent
             PROVE  Reached(prog, p, EndOf(prog, s) + 1, [stack EXCEPT ![N(prog, s)] = level])
                      = Reached(prog, p, EndOf(prog, s), stack)
  BY DEF Completes
<1> DEFINE d == N(prog, s)
           e == EndOf(prog, s)
           changed == [stack EXCEPT ![d] = level]
<1>1. /\ p \in Int /\ s \in Int /\ d \in Depths /\ d \in Nat /\ d \in Levels /\ d + 1 \in Levels
      /\ p # s /\ e \in Int
  BY InstructionShape
<1>2. changed \in [Depths -> Level] /\ changed[d] = level /\ \A x \in Depths : x # d => changed[x] = stack[x]
  BY <1>1
<1>3. /\ Common(prog, p, s) \in Levels /\ Common(prog, p, e) = Common(prog, p, s + 1)
      /\ Common(prog, p, e + 1) = Common(prog, p, s)
  BY SharedLoop
<1> HIDE DEF changed, e
<1>4. CASE s \notin AroundOf(prog, p)
  <2>1. /\ Common(prog, p, s + 1) = Common(prog, p, s)
        /\ \A x \in Depths : x < Common(prog, p, s) => x # d
        /\ p < s <=> p < e + 1
        /\ p < s <=> p < e
    BY <1>4, SharedLoop DEF e
  <2>2. \A x \in Depths : x < Common(prog, p, s) => changed[x] = stack[x]
    BY <1>2, <2>1
  <2>3. (p < e + 1) = (p < e)
    BY <1>1, <2>1
  <2>4. PICK b \in BOOLEAN : b = (p < e)
    <3>1. (p < e) = TRUE \/ (p < e) = FALSE
      BY <1>1
    <3> QED
      BY <3>1
  <2>5. Passed(Common(prog, p, s), b, changed) = Passed(Common(prog, p, s), b, stack)
    BY <1>2, <1>3, <2>2, PassedSame
  <2> QED
    BY <1>3, <2>1, <2>3, <2>4, <2>5 DEF Reached, changed, e, d
<1>5. CASE s \in AroundOf(prog, p)
  <2>1. /\ Common(prog, p, s + 1) = d + 1 /\ Common(prog, p, s) = d
        /\ s < p /\ p < e
    BY <1>5, SharedLoop DEF e
  <2>2. (p < e + 1) = TRUE /\ (p < e) = TRUE
    BY <1>1, <2>1
  <2>3. PICK k \in Levels : k = d + 1 /\ k # 0 /\ k - 1 = d /\ 0 < k /\ d < k /\ k \in Nat
    BY <1>1
  <2> DEFINE m == N(prog, p)
             C == Counts(prog, p)
             A == Passed(k, TRUE, stack)
             B == Passed(d, TRUE, changed)
             Q == Run(C, A)
             R == Run(C, B)
  <2>4. /\ C \in [Levels -> Int] /\ C[k] = HeaderOf(prog, s).iteration_count /\ k <= m
        /\ m \in Levels /\ C[k] \in Nat
    <3>1. /\ C \in [Levels -> Int] /\ d + 1 <= m
          /\ C[d + 1] = HeaderOf(prog, s).iteration_count
          /\ HeaderOf(prog, s).iteration_count \in Nat \ {0}
      BY <1>1, <1>5, CountsShape
    <3>2. m \in Levels
      BY <1>1, CommonShape
    <3> HIDE DEF d, m, C
    <3> QED
      BY <2>3, <3>1, <3>2
  <2>5. /\ stack[d].value + ChunkOf(stack[d]) = C[k]
        /\ d # 0 => stack[d - 1] \in Level /\ ~stack[d - 1].independent
    BY <1>1, <2>4, LevelsShape DEF NextValue
  <2>6. /\ Reached(prog, p, e, stack) = Q[m]
        /\ Reached(prog, p, e + 1, changed) = R[m]
    BY <1>3, <2>1, <2>2, <2>3 DEF Reached
  <2> HIDE DEF d, m, C
  <2>7. /\ A \in [Levels -> Nat] /\ A[0] = 0 /\ \A n \in Levels : n > k => A[n] = 0
        /\ \A n \in Levels : n # 0 /\ n < k => A[n] = stack[n - 1].value
        /\ A[k] = stack[k - 1].value + ChunkOf(stack[k - 1])
    BY <2>3, PassedBehind
  <2>8. /\ B \in [Levels -> Nat] /\ B[0] = IF d = 0 THEN 1 ELSE 0
        /\ \A n \in Levels : n > d => B[n] = 0
        /\ \A n \in Levels : n # 0 /\ n < d => B[n] = changed[n - 1].value
        /\ d # 0 => B[d] = changed[d - 1].value + ChunkOf(changed[d - 1])
    BY <1>1, <1>2, PassedBehind
  <2> HIDE DEF A, B
  <2>9. A \in [Levels -> Int] /\ B \in [Levels -> Int]
    <3>1. \A n \in Nat : n \in Int
      OBVIOUS
    <3> QED
      BY <2>7, <2>8, <3>1
  <2>10. \A n \in Levels : n # 0 /\ n <= d => changed[n - 1] = stack[n - 1]
    <3>1. ASSUME NEW n \in Levels, n # 0, n <= d PROVE changed[n - 1] = stack[n - 1]
      <4>1. n - 1 \in Depths /\ n \in Nat
        BY <3>1, LevelsShape
      <4>2. n - 1 # d
        BY <1>1, <3>1, <4>1
      <4> QED
        BY <1>2, <4>1, <4>2
    <3> QED
      BY <3>1
  <2>11. \A n \in Levels : n < d => A[n] = B[n]
    <3>1. ASSUME NEW n \in Levels, n < d PROVE A[n] = B[n]
      <4>1. n \in Nat /\ n < k /\ n <= d
        BY <1>1, <2>3, <3>1, LevelsShape
      <4>2. CASE n = 0
        <5>1. d # 0
          BY <3>1, <4>2
        <5> QED
          BY <2>7, <2>8, <4>2, <5>1
      <4>3. CASE n # 0
        BY <2>7, <2>8, <2>10, <3>1, <4>1, <4>3
      <4> QED
        BY <4>2, <4>3
    <3> QED
      BY <3>1
  <2>12. B[d] = A[d] + 1
    <3>1. CASE d = 0
      BY <2>7, <2>8, <3>1
    <3>2. CASE d # 0
      <4>1. d <= d
        BY <1>1
      <4>2. changed[d - 1] = stack[d - 1]
        BY <1>1, <2>10, <3>2, <4>1
      <4>3. ChunkOf(stack[d - 1]) = 1
        BY <2>5, <3>2, ChunkShape
      <4>4. A[d] = stack[d - 1].value
        BY <1>1, <2>3, <2>7, <3>2
      <4> QED
        BY <2>8, <3>2, <4>2, <4>3, <4>4
    <3> QED
      BY <3>1, <3>2
  <2>13. /\ Q \in [Levels -> Int] /\ Q[0] = A[0]
         /\ \A n \in Levels : n # 0 => Q[n] = Q[n - 1] * C[n] + A[n]
    BY <2>4, <2>9, RunIs
  <2>14. /\ R \in [Levels -> Int] /\ R[0] = B[0]
         /\ \A n \in Levels : n # 0 => R[n] = R[n - 1] * C[n] + B[n]
    BY <2>4, <2>9, RunIs
  <2>15. R[d] = Q[d] + 1
    <3>1. CASE d = 0
      BY <2>12, <2>13, <2>14, <3>1
    <3>2. CASE d # 0
      <4>1. PICK j \in Levels : j = d - 1 /\ j < d
        BY <1>1, <3>2, LevelsShape
      <4>2. \A n \in Levels : n <= j => (n # 0 => C[n] = C[n]) /\ A[n] = B[n]
        <5>1. \A n \in Levels : n <= j => n < d
          BY <1>1, <4>1, LevelsShape
        <5> QED
          BY <2>11, <5>1
      <4>3. Q[j] = R[j]
        BY <2>4, <2>9, <4>2, RunSame
      <4>4. /\ Q[d] = Q[j] * C[d] + A[d] /\ R[d] = R[j] * C[d] + B[d]
        BY <1>1, <2>13, <2>14, <3>2, <4>1
      <4>5. PICK x \in Int, y \in Int, z \in Int : x = Q[j] /\ y = C[d] /\ z = A[d]
        BY <1>1, <2>4, <2>9, <2>13
      <4>6. x * y \in Int
        OBVIOUS
      <4>7. Q[d] = x * y + z /\ R[d] = x * y + (z + 1)
        BY <2>12, <4>3, <4>4, <4>5
      <4> QED
        BY ONLY <4>6, <4>7, z \in Int
    <3> QED
      BY <3>1, <3>2
  <2>16. Q[k] = R[k]
    <3>1. Q[k] = Q[d] * C[k] + A[k] /\ R[k] = R[d] * C[k] + B[k]
      BY <2>3, <2>13, <2>14
    <3>2. B[k] = 0 /\ A[k] = C[k]
      BY <2>3, <2>5, <2>7, <2>8
    <3>3. PICK x \in Int, y \in Int : x = Q[d] /\ y = C[k]
      BY <1>1, <2>4, <2>13
    <3>4. x * y + y = (x + 1) * y + 0
      OBVIOUS
    <3> QED
      BY <2>15, <3>1, <3>2, <3>3, <3>4
  <2>17. \A n \in Levels : n > k => A[n] = B[n]
    <3>1. \A n \in Levels : n \in Nat
      BY LevelsShape
    <3>2. \A n \in Nat : n > k => n > d
      BY <1>1, <2>3
    <3> QED
      BY <2>7, <2>8, <3>1, <3>2
  <2> HIDE DEF Q, R
  <2>18. Q[m] = R[m]
    BY <2>4, <2>9, <2>16, <2>17, RunOn DEF Q, R
  <2> QED
    BY <2>6, <2>18 DEF changed, e, d
<1> QED
  BY <1>4, <1>5

(* At the first instruction nothing has been reached, at the end all.      *)
LEMMA ReachedEdges ==
    ASSUME NEW prog \in Programs, NEW p \in DOMAIN prog.code, NEW stack \in [Depths -> Level]
    PROVE  /\ Reached(prog, p, prog.start, stack) = 0
           /\ Reached(prog, p, prog.end, stack) = IterationsOf(prog, p)
<1>1. /\ Encoded(prog) /\ WellNested(prog) /\ DOMAIN prog.code = prog.start .. prog.end - 1
      /\ prog.start \in Nat /\ prog.end \in Nat
  BY ProgramShape
<1>2. p \in Int /\ (p < prog.start) = FALSE /\ (p < prog.end) = TRUE
  BY <1>1
<1>3. AroundOf(prog, prog.start) = {} /\ AroundOf(prog, prog.end) = {}
  BY <1>1, AroundNothing
<1>4. Common(prog, p, prog.start) = 0 /\ Common(prog, p, prog.end) = 0
  BY <1>3, FS_EmptySet DEF Common, Shared
<1> QED
  BY <1>2, <1>4, NothingReached, IterationsIs DEF Reached

-----------------------------------------------------------------------------
(* Nothing is pushed before the first instruction, then what has been      *)
(* reached, and everything when the program is over.                       *)
Counted ==
    \A p \in DOMAIN program.code : program.code[p].type # "LOOP" =>
        /\ S \in Before => pushed[p] = 0
        /\ S \in Reading => pushed[p] = Reached(program, p, pc, loop_stack)
        /\ S \in Moving => pushed[p] = Reached(program, p, NextPc, loop_stack)
        /\ S \in {"FINISH_PROGRAM_1", "FINISH_PROGRAM_2"} =>
              pushed[p] = IterationsOf(program, p)
CountInv == Regular(program) => Counted

(* The states of the machine, in these parts.                              *)
LEMMA StatesParted ==
    /\ S \in Before => S \notin Reading /\ S \notin Moving
                       /\ S \notin {"FINISH_PROGRAM_1", "FINISH_PROGRAM_2"}
    /\ S' \in Before => S' \notin Reading /\ S' \notin Moving
                        /\ S' \notin {"FINISH_PROGRAM_1", "FINISH_PROGRAM_2"}
    /\ S' \in Reading => S' \notin Before /\ S' \notin Moving
                         /\ S' \notin {"FINISH_PROGRAM_1", "FINISH_PROGRAM_2"}
    /\ S' \in Moving => S' \notin Before /\ S' \notin Reading
                        /\ S' \notin {"FINISH_PROGRAM_1", "FINISH_PROGRAM_2"}
    /\ S' \in {"FINISH_PROGRAM_1", "FINISH_PROGRAM_2"} =>
          S' \notin Before /\ S' \notin Reading /\ S' \notin Moving
  BY DEF Before, Reading, Moving

(* The counts start at 0: at power-on, after a reset and with a program.   *)
LEMMA CountedFromZero ==
    ASSUME S' \in Before, pushed' = [i \in DOMAIN program'.code |-> 0]
    PROVE  CountInv'
  BY StatesParted DEF CountInv, Counted

LEMMA CountInit == ASSUME Init PROVE CountInv
  BY DEF Init, CountInv, Counted, Before, Reading, Moving

LEMMA CountReset == ASSUME Reset PROVE CountInv'
<1>1. S' = "IDLE" /\ pushed' = [i \in DOMAIN program'.code |-> 0]
  BY DEF Reset
<1> QED
  BY <1>1, CountedFromZero DEF Before

LEMMA CountPrepareProgram0 == ASSUME PrepareProgram0 PROVE CountInv'
<1>1. S' = "PREPARE_PROGRAM_1" /\ pushed' = [i \in DOMAIN program'.code |-> 0]
  BY DEF PrepareProgram0
<1> QED
  BY <1>1, CountedFromZero DEF Before

(* They stay as long as the machine stays in a part and at its place.      *)
LEMMA CountUnchanged ==
    ASSUME CountInv, UNCHANGED <<program, pushed>>,
           \/ S' = S /\ UNCHANGED <<pc, loop_stack, jump_amount>>
           \/ S \in Before /\ S' \in Before
           \/ S \in Reading /\ S' \in Reading /\ UNCHANGED <<pc, loop_stack>>
           \/ S \in Moving /\ S' \in Moving /\ UNCHANGED <<pc, jump_amount, loop_stack>>
           \/ /\ S \in {"FINISH_PROGRAM_1", "FINISH_PROGRAM_2"}
              /\ S' \in {"FINISH_PROGRAM_1", "FINISH_PROGRAM_2"}
    PROVE  CountInv'
<1>1. CASE S' = S /\ UNCHANGED <<pc, loop_stack, jump_amount>>
  BY <1>1 DEF CountInv, Counted, NextPc
<1>2. CASE S \in Before /\ S' \in Before
  BY <1>2, StatesParted DEF CountInv, Counted
<1>3. CASE S \in Reading /\ S' \in Reading /\ UNCHANGED <<pc, loop_stack>>
  BY <1>3, StatesParted DEF CountInv, Counted
<1>4. CASE S \in Moving /\ S' \in Moving /\ UNCHANGED <<pc, jump_amount, loop_stack>>
  BY <1>4, StatesParted DEF CountInv, Counted, NextPc
<1>5. CASE /\ S \in {"FINISH_PROGRAM_1", "FINISH_PROGRAM_2"}
           /\ S' \in {"FINISH_PROGRAM_1", "FINISH_PROGRAM_2"}
  BY <1>5, StatesParted DEF CountInv, Counted
<1> QED
  BY <1>1, <1>2, <1>3, <1>4, <1>5

LEMMA CountStays ==
    ASSUME CountInv, NEW stall \in BOOLEAN,
           \/ UNCHANGED vars
           \/ \E p \in Programs : StartProgram(p)
           \/ FetchProgram \/ PrepareProgram1 \/ Decode \/ UpdateApu
           \/ FinishProgram1(stall) \/ FinishProgram2 \/ Wait(stall)
    PROVE  CountInv'
<1>1. CASE UNCHANGED vars
  BY <1>1, CountUnchanged DEF vars, loops, fetch, history
<1>2. CASE \E p \in Programs : StartProgram(p)
  BY <1>2, CountUnchanged DEF StartProgram, loops, history
<1>3. CASE FetchProgram
  BY <1>3, CountUnchanged DEF FetchProgram, fetch, history, Before
<1>4. CASE PrepareProgram1
  BY <1>4, CountUnchanged DEF PrepareProgram1, LoadFormulas, fetch, history, Before
<1>5. CASE Decode
  BY <1>5, CountUnchanged DEF Decode, loops, fetch, history, Reading
<1>6. CASE UpdateApu
  BY <1>6, CountUnchanged DEF UpdateApu, loops, fetch, history, Moving
<1>7. CASE FinishProgram1(stall)
  BY <1>7, CountUnchanged DEF FinishProgram1, fetch, history
<1>8. CASE FinishProgram2
  BY <1>8, CountUnchanged DEF FinishProgram2, loops, fetch, history
<1>9. CASE Wait(stall)
  BY <1>9, CountUnchanged DEF Wait, loops, fetch, history
<1> QED
  BY <1>1, <1>2, <1>3, <1>4, <1>5, <1>6, <1>7, <1>8, <1>9

(* The first instruction is the program's first: nothing is reached yet.   *)
LEMMA CountPrepareProgram2 == ASSUME Inv, CountInv, PrepareProgram2 PROVE CountInv'
<1> SUFFICES ASSUME Regular(program)' PROVE Counted'
  BY DEF CountInv
<1>1. /\ S = "PREPARE_PROGRAM_2" /\ S' = "DECODE"
      /\ UNCHANGED <<pc, program, pushed, loop_stack>>
  BY DEF PrepareProgram2, LoadFormulas, loops, fetch, history
<1>2. loop_stack = loop_stack'
  BY <1>1
<1>3. pc = program.start /\ program \in Programs /\ loop_stack \in [Depths -> Level]
  BY <1>1 DEF Inv, PlaceInv, TypeOK, Level
<1>4. Regular(program) /\ Counted
  BY <1>1 DEF CountInv
<1>5. ASSUME NEW p \in DOMAIN program.code, program.code[p].type # "LOOP"
      PROVE  pushed[p] = Reached(program, p, pc, loop_stack)
  <2>1. pushed[p] = 0
    BY <1>1, <1>4, <1>5 DEF Counted, Before
  <2>2. Reached(program, p, program.start, loop_stack) = 0
    BY <1>3, ReachedEdges
  <2> QED
    BY <1>3, <2>1, <2>2
<1>6. S' \in Reading
  BY <1>1 DEF Reading
<1> QED
  BY <1>1, <1>5, <1>6, StatesParted DEF Counted

(* The next pc is the place, or the end: there everything is reached.      *)
LEMMA CountUpdatePc == ASSUME Inv, CountInv, UpdatePc PROVE CountInv'
<1> SUFFICES ASSUME Regular(program)' PROVE Counted'
  BY DEF CountInv
<1>1. /\ S = "UPDATE_PC" /\ pc' = NextPc
      /\ S' = (IF pc' >= program_end_pc THEN "FINISH_PROGRAM_1" ELSE "DECODE")
      /\ UNCHANGED <<program, pushed, loop_stack>>
  BY DEF UpdatePc, fetch, history, NextPc
<1>2. /\ program \in Programs /\ loop_stack \in [Depths -> Level]
      /\ NextPc \in program.start .. program.end /\ program_end_pc = program.end
  BY <1>1 DEF Inv, PlaceInv, TypeOK, Level, Moving
<1>3. program.start \in Nat /\ program.end \in Nat
  BY <1>2, ProgramShape
<1>4. Regular(program) /\ Counted
  BY <1>1 DEF CountInv
<1>5. ASSUME NEW p \in DOMAIN program.code, program.code[p].type # "LOOP"
      PROVE  /\ pushed[p] = Reached(program, p, NextPc, loop_stack)
             /\ NextPc >= program.end => pushed[p] = IterationsOf(program, p)
  <2>1. pushed[p] = Reached(program, p, NextPc, loop_stack)
    BY <1>1, <1>4, <1>5 DEF Counted, Moving
  <2>2. Reached(program, p, program.end, loop_stack) = IterationsOf(program, p)
    BY <1>2, ReachedEdges
  <2>3. NextPc >= program.end => NextPc = program.end
    BY <1>2, <1>3
  <2> QED
    BY <2>1, <2>2, <2>3
<1>6. CASE NextPc >= program.end
  <2>1. S' \in {"FINISH_PROGRAM_1", "FINISH_PROGRAM_2"}
    BY <1>1, <1>2, <1>6
  <2> QED
    BY <1>1, <1>5, <1>6, <2>1, StatesParted DEF Counted
<1>7. CASE ~(NextPc >= program.end)
  <2>1. S' \in Reading
    BY <1>1, <1>2, <1>7 DEF Reading
  <2> QED
    BY <1>1, <1>5, <2>1, StatesParted DEF Counted
<1> QED
  BY <1>6, <1>7

(* The chunk of the machine is that of its innermost level.                *)
LEMMA ChunkIs == Chunk = ChunkOf(Innermost)
  BY DEF Chunk, ChunkOf, LastChunk, loop_cur_remaining_iterations

(* A push counts its chunk, which never wraps: no more is counted than the *)
(* program has.                                                            *)
LEMMA CountInsertToQueue ==
    ASSUME Inv, CountInv, NEW stall \in BOOLEAN, InsertToQueue(stall)
    PROVE  CountInv'
<1> SUFFICES ASSUME Regular(program)' PROVE Counted'
  BY DEF CountInv
<1>1. /\ S = "INSERT_TO_QUEUE" /\ S' = "UPDATE_PC"
      /\ pushed' = [pushed EXCEPT ![pc] = (@ + Chunk) % WORDS]
      /\ UNCHANGED <<pc, program, loop_stack, loop_cur_depth, jump_amount>>
  BY DEF InsertToQueue, loops, fetch
<1>2. /\ program \in Programs /\ loop_stack \in [Depths -> Level] /\ loop_cur_depth \in Int
      /\ pc \in DOMAIN program.code /\ program.code[pc].type # "LOOP" /\ jump_amount = 0
      /\ Nests(program, pc, loop_cur_depth, loop_stack)
      /\ pushed \in [DOMAIN program.code -> Word]
  BY <1>1, ControlAssumption
     DEF Inv, PlaceInv, TypeOK, Level, Reading, Moving, Instruction, ControlAssumption
<1>3. Regular(program) /\ Counted
  BY <1>1 DEF CountInv
<1>4. /\ pc \in Int /\ Encoded(program) /\ WellNested(program)
  <2>1. DOMAIN program.code = program.start .. program.end - 1 /\ program.start \in Nat
        /\ program.end \in Nat
    BY <1>2, ProgramShape
  <2> QED
    BY <1>2, <2>1, ProgramShape
<1>5. NextPc' = pc + 1 /\ S' \in Moving
  BY <1>1, <1>2, <1>4 DEF NextPc, Moving
<1>6. AroundOf(program, pc) # {} /\ IterationsOf(program, pc) < WORDS
  BY <1>2, <1>3 DEF Regular
<1>7. loop_cur_depth = N(program, pc) - 1 /\ top = N(program, pc) - 1
  <2>1. IsFiniteSet(AroundOf(program, pc)) /\ N(program, pc) \in Nat
    BY <1>4, AroundFinite DEF N
  <2>2. N(program, pc) # 0
    BY <1>6, <2>1, FS_EmptySet DEF N
  <2>3. loop_cur_depth + 1 = N(program, pc)
    BY <1>2 DEF Nests, N
  <2>4. PICK d \in Nat : d = N(program, pc) - 1 /\ d \in 0 .. N(program, pc) - 1
    BY <2>1, <2>2
  <2>5. d \in Depths
    BY <1>2, <1>4, <2>4, CommonShape
  <2>6. loop_cur_depth = d
    BY <1>2, <2>1, <2>3, <2>4
  <2> QED
    BY <2>4, <2>5, <2>6, DepthsShape DEF top
<1>8. Chunk = ChunkOf(loop_stack[N(program, pc) - 1])
  BY <1>7, ChunkIs DEF Innermost
<1>9. Nests(program, pc + 1, loop_cur_depth, loop_stack)
  BY <1>2, <1>4, AroundPush DEF Nests
<1>10. ASSUME NEW p \in DOMAIN program.code, program.code[p].type # "LOOP"
       PROVE  pushed'[p] = Reached(program, p, pc + 1, loop_stack)
  <2>1. pushed[p] = Reached(program, p, pc, loop_stack)
    BY <1>1, <1>3, <1>10 DEF Counted, Reading
  <2>2. CASE p # pc
    <3>1. Reached(program, p, pc + 1, loop_stack) = Reached(program, p, pc, loop_stack)
      BY <1>2, <1>10, <2>2, ReachedPush
    <3> QED
      BY <1>1, <1>2, <2>1, <2>2, <3>1
  <2>3. CASE p = pc
    <3>1. Reached(program, pc, pc + 1, loop_stack) = Reached(program, pc, pc, loop_stack) + Chunk
      BY <1>2, <1>6, <1>8, ReachedPush
    <3>2. PICK q \in Int : q = pc + 1
      BY <1>4
    <3>3. /\ Reached(program, pc, q, loop_stack) \in Nat /\ IterationsOf(program, pc) \in Nat
          /\ Reached(program, pc, q, loop_stack) <= IterationsOf(program, pc)
      BY <1>2, <1>4, <1>9, <3>2, ReachedBound
    <3>4. PICK r \in Nat, w \in Nat \ {0} :
             r = Reached(program, pc, pc + 1, loop_stack) /\ w = WORDS /\ r < w
      BY <1>6, <3>2, <3>3, WordShape
    <3>5. r % w = r
      BY <3>4
    <3>6. pushed'[pc] = (pushed[pc] + Chunk) % WORDS
      BY <1>1, <1>2
    <3> QED
      BY <2>1, <2>3, <3>1, <3>4, <3>5, <3>6
  <2> QED
    BY <2>2, <2>3
<1> QED
  BY <1>1, <1>5, <1>10, StatesParted DEF Counted

(* A loop that starts counts nothing.                                      *)
LEMMA CountStartNewLoop == ASSUME Inv, CountInv, StartNewLoop PROVE CountInv'
<1> SUFFICES ASSUME Regular(program)' PROVE Counted'
  BY DEF CountInv
<1> DEFINE level == [value |-> 0,
                     total |-> program.loops[Instruction.name].iteration_count,
                     jump |-> program.loops[Instruction.name].jump_amount,
                     independent |-> Instruction.is_independent,
                     name |-> Instruction.name]
           d == loop_cur_depth_plus_one
<1>1. /\ S = "START_NEW_LOOP" /\ S' = "UPDATE_APU"
      /\ loop_stack' = [loop_stack EXCEPT ![d] = level]
      /\ UNCHANGED <<pc, program, pushed, jump_amount>>
  BY DEF StartNewLoop, fetch, history
<1>2. /\ program \in Programs /\ loop_stack \in [Depths -> Level] /\ loop_cur_depth \in Int
      /\ pc \in StartsOf(program) /\ jump_amount = 0
      /\ Nests(program, pc, loop_cur_depth, loop_stack)
  BY <1>1, ControlAssumption
     DEF Inv, PlaceInv, TypeOK, Level, Reading, Moving, ControlAssumption
<1>3. Regular(program) /\ Counted
  BY <1>1 DEF CountInv
<1>4. Encoded(program) /\ WellNested(program) /\ pc \in Int
  BY <1>2, ProgramShape, LoopShape
<1>5. level \in Level /\ level.value = 0
  <2>1. /\ Instruction.name \in Depths /\ Instruction.is_independent \in BOOLEAN
        /\ HeaderOf(program, pc) = program.loops[Instruction.name]
    BY <1>2, <1>4 DEF Encoded, StartsOf, Instruction, HeaderOf
  <2>2. /\ HeaderOf(program, pc).iteration_count \in Word
        /\ HeaderOf(program, pc).jump_amount \in Nat
    BY <1>2, <1>4, LoopShape
  <2> QED
    BY <2>1, <2>2, StartShape DEF Level
<1>6. d = N(program, pc)
  <2>1. N(program, pc) < LOOP_CNT /\ N(program, pc) \in Nat
    BY <1>2, <1>4, AroundStart, AroundFinite DEF N
  <2>2. loop_cur_depth + 1 = N(program, pc)
    BY <1>2 DEF Nests, N
  <2> QED
    BY <2>1, <2>2, DepthsShape DEF loop_cur_depth_plus_one
<1>7. NextPc' = pc + 1 /\ S' \in Moving
  BY <1>1, <1>2, <1>4 DEF NextPc, Moving
<1> HIDE DEF level, d
<1>8. ASSUME NEW p \in DOMAIN program.code, program.code[p].type # "LOOP"
      PROVE  pushed[p] = Reached(program, p, pc + 1, loop_stack')
  <2>1. pushed[p] = Reached(program, p, pc, loop_stack)
    BY <1>1, <1>3, <1>8 DEF Counted, Reading
  <2>2. Reached(program, p, pc + 1, [loop_stack EXCEPT ![N(program, pc)] = level])
          = Reached(program, p, pc, loop_stack)
    BY <1>2, <1>5, <1>8, ReachedStart
  <2> QED
    BY <1>1, <1>6, <2>1, <2>2
<1> QED
  BY <1>1, <1>7, <1>8, StatesParted DEF Counted

(* The chunk a loop ends with is all that it had left.                     *)
LEMMA LastChunkIs ==
    ASSUME TypeOK, Innermost.value < Innermost.total
    PROVE  /\ (Innermost.independent /\ LastChunk) \/ loop_cur_remaining_iterations = 1
                => Innermost.value + Chunk = Innermost.total
           /\ ~((Innermost.independent /\ LastChunk) \/ loop_cur_remaining_iterations = 1)
                => (Innermost.value + Chunk) % WORDS = Innermost.value + Chunk
<1>1. /\ loop_cur_remaining_iterations = Innermost.total - Innermost.value
      /\ ~((Innermost.independent /\ LastChunk) \/ loop_cur_remaining_iterations = 1)
           => (Innermost.value + Chunk) % WORDS = Innermost.value + Chunk
  BY RemainingIterations
<1>2. Innermost.value \in Word /\ Innermost.total \in Word
  <2>1. top \in Depths
    BY ChunkTyped
  <2> QED
    BY <2>1 DEF TypeOK, Innermost
<1>3. PICK v \in Nat, t \in Nat : v = Innermost.value /\ t = Innermost.total
  BY <1>2, WordShape
<1>4. SUPERSCALAR_WIDTH \in Nat \ {0}
  BY WordShape
<1>5. ASSUME (Innermost.independent /\ LastChunk) \/ loop_cur_remaining_iterations = 1
      PROVE  Chunk = loop_cur_remaining_iterations
  <2>1. CASE loop_cur_remaining_iterations = 1
    <3>1. LastChunk
      BY <1>4, <2>1 DEF LastChunk
    <3> QED
      BY <2>1, <3>1 DEF Chunk
  <2>2. CASE Innermost.independent /\ LastChunk
    BY <2>2 DEF Chunk
  <2> QED
    BY <1>5, <2>1, <2>2
<1> QED
  BY <1>1, <1>3, <1>5

(* The end of a loop counts nothing: it moves what its chunk has passed to *)
(* its level, or to the loop around it.                                    *)
LEMMA CountIncrementLoop == ASSUME Inv, CountInv, IncrementLoop PROVE CountInv'
<1> SUFFICES ASSUME Regular(program)' PROVE Counted'
  BY DEF CountInv
<1> DEFINE level == [Innermost EXCEPT !.value = (Innermost.value + Chunk) % WORDS]
           ended == (Innermost.independent /\ LastChunk) \/ loop_cur_remaining_iterations = 1
<1>1. /\ S = "INCREMENT_LOOP" /\ S' = "UPDATE_APU"
      /\ loop_stack' = [loop_stack EXCEPT ![top].value = (@ + Chunk) % WORDS]
      /\ IF ended THEN jump_amount' = jump_amount ELSE jump_amount' = Innermost.jump
      /\ UNCHANGED <<pc, program, pushed>>
  BY DEF IncrementLoop, fetch
<1>2. /\ TypeOK /\ program \in Programs /\ loop_stack \in [Depths -> Level]
      /\ loop_cur_depth \in Int /\ pc \in DOMAIN program.code /\ jump_amount = 0
      /\ program.code[pc].type = "LOOP" /\ pc \notin StartsOf(program)
      /\ Nests(program, pc, loop_cur_depth, loop_stack)
  <2>1. TypeOK /\ PlaceInv
    BY DEF Inv
  <2>2. /\ pc \in DOMAIN program.code /\ jump_amount = 0
        /\ program.code[pc].type = "LOOP" /\ pc \notin StartsOf(program)
        /\ Nests(program, pc, loop_cur_depth, loop_stack)
    BY <1>1, <2>1 DEF PlaceInv, Reading, Moving, Instruction
  <2>3. /\ program \in Programs /\ loop_stack \in [Depths -> Level] /\ loop_cur_depth \in Int
    BY <2>1, ControlAssumption DEF TypeOK, Level, ControlAssumption
  <2> QED
    BY <2>1, <2>2, <2>3
<1>3. Regular(program) /\ Counted
  BY <1>1 DEF CountInv
<1>4. Encoded(program) /\ WellNested(program)
  BY <1>2, ProgramShape
<1>5. PICK s \in StartsOf(program) : EndOf(program, s) = pc
  BY <1>2, <1>4 DEF WellNested
<1>6. /\ s \in Int /\ pc \in Int /\ pc = s + HeaderOf(program, s).jump_amount
      /\ HeaderOf(program, s).jump_amount \in Nat
  BY <1>4, <1>5, LoopShape DEF EndOf
<1>7. /\ top = N(program, s) /\ N(program, s) \in Depths
      /\ HoldsLoop(program, s, loop_stack[N(program, s)])
      /\ Innermost = loop_stack[N(program, s)]
  BY <1>2, <1>4, <1>5, NestsTop DEF top, Innermost, N
<1>8. /\ Innermost \in Level /\ Innermost.value < Innermost.total
      /\ Innermost.total = HeaderOf(program, s).iteration_count
      /\ Innermost.jump = HeaderOf(program, s).jump_amount
  BY <1>2, <1>7 DEF HoldsLoop
<1>9. /\ ended => Innermost.value + Chunk = Innermost.total
      /\ ~ended => (Innermost.value + Chunk) % WORDS = Innermost.value + Chunk
  BY <1>2, <1>8, LastChunkIs
<1>10. level \in Level /\ level.value = (Innermost.value + Chunk) % WORDS
  <2>1. (Innermost.value + Chunk) % WORDS \in Word
    BY <1>2, <1>8, RemainingIterations
  <2> QED
    BY <1>8, <2>1 DEF Level
<1>11. loop_stack' = [loop_stack EXCEPT ![N(program, s)] = level]
  BY <1>1, <1>2, <1>7
<1>12. Chunk = ChunkOf(loop_stack[N(program, s)])
  BY <1>7, ChunkIs
<1>13. N(program, s) # 0 => ~loop_stack[N(program, s) - 1].independent
  <2>1. ASSUME N(program, s) # 0 PROVE ~loop_stack[N(program, s) - 1].independent
    <3>1. PICK t \in AroundOf(program, s) : N(program, t) = N(program, s) - 1
      <4>1. N(program, s) \in Nat
        BY <1>7, DepthsShape
      <4>2. PICK d \in Nat : d = N(program, s) - 1 /\ d \in 0 .. N(program, s) - 1
        BY <2>1, <4>1
      <4>3. \A x \in 0 .. N(program, s) - 1 : \E t \in AroundOf(program, s) : N(program, t) = x
        BY <1>2, <1>6, CommonShape
      <4> QED
        BY <4>2, <4>3
    <3>2. AroundOf(program, pc) = AroundOf(program, s) \cup {s}
      BY <1>4, <1>5, AroundEnd
    <3>3. HoldsLoop(program, t, loop_stack[N(program, t)])
      BY <1>2, <3>1, <3>2 DEF Nests, N
    <3>4. s \in DOMAIN program.code
      BY DEF StartsOf
    <3>5. ~program.code[t].is_independent
      BY <1>3, <1>5, <3>1, <3>4 DEF Regular
    <3> QED
      BY <3>1, <3>3, <3>5 DEF HoldsLoop
  <2> QED
    BY <2>1
<1>14. S' \in Moving
  BY <1>1 DEF Moving
<1> HIDE DEF level, ended
<1>15. ASSUME NEW p \in DOMAIN program.code, program.code[p].type # "LOOP"
       PROVE  pushed[p] = Reached(program, p, EndOf(program, s), loop_stack)
  BY <1>1, <1>3, <1>5, <1>15 DEF Counted, Reading
<1>16. CASE ended
  <2>1. NextPc' = EndOf(program, s) + 1
    BY <1>1, <1>2, <1>5, <1>6, <1>16 DEF NextPc
  <2>2. NextValue(loop_stack[N(program, s)]) = HeaderOf(program, s).iteration_count
    BY <1>7, <1>8, <1>9, <1>12, <1>16 DEF NextValue
  <2>3. ASSUME NEW p \in DOMAIN program.code, program.code[p].type # "LOOP"
        PROVE  pushed[p] = Reached(program, p, EndOf(program, s) + 1, loop_stack')
    <3>1. PICK l \in Level, stack \in [Depths -> Level] : l = level /\ stack = loop_stack
      BY <1>2, <1>10
    <3>2. Completes(program, s, stack, l, EndOf(program, s) + 1,
                    [stack EXCEPT ![N(program, s)] = l])
      BY <1>13, <2>2, <3>1 DEF Completes
    <3>3. Reached(program, p, EndOf(program, s) + 1, [stack EXCEPT ![N(program, s)] = l])
            = Reached(program, p, EndOf(program, s), stack)
      BY ONLY <1>2, s \in StartsOf(program), p \in DOMAIN program.code,
         l \in Level, stack \in [Depths -> Level], <2>3, <1>2, <3>2, ReachedEnd
    <3> QED
      BY <1>11, <1>15, <2>3, <3>1, <3>3
  <2> QED
    BY <1>1, <1>14, <2>1, <2>3, StatesParted DEF Counted
<1>17. CASE ~ended
  <2>1. NextPc' = s + 1
    BY <1>1, <1>6, <1>8, <1>17 DEF NextPc
  <2>2. level.value = NextValue(loop_stack[N(program, s)])
    BY <1>7, <1>9, <1>10, <1>12, <1>17 DEF NextValue
  <2>3. ASSUME NEW p \in DOMAIN program.code, program.code[p].type # "LOOP"
        PROVE  pushed[p] = Reached(program, p, s + 1, loop_stack')
    <3>1. PICK l \in Level, stack \in [Depths -> Level] : l = level /\ stack = loop_stack
      BY <1>2, <1>10
    <3>2. Continues(program, s, stack, l, s + 1, [stack EXCEPT ![N(program, s)] = l])
      BY <2>2, <3>1 DEF Continues
    <3>3. Reached(program, p, s + 1, [stack EXCEPT ![N(program, s)] = l])
            = Reached(program, p, EndOf(program, s), stack)
      BY ONLY <1>2, s \in StartsOf(program), p \in DOMAIN program.code,
         l \in Level, stack \in [Depths -> Level], <2>3, <1>2, <3>2, ReachedAgain
    <3> QED
      BY <1>11, <1>15, <2>3, <3>1, <3>3
  <2> QED
    BY <1>1, <1>14, <2>1, <2>3, StatesParted DEF Counted
<1> QED
  BY <1>16, <1>17

(* Every step keeps the counts.                                            *)
LEMMA CountStep == Inv /\ CountInv /\ [Next]_vars => CountInv'
<1> SUFFICES ASSUME Inv, CountInv, [Next]_vars PROVE CountInv'
  OBVIOUS
<1>1. ASSUME NEW stall \in BOOLEAN, Edge(stall) PROVE CountInv'
  BY <1>1, CountStays, CountPrepareProgram0, CountPrepareProgram2, CountStartNewLoop,
     CountIncrementLoop, CountInsertToQueue, CountUpdatePc DEF Edge
<1>2. CASE UNCHANGED vars
  <2>1. PICK stall \in BOOLEAN : TRUE
    OBVIOUS
  <2> QED
    BY <1>2, <2>1, CountStays
<1>3. CASE \E p \in Programs : StartProgram(p)
  <2>1. PICK stall \in BOOLEAN : TRUE
    OBVIOUS
  <2> QED
    BY <1>3, <2>1, CountStays
<1> QED
  BY <1>1, <1>2, <1>3, CountReset DEF Next

(* What the counts say of the property.                                    *)
LEMMA CountedIs == Inv /\ CountInv => (Regular(program) => EveryIterationOnce)
<1> SUFFICES ASSUME Inv, Counted, NEW p \in DOMAIN pushed, program.code[p].type # "LOOP"
             PROVE  /\ pushed[p] <= Iterations(p)
                    /\ S \in {"FINISH_PROGRAM_1", "FINISH_PROGRAM_2"} => pushed[p] = Iterations(p)
  BY DEF CountInv, EveryIterationOnce
<1>1. /\ program \in Programs /\ loop_stack \in [Depths -> Level] /\ S \in States
      /\ p \in DOMAIN program.code
  BY DEF Inv, TypeOK, Level
<1>2. /\ Encoded(program) /\ WellNested(program)
      /\ DOMAIN program.code = program.start .. program.end - 1
      /\ program.start \in Nat /\ program.end \in Nat
  BY <1>1, ProgramShape
<1>3. p \in Int
  BY <1>1, <1>2
<1>4. IterationsOf(program, p) \in Nat
  <2>1. AroundOf(program, program.start) = {} /\ Cardinality(AroundOf(program, program.start)) = 0
    BY <1>2, AroundNothing
  <2>2. PICK depth \in Int : depth + 1 = 0
    <3>1. -1 \in Int /\ -1 + 1 = 0
      OBVIOUS
    <3> WITNESS -1 \in Int
    <3> QED
      BY <3>1
  <2>3. Nests(program, program.start, depth, loop_stack) /\ program.start \in Int
    BY <1>2, <2>1, <2>2 DEF Nests
  <2> QED
    BY <1>1, <1>3, <2>3, ReachedBound
<1>5. CASE S \in Before
  <2>1. pushed[p] = 0
    BY <1>1, <1>5 DEF Counted
  <2> QED
    BY <1>4, <1>5, <2>1, StatesParted DEF Iterations
<1>6. CASE S \in Reading
  <2>1. Nests(program, pc, loop_cur_depth, loop_stack) /\ pc \in Int
    BY <1>2, <1>6 DEF Inv, PlaceInv
  <2>2. Reached(program, p, pc, loop_stack) <= IterationsOf(program, p)
    BY <1>1, <1>3, <2>1, ReachedBound
  <2> QED
    BY <1>1, <1>6, <2>2 DEF Counted, Iterations, Reading
<1>7. CASE S \in Moving
  <2>1. Nests(program, NextPc, loop_cur_depth, loop_stack) /\ NextPc \in Int
    BY <1>2, <1>7 DEF Inv, PlaceInv
  <2>2. Reached(program, p, NextPc, loop_stack) <= IterationsOf(program, p)
    BY <1>1, <1>3, <2>1, ReachedBound
  <2> QED
    BY <1>1, <1>7, <2>2 DEF Counted, Iterations, Moving
<1>8. CASE S \in {"FINISH_PROGRAM_1", "FINISH_PROGRAM_2"}
  BY <1>1, <1>4, <1>8 DEF Counted, Iterations
<1> QED
  BY <1>1, <1>5, <1>6, <1>7, <1>8 DEF States, Before, Reading, Moving

(* An instruction is pushed once for every iteration of the loops around   *)
(* it, never too often, and by the end of the program exactly so, however  *)
(* the counts divide by SUPERSCALAR_WIDTH, if independent loops are        *)
(* innermost (control_unit.sv:136, 139-148, 172-176).                      *)
THEOREM IterationsOnce == Spec => [](Regular(program) => EveryIterationOnce)
<1>1. Init => CountInv
  BY CountInit
<1> QED
  BY <1>1, CountStep, CountedIs, InvAlways, PTL DEF Spec
=============================================================================
