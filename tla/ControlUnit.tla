---------------------------- MODULE ControlUnit ----------------------------
(***************************************************************************)
(* core/ControlUnit/control_unit.sv: the state machine that fetches a      *)
(* program, retires its loop instructions and pushes every other one, with *)
(* the number of copies and the addresses, to the instruction queue.       *)
(*                                                                         *)
(* One action per state of the machine, each one clock edge.  The program  *)
(* memory and the header memory are what the host uploaded: a program is a *)
(* record of its code (pc to instruction), the iteration count and jump of *)
(* each loop, and for each APU the coefficients and the constant of its    *)
(* address formula.  The program execution queue is the smplfifo of        *)
(* top.sv:110, here the sequence it implements.                            *)
(***************************************************************************)
EXTENDS Integers, Sequences, FiniteSets

CONSTANTS Programs,          \* the programs the host may start
          SUPERSCALAR_WIDTH, \* 1 << LOG_SUPERSCALAR_WIDTH, 16 in top.sv
          LOOP_CNT, APU_CNT, \* 8 and 8
          WORDS,             \* 2^18: addresses and counts are 18 bits wide
          MaxPrograms,       \* bound on the programs started
          MaxResets          \* bound on the resets after the first

ASSUME ControlAssumption ==
    /\ SUPERSCALAR_WIDTH \in Nat \ {0} /\ LOOP_CNT \in Nat \ {0}
    /\ APU_CNT \in Nat \ {0} /\ WORDS \in Nat
    /\ SUPERSCALAR_WIDTH < WORDS      \* a chunk fits an 18-bit delta
    /\ MaxPrograms \in Nat /\ MaxResets \in Nat

VARIABLES
    S, pc, program_end_pc,
    loop_cur_depth,          \* -1 when no loop is running
    loop_stack,              \* value, total, jump, independent, name per depth
    jump_amount, apu_in_loop_var, apu_in_di,
    apu_linear_formulas,     \* the coefficients of each APU
    apu_address_registers,
    queue,                   \* the registers of the push port
    execution_queue_read_enable,
    execution_queue,
    program,                 \* the program in execution (any, before the first)
    started, resets,         \* counters of the environment
    \* history variables
    pushed,                  \* copies pushed so far of the instruction at each pc,
                             \* modulo WORDS
    loop_ended               \* a loop of this program has run to its end

loops == <<loop_cur_depth, loop_stack, jump_amount>>
apu == <<apu_in_loop_var, apu_in_di, apu_linear_formulas, apu_address_registers>>
fetch == <<program_end_pc, execution_queue, program>>
environment == <<started, resets>>
history == <<pushed, loop_ended>>
vars == <<S, pc, loops, apu, queue, execution_queue_read_enable, fetch,
          environment, history>>

-----------------------------------------------------------------------------
Depths == 0 .. LOOP_CNT - 1
APUs == 0 .. APU_CNT - 1
NoFormula == [name \in Depths |-> 0]
NoLoop == [value |-> 0, total |-> 0, jump |-> 0, independent |-> FALSE, name |-> 0]
Silent == [we |-> FALSE, type |-> "LOAD_STORE", copy_count |-> 0,
           cache_addr |-> 0, d_cache_addr |-> 0,
           main_mem_addr |-> 0, d_main_mem_addr |-> 0]

(* The loops of a program's text: the loop that starts at s has its body   *)
(* and its end in the jump_amount instructions behind s.                   *)
Word == 0 .. WORDS - 1
StartsOf(prog) == {s \in DOMAIN prog.code :
                     prog.code[s].type = "LOOP" /\ prog.code[s].is_new_loop}
HeaderOf(prog, s) == prog.loops[prog.code[s].name]
EndOf(prog, s) == s + HeaderOf(prog, s).jump_amount
AroundOf(prog, p) == {s \in StartsOf(prog) : s < p /\ p <= EndOf(prog, s)}

(* What the fields of the encoded program can hold.                        *)
Encoded(prog) ==
    /\ prog.start \in Nat /\ prog.end \in Nat /\ prog.start < prog.end
    /\ DOMAIN prog.code = prog.start .. prog.end - 1
    /\ \A p \in DOMAIN prog.code :
          LET instruction == prog.code[p]
          IN  IF instruction.type = "LOOP"
              THEN /\ instruction.is_new_loop \in BOOLEAN
                   /\ instruction.is_independent \in BOOLEAN
                   /\ instruction.name \in Depths
              ELSE /\ instruction.type \in {"LOAD_STORE", "RAM", "ARITHMETIC"}
                   /\ instruction.cache_apu \in APUs /\ instruction.main_apu \in APUs
    /\ prog.loops \in [Depths -> [iteration_count : Word, jump_amount : Nat]]
    /\ prog.formulas \in [APUs -> [constant : Word, coefficients : [Depths -> Word]]]

(* Loops start and end in pairs that nest, at most LOOP_CNT deep, and none *)
(* of them is empty: neither of its iterations nor of its end.             *)
WellNested(prog) ==
    /\ \A s \in StartsOf(prog) :
          /\ HeaderOf(prog, s).iteration_count > 0 /\ HeaderOf(prog, s).jump_amount > 0
          /\ EndOf(prog, s) \in DOMAIN prog.code \ StartsOf(prog)
          /\ prog.code[EndOf(prog, s)].type = "LOOP"
          /\ Cardinality(AroundOf(prog, s)) < LOOP_CNT
    /\ \A e \in DOMAIN prog.code \ StartsOf(prog) :
          prog.code[e].type = "LOOP" => \E s \in StartsOf(prog) : EndOf(prog, s) = e
    /\ \A s, t \in StartsOf(prog) :
          s < t /\ t <= EndOf(prog, s) => EndOf(prog, t) < EndOf(prog, s)

(* A program without empty loops, as assembler.py encodes it.              *)
ASSUME NestingAssumption ==
    Programs # {} /\ \A prog \in Programs : Encoded(prog) /\ WellNested(prog)

Instruction == program.code[pc]
top == loop_cur_depth % LOOP_CNT   \* `LOOP_CUR_DEPTH: the low bits
Innermost == loop_stack[top]

(* Variants of the code, which the properties must tell from it: each      *)
(* operator named Variant... stands for the definition that follows it.    *)
VariantDepthPlusOne == (loop_cur_depth + 1) % 2
loop_cur_depth_plus_one == (loop_cur_depth + 1) % LOOP_CNT
loop_cur_remaining_iterations == (Innermost.total - Innermost.value) % WORDS

VariantLastChunk == loop_cur_remaining_iterations = SUPERSCALAR_WIDTH
LastChunk == loop_cur_remaining_iterations <= SUPERSCALAR_WIDTH
VariantUncappedChunk ==
    IF Innermost.independent THEN loop_cur_remaining_iterations ELSE 1
VariantFullChunk == IF Innermost.independent THEN SUPERSCALAR_WIDTH ELSE 1
Chunk == IF ~Innermost.independent THEN 1
         ELSE IF LastChunk THEN loop_cur_remaining_iterations
         ELSE SUPERSCALAR_WIDTH

VariantDaddrDi(k, loop_var) == \* the packed coefficients read from the other end
    apu_linear_formulas[k][LOOP_CNT - 1 - loop_var]
daddr_di(k, loop_var) == apu_linear_formulas[k][loop_var]

-----------------------------------------------------------------------------
Init == /\ S = "IDLE"
        /\ pc = 0 /\ program_end_pc = 0
        /\ loop_cur_depth = -1 /\ loop_stack = [d \in Depths |-> NoLoop]
        /\ jump_amount = 0 /\ apu_in_loop_var = 0 /\ apu_in_di = 0
        /\ apu_linear_formulas = [k \in APUs |-> NoFormula]
        /\ apu_address_registers = [k \in APUs |-> 0]
        /\ queue = Silent
        /\ execution_queue_read_enable = FALSE /\ execution_queue = << >>
        /\ program = CHOOSE p \in Programs : TRUE
        /\ started = 0 /\ resets = 0
        /\ pushed = [i \in DOMAIN program.code |-> 0] /\ loop_ended = FALSE

(* A reset leaves the independence flags and the addresses of the push     *)
(* port as they are.                                                       *)
Reset == /\ resets < MaxResets
         /\ resets' = resets + 1
         /\ S' = "IDLE"
         /\ pc' = 0 /\ program_end_pc' = 0
         /\ loop_cur_depth' = -1
         /\ loop_stack' = [d \in Depths |->
                             [NoLoop EXCEPT !.independent = loop_stack[d].independent]]
         /\ jump_amount' = 0 /\ apu_in_loop_var' = 0 /\ apu_in_di' = 0
         /\ apu_linear_formulas' = [k \in APUs |-> NoFormula]
         /\ apu_address_registers' = [k \in APUs |-> 0]
         /\ queue' = [queue EXCEPT !.we = FALSE, !.type = "LOAD_STORE", !.copy_count = 0]
         /\ execution_queue_read_enable' = FALSE /\ execution_queue' = << >>
         /\ UNCHANGED <<program, started>>
         /\ pushed' = [i \in DOMAIN program.code |-> 0] /\ loop_ended' = FALSE

(* The host starts a program: PacketReceiver writes the execution queue,   *)
(* between two edges of this machine.                                      *)
StartProgram(p) ==
    /\ started < MaxPrograms
    /\ started' = started + 1
    /\ execution_queue' = Append(execution_queue, p)
    /\ UNCHANGED <<S, pc, loops, apu, queue, execution_queue_read_enable,
                   program_end_pc, program, resets, history>>

-----------------------------------------------------------------------------
FetchProgram ==
    /\ S = "IDLE" /\ execution_queue # << >>
    /\ S' = "PREPARE_PROGRAM_0"
    /\ execution_queue_read_enable' = TRUE
    /\ UNCHANGED <<pc, loops, apu, queue, fetch, environment, history>>

(* The queue shows its head while it is being read.                        *)
PrepareProgram0 ==
    /\ S = "PREPARE_PROGRAM_0"
    /\ S' = "PREPARE_PROGRAM_1"
    /\ program' = Head(execution_queue)
    /\ execution_queue' = Tail(execution_queue)
    /\ pc' = program'.start /\ program_end_pc' = program'.end
    /\ execution_queue_read_enable' = FALSE
    /\ pushed' = [i \in DOMAIN program'.code |-> 0] /\ loop_ended' = FALSE
    /\ UNCHANGED <<loops, apu, queue, environment>>

(* A word of the header memory holds half of the formulas.                 *)
LoadFormulas(half) ==
    /\ apu_linear_formulas' = [k \in APUs |->
            IF k \in half THEN program.formulas[k].coefficients
            ELSE apu_linear_formulas[k]]
    /\ apu_address_registers' = [k \in APUs |->
            IF k \in half THEN program.formulas[k].constant
            ELSE apu_address_registers[k]]
    /\ execution_queue_read_enable' = FALSE
    /\ UNCHANGED <<pc, loops, apu_in_loop_var, apu_in_di, queue, fetch,
                   environment, history>>

FirstHalf == {k \in APUs : 2 * k < APU_CNT}

PrepareProgram1 == /\ S = "PREPARE_PROGRAM_1" /\ S' = "PREPARE_PROGRAM_2"
                   /\ LoadFormulas(FirstHalf)

PrepareProgram2 == /\ S = "PREPARE_PROGRAM_2" /\ S' = "DECODE"
                   /\ LoadFormulas(APUs \ FirstHalf)

Decode ==
    /\ S = "DECODE"
    /\ S' = IF Instruction.type # "LOOP" THEN "INSERT_TO_QUEUE"
            ELSE IF Instruction.is_new_loop THEN "START_NEW_LOOP" ELSE "INCREMENT_LOOP"
    /\ execution_queue_read_enable' = FALSE
    /\ UNCHANGED <<pc, loops, apu, queue, fetch, environment, history>>

StartNewLoop ==
    /\ S = "START_NEW_LOOP"
    /\ S' = "UPDATE_APU"
    /\ loop_cur_depth' = loop_cur_depth_plus_one
    /\ loop_stack' = [loop_stack EXCEPT ![loop_cur_depth_plus_one] =
            [value |-> 0,
             total |-> program.loops[Instruction.name].iteration_count,
             jump |-> program.loops[Instruction.name].jump_amount,
             independent |-> Instruction.is_independent,
             name |-> Instruction.name]]
    /\ execution_queue_read_enable' = FALSE
    /\ UNCHANGED <<pc, jump_amount, apu, queue, fetch, environment, history>>

IncrementLoop ==
    /\ S = "INCREMENT_LOOP"
    /\ S' = "UPDATE_APU"
    /\ loop_stack' = [loop_stack EXCEPT ![top].value = (@ + Chunk) % WORDS]
    /\ apu_in_loop_var' = Innermost.name
    /\ IF (Innermost.independent /\ LastChunk) \/ loop_cur_remaining_iterations = 1
       THEN /\ apu_in_di' = (-Innermost.total) % WORDS
            /\ loop_cur_depth' = loop_cur_depth - 1
            /\ loop_ended' = TRUE
            /\ UNCHANGED jump_amount
       ELSE /\ apu_in_di' = IF Innermost.independent THEN SUPERSCALAR_WIDTH ELSE 1
            /\ jump_amount' = Innermost.jump
            /\ UNCHANGED <<loop_cur_depth, loop_ended>>
    /\ execution_queue_read_enable' = FALSE
    /\ UNCHANGED <<pc, apu_linear_formulas, apu_address_registers, queue, fetch,
                   environment, pushed>>

UpdateApu ==
    /\ S = "UPDATE_APU"
    /\ S' = "UPDATE_PC"
    /\ apu_address_registers' = [k \in APUs |->
            (apu_address_registers[k] + apu_in_di * daddr_di(k, apu_in_loop_var)) % WORDS]
    /\ execution_queue_read_enable' = FALSE
    /\ UNCHANGED <<pc, loops, apu_in_loop_var, apu_in_di, apu_linear_formulas,
                   queue, fetch, environment, history>>

(* Only the address ports the instruction uses are written.  The strides   *)
(* are looked up with the depth of the innermost loop.                     *)
InsertToQueue(instr_queue_stall_push) ==
    /\ S = "INSERT_TO_QUEUE"
    /\ ~instr_queue_stall_push
    /\ S' = "UPDATE_PC"
    /\ LET cached == Instruction.type \in {"LOAD_STORE", "RAM"}
           main   == Instruction.type = "RAM"
       IN  queue' =
             [we |-> TRUE, type |-> Instruction.type, copy_count |-> Chunk,
              cache_addr |-> IF cached THEN apu_address_registers[Instruction.cache_apu]
                             ELSE queue.cache_addr,
              d_cache_addr |-> IF cached THEN daddr_di(Instruction.cache_apu, top)
                               ELSE queue.d_cache_addr,
              main_mem_addr |-> IF main THEN apu_address_registers[Instruction.main_apu]
                                ELSE queue.main_mem_addr,
              d_main_mem_addr |-> IF main THEN daddr_di(Instruction.main_apu, top)
                                  ELSE queue.d_main_mem_addr]
    /\ execution_queue_read_enable' = FALSE
    /\ pushed' = [pushed EXCEPT ![pc] = (@ + Chunk) % WORDS]
    /\ UNCHANGED <<pc, loops, apu, fetch, environment, loop_ended>>

VariantUpdatePc == \* the push port is left on
    /\ S = "UPDATE_PC"
    /\ pc' = pc + 1 - jump_amount
    /\ S' = IF pc' >= program_end_pc THEN "FINISH_PROGRAM_1" ELSE "DECODE"
    /\ jump_amount' = 0
    /\ execution_queue_read_enable' = FALSE
    /\ UNCHANGED <<loop_cur_depth, loop_stack, apu, queue, fetch, environment, history>>

UpdatePc ==
    /\ S = "UPDATE_PC"
    /\ pc' = pc + 1 - jump_amount
    /\ S' = IF pc' >= program_end_pc THEN "FINISH_PROGRAM_1" ELSE "DECODE"
    /\ jump_amount' = 0
    /\ queue' = [queue EXCEPT !.we = FALSE]
    /\ execution_queue_read_enable' = FALSE
    /\ UNCHANGED <<loop_cur_depth, loop_stack, apu, fetch, environment, history>>

FinishProgram1(instr_queue_stall_push) ==
    /\ S = "FINISH_PROGRAM_1"
    /\ ~instr_queue_stall_push
    /\ S' = "FINISH_PROGRAM_2"
    /\ queue' = [queue EXCEPT !.we = TRUE, !.type = "PROG_END"]
    /\ execution_queue_read_enable' = FALSE
    /\ UNCHANGED <<pc, loops, apu, fetch, environment, history>>

(* The return to IDLE is commented out: the machine stays here.            *)
FinishProgram2 ==
    /\ S = "FINISH_PROGRAM_2"
    /\ queue' = [queue EXCEPT !.we = FALSE]
    /\ execution_queue_read_enable' = FALSE
    /\ UNCHANGED <<S, pc, loops, apu, fetch, environment, history>>

(* An edge in a state that has to wait.                                    *)
Wait(instr_queue_stall_push) ==
    /\ \/ S = "IDLE" /\ execution_queue = << >>
       \/ S \in {"INSERT_TO_QUEUE", "FINISH_PROGRAM_1"} /\ instr_queue_stall_push
    /\ execution_queue_read_enable' = FALSE
    /\ UNCHANGED <<S, pc, loops, apu, queue, fetch, environment, history>>

Edge(instr_queue_stall_push) ==
    \/ FetchProgram
    \/ PrepareProgram0 \/ PrepareProgram1 \/ PrepareProgram2
    \/ Decode
    \/ StartNewLoop \/ IncrementLoop \/ UpdateApu
    \/ InsertToQueue(instr_queue_stall_push)
    \/ UpdatePc
    \/ FinishProgram1(instr_queue_stall_push) \/ FinishProgram2
    \/ Wait(instr_queue_stall_push)

Next == \/ Reset
        \/ \E p \in Programs : StartProgram(p)
        \/ \E stall \in BOOLEAN : Edge(stall)

(* The clock runs, and the instruction queue does not stall it forever.    *)
Spec == Init /\ [][Next]_vars /\ WF_vars(Edge(FALSE))

-----------------------------------------------------------------------------
States == {"IDLE", "PREPARE_PROGRAM_0", "PREPARE_PROGRAM_1", "PREPARE_PROGRAM_2",
           "DECODE", "START_NEW_LOOP", "INCREMENT_LOOP", "UPDATE_APU",
           "INSERT_TO_QUEUE", "UPDATE_PC", "FINISH_PROGRAM_1", "FINISH_PROGRAM_2"}

TypeOK == /\ S \in States
          /\ pc \in Nat /\ program_end_pc \in Nat
          /\ loop_cur_depth \in -1 .. LOOP_CNT - 1
          /\ loop_stack \in [Depths -> [value : Word, total : Word, jump : Nat,
                                        independent : BOOLEAN, name : Depths]]
          /\ jump_amount \in Nat
          /\ apu_in_loop_var \in Depths /\ apu_in_di \in Word
          /\ apu_linear_formulas \in [APUs -> [Depths -> Word]]
          /\ apu_address_registers \in [APUs -> Word]
          /\ queue \in [we : BOOLEAN,
                        type : {"LOAD_STORE", "RAM", "ARITHMETIC", "PROG_END"},
                        copy_count : 0 .. SUPERSCALAR_WIDTH,
                        cache_addr : Word, d_cache_addr : Word,
                        main_mem_addr : Word, d_main_mem_addr : Word]
          /\ execution_queue_read_enable \in BOOLEAN
          /\ execution_queue \in Seq(Programs) /\ Len(execution_queue) <= MaxPrograms
          /\ program \in Programs
          /\ started \in 0 .. MaxPrograms /\ resets \in 0 .. MaxResets
          /\ pushed \in [DOMAIN program.code -> Word]
          /\ loop_ended \in BOOLEAN

Header(s) == HeaderOf(program, s)
LoopsAround(p) == AroundOf(program, p)

(* How often an instruction runs: for each loop around it, outermost first,*)
(* as often as the loop itself, times its iterations.                      *)
LoopAt(prog, p, d) == CHOOSE s \in AroundOf(prog, p) : Cardinality(AroundOf(prog, s)) = d
IterationsOf(prog, p) ==
    LET depth == Cardinality(AroundOf(prog, p))
        count[n \in 0 .. depth] ==
            IF n = 0 THEN 1
            ELSE count[n - 1] * HeaderOf(prog, LoopAt(prog, p, n - 1)).iteration_count
    IN  count[depth]
Iterations(p) == IterationsOf(program, p)

(* Programs whose independent loops are innermost, as those of std are, and*)
(* whose instructions are in loops and run less often than a word counts.  *)
Regular(prog) ==
    \A p \in DOMAIN prog.code :
        /\ \A s \in AroundOf(prog, p) :
              p \in StartsOf(prog) => ~prog.code[s].is_independent
        /\ prog.code[p].type # "LOOP" =>
              AroundOf(prog, p) # {} /\ IterationsOf(prog, p) < WORDS

(* The instruction at each pc is pushed once for every iteration of the    *)
(* loops around it: never too often, and by the end of the program exactly *)
(* so, however the counts divide by SUPERSCALAR_WIDTH (control_unit.sv:136,*)
(* 139-148, 172-176 compute the same chunk three times).                   *)
EveryIterationOnce ==
    \A p \in DOMAIN pushed :
        program.code[p].type # "LOOP" /\ S # "IDLE" =>
            /\ pushed[p] <= Iterations(p)
            /\ S \in {"FINISH_PROGRAM_1", "FINISH_PROGRAM_2"} =>
                  pushed[p] = Iterations(p)

(* The loop stack is the nesting of the program text at pc, outermost loop *)
(* first, whatever loops came and ended before, up to LOOP_CNT levels; the *)
(* index of the next level is only LOG_LOOP_CNT bits wide                  *)
(* (control_unit.sv:71, 120-150).                                          *)
StackFollowsNesting ==
    S = "DECODE" =>
        /\ loop_cur_depth + 1 = Cardinality(LoopsAround(pc))
        /\ \A s \in LoopsAround(pc) :
              LET d == Cardinality(LoopsAround(s))
              IN  /\ loop_stack[d].name = program.code[s].name
                  /\ loop_stack[d].total = Header(s).iteration_count
                  /\ loop_stack[d].value < loop_stack[d].total

(* The address of copy i: the constant plus the coefficients times the     *)
(* loop variables.                                                         *)
Linear(k, i) ==
    LET formula == program.formulas[k]
        sum[n \in 0 .. loop_cur_depth + 1] == \* of the n outermost loops
            IF n = 0 THEN 0
            ELSE sum[n - 1] + formula.coefficients[loop_stack[n - 1].name]
                                 * loop_stack[n - 1].value
    IN  (formula.constant + sum[loop_cur_depth + 1]
           + i * formula.coefficients[Innermost.name]) % WORDS

(* README.md:183: the control unit takes care of address calculation as a  *)
(* linear function of the loop variables.  It holds in a first nest of     *)
(* loops only: a loop that ends takes its whole count back although its    *)
(* last chunk was never added (control_unit.sv:139-144), and a stride is   *)
(* looked up by depth, not by name (161-167).                              *)
AddressesLinear ==
    queue.we /\ queue.type \in {"LOAD_STORE", "RAM"} =>
        \A i \in 0 .. queue.copy_count - 1 :
            /\ (queue.cache_addr + i * queue.d_cache_addr) % WORDS
                  = Linear(Instruction.cache_apu, i)
            /\ queue.type = "RAM" =>
                  (queue.main_mem_addr + i * queue.d_main_mem_addr) % WORDS
                     = Linear(Instruction.main_apu, i)

(* Addresses are a linear function of the loop variables, across chunks    *)
(* and for every copy of a chunk: as long as no loop of the program has    *)
(* ended and each loop has its depth for a name (control_unit.sv:139-156,  *)
(* 161-168).                                                               *)
AddressesLinearInFirstNest ==
    ~loop_ended /\ (\A d \in 0 .. loop_cur_depth : loop_stack[d].name = d) =>
        AddressesLinear

(* No pushes on two consecutive edges: stall_push was sampled one edge     *)
(* before the push, and the queue accounts for a push one edge after it    *)
(* (control_unit.sv:157, 182, 188).                                        *)
PushesSpaced == [][queue.we /\ started' = started => ~queue'.we]_vars

(* A program that was fetched is pushed to its end, unless a reset comes.  *)
ProgramFinishes ==
    \A r \in 0 .. MaxResets :
        S = "PREPARE_PROGRAM_0" /\ resets = r
            ~> S = "FINISH_PROGRAM_2" \/ resets # r

(* control_unit.sv:3-5: pull from the program execution queue while True.  *)
EveryProgramFetched ==
    \A r \in 0 .. MaxResets :
        execution_queue # << >> /\ resets = r
            ~> execution_queue = << >> \/ resets # r
=============================================================================
