----------------------------- MODULE Assembler -----------------------------
(***************************************************************************)
(* experiments/compiler/assembler.py, "source of truth for bit packing     *)
(* Cherry Instruction Set", with the other side of the format: the partial *)
(* decoder of core/ControlUnit/control_unit.sv, loopmux.sv, and the fields *)
(* that core/FIFO/iq.sv cuts out of what was pushed.  The two sides agree  *)
(* by hand only (loopmux.sv:28 asks for a way to keep them in sync).       *)
(*                                                                         *)
(* An assembly script (std/fast_relu.py, std/slow_relu.py) packs a header, *)
(* then one instruction after the other.  One action per call; a call      *)
(* whose assertion fails, or a value that does not fit its field, raises   *)
(* and ends the script.  A bit string is a sequence of 0 and 1, most       *)
(* significant bit first, as in bitstring.pack and in a vector [0:n].      *)
(***************************************************************************)
EXTENDS Integers, Sequences, SequencesExt, FiniteSetsExt

CONSTANTS Absent,  \* Python's None: an argument that is not given
          Scripts  \* the scripts to assemble: a header and the calls after it

VARIABLES script,       \* the script that runs
          header,       \* what bit_pack_program_header returned, or Absent
          instructions, \* what the bit_pack_*_instruction calls returned
          assembled,    \* what bit_pack_entire_program returned, or Absent
          outcome       \* "running", "complete" or "error"

asm_vars == <<script, header, instructions, assembled, outcome>>

-----------------------------------------------------------------------------
(* bitstring: pack('uint:n, int:n, ...', values)                           *)
Bits(value, width) == \* two's complement when the value is negative
    [n \in 1..width |-> (value \div 2^(width - n)) % 2]
Uint(bits) == FoldLeft(LAMBDA sum, b : 2 * sum + b, 0, bits)
Slice(bits, first, last) == SubSeq(bits, first + 1, last + 1) \* bits[first:last]

uint(width, value) == [signed |-> FALSE, width |-> width, value |-> value]
int(width, value) == [signed |-> TRUE, width |-> width, value |-> value]
FitsField(field) ==
    field.value \in IF field.signed
                    THEN -(2^(field.width - 1)) .. 2^(field.width - 1) - 1
                    ELSE 0 .. 2^field.width - 1
Fits(fields) == \A n \in DOMAIN fields : FitsField(fields[n])
pack(fields) ==
    FlattenSeq([n \in DOMAIN fields |-> Bits(fields[n].value, fields[n].width)])

-----------------------------------------------------------------------------
(* Instructions.  A call is a record of the function's arguments.          *)
LOOP_CNT_MAX == 8
APU_CNT_MAX == 8
Category == [MEMORY |-> 0, RAM |-> 1, PROCESSING |-> 2, LOOP |-> 3]
Reg == [MATMUL_INPUT |-> 0, MATMUL_WEIGHTS |-> 1, MATMUL_OUTPUT |-> 2, MATMUL_ACC |-> 3]
UnaryOps == [RELU |-> 0, EXP |-> 1, LOG |-> 2, GT0 |-> 3]
BinaryOps == [ADD |-> 0, SUB |-> 1, MUL |-> 2, DIV |-> 3, MULACC |-> 4, POW |-> 5]
ReduceOps == [SUM |-> 0, MAX |-> 1]
get_processing_category ==
    [unop |-> 0, binop |-> 1, matmul |-> 2, mulacc |-> 3, reduce |-> 4]

Processing(c) == <<uint(2, Category.PROCESSING), uint(3, get_processing_category[c.call])>>
bit_pack_unop_instruction(c) == Processing(c) \o <<uint(2, c.op), uint(9, 0)>>
bit_pack_binop_instruction(c) ==
    Processing(c) \o <<uint(3, c.op), uint(1, c.use_acc), uint(7, 0)>>
bit_pack_matmul_instruction(c) == Processing(c) \o <<uint(11, 0)>>
bit_pack_mulacc_instruction(c) == Processing(c) \o <<uint(11, 0)>>
bit_pack_reduce_instruction(c) ==
    Processing(c) \o <<uint(1, c.op), uint(1, c.use_acc), uint(2, c.axis),
                       uint(2, c.count), uint(5, 0)>>
bit_pack_loop_instruction(c) ==
    <<uint(2, Category.LOOP), uint(1, IF c.is_independent = Absent THEN 0 ELSE c.is_independent),
      uint(1, c.is_start_loop), uint(3, IF c.loop_address = Absent THEN 0 ELSE c.loop_address),
      uint(9, 0)>>
VariantCache(c) == \* the register before the slot
    <<uint(2, Category.MEMORY), uint(1, c.is_load), uint(3, c.apu_address),
      uint(2, c.target), uint(2, c.cache_slot), uint(1, c.zero_flag),
      uint(1, c.skip_flag), uint(4, 0)>>
bit_pack_cache_instruction(c) ==
    <<uint(2, Category.MEMORY), uint(1, c.is_load), uint(3, c.apu_address),
      uint(2, c.cache_slot), uint(2, c.target), uint(1, c.zero_flag),
      uint(1, c.skip_flag), uint(4, 0)>>
bit_pack_ram_instruction(c) ==
    <<uint(2, Category.RAM), uint(1, c.is_write), uint(3, c.cache_apu_address),
      uint(3, c.main_memory_apu_address), uint(2, c.cache_slot), uint(5, 0)>>

Fields(c) ==
    CASE c.call = "unop"   -> bit_pack_unop_instruction(c)
      [] c.call = "binop"  -> bit_pack_binop_instruction(c)
      [] c.call = "matmul" -> bit_pack_matmul_instruction(c)
      [] c.call = "mulacc" -> bit_pack_mulacc_instruction(c)
      [] c.call = "reduce" -> bit_pack_reduce_instruction(c)
      [] c.call = "loop"   -> bit_pack_loop_instruction(c)
      [] c.call = "cache"  -> bit_pack_cache_instruction(c)
      [] c.call = "ram"    -> bit_pack_ram_instruction(c)

Asserts(c) == \* the assert statements of the function called
    CASE c.call = "loop" ->
           IF c.is_start_loop = 1
           THEN /\ c.loop_address # Absent /\ c.is_independent # Absent
                /\ c.loop_address < LOOP_CNT_MAX
           ELSE c.loop_address = Absent /\ c.is_independent = Absent
      [] c.call = "cache" -> c.apu_address < APU_CNT_MAX /\ c.cache_slot < 4
      [] c.call = "ram" -> /\ c.cache_slot < 4
                           /\ c.cache_apu_address < APU_CNT_MAX
                           /\ c.main_memory_apu_address < APU_CNT_MAX
      [] OTHER -> TRUE

-----------------------------------------------------------------------------
(* The header.  A formula is a polynomial in the eight loop variables: a   *)
(* function from monomials, each the sequence of its variables, to their   *)
(* coefficients; None and the zero polynomial are falsy in Python.         *)
sympy_vars == 0..7   \* i, j, k, l, m, n, o, p
coeff_monomial(f, monomial) == IF monomial \in DOMAIN f THEN f[monomial] ELSE 0
VariantSympyToList(expr) == \* the constant first
    IF expr = Absent THEN [n \in 1..9 |-> 0]
    ELSE <<coeff_monomial(expr, << >>)>>
           \o [n \in 1..8 |-> coeff_monomial(expr, <<n - 1>>)]
_sympy_to_list(expr) ==
    IF expr = Absent THEN [n \in 1..9 |-> 0]
    ELSE [n \in 1..8 |-> coeff_monomial(expr, <<n - 1>>)]
           \o <<coeff_monomial(expr, << >>)>>

VariantLoopFields(h) == \* the jump before the count
    FlattenSeq([n \in 1..8 |-> <<uint(6, h.loop_jump_amount[n]),
                                 uint(18, h.loop_iteration_count[n])>>])
LoopFields(h) ==
    FlattenSeq([n \in 1..8 |-> <<uint(18, h.loop_iteration_count[n]),
                                 uint(6, h.loop_jump_amount[n])>>])
ApuFields(h) ==
    FlattenSeq([n \in 1..8 |-> LET list == _sympy_to_list(h.apu_formulas[n])
                               IN  [k \in 1..9 |-> int(18, list[k])]])
HeaderAsserts(h) ==
    \A n \in 1..8 : h.loop_iteration_count[n] < 262143 /\ h.loop_jump_amount[n] < 64

-----------------------------------------------------------------------------
AssemblerInit == /\ script \in Scripts
                 /\ header = Absent /\ instructions = << >> /\ assembled = Absent
                 /\ outcome = "running"

Fail == outcome' = "error" /\ UNCHANGED <<script, header, instructions, assembled>>

bit_pack_program_header ==
    /\ outcome = "running" /\ header = Absent
    /\ LET fields == LoopFields(script.header) \o ApuFields(script.header)
       IN  IF HeaderAsserts(script.header) /\ Fits(fields)
           THEN /\ header' = pack(fields)
                /\ UNCHANGED <<script, instructions, assembled, outcome>>
           ELSE Fail

PackInstruction ==
    /\ outcome = "running" /\ header # Absent
    /\ Len(instructions) < Len(script.calls)
    /\ LET c == script.calls[Len(instructions) + 1]
       IN  IF Asserts(c) /\ Fits(Fields(c))
           THEN /\ instructions' = Append(instructions, pack(Fields(c)))
                /\ UNCHANGED <<script, header, assembled, outcome>>
           ELSE Fail

(* The assertion compares the number of bits of the instructions.          *)
bit_pack_entire_program ==
    /\ outcome = "running" /\ header # Absent
    /\ Len(instructions) = Len(script.calls)
    /\ IF Len(header) = 186 * 8 /\ Len(FlattenSeq(instructions)) < 256
       THEN /\ assembled' = header \o FlattenSeq(instructions)
            /\ outcome' = "complete"
            /\ UNCHANGED <<script, header, instructions>>
       ELSE Fail

AssemblerNext == bit_pack_program_header \/ PackInstruction \/ bit_pack_entire_program
AssemblerSpec == AssemblerInit /\ [][AssemblerNext]_asm_vars

-----------------------------------------------------------------------------
(* The core's side of the format.                                          *)
raw(word, first, last) == Uint(Slice(word, first, last)) \* raw_instruction[first:last]
instruction_type(word) == raw(word, 0, 1)
arith_instr(word) == Slice(word, 2, 10)
ram_instr(word) == Slice(word, 2, 10)
ld_st_instr(word) == Slice(word, 2, 11)

(* What INSERT_TO_QUEUE pushes, and what the instruction queue puts out.   *)
queue_ram_instr(word) == Slice(ram_instr(word), 0, 0) \o Slice(ram_instr(word), 7, 8)
queue_ld_st_instr(word) == Slice(ld_st_instr(word), 0, 0) \o Slice(ld_st_instr(word), 4, 9)

DecodedLoop(word) == [is_independent |-> raw(word, 2, 2), is_new_loop |-> raw(word, 3, 3),
                      name |-> raw(word, 4, 6)]
DecodedRam(word) ==
    LET pushed == queue_ram_instr(word)
    IN  [mem_we |-> Uint(Slice(pushed, 0, 0)), cache_slot |-> Uint(Slice(pushed, 1, 2)),
         cache_apu |-> Uint(Slice(ram_instr(word), 1, 3)),
         main_apu |-> Uint(Slice(ram_instr(word), 4, 6))]
DecodedCache(word) == \* the two flags are pushed, and not taken out (iq.sv:190)
    LET dat_r == <<1>> \o queue_ld_st_instr(word)   \* out_cache_instr of iq.sv
    IN  [is_load |-> Uint(Slice(dat_r, 1, 1)), cache_slot |-> Uint(Slice(dat_r, 2, 3)),
         regfile_reg |-> Uint(Slice(dat_r, 4, 5)),
         cache_apu |-> Uint(Slice(ld_st_instr(word), 1, 3))]
DecodedMath(word) ==
    LET dat_r == <<1>> \o arith_instr(word)         \* out_math_instr of iq.sv
    IN  [category |-> Uint(Slice(dat_r, 1, 3)), options |-> Slice(dat_r, 4, 9)]

(* A header is read where start_ro_data_addr points: four formulas there,  *)
(* four at the next address.  Only a header at address 0 is modelled: a    *)
(* constant stands in for the memory, and top.sv:84 cuts the address out   *)
(* one bit too low ([34:31], with the top bit of the start pc for its last *)
(* one), so that no other header would be found.                           *)
LoopRoData(h) == Slice(h, 0, 24 * 8 - 1)
ProgApuFormula(h, addr) ==
    LET apu_ro_data == Slice(h, 24 * 8, 24 * 8 + 8 * 9 * 18 - 1)
    IN  Slice(apu_ro_data, addr * 4 * 9 * 18, (addr + 1) * 4 * 9 * 18 - 1)
loopmux(h, name) ==
    LET out == Slice(LoopRoData(h), name * 24, name * 24 + 23)
    IN  [iteration_count |-> Uint(Slice(out, 0, 17)), jump_amount |-> Uint(Slice(out, 18, 23))]
ApuFormula(h, k) ==
    Slice(ProgApuFormula(h, k \div 4), (k % 4) * 9 * 18, ((k % 4) + 1) * 9 * 18 - 1)
apu_address_register(h, k) == Uint(Slice(ApuFormula(h, k), 8 * 18, 9 * 18 - 1))
daddr_di(h, k, loop_var) ==
    Uint(Slice(Slice(ApuFormula(h, k), 0, 8 * 18 - 1), loop_var * 18, loop_var * 18 + 17))

-----------------------------------------------------------------------------
(* The core decodes every instruction back into the arguments of the call  *)
(* that packed it (assembler.py:51-86 against control_unit.sv:243-257,     *)
(* loopmux.sv:10-12, iq.sv:175-202): no two of them overlap or are         *)
(* swapped, and none is cut off, except for the zero_flag and the          *)
(* skip_flag of a load or store.  These travel with the instruction as far *)
(* as the queue, where the core drops both (iq.sv:190-191, types.sv:38-39  *)
(* have them as a TODO).                                                   *)
DecodesAs(c, word) ==
    CASE c.call = "loop" ->
           /\ instruction_type(word) = 3
           /\ DecodedLoop(word).is_new_loop = c.is_start_loop
           /\ c.is_start_loop = 1 =>
                DecodedLoop(word) = [is_independent |-> c.is_independent,
                                     is_new_loop |-> 1, name |-> c.loop_address]
      [] c.call = "ram" ->
           /\ instruction_type(word) = 1
           /\ DecodedRam(word) = [mem_we |-> c.is_write, cache_slot |-> c.cache_slot,
                                  cache_apu |-> c.cache_apu_address,
                                  main_apu |-> c.main_memory_apu_address]
      [] c.call = "cache" ->
           /\ instruction_type(word) = 0
           /\ DecodedCache(word) = [is_load |-> c.is_load, cache_slot |-> c.cache_slot,
                                    regfile_reg |-> c.target,
                                    cache_apu |-> c.apu_address]
      [] OTHER ->
           LET options == DecodedMath(word).options
           IN  /\ instruction_type(word) = 2
               /\ DecodedMath(word).category = get_processing_category[c.call]
               /\ c.call = "unop" => Uint(Slice(options, 0, 1)) = c.op
               /\ c.call = "binop" => /\ Uint(Slice(options, 0, 2)) = c.op
                                      /\ Uint(Slice(options, 3, 3)) = c.use_acc
               /\ c.call = "reduce" => /\ Uint(Slice(options, 0, 0)) = c.op
                                       /\ Uint(Slice(options, 1, 1)) = c.use_acc
                                       /\ Uint(Slice(options, 2, 3)) = c.axis
                                       /\ Uint(Slice(options, 4, 5)) = c.count
DecodedAsCalled ==
    \A n \in DOMAIN instructions : /\ instructions[n] \in [1..16 -> 0..1]
                                  /\ DecodesAs(script.calls[n], instructions[n])

(* The APUs compute the formulas of the script: constant and coefficients, *)
(* in two's complement of 18 bits, taken from the two halves of the header *)
(* by PREPARE_PROGRAM_1 and _2, give the value of every linear formula at  *)
(* every iteration, and the loops have the counts and jumps of the script  *)
(* (looked at once, before the instructions are packed).                   *)
(* A formula that is not linear loses its other terms without an error     *)
(* (assembler.py:134; compiler.py:209 has it as a TODO).                   *)
Linear(f) == \A monomial \in DOMAIN f : Len(monomial) <= 1
Evaluate(f, point) ==
    MapThenSumSet(LAMBDA monomial :
                    FoldLeft(LAMBDA product, x : product * point[x], f[monomial], monomial),
                  DOMAIN f)
Points == {[x \in sympy_vars |-> IF x = y THEN n ELSE m] :
             y \in sympy_vars, n \in {1, 9}, m \in {0, 2}}
FormulasReachTheCore ==
    header # Absent /\ instructions = << >> =>
      \A k \in 0..7 :
        /\ loopmux(header, k) = [iteration_count |-> script.header.loop_iteration_count[k + 1],
                                 jump_amount |-> script.header.loop_jump_amount[k + 1]]
        /\ LET f == script.header.apu_formulas[k + 1]
               start == apu_address_register(header, k)
               delta == [x \in sympy_vars |-> daddr_di(header, k, x)]
           IN  f # Absent /\ Linear(f) =>
                 \A point \in Points :
                   (start + MapThenSumSet(LAMBDA x : delta[x] * point[x], sympy_vars))
                     % 2^18 = Evaluate(f, point) % 2^18

(* A header or a call is refused for a cause only: a value its field       *)
(* cannot hold, a loop end with a name, a loop start without one - or the  *)
(* one place where the assembler is narrower than the format, the largest  *)
(* iteration count (assembler.py:94).  The refusal of a whole program is   *)
(* the subject of ProgramsUpToTheAnnouncedSize.                            *)
UnfitHeader(h) ==
    \E n \in 1..8 :
      \/ h.loop_iteration_count[n] \notin 0..2^18 - 1
      \/ h.loop_jump_amount[n] \notin 0..63
      \/ h.apu_formulas[n] # Absent
         /\ \E x \in DOMAIN h.apu_formulas[n] :
              Len(x) <= 1 /\ h.apu_formulas[n][x] \notin -(2^17)..2^17 - 1
UnfitCall(c) ==
    CASE c.call = "loop" ->
           IF c.is_start_loop = 1
           THEN c.is_independent \notin 0..1 \/ c.loop_address \notin 0..7
           ELSE c.is_independent # Absent \/ c.loop_address # Absent
      [] c.call = "ram" -> \/ c.cache_slot \notin 0..3 \/ c.cache_apu_address \notin 0..7
                           \/ c.main_memory_apu_address \notin 0..7
      [] c.call = "cache" -> \/ c.cache_slot \notin 0..3 \/ c.apu_address \notin 0..7
                             \/ c.target \notin 0..3
      [] c.call = "reduce" -> c.axis \notin 0..3 \/ c.count \notin 0..3
      [] OTHER -> FALSE

(* A program whose header and instructions are all packed is put together  *)
(* unless it has 256 instructions or more: "Program has too many           *)
(* instructions. Max allowed is 256" (assembler.py:120), "Maximum of 512   *)
(* bytes" (assembler.py:116).  The code compares the number of bits.       *)
ProgramsUpToTheAnnouncedSize ==
    outcome = "error" /\ header # Absent /\ Len(instructions) = Len(script.calls) =>
      Len(instructions) >= 256
=============================================================================
