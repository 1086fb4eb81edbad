------------------------------ MODULE Compiler ------------------------------
(***************************************************************************)
(* experiments/compiler/compiler.py: cherry programs are Python functions  *)
(* that run once, and while they run every cisa_* call and every loop over *)
(* cherry_range appends a line to one global program.  The state is a      *)
(* handful of module globals that cherry_program resets when a program     *)
(* starts; nothing resets them when one fails, and programs that call      *)
(* programs share them.                                                    *)
(*                                                                         *)
(* The caller is any Python code: a script that calls programs and loops,  *)
(* breaks out of loops, and catches the exceptions that it gets wherever   *)
(* it likes.  Its control is the stack of the programs that run and of the *)
(* cherry_range generators that are open in for statements.                *)
(***************************************************************************)
EXTENDS Integers, Sequences, SequencesExt, FiniteSetsExt

CONSTANTS None,       \* an entry that is still False; no loop variable
          LoopLimit,  \* len(loop_variables), 8
          ApuLimit,   \* APU_LIMIT, 16
          SlotBits,   \* the values of address_bits[CURRENT_DEVICE_VERSION]
          Ranges,     \* argument lists of cherry_range
          Addresses,  \* addresses that do not depend on a loop
          MaxLines,   \* bound on the lines of a program
          MaxStack    \* bound on the nesting of programs and loops

ASSUME CompilerAssumption ==
    /\ LoopLimit \in Nat /\ ApuLimit \in Nat /\ MaxLines \in Nat /\ MaxStack \in Nat
    /\ SlotBits \subseteq Nat /\ Addresses \subseteq Nat
    /\ Ranges \subseteq Seq(Int) /\ \A args \in Ranges : Len(args) \in 1..3

VARIABLES is_jit_compiling_active,
          loop_var_next,
          loop_ro_data,  \* iteration count of every loop, or None
          apu_ro_data,   \* formula of every APU, or None
          next_apu,
          program,       \* the lines
          stack,         \* programs and loops that the caller is in, innermost last
          failed         \* history: a program was left by an exception, none has
                         \* run to its end since

globals == <<is_jit_compiling_active, loop_var_next, loop_ro_data, apu_ro_data,
             next_apu, program>>
vars == <<globals, stack, failed>>

-----------------------------------------------------------------------------
(* A value is slope * loop variable + constant; var is None for a plain    *)
(* number.  A loop_start line also carries the arguments of its            *)
(* cherry_range, and a line with an APU its address, for the properties;   *)
(* operations, registers, slots and main memory addresses are left out.    *)
loop_variables == 0..LoopLimit - 1
Number(n) == [var |-> None, slope |-> 0, const |-> n]
Formulas == [var: loop_variables \cup {None}, slope: Int, const: Int]
Lines == [line: {"op", "loop_end"}]
           \cup [line: {"loop_start"}, name: loop_variables, args: Ranges]
           \cup [line: {"memory"}, apu: 0..ApuLimit - 1, address: Formulas]
LoopStart(name, args) == [line |-> "loop_start", name |-> name, args |-> args]

(* Frames of the caller: clean is a history flag, FALSE once a generator   *)
(* was dropped, an exception caught or another program called in it.       *)
Frames == [kind: {"program"}, shape: BOOLEAN, clean: BOOLEAN]
            \cup [kind: {"loop"}, name: loop_variables, args: Ranges, value: Formulas]
IsProgram(frame) == frame.kind = "program"
Called == [kind |-> "program", shape |-> FALSE, clean |-> TRUE]
Disturbed(s) == [n \in DOMAIN s |-> IF IsProgram(s[n]) THEN [s[n] EXCEPT !.clean = FALSE]
                                    ELSE s[n]]
ProgramsIn(s) == {n \in DOMAIN s : IsProgram(s[n])}
Innermost(n) == n \in ProgramsIn(stack) /\ \A m \in ProgramsIn(stack) : m <= n

(* An exception unwinds the stack down to the frame that catches it; the   *)
(* generators it passes are dropped at their yield, without a loop_end.    *)
RaiseInto(depth) ==
    /\ stack' = Disturbed(SubSeq(stack, 1, depth))
    /\ failed' = (failed \/ \E n \in ProgramsIn(stack) : n > depth)
Raise == \E depth \in 0..Len(stack) : RaiseInto(depth)

-----------------------------------------------------------------------------
Init == /\ is_jit_compiling_active = FALSE
        /\ loop_var_next = 0
        /\ loop_ro_data = [n \in loop_variables |-> None]
        /\ apu_ro_data = [n \in 0..ApuLimit - 1 |-> None]
        /\ next_apu = 0
        /\ program = << >>
        /\ stack = << >>
        /\ failed = FALSE

(* The call of a decorated function: the reset, then the assertion on the  *)
(* number of arguments.                                                    *)
VariantReset == \* loop_var_next keeps its value
    /\ is_jit_compiling_active' = TRUE
    /\ loop_ro_data' = [n \in loop_variables |-> None]
    /\ apu_ro_data' = [n \in 0..ApuLimit - 1 |-> None]
    /\ program' = << >>
    /\ loop_var_next' = loop_var_next
    /\ next_apu' = 0
Reset ==
    /\ is_jit_compiling_active' = TRUE
    /\ loop_ro_data' = [n \in loop_variables |-> None]
    /\ apu_ro_data' = [n \in 0..ApuLimit - 1 |-> None]
    /\ program' = << >>
    /\ loop_var_next' = 0
    /\ next_apu' = 0
cherry_program ==
    /\ Len(stack) < MaxStack
    /\ Reset
    /\ \/ stack' = Append(Disturbed(stack), Called) /\ UNCHANGED failed
       \/ \E depth \in 0..Len(stack) : \* f itself fails, in the caller's frame
            stack' = Disturbed(SubSeq(stack, 1, depth)) /\ failed' = TRUE

(* output.set_shape in the innermost program.                              *)
set_shape ==
    /\ \E n \in DOMAIN stack :
         Innermost(n) /\ ~stack[n].shape /\ stack' = [stack EXCEPT ![n].shape = TRUE]
    /\ UNCHANGED <<globals, failed>>

(* The function returns: assert_complete, the print, the end of the        *)
(* program.  A program without an output parameter has no shape either,    *)
(* and fails at the same place.                                            *)
VariantEnd == UNCHANGED is_jit_compiling_active \* the flag survives
EndOfProgram == is_jit_compiling_active' = FALSE
Return ==
    /\ stack # << >> /\ IsProgram(Last(stack))
    /\ IF Last(stack).shape
       THEN EndOfProgram /\ stack' = Front(stack) /\ failed' = FALSE
       ELSE /\ \E depth \in 0..Len(stack) - 1 : RaiseInto(depth)
            /\ UNCHANGED is_jit_compiling_active
    /\ UNCHANGED <<loop_var_next, loop_ro_data, apu_ro_data, next_apu, program>>

-----------------------------------------------------------------------------
(* cherry_range up to its yield: what next() does the first time.          *)
slope(args) == IF Len(args) = 3 THEN args[3] ELSE 1
y_intercept(args) == IF Len(args) = 3 THEN args[1] ELSE 0
FloorDiv(a, b) == IF b > 0 THEN a \div b ELSE (-a) \div (-b)
VariantIterations(args) == \* one more, as for a stop that is included
    IF Len(args) = 1 THEN args[1] ELSE FloorDiv(args[2] - args[1], args[3]) + 1
iterations(args) ==
    IF Len(args) = 1 THEN args[1] ELSE FloorDiv(args[2] - args[1], args[3])
Supported(args) == \* no "TODO" assertion, no division by zero
    \/ Len(args) = 1
    \/ Len(args) = 3 /\ args[3] # 0
         /\ FloorDiv(args[2] - args[1], args[3]) * args[3] = args[2] - args[1]
LoopValue(args) ==
    [var |-> loop_var_next, slope |-> slope(args), const |-> y_intercept(args)]

cherry_range(args) ==
    /\ Len(stack) < MaxStack /\ Len(program) < MaxLines
    /\ IF loop_var_next < LoopLimit
       THEN /\ program' = Append(program, LoopStart(loop_var_next, args))
            /\ IF Supported(args)
               THEN /\ loop_ro_data' = [loop_ro_data EXCEPT ![loop_var_next] = iterations(args)]
                    /\ loop_var_next' = loop_var_next + 1
                    /\ stack' = Append(stack, [kind |-> "loop", name |-> loop_var_next,
                                               args |-> args, value |-> LoopValue(args)])
                    /\ UNCHANGED failed
               ELSE Raise /\ UNCHANGED <<loop_ro_data, loop_var_next>>
       ELSE Raise /\ UNCHANGED <<program, loop_ro_data, loop_var_next>>
    /\ UNCHANGED <<is_jit_compiling_active, apu_ro_data, next_apu>>

(* The for statement comes back for the next value: the loop_end goes to   *)
(* the program that is the global one now.                                 *)
LoopEnd ==
    /\ stack # << >> /\ ~IsProgram(Last(stack)) /\ Len(program) < MaxLines
    /\ program' = Append(program, [line |-> "loop_end"])
    /\ stack' = Front(stack)
    /\ UNCHANGED <<is_jit_compiling_active, loop_var_next, loop_ro_data, apu_ro_data,
                   next_apu, failed>>

(* break, or return from inside: the generator is dropped at its yield.    *)
Break ==
    /\ stack # << >> /\ ~IsProgram(Last(stack))
    /\ stack' = Disturbed(Front(stack))
    /\ UNCHANGED <<globals, failed>>

-----------------------------------------------------------------------------
(* The instructions, which assert_program_active guards.                   *)
Refuse == Raise /\ UNCHANGED globals

cisa_op == \* cisa_unop, cisa_binop
    /\ Len(program) < MaxLines
    /\ IF is_jit_compiling_active
       THEN /\ program' = Append(program, [line |-> "op"])
            /\ UNCHANGED <<is_jit_compiling_active, loop_var_next, loop_ro_data,
                           apu_ro_data, next_apu, stack, failed>>
       ELSE Refuse

(* use_apu and the line that its number is printed in.                     *)
VariantApuLeft == next_apu <= ApuLimit \* one too many
ApuLeft == next_apu < ApuLimit
use_apu(address) ==
    IF ApuLeft
    THEN /\ apu_ro_data' = [apu_ro_data EXCEPT ![next_apu] = address]
         /\ next_apu' = next_apu + 1
         /\ program' = Append(program, [line |-> "memory", apu |-> next_apu, address |-> address])
         /\ UNCHANGED <<is_jit_compiling_active, loop_var_next, loop_ro_data, stack, failed>>
    ELSE Refuse

(* The comparison of cisa_load with a sympy expression has no truth value: *)
(* an address that depends on a loop raises a TypeError.                   *)
VariantLoad(address, bits) == \* the APU is taken before the address is looked at
    /\ Len(program) < MaxLines
    /\ IF is_jit_compiling_active /\ address.var = None /\ address.const < 2^bits
       THEN use_apu(address)
       ELSE /\ Raise
            /\ IF is_jit_compiling_active /\ ApuLeft
               THEN next_apu' = next_apu + 1
               ELSE UNCHANGED next_apu
            /\ UNCHANGED <<is_jit_compiling_active, loop_var_next, loop_ro_data,
                           apu_ro_data, program>>
cisa_load(address, bits) ==
    /\ Len(program) < MaxLines
    /\ IF is_jit_compiling_active /\ address.var = None /\ address.const < 2^bits
       THEN use_apu(address)
       ELSE Refuse

cisa_store(address) ==
    /\ Len(program) < MaxLines
    /\ IF is_jit_compiling_active THEN use_apu(address) ELSE Refuse
cisa_mem_read(slot_address) ==
    /\ Len(program) < MaxLines
    /\ IF is_jit_compiling_active THEN use_apu(slot_address) ELSE Refuse
cisa_mem_write(slot_address) ==
    /\ Len(program) < MaxLines
    /\ IF is_jit_compiling_active THEN use_apu(slot_address) ELSE Refuse

(* The caller's own exceptions, from the body of a program or of a loop.   *)
Throw == /\ \E depth \in 0..Len(stack) - 1 : RaiseInto(depth)
         /\ UNCHANGED globals

(* What a caller can pass: a number, or the variable of a loop it is in.   *)
Values == {Number(n) : n \in Addresses}
            \cup {stack[n].value : n \in DOMAIN stack \ ProgramsIn(stack)}

Next == \/ cherry_program
        \/ set_shape
        \/ Return
        \/ \E args \in Ranges : cherry_range(args)
        \/ LoopEnd
        \/ Break
        \/ Throw
        \/ cisa_op
        \/ \E address \in Values, bits \in SlotBits : cisa_load(address, bits)
        \/ \E address \in Values : \/ cisa_store(address)
                                   \/ cisa_mem_read(address)
                                   \/ cisa_mem_write(address)
Spec == Init /\ [][Next]_vars

-----------------------------------------------------------------------------
(* Type invariant.                                                         *)
TypeOK ==
    /\ is_jit_compiling_active \in BOOLEAN
    /\ loop_var_next \in 0..LoopLimit
    /\ loop_ro_data \in [loop_variables -> Int \cup {None}]
    /\ apu_ro_data \in [0..ApuLimit - 1 -> Formulas \cup {None}]
    /\ next_apu \in 0..ApuLimit
    /\ program \in Seq(Lines)
    /\ stack \in Seq(Frames)
    /\ failed \in BOOLEAN

(* What compiler.py:154-160 would print if the innermost program returned  *)
(* now, of a program in which nothing unusual happened.                    *)
Clean == \E n \in DOMAIN stack : Innermost(n) /\ stack[n].clean
OpenLoops == \* the names of the loops opened in the innermost program
    LET p == Max({0} \cup ProgramsIn(stack))
    IN  [n \in 1..Len(stack) - p |-> stack[p + n].name]
StartLines == {n \in DOMAIN program : program[n].line = "loop_start"}

(* The loops of a program nest: every loop_end closes the innermost loop,  *)
(* the loops that are not closed are those that the caller is in, and they *)
(* are numbered in the order of their starts (compiler.py:171-192).  That  *)
(* the generators, the globals and the for statements stay in step is what *)
(* the printed program's meaning rests on; a break, an exception caught in *)
(* the program and a program in a program put them out of step, and        *)
(* nothing notices.                                                        *)
After(open, l) ==
    CASE l.line = "loop_start" -> Append(open, l.name)
      [] l.line = "loop_end" -> IF open = << >> THEN <<None>> ELSE Front(open)
      [] OTHER -> open
unclosed[n \in 0..Len(program)] == \* after n lines
    IF n = 0 THEN << >> ELSE After(unclosed[n - 1], program[n])
LoopsNest ==
    Clean => /\ unclosed[Len(program)] = OpenLoops
             /\ {program[n].name : n \in StartLines} = 0..loop_var_next - 1
             /\ \A m, n \in StartLines : m < n => program[m].name < program[n].name

(* The iteration count recorded for a loop is the number of times that     *)
(* Python's range would run its body, and the formula of the loop visits   *)
(* exactly the values of that range (compiler.py:173-191).  Where the      *)
(* range is empty the body is emitted all the same, with a count of zero   *)
(* or less.                                                                *)
Visited(args) == \* no step is shorter than 1
    LET start == IF Len(args) = 1 THEN 0 ELSE args[1]
        stop == IF Len(args) = 1 THEN args[1] ELSE args[2]
        step == IF Len(args) = 3 THEN args[3] ELSE 1
        most == IF start < stop THEN stop - start ELSE start - stop
    IN  {start + k * step : k \in {m \in 0..most : IF step > 0 THEN start + m * step < stop
                                                              ELSE start + m * step > stop}}
LoopsVisitTheirRange ==
    Clean =>
      /\ \A n \in StartLines :
           LET count == loop_ro_data[program[n].name]
               size == Cardinality(Visited(program[n].args))
           IN  IF size = 0 THEN count <= 0 ELSE count = size
      /\ \A n \in DOMAIN stack \ ProgramsIn(stack) :
           (\A p \in ProgramsIn(stack) : p < n) =>
             LET value == stack[n].value
             IN  {value.slope * k + value.const : k \in 0..loop_ro_data[value.var] - 1}
                   = Visited(stack[n].args)

(* Every APU that is taken has its line, every line its own APU, in the    *)
(* order of the lines, and the APU's formula is the address of that line - *)
(* through resets, refused calls, exceptions and nested programs           *)
(* (compiler.py:203-240).                                                  *)
ApuLines == {n \in DOMAIN program : program[n].line = "memory"}
ApusMatchProgram ==
    /\ \A n \in ApuLines : /\ program[n].apu < next_apu
                           /\ apu_ro_data[program[n].apu] = program[n].address
    /\ \A m, n \in ApuLines : m < n => program[m].apu < program[n].apu
    /\ \A k \in 0..next_apu - 1 : \E n \in ApuLines : program[n].apu = k
    /\ \A k \in next_apu..ApuLimit - 1 : apu_ro_data[k] = None

(* assert_program_active (compiler.py:103-109) lets an instruction through *)
(* outside every program only after a program failed, and refuses one      *)
(* inside a program only after another program returned in it.             *)
ActiveInside ==
    /\ is_jit_compiling_active /\ ProgramsIn(stack) = {} => failed
    /\ Clean => is_jit_compiling_active
=============================================================================
