---------------------------- MODULE MCToolchain ----------------------------
(***************************************************************************)
(* experiments/compiler: the compiler with the programs that a caller      *)
(* runs, and the assembler with the scripts that a user runs.  Nothing     *)
(* passes from one to the other: the compiler prints its program and its   *)
(* read-only data for a reader, and the scripts of the assembler are       *)
(* written by hand (std/fast_relu.py).  A behaviour is a run of either.    *)
(*                                                                         *)
(* The compiler has two loops, two APUs, programs of four lines, and       *)
(* ranges of every kind: one argument, a negative step, an empty range,    *)
(* and those that are refused: two arguments, a step that does not divide, *)
(* a zero step.                                                            *)
(***************************************************************************)
EXTENDS Compiler, MCAssembler

MCRanges == {<<3>>, <<8, 2, -3>>, <<4, 0, 2>>, <<0, 3>>, <<0, 7, 2>>, <<5, 5, 0>>}

AssemblerAtRest == header = Absent /\ outcome = "running" /\ script = example
CompilerAtRest == /\ ~is_jit_compiling_active /\ ~failed
                  /\ program = << >> /\ stack = << >>

ToolInit == Init /\ AssemblerInit
Compile == AssemblerAtRest /\ Next /\ UNCHANGED asm_vars
Assemble == CompilerAtRest /\ AssemblerNext /\ UNCHANGED vars
ToolNext == \/ Compile
            \/ Assemble
            \/ outcome # "running" /\ UNCHANGED <<vars, asm_vars>> \* the script is over
ToolSpec == ToolInit /\ [][ToolNext]_<<vars, asm_vars>>
=============================================================================
