---------------------------- MODULE StdPrograms ----------------------------
(***************************************************************************)
(* The assembly programs that the repository holds: std/fast_relu.py and   *)
(* std/slow_relu.py, the example at the end of assembler.py, and what the  *)
(* rest of the system keeps of them: the words in cherrysim.py and the     *)
(* header in core/Memory/fake_pcache.sv.                                   *)
(***************************************************************************)
EXTENDS Assembler

Times(n, x) == [monomial \in {<<x>>} |-> n]                  \* n * x
Plus(c, n, x) == [monomial \in {<< >>, <<x>>} |-> IF monomial = << >> THEN c ELSE n]
PadTo8(s, filler) == [n \in 1..8 |-> IF n \in DOMAIN s THEN s[n] ELSE filler]
Header(counts, jumps, formulas) ==
    [loop_iteration_count |-> PadTo8(counts, 0), loop_jump_amount |-> PadTo8(jumps, 0),
     apu_formulas |-> PadTo8(formulas, Absent)]

StartLoop(independent, name) ==
    [call |-> "loop", is_start_loop |-> 1, is_independent |-> independent,
     loop_address |-> name]
EndLoop == [call |-> "loop", is_start_loop |-> 0, is_independent |-> Absent,
            loop_address |-> Absent]
Ram(is_write, cache_apu, main_apu, slot) ==
    [call |-> "ram", is_write |-> is_write, cache_apu_address |-> cache_apu,
     main_memory_apu_address |-> main_apu, cache_slot |-> slot]
Cache(is_load, apu, slot, target) ==
    [call |-> "cache", is_load |-> is_load, apu_address |-> apu, cache_slot |-> slot,
     target |-> target, zero_flag |-> 0, skip_flag |-> 0]

Body(independent) ==
    << StartLoop(independent, 0),
       Ram(0, 0, 1, 0),                              \* cisa_mem_read
       Cache(1, 0, 0, Reg.MATMUL_INPUT),             \* cisa_load
       [call |-> "unop", op |-> UnaryOps.RELU],
       Cache(0, 0, 1, Reg.MATMUL_OUTPUT),            \* cisa_store
       Ram(1, 0, 2, 1),                              \* cisa_mem_write
       EndLoop >>
fast_relu == [header |-> Header(<<128>>, <<6>>, <<Times(1, 0), Times(1, 0), Times(1, 0)>>),
              calls |-> Body(1)]
slow_relu == [header |-> Header(<<256>>, <<6>>, <<Times(1, 0), Plus(256, 1, 0), Plus(512, 1, 0)>>),
              calls |-> Body(0)]
example == [header |-> Header(<<3>>, <<2>>, <<Times(6, 0), Absent,
                                             [monomial \in {<<0>>, <<7>>} |->
                                                IF monomial = <<0>> THEN 2 ELSE 1],
                                             Absent, Plus(3, 2, 3)>>),
            calls |-> <<StartLoop(0, 0), Ram(0, 2, 4, 0), EndLoop>>]

(* The program that the host uploads, as words of two bytes.               *)
relu_fast_prog_instructions ==
    LET bytes == <<240, 0, 64, 128, 32, 0, 128, 0, 1, 128, 97, 32, 192, 0>>
    IN  [n \in 1..7 |-> Bits(256 * bytes[2 * n - 1] + bytes[2 * n], 16)]

(* The read-only data of the core: 648 bits of formulas and 192 of loops   *)
(* at address 0, zeros at address 1.  The hexadecimal constant has a 1 in  *)
(* the last bit of the first field of each of three formulas.              *)
prog_apu_formula(addr) ==
    [n \in 1..648 |-> IF addr = 0 /\ n \in {18, 162 + 18, 2 * 162 + 18} THEN 1 ELSE 0]
prog_loop_ro_data(addr) ==  \* 192'h002006...
    IF addr = 0 THEN Bits(8198, 24) \o [n \in 1..168 |-> 0] ELSE [n \in 1..192 |-> 0]

-----------------------------------------------------------------------------
(* What runs on the core is fast_relu.py: the bytes that cherrysim.py:56   *)
(* uploads and the header that fake_pcache.sv:28-33 stands in for are what *)
(* the assembler makes of it today, not of a format that it had once.      *)
CoreHoldsFastRelu ==
    script = fast_relu =>
      /\ outcome = "complete" => instructions = relu_fast_prog_instructions
      /\ header # Absent =>
           /\ LoopRoData(header) = prog_loop_ro_data(0)
           /\ \A addr \in 0..1 : ProgApuFormula(header, addr) = prog_apu_formula(addr)
=============================================================================
