--------------------------- MODULE MCControlUnit ---------------------------
(* Programs for the control unit, with the formulas of the first header of *)
(* assembler.py generalised: every APU gets its own constant, and its own  *)
(* coefficient for each loop variable.                                     *)
EXTENDS ControlUnit

Formulas == [k \in APUs |->
               [constant |-> 100 * k,
                coefficients |-> [name \in Depths |-> 1 + k + 7 * name]]]

Start(name, independent) == [type |-> "LOOP", is_new_loop |-> TRUE,
                             is_independent |-> independent, name |-> name]
End  == [type |-> "LOOP", is_new_loop |-> FALSE, is_independent |-> FALSE, name |-> 0]
Read  == [type |-> "RAM", cache_apu |-> 0, main_apu |-> 1]
Write == [type |-> "RAM", cache_apu |-> 1, main_apu |-> 2]
Load  == [type |-> "LOAD_STORE", cache_apu |-> 3, main_apu |-> 0]
Math  == [type |-> "ARITHMETIC", cache_apu |-> 0, main_apu |-> 0]

Assembled(counts, jumps, text) ==
    [start |-> 1, end |-> Len(text) + 1, code |-> text,
     loops |-> [name \in Depths |->
                  IF name < Len(counts)
                  THEN [iteration_count |-> counts[name + 1],
                        jump_amount |-> jumps[name + 1]]
                  ELSE [iteration_count |-> 0, jump_amount |-> 0]],
     formulas |-> Formulas]

(* std/fast_relu.py and std/slow_relu.py.                                  *)
Relu(independent, count) ==
    Assembled(<<count>>, <<6>>,
              <<Start(0, independent), Read, Load, Math, Load, Write, End>>)

(* Instructions before, in and after an inner loop.                        *)
Nested(counts, inner_independent) ==
    Assembled(counts, <<6, 2>>,
              <<Start(0, FALSE), Read, Start(1, inner_independent), Load, End,
                Write, End>>)

(* As many levels as the stack has.                                        *)
Deepest(counts) ==
    Assembled(counts, <<8, 6, 4, 2>>,
              <<Start(0, FALSE), Start(1, FALSE), Start(2, FALSE), Start(3, TRUE),
                Read, End, End, End, End>>)

(* The compiler names loops in the order of the text.                      *)
Sequential(counts) ==
    Assembled(counts, <<2, 2>>,
              <<Start(0, TRUE), Read, End, Start(1, FALSE), Write, End>>)

MCPrograms == {Relu(TRUE, n) : n \in {1, 3, 4, 5, 8, 9}}
                 \cup {Relu(FALSE, n) : n \in {1, 2, 4}}
                 \cup {Nested(<<2, 6>>, TRUE), Nested(<<3, 2>>, FALSE),
                       Deepest(<<2, 1, 2, 5>>), Sequential(<<5, 3>>)}

ASSUME \A prog \in MCPrograms : Regular(prog)

(* experiments/compiler/example.py:33-39 nests cherry_range loops: all of  *)
(* them are independent.                                                   *)
NestedRanges(counts) ==
    Assembled(counts, <<6, 4, 2>>,
              <<Start(0, TRUE), Start(1, TRUE), Start(2, TRUE), Read, End, End, End>>)

RangePrograms == {NestedRanges(<<2, 4, 5>>), NestedRanges(<<1, 1, 3>>)}
=============================================================================
