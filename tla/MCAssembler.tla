---------------------------- MODULE MCAssembler ----------------------------
(* Every call of every packing function with every argument a field can    *)
(* hold, and calls at the edge of what one can; headers at the edges of    *)
(* the fields; programs around the size that is refused; the programs of   *)
(* the repository.                                                         *)
EXTENDS StdPrograms

Bit == 0..1
(* Scripts of eight calls each, every field over its whole range.          *)
Accepted ==
    {[n \in 1..8 |-> [call |-> "cache", is_load |-> load, apu_address |-> n - 1,
                      cache_slot |-> slot, target |-> target, zero_flag |-> zero,
                      skip_flag |-> skip]] :
       load \in Bit, slot \in 0..3, target \in 0..3, zero \in Bit, skip \in Bit}
      \cup {[n \in 1..8 |-> Ram(write, n - 1, apu, slot)] :
              write \in Bit, apu \in 0..7, slot \in 0..3}
      \cup {[n \in 1..8 |-> StartLoop(independent, n - 1)] : independent \in Bit}
      \cup {[n \in 1..8 |-> [call |-> "reduce", op |-> op, use_acc |-> acc,
                             axis |-> axis, count |-> n % 4]] :
              op \in Bit, acc \in Bit, axis \in 0..3}
      \cup {<<[call |-> "unop", op |-> op], [call |-> "matmul"],
              [call |-> "binop", op |-> op, use_acc |-> acc], [call |-> "mulacc"],
              [call |-> "binop", op |-> op + 2, use_acc |-> 1 - acc], EndLoop>> :
              op \in 0..3, acc \in Bit}
Edge == [call: {"reduce"}, op: {0}, use_acc: {1}, axis: 3..4, count: 3..4]
          \cup [call: {"loop"}, is_start_loop: Bit, is_independent: Bit \cup {Absent},
                loop_address: 7..8 \cup {Absent}]
          \cup [call: {"cache"}, is_load: {1}, apu_address: 7..8, cache_slot: 3..4,
                target: {3}, zero_flag: {0}, skip_flag: {1}]
          \cup [call: {"ram"}, is_write: {0}, cache_apu_address: 7..8,
                main_memory_apu_address: 7..8, cache_slot: 3..4]

(* i*j and i**2 beside a linear part.                                      *)
Nonlinear == [monomial \in {<< >>, <<0>>, <<0, 1>>, <<0, 0>>} |-> 5]
MCFormulas == {Absent, Nonlinear, Times(-1, 7), Plus(131071, -3, 4), Plus(-131072, 2, 0),
               Times(131072, 1), Times(-131073, 2),
               [monomial \in {<< >>} \cup {<<x>> : x \in sympy_vars} |->
                  IF monomial = << >> THEN 7 ELSE 100 * monomial[1] + 11]}
Headers == {Header(<<n>>, <<j>>, <<Absent, f>>) :
              n \in {0, 16, 262142, 262143, 262144}, j \in {0, 6, 63, 64}, f \in MCFormulas}
             \cup {Header(<<1, 2, 3, 4, 5, 6, 7, 8>>, <<8, 7, 6, 5, 4, 3, 2, 1>>,
                          <<f, Absent, Times(2, 1), Times(3, 2), g, Times(5, 4), Absent, f>>) :
                     f \in MCFormulas, g \in MCFormulas}

Plain == Header(<<3>>, <<2>>, <<Times(1, 0)>>)
MCScripts == {[header |-> Plain, calls |-> <<c>>] : c \in Edge}
               \cup {[header |-> Plain, calls |-> calls] : calls \in Accepted}
               \cup {[header |-> h, calls |-> << >>] : h \in Headers}
               \cup {[header |-> Plain, calls |-> [n \in 1..size |-> [call |-> "matmul"]]] :
                       size \in {15, 16}}
               \cup {fast_relu, slow_relu, example}
=============================================================================
