----------------------------- MODULE MCBackend -----------------------------
(* Every program of three groups out of ten kinds, which meet in the same *)
(* registers and tiles, in their own thread and across threads; fast_relu  *)
(* with loops below, at and above the width, over more tiles than there is *)
(* room for.  Latencies: those of iq.sv, and the least ones.               *)
EXTENDS Backend

Ram(mem_we, main, cache) ==
    [type |-> RAM, mem_we |-> mem_we, main_mem_addr |-> main, d_main_mem_addr |-> 1,
     cache_addr |-> cache, d_cache_addr |-> 1, copies |-> SUPERSCALAR_WIDTH]
Cache(is_load, reg, cache) ==
    [type |-> LOAD_STORE, is_load |-> is_load, regfile_reg |-> reg,
     cache_addr |-> cache, d_cache_addr |-> 1, copies |-> SUPERSCALAR_WIDTH]
Kinds == {Ram(FALSE, 0, 0), Ram(FALSE, 2, 1), Ram(TRUE, 0, 0), Ram(TRUE, 1, 3),
          Cache(TRUE, REG_MATMUL_INPUT, 0), Cache(TRUE, REG_MATMUL_OUTPUT, 1),
          Cache(TRUE, REG_MATMUL_INPUT, 3), Cache(FALSE, REG_MATMUL_OUTPUT, 0), Cache(FALSE, REG_MATMUL_INPUT, 1),
          [type |-> ARITHMETIC, copies |-> SUPERSCALAR_WIDTH]}

MCLatencies == {[type \in Types |-> CASE type = RAM -> 4 [] type = LOAD_STORE -> 3 [] OTHER -> 10],
                Least}
Small == [program: [1..3 -> Kinds], gap: {<<0, 0, 0>>, <<0, 1, 2>>}, latency: MCLatencies,
          max_resets: {0}]
Relu == UNION {[program: {fast_relu(iterations)},
                gap: {[n \in 1..Len(fast_relu(iterations)) |-> 0]}, latency: MCLatencies, max_resets: {1}] :
                 iterations \in {3, 4, 6, 9}}
MCSetups == Small \cup Relu
MCHostAddresses == 0..8
=============================================================================
