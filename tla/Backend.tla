------------------------------ MODULE Backend ------------------------------
(***************************************************************************)
(* What lies behind the instruction queue: the DMA pipeline of             *)
(* core/top.sv, the load/store pipeline between core/Memory/dcache.sv and  *)
(* regfile.sv, and core/Processing/pipeline.sv with its UnopALU.  None of  *)
(* them has an interlock or a bypass: an instruction finds the result of   *)
(* an earlier one because the queue has put enough positions between them  *)
(* (iq.sv), and because one wire, freeze, stops all of them together.      *)
(*                                                                         *)
(* One action is one clock edge.  The queue is the schedule that           *)
(* InstructionQueue.tla shows it to be while no tail is stuck: every copy  *)
(* at its position, at one position per edge.  The host (cherrysim.py)     *)
(* answers the prefetched reads in their order and takes the writes,       *)
(* whenever it likes.  A tile is one of its 16 floats, because nothing     *)
(* here mixes them.                                                        *)
(***************************************************************************)
EXTENDS Integers, Sequences, SequencesExt, FiniteSetsExt

CONSTANTS NoInstr,           \* an instruction that is not valid
          SUPERSCALAR_WIDTH,
          TILES,             \* entries of single_tile_slot
          HostAddresses,     \* of pinned_mem
          FP32_BITS, CHERRY_BITS, \* 32 and 18
          WriteRoom,         \* words that the write queue holds
          Setups             \* programs, with the latencies of the queue, the positions
                             \* that its pushes come late, and a bound on the resets

RAM        == "RAM"
LOAD_STORE == "LOAD_STORE"
ARITHMETIC == "ARITHMETIC"
Types == {RAM, LOAD_STORE, ARITHMETIC}
Threads == 0..SUPERSCALAR_WIDTH - 1
Registers == 0..3
REG_MATMUL_INPUT == 0
REG_MATMUL_OUTPUT == 2

ASSUME BackendAssumption ==
    /\ SUPERSCALAR_WIDTH \in Nat \ {0} /\ TILES \in Nat \ {0} /\ WriteRoom \in Nat \ {0}
    /\ CHERRY_BITS \in Nat \ {0} /\ FP32_BITS \in Nat /\ CHERRY_BITS <= FP32_BITS
    /\ HostAddresses \subseteq Nat
    /\ \A s \in Setups : /\ s.latency \in [Types -> Nat \ {0}] /\ s.gap \in Seq(Nat)
                         /\ s.max_resets \in Nat

VARIABLES setup,
          start,                \* the positions of its groups
          position,             \* the queue's read position
          out,                  \* its output registers: dma, cache, math, prog_end
          dma_stage_2, dma_stage_3,
          cache_load_stage_2, cache_store_stage_2,
          math_1, math_2, math_3, math_4,
          regfile, dcache,
          L3Cache,              \* tiles that the host sent
          write_queue,          \* tiles for the host
          pinned_mem,           \* the host's memory
          answered, written,    \* reads that it answered, writes that it took
          ended,                \* the end of the program is queued for it
          resets,
          origin                \* history: the memories at the last reset

pipelines == <<dma_stage_2, dma_stage_3, cache_load_stage_2, cache_store_stage_2,
               math_1, math_2, math_3, math_4>>
vars == <<setup, start, position, out, pipelines, regfile, dcache, L3Cache, write_queue,
          pinned_mem, answered, written, ended, resets, origin>>

-----------------------------------------------------------------------------
(* Numbers.  Both formats are bit patterns with the sign on top; the host  *)
(* cuts the last bits of the mantissa off and puts zeros back.             *)
numpy_to_cherry_float(f) == f \div 2^(FP32_BITS - CHERRY_BITS)
cherry_float_to_numpy(f) == f * 2^(FP32_BITS - CHERRY_BITS)
VariantRelu(a) == IF a >= 2^(CHERRY_BITS - 2) THEN 0 ELSE a \* the wrong bit
relu(a) == IF a >= 2^(CHERRY_BITS - 1) THEN 0 ELSE a
CherryFloats == 0..2^CHERRY_BITS - 1

(* Programs: groups of copies.  Copy n of a group is thread n.             *)
Copy(group, thread) ==
    CASE group.type = RAM ->
           [mem_we |-> group.mem_we,
            main_mem_addr |-> group.main_mem_addr + thread * group.d_main_mem_addr,
            cache_addr |-> group.cache_addr + thread * group.d_cache_addr]
      [] group.type = LOAD_STORE ->
           [is_load |-> group.is_load, regfile_reg |-> group.regfile_reg, thread |-> thread,
            cache_addr |-> group.cache_addr + thread * group.d_cache_addr]
      [] OTHER -> [thread |-> thread]
CopiesOf(group) == [n \in 1..group.copies |-> Copy(group, n - 1)]

(* The position of every group, behind the one before it and behind the    *)
(* room of the last one of its type; a gap is a push that came late.       *)
StartsOf(s) ==
    LET starts[n \in DOMAIN s.program] ==
          s.gap[n] +
            Max({0} \cup {starts[m] + s.latency[s.program[m].type] : m \in {n - 1} \ {0}}
                    \cup {starts[m] + SUPERSCALAR_WIDTH :
                            m \in {k \in 1..n - 1 : s.program[k].type = s.program[n].type}})
    IN  starts

(* The end of the program, behind every varray's length and latency.       *)
VariantEndPosition == \* without the latency
    Max({0} \cup {start[n] + setup.program[n].copies : n \in DOMAIN setup.program})
EndPosition ==
    Max({setup.latency[type] : type \in Types}
          \cup {start[n] + setup.program[n].copies + setup.latency[setup.program[n].type] :
                  n \in DOMAIN setup.program})

CopyAt(type, p) ==
    LET groups == {n \in DOMAIN setup.program :
                     /\ setup.program[n].type = type
                     /\ p - start[n] \in 0..setup.program[n].copies - 1}
    IN  IF groups = {} THEN NoInstr
        ELSE LET n == Max(groups) IN Copy(setup.program[n], p - start[n])

Idle == [dma |-> NoInstr, cache |-> NoInstr, math |-> NoInstr, prog_end |-> FALSE]
OutAt(p) == [dma |-> CopyAt(RAM, p), cache |-> CopyAt(LOAD_STORE, p),
             math |-> CopyAt(ARITHMETIC, p), prog_end |-> p = EndPosition]

IsRead(i) == i # NoInstr /\ ~i.mem_we
IsWrite(i) == i # NoInstr /\ i.mem_we
IsLoad(i) == i # NoInstr /\ i.is_load
IsStore(i) == i # NoInstr /\ ~i.is_load
tile(addr) == addr % TILES   \* the index that 5 bits of the address make

-----------------------------------------------------------------------------
NoDat == 0
Cleared ==
    /\ out' = Idle /\ position' = 0
    /\ dma_stage_2' = [instr |-> NoInstr, dat |-> NoDat]
    /\ dma_stage_3' = [instr |-> NoInstr, dat |-> dma_stage_3.dat]
    /\ cache_load_stage_2' = [instr |-> NoInstr, dat |-> NoDat]
    /\ cache_store_stage_2' = [instr |-> NoInstr, dat |-> cache_store_stage_2.dat]
    /\ math_1' = [instr |-> NoInstr, read_thread |-> 0]
    /\ math_2' = [instr |-> NoInstr, dat |-> math_2.dat]
    /\ math_3' = [instr |-> NoInstr, dat |-> NoDat]
    /\ math_4' = [we |-> FALSE, thread |-> 0, dat |-> NoDat]
    /\ L3Cache' = << >> /\ write_queue' = << >>
    /\ answered' = 0 /\ written' = 0 /\ ended' = FALSE

(* At power-up the memories hold anything, here values that are all        *)
(* different and of both signs, as is what the host starts with.           *)
Different(n) == (13 * n + 5) % 2^CHERRY_BITS
FirstRegfile == [r \in Threads \X Registers |-> Different(4 * r[1] + r[2])]
FirstDcache == [a \in 0..TILES - 1 |-> Different(4 * SUPERSCALAR_WIDTH + a)]
FirstPinnedMem == [a \in HostAddresses |->
                     cherry_float_to_numpy(Different(4 * SUPERSCALAR_WIDTH + TILES + a))]
FirstMemories == [regfile |-> FirstRegfile, dcache |-> FirstDcache,
                  pinned_mem |-> FirstPinnedMem, writes |-> << >>]

Init ==
    /\ setup \in Setups /\ start = StartsOf(setup)
    /\ out = Idle /\ position = 0
    /\ dma_stage_2 = [instr |-> NoInstr, dat |-> NoDat]
    /\ dma_stage_3 = [instr |-> NoInstr, dat |-> NoDat]
    /\ cache_load_stage_2 = [instr |-> NoInstr, dat |-> NoDat]
    /\ cache_store_stage_2 = [instr |-> NoInstr, dat |-> NoDat]
    /\ math_1 = [instr |-> NoInstr, read_thread |-> 0]
    /\ math_2 = [instr |-> NoInstr, dat |-> NoDat]
    /\ math_3 = [instr |-> NoInstr, dat |-> NoDat]
    /\ math_4 = [we |-> FALSE, thread |-> 0, dat |-> NoDat]
    /\ regfile = FirstRegfile /\ dcache = FirstDcache /\ pinned_mem = FirstPinnedMem
    /\ L3Cache = << >> /\ write_queue = << >>
    /\ answered = 0 /\ written = 0 /\ ended = FALSE
    /\ resets = 0 /\ origin = FirstMemories

-----------------------------------------------------------------------------
write_queue_full == Len(write_queue) >= WriteRoom
freeze == \/ L3Cache = << >> /\ IsRead(out.dma)
          \/ write_queue_full /\ IsWrite(dma_stage_3.instr)

(* The queue: a position per edge, until all varrays are read.             *)
empty == position > EndPosition + 1
Pop == IF ~empty /\ ~freeze
       THEN out' = OutAt(position) /\ position' = position + 1
       ELSE out' = (IF empty THEN Idle ELSE out) /\ UNCHANGED position

(* The three pipelines, when they are not frozen.                          *)
DmaPipeline ==
    /\ dma_stage_2' = [instr |-> out.dma,
                       dat |-> IF IsRead(out.dma) THEN L3Cache[1] ELSE NoDat]
    /\ dma_stage_3' = [instr |-> dma_stage_2.instr,
                       dat |-> IF IsWrite(dma_stage_2.instr)
                               THEN dcache[tile(dma_stage_2.instr.cache_addr)]
                               ELSE dma_stage_3.dat]
LoadStorePipeline ==
    /\ cache_load_stage_2' = [instr |-> out.cache,
                              dat |-> IF IsLoad(out.cache)
                                      THEN dcache[tile(out.cache.cache_addr)]
                                      ELSE cache_load_stage_2.dat]
    /\ cache_store_stage_2' = [instr |-> out.cache,
                               dat |-> IF IsStore(out.cache)
                                       THEN regfile[out.cache.thread, out.cache.regfile_reg]
                                       ELSE cache_store_stage_2.dat]
MathPipeline ==
    /\ math_1' = [instr |-> out.math,
                  read_thread |-> IF out.math # NoInstr THEN out.math.thread
                                  ELSE math_1.read_thread]
    /\ math_2' = [instr |-> math_1.instr,
                  dat |-> regfile[math_1.read_thread, REG_MATMUL_INPUT]]
    /\ math_3' = [instr |-> math_2.instr,
                  dat |-> IF math_2.instr # NoInstr THEN relu(math_2.dat) ELSE math_3.dat]
    /\ math_4' = [we |-> math_3.instr # NoInstr, dat |-> math_3.dat,
                  thread |-> IF math_3.instr # NoInstr THEN math_3.instr.thread ELSE 0]

(* The write ports of an edge.  Of two writes to one place the one further *)
(* down in the source wins: a DMA read over a store, a load over the ALU.  *)
DcacheWrites ==
    LET store == cache_store_stage_2
        stored == IF IsStore(store.instr)
                  THEN [dcache EXCEPT ![tile(store.instr.cache_addr)] = store.dat]
                  ELSE dcache
    IN  dcache' = IF IsRead(dma_stage_2.instr)
                  THEN [stored EXCEPT ![tile(dma_stage_2.instr.cache_addr)] = dma_stage_2.dat]
                  ELSE stored
RegfileWrites ==
    LET load == cache_load_stage_2
        calculated == IF math_4.we
                      THEN [regfile EXCEPT ![math_4.thread, REG_MATMUL_OUTPUT] = math_4.dat]
                      ELSE regfile
    IN  regfile' = IF IsLoad(load.instr)
                   THEN [calculated EXCEPT ![load.instr.thread, load.instr.regfile_reg] = load.dat]
                   ELSE calculated

-----------------------------------------------------------------------------
(* The host's side.                                                        *)
ReadsOf(s) == SelectSeq(FlattenSeq([n \in DOMAIN s.program |->
                                      IF s.program[n].type = RAM THEN CopiesOf(s.program[n])
                                      ELSE << >>]), IsRead)
Answer == numpy_to_cherry_float(pinned_mem[ReadsOf(setup)[answered + 1].main_mem_addr])
AnswerRead(arrives) ==
    /\ arrives => answered < Len(ReadsOf(setup))
    /\ LET rest == IF ~freeze /\ IsRead(out.dma) THEN Tail(L3Cache) ELSE L3Cache
       IN  L3Cache' = IF arrives THEN Append(rest, Answer) ELSE rest
    /\ answered' = IF arrives THEN answered + 1 ELSE answered

TakeWrite(leaves) ==
    /\ leaves => write_queue # << >>
    /\ LET rest == IF leaves THEN Tail(write_queue) ELSE write_queue
       IN  write_queue' = IF ~freeze /\ IsWrite(dma_stage_3.instr) /\ ~write_queue_full
                          THEN Append(rest, [addr |-> dma_stage_3.instr.main_mem_addr,
                                             dat |-> dma_stage_3.dat])
                          ELSE rest
    /\ IF leaves
       THEN /\ pinned_mem' = [pinned_mem EXCEPT ![write_queue[1].addr] =
                                cherry_float_to_numpy(write_queue[1].dat)]
            /\ written' = written + 1
       ELSE UNCHANGED <<pinned_mem, written>>

QueueEnd == ended' = (ended \/ (out.prog_end /\ ~freeze /\ ~write_queue_full))

VariantEdge(arrives, leaves) == \* the register file has no freeze
    /\ Pop
    /\ AnswerRead(arrives) /\ TakeWrite(leaves) /\ QueueEnd
    /\ RegfileWrites
    /\ IF freeze
       THEN UNCHANGED <<dma_stage_2, dma_stage_3, cache_load_stage_2, math_1, math_3, math_4, dcache>>
            /\ math_2' = [instr |-> math_2.instr, dat |-> regfile[math_1.read_thread, REG_MATMUL_INPUT]]
            /\ cache_store_stage_2' =
                 [instr |-> cache_store_stage_2.instr,
                  dat |-> IF IsStore(out.cache)
                          THEN regfile[out.cache.thread, out.cache.regfile_reg]
                          ELSE cache_store_stage_2.dat]
       ELSE DmaPipeline /\ LoadStorePipeline /\ MathPipeline /\ DcacheWrites
    /\ UNCHANGED <<setup, start, resets, origin>>
Edge(arrives, leaves) ==
    /\ Pop
    /\ AnswerRead(arrives) /\ TakeWrite(leaves) /\ QueueEnd
    /\ IF freeze
       THEN UNCHANGED <<pipelines, regfile, dcache>>
       ELSE /\ DmaPipeline /\ LoadStorePipeline /\ MathPipeline
            /\ DcacheWrites /\ RegfileWrites
    /\ UNCHANGED <<setup, start, resets, origin>>

(* sw_0.  The memories are not reset, and take the writes of this edge;    *)
(* the host is started again and runs the program again.                   *)
Reset ==
    /\ resets < setup.max_resets /\ resets' = resets + 1
    /\ Cleared
    /\ IF freeze THEN UNCHANGED <<regfile, dcache>> ELSE DcacheWrites /\ RegfileWrites
    /\ pinned_mem' = FirstPinnedMem
    /\ origin' = [FirstMemories EXCEPT !.regfile = regfile', !.dcache = dcache']
    /\ UNCHANGED <<setup, start>>

Next == Reset \/ \E arrives, leaves \in BOOLEAN : Edge(arrives, leaves)
Spec == Init /\ [][Next]_vars

-----------------------------------------------------------------------------
(* The same program, one copy after the other.                             *)
Execute(memories, copy) ==
    LET m == memories
        c == copy.copy
    IN  CASE copy.type = RAM /\ IsRead(c) ->
               [m EXCEPT !.dcache[tile(c.cache_addr)] =
                  numpy_to_cherry_float(m.pinned_mem[c.main_mem_addr])]
          [] copy.type = RAM /\ IsWrite(c) ->
               LET dat == m.dcache[tile(c.cache_addr)]
               IN  [m EXCEPT !.pinned_mem[c.main_mem_addr] = cherry_float_to_numpy(dat),
                             !.writes = Append(@, [addr |-> c.main_mem_addr, dat |-> dat])]
          [] copy.type = LOAD_STORE /\ IsLoad(c) ->
               [m EXCEPT !.regfile[c.thread, c.regfile_reg] = m.dcache[tile(c.cache_addr)]]
          [] copy.type = LOAD_STORE /\ IsStore(c) ->
               [m EXCEPT !.dcache[tile(c.cache_addr)] = m.regfile[c.thread, c.regfile_reg]]
          [] OTHER ->
               [m EXCEPT !.regfile[c.thread, REG_MATMUL_OUTPUT] =
                  relu(m.regfile[c.thread, REG_MATMUL_INPUT])]
InOrder == \* all copies, with the positions that they have in the queue
    FlattenSeq([n \in DOMAIN setup.program |->
                  [k \in 1..setup.program[n].copies |->
                     [type |-> setup.program[n].type, position |-> start[n] + k - 1,
                      copy |-> Copy(setup.program[n], k - 1)]]])
Sequential == FoldLeft(Execute, origin, InOrder)

(* What the pipelines need: an instruction that touches what an earlier    *)
(* one touched, one of them writing, is at least this many positions       *)
(* behind it.  The latencies of iq.sv:37-39 are 4, 3 and 10.               *)
Least == [type \in Types |-> CASE type = ARITHMETIC -> 5 [] OTHER -> 2]
Inputs(c) ==
    CASE c.type = RAM -> {IF IsRead(c.copy) THEN <<"host", c.copy.main_mem_addr>>
                          ELSE <<"tile", tile(c.copy.cache_addr)>>}
      [] c.type = LOAD_STORE ->
           {IF IsLoad(c.copy) THEN <<"tile", tile(c.copy.cache_addr)>>
            ELSE <<"register", c.copy.thread, c.copy.regfile_reg>>}
      [] OTHER -> {<<"register", c.copy.thread, REG_MATMUL_INPUT>>}
Outputs(c) ==
    CASE c.type = RAM -> {IF IsWrite(c.copy) THEN <<"host", c.copy.main_mem_addr>>
                          ELSE <<"tile", tile(c.copy.cache_addr)>>}
      [] c.type = LOAD_STORE ->
           {IF IsStore(c.copy) THEN <<"tile", tile(c.copy.cache_addr)>>
            ELSE <<"register", c.copy.thread, c.copy.regfile_reg>>}
      [] OTHER -> {<<"register", c.copy.thread, REG_MATMUL_OUTPUT>>}
Conflict(c, d) == \/ Outputs(c) \cap (Inputs(d) \cup Outputs(d)) # {}
                  \/ Inputs(c) \cap Outputs(d) # {}
(* Reads are requested ahead of the writes (PacketSender.sv:40): one that  *)
(* reads back what an earlier instruction wrote may find the old tile.     *)
ReadBack(c, d) == \E address \in Outputs(c) \cap Inputs(d) : address[1] = "host"
Apart == LET order == InOrder
         IN  \A m, n \in DOMAIN order :
               m < n /\ Conflict(order[m], order[n]) =>
                 /\ order[n].position - order[m].position >= Least[order[m].type]
                 /\ ~ReadBack(order[m], order[n])

(* What the control unit pushes of fast_relu.py, the program that          *)
(* cherrysim.py uploads, for a loop of so many iterations.                 *)
ReluBody(first, copies) ==
    LET Ram(mem_we) ==
          [type |-> RAM, mem_we |-> mem_we, main_mem_addr |-> first, d_main_mem_addr |-> 1,
           cache_addr |-> first, d_cache_addr |-> 1, copies |-> copies]
        Cache(is_load, reg) ==
          [type |-> LOAD_STORE, is_load |-> is_load, regfile_reg |-> reg,
           cache_addr |-> first, d_cache_addr |-> 1, copies |-> copies]
    IN  <<Ram(FALSE), Cache(TRUE, REG_MATMUL_INPUT), [type |-> ARITHMETIC, copies |-> copies],
          Cache(FALSE, REG_MATMUL_OUTPUT), Ram(TRUE)>>
fast_relu(iterations) ==
    FlattenSeq([n \in 1..(iterations + SUPERSCALAR_WIDTH - 1) \div SUPERSCALAR_WIDTH |->
                  ReluBody((n - 1) * SUPERSCALAR_WIDTH,
                           Min({SUPERSCALAR_WIDTH, iterations - (n - 1) * SUPERSCALAR_WIDTH}))])

-----------------------------------------------------------------------------
(* The tiles that leave for the host are those of the program run one copy *)
(* after the other, in the same order, whenever the copies that depend on  *)
(* each other are as far apart as the pipelines need - by the latencies of *)
(* the queue within a thread, and by luck between threads (iq.sv:47-58,    *)
(* 78).  A freeze at any edge, tiles that come late and a host that takes  *)
(* its time change nothing about it (top.sv:209-238, dcache.sv:27-78,      *)
(* regfile.sv:20-31, pipeline.sv:22-51).                                   *)
WritesAsSequential ==
    write_queue # << >> /\ Apart =>
      LET writes == Sequential.writes
      IN  /\ written + Len(write_queue) <= Len(writes)
          /\ \A n \in DOMAIN write_queue : write_queue[n] = writes[written + n]

(* The end marker is behind all of the program: when it is queued for the  *)
(* host every write is queued before it, and the register file and the     *)
(* cache are what the program makes of them, for good (iq.sv:47-53,        *)
(* top.sv:298-310; "happens when instruction queue pops the end of program *)
(* marker", control_unit.sv:19).                                           *)
EndIsTheEnd ==
    ended => /\ written + Len(write_queue) = Len(Sequential.writes)
             /\ Apart => regfile = Sequential.regfile /\ dcache = Sequential.dcache

(* "Success?" (cherrysim.py:51, 124-128): after fast_relu the host's       *)
(* memory holds the relu of what it held, tile by tile, although the 128   *)
(* tiles of the program share the 32 places of the cache, and both cache   *)
(* slots of the program are the same places (dcache.sv:22, 32-38).         *)
NumpyRelu(f) == IF f >= 2^(FP32_BITS - 1) THEN 0 ELSE f
HostHoldsRelu ==
    ended /\ write_queue = << >> =>
      \A iterations \in 1..Cardinality(HostAddresses) :
        setup.program = fast_relu(iterations) =>
          pinned_mem = [a \in HostAddresses |-> IF a < iterations THEN NumpyRelu(FirstPinnedMem[a])
                                                ELSE FirstPinnedMem[a]]
=============================================================================
