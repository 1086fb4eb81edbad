------------------------------ MODULE DmaLink ------------------------------
(***************************************************************************)
(* The way of a tile between the host's memory and the data cache: the DMA *)
(* path of core/top.sv with its FIFOs, prefetch_initiate_superscalar_fifo, *)
(* PacketSender, PacketReceiver and the host program cherrysim.py.         *)
(*                                                                         *)
(* The core, the sender, the receiver and the host are processes that meet *)
(* in FIFOs; the two wires between sender, host and receiver carry bytes.  *)
(* A smplfifo is the sequence BoundedFifo says it is.  The control unit    *)
(* and the instruction queue appear as what their own modules establish:   *)
(* groups are pushed in program order, at most one in three edges, each    *)
(* copy comes out once and in order, and the end of a program comes out at *)
(* least DMA_INSTRUCTION_LATENCY reads behind the last copy.               *)
(***************************************************************************)
EXTENDS Integers, Sequences

CONSTANTS Programs,                \* what the host may upload and start
          BODY_BYTES,              \* bytes of a tile (36)
          QUEUE_GROUPS,            \* the queue stalls from this many groups on (62)
          PREFETCH_FULL,           \* 60
          L3_DEPTH, WRITE_DEPTH, END_DEPTH, \* 511 each
          DMA_INSTRUCTION_LATENCY, \* 4
          HostAddresses            \* of pinned_mem

ASSUME LinkAssumption ==
    /\ BODY_BYTES \in Nat \ {0} /\ QUEUE_GROUPS \in Nat \ {0}
    /\ PREFETCH_FULL \in Nat \ {0}
    /\ L3_DEPTH \in Nat \ {0} /\ WRITE_DEPTH \in Nat \ {0} /\ END_DEPTH \in Nat \ {0}
    /\ DMA_INSTRUCTION_LATENCY \in Nat \ {0}

BYTE == 256
WORD == BYTE * BYTE
Kinds == {"read", "write", "end"}

(* A program has a length that fits the 6 bits of its packet's header      *)
(* (PacketReceiver.sv:36) and the instruction memory, its end is its last  *)
(* group, and every tile it names is one the host has (cherrysim.py:110).  *)
ASSUME ProgramAssumption ==
    /\ HostAddresses \subseteq 0 .. WORD - 1
    /\ \A p \in Programs :
          /\ p.start \in 0 .. WORD - 1 /\ p.ro_data_addr \in 0 .. BYTE - 1
          /\ p.code \in Seq(0 .. WORD - 1)
          /\ Len(p.code) \in 1 .. BYTE \div 4 - 1 /\ p.start + Len(p.code) <= WORD
          /\ p.groups \in Seq([kind : Kinds, addr : Nat, d_addr : Int,
                               copy_count : Nat \ {0}])
          /\ \A g \in DOMAIN p.groups :
                LET group == p.groups[g]
                IN  IF g = Len(p.groups) THEN group.kind = "end" /\ group.copy_count = 1
                    ELSE /\ group.kind # "end"
                         /\ \A i \in 0 .. group.copy_count - 1 :
                               group.addr + i * group.d_addr \in HostAddresses

VARIABLES
    program,
    \* control unit and instruction queue
    control, next_group, waiting, since_ram,
    \* prefetch FIFO
    prefetch_command, prefetch, read_counter, prefetch_dat_r,
    \* DMA pipeline and its FIFOs
    stage_1, stage_2, stage_3, L3Cache, L3_err, write_queue, end_queue,
    \* PacketSender
    S, counter, write_addr, matrix_send_tile,
    \* the wires and the host
    tx, rx, pinned_mem, host,
    \* PacketReceiver and what it writes
    receiver, icache, execution_queue,
    \* history variables
    pushed,     \* the copies of each kind pushed so far, in order
    answered,   \* address and tile of each read request the host has answered
    delivered,  \* address and tile of each read that has reached the data cache
    written,    \* address and tile of each write the host has done
    end_dropped \* the end of the program was not queued

control_vars == <<control, next_group, waiting, since_ram, pushed>>
prefetch_vars == <<prefetch, read_counter, prefetch_dat_r>>
pipeline_vars == <<stage_1, stage_2, stage_3>>
sender_vars == <<S, counter, write_addr, matrix_send_tile>>
vars == <<program, control_vars, prefetch_command, prefetch_vars, pipeline_vars,
          L3Cache, L3_err, write_queue, end_queue, sender_vars, tx, rx, pinned_mem,
          host, receiver, icache, execution_queue, answered, delivered, written,
          end_dropped>>

-----------------------------------------------------------------------------
(* Bytes and tiles.                                                        *)
High(word) == (word \div BYTE) % BYTE
Low(word) == word % BYTE
Tile(value) == [i \in 1 .. BODY_BYTES |-> (value + i - 1) % BYTE]
NoTile == [i \in 1 .. BODY_BYTES |-> 0]
ShiftIn(register, byte) == Append(Tail(register), byte)

NoInstr == [kind |-> "none", addr |-> 0, value |-> 0, last |-> FALSE]
NoDat(instr) == [instr |-> instr, dat |-> NoTile]

(* The copies of the g-th group; the tile a write sends is what the        *)
(* program computed, told from all others by its value.                    *)
CopiesOf(g) ==
    LET group == program.groups[g]
    IN  [i \in 1 .. group.copy_count |->
           [kind |-> group.kind,
            addr |-> group.addr + (i - 1) * group.d_addr,
            value |-> 100 + 10 * g + i,
            last |-> i = group.copy_count]]

(* What cherrysim.py sends first: the program and the command to start it. *)
UploadPacket(p) ==
    <<1 + 4 * Len(p.code), High(p.start), Low(p.start)>>
      \o [i \in 1 .. 2 * Len(p.code) |->
            IF i % 2 = 1 THEN High(p.code[(i + 1) \div 2])
            ELSE Low(p.code[(i + 1) \div 2])]
StartPacket(p) ==
    <<2, p.ro_data_addr, High(p.start), Low(p.start),
      High(p.start + Len(p.code)), Low(p.start + Len(p.code))>>

WriteFull == Len(write_queue) = WRITE_DEPTH
EndFull == end_queue = END_DEPTH
prefetch_full == Len(prefetch) = PREFETCH_FULL

Init == /\ program \in Programs
        /\ control = "idle" /\ next_group = 1 /\ waiting = << >>
        /\ since_ram = DMA_INSTRUCTION_LATENCY
        /\ pushed = [kind \in Kinds |-> << >>]
        /\ prefetch_command = << >> /\ prefetch = << >>
        /\ read_counter = 0 /\ prefetch_dat_r = 0
        /\ stage_1 = NoInstr /\ stage_2 = NoDat(NoInstr) /\ stage_3 = NoDat(NoInstr)
        /\ L3Cache = << >> /\ L3_err = FALSE /\ write_queue = << >> /\ end_queue = 0
        /\ S = "IDLE" /\ counter = 0 /\ write_addr = 0 /\ matrix_send_tile = NoTile
        /\ tx = << >> /\ rx = UploadPacket(program) \o StartPacket(program)
        /\ pinned_mem = [a \in HostAddresses |-> Tile(a)] /\ host = "serving"
        /\ receiver = [S |-> "IDLE", counter |-> 0, packet_instr_count |-> 0,
                       instr_MSB |-> FALSE, addr |-> 0, dat |-> 0, tile |-> NoTile,
                       enqueue |-> <<0, 0, 0, 0, 0>>]
        /\ icache = << >> /\ execution_queue = << >>
        /\ answered = << >> /\ delivered = << >> /\ written = << >>
        /\ end_dropped = FALSE

-----------------------------------------------------------------------------
(* An edge of the core.                                                    *)

(* INSERT_TO_QUEUE looks at both queues; they take the group an edge       *)
(* later; DECODE comes before the next insert.                             *)
stall_push == Len(SelectSeq(waiting, LAMBDA copy : copy.last)) >= QUEUE_GROUPS
VariantCanInsert == next_group <= Len(program.groups) /\ ~stall_push
CanInsert == next_group <= Len(program.groups) /\ ~stall_push /\ ~prefetch_full

Control(insert) ==
    LET pushing == control = "push"
        group == program.groups[next_group]
    IN  /\ control' = CASE control = "idle" /\ execution_queue # << >> -> "insert"
                        [] control = "insert" /\ insert /\ CanInsert -> "push"
                        [] control = "push" -> "decode"
                        [] control = "decode" -> "insert"
                        [] OTHER -> control
        /\ next_group' = IF pushing THEN next_group + 1 ELSE next_group
        /\ pushed' = IF pushing
                     THEN [pushed EXCEPT ![group.kind] = @ \o CopiesOf(next_group)]
                     ELSE pushed
        /\ prefetch_command' = IF pushing /\ group.kind = "read" THEN <<group>> ELSE << >>
        /\ execution_queue' = IF control = "idle" /\ execution_queue # << >>
                              THEN Tail(execution_queue) ELSE execution_queue

(* The FIFO drops a command that finds it full.                            *)
FillPrefetch == prefetch' = IF prefetch_full THEN prefetch ELSE prefetch \o prefetch_command

freeze == \/ stage_1.kind = "read" /\ L3Cache = << >>
          \/ stage_3.instr.kind = "write" /\ WriteFull
          \/ stage_1.kind = "end" /\ EndFull

CanIssue == /\ waiting # << >>
            /\ Head(waiting).kind = "end" => since_ram + 1 >= DMA_INSTRUCTION_LATENCY

(* The output register of the queue: the next copy or, between groups and  *)
(* while the others wait for their latencies, nothing.                     *)
Issue(issue) ==
    LET pop == ~freeze /\ issue /\ CanIssue
        got == IF pop THEN Head(waiting) ELSE NoInstr
    IN  /\ stage_1' = IF freeze THEN stage_1 ELSE got
        /\ waiting' = (IF pop THEN Tail(waiting) ELSE waiting)
                        \o (IF control = "push" THEN CopiesOf(next_group) ELSE << >>)
        /\ since_ram' = IF freeze THEN since_ram
                        ELSE IF got.kind \in {"read", "write"} THEN 0
                        ELSE IF since_ram < DMA_INSTRUCTION_LATENCY THEN since_ram + 1
                        ELSE since_ram

(* Stage 1 reads the L3 cache, stage 2 the data cache (a write) or writes  *)
(* it (a read), stage 3 queues the write for the sender.                   *)
Pipeline ==
    LET reading == stage_1.kind = "read"
    IN  IF freeze THEN UNCHANGED <<stage_2, stage_3, L3Cache, write_queue, delivered>>
        ELSE /\ stage_2' = [instr |-> IF stage_1.kind = "end" THEN NoInstr ELSE stage_1,
                            dat |-> IF reading THEN Head(L3Cache) ELSE NoTile]
             /\ L3Cache' = IF reading THEN Tail(L3Cache) ELSE L3Cache
             /\ stage_3' = [instr |-> stage_2.instr,
                            dat |-> IF stage_2.instr.kind = "write"
                                    THEN Tile(stage_2.instr.value) ELSE stage_3.dat]
             /\ delivered' = IF stage_2.instr.kind = "read"
                             THEN Append(delivered, <<stage_2.instr.addr, stage_2.dat>>)
                             ELSE delivered
             /\ write_queue' = IF stage_3.instr.kind = "write"
                               THEN Append(write_queue, <<stage_3.instr.addr, stage_3.dat>>)
                               ELSE write_queue

(* The end of the program is queued behind the flag of the other queue.    *)
QueueEnd ==
    LET ending == ~freeze /\ stage_1.kind = "end"
    IN  /\ end_queue' = IF ending /\ ~WriteFull THEN end_queue + 1 ELSE end_queue
        /\ end_dropped' = (end_dropped \/ (ending /\ WriteFull))

Edge(insert, issue) ==
    /\ Control(insert) /\ FillPrefetch
    /\ Issue(issue) /\ Pipeline /\ QueueEnd
    /\ UNCHANGED <<program, read_counter, prefetch_dat_r, L3_err, sender_vars, tx, rx,
                   pinned_mem, host, receiver, icache, answered, written>>

-----------------------------------------------------------------------------
(* PacketSender.                                                           *)
SendState == {"SENDING_READ_REQUEST", "SENDING_WRITE", "SENDING_END_PROG_NOTIF"}

VariantSelected == \* the end of the program before the writes
    CASE prefetch # << >> -> "SENDING_READ_REQUEST"
      [] prefetch = << >> /\ end_queue > 0 -> "SENDING_END_PROG_NOTIF"
      [] prefetch = << >> /\ end_queue = 0 /\ write_queue # << >> -> "SENDING_WRITE"
      [] OTHER -> "IDLE"
Selected ==
    CASE prefetch # << >> -> "SENDING_READ_REQUEST"
      [] prefetch = << >> /\ write_queue # << >> -> "SENDING_WRITE"
      [] prefetch = << >> /\ write_queue = << >> /\ end_queue > 0 -> "SENDING_END_PROG_NOTIF"
      [] OTHER -> "IDLE"

Arbitrate ==
    /\ S = "IDLE" /\ Selected # "IDLE"
    /\ S' = Selected /\ counter' = 0
    /\ UNCHANGED <<program, control_vars, prefetch_command, prefetch_vars, pipeline_vars,
                   L3Cache, L3_err, write_queue, end_queue, write_addr, matrix_send_tile,
                   tx, rx, pinned_mem, host, receiver, icache, execution_queue, answered,
                   delivered, written, end_dropped>>

VariantLastCopy == read_counter + 2 >= Head(prefetch).copy_count
LastCopy == read_counter + 1 = Head(prefetch).copy_count
VariantNextAddr == IF read_counter = 0 THEN Head(prefetch).addr ELSE prefetch_dat_r
NextAddr == IF read_counter = 0 THEN Head(prefetch).addr
            ELSE prefetch_dat_r + Head(prefetch).d_addr

(* The first byte of a packet goes out on the edge that pops the queue.    *)
PopRead ==
    /\ prefetch_dat_r' = NextAddr
    /\ IF LastCopy THEN prefetch' = Tail(prefetch) /\ read_counter' = 0
                   ELSE read_counter' = read_counter + 1 /\ UNCHANGED prefetch

VariantPopWrite == \* the packet is made of the entry behind the one popped
    /\ write_addr' = write_queue[Len(write_queue)][1]
    /\ matrix_send_tile' = write_queue[Len(write_queue)][2]
    /\ write_queue' = Tail(write_queue)
PopWrite ==
    /\ write_addr' = Head(write_queue)[1]
    /\ matrix_send_tile' = Head(write_queue)[2]
    /\ write_queue' = Tail(write_queue)

Header == CASE S = "SENDING_READ_REQUEST" -> 2
            [] S = "SENDING_WRITE" -> 3
            [] OTHER -> 4

SendHeader ==
    /\ S # "IDLE" /\ counter = 0
    /\ counter' = 1 /\ tx' = Append(tx, Header)
    /\ IF S = "SENDING_READ_REQUEST" THEN PopRead ELSE UNCHANGED prefetch_vars
    /\ IF S = "SENDING_WRITE" THEN PopWrite
       ELSE UNCHANGED <<write_addr, matrix_send_tile, write_queue>>
    /\ end_queue' = IF S = "SENDING_END_PROG_NOTIF" THEN end_queue - 1 ELSE end_queue
    /\ UNCHANGED <<program, control_vars, prefetch_command, pipeline_vars, L3Cache, L3_err,
                   S, rx, pinned_mem, host, receiver, icache, execution_queue, answered,
                   delivered, written, end_dropped>>

VariantLastByte == IF S = "SENDING_WRITE" THEN 2 + BODY_BYTES + 1 ELSE 2
LastByte == IF S = "SENDING_WRITE" THEN 2 + BODY_BYTES ELSE 2
AddressSent == CASE S = "SENDING_READ_REQUEST" -> prefetch_dat_r
                 [] S = "SENDING_WRITE" -> write_addr
                 [] OTHER -> 0

SendByte ==
    /\ S # "IDLE" /\ counter > 0
    /\ tx' = Append(tx, IF counter = 1 THEN High(AddressSent)
                        ELSE IF counter = 2 THEN Low(AddressSent)
                        ELSE Head(matrix_send_tile))
    /\ matrix_send_tile' = IF counter > 2 THEN ShiftIn(matrix_send_tile, 0)
                           ELSE matrix_send_tile
    /\ counter' = counter + 1
    /\ S' = IF counter = LastByte THEN "IDLE" ELSE S
    /\ UNCHANGED <<program, control_vars, prefetch_command, prefetch_vars, pipeline_vars,
                   L3Cache, L3_err, write_queue, end_queue, write_addr, rx, pinned_mem,
                   host, receiver, icache, execution_queue, answered, delivered, written,
                   end_dropped>>

-----------------------------------------------------------------------------
(* cherrysim.py: a packet is taken when all of it has arrived.             *)
HostAddr == BYTE * tx[2] + tx[3]

AnswerRead ==
    /\ host = "serving" /\ Len(tx) >= 3 /\ tx[1] = 2
    /\ tx' = SubSeq(tx, 4, Len(tx))
    /\ rx' = rx \o <<3>> \o pinned_mem[HostAddr]
    /\ answered' = Append(answered, <<HostAddr, pinned_mem[HostAddr]>>)
    /\ UNCHANGED <<pinned_mem, host, written>>

DoWrite ==
    /\ host = "serving" /\ Len(tx) >= 3 + BODY_BYTES /\ tx[1] = 3
    /\ LET body == SubSeq(tx, 4, 3 + BODY_BYTES)
       IN  /\ pinned_mem' = [pinned_mem EXCEPT ![HostAddr] = body]
           /\ written' = Append(written, <<HostAddr, body>>)
    /\ tx' = SubSeq(tx, 4 + BODY_BYTES, Len(tx))
    /\ UNCHANGED <<rx, host, answered>>

ProgramComplete ==
    /\ host = "serving" /\ Len(tx) >= 3 /\ tx[1] = 4
    /\ host' = "exited"
    /\ tx' = SubSeq(tx, 4, Len(tx))
    /\ UNCHANGED <<rx, pinned_mem, answered, written>>

HostStep ==
    /\ AnswerRead \/ DoWrite \/ ProgramComplete
    /\ UNCHANGED <<program, control_vars, prefetch_command, prefetch_vars, pipeline_vars,
                   L3Cache, L3_err, write_queue, end_queue, sender_vars, receiver, icache,
                   execution_queue, delivered, end_dropped>>

-----------------------------------------------------------------------------
(* PacketReceiver, one byte at a time.                                     *)
StartPacketOf(byte) == \* the header byte
    [receiver EXCEPT !.counter = 0, !.packet_instr_count = byte \div 4,
                     !.S = CASE byte % 4 = 1 -> "UPLOAD_PROG_PACKET"
                             [] byte % 4 = 2 -> "ENQUEUE_PROG_PACKET"
                             [] byte % 4 = 3 -> "DATA_READ_RESULT_PACKET"
                             [] OTHER -> "IDLE"]

(* The address is moved one back before the first instruction, because     *)
(* every instruction moves it one on.                                      *)
VariantUploadHigh(byte) ==
    [receiver EXCEPT !.dat = BYTE * byte + Low(@), !.instr_MSB = FALSE]
UploadHigh(byte) ==
    [receiver EXCEPT !.dat = BYTE * byte + Low(@), !.instr_MSB = FALSE,
                     !.addr = IF receiver.counter = 2 THEN (@ - 1) % WORD ELSE @]
UploadLow(byte) ==
    [receiver EXCEPT !.dat = BYTE * High(@) + byte, !.instr_MSB = TRUE,
                     !.addr = (@ + 1) % WORD, !.counter = @ + 1,
                     !.S = IF receiver.counter - 1 = receiver.packet_instr_count
                           THEN "IDLE" ELSE @]
Upload(byte) ==
    CASE receiver.counter = 0 ->
           [receiver EXCEPT !.counter = 1, !.addr = BYTE * byte + Low(@)]
      [] receiver.counter = 1 ->
           [receiver EXCEPT !.counter = 2, !.addr = BYTE * High(@) + byte, !.instr_MSB = TRUE]
      [] receiver.counter > 1 /\ receiver.instr_MSB -> UploadHigh(byte)
      [] OTHER -> UploadLow(byte)

Enqueue(byte) ==
    [receiver EXCEPT !.counter = @ + 1, !.enqueue = ShiftIn(@, byte),
                     !.S = IF receiver.counter = 4 THEN "IDLE" ELSE @]

ReadResult(byte) ==
    [receiver EXCEPT !.counter = @ + 1, !.tile = ShiftIn(@, byte),
                     !.S = IF receiver.counter = BODY_BYTES - 1 THEN "IDLE" ELSE @]

(* A register of one instruction, program or tile is strobed out as soon   *)
(* as its last byte is there; nothing asks the L3 cache whether it has     *)
(* room.                                                                   *)
ReceiveByte ==
    /\ rx # << >>
    /\ rx' = Tail(rx)
    /\ receiver' = CASE receiver.S = "IDLE" -> StartPacketOf(Head(rx))
                     [] receiver.S = "UPLOAD_PROG_PACKET" -> Upload(Head(rx))
                     [] receiver.S = "ENQUEUE_PROG_PACKET" -> Enqueue(Head(rx))
                     [] OTHER -> ReadResult(Head(rx))
    /\ LET done == receiver.S # "IDLE" /\ receiver'.S = "IDLE"
           tile == done /\ receiver.S = "DATA_READ_RESULT_PACKET"
           instr == /\ receiver.S = "UPLOAD_PROG_PACKET"
                    /\ receiver.counter > 1 /\ ~receiver.instr_MSB
       IN  /\ L3Cache' = IF tile /\ Len(L3Cache) < L3_DEPTH
                         THEN Append(L3Cache, receiver'.tile) ELSE L3Cache
           /\ L3_err' = (L3_err \/ (tile /\ Len(L3Cache) = L3_DEPTH))
           /\ icache' = IF instr THEN [a \in DOMAIN icache \cup {receiver'.addr} |->
                                         IF a = receiver'.addr THEN receiver'.dat
                                         ELSE icache[a]]
                        ELSE icache
           /\ execution_queue' = IF done /\ receiver.S = "ENQUEUE_PROG_PACKET"
                                 THEN Append(execution_queue, receiver'.enqueue)
                                 ELSE execution_queue
    /\ UNCHANGED <<program, control_vars, prefetch_command, prefetch_vars, pipeline_vars,
                   write_queue, end_queue, sender_vars, tx, pinned_mem, host, answered,
                   delivered, written, end_dropped>>

Sender == Arbitrate \/ SendHeader \/ SendByte

Next == \/ \E insert, issue \in BOOLEAN : Edge(insert, issue)
        \/ Sender \/ HostStep \/ ReceiveByte

(* The clock runs, the instruction queue issues what it holds, the wires   *)
(* carry on and the host serves.                                           *)
Fairness == /\ WF_vars(Edge(TRUE, TRUE)) /\ WF_vars(Sender)
            /\ WF_vars(HostStep) /\ WF_vars(ReceiveByte)

Spec == Init /\ [][Next]_vars /\ Fairness

(* A byte takes thousands of clocks (CLK_HZ against BIT_RATE), in which    *)
(* the core does all it can do: a part of the behaviours of Spec.          *)
Settled == ~ENABLED <<Edge(TRUE, TRUE)>>_vars
NextSlowWires == Edge(TRUE, TRUE) \/ (Settled /\ (Sender \/ HostStep \/ ReceiveByte))
SpecSlowWires == Init /\ [][NextSlowWires]_vars /\ Fairness
-----------------------------------------------------------------------------
(* What the path promises.                                                 *)

(* The type of every register and queue of the path, and its room.         *)
TypeOK ==
    /\ program \in Programs
    /\ control \in {"idle", "insert", "push", "decode"}
    /\ next_group \in 1 .. Len(program.groups) + 1
    /\ since_ram \in 0 .. DMA_INSTRUCTION_LATENCY
    /\ Len(prefetch_command) <= 1 /\ Len(prefetch) <= PREFETCH_FULL
    /\ prefetch = << >> => read_counter = 0
    /\ prefetch # << >> => read_counter \in 0 .. Head(prefetch).copy_count - 1
    /\ Len(L3Cache) <= L3_DEPTH /\ Len(write_queue) <= WRITE_DEPTH
    /\ end_queue \in 0 .. END_DEPTH
    /\ S \in SendState \cup {"IDLE"} /\ counter \in 0 .. 3 + BODY_BYTES
    /\ Len(matrix_send_tile) = BODY_BYTES /\ Len(receiver.tile) = BODY_BYTES
    /\ \A i \in DOMAIN tx : tx[i] \in 0 .. BYTE - 1
    /\ \A i \in DOMAIN rx : rx[i] \in 0 .. BYTE - 1
    /\ DOMAIN icache \subseteq 0 .. WORD - 1

Reads == pushed["read"]
Writes == pushed["write"]
AllPushed == next_group > Len(program.groups)

(* When a program reaches the execution queue, each of its instructions is *)
(* at its own address of the instruction cache, nothing else was written,  *)
(* and the command holds the addresses the host sent: the receiver's "one  *)
(* back, then one on" address and its 2-byte counting agree with the host. *)
ProgramAsUploaded ==
    execution_queue # << >> =>
        /\ Head(execution_queue) = Tail(StartPacket(program))
        /\ icache = [a \in {program.start + i - 1 : i \in DOMAIN program.code} |->
                       program.code[a - program.start + 1]]

(* The control unit looks at the prefetch FIFO one state before it pushes, *)
(* and the command arrives two edges later: it still finds room.           *)
PrefetchNeverRefused == prefetch_command # << >> => ~prefetch_full

(* The n-th tile a read takes from the L3 cache is what the host held at   *)
(* the address of the program's n-th read: requests, answers and reads are *)
(* paired by nothing but their order.                                      *)
ReadsGetTheirTile ==
    ~L3_err => \A n \in DOMAIN delivered :
                 /\ n \in DOMAIN answered /\ n \in DOMAIN Reads
                 /\ delivered[n] = answered[n]
                 /\ delivered[n][1] = Reads[n].addr

(* The host does the program's writes in order, each with the tile the     *)
(* program computed, at its address.                                       *)
WritesInOrder ==
    \A n \in DOMAIN written :
        n \in DOMAIN Writes /\ written[n] = <<Writes[n].addr, Tile(Writes[n].value)>>

(* The host takes a program for complete only when all its writes are in   *)
(* memory.                                                                 *)
EndAfterWrites == host = "exited" => AllPushed /\ Len(written) = Len(Writes)

(* A program that has been started completes at the host, whatever fills   *)
(* and freezes on the way, unless a tile or the notification was lost.     *)
Started == execution_queue # << >>
HostNotifiedUnlessLost == Started ~> (host = "exited" \/ L3_err \/ end_dropped)

(* main.cpp asserts that no error flag is ever raised.                     *)
NoError == ~L3_err

=============================================================================
