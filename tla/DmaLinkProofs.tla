--------------------------- MODULE DmaLinkProofs ---------------------------
(***************************************************************************)
(* Proofs about the way of a tile: the prefetch FIFO never refuses a       *)
(* command, the host answers the program's reads and does its writes in    *)
(* program order, and the end of the program stays behind its last write.  *)
(* Of the way back: the program is in place before it starts, and each     *)
(* read of it takes the tile the host answered it with.                    *)
(***************************************************************************)
EXTENDS DmaLink, SequenceTheorems, TLAPS

(* The bytes on the wires, the words of the core and the tiles of memory;  *)
(* what a group of a program is.                                           *)
Bytes == 0 .. BYTE - 1
Words == 0 .. WORD - 1
Tiles == [1 .. BODY_BYTES -> Bytes]
GroupRec == [kind : Kinds, addr : Nat, d_addr : Int, copy_count : Nat \ {0}]
ReadGroup ==
    {group \in GroupRec :
        /\ group.kind = "read"
        /\ \A i \in 0 .. group.copy_count - 1 : group.addr + i * group.d_addr \in HostAddresses}

(* The control unit, the command on its way to the prefetch FIFO, the FIFO *)
(* and the request in hand. A group is pushed only into a FIFO with room,  *)
(* and the request after the first is a d_addr behind the last.            *)
Controlled ==
    /\ program \in Programs
    /\ control \in {"idle", "insert", "push", "decode"}
    /\ next_group \in 1 .. Len(program.groups) + 1
    /\ control = "push" => next_group <= Len(program.groups)

Commanded ==
    /\ prefetch_command = << >> \/ \E group \in ReadGroup : prefetch_command = <<group>>
    /\ prefetch_command # << >> => control = "decode"
    /\ control = "push" \/ prefetch_command # << >> => Len(prefetch) < PREFETCH_FULL

Prefetched ==
    /\ prefetch \in Seq(ReadGroup) /\ Len(prefetch) <= PREFETCH_FULL
    /\ read_counter \in Nat
    /\ prefetch = << >> => read_counter = 0
    /\ prefetch # << >> => read_counter < Head(prefetch).copy_count
    /\ read_counter > 0 =>
          prefetch_dat_r = Head(prefetch).addr + (read_counter - 1) * Head(prefetch).d_addr

Requesting ==
    /\ counter \in Nat
    /\ S = "SENDING_READ_REQUEST" /\ counter = 0 => prefetch # << >>

Ctl == Controlled /\ Commanded /\ Prefetched /\ Requesting

-----------------------------------------------------------------------------
(* What the assumption on programs says of the one that runs.              *)
LEMMA ProgramTypes ==
    ASSUME program \in Programs
    PROVE  /\ program.groups \in Seq(GroupRec)
           /\ \A g \in 1 .. Len(program.groups) :
                 /\ program.groups[g] \in GroupRec
                 /\ program.groups[g].kind = "end" => g = Len(program.groups)
                 /\ program.groups[g].kind = "end" => program.groups[g].copy_count = 1
                 /\ program.groups[g].kind # "end" =>
                       \A i \in 0 .. program.groups[g].copy_count - 1 :
                           program.groups[g].addr + i * program.groups[g].d_addr
                               \in HostAddresses
                 /\ program.groups[g].kind = "read" => program.groups[g] \in ReadGroup
           /\ HostAddresses \subseteq Words
<1>1. /\ program.groups \in Seq(GroupRec)
      /\ \A g \in DOMAIN program.groups :
            LET group == program.groups[g]
            IN  IF g = Len(program.groups) THEN group.kind = "end" /\ group.copy_count = 1
                ELSE /\ group.kind # "end"
                     /\ \A i \in 0 .. group.copy_count - 1 :
                           group.addr + i * group.d_addr \in HostAddresses
      /\ HostAddresses \subseteq Words
  BY ProgramAssumption DEF ProgramAssumption, GroupRec, Words
<1>2. DOMAIN program.groups = 1 .. Len(program.groups)
  BY <1>1
<1> QED
  BY <1>1, <1>2 DEF ReadGroup

(* The control layer when the core starts.                                 *)
LEMMA CtlInit == Init => Ctl
<1> SUFFICES ASSUME Init PROVE Ctl
  OBVIOUS
<1>1. Len(program.groups) \in Nat
  BY ProgramTypes DEF Init
<1>2. Controlled
  BY <1>1 DEF Init, Controlled
<1>3. Commanded
  BY DEF Init, Commanded
<1>4. Prefetched
  BY LinkAssumption DEF Init, Prefetched, LinkAssumption
<1>5. Requesting
  BY DEF Init, Requesting
<1> QED
  BY <1>2, <1>3, <1>4, <1>5 DEF Ctl

(* An edge of the core: between the look at the flag and the arrival of    *)
(* the command the prefetch FIFO gains nothing.                            *)
LEMMA CtlEdge ==
    ASSUME Ctl, NEW insert \in BOOLEAN, NEW issue \in BOOLEAN, Edge(insert, issue)
    PROVE  Ctl'
<1>1. /\ program' = program /\ read_counter' = read_counter
      /\ prefetch_dat_r' = prefetch_dat_r /\ Control(insert) /\ FillPrefetch
  BY DEF Edge
<1>2. Len(program.groups) \in Nat /\ Len(prefetch) \in Nat /\ PREFETCH_FULL \in Nat
  BY ProgramTypes, LinkAssumption DEF Ctl, Controlled, Prefetched, LinkAssumption
<1>3. Controlled'
  <2>1. control' \in {"idle", "insert", "push", "decode"}
    BY <1>1 DEF Ctl, Controlled, Control
  <2>2. next_group' \in 1 .. Len(program.groups) + 1
    BY <1>1, <1>2 DEF Ctl, Controlled, Control
  <2>3. control' = "push" => control = "insert" /\ CanInsert /\ next_group' = next_group
    BY <1>1 DEF Ctl, Controlled, Control
  <2>4. control' = "push" => next_group' <= Len(program.groups)
    BY <2>3 DEF CanInsert
  <2> QED
    BY <1>1, <2>1, <2>2, <2>4 DEF Ctl, Controlled
<1>4. prefetch_command' # << >> => /\ control = "push" /\ control' = "decode"
                                   /\ prefetch_command' = <<program.groups[next_group]>>
                                   /\ program.groups[next_group].kind = "read"
  BY <1>1 DEF Control
<1>5. control' = "push" => control = "insert" /\ ~ prefetch_full
  BY <1>1 DEF Ctl, Controlled, Control, CanInsert
<1>6. /\ prefetch_command = << >> => prefetch' = prefetch
      /\ \A group \in ReadGroup : prefetch_command = <<group>> =>
            prefetch' = Append(prefetch, group) /\ prefetch' \in Seq(ReadGroup)
            /\ Len(prefetch') = Len(prefetch) + 1 /\ Len(prefetch) < PREFETCH_FULL
            /\ (prefetch # << >> => Head(prefetch') = Head(prefetch))
            /\ (prefetch = << >> => read_counter = 0 /\ Head(prefetch') = group)
  <2>1. prefetch \in Seq(ReadGroup)
    BY DEF Ctl, Prefetched
  <2>2. CASE prefetch_command = << >>
    BY <1>1, <2>1, <2>2 DEF FillPrefetch
  <2>3. CASE prefetch_command # << >>
    <3>1. PICK group \in ReadGroup : prefetch_command = <<group>>
      BY <2>3 DEF Ctl, Commanded
    <3>2. Len(prefetch) < PREFETCH_FULL
      BY <2>3 DEF Ctl, Commanded
    <3>3. prefetch' = prefetch \o <<group>>
      BY <1>1, <1>2, <3>1, <3>2 DEF FillPrefetch, prefetch_full
    <3>4. prefetch' = Append(prefetch, group)
      BY <2>1, <3>3
    <3>5. prefetch' \in Seq(ReadGroup) /\ Len(prefetch') = Len(prefetch) + 1
          /\ (prefetch # << >> => Head(prefetch') = Head(prefetch))
          /\ (prefetch = << >> => Head(prefetch') = group)
      BY <2>1, <3>4
    <3>6. \A other \in ReadGroup : prefetch_command = <<other>> => other = group
      BY <3>1
    <3>7. prefetch = << >> => read_counter = 0
      BY DEF Ctl, Prefetched
    <3> QED
      BY <2>3, <3>2, <3>4, <3>5, <3>6, <3>7
  <2> QED
    BY <2>2, <2>3
<1>7. Commanded'
  <2>1. prefetch_command' = << >> \/ \E group \in ReadGroup : prefetch_command' = <<group>>
    BY <1>4, ProgramTypes DEF Ctl, Controlled
  <2>2. control' = "push" \/ prefetch_command' # << >> => Len(prefetch') < PREFETCH_FULL
    <3>1. control \in {"insert", "push"} => prefetch' = prefetch
      BY <1>6 DEF Ctl, Commanded
    <3>2. control = "push" => Len(prefetch) < PREFETCH_FULL
      BY DEF Ctl, Commanded
    <3>3. control = "insert" /\ ~ prefetch_full => Len(prefetch) < PREFETCH_FULL
      BY <1>2 DEF Ctl, Prefetched, prefetch_full
    <3> QED
      BY <1>4, <1>5, <3>1, <3>2, <3>3
  <2> QED
    BY <1>4, <2>1, <2>2 DEF Commanded
<1>8. Prefetched'
  <2>1. CASE prefetch_command = << >>
    BY <1>1, <1>6, <2>1 DEF Ctl, Prefetched
  <2>2. CASE prefetch_command # << >>
    <3>1. PICK group \in ReadGroup : prefetch_command = <<group>>
      BY <2>2 DEF Ctl, Commanded
    <3>2. prefetch' \in Seq(ReadGroup)
          /\ Len(prefetch') = Len(prefetch) + 1 /\ Len(prefetch) < PREFETCH_FULL
          /\ (prefetch # << >> => Head(prefetch') = Head(prefetch))
          /\ (prefetch = << >> => read_counter = 0 /\ Head(prefetch') = group)
      BY <1>6, <3>1
    <3>3. Len(prefetch') <= PREFETCH_FULL /\ prefetch' # << >>
      BY <1>2, <3>2
    <3>4. group.copy_count \in Nat \ {0}
      BY DEF ReadGroup, GroupRec
    <3>5. CASE prefetch = << >>
      BY <1>1, <3>2, <3>3, <3>4, <3>5 DEF Prefetched, Ctl
    <3>6. CASE prefetch # << >>
      BY <1>1, <3>2, <3>3, <3>6 DEF Prefetched, Ctl
    <3> QED
      BY <3>5, <3>6
  <2> QED
    BY <2>1, <2>2
<1>9. Requesting'
  <2>1. S' = S /\ counter' = counter
    BY DEF Edge, sender_vars
  <2>2. prefetch # << >> => prefetch' # << >>
    <3>1. CASE prefetch_command = << >>
      BY <1>6, <3>1
    <3>2. CASE prefetch_command # << >>
      <4>1. PICK group \in ReadGroup : prefetch_command = <<group>>
        BY <3>2 DEF Ctl, Commanded
      <4>2. prefetch' \in Seq(ReadGroup) /\ Len(prefetch') = Len(prefetch) + 1
        BY <1>6, <4>1
      <4> QED
        BY <1>2, <4>2
    <3> QED
      BY <3>1, <3>2
  <2> QED
    BY <2>1, <2>2 DEF Ctl, Requesting
<1> QED
  BY <1>3, <1>7, <1>8, <1>9 DEF Ctl

(* The address of a copy from that of the copy before it.                  *)
LEMMA OneMore == \A a, d \in Int : (a - 1) * d + d = a * d
  OBVIOUS

(* What the sender's first byte of a request does to the prefetch FIFO.    *)
LEMMA PopReadForm ==
    ASSUME Prefetched, prefetch # << >>, PopRead
    PROVE  /\ Prefetched' /\ Len(prefetch') <= Len(prefetch)
           /\ prefetch_dat_r' = Head(prefetch).addr + read_counter * Head(prefetch).d_addr
           /\ prefetch_dat_r' \in HostAddresses
           /\ Head(prefetch) \in ReadGroup
           /\ \/ /\ read_counter + 1 = Head(prefetch).copy_count
                 /\ prefetch' = Tail(prefetch) /\ read_counter' = 0
              \/ /\ read_counter + 1 < Head(prefetch).copy_count
                 /\ prefetch' = prefetch /\ read_counter' = read_counter + 1
<1> DEFINE group == Head(prefetch)
<1>1. /\ prefetch \in Seq(ReadGroup) /\ group \in ReadGroup /\ Len(prefetch) \in Nat
      /\ Tail(prefetch) \in Seq(ReadGroup) /\ Len(Tail(prefetch)) = Len(prefetch) - 1
  BY DEF Prefetched
<1>2. /\ group.addr \in Nat /\ group.d_addr \in Int /\ group.copy_count \in Nat \ {0}
      /\ \A i \in 0 .. group.copy_count - 1 : group.addr + i * group.d_addr \in HostAddresses
      /\ read_counter \in Nat /\ read_counter < group.copy_count
  BY <1>1 DEF Prefetched, ReadGroup, GroupRec
<1> HIDE DEF group
<1>3. prefetch_dat_r' = group.addr + read_counter * group.d_addr
  <2>1. prefetch_dat_r' = IF read_counter = 0 THEN group.addr
                          ELSE prefetch_dat_r + group.d_addr
    BY DEF PopRead, NextAddr, group
  <2>2. CASE read_counter = 0
    BY <1>2, <2>1, <2>2
  <2>3. CASE read_counter # 0
    <3>1. prefetch_dat_r = group.addr + (read_counter - 1) * group.d_addr
      BY <1>2, <2>3 DEF Prefetched, group
    <3>2. (read_counter - 1) * group.d_addr + group.d_addr = read_counter * group.d_addr
      <4>1. read_counter \in Int /\ group.d_addr \in Int
        BY <1>2
      <4> QED
        BY <4>1, OneMore
    <3>3. (read_counter - 1) * group.d_addr \in Int /\ read_counter * group.d_addr \in Int
      BY <1>2
    <3> QED
      BY <1>2, <2>1, <2>3, <3>1, <3>2, <3>3
  <2> QED
    BY <2>2, <2>3
<1>4. read_counter \in 0 .. group.copy_count - 1
  BY <1>2
<1>5. prefetch_dat_r' \in HostAddresses
  BY <1>2, <1>3, <1>4
<1>6. \/ /\ read_counter + 1 = group.copy_count
         /\ prefetch' = Tail(prefetch) /\ read_counter' = 0
      \/ /\ read_counter + 1 < group.copy_count
         /\ prefetch' = prefetch /\ read_counter' = read_counter + 1
  BY <1>2 DEF PopRead, LastCopy, group
<1>7. Prefetched'
  <2>1. CASE read_counter + 1 = group.copy_count
    <3>1. prefetch' = Tail(prefetch) /\ read_counter' = 0
      BY <1>2, <1>6, <2>1
    <3>2. prefetch' # << >> => Head(prefetch') \in ReadGroup
      BY <1>1, <3>1
    <3>3. prefetch' # << >> => Head(prefetch').copy_count > 0
      BY <3>2 DEF ReadGroup, GroupRec
    <3>4. Len(prefetch') <= PREFETCH_FULL
      BY <1>1, <3>1, LinkAssumption DEF Prefetched, LinkAssumption
    <3> QED
      BY <1>1, <3>1, <3>3, <3>4 DEF Prefetched
  <2>2. CASE read_counter + 1 < group.copy_count
    <3>1. prefetch' = prefetch /\ read_counter' = read_counter + 1
      BY <1>2, <1>6, <2>2
    <3>2. read_counter' - 1 = read_counter
      BY <1>2, <3>1
    <3> QED
      BY <1>1, <1>2, <1>3, <2>2, <3>1, <3>2 DEF Prefetched, group
  <2> QED
    BY <1>6, <2>1, <2>2
<1>8. Len(prefetch') <= Len(prefetch)
  BY <1>1, <1>6
<1> QED
  BY <1>1, <1>3, <1>5, <1>6, <1>7, <1>8 DEF group

(* The sender only takes from the prefetch FIFO.                           *)
LEMMA CtlSender == ASSUME Ctl, Sender PROVE Ctl'
<1>1. CASE Arbitrate
  <2>1. UNCHANGED <<program, control_vars, prefetch_command, prefetch_vars>>
        /\ counter' = 0 /\ S' = Selected
    BY <1>1 DEF Arbitrate
  <2>2. Selected = "SENDING_READ_REQUEST" => prefetch # << >>
    BY DEF Selected
  <2> QED
    BY <2>1, <2>2 DEF Ctl, Controlled, Commanded, Prefetched, Requesting, control_vars,
       prefetch_vars
<1>2. CASE SendHeader
  <2>1. UNCHANGED <<program, control_vars, prefetch_command>> /\ counter' = 1 /\ S' = S
        /\ counter = 0
    BY <1>2 DEF SendHeader
  <2>2. Prefetched' /\ Len(prefetch') <= Len(prefetch)
    <3>1. CASE S = "SENDING_READ_REQUEST"
      BY <1>2, <2>1, <3>1, PopReadForm DEF SendHeader, Ctl, Requesting
    <3>2. CASE S # "SENDING_READ_REQUEST"
      <4>1. UNCHANGED prefetch_vars
        BY <1>2, <3>2 DEF SendHeader
      <4> QED
        BY <4>1 DEF Ctl, Prefetched, prefetch_vars
    <3> QED
      BY <3>1, <3>2
  <2>3. Controlled' /\ Requesting'
    BY <2>1 DEF Ctl, Controlled, Requesting, control_vars
  <2>4. Commanded'
    <3>1. Len(prefetch) \in Nat /\ Len(prefetch') \in Nat /\ PREFETCH_FULL \in Nat
      BY <2>2, LinkAssumption DEF Ctl, Prefetched, LinkAssumption
    <3> QED
      BY <2>1, <2>2, <3>1 DEF Ctl, Commanded, control_vars
  <2> QED
    BY <2>2, <2>3, <2>4 DEF Ctl
<1>3. CASE SendByte
  <2>1. UNCHANGED <<program, control_vars, prefetch_command, prefetch_vars>>
        /\ counter' = counter + 1
    BY <1>3 DEF SendByte
  <2>2. Requesting'
    BY <2>1 DEF Ctl, Requesting
  <2> QED
    BY <2>1, <2>2 DEF Ctl, Controlled, Commanded, Prefetched, control_vars, prefetch_vars
<1> QED
  BY <1>1, <1>2, <1>3 DEF Sender

(* The host and the receiver do not touch the control layer.               *)
LEMMA CtlOther == ASSUME Ctl, HostStep \/ ReceiveByte \/ UNCHANGED vars PROVE Ctl'
<1>1. UNCHANGED <<program, control_vars, prefetch_command, prefetch_vars, S, counter>>
  BY DEF HostStep, ReceiveByte, vars, sender_vars
<1> QED
  BY <1>1 DEF Ctl, Controlled, Commanded, Prefetched, Requesting, control_vars,
     prefetch_vars

(* The control layer keeps its invariant.                                  *)
LEMMA CtlInvariant == Spec => []Ctl
<1>1. Ctl /\ [Next]_vars => Ctl'
  BY CtlEdge, CtlSender, CtlOther DEF Next
<1> QED
  BY CtlInit, <1>1, PTL DEF Spec

(* The control unit looks at the flag of the prefetch FIFO one state       *)
(* before it pushes, and the command arrives two edges later: for any room *)
(* of the FIFO it finds room (control_unit.sv, top.sv:122-135,             *)
(* prefetch_initiate_superscalar_fifo.sv:16-28).                           *)
THEOREM PrefetchNeverDrops == Spec => []PrefetchNeverRefused
<1>1. Ctl => PrefetchNeverRefused
  BY LinkAssumption
     DEF Ctl, Commanded, Prefetched, PrefetchNeverRefused, prefetch_full, LinkAssumption
<1> QED
  BY <1>1, CtlInvariant, PTL

(* What the registers and queues hold: the copies of the groups, the       *)
(* stages of the pipeline, the queues, the sender, the receiver.           *)
CopyRec ==
    {copy \in [kind : Kinds, addr : Int, value : Nat, last : BOOLEAN] :
        copy.kind # "end" => copy.addr \in HostAddresses}
Slot == CopyRec \cup {NoInstr}
Stage == [instr : {copy \in Slot : copy.kind # "end"}, dat : Tiles]

Issued ==
    /\ waiting \in Seq(CopyRec) /\ pushed \in [Kinds -> Seq(CopyRec)]
    /\ since_ram \in 0 .. DMA_INSTRUCTION_LATENCY
    /\ stage_1 \in Slot

Staged == stage_2 \in Stage /\ stage_3 \in Stage

Queued ==
    /\ L3Cache \in Seq(Tiles) /\ Len(L3Cache) <= L3_DEPTH
    /\ write_queue \in Seq(HostAddresses \X Tiles) /\ Len(write_queue) <= WRITE_DEPTH
    /\ end_queue \in 0 .. END_DEPTH

Sending ==
    /\ S \in SendState \cup {"IDLE"} /\ counter \in 0 .. 3 + BODY_BYTES
    /\ S # "IDLE" => counter <= LastByte
    /\ S = "SENDING_READ_REQUEST" /\ counter # 0 => prefetch_dat_r \in HostAddresses
    /\ S = "SENDING_WRITE" /\ counter = 0 => write_queue # << >>
    /\ S = "SENDING_END_PROG_NOTIF" /\ counter = 0 => end_queue > 0
    /\ write_addr \in Words /\ matrix_send_tile \in Tiles /\ tx \in Seq(Bytes)

ReceiverRec ==
    [S : {"IDLE", "UPLOAD_PROG_PACKET", "ENQUEUE_PROG_PACKET", "DATA_READ_RESULT_PACKET"},
     counter : Nat, packet_instr_count : Nat, instr_MSB : BOOLEAN,
     addr : Words, dat : Words, tile : Tiles, enqueue : [1 .. 5 -> Bytes]]

Received ==
    /\ rx \in Seq(Bytes) /\ pinned_mem \in [HostAddresses -> Tiles]
    /\ receiver \in ReceiverRec
    /\ DOMAIN icache \subseteq Words

Shape == Issued /\ Staged /\ Queued /\ Sending /\ Received

-----------------------------------------------------------------------------
(* Two bytes make a word.                                                  *)
LEMMA TwoBytes == ASSUME NEW h \in Bytes, NEW l \in Bytes PROVE BYTE * h + l \in Words
<1>1. /\ h \in Int /\ 0 <= h /\ h <= 255
      /\ l \in Int /\ 0 <= l /\ l <= 255
  BY DEF Bytes, BYTE
<1>2. 256 * h + l \in Int /\ 0 <= 256 * h + l /\ 256 * h + l <= 65535
  BY <1>1
<1>3. WORD - 1 = 65535
  BY DEF WORD, BYTE
<1> HIDE DEF BYTE
<1>4. BYTE * h + l = 256 * h + l
  BY DEF BYTE
<1> QED
  BY <1>2, <1>3, <1>4 DEF Words

(* A word is its two bytes.                                                *)
LEMMA ByteFacts ==
    /\ BODY_BYTES \in Nat \ {0}
    /\ \A w \in Int : High(w) \in Bytes /\ Low(w) \in Bytes
    /\ \A w \in Words : BYTE * High(w) + Low(w) = w
    /\ \A b \in Bytes, w \in Words : /\ BYTE * b + Low(w) \in Words
                                     /\ BYTE * High(w) + b \in Words
<1>1. BODY_BYTES \in Nat \ {0}
  BY LinkAssumption DEF LinkAssumption
<1>2. ASSUME NEW w \in Int PROVE High(w) \in Bytes /\ Low(w) \in Bytes
  BY DEF High, Low, Bytes, BYTE
<1>3. ASSUME NEW w \in Words PROVE BYTE * High(w) + Low(w) = w
  <2>1. w \in Int /\ 0 <= w /\ w <= 65535
    BY DEF Words, WORD, BYTE
  <2> DEFINE q == w \div 256
             r == w % 256
  <2>2. q \in Int /\ 0 <= q /\ q <= 255
    BY <2>1
  <2>3. w = 256 * q + r
    BY <2>1
  <2>4. q % 256 = q
    <3> HIDE DEF q
    <3> QED
      BY <2>2
  <2>5. High(w) = q % 256 /\ Low(w) = r
    BY DEF High, Low, BYTE
  <2> HIDE DEF q, r
  <2> QED
    BY <2>3, <2>4, <2>5 DEF BYTE
<1>4. ASSUME NEW b \in Bytes, NEW w \in Words
      PROVE  BYTE * b + Low(w) \in Words /\ BYTE * High(w) + b \in Words
  <2>1. w \in Int
    BY DEF Words
  <2>2. High(w) \in Bytes /\ Low(w) \in Bytes
    BY <1>2, <2>1
  <2> QED
    BY <2>2, TwoBytes
<1> QED
  BY <1>1, <1>2, <1>3, <1>4

(* The tiles the model names are tiles.                                    *)
LEMMA TileFacts ==
    /\ NoTile \in Tiles
    /\ \A v \in Nat : Tile(v) \in Tiles
<1>1. NoTile \in Tiles
  BY DEF NoTile, Tiles, Bytes, BYTE
<1>2. ASSUME NEW v \in Nat PROVE Tile(v) \in Tiles
  <2>1. \A i \in 1 .. BODY_BYTES : (v + i - 1) % BYTE \in Bytes
    BY ByteFacts DEF Bytes, BYTE
  <2> QED
    BY <2>1 DEF Tile, Tiles
<1> QED
  BY <1>1, <1>2

(* A shift register of n bytes after one more.                             *)
LEMMA ShiftFacts ==
    ASSUME NEW n \in Nat \ {0}, NEW r \in [1 .. n -> Bytes], NEW b \in Bytes
    PROVE  /\ ShiftIn(r, b) \in [1 .. n -> Bytes]
           /\ ShiftIn(r, b)[n] = b
           /\ \A i \in 1 .. n - 1 : ShiftIn(r, b)[i] = r[i + 1]
<1>1. r \in Seq(Bytes) /\ Len(r) = n
  BY IsASeq
<1>2. Tail(r) \in Seq(Bytes) /\ Len(Tail(r)) = n - 1
  BY <1>1
<1>3. \A i \in 1 .. n - 1 : Tail(r)[i] = r[i + 1]
  BY <1>1
<1>4. /\ ShiftIn(r, b) \in Seq(Bytes) /\ Len(ShiftIn(r, b)) = n
      /\ ShiftIn(r, b)[n] = b
      /\ \A i \in 1 .. n - 1 : ShiftIn(r, b)[i] = Tail(r)[i]
  BY <1>2 DEF ShiftIn
<1>5. ShiftIn(r, b) \in [1 .. n -> Bytes]
  BY <1>4
<1> QED
  BY <1>3, <1>4, <1>5

(* The copies of a group are of its kind, as many as it says, at addresses *)
(* d_addr apart that the host has.                                         *)
LEMMA CopiesFacts ==
    ASSUME Controlled, NEW g \in 1 .. Len(program.groups)
    PROVE  /\ CopiesOf(g) \in Seq(CopyRec)
           /\ Len(CopiesOf(g)) = program.groups[g].copy_count
           /\ program.groups[g].copy_count \in Nat \ {0}
           /\ program.groups[g].kind \in Kinds
           /\ \A i \in 1 .. program.groups[g].copy_count :
                 /\ CopiesOf(g)[i].kind = program.groups[g].kind
                 /\ CopiesOf(g)[i].addr =
                       program.groups[g].addr + (i - 1) * program.groups[g].d_addr
<1> DEFINE group == program.groups[g]
           copy(i) == [kind |-> group.kind, addr |-> group.addr + (i - 1) * group.d_addr,
                       value |-> 100 + 10 * g + i, last |-> i = group.copy_count]
<1>1. /\ group \in GroupRec
      /\ group.kind # "end" => \A i \in 0 .. group.copy_count - 1 :
                                   group.addr + i * group.d_addr \in HostAddresses
  BY ProgramTypes DEF Controlled
<1>2. /\ group.kind \in Kinds /\ group.addr \in Nat /\ group.d_addr \in Int
      /\ group.copy_count \in Nat \ {0} /\ g \in Nat
  BY <1>1, ProgramTypes DEF GroupRec, Controlled
<1>3. CopiesOf(g) = [i \in 1 .. group.copy_count |-> copy(i)]
  BY DEF CopiesOf
<1>4. ASSUME NEW i \in 1 .. group.copy_count PROVE copy(i) \in CopyRec
  <2>1. i - 1 \in 0 .. group.copy_count - 1 /\ 100 + 10 * g + i \in Nat
    BY <1>2
  <2>2. group.kind # "end" => group.addr + (i - 1) * group.d_addr \in HostAddresses
    BY <1>1, <2>1
  <2>3. (i - 1) * group.d_addr \in Int
    <3>1. i - 1 \in Int /\ group.d_addr \in Int
      BY <1>2, <2>1
    <3> QED
      BY <3>1
  <2>4. group.addr + (i - 1) * group.d_addr \in Int
    BY <1>2, <2>3
  <2>5. (i = group.copy_count) \in BOOLEAN
    OBVIOUS
  <2> HIDE DEF group
  <2> QED
    BY <1>2, <2>1, <2>2, <2>4, <2>5 DEF CopyRec
<1> HIDE DEF copy, group
<1>5. CopiesOf(g) \in [1 .. group.copy_count -> CopyRec]
  BY <1>3, <1>4
<1>6. CopiesOf(g) \in Seq(CopyRec) /\ Len(CopiesOf(g)) = group.copy_count
  BY <1>2, <1>5, IsASeq
<1>7. \A i \in 1 .. group.copy_count :
         CopiesOf(g)[i].kind = group.kind
         /\ CopiesOf(g)[i].addr = group.addr + (i - 1) * group.d_addr
  BY <1>3 DEF copy
<1> QED
  BY <1>2, <1>6, <1>7 DEF group

(* The small numbers that are bytes and words.                             *)
LEMMA Sizes ==
    /\ BYTE = 256 /\ WORD = 65536 /\ 0 \in Bytes /\ 0 \in Words
    /\ \A b \in Int : b \in Bytes <=> 0 <= b /\ b <= 255
    /\ \A w \in Int : w \in Words <=> 0 <= w /\ w <= 65535
<1>1. BYTE = 256 /\ WORD = 65536
  BY DEF BYTE, WORD
<1>2. \A b \in Int : b \in Bytes <=> 0 <= b /\ b <= 255
  BY <1>1 DEF Bytes
<1>3. \A w \in Int : w \in Words <=> 0 <= w /\ w <= 65535
  BY <1>1 DEF Words
<1> QED
  BY <1>1, <1>2, <1>3

(* What a slot of the pipeline may hold.                                   *)
LEMMA SlotFacts ==
    /\ NoInstr \in Slot /\ NoInstr.kind = "none" /\ NoDat(NoInstr) \in Stage
    /\ \A slot \in Slot : /\ slot.value \in Nat
                          /\ slot.kind \in {"read", "write"} => slot.addr \in HostAddresses
                          /\ slot.kind \in Kinds \cup {"none"}
                          /\ slot.kind \in Kinds => slot \in CopyRec
    /\ \A copy \in CopyRec : copy.kind \in Kinds /\ copy \in Slot
<1>1. NoInstr \in Slot /\ NoInstr.kind = "none"
  BY DEF NoInstr, Slot
<1>2. NoDat(NoInstr) \in Stage
  BY <1>1, TileFacts DEF NoDat, Stage
<1>3. ASSUME NEW slot \in Slot
      PROVE  /\ slot.value \in Nat
             /\ slot.kind \in {"read", "write"} => slot.addr \in HostAddresses
             /\ slot.kind \in Kinds \cup {"none"}
             /\ slot.kind \in Kinds => slot \in CopyRec
  BY DEF Slot, CopyRec, NoInstr, Kinds
<1>4. \A copy \in CopyRec : copy.kind \in Kinds /\ copy \in Slot
  BY DEF CopyRec, Slot
<1> QED
  BY <1>1, <1>2, <1>3, <1>4

(* The two packets that start a program are bytes.                         *)
LEMMA PacketsTyped ==
    ASSUME NEW p \in Programs
    PROVE  UploadPacket(p) \in Seq(Bytes) /\ StartPacket(p) \in Seq(Bytes)
<1> DEFINE n == Len(p.code)
<1>1. /\ n \in 1 .. BYTE \div 4 - 1 /\ p.code \in Seq(Words)
      /\ p.start \in Words /\ p.ro_data_addr \in Bytes
  BY ProgramAssumption DEF ProgramAssumption, Words, Bytes
<1> HIDE DEF n
<1>2. BYTE \div 4 - 1 = 63
  BY DEF BYTE
<1>3. n \in Nat /\ n >= 1 /\ n <= 63
  BY <1>1, <1>2
<1>4. 1 + 4 * n \in Bytes
  BY <1>3, Sizes
<1>5. \A i \in 1 .. 2 * n : (i + 1) \div 2 \in 1 .. n
  BY <1>3
<1>6. \A i \in 1 .. n : p.code[i] \in Int
  <2>1. \A i \in 1 .. n : p.code[i] \in Words
    BY <1>1 DEF n
  <2> QED
    BY <2>1 DEF Words
<1>7. [i \in 1 .. 2 * n |-> IF i % 2 = 1 THEN High(p.code[(i + 1) \div 2])
                            ELSE Low(p.code[(i + 1) \div 2])] \in Seq(Bytes)
  <2>1. \A i \in 1 .. 2 * n : (IF i % 2 = 1 THEN High(p.code[(i + 1) \div 2])
                               ELSE Low(p.code[(i + 1) \div 2])) \in Bytes
    <3>1. \A i \in 1 .. 2 * n : p.code[(i + 1) \div 2] \in Int
      BY <1>5, <1>6
    <3> QED
      BY <3>1, ByteFacts
  <2>2. 2 * n \in Nat
    BY <1>3
  <2> QED
    BY <2>1, <2>2
<1>8. p.start \in Int /\ p.start + n \in Int
  BY <1>1, <1>3 DEF Words
<1>9. UploadPacket(p) \in Seq(Bytes)
  <2>1. <<1 + 4 * n, High(p.start), Low(p.start)>> \in Seq(Bytes)
    BY <1>4, <1>8, ByteFacts
  <2>2. UploadPacket(p) =
           <<1 + 4 * n, High(p.start), Low(p.start)>>
           \o [i \in 1 .. 2 * n |-> IF i % 2 = 1 THEN High(p.code[(i + 1) \div 2])
                                    ELSE Low(p.code[(i + 1) \div 2])]
    BY DEF UploadPacket, n
  <2>3. \A x, y \in Seq(Bytes) : x \o y \in Seq(Bytes)
    OBVIOUS
  <2> QED
    BY <2>1, <2>2, <2>3, <1>7
<1>10. StartPacket(p) \in Seq(Bytes)
  <2>1. 2 \in Bytes
    BY DEF Bytes, BYTE
  <2>2. /\ High(p.start) \in Bytes /\ Low(p.start) \in Bytes
        /\ High(p.start + n) \in Bytes /\ Low(p.start + n) \in Bytes
    BY <1>8, ByteFacts
  <2> QED
    BY <1>1, <2>1, <2>2 DEF StartPacket, n
<1> QED
  BY <1>9, <1>10

(* The registers when the core starts.                                     *)
LEMMA ShapeInit == Init => Shape
<1> SUFFICES ASSUME Init PROVE Shape
  OBVIOUS
<1>1. program \in Programs /\ HostAddresses \subseteq Words
  BY ProgramAssumption DEF Init, ProgramAssumption, Words
<1>2. Issued
  <2>1. waiting \in Seq(CopyRec)
    BY DEF Init
  <2>2. pushed \in [Kinds -> Seq(CopyRec)]
    BY DEF Init
  <2>3. since_ram \in 0 .. DMA_INSTRUCTION_LATENCY
    BY LinkAssumption DEF Init, LinkAssumption
  <2> QED
    BY <2>1, <2>2, <2>3, SlotFacts DEF Init, Issued
<1>3. Staged
  BY SlotFacts DEF Init, Staged
<1>4. Queued
  <2>1. L3Cache \in Seq(Tiles) /\ Len(L3Cache) <= L3_DEPTH
    BY LinkAssumption DEF Init, LinkAssumption
  <2>2. write_queue \in Seq(HostAddresses \X Tiles) /\ Len(write_queue) <= WRITE_DEPTH
    BY LinkAssumption DEF Init, LinkAssumption
  <2>3. end_queue \in 0 .. END_DEPTH
    BY LinkAssumption DEF Init, LinkAssumption
  <2> QED
    BY <2>1, <2>2, <2>3 DEF Queued
<1>5. Sending
  <2>1. write_addr \in Words /\ tx \in Seq(Bytes)
    BY Sizes DEF Init
  <2>2. counter \in 0 .. 3 + BODY_BYTES
    BY ByteFacts DEF Init
  <2> QED
    BY <2>1, <2>2, TileFacts DEF Init, Sending
<1>6. Received
  <2>1. rx \in Seq(Bytes)
    BY <1>1, PacketsTyped DEF Init
  <2>2. pinned_mem \in [HostAddresses -> Tiles]
    BY <1>1, TileFacts DEF Init, Words
  <2>3. DOMAIN icache \subseteq Words
    BY DEF Init
  <2>4. receiver \in ReceiverRec
    <3>1. 0 \in Words /\ <<0, 0, 0, 0, 0>> \in [1 .. 5 -> Bytes]
      BY Sizes
    <3> QED
      BY <3>1, TileFacts DEF Init, ReceiverRec
  <2> QED
    BY <2>1, <2>2, <2>3, <2>4 DEF Received
<1> QED
  BY <1>2, <1>3, <1>4, <1>5, <1>6 DEF Shape

(* What an edge of the core hands on: got is the copy or the gap the       *)
(* instruction queue gives.                                                *)
LEMMA IssueForm ==
    ASSUME Ctl, Shape, NEW insert \in BOOLEAN, NEW issue \in BOOLEAN, Edge(insert, issue)
    PROVE  LET new == IF control = "push" THEN CopiesOf(next_group) ELSE << >>
           IN  /\ new \in Seq(CopyRec)
               /\ freeze => stage_1' = stage_1 /\ since_ram' = since_ram
               /\ \/ /\ waiting' = waiting \o new
                     /\ ~ freeze => stage_1' = NoInstr
                  \/ /\ ~ freeze /\ CanIssue /\ waiting # << >>
                     /\ stage_1' = Head(waiting) /\ stage_1' \in CopyRec
                     /\ Tail(waiting) \in Seq(CopyRec)
                     /\ waiting' = Tail(waiting) \o new
<1> DEFINE new == IF control = "push" THEN CopiesOf(next_group) ELSE << >>
           pop == ~ freeze /\ issue /\ CanIssue
<1>1. Issue(issue)
  BY DEF Edge
<1>2. new \in Seq(CopyRec)
  <2>1. CASE control = "push"
    BY <2>1, CopiesFacts DEF Ctl, Controlled
  <2>2. CASE control # "push"
    BY <2>2
  <2> QED
    BY <2>1, <2>2
<1>3. freeze => stage_1' = stage_1 /\ since_ram' = since_ram
  BY <1>1 DEF Issue
<1>4. CASE pop
  <2>1. waiting # << >> /\ waiting \in Seq(CopyRec)
    BY <1>4 DEF CanIssue, Shape, Issued
  <2>2. waiting' = Tail(waiting) \o new /\ stage_1' = Head(waiting)
    BY <1>1, <1>4 DEF Issue
  <2> QED
    BY <1>2, <1>3, <1>4, <2>1, <2>2
<1>5. CASE ~ pop
  <2>1. waiting' = waiting \o new /\ (~ freeze => stage_1' = NoInstr)
    BY <1>1, <1>5 DEF Issue
  <2> QED
    BY <1>2, <1>3, <2>1
<1> QED
  BY <1>4, <1>5

(* What the pipeline does on an edge it is not frozen.                     *)
LEMMA PipelineForm ==
    ASSUME Shape, Pipeline, ~ freeze
    PROVE  /\ stage_2' \in Stage /\ stage_3' \in Stage
           /\ stage_2'.instr = IF stage_1.kind = "end" THEN NoInstr ELSE stage_1
           /\ stage_3'.instr = stage_2.instr
           /\ stage_2.instr.kind = "write" => stage_3'.dat = Tile(stage_2.instr.value)
           /\ stage_3.instr.kind = "write" =>
                 /\ <<stage_3.instr.addr, stage_3.dat>> \in HostAddresses \X Tiles
                 /\ Len(write_queue) < WRITE_DEPTH
                 /\ write_queue' = Append(write_queue, <<stage_3.instr.addr, stage_3.dat>>)
           /\ stage_3.instr.kind # "write" => write_queue' = write_queue
           /\ L3Cache' \in Seq(Tiles) /\ Len(L3Cache') <= Len(L3Cache)
<1>1. /\ stage_1 \in Slot /\ stage_2 \in Stage /\ stage_3 \in Stage
      /\ L3Cache \in Seq(Tiles) /\ write_queue \in Seq(HostAddresses \X Tiles)
      /\ Len(write_queue) <= WRITE_DEPTH /\ Len(write_queue) \in Nat /\ WRITE_DEPTH \in Nat
  BY LinkAssumption DEF Shape, Issued, Staged, Queued, LinkAssumption
<1>2. /\ stage_2.instr \in Slot /\ stage_2.instr.kind # "end" /\ stage_2.dat \in Tiles
      /\ stage_3.instr \in Slot /\ stage_3.instr.kind # "end" /\ stage_3.dat \in Tiles
  BY <1>1 DEF Stage
<1>3. stage_1.kind = "read" => L3Cache # << >>
  BY DEF freeze
<1>4. /\ stage_2' = [instr |-> IF stage_1.kind = "end" THEN NoInstr ELSE stage_1,
                     dat |-> IF stage_1.kind = "read" THEN Head(L3Cache) ELSE NoTile]
      /\ stage_3' = [instr |-> stage_2.instr,
                     dat |-> IF stage_2.instr.kind = "write"
                             THEN Tile(stage_2.instr.value) ELSE stage_3.dat]
      /\ L3Cache' = IF stage_1.kind = "read" THEN Tail(L3Cache) ELSE L3Cache
      /\ write_queue' = IF stage_3.instr.kind = "write"
                        THEN Append(write_queue, <<stage_3.instr.addr, stage_3.dat>>)
                        ELSE write_queue
  BY DEF Pipeline
<1>5. stage_2' \in Stage
  <2>1. (IF stage_1.kind = "end" THEN NoInstr ELSE stage_1)
           \in {copy \in Slot : copy.kind # "end"}
    BY <1>1, SlotFacts
  <2>2. (IF stage_1.kind = "read" THEN Head(L3Cache) ELSE NoTile) \in Tiles
    BY <1>1, <1>3, TileFacts
  <2> QED
    BY <1>4, <2>1, <2>2 DEF Stage
<1>6. stage_3' \in Stage
  <2>1. (IF stage_2.instr.kind = "write" THEN Tile(stage_2.instr.value) ELSE stage_3.dat)
           \in Tiles
    <3>1. stage_2.instr.value \in Nat
      BY <1>2, SlotFacts
    <3> QED
      BY <1>2, <3>1, TileFacts
  <2> QED
    BY <1>2, <1>4, <2>1 DEF Stage
<1>7. stage_3.instr.kind = "write" =>
         /\ <<stage_3.instr.addr, stage_3.dat>> \in HostAddresses \X Tiles
                                      /\ Len(write_queue) < WRITE_DEPTH
  <2>1. stage_3.instr.kind = "write" => stage_3.instr.addr \in HostAddresses
    BY <1>2, SlotFacts
  <2>2. HostAddresses \subseteq Words
    BY ProgramAssumption DEF ProgramAssumption, Words
  <2>3. stage_3.instr.kind = "write" => Len(write_queue) # WRITE_DEPTH
    BY DEF freeze, WriteFull
  <2> QED
    BY <1>1, <1>2, <2>1, <2>2, <2>3
<1>8. L3Cache' \in Seq(Tiles) /\ Len(L3Cache') <= Len(L3Cache)
  BY <1>1, <1>3, <1>4
<1> QED
  BY <1>4, <1>5, <1>6, <1>7, <1>8

(* An edge of the core keeps the types.                                    *)
LEMMA ShapeEdge ==
    ASSUME Ctl, Shape, NEW insert \in BOOLEAN, NEW issue \in BOOLEAN, Edge(insert, issue)
    PROVE  Shape'
<1>1. /\ Control(insert) /\ Issue(issue) /\ Pipeline /\ QueueEnd
      /\ UNCHANGED <<program, sender_vars, prefetch_dat_r, tx, rx, pinned_mem, receiver, icache>>
  BY DEF Edge
<1>2. Issued'
  <2>1. waiting' \in Seq(CopyRec)
    <3> DEFINE new == IF control = "push" THEN CopiesOf(next_group) ELSE << >>
    <3>1. /\ new \in Seq(CopyRec) /\ waiting \in Seq(CopyRec)
          /\ \/ waiting' = waiting \o new
             \/ Tail(waiting) \in Seq(CopyRec) /\ waiting' = Tail(waiting) \o new
      BY IssueForm DEF Shape, Issued
    <3>2. \A x, y \in Seq(CopyRec) : x \o y \in Seq(CopyRec)
      OBVIOUS
    <3> HIDE DEF new
    <3> QED
      BY <3>1, <3>2
  <2>2. pushed' \in [Kinds -> Seq(CopyRec)]
    <3>1. pushed \in [Kinds -> Seq(CopyRec)]
      BY DEF Shape, Issued
    <3>2. CASE control = "push"
      <4>1. /\ CopiesOf(next_group) \in Seq(CopyRec)
            /\ program.groups[next_group].kind \in Kinds
        BY <3>2, CopiesFacts DEF Ctl, Controlled
      <4>2. pushed' = [pushed EXCEPT ![program.groups[next_group].kind] =
                                        @ \o CopiesOf(next_group)]
        BY <1>1, <3>2 DEF Control
      <4> QED
        BY <3>1, <4>1, <4>2
    <3>3. CASE control # "push"
      BY <1>1, <3>1, <3>3 DEF Control
    <3> QED
      BY <3>2, <3>3
  <2>3. since_ram' \in 0 .. DMA_INSTRUCTION_LATENCY
    <3>1. since_ram \in 0 .. DMA_INSTRUCTION_LATENCY /\ DMA_INSTRUCTION_LATENCY \in Nat
      BY LinkAssumption DEF LinkAssumption, Shape, Issued
    <3>2. \/ since_ram' = since_ram \/ since_ram' = 0
          \/ since_ram < DMA_INSTRUCTION_LATENCY /\ since_ram' = since_ram + 1
      BY <1>1 DEF Issue
    <3> QED
      BY <3>1, <3>2
  <2>4. stage_1' \in Slot
    BY IssueForm, SlotFacts DEF Shape, Issued
  <2> QED
    BY <2>1, <2>2, <2>3, <2>4 DEF Issued
<1>3. Staged'
  <2>1. CASE freeze
    BY <1>1, <2>1 DEF Pipeline, Shape, Staged
  <2>2. CASE ~ freeze
    BY <1>1, <2>2, PipelineForm DEF Staged
  <2> QED
    BY <2>1, <2>2
<1>4. Queued' /\ Len(write_queue') >= Len(write_queue) /\ end_queue' >= end_queue
  <2>1. /\ L3Cache \in Seq(Tiles) /\ Len(L3Cache) <= L3_DEPTH
        /\ write_queue \in Seq(HostAddresses \X Tiles) /\ Len(write_queue) <= WRITE_DEPTH
        /\ end_queue \in 0 .. END_DEPTH
        /\ L3_DEPTH \in Nat /\ WRITE_DEPTH \in Nat /\ END_DEPTH \in Nat
    BY LinkAssumption DEF LinkAssumption, Shape, Queued
  <2>2. L3Cache' \in Seq(Tiles) /\ Len(L3Cache') <= L3_DEPTH
    <3>1. CASE freeze
      BY <1>1, <2>1, <3>1 DEF Pipeline
    <3>2. CASE ~ freeze
      <4>1. L3Cache' \in Seq(Tiles) /\ Len(L3Cache') <= Len(L3Cache)
        BY <1>1, <3>2, PipelineForm
      <4> QED
        BY <2>1, <4>1
    <3> QED
      BY <3>1, <3>2
  <2>3. /\ write_queue' \in Seq(HostAddresses \X Tiles) /\ Len(write_queue') <= WRITE_DEPTH
        /\ Len(write_queue') >= Len(write_queue)
    <3>1. CASE freeze
      BY <1>1, <2>1, <3>1 DEF Pipeline
    <3>2. CASE ~ freeze /\ stage_3.instr.kind # "write"
      <4>1. write_queue' = write_queue
        BY <1>1, <3>2, PipelineForm
      <4> QED
        BY <2>1, <4>1
    <3>3. CASE ~ freeze /\ stage_3.instr.kind = "write"
      <4>1. /\ <<stage_3.instr.addr, stage_3.dat>> \in HostAddresses \X Tiles
            /\ Len(write_queue) < WRITE_DEPTH
            /\ write_queue' = Append(write_queue, <<stage_3.instr.addr, stage_3.dat>>)
        BY <1>1, <3>3, PipelineForm
      <4> QED
        BY <2>1, <4>1
    <3> QED
      BY <3>1, <3>2, <3>3
  <2>4. end_queue' \in 0 .. END_DEPTH /\ end_queue' >= end_queue
    <3>1. \/ end_queue' = end_queue
          \/ ~ freeze /\ stage_1.kind = "end" /\ end_queue' = end_queue + 1
      BY <1>1 DEF QueueEnd
    <3>2. ~ freeze /\ stage_1.kind = "end" => end_queue # END_DEPTH
      BY DEF freeze, EndFull
    <3> QED
      BY <2>1, <3>1, <3>2
  <2> QED
    BY <2>2, <2>3, <2>4 DEF Queued
<1>5. Sending'
  <2>1. S' = S /\ counter' = counter /\ write_addr' = write_addr /\ tx' = tx
        /\ matrix_send_tile' = matrix_send_tile /\ prefetch_dat_r' = prefetch_dat_r
    BY <1>1 DEF sender_vars
  <2>2. write_queue # << >> => write_queue' # << >>
    <3>1. /\ write_queue \in Seq(HostAddresses \X Tiles)
          /\ write_queue' \in Seq(HostAddresses \X Tiles)
      BY <1>4 DEF Shape, Queued
    <3> QED
      BY <1>4, <3>1
  <2>3. end_queue > 0 => end_queue' > 0
    BY <1>4 DEF Shape, Queued
  <2> QED
    BY <2>1, <2>2, <2>3 DEF Shape, Sending, LastByte
<1>6. Received'
  BY <1>1 DEF Shape, Received
<1> QED
  BY <1>2, <1>3, <1>4, <1>5, <1>6 DEF Shape

(* The sender's choice keeps the types.                                    *)
LEMMA ShapeArbitrate == ASSUME Shape, Arbitrate PROVE Shape'
<1>1. /\ S' = Selected /\ counter' = 0
      /\ UNCHANGED <<control_vars, pipeline_vars, L3Cache, write_queue, end_queue,
                     write_addr, matrix_send_tile, tx, rx, pinned_mem, receiver, icache>>
  BY DEF Arbitrate
<1>2. /\ Selected \in SendState \cup {"IDLE"}
      /\ Selected = "SENDING_WRITE" => write_queue # << >>
      /\ Selected = "SENDING_END_PROG_NOTIF" => end_queue > 0
  BY DEF Selected, SendState
<1>3. 0 \in 0 .. 3 + BODY_BYTES /\ 0 <= 2 /\ 0 <= 2 + BODY_BYTES
  BY ByteFacts
<1>4. Sending'
  BY <1>1, <1>2, <1>3 DEF Shape, Sending, LastByte
<1>5. Issued' /\ Staged' /\ Queued' /\ Received'
  BY <1>1 DEF Shape, Issued, Staged, Queued, Received, control_vars, pipeline_vars
<1> QED
  BY <1>4, <1>5 DEF Shape

(* What the byte that opens a packet leaves behind.                        *)
LEMMA HeaderForm ==
    ASSUME Ctl, Shape, SendHeader
    PROVE  /\ S' = S /\ S \in SendState /\ counter = 0 /\ counter' = 1
           /\ Header \in {2, 3, 4} /\ tx' = Append(tx, Header)
           /\ S = "SENDING_READ_REQUEST" => prefetch_dat_r' \in HostAddresses
           /\ S = "SENDING_WRITE" =>
                 /\ write_queue # << >> /\ Head(write_queue) \in HostAddresses \X Tiles
                 /\ write_addr' = Head(write_queue)[1]
                 /\ matrix_send_tile' = Head(write_queue)[2]
                 /\ write_queue' = Tail(write_queue)
           /\ S # "SENDING_WRITE" => UNCHANGED <<write_addr, matrix_send_tile, write_queue>>
           /\ S = "SENDING_END_PROG_NOTIF" => end_queue > 0 /\ end_queue' = end_queue - 1
           /\ S # "SENDING_END_PROG_NOTIF" => end_queue' = end_queue
<1>1. S' = S /\ S \in SendState /\ counter = 0 /\ counter' = 1
  BY DEF SendHeader, Shape, Sending
<1>2. Header \in {2, 3, 4} /\ tx' = Append(tx, Header)
  BY DEF SendHeader, Header
<1>3. S = "SENDING_READ_REQUEST" => prefetch_dat_r' \in HostAddresses
  <2> SUFFICES ASSUME S = "SENDING_READ_REQUEST" PROVE prefetch_dat_r' \in HostAddresses
    OBVIOUS
  <2>1. Prefetched /\ prefetch # << >> /\ PopRead
    BY <1>1 DEF SendHeader, Ctl, Requesting
  <2> QED
    BY <2>1, PopReadForm
<1>4. S = "SENDING_WRITE" =>
         /\ write_queue # << >> /\ Head(write_queue) \in HostAddresses \X Tiles
         /\ write_addr' = Head(write_queue)[1]
         /\ matrix_send_tile' = Head(write_queue)[2]
         /\ write_queue' = Tail(write_queue)
  <2> SUFFICES ASSUME S = "SENDING_WRITE"
               PROVE  /\ write_queue # << >> /\ Head(write_queue) \in HostAddresses \X Tiles
                      /\ write_addr' = Head(write_queue)[1]
                      /\ matrix_send_tile' = Head(write_queue)[2]
                      /\ write_queue' = Tail(write_queue)
    OBVIOUS
  <2>1. write_queue # << >> /\ write_queue \in Seq(HostAddresses \X Tiles)
    BY <1>1 DEF Shape, Sending, Queued
  <2>2. PopWrite
    BY DEF SendHeader
  <2> QED
    BY <2>1, <2>2 DEF PopWrite
<1>5. S # "SENDING_WRITE" => UNCHANGED <<write_addr, matrix_send_tile, write_queue>>
  BY DEF SendHeader
<1>6. /\ S = "SENDING_END_PROG_NOTIF" => end_queue > 0 /\ end_queue' = end_queue - 1
      /\ S # "SENDING_END_PROG_NOTIF" => end_queue' = end_queue
  BY DEF SendHeader, Shape, Sending
<1> QED
  BY <1>1, <1>2, <1>3, <1>4, <1>5, <1>6

(* The byte that opens a packet keeps the types.                           *)
LEMMA ShapeHeader == ASSUME Ctl, Shape, SendHeader PROVE Shape'
<1>1. UNCHANGED <<control_vars, pipeline_vars, L3Cache, rx, pinned_mem, receiver, icache>>
  BY DEF SendHeader
<1>2. Queued'
  <2>1. /\ L3Cache' \in Seq(Tiles) /\ Len(L3Cache') <= L3_DEPTH
        /\ write_queue \in Seq(HostAddresses \X Tiles) /\ Len(write_queue) <= WRITE_DEPTH
        /\ end_queue \in 0 .. END_DEPTH
        /\ WRITE_DEPTH \in Nat /\ END_DEPTH \in Nat
    BY <1>1, LinkAssumption DEF LinkAssumption, Shape, Queued
  <2>2. write_queue' \in Seq(HostAddresses \X Tiles) /\ Len(write_queue') <= WRITE_DEPTH
    <3>1. CASE S = "SENDING_WRITE"
      <4>1. write_queue # << >> /\ write_queue' = Tail(write_queue)
        BY <3>1, HeaderForm
      <4> QED
        BY <2>1, <4>1
    <3>2. CASE S # "SENDING_WRITE"
      <4>1. write_queue' = write_queue
        BY <3>2, HeaderForm
      <4> QED
        BY <2>1, <4>1
    <3> QED
      BY <3>1, <3>2
  <2>3. end_queue' \in 0 .. END_DEPTH
    <3>1. CASE S = "SENDING_END_PROG_NOTIF"
      <4>1. end_queue > 0 /\ end_queue' = end_queue - 1
        BY <3>1, HeaderForm
      <4> QED
        BY <2>1, <4>1
    <3>2. CASE S # "SENDING_END_PROG_NOTIF"
      <4>1. end_queue' = end_queue
        BY <3>2, HeaderForm
      <4> QED
        BY <2>1, <4>1
    <3> QED
      BY <3>1, <3>2
  <2> QED
    BY <2>1, <2>2, <2>3 DEF Queued
<1>3. Sending'
  <2>1. S' \in SendState /\ counter' = 1
    BY HeaderForm
  <2>2. 1 \in 0 .. 3 + BODY_BYTES /\ 1 <= 2 /\ 1 <= 2 + BODY_BYTES
    BY ByteFacts
  <2>3. S' = "SENDING_READ_REQUEST" => prefetch_dat_r' \in HostAddresses
    BY HeaderForm
  <2>4. write_addr' \in Words /\ matrix_send_tile' \in Tiles
    <3>1. CASE S = "SENDING_WRITE"
      <4>1. /\ Head(write_queue) \in HostAddresses \X Tiles
            /\ write_addr' = Head(write_queue)[1]
            /\ matrix_send_tile' = Head(write_queue)[2]
        BY <3>1, HeaderForm
      <4>2. HostAddresses \subseteq Words
        BY ProgramAssumption DEF ProgramAssumption, Words
      <4> QED
        BY <4>1, <4>2
    <3>2. CASE S # "SENDING_WRITE"
      BY <3>2, HeaderForm DEF Shape, Sending
    <3> QED
      BY <3>1, <3>2
  <2>5. tx' \in Seq(Bytes)
    <3>1. tx \in Seq(Bytes) /\ Header \in Bytes /\ tx' = Append(tx, Header)
      BY HeaderForm, Sizes DEF Shape, Sending
    <3> QED
      BY <3>1
  <2> QED
    BY <2>1, <2>2, <2>3, <2>4, <2>5 DEF Sending, LastByte
<1>4. Issued' /\ Staged' /\ Received'
  BY <1>1 DEF Shape, Issued, Staged, Received, control_vars, pipeline_vars
<1> QED
  BY <1>2, <1>3, <1>4 DEF Shape

(* The other bytes of a packet keep the types.                             *)
LEMMA ShapeByte == ASSUME Shape, SendByte PROVE Shape'
<1>1. /\ UNCHANGED <<control_vars, pipeline_vars, L3Cache, write_queue, end_queue, rx,
                     pinned_mem, receiver, icache, write_addr, prefetch_vars>>
      /\ S # "IDLE" /\ counter > 0 /\ counter' = counter + 1
      /\ S' = IF counter = LastByte THEN "IDLE" ELSE S
  BY DEF SendByte
<1>2. counter \in Nat /\ counter <= LastByte /\ S \in SendState \cup {"IDLE"}
  BY <1>1 DEF Shape, Sending
<1>3. BODY_BYTES \in Nat \ {0} /\ LastByte \in Nat /\ LastByte <= 2 + BODY_BYTES
  BY ByteFacts DEF LastByte
<1>4. AddressSent \in Words
  <2>1. HostAddresses \subseteq Words
    BY ProgramAssumption DEF ProgramAssumption, Words
  <2>2. S = "SENDING_READ_REQUEST" => prefetch_dat_r \in HostAddresses
    BY <1>1 DEF Shape, Sending
  <2> QED
    BY <2>1, <2>2, Sizes DEF AddressSent, Shape, Sending
<1>5. matrix_send_tile \in Tiles /\ Head(matrix_send_tile) \in Bytes
      /\ ShiftIn(matrix_send_tile, 0) \in Tiles
  <2>1. matrix_send_tile \in [1 .. BODY_BYTES -> Bytes]
    BY DEF Shape, Sending, Tiles
  <2>2. ShiftIn(matrix_send_tile, 0) \in Tiles
    BY <1>3, <2>1, ShiftFacts, Sizes DEF Tiles
  <2>3. Head(matrix_send_tile) = matrix_send_tile[1]
    OBVIOUS
  <2>4. 1 \in 1 .. BODY_BYTES
    BY <1>3
  <2> QED
    BY <2>1, <2>2, <2>3, <2>4 DEF Tiles
<1>6. Sending'
  <2>1. S' \in SendState \cup {"IDLE"} /\ counter' \in 0 .. 3 + BODY_BYTES /\ counter' # 0
        /\ (S' # "IDLE" => S' = S /\ counter' <= LastByte)
    BY <1>1, <1>2, <1>3
  <2>2. S' # "IDLE" => counter' <= LastByte'
    BY <2>1 DEF LastByte
  <2>3. S' = "SENDING_READ_REQUEST" => prefetch_dat_r' \in HostAddresses
    BY <1>1, <2>1 DEF Shape, Sending, prefetch_vars
  <2>4. tx' \in Seq(Bytes)
    <3> DEFINE byte == IF counter = 1 THEN High(AddressSent)
                       ELSE IF counter = 2 THEN Low(AddressSent) ELSE Head(matrix_send_tile)
    <3>1. AddressSent \in Int
      BY <1>4 DEF Words
    <3>2. byte \in Bytes
      BY <1>5, <3>1, ByteFacts
    <3>3. tx' = Append(tx, byte) /\ tx \in Seq(Bytes)
      BY DEF SendByte, Shape, Sending
    <3> HIDE DEF byte
    <3> QED
      BY <3>2, <3>3
  <2>5. matrix_send_tile' \in Tiles
    BY <1>5 DEF SendByte
  <2>6. write_addr' \in Words
    BY <1>1 DEF Shape, Sending
  <2> QED
    BY <2>1, <2>2, <2>3, <2>4, <2>5, <2>6 DEF Sending
<1>7. Issued' /\ Staged' /\ Queued' /\ Received'
  BY <1>1 DEF Shape, Issued, Staged, Queued, Received, control_vars, pipeline_vars
<1> QED
  BY <1>6, <1>7 DEF Shape

(* The host takes a whole packet; the address in it is one the host has.   *)
LEMMA ShapeHost ==
    ASSUME Shape, HostStep, HostAddr \in HostAddresses \/ ProgramComplete
    PROVE  Shape'
<1>1. UNCHANGED <<control_vars, pipeline_vars, L3Cache, write_queue, end_queue, S, counter,
                  write_addr, matrix_send_tile, receiver, icache, prefetch_dat_r>>
  BY DEF HostStep, sender_vars, prefetch_vars
<1>2. tx \in Seq(Bytes) /\ Len(tx) \in Nat /\ BODY_BYTES \in Nat \ {0}
  BY ByteFacts DEF Shape, Sending
<1>3. \A m, n \in Nat : m >= 1 /\ n = Len(tx) => SubSeq(tx, m, n) \in Seq(Bytes)
  BY <1>2
<1>4. tx' \in Seq(Bytes)
  <2>1. tx' = SubSeq(tx, 4, Len(tx)) \/ tx' = SubSeq(tx, 4 + BODY_BYTES, Len(tx))
    BY DEF HostStep, AnswerRead, DoWrite, ProgramComplete
  <2>2. SubSeq(tx, 4, Len(tx)) \in Seq(Bytes)
    BY <1>2, <1>3
  <2>3. SubSeq(tx, 4 + BODY_BYTES, Len(tx)) \in Seq(Bytes)
    BY <1>2, <1>3
  <2> QED
    BY <2>1, <2>2, <2>3
<1>5. rx' \in Seq(Bytes) /\ pinned_mem' \in [HostAddresses -> Tiles]
  <2>1. rx \in Seq(Bytes) /\ pinned_mem \in [HostAddresses -> Tiles]
    BY DEF Shape, Received
  <2>2. CASE AnswerRead
    <3>1. HostAddr \in HostAddresses
      BY <2>2 DEF AnswerRead, ProgramComplete
    <3>2. pinned_mem[HostAddr] \in Tiles
      BY <2>1, <3>1
    <3>3. pinned_mem[HostAddr] \in Seq(Bytes)
      BY <1>2, <3>2 DEF Tiles
    <3>4. << 3 >> \in Seq(Bytes)
      BY Sizes
    <3>5. \A x, y \in Seq(Bytes) : x \o y \in Seq(Bytes)
      OBVIOUS
    <3> QED
      BY <2>1, <2>2, <3>3, <3>4, <3>5 DEF AnswerRead
  <2>3. CASE DoWrite
    <3> DEFINE body == SubSeq(tx, 4, 3 + BODY_BYTES)
    <3>1. Len(tx) >= 3 + BODY_BYTES
      BY <2>3 DEF DoWrite
    <3>2. body \in Tiles
      <4>1. body = [i \in 1 .. (3 + BODY_BYTES) - 4 + 1 |-> tx[i + 4 - 1]]
        BY <1>2
      <4>2. \A i \in 1 .. BODY_BYTES : i + 4 - 1 \in 1 .. Len(tx) /\ tx[i + 4 - 1] \in Bytes
        BY <1>2, <3>1
      <4>3. (3 + BODY_BYTES) - 4 + 1 = BODY_BYTES
        BY <1>2
      <4> QED
        BY <4>1, <4>2, <4>3 DEF Tiles
    <3>3. pinned_mem' = [pinned_mem EXCEPT ![HostAddr] = body] /\ rx' = rx
      BY <2>3 DEF DoWrite
    <3> HIDE DEF body
    <3> QED
      BY <2>1, <3>2, <3>3
  <2>4. CASE ProgramComplete
    BY <2>1, <2>4 DEF ProgramComplete
  <2> QED
    BY <2>2, <2>3, <2>4 DEF HostStep
<1>6. Received'
  BY <1>1, <1>5 DEF Shape, Received
<1>7. Sending'
  BY <1>1, <1>4 DEF Shape, Sending, LastByte
<1>8. Issued' /\ Staged' /\ Queued'
  BY <1>1 DEF Shape, Issued, Staged, Queued, control_vars, pipeline_vars
<1> QED
  BY <1>6, <1>7, <1>8 DEF Shape

(* The registers of the receiver keep their widths.                        *)
LEMMA ReceiverTyped ==
    ASSUME receiver \in ReceiverRec, NEW byte \in Bytes
    PROVE  /\ StartPacketOf(byte) \in ReceiverRec /\ Upload(byte) \in ReceiverRec
           /\ Enqueue(byte) \in ReceiverRec /\ ReadResult(byte) \in ReceiverRec
<1> DEFINE States == {"IDLE", "UPLOAD_PROG_PACKET", "ENQUEUE_PROG_PACKET",
                      "DATA_READ_RESULT_PACKET"}
<1>1. /\ receiver.S \in States /\ receiver.counter \in Nat
      /\ receiver.packet_instr_count \in Nat /\ receiver.instr_MSB \in BOOLEAN
      /\ receiver.addr \in Words /\ receiver.dat \in Words /\ receiver.tile \in Tiles
      /\ receiver.enqueue \in [1 .. 5 -> Bytes]
  BY DEF ReceiverRec
<1>2. byte \in Nat /\ byte \div 4 \in Nat
  <2>1. byte \in Int /\ 0 <= byte
    BY Sizes DEF Bytes
  <2> QED
    BY <2>1
<1>3. receiver.counter + 1 \in Nat
  BY <1>1
<1>4. /\ BYTE * byte + Low(receiver.addr) \in Words
      /\ BYTE * High(receiver.addr) + byte \in Words
      /\ BYTE * byte + Low(receiver.dat) \in Words
      /\ BYTE * High(receiver.dat) + byte \in Words
  BY <1>1, ByteFacts
<1>5. (receiver.addr - 1) % WORD \in Words /\ (receiver.addr + 1) % WORD \in Words
  <2>1. receiver.addr \in Int
    BY <1>1 DEF Words
  <2>2. \A n \in Int : n % 65536 \in Int /\ 0 <= n % 65536 /\ n % 65536 <= 65535
    OBVIOUS
  <2> QED
    BY <2>1, <2>2, Sizes
<1>6. /\ ShiftIn(receiver.tile, byte) \in Tiles
      /\ ShiftIn(receiver.enqueue, byte) \in [1 .. 5 -> Bytes]
  <2>1. ShiftIn(receiver.tile, byte) \in Tiles
    <3>1. receiver.tile \in [1 .. BODY_BYTES -> Bytes] /\ BODY_BYTES \in Nat \ {0}
      BY <1>1, ByteFacts DEF Tiles
    <3> QED
      BY <3>1, ShiftFacts DEF Tiles
  <2>2. ShiftIn(receiver.enqueue, byte) \in [1 .. 5 -> Bytes]
    <3>1. 5 \in Nat \ {0}
      OBVIOUS
    <3> QED
      BY <1>1, <3>1, ShiftFacts
  <2> QED
    BY <2>1, <2>2
<1>7. StartPacketOf(byte) \in ReceiverRec
  <2>1. (CASE byte % 4 = 1 -> "UPLOAD_PROG_PACKET" [] byte % 4 = 2 -> "ENQUEUE_PROG_PACKET"
           [] byte % 4 = 3 -> "DATA_READ_RESULT_PACKET" [] OTHER -> "IDLE") \in States
    OBVIOUS
  <2> QED
    BY <1>1, <1>2, <2>1 DEF StartPacketOf, ReceiverRec
<1>8. Upload(byte) \in ReceiverRec
  <2>1. UploadHigh(byte) \in ReceiverRec
    BY <1>1, <1>4, <1>5 DEF UploadHigh, ReceiverRec
  <2>2. UploadLow(byte) \in ReceiverRec
    BY <1>1, <1>3, <1>4, <1>5 DEF UploadLow, ReceiverRec
  <2>3. /\ [receiver EXCEPT !.counter = 1, !.addr = BYTE * byte + Low(@)] \in ReceiverRec
        /\ [receiver EXCEPT !.counter = 2, !.addr = BYTE * High(@) + byte,
                            !.instr_MSB = TRUE] \in ReceiverRec
    BY <1>1, <1>4 DEF ReceiverRec
  <2> QED
    BY <2>1, <2>2, <2>3 DEF Upload
<1>9. Enqueue(byte) \in ReceiverRec
  BY <1>1, <1>3, <1>6 DEF Enqueue, ReceiverRec
<1>10. ReadResult(byte) \in ReceiverRec
  BY <1>1, <1>3, <1>6 DEF ReadResult, ReceiverRec
<1> QED
  BY <1>7, <1>8, <1>9, <1>10

(* A byte at the receiver keeps the types.                                 *)
LEMMA ShapeReceive == ASSUME Shape, ReceiveByte PROVE Shape'
<1>1. /\ UNCHANGED <<control_vars, pipeline_vars, write_queue, end_queue, sender_vars, tx,
                     pinned_mem, prefetch_dat_r>>
      /\ rx # << >> /\ rx' = Tail(rx)
  BY DEF ReceiveByte, prefetch_vars
<1>2. rx \in Seq(Bytes) /\ Head(rx) \in Bytes /\ rx' \in Seq(Bytes) /\ receiver \in ReceiverRec
  BY <1>1 DEF Shape, Received
<1>3. receiver' \in ReceiverRec
  <2>1. \/ receiver' = StartPacketOf(Head(rx)) \/ receiver' = Upload(Head(rx))
        \/ receiver' = Enqueue(Head(rx)) \/ receiver' = ReadResult(Head(rx))
    BY DEF ReceiveByte
  <2> QED
    BY <1>2, <2>1, ReceiverTyped
<1>4. receiver'.addr \in Words /\ receiver'.tile \in Tiles
  BY <1>3 DEF ReceiverRec
<1>5. DOMAIN icache' \subseteq Words
  <2>1. icache' = icache \/ icache' = [a \in DOMAIN icache \cup {receiver'.addr} |->
                                         IF a = receiver'.addr THEN receiver'.dat
                                         ELSE icache[a]]
    BY DEF ReceiveByte
  <2> QED
    BY <1>4, <2>1 DEF Shape, Received
<1>6. Queued'
  <2>1. L3Cache \in Seq(Tiles) /\ Len(L3Cache) <= L3_DEPTH /\ L3_DEPTH \in Nat
    BY LinkAssumption DEF LinkAssumption, Shape, Queued
  <2>2. \/ L3Cache' = L3Cache
        \/ Len(L3Cache) < L3_DEPTH /\ L3Cache' = Append(L3Cache, receiver'.tile)
    BY DEF ReceiveByte
  <2>3. L3Cache' \in Seq(Tiles) /\ Len(L3Cache') <= L3_DEPTH
    BY <1>4, <2>1, <2>2
  <2> QED
    BY <1>1, <2>3 DEF Shape, Queued
<1>7. Received'
  BY <1>1, <1>2, <1>3, <1>5 DEF Shape, Received
<1>8. Issued' /\ Staged' /\ Sending'
  BY <1>1 DEF Shape, Issued, Staged, Sending, LastByte, control_vars, pipeline_vars,
     sender_vars
<1> QED
  BY <1>6, <1>7, <1>8 DEF Shape

(* A stutter keeps the types.                                              *)
LEMMA ShapeStutter == ASSUME Shape, UNCHANGED vars PROVE Shape'
<1>1. UNCHANGED <<control_vars, pipeline_vars, L3Cache, write_queue, end_queue, sender_vars,
                  tx, rx, pinned_mem, receiver, icache, prefetch_vars>>
  BY DEF vars
<1> QED
  BY <1>1 DEF Shape, Issued, Staged, Queued, Sending, Received, LastByte, control_vars,
     pipeline_vars, sender_vars, prefetch_vars

(* What waits in s of the copies c of a kind, of which lo have left: s     *)
(* holds the others, in order, among copies of other kinds.                *)
Waits(s, c, kind, lo) ==
    \E f \in [1 .. Len(s) + 1 -> 0 .. Len(c)] :
        /\ f[1] = lo /\ f[Len(s) + 1] = Len(c)
        /\ \A i \in 1 .. Len(s) :
              IF s[i].kind = kind THEN f[i + 1] = f[i] + 1 /\ s[i] = c[f[i] + 1]
              ELSE f[i + 1] = f[i]

(* Where nothing waits, all have left.                                     *)
LEMMA WaitsEmpty ==
    ASSUME NEW c \in Seq(CopyRec), NEW kind, NEW lo
    PROVE  Waits(<< >>, c, kind, lo) <=> lo = Len(c)
<1>1. Len(<< >>) = 0 /\ Len(c) \in Nat
  OBVIOUS
<1>2. Waits(<< >>, c, kind, lo) => lo = Len(c)
  BY <1>1 DEF Waits
<1>3. lo = Len(c) => Waits(<< >>, c, kind, lo)
  <2> SUFFICES ASSUME lo = Len(c) PROVE Waits(<< >>, c, kind, lo)
    OBVIOUS
  <2> DEFINE f == [i \in 1 .. 1 |-> Len(c)]
  <2>1. f \in [1 .. Len(<< >>) + 1 -> 0 .. Len(c)]
    BY <1>1
  <2>2. f[1] = lo /\ f[Len(<< >>) + 1] = Len(c)
    BY <1>1
  <2>3. \A i \in 1 .. Len(<< >>) : FALSE
    BY <1>1
  <2> HIDE DEF f
  <2> QED
    BY <2>1, <2>2, <2>3 DEF Waits
<1> QED
  BY <1>2, <1>3

(* The first of those that wait is the next of its kind.                   *)
LEMMA WaitsHead ==
    ASSUME NEW s \in Seq(CopyRec), s # << >>, NEW c \in Seq(CopyRec), NEW kind,
           NEW lo \in Nat, Waits(s, c, kind, lo)
    PROVE  /\ Head(s).kind = kind =>
                 lo + 1 <= Len(c) /\ Head(s) = c[lo + 1] /\ Waits(Tail(s), c, kind, lo + 1)
           /\ Head(s).kind # kind => Waits(Tail(s), c, kind, lo)
<1>1. PICK f \in [1 .. Len(s) + 1 -> 0 .. Len(c)] :
        /\ f[1] = lo /\ f[Len(s) + 1] = Len(c)
        /\ \A i \in 1 .. Len(s) :
              IF s[i].kind = kind THEN f[i + 1] = f[i] + 1 /\ s[i] = c[f[i] + 1]
              ELSE f[i + 1] = f[i]
  BY DEF Waits
<1>2. Len(s) \in Nat \ {0} /\ Len(Tail(s)) = Len(s) - 1 /\ Head(s) = s[1] /\ Len(c) \in Nat
      /\ \A i \in 1 .. Len(s) - 1 : Tail(s)[i] = s[i + 1]
  OBVIOUS
<1> DEFINE g == [i \in 1 .. Len(s) |-> f[i + 1]]
<1>3. g \in [1 .. Len(Tail(s)) + 1 -> 0 .. Len(c)]
  <2>1. \A i \in 1 .. Len(s) : f[i + 1] \in 0 .. Len(c)
    BY <1>2
  <2>2. Len(Tail(s)) + 1 = Len(s)
    BY <1>2
  <2> QED
    BY <2>1, <2>2
<1>4. g[1] = f[2] /\ g[Len(Tail(s)) + 1] = Len(c)
  <2>1. Len(Tail(s)) + 1 = Len(s) /\ 1 \in 1 .. Len(s) /\ Len(s) \in 1 .. Len(s)
    BY <1>2
  <2> QED
    BY <1>1, <2>1
<1>5. ASSUME NEW i \in 1 .. Len(Tail(s))
      PROVE  IF Tail(s)[i].kind = kind THEN g[i + 1] = g[i] + 1 /\ Tail(s)[i] = c[g[i] + 1]
             ELSE g[i + 1] = g[i]
  <2>1. i \in 1 .. Len(s) - 1 /\ i + 1 \in 1 .. Len(s) /\ i \in 1 .. Len(s)
    BY <1>2
  <2>2. g[i + 1] = f[(i + 1) + 1] /\ g[i] = f[i + 1] /\ Tail(s)[i] = s[i + 1]
    BY <1>2, <2>1
  <2> HIDE DEF g
  <2> QED
    BY <1>1, <2>1, <2>2
<1> HIDE DEF g
<1>6. Waits(Tail(s), c, kind, f[2])
  BY <1>3, <1>4, <1>5 DEF Waits
<1>7. 1 \in 1 .. Len(s) /\ 1 + 1 = 2 /\ f[2] \in 0 .. Len(c)
  BY <1>2
<1>8. IF Head(s).kind = kind THEN f[2] = lo + 1 /\ Head(s) = c[lo + 1] ELSE f[2] = lo
  BY <1>1, <1>2, <1>7
<1> QED
  BY <1>2, <1>6, <1>7, <1>8

(* What is pushed waits behind the others.                                 *)
LEMMA WaitsPushed ==
    ASSUME NEW s \in Seq(CopyRec), NEW c \in Seq(CopyRec), NEW x \in Seq(CopyRec), NEW kind,
           NEW lo, Waits(s, c, kind, lo),
           NEW more \in Seq(CopyRec),
           \/ more = x /\ \A i \in 1 .. Len(x) : x[i].kind = kind
           \/ more = << >> /\ \A i \in 1 .. Len(x) : x[i].kind # kind
    PROVE  Waits(s \o x, c \o more, kind, lo)
<1>1. PICK f \in [1 .. Len(s) + 1 -> 0 .. Len(c)] :
        /\ f[1] = lo /\ f[Len(s) + 1] = Len(c)
        /\ \A i \in 1 .. Len(s) :
              IF s[i].kind = kind THEN f[i + 1] = f[i] + 1 /\ s[i] = c[f[i] + 1]
              ELSE f[i + 1] = f[i]
  BY DEF Waits
<1>2. /\ Len(s) \in Nat /\ Len(c) \in Nat /\ Len(x) \in Nat /\ Len(more) \in Nat
      /\ Len(s \o x) = Len(s) + Len(x) /\ Len(c \o more) = Len(c) + Len(more)
      /\ \A i \in 1 .. Len(s) : (s \o x)[i] = s[i]
      /\ \A i \in 1 .. Len(x) : (s \o x)[Len(s) + i] = x[i]
      /\ \A i \in 1 .. Len(c) : (c \o more)[i] = c[i]
      /\ \A i \in 1 .. Len(more) : (c \o more)[Len(c) + i] = more[i]
  OBVIOUS
<1>0. Len(s) \in Nat /\ Len(c) \in Nat /\ Len(x) \in Nat /\ Len(more) \in Nat
  OBVIOUS
<1> DEFINE step == IF more = << >> THEN 0 ELSE 1
           g == [i \in 1 .. Len(s) + Len(x) + 1 |->
                   IF i <= Len(s) + 1 THEN f[i] ELSE Len(c) + step * (i - (Len(s) + 1))]
<1>3. Len(more) = step * Len(x) /\ step \in {0, 1}
  <2>1. more = << >> => Len(more) = 0 /\ step = 0
    OBVIOUS
  <2>2. more # << >> => more = x /\ step = 1
    OBVIOUS
  <2> QED
    BY <1>2, <2>1, <2>2
<1>4. \A i \in 1 .. Len(s) + 1 : i \in 1 .. Len(s) + Len(x) + 1 /\ g[i] = f[i]
                                 /\ f[i] \in 0 .. Len(c)
  <2> TAKE i \in 1 .. Len(s) + 1
  <2>1. i \in 1 .. Len(s) + Len(x) + 1 /\ i <= Len(s) + 1
    BY <1>0
  <2> QED
    BY <2>1
<1>5. \A j \in 0 .. Len(x) : /\ Len(s) + 1 + j \in 1 .. Len(s) + Len(x) + 1
                             /\ g[Len(s) + 1 + j] = Len(c) + step * j
  <2> SUFFICES ASSUME NEW j \in 0 .. Len(x)
               PROVE  /\ Len(s) + 1 + j \in 1 .. Len(s) + Len(x) + 1
                      /\ g[Len(s) + 1 + j] = Len(c) + step * j
    OBVIOUS
  <2>1. Len(s) + 1 + j \in 1 .. Len(s) + Len(x) + 1
    BY <1>2
  <2>2. CASE j = 0
    <3>1. Len(s) + 1 + j = Len(s) + 1 /\ Len(s) + 1 \in 1 .. Len(s) + 1 /\ step * j = 0
      BY <1>2, <1>3, <2>2
    <3>2. g[Len(s) + 1] = Len(c)
      BY <1>1, <1>4, <3>1
    <3> HIDE DEF g, step
    <3> QED
      BY <1>2, <2>1, <3>1, <3>2
  <2>3. CASE j # 0
    <3>1. ~ (Len(s) + 1 + j <= Len(s) + 1) /\ (Len(s) + 1 + j) - (Len(s) + 1) = j
      BY <1>2, <2>3
    <3>2. g[Len(s) + 1 + j] = Len(c) + step * ((Len(s) + 1 + j) - (Len(s) + 1))
      BY <2>1, <3>1
    <3> HIDE DEF g, step
    <3> QED
      BY <2>1, <3>1, <3>2
  <2> QED
    BY <2>2, <2>3
<1>6. \A i \in 1 .. Len(s) + Len(x) + 1 :
         i \in 1 .. Len(s) + 1 \/ \E j \in 0 .. Len(x) : i = Len(s) + 1 + j
  <2> TAKE i \in 1 .. Len(s) + Len(x) + 1
  <2>1. i > Len(s) + 1 => i - (Len(s) + 1) \in 0 .. Len(x)
                          /\ i = Len(s) + 1 + (i - (Len(s) + 1))
    BY <1>0
  <2>2. i <= Len(s) + 1 => i \in 1 .. Len(s) + 1
    BY <1>0
  <2>3. i <= Len(s) + 1 \/ i > Len(s) + 1
    BY <1>0
  <2> QED
    BY <2>1, <2>2, <2>3
<1>7. DOMAIN g = 1 .. Len(s) + Len(x) + 1 /\ g = [i \in 1 .. Len(s) + Len(x) + 1 |-> g[i]]
  OBVIOUS
<1> HIDE DEF g, step
<1>8. g \in [1 .. Len(s \o x) + 1 -> 0 .. Len(c \o more)]
  <2>1. \A j \in 0 .. Len(x) : Len(c) + step * j \in 0 .. Len(c) + Len(more)
    BY <1>2, <1>3
  <2>2. \A i \in 1 .. Len(s) + 1 : g[i] \in 0 .. Len(c) + Len(more)
    BY <1>2, <1>4
  <2>3. \A i \in 1 .. Len(s) + Len(x) + 1 : g[i] \in 0 .. Len(c) + Len(more)
    <3> TAKE i \in 1 .. Len(s) + Len(x) + 1
    <3>1. CASE i \in 1 .. Len(s) + 1
      BY <2>2, <3>1
    <3>2. ASSUME NEW j \in 0 .. Len(x), i = Len(s) + 1 + j
          PROVE  g[i] \in 0 .. Len(c) + Len(more)
      BY <1>5, <2>1, <3>2
    <3> QED
      BY <1>6, <3>1, <3>2
  <2> QED
    BY <1>2, <1>7, <2>3
<1>9. g[1] = lo /\ g[Len(s \o x) + 1] = Len(c \o more)
  <2>1. 1 \in 1 .. Len(s) + 1 /\ Len(x) \in 0 .. Len(x)
        /\ Len(s \o x) + 1 = Len(s) + 1 + Len(x)
    BY <1>2
  <2> QED
    BY <1>1, <1>2, <1>3, <1>4, <1>5, <2>1
<1>10. ASSUME NEW i \in 1 .. Len(s \o x)
       PROVE  IF (s \o x)[i].kind = kind
              THEN g[i + 1] = g[i] + 1 /\ (s \o x)[i] = (c \o more)[g[i] + 1]
              ELSE g[i + 1] = g[i]
  <2>1. CASE i <= Len(s)
    <3>1. i \in 1 .. Len(s) /\ i \in 1 .. Len(s) + 1 /\ i + 1 \in 1 .. Len(s) + 1
      BY <1>2, <2>1
    <3>2. g[i] = f[i] /\ g[i + 1] = f[i + 1] /\ (s \o x)[i] = s[i]
      BY <1>2, <1>4, <3>1
    <3>3. f[i + 1] = f[i] + 1 => f[i] + 1 \in 1 .. Len(c)
      BY <1>2, <1>4, <3>1
    <3>4. f[i + 1] = f[i] + 1 => (c \o more)[f[i] + 1] = c[f[i] + 1]
      BY <1>2, <3>3
    <3> QED
      BY <1>1, <3>1, <3>2, <3>4
  <2>2. CASE i > Len(s)
    <3> DEFINE j == i - Len(s)
    <3>0. i \in 1 .. Len(s) + Len(x)
      BY <1>2
    <3>1. j \in 1 .. Len(x) /\ j \in 0 .. Len(x) /\ j - 1 \in 0 .. Len(x)
          /\ i = Len(s) + j /\ i + 1 = Len(s) + 1 + j /\ i = Len(s) + 1 + (j - 1)
      BY <1>0, <2>2, <3>0
    <3> HIDE DEF j
    <3>2. /\ (s \o x)[i] = x[j]
          /\ g[i] = Len(c) + step * (j - 1) /\ g[i + 1] = Len(c) + step * j
      BY <1>2, <1>5, <3>1
    <3>3. CASE more = << >>
      <4>1. Len(more) = 0 /\ Len(x) # 0
        BY <3>1, <3>3
      <4>2. step = 0 /\ x[j].kind # kind
        BY <3>1, <3>3, <4>1 DEF step
      <4> QED
        BY <1>2, <3>1, <3>2, <4>2
    <3>4. CASE more # << >>
      <4>1. step = 1 /\ more = x /\ x[j].kind = kind
        BY <3>1, <3>4 DEF step
      <4>2. g[i] = Len(c) + (j - 1) /\ g[i + 1] = Len(c) + j
        BY <1>2, <3>1, <3>2, <4>1
      <4>3. g[i] + 1 = Len(c) + j /\ g[i + 1] = g[i] + 1
        BY <1>2, <3>1, <4>2
      <4>4. (c \o more)[Len(c) + j] = x[j]
        BY <1>2, <3>1, <4>1
      <4> QED
        BY <3>2, <4>1, <4>3, <4>4
    <3> QED
      BY <3>3, <3>4
  <2>3. i \in 1 .. Len(s) + Len(x)
    BY <1>2
  <2>4. i <= Len(s) \/ i > Len(s)
    BY <1>0, <2>3
  <2> QED
    BY <2>1, <2>2, <2>4
<1> QED
  BY <1>8, <1>9, <1>10 DEF Waits

(* What an edge pushes, and the address and tile of a write.               *)
Pushing == IF control = "push" THEN CopiesOf(next_group) ELSE << >>

ItemOf(c, m) == <<c[m].addr, Tile(c[m].value)>>
One(kind) == IF kind = "write" THEN 1 ELSE 0

(* The writes behind the q that have left the queue of writes: in it, in   *)
(* the stages and waiting, each in its place.                              *)
Behind(q) ==
    LET q1 == q + Len(write_queue)
        q2 == q1 + One(stage_3.instr.kind)
        q3 == q2 + One(stage_2.instr.kind)
        q4 == q3 + One(stage_1.kind)
    IN  /\ \A i \in 1 .. Len(write_queue) : write_queue[i] = ItemOf(Writes, q + i)
        /\ stage_3.instr.kind = "write" =>
              <<stage_3.instr.addr, stage_3.dat>> = ItemOf(Writes, q1 + 1)
        /\ stage_2.instr.kind = "write" =>
              <<stage_2.instr.addr, Tile(stage_2.instr.value)>> = ItemOf(Writes, q2 + 1)
        /\ stage_1.kind = "write" =>
              <<stage_1.addr, Tile(stage_1.value)>> = ItemOf(Writes, q3 + 1)
        /\ Waits(waiting, Writes, "write", q4)

-----------------------------------------------------------------------------
(* What a push adds to the copies of a kind, and to those that wait.       *)
LEMMA PushForm ==
    ASSUME Ctl, Shape, NEW insert \in BOOLEAN, Control(insert), NEW kind \in Kinds
    PROVE  /\ Pushing \in Seq(CopyRec) /\ pushed[kind] \in Seq(CopyRec)
           /\ pushed'[kind] \in Seq(CopyRec)
           /\ Len(pushed[kind]) <= Len(pushed'[kind])
           /\ \A i \in 1 .. Len(pushed[kind]) : pushed'[kind][i] = pushed[kind][i]
           /\ \A s \in Seq(CopyRec) : \A lo :
                 Waits(s, pushed[kind], kind, lo) => Waits(s \o Pushing, pushed'[kind], kind, lo)
<1>1. pushed[kind] \in Seq(CopyRec)
  BY DEF Shape, Issued
<1>2. PICK more \in Seq(CopyRec) :
         /\ pushed'[kind] = pushed[kind] \o more /\ Pushing \in Seq(CopyRec)
         /\ \/ more = Pushing /\ \A i \in 1 .. Len(Pushing) : Pushing[i].kind = kind
            \/ more = << >> /\ \A i \in 1 .. Len(Pushing) : Pushing[i].kind # kind
  <2>1. CASE control = "push"
    <3>1. /\ Pushing = CopiesOf(next_group) /\ Pushing \in Seq(CopyRec)
          /\ program.groups[next_group].kind \in Kinds
          /\ \A i \in 1 .. Len(Pushing) : Pushing[i].kind = program.groups[next_group].kind
      BY <2>1, CopiesFacts DEF Pushing, Ctl, Controlled
    <3>2. pushed' = [pushed EXCEPT ![program.groups[next_group].kind] = @ \o Pushing]
      BY <2>1, <3>1 DEF Control
    <3>3. pushed \in [Kinds -> Seq(CopyRec)]
      BY DEF Shape, Issued
    <3>4. CASE program.groups[next_group].kind = kind
      <4>1. pushed'[kind] = pushed[kind] \o Pushing
        BY <3>1, <3>2, <3>3, <3>4
      <4> QED
        BY <3>1, <3>4, <4>1
    <3>5. CASE program.groups[next_group].kind # kind
      <4>1. pushed'[kind] = pushed[kind]
        BY <3>1, <3>2, <3>3, <3>5
      <4>2. pushed'[kind] = pushed[kind] \o << >> /\ << >> \in Seq(CopyRec)
        BY <1>1, <4>1
      <4> QED
        BY <3>1, <3>5, <4>2
    <3> QED
      BY <3>4, <3>5
  <2>2. CASE control # "push"
    <3>1. pushed' = pushed /\ Pushing = << >>
      BY <2>2 DEF Control, Pushing
    <3>2. pushed'[kind] = pushed[kind] \o << >> /\ << >> \in Seq(CopyRec)
      BY <1>1, <3>1
    <3>3. \A i \in 1 .. Len(<< >>) : FALSE
      OBVIOUS
    <3> QED
      BY <3>1, <3>2, <3>3
  <2> QED
    BY <2>1, <2>2
<1>3. pushed'[kind] \in Seq(CopyRec) /\ Len(pushed[kind]) <= Len(pushed'[kind])
      /\ \A i \in 1 .. Len(pushed[kind]) : pushed'[kind][i] = pushed[kind][i]
  BY <1>1, <1>2
<1>4. ASSUME NEW s \in Seq(CopyRec), NEW lo, Waits(s, pushed[kind], kind, lo)
      PROVE  Waits(s \o Pushing, pushed'[kind], kind, lo)
  <2>1. Waits(s \o Pushing, pushed[kind] \o more, kind, lo)
    BY <1>1, <1>2, <1>4, WaitsPushed
  <2> QED
    BY <1>2, <2>1
<1> QED
  BY <1>1, <1>2, <1>3, <1>4

(* The places of the writes, and how many there can be.                    *)
LEMMA BehindFacts ==
    ASSUME Shape, NEW q \in Nat, Behind(q)
    PROVE  /\ Writes \in Seq(CopyRec) /\ Len(write_queue) \in Nat
           /\ One(stage_3.instr.kind) \in {0, 1} /\ One(stage_2.instr.kind) \in {0, 1}
           /\ One(stage_1.kind) \in {0, 1}
           /\ q + Len(write_queue) + One(stage_3.instr.kind) + One(stage_2.instr.kind)
                + One(stage_1.kind) <= Len(Writes)
<1>1. /\ Writes \in Seq(CopyRec) /\ waiting \in Seq(CopyRec)
      /\ write_queue \in Seq(HostAddresses \X Tiles)
  BY DEF Shape, Issued, Queued, Writes, Kinds
<1> DEFINE q4 == q + Len(write_queue) + One(stage_3.instr.kind) + One(stage_2.instr.kind)
                   + One(stage_1.kind)
<1>2. Waits(waiting, Writes, "write", q4)
  BY DEF Behind
<1>3. q4 \in 0 .. Len(Writes)
  <2>1. Len(waiting) \in Nat /\ 1 \in 1 .. Len(waiting) + 1
    BY <1>1
  <2> HIDE DEF q4
  <2> QED
    BY <1>2, <2>1 DEF Waits
<1>4. q4 <= Len(Writes)
  <2> HIDE DEF q4
  <2> QED
    BY <1>1, <1>3
<1> QED
  BY <1>1, <1>4 DEF One

(* An edge of the core moves the writes on, from the instruction queue to  *)
(* the queue of writes, and passes none.                                   *)
LEMMA BehindEdge ==
    ASSUME Ctl, Shape, NEW insert \in BOOLEAN, NEW issue \in BOOLEAN, Edge(insert, issue),
           NEW q \in Nat, Behind(q)
    PROVE  /\ Behind(q)'
           /\ Len(Writes) <= Len(Writes')
           /\ \A m \in 1 .. Len(Writes) : Writes'[m] = Writes[m]
<1> DEFINE a == Len(write_queue)
           b == One(stage_3.instr.kind)
           c == One(stage_2.instr.kind)
           d == One(stage_1.kind)
<1>1. /\ Control(insert) /\ Pipeline /\ Writes \in Seq(CopyRec) /\ Writes' \in Seq(CopyRec)
      /\ Len(Writes) <= Len(Writes')
      /\ \A m \in 1 .. Len(Writes) : Writes'[m] = Writes[m]
      /\ \A s \in Seq(CopyRec) : \A lo :
            Waits(s, Writes, "write", lo) => Waits(s \o Pushing, Writes', "write", lo)
  <2>1. Control(insert) /\ Pipeline /\ "write" \in Kinds
    BY DEF Edge, Kinds
  <2> QED
    BY <2>1, PushForm DEF Writes
<1>2. /\ a \in Nat /\ b \in {0, 1} /\ c \in {0, 1} /\ d \in {0, 1}
      /\ q + a + b + c + d <= Len(Writes) /\ Len(Writes) \in Nat
      /\ waiting \in Seq(CopyRec) /\ write_queue \in Seq(HostAddresses \X Tiles)
  BY <1>1, BehindFacts DEF Shape, Issued, Queued
<1>3. \A m \in 1 .. Len(Writes) : ItemOf(Writes', m) = ItemOf(Writes, m)
  BY <1>1 DEF ItemOf
<1>4. /\ \A i \in 1 .. a : write_queue[i] = ItemOf(Writes, q + i)
      /\ stage_3.instr.kind = "write" =>
            <<stage_3.instr.addr, stage_3.dat>> = ItemOf(Writes, q + a + 1)
      /\ stage_2.instr.kind = "write" =>
            <<stage_2.instr.addr, Tile(stage_2.instr.value)>> = ItemOf(Writes, q + a + b + 1)
      /\ stage_1.kind = "write" =>
            <<stage_1.addr, Tile(stage_1.value)>> = ItemOf(Writes, q + a + b + c + 1)
      /\ Waits(waiting, Writes, "write", q + a + b + c + d)
  BY DEF Behind
<1>5. /\ stage_3.instr.kind = "write" <=> b = 1
      /\ stage_2.instr.kind = "write" <=> c = 1
      /\ stage_1.kind = "write" <=> d = 1
  BY DEF One
<1> HIDE DEF a, b, c, d
<1>6. /\ \A i \in 1 .. a : ItemOf(Writes', q + i) = ItemOf(Writes, q + i)
      /\ b = 1 => ItemOf(Writes', q + a + 1) = ItemOf(Writes, q + a + 1)
      /\ c = 1 => ItemOf(Writes', q + a + b + 1) = ItemOf(Writes, q + a + b + 1)
      /\ d = 1 => ItemOf(Writes', q + a + b + c + 1) = ItemOf(Writes, q + a + b + c + 1)
  <2>1. \A i \in 1 .. a : q + i \in 1 .. Len(Writes)
    BY <1>2
  <2>2. /\ b = 1 => q + a + 1 \in 1 .. Len(Writes)
        /\ c = 1 => q + a + b + 1 \in 1 .. Len(Writes)
        /\ d = 1 => q + a + b + c + 1 \in 1 .. Len(Writes)
    BY <1>2
  <2> QED
    BY <1>3, <2>1, <2>2
<1>7. CASE freeze
  <2>1. /\ stage_1' = stage_1 /\ stage_2' = stage_2 /\ stage_3' = stage_3
        /\ write_queue' = write_queue
    BY <1>1, <1>7, IssueForm DEF Pipeline
  <2>2. waiting' = waiting \o Pushing
    BY <1>7, IssueForm DEF Pushing
  <2>3. Waits(waiting', Writes', "write", q + a + b + c + d)
    BY <1>1, <1>2, <1>4, <2>2
  <2>4. /\ Len(write_queue') = a /\ One(stage_3'.instr.kind) = b
        /\ One(stage_2'.instr.kind) = c /\ One(stage_1'.kind) = d
    BY <2>1 DEF a, b, c, d
  <2>5. \A i \in 1 .. a : write_queue'[i] = ItemOf(Writes', q + i)
    BY <1>4, <1>6, <2>1
  <2>6. stage_3'.instr.kind = "write" =>
            <<stage_3'.instr.addr, stage_3'.dat>> = ItemOf(Writes', q + a + 1)
    BY <1>4, <1>5, <1>6, <2>1
  <2>7. stage_2'.instr.kind = "write" =>
            <<stage_2'.instr.addr, Tile(stage_2'.instr.value)>> = ItemOf(Writes', q + a + b + 1)
    BY <1>4, <1>5, <1>6, <2>1
  <2>8. stage_1'.kind = "write" =>
            <<stage_1'.addr, Tile(stage_1'.value)>> = ItemOf(Writes', q + a + b + c + 1)
    BY <1>4, <1>5, <1>6, <2>1
  <2>9. Behind(q)'
    BY <2>3, <2>4, <2>5, <2>6, <2>7, <2>8 DEF Behind
  <2> QED
    BY <1>1, <2>9
<1>8. CASE ~ freeze
  <2>1. /\ stage_2'.instr = IF stage_1.kind = "end" THEN NoInstr ELSE stage_1
        /\ stage_3'.instr = stage_2.instr
        /\ stage_2.instr.kind = "write" => stage_3'.dat = Tile(stage_2.instr.value)
        /\ b = 1 => write_queue' = Append(write_queue, <<stage_3.instr.addr, stage_3.dat>>)
        /\ b = 0 => write_queue' = write_queue
    BY <1>1, <1>5, <1>8, PipelineForm DEF One
  <2>2. One(stage_3'.instr.kind) = c /\ One(stage_2'.instr.kind) = d
    <3>1. NoInstr.kind = "none"
      BY DEF NoInstr
    <3> QED
      BY <2>1, <3>1 DEF One, c, d
  <2>3. Len(write_queue') = a + b
        /\ \A i \in 1 .. a + b : write_queue'[i] = ItemOf(Writes', q + i)
    <3>1. CASE b = 0
      BY <1>2, <1>4, <1>6, <2>1, <3>1 DEF a
    <3>2. CASE b = 1
      <4> DEFINE item == <<stage_3.instr.addr, stage_3.dat>>
      <4>1. item = ItemOf(Writes', q + a + 1)
        BY <1>4, <1>5, <1>6, <3>2
      <4>2. write_queue' = Append(write_queue, item)
        BY <2>1, <3>2
      <4> HIDE DEF item
      <4>3. Len(write_queue') = a + 1 /\ write_queue'[a + 1] = item
            /\ \A i \in 1 .. a : write_queue'[i] = write_queue[i]
        BY <1>2, <4>2 DEF a
      <4>4. \A i \in 1 .. a + 1 : i \in 1 .. a \/ i = a + 1
        BY <1>2
      <4>5. \A i \in 1 .. a : write_queue'[i] = ItemOf(Writes', q + i)
        BY <1>4, <1>6, <4>3
      <4>6. q + a + 1 = q + (a + 1)
        BY <1>2
      <4> QED
        BY <3>2, <4>1, <4>3, <4>4, <4>5, <4>6
    <3> QED
      BY <1>2, <3>1, <3>2
  <2>4. stage_3'.instr.kind = "write" =>
            <<stage_3'.instr.addr, stage_3'.dat>> = ItemOf(Writes', q + (a + b) + 1)
    <3>1. q + (a + b) + 1 = q + a + b + 1
      BY <1>2
    <3> QED
      BY <1>4, <1>5, <1>6, <2>1, <3>1
  <2>5. stage_2'.instr.kind = "write" =>
            <<stage_2'.instr.addr, Tile(stage_2'.instr.value)>>
                = ItemOf(Writes', q + (a + b) + c + 1)
    <3>1. q + (a + b) + c + 1 = q + a + b + c + 1
      BY <1>2
    <3>2. stage_2'.instr.kind = "write" => stage_1.kind = "write" /\ stage_2'.instr = stage_1
      BY <2>1 DEF NoInstr
    <3> QED
      BY <1>4, <1>5, <1>6, <3>1, <3>2
  <2>6. /\ stage_1'.kind = "write" =>
              <<stage_1'.addr, Tile(stage_1'.value)>> = ItemOf(Writes', q + (a + b) + c + d + 1)
        /\ Waits(waiting', Writes', "write", q + (a + b) + c + d + One(stage_1'.kind))
    <3> DEFINE lo == q + a + b + c + d
    <3>1. q + (a + b) + c + d = lo /\ lo \in Nat /\ lo + 0 = lo
      BY <1>2
    <3>2. Waits(waiting, Writes, "write", lo)
      BY <1>4
    <3> HIDE DEF lo
    <3>3. CASE waiting' = waiting \o Pushing /\ stage_1' = NoInstr
      <4>1. stage_1'.kind # "write" /\ One(stage_1'.kind) = 0
        BY <3>3 DEF NoInstr, One
      <4>2. Waits(waiting', Writes', "write", lo)
        BY <1>1, <1>2, <3>2, <3>3
      <4> QED
        BY <3>1, <4>1, <4>2
    <3>4. CASE /\ waiting # << >> /\ stage_1' = Head(waiting) /\ Tail(waiting) \in Seq(CopyRec)
               /\ waiting' = Tail(waiting) \o Pushing
      <4>1. CASE Head(waiting).kind = "write"
        <5>1. lo + 1 <= Len(Writes) /\ Head(waiting) = Writes[lo + 1]
              /\ Waits(Tail(waiting), Writes, "write", lo + 1)
          BY <1>1, <1>2, <3>1, <3>2, <3>4, <4>1, WaitsHead
        <5>2. Waits(waiting', Writes', "write", lo + 1)
          BY <1>1, <3>4, <5>1
        <5>3. One(stage_1'.kind) = 1
          BY <3>4, <4>1 DEF One
        <5>4. Writes'[lo + 1] = Writes[lo + 1]
          <6>1. lo + 1 \in 1 .. Len(Writes)
            BY <1>2, <3>1, <5>1
          <6> QED
            BY <1>1, <6>1
        <5>5. <<stage_1'.addr, Tile(stage_1'.value)>> = ItemOf(Writes', lo + 1)
          BY <3>4, <5>1, <5>4 DEF ItemOf
        <5> QED
          BY <3>1, <5>2, <5>3, <5>5
      <4>2. CASE Head(waiting).kind # "write"
        <5>1. Waits(Tail(waiting), Writes, "write", lo)
          BY <1>1, <1>2, <3>1, <3>2, <3>4, <4>2, WaitsHead
        <5>2. Waits(waiting', Writes', "write", lo)
          BY <1>1, <3>4, <5>1
        <5>3. One(stage_1'.kind) = 0 /\ stage_1'.kind # "write"
          BY <3>4, <4>2 DEF One
        <5> QED
          BY <3>1, <5>2, <5>3
      <4> QED
        BY <4>1, <4>2
    <3> QED
      BY <1>8, <3>3, <3>4, IssueForm DEF Pushing
  <2>7. Behind(q)'
    BY <2>2, <2>3, <2>4, <2>5, <2>6 DEF Behind
  <2> QED
    BY <1>1, <2>7
<1> QED
  BY <1>7, <1>8

(* The packets between sender and host: qs holds those the host has not    *)
(* taken, the last of them the one in hand, of which partial bytes are     *)
(* out. Each tells at which byte of all that was sent it begins, and how   *)
(* many writes and reads went before it.                                   *)
Packet ==
    {p \in [op : 2 .. 4, addr : Words, tile : Tiles, at : Nat, n : Nat, r : Nat] :
        p.op # 4 => p.addr \in HostAddresses}
Size(p) == IF p.op = 3 THEN 3 + BODY_BYTES ELSE 3
PacketByte(p, j) == IF j = 1 THEN p.op ELSE IF j = 2 THEN High(p.addr)
                    ELSE IF j = 3 THEN Low(p.addr) ELSE p.tile[j - 3]
IsWrite(p) == IF p.op = 3 THEN 1 ELSE 0
IsRead(p) == IF p.op = 2 THEN 1 ELSE 0

partial == IF S = "IDLE" THEN 0 ELSE counter
Shifted == IF counter <= 3 THEN 0 ELSE counter - 3
InHand(qs) == qs[Len(qs)]
BytesOut(qs, k) == IF k < Len(qs) THEN Size(qs[k]) ELSE partial

(* The packets lie one behind the other.                                   *)
Placed(qs) ==
    /\ qs[1].n = Len(written) /\ qs[1].r = Len(answered)
    /\ \A k \in 1 .. Len(qs) - 1 : /\ qs[k + 1].at = qs[k].at + Size(qs[k])
                                   /\ qs[k + 1].n = qs[k].n + IsWrite(qs[k])
                                   /\ qs[k + 1].r = qs[k].r + IsRead(qs[k])
    /\ \A k, l \in 1 .. Len(qs) : k < l => qs[k].at + Size(qs[k]) <= qs[l].at

(* The wire holds their bytes.                                             *)
Framed(qs) ==
    /\ Len(tx) = InHand(qs).at - qs[1].at + partial
    /\ \A k \in 1 .. Len(qs) : \A j \in 1 .. BytesOut(qs, k) :
          tx[qs[k].at - qs[1].at + j] = PacketByte(qs[k], j)

(* The program has sent all its writes to the queue of writes.             *)
Finished == /\ AllPushed /\ waiting = << >> /\ stage_1.kind # "write"
            /\ stage_2.instr.kind # "write" /\ stage_3.instr.kind # "write"
EndSent(p) == DMA_INSTRUCTION_LATENCY >= 2 =>
                 Finished /\ write_queue = << >> /\ p.n = Len(Writes)

(* What a packet means: the program's next read, its next write, or its    *)
(* end.                                                                    *)
Meant(p) ==
    /\ p.op = 2 => p.r + 1 <= Len(Reads) /\ p.addr = Reads[p.r + 1].addr
    /\ p.op = 3 => p.n + 1 <= Len(Writes) /\ <<p.addr, p.tile>> = ItemOf(Writes, p.n + 1)
    /\ p.op = 4 => EndSent(p)

(* The sender's registers hold the rest of the packet in hand.             *)
Sent(p) ==
    partial > 0 =>
        /\ p.op = Header /\ p.addr = AddressSent
        /\ S = "SENDING_WRITE" => \A i \in 1 .. BODY_BYTES - Shifted :
                                      matrix_send_tile[i] = p.tile[i + Shifted]

(* The writes and the reads that are on the wire or past it.               *)
WritesLeft(p) == p.n + (IF partial > 0 THEN IsWrite(p) ELSE 0)
ReadsLeft(p) == p.r + (IF partial > 0 THEN IsRead(p) ELSE 0)

(* The requests behind the q that are sent, among the commands of the      *)
(* prefetch FIFO and the one on its way to it.                             *)
RequestsOf(commands, c, lo) ==
    \E f \in [1 .. Len(commands) + 1 -> 0 .. Len(c)] :
        /\ f[1] = lo /\ f[Len(commands) + 1] = Len(c)
        /\ \A i \in 1 .. Len(commands) :
              /\ f[i + 1] = f[i] + commands[i].copy_count
              /\ \A k \in 1 .. commands[i].copy_count :
                    c[f[i] + k].addr = commands[i].addr + (k - 1) * commands[i].d_addr
Commands == prefetch \o prefetch_command
Requests(q) == RequestsOf(Commands, Reads, q - read_counter)

(* The wire, and the whole path: what the host has done, what has been     *)
(* sent and what waits behind it.                                          *)
Packets(qs) ==
    /\ qs \in Seq(Packet) /\ qs # << >> /\ Placed(qs) /\ Framed(qs)
    /\ \A k \in 1 .. Len(qs) : BytesOut(qs, k) > 0 => Meant(qs[k])
    /\ Sent(InHand(qs))

OnWire(qs, w, r) ==
    /\ Packets(qs) /\ w = WritesLeft(InHand(qs)) /\ r = ReadsLeft(InHand(qs))
    /\ Behind(w) /\ Requests(r)

(* What the host has done so far is the program's reads and writes, in     *)
(* order.                                                                  *)
Done ==
    /\ written \in Seq(HostAddresses \X Tiles) /\ answered \in Seq(HostAddresses \X Tiles)
    /\ \A m \in 1 .. Len(written) : m <= Len(Writes) /\ written[m] = ItemOf(Writes, m)
    /\ \A m \in 1 .. Len(answered) : m <= Len(Reads) /\ answered[m][1] = Reads[m].addr

(* The end of the program stays behind the last write.                     *)
Ending ==
    DMA_INSTRUCTION_LATENCY >= 2 =>
        /\ \A i \in 1 .. Len(waiting) : waiting[i].kind = "end" => i = Len(waiting) /\ AllPushed
        /\ stage_1.kind = "write" => since_ram = 0
        /\ stage_1.kind = "end" =>
              AllPushed /\ waiting = << >> /\ stage_2.instr.kind # "write"
        /\ end_queue > 0 => Finished
        /\ S = "SENDING_END_PROG_NOTIF" => Finished /\ write_queue = << >>
        /\ host = "exited" => AllPushed /\ Len(written) = Len(Writes)

Path == Ctl /\ Shape /\ Done /\ Ending /\ \E qs \in Seq(Packet), w, r \in Nat : OnWire(qs, w, r)

-----------------------------------------------------------------------------
(* Where the bytes of each packet are.                                     *)
LEMMA PacketFacts ==
    ASSUME Shape, NEW qs, Packets(qs)
    PROVE  /\ Len(qs) \in Nat \ {0} /\ 1 \in 1 .. Len(qs) /\ Len(qs) \in 1 .. Len(qs)
           /\ partial \in Nat /\ partial <= Size(InHand(qs)) /\ InHand(qs) \in Packet
           /\ partial > 0 => partial < Size(InHand(qs))
           /\ \A k \in 1 .. Len(qs) :
                 /\ qs[k] \in Packet /\ Size(qs[k]) \in Nat /\ Size(qs[k]) >= 3
                 /\ qs[k].at \in Nat /\ qs[k].n \in Nat /\ qs[k].r \in Nat
                 /\ BytesOut(qs, k) \in Nat /\ BytesOut(qs, k) <= Size(qs[k])
                 /\ qs[k].at - qs[1].at \in Nat
                 /\ (qs[k].at - qs[1].at) + BytesOut(qs, k) <= Len(tx)
           /\ tx \in Seq(Bytes) /\ Len(tx) \in Nat
<1>1. qs \in Seq(Packet) /\ Len(qs) \in Nat \ {0} /\ tx \in Seq(Bytes) /\ Len(tx) \in Nat
  BY DEF Packets, Shape, Sending
<1>2. 1 \in 1 .. Len(qs) /\ Len(qs) \in 1 .. Len(qs)
  BY <1>1
<1>3. \A p \in Packet : /\ Size(p) \in Nat /\ Size(p) >= 3 /\ p.at \in Nat /\ p.n \in Nat
                        /\ p.r \in Nat
  BY ByteFacts DEF Packet, Size
<1>4. \A k \in 1 .. Len(qs) : qs[k] \in Packet
  BY <1>1
<1>5. /\ partial \in Nat /\ partial <= Size(InHand(qs)) /\ InHand(qs) \in Packet
      /\ partial > 0 => partial < Size(InHand(qs))
  <2>1. InHand(qs) \in Packet
    BY <1>2, <1>4 DEF InHand
  <2>2. counter \in Nat /\ (S # "IDLE" => counter <= LastByte)
        /\ S \in SendState \cup {"IDLE"}
    BY ByteFacts DEF Shape, Sending
  <2>3. partial > 0 => InHand(qs).op = Header /\ S # "IDLE"
    BY DEF Packets, Sent, partial
  <2>4. partial > 0 => Size(InHand(qs)) = LastByte + 1
    BY <2>2, <2>3, ByteFacts DEF Size, Header, LastByte, SendState
  <2>5. partial \in Nat /\ (partial > 0 => partial <= LastByte) /\ LastByte \in Nat
    BY <2>2, ByteFacts DEF partial, LastByte
  <2>6. Size(InHand(qs)) \in Nat
    BY <1>3, <2>1
  <2> QED
    BY <2>1, <2>4, <2>5, <2>6
<1>6. ASSUME NEW k \in 1 .. Len(qs)
      PROVE  /\ BytesOut(qs, k) \in Nat /\ BytesOut(qs, k) <= Size(qs[k])
             /\ qs[k].at - qs[1].at \in Nat
             /\ (qs[k].at - qs[1].at) + BytesOut(qs, k) <= Len(tx)
  <2> DEFINE last == qs[Len(qs)]
  <2>1. /\ qs[k].at \in Nat /\ qs[1].at \in Nat /\ last.at \in Nat
        /\ Size(qs[k]) \in Nat /\ Size(qs[1]) \in Nat
    BY <1>2, <1>3, <1>4
  <2>2. k # 1 => qs[1].at + Size(qs[1]) <= qs[k].at
    <3>1. k # 1 => 1 < k
      OBVIOUS
    <3> QED
      BY <1>2, <3>1 DEF Packets, Placed
  <2>3. k # Len(qs) => qs[k].at + Size(qs[k]) <= last.at /\ k < Len(qs)
    <3>1. k # Len(qs) => k < Len(qs)
      BY <1>1
    <3> QED
      BY <1>2, <3>1 DEF Packets, Placed
  <2>4. qs[k].at - qs[1].at \in Nat
    BY <2>1, <2>2
  <2>5. Len(tx) = last.at - qs[1].at + partial
    BY DEF Packets, Framed, InHand
  <2>6. CASE k = Len(qs)
    <3>1. BytesOut(qs, k) = partial /\ qs[k] = last
      BY <1>1, <2>6 DEF BytesOut
    <3> QED
      BY <1>5, <2>1, <2>4, <2>5, <3>1 DEF InHand
  <2>7. CASE k # Len(qs)
    <3>1. BytesOut(qs, k) = Size(qs[k])
      BY <2>3, <2>7 DEF BytesOut
    <3>2. partial \in Nat /\ qs[k].at + Size(qs[k]) <= last.at
      BY <1>5, <2>3, <2>7
    <3> HIDE DEF last
    <3>3. \A x, y, z, s, p, t \in Nat :
             x - y \in Nat /\ x + s <= z /\ t = z - y + p => (x - y) + s <= t
      OBVIOUS
    <3>4. (qs[k].at - qs[1].at) + Size(qs[k]) <= Len(tx)
      BY <1>1, <2>1, <2>4, <2>5, <3>2, <3>3
    <3> QED
      BY <2>1, <2>4, <3>1, <3>4
  <2> QED
    BY <2>6, <2>7
<1> QED
  BY <1>1, <1>2, <1>3, <1>4, <1>5, <1>6

(* After the last group nothing is pushed.                                 *)
LEMMA AllPushedEdge ==
    ASSUME Ctl, Shape, NEW insert \in BOOLEAN, NEW issue \in BOOLEAN, Edge(insert, issue),
           AllPushed
    PROVE  AllPushed' /\ Pushing = << >> /\ pushed' = pushed
<1>1. Control(insert) /\ program' = program
  BY DEF Edge
<1>2. Len(program.groups) \in Nat /\ next_group \in Nat
  BY ProgramTypes DEF Ctl, Controlled
<1>3. control # "push"
  BY <1>2 DEF Ctl, Controlled, AllPushed
<1> QED
  BY <1>1, <1>3 DEF Control, Pushing, AllPushed

(* A program that has sent its writes sends no more.                       *)
LEMMA FinishedEdge ==
    ASSUME Ctl, Shape, NEW insert \in BOOLEAN, NEW issue \in BOOLEAN, Edge(insert, issue),
           AllPushed, waiting = << >>, stage_2.instr.kind # "write",
           Finished \/ (~ freeze /\ stage_1.kind = "end")
    PROVE  /\ Finished' /\ pushed' = pushed
           /\ Finished => write_queue' = write_queue
<1>1. AllPushed' /\ Pushing = << >> /\ pushed' = pushed /\ Pipeline
  BY AllPushedEdge DEF Edge
<1>2. waiting' = << >> /\ (freeze => stage_1' = stage_1) /\ (~ freeze => stage_1' = NoInstr)
  <2>1. waiting' = << >> \o << >> /\ (freeze => stage_1' = stage_1)
        /\ (~ freeze => stage_1' = NoInstr)
    BY <1>1, IssueForm DEF Pushing
  <2> QED
    BY <2>1
<1>3. NoInstr.kind # "write" /\ NoInstr.kind = "none"
  BY DEF NoInstr
<1>4. CASE freeze
  <2>1. stage_2' = stage_2 /\ stage_3' = stage_3 /\ write_queue' = write_queue
    BY <1>1, <1>4 DEF Pipeline
  <2> QED
    BY <1>1, <1>2, <1>4, <2>1 DEF Finished
<1>5. CASE ~ freeze
  <2>1. /\ stage_2'.instr = IF stage_1.kind = "end" THEN NoInstr ELSE stage_1
        /\ stage_3'.instr = stage_2.instr
        /\ stage_3.instr.kind # "write" => write_queue' = write_queue
    BY <1>1, <1>5, PipelineForm
  <2>2. stage_2'.instr.kind # "write"
    BY <1>3, <2>1 DEF Finished
  <2> QED
    BY <1>1, <1>2, <1>3, <1>5, <2>1, <2>2 DEF Finished
<1> QED
  BY <1>4, <1>5

(* An edge of the core lets no end pass a write: it comes out of the       *)
(* instruction queue at least two edges behind the last copy and waits for *)
(* the queue of writes in the sender.                                      *)
LEMMA EndingEdge ==
    ASSUME Ctl, Shape, Ending, NEW insert \in BOOLEAN, NEW issue \in BOOLEAN,
           Edge(insert, issue)
    PROVE  Ending'
<1> SUFFICES ASSUME DMA_INSTRUCTION_LATENCY >= 2 PROVE Ending'
  BY DEF Ending
<1>1. /\ \A i \in 1 .. Len(waiting) : waiting[i].kind = "end" => i = Len(waiting) /\ AllPushed
      /\ stage_1.kind = "write" => since_ram = 0
      /\ stage_1.kind = "end" => AllPushed /\ waiting = << >> /\ stage_2.instr.kind # "write"
      /\ end_queue > 0 => Finished
      /\ S = "SENDING_END_PROG_NOTIF" => Finished /\ write_queue = << >>
      /\ host = "exited" => AllPushed /\ Len(written) = Len(Writes)
  BY DEF Ending
<1>2. /\ Control(insert) /\ Issue(issue) /\ Pipeline /\ QueueEnd
      /\ S' = S /\ host' = host /\ written' = written /\ program' = program
  BY DEF Edge, sender_vars
<1>3. waiting \in Seq(CopyRec) /\ Len(waiting) \in Nat
  BY DEF Shape, Issued
<1>4. AllPushed => AllPushed' /\ Pushing = << >> /\ pushed' = pushed
  BY AllPushedEdge
<1>5. ASSUME NEW rest \in Seq(CopyRec), waiting' = rest \o Pushing,
             \A i \in 1 .. Len(rest) : rest[i].kind = "end" => i = Len(rest) /\ AllPushed,
             NEW i \in 1 .. Len(waiting'), waiting'[i].kind = "end"
      PROVE  i = Len(waiting') /\ AllPushed'
  <2>1. CASE AllPushed
    <3>1. waiting' = rest
      BY <1>4, <1>5, <2>1
    <3> QED
      BY <1>4, <1>5, <2>1, <3>1
  <2>2. CASE ~ AllPushed
    <3>1. /\ Pushing \in Seq(CopyRec) /\ Len(rest) \in Nat /\ Len(Pushing) \in Nat
      <4>1. "read" \in Kinds
        BY DEF Kinds
      <4> QED
        BY <1>2, <4>1, PushForm
    <3>2. /\ Len(waiting') = Len(rest) + Len(Pushing)
          /\ \A k \in 1 .. Len(rest) : waiting'[k] = rest[k]
          /\ \A k \in 1 .. Len(Pushing) : waiting'[Len(rest) + k] = Pushing[k]
      BY <1>5, <3>1
    <3>3. i \notin 1 .. Len(rest)
      BY <1>5, <2>2, <3>2
    <3>4. i - Len(rest) \in 1 .. Len(Pushing) /\ i = Len(rest) + (i - Len(rest))
      BY <1>5, <3>1, <3>2, <3>3
    <3>5. Pushing[i - Len(rest)].kind = "end"
      BY <1>5, <3>2, <3>4
    <3>6. control = "push"
      <4>1. Pushing # << >>
        BY <3>4
      <4> QED
        BY <4>1 DEF Pushing
    <3>7. /\ next_group \in 1 .. Len(program.groups) /\ next_group' = next_group + 1
          /\ Len(program.groups) \in Nat
      <4>1. Len(program.groups) \in Nat /\ next_group \in 1 .. Len(program.groups) + 1
            /\ next_group <= Len(program.groups)
        BY <3>6, ProgramTypes DEF Ctl, Controlled
      <4> QED
        BY <1>2, <3>6, <4>1 DEF Control
    <3>8. /\ program.groups[next_group].kind = "end"
          /\ Len(Pushing) = program.groups[next_group].copy_count
      <4>1. /\ Len(Pushing) = program.groups[next_group].copy_count
            /\ \A k \in 1 .. program.groups[next_group].copy_count :
                  Pushing[k].kind = program.groups[next_group].kind
        BY <3>6, <3>7, CopiesFacts DEF Pushing, Ctl
      <4> QED
        BY <3>4, <3>5, <4>1
    <3>9. next_group = Len(program.groups) /\ Len(Pushing) = 1
      BY <3>7, <3>8, ProgramTypes DEF Ctl, Controlled
    <3>10. i = Len(waiting')
      BY <3>1, <3>2, <3>4, <3>9
    <3>11. AllPushed'
      BY <1>2, <3>7, <3>9 DEF AllPushed
    <3> QED
      BY <3>10, <3>11
  <2> QED
    BY <2>1, <2>2
<1>6. \A i \in 1 .. Len(waiting') : waiting'[i].kind = "end" => i = Len(waiting') /\ AllPushed'
  <2>1. CASE waiting' = waiting \o Pushing
    BY <1>1, <1>3, <1>5, <2>1
  <2>2. CASE waiting # << >> /\ waiting' = Tail(waiting) \o Pushing
    <3>1. /\ Tail(waiting) \in Seq(CopyRec) /\ Len(Tail(waiting)) = Len(waiting) - 1
          /\ \A i \in 1 .. Len(waiting) - 1 : Tail(waiting)[i] = waiting[i + 1]
                                              /\ i + 1 \in 1 .. Len(waiting)
      BY <1>3, <2>2
    <3>2. \A i \in 1 .. Len(Tail(waiting)) :
             Tail(waiting)[i].kind = "end" => i = Len(Tail(waiting)) /\ AllPushed
      <4> TAKE i \in 1 .. Len(Tail(waiting))
      <4>1. Tail(waiting)[i] = waiting[i + 1] /\ i + 1 \in 1 .. Len(waiting)
        BY <3>1
      <4>2. i + 1 = Len(waiting) => i = Len(Tail(waiting))
        <5>1. Len(Tail(waiting)) = Len(waiting) - 1 /\ i \in Int
          BY <3>1
        <5> QED
          BY <1>3, <5>1
      <4> QED
        BY <1>1, <4>1, <4>2
    <3> QED
      BY <1>5, <2>2, <3>1, <3>2
  <2> QED
    BY <2>1, <2>2, IssueForm DEF Pushing
<1>7. NoInstr.kind = "none"
  BY DEF NoInstr
<1>8. stage_1'.kind = "write" => since_ram' = 0
  <2>1. CASE freeze
    BY <1>1, <1>2, <2>1 DEF Issue
  <2>2. CASE ~ freeze
    BY <1>2, <2>2 DEF Issue
  <2> QED
    BY <2>1, <2>2
<1>9. ASSUME stage_1'.kind = "end"
      PROVE  AllPushed' /\ waiting' = << >> /\ stage_2'.instr.kind # "write"
  <2>1. CASE freeze
    <3>1. stage_1' = stage_1 /\ waiting' = waiting \o Pushing /\ stage_2' = stage_2
      BY <1>2, <2>1, IssueForm DEF Pushing, Pipeline
    <3> QED
      BY <1>1, <1>4, <1>9, <3>1
  <2>2. CASE ~ freeze
    <3>1. /\ CanIssue /\ waiting # << >> /\ Head(waiting).kind = "end"
          /\ waiting' = Tail(waiting) \o Pushing
      BY <1>7, <1>9, <2>2, IssueForm DEF Pushing
    <3>2. Head(waiting) = waiting[1] /\ 1 \in 1 .. Len(waiting)
      BY <1>3, <3>1
    <3>3. Len(waiting) = 1 /\ AllPushed
      BY <1>1, <3>1, <3>2
    <3>4. waiting' = << >>
      BY <1>3, <1>4, <3>1, <3>3
    <3>5. since_ram # 0
      <4>1. since_ram + 1 >= DMA_INSTRUCTION_LATENCY /\ DMA_INSTRUCTION_LATENCY \in Nat
        BY <3>1, LinkAssumption DEF CanIssue, LinkAssumption
      <4>2. since_ram \in Nat
        BY LinkAssumption DEF Shape, Issued, LinkAssumption
      <4> QED
        BY <4>1, <4>2
    <3>6. stage_2'.instr = IF stage_1.kind = "end" THEN NoInstr ELSE stage_1
      BY <1>2, <2>2, PipelineForm
    <3> QED
      BY <1>1, <1>4, <1>7, <3>3, <3>4, <3>5, <3>6
  <2> QED
    BY <2>1, <2>2
<1>10. end_queue' > 0 => Finished'
  <2>1. end_queue' = end_queue \/ (~ freeze /\ stage_1.kind = "end")
    BY <1>2 DEF QueueEnd
  <2>2. Finished => AllPushed /\ waiting = << >> /\ stage_2.instr.kind # "write"
    BY DEF Finished
  <2> QED
    BY <1>1, <2>1, <2>2, FinishedEdge
<1>11. S' = "SENDING_END_PROG_NOTIF" => Finished' /\ write_queue' = << >>
  <2>1. Finished => AllPushed /\ waiting = << >> /\ stage_2.instr.kind # "write"
    BY DEF Finished
  <2> QED
    BY <1>1, <1>2, <2>1, FinishedEdge
<1>12. host' = "exited" => AllPushed' /\ Len(written') = Len(Writes')
  BY <1>1, <1>2, <1>4 DEF Writes
<1> QED
  BY <1>6, <1>8, <1>9, <1>10, <1>11, <1>12 DEF Ending

(* The items of two sequences, one behind the other.                       *)
LEMMA Concatenation ==
    ASSUME NEW T, NEW c \in Seq(T), NEW x \in Seq(T)
    PROVE  /\ c \o x \in Seq(T) /\ Len(c \o x) = Len(c) + Len(x)
           /\ \A i \in 1 .. Len(c) : (c \o x)[i] = c[i]
           /\ \A i \in 1 .. Len(x) : (c \o x)[Len(c) + i] = x[i]
  OBVIOUS

(* A command at the end of the queue asks for the reads pushed with it.    *)
LEMMA RequestsPush ==
    ASSUME NEW commands \in Seq(GroupRec), NEW c \in Seq(CopyRec), NEW x \in Seq(CopyRec),
           NEW group \in GroupRec, NEW lo, RequestsOf(commands, c, lo),
           Len(x) = group.copy_count,
           \A k \in 1 .. Len(x) : x[k].addr = group.addr + (k - 1) * group.d_addr
    PROVE  RequestsOf(Append(commands, group), c \o x, lo)
<1>1. PICK f \in [1 .. Len(commands) + 1 -> 0 .. Len(c)] :
        /\ f[1] = lo /\ f[Len(commands) + 1] = Len(c)
        /\ \A i \in 1 .. Len(commands) :
              /\ f[i + 1] = f[i] + commands[i].copy_count
              /\ \A k \in 1 .. commands[i].copy_count :
                    c[f[i] + k].addr = commands[i].addr + (k - 1) * commands[i].d_addr
  BY DEF RequestsOf
<1> DEFINE n == Len(commands)
           all == Append(commands, group)
           d == c \o x
           g == [i \in 1 .. n + 2 |-> IF i <= n + 1 THEN f[i] ELSE Len(d)]
<1>2. n \in Nat /\ Len(c) \in Nat /\ Len(x) \in Nat
  OBVIOUS
<1>3. /\ Len(all) = n + 1 /\ all[n + 1] = group
      /\ \A i \in 1 .. n : all[i] = commands[i]
  OBVIOUS
<1>4. /\ Len(d) = Len(c) + Len(x)
      /\ \A i \in 1 .. Len(c) : d[i] = c[i]
      /\ \A i \in 1 .. Len(x) : d[Len(c) + i] = x[i]
  <2>1. c \in Seq(CopyRec) /\ x \in Seq(CopyRec)
    OBVIOUS
  <2>2. /\ Len(c \o x) = Len(c) + Len(x)
        /\ \A i \in 1 .. Len(c) : (c \o x)[i] = c[i]
        /\ \A i \in 1 .. Len(x) : (c \o x)[Len(c) + i] = x[i]
    BY ONLY <2>1, Concatenation
  <2> QED
    BY ONLY <2>2
<1>5. \A i \in 1 .. n : commands[i].copy_count \in Nat \ {0}
  <2>1. \A i \in 1 .. n : commands[i] \in GroupRec
    OBVIOUS
  <2> QED
    BY <2>1 DEF GroupRec
<1>6. /\ \A i \in 1 .. n + 1 : g[i] = f[i]
      /\ g[n + 2] = Len(d)
  <2>1. \A i \in 1 .. n + 1 : i \in 1 .. n + 2 /\ i <= n + 1
    BY <1>2
  <2>2. n + 2 \in 1 .. n + 2 /\ ~ (n + 2 <= n + 1)
    BY <1>2
  <2> QED
    BY <2>1, <2>2
<1> HIDE DEF all, d, n
<1>7. g \in [1 .. Len(all) + 1 -> 0 .. Len(d)]
  <2>1. Len(all) + 1 = n + 2
    BY <1>2, <1>3
  <2>2. \A i \in 1 .. n + 1 : f[i] \in 0 .. Len(d)
    <3>1. \A i \in 1 .. n + 1 : f[i] \in 0 .. Len(c)
      BY <1>1 DEF n
    <3> QED
      BY <1>2, <1>4, <3>1
  <2>3. Len(d) \in 0 .. Len(d)
    BY <1>2, <1>4
  <2>4. \A i \in 1 .. n + 2 : i <= n + 1 => i \in 1 .. n + 1
    BY <1>2
  <2> QED
    BY <2>1, <2>2, <2>3, <2>4
<1> HIDE DEF g
<1>8. g[1] = lo /\ g[Len(all) + 1] = Len(d)
  <2>1. 1 \in 1 .. n + 1 /\ Len(all) + 1 = n + 2
    BY <1>2, <1>3
  <2> QED
    BY <1>1, <1>6, <2>1
<1>9. ASSUME NEW i \in 1 .. Len(all)
      PROVE  /\ g[i + 1] = g[i] + all[i].copy_count
             /\ \A k \in 1 .. all[i].copy_count :
                   d[g[i] + k].addr = all[i].addr + (k - 1) * all[i].d_addr
  <2>1. CASE i \in 1 .. n
    <3>1. i \in 1 .. n + 1 /\ i + 1 \in 1 .. n + 1
      BY <1>2, <2>1
    <3>2. g[i] = f[i] /\ g[i + 1] = f[i + 1] /\ all[i] = commands[i]
      BY <1>3, <1>6, <2>1, <3>1
    <3>3. /\ f[i + 1] = f[i] + commands[i].copy_count
          /\ \A k \in 1 .. commands[i].copy_count :
                c[f[i] + k].addr = commands[i].addr + (k - 1) * commands[i].d_addr
      BY <1>1, <2>1 DEF n
    <3>4. f[i] \in 0 .. Len(c) /\ f[i + 1] \in 0 .. Len(c)
      BY <3>1 DEF n
    <3>5. ASSUME NEW k \in 1 .. commands[i].copy_count PROVE f[i] + k \in 1 .. Len(c)
      <4>1. commands[i].copy_count \in Nat
        BY <1>5, <2>1
      <4> QED
        <5>1. f[i] \in Nat /\ f[i] + commands[i].copy_count <= Len(c)
          BY <1>2, <3>3, <3>4
        <5>2. k \in Nat /\ 1 <= k /\ k <= commands[i].copy_count
          BY <4>1
        <5> QED
          <6>1. \A a, m, b, l \in Nat : a + m <= l /\ 1 <= b /\ b <= m => a + b \in 1 .. l
            OBVIOUS
          <6> QED
            BY <1>2, <4>1, <5>1, <5>2, <6>1
    <3>6. \A j \in 1 .. Len(c) : d[j].addr = c[j].addr
      BY <1>4
    <3> QED
      BY ONLY <3>2, <3>3, <3>5, <3>6
  <2>2. CASE i = n + 1
    <3>1. g[i] = Len(c) /\ all[i] = group /\ g[i + 1] = Len(d)
      <4>1. n + 1 \in 1 .. n + 1 /\ i + 1 = n + 2
        BY <1>2, <2>2
      <4> QED
        BY <1>1, <1>3, <1>6, <2>2, <4>1 DEF n
    <3> QED
      BY <1>4, <3>1
  <2>3. i \in 1 .. n \/ i = n + 1
    BY <1>2, <1>3
  <2> QED
    BY <2>1, <2>2, <2>3
<1>10. RequestsOf(all, d, lo)
  BY <1>7, <1>8, <1>9 DEF RequestsOf
<1> QED
  BY <1>10 DEF all, d

(* The command at the head of the queue asks for the next reads.           *)
LEMMA RequestsPop ==
    ASSUME NEW commands \in Seq(GroupRec), commands # << >>, NEW c \in Seq(CopyRec),
           NEW lo, RequestsOf(commands, c, lo)
    PROVE  LET group == Head(commands)
           IN  /\ lo \in Nat /\ lo + group.copy_count <= Len(c)
               /\ \A k \in 1 .. group.copy_count :
                     c[lo + k].addr = group.addr + (k - 1) * group.d_addr
               /\ RequestsOf(Tail(commands), c, lo + group.copy_count)
<1>1. PICK f \in [1 .. Len(commands) + 1 -> 0 .. Len(c)] :
        /\ f[1] = lo /\ f[Len(commands) + 1] = Len(c)
        /\ \A i \in 1 .. Len(commands) :
              /\ f[i + 1] = f[i] + commands[i].copy_count
              /\ \A k \in 1 .. commands[i].copy_count :
                    c[f[i] + k].addr = commands[i].addr + (k - 1) * commands[i].d_addr
  BY DEF RequestsOf
<1> DEFINE n == Len(commands)
           rest == Tail(commands)
           g == [i \in 1 .. n |-> f[i + 1]]
<1>2. /\ n \in Nat \ {0} /\ Len(c) \in Nat /\ Len(rest) = n - 1 /\ Head(commands) = commands[1]
      /\ \A i \in 1 .. n - 1 : rest[i] = commands[i + 1]
  OBVIOUS
<1>3. \A i \in 1 .. n : g[i] = f[i + 1] /\ f[i + 1] \in 0 .. Len(c)
  <2>1. \A i \in 1 .. n : i + 1 \in 1 .. n + 1
    BY <1>2
  <2> QED
    BY <2>1
<1>4. Len(rest) + 1 = n /\ 1 \in 1 .. n /\ 1 + 1 = 2 /\ n \in 1 .. n /\ 1 \in 1 .. n + 1
  BY <1>2
<1>5. g \in [1 .. Len(rest) + 1 -> 0 .. Len(c)]
  BY <1>3, <1>4
<1>6. g[1] = f[2] /\ g[Len(rest) + 1] = Len(c)
  BY <1>1, <1>3, <1>4
<1> HIDE DEF g, rest
<1>7. ASSUME NEW i \in 1 .. Len(rest)
      PROVE  /\ g[i + 1] = g[i] + rest[i].copy_count
             /\ \A k \in 1 .. rest[i].copy_count :
                   c[g[i] + k].addr = rest[i].addr + (k - 1) * rest[i].d_addr
  <2>1. i \in 1 .. n - 1 /\ i \in 1 .. n /\ i + 1 \in 1 .. n
    <3>1. i \in 1 .. n - 1
      BY <1>2
    <3> QED
      BY <1>2, <3>1
  <2>2. g[i] = f[i + 1] /\ g[i + 1] = f[(i + 1) + 1] /\ rest[i] = commands[i + 1]
    BY <1>2, <1>3, <2>1
  <2> QED
    BY <1>1, <2>1, <2>2
<1>8. RequestsOf(rest, c, f[2])
  BY <1>5, <1>6, <1>7 DEF RequestsOf
<1>9. f[1] \in 0 .. Len(c) /\ f[2] \in 0 .. Len(c)
  BY <1>3, <1>4
<1>10. f[2] = lo + commands[1].copy_count
  BY <1>1, <1>4
<1>11. lo \in Nat /\ lo + commands[1].copy_count <= Len(c)
  BY <1>1, <1>2, <1>9, <1>10
<1>12. \A k \in 1 .. commands[1].copy_count :
          c[lo + k].addr = commands[1].addr + (k - 1) * commands[1].d_addr
  BY <1>1, <1>4
<1>13. RequestsOf(rest, c, lo + commands[1].copy_count)
  BY <1>8, <1>10
<1> QED
  BY <1>2, <1>11, <1>12, <1>13 DEF rest

(* The types of the commands.                                              *)
LEMMA CommandTypes ==
    ASSUME Ctl
    PROVE  /\ prefetch \in Seq(GroupRec) /\ prefetch_command \in Seq(GroupRec)
           /\ Commands \in Seq(GroupRec)
           /\ prefetch_command # << >> => Len(prefetch) < PREFETCH_FULL
           /\ Len(prefetch) \in Nat /\ read_counter \in Nat
<1>1. prefetch \in Seq(ReadGroup) /\ read_counter \in Nat
  BY DEF Ctl, Prefetched
<1>2. prefetch \in Seq(GroupRec)
  BY <1>1 DEF ReadGroup
<1>3. prefetch_command \in Seq(GroupRec)
  <2>1. CASE prefetch_command = << >>
    BY <2>1
  <2>2. CASE prefetch_command # << >>
    <3>1. PICK group \in ReadGroup : prefetch_command = <<group>>
      BY <2>2 DEF Ctl, Commanded
    <3>2. group \in GroupRec
      BY DEF ReadGroup
    <3> QED
      BY <3>1, <3>2
  <2> QED
    BY <2>1, <2>2
<1>4. prefetch_command # << >> => Len(prefetch) < PREFETCH_FULL
  BY DEF Ctl, Commanded
<1> QED
  BY <1>1, <1>2, <1>3, <1>4 DEF Commands

(* An edge of the core keeps what is to be requested.                      *)
LEMMA RequestsEdge ==
    ASSUME Ctl, Shape, NEW insert \in BOOLEAN, NEW issue \in BOOLEAN, Edge(insert, issue),
           NEW q \in Nat, Requests(q)
    PROVE  /\ Requests(q)'
           /\ Len(Reads) <= Len(Reads')
           /\ \A m \in 1 .. Len(Reads) : Reads'[m] = Reads[m]
<1>1. Control(insert) /\ FillPrefetch /\ read_counter' = read_counter /\ "read" \in Kinds
  BY DEF Edge, Kinds
<1>2. /\ Reads \in Seq(CopyRec) /\ Len(Reads) <= Len(Reads')
      /\ \A m \in 1 .. Len(Reads) : Reads'[m] = Reads[m]
  BY <1>1, PushForm DEF Reads
<1>3. prefetch' = Commands
  <2>1. CASE prefetch_command = << >>
    <3>1. Commands = prefetch /\ prefetch' = prefetch
      BY <1>1, <2>1, CommandTypes DEF FillPrefetch, Commands
    <3> QED
      BY <3>1
  <2>2. CASE prefetch_command # << >>
    <3>1. Len(prefetch) # PREFETCH_FULL
      <4>1. Len(prefetch) < PREFETCH_FULL /\ Len(prefetch) \in Nat /\ PREFETCH_FULL \in Nat
        BY <2>2, CommandTypes, LinkAssumption DEF LinkAssumption
      <4> QED
        BY <4>1
    <3> QED
      BY <1>1, <3>1 DEF FillPrefetch, Commands, prefetch_full
  <2> QED
    BY <2>1, <2>2
<1>4. Commands \in Seq(GroupRec) /\ RequestsOf(Commands, Reads, q - read_counter)
  BY CommandTypes DEF Requests
<1>5. CASE prefetch_command' = << >>
  <2>1. Reads' = Reads
    <3>1. control = "push" => program.groups[next_group].kind # "read"
      BY <1>1, <1>5 DEF Control
    <3>2. pushed \in [Kinds -> Seq(CopyRec)]
      BY DEF Shape, Issued
    <3> QED
      BY <1>1, <3>1, <3>2 DEF Control, Reads
  <2>2. Commands' = Commands
    BY <1>3, <1>4, <1>5 DEF Commands
  <2> QED
    BY <1>1, <1>2, <1>4, <2>1, <2>2 DEF Requests
<1>6. CASE prefetch_command' # << >>
  <2> DEFINE group == program.groups[next_group]
  <2>1. control = "push" /\ group.kind = "read" /\ prefetch_command' = <<group>>
    BY <1>1, <1>6 DEF Control
  <2>2. /\ CopiesOf(next_group) \in Seq(CopyRec) /\ group \in GroupRec
        /\ Len(CopiesOf(next_group)) = group.copy_count
        /\ \A i \in 1 .. group.copy_count :
              CopiesOf(next_group)[i].addr = group.addr + (i - 1) * group.d_addr
    BY <2>1, CopiesFacts, ProgramTypes DEF Ctl, Controlled
  <2>3. Reads' = Reads \o CopiesOf(next_group)
    <3>1. pushed \in [Kinds -> Seq(CopyRec)]
      BY DEF Shape, Issued
    <3> QED
      BY <1>1, <2>1, <3>1 DEF Control, Reads
  <2>4. Commands' = Append(Commands, group)
    BY <1>3, <1>4, <2>1, <2>2 DEF Commands
  <2> HIDE DEF group
  <2>5. RequestsOf(Append(Commands, group), Reads \o CopiesOf(next_group), q - read_counter)
    BY <1>2, <1>4, <2>2, RequestsPush
  <2> QED
    BY <1>1, <1>2, <2>3, <2>4, <2>5 DEF Requests
<1> QED
  BY <1>5, <1>6

(* An edge of the core changes nothing on the wire, and what the packets   *)
(* mean stays true.                                                        *)
LEMMA MeantEdge ==
    ASSUME Ctl, Shape, NEW insert \in BOOLEAN, NEW issue \in BOOLEAN, Edge(insert, issue),
           NEW p \in Packet, Meant(p),
           Len(Reads) <= Len(Reads'), \A m \in 1 .. Len(Reads) : Reads'[m] = Reads[m],
           Len(Writes) <= Len(Writes'), \A m \in 1 .. Len(Writes) : Writes'[m] = Writes[m]
    PROVE  Meant(p)'
<1>1. Len(Reads) \in Nat /\ Len(Reads') \in Nat /\ Len(Writes) \in Nat /\ Len(Writes') \in Nat
  <2>1. pushed \in [Kinds -> Seq(CopyRec)] /\ pushed' \in [Kinds -> Seq(CopyRec)]
    BY ShapeEdge DEF Shape, Issued
  <2> QED
    BY <2>1 DEF Reads, Writes, Kinds
<1>2. p.r \in Nat /\ p.n \in Nat
  BY DEF Packet
<1>3. ASSUME p.op = 2
      PROVE  p.r + 1 <= Len(Reads') /\ p.addr = Reads'[p.r + 1].addr
  <2>1. p.r + 1 <= Len(Reads) /\ p.addr = Reads[p.r + 1].addr
    BY <1>3 DEF Meant
  <2>2. p.r + 1 \in 1 .. Len(Reads) /\ p.r + 1 <= Len(Reads')
    BY <1>1, <1>2, <2>1
  <2> QED
    BY <2>1, <2>2
<1>4. ASSUME p.op = 3
      PROVE  p.n + 1 <= Len(Writes') /\ <<p.addr, p.tile>> = ItemOf(Writes', p.n + 1)
  <2>1. p.n + 1 <= Len(Writes) /\ <<p.addr, p.tile>> = ItemOf(Writes, p.n + 1)
    BY <1>4 DEF Meant
  <2>2. p.n + 1 \in 1 .. Len(Writes) /\ p.n + 1 <= Len(Writes')
    BY <1>1, <1>2, <2>1
  <2> QED
    BY <2>1, <2>2 DEF ItemOf
<1>5. ASSUME p.op = 4, DMA_INSTRUCTION_LATENCY >= 2
      PROVE  Finished' /\ write_queue' = << >> /\ p.n = Len(Writes')
  <2>1. Finished /\ write_queue = << >> /\ p.n = Len(Writes)
    BY <1>5 DEF Meant, EndSent
  <2>2. AllPushed /\ waiting = << >> /\ stage_2.instr.kind # "write"
    BY <2>1 DEF Finished
  <2>3. Finished' /\ pushed' = pushed /\ write_queue' = write_queue
    BY <2>1, <2>2, FinishedEdge
  <2> QED
    BY <2>1, <2>3 DEF Writes
<1> QED
  BY <1>3, <1>4, <1>5 DEF Meant, EndSent

(* An edge of the core.                                                    *)
LEMMA PathEdge ==
    ASSUME Path, NEW insert \in BOOLEAN, NEW issue \in BOOLEAN, Edge(insert, issue)
    PROVE  Path'
<1>1. PICK qs \in Seq(Packet), w \in Nat, r \in Nat : OnWire(qs, w, r)
  BY DEF Path
<1>2. Ctl /\ Shape /\ Done /\ Ending /\ Packets(qs) /\ Behind(w) /\ Requests(r)
      /\ w = WritesLeft(InHand(qs)) /\ r = ReadsLeft(InHand(qs))
  BY <1>1 DEF Path, OnWire
<1>3. UNCHANGED <<S, counter, write_addr, matrix_send_tile, tx, prefetch_dat_r, written,
                  answered>>
  BY DEF Edge, sender_vars
<1>4. /\ Behind(w)' /\ Len(Writes) <= Len(Writes')
      /\ \A m \in 1 .. Len(Writes) : Writes'[m] = Writes[m]
  BY <1>2, BehindEdge
<1>5. /\ Requests(r)' /\ Len(Reads) <= Len(Reads')
      /\ \A m \in 1 .. Len(Reads) : Reads'[m] = Reads[m]
  BY <1>2, RequestsEdge
<1>6. Packets(qs)'
  <2>1. Placed(qs)' /\ Framed(qs)' /\ Sent(InHand(qs))'
    BY <1>2, <1>3 DEF Packets, Placed, Framed, Sent, partial, BytesOut, InHand, Header,
       AddressSent, Shifted
  <2>2. ASSUME NEW k \in 1 .. Len(qs), BytesOut(qs, k)' > 0 PROVE Meant(qs[k])'
    <3>1. BytesOut(qs, k) > 0 /\ qs[k] \in Packet
      BY <1>2, <1>3, <2>2, PacketFacts DEF BytesOut, partial
    <3>2. Meant(qs[k])
      BY <1>2, <3>1 DEF Packets
    <3>3. \A p \in Packet : Meant(p) => Meant(p)'
      BY <1>2, <1>4, <1>5, MeantEdge
    <3> QED
      BY <3>1, <3>2, <3>3
  <2>3. qs \in Seq(Packet) /\ qs # << >>
    BY <1>2 DEF Packets
  <2> QED
    BY <2>1, <2>2, <2>3 DEF Packets
<1>7. OnWire(qs, w, r)'
  <2>1. w = WritesLeft(InHand(qs))' /\ r = ReadsLeft(InHand(qs))'
    BY <1>2, <1>3 DEF WritesLeft, ReadsLeft, partial
  <2> QED
    BY <1>4, <1>5, <1>6, <2>1 DEF OnWire
<1>8. Done'
  <2>1. Len(Writes) \in Nat /\ Len(Writes') \in Nat /\ Len(Reads) \in Nat /\ Len(Reads') \in Nat
    <3>1. pushed \in [Kinds -> Seq(CopyRec)] /\ pushed' \in [Kinds -> Seq(CopyRec)]
      BY <1>2, ShapeEdge DEF Shape, Issued
    <3> QED
      BY <3>1 DEF Reads, Writes, Kinds
  <2>2. \A m \in 1 .. Len(written) : m <= Len(Writes') /\ written[m] = ItemOf(Writes', m)
    <3> TAKE m \in 1 .. Len(written)
    <3>1. m <= Len(Writes) /\ written[m] = ItemOf(Writes, m)
      BY <1>2 DEF Done
    <3>2. m \in 1 .. Len(Writes) /\ m <= Len(Writes')
      BY <1>4, <2>1, <3>1
    <3> QED
      BY <1>4, <3>1, <3>2 DEF ItemOf
  <2>3. \A m \in 1 .. Len(answered) : m <= Len(Reads') /\ answered[m][1] = Reads'[m].addr
    <3> TAKE m \in 1 .. Len(answered)
    <3>1. m <= Len(Reads) /\ answered[m][1] = Reads[m].addr
      BY <1>2 DEF Done
    <3>2. m \in 1 .. Len(Reads) /\ m <= Len(Reads')
      BY <1>5, <2>1, <3>1
    <3> QED
      BY <1>5, <3>1, <3>2
  <2> QED
    BY <1>2, <1>3, <2>2, <2>3 DEF Done
<1>9. Ctl' /\ Shape' /\ Ending'
  BY <1>2, CtlEdge, ShapeEdge, EndingEdge
<1> QED
  BY <1>7, <1>8, <1>9 DEF Path

(* The packet that is in hand before its first byte: nothing is known of   *)
(* it but its place.                                                       *)
Idle == [op |-> 4, addr |-> 0, tile |-> NoTile, at |-> 0, n |-> 0, r |-> 0]

(* Such a packet may stand anywhere.                                       *)
LEMMA OpenPacket ==
    ASSUME NEW at \in Nat, NEW n \in Nat, NEW r \in Nat
    PROVE  [op |-> 4, addr |-> 0, tile |-> NoTile, at |-> at, n |-> n, r |-> r] \in Packet
<1>1. 4 \in 2 .. 4
  OBVIOUS
<1> QED
  BY <1>1, Sizes, TileFacts DEF Packet

(* The path when the core starts.                                          *)
LEMMA PathInit == Init => Path
<1> SUFFICES ASSUME Init PROVE Path
  OBVIOUS
<1>1. Ctl /\ Shape
  BY CtlInit, ShapeInit
<1>2. Done
  BY DEF Init, Done
<1>3. Ending
  <2>1. Len(waiting) = 0
    BY DEF Init
  <2>2. \A i \in 1 .. Len(waiting) : FALSE
    BY <2>1
  <2>3. stage_1.kind = "none" /\ end_queue = 0 /\ S = "IDLE" /\ host = "serving"
    BY DEF Init, NoInstr
  <2> QED
    BY <2>2, <2>3 DEF Ending
<1>4. Idle \in Packet /\ <<Idle>> \in Seq(Packet) /\ Len(<<Idle>>) = 1 /\ <<Idle>>[1] = Idle
      /\ InHand(<<Idle>>) = Idle
  BY OpenPacket DEF Idle, InHand
<1>5. partial = 0
  BY DEF Init, partial
<1>6. Packets(<<Idle>>)
  <2>1. BytesOut(<<Idle>>, 1) = 0
    BY <1>4, <1>5 DEF BytesOut
  <2>2. \A k \in 1 .. Len(<<Idle>>) : k = 1
    BY <1>4
  <2>3. Placed(<<Idle>>)
    <3>1. /\ \A k \in 1 .. Len(<<Idle>>) - 1 : FALSE
          /\ \A k, l \in 1 .. Len(<<Idle>>) : ~ (k < l)
      BY <1>4
    <3>2. Idle.n = Len(written) /\ Idle.r = Len(answered)
      BY DEF Idle, Init
    <3> QED
      BY <1>4, <3>1, <3>2 DEF Placed
  <2>4. Framed(<<Idle>>)
    <3>1. Len(tx) = Idle.at - Idle.at + partial
      BY <1>5 DEF Init, Idle
    <3>2. \A k \in 1 .. Len(<<Idle>>) : \A j \in 1 .. BytesOut(<<Idle>>, k) : FALSE
      BY <2>1, <2>2
    <3> QED
      BY <1>4, <3>1, <3>2 DEF Framed
  <2>5. Sent(InHand(<<Idle>>))
    BY <1>5 DEF Sent
  <2> QED
    BY <1>4, <2>1, <2>2, <2>3, <2>4, <2>5 DEF Packets
<1>7. WritesLeft(Idle) = 0 /\ ReadsLeft(Idle) = 0
  BY <1>5 DEF WritesLeft, ReadsLeft, Idle
<1>8. Writes = << >> /\ Reads = << >>
  BY DEF Init, Writes, Reads, Kinds
<1>9. Behind(0)
  <2>1. /\ Len(write_queue) = 0 /\ stage_3.instr.kind = "none" /\ stage_2.instr.kind = "none"
        /\ stage_1.kind = "none" /\ waiting = << >>
    BY DEF Init, NoDat, NoInstr
  <2>2. \A i \in 1 .. Len(write_queue) : FALSE
    BY <2>1
  <2>3. Waits(waiting, Writes, "write", 0)
    <3>1. << >> \in Seq(CopyRec) /\ Len(<< >>) = 0
      OBVIOUS
    <3> QED
      BY <1>8, <2>1, <3>1, WaitsEmpty
  <2>4. 0 + Len(write_queue) + One(stage_3.instr.kind) + One(stage_2.instr.kind)
          + One(stage_1.kind) = 0
    BY <2>1 DEF One
  <2> QED
    BY <2>1, <2>2, <2>3, <2>4 DEF Behind
<1>10. Requests(0)
  <2>1. Commands = << >> /\ read_counter = 0
    BY DEF Init, Commands
  <2> DEFINE f == [i \in 1 .. 1 |-> 0]
  <2>2. f \in [1 .. Len(<< >>) + 1 -> 0 .. Len(<< >>)] /\ f[1] = 0 /\ f[Len(<< >>) + 1] = Len(<< >>)
    OBVIOUS
  <2>3. \A i \in 1 .. Len(<< >>) : FALSE
    OBVIOUS
  <2> HIDE DEF f
  <2>4. RequestsOf(<< >>, << >>, 0)
    BY <2>2, <2>3 DEF RequestsOf
  <2> QED
    BY <1>8, <2>1, <2>4 DEF Requests
<1>11. OnWire(<<Idle>>, 0, 0)
  BY <1>4, <1>6, <1>7, <1>9, <1>10 DEF OnWire
<1> QED
  BY <1>1, <1>2, <1>3, <1>4, <1>11 DEF Path

(* What keeps the meaning of a packet.                                     *)
LEMMA MeantKept ==
    ASSUME UNCHANGED <<program, control_vars, pipeline_vars>>,
           write_queue = << >> => write_queue' = << >>
    PROVE  /\ Finished => Finished'
           /\ \A p \in Packet : Meant(p) => Meant(p)'
           /\ Reads' = Reads /\ Writes' = Writes /\ (AllPushed => AllPushed')
<1>1. Reads' = Reads /\ Writes' = Writes /\ (AllPushed => AllPushed')
  BY DEF Reads, Writes, AllPushed, control_vars
<1>2. Finished => Finished'
  BY <1>1 DEF Finished, control_vars, pipeline_vars
<1>3. ASSUME NEW p \in Packet, Meant(p) PROVE Meant(p)'
  BY <1>1, <1>2, <1>3 DEF Meant, EndSent
<1> QED
  BY <1>1, <1>2, <1>3

(* The sender's choice of what to send.                                    *)
LEMMA PathArbitrate == ASSUME Path, Arbitrate PROVE Path'
<1>1. PICK qs \in Seq(Packet), w \in Nat, r \in Nat : OnWire(qs, w, r)
  BY DEF Path
<1>2. Ctl /\ Shape /\ Done /\ Ending /\ Packets(qs) /\ Behind(w) /\ Requests(r)
      /\ w = WritesLeft(InHand(qs)) /\ r = ReadsLeft(InHand(qs))
  BY <1>1 DEF Path, OnWire
<1>3. /\ UNCHANGED <<program, control_vars, prefetch_command, prefetch_vars, pipeline_vars,
                     write_queue, end_queue, write_addr, matrix_send_tile, tx, host,
                     answered, written>>
      /\ S = "IDLE" /\ S' = Selected /\ counter' = 0
  BY DEF Arbitrate
<1>4. partial = 0 /\ partial' = 0
  BY <1>3 DEF partial
<1>5. Reads' = Reads /\ Writes' = Writes /\ (AllPushed => AllPushed') /\ (Finished => Finished')
      /\ \A p \in Packet : Meant(p) => Meant(p)'
  BY <1>3, MeantKept
<1>6. Packets(qs)'
  <2>1. Placed(qs)' /\ Framed(qs)' /\ Sent(InHand(qs))'
    BY <1>2, <1>3, <1>4 DEF Packets, Placed, Framed, Sent, BytesOut, InHand
  <2>2. \A k \in 1 .. Len(qs) : BytesOut(qs, k)' > 0 => Meant(qs[k])'
    <3>1. \A k \in 1 .. Len(qs) : BytesOut(qs, k)' = BytesOut(qs, k)
      BY <1>4 DEF BytesOut
    <3>2. \A k \in 1 .. Len(qs) : qs[k] \in Packet
      BY <1>2, PacketFacts
    <3> QED
      BY <1>2, <1>5, <3>1, <3>2 DEF Packets
  <2> QED
    BY <1>2, <2>1, <2>2 DEF Packets
<1>7. OnWire(qs, w, r)'
  <2>1. w = WritesLeft(InHand(qs))' /\ r = ReadsLeft(InHand(qs))'
    BY <1>2, <1>4 DEF WritesLeft, ReadsLeft
  <2>2. Behind(w)'
    BY <1>2, <1>3, <1>5 DEF Behind, control_vars, pipeline_vars
  <2>3. Requests(r)'
    BY <1>2, <1>3, <1>5 DEF Requests, Commands, prefetch_vars
  <2> QED
    BY <1>6, <2>1, <2>2, <2>3 DEF OnWire
<1>8. Done'
  BY <1>2, <1>3, <1>5 DEF Done
<1>9. Ending'
  <2>1. S' = "SENDING_END_PROG_NOTIF" => end_queue > 0 /\ write_queue = << >>
    BY <1>3 DEF Selected
  <2> QED
    BY <1>2, <1>3, <1>5, <2>1 DEF Ending, control_vars, pipeline_vars
<1>10. Ctl' /\ Shape'
  BY <1>2, CtlSender, ShapeArbitrate DEF Sender
<1> QED
  BY <1>7, <1>8, <1>9, <1>10 DEF Path

(* The receiver's step, and a stutter.                                     *)
LEMMA PathOther == ASSUME Path, ReceiveByte \/ UNCHANGED vars PROVE Path'
<1>1. PICK qs \in Seq(Packet), w \in Nat, r \in Nat : OnWire(qs, w, r)
  BY DEF Path
<1>2. Ctl /\ Shape /\ Done /\ Ending /\ Packets(qs) /\ Behind(w) /\ Requests(r)
      /\ w = WritesLeft(InHand(qs)) /\ r = ReadsLeft(InHand(qs))
  BY <1>1 DEF Path, OnWire
<1>3. UNCHANGED <<program, control_vars, prefetch_command, prefetch_vars, pipeline_vars,
                  write_queue, end_queue, sender_vars, tx, host, answered, written>>
  BY DEF ReceiveByte, vars
<1>4. UNCHANGED <<S, counter, write_addr, matrix_send_tile, prefetch_dat_r>> /\ partial' = partial
  BY <1>3 DEF sender_vars, prefetch_vars, partial
<1>5. Reads' = Reads /\ Writes' = Writes /\ (AllPushed => AllPushed') /\ (Finished => Finished')
      /\ \A p \in Packet : Meant(p) => Meant(p)'
  BY <1>3, MeantKept
<1>6. Packets(qs)'
  <2>1. Placed(qs)' /\ Framed(qs)' /\ Sent(InHand(qs))'
    BY <1>2, <1>3, <1>4 DEF Packets, Placed, Framed, Sent, BytesOut, InHand, Header,
       AddressSent, Shifted
  <2>2. \A k \in 1 .. Len(qs) : BytesOut(qs, k)' > 0 => Meant(qs[k])'
    <3>1. \A k \in 1 .. Len(qs) : BytesOut(qs, k)' = BytesOut(qs, k)
      BY <1>4 DEF BytesOut
    <3>2. \A k \in 1 .. Len(qs) : qs[k] \in Packet
      BY <1>2, PacketFacts
    <3> QED
      BY <1>2, <1>5, <3>1, <3>2 DEF Packets
  <2> QED
    BY <1>2, <2>1, <2>2 DEF Packets
<1>7. OnWire(qs, w, r)'
  <2>1. w = WritesLeft(InHand(qs))' /\ r = ReadsLeft(InHand(qs))'
    BY <1>2, <1>4 DEF WritesLeft, ReadsLeft
  <2>2. Behind(w)'
    BY <1>2, <1>3, <1>5 DEF Behind, control_vars, pipeline_vars
  <2>3. Requests(r)'
    BY <1>2, <1>3, <1>5 DEF Requests, Commands, prefetch_vars
  <2> QED
    BY <1>6, <2>1, <2>2, <2>3 DEF OnWire
<1>8. Done'
  BY <1>2, <1>3, <1>5 DEF Done
<1>9. Ending'
  BY <1>2, <1>3, <1>4, <1>5 DEF Ending, control_vars, pipeline_vars
<1>10. Ctl' /\ Shape'
  BY <1>2, CtlOther, ShapeReceive, ShapeStutter
<1> QED
  BY <1>7, <1>8, <1>9, <1>10 DEF Path

(* The next request of the program, as the sender takes it.                *)
LEMMA NextRequest ==
    ASSUME Ctl, Shape, prefetch # << >>, PopRead, prefetch_command' = prefetch_command,
           pushed' = pushed, NEW q \in Nat, Requests(q)
    PROVE  /\ q + 1 <= Len(Reads) /\ prefetch_dat_r' = Reads[q + 1].addr
           /\ Requests(q + 1)'
<1> DEFINE group == Head(prefetch)
           lo == q - read_counter
<1>1. /\ prefetch_dat_r' = group.addr + read_counter * group.d_addr
      /\ group \in ReadGroup
      /\ \/ /\ read_counter + 1 = group.copy_count
            /\ prefetch' = Tail(prefetch) /\ read_counter' = 0
         \/ /\ read_counter + 1 < group.copy_count
            /\ prefetch' = prefetch /\ read_counter' = read_counter + 1
  BY PopReadForm DEF Ctl
<1>2. /\ prefetch \in Seq(GroupRec) /\ prefetch_command \in Seq(GroupRec)
      /\ Commands \in Seq(GroupRec) /\ read_counter \in Nat
  BY CommandTypes
<1>3. /\ Commands # << >> /\ Head(Commands) = group
      /\ Tail(Commands) = Tail(prefetch) \o prefetch_command
  BY <1>2 DEF Commands
<1>4. Reads \in Seq(CopyRec) /\ Reads' = Reads
  BY DEF Shape, Issued, Reads, Kinds
<1>5. group.copy_count \in Nat \ {0} /\ group.addr \in Nat /\ group.d_addr \in Int
  BY <1>1 DEF ReadGroup, GroupRec
<1>6. RequestsOf(Commands, Reads, lo)
  BY DEF Requests
<1> HIDE DEF group, lo
<1>7. /\ lo \in Nat /\ lo + group.copy_count <= Len(Reads)
      /\ \A k \in 1 .. group.copy_count :
            Reads[lo + k].addr = group.addr + (k - 1) * group.d_addr
      /\ RequestsOf(Tail(Commands), Reads, lo + group.copy_count)
  BY <1>2, <1>3, <1>4, <1>6, RequestsPop
<1>8. read_counter + 1 \in 1 .. group.copy_count /\ lo + (read_counter + 1) = q + 1
      /\ (read_counter + 1) - 1 = read_counter
  BY <1>1, <1>2, <1>5 DEF lo
<1>9. q + 1 <= Len(Reads)
  <2>1. read_counter + 1 <= group.copy_count /\ Len(Reads) \in Nat
    BY <1>4, <1>5, <1>8
  <2> QED
    BY <1>2, <1>5, <1>7, <1>8, <2>1
<1>10. prefetch_dat_r' = Reads[q + 1].addr
  BY <1>1, <1>7, <1>8
<1>11. Requests(q + 1)'
  <2>1. CASE read_counter + 1 = group.copy_count /\ prefetch' = Tail(prefetch) /\ read_counter' = 0
    <3>1. Commands' = Tail(Commands)
      BY <1>3, <2>1 DEF Commands
    <3>2. (q + 1) - read_counter' = lo + group.copy_count
      BY <1>2, <1>5, <2>1 DEF lo
    <3>3. RequestsOf(Commands', Reads', (q + 1) - read_counter')
      <4>1. RequestsOf(Tail(Commands), Reads, lo + group.copy_count) /\ Reads' = Reads
        BY <1>4, <1>7
      <4>2. (q + 1) - read_counter' = lo + group.copy_count
        BY <3>2
      <4> QED
        BY ONLY <3>1, <4>1, <4>2
    <3> QED
      BY <3>3 DEF Requests
  <2>2. CASE prefetch' = prefetch /\ read_counter' = read_counter + 1
    <3>1. Commands' = Commands /\ (q + 1) - read_counter' = lo
      BY <1>2, <2>2 DEF Commands, lo
    <3>3. RequestsOf(Commands', Reads', (q + 1) - read_counter')
      <4>1. RequestsOf(Commands, Reads, lo) /\ Reads' = Reads
        BY <1>4, <1>6
      <4> QED
        BY ONLY <3>1, <4>1
    <3> QED
      BY <3>3 DEF Requests
  <2> QED
    BY <1>1, <2>1, <2>2
<1> QED
  BY <1>9, <1>10, <1>11

(* The next write of the program, as the sender takes it.                  *)
LEMMA NextWrite ==
    ASSUME Shape, write_queue # << >>, write_queue' = Tail(write_queue),
           UNCHANGED <<control_vars, pipeline_vars>>, NEW q \in Nat, Behind(q)
    PROVE  /\ q + 1 <= Len(Writes) /\ Head(write_queue) = ItemOf(Writes, q + 1)
           /\ Behind(q + 1)'
<1> DEFINE a == Len(write_queue)
           b == One(stage_3.instr.kind)
           c == One(stage_2.instr.kind)
           d == One(stage_1.kind)
<1>1. /\ write_queue \in Seq(HostAddresses \X Tiles) /\ a \in Nat /\ a >= 1
      /\ Head(write_queue) = write_queue[1] /\ Len(Tail(write_queue)) = a - 1
      /\ \A i \in 1 .. a - 1 : Tail(write_queue)[i] = write_queue[i + 1]
  BY DEF Shape, Queued
<1>2. /\ b \in {0, 1} /\ c \in {0, 1} /\ d \in {0, 1} /\ Len(Writes) \in Nat
      /\ q + a + b + c + d <= Len(Writes)
  BY BehindFacts
<1>3. /\ \A i \in 1 .. a : write_queue[i] = ItemOf(Writes, q + i)
      /\ stage_3.instr.kind = "write" =>
            <<stage_3.instr.addr, stage_3.dat>> = ItemOf(Writes, q + a + 1)
      /\ stage_2.instr.kind = "write" =>
            <<stage_2.instr.addr, Tile(stage_2.instr.value)>> = ItemOf(Writes, q + a + b + 1)
      /\ stage_1.kind = "write" =>
            <<stage_1.addr, Tile(stage_1.value)>> = ItemOf(Writes, q + a + b + c + 1)
      /\ Waits(waiting, Writes, "write", q + a + b + c + d)
  BY DEF Behind
<1>4. /\ waiting' = waiting /\ Writes' = Writes /\ stage_1' = stage_1 /\ stage_2' = stage_2
      /\ stage_3' = stage_3
  BY DEF control_vars, pipeline_vars, Writes
<1>5. Len(write_queue') = a - 1
  BY <1>1
<1>6. /\ One(stage_3'.instr.kind) = b /\ One(stage_2'.instr.kind) = c
      /\ One(stage_1'.kind) = d
  BY <1>4
<1> HIDE DEF a, b, c, d
<1>7. /\ (q + 1) + (a - 1) = q + a /\ q + 1 <= Len(Writes) /\ 1 \in 1 .. a
  BY <1>1, <1>2
<1>8. \A i \in 1 .. a - 1 : write_queue'[i] = ItemOf(Writes, (q + 1) + i)
  <2> TAKE i \in 1 .. a - 1
  <2>1. i + 1 \in 1 .. a /\ q + (i + 1) = (q + 1) + i
    BY <1>1
  <2> QED
    BY <1>1, <1>3, <2>1
<1>9. Behind(q + 1)'
  BY <1>3, <1>4, <1>5, <1>6, <1>7, <1>8 DEF Behind
<1> QED
  BY <1>1, <1>3, <1>7, <1>9

(* The byte that opens a packet: from here on it is the program's next     *)
(* read, its next write or its end.                                        *)
LEMMA PathHeader == ASSUME Path, SendHeader PROVE Path'
<1>1. PICK qs \in Seq(Packet), w \in Nat, r \in Nat : OnWire(qs, w, r)
  BY DEF Path
<1>2. Ctl /\ Shape /\ Done /\ Ending /\ Packets(qs) /\ Behind(w) /\ Requests(r)
      /\ w = WritesLeft(InHand(qs)) /\ r = ReadsLeft(InHand(qs))
  BY <1>1 DEF Path, OnWire
<1>3. /\ UNCHANGED <<program, control_vars, prefetch_command, pipeline_vars, host, answered,
                     written, pushed>>
      /\ S' = S /\ S \in SendState /\ counter = 0 /\ counter' = 1
      /\ Header \in {2, 3, 4} /\ tx' = Append(tx, Header)
  BY <1>2, HeaderForm DEF SendHeader, control_vars
<1>4. partial = 0 /\ partial' = 1 /\ Header' = Header /\ Shifted' = 0
  BY <1>3 DEF partial, SendState, Header, Shifted
<1> DEFINE n == Len(qs)
           p == InHand(qs)
<1>5. /\ n \in Nat \ {0} /\ 1 \in 1 .. n /\ n \in 1 .. n /\ p \in Packet /\ p = qs[n]
      /\ tx \in Seq(Bytes) /\ Len(tx) \in Nat
  BY <1>2, PacketFacts DEF InHand
<1>6. p.at \in Nat /\ p.n \in Nat /\ p.r \in Nat /\ p.n = w /\ p.r = r
  BY <1>2, <1>4, <1>5 DEF Packet, WritesLeft, ReadsLeft
<1> HIDE DEF p
<1>7. write_queue = << >> => write_queue' = << >>
  BY <1>2, HeaderForm
<1>8. Reads' = Reads /\ Writes' = Writes /\ (AllPushed => AllPushed') /\ (Finished => Finished')
      /\ \A x \in Packet : Meant(x) => Meant(x)'
  BY <1>3, <1>7, MeantKept
<1>9. PICK new \in Packet :
         /\ new.op = Header /\ new.at = p.at /\ new.n = p.n /\ new.r = p.r
         /\ new.addr = AddressSent' /\ (S = "SENDING_WRITE" => new.tile = matrix_send_tile')
  <2> DEFINE tile == IF S = "SENDING_WRITE" THEN matrix_send_tile' ELSE NoTile
             q == [op |-> Header, addr |-> AddressSent', tile |-> tile, at |-> p.at,
                   n |-> p.n, r |-> p.r]
  <2>1. Shape'
    BY <1>2, ShapeHeader
  <2>2. tile \in Tiles
    BY <2>1, TileFacts DEF Shape, Sending
  <2>3. Header \in 2 .. 4
    BY <1>3
  <2>4. AddressSent' \in Words /\ (Header # 4 => AddressSent' \in HostAddresses)
    <3>1. HostAddresses \subseteq Words
      BY ProgramAssumption DEF ProgramAssumption, Words
    <3>2. CASE S = "SENDING_READ_REQUEST"
      <4>1. prefetch_dat_r' \in HostAddresses /\ AddressSent' = prefetch_dat_r'
        BY <1>2, <1>3, <3>2, HeaderForm DEF AddressSent
      <4> QED
        BY <3>1, <4>1
    <3>3. CASE S = "SENDING_WRITE"
      <4>1. write_queue # << >> /\ write_addr' = Head(write_queue)[1]
            /\ write_queue' = Tail(write_queue) /\ AddressSent' = write_addr'
        BY <1>2, <1>3, <3>3, HeaderForm DEF AddressSent
      <4>2. Head(write_queue) \in HostAddresses \X Tiles
        BY <1>2, <1>3, <3>3, HeaderForm
      <4> QED
        BY <3>1, <4>1, <4>2
    <3>4. CASE S = "SENDING_END_PROG_NOTIF"
      BY <1>3, <3>4, Sizes DEF AddressSent, Header
    <3> QED
      BY <1>3, <3>2, <3>3, <3>4 DEF SendState
  <2> HIDE DEF tile
  <2>5. q \in Packet
    BY <1>6, <2>2, <2>3, <2>4 DEF Packet
  <2> QED
    BY <2>5 DEF tile
<1> DEFINE qs2 == [qs EXCEPT ![n] = new]
<1>10. /\ qs2 \in Seq(Packet) /\ Len(qs2) = n /\ qs2[n] = new /\ qs2 # << >>
       /\ \A k \in 1 .. n : k # n => qs2[k] = qs[k]
  <2>1. qs \in [1 .. n -> Packet]
    OBVIOUS
  <2>2. qs2 \in [1 .. n -> Packet]
    BY <1>5, <2>1
  <2>3. qs2 \in Seq(Packet) /\ Len(qs2) = n
    BY <1>5, <2>2
  <2> QED
    BY <1>5, <2>1, <2>3
<1> HIDE DEF qs2, n
<1>11. InHand(qs2) = new
  BY <1>10 DEF InHand
<1>12. \A k \in 1 .. n : /\ qs2[k].at = qs[k].at /\ qs2[k].n = qs[k].n /\ qs2[k].r = qs[k].r
                         /\ k # n => Size(qs2[k]) = Size(qs[k]) /\ IsWrite(qs2[k]) = IsWrite(qs[k])
                                                     /\ IsRead(qs2[k]) = IsRead(qs[k])
  BY <1>5, <1>9, <1>10
<1>13. \A k \in 1 .. n : k # n <=> k < n
  BY <1>5
<1>14. Placed(qs2)'
  <2>1. /\ qs[1].n = Len(written) /\ qs[1].r = Len(answered)
        /\ \A k \in 1 .. n - 1 : /\ qs[k + 1].at = qs[k].at + Size(qs[k])
                                 /\ qs[k + 1].n = qs[k].n + IsWrite(qs[k])
                                 /\ qs[k + 1].r = qs[k].r + IsRead(qs[k])
        /\ \A k, l \in 1 .. n : k < l => qs[k].at + Size(qs[k]) <= qs[l].at
    BY <1>2 DEF Packets, Placed, n
  <2>2. \A k \in 1 .. n - 1 : k \in 1 .. n /\ k # n /\ k + 1 \in 1 .. n
    BY <1>5
  <2>3. \A k, l \in 1 .. n : k < l => k # n
    BY <1>5
  <2>4. \A k \in 1 .. n - 1 : /\ qs2[k + 1].at = qs2[k].at + Size(qs2[k])
                              /\ qs2[k + 1].n = qs2[k].n + IsWrite(qs2[k])
                              /\ qs2[k + 1].r = qs2[k].r + IsRead(qs2[k])
    BY <1>12, <2>1, <2>2
  <2>5. \A k, l \in 1 .. n : k < l => qs2[k].at + Size(qs2[k]) <= qs2[l].at
    BY <1>12, <2>1, <2>3
  <2>6. qs2[1].n = Len(written)' /\ qs2[1].r = Len(answered)'
    BY <1>3, <1>5, <1>12, <2>1
  <2> QED
    BY <1>10, <2>4, <2>5, <2>6 DEF Placed
<1>15. Framed(qs2)'
  <2> DEFINE base == qs[1].at
  <2>1. /\ Len(tx) = p.at - base + partial
        /\ \A k \in 1 .. n : \A j \in 1 .. BytesOut(qs, k) :
              tx[qs[k].at - base + j] = PacketByte(qs[k], j)
    BY <1>2 DEF Packets, Framed, n, p
  <2>2. \A k \in 1 .. n : /\ qs[k].at - base \in Nat /\ BytesOut(qs, k) \in Nat
                          /\ (qs[k].at - base) + BytesOut(qs, k) <= Len(tx)
    BY <1>2, PacketFacts DEF n
  <2>3. base \in Nat /\ qs2[1].at = base
    BY <1>2, <1>5, <1>12, PacketFacts DEF n
  <2> HIDE DEF base
  <2>4. /\ Len(tx') = Len(tx) + 1 /\ tx'[Len(tx) + 1] = Header
        /\ \A x \in 1 .. Len(tx) : tx'[x] = tx[x]
    BY <1>3, <1>5, Sizes
  <2>5. Len(tx) = p.at - base /\ Len(tx') = new.at - base + 1
    BY <1>4, <1>5, <1>6, <1>9, <2>1, <2>3, <2>4
  <2>6. ASSUME NEW k \in 1 .. n, NEW j \in 1 .. BytesOut(qs2, k)'
        PROVE  tx'[qs2[k].at - base + j] = PacketByte(qs2[k], j)
    <3>1. CASE k = n
      <4>1. BytesOut(qs2, k)' = 1
        BY <1>4, <1>5, <1>10, <3>1 DEF BytesOut
      <4>2. j = 1 /\ qs2[k] = new /\ qs2[k].at - base + j = Len(tx) + 1
        BY <1>5, <1>9, <1>10, <2>5, <3>1, <4>1
      <4> QED
        BY <1>9, <2>4, <4>2 DEF PacketByte
    <3>2. CASE k # n
      <4>1. BytesOut(qs2, k)' = BytesOut(qs, k) /\ qs2[k] = qs[k]
        BY <1>10, <1>13, <3>2 DEF BytesOut, n
      <4>2. j \in 1 .. BytesOut(qs, k)
        BY <4>1
      <4>3. qs[k].at - base + j \in 1 .. Len(tx)
        BY <1>5, <2>2, <4>2
      <4> QED
        BY <2>1, <2>4, <4>1, <4>2, <4>3
    <3> QED
      BY <3>1, <3>2
  <2> QED
    BY <1>4, <1>10, <1>11, <2>3, <2>5, <2>6 DEF Framed
<1> DEFINE w2 == w + IsWrite(new)
           r2 == r + IsRead(new)
<1>16. Behind(w2)' /\ (S = "SENDING_WRITE" => w + 1 <= Len(Writes)
                           /\ <<new.addr, new.tile>> = ItemOf(Writes, w + 1))
  <2>1. CASE S = "SENDING_WRITE"
    <3>1. /\ write_queue # << >> /\ Head(write_queue) \in HostAddresses \X Tiles
          /\ write_addr' = Head(write_queue)[1] /\ matrix_send_tile' = Head(write_queue)[2]
          /\ write_queue' = Tail(write_queue)
      BY <1>2, <2>1, HeaderForm
    <3>2. /\ w + 1 <= Len(Writes) /\ Head(write_queue) = ItemOf(Writes, w + 1)
          /\ Behind(w + 1)'
      BY <1>2, <1>3, <3>1, NextWrite
    <3>3. new.addr = write_addr' /\ new.tile = matrix_send_tile' /\ IsWrite(new) = 1
      BY <1>3, <1>9, <2>1 DEF AddressSent, IsWrite, Header
    <3>4. <<new.addr, new.tile>> = Head(write_queue)
      BY <3>1, <3>3
    <3> QED
      BY <3>2, <3>3, <3>4
  <2>2. CASE S # "SENDING_WRITE"
    <3>1. write_queue' = write_queue
      BY <1>2, <2>2, HeaderForm
    <3>2. IsWrite(new) = 0 /\ w2 = w
      <4>1. Header # 3
        BY <1>3, <2>2 DEF Header, SendState
      <4>2. IsWrite(new) = 0
        BY <1>9, <4>1 DEF IsWrite
      <4> QED
        BY <4>2
    <3>3. Behind(w)'
      BY <1>2, <1>3, <1>8, <3>1 DEF Behind, control_vars, pipeline_vars
    <3> QED
      BY <2>2, <3>2, <3>3
  <2> QED
    BY <2>1, <2>2
<1>17. Requests(r2)' /\ (S = "SENDING_READ_REQUEST" => r + 1 <= Len(Reads)
                             /\ new.addr = Reads[r + 1].addr)
  <2>1. CASE S = "SENDING_READ_REQUEST"
    <3>1. prefetch # << >> /\ PopRead
      BY <1>2, <1>3, <2>1 DEF SendHeader, Ctl, Requesting
    <3>2. r + 1 <= Len(Reads) /\ prefetch_dat_r' = Reads[r + 1].addr /\ Requests(r + 1)'
      BY <1>2, <1>3, <3>1, NextRequest
    <3>3. new.addr = prefetch_dat_r' /\ IsRead(new) = 1
      BY <1>3, <1>9, <2>1 DEF AddressSent, IsRead, Header
    <3> QED
      BY <3>2, <3>3
  <2>2. CASE S # "SENDING_READ_REQUEST"
    <3>1. prefetch' = prefetch /\ read_counter' = read_counter
      BY <2>2 DEF SendHeader, prefetch_vars
    <3>2. r2 = r
      <4>1. Header # 2
        BY <1>3, <2>2 DEF Header, SendState
      <4>2. IsRead(new) = 0
        BY <1>9, <4>1 DEF IsRead
      <4> QED
        BY <4>2
    <3>3. Requests(r)'
      BY <1>2, <1>3, <1>8, <3>1 DEF Requests, Commands
    <3> QED
      BY <2>2, <3>2, <3>3
  <2> QED
    BY <2>1, <2>2
<1>18. Meant(new)'
  <2>1. new.op = 2 => S = "SENDING_READ_REQUEST"
    BY <1>9 DEF Header
  <2>2. new.op = 3 => S = "SENDING_WRITE"
    BY <1>9 DEF Header
  <2>3. new.op = 4 => EndSent(new)'
    <3> SUFFICES ASSUME new.op = 4, DMA_INSTRUCTION_LATENCY >= 2
                 PROVE  Finished' /\ write_queue' = << >> /\ new.n = Len(Writes')
      BY DEF EndSent
    <3>1. S = "SENDING_END_PROG_NOTIF"
      BY <1>3, <1>9 DEF Header, SendState
    <3>2. Finished /\ write_queue = << >>
      BY <1>2, <3>1 DEF Ending
    <3>3. Len(write_queue) + One(stage_3.instr.kind) + One(stage_2.instr.kind)
             + One(stage_1.kind) = 0 /\ waiting = << >>
      BY <3>2 DEF Finished, One
    <3>4. Waits(<< >>, Writes, "write", w)
      <4>1. w + Len(write_queue) + One(stage_3.instr.kind) + One(stage_2.instr.kind)
               + One(stage_1.kind) = w
        BY <3>2 DEF Finished, One
      <4> QED
        BY <1>2, <3>3, <4>1 DEF Behind
    <3>5. Writes \in Seq(CopyRec)
      BY <1>2 DEF Shape, Issued, Writes, Kinds
    <3>6. w = Len(Writes)
      BY <3>4, <3>5, WaitsEmpty
    <3> QED
      BY <1>6, <1>7, <1>8, <1>9, <3>2, <3>6
  <2> QED
    BY <1>6, <1>8, <1>9, <1>16, <1>17, <2>1, <2>2, <2>3 DEF Meant
<1>19. Packets(qs2)'
  <2>1. ASSUME NEW k \in 1 .. n, BytesOut(qs2, k)' > 0 PROVE Meant(qs2[k])'
    <3>1. CASE k = n
      BY <1>10, <1>18, <3>1
    <3>2. CASE k # n
      <4>1. qs2[k] = qs[k] /\ qs[k] \in Packet /\ BytesOut(qs, k) > 0
        <5>1. BytesOut(qs, k) = Size(qs[k]) /\ qs[k] \in Packet /\ Size(qs[k]) >= 3
          BY <1>2, <1>13, <3>2, PacketFacts DEF BytesOut, n
        <5>2. Size(qs[k]) \in Nat
          BY <1>2, PacketFacts DEF n
        <5> QED
          BY <1>10, <3>2, <5>1, <5>2
      <4>2. Meant(qs[k])
        BY <1>2, <4>1 DEF Packets, n
      <4> QED
        BY <1>8, <4>1, <4>2
    <3> QED
      BY <3>1, <3>2
  <2>2. Sent(new)'
    <3>1. \A i \in 1 .. BODY_BYTES - 0 : i + 0 = i
      BY ByteFacts
    <3> QED
      BY <1>3, <1>4, <1>9, <3>1 DEF Sent
  <2> QED
    BY <1>10, <1>11, <1>14, <1>15, <2>1, <2>2 DEF Packets
<1>20. OnWire(qs2, w2, r2)' /\ w2 \in Nat /\ r2 \in Nat
  <2>1. w2 = WritesLeft(new)' /\ r2 = ReadsLeft(new)'
    BY <1>4, <1>6, <1>9 DEF WritesLeft, ReadsLeft
  <2>2. w2 \in Nat /\ r2 \in Nat
    BY DEF IsWrite, IsRead
  <2> HIDE DEF w2, r2
  <2> QED
    BY <1>11, <1>16, <1>17, <1>19, <2>1, <2>2 DEF OnWire
<1>21. Done'
  BY <1>2, <1>3, <1>8 DEF Done
<1>22. Ending'
  <2>1. /\ end_queue' > 0 => end_queue > 0
        /\ S # "SENDING_WRITE" => write_queue' = write_queue
    <3>1. end_queue \in Nat
      BY <1>2, LinkAssumption DEF Shape, Queued, LinkAssumption
    <3>2. S = "SENDING_END_PROG_NOTIF" => end_queue > 0 /\ end_queue' = end_queue - 1
      BY <1>2, HeaderForm
    <3>3. S # "SENDING_END_PROG_NOTIF" => end_queue' = end_queue
      BY <1>2, HeaderForm
    <3>4. S # "SENDING_WRITE" => write_queue' = write_queue
      BY <1>2, HeaderForm
    <3> QED
      BY <3>1, <3>2, <3>3, <3>4
  <2>2. /\ waiting' = waiting /\ since_ram' = since_ram /\ stage_1' = stage_1
        /\ stage_2' = stage_2
    BY <1>3 DEF control_vars, pipeline_vars
  <2> QED
    BY <1>2, <1>3, <1>8, <2>1, <2>2 DEF Ending
<1>23. Ctl' /\ Shape'
  BY <1>2, CtlSender, ShapeHeader DEF Sender
<1> QED
  BY <1>10, <1>20, <1>21, <1>22, <1>23 DEF Path

(* The byte the sender adds is the next of the packet in hand.             *)
LEMMA NextByte ==
    ASSUME Shape, SendByte, NEW p \in Packet, Sent(p)
    PROVE  /\ partial = counter /\ counter \in Nat \ {0} /\ Size(p) = LastByte + 1
           /\ counter <= LastByte /\ LastByte \in Nat
           /\ \E byte \in Bytes : tx' = Append(tx, byte) /\ byte = PacketByte(p, counter + 1)
           /\ counter # LastByte => partial' = counter + 1 /\ Sent(p)'
           /\ counter = LastByte => partial' = 0
<1>1. /\ S # "IDLE" /\ counter > 0 /\ counter' = counter + 1 /\ counter \in Nat
      /\ S' = IF counter = LastByte THEN "IDLE" ELSE S
      /\ tx' = Append(tx, IF counter = 1 THEN High(AddressSent)
                          ELSE IF counter = 2 THEN Low(AddressSent)
                          ELSE Head(matrix_send_tile))
      /\ matrix_send_tile' = IF counter > 2 THEN ShiftIn(matrix_send_tile, 0)
                             ELSE matrix_send_tile
      /\ UNCHANGED <<prefetch_dat_r, write_addr>>
  BY DEF SendByte, prefetch_vars, Shape, Sending
<1>2. /\ S \in SendState /\ counter <= LastByte /\ LastByte \in Nat
      /\ matrix_send_tile \in Tiles /\ tx \in Seq(Bytes) /\ BODY_BYTES \in Nat \ {0}
  BY <1>1, ByteFacts DEF Shape, Sending, LastByte
<1>3. partial = counter
  BY <1>1 DEF partial
<1>4. /\ p.op = Header /\ p.addr = AddressSent
      /\ S = "SENDING_WRITE" => \A i \in 1 .. BODY_BYTES - Shifted :
                                    matrix_send_tile[i] = p.tile[i + Shifted]
  BY <1>1, <1>3 DEF Sent
<1>5. Size(p) = LastByte + 1
  BY <1>2, <1>4 DEF Size, LastByte, Header, SendState
<1>6. Tiles = [1 .. BODY_BYTES -> Bytes]
  BY DEF Tiles
<1>7. counter > 2 => /\ S = "SENDING_WRITE" /\ Shifted = counter - 3
                     /\ 1 \in 1 .. BODY_BYTES - Shifted
                     /\ Head(matrix_send_tile) = p.tile[counter - 2]
  <2> SUFFICES ASSUME counter > 2
               PROVE  /\ S = "SENDING_WRITE" /\ Shifted = counter - 3
                      /\ 1 \in 1 .. BODY_BYTES - Shifted
                      /\ Head(matrix_send_tile) = p.tile[counter - 2]
    OBVIOUS
  <2>1. S = "SENDING_WRITE" /\ LastByte = 2 + BODY_BYTES
    BY <1>1, <1>2 DEF LastByte
  <2>2. Shifted = counter - 3
    BY <1>1 DEF Shifted
  <2>3. 1 \in 1 .. BODY_BYTES - Shifted /\ 1 + Shifted = counter - 2
    BY <1>1, <1>2, <2>1, <2>2
  <2>4. Head(matrix_send_tile) = matrix_send_tile[1]
    OBVIOUS
  <2> QED
    BY <1>4, <2>1, <2>2, <2>3, <2>4
<1>8. \E byte \in Bytes : tx' = Append(tx, byte) /\ byte = PacketByte(p, counter + 1)
  <2> DEFINE byte == PacketByte(p, counter + 1)
  <2>1. /\ counter = 1 => byte = High(AddressSent)
        /\ counter = 2 => byte = Low(AddressSent)
        /\ counter > 2 => byte = Head(matrix_send_tile)
    <3>1. counter = 1 => byte = High(AddressSent)
      BY <1>4 DEF PacketByte
    <3>2. counter = 2 => byte = Low(AddressSent)
      BY <1>4 DEF PacketByte
    <3>3. counter > 2 => (counter + 1) - 3 = counter - 2 /\ counter + 1 # 1 /\ counter + 1 # 2
                         /\ counter + 1 # 3
      BY <1>1
    <3>4. counter > 2 => byte = p.tile[counter - 2]
      BY <3>3 DEF PacketByte
    <3> QED
      BY <1>7, <3>1, <3>2, <3>4
  <2>2. tx' = Append(tx, byte)
    <3>1. counter = 1 \/ counter = 2 \/ (counter > 2 /\ counter # 1 /\ counter # 2)
      BY <1>1
    <3> HIDE DEF byte
    <3> QED
      BY <1>1, <2>1, <3>1
  <2>3. byte \in Bytes
    <3>1. AddressSent \in Int
      BY <1>4 DEF Packet, Words
    <3>2. High(AddressSent) \in Bytes /\ Low(AddressSent) \in Bytes
      BY <3>1, ByteFacts
    <3>3. counter > 2 => Head(matrix_send_tile) \in Bytes
      <4>1. Head(matrix_send_tile) = matrix_send_tile[1] /\ 1 \in 1 .. BODY_BYTES
        BY <1>2
      <4> QED
        BY <1>2, <1>6, <4>1
    <3>4. counter = 1 \/ counter = 2 \/ counter > 2
      BY <1>1
    <3> HIDE DEF byte
    <3> QED
      BY <2>1, <3>2, <3>3, <3>4
  <2> QED
    BY <2>2, <2>3
<1>9. ASSUME counter # LastByte
      PROVE  partial' = counter + 1 /\ Sent(p)'
  <2>1. S' = S /\ partial' = counter + 1
    BY <1>1, <1>9 DEF partial
  <2>2. Header' = Header /\ AddressSent' = AddressSent
    BY <1>1, <2>1 DEF Header, AddressSent
  <2>3. ASSUME S = "SENDING_WRITE", NEW i \in 1 .. BODY_BYTES - Shifted'
        PROVE  matrix_send_tile'[i] = p.tile[i + Shifted']
    <3>1. CASE counter > 2
      <4>1. Shifted' = Shifted + 1 /\ Shifted \in Nat
        <5>1. Shifted = counter - 3 /\ counter' > 3
          BY <1>1, <1>7, <3>1
        <5>2. Shifted' = counter' - 3
          BY <1>1, <5>1 DEF Shifted
        <5> QED
          BY <1>1, <3>1, <5>1, <5>2
      <4>2. i \in 1 .. BODY_BYTES - 1 /\ i + 1 \in 1 .. BODY_BYTES - Shifted
            /\ (i + 1) + Shifted = i + Shifted'
        BY <1>2, <4>1
      <4>3. matrix_send_tile'[i] = matrix_send_tile[i + 1]
        <5>1. matrix_send_tile \in [1 .. BODY_BYTES -> Bytes] /\ 0 \in Bytes
          BY <1>2, <1>6, Sizes
        <5>2. matrix_send_tile' = ShiftIn(matrix_send_tile, 0)
          BY <1>1, <3>1
        <5> QED
          <6>1. BODY_BYTES \in Nat \ {0}
            BY <1>2
          <6>2. ShiftIn(matrix_send_tile, 0)[i] = matrix_send_tile[i + 1]
            BY <4>2, <5>1, <6>1, ShiftFacts
          <6> QED
            BY ONLY <5>2, <6>2
      <4> QED
        BY <1>4, <2>3, <4>2, <4>3
    <3>2. CASE ~ (counter > 2)
      <4>1. Shifted = 0 /\ Shifted' = 0
        <5>1. counter <= 3 /\ counter' <= 3
          BY <1>1, <3>2
        <5> QED
          BY <5>1 DEF Shifted
      <4>2. matrix_send_tile' = matrix_send_tile
        BY <1>1, <3>2
      <4> QED
        BY <1>4, <2>3, <4>1, <4>2
    <3> QED
      BY <3>1, <3>2
  <2> QED
    BY <1>4, <2>1, <2>2, <2>3 DEF Sent
<1>10. counter = LastByte => partial' = 0
  BY <1>1 DEF partial
<1> QED
  BY <1>1, <1>2, <1>3, <1>5, <1>8, <1>9, <1>10

(* Another byte of the packet in hand; behind the last a new packet opens. *)
LEMMA PathByte == ASSUME Path, SendByte PROVE Path'
<1>1. PICK qs \in Seq(Packet), w \in Nat, r \in Nat : OnWire(qs, w, r)
  BY DEF Path
<1>2. Ctl /\ Shape /\ Done /\ Ending /\ Packets(qs) /\ Behind(w) /\ Requests(r)
      /\ w = WritesLeft(InHand(qs)) /\ r = ReadsLeft(InHand(qs))
  BY <1>1 DEF Path, OnWire
<1>3. /\ UNCHANGED <<program, control_vars, prefetch_command, prefetch_vars, pipeline_vars,
                     write_queue, end_queue, host, answered, written>>
      /\ S' = IF counter = LastByte THEN "IDLE" ELSE S
  BY DEF SendByte
<1> DEFINE n == Len(qs)
           p == InHand(qs)
           base == qs[1].at
<1>4. /\ n \in Nat \ {0} /\ 1 \in 1 .. n /\ n \in 1 .. n /\ p \in Packet /\ p = qs[n]
      /\ tx \in Seq(Bytes) /\ Len(tx) \in Nat /\ base \in Nat /\ p.at \in Nat
      /\ p.n \in Nat /\ p.r \in Nat /\ Size(p) \in Nat
  BY <1>2, PacketFacts DEF InHand
<1>5. \A k \in 1 .. n : /\ qs[k].at - base \in Nat /\ BytesOut(qs, k) \in Nat
                        /\ (qs[k].at - base) + BytesOut(qs, k) <= Len(tx)
                        /\ qs[k] \in Packet
  BY <1>2, PacketFacts
<1>6. /\ partial = counter /\ counter \in Nat \ {0} /\ Size(p) = LastByte + 1
      /\ counter <= LastByte /\ LastByte \in Nat
      /\ \E byte \in Bytes : tx' = Append(tx, byte) /\ byte = PacketByte(p, counter + 1)
      /\ counter # LastByte => partial' = counter + 1 /\ Sent(p)'
      /\ counter = LastByte => partial' = 0
  <2>1. Sent(p)
    BY <1>2 DEF Packets
  <2> HIDE DEF p
  <2> QED
    BY <1>2, <1>4, <2>1, NextByte
<1>7. Reads' = Reads /\ Writes' = Writes /\ (AllPushed => AllPushed') /\ (Finished => Finished')
      /\ \A x \in Packet : Meant(x) => Meant(x)'
  BY <1>3, MeantKept
<1>8. /\ Len(tx) = p.at - base + counter
      /\ \A k \in 1 .. n : \A j \in 1 .. BytesOut(qs, k) :
            tx[qs[k].at - base + j] = PacketByte(qs[k], j)
      /\ \A k \in 1 .. n : BytesOut(qs, k) > 0 => Meant(qs[k])
  BY <1>2, <1>6 DEF Packets, Framed
<1>9. /\ Len(tx) = p.at - base + counter /\ p.at \in Nat /\ base \in Nat /\ Len(tx) \in Nat
      /\ counter \in Nat \ {0} /\ Size(p) = LastByte + 1 /\ LastByte \in Nat
      /\ counter <= LastByte
  <2>1. Len(tx) = p.at - base + counter
    BY <1>8
  <2>2. counter \in Nat \ {0} /\ Size(p) = LastByte + 1 /\ LastByte \in Nat /\ counter <= LastByte
    BY <1>6
  <2>3. p.at \in Nat /\ base \in Nat /\ Len(tx) \in Nat
    BY <1>4
  <2> QED
    BY ONLY <2>1, <2>2, <2>3
<1>10. /\ qs[1].n = Len(written) /\ qs[1].r = Len(answered)
       /\ \A k \in 1 .. n - 1 : /\ qs[k + 1].at = qs[k].at + Size(qs[k])
                                /\ qs[k + 1].n = qs[k].n + IsWrite(qs[k])
                                /\ qs[k + 1].r = qs[k].r + IsRead(qs[k])
       /\ \A k, l \in 1 .. n : k < l => qs[k].at + Size(qs[k]) <= qs[l].at
  BY <1>2 DEF Packets, Placed
<1>11. /\ BytesOut(qs, n) = counter
       /\ \A k \in 1 .. n : k # n => BytesOut(qs, k) = Size(qs[k]) /\ k < n
  <2>1. \A k \in 1 .. n : k # n => k < n
    BY <1>4
  <2> QED
    BY <1>4, <1>6, <2>1 DEF BytesOut
<1>12. Behind(w)' /\ Requests(r)'
  <2>1. Behind(w)'
    BY <1>2, <1>3, <1>7 DEF Behind, control_vars, pipeline_vars
  <2>2. Requests(r)'
    BY <1>2, <1>3, <1>7 DEF Requests, Commands, prefetch_vars
  <2> QED
    BY <2>1, <2>2
<1>13. w = p.n + IsWrite(p) /\ r = p.r + IsRead(p)
  BY <1>2, <1>6 DEF WritesLeft, ReadsLeft
<1> HIDE DEF n, p, base
<1>14. /\ Len(tx') = Len(tx) + 1 /\ tx'[Len(tx) + 1] = PacketByte(p, counter + 1)
       /\ \A x \in 1 .. Len(tx) : tx'[x] = tx[x]
  <2>1. PICK byte \in Bytes : tx' = Append(tx, byte) /\ byte = PacketByte(p, counter + 1)
    BY <1>6
  <2> QED
    BY <1>4, <2>1
<1>15. /\ \A k \in 1 .. n : \A j \in 1 .. BytesOut(qs, k) :
             tx'[qs[k].at - base + j] = PacketByte(qs[k], j)
       /\ tx'[p.at - base + (counter + 1)] = PacketByte(p, counter + 1)
  <2>1. ASSUME NEW k \in 1 .. n, NEW j \in 1 .. BytesOut(qs, k)
        PROVE  tx'[qs[k].at - base + j] = PacketByte(qs[k], j)
    <3>1. qs[k].at - base + j \in 1 .. Len(tx)
      <4> DEFINE d == qs[k].at - base
                 b == BytesOut(qs, k)
      <4>1. d \in Nat /\ b \in Nat /\ d + b <= Len(tx) /\ Len(tx) \in Nat /\ j \in 1 .. b
        BY <1>4, <1>5
      <4> HIDE DEF d, b
      <4>2. d + j \in 1 .. Len(tx)
        BY ONLY <4>1
      <4> QED
        BY <4>2 DEF d
    <3> QED
      BY <1>8, <1>14, <3>1
  <2>2. p.at - base + (counter + 1) = Len(tx) + 1
    <3> DEFINE a == p.at
               t == Len(tx)
    <3>1. t = a - base + counter /\ a \in Nat /\ base \in Nat /\ t \in Nat /\ counter \in Nat
      BY ONLY <1>9
    <3> HIDE DEF a, t
    <3>2. a - base + (counter + 1) = t + 1
      BY ONLY <3>1
    <3> QED
      BY ONLY <3>2 DEF a, t
  <2> QED
    BY <1>14, <2>1, <2>2
<1>16. Done'
  BY <1>2, <1>3, <1>7 DEF Done
<1>17. Ending'
  <2>1. S' = "SENDING_END_PROG_NOTIF" => S = "SENDING_END_PROG_NOTIF"
    BY <1>3
  <2> QED
    BY <1>2, <1>3, <1>7, <2>1 DEF Ending, control_vars, pipeline_vars
<1>18. Ctl' /\ Shape'
  BY <1>2, CtlSender, ShapeByte DEF Sender
<1>19. CASE counter # LastByte
  <2>1. partial' = counter + 1 /\ Sent(p)'
    BY <1>6, <1>19
  <2>2. \A k \in 1 .. n : /\ k # n => BytesOut(qs, k)' = BytesOut(qs, k)
                          /\ k = n => BytesOut(qs, k)' = counter + 1
    BY <1>11, <2>1 DEF BytesOut, n
  <2>3. Framed(qs)'
    <3>1. Len(tx') = p.at - base + partial'
      <4> DEFINE a == p.at
                 t == Len(tx)
      <4>1. t = a - base + counter /\ a \in Nat /\ base \in Nat /\ t \in Nat /\ counter \in Nat
        BY ONLY <1>9
      <4>2. Len(tx') = t + 1 /\ partial' = counter + 1
        BY ONLY <1>14, <2>1
      <4> HIDE DEF a, t
      <4>3. Len(tx') = a - base + partial'
        BY ONLY <4>1, <4>2
      <4> QED
        BY ONLY <4>3 DEF a
    <3>2. ASSUME NEW k \in 1 .. n, NEW j \in 1 .. BytesOut(qs, k)'
          PROVE  tx'[qs[k].at - base + j] = PacketByte(qs[k], j)
      <4>1. CASE k # n
        BY <1>15, <2>2, <4>1
      <4>2. CASE k = n
        <5>1. j \in 1 .. counter + 1 /\ qs[k] = p
          BY <1>4, <2>2, <4>2
        <5>2. j \in 1 .. counter \/ j = counter + 1
          BY <1>6, <5>1
        <5>3. BytesOut(qs, k) = counter
          BY <1>11, <4>2
        <5> QED
          BY <1>15, <5>1, <5>2, <5>3
      <4> QED
        BY <4>1, <4>2
    <3> QED
      BY <3>1, <3>2 DEF Framed, n, p, base
  <2>4. ASSUME NEW k \in 1 .. n, BytesOut(qs, k)' > 0 PROVE Meant(qs[k])'
    <3>1. BytesOut(qs, k) > 0
      BY <1>6, <1>11, <2>2, <2>4
    <3> QED
      BY ONLY <1>7, <1>8, <1>5, <3>1
  <2>5. Placed(qs)'
    BY <1>3, <1>10 DEF Placed, n
  <2>6. Packets(qs)'
    BY <1>2, <2>1, <2>3, <2>4, <2>5 DEF Packets, n, p
  <2>7. w = WritesLeft(p)' /\ r = ReadsLeft(p)'
    <3>1. partial' > 0
      BY <1>6, <2>1
    <3> QED
      BY <1>13, <3>1 DEF WritesLeft, ReadsLeft
  <2>8. OnWire(qs, w, r)'
    BY <1>12, <2>6, <2>7 DEF OnWire, p
  <2> QED
    BY <1>16, <1>17, <1>18, <2>8 DEF Path
<1>20. CASE counter = LastByte
  <2> DEFINE at == p.at + Size(p)
             new == [op |-> 4, addr |-> 0, tile |-> NoTile, at |-> at, n |-> w, r |-> r]
             qs2 == Append(qs, new)
  <2>1. new \in Packet /\ partial' = 0
    <3>1. at \in Nat
      BY <1>4
    <3> QED
      BY <1>6, <1>20, <3>1, OpenPacket
  <2>2. new.at = at /\ new.n = w /\ new.r = r
    OBVIOUS
  <2> HIDE DEF new
  <2>3. /\ qs2 \in Seq(Packet) /\ Len(qs2) = n + 1 /\ qs2[n + 1] = new /\ qs2 # << >>
        /\ \A k \in 1 .. n : qs2[k] = qs[k]
    <3>1. qs \in Seq(Packet) /\ new \in Packet /\ n = Len(qs)
      BY <2>1 DEF n
    <3> HIDE DEF at
    <3>2. qs2 = Append(qs, new)
      OBVIOUS
    <3> HIDE DEF qs2, n
    <3> QED
      BY ONLY <3>1, <3>2
  <2> HIDE DEF qs2, at
  <2>4. InHand(qs2) = new /\ qs2[1] = qs[1] /\ n + 1 \in 1 .. n + 1 /\ 1 \in 1 .. n + 1
    BY <1>4, <2>3 DEF InHand
  <2>5. \A k \in 1 .. n + 1 : k \in 1 .. n \/ k = n + 1
    BY <1>4
  <2>6. /\ \A k \in 1 .. n : BytesOut(qs2, k)' = Size(qs[k])
        /\ BytesOut(qs2, n + 1)' = 0
    <3>1. \A k \in 1 .. n : k < n + 1 /\ ~ (n + 1 < n + 1)
      BY <1>4
    <3> QED
      BY <1>4, <2>1, <2>3, <3>1 DEF BytesOut
  <2>7. Placed(qs2)'
    <3>1. \A k \in 1 .. n : /\ qs2[k + 1].at = qs2[k].at + Size(qs2[k])
                            /\ qs2[k + 1].n = qs2[k].n + IsWrite(qs2[k])
                            /\ qs2[k + 1].r = qs2[k].r + IsRead(qs2[k])
      <4> TAKE k \in 1 .. n
      <4>1. CASE k = n
        BY <1>4, <1>13, <2>2, <2>3, <4>1 DEF at
      <4>2. CASE k # n
        <5>1. k \in 1 .. n - 1 /\ k + 1 \in 1 .. n
          BY <1>4, <4>2
        <5> QED
          BY <1>10, <2>3, <5>1
      <4> QED
        BY <4>1, <4>2
    <3>2. \A k, l \in 1 .. n + 1 : k < l => qs2[k].at + Size(qs2[k]) <= qs2[l].at
      <4> SUFFICES ASSUME NEW k \in 1 .. n + 1, NEW l \in 1 .. n + 1, k < l
                   PROVE  qs2[k].at + Size(qs2[k]) <= qs2[l].at
        OBVIOUS
      <4>1. k \in 1 .. n /\ qs2[k] = qs[k] /\ (l # n + 1 => l \in 1 .. n /\ qs2[l] = qs[l])
        BY <1>4, <2>3
      <4>2. CASE l # n + 1
        <5>1. l \in 1 .. n /\ qs2[l] = qs[l]
          BY ONLY <4>1, <4>2
        <5>2. k < l
          OBVIOUS
        <5>3. qs[k].at + Size(qs[k]) <= qs[l].at
          BY <1>10, <4>1, <5>1, <5>2
        <5> QED
          BY ONLY <4>1, <5>1, <5>3
      <4>3. CASE l = n + 1
        <5>1. qs2[l].at = p.at + Size(p)
          BY <2>2, <2>3, <4>3 DEF at
        <5>2. CASE k = n
          <6>1. p.at + Size(p) <= p.at + Size(p)
            BY <1>4
          <6> QED
            BY <1>4, <4>1, <5>1, <5>2, <6>1
        <5>3. CASE k # n
          <6>1. k < n
            BY <1>4, <4>1, <5>3
          <6>2. qs[k].at + Size(qs[k]) <= p.at
            <7>1. qs[k].at + Size(qs[k]) <= qs[n].at
              BY ONLY <1>4, <1>10, <4>1, <6>1
            <7> QED
              BY ONLY <1>4, <7>1
          <6>3. qs[k].at + Size(qs[k]) \in Nat
            <7>1. qs[k].at \in Nat /\ Size(qs[k]) \in Nat
              BY <1>2, <4>1, PacketFacts DEF n
            <7> QED
              BY <7>1
          <6> QED
            BY <1>4, <4>1, <5>1, <6>2, <6>3
        <5> QED
          BY <5>2, <5>3
      <4> QED
        BY <4>2, <4>3
    <3>3. qs2[1].n = Len(written)' /\ qs2[1].r = Len(answered)'
      BY <1>3, <1>10, <2>4
    <3>4. Len(qs2) - 1 = n
      BY <1>4, <2>3
    <3> QED
      BY <2>3, <3>1, <3>2, <3>3, <3>4 DEF Placed
  <2>8. Framed(qs2)'
    <3>1. Len(tx') = new.at - qs2[1].at + partial'
      <4>1. Len(tx') = Len(tx) + 1 /\ partial' = 0 /\ new.at = at /\ qs2[1].at = base
        BY ONLY <1>14, <2>1, <2>2, <2>4 DEF base
      <4>2. at = p.at + Size(p)
        BY DEF at
      <4> DEFINE a == p.at
                 t == Len(tx)
      <4>3. /\ t = a - base + counter /\ a \in Nat /\ base \in Nat /\ t \in Nat
            /\ at = a + (counter + 1) /\ counter \in Nat
        BY ONLY <1>20, <1>9, <4>2
      <4>4. Len(tx') = t + 1
        BY ONLY <4>1
      <4> HIDE DEF a, t
      <4>5. Len(tx') = at - base + 0
        BY ONLY <4>3, <4>4
      <4> QED
        BY ONLY <4>1, <4>5
    <3>2. ASSUME NEW k \in 1 .. n, NEW j \in 1 .. Size(qs[k])
          PROVE  tx'[qs[k].at - base + j] = PacketByte(qs[k], j)
      <4>1. CASE k # n
        BY <1>11, <1>15, <4>1
      <4>2. CASE k = n
        <5>1. j \in 1 .. counter + 1 /\ qs[k] = p
          BY <1>4, <1>6, <1>20, <4>2
        <5>2. j \in 1 .. counter \/ j = counter + 1
          BY <1>6, <5>1
        <5>3. BytesOut(qs, k) = counter
          BY <1>11, <4>2
        <5> QED
          BY <1>15, <5>1, <5>2, <5>3
      <4> QED
        BY <4>1, <4>2
    <3>3. ASSUME NEW k \in 1 .. n + 1, NEW j \in 1 .. BytesOut(qs2, k)'
          PROVE  tx'[qs2[k].at - qs2[1].at + j] = PacketByte(qs2[k], j)
      <4>1. CASE k \in 1 .. n
        BY <2>3, <2>4, <2>6, <3>2, <4>1 DEF base
      <4>2. CASE k = n + 1
        BY <2>6, <4>2
      <4> QED
        BY <2>5, <4>1, <4>2
    <3> QED
      BY <2>3, <2>4, <3>1, <3>3 DEF Framed
  <2>9. ASSUME NEW k \in 1 .. n + 1, BytesOut(qs2, k)' > 0 PROVE Meant(qs2[k])'
    <3>1. k \in 1 .. n /\ qs2[k] = qs[k] /\ qs[k] \in Packet
      BY <1>4, <2>3, <2>5, <2>6, <2>9
    <3>2. BytesOut(qs, k) > 0
      <4>1. Size(qs[k]) \in Nat /\ Size(qs[k]) >= 3
        BY <1>2, <3>1, PacketFacts DEF n
      <4> QED
        BY <1>6, <1>11, <3>1, <4>1
    <3> QED
      BY <1>7, <1>8, <3>1, <3>2
  <2>10. Sent(new)'
    BY <2>1 DEF Sent
  <2>11. Packets(qs2)'
    BY <2>3, <2>4, <2>7, <2>8, <2>9, <2>10 DEF Packets
  <2>12. w = WritesLeft(new)' /\ r = ReadsLeft(new)'
    BY <2>1, <2>2 DEF WritesLeft, ReadsLeft
  <2>13. OnWire(qs2, w, r)'
    BY <1>12, <2>4, <2>11, <2>12 DEF OnWire
  <2> QED
    BY <1>16, <1>17, <1>18, <2>3, <2>13 DEF Path
<1> QED
  BY <1>19, <1>20

(* The packet at the head of the wire, once the host has seen all of it.   *)
LEMMA HeadPacket ==
    ASSUME Shape, NEW qs, Packets(qs), Len(tx) >= 3,
           tx[1] = 3 => Len(tx) >= 3 + BODY_BYTES
    PROVE  /\ Len(qs) >= 2 /\ qs[1] \in Packet /\ tx[1] = qs[1].op /\ HostAddr = qs[1].addr
           /\ Size(qs[1]) <= Len(tx) /\ Meant(qs[1])
           /\ \A j \in 1 .. Size(qs[1]) : tx[j] = PacketByte(qs[1], j)
<1> DEFINE h == qs[1]
           n == Len(qs)
           out == BytesOut(qs, 1)
<1>1. /\ n \in Nat \ {0} /\ h \in Packet /\ h.at \in Nat /\ Size(h) \in Nat /\ Size(h) >= 3
      /\ out \in Nat /\ out <= Size(h) /\ (h.at - h.at) + out <= Len(tx) /\ Len(tx) \in Nat
      /\ partial \in Nat
  BY PacketFacts
<1>2. \A j \in 1 .. out : tx[j] = PacketByte(h, j)
  <2> TAKE j \in 1 .. out
  <2>1. 1 \in 1 .. Len(qs) /\ h.at - h.at + j = j
    BY <1>1
  <2> QED
    BY <2>1 DEF Packets, Framed
<1>3. n = 1 => out = Len(tx) /\ out < Size(h)
  <2> SUFFICES ASSUME n = 1 PROVE out = Len(tx) /\ out < Size(h)
    OBVIOUS
  <2>1. InHand(qs) = h /\ out = partial
    BY DEF InHand, BytesOut
  <2>2. Len(tx) = h.at - h.at + partial
    BY <2>1 DEF Packets, Framed
  <2>3. Len(tx) = partial
    BY <1>1, <2>2
  <2>4. partial < Size(h)
    BY <1>1, <2>1, <2>3, PacketFacts
  <2> QED
    BY <2>1, <2>3, <2>4
<1>4. out >= 3
  <2>1. n # 1 => out = Size(h)
    <3>1. n # 1 => 1 < n
      <4>1. n \in Nat \ {0}
        BY <1>1
      <4> HIDE DEF n
      <4> QED
        BY ONLY <4>1
    <3> QED
      BY <3>1 DEF BytesOut
  <2> HIDE DEF n, out, h
  <2> QED
    BY <1>1, <1>3, <2>1
<1>5. tx[1] = h.op /\ h.op \in 2 .. 4
  <2>1. 1 \in 1 .. out
    BY <1>1, <1>4
  <2> QED
    BY <1>1, <1>2, <2>1 DEF PacketByte, Packet
<1>6. n >= 2 /\ out = Size(h)
  <2>1. n # 1
    <3>1. Size(h) = IF h.op = 3 THEN 3 + BODY_BYTES ELSE 3
      BY DEF Size
    <3> HIDE DEF h, n, out
    <3>2. Len(tx) >= Size(h)
      BY <1>5, <3>1
    <3> QED
      BY <1>1, <1>3, <3>2
  <2> QED
    <3>1. 1 < n /\ n >= 2
      <4>1. n \in Nat \ {0}
        BY <1>1
      <4> HIDE DEF n
      <4> QED
        BY ONLY <2>1, <4>1
    <3> QED
      BY <3>1 DEF BytesOut
<1>7. Meant(h)
  <2>1. out > 0 /\ 1 \in 1 .. n
    BY <1>1, <1>4
  <2> QED
    BY <2>1 DEF Packets
<1>8. HostAddr = h.addr
  <2>1. 2 \in 1 .. out /\ 3 \in 1 .. out
    BY <1>1, <1>4
  <2>2. tx[2] = High(h.addr) /\ tx[3] = Low(h.addr)
    BY <1>2, <2>1 DEF PacketByte
  <2>3. h.addr \in Words
    BY <1>1 DEF Packet
  <2> QED
    BY <2>2, <2>3, ByteFacts DEF HostAddr
<1>9. Size(h) <= Len(tx)
  BY <1>1, <1>6
<1> HIDE DEF h, n, out
<1> QED
  BY <1>1, <1>2, <1>5, <1>6, <1>7, <1>8, <1>9 DEF h, n

(* The packets that are left when the host has taken the first.            *)
LEMMA TakePacket ==
    ASSUME Shape, NEW qs, Packets(qs), Len(qs) >= 2, Size(qs[1]) <= Len(tx),
           tx' = SubSeq(tx, Size(qs[1]) + 1, Len(tx)),
           UNCHANGED <<S, counter, write_addr, matrix_send_tile, prefetch_dat_r>>,
           Len(written') = Len(written) + IsWrite(qs[1]),
           Len(answered') = Len(answered) + IsRead(qs[1]),
           \A p \in Packet : Meant(p) => Meant(p)'
    PROVE  Tail(qs) \in Seq(Packet) /\ Packets(Tail(qs))' /\ InHand(Tail(qs)) = InHand(qs)
<1> DEFINE ts == Tail(qs)
           n == Len(qs)
           z == Size(qs[1])
           base == qs[1].at
           base2 == qs[2].at
<1>1. qs \in Seq(Packet) /\ n \in Nat /\ n >= 2
  BY DEF Packets
<1>2. /\ ts \in Seq(Packet) /\ Len(ts) = n - 1 /\ ts # << >>
      /\ \A k \in 1 .. n - 1 : ts[k] = qs[k + 1]
  <2> HIDE DEF n
  <2>1. qs \in Seq(Packet) /\ Len(qs) = n /\ ts = Tail(qs) /\ qs # << >>
    BY <1>1 DEF n
  <2> HIDE DEF ts
  <2>2. ts \in Seq(Packet) /\ Len(ts) = n - 1
    BY ONLY <1>1, <2>1
  <2>3. \A k \in 1 .. n - 1 : ts[k] = qs[k + 1]
    BY ONLY <1>1, <2>1
  <2>4. ts # << >>
    BY ONLY <1>1, <2>2
  <2> QED
    BY ONLY <2>2, <2>3, <2>4
<1>3. InHand(ts) = InHand(qs)
  <2>1. n - 1 \in 1 .. n - 1 /\ (n - 1) + 1 = n
    BY <1>1
  <2> QED
    BY <1>2, <2>1 DEF InHand
<1>4. partial' = partial
  BY DEF partial
<1>5. \A k \in 1 .. n - 1 : BytesOut(ts, k)' = BytesOut(qs, k + 1)
  <2>1. \A k \in 1 .. n - 1 : k < n - 1 <=> k + 1 < n
    BY <1>1
  <2> QED
    BY <1>2, <1>4, <2>1 DEF BytesOut
<1> HIDE DEF ts
<1>6. /\ 1 \in 1 .. n - 1 /\ ts[1] = qs[2] /\ 1 \in 1 .. n /\ n \in 1 .. n /\ 2 \in 1 .. n
      /\ \A k \in 1 .. n - 1 : k + 1 \in 1 .. n
  <2>1. 1 \in 1 .. n - 1 /\ 1 + 1 = 2
    BY <1>1
  <2>2. \A k \in 1 .. n - 1 : k + 1 \in 1 .. n
    BY <1>1
  <2>3. 1 \in 1 .. n /\ n \in 1 .. n /\ 2 \in 1 .. n
    BY <1>1
  <2> QED
    BY <1>2, <2>1, <2>2, <2>3
<1>7. /\ \A k \in 1 .. n : /\ qs[k] \in Packet /\ qs[k].at \in Nat /\ Size(qs[k]) \in Nat
                           /\ BytesOut(qs, k) \in Nat /\ qs[k].at - base \in Nat
                           /\ (qs[k].at - base) + BytesOut(qs, k) <= Len(tx)
      /\ Len(tx) \in Nat /\ tx \in Seq(Bytes) /\ partial \in Nat
  BY PacketFacts
<1>8. /\ qs[1].n = Len(written) /\ qs[1].r = Len(answered)
      /\ \A k \in 1 .. n - 1 : /\ qs[k + 1].at = qs[k].at + Size(qs[k])
                               /\ qs[k + 1].n = qs[k].n + IsWrite(qs[k])
                               /\ qs[k + 1].r = qs[k].r + IsRead(qs[k])
      /\ \A k, l \in 1 .. n : k < l => qs[k].at + Size(qs[k]) <= qs[l].at
  BY DEF Packets, Placed
<1>9. base2 = base + z /\ qs[2].n = qs[1].n + IsWrite(qs[1]) /\ qs[2].r = qs[1].r + IsRead(qs[1])
  <2>1. 1 \in 1 .. n - 1 /\ 1 + 1 = 2
    BY <1>6
  <2> QED
    BY <1>8, <2>1
<1>10. /\ \A k \in 1 .. n : \A j \in 1 .. BytesOut(qs, k) :
             tx[qs[k].at - base + j] = PacketByte(qs[k], j)
       /\ Len(tx) = qs[n].at - base + partial
  BY DEF Packets, Framed, InHand
<1>11. /\ base \in Nat /\ z \in Nat /\ base2 \in Nat /\ z <= Len(tx) /\ qs[n].at \in Nat
       /\ Len(tx) \in Nat /\ partial \in Nat
  BY <1>6, <1>7
<1> HIDE DEF n, z, base, base2
<1>12. /\ Len(tx') = Len(tx) - z
       /\ \A x \in 1 .. Len(tx) - z : tx'[x] = tx[z + x]
  <2>1. tx' = SubSeq(tx, z + 1, Len(tx)) /\ tx \in Seq(Bytes)
    BY <1>7 DEF z
  <2>2. tx' = [i \in 1 .. Len(tx) - (z + 1) + 1 |-> tx[i + (z + 1) - 1]]
    <3>1. z + 1 \in Nat /\ Len(tx) \in Nat
      BY ONLY <1>11
    <3> QED
      BY ONLY <2>1, <3>1
  <2>3. Len(tx) - (z + 1) + 1 = Len(tx) - z /\ Len(tx) - z \in Nat
    BY ONLY <1>11
  <2>4. tx' = [i \in 1 .. Len(tx) - z |-> tx[i + (z + 1) - 1]]
    BY ONLY <2>2, <2>3
  <2>5. \A x \in 1 .. Len(tx) - z : x + (z + 1) - 1 = z + x
    BY ONLY <1>11
  <2> QED
    BY ONLY <2>3, <2>4, <2>5
<1>13. Placed(ts)'
  <2>1. ts[1].n = Len(written)' /\ ts[1].r = Len(answered)'
    BY <1>6, <1>8, <1>9
  <2>2. ASSUME NEW k \in 1 .. Len(ts) - 1
        PROVE  /\ ts[k + 1].at = ts[k].at + Size(ts[k])
               /\ ts[k + 1].n = ts[k].n + IsWrite(ts[k])
               /\ ts[k + 1].r = ts[k].r + IsRead(ts[k])
    <3>1. k \in 1 .. n - 1 /\ k + 1 \in 1 .. n - 1
      BY <1>1, <1>2
    <3>2. ts[k] = qs[k + 1] /\ ts[k + 1] = qs[k + 1 + 1]
      BY <1>2, <3>1
    <3> QED
      BY <1>8, <3>1, <3>2
  <2>3. ASSUME NEW k \in 1 .. Len(ts), NEW l \in 1 .. Len(ts), k < l
        PROVE  ts[k].at + Size(ts[k]) <= ts[l].at
    <3>1. /\ k \in 1 .. n - 1 /\ l \in 1 .. n - 1 /\ k + 1 < l + 1
          /\ k + 1 \in 1 .. n /\ l + 1 \in 1 .. n
      BY <1>1, <1>2, <2>3
    <3>2. ts[k] = qs[k + 1] /\ ts[l] = qs[l + 1]
      BY <1>2, <3>1
    <3>3. qs[k + 1].at + Size(qs[k + 1]) <= qs[l + 1].at
      BY <1>8, <3>1
    <3> QED
      BY <3>2, <3>3
  <2> QED
    BY <2>1, <2>2, <2>3 DEF Placed
<1>14. Framed(ts)'
  <2>1. Len(tx') = InHand(ts).at - ts[1].at + partial'
    <3>1. InHand(ts).at = qs[n].at /\ ts[1].at = base2
      BY <1>3, <1>6 DEF InHand, n, base2
    <3> DEFINE last == qs[n].at
               t == Len(tx)
    <3>2. t = last - base + partial /\ last \in Nat /\ base \in Nat /\ z \in Nat /\ partial \in Nat
          /\ base2 = base + z
      BY ONLY <1>9, <1>10, <1>11
    <3> HIDE DEF last, t
    <3>3. t - z = last - base2 + partial
      BY ONLY <3>2
    <3> QED
      BY ONLY <1>4, <1>12, <3>1, <3>3 DEF last, t
  <2>2. ASSUME NEW k \in 1 .. Len(ts), NEW j \in 1 .. BytesOut(ts, k)'
        PROVE  tx'[ts[k].at - ts[1].at + j] = PacketByte(ts[k], j)
    <3> DEFINE a == qs[k + 1].at
               b == BytesOut(qs, k + 1)
    <3>1. k \in 1 .. n - 1 /\ ts[k] = qs[k + 1] /\ k + 1 \in 1 .. n
      BY <1>2, <1>6
    <3>2. j \in 1 .. b
      BY <1>5, <3>1
    <3>3. base2 <= a
      <4>1. CASE k = 1
        BY <1>11, <4>1 DEF base2
      <4>2. CASE k # 1
        <5>1. 2 < k + 1
          BY <3>1, <4>2
        <5>2. qs[2].at + Size(qs[2]) <= qs[k + 1].at
          BY <1>6, <1>8, <3>1, <5>1
        <5>3. Size(qs[2]) \in Nat /\ base2 \in Nat /\ a \in Nat
          BY <1>6, <1>7, <1>11, <3>1
        <5> QED
          <6> DEFINE y == Size(qs[2])
          <6>1. base2 + y <= a /\ y \in Nat /\ base2 \in Nat /\ a \in Nat
            BY ONLY <5>2, <5>3 DEF base2
          <6> HIDE DEF a, y
          <6> QED
            BY ONLY <6>1
      <4> QED
        BY <4>1, <4>2
    <3>4. a \in Nat /\ b \in Nat /\ (a - base) + b <= Len(tx)
      BY <1>7, <3>1
    <3> HIDE DEF a, b
    <3>5. /\ a - base2 + j \in 1 .. Len(tx) - z /\ z + (a - base2 + j) = a - base + j
      BY ONLY <1>9, <1>11, <3>2, <3>3, <3>4
    <3>6. tx[a - base + j] = PacketByte(qs[k + 1], j)
      BY <1>10, <3>1, <3>2 DEF a, b
    <3>7. tx'[a - base2 + j] = tx[a - base + j]
      BY ONLY <1>12, <3>5
    <3>8. ts[k].at = a /\ ts[1].at = base2
      BY <1>6, <3>1 DEF a, base2
    <3> QED
      BY ONLY <3>1, <3>6, <3>7, <3>8
  <2> QED
    BY <2>1, <2>2 DEF Framed
<1>15. ASSUME NEW k \in 1 .. Len(ts), BytesOut(ts, k)' > 0 PROVE Meant(ts[k])'
  <2>1. k \in 1 .. n - 1 /\ ts[k] = qs[k + 1] /\ k + 1 \in 1 .. n
    BY <1>2, <1>6
  <2>2. BytesOut(qs, k + 1) > 0
    BY <1>5, <1>15, <2>1
  <2>3. Meant(qs[k + 1]) /\ qs[k + 1] \in Packet
    BY <1>7, <2>1, <2>2 DEF Packets, n
  <2> QED
    BY <2>1, <2>3
<1>16. Sent(InHand(ts))'
  <2>1. Sent(InHand(qs))
    BY DEF Packets
  <2>2. Header' = Header /\ AddressSent' = AddressSent /\ Shifted' = Shifted
    BY DEF Header, AddressSent, Shifted
  <2>3. Sent(InHand(qs))'
    BY <1>4, <2>1, <2>2 DEF Sent, InHand
  <2> QED
    BY <1>3, <2>3
<1>17. Packets(ts)'
  BY <1>2, <1>13, <1>14, <1>15, <1>16 DEF Packets
<1> QED
  BY <1>2, <1>3, <1>17 DEF ts

(* The host takes the packet at the head of the wire, whole.               *)
LEMMA PathHost == ASSUME Path, HostStep PROVE Path'
<1>1. PICK qs \in Seq(Packet), w \in Nat, r \in Nat : OnWire(qs, w, r)
  BY DEF Path
<1>2. Ctl /\ Shape /\ Done /\ Ending /\ Packets(qs) /\ Behind(w) /\ Requests(r)
      /\ w = WritesLeft(InHand(qs)) /\ r = ReadsLeft(InHand(qs))
  BY <1>1 DEF Path, OnWire
<1>3. /\ UNCHANGED <<program, control_vars, prefetch_command, prefetch_vars, pipeline_vars,
                     write_queue, end_queue, S, counter, write_addr, matrix_send_tile,
                     prefetch_dat_r>>
      /\ AnswerRead \/ DoWrite \/ ProgramComplete
  BY DEF HostStep, sender_vars, prefetch_vars
<1> DEFINE h == qs[1]
<1>4. Reads' = Reads /\ Writes' = Writes /\ (AllPushed => AllPushed') /\ (Finished => Finished')
      /\ \A x \in Packet : Meant(x) => Meant(x)'
  BY <1>3, MeantKept
<1>5. /\ Len(qs) >= 2 /\ h \in Packet /\ tx[1] = h.op /\ HostAddr = h.addr
      /\ Size(h) <= Len(tx) /\ Meant(h)
      /\ \A j \in 1 .. Size(h) : tx[j] = PacketByte(h, j)
  <2>1. Len(tx) >= 3 /\ (tx[1] = 3 => Len(tx) >= 3 + BODY_BYTES)
    <3>1. Len(tx) \in Nat /\ BODY_BYTES \in Nat
      BY <1>2, ByteFacts DEF Shape, Sending
    <3>2. AnswerRead => tx[1] = 2 /\ Len(tx) >= 3
      BY DEF AnswerRead
    <3>3. DoWrite => Len(tx) >= 3 + BODY_BYTES
      BY DEF DoWrite
    <3>4. ProgramComplete => tx[1] = 4 /\ Len(tx) >= 3
      BY DEF ProgramComplete
    <3> QED
      BY <1>3, <3>1, <3>2, <3>3, <3>4
  <2> HIDE DEF h
  <2> QED
    BY <1>2, <2>1, HeadPacket DEF h
<1>6. /\ h.op # 4 => h.addr \in HostAddresses
      /\ h.tile \in Tiles /\ h.n \in Nat /\ h.r \in Nat
      /\ h.n = Len(written) /\ h.r = Len(answered)
  BY <1>2, <1>5 DEF Packet, Packets, Placed
<1>7. /\ written \in Seq(HostAddresses \X Tiles) /\ answered \in Seq(HostAddresses \X Tiles)
      /\ \A m \in 1 .. Len(written) : m <= Len(Writes) /\ written[m] = ItemOf(Writes, m)
      /\ \A m \in 1 .. Len(answered) : m <= Len(Reads) /\ answered[m][1] = Reads[m].addr
      /\ Len(written) \in Nat /\ Len(answered) \in Nat
  BY <1>2 DEF Done
<1> HIDE DEF h
<1>8. Shape'
  <2>1. HostAddr \in HostAddresses \/ ProgramComplete
    <3>1. AnswerRead => tx[1] = 2
      BY DEF AnswerRead
    <3>2. DoWrite => tx[1] = 3
      BY DEF DoWrite
    <3> QED
      BY ONLY <1>3, <1>5, <1>6, <3>1, <3>2
  <2> QED
    BY <1>2, <2>1, ShapeHost
<1>9. Ctl'
  BY <1>2, CtlOther
<1>10. /\ Done' /\ tx' = SubSeq(tx, Size(h) + 1, Len(tx))
       /\ Len(written') = Len(written) + IsWrite(h)
       /\ Len(answered') = Len(answered) + IsRead(h)
       /\ \/ host' = host /\ host' = "serving"
          \/ DMA_INSTRUCTION_LATENCY >= 2 =>
                AllPushed /\ Len(written) = Len(Writes) /\ written' = written
  <2>1. CASE AnswerRead
    <3>1. /\ tx' = SubSeq(tx, 4, Len(tx)) /\ written' = written /\ host' = host
          /\ host = "serving" /\ h.op = 2
      BY <1>5, <2>1 DEF AnswerRead
    <3>2. Size(h) + 1 = 4 /\ IsWrite(h) = 0 /\ IsRead(h) = 1
      BY <3>1 DEF Size, IsWrite, IsRead
    <3>3. h.r + 1 <= Len(Reads) /\ h.addr = Reads[h.r + 1].addr
      BY <1>5, <3>1 DEF Meant
    <3> DEFINE item == <<HostAddr, pinned_mem[HostAddr]>>
    <3>4. item \in HostAddresses \X Tiles /\ item[1] = h.addr
      <4>1. pinned_mem \in [HostAddresses -> Tiles] /\ HostAddr \in HostAddresses
        BY <1>2, <1>5, <1>6, <3>1 DEF Shape, Received
      <4> QED
        BY <1>5, <4>1
    <3>5. answered' = Append(answered, item)
      BY <2>1 DEF AnswerRead
    <3> HIDE DEF item
    <3>6. /\ answered' \in Seq(HostAddresses \X Tiles) /\ Len(answered') = Len(answered) + 1
          /\ answered'[Len(answered) + 1] = item
          /\ \A m \in 1 .. Len(answered) : answered'[m] = answered[m]
      BY ONLY <1>7, <3>4, <3>5
    <3>7. ASSUME NEW m \in 1 .. Len(answered')
          PROVE  m <= Len(Reads) /\ answered'[m][1] = Reads[m].addr
      <4>1. m \in 1 .. Len(answered) \/ m = Len(answered) + 1
        BY ONLY <1>7, <3>6
      <4> QED
        BY <1>6, <1>7, <3>3, <3>4, <3>6, <4>1
    <3>8. Done'
      BY <1>4, <1>7, <3>1, <3>6, <3>7 DEF Done
    <3>9. Len(written') = Len(written) + 0
      BY <1>7, <3>1
    <3> QED
      BY ONLY <3>1, <3>2, <3>6, <3>8, <3>9
  <2>2. CASE DoWrite
    <3> DEFINE body == SubSeq(tx, 4, 3 + BODY_BYTES)
               item == <<HostAddr, body>>
    <3>1. /\ tx' = SubSeq(tx, 4 + BODY_BYTES, Len(tx)) /\ answered' = answered /\ host' = host
          /\ host = "serving" /\ h.op = 3 /\ written' = Append(written, item)
      BY <1>5, <2>2 DEF DoWrite
    <3>2. /\ Size(h) = 3 + BODY_BYTES /\ Size(h) + 1 = 4 + BODY_BYTES
          /\ IsWrite(h) = 1 /\ IsRead(h) = 0
      BY <3>1, ByteFacts DEF Size, IsWrite, IsRead
    <3>3. h.n + 1 <= Len(Writes) /\ <<h.addr, h.tile>> = ItemOf(Writes, h.n + 1)
      BY <1>5, <3>1 DEF Meant
    <3>4. body = h.tile
      <4>1. BODY_BYTES \in Nat \ {0}
        BY ByteFacts
      <4>2. body = [i \in 1 .. (3 + BODY_BYTES) - 4 + 1 |-> tx[i + 4 - 1]]
        BY <1>2, <4>1
      <4>3. (3 + BODY_BYTES) - 4 + 1 = BODY_BYTES
        BY ONLY <4>1
      <4>4. ASSUME NEW i \in 1 .. BODY_BYTES PROVE tx[i + 4 - 1] = h.tile[i]
        <5>1. /\ i + 4 - 1 \in 1 .. 3 + BODY_BYTES /\ i + 4 - 1 # 1 /\ i + 4 - 1 # 2
              /\ i + 4 - 1 # 3 /\ (i + 4 - 1) - 3 = i
          BY ONLY <4>1
        <5>2. tx[i + 4 - 1] = PacketByte(h, i + 4 - 1)
          BY <1>5, <3>2, <5>1
        <5> DEFINE j == i + 4 - 1
        <5>3. j # 1 /\ j # 2 /\ j # 3 /\ j - 3 = i /\ tx[j] = PacketByte(h, j)
          BY ONLY <5>1, <5>2
        <5> HIDE DEF j
        <5>4. tx[j] = h.tile[i]
          BY ONLY <5>3 DEF PacketByte
        <5> QED
          BY ONLY <5>4 DEF j
      <4>5. h.tile = [i \in 1 .. BODY_BYTES |-> h.tile[i]]
        BY <1>6 DEF Tiles
      <4> HIDE DEF body
      <4> QED
        BY ONLY <4>2, <4>3, <4>4, <4>5
    <3> HIDE DEF body
    <3>5. item \in HostAddresses \X Tiles /\ item = ItemOf(Writes, h.n + 1)
      BY <1>5, <1>6, <3>1, <3>3, <3>4
    <3> HIDE DEF item
    <3>6. /\ written' \in Seq(HostAddresses \X Tiles) /\ Len(written') = Len(written) + 1
          /\ written'[Len(written) + 1] = item
          /\ \A m \in 1 .. Len(written) : written'[m] = written[m]
      BY ONLY <1>7, <3>1, <3>5
    <3>7. ASSUME NEW m \in 1 .. Len(written')
          PROVE  m <= Len(Writes) /\ written'[m] = ItemOf(Writes, m)
      <4>1. m \in 1 .. Len(written) \/ m = Len(written) + 1
        BY ONLY <1>7, <3>6
      <4> QED
        BY <1>6, <1>7, <3>3, <3>5, <3>6, <4>1
    <3>8. Done'
      <4>1. \A m \in 1 .. Len(written') : m <= Len(Writes') /\ written'[m] = ItemOf(Writes', m)
        BY <1>4, <3>7
      <4> QED
        BY <1>4, <1>7, <3>1, <3>6, <4>1 DEF Done, ItemOf
    <3>9. Len(answered') = Len(answered) + 0
      BY <1>7, <3>1
    <3> QED
      BY ONLY <3>1, <3>2, <3>6, <3>8, <3>9
  <2>3. CASE ProgramComplete
    <3>1. /\ tx' = SubSeq(tx, 4, Len(tx)) /\ written' = written /\ answered' = answered
          /\ h.op = 4
      BY <1>5, <2>3 DEF ProgramComplete
    <3>2. Size(h) + 1 = 4 /\ IsWrite(h) = 0 /\ IsRead(h) = 0
      BY <3>1 DEF Size, IsWrite, IsRead
    <3>3. EndSent(h)
      BY <1>5, <3>1 DEF Meant
    <3>4. Done'
      BY <1>4, <1>7, <3>1 DEF Done
    <3>5. Len(written') = Len(written) + 0 /\ Len(answered') = Len(answered) + 0
      BY <1>7, <3>1
    <3>6. DMA_INSTRUCTION_LATENCY >= 2 => AllPushed /\ Len(written) = Len(Writes)
      BY <1>6, <3>3 DEF EndSent, Finished
    <3> QED
      BY ONLY <3>1, <3>2, <3>4, <3>5, <3>6
  <2> QED
    BY <1>3, <2>1, <2>2, <2>3
<1>11. Tail(qs) \in Seq(Packet) /\ Packets(Tail(qs))' /\ InHand(Tail(qs)) = InHand(qs)
  BY <1>2, <1>3, <1>4, <1>5, <1>10, TakePacket DEF h
<1>12. OnWire(Tail(qs), w, r)'
  <2>1. partial' = partial
    BY <1>3 DEF partial
  <2>2. w = WritesLeft(InHand(Tail(qs)))' /\ r = ReadsLeft(InHand(Tail(qs)))'
    BY <1>2, <1>11, <2>1 DEF WritesLeft, ReadsLeft, InHand
  <2>3. Behind(w)'
    BY <1>2, <1>3, <1>4 DEF Behind, control_vars, pipeline_vars
  <2>4. Requests(r)'
    BY <1>2, <1>3, <1>4 DEF Requests, Commands, prefetch_vars
  <2> QED
    BY <1>11, <2>2, <2>3, <2>4 DEF OnWire
<1>13. Ending'
  <2>1. DMA_INSTRUCTION_LATENCY >= 2 /\ host' = "exited" =>
           AllPushed' /\ Len(written') = Len(Writes')
    BY <1>4, <1>10
  <2> QED
    BY <1>2, <1>3, <1>4, <2>1 DEF Ending, control_vars, pipeline_vars
<1> QED
  BY <1>8, <1>9, <1>10, <1>11, <1>12, <1>13 DEF Path

(* The path keeps its invariant.                                           *)
LEMMA PathInvariant == Spec => []Path
<1>1. Path /\ [Next]_vars => Path'
  BY PathEdge, PathArbitrate, PathHeader, PathByte, PathHost, PathOther DEF Next, Sender
<1> QED
  BY PathInit, <1>1, PTL DEF Spec

(* The registers and queues of the path keep their types and their room    *)
(* (top.sv:122-318, PacketSender.sv:26-112, PacketReceiver.sv:20-119).     *)
THEOREM TypeCorrect == Spec => []TypeOK
<1>1. Path => TypeOK
  <2> SUFFICES ASSUME Path PROVE TypeOK
    OBVIOUS
  <2>1. Ctl /\ Shape
    BY DEF Path
  <2>2. /\ program \in Programs /\ control \in {"idle", "insert", "push", "decode"}
        /\ next_group \in 1 .. Len(program.groups) + 1
        /\ Len(prefetch) <= PREFETCH_FULL
        /\ prefetch = << >> => read_counter = 0
    BY <2>1 DEF Ctl, Controlled, Prefetched
  <2>3. Len(prefetch_command) <= 1
    <3>1. \/ prefetch_command = << >>
          \/ \E group \in ReadGroup : prefetch_command = <<group>>
      BY <2>1 DEF Ctl, Commanded
    <3>2. Len(<< >>) <= 1
      OBVIOUS
    <3>3. ASSUME NEW group \in ReadGroup PROVE Len(<<group>>) <= 1
      OBVIOUS
    <3> QED
      BY ONLY <3>1, <3>2, <3>3
  <2>4. prefetch # << >> => read_counter \in 0 .. Head(prefetch).copy_count - 1
    <3> SUFFICES ASSUME prefetch # << >>
                 PROVE  read_counter \in 0 .. Head(prefetch).copy_count - 1
      OBVIOUS
    <3> DEFINE c == Head(prefetch).copy_count
    <3>1. prefetch \in Seq(ReadGroup) /\ read_counter \in Nat /\ read_counter < c
      BY <2>1 DEF Ctl, Prefetched
    <3>2. c \in Nat
      BY <3>1 DEF ReadGroup, GroupRec
    <3> HIDE DEF c
    <3>3. read_counter \in 0 .. c - 1
      BY ONLY <3>1, <3>2
    <3> QED
      BY ONLY <3>3 DEF c
  <2>5. /\ since_ram \in 0 .. DMA_INSTRUCTION_LATENCY
        /\ Len(L3Cache) <= L3_DEPTH /\ Len(write_queue) <= WRITE_DEPTH
        /\ end_queue \in 0 .. END_DEPTH
        /\ S \in SendState \cup {"IDLE"} /\ counter \in 0 .. 3 + BODY_BYTES
    BY <2>1 DEF Shape, Issued, Queued, Sending
  <2>6. Len(matrix_send_tile) = BODY_BYTES /\ Len(receiver.tile) = BODY_BYTES
    <3>1. \A tile \in Tiles : Len(tile) = BODY_BYTES
      BY ByteFacts DEF Tiles
    <3>2. matrix_send_tile \in Tiles /\ receiver.tile \in Tiles
      BY <2>1 DEF Shape, Sending, Received, ReceiverRec
    <3> QED
      BY <3>1, <3>2
  <2>7. /\ \A i \in DOMAIN tx : tx[i] \in 0 .. BYTE - 1
        /\ \A i \in DOMAIN rx : rx[i] \in 0 .. BYTE - 1
        /\ DOMAIN icache \subseteq 0 .. WORD - 1
    <3>1. tx \in Seq(Bytes) /\ rx \in Seq(Bytes) /\ DOMAIN icache \subseteq Words
      BY <2>1 DEF Shape, Sending, Received
    <3>2. /\ \A i \in DOMAIN tx : tx[i] \in Bytes
          /\ \A i \in DOMAIN rx : rx[i] \in Bytes
      BY <3>1
    <3> QED
      BY <3>1, <3>2 DEF Bytes, Words
  <2> QED
    BY <2>2, <2>5, <2>6, <2>7, <2>4, <2>3 DEF TypeOK
<1> QED
  BY <1>1, PathInvariant, PTL

(* The host does the program's writes in order, each with its tile and at  *)
(* its address: nothing between the core and pinned_mem drops, swaps or    *)
(* misframes one (top.sv:222-318, PacketSender.sv:51-112, cherrysim.py).   *)
THEOREM HostWritesInOrder == Spec => []WritesInOrder
<1>1. Path => WritesInOrder
  <2> SUFFICES ASSUME Path, NEW n \in DOMAIN written
               PROVE  n \in DOMAIN Writes /\ written[n] = <<Writes[n].addr, Tile(Writes[n].value)>>
    BY DEF WritesInOrder
  <2>1. /\ written \in Seq(HostAddresses \X Tiles)
        /\ \A m \in 1 .. Len(written) : m <= Len(Writes) /\ written[m] = ItemOf(Writes, m)
    BY DEF Path, Done
  <2>2. Writes \in Seq(CopyRec)
    BY DEF Path, Shape, Issued, Writes, Kinds
  <2>3. n \in 1 .. Len(written)
    BY <2>1
  <2> QED
    BY <2>1, <2>2, <2>3 DEF ItemOf
<1> QED
  BY <1>1, PathInvariant, PTL

(* The n-th request the host answers is the n-th read of the program.      *)
AnswersInOrder ==
    \A n \in DOMAIN answered : n \in DOMAIN Reads /\ answered[n][1] = Reads[n].addr

(* Requests are answered in the order the program makes its reads, from    *)
(* the address of each: pairing tiles with reads by their order alone      *)
(* (top.sv:150-168, cherrysim.py) rests on it.                             *)
THEOREM HostAnswersInOrder == Spec => []AnswersInOrder
<1>1. Path => AnswersInOrder
  <2> SUFFICES ASSUME Path, NEW n \in DOMAIN answered
               PROVE  n \in DOMAIN Reads /\ answered[n][1] = Reads[n].addr
    BY DEF AnswersInOrder
  <2>1. /\ answered \in Seq(HostAddresses \X Tiles)
        /\ \A m \in 1 .. Len(answered) : m <= Len(Reads) /\ answered[m][1] = Reads[m].addr
    BY DEF Path, Done
  <2>2. Reads \in Seq(CopyRec)
    BY DEF Path, Shape, Issued, Reads, Kinds
  <2>3. n \in 1 .. Len(answered)
    BY <2>1
  <2> QED
    BY <2>1, <2>2, <2>3
<1> QED
  BY <1>1, PathInvariant, PTL

(* The host takes a program for complete only when all its writes are in   *)
(* memory, as long as the end of a program comes out of the instruction    *)
(* queue two reads or more behind the last copy: with one it can overtake  *)
(* a write in the pipeline (top.sv:196-214, instruction_queue.sv).         *)
THEOREM EndComesLast ==
    ASSUME DMA_INSTRUCTION_LATENCY >= 2
    PROVE  Spec => []EndAfterWrites
<1>1. Path => EndAfterWrites
  BY DEF Path, Ending, EndAfterWrites
<1> QED
  BY <1>1, PathInvariant, PTL
-----------------------------------------------------------------------------
(* What the host sends first, byte by byte.                                *)
Text == program.code
UploadBytes == UploadPacket(program) \o StartPacket(program)

(* What the assumption on programs says of their instructions.            *)
LEMMA TextTypes ==
    ASSUME program \in Programs
    PROVE  /\ Len(Text) \in Nat /\ 1 <= Len(Text) /\ Len(Text) <= 63 /\ Text \in Seq(Words)
           /\ program.start \in Nat /\ program.start + Len(Text) <= WORD
           /\ \A j \in 1 .. Len(Text) : Text[j] \in Words
<1>1. /\ Len(Text) \in 1 .. BYTE \div 4 - 1 /\ Text \in Seq(Words)
      /\ program.start \in Words /\ program.start + Len(Text) <= WORD
  BY ProgramAssumption DEF ProgramAssumption, Words, Text
<1>2. BYTE \div 4 - 1 = 63
  BY DEF BYTE
<1>3. Len(Text) \in Nat /\ 1 <= Len(Text) /\ Len(Text) <= 63
  BY <1>1, <1>2
<1>4. program.start \in Nat
  BY <1>1 DEF Words
<1>5. \A j \in 1 .. Len(Text) : Text[j] \in Words
  BY <1>1
<1> QED
  BY <1>1, <1>3, <1>4, <1>5

(* Where the bytes of the program and of its start are among them.         *)
LEMMA LoadBytes ==
    ASSUME program \in Programs
    PROVE  /\ UploadBytes \in Seq(Bytes) /\ Len(UploadBytes) = 9 + 2 * Len(Text)
           /\ UploadBytes[1] = 1 + 4 * Len(Text)
           /\ UploadBytes[2] = High(program.start) /\ UploadBytes[3] = Low(program.start)
           /\ \A j \in 0 .. Len(Text) - 1 : /\ UploadBytes[4 + 2 * j] = High(Text[j + 1])
                                            /\ UploadBytes[5 + 2 * j] = Low(Text[j + 1])
           /\ UploadBytes[4 + 2 * Len(Text)] = 2
           /\ \A c \in 1 .. 5 : UploadBytes[4 + 2 * Len(Text) + c] = StartPacket(program)[c + 1]
           /\ Len(StartPacket(program)) = 6
<1> DEFINE L == Len(Text)
           a == <<1 + 4 * L, High(program.start), Low(program.start)>>
           b == [i \in 1 .. 2 * L |-> IF i % 2 = 1 THEN High(Text[(i + 1) \div 2])
                                      ELSE Low(Text[(i + 1) \div 2])]
           s == StartPacket(program)
<1>1. L \in Nat /\ 1 <= L
  BY TextTypes
<1>2. UploadPacket(program) \in Seq(Bytes) /\ s \in Seq(Bytes)
  BY PacketsTyped
<1>3. UploadPacket(program) = a \o b
  BY DEF UploadPacket, Text
<1>4. Len(s) = 6 /\ s[1] = 2
  BY DEF StartPacket
<1>5. Len(a) = 3 /\ a[1] = 1 + 4 * L /\ a[2] = High(program.start) /\ a[3] = Low(program.start)
  OBVIOUS
<1>6. b \in Seq(Int) /\ Len(b) = 2 * L /\ a \in Seq(Int)
  <2>1. \A j \in 1 .. L : Text[j] \in Int
    BY TextTypes DEF Words
  <2>2. \A i \in 1 .. 2 * L : (i + 1) \div 2 \in 1 .. L
    BY <1>1
  <2>3. \A w \in Int : High(w) \in Int /\ Low(w) \in Int
    BY ByteFacts DEF Bytes
  <2>4. \A i \in 1 .. 2 * L : b[i] \in Int
    BY <2>1, <2>2, <2>3
  <2>5. program.start \in Int
    BY TextTypes
  <2>6. a \in Seq(Int)
    <3>1. 1 + 4 * L \in Int
      BY ONLY <1>1
    <3>2. High(program.start) \in Int /\ Low(program.start) \in Int
      BY ONLY <2>3, <2>5
    <3> QED
      BY ONLY <3>1, <3>2
  <2>7. 2 * L \in Nat
    BY <1>1
  <2> QED
    BY <2>4, <2>6, <2>7
<1>7. \A j \in 0 .. L - 1 : b[1 + 2 * j] = High(Text[j + 1]) /\ b[2 + 2 * j] = Low(Text[j + 1])
  <2> SUFFICES ASSUME NEW j \in 0 .. L - 1
               PROVE  b[1 + 2 * j] = High(Text[j + 1]) /\ b[2 + 2 * j] = Low(Text[j + 1])
    OBVIOUS
  <2>1. 1 + 2 * j \in 1 .. 2 * L /\ 2 + 2 * j \in 1 .. 2 * L
    BY <1>1
  <2>2. (1 + 2 * j) % 2 = 1 /\ (2 + 2 * j) % 2 = 0
    OBVIOUS
  <2>3. (1 + 2 * j + 1) \div 2 = j + 1 /\ (2 + 2 * j + 1) \div 2 = j + 1
    OBVIOUS
  <2> QED
    BY <2>1, <2>2, <2>3
<1> HIDE DEF a, b, s
<1>8. a \o b \in Seq(Int) /\ Len(a \o b) = 3 + 2 * L
      /\ (a \o b)[1] = a[1] /\ (a \o b)[2] = a[2] /\ (a \o b)[3] = a[3]
      /\ \A i \in 1 .. 2 * L : (a \o b)[3 + i] = b[i]
  <2>1. 1 \in 1 .. 3 /\ 2 \in 1 .. 3 /\ 3 \in 1 .. 3
    OBVIOUS
  <2>2. /\ a \o b \in Seq(Int) /\ Len(a \o b) = Len(a) + Len(b)
        /\ \A i \in 1 .. Len(a) : (a \o b)[i] = a[i]
        /\ \A i \in 1 .. Len(b) : (a \o b)[Len(a) + i] = b[i]
    BY ONLY <1>6
  <2> QED
    BY ONLY <1>5, <1>6, <2>1, <2>2
<1>9. UploadBytes = (a \o b) \o s /\ UploadBytes \in Seq(Bytes) /\ s \in Seq(Int)
  <2>1. UploadBytes = (a \o b) \o s
    BY <1>3 DEF UploadBytes, s
  <2>2. UploadBytes \in Seq(Bytes)
    BY <1>2 DEF UploadBytes, s
  <2>3. \A b0 \in Bytes : b0 \in Int
    BY DEF Bytes
  <2>4. s \in Seq(Int)
    <3>1. Len(s) \in Nat /\ s = [i \in 1 .. Len(s) |-> s[i]]
          /\ \A i \in 1 .. Len(s) : s[i] \in Bytes
      BY ONLY <1>2
    <3>2. s \in [1 .. Len(s) -> Int]
      BY ONLY <2>3, <3>1
    <3> QED
      BY ONLY <3>1, <3>2, IsASeq
  <2> QED
    BY <2>1, <2>2, <2>4
<1> DEFINE u == a \o b
<1> HIDE DEF u
<1>10. /\ Len(UploadBytes) = 9 + 2 * L
       /\ \A i \in 1 .. 3 + 2 * L : UploadBytes[i] = u[i]
       /\ \A c \in 1 .. 6 : UploadBytes[3 + 2 * L + c] = s[c]
  <2>0. s \in Seq(Int)
    BY ONLY <1>9
  <2>1. u \in Seq(Int) /\ Len(u) = 3 + 2 * L /\ UploadBytes = u \o s
    BY <1>8, <1>9 DEF u
  <2>2. /\ Len(UploadBytes) = Len(u) + Len(s)
        /\ \A i \in 1 .. Len(u) : UploadBytes[i] = u[i]
        /\ \A i \in 1 .. Len(s) : UploadBytes[Len(u) + i] = s[i]
    <3> DEFINE x == u \o s
    <3>0. u \in Seq(Int) /\ s \in Seq(Int)
      BY ONLY <2>0, <2>1
    <3>1. /\ Len(x) = Len(u) + Len(s)
          /\ \A i \in 1 .. Len(u) : x[i] = u[i]
          /\ \A i \in 1 .. Len(s) : x[Len(u) + i] = s[i]
      BY ONLY <3>0
    <3>2. UploadBytes = x
      BY ONLY <2>1
    <3> HIDE DEF x
    <3> QED
      BY ONLY <3>1, <3>2
  <2>3. 3 + 2 * L + 6 = 9 + 2 * L
    BY <1>1
  <2> QED
    BY <1>4, <2>1, <2>2, <2>3
<1>11. \A j \in 0 .. L - 1 : /\ UploadBytes[4 + 2 * j] = High(Text[j + 1])
                             /\ UploadBytes[5 + 2 * j] = Low(Text[j + 1])
  <2> SUFFICES ASSUME NEW j \in 0 .. L - 1
               PROVE  UploadBytes[4 + 2 * j] = b[1 + 2 * j] /\ UploadBytes[5 + 2 * j] = b[2 + 2 * j]
    BY <1>7
  <2>1. 1 + 2 * j \in 1 .. 2 * L /\ 2 + 2 * j \in 1 .. 2 * L
    BY <1>1
  <2>2. u[3 + (1 + 2 * j)] = b[1 + 2 * j] /\ u[3 + (2 + 2 * j)] = b[2 + 2 * j]
    BY <1>8, <2>1 DEF u
  <2>3. /\ 3 + (1 + 2 * j) = 4 + 2 * j /\ 3 + (2 + 2 * j) = 5 + 2 * j
        /\ 4 + 2 * j \in 1 .. 3 + 2 * L /\ 5 + 2 * j \in 1 .. 3 + 2 * L
    BY <1>1
  <2> QED
    BY <1>10, <2>2, <2>3
<1>12. \A c \in 1 .. 5 : UploadBytes[4 + 2 * L + c] = s[c + 1]
  <2> SUFFICES ASSUME NEW c \in 1 .. 5 PROVE UploadBytes[4 + 2 * L + c] = s[c + 1]
    OBVIOUS
  <2>1. c + 1 \in 1 .. 6 /\ 3 + 2 * L + (c + 1) = 4 + 2 * L + c
    BY <1>1
  <2> QED
    BY <1>10, <2>1
<1>13. UploadBytes[4 + 2 * L] = 2
  <2>1. 3 + 2 * L + 1 = 4 + 2 * L /\ 1 \in 1 .. 6
    BY <1>1
  <2> QED
    BY <1>4, <1>10, <2>1
<1>14. UploadBytes[1] = a[1] /\ UploadBytes[2] = a[2] /\ UploadBytes[3] = a[3]
  <2>1. 1 \in 1 .. 3 + 2 * L /\ 2 \in 1 .. 3 + 2 * L /\ 3 \in 1 .. 3 + 2 * L
    BY <1>1
  <2> QED
    BY <1>8, <1>10, <2>1 DEF u
<1> QED
  BY <1>4, <1>5, <1>9, <1>10, <1>11, <1>12, <1>13, <1>14 DEF s

(* The first byte of a word.                                               *)
LEMMA FirstByte ==
    \A b \in Bytes, w \in Int : High(BYTE * b + Low(w)) = b
<1> SUFFICES ASSUME NEW b \in Bytes, NEW w \in Int PROVE High(BYTE * b + Low(w)) = b
  OBVIOUS
<1> DEFINE l == Low(w)
<1>1. b \in Int /\ 0 <= b /\ b <= 255 /\ l \in Int /\ 0 <= l /\ l <= 255
  <2>1. \A x \in Bytes : x \in Int /\ 0 <= x /\ x <= 255
    BY Sizes DEF Bytes
  <2>2. l \in Bytes
    BY ByteFacts
  <2> HIDE DEF l
  <2> QED
    BY <2>1, <2>2
<1> HIDE DEF l
<1>2. (256 * b + l) \div 256 = b /\ b % 256 = b
  BY ONLY <1>1
<1>3. High(BYTE * b + l) = ((256 * b + l) \div 256) % 256
  BY Sizes DEF High
<1> QED
  BY <1>2, <1>3 DEF l

(* The last c places of a register of n are the c elements of s behind the *)
(* first o.                                                                *)
Filled(register, n, c, s, o) == \A i \in 1 .. c : register[n - c + i] = s[o + i]

(* One more byte, one more place.                                          *)
LEMMA FilledMore ==
    ASSUME NEW n \in Nat \ {0}, NEW r \in [1 .. n -> Bytes], NEW b \in Bytes,
           NEW c \in 0 .. n - 1, NEW s, NEW o \in Nat, b = s[o + c + 1], Filled(r, n, c, s, o)
    PROVE  Filled(ShiftIn(r, b), n, c + 1, s, o)
<1> SUFFICES ASSUME NEW i \in 1 .. c + 1
             PROVE  ShiftIn(r, b)[n - (c + 1) + i] = s[o + i]
  BY DEF Filled
<1>1. ShiftIn(r, b)[n] = b /\ \A k \in 1 .. n - 1 : ShiftIn(r, b)[k] = r[k + 1]
  BY ShiftFacts
<1>2. CASE i = c + 1
  <2>1. n - (c + 1) + i = n /\ o + i = o + c + 1
    BY <1>2
  <2> QED
    BY <1>1, <2>1
<1>3. CASE i # c + 1
  <2>1. /\ i \in 1 .. c /\ n - (c + 1) + i \in 1 .. n - 1
        /\ (n - (c + 1) + i) + 1 = n - c + i
    BY <1>3
  <2>2. r[n - c + i] = s[o + i]
    BY <2>1 DEF Filled
  <2> QED
    BY <1>1, <2>1, <2>2
<1> QED
  BY <1>2, <1>3

-----------------------------------------------------------------------------
(* The instruction cache holds the first j instructions of the program and *)
(* nothing else.                                                           *)
Held(j) ==
    /\ DOMAIN icache = {program.start + i - 1 : i \in 1 .. j}
    /\ icache = [a \in DOMAIN icache |-> icache[a]]
    /\ \A i \in 1 .. j : icache[program.start + i - 1] = Text[i]

(* The receiver after k bytes of what the host sends first: before the     *)
(* upload, in its length and address, in front of and behind the first     *)
(* byte of instruction j + 1, between the two packets, in the start        *)
(* command.                                                                *)
Uploading(c) == /\ receiver.S = "UPLOAD_PROG_PACKET" /\ receiver.counter = c
                /\ receiver.packet_instr_count = Len(Text)
BeforeUpload(k) == k = 0 /\ receiver.S = "IDLE" /\ Held(0)
InLength(k) == k = 1 /\ Uploading(0) /\ Held(0)
InAddress(k) == /\ k = 2 /\ Uploading(1) /\ Held(0)
                /\ High(receiver.addr) = High(program.start)
BeforeInstr(k, j) ==
    /\ k = 3 + 2 * j /\ Uploading(2 + j) /\ Held(j) /\ receiver.instr_MSB
    /\ receiver.addr = IF j = 0 THEN program.start ELSE program.start + j - 1
InInstr(k, j) ==
    /\ k = 4 + 2 * j /\ Uploading(2 + j) /\ Held(j) /\ ~ receiver.instr_MSB
    /\ receiver.addr = (program.start + j - 1) % WORD
    /\ High(receiver.dat) = High(Text[j + 1])
BeforeStart(k) == k = 3 + 2 * Len(Text) /\ receiver.S = "IDLE" /\ Held(Len(Text))
InStart(k, c) ==
    /\ k = 4 + 2 * Len(Text) + c /\ Held(Len(Text))
    /\ receiver.S = "ENQUEUE_PROG_PACKET" /\ receiver.counter = c
    /\ Filled(receiver.enqueue, 5, c, StartPacket(program), 1)

Upto(k) == \/ BeforeUpload(k) \/ InLength(k) \/ InAddress(k)
           \/ \E j \in 0 .. Len(Text) - 1 : BeforeInstr(k, j) \/ InInstr(k, j)
           \/ BeforeStart(k)
           \/ \E c \in 0 .. 4 : InStart(k, c)

(* The wire to the receiver holds the rest of it.                          *)
Unread(k) == /\ Len(rx) = Len(UploadBytes) - k
             /\ \A i \in 1 .. Len(rx) : rx[i] = UploadBytes[k + i]

(* The program is on its way: nothing has run.                             *)
Loading == /\ control = "idle" /\ execution_queue = << >> /\ answered = << >>
           /\ \E k \in Nat : Unread(k) /\ Upto(k)

-----------------------------------------------------------------------------
(* Before the first byte.                                                  *)
LEMMA LoadingInit == Init => Loading
<1> SUFFICES ASSUME Init PROVE Loading
  OBVIOUS
<1>1. program \in Programs /\ rx = UploadBytes /\ icache = << >>
  BY DEF Init, UploadBytes
<1>2. Unread(0)
  <2>1. UploadBytes \in Seq(Bytes) /\ Len(UploadBytes) \in Nat
    BY <1>1, LoadBytes
  <2>2. Len(rx) = Len(UploadBytes) - 0 /\ \A i \in 1 .. Len(rx) : 0 + i = i
    BY <1>1, <2>1
  <2> QED
    BY <1>1, <2>2 DEF Unread
<1>3. Held(0)
  <2>1. DOMAIN icache = {} /\ {program.start + i - 1 : i \in 1 .. 0} = {}
        /\ \A i \in 1 .. 0 : FALSE
    BY <1>1
  <2>2. icache = [a \in DOMAIN icache |-> icache[a]]
    BY <1>1
  <2> QED
    BY <2>1, <2>2 DEF Held
<1>4. Upto(0)
  BY <1>3 DEF Init, Upto, BeforeUpload
<1> QED
  BY <1>2, <1>4 DEF Init, Loading

(* The byte the receiver takes.                                            *)
LEMMA UnreadNext ==
    ASSUME program \in Programs, program' = program, NEW k \in Nat, Unread(k), rx \in Seq(Bytes),
           rx # << >>, rx' = Tail(rx)
    PROVE  /\ Unread(k + 1)' /\ Head(rx) = UploadBytes[k + 1] /\ Head(rx) \in Bytes
           /\ k + 1 <= 9 + 2 * Len(Text) /\ Len(rx') = 9 + 2 * Len(Text) - (k + 1)
<1> DEFINE n == Len(rx)
<1>1. /\ n \in Nat \ {0} /\ Len(rx') = n - 1 /\ Head(rx) = rx[1] /\ Head(rx) \in Bytes
      /\ \A i \in 1 .. n - 1 : rx'[i] = rx[i + 1]
  OBVIOUS
<1>2. Len(UploadBytes) = 9 + 2 * Len(Text) /\ Len(Text) \in Nat
  BY LoadBytes, TextTypes
<1>3. n = 9 + 2 * Len(Text) - k /\ \A i \in 1 .. n : rx[i] = UploadBytes[k + i]
  BY <1>2 DEF Unread
<1>4. UploadBytes' = UploadBytes
  BY DEF UploadBytes
<1> HIDE DEF n
<1>5. Len(rx') = 9 + 2 * Len(Text) - (k + 1) /\ k + 1 <= 9 + 2 * Len(Text)
  BY <1>1, <1>2, <1>3
<1>6. \A i \in 1 .. Len(rx') : rx'[i] = UploadBytes[(k + 1) + i]
  <2> SUFFICES ASSUME NEW i \in 1 .. n - 1 PROVE rx'[i] = UploadBytes[(k + 1) + i]
    BY <1>1
  <2>1. i + 1 \in 1 .. n /\ k + (i + 1) = (k + 1) + i
    BY <1>1
  <2> QED
    BY <1>1, <1>3, <2>1
<1>7. 1 \in 1 .. n
  BY <1>1
<1> QED
  BY <1>1, <1>2, <1>3, <1>4, <1>5, <1>6, <1>7 DEF Unread

(* One more instruction in the cache.                                      *)
LEMMA HeldMore ==
    ASSUME program \in Programs, program' = program, NEW j \in 0 .. Len(Text) - 1, Held(j),
           icache' = [a \in DOMAIN icache \cup {program.start + j} |->
                        IF a = program.start + j THEN Text[j + 1] ELSE icache[a]]
    PROVE  Held(j + 1)'
<1> DEFINE p == program.start
<1>1. p \in Nat /\ j \in Nat /\ Len(Text) \in Nat
  BY TextTypes
<1>2. /\ DOMAIN icache = {p + i - 1 : i \in 1 .. j}
      /\ \A i \in 1 .. j : icache[p + i - 1] = Text[i]
  BY DEF Held
<1>3. p' = p /\ Text' = Text
  BY DEF Text
<1>4. DOMAIN icache' = DOMAIN icache \cup {p + j} /\ icache' = [a \in DOMAIN icache' |-> icache'[a]]
      /\ icache'[p + j] = Text[j + 1]
      /\ \A a \in DOMAIN icache : a # p + j => icache'[a] = icache[a]
  OBVIOUS
<1> HIDE DEF p
<1>5. DOMAIN icache' = {p + i - 1 : i \in 1 .. j + 1}
  <2>1. ASSUME NEW i \in 1 .. j + 1 PROVE p + i - 1 \in DOMAIN icache'
    <3>1. CASE i = j + 1
      <4>1. p + i - 1 = p + j
        BY ONLY <1>1, <3>1
      <4> QED
        BY <1>4, <4>1
    <3>2. CASE i # j + 1
      <4>1. i \in 1 .. j
        BY ONLY <1>1, <3>2
      <4> QED
        BY <1>2, <1>4, <4>1
    <3> QED
      BY <3>1, <3>2
  <2>2. ASSUME NEW a \in DOMAIN icache' PROVE \E i \in 1 .. j + 1 : a = p + i - 1
    <3>1. CASE a = p + j
      <4>1. j + 1 \in 1 .. j + 1 /\ a = p + (j + 1) - 1
        BY ONLY <1>1, <3>1
      <4> QED
        BY <4>1
    <3>2. CASE a # p + j
      <4>1. PICK i \in 1 .. j : a = p + i - 1
        BY <1>2, <1>4, <3>2
      <4>2. i \in 1 .. j + 1
        BY ONLY <1>1
      <4> QED
        BY <4>1, <4>2
    <3> QED
      BY <3>1, <3>2
  <2> QED
    BY <2>1, <2>2
<1>6. ASSUME NEW i \in 1 .. j + 1 PROVE icache'[p + i - 1] = Text[i]
  <2>1. CASE i = j + 1
    <3>1. p + i - 1 = p + j
      BY ONLY <1>1, <2>1
    <3> QED
      BY <1>4, <2>1, <3>1
  <2>2. CASE i # j + 1
    <3>1. i \in 1 .. j /\ p + i - 1 # p + j
      BY ONLY <1>1, <2>2
    <3>2. p + i - 1 \in DOMAIN icache
      BY <1>2, <3>1
    <3> QED
      BY <1>2, <1>4, <3>1, <3>2
  <2> QED
    BY <2>1, <2>2
<1>7. DOMAIN icache' = {program'.start + i - 1 : i \in 1 .. j + 1}
  BY <1>5 DEF p
<1>8. \A i \in 1 .. j + 1 : icache'[program'.start + i - 1] = Text'[i]
  BY <1>3, <1>6 DEF p
<1>9. icache' = [a \in DOMAIN icache' |-> icache'[a]]
  BY <1>4
<1> HIDE DEF p
<1> QED
  BY ONLY <1>7, <1>8, <1>9 DEF Held

(* What a byte does at the receiver, by what it is receiving.              *)
LEMMA ReceiveForm ==
    ASSUME Shape, ReceiveByte
    PROVE  /\ rx \in Seq(Bytes) /\ rx # << >> /\ rx' = Tail(rx)
           /\ UNCHANGED <<program, control, answered>>
           /\ receiver.S = "IDLE" =>
                 /\ receiver' = StartPacketOf(Head(rx))
                 /\ UNCHANGED <<icache, execution_queue, L3Cache>> /\ (L3_err' <=> L3_err)
           /\ receiver.S = "UPLOAD_PROG_PACKET" =>
                 /\ receiver' = Upload(Head(rx))
                 /\ UNCHANGED <<execution_queue, L3Cache>> /\ (L3_err' <=> L3_err)
                 /\ receiver.counter > 1 /\ ~ receiver.instr_MSB =>
                       icache' = [a \in DOMAIN icache \cup {receiver'.addr} |->
                                    IF a = receiver'.addr THEN receiver'.dat ELSE icache[a]]
                 /\ ~ (receiver.counter > 1 /\ ~ receiver.instr_MSB) => icache' = icache
           /\ receiver.S = "ENQUEUE_PROG_PACKET" =>
                 /\ receiver' = Enqueue(Head(rx))
                 /\ UNCHANGED <<icache, L3Cache>> /\ (L3_err' <=> L3_err)
                 /\ receiver'.S = "IDLE" =>
                       execution_queue' = Append(execution_queue, receiver'.enqueue)
                 /\ receiver'.S # "IDLE" => execution_queue' = execution_queue
           /\ receiver.S = "DATA_READ_RESULT_PACKET" =>
                 /\ receiver' = ReadResult(Head(rx))
                 /\ UNCHANGED <<icache, execution_queue>>
                 /\ receiver'.S # "IDLE" => L3Cache' = L3Cache /\ (L3_err' <=> L3_err)
                 /\ receiver'.S = "IDLE" =>
                       \/ Len(L3Cache) = L3_DEPTH /\ L3_err'
                       \/ /\ L3Cache' = Append(L3Cache, receiver'.tile)
                          /\ (L3_err' <=> L3_err)
<1>1. /\ rx \in Seq(Bytes) /\ rx # << >> /\ rx' = Tail(rx)
      /\ UNCHANGED <<program, control, answered>>
  BY DEF Shape, Received, ReceiveByte, control_vars
<1>2. L3_DEPTH \in Nat /\ Len(L3Cache) \in Nat /\ Len(L3Cache) <= L3_DEPTH
  BY LinkAssumption DEF Shape, Queued, LinkAssumption
<1>3. ASSUME receiver.S = "IDLE"
      PROVE  /\ receiver' = StartPacketOf(Head(rx))
             /\ UNCHANGED <<icache, execution_queue, L3Cache>> /\ (L3_err' <=> L3_err)
  BY <1>3 DEF ReceiveByte
<1>4. ASSUME receiver.S = "UPLOAD_PROG_PACKET"
      PROVE  /\ receiver' = Upload(Head(rx))
             /\ UNCHANGED <<execution_queue, L3Cache>> /\ (L3_err' <=> L3_err)
             /\ receiver.counter > 1 /\ ~ receiver.instr_MSB =>
                   icache' = [a \in DOMAIN icache \cup {receiver'.addr} |->
                                IF a = receiver'.addr THEN receiver'.dat ELSE icache[a]]
             /\ ~ (receiver.counter > 1 /\ ~ receiver.instr_MSB) => icache' = icache
  BY <1>4 DEF ReceiveByte
<1>5. ASSUME receiver.S = "ENQUEUE_PROG_PACKET"
      PROVE  /\ receiver' = Enqueue(Head(rx))
             /\ UNCHANGED <<icache, L3Cache>> /\ (L3_err' <=> L3_err)
             /\ receiver'.S = "IDLE" =>
                   execution_queue' = Append(execution_queue, receiver'.enqueue)
             /\ receiver'.S # "IDLE" => execution_queue' = execution_queue
  BY <1>5 DEF ReceiveByte
<1>6. ASSUME receiver.S = "DATA_READ_RESULT_PACKET"
      PROVE  /\ receiver' = ReadResult(Head(rx))
             /\ UNCHANGED <<icache, execution_queue>>
             /\ receiver'.S # "IDLE" => L3Cache' = L3Cache /\ (L3_err' <=> L3_err)
             /\ receiver'.S = "IDLE" =>
                   \/ Len(L3Cache) = L3_DEPTH /\ L3_err'
                   \/ /\ L3Cache' = Append(L3Cache, receiver'.tile)
                      /\ (L3_err' <=> L3_err)
  <2>1. receiver' = ReadResult(Head(rx)) /\ UNCHANGED <<icache, execution_queue>>
    BY <1>6 DEF ReceiveByte
  <2>2. ASSUME receiver'.S # "IDLE" PROVE L3Cache' = L3Cache /\ (L3_err' <=> L3_err)
    BY <1>6, <2>2 DEF ReceiveByte
  <2>3. ASSUME receiver'.S = "IDLE"
        PROVE  \/ Len(L3Cache) = L3_DEPTH /\ L3_err'
               \/ L3Cache' = Append(L3Cache, receiver'.tile) /\ (L3_err' <=> L3_err)
    <3>1. /\ L3Cache' = IF Len(L3Cache) < L3_DEPTH THEN Append(L3Cache, receiver'.tile)
                        ELSE L3Cache
          /\ L3_err' <=> (L3_err \/ Len(L3Cache) = L3_DEPTH)
      BY <1>6, <2>3 DEF ReceiveByte
    <3>2. CASE Len(L3Cache) = L3_DEPTH
      BY <3>1, <3>2
    <3>3. CASE Len(L3Cache) # L3_DEPTH
      <4>1. Len(L3Cache) < L3_DEPTH
        BY <1>2, <3>3
      <4> QED
        BY <3>1, <3>3, <4>1
    <3> QED
      BY <3>2, <3>3
  <2> QED
    BY <2>1, <2>2, <2>3
<1> QED
  BY <1>1, <1>3, <1>4, <1>5, <1>6

(* The fields of the receiver after a byte.                                *)
LEMMA FieldsAfter ==
    ASSUME receiver \in ReceiverRec, NEW byte \in Bytes
    PROVE  /\ LET r == StartPacketOf(byte)
              IN  /\ r.counter = 0 /\ r.packet_instr_count = byte \div 4
                  /\ byte % 4 = 1 => r.S = "UPLOAD_PROG_PACKET"
                  /\ byte % 4 = 2 => r.S = "ENQUEUE_PROG_PACKET"
                  /\ byte % 4 = 3 => r.S = "DATA_READ_RESULT_PACKET"
                  /\ r.tile = receiver.tile
           /\ LET r == UploadHigh(byte)
              IN  /\ r.S = receiver.S /\ r.counter = receiver.counter
                  /\ r.packet_instr_count = receiver.packet_instr_count
                  /\ r.instr_MSB = FALSE /\ r.dat = BYTE * byte + Low(receiver.dat)
                  /\ r.addr = IF receiver.counter = 2 THEN (receiver.addr - 1) % WORD
                              ELSE receiver.addr
           /\ LET r == UploadLow(byte)
              IN  /\ r.counter = receiver.counter + 1
                  /\ r.packet_instr_count = receiver.packet_instr_count
                  /\ r.instr_MSB = TRUE /\ r.dat = BYTE * High(receiver.dat) + byte
                  /\ r.addr = (receiver.addr + 1) % WORD
                  /\ r.S = IF receiver.counter - 1 = receiver.packet_instr_count
                           THEN "IDLE" ELSE receiver.S
           /\ LET r == Enqueue(byte)
              IN  /\ r.counter = receiver.counter + 1
                  /\ r.enqueue = ShiftIn(receiver.enqueue, byte)
                  /\ r.S = IF receiver.counter = 4 THEN "IDLE" ELSE receiver.S
           /\ LET r == ReadResult(byte)
              IN  /\ r.counter = receiver.counter + 1
                  /\ r.tile = ShiftIn(receiver.tile, byte)
                  /\ r.S = IF receiver.counter = BODY_BYTES - 1 THEN "IDLE" ELSE receiver.S
<1>1. /\ StartPacketOf(byte).counter = 0
      /\ StartPacketOf(byte).packet_instr_count = byte \div 4
      /\ byte % 4 = 1 => StartPacketOf(byte).S = "UPLOAD_PROG_PACKET"
      /\ byte % 4 = 2 => StartPacketOf(byte).S = "ENQUEUE_PROG_PACKET"
      /\ byte % 4 = 3 => StartPacketOf(byte).S = "DATA_READ_RESULT_PACKET"
      /\ StartPacketOf(byte).tile = receiver.tile
  BY DEF StartPacketOf, ReceiverRec
<1>2. LET r == UploadHigh(byte)
      IN  /\ r.S = receiver.S /\ r.counter = receiver.counter
          /\ r.packet_instr_count = receiver.packet_instr_count
          /\ r.instr_MSB = FALSE /\ r.dat = BYTE * byte + Low(receiver.dat)
          /\ r.addr = IF receiver.counter = 2 THEN (receiver.addr - 1) % WORD
                      ELSE receiver.addr
  BY DEF UploadHigh, ReceiverRec
<1>3. LET r == UploadLow(byte)
      IN  /\ r.counter = receiver.counter + 1
          /\ r.packet_instr_count = receiver.packet_instr_count
          /\ r.instr_MSB = TRUE /\ r.dat = BYTE * High(receiver.dat) + byte
          /\ r.addr = (receiver.addr + 1) % WORD
          /\ r.S = IF receiver.counter - 1 = receiver.packet_instr_count
                   THEN "IDLE" ELSE receiver.S
  BY DEF UploadLow, ReceiverRec
<1>4. LET r == Enqueue(byte)
      IN  /\ r.counter = receiver.counter + 1
          /\ r.enqueue = ShiftIn(receiver.enqueue, byte)
          /\ r.S = IF receiver.counter = 4 THEN "IDLE" ELSE receiver.S
  BY DEF Enqueue, ReceiverRec
<1>5. LET r == ReadResult(byte)
      IN  /\ r.counter = receiver.counter + 1
          /\ r.tile = ShiftIn(receiver.tile, byte)
          /\ r.S = IF receiver.counter = BODY_BYTES - 1 THEN "IDLE" ELSE receiver.S
  BY DEF ReadResult, ReceiverRec
<1> QED
  BY <1>1, <1>2, <1>3, <1>4, <1>5

(* The program and the command to start it have arrived, byte by byte.     *)
Loaded == /\ control = "idle" /\ answered = << >> /\ rx = << >> /\ receiver.S = "IDLE"
          /\ Held(Len(Text)) /\ execution_queue = <<Tail(StartPacket(program))>>

(* A byte of an upload or of a start moves the receiver to what follows    *)
(* it.                                                                     *)
LEMMA LoadingReceive ==
    ASSUME Shape, program \in Programs, ReceiveByte, Loading
    PROVE  (Loading' \/ Loaded') /\ L3Cache' = L3Cache /\ (L3_err' <=> L3_err)
<1> DEFINE L == Len(Text)
           b == Head(rx)
           p == program.start
<1>1. PICK k \in Nat : Unread(k) /\ Upto(k)
  BY DEF Loading
<1>2. /\ control = "idle" /\ execution_queue = << >> /\ answered = << >>
      /\ receiver \in ReceiverRec /\ rx \in Seq(Bytes) /\ rx # << >> /\ rx' = Tail(rx)
      /\ program' = program /\ control' = control /\ answered' = answered
  BY ReceiveForm DEF Loading, Shape, Received
<1>3. Unread(k + 1)' /\ b = UploadBytes[k + 1] /\ b \in Bytes /\ k + 1 <= 9 + 2 * L
  BY <1>1, <1>2, UnreadNext
<1>4. /\ L \in Nat /\ 1 <= L /\ L <= 63 /\ p \in Nat /\ p + L <= WORD
      /\ \A j \in 1 .. L : Text[j] \in Words
      /\ Text' = Text
  BY <1>2, TextTypes DEF Text
<1>5. /\ UploadBytes[1] = 1 + 4 * L
      /\ UploadBytes[2] = High(p) /\ UploadBytes[3] = Low(p)
      /\ \A j \in 0 .. L - 1 : /\ UploadBytes[4 + 2 * j] = High(Text[j + 1])
                               /\ UploadBytes[5 + 2 * j] = Low(Text[j + 1])
      /\ UploadBytes[4 + 2 * L] = 2
      /\ \A c \in 1 .. 5 : UploadBytes[4 + 2 * L + c] = StartPacket(program)[c + 1]
      /\ Len(StartPacket(program)) = 6
  BY LoadBytes
<1>6. k + 1 \in Nat
  OBVIOUS
<1>7. ASSUME Upto(k + 1)', UNCHANGED <<execution_queue, L3Cache>>, L3_err' <=> L3_err
      PROVE  Loading' /\ L3Cache' = L3Cache /\ (L3_err' <=> L3_err)
  BY <1>2, <1>3, <1>6, <1>7 DEF Loading
<1>8. /\ receiver'.counter \in Nat /\ receiver.counter \in Nat /\ receiver.addr \in Words
      /\ receiver.dat \in Words /\ receiver.enqueue \in [1 .. 5 -> Bytes]
      /\ receiver'.enqueue \in [1 .. 5 -> Bytes] /\ receiver.addr \in Int /\ receiver.dat \in Int
  <2>1. receiver' \in ReceiverRec
    BY ShapeReceive DEF Shape, Received
  <2> QED
    BY <1>2, <2>1 DEF ReceiverRec, Words
<1>9. \A j : icache' = icache /\ Held(j) => Held(j)'
  BY <1>2, <1>4 DEF Held
<1>10. p \in Words
  BY <1>4, Sizes
<1>0. L \in Nat /\ 1 <= L /\ L <= 63 /\ p \in Nat /\ p + L <= 65536
  BY <1>4, Sizes
<1> HIDE DEF L, b, p
<1>11. CASE BeforeUpload(k)
  <2>1. k = 0 /\ receiver.S = "IDLE" /\ Held(0)
    BY <1>11 DEF BeforeUpload
  <2>2. b = 1 + 4 * L
    BY <1>3, <1>5, <2>1
  <2>3. b % 4 = 1 /\ b \div 4 = L
    BY ONLY <1>4, <2>2
  <2>4. receiver' = StartPacketOf(b) /\ UNCHANGED <<icache, execution_queue, L3Cache>>
        /\ (L3_err' <=> L3_err)
    BY <2>1, ReceiveForm DEF b
  <2>5. Uploading(0)'
    BY <1>2, <1>3, <1>4, <2>3, <2>4, FieldsAfter DEF Uploading, L
  <2>6. InLength(k + 1)'
    BY <1>9, <2>1, <2>4, <2>5 DEF InLength
  <2> QED
    BY <1>7, <2>4, <2>6 DEF Upto
<1>12. CASE BeforeStart(k)
  <2>1. k = 3 + 2 * L /\ receiver.S = "IDLE" /\ Held(L)
    BY <1>12 DEF BeforeStart, L
  <2>2. b = 2
    <3>1. k + 1 = 4 + 2 * L
      BY ONLY <1>4, <2>1
    <3> QED
      BY <1>3, <1>5, <3>1
  <2>3. b % 4 = 2
    BY ONLY <2>2
  <2>4. receiver' = StartPacketOf(b) /\ UNCHANGED <<icache, execution_queue, L3Cache>>
        /\ (L3_err' <=> L3_err)
    BY <2>1, ReceiveForm DEF b
  <2>5. receiver'.S = "ENQUEUE_PROG_PACKET" /\ receiver'.counter = 0
    BY <1>2, <1>3, <2>3, <2>4, FieldsAfter
  <2>6. \A i \in 1 .. 0 : FALSE
    OBVIOUS
  <2>7. k + 1 = 4 + 2 * L + 0
    BY ONLY <1>4, <2>1
  <2>8. InStart(k + 1, 0)'
    BY <1>4, <1>9, <2>1, <2>4, <2>5, <2>6, <2>7 DEF InStart, Filled, L
  <2> QED
    BY <1>7, <2>4, <2>8 DEF Upto
<1>13. ASSUME receiver.S = "UPLOAD_PROG_PACKET"
       PROVE  /\ receiver' = Upload(b) /\ UNCHANGED <<execution_queue, L3Cache>>
              /\ (L3_err' <=> L3_err)
              /\ receiver.counter > 1 /\ ~ receiver.instr_MSB =>
                    icache' = [a \in DOMAIN icache \cup {receiver'.addr} |->
                                 IF a = receiver'.addr THEN receiver'.dat ELSE icache[a]]
              /\ ~ (receiver.counter > 1 /\ ~ receiver.instr_MSB) => icache' = icache
  BY <1>13, ReceiveForm DEF b
<1>14. CASE InLength(k)
  <2>1. k = 1 /\ Uploading(0) /\ Held(0)
    BY <1>14 DEF InLength
  <2>2. b = High(p)
    BY <1>3, <1>5, <2>1
  <2>3. receiver' = [receiver EXCEPT !.counter = 1, !.addr = BYTE * b + Low(@)]
        /\ icache' = icache
    BY <1>13, <2>1 DEF Upload, Uploading
  <2>4. /\ receiver'.S = receiver.S /\ receiver'.counter = 1
        /\ receiver'.packet_instr_count = receiver.packet_instr_count
        /\ receiver'.addr = BYTE * b + Low(receiver.addr)
    BY <1>2, <2>3 DEF ReceiverRec
  <2>5. High(receiver'.addr) = High(p)
    BY <1>3, <1>8, <2>2, <2>4, FirstByte
  <2>6. Uploading(1)'
    BY <1>4, <2>1, <2>4 DEF Uploading
  <2>7. InAddress(k + 1)'
    BY <1>2, <1>9, <2>1, <2>3, <2>5, <2>6 DEF InAddress, p
  <2> QED
    BY <1>7, <1>13, <2>1, <2>7 DEF Upto, Uploading
<1>15. CASE InAddress(k)
  <2>1. k = 2 /\ Uploading(1) /\ Held(0) /\ High(receiver.addr) = High(p)
    BY <1>15 DEF InAddress, p
  <2>2. b = Low(p)
    BY <1>3, <1>5, <2>1
  <2>3. receiver' = [receiver EXCEPT !.counter = 2, !.addr = BYTE * High(@) + b,
                                     !.instr_MSB = TRUE]
        /\ icache' = icache
    BY <1>13, <2>1 DEF Upload, Uploading
  <2>4. /\ receiver'.S = receiver.S /\ receiver'.counter = 2 /\ receiver'.instr_MSB
        /\ receiver'.packet_instr_count = receiver.packet_instr_count
        /\ receiver'.addr = BYTE * High(receiver.addr) + b
    BY <1>2, <2>3 DEF ReceiverRec
  <2>5. receiver'.addr = p
    BY <1>10, <2>1, <2>2, <2>4, ByteFacts
  <2>6. Uploading(2 + 0)'
    BY <1>4, <2>1, <2>4 DEF Uploading
  <2>7. BeforeInstr(k + 1, 0)'
    BY <1>2, <1>9, <2>1, <2>3, <2>4, <2>5, <2>6 DEF BeforeInstr, p
  <2>8. 0 \in 0 .. L - 1
    BY ONLY <1>4
  <2>9. Upto(k + 1)'
    BY <1>4, <2>7, <2>8 DEF Upto, L
  <2> QED
    BY <1>7, <1>13, <2>1, <2>9 DEF Uploading
<1>16. ASSUME NEW j \in 0 .. L - 1, BeforeInstr(k, j)
       PROVE  Loading' /\ L3Cache' = L3Cache /\ (L3_err' <=> L3_err)
  <2>1. /\ k = 3 + 2 * j /\ Uploading(2 + j) /\ Held(j) /\ receiver.instr_MSB
        /\ receiver.addr = IF j = 0 THEN p ELSE p + j - 1
    BY <1>16 DEF BeforeInstr, p
  <2>2. receiver.S = "UPLOAD_PROG_PACKET" /\ receiver.counter = 2 + j
    BY <2>1 DEF Uploading
  <2>3. /\ receiver.counter > 1 /\ receiver.counter # 0 /\ receiver.counter # 1
        /\ (receiver.counter = 2 <=> j = 0) /\ k + 1 = 4 + 2 * j /\ j + 1 \in 1 .. L
        /\ (j # 0 => p + j - 1 \in Int /\ 0 <= p + j - 1 /\ p + j - 1 < 65536)
    <3>1. receiver.counter = 2 + j /\ k = 3 + 2 * j
      BY ONLY <2>1, <2>2
    <3> QED
      BY ONLY <1>0, <3>1
  <2>4. receiver' = UploadHigh(b) /\ icache' = icache
    BY <1>13, <2>1, <2>2, <2>3 DEF Upload
  <2>5. /\ receiver'.S = receiver.S /\ receiver'.counter = receiver.counter
        /\ receiver'.packet_instr_count = receiver.packet_instr_count
        /\ receiver'.instr_MSB = FALSE /\ receiver'.dat = BYTE * b + Low(receiver.dat)
        /\ receiver'.addr = IF receiver.counter = 2 THEN (receiver.addr - 1) % WORD
                            ELSE receiver.addr
    BY <1>2, <1>3, <2>4, FieldsAfter
  <2>6. b = High(Text[j + 1])
    BY <1>3, <1>5, <2>3
  <2>7. High(receiver'.dat) = High(Text[j + 1])
    BY <1>3, <1>8, <2>5, <2>6, FirstByte
  <2>8. receiver'.addr = (p + j - 1) % WORD
    <3>1. CASE j = 0
      <4>1. p + j - 1 = p - 1
        BY ONLY <1>4, <3>1
      <4> QED
        BY <2>1, <2>3, <2>5, <3>1, <4>1
    <3>2. CASE j # 0
      <4>1. \A x \in Int : 0 <= x /\ x < 65536 => x % 65536 = x
        OBVIOUS
      <4>2. (p + j - 1) % WORD = p + j - 1
        BY <2>3, <3>2, <4>1, Sizes
      <4> QED
        BY <2>1, <2>3, <2>5, <3>2, <4>2
    <3> QED
      BY <3>1, <3>2
  <2>9. Uploading(2 + j)'
    BY <1>4, <2>1, <2>5 DEF Uploading
  <2>10. InInstr(k + 1, j)'
    BY <1>2, <1>4, <1>9, <2>1, <2>3, <2>4, <2>5, <2>7, <2>8, <2>9 DEF InInstr, p
  <2>11. Upto(k + 1)'
    BY <1>4, <2>10 DEF Upto, L
  <2> QED
    BY <1>7, <1>13, <2>2, <2>11
<1>17. ASSUME NEW j \in 0 .. L - 1, InInstr(k, j)
       PROVE  Loading' /\ L3Cache' = L3Cache /\ (L3_err' <=> L3_err)
  <2>1. /\ k = 4 + 2 * j /\ Uploading(2 + j) /\ Held(j) /\ ~ receiver.instr_MSB
        /\ receiver.addr = (p + j - 1) % WORD /\ High(receiver.dat) = High(Text[j + 1])
    BY <1>17 DEF InInstr, p
  <2>2. receiver.S = "UPLOAD_PROG_PACKET" /\ receiver.counter = 2 + j
        /\ receiver.packet_instr_count = L
    BY <2>1 DEF Uploading, L
  <2>3. /\ receiver.counter > 1 /\ receiver.counter # 0 /\ receiver.counter # 1
        /\ (receiver.counter - 1 = L <=> j + 1 = L) /\ k + 1 = 5 + 2 * j /\ j + 1 \in 1 .. L
        /\ receiver.counter + 1 = 2 + (j + 1) /\ k + 1 = 3 + 2 * (j + 1)
        /\ p + (j + 1) - 1 = p + j /\ p + j \in Int /\ 0 <= p + j /\ p + j < 65536 /\ j + 1 # 0
        /\ p + j - 1 \in Int
    <3>1. receiver.counter = 2 + j /\ k = 4 + 2 * j
      BY ONLY <2>1, <2>2
    <3> QED
      BY ONLY <1>0, <3>1
  <2>4. receiver' = UploadLow(b)
    BY <1>13, <2>1, <2>2, <2>3 DEF Upload
  <2>5. /\ receiver'.counter = receiver.counter + 1
        /\ receiver'.packet_instr_count = receiver.packet_instr_count
        /\ receiver'.instr_MSB = TRUE /\ receiver'.dat = BYTE * High(receiver.dat) + b
        /\ receiver'.addr = (receiver.addr + 1) % WORD
        /\ receiver'.S = IF receiver.counter - 1 = L THEN "IDLE" ELSE receiver.S
    BY <1>2, <1>3, <2>2, <2>4, FieldsAfter
  <2>6. b = Low(Text[j + 1])
    BY <1>3, <1>5, <2>3
  <2>7. receiver'.dat = Text[j + 1]
    BY <1>4, <2>1, <2>3, <2>5, <2>6, ByteFacts
  <2>8. receiver'.addr = p + j
    <3>1. \A x \in Int : -1 <= x /\ x < 65535 => ((x % 65536) + 1) % 65536 = x + 1
      OBVIOUS
    <3>2. /\ WORD = 65536 /\ -1 <= p + j - 1 /\ p + j - 1 < 65535 /\ (p + j - 1) + 1 = p + j
      BY <1>4, <2>3, Sizes
    <3> QED
      BY <2>1, <2>3, <2>5, <3>1, <3>2
  <2>9. Held(j + 1)'
    <3>1. icache' = [a \in DOMAIN icache \cup {p + j} |->
                       IF a = p + j THEN Text[j + 1] ELSE icache[a]]
      BY <1>13, <2>1, <2>2, <2>3, <2>7, <2>8
    <3> QED
      BY <1>2, <2>1, <3>1, HeldMore DEF p, L
  <2>10. CASE j + 1 = L
    <3>1. receiver'.S = "IDLE" /\ k + 1 = 3 + 2 * L
      BY <2>3, <2>5, <2>10
    <3>2. BeforeStart(k + 1)'
      BY <1>4, <2>9, <2>10, <3>1 DEF BeforeStart, L
    <3> QED
      BY <1>7, <1>13, <2>2, <3>2 DEF Upto
  <2>11. CASE j + 1 # L
    <3>1. receiver'.S = "UPLOAD_PROG_PACKET" /\ j + 1 \in 0 .. L - 1
      <4>1. j + 1 \in 0 .. L - 1
        BY ONLY <1>4, <2>11
      <4> QED
        BY <2>2, <2>3, <2>5, <2>11, <4>1
    <3>2. Uploading(2 + (j + 1))'
      BY <1>4, <2>2, <2>3, <2>5, <3>1 DEF Uploading, L
    <3>3. receiver'.addr = IF j + 1 = 0 THEN p ELSE p + (j + 1) - 1
      BY <2>3, <2>8
    <3>4. BeforeInstr(k + 1, j + 1)'
      BY <1>2, <2>3, <2>5, <2>9, <3>2, <3>3 DEF BeforeInstr, p
    <3>5. Upto(k + 1)'
      BY <1>4, <3>1, <3>4 DEF Upto, L
    <3> QED
      BY <1>7, <1>13, <2>2, <3>5
  <2> QED
    BY <2>10, <2>11
<1>18. ASSUME NEW c \in 0 .. 4, InStart(k, c)
       PROVE  (Loading' \/ Loaded') /\ L3Cache' = L3Cache /\ (L3_err' <=> L3_err)
  <2> DEFINE s == StartPacket(program)
  <2>1. /\ k = 4 + 2 * L + c /\ Held(L) /\ receiver.S = "ENQUEUE_PROG_PACKET"
        /\ receiver.counter = c /\ Filled(receiver.enqueue, 5, c, s, 1)
    BY <1>18 DEF InStart, L
  <2>2. k + 1 = 4 + 2 * L + (c + 1) /\ c + 1 \in 1 .. 5 /\ c \in 0 .. 5 - 1
        /\ (c + 1) + 1 = 1 + c + 1
    BY ONLY <1>4, <2>1
  <2>3. b = s[1 + c + 1]
    BY <1>3, <1>5, <2>2
  <2>4. receiver' = Enqueue(b) /\ UNCHANGED <<icache, L3Cache>> /\ (L3_err' <=> L3_err)
        /\ (receiver'.S = "IDLE" => execution_queue' = Append(execution_queue, receiver'.enqueue))
        /\ (receiver'.S # "IDLE" => execution_queue' = execution_queue)
    BY <2>1, ReceiveForm DEF b
  <2>5. /\ receiver'.counter = c + 1 /\ receiver'.enqueue = ShiftIn(receiver.enqueue, b)
        /\ receiver'.S = IF c = 4 THEN "IDLE" ELSE receiver.S
    BY <1>2, <1>3, <2>1, <2>4, FieldsAfter
  <2>6. Filled(receiver'.enqueue, 5, c + 1, s, 1)
    <3>1. 5 \in Nat \ {0} /\ 1 \in Nat
      OBVIOUS
    <3> HIDE DEF s
    <3> QED
      BY <1>3, <1>8, <2>1, <2>2, <2>3, <2>5, <3>1, FilledMore
  <2>7. Held(L)'
    BY <1>4, <1>9, <2>1, <2>4 DEF L
  <2>8. CASE c # 4
    <3>1. receiver'.S = "ENQUEUE_PROG_PACKET" /\ c + 1 \in 0 .. 4
      BY <2>1, <2>5, <2>8
    <3>2. InStart(k + 1, c + 1)'
      BY <1>2, <1>4, <2>2, <2>5, <2>6, <2>7, <3>1 DEF InStart, L
    <3>3. Upto(k + 1)'
      BY <3>1, <3>2 DEF Upto
    <3> QED
      BY <1>7, <2>4, <3>1, <3>3
  <2>9. CASE c = 4
    <3>1. receiver'.S = "IDLE" /\ Len(rx') = 0
      <4>1. Len(rx') = 9 + 2 * L - (k + 1)
        BY <1>1, <1>2, UnreadNext DEF L
      <4>2. 9 + 2 * L - (k + 1) = 0
        BY ONLY <1>4, <2>2, <2>9
      <4> QED
        BY <2>5, <2>9, <4>1, <4>2
    <3>2. rx' = << >>
      <4>1. rx' \in Seq(Bytes)
        BY <1>2
      <4> QED
        BY <3>1, <4>1
    <3>3. receiver'.enqueue = Tail(s)
      <4>1. s \in Seq(Bytes) /\ Len(s) = 6
        BY <1>5, PacketsTyped
      <4> HIDE DEF s
      <4>2. Tail(s) \in Seq(Bytes) /\ Len(Tail(s)) = 5 /\ \A i \in 1 .. 5 : Tail(s)[i] = s[i + 1]
        BY ONLY <4>1
      <4>3. \A i \in 1 .. 5 : receiver'.enqueue[i] = s[i + 1]
        <5> TAKE i \in 1 .. 5
        <5>1. 5 - (c + 1) + i = i /\ 1 + i = i + 1 /\ c + 1 = 5
          BY ONLY <2>9
        <5>2. receiver'.enqueue[5 - (c + 1) + i] = s[1 + i]
          BY <2>6, <5>1 DEF Filled
        <5> QED
          BY <5>1, <5>2
      <4> DEFINE q == receiver'.enqueue
                 t == Tail(s)
      <4>4. t \in [1 .. 5 -> Bytes]
        <5>1. t \in Seq(Bytes) /\ Len(t) = 5
          BY ONLY <4>2
        <5> HIDE DEF t
        <5> QED
          BY ONLY <5>1, LenProperties
      <4>5. q \in [1 .. 5 -> Bytes] /\ t \in [1 .. 5 -> Bytes] /\ \A i \in 1 .. 5 : q[i] = t[i]
        BY <1>8, <4>2, <4>3, <4>4
      <4> HIDE DEF q, t
      <4>6. q = t
        BY ONLY <4>5
      <4> QED
        BY <4>6 DEF q, t
    <3>4. execution_queue' = <<Tail(s)>>
      BY <1>2, <2>4, <3>1, <3>3
    <3>5. Loaded'
      BY <1>2, <1>4, <2>7, <3>1, <3>2, <3>4 DEF Loaded, L
    <3> QED
      BY <2>4, <3>5
  <2> QED
    BY <2>8, <2>9
<1> QED
  BY <1>1, <1>11, <1>12, <1>14, <1>15, <1>16, <1>17, <1>18 DEF Upto, L

(* The bytes the host sends for the reads it answers: before answer k, and *)
(* byte j of that answer.                                                  *)
At(k) == (k - 1) * (BODY_BYTES + 1)
AnswerByte(k, j) == IF j = 0 THEN 3 ELSE answered[k][2][j]

(* Of those bytes the receiver has taken t, the wire holds the others.     *)
Carried(t) ==
    /\ Len(rx) + t = At(Len(answered) + 1)
    /\ \A k \in 1 .. Len(answered), j \in 0 .. BODY_BYTES :
          At(k) + j + 1 > t => rx[At(k) + j + 1 - t] = AnswerByte(k, j)

(* The program is in place, m answers have arrived and the next is on its  *)
(* way.                                                                    *)
Taken == IF receiver.S = "DATA_READ_RESULT_PACKET" THEN receiver.counter + 1 ELSE 0
Arriving(m) ==
    /\ receiver.S \in {"IDLE", "DATA_READ_RESULT_PACKET"} /\ Held(Len(Text))
    /\ execution_queue \in {<< >>, <<Tail(StartPacket(program))>>}
    /\ m <= Len(answered) /\ Carried(At(m + 1) + Taken)
    /\ receiver.S = "DATA_READ_RESULT_PACKET" =>
          /\ m < Len(answered) /\ receiver.counter < BODY_BYTES
          /\ Filled(receiver.tile, BODY_BYTES, receiver.counter, answered[m + 1][2], 0)

(* The answers follow each other.                                          *)
LEMMA AtFacts ==
    /\ \A k \in Nat : At(k) \in Int /\ At(k + 1) = At(k) + (BODY_BYTES + 1)
    /\ At(1) = 0
    /\ \A k, l \in Nat : k < l => At(k) + (BODY_BYTES + 1) <= At(l)
<1>1. BODY_BYTES \in Nat
  BY ByteFacts
<1>2. ASSUME NEW k \in Nat PROVE At(k) \in Int /\ At(k + 1) = At(k) + (BODY_BYTES + 1)
  <2>1. \A a, d \in Int : (a - 1) * d \in Int /\ (a + 1 - 1) * d = (a - 1) * d + d
    OBVIOUS
  <2>2. BODY_BYTES + 1 \in Int /\ k \in Int
    BY <1>1
  <2> QED
    BY <2>1, <2>2 DEF At
<1>3. At(1) = 0
  <2>1. \A d \in Int : (1 - 1) * d = 0
    OBVIOUS
  <2>2. BODY_BYTES + 1 \in Int
    BY <1>1
  <2> QED
    BY <2>1, <2>2 DEF At
<1>4. ASSUME NEW k \in Nat, NEW l \in Nat, k < l
      PROVE  At(k) + (BODY_BYTES + 1) <= At(l)
  <2> DEFINE d == BODY_BYTES + 1
             e == l - k - 1
  <2>1. d \in Nat /\ e \in Nat
    BY <1>1, <1>4
  <2>2. l - 1 = (k - 1) + 1 + e
    OBVIOUS
  <2>3. At(k) = (k - 1) * d /\ At(l) = (l - 1) * d
    BY DEF At
  <2> HIDE DEF d, e
  <2>4. \A x, y, z \in Int : (x + 1 + y) * z = x * z + z + y * z
    OBVIOUS
  <2>5. \A y, z \in Nat : y * z \in Nat
    OBVIOUS
  <2>6. (l - 1) * d = (k - 1) * d + d + e * d
    BY <2>1, <2>2, <2>4
  <2>7. e * d \in Nat /\ (k - 1) * d \in Int
    BY <2>1, <2>5
  <2>8. At(k) + d <= At(l)
    BY ONLY <2>1, <2>3, <2>6, <2>7
  <2> QED
    BY <2>8 DEF d
<1> QED
  BY <1>2, <1>3, <1>4

(* The byte the receiver takes.                                            *)
LEMMA CarriedNext ==
    ASSUME rx \in Seq(Bytes), rx # << >>, rx' = Tail(rx), answered' = answered,
           answered \in Seq(HostAddresses \X Tiles), NEW t \in Int, Carried(t)
    PROVE  Carried(t + 1)'
<1>1. /\ Len(rx) \in Nat \ {0} /\ Len(rx') = Len(rx) - 1
      /\ \A i \in 1 .. Len(rx) - 1 : rx'[i] = rx[i + 1]
  OBVIOUS
<1>2. Len(answered) \in Nat /\ BODY_BYTES \in Nat
  BY ByteFacts
<1>3. At(Len(answered) + 1) \in Int
  <2>1. Len(answered) + 1 \in Nat
    BY <1>2
  <2> QED
    BY <2>1, AtFacts
<1>4. Len(rx) + t = At(Len(answered) + 1)
  BY DEF Carried
<1>5. Len(rx') + (t + 1) = At(Len(answered) + 1)
  <2> DEFINE e == At(Len(answered) + 1)
             n == Len(rx)
  <2>1. n \in Nat /\ Len(rx') = n - 1 /\ n + t = e /\ e \in Int
    BY <1>1, <1>3, <1>4
  <2> HIDE DEF e, n
  <2>2. Len(rx') + (t + 1) = e
    BY ONLY <2>1
  <2> QED
    BY <2>2 DEF e
<1>6. ASSUME NEW k \in 1 .. Len(answered), NEW j \in 0 .. BODY_BYTES,
             At(k) + j + 1 > t + 1
      PROVE  rx'[At(k) + j + 1 - (t + 1)] = AnswerByte(k, j)
  <2> DEFINE a == At(k)
             e == At(Len(answered) + 1)
             n == Len(rx)
  <2>1. a + (BODY_BYTES + 1) <= e /\ a \in Int
    <3>1. k \in Nat /\ Len(answered) + 1 \in Nat /\ k < Len(answered) + 1
      BY <1>2
    <3> QED
      BY <3>1, AtFacts
  <2>2. n \in Nat /\ n + t = e /\ a + j + 1 > t + 1 /\ e \in Int
    BY <1>1, <1>3, <1>4, <1>6
  <2>3. rx[a + j + 1 - t] = AnswerByte(k, j)
    <3>1. a + j + 1 > t
      <4> HIDE DEF a
      <4> QED
        BY <1>2, <2>1, <2>2
    <3> QED
      BY <3>1 DEF Carried
  <2> HIDE DEF a, e, n
  <2>4. a + j + 1 - (t + 1) \in 1 .. n - 1 /\ (a + j + 1 - (t + 1)) + 1 = a + j + 1 - t
    BY ONLY <1>2, <2>1, <2>2
  <2>5. rx'[a + j + 1 - (t + 1)] = rx[a + j + 1 - t]
    BY <1>1, <2>4 DEF n
  <2> QED
    BY <2>3, <2>5 DEF a
<1> QED
  BY <1>5, <1>6 DEF Carried, AnswerByte

(* One more answer on the wire.                                            *)
LEMMA CarriedMore ==
    ASSUME rx \in Seq(Bytes), answered \in Seq(HostAddresses \X Tiles),
           NEW item \in HostAddresses \X Tiles, answered' = Append(answered, item),
           rx' = rx \o << 3 >> \o item[2], NEW t \in Int, Carried(t)
    PROVE  Carried(t)'
<1> DEFINE n == Len(rx)
           m == Len(answered)
<1>1. /\ n \in Nat /\ m \in Nat /\ BODY_BYTES \in Nat /\ Len(answered') = m + 1
      /\ \A k \in 1 .. m : answered'[k] = answered[k]
      /\ answered'[m + 1] = item
  BY ByteFacts
<1>2. item[2] \in Seq(Bytes) /\ Len(item[2]) = BODY_BYTES
  <2>1. item[2] \in [1 .. BODY_BYTES -> Bytes]
    BY DEF Tiles
  <2> QED
    BY <1>1, <2>1, IsASeq
<1>3. /\ Len(rx') = n + 1 + BODY_BYTES
      /\ \A i \in 1 .. n : rx'[i] = rx[i]
      /\ rx'[n + 1] = 3
      /\ \A i \in 1 .. BODY_BYTES : rx'[n + 1 + i] = item[2][i]
  <2> DEFINE x == rx \o << 3 >>
             y == item[2]
  <2>1. x \in Seq(Bytes) /\ Len(x) = n + 1 /\ x[n + 1] = 3 /\ \A i \in 1 .. n : x[i] = rx[i]
    <3>1. 3 \in Bytes
      BY Sizes
    <3>2. x = Append(rx, 3)
      OBVIOUS
    <3> QED
      BY <3>1, <3>2
  <2>2. y \in Seq(Bytes) /\ Len(y) = BODY_BYTES /\ rx' = x \o y
    BY <1>2
  <2> HIDE DEF x, y
  <2>3. /\ Len(x \o y) = Len(x) + Len(y)
        /\ \A i \in 1 .. Len(x) : (x \o y)[i] = x[i]
        /\ \A i \in 1 .. Len(y) : (x \o y)[Len(x) + i] = y[i]
    <3>1. x \in Seq(Bytes) /\ y \in Seq(Bytes)
      BY ONLY <2>1, <2>2
    <3> QED
      BY ONLY <3>1
  <2>4. n + 1 \in 1 .. n + 1 /\ \A i \in 1 .. n : i \in 1 .. n + 1
    BY ONLY <1>1
  <2>5. /\ Len(rx') = (n + 1) + BODY_BYTES
        /\ \A i \in 1 .. n + 1 : rx'[i] = x[i]
        /\ \A i \in 1 .. BODY_BYTES : rx'[(n + 1) + i] = y[i]
    BY ONLY <2>1, <2>2, <2>3
  <2> QED
    BY <2>1, <2>4, <2>5 DEF y
<1>4. At(m + 1) \in Int /\ At((m + 1) + 1) = At(m + 1) + (BODY_BYTES + 1) /\ n + t = At(m + 1)
  <2>1. m + 1 \in Nat
    BY <1>1
  <2> QED
    BY <2>1, AtFacts DEF Carried
<1> HIDE DEF n, m
<1> DEFINE e == At(m + 1)
<1>5. Len(rx') + t = At((m + 1) + 1)
  <2> HIDE DEF e
  <2>1. e \in Int /\ n + t = e /\ At((m + 1) + 1) = e + (BODY_BYTES + 1)
    BY <1>4 DEF e
  <2> QED
    BY ONLY <1>1, <1>3, <2>1
<1>6. ASSUME NEW k \in 1 .. m + 1, NEW j \in 0 .. BODY_BYTES, At(k) + j + 1 > t
      PROVE  rx'[At(k) + j + 1 - t] = IF j = 0 THEN 3 ELSE answered'[k][2][j]
  <2>1. CASE k \in 1 .. m
    <3> DEFINE a == At(k)
    <3>1. a \in Int /\ a + (BODY_BYTES + 1) <= e
      <4>1. k \in Nat /\ m + 1 \in Nat /\ k < m + 1
        BY ONLY <1>1, <2>1
      <4> QED
        BY <4>1, AtFacts
    <3>2. rx[a + j + 1 - t] = AnswerByte(k, j)
      BY <1>6, <2>1 DEF Carried, m
    <3>3. e \in Int /\ n + t = e /\ a + j + 1 > t
      BY <1>4, <1>6
    <3> HIDE DEF a, e
    <3>4. a + j + 1 - t \in 1 .. n
      BY ONLY <1>1, <3>1, <3>3
    <3>5. rx'[a + j + 1 - t] = rx[a + j + 1 - t] /\ answered'[k] = answered[k]
      BY <1>1, <1>3, <2>1, <3>4
    <3> QED
      BY <3>2, <3>5 DEF AnswerByte, a
  <2>2. CASE k = m + 1
    <3>1. At(k) + j + 1 - t = n + 1 + j
      <4>1. At(k) = e /\ e \in Int /\ n + t = e
        BY <1>4, <2>2
      <4> HIDE DEF e
      <4> QED
        BY ONLY <1>1, <4>1
    <3>2. CASE j = 0
      <4>1. n + 1 + j = n + 1
        BY ONLY <1>1, <3>2
      <4> QED
        BY <1>3, <3>1, <3>2, <4>1
    <3>3. CASE j # 0
      <4>1. j \in 1 .. BODY_BYTES
        BY ONLY <1>1, <3>3
      <4> QED
        BY <1>1, <1>3, <2>2, <3>1, <3>3, <4>1
    <3> QED
      BY <3>2, <3>3
  <2>3. k \in 1 .. m \/ k = m + 1
    BY ONLY <1>1
  <2> QED
    BY <2>1, <2>2, <2>3
<1>7. Len(answered') = m + 1
  BY <1>1
<1> QED
  BY ONLY <1>5, <1>6, <1>7 DEF Carried, AnswerByte

(* A byte of an answer: the receiver goes on in it or has its whole tile.  *)
LEMMA ArrivingReceive ==
    ASSUME Shape, program \in Programs, answered \in Seq(HostAddresses \X Tiles), ReceiveByte,
           NEW m \in Nat, Arriving(m)
    PROVE  \/ Arriving(m)' /\ L3Cache' = L3Cache /\ (L3_err' <=> L3_err)
           \/ /\ m < Len(answered) /\ Arriving(m + 1)'
              /\ L3_err' \/ (L3Cache' = Append(L3Cache, answered[m + 1][2]) /\ (L3_err' <=> L3_err))
<1> DEFINE b == Head(rx)
           n == Len(answered)
<1>1. /\ rx \in Seq(Bytes) /\ rx # << >> /\ rx' = Tail(rx) /\ b \in Bytes /\ b = rx[1]
      /\ Len(rx) \in Nat \ {0}
      /\ program' = program /\ answered' = answered
      /\ receiver \in ReceiverRec /\ receiver' \in ReceiverRec
  BY ReceiveForm, ShapeReceive DEF Shape, Received
<1>2. n \in Nat /\ BODY_BYTES \in Nat \ {0} /\ m + 1 \in Nat /\ n + 1 \in Nat
  BY ByteFacts
<1>3. /\ At(m + 1) \in Int /\ At((m + 1) + 1) = At(m + 1) + (BODY_BYTES + 1)
      /\ At(n + 1) \in Int /\ (m < n => At(m + 1) + (BODY_BYTES + 1) <= At(n + 1))
  <2>1. m < n => m + 1 < n + 1
    BY ONLY <1>2
  <2> QED
    BY <1>2, <2>1, AtFacts
<1>4. /\ receiver.S \in {"IDLE", "DATA_READ_RESULT_PACKET"} /\ Held(Len(Text))
      /\ execution_queue \in {<< >>, <<Tail(StartPacket(program))>>}
      /\ m <= n /\ Carried(At(m + 1) + Taken)
      /\ receiver.S = "DATA_READ_RESULT_PACKET" =>
            /\ m < n /\ receiver.counter < BODY_BYTES
            /\ Filled(receiver.tile, BODY_BYTES, receiver.counter, answered[m + 1][2], 0)
  BY DEF Arriving
<1>5. /\ receiver.counter \in Nat /\ receiver.tile \in [1 .. BODY_BYTES -> Bytes]
      /\ receiver'.tile \in [1 .. BODY_BYTES -> Bytes]
  BY <1>1 DEF ReceiverRec, Tiles
<1>6. PICK t \in Int : t = At(m + 1) + Taken
  <2>1. Taken \in Int
    BY <1>5 DEF Taken
  <2> QED
    BY <1>3, <2>1
<1>13. Carried(t)
  BY <1>4, <1>6 DEF Carried
<1>7. Carried(t + 1)'
  BY <1>1, <1>13, CarriedNext
<1>12. ASSUME (At(m + 1) + Taken)' = t + 1 PROVE Carried(At(m + 1) + Taken)'
  BY <1>7, <1>12 DEF Carried
<1>14. ASSUME (At((m + 1) + 1) + Taken)' = t + 1 PROVE Carried(At((m + 1) + 1) + Taken)'
  BY <1>7, <1>14 DEF Carried
<1>8. Len(rx) + t = At(n + 1)
      /\ \A k \in 1 .. n, j \in 0 .. BODY_BYTES :
            At(k) + j + 1 > t => rx[At(k) + j + 1 - t] = AnswerByte(k, j)
  BY <1>13 DEF Carried
<1>9. /\ Text' = Text /\ Len(answered') = n
      /\ execution_queue' = execution_queue /\ icache' = icache /\ Held(Len(Text))'
  <2>1. icache' = icache /\ execution_queue' = execution_queue
    BY <1>4, ReceiveForm
  <2>2. Text' = Text
    BY <1>1 DEF Text
  <2> QED
    BY <1>1, <1>4, <2>1, <2>2 DEF Held
<1>10. CASE receiver.S = "IDLE"
  <2>1. Taken = 0 /\ t = At(m + 1)
    BY <1>3, <1>6, <1>10 DEF Taken
  <2>2. m < n
    <3> DEFINE x == At(m + 1)
               y == At(n + 1)
               z == Len(rx)
    <3>1. m = n => x = y
      OBVIOUS
    <3>2. z \in Nat \ {0} /\ z + x = y /\ x \in Int
      BY <1>1, <1>3, <1>8, <2>1
    <3> HIDE DEF x, y, z
    <3> QED
      BY ONLY <1>2, <1>4, <3>1, <3>2
  <2>3. b = 3
    <3>1. At(m + 1) + 0 + 1 > t /\ At(m + 1) + 0 + 1 - t = 1
      BY <1>3, <2>1
    <3>2. m + 1 \in 1 .. n /\ 0 \in 0 .. BODY_BYTES
      BY <1>2, <2>2
    <3>3. rx[At(m + 1) + 0 + 1 - t] = AnswerByte(m + 1, 0)
      BY <1>8, <3>1, <3>2
    <3> QED
      BY <1>1, <3>1, <3>3 DEF AnswerByte
  <2>4. receiver' = StartPacketOf(b) /\ L3Cache' = L3Cache /\ (L3_err' <=> L3_err)
    BY <1>10, ReceiveForm
  <2>5. receiver'.S = "DATA_READ_RESULT_PACKET" /\ receiver'.counter = 0
    <3>1. b % 4 = 3
      BY ONLY <2>3
    <3> QED
      BY <1>1, <2>4, <3>1, FieldsAfter
  <2>6. Carried(At(m + 1) + Taken)'
    <3>1. Taken' = 1
      BY <2>5 DEF Taken
    <3>2. (At(m + 1) + Taken)' = t + 1
      BY <2>1, <3>1 DEF At
    <3> QED
      BY <1>12, <3>2
  <2>7. Filled(receiver'.tile, BODY_BYTES, 0, answered[m + 1][2], 0)
    BY DEF Filled
  <2>8. Arriving(m)'
    BY <1>1, <1>2, <1>4, <1>9, <2>2, <2>5, <2>6, <2>7 DEF Arriving
  <2> QED
    BY <2>4, <2>8
<1>11. CASE receiver.S = "DATA_READ_RESULT_PACKET"
  <2> DEFINE c == receiver.counter
             s == answered[m + 1][2]
  <2>1. /\ Taken = c + 1 /\ c \in Nat /\ m < n /\ c < BODY_BYTES
        /\ Filled(receiver.tile, BODY_BYTES, c, s, 0)
    BY <1>4, <1>5, <1>11 DEF Taken
  <2>2. b = s[0 + c + 1]
    <3>1. At(m + 1) + (c + 1) + 1 > t /\ At(m + 1) + (c + 1) + 1 - t = 1
      <4> DEFINE x == At(m + 1)
      <4>1. x \in Int /\ t = x + (c + 1) /\ c \in Nat
        BY <1>3, <1>6, <2>1
      <4> HIDE DEF x, c
      <4>2. x + (c + 1) + 1 > t /\ x + (c + 1) + 1 - t = 1
        BY ONLY <4>1
      <4> QED
        BY <4>2 DEF x
    <3>2. m + 1 \in 1 .. n /\ c + 1 \in 0 .. BODY_BYTES /\ c + 1 # 0 /\ 0 + c + 1 = c + 1
      BY <1>2, <2>1
    <3>3. rx[At(m + 1) + (c + 1) + 1 - t] = AnswerByte(m + 1, c + 1)
      <4> HIDE DEF c
      <4> QED
        BY <1>8, <3>1, <3>2
    <3> HIDE DEF c
    <3> QED
      BY <1>1, <3>1, <3>2, <3>3 DEF AnswerByte
  <2>3. /\ receiver' = ReadResult(b)
        /\ receiver'.S # "IDLE" => L3Cache' = L3Cache /\ (L3_err' <=> L3_err)
        /\ receiver'.S = "IDLE" =>
              L3_err' \/ (L3Cache' = Append(L3Cache, receiver'.tile) /\ (L3_err' <=> L3_err))
    BY <1>11, ReceiveForm
  <2>4. /\ receiver'.counter = c + 1 /\ receiver'.tile = ShiftIn(receiver.tile, b)
        /\ receiver'.S = IF c = BODY_BYTES - 1 THEN "IDLE" ELSE receiver.S
    BY <1>1, <2>3, FieldsAfter
  <2>5. Filled(receiver'.tile, BODY_BYTES, c + 1, s, 0)
    <3>1. c \in 0 .. BODY_BYTES - 1 /\ 0 \in Nat
      BY <1>2, <2>1
    <3> HIDE DEF c, s
    <3> QED
      BY <1>1, <1>2, <1>5, <2>1, <2>2, <2>4, <3>1, FilledMore
  <2>6. CASE c # BODY_BYTES - 1
    <3>1. receiver'.S = "DATA_READ_RESULT_PACKET" /\ receiver'.counter < BODY_BYTES
      <4>1. c + 1 < BODY_BYTES
        <5> HIDE DEF c
        <5> QED
          BY ONLY <1>2, <2>1, <2>6
      <4> QED
        BY <1>11, <2>4, <2>6, <4>1
    <3>2. Carried(At(m + 1) + Taken)'
      <4>1. Taken' = c + 2 /\ At(m + 1) + (c + 2) = t + 1
        <5> DEFINE x == At(m + 1)
        <5>1. receiver'.counter + 1 = c + 2 /\ t = x + (c + 1) /\ x \in Int /\ c \in Nat
          BY <1>3, <1>6, <2>1, <2>4
        <5>2. Taken' = c + 2
          BY <3>1, <5>1 DEF Taken
        <5> HIDE DEF x, c
        <5>3. x + (c + 2) = t + 1
          BY ONLY <5>1
        <5> QED
          BY <5>2, <5>3 DEF x
      <4>2. (At(m + 1) + Taken)' = t + 1
        BY <4>1 DEF At
      <4> QED
        BY <1>12, <4>2
    <3>3. Arriving(m)'
      BY <1>1, <1>2, <1>4, <1>9, <2>1, <2>4, <2>5, <3>1, <3>2 DEF Arriving
    <3> QED
      BY <2>3, <3>1, <3>3
  <2>7. CASE c = BODY_BYTES - 1
    <3>1. receiver'.S = "IDLE"
      BY <2>4, <2>7
    <3>2. receiver'.tile = s
      <4>1. s \in [1 .. BODY_BYTES -> Bytes]
        <5>1. m + 1 \in 1 .. n
          BY <1>2, <2>1
        <5>2. answered[m + 1] \in HostAddresses \X Tiles
          BY <5>1
        <5> QED
          BY <5>2 DEF Tiles
      <4>2. c + 1 = BODY_BYTES
        BY <1>2, <2>7
      <4>3. ASSUME NEW i \in 1 .. BODY_BYTES PROVE receiver'.tile[i] = s[i]
        <5>1. i \in 1 .. c + 1 /\ BODY_BYTES - (c + 1) + i = i /\ 0 + i = i
          BY <1>2, <4>2
        <5> HIDE DEF s, c
        <5>2. receiver'.tile[BODY_BYTES - (c + 1) + i] = s[0 + i]
          BY <2>5, <5>1 DEF Filled
        <5> QED
          BY <5>1, <5>2
      <4> DEFINE r == receiver'.tile
      <4>4. r \in [1 .. BODY_BYTES -> Bytes] /\ \A i \in 1 .. BODY_BYTES : r[i] = s[i]
        BY <1>5, <4>3
      <4> HIDE DEF r, s
      <4>5. r = s
        <5>1. r = [i \in 1 .. BODY_BYTES |-> r[i]] /\ s = [i \in 1 .. BODY_BYTES |-> s[i]]
          BY ONLY <4>1, <4>4
        <5> QED
          BY ONLY <4>4, <5>1
      <4> QED
        BY <4>5 DEF r
    <3>3. Carried(At((m + 1) + 1) + Taken)'
      <4>1. Taken' = 0 /\ At((m + 1) + 1) + 0 = t + 1
        <5> DEFINE x == At(m + 1)
                   y == At((m + 1) + 1)
        <5>1. t = x + (c + 1) /\ x \in Int /\ c \in Nat /\ c = BODY_BYTES - 1
              /\ y = x + (BODY_BYTES + 1)
          BY <1>3, <1>6, <2>1, <2>7
        <5>2. Taken' = 0
          BY <3>1 DEF Taken
        <5> HIDE DEF x, y, c
        <5>3. y + 0 = t + 1
          BY ONLY <1>2, <5>1
        <5> QED
          BY <5>2, <5>3 DEF y
      <4>2. (At((m + 1) + 1) + Taken)' = t + 1
        BY <4>1 DEF At
      <4> QED
        BY <1>14, <4>2
    <3>4. m + 1 <= n
      BY ONLY <1>2, <2>1
    <3>5. Arriving(m + 1)'
      BY <1>1, <1>4, <1>9, <3>1, <3>3, <3>4 DEF Arriving
    <3> QED
      BY <2>1, <2>3, <3>1, <3>2, <3>5
  <2> QED
    BY <2>6, <2>7
<1> QED
  BY <1>4, <1>10, <1>11

OneRead(kind) == IF kind = "read" THEN 1 ELSE 0
InCache == Len(delivered)
PastL3 == InCache + OneRead(stage_2.instr.kind)

(* The reads: in the data cache, in the stages and waiting, each in its    *)
(* place.                                                                  *)
ReadsBehind ==
    /\ delivered \in Seq(HostAddresses \X Tiles)
    /\ \A i \in 1 .. InCache : i <= Len(Reads) /\ delivered[i][1] = Reads[i].addr
    /\ stage_2.instr.kind = "read" => stage_2.instr.addr = Reads[InCache + 1].addr
    /\ stage_1.kind = "read" => stage_1.addr = Reads[PastL3 + 1].addr
    /\ Waits(waiting, Reads, "read", PastL3 + OneRead(stage_1.kind))

(* Of the q tiles that have arrived each is the one its read takes.        *)
Stored(q) ==
    ~ L3_err =>
        /\ q = PastL3 + Len(L3Cache)
        /\ \A i \in 1 .. InCache : delivered[i][2] = answered[i][2]
        /\ stage_2.instr.kind = "read" => stage_2.dat = answered[InCache + 1][2]
        /\ \A i \in 1 .. Len(L3Cache) : L3Cache[i] = answered[PastL3 + i][2]

(* The places of the reads, and how many there can be.                     *)
LEMMA ReadsFacts ==
    ASSUME Shape, ReadsBehind
    PROVE  /\ Reads \in Seq(CopyRec) /\ InCache \in Nat /\ PastL3 \in Nat
           /\ OneRead(stage_2.instr.kind) \in {0, 1} /\ OneRead(stage_1.kind) \in {0, 1}
           /\ PastL3 + OneRead(stage_1.kind) <= Len(Reads) /\ Len(Reads) \in Nat
<1>1. /\ Reads \in Seq(CopyRec) /\ waiting \in Seq(CopyRec)
      /\ delivered \in Seq(HostAddresses \X Tiles) /\ Len(Reads) \in Nat
  BY DEF Shape, Issued, Reads, Kinds, ReadsBehind
<1>2. OneRead(stage_2.instr.kind) \in {0, 1} /\ OneRead(stage_1.kind) \in {0, 1}
  BY DEF OneRead
<1>3. InCache \in Nat /\ PastL3 \in Nat
  BY <1>1, <1>2 DEF InCache, PastL3
<1> DEFINE g == PastL3 + OneRead(stage_1.kind)
<1>4. g \in 0 .. Len(Reads)
  <2>1. Waits(waiting, Reads, "read", g)
    BY DEF ReadsBehind
  <2>2. Len(waiting) \in Nat /\ 1 \in 1 .. Len(waiting) + 1
    BY <1>1
  <2> HIDE DEF g
  <2> QED
    BY <2>1, <2>2 DEF Waits
<1>5. g <= Len(Reads)
  <2> HIDE DEF g
  <2> QED
    BY <1>1, <1>4
<1> QED
  BY <1>1, <1>2, <1>3, <1>5

(* What an edge does to the reads: they move on together or not at all.    *)
LEMMA ReadsForm ==
    ASSUME Shape, ReadsBehind, Pipeline
    PROVE  /\ freeze => UNCHANGED <<stage_2, L3Cache, delivered>>
           /\ ~ freeze =>
                 /\ stage_2.instr.kind = "read" =>
                       /\ delivered' = Append(delivered, <<stage_2.instr.addr, stage_2.dat>>)
                       /\ <<stage_2.instr.addr, stage_2.dat>> \in HostAddresses \X Tiles
                 /\ stage_2.instr.kind # "read" => delivered' = delivered
                 /\ stage_2'.instr = IF stage_1.kind = "end" THEN NoInstr ELSE stage_1
                 /\ stage_1.kind = "read" => /\ L3Cache # << >> /\ L3Cache' = Tail(L3Cache)
                                             /\ stage_2'.dat = Head(L3Cache)
                 /\ stage_1.kind # "read" => L3Cache' = L3Cache
                 /\ InCache' = PastL3
                 /\ PastL3' = PastL3 + OneRead(stage_1.kind)
<1>1. freeze => UNCHANGED <<stage_2, L3Cache, delivered>>
  BY DEF Pipeline
<1>2. CASE ~ freeze
  <2>1. stage_2 \in Stage /\ delivered \in Seq(HostAddresses \X Tiles)
    BY DEF Shape, Staged, ReadsBehind
  <2>2. stage_2.instr \in Slot /\ stage_2.dat \in Tiles
    BY <2>1 DEF Stage
  <2>3. stage_2.instr.kind = "read" =>
           <<stage_2.instr.addr, stage_2.dat>> \in HostAddresses \X Tiles
    BY <2>2, SlotFacts
  <2>4. /\ stage_2.instr.kind = "read" =>
              delivered' = Append(delivered, <<stage_2.instr.addr, stage_2.dat>>)
        /\ stage_2.instr.kind # "read" => delivered' = delivered
        /\ stage_2'.instr = IF stage_1.kind = "end" THEN NoInstr ELSE stage_1
        /\ stage_1.kind = "read" => L3Cache' = Tail(L3Cache) /\ stage_2'.dat = Head(L3Cache)
        /\ stage_1.kind # "read" => L3Cache' = L3Cache
    BY <1>2 DEF Pipeline
  <2>5. stage_1.kind = "read" => L3Cache # << >>
    BY <1>2 DEF freeze
  <2>6. InCache' = PastL3
    <3>1. CASE stage_2.instr.kind = "read"
      <4>1. Len(delivered') = Len(delivered) + 1
        BY <2>1, <2>3, <2>4, <3>1
      <4> QED
        BY <3>1, <4>1 DEF InCache, PastL3, OneRead
    <3>2. CASE stage_2.instr.kind # "read"
      BY <2>1, <2>4, <3>2 DEF InCache, PastL3, OneRead
    <3> QED
      BY <3>1, <3>2
  <2>7. OneRead(stage_2'.instr.kind) = OneRead(stage_1.kind)
    BY <2>4 DEF OneRead, NoInstr
  <2>8. PastL3' = PastL3 + OneRead(stage_1.kind)
    BY <2>6, <2>7 DEF PastL3
  <2> QED
    BY <1>2, <2>3, <2>4, <2>5, <2>6, <2>8
<1> QED
  BY <1>1, <1>2

(* An edge of the core moves the reads on, from the instruction queue to   *)
(* the data cache, and passes none.                                        *)
LEMMA ReadsEdge ==
    ASSUME Ctl, Shape, NEW insert \in BOOLEAN, NEW issue \in BOOLEAN, Edge(insert, issue),
           ReadsBehind
    PROVE  ReadsBehind' /\ Reads' \in Seq(CopyRec) /\ Len(Reads) <= Len(Reads')
<1>1. /\ Control(insert) /\ Pipeline /\ Reads \in Seq(CopyRec) /\ Reads' \in Seq(CopyRec)
      /\ Len(Reads) <= Len(Reads')
      /\ \A m \in 1 .. Len(Reads) : Reads'[m] = Reads[m]
      /\ \A s \in Seq(CopyRec) : \A lo :
            Waits(s, Reads, "read", lo) => Waits(s \o Pushing, Reads', "read", lo)
  <2>1. Control(insert) /\ Pipeline /\ "read" \in Kinds
    BY DEF Edge, Kinds
  <2> QED
    BY <2>1, PushForm DEF Reads
<1> DEFINE c == OneRead(stage_2.instr.kind)
           d == OneRead(stage_1.kind)
<1>2. /\ InCache \in Nat /\ PastL3 \in Nat /\ c \in {0, 1} /\ d \in {0, 1}
      /\ PastL3 + d <= Len(Reads) /\ PastL3 = InCache + c
      /\ Len(Reads) \in Nat /\ Len(Reads') \in Nat /\ waiting \in Seq(CopyRec)
  BY <1>1, ReadsFacts DEF Shape, Issued, PastL3
<1>3. /\ delivered \in Seq(HostAddresses \X Tiles)
      /\ \A i \in 1 .. InCache : i <= Len(Reads) /\ delivered[i][1] = Reads[i].addr
      /\ c = 1 => stage_2.instr.addr = Reads[InCache + 1].addr
      /\ d = 1 => stage_1.addr = Reads[PastL3 + 1].addr
      /\ Waits(waiting, Reads, "read", PastL3 + d)
      /\ stage_2.instr.kind = "read" <=> c = 1
      /\ stage_1.kind = "read" <=> d = 1
  BY DEF ReadsBehind, OneRead
<1> HIDE DEF c, d
<1>4. /\ \A i \in 1 .. InCache : i <= Len(Reads') /\ delivered[i][1] = Reads'[i].addr
      /\ c = 1 => stage_2.instr.addr = Reads'[InCache + 1].addr
      /\ d = 1 => stage_1.addr = Reads'[PastL3 + 1].addr
  <2>1. \A i \in 1 .. InCache : i \in 1 .. Len(Reads) /\ i <= Len(Reads')
    BY ONLY <1>1, <1>2, <1>3
  <2>2. /\ c = 1 => InCache + 1 \in 1 .. Len(Reads)
        /\ d = 1 => PastL3 + 1 \in 1 .. Len(Reads)
    BY ONLY <1>2
  <2> QED
    BY <1>1, <1>3, <2>1, <2>2
<1>5. CASE freeze
  <2>1. stage_1' = stage_1 /\ waiting' = waiting \o Pushing
        /\ stage_2' = stage_2 /\ delivered' = delivered
    BY <1>1, <1>5, IssueForm, ReadsForm DEF Pushing
  <2>2. InCache' = InCache /\ PastL3' = PastL3 /\ OneRead(stage_1'.kind) = d
    BY <2>1 DEF InCache, PastL3, d
  <2>3. Waits(waiting', Reads', "read", PastL3 + d)
    BY <1>1, <1>2, <1>3, <2>1
  <2>4. ReadsBehind'
    BY <1>3, <1>4, <2>1, <2>2, <2>3 DEF ReadsBehind
  <2> QED
    BY <1>1, <2>4
<1>6. CASE ~ freeze
  <2>1. /\ c = 1 =>
              /\ delivered' = Append(delivered, <<stage_2.instr.addr, stage_2.dat>>)
              /\ <<stage_2.instr.addr, stage_2.dat>> \in HostAddresses \X Tiles
        /\ c = 0 => delivered' = delivered
        /\ stage_2'.instr = IF stage_1.kind = "end" THEN NoInstr ELSE stage_1
        /\ InCache' = PastL3 /\ PastL3' = PastL3 + d
    BY <1>1, <1>2, <1>3, <1>6, ReadsForm DEF d
  <2>2. /\ delivered' \in Seq(HostAddresses \X Tiles)
        /\ \A i \in 1 .. PastL3 : i <= Len(Reads') /\ delivered'[i][1] = Reads'[i].addr
    <3>1. CASE c = 0
      <4>1. PastL3 = InCache
        BY ONLY <1>2, <3>1
      <4> QED
        BY <1>3, <1>4, <2>1, <3>1, <4>1
    <3>2. CASE c = 1
      <4> DEFINE item == <<stage_2.instr.addr, stage_2.dat>>
      <4>1. item \in HostAddresses \X Tiles /\ item[1] = Reads'[InCache + 1].addr
            /\ delivered' = Append(delivered, item)
        BY <1>4, <2>1, <3>2
      <4> HIDE DEF item
      <4>2. /\ delivered' \in Seq(HostAddresses \X Tiles)
            /\ delivered'[InCache + 1] = item
            /\ \A i \in 1 .. InCache : delivered'[i] = delivered[i]
        BY <1>3, <4>1 DEF InCache
      <4>3. PastL3 = InCache + 1 /\ PastL3 <= Len(Reads')
            /\ \A i \in 1 .. PastL3 : i \in 1 .. InCache \/ i = InCache + 1
        BY ONLY <1>1, <1>2, <3>2
      <4> QED
        BY <1>4, <4>1, <4>2, <4>3
    <3> QED
      BY <1>2, <3>1, <3>2
  <2>3. stage_2'.instr.kind = "read" => stage_2'.instr.addr = Reads'[PastL3 + 1].addr
    <3>1. stage_2'.instr.kind = "read" => stage_1.kind = "read" /\ stage_2'.instr = stage_1
      BY <2>1 DEF NoInstr
    <3> QED
      BY <1>3, <1>4, <3>1
  <2>4. /\ stage_1'.kind = "read" => stage_1'.addr = Reads'[(PastL3 + d) + 1].addr
        /\ Waits(waiting', Reads', "read", (PastL3 + d) + OneRead(stage_1'.kind))
    <3> DEFINE lo == PastL3 + d
    <3>1. lo \in Nat /\ lo + 0 = lo /\ lo <= Len(Reads)
      BY <1>2
    <3>2. Waits(waiting, Reads, "read", lo)
      BY <1>3
    <3> HIDE DEF lo
    <3>3. CASE waiting' = waiting \o Pushing /\ stage_1' = NoInstr
      <4>1. stage_1'.kind # "read" /\ OneRead(stage_1'.kind) = 0
        BY <3>3 DEF NoInstr, OneRead
      <4>2. Waits(waiting', Reads', "read", lo)
        BY <1>1, <1>2, <3>2, <3>3
      <4> QED
        BY <3>1, <4>1, <4>2 DEF lo
    <3>4. CASE /\ waiting # << >> /\ stage_1' = Head(waiting) /\ Tail(waiting) \in Seq(CopyRec)
               /\ waiting' = Tail(waiting) \o Pushing
      <4>1. CASE Head(waiting).kind = "read"
        <5>1. lo + 1 <= Len(Reads) /\ Head(waiting) = Reads[lo + 1]
              /\ Waits(Tail(waiting), Reads, "read", lo + 1)
          BY <1>1, <1>2, <3>1, <3>2, <3>4, <4>1, WaitsHead
        <5>2. Waits(waiting', Reads', "read", lo + 1)
          BY <1>1, <3>4, <5>1
        <5>3. OneRead(stage_1'.kind) = 1
          BY <3>4, <4>1 DEF OneRead
        <5>4. Reads'[lo + 1] = Reads[lo + 1]
          <6>1. lo + 1 \in 1 .. Len(Reads)
            BY <1>2, <3>1, <5>1
          <6> QED
            BY <1>1, <6>1
        <5>5. stage_1'.addr = Reads'[lo + 1].addr
          BY <3>4, <5>1, <5>4
        <5> QED
          BY <5>2, <5>3, <5>5 DEF lo
      <4>2. CASE Head(waiting).kind # "read"
        <5>1. Waits(Tail(waiting), Reads, "read", lo)
          BY <1>1, <1>2, <3>1, <3>2, <3>4, <4>2, WaitsHead
        <5>2. Waits(waiting', Reads', "read", lo)
          BY <1>1, <3>4, <5>1
        <5>3. OneRead(stage_1'.kind) = 0 /\ stage_1'.kind # "read"
          BY <3>4, <4>2 DEF OneRead
        <5> QED
          BY <3>1, <5>2, <5>3 DEF lo
      <4> QED
        BY <4>1, <4>2
    <3> QED
      BY <1>6, <3>3, <3>4, IssueForm DEF Pushing
  <2>5. ReadsBehind'
    BY <2>1, <2>2, <2>3, <2>4 DEF ReadsBehind
  <2> QED
    BY <1>1, <2>5
<1> QED
  BY <1>5, <1>6

(* A read takes the first of the stored tiles, its own.                    *)
LEMMA StoredEdge ==
    ASSUME Ctl, Shape, NEW insert \in BOOLEAN, NEW issue \in BOOLEAN, Edge(insert, issue),
           ReadsBehind, NEW q \in Nat, Stored(q)
    PROVE  Stored(q)'
<1>1. Pipeline /\ answered' = answered /\ (L3_err' <=> L3_err)
  BY DEF Edge
<1> SUFFICES ASSUME ~ L3_err
             PROVE  /\ q = PastL3' + Len(L3Cache')
                    /\ \A i \in 1 .. InCache' : delivered'[i][2] = answered[i][2]
                    /\ stage_2'.instr.kind = "read" =>
                          stage_2'.dat = answered[InCache' + 1][2]
                    /\ \A i \in 1 .. Len(L3Cache') : L3Cache'[i] = answered[PastL3' + i][2]
  BY <1>1 DEF Stored
<1> DEFINE c == OneRead(stage_2.instr.kind)
           d == OneRead(stage_1.kind)
           n == Len(L3Cache)
<1>2. /\ InCache \in Nat /\ PastL3 \in Nat /\ c \in {0, 1} /\ d \in {0, 1}
      /\ PastL3 = InCache + c /\ delivered \in Seq(HostAddresses \X Tiles)
      /\ L3Cache \in Seq(Tiles) /\ n \in Nat
  BY ReadsFacts DEF Shape, Queued, PastL3, ReadsBehind
<1>3. /\ q = PastL3 + n
      /\ \A i \in 1 .. InCache : delivered[i][2] = answered[i][2]
      /\ c = 1 => stage_2.dat = answered[InCache + 1][2]
      /\ \A i \in 1 .. n : L3Cache[i] = answered[PastL3 + i][2]
      /\ stage_2.instr.kind = "read" <=> c = 1
      /\ stage_1.kind = "read" <=> d = 1
  BY DEF Stored, OneRead
<1>4. CASE freeze
  <2>1. stage_2' = stage_2 /\ L3Cache' = L3Cache /\ delivered' = delivered
    BY <1>1, <1>4, ReadsForm
  <2>2. InCache' = InCache /\ PastL3' = PastL3
    BY <2>1 DEF InCache, PastL3
  <2> QED
    BY <1>3, <2>1, <2>2
<1>5. CASE ~ freeze
  <2>1. /\ c = 1 =>
              /\ delivered' = Append(delivered, <<stage_2.instr.addr, stage_2.dat>>)
              /\ <<stage_2.instr.addr, stage_2.dat>> \in HostAddresses \X Tiles
        /\ c = 0 => delivered' = delivered
        /\ stage_2'.instr = IF stage_1.kind = "end" THEN NoInstr ELSE stage_1
        /\ d = 1 => L3Cache # << >> /\ L3Cache' = Tail(L3Cache) /\ stage_2'.dat = Head(L3Cache)
        /\ d = 0 => L3Cache' = L3Cache
        /\ InCache' = PastL3 /\ PastL3' = PastL3 + d
    BY <1>1, <1>2, <1>3, <1>5, ReadsForm
  <2> HIDE DEF c, d
  <2>2. \A i \in 1 .. PastL3 : delivered'[i][2] = answered[i][2]
    <3>1. CASE c = 0
      <4>1. PastL3 = InCache
        BY ONLY <1>2, <3>1
      <4> QED
        BY <1>3, <2>1, <3>1, <4>1
    <3>2. CASE c = 1
      <4> DEFINE item == <<stage_2.instr.addr, stage_2.dat>>
      <4>1. item \in HostAddresses \X Tiles /\ item[2] = answered[InCache + 1][2]
            /\ delivered' = Append(delivered, item)
        BY <1>3, <2>1, <3>2
      <4> HIDE DEF item
      <4>2. /\ delivered'[InCache + 1] = item
            /\ \A i \in 1 .. InCache : delivered'[i] = delivered[i]
        BY <1>2, <4>1 DEF InCache
      <4>3. \A i \in 1 .. PastL3 : i \in 1 .. InCache \/ i = InCache + 1
        BY ONLY <1>2, <3>2
      <4> QED
        BY <1>3, <4>1, <4>2, <4>3
    <3> QED
      BY <1>2, <3>1, <3>2
  <2>3. CASE d = 0
    <3>1. L3Cache' = L3Cache /\ PastL3' = PastL3 /\ stage_2'.instr.kind # "read"
      <4>1. PastL3 + d = PastL3
        BY ONLY <1>2, <2>3
      <4>2. stage_2'.instr.kind # "read"
        BY <1>3, <2>1, <2>3 DEF NoInstr
      <4> QED
        BY <2>1, <2>3, <4>1, <4>2
    <3> QED
      BY <1>3, <2>1, <2>2, <3>1
  <2>4. CASE d = 1
    <3>1. L3Cache # << >> /\ L3Cache' = Tail(L3Cache) /\ stage_2'.dat = Head(L3Cache)
          /\ PastL3' = PastL3 + 1
      BY <2>1, <2>4
    <3>2. /\ n \in Nat \ {0} /\ Len(L3Cache') = n - 1 /\ Head(L3Cache) = L3Cache[1]
          /\ \A i \in 1 .. n - 1 : L3Cache'[i] = L3Cache[i + 1]
      BY <1>2, <3>1
    <3> HIDE DEF n
    <3>3. q = (PastL3 + 1) + (n - 1) /\ 1 \in 1 .. n
      BY <1>2, <1>3, <3>2
    <3>4. stage_2'.dat = answered[PastL3 + 1][2]
      BY <1>3, <3>1, <3>2, <3>3
    <3>5. ASSUME NEW i \in 1 .. n - 1 PROVE L3Cache'[i] = answered[(PastL3 + 1) + i][2]
      <4>1. i + 1 \in 1 .. n /\ PastL3 + (i + 1) = (PastL3 + 1) + i
        BY ONLY <1>2, <3>2
      <4> QED
        BY <1>3, <3>2, <4>1
    <3> QED
      BY <2>1, <2>2, <3>1, <3>2, <3>3, <3>4, <3>5
  <2> QED
    BY <1>2, <2>3, <2>4
<1> QED
  BY <1>4, <1>5

(* The way back: the receiver is in the upload, the start or an answer,    *)
(* and the tiles of the answers that have arrived wait for their reads.    *)
Returning ==
    /\ ReadsBehind
    /\ control = "idle" => Reads = << >>
    /\ \E m \in Nat : Stored(m) /\ ((m = 0 /\ Loading) \/ Arriving(m))

(* Nothing has been read yet when the core starts.                         *)
LEMMA ReturningInit == Init => Returning
<1> SUFFICES ASSUME Init PROVE Returning
  OBVIOUS
<1>1. /\ Reads = << >> /\ waiting = << >> /\ delivered = << >> /\ L3Cache = << >>
      /\ stage_1.kind = "none" /\ stage_2.instr.kind = "none"
  BY DEF Init, Reads, Kinds, NoInstr, NoDat
<1>2. InCache = 0 /\ OneRead(stage_1.kind) = 0 /\ PastL3 = 0 /\ Len(L3Cache) = 0
  BY <1>1 DEF InCache, PastL3, OneRead
<1>3. ReadsBehind
  <2>1. << >> \in Seq(CopyRec) /\ Len(<< >>) = 0 /\ 0 + 0 = 0
    OBVIOUS
  <2>2. Waits(<< >>, << >>, "read", 0)
    BY <2>1, WaitsEmpty
  <2>3. Waits(waiting, Reads, "read", PastL3 + OneRead(stage_1.kind))
    BY <1>1, <1>2, <2>1, <2>2
  <2>4. delivered \in Seq(HostAddresses \X Tiles) /\ \A i \in 1 .. 0 : FALSE
    BY <1>1
  <2> QED
    BY <1>1, <1>2, <2>3, <2>4 DEF ReadsBehind
<1>4. Stored(0)
  <2>1. \A i \in 1 .. 0 : FALSE
    OBVIOUS
  <2>2. 0 = PastL3 + Len(L3Cache)
    BY <1>2
  <2> QED
    BY <1>1, <1>2, <2>1, <2>2 DEF Stored
<1>5. 0 \in Nat
  OBVIOUS
<1> QED
  BY <1>1, <1>3, <1>4, <1>5, LoadingInit DEF Returning

(* A receiver that does not move stays where it is.                        *)
LEMMA UptoStays ==
    ASSUME NEW k \in Nat, Upto(k), program' = program, receiver' = receiver, icache' = icache
    PROVE  Upto(k)'
<1>1. Text' = Text
  BY DEF Text
<1>2. \A j : Held(j) => Held(j)'
  BY <1>1 DEF Held
<1>3. \A c : Uploading(c) => Uploading(c)'
  BY <1>1 DEF Uploading
<1>4. BeforeUpload(k) => BeforeUpload(k)'
  BY <1>2 DEF BeforeUpload
<1>5. InLength(k) => InLength(k)'
  BY <1>2, <1>3 DEF InLength
<1>6. InAddress(k) => InAddress(k)'
  BY <1>2, <1>3 DEF InAddress
<1>7. ASSUME NEW j \in 0 .. Len(Text) - 1, BeforeInstr(k, j) PROVE BeforeInstr(k, j)'
  BY <1>2, <1>3, <1>7 DEF BeforeInstr
<1>8. ASSUME NEW j \in 0 .. Len(Text) - 1, InInstr(k, j) PROVE InInstr(k, j)'
  BY <1>1, <1>2, <1>3, <1>8 DEF InInstr
<1>9. BeforeStart(k) => BeforeStart(k)'
  <2>1. Held(Len(Text)) => Held(Len(Text))'
    BY <1>1 DEF Held
  <2> QED
    BY <1>1, <2>1 DEF BeforeStart
<1>10. ASSUME NEW c \in 0 .. 4, InStart(k, c) PROVE InStart(k, c)'
  <2>1. Held(Len(Text)) => Held(Len(Text))'
    BY <1>1 DEF Held
  <2> QED
    BY <1>1, <1>10, <2>1 DEF InStart, Filled
<1> QED
  BY <1>1, <1>4, <1>5, <1>6, <1>7, <1>8, <1>9, <1>10 DEF Upto

(* An edge of the core starts the program or runs it; the wires and the    *)
(* receiver do not move.                                                   *)
LEMMA ReturningEdge ==
    ASSUME Ctl, Shape, Returning, NEW insert \in BOOLEAN, NEW issue \in BOOLEAN,
           Edge(insert, issue)
    PROVE  Returning'
<1>1. /\ Control(insert)
      /\ program' = program /\ rx' = rx /\ receiver' = receiver /\ icache' = icache
      /\ answered' = answered
  BY DEF Edge
<1>2. /\ ReadsBehind /\ (control = "idle" => Reads = << >>)
  BY DEF Returning
<1>3. PICK m \in Nat : Stored(m) /\ ((m = 0 /\ Loading) \/ Arriving(m))
  BY DEF Returning
<1>4. ReadsBehind' /\ Stored(m)'
  BY <1>2, <1>3, ReadsEdge, StoredEdge
<1>5. control' = "idle" => Reads' = << >>
  <2>1. control' = "idle" => control = "idle"
    BY <1>1 DEF Ctl, Controlled, Control
  <2>2. control = "idle" => pushed' = pushed
    BY <1>1 DEF Control
  <2> QED
    BY <1>2, <2>1, <2>2 DEF Reads
<1>6. Text' = Text /\ UploadBytes' = UploadBytes
  BY <1>1 DEF Text, UploadBytes
<1>7. \A j : Held(j) => Held(j)'
  BY <1>1, <1>6 DEF Held
<1>8. CASE m = 0 /\ Loading
  <2>1. control' = "idle" /\ execution_queue' = << >>
    BY <1>1, <1>8 DEF Loading, Control
  <2>2. PICK k \in Nat : Unread(k) /\ Upto(k)
    BY <1>8 DEF Loading
  <2>3. Unread(k)'
    BY <1>1, <1>6, <2>2 DEF Unread
  <2>4. Upto(k)'
    BY <1>1, <2>2, UptoStays
  <2>5. Loading'
    BY <1>1, <1>8, <2>1, <2>3, <2>4 DEF Loading
  <2> QED
    BY <1>4, <1>5, <1>8, <2>5 DEF Returning
<1>9. CASE Arriving(m)
  <2>1. execution_queue' \in {<< >>, <<Tail(StartPacket(program))>>}
    <3>1. execution_queue \in {<< >>, <<Tail(StartPacket(program))>>}
      BY <1>9 DEF Arriving
    <3>2. \A x : Tail(<<x>>) = << >>
      OBVIOUS
    <3>3. \/ execution_queue' = execution_queue
          \/ execution_queue # << >> /\ execution_queue' = Tail(execution_queue)
      BY <1>1 DEF Control
    <3> QED
      BY <3>1, <3>2, <3>3
  <2>2. Taken' = Taken /\ Held(Len(Text))'
    BY <1>1, <1>6, <1>9 DEF Taken, Arriving, Held
  <2>3. Carried(At(m + 1) + Taken)'
    BY <1>1, <1>9, <2>2 DEF Arriving, Carried, AnswerByte, At
  <2>4. Arriving(m)'
    BY <1>1, <1>6, <1>9, <2>1, <2>2, <2>3 DEF Arriving, Filled
  <2> QED
    BY <1>4, <1>5, <2>4 DEF Returning
<1> QED
  BY <1>3, <1>8, <1>9

(* Where neither the core, the wire to the receiver nor the receiver       *)
(* moves, nothing changes for the reads.                                   *)
LEMMA ReturningStays ==
    ASSUME Returning,
           UNCHANGED <<program, control_vars, pipeline_vars, L3Cache, rx, receiver, icache,
                       execution_queue, answered, delivered>>,
           L3_err' <=> L3_err
    PROVE  Returning'
<1>1. /\ program' = program /\ control' = control /\ waiting' = waiting /\ pushed' = pushed
      /\ stage_1' = stage_1 /\ stage_2' = stage_2 /\ L3Cache' = L3Cache /\ rx' = rx
      /\ receiver' = receiver /\ icache' = icache /\ execution_queue' = execution_queue
      /\ answered' = answered /\ delivered' = delivered
  BY DEF control_vars, pipeline_vars
<1>2. PICK m \in Nat : Stored(m) /\ ((m = 0 /\ Loading) \/ Arriving(m))
  BY DEF Returning
<1>3. Reads' = Reads /\ Text' = Text /\ UploadBytes' = UploadBytes
  BY <1>1 DEF Reads, Text, UploadBytes
<1>4. InCache' = InCache /\ PastL3' = PastL3 /\ Taken' = Taken
  BY <1>1 DEF InCache, PastL3, Taken
<1>5. ReadsBehind' /\ (control' = "idle" => Reads' = << >>)
  BY <1>1, <1>3, <1>4 DEF Returning, ReadsBehind
<1>6. Stored(m)'
  BY <1>1, <1>2, <1>4 DEF Stored
<1>7. CASE m = 0 /\ Loading
  <2>1. PICK k \in Nat : Unread(k) /\ Upto(k)
    BY <1>7 DEF Loading
  <2>2. Unread(k)'
    BY <1>1, <1>3, <2>1 DEF Unread
  <2>3. Upto(k)'
    BY <1>1, <2>1, UptoStays
  <2>4. Loading'
    BY <1>1, <1>7, <2>2, <2>3 DEF Loading
  <2> QED
    BY <1>5, <1>6, <1>7, <2>4 DEF Returning
<1>8. CASE Arriving(m)
  <2>1. Held(Len(Text))'
    BY <1>1, <1>3, <1>8 DEF Arriving, Held
  <2>2. Carried(At(m + 1) + Taken)'
    BY <1>1, <1>4, <1>8 DEF Arriving, Carried, AnswerByte, At
  <2>3. Arriving(m)'
    BY <1>1, <1>3, <1>8, <2>1, <2>2 DEF Arriving, Filled
  <2> QED
    BY <1>5, <1>6, <2>3 DEF Returning
<1> QED
  BY <1>2, <1>7, <1>8

(* The host answers once the program runs, behind the answers on the wire. *)
LEMMA ReturningAnswer ==
    ASSUME Path, Path', Returning, HostStep, AnswerRead
    PROVE  Returning'
<1>1. /\ program' = program /\ control' = control /\ waiting' = waiting /\ pushed' = pushed
      /\ stage_1' = stage_1 /\ stage_2' = stage_2 /\ L3Cache' = L3Cache
      /\ receiver' = receiver /\ icache' = icache /\ execution_queue' = execution_queue
      /\ delivered' = delivered /\ (L3_err' <=> L3_err)
  BY DEF HostStep, control_vars, pipeline_vars
<1> DEFINE item == <<HostAddr, pinned_mem[HostAddr]>>
<1>2. answered' = Append(answered, item) /\ rx' = rx \o << 3 >> \o item[2]
  BY DEF AnswerRead
<1>3. /\ answered \in Seq(HostAddresses \X Tiles) /\ answered' \in Seq(HostAddresses \X Tiles)
      /\ \A i \in 1 .. Len(answered') : i <= Len(Reads')
  BY DEF Path, Done
<1> HIDE DEF item
<1>4. /\ Len(answered) \in Nat /\ Len(answered') = Len(answered) + 1
      /\ answered'[Len(answered) + 1] = item
      /\ \A i \in 1 .. Len(answered) : answered'[i] = answered[i]
  BY <1>2, <1>3
<1>5. item \in HostAddresses \X Tiles
  <2>1. Len(answered) + 1 \in 1 .. Len(answered')
    BY <1>4
  <2> QED
    BY <1>3, <1>4, <2>1
<1>6. rx \in Seq(Bytes) /\ Shape
  BY DEF Path, Shape, Received
<1>7. Reads' = Reads /\ Text' = Text /\ InCache' = InCache /\ PastL3' = PastL3 /\ Taken' = Taken
  BY <1>1 DEF Reads, Text, InCache, PastL3, Taken
<1>8. PICK m \in Nat : Stored(m) /\ ((m = 0 /\ Loading) \/ Arriving(m))
  BY DEF Returning
<1>9. ReadsBehind' /\ (control' = "idle" => Reads' = << >>)
  BY <1>1, <1>7 DEF Returning, ReadsBehind
<1>10. ~ Loading
  <2> SUFFICES ASSUME Loading PROVE FALSE
    OBVIOUS
  <2>1. Reads' = << >> /\ Len(<< >>) = 0
    BY <1>7 DEF Loading, Returning
  <2>2. Len(answered') \in 1 .. Len(answered') /\ Len(answered') >= 1
    BY <1>4
  <2> QED
    BY <1>3, <2>1, <2>2
<1>11. Arriving(m) /\ Stored(m)
  BY <1>8, <1>10
<1>12. m <= Len(answered)
  BY <1>11 DEF Arriving
<1>13. Stored(m)'
  <2> SUFFICES ASSUME ~ L3_err
               PROVE  /\ m = PastL3 + Len(L3Cache)
                      /\ \A i \in 1 .. InCache : delivered[i][2] = answered'[i][2]
                      /\ stage_2.instr.kind = "read" => stage_2.dat = answered'[InCache + 1][2]
                      /\ \A i \in 1 .. Len(L3Cache) : L3Cache[i] = answered'[PastL3 + i][2]
    BY <1>1, <1>7 DEF Stored
  <2>1. /\ InCache \in Nat /\ PastL3 \in Nat /\ Len(L3Cache) \in Nat
        /\ OneRead(stage_2.instr.kind) \in {0, 1}
        /\ PastL3 = InCache + OneRead(stage_2.instr.kind)
        /\ (stage_2.instr.kind = "read" => OneRead(stage_2.instr.kind) = 1)
    BY <1>6, ReadsFacts DEF Returning, Shape, Queued, PastL3, OneRead
  <2>2. /\ m = PastL3 + Len(L3Cache)
        /\ \A i \in 1 .. InCache : delivered[i][2] = answered[i][2]
        /\ stage_2.instr.kind = "read" => stage_2.dat = answered[InCache + 1][2]
        /\ \A i \in 1 .. Len(L3Cache) : L3Cache[i] = answered[PastL3 + i][2]
    BY <1>11 DEF Stored
  <2> DEFINE e == PastL3
             n == Len(L3Cache)
             d == InCache
             c == OneRead(stage_2.instr.kind)
             a == Len(answered)
  <2>3. /\ d \in Nat /\ e \in Nat /\ n \in Nat /\ c \in {0, 1} /\ e = d + c /\ m = e + n
        /\ a \in Nat /\ m <= a
    BY <1>4, <1>12, <2>1, <2>2
  <2> HIDE DEF d, e, n, c, a
  <2>4. /\ \A i \in 1 .. d : i \in 1 .. a
        /\ c = 1 => d + 1 \in 1 .. a
        /\ \A i \in 1 .. n : e + i \in 1 .. a
    BY ONLY <2>3
  <2>5. /\ \A i \in 1 .. d : answered'[i] = answered[i]
        /\ c = 1 => answered'[d + 1] = answered[d + 1]
        /\ \A i \in 1 .. n : answered'[e + i] = answered[e + i]
    BY <1>4, <2>4 DEF a
  <2>6. \A i \in 1 .. InCache : delivered[i][2] = answered'[i][2]
    BY <2>2, <2>5 DEF d
  <2>7. stage_2.instr.kind = "read" => stage_2.dat = answered'[InCache + 1][2]
    BY <2>1, <2>2, <2>5 DEF c, d
  <2>8. \A i \in 1 .. Len(L3Cache) : L3Cache[i] = answered'[PastL3 + i][2]
    BY <2>2, <2>5 DEF e, n
  <2> QED
    BY <2>2, <2>6, <2>7, <2>8
<1>14. Arriving(m)'
  <2>1. /\ receiver.S \in {"IDLE", "DATA_READ_RESULT_PACKET"} /\ Held(Len(Text))
        /\ execution_queue \in {<< >>, <<Tail(StartPacket(program))>>}
        /\ Carried(At(m + 1) + Taken)
        /\ receiver.S = "DATA_READ_RESULT_PACKET" =>
              /\ m < Len(answered) /\ receiver.counter < BODY_BYTES
              /\ Filled(receiver.tile, BODY_BYTES, receiver.counter, answered[m + 1][2], 0)
    BY <1>11 DEF Arriving
  <2>2. PICK t \in Int : t = At(m + 1) + Taken
    <3>1. At(m + 1) \in Int
      <4>1. m + 1 \in Nat
        OBVIOUS
      <4> QED
        BY <4>1, AtFacts
    <3>2. Taken \in Int
      <4>1. receiver.counter \in Nat
        BY <1>6 DEF Shape, Received, ReceiverRec
      <4> QED
        BY <4>1 DEF Taken
    <3> QED
      BY <3>1, <3>2
  <2>3. Carried(t)
    BY <2>1, <2>2 DEF Carried
  <2>4. \E other \in HostAddresses \X Tiles :
           answered' = Append(answered, other) /\ rx' = rx \o << 3 >> \o other[2]
    BY <1>2, <1>5
  <2>5. PICK other \in HostAddresses \X Tiles :
           answered' = Append(answered, other) /\ rx' = rx \o << 3 >> \o other[2]
    BY <2>4
  <2>6. Carried(t)'
    BY <1>3, <1>6, <2>3, <2>5, CarriedMore
  <2>7. (At(m + 1) + Taken)' = t
    BY <1>7, <2>2 DEF At
  <2>8. Carried(At(m + 1) + Taken)'
    BY <2>6, <2>7 DEF Carried
  <2>9. Held(Len(Text))'
    BY <1>1, <1>7, <2>1 DEF Held
  <2>10. m <= Len(answered') /\ (m < Len(answered) => m < Len(answered') /\ m + 1 \in 1 .. Len(answered))
    BY <1>4, <1>12
  <2>11. receiver.S = "DATA_READ_RESULT_PACKET" => answered'[m + 1] = answered[m + 1]
    BY <1>4, <2>1, <2>10
  <2> QED
    BY <1>1, <2>1, <2>8, <2>9, <2>10, <2>11 DEF Arriving
<1> QED
  BY <1>9, <1>13, <1>14 DEF Returning

(* From the last byte of the start command on, answers may arrive.         *)
LEMMA LoadedArriving == Loaded => Arriving(0)
<1> SUFFICES ASSUME Loaded PROVE Arriving(0)
  OBVIOUS
<1>1. /\ answered = << >> /\ rx = << >> /\ receiver.S = "IDLE"
      /\ Held(Len(Text)) /\ execution_queue = <<Tail(StartPacket(program))>>
  BY DEF Loaded
<1>2. Len(answered) = 0 /\ Len(rx) = 0
  BY <1>1
<1>3. Taken = 0 /\ At(0 + 1) + Taken = 0
  BY <1>1, AtFacts DEF Taken
<1>4. Carried(At(0 + 1) + Taken)
  <2>1. \A k \in 1 .. 0 : FALSE
    OBVIOUS
  <2>2. Len(rx) + 0 = At(Len(answered) + 1)
    BY <1>2, AtFacts
  <2> QED
    BY <1>2, <1>3, <2>1, <2>2 DEF Carried
<1> QED
  BY <1>1, <1>2, <1>4 DEF Arriving

(* A byte at the receiver brings an instruction, the start or a tile; the  *)
(* tile goes behind the others in the L3 cache.                            *)
LEMMA ReturningReceive ==
    ASSUME Path, Returning, ReceiveByte
    PROVE  Returning'
<1>1. Shape /\ program \in Programs /\ answered \in Seq(HostAddresses \X Tiles)
  BY DEF Path, Ctl, Controlled, Done
<1>2. /\ program' = program /\ control' = control /\ waiting' = waiting /\ pushed' = pushed
      /\ stage_1' = stage_1 /\ stage_2' = stage_2
      /\ answered' = answered /\ delivered' = delivered
  BY DEF ReceiveByte, control_vars, pipeline_vars
<1>3. Reads' = Reads /\ InCache' = InCache /\ PastL3' = PastL3
  BY <1>2 DEF Reads, InCache, PastL3
<1>4. PICK m \in Nat : Stored(m) /\ ((m = 0 /\ Loading) \/ Arriving(m))
  BY DEF Returning
<1>5. ReadsBehind' /\ (control' = "idle" => Reads' = << >>)
  BY <1>2, <1>3 DEF Returning, ReadsBehind
<1>6. ASSUME L3Cache' = L3Cache, L3_err' <=> L3_err PROVE Stored(m)'
  BY <1>2, <1>3, <1>4, <1>6 DEF Stored
<1>7. CASE m = 0 /\ Loading
  <2>1. (Loading' \/ Loaded') /\ L3Cache' = L3Cache /\ (L3_err' <=> L3_err)
    BY <1>1, <1>7, LoadingReceive
  <2>2. Loaded' => Arriving(0)'
    BY LoadedArriving, PTL
  <2> QED
    BY <1>5, <1>6, <1>7, <2>1, <2>2 DEF Returning
<1>8. CASE Arriving(m)
  <2>1. CASE Arriving(m)' /\ L3Cache' = L3Cache /\ (L3_err' <=> L3_err)
    BY <1>5, <1>6, <2>1 DEF Returning
  <2>2. CASE /\ m < Len(answered) /\ Arriving(m + 1)'
             /\ L3_err' \/ (L3Cache' = Append(L3Cache, answered[m + 1][2])
                            /\ (L3_err' <=> L3_err))
    <3>1. Stored(m + 1)'
      <4> SUFFICES ASSUME ~ L3_err'
                   PROVE  /\ m + 1 = PastL3 + Len(L3Cache')
                          /\ \A i \in 1 .. InCache : delivered[i][2] = answered[i][2]
                          /\ stage_2.instr.kind = "read" => stage_2.dat = answered[InCache + 1][2]
                          /\ \A i \in 1 .. Len(L3Cache') : L3Cache'[i] = answered[PastL3 + i][2]
        BY <1>2, <1>3 DEF Stored
      <4>1. L3Cache' = Append(L3Cache, answered[m + 1][2]) /\ ~ L3_err
        BY <2>2
      <4>2. /\ m = PastL3 + Len(L3Cache)
            /\ \A i \in 1 .. InCache : delivered[i][2] = answered[i][2]
            /\ stage_2.instr.kind = "read" => stage_2.dat = answered[InCache + 1][2]
            /\ \A i \in 1 .. Len(L3Cache) : L3Cache[i] = answered[PastL3 + i][2]
        BY <1>4, <4>1 DEF Stored
      <4> DEFINE n == Len(L3Cache)
                 tile == answered[m + 1][2]
      <4>3. L3Cache \in Seq(Tiles) /\ n \in Nat /\ PastL3 \in Nat
        BY <1>1, ReadsFacts DEF Shape, Queued, Returning
      <4>4. tile \in Tiles
        <5>1. m + 1 \in 1 .. Len(answered)
          BY <1>1, <2>2
        <5>2. answered[m + 1] \in HostAddresses \X Tiles
          BY <1>1, <5>1
        <5> QED
          BY <5>2
      <4>5. L3Cache' = Append(L3Cache, tile)
        BY <4>1
      <4> HIDE DEF tile
      <4>6. /\ Len(L3Cache') = n + 1 /\ L3Cache'[n + 1] = tile
            /\ \A i \in 1 .. n : L3Cache'[i] = L3Cache[i]
        BY <4>3, <4>4, <4>5
      <4>7. m = PastL3 + n
        BY <4>2
      <4> HIDE DEF n
      <4>8. m + 1 = PastL3 + (n + 1) /\ \A i \in 1 .. n + 1 : i \in 1 .. n \/ i = n + 1
        BY ONLY <4>3, <4>7
      <4>9. L3Cache'[n + 1] = answered[PastL3 + (n + 1)][2]
        BY <4>6, <4>8 DEF tile
      <4> QED
        BY <4>2, <4>6, <4>8, <4>9 DEF n
    <3>2. m + 1 \in Nat
      OBVIOUS
    <3> QED
      BY <1>5, <2>2, <3>1, <3>2 DEF Returning
  <2> QED
    BY <1>1, <1>8, <2>1, <2>2, ArrivingReceive
<1> QED
  BY <1>4, <1>7, <1>8

(* The way back keeps its invariant.                                       *)
LEMMA ReturningInvariant == Spec => [](Path /\ Returning)
<1>1. Path /\ Path' /\ Returning /\ [Next]_vars => Returning'
  <2> SUFFICES ASSUME Path, Path', Returning, [Next]_vars PROVE Returning'
    OBVIOUS
  <2>1. Ctl /\ Shape
    BY DEF Path
  <2>2. ASSUME NEW insert \in BOOLEAN, NEW issue \in BOOLEAN, Edge(insert, issue)
        PROVE  Returning'
    BY <2>1, <2>2, ReturningEdge
  <2>3. CASE Sender
    <3>1. UNCHANGED <<program, control_vars, pipeline_vars, L3Cache, rx, receiver, icache,
                      execution_queue, answered, delivered>> /\ (L3_err' <=> L3_err)
      BY <2>3 DEF Sender, Arbitrate, SendHeader, SendByte
    <3> QED
      BY <3>1, ReturningStays
  <2>4. CASE HostStep
    <3>1. CASE AnswerRead
      BY <2>4, <3>1, ReturningAnswer
    <3>2. CASE ~ AnswerRead
      <4>1. UNCHANGED <<program, control_vars, pipeline_vars, L3Cache, rx, receiver, icache,
                        execution_queue, answered, delivered>> /\ (L3_err' <=> L3_err)
        BY <2>4, <3>2 DEF HostStep, DoWrite, ProgramComplete
      <4> QED
        BY <4>1, ReturningStays
    <3> QED
      BY <3>1, <3>2
  <2>5. CASE ReceiveByte
    BY <2>5, ReturningReceive
  <2>6. CASE UNCHANGED vars
    <3>1. UNCHANGED <<program, control_vars, pipeline_vars, L3Cache, rx, receiver, icache,
                      execution_queue, answered, delivered>> /\ (L3_err' <=> L3_err)
      BY <2>6 DEF vars
    <3> QED
      BY <3>1, ReturningStays
  <2> QED
    BY <2>2, <2>3, <2>4, <2>5, <2>6 DEF Next
<1> QED
  BY <1>1, PathInvariant, ReturningInit, PTL DEF Spec

(* Requests, answers and reads are paired by nothing but their order: as   *)
(* long as the L3 cache has lost no tile, the n-th read of the program     *)
(* gets the tile the host held at its address when it answered             *)
(* (prefetch_initiate_superscalar_fifo.sv, PacketSender.sv:51-112,         *)
(* cherrysim.py, PacketReceiver.sv:20-119, top.sv:150-214).                *)
THEOREM ReadsInTheirOrder == Spec => []ReadsGetTheirTile
<1>1. Path /\ Returning => ReadsGetTheirTile
  <2> SUFFICES ASSUME Path, Returning, ~ L3_err, NEW n \in DOMAIN delivered
               PROVE  /\ n \in DOMAIN answered /\ n \in DOMAIN Reads
                      /\ delivered[n] = answered[n] /\ delivered[n][1] = Reads[n].addr
    BY DEF ReadsGetTheirTile
  <2>1. /\ answered \in Seq(HostAddresses \X Tiles) /\ Shape
        /\ \A i \in 1 .. Len(answered) : answered[i][1] = Reads[i].addr
    BY DEF Path, Done
  <2>2. /\ delivered \in Seq(HostAddresses \X Tiles)
        /\ \A i \in 1 .. InCache : i <= Len(Reads) /\ delivered[i][1] = Reads[i].addr
        /\ InCache = Len(delivered) /\ ReadsBehind
    BY DEF Returning, ReadsBehind, InCache
  <2>3. /\ Reads \in Seq(CopyRec) /\ Len(L3Cache) \in Nat
        /\ OneRead(stage_2.instr.kind) \in {0, 1}
        /\ PastL3 = InCache + OneRead(stage_2.instr.kind)
    BY <2>1, <2>2, ReadsFacts DEF PastL3, Shape, Queued
  <2>4. PICK m \in Nat : Stored(m) /\ ((m = 0 /\ Loading) \/ Arriving(m))
    BY DEF Returning
  <2>5. m = PastL3 + Len(L3Cache) /\ \A i \in 1 .. InCache : delivered[i][2] = answered[i][2]
    BY <2>4 DEF Stored
  <2>6. m <= Len(answered)
    <3>1. m = 0 => m <= Len(answered)
      BY <2>1
    <3> QED
      BY <2>4, <3>1 DEF Arriving
  <2>7. n \in 1 .. InCache
    BY <2>2
  <2>8. n \in 1 .. Len(answered)
    <3> DEFINE d == InCache
               e == PastL3
               c == OneRead(stage_2.instr.kind)
               k == Len(L3Cache)
               a == Len(answered)
    <3>1. /\ d \in Nat /\ c \in {0, 1} /\ e = d + c /\ k \in Nat /\ m = e + k /\ a \in Nat
          /\ m <= a /\ n \in 1 .. d
      BY <2>1, <2>2, <2>3, <2>5, <2>6, <2>7
    <3> HIDE DEF d, e, c, k, a
    <3>2. n \in 1 .. a
      BY ONLY <3>1
    <3> QED
      BY <3>2 DEF a
  <2>9. n \in DOMAIN answered /\ n \in DOMAIN Reads
    <3>1. n <= Len(Reads)
      BY <2>2, <2>7
    <3> QED
      BY <2>1, <2>3, <2>7, <2>8, <3>1
  <2>10. delivered[n][1] = answered[n][1] /\ delivered[n][2] = answered[n][2]
    BY <2>1, <2>2, <2>5, <2>7, <2>8
  <2>11. delivered[n] \in HostAddresses \X Tiles /\ answered[n] \in HostAddresses \X Tiles
    BY <2>1, <2>2, <2>7, <2>8
  <2>12. delivered[n] = answered[n]
    BY <2>10, <2>11
  <2> QED
    BY <2>2, <2>7, <2>9, <2>12
<1> QED
  BY <1>1, ReturningInvariant, PTL

(* Whatever the length and the address of a program, the receiver's "one   *)
(* back, then one on" address and its 2-byte counting put each instruction *)
(* at its own address and nothing elsewhere before the command that starts *)
(* it is queued (PacketReceiver.sv:37-90, cherrysim.py:54-66).             *)
THEOREM ProgramInPlace == Spec => []ProgramAsUploaded
<1>1. Path /\ Returning => ProgramAsUploaded
  <2> SUFFICES ASSUME Path, Returning, execution_queue # << >>
               PROVE  /\ Head(execution_queue) = Tail(StartPacket(program))
                      /\ icache = [a \in {program.start + i - 1 : i \in DOMAIN program.code} |->
                                     program.code[a - program.start + 1]]
    BY DEF ProgramAsUploaded
  <2>1. PICK m \in Nat : Arriving(m)
    <3>1. ~ Loading
      BY DEF Loading
    <3> QED
      BY <3>1 DEF Returning
  <2>2. Held(Len(Text)) /\ execution_queue = <<Tail(StartPacket(program))>>
    BY <2>1 DEF Arriving
  <2>3. Head(execution_queue) = Tail(StartPacket(program))
    BY <2>2
  <2> DEFINE p == program.start
             L == Len(Text)
             D == {p + i - 1 : i \in 1 .. L}
  <2>4. Text = program.code /\ p \in Nat /\ L \in Nat /\ Text \in Seq(Words)
    BY TextTypes DEF Text, Path, Ctl, Controlled
  <2>5. DOMAIN program.code = 1 .. L
    BY <2>4
  <2>6. /\ DOMAIN icache = D /\ icache = [a \in D |-> icache[a]]
        /\ \A i \in 1 .. L : icache[p + i - 1] = Text[i]
    BY <2>2 DEF Held
  <2>7. ASSUME NEW a \in D PROVE icache[a] = Text[a - p + 1]
    <3>1. PICK i \in 1 .. L : a = p + i - 1
      OBVIOUS
    <3> HIDE DEF D, L, p
    <3>2. a - p + 1 = i
      BY ONLY <2>4, <3>1
    <3> QED
      BY <2>6, <3>1, <3>2
  <2> HIDE DEF D, L
  <2>8. icache = [a \in D |-> Text[a - p + 1]]
    BY <2>6, <2>7
  <2> QED
    BY <2>3, <2>4, <2>5, <2>8 DEF D
<1> QED
  BY <1>1, ReturningInvariant, PTL
=============================================================================
