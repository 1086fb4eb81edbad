--------------------------- MODULE SmplFifoProofs ---------------------------
(***************************************************************************)
(* Proofs about smplfifo.v for a memory of any size and any data.          *)
(*                                                                         *)
(* FlagsExact and TypeOK together are inductive; HeadOnOutput needs them   *)
(* (the output register is right because the flags were right at the edge  *)
(* that filled it).  The refinement of BoundedFifo follows from the three. *)
(***************************************************************************)
EXTENDS SmplFifo, SequenceTheorems, TLAPS

USE FifoAssumption DEF FifoAssumption

-----------------------------------------------------------------------------
(* Every initial state and every edge keeps the registers in their widths. *)
LEMMA TypeInit == Init => TypeOK
<1> SUFFICES ASSUME Init PROVE TypeOK
  OBVIOUS
<1>1. fifo \in [Slots -> Words] /\ osrc \in 0 .. 3
      /\ fifo_here \in Words /\ fifo_next \in Words /\ r_data \in Words
  BY DEF Init, Words
<1>2. r_first \in Slots /\ r_last \in Slots /\ r_next \in Slots /\ r_fill \in Slots
  BY DEF Init, Slots
<1>3. will_overflow \in BOOLEAN /\ will_underflow \in BOOLEAN
      /\ r_ovfl \in BOOLEAN /\ r_empty_n \in BOOLEAN
  BY DEF Init
<1>4. sampled \in Ports \cup {NoPorts} /\ edge \in BOOLEAN
  BY DEF Init
<1> QED
  BY <1>1, <1>2, <1>3, <1>4 DEF TypeOK

LEMMA TypeStep == TypeOK /\ [Next]_vars => TypeOK'
<1> SUFFICES ASSUME TypeOK, [Next]_vars PROVE TypeOK'
  OBVIOUS
<1>1. ASSUME NEW i_wr \in BOOLEAN, NEW i_rd \in BOOLEAN, NEW i_data \in Data,
             Run(i_wr, i_rd, i_data)
      PROVE  TypeOK'
  <2>1. fifo' \in [Slots -> Words]
    BY <1>1 DEF TypeOK, Run, WriteMemory, Words
  <2>2. fifo_here' \in Words /\ fifo_next' \in Words /\ r_data' \in Words
        /\ osrc' \in 0 .. 3
    BY <1>1 DEF TypeOK, Run, SelectOutput, Words
  <2>3. r_first' \in Slots /\ r_ovfl' \in BOOLEAN
    BY <1>1 DEF TypeOK, Run, WritePointer, Slots, Inc
  <2>4. r_last' \in Slots /\ r_next' \in Slots
    BY <1>1 DEF TypeOK, Run, ReadPointer, Slots, Inc
  <2>5. will_overflow' \in BOOLEAN /\ will_underflow' \in BOOLEAN
        /\ r_empty_n' \in BOOLEAN
    BY <1>1 DEF TypeOK, Run, NextOverflow, NextUnderflow, NextEmptyN
  <2>6. r_fill' \in Slots
    <3>1. r_first \in Slots /\ r_last \in Slots /\ r_next \in Slots
      BY DEF TypeOK
    <3>2. \A a, b \in Slots : Minus(a, b) \in Slots /\ Inc(a) \in Slots
      BY DEF Slots, Minus, Inc
    <3>3. r_fill' \in {Minus(r_first, r_next), Minus(r_first, r_last),
                       Inc(Minus(r_first, r_last))}
      BY <1>1 DEF Run, NextFill
    <3> QED
      BY <3>1, <3>2, <3>3
  <2>7. sampled' \in Ports /\ edge' \in BOOLEAN
    BY <1>1 DEF Run, Sample, Ports
  <2> QED
    BY <2>1, <2>2, <2>3, <2>4, <2>5, <2>6, <2>7 DEF TypeOK
<1>2. ASSUME NEW i_wr \in BOOLEAN, NEW i_rd \in BOOLEAN, NEW i_data \in Data,
             Reset(i_wr, i_rd, i_data)
      PROVE  TypeOK'
  <2>1. fifo' \in [Slots -> Words]
    BY <1>2 DEF TypeOK, Reset, WriteMemory, Words
  <2>2. fifo_here' \in Words /\ fifo_next' \in Words /\ r_data' \in Words
        /\ osrc' \in 0 .. 3
    BY <1>2 DEF TypeOK, Reset, SelectOutput, Words
  <2>3. r_first' \in Slots /\ r_last' \in Slots /\ r_next' \in Slots
        /\ r_fill' \in Slots
    BY <1>2 DEF Reset, Slots
  <2>4. will_overflow' \in BOOLEAN /\ will_underflow' \in BOOLEAN
        /\ r_ovfl' \in BOOLEAN /\ r_empty_n' \in BOOLEAN
    BY <1>2 DEF Reset
  <2>5. sampled' \in Ports /\ edge' \in BOOLEAN
    BY <1>2 DEF Reset, Sample, Ports
  <2> QED
    BY <2>1, <2>2, <2>3, <2>4, <2>5 DEF TypeOK
<1>3. CASE UNCHANGED vars
  BY <1>3 DEF TypeOK, vars
<1> QED
  BY <1>1, <1>2, <1>3 DEF Next

(* The registers of smplfifo.v stay in their widths.                       *)
THEOREM TypeCorrect == Spec => []TypeOK
  BY TypeInit, TypeStep, PTL DEF Spec

-----------------------------------------------------------------------------
(* The flags: each keeps agreeing with the pointers.                       *)
LEMMA FlagsInit == Init => FlagsExact
  BY DEF Init, FlagsExact, Fill, Minus, Inc

LEMMA FlagsStep == TypeOK /\ FlagsExact /\ [Next]_vars => FlagsExact'
<1> SUFFICES ASSUME TypeOK, FlagsExact, [Next]_vars PROVE FlagsExact'
  OBVIOUS
<1>1. ASSUME NEW i_wr \in BOOLEAN, NEW i_rd \in BOOLEAN, NEW i_data \in Data,
             Run(i_wr, i_rd, i_data)
      PROVE  FlagsExact'
  <2>1. /\ r_first \in Slots /\ r_last \in Slots /\ r_next = Inc(r_last)
        /\ will_overflow \in BOOLEAN /\ will_underflow \in BOOLEAN
        /\ r_empty_n \in BOOLEAN
        /\ (will_underflow <=> Fill = 0) /\ (will_overflow <=> Fill = FLEN - 1)
        /\ (r_empty_n <=> Fill # 0)
    BY DEF TypeOK, FlagsExact
  <2>2. r_first' = IF i_wr /\ (i_rd \/ ~will_overflow) THEN Inc(r_first) ELSE r_first
    BY <1>1 DEF Run, WritePointer
  <2>3. /\ r_last' = IF i_rd /\ ~will_underflow THEN r_next ELSE r_last
        /\ r_next' = IF i_rd /\ ~will_underflow THEN Inc(Inc(r_last)) ELSE r_next
    BY <1>1 DEF Run, ReadPointer
  <2>4. r_next' = Inc(r_last')
    BY <2>1, <2>3
  <2>5. will_underflow' <=> Fill' = 0
    BY <1>1, <2>1, <2>2, <2>3, SMTT(60)
       DEF Run, NextUnderflow, Fill, Minus, Inc, Slots
  <2>6. r_empty_n' <=> Fill' # 0
    BY <1>1, <2>1, <2>2, <2>3, SMTT(60)
       DEF Run, NextEmptyN, Fill, Minus, Inc, Slots
  <2>7. will_overflow' <=> Fill' = FLEN - 1
    BY <1>1, <2>1, <2>2, <2>3, SMTT(60)
       DEF Run, NextOverflow, Fill, Minus, Inc, Slots
  <2>8. r_fill' = Fill'
    BY <1>1, <2>1, <2>2, <2>3, SMTT(60)
       DEF Run, NextFill, Fill, Minus, Inc, Slots
  <2> QED
    BY <2>4, <2>5, <2>6, <2>7, <2>8 DEF FlagsExact
<1>2. ASSUME NEW i_wr \in BOOLEAN, NEW i_rd \in BOOLEAN, NEW i_data \in Data,
             Reset(i_wr, i_rd, i_data)
      PROVE  FlagsExact'
  BY <1>2 DEF FlagsExact, Reset, Fill, Minus, Inc
<1>3. CASE UNCHANGED vars
  BY <1>3 DEF FlagsExact, Fill, vars, Minus, Inc
<1> QED
  BY <1>1, <1>2, <1>3 DEF Next

(* The five flag and pointer registers agree at every edge, whatever the   *)
(* sequence of writes, reads and resets (smplfifo.v:279-300).              *)
THEOREM FlagsAlwaysExact == Spec => []FlagsExact
  BY TypeInit, TypeStep, FlagsInit, FlagsStep, PTL DEF Spec

-----------------------------------------------------------------------------
(* The output register: o_data is the oldest value.                        *)
LEMMA HeadInit == Init => HeadOnOutput
  BY DEF Init, HeadOnOutput, Fill, Minus

LEMMA HeadStep ==
    TypeOK /\ FlagsExact /\ HeadOnOutput /\ [Next]_vars => HeadOnOutput'
<1> SUFFICES ASSUME TypeOK, FlagsExact, HeadOnOutput, [Next]_vars
             PROVE  HeadOnOutput'
  OBVIOUS
<1>1. ASSUME NEW i_wr \in BOOLEAN, NEW i_rd \in BOOLEAN, NEW i_data \in Data,
             Run(i_wr, i_rd, i_data), Fill' # 0
      PROVE  o_data' = fifo'[r_last']
  <2> USE DEF TypeOK, Slots
  <2> DEFINE first == IF i_wr /\ (i_rd \/ ~will_overflow)
                      THEN Inc(r_first) ELSE r_first
  <2>0. /\ r_first' = first
        /\ fifo' = IF i_wr THEN [fifo EXCEPT ![r_first] = i_data] ELSE fifo
        /\ fifo_here' = fifo[r_last] /\ fifo_next' = fifo[r_next]
        /\ r_data' = i_data
    BY <1>1 DEF Run, WritePointer, WriteMemory, SelectOutput
  <2>1. CASE will_underflow
    <3>1. r_first = r_last /\ r_last' = r_last
      BY <1>1, <2>1 DEF Run, ReadPointer, FlagsExact, Fill, Minus
    <3>2. i_wr
      BY <1>1, <2>0, <3>1 DEF Fill, Minus
    <3>3. osrc' = 0
      BY <1>1, <2>1 DEF Run, SelectOutput
    <3> QED
      BY <2>0, <3>1, <3>2, <3>3 DEF o_data
  <2>2. CASE ~will_underflow /\ i_rd /\ r_first = r_next
    <3>1. r_last' = r_first
      BY <1>1, <2>2 DEF Run, ReadPointer
    <3>2. i_wr
      BY <1>1, <2>0, <3>1 DEF Fill, Minus
    <3>3. osrc' = 1
      BY <1>1, <2>2 DEF Run, SelectOutput
    <3> QED
      BY <2>0, <3>1, <3>2, <3>3 DEF o_data
  <2>3. CASE ~will_underflow /\ i_rd /\ r_first # r_next
    <3>1. r_last' = r_next
      BY <1>1, <2>3 DEF Run, ReadPointer
    <3>2. osrc' = 3
      BY <1>1, <2>3 DEF Run, SelectOutput
    <3>3. fifo'[r_next] = fifo[r_next]
      BY <2>0, <2>3
    <3> QED
      BY <2>0, <3>1, <3>2, <3>3 DEF o_data
  <2>4. CASE ~will_underflow /\ ~i_rd
    <3>1. r_last' = r_last /\ r_first # r_last
      BY <1>1, <2>4 DEF Run, ReadPointer, FlagsExact, Fill, Minus
    <3>2. osrc' = 2
      BY <1>1, <2>4 DEF Run, SelectOutput
    <3>3. fifo'[r_last] = fifo[r_last]
      BY <2>0, <3>1
    <3> QED
      BY <2>0, <3>1, <3>2, <3>3 DEF o_data
  <2> QED
    BY <2>1, <2>2, <2>3, <2>4
<1>2. ASSUME NEW i_wr \in BOOLEAN, NEW i_rd \in BOOLEAN, NEW i_data \in Data,
             Reset(i_wr, i_rd, i_data)
      PROVE  HeadOnOutput'
  BY <1>2 DEF Reset, HeadOnOutput, Fill, Minus
<1>3. CASE UNCHANGED vars
  BY <1>3 DEF HeadOnOutput, Fill, Minus, o_data, vars
<1> QED
  BY <1>1, <1>2, <1>3 DEF Next, HeadOnOutput

(* Whenever the FIFO holds something, o_data shows the oldest value        *)
(* (smplfifo.v:149-168).                                                   *)
THEOREM HeadAlwaysOnOutput == Spec => []HeadOnOutput
  BY TypeInit, TypeStep, FlagsInit, FlagsStep, HeadInit, HeadStep, PTL DEF Spec

-----------------------------------------------------------------------------
(* Windows of the circular memory: n consecutive slots read as a sequence. *)
LEMMA WindowIsSeq ==
    ASSUME NEW mem \in [Slots -> Words], NEW p \in Slots, NEW n \in Slots
    PROVE  /\ Window(mem, p, n) \in Seq(Words)
           /\ Len(Window(mem, p, n)) = n
           /\ \A i \in 1 .. n : Window(mem, p, n)[i] = mem[SlotAfter(p, i - 1)]
<1>1. n \in Nat
  BY DEF Slots
<1>2. \A i \in 1 .. n : SlotAfter(p, i - 1) \in Slots
  BY DEF SlotAfter, Slots
<1>3. Window(mem, p, n) \in [1 .. n -> Words]
  BY <1>2 DEF Window
<1>4. Window(mem, p, n) \in Seq(Words)
  BY <1>1, <1>3, SeqDef
<1>5. Len(Window(mem, p, n)) = n
  BY <1>1, <1>3, <1>4, LenProperties DEF Window
<1> QED
  BY <1>4, <1>5 DEF Window

(* A write at the slot after the window extends it by the value written.   *)
LEMMA WindowPush ==
    ASSUME NEW mem \in [Slots -> Words], NEW p \in Slots,
           NEW n \in 0 .. FLEN - 2, NEW d \in Data
    PROVE  Window([mem EXCEPT ![SlotAfter(p, n)] = d], p, n + 1)
             = Append(Window(mem, p, n), d)
<1> DEFINE new == [mem EXCEPT ![SlotAfter(p, n)] = d]
           w == Window(mem, p, n)
           w1 == Window(new, p, n + 1)
<1>1. n \in Slots /\ n + 1 \in Slots
  BY DEF Slots
<1>2. new \in [Slots -> Words] /\ d \in Words
  BY DEF Words
<1>3. /\ w \in Seq(Words) /\ Len(w) = n
      /\ \A i \in 1 .. n : w[i] = mem[SlotAfter(p, i - 1)]
  BY <1>1, WindowIsSeq
<1>4. /\ w1 \in Seq(Words) /\ Len(w1) = n + 1
      /\ \A i \in 1 .. n + 1 : w1[i] = new[SlotAfter(p, i - 1)]
  BY ZenonT(60), <1>1, <1>2, WindowIsSeq
<1>5. /\ Append(w, d) \in Seq(Words) /\ Len(Append(w, d)) = n + 1
      /\ \A i \in 1 .. n : Append(w, d)[i] = w[i]
      /\ Append(w, d)[n + 1] = d
  BY <1>2, <1>3, AppendProperties
<1>6. \A i \in 1 .. n + 1 : w1[i] = Append(w, d)[i]
  <2>1. SlotAfter(p, n) \in Slots
    BY DEF SlotAfter, Slots
  <2>2. w1[n + 1] = d
    <3>1. n + 1 \in 1 .. n + 1 /\ (n + 1) - 1 = n
      OBVIOUS
    <3>2. new[SlotAfter(p, n)] = d
      BY <2>1
    <3> QED
      BY <1>4, <3>1, <3>2
  <2>3. ASSUME NEW i \in 1 .. n PROVE w1[i] = w[i]
    <3>1. SlotAfter(p, i - 1) # SlotAfter(p, n) /\ SlotAfter(p, i - 1) \in Slots
      BY DEF SlotAfter, Slots
    <3>2. new[SlotAfter(p, i - 1)] = mem[SlotAfter(p, i - 1)]
      BY <3>1
    <3>3. i \in 1 .. n + 1
      OBVIOUS
    <3> QED
      BY <1>3, <1>4, <3>2, <3>3
  <2>4. \A i \in 1 .. n + 1 : i \in 1 .. n \/ i = n + 1
    OBVIOUS
  <2> HIDE DEF w, w1, new
  <2> QED
    BY <1>5, <2>2, <2>3, <2>4
<1> QED
  BY <1>4, <1>5, <1>6, SeqEqual

(* A write at the slot after the window does not change the window.        *)
LEMMA WindowFrame ==
    ASSUME NEW mem \in [Slots -> Words], NEW p \in Slots, NEW n \in Slots,
           NEW d \in Data
    PROVE  Window([mem EXCEPT ![SlotAfter(p, n)] = d], p, n) = Window(mem, p, n)
<1> SUFFICES ASSUME NEW k \in 1 .. n
             PROVE  [mem EXCEPT ![SlotAfter(p, n)] = d][SlotAfter(p, k - 1)]
                      = mem[SlotAfter(p, k - 1)]
  BY DEF Window
<1>1. SlotAfter(p, k - 1) # SlotAfter(p, n) /\ SlotAfter(p, k - 1) \in Slots
  BY DEF SlotAfter, Slots
<1> QED
  BY <1>1

(* Moving the read pointer on drops the oldest value.                      *)
LEMMA WindowPop ==
    ASSUME NEW mem \in [Slots -> Words], NEW p \in Slots,
           NEW n \in 1 .. FLEN - 1
    PROVE  /\ Window(mem, p, n) # << >>
           /\ Head(Window(mem, p, n)) = mem[p]
           /\ Window(mem, Inc(p), n - 1) = Tail(Window(mem, p, n))
<1> DEFINE w == Window(mem, p, n)
           w1 == Window(mem, Inc(p), n - 1)
<1>1. n \in Slots /\ n - 1 \in Slots /\ Inc(p) \in Slots
  BY DEF Slots, Inc
<1>2. /\ w \in Seq(Words) /\ Len(w) = n
      /\ \A i \in 1 .. n : w[i] = mem[SlotAfter(p, i - 1)]
  BY <1>1, WindowIsSeq
<1>3. /\ w1 \in Seq(Words) /\ Len(w1) = n - 1
      /\ \A i \in 1 .. n - 1 : w1[i] = mem[SlotAfter(Inc(p), i - 1)]
  BY <1>1, WindowIsSeq
<1>4. w # << >>
  BY <1>2, EmptySeq
<1>5. /\ Tail(w) \in Seq(Words) /\ Len(Tail(w)) = n - 1
      /\ \A i \in 1 .. n - 1 : Tail(w)[i] = w[i + 1]
  BY <1>2, <1>4, HeadTailProperties
<1>6. Head(w) = mem[p]
  <2>1. Head(w) = w[1]
    BY <1>2, <1>4
  <2>2. 1 \in 1 .. n /\ SlotAfter(p, 1 - 1) = p
    BY DEF SlotAfter, Slots
  <2> QED
    BY <1>2, <2>1, <2>2
<1>7. ASSUME NEW i \in 1 .. n - 1 PROVE w1[i] = Tail(w)[i]
  <2>1. SlotAfter(Inc(p), i - 1) = SlotAfter(p, (i + 1) - 1)
    BY DEF SlotAfter, Inc, Slots
  <2>2. i + 1 \in 1 .. n
    OBVIOUS
  <2> QED
    BY <1>2, <1>3, <1>5, <2>1, <2>2
<1> QED
  BY <1>3, <1>4, <1>5, <1>6, <1>7, SeqEqual

(* The write pointer is the slot after the contents.                       *)
LEMMA WritePointerAfterContents ==
    ASSUME NEW f \in Slots, NEW l \in Slots
    PROVE  Minus(f, l) \in Slots /\ SlotAfter(l, Minus(f, l)) = f
  BY DEF Minus, SlotAfter, Slots

-----------------------------------------------------------------------------
(* The refinement: what each edge does to the contents.                    *)
LEMMA RefinementInit == Init => Abstract!Init
<1> SUFFICES ASSUME Init PROVE Abstract!Init
  OBVIOUS
<1>1. Fill = 0 /\ r_last = 0 /\ fifo \in [Slots -> Words]
  BY DEF Init, Fill, Minus, Words
<1>2. 0 \in Slots
  BY DEF Slots
<1>3. Contents \in Seq(Words) /\ Len(Contents) = 0
  BY <1>1, <1>2, WindowIsSeq DEF Contents
<1>4. Contents = << >>
  BY <1>3, EmptySeq
<1>5. o_data \in Words
  BY DEF Init, o_data, Words
<1> QED
  BY <1>4, <1>5 DEF Init, NoPorts, Abstract!Init, Abstract!NoPorts, Words

LEMMA RefinementStep ==
    TypeOK /\ FlagsExact /\ HeadOnOutput /\ TypeOK' /\ FlagsExact' /\ HeadOnOutput'
      /\ [Next]_vars => [Abstract!Next]_(Abstract!vars)
<1> SUFFICES ASSUME TypeOK, FlagsExact, TypeOK', FlagsExact', HeadOnOutput',
                    [Next]_vars
             PROVE  [Abstract!Next]_(Abstract!vars)
  OBVIOUS
<1> DEFINE n == Fill
<1>1. /\ fifo \in [Slots -> Words] /\ fifo' \in [Slots -> Words]
      /\ r_first \in Slots /\ r_last \in Slots /\ r_next = Inc(r_last)
      /\ r_first' \in Slots /\ r_last' \in Slots
  BY DEF TypeOK, FlagsExact
<1>2. n \in Slots /\ SlotAfter(r_last, n) = r_first /\ n' \in Slots
  BY <1>1, WritePointerAfterContents DEF Fill
<1>3. /\ Contents \in Seq(Words) /\ Len(Contents) = n
      /\ Contents' \in Seq(Words) /\ Len(Contents') = n'
  BY <1>1, <1>2, WindowIsSeq DEF Contents
<1>4. n # 0 => /\ Contents # << >>
               /\ Head(Contents) = fifo[r_last]
               /\ Window(fifo, Inc(r_last), n - 1) = Tail(Contents)
  <2>1. n # 0 => n \in 1 .. FLEN - 1
    BY <1>2 DEF Slots
  <2> QED
    BY <1>1, <2>1, WindowPop DEF Contents
<1>5. Abstract!ShowHead
  <2>1. o_data' \in Words
    BY DEF TypeOK, o_data
  <2>2. ASSUME Contents' # << >> PROVE o_data' = Head(Contents')
    <3>1. n' # 0
      BY <1>3, <2>2, EmptySeq
    <3>2. n' \in 1 .. FLEN - 1
      BY <1>2, <3>1 DEF Slots
    <3>3. Head(Contents') = fifo'[r_last']
      BY <1>1, <3>2, WindowPop DEF Contents
    <3> QED
      BY <3>1, <3>3 DEF HeadOnOutput
  <2> QED
    BY <2>1, <2>2 DEF Abstract!ShowHead, Words
<1>6. ASSUME NEW i_wr \in BOOLEAN, NEW i_rd \in BOOLEAN, NEW i_data \in Data,
             Run(i_wr, i_rd, i_data)
      PROVE  Abstract!Next
  <2> DEFINE in == [i_reset |-> FALSE, i_wr |-> i_wr, i_rd |-> i_rd,
                    i_data |-> i_data]
             step == \/ Abstract!Reset(in) \/ Abstract!Idle(in)
                     \/ Abstract!Pop(in) \/ Abstract!Push(in)
                     \/ Abstract!Refuse(in) \/ Abstract!PopPush(in)
  <2>in. /\ in.i_reset = FALSE /\ in.i_wr = i_wr
         /\ in.i_rd = i_rd /\ in.i_data = i_data
    OBVIOUS
  <2>reads. Abstract!Reads(in) <=> i_rd /\ n # 0
    BY <1>3, <1>4, <2>in, EmptySeq DEF Abstract!Reads
  <2>ports. in \in Abstract!Ports /\ sampled' = in /\ edge' = ~edge
    BY <1>6 DEF Run, Sample, Abstract!Ports
  <2> HIDE DEF in
  <2> SUFFICES step
    BY <1>5, <2>ports DEF Abstract!Next
  <2>0. fifo' = IF i_wr THEN [fifo EXCEPT ![r_first] = i_data] ELSE fifo
    BY <1>6 DEF Run, WriteMemory
  <2>1. (i_rd /\ n # 0) => r_last' = Inc(r_last)
    BY <1>1, <1>6 DEF Run, ReadPointer, FlagsExact
  <2>2. ~(i_rd /\ n # 0) => r_last' = r_last
    BY <1>6 DEF Run, ReadPointer, FlagsExact
  <2>3. (i_wr /\ (i_rd \/ n # FLEN - 1)) => r_first' = Inc(r_first)
    BY <1>6 DEF Run, WritePointer, FlagsExact
  <2>4. ~(i_wr /\ (i_rd \/ n # FLEN - 1)) => r_first' = r_first
    BY <1>6 DEF Run, WritePointer, FlagsExact
  <2>5. CASE ~i_wr /\ ~(i_rd /\ n # 0)
    <3>1. Contents' = Contents
      BY <2>0, <2>2, <2>4, <2>5 DEF Contents, Fill
    <3>2. r_ovfl' = r_ovfl
      BY <1>6, <2>5 DEF Run, WritePointer, TypeOK
    <3> QED
      BY <2>in, <2>reads, <2>5, <3>1, <3>2 DEF Abstract!Idle
  <2>6. CASE ~i_wr /\ i_rd /\ n # 0
    <3>1. r_first' = r_first /\ r_last' = Inc(r_last) /\ r_first # r_last
      BY <1>1, <2>1, <2>4, <2>6 DEF Fill, Minus, Slots
    <3>2. n' = n - 1
      BY <1>1, <3>1 DEF Fill, Minus, Inc, Slots
    <3>3. Contents' = Tail(Contents)
      BY <1>4, <2>0, <2>1, <2>6, <3>2 DEF Contents
    <3>4. r_ovfl' = r_ovfl
      BY <1>6, <2>6 DEF Run, WritePointer, TypeOK
    <3> QED
      BY <2>in, <2>reads, <2>6, <3>3, <3>4 DEF Abstract!Pop
  <2>7. CASE i_wr /\ ~i_rd /\ n = FLEN - 1
    <3>1. n' = n /\ r_last' = r_last
      BY <2>2, <2>4, <2>7 DEF Fill
    <3>2. fifo' = [fifo EXCEPT ![SlotAfter(r_last, n)] = i_data]
      BY <1>2, <2>0, <2>7
    <3>3. Window([fifo EXCEPT ![SlotAfter(r_last, n)] = i_data], r_last, n)
            = Window(fifo, r_last, n)
      BY ZenonT(60), <1>1, <1>2, WindowFrame
    <3>4. Contents' = Contents
      BY <3>1, <3>2, <3>3 DEF Contents
    <3>5. r_ovfl' = TRUE
      BY <1>6, <2>7 DEF Run, WritePointer, FlagsExact
    <3> QED
      BY <1>3, <2>in, <2>reads, <2>7, <3>4, <3>5 DEF Abstract!Refuse, Abstract!Full
  <2>8. CASE i_wr /\ ~(i_rd /\ n # 0) /\ ~(~i_rd /\ n = FLEN - 1)
    <3>1. n # FLEN - 1
      BY <2>8
    <3>2. n \in 0 .. FLEN - 2
      BY <1>2, <3>1 DEF Slots
    <3>3. r_first' = Inc(r_first) /\ r_last' = r_last
      BY <2>2, <2>3, <2>8, <3>1
    <3>4. n' = n + 1
      BY <1>1, <3>1, <3>3 DEF Fill, Minus, Inc, Slots
    <3>5. fifo' = [fifo EXCEPT ![SlotAfter(r_last, n)] = i_data]
      BY <1>2, <2>0, <2>8
    <3>6. Contents' = Append(Contents, i_data)
      BY ZenonT(60), <1>1, <3>2, <3>3, <3>4, <3>5, WindowPush DEF Contents
    <3>7. r_ovfl' = r_ovfl
      BY <1>6, <3>1 DEF Run, WritePointer, TypeOK, FlagsExact
    <3> QED
      BY <1>3, <2>in, <2>reads, <2>8, <3>1, <3>6, <3>7
         DEF Abstract!Push, Abstract!Full
  <2>9. CASE i_wr /\ i_rd /\ n # 0
    <3>1. r_first' = Inc(r_first) /\ r_last' = Inc(r_last)
      BY <2>1, <2>3, <2>9
    <3>2. n - 1 \in 0 .. FLEN - 2 /\ Inc(r_last) \in Slots
      BY <1>1, <1>2, <2>9 DEF Slots, Inc
    <3>3. n' = n
      BY <1>1, <3>1, <2>9 DEF Fill, Minus, Inc, Slots
    <3>4. SlotAfter(Inc(r_last), n - 1) = r_first
      BY <1>1, <1>2, <2>9 DEF SlotAfter, Inc, Slots
    <3>5. fifo' = [fifo EXCEPT ![SlotAfter(Inc(r_last), n - 1)] = i_data]
      BY <2>0, <2>9, <3>4
    <3>6. Window(fifo', Inc(r_last), (n - 1) + 1)
            = Append(Window(fifo, Inc(r_last), n - 1), i_data)
      <4>1. Window([fifo EXCEPT ![SlotAfter(Inc(r_last), n - 1)] = i_data],
                   Inc(r_last), (n - 1) + 1)
              = Append(Window(fifo, Inc(r_last), n - 1), i_data)
        <5> DEFINE m == n - 1
        <5>1. m \in 0 .. FLEN - 2
          BY <3>2
        <5> HIDE DEF m
        <5>2. Window([fifo EXCEPT ![SlotAfter(Inc(r_last), m)] = i_data],
                     Inc(r_last), m + 1)
                = Append(Window(fifo, Inc(r_last), m), i_data)
          BY <1>1, <3>2, <5>1, WindowPush
        <5> QED
          BY <5>2 DEF m
      <4> QED
        BY <3>5, <4>1
    <3>7. (n - 1) + 1 = n
      BY <1>2 DEF Slots
    <3>8. Contents' = Append(Tail(Contents), i_data)
      BY <1>4, <2>9, <3>1, <3>3, <3>6, <3>7 DEF Contents
    <3>9. r_ovfl' = r_ovfl
      BY <1>6, <2>9 DEF Run, WritePointer, TypeOK
    <3> QED
      BY <2>in, <2>reads, <2>9, <3>8, <3>9 DEF Abstract!PopPush
  <2> QED
    BY <2>5, <2>6, <2>7, <2>8, <2>9
<1>7. ASSUME NEW i_wr \in BOOLEAN, NEW i_rd \in BOOLEAN, NEW i_data \in Data,
             Reset(i_wr, i_rd, i_data)
      PROVE  Abstract!Next
  <2> DEFINE in == [i_reset |-> TRUE, i_wr |-> i_wr, i_rd |-> i_rd,
                    i_data |-> i_data]
  <2>1. n' = 0 /\ r_ovfl' = FALSE
    BY <1>7 DEF Reset, Fill, Minus
  <2>2. Contents' = << >>
    BY <1>3, <2>1, EmptySeq
  <2>3. in \in Abstract!Ports /\ in.i_reset = TRUE
        /\ sampled' = in /\ edge' = ~edge
    BY <1>7 DEF Reset, Sample, Abstract!Ports
  <2> HIDE DEF in
  <2>4. Abstract!Reset(in)
    BY <2>1, <2>2, <2>3 DEF Abstract!Reset
  <2> QED
    BY <1>5, <2>3, <2>4 DEF Abstract!Next
<1>8. CASE UNCHANGED vars
  <2>1. Contents' = Contents
    BY <1>8 DEF vars, Contents, Fill
  <2>2. o_data' = o_data /\ r_ovfl' = r_ovfl
    BY <1>8 DEF vars, o_data
  <2>3. sampled' = sampled /\ edge' = edge
    BY <1>8 DEF vars
  <2> QED
    BY <2>1, <2>2, <2>3 DEF Abstract!vars
<1> QED
  BY <1>6, <1>7, <1>8 DEF Next

(* smplfifo.v implements a first-word-fall-through FIFO of FLEN - 1 values *)
(* whose every edge does what i_reset, i_wr and i_rd ask of it: an         *)
(* accepted write is appended, a refused one is reported and changes       *)
(* nothing, a read drops the oldest value (smplfifo.v:81-91, 135-147).     *)
THEOREM SmplFifoImplementsBoundedFifo == Spec => ImplementsFifo
  BY TypeInit, TypeStep, FlagsInit, FlagsStep, HeadInit, HeadStep,
     RefinementInit, RefinementStep, PTL DEF Spec, ImplementsFifo, Abstract!Spec
=============================================================================
