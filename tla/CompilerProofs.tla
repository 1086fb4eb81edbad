--------------------------- MODULE CompilerProofs ---------------------------
(***************************************************************************)
(* For any numbers of loops and APUs, any ranges and any nesting of        *)
(* programs: the types, ApusMatchProgram and ActiveInside.  The invariant  *)
(* is strengthened by OlderDisturbed: of the programs on the stack only    *)
(* the innermost can be one in which nothing unusual happened.  Nested     *)
(* adds what its lines and its open loops have to do with each other, from *)
(* which LoopsNest follows, and with the arithmetic of cherry_range        *)
(* LoopsVisitTheirRange.                                                   *)
(***************************************************************************)
EXTENDS Compiler, FiniteSetTheorems, SequenceTheorems, TLAPS

OlderDisturbed ==
    \A m, n \in ProgramsIn(stack) : m < n => ~stack[m].clean
IInv == TypeOK /\ ApusMatchProgram /\ ActiveInside /\ OlderDisturbed

(* Disturbed keeps the frames' kinds and clears every clean flag.          *)
LEMMA DisturbedFrames ==
    ASSUME NEW s \in Seq(Frames)
    PROVE  /\ Disturbed(s) \in Seq(Frames) /\ Len(Disturbed(s)) = Len(s)
           /\ ProgramsIn(Disturbed(s)) = ProgramsIn(s)
           /\ \A n \in ProgramsIn(s) : ~Disturbed(s)[n].clean
<1> DEFINE d == Disturbed(s)
<1>1. \A n \in 1..Len(s) : s[n] \in Frames
  BY ElementOfSeq
<1>2. /\ d = [n \in 1..Len(s) |-> IF s[n].kind = "program" THEN [s[n] EXCEPT !.clean = FALSE]
                                  ELSE s[n]]
  BY DEF Disturbed, IsProgram
<1>3. \A n \in 1..Len(s) : /\ d[n] \in Frames /\ d[n].kind = s[n].kind
                           /\ s[n].kind = "program" => d[n].clean = FALSE
  <2> SUFFICES ASSUME NEW n \in 1..Len(s)
               PROVE  /\ d[n] \in Frames /\ d[n].kind = s[n].kind
                      /\ s[n].kind = "program" => d[n].clean = FALSE
    OBVIOUS
  <2>1. CASE s[n].kind = "program"
    <3>1. s[n] \in [kind: {"program"}, shape: BOOLEAN, clean: BOOLEAN]
      BY <1>1, <2>1 DEF Frames
    <3>2. d[n] = [s[n] EXCEPT !.clean = FALSE] BY <1>2, <2>1
    <3> HIDE DEF d
    <3> QED BY <2>1, <3>1, <3>2 DEF Frames
  <2>2. CASE s[n].kind # "program"
    <3>1. d[n] = s[n] BY <1>2, <2>2
    <3> HIDE DEF d
    <3> QED BY <1>1, <2>2, <3>1
  <2> QED BY <2>1, <2>2
<1>4. d \in Seq(Frames) /\ Len(d) = Len(s)
  BY <1>2, <1>3
<1>5. ProgramsIn(d) = ProgramsIn(s)
  BY <1>2, <1>3, <1>4 DEF ProgramsIn, IsProgram
<1> QED
  BY <1>3, <1>4, <1>5 DEF ProgramsIn, IsProgram

(* What is left of the stack after an exception: a prefix, disturbed.      *)
LEMMA PrefixFrames ==
    ASSUME TypeOK, NEW depth \in 0..Len(stack)
    PROVE  LET s == Disturbed(SubSeq(stack, 1, depth))
           IN  /\ s \in Seq(Frames)
               /\ ProgramsIn(s) = {n \in ProgramsIn(stack) : n <= depth}
               /\ \A n \in ProgramsIn(s) : ~s[n].clean
<1> DEFINE prefix == SubSeq(stack, 1, depth)
<1>1. stack \in Seq(Frames) BY DEF TypeOK
<1>2. /\ prefix \in Seq(Frames) /\ Len(prefix) = depth
      /\ \A n \in 1..depth : prefix[n] = stack[n]
  BY <1>1
<1>3. ProgramsIn(prefix) = {n \in ProgramsIn(stack) : n <= depth}
  BY <1>1, <1>2 DEF ProgramsIn
<1> QED
  BY <1>2, <1>3, DisturbedFrames

(* An exception leaves no program that is clean, and accounts for the      *)
(* programs that it leaves.                                                *)
LEMMA RaiseKeeps ==
    ASSUME IInv, NEW depth \in 0..Len(stack), RaiseInto(depth),
           is_jit_compiling_active' = is_jit_compiling_active
    PROVE  stack' \in Seq(Frames) /\ failed' \in BOOLEAN /\ ActiveInside' /\ OlderDisturbed'
<1> DEFINE s == Disturbed(SubSeq(stack, 1, depth))
<1>1. TypeOK BY DEF IInv
<1>2. /\ s \in Seq(Frames)
      /\ ProgramsIn(s) = {n \in ProgramsIn(stack) : n <= depth}
      /\ \A n \in ProgramsIn(s) : ~s[n].clean
  BY <1>1, PrefixFrames
<1>3. stack' = s /\ failed' = (failed \/ \E n \in ProgramsIn(stack) : n > depth)
  BY DEF RaiseInto
<1> HIDE DEF s
<1>4. ASSUME is_jit_compiling_active, ProgramsIn(s) = {}
      PROVE  failed'
  <2>1. CASE ProgramsIn(stack) = {}
    BY <2>1, <1>3, <1>4 DEF IInv, ActiveInside
  <2>2. CASE ProgramsIn(stack) # {}
    <3>1. PICK n \in ProgramsIn(stack) : TRUE BY <2>2
    <3>2. n \in 1..Len(stack) BY <3>1, <1>1 DEF ProgramsIn, TypeOK
    <3>3. n > depth BY <3>1, <3>2, <1>2, <1>4
    <3> QED BY <3>3, <1>3
  <2> QED BY <2>1, <2>2
<1>5. ~Clean' /\ OlderDisturbed'
  BY <1>2, <1>3 DEF Clean, Innermost, OlderDisturbed
<1>6. (ProgramsIn(stack) = {})' = (ProgramsIn(s) = {})
  BY <1>3
<1>7. ActiveInside'
  BY <1>4, <1>5, <1>6 DEF ActiveInside
<1>8. failed' \in BOOLEAN
  BY <1>3
<1> QED BY <1>2, <1>3, <1>5, <1>7, <1>8

(* Lines without an APU do not disturb the match of APUs and lines.        *)
LEMMA OtherLine ==
    ASSUME TypeOK, ApusMatchProgram, NEW l, l.line # "memory",
           program' = Append(program, l), UNCHANGED <<apu_ro_data, next_apu>>
    PROVE  ApusMatchProgram'
<1>1. program \in Seq(Lines) BY DEF TypeOK
<1>2. /\ DOMAIN program' = DOMAIN program \cup {Len(program) + 1}
      /\ \A n \in DOMAIN program : program'[n] = program[n]
      /\ program'[Len(program) + 1] = l
      /\ DOMAIN program = 1..Len(program)
  BY <1>1
<1>3. ApuLines' = ApuLines
  BY <1>2 DEF ApuLines
<1>4. \A n \in ApuLines : program'[n] = program[n]
  BY <1>2 DEF ApuLines
<1>5. /\ \A n \in ApuLines' : /\ program'[n].apu < next_apu'
                            /\ apu_ro_data'[program'[n].apu] = program'[n].address
      /\ \A m, n \in ApuLines' : m < n => program'[m].apu < program'[n].apu
  BY <1>3, <1>4 DEF ApusMatchProgram
<1>6. \A k \in 0..next_apu' - 1 : \E n \in ApuLines' : program'[n].apu = k
  BY <1>3, <1>4 DEF ApusMatchProgram
<1>7. \A k \in next_apu'..ApuLimit - 1 : apu_ro_data'[k] = None
  BY DEF ApusMatchProgram
<1> QED
  BY <1>5, <1>6, <1>7 DEF ApusMatchProgram

(* A line with an APU takes the next one.                                  *)
LEMMA ApuLine ==
    ASSUME TypeOK, ApusMatchProgram, NEW address \in Formulas,
           next_apu < ApuLimit,
           apu_ro_data' = [apu_ro_data EXCEPT ![next_apu] = address],
           next_apu' = next_apu + 1,
           program' = Append(program, [line |-> "memory", apu |-> next_apu, address |-> address])
    PROVE  /\ ApusMatchProgram'
           /\ next_apu' \in 0..ApuLimit
           /\ apu_ro_data' \in [0..ApuLimit - 1 -> Formulas \cup {None}]
           /\ program' \in Seq(Lines)
<1> DEFINE l == [line |-> "memory", apu |-> next_apu, address |-> address]
           last == Len(program) + 1
<1>1. /\ program \in Seq(Lines) /\ next_apu \in 0..ApuLimit
      /\ apu_ro_data \in [0..ApuLimit - 1 -> Formulas \cup {None}]
  BY DEF TypeOK
<1>2. ApuLimit \in Nat BY CompilerAssumption
<1>3. next_apu \in 0..ApuLimit - 1 /\ next_apu' \in 0..ApuLimit
  BY <1>1, <1>2
<1>4. l \in Lines BY <1>3 DEF Lines
<1>5. program' \in Seq(Lines) BY <1>1, <1>4
<1>6. /\ DOMAIN program' = DOMAIN program \cup {last}
      /\ \A n \in DOMAIN program : program'[n] = program[n]
      /\ program'[last] = l
      /\ DOMAIN program = 1..Len(program) /\ Len(program) \in Nat
  <2>1. program' = Append(program, l) OBVIOUS
  <2> HIDE DEF l
  <2> QED BY <1>1, <2>1
<1>7. ApuLines' = ApuLines \cup {last}
  BY <1>6 DEF ApuLines
<1>8. /\ \A n \in ApuLines : n \in DOMAIN program /\ n < last /\ program'[n] = program[n]
      /\ last \notin ApuLines
  BY <1>6 DEF ApuLines
<1>9. \A n \in ApuLines : program[n].apu \in 0..ApuLimit - 1
  <2> SUFFICES ASSUME NEW n \in ApuLines PROVE program[n].apu \in 0..ApuLimit - 1
    OBVIOUS
  <2>1. program[n] \in Lines BY <1>1, <1>8, ElementOfSeq
  <2> QED BY <2>1 DEF ApuLines, Lines
<1>10. /\ apu_ro_data' \in [0..ApuLimit - 1 -> Formulas \cup {None}]
       /\ apu_ro_data'[next_apu] = address
       /\ \A k \in 0..ApuLimit - 1 : k # next_apu => apu_ro_data'[k] = apu_ro_data[k]
  BY <1>1, <1>3
<1>11. \A n \in ApuLines' : /\ program'[n].apu < next_apu'
                            /\ apu_ro_data'[program'[n].apu] = program'[n].address
  <2> SUFFICES ASSUME NEW n \in ApuLines'
               PROVE  /\ program'[n].apu < next_apu'
                      /\ apu_ro_data'[program'[n].apu] = program'[n].address
    OBVIOUS
  <2>1. CASE n = last BY <2>1, <1>6, <1>10, <1>3
  <2>2. CASE n \in ApuLines
    <3>1. program[n].apu < next_apu /\ apu_ro_data[program[n].apu] = program[n].address
      BY <2>2 DEF ApusMatchProgram
    <3> QED BY <2>2, <3>1, <1>3, <1>8, <1>9, <1>10
  <2> QED BY <2>1, <2>2, <1>7
<1>12. \A m, n \in ApuLines' : m < n => program'[m].apu < program'[n].apu
  <2> SUFFICES ASSUME NEW m \in ApuLines', NEW n \in ApuLines', m < n
               PROVE  program'[m].apu < program'[n].apu
    OBVIOUS
  <2>1. m \in ApuLines BY <1>6, <1>7, <1>8
  <2>2. CASE n = last BY <2>1, <2>2, <1>6, <1>8 DEF ApusMatchProgram
  <2>3. CASE n \in ApuLines BY <2>1, <2>3, <1>8 DEF ApusMatchProgram
  <2> QED BY <2>2, <2>3, <1>7
<1>13. \A k \in 0..next_apu' - 1 : \E n \in ApuLines' : program'[n].apu = k
  <2> SUFFICES ASSUME NEW k \in 0..next_apu' - 1
               PROVE  \E n \in ApuLines' : program'[n].apu = k
    OBVIOUS
  <2>1. CASE k = next_apu BY <2>1, <1>6, <1>7
  <2>2. CASE k \in 0..next_apu - 1
    <3>1. PICK n \in ApuLines : program[n].apu = k BY <2>2 DEF ApusMatchProgram
    <3> QED BY <3>1, <1>7, <1>8
  <2>3. next_apu \in Nat /\ k \in Int /\ 0 <= k /\ k <= next_apu BY <1>1
  <2>4. k = next_apu \/ k \in 0..next_apu - 1 BY <2>3
  <2> QED BY <2>1, <2>2, <2>4
<1>14. \A k \in next_apu'..ApuLimit - 1 : apu_ro_data'[k] = None
  BY <1>2, <1>3, <1>10 DEF ApusMatchProgram
<1> QED
  BY <1>3, <1>5, <1>10, <1>11, <1>12, <1>13, <1>14 DEF ApusMatchProgram

-----------------------------------------------------------------------------
LEMMA InitHolds == Init => IInv
<1> SUFFICES ASSUME Init PROVE IInv
  OBVIOUS
<1>1. LoopLimit \in Nat /\ ApuLimit \in Nat BY CompilerAssumption
<1>2. TypeOK
  <2>1. loop_ro_data \in [loop_variables -> Int \cup {None}]
    BY DEF Init
  <2>2. apu_ro_data \in [0..ApuLimit - 1 -> Formulas \cup {None}]
    BY DEF Init
  <2>3. program \in Seq(Lines) /\ stack \in Seq(Frames)
    BY DEF Init
  <2>4. loop_var_next \in 0..LoopLimit /\ next_apu \in 0..ApuLimit
    BY <1>1 DEF Init
  <2> QED BY <2>1, <2>2, <2>3, <2>4 DEF Init, TypeOK
<1>3. ApuLines = {} /\ ProgramsIn(stack) = {}
  BY DEF Init, ApuLines, ProgramsIn
<1>4. ApusMatchProgram
  BY <1>3 DEF Init, ApusMatchProgram
<1>5. ActiveInside /\ OlderDisturbed
  BY <1>3 DEF Init, ActiveInside, OlderDisturbed, Clean, Innermost
<1> QED BY <1>2, <1>4, <1>5 DEF IInv

(* A call resets the program; the programs it is called in are disturbed.  *)
LEMMA CallKeeps == IInv /\ cherry_program => IInv'
<1> SUFFICES ASSUME IInv, cherry_program PROVE IInv'
  OBVIOUS
<1>1. TypeOK BY DEF IInv
<1>2. LoopLimit \in Nat /\ ApuLimit \in Nat BY CompilerAssumption
<1>3. Reset BY DEF cherry_program
<1>4. /\ is_jit_compiling_active' = TRUE /\ loop_var_next' = 0 /\ next_apu' = 0
      /\ program' = << >>
      /\ loop_ro_data' = [n \in loop_variables |-> None]
      /\ apu_ro_data' = [n \in 0..ApuLimit - 1 |-> None]
  BY <1>3 DEF Reset
<1>5. ApusMatchProgram'
  BY <1>2, <1>4 DEF ApusMatchProgram, ApuLines
<1>6. stack' \in Seq(Frames) /\ failed' \in BOOLEAN => TypeOK'
  BY <1>2, <1>4 DEF TypeOK
<1>7. CASE stack' = Append(Disturbed(stack), Called) /\ UNCHANGED failed
  <2> DEFINE s == Disturbed(stack)
  <2>1. stack \in Seq(Frames) BY <1>1 DEF TypeOK
  <2>2. /\ s \in Seq(Frames) /\ Len(s) = Len(stack)
        /\ ProgramsIn(s) = ProgramsIn(stack)
        /\ \A n \in ProgramsIn(s) : ~s[n].clean
    BY <2>1, DisturbedFrames
  <2> HIDE DEF s
  <2>3. Called \in Frames /\ Called.kind = "program" BY DEF Called, Frames
  <2> DEFINE frame == Called
  <2> HIDE DEF frame
  <2>p. frame \in Frames /\ stack' = Append(s, frame) BY <1>7, <2>3 DEF s, frame
  <2>q. /\ Append(s, frame) \in Seq(Frames) /\ Len(s) + 1 \in DOMAIN Append(s, frame)
         /\ Append(s, frame)[Len(s) + 1] = frame
         /\ DOMAIN Append(s, frame) = DOMAIN s \cup {Len(s) + 1}
         /\ \A n \in DOMAIN s : n < Len(s) + 1 /\ Append(s, frame)[n] = s[n]
    BY <2>2, <2>p
  <2>4. /\ stack' \in Seq(Frames) /\ Len(s) + 1 \in DOMAIN stack'
        /\ stack'[Len(s) + 1] = Called
        /\ DOMAIN stack' = DOMAIN s \cup {Len(s) + 1}
        /\ \A n \in DOMAIN s : n < Len(s) + 1 /\ stack'[n] = s[n]
    BY <2>p, <2>q DEF frame
  <2>5. ProgramsIn(stack') = ProgramsIn(s) \cup {Len(s) + 1}
    BY <2>3, <2>4 DEF ProgramsIn, IsProgram
  <2>6. (\A m, n \in ProgramsIn(stack) : m < n => ~stack[m].clean)'
    BY <2>2, <2>4, <2>5 DEF ProgramsIn
  <2>7. OlderDisturbed' BY <2>6 DEF OlderDisturbed
  <2>8. (ProgramsIn(stack) # {})' BY <2>5
  <2>9. ActiveInside' BY <2>8, <1>4 DEF ActiveInside
  <2>10. failed' \in BOOLEAN BY <1>7, <1>1 DEF TypeOK
  <2> QED BY <1>5, <1>6, <2>4, <2>7, <2>9, <2>10 DEF IInv
<1>8. CASE \E depth \in 0..Len(stack) :
             stack' = Disturbed(SubSeq(stack, 1, depth)) /\ failed' = TRUE
  <2>1. PICK depth \in 0..Len(stack) :
               stack' = Disturbed(SubSeq(stack, 1, depth)) /\ failed' = TRUE
    BY <1>8
  <2>2. /\ stack' \in Seq(Frames)
        /\ \A n \in ProgramsIn(stack') : ~stack'[n].clean
    BY <1>1, <2>1, PrefixFrames
  <2>3. OlderDisturbed' /\ ActiveInside'
    BY <1>4, <2>1, <2>2 DEF OlderDisturbed, ActiveInside
  <2> QED BY <1>5, <1>6, <2>1, <2>2, <2>3 DEF IInv
<1> QED BY <1>7, <1>8 DEF cherry_program

(* Frames that are added or taken away.                                    *)
LEMMA FrontFrames ==
    ASSUME TypeOK, stack # << >>
    PROVE  /\ Front(stack) \in Seq(Frames)
           /\ DOMAIN Front(stack) = 1..Len(stack) - 1
           /\ \A n \in DOMAIN Front(stack) : Front(stack)[n] = stack[n]
           /\ Last(stack) = stack[Len(stack)] /\ Len(stack) \in DOMAIN stack
           /\ DOMAIN stack = DOMAIN Front(stack) \cup {Len(stack)}
           /\ ProgramsIn(Front(stack)) = {n \in ProgramsIn(stack) : n < Len(stack)}
<1>1. stack \in Seq(Frames) /\ Len(stack) \in Nat \ {0} BY DEF TypeOK
<1>2. /\ Front(stack) \in Seq(Frames)
      /\ DOMAIN Front(stack) = 1..Len(stack) - 1
      /\ \A n \in 1..Len(stack) - 1 : Front(stack)[n] = stack[n]
  BY <1>1 DEF Front
<1>3. ProgramsIn(Front(stack)) = {n \in ProgramsIn(stack) : n < Len(stack)}
  BY <1>1, <1>2 DEF ProgramsIn
<1>4. DOMAIN stack = 1..Len(stack) BY <1>1
<1>5. 1..Len(stack) = 1..Len(stack) - 1 \cup {Len(stack)} BY <1>1
<1>6. Len(stack) \in DOMAIN stack BY <1>1, <1>4
<1>7. DOMAIN stack = DOMAIN Front(stack) \cup {Len(stack)} BY <1>2, <1>4, <1>5
<1> QED BY <1>2, <1>3, <1>6, <1>7 DEF Last

(* A frame that is left without an exception.                              *)
LEMMA PopKeeps ==
    ASSUME IInv, stack # << >>, stack' = Front(stack),
           \/ /\ ~IsProgram(Last(stack)) /\ UNCHANGED failed
              /\ is_jit_compiling_active' = is_jit_compiling_active
           \/ /\ IsProgram(Last(stack)) /\ failed' = FALSE
              /\ is_jit_compiling_active' = FALSE
    PROVE  stack' \in Seq(Frames) /\ failed' \in BOOLEAN /\ ActiveInside' /\ OlderDisturbed'
<1>1. TypeOK BY DEF IInv
<1>2. /\ stack' \in Seq(Frames)
      /\ \A n \in ProgramsIn(stack') : n \in ProgramsIn(stack) /\ stack'[n] = stack[n]
                                       /\ n < Len(stack)
      /\ ProgramsIn(stack') = {n \in ProgramsIn(stack) : n < Len(stack)}
      /\ Last(stack) = stack[Len(stack)] /\ Len(stack) \in DOMAIN stack
  BY <1>1, FrontFrames DEF ProgramsIn
<1>3. OlderDisturbed'
  BY <1>2 DEF IInv, OlderDisturbed
<1>4. failed' \in BOOLEAN
  BY <1>1 DEF TypeOK
<1>5. CASE ~IsProgram(Last(stack)) /\ UNCHANGED failed
           /\ is_jit_compiling_active' = is_jit_compiling_active
  <2>1. \A n \in ProgramsIn(stack) : n \in 1..Len(stack) /\ n # Len(stack)
    BY <1>1, <1>2, <1>5 DEF ProgramsIn, TypeOK
  <2>2. ProgramsIn(stack') = ProgramsIn(stack)
    BY <1>2, <2>1
  <2>3. Clean' => Clean
    BY <1>2, <2>2 DEF Clean, Innermost, ProgramsIn
  <2>4. ActiveInside'
    BY <1>5, <2>2, <2>3 DEF IInv, ActiveInside
  <2> QED BY <1>2, <1>3, <1>4, <2>4
<1>6. CASE IsProgram(Last(stack)) /\ failed' = FALSE /\ is_jit_compiling_active' = FALSE
  <2>1. Len(stack) \in ProgramsIn(stack)
    BY <1>2, <1>6 DEF ProgramsIn
  <2>2. \A n \in ProgramsIn(stack') : ~stack'[n].clean
    BY <1>2, <2>1 DEF IInv, OlderDisturbed
  <2>3. ~Clean'
    BY <2>2 DEF Clean, Innermost
  <2>4. ActiveInside'
    BY <1>6, <2>3 DEF ActiveInside
  <2> QED BY <1>2, <1>3, <1>4, <2>4
<1> QED BY <1>5, <1>6

(* A generator that is dropped.                                            *)
LEMMA DropKeeps ==
    ASSUME IInv, stack # << >>, ~IsProgram(Last(stack)), stack' = Disturbed(Front(stack)),
           UNCHANGED <<failed, is_jit_compiling_active>>
    PROVE  stack' \in Seq(Frames) /\ failed' \in BOOLEAN /\ ActiveInside' /\ OlderDisturbed'
<1> DEFINE depth == Len(stack) - 1
<1>1. TypeOK /\ stack \in Seq(Frames) BY DEF IInv, TypeOK
<1>2. depth \in 0..Len(stack) /\ Front(stack) = SubSeq(stack, 1, depth)
  BY <1>1 DEF Front
<1>3. Last(stack) = stack[Len(stack)] /\ DOMAIN stack = 1..Len(stack)
  BY <1>1 DEF Last
<1>4. \A n \in ProgramsIn(stack) : n <= depth
  BY <1>1, <1>3 DEF ProgramsIn
<1>5. RaiseInto(depth)
  <2>1. ~\E n \in ProgramsIn(stack) : n > depth
    BY <1>1, <1>3, <1>4 DEF ProgramsIn
  <2>2. failed' = (failed \/ \E n \in ProgramsIn(stack) : n > depth)
    BY <1>1, <2>1 DEF TypeOK
  <2> QED BY <1>2, <2>2 DEF RaiseInto
<1> QED BY <1>2, <1>5, RaiseKeeps

(* A loop that is entered, and a shape that is set.                        *)
LEMMA PushKeeps ==
    ASSUME IInv, NEW frame \in Frames, frame.kind = "loop", stack' = Append(stack, frame),
           UNCHANGED <<failed, is_jit_compiling_active>>
    PROVE  stack' \in Seq(Frames) /\ failed' \in BOOLEAN /\ ActiveInside' /\ OlderDisturbed'
<1>1. TypeOK /\ stack \in Seq(Frames) BY DEF IInv, TypeOK
<1>2. /\ stack' \in Seq(Frames)
      /\ DOMAIN stack' = DOMAIN stack \cup {Len(stack) + 1}
      /\ stack'[Len(stack) + 1] = frame
      /\ \A n \in DOMAIN stack : stack'[n] = stack[n]
  BY <1>1
<1>3. ProgramsIn(stack') = ProgramsIn(stack)
  BY <1>2 DEF ProgramsIn, IsProgram
<1>4. \A n \in ProgramsIn(stack) : stack'[n] = stack[n]
  BY <1>2 DEF ProgramsIn
<1>5. OlderDisturbed'
  BY <1>3, <1>4 DEF IInv, OlderDisturbed
<1>x. Clean' => Clean
  BY <1>3, <1>4 DEF Clean, Innermost, ProgramsIn
<1>6. ActiveInside' BY <1>3, <1>x DEF IInv, ActiveInside
<1> QED BY <1>1, <1>2, <1>5, <1>6 DEF TypeOK

LEMMA ShapeKeeps == IInv /\ set_shape => IInv'
<1> SUFFICES ASSUME IInv, set_shape PROVE IInv'
  OBVIOUS
<1>1. TypeOK /\ stack \in Seq(Frames) /\ UNCHANGED <<globals, failed>>
  BY DEF IInv, TypeOK, set_shape
<1>2. PICK n \in DOMAIN stack : Innermost(n) /\ stack' = [stack EXCEPT ![n].shape = TRUE]
  BY DEF set_shape
<1>3. stack[n] \in Frames /\ stack[n].kind = "program"
  BY <1>1, <1>2, ElementOfSeq DEF Innermost, ProgramsIn, IsProgram
<1> DEFINE frame == [stack[n] EXCEPT !.shape = TRUE]
<1>4. frame \in Frames /\ frame.kind = "program" /\ frame.clean = stack[n].clean
  BY <1>3 DEF Frames
<1>5. /\ stack' \in Seq(Frames) /\ DOMAIN stack' = DOMAIN stack /\ stack'[n] = frame
      /\ \A m \in DOMAIN stack : m # n => stack'[m] = stack[m]
  <2>1. stack' = [stack EXCEPT ![n] = frame] BY <1>2
  <2> HIDE DEF frame
  <2>2. stack' \in Seq(Frames) BY <1>1, <1>4, <2>1, ExceptSeq
  <2> QED BY <1>1, <2>1, <2>2
<1> HIDE DEF frame
<1>6. ProgramsIn(stack') = ProgramsIn(stack)
  BY <1>3, <1>4, <1>5 DEF ProgramsIn, IsProgram
<1>7. \A m \in ProgramsIn(stack) : stack'[m].clean = stack[m].clean
  BY <1>4, <1>5 DEF ProgramsIn
<1>8. OlderDisturbed'
  BY <1>6, <1>7 DEF IInv, OlderDisturbed
<1>y. Clean' => Clean
  BY <1>6, <1>7 DEF Clean, Innermost, ProgramsIn
<1>9. ActiveInside' BY <1>1, <1>6, <1>y DEF IInv, ActiveInside, globals
<1>10. TypeOK' BY <1>1, <1>5 DEF TypeOK, globals
<1>11. ApusMatchProgram' BY <1>1 DEF IInv, ApusMatchProgram, ApuLines, globals
<1> QED BY <1>8, <1>9, <1>10, <1>11 DEF IInv

(* A loop: its line, its record, its frame; or one of the two refusals.    *)
LEMMA RangeTypes ==
    ASSUME NEW args \in Ranges
    PROVE  /\ slope(args) \in Int /\ y_intercept(args) \in Int
           /\ Supported(args) => iterations(args) \in Int
<1>1. args \in Seq(Int) /\ Len(args) \in 1..3 BY CompilerAssumption
<1>2. \A n \in 1..Len(args) : args[n] \in Int BY <1>1
<1>3. \A a, b \in Int : b # 0 => FloorDiv(a, b) \in Int
  BY DEF FloorDiv
<1>4. slope(args) \in Int /\ y_intercept(args) \in Int
  BY <1>1, <1>2 DEF slope, y_intercept
<1>5. ASSUME Supported(args) PROVE iterations(args) \in Int
  <2>1. CASE Len(args) = 1 BY <2>1, <1>2 DEF iterations
  <2>2. CASE Len(args) = 3 /\ args[3] # 0
    <3>1. args[1] \in Int /\ args[2] \in Int /\ args[3] \in Int BY <2>2, <1>2
    <3>2. FloorDiv(args[2] - args[1], args[3]) \in Int BY <3>1, <2>2, <1>3
    <3> QED BY <2>2, <3>2 DEF iterations
  <2> QED BY <1>5, <2>1, <2>2 DEF Supported
<1> QED BY <1>4, <1>5

LEMMA RangeKeeps ==
    ASSUME IInv, NEW args \in Ranges, cherry_range(args) PROVE IInv'
<1> DEFINE line == LoopStart(loop_var_next, args)
<1>1. /\ TypeOK /\ ApusMatchProgram /\ LoopLimit \in Nat
      /\ UNCHANGED <<is_jit_compiling_active, apu_ro_data, next_apu>>
  BY CompilerAssumption DEF IInv, cherry_range
<1>2. ASSUME loop_var_next < LoopLimit, program' = Append(program, line)
      PROVE  program' \in Seq(Lines) /\ ApusMatchProgram'
  <2>1. loop_var_next \in loop_variables
    BY <1>1, <1>2 DEF TypeOK, loop_variables
  <2>2. line \in Lines /\ line.line # "memory"
    BY <2>1 DEF LoopStart, Lines
  <2> HIDE DEF line
  <2>3. program' \in Seq(Lines) BY <1>1, <1>2, <2>2 DEF TypeOK
  <2>4. ApusMatchProgram' BY <1>1, <1>2, <2>2, OtherLine
  <2> QED BY <2>3, <2>4
<1>3. CASE loop_var_next < LoopLimit /\ Supported(args)
  <2> DEFINE frame == [kind |-> "loop", name |-> loop_var_next, args |-> args,
                       value |-> LoopValue(args)]
  <2>1. /\ program' = Append(program, line)
        /\ loop_ro_data' = [loop_ro_data EXCEPT ![loop_var_next] = iterations(args)]
        /\ loop_var_next' = loop_var_next + 1
        /\ stack' = Append(stack, frame)
        /\ UNCHANGED failed
    BY <1>3 DEF cherry_range
  <2>2. loop_var_next \in loop_variables /\ loop_var_next' \in 0..LoopLimit
    BY <1>1, <1>3, <2>1 DEF TypeOK, loop_variables
  <2>3. slope(args) \in Int /\ y_intercept(args) \in Int /\ iterations(args) \in Int
    BY <1>3, RangeTypes
  <2>4. LoopValue(args) \in Formulas
    BY <2>2, <2>3 DEF LoopValue, Formulas
  <2>5. frame \in Frames /\ frame.kind = "loop"
    BY <2>2, <2>4 DEF Frames
  <2>6. loop_ro_data' \in [loop_variables -> Int \cup {None}]
    BY <1>1, <2>1, <2>3 DEF TypeOK
  <2>7. stack' \in Seq(Frames) /\ failed' \in BOOLEAN /\ ActiveInside' /\ OlderDisturbed'
    <3> HIDE DEF frame
    <3> QED BY <1>1, <2>1, <2>5, PushKeeps
  <2>8. program' \in Seq(Lines) /\ ApusMatchProgram'
    BY <1>2, <1>3, <2>1
  <2> HIDE DEF frame, line
  <2> QED BY <1>1, <2>2, <2>6, <2>7, <2>8 DEF IInv, TypeOK
<1>4. CASE ~(loop_var_next < LoopLimit /\ Supported(args))
  <2>1. Raise /\ UNCHANGED <<loop_ro_data, loop_var_next>>
    BY <1>4 DEF cherry_range
  <2>2. PICK depth \in 0..Len(stack) : RaiseInto(depth)
    BY <2>1 DEF Raise
  <2>3. stack' \in Seq(Frames) /\ failed' \in BOOLEAN /\ ActiveInside' /\ OlderDisturbed'
    BY <1>1, <2>2, RaiseKeeps
  <2>4. CASE loop_var_next < LoopLimit
    <3>1. program' = Append(program, line)
      BY <2>4 DEF cherry_range
    <3>2. program' \in Seq(Lines) /\ ApusMatchProgram'
      BY <1>2, <2>4, <3>1
    <3> QED BY <1>1, <2>1, <2>3, <3>2 DEF IInv, TypeOK
  <2>5. CASE ~(loop_var_next < LoopLimit)
    <3>1. UNCHANGED program
      BY <2>5 DEF cherry_range
    <3> QED BY <1>1, <2>1, <2>3, <3>1 DEF IInv, TypeOK, ApusMatchProgram, ApuLines
  <2> QED BY <2>4, <2>5
<1> QED BY <1>3, <1>4

LEMMA RefuseKeeps == IInv /\ Refuse => IInv'
<1> SUFFICES ASSUME IInv, Refuse PROVE IInv'
  OBVIOUS
<1>1. PICK depth \in 0..Len(stack) : RaiseInto(depth)
  BY DEF Refuse, Raise
<1>2. UNCHANGED globals BY DEF Refuse
<1>3. stack' \in Seq(Frames) /\ failed' \in BOOLEAN /\ ActiveInside' /\ OlderDisturbed'
  BY <1>1, <1>2, RaiseKeeps DEF globals
<1> QED BY <1>2, <1>3 DEF IInv, TypeOK, ApusMatchProgram, ApuLines, globals

LEMMA UseApuKeeps ==
    ASSUME IInv, NEW address \in Formulas, use_apu(address)
    PROVE  IInv'
<1>1. CASE ApuLeft
  <2>1. /\ next_apu < ApuLimit
        /\ apu_ro_data' = [apu_ro_data EXCEPT ![next_apu] = address]
        /\ next_apu' = next_apu + 1
        /\ program' = Append(program, [line |-> "memory", apu |-> next_apu, address |-> address])
        /\ UNCHANGED <<is_jit_compiling_active, loop_var_next, loop_ro_data, stack, failed>>
    BY <1>1 DEF use_apu, ApuLeft
  <2>2. /\ ApusMatchProgram' /\ next_apu' \in 0..ApuLimit
        /\ apu_ro_data' \in [0..ApuLimit - 1 -> Formulas \cup {None}]
        /\ program' \in Seq(Lines)
    BY <2>1, ApuLine DEF IInv
  <2>3. TypeOK' BY <2>1, <2>2 DEF IInv, TypeOK
  <2>4. ActiveInside' /\ OlderDisturbed'
    BY <2>1 DEF IInv, ActiveInside, OlderDisturbed, Clean, Innermost
  <2> QED BY <2>2, <2>3, <2>4 DEF IInv
<1>2. CASE ~ApuLeft
  BY <1>2, RefuseKeeps DEF use_apu
<1> QED BY <1>1, <1>2

LEMMA OpKeeps == IInv /\ cisa_op => IInv'
<1> SUFFICES ASSUME IInv, cisa_op PROVE IInv'
  OBVIOUS
<1> DEFINE line == [line |-> "op"]
<1>1. CASE is_jit_compiling_active
  <2>1. /\ program' = Append(program, line)
        /\ UNCHANGED <<is_jit_compiling_active, loop_var_next, loop_ro_data,
                       apu_ro_data, next_apu, stack, failed>>
    BY <1>1 DEF cisa_op
  <2>2. line \in Lines /\ line.line # "memory"
    BY DEF Lines
  <2> HIDE DEF line
  <2>3. ApusMatchProgram' BY <2>1, <2>2, OtherLine DEF IInv
  <2>4. TypeOK' BY <2>1, <2>2 DEF IInv, TypeOK
  <2>5. ActiveInside' /\ OlderDisturbed'
    BY <2>1 DEF IInv, ActiveInside, OlderDisturbed, Clean, Innermost
  <2> QED BY <2>3, <2>4, <2>5 DEF IInv
<1>2. CASE ~is_jit_compiling_active
  BY <1>2, RefuseKeeps DEF cisa_op
<1> QED BY <1>1, <1>2

LEMMA ReturnKeeps == IInv /\ Return => IInv'
<1> SUFFICES ASSUME IInv, Return PROVE IInv'
  OBVIOUS
<1>1. /\ stack # << >> /\ IsProgram(Last(stack))
      /\ UNCHANGED <<loop_var_next, loop_ro_data, apu_ro_data, next_apu, program>>
  BY DEF Return
<1>2. ApusMatchProgram'
  BY <1>1 DEF IInv, ApusMatchProgram, ApuLines
<1>3. CASE Last(stack).shape
  <2>1. is_jit_compiling_active' = FALSE /\ stack' = Front(stack) /\ failed' = FALSE
    BY <1>3 DEF Return, EndOfProgram
  <2>2. stack' \in Seq(Frames) /\ failed' \in BOOLEAN /\ ActiveInside' /\ OlderDisturbed'
    BY <1>1, <2>1, PopKeeps
  <2> QED BY <1>1, <1>2, <2>1, <2>2 DEF IInv, TypeOK
<1>4. CASE ~Last(stack).shape
  <2>1. is_jit_compiling_active' = is_jit_compiling_active
    BY <1>4 DEF Return
  <2>2. PICK depth \in 0..Len(stack) - 1 : RaiseInto(depth)
    BY <1>4 DEF Return
  <2>3. depth \in 0..Len(stack)
    BY <1>1 DEF IInv, TypeOK
  <2>4. stack' \in Seq(Frames) /\ failed' \in BOOLEAN /\ ActiveInside' /\ OlderDisturbed'
    BY <2>1, <2>2, <2>3, RaiseKeeps
  <2> QED BY <1>1, <1>2, <2>1, <2>4 DEF IInv, TypeOK
<1> QED BY <1>3, <1>4

LEMMA LoopEndKeeps == IInv /\ LoopEnd => IInv'
<1> SUFFICES ASSUME IInv, LoopEnd PROVE IInv'
  OBVIOUS
<1> DEFINE line == [line |-> "loop_end"]
<1>1. /\ stack # << >> /\ ~IsProgram(Last(stack)) /\ stack' = Front(stack)
      /\ program' = Append(program, line)
      /\ UNCHANGED <<is_jit_compiling_active, loop_var_next, loop_ro_data, apu_ro_data,
                     next_apu, failed>>
  BY DEF LoopEnd
<1>2. line \in Lines /\ line.line # "memory"
  BY DEF Lines
<1> HIDE DEF line
<1>3. ApusMatchProgram' BY <1>1, <1>2, OtherLine DEF IInv
<1>4. stack' \in Seq(Frames) /\ failed' \in BOOLEAN /\ ActiveInside' /\ OlderDisturbed'
  BY <1>1, PopKeeps
<1> QED BY <1>1, <1>2, <1>3, <1>4 DEF IInv, TypeOK

-----------------------------------------------------------------------------
(* What a caller passes is a formula.                                      *)
LEMMA ValuesAreFormulas ==
    ASSUME IInv PROVE \A address \in Values : address \in Formulas
<1> SUFFICES ASSUME NEW address \in Values PROVE address \in Formulas
  OBVIOUS
<1>1. CASE \E n \in Addresses : address = Number(n)
  BY <1>1, CompilerAssumption DEF Number, Formulas
<1>2. CASE \E n \in DOMAIN stack \ ProgramsIn(stack) : address = stack[n].value
  <2>1. PICK n \in DOMAIN stack \ ProgramsIn(stack) : address = stack[n].value
    BY <1>2
  <2>2. stack[n] \in Frames /\ stack[n].kind # "program"
    BY <2>1, ElementOfSeq DEF IInv, TypeOK, ProgramsIn, IsProgram
  <2> QED BY <2>1, <2>2 DEF Frames
<1> QED BY <1>1, <1>2 DEF Values

(* Every step keeps the invariant: one lemma for each of its forms.        *)
LEMMA NextKeeps == IInv /\ [Next]_vars => IInv'
<1> SUFFICES ASSUME IInv, [Next]_vars PROVE IInv'
  OBVIOUS
<1>1. \A address \in Values : address \in Formulas
  BY ValuesAreFormulas
<1>2. CASE cherry_program BY <1>2, CallKeeps
<1>3. CASE set_shape BY <1>3, ShapeKeeps
<1>4. CASE Return BY <1>4, ReturnKeeps
<1>5. CASE \E args \in Ranges : cherry_range(args) BY <1>5, RangeKeeps
<1>6. CASE LoopEnd BY <1>6, LoopEndKeeps
<1>7. CASE Break
  <2>1. stack' \in Seq(Frames) /\ failed' \in BOOLEAN /\ ActiveInside' /\ OlderDisturbed'
    BY <1>7, DropKeeps DEF Break, globals
  <2> QED BY <1>7, <2>1 DEF Break, IInv, TypeOK, ApusMatchProgram, ApuLines, globals
<1>8. CASE Throw
  <2>1. PICK depth \in 0..Len(stack) - 1 : RaiseInto(depth)
    BY <1>8 DEF Throw
  <2>2. depth \in 0..Len(stack) /\ UNCHANGED globals
    BY <1>8 DEF Throw, IInv, TypeOK
  <2>3. Refuse BY <2>1, <2>2 DEF Refuse, Raise
  <2> QED BY <2>3, RefuseKeeps
<1>9. CASE cisa_op BY <1>9, OpKeeps
<1>10. CASE \E address \in Values, bits \in SlotBits : cisa_load(address, bits)
  <2>1. PICK address \in Values, bits \in SlotBits : cisa_load(address, bits)
    BY <1>10
  <2>2. use_apu(address) \/ Refuse
    BY <2>1 DEF cisa_load
  <2>3. address \in Formulas
    BY <1>1
  <2> QED BY <2>2, <2>3, UseApuKeeps, RefuseKeeps
<1>11. CASE \E address \in Values : \/ cisa_store(address)
                                     \/ cisa_mem_read(address)
                                     \/ cisa_mem_write(address)
  <2>1. PICK address \in Values : \/ cisa_store(address)
                                  \/ cisa_mem_read(address)
                                  \/ cisa_mem_write(address)
    BY <1>11
  <2>2. use_apu(address) \/ Refuse
    BY <2>1 DEF cisa_store, cisa_mem_read, cisa_mem_write
  <2> QED BY <1>1, <2>2, UseApuKeeps, RefuseKeeps
<1>12. CASE UNCHANGED vars
  BY <1>12 DEF IInv, TypeOK, ApusMatchProgram, ApuLines, ActiveInside, OlderDisturbed, Clean,
               Innermost, vars, globals
<1> QED BY <1>2, <1>3, <1>4, <1>5, <1>6, <1>7, <1>8, <1>9, <1>10, <1>11, <1>12 DEF Next

(* Every reachable state has the invariant.                                *)
THEOREM Invariant == Spec => []IInv
<1> QED BY InitHolds, NextKeeps, PTL DEF Spec

(* The state of the compiler has its types whatever its caller does: no    *)
(* loop or APU number leaves its table (compiler.py:56-62).                *)
THEOREM TypeCorrect == Spec => []TypeOK
<1>1. IInv => TypeOK BY DEF IInv
<1> QED BY <1>1, Invariant, PTL

(* Every line with an APU has an APU of its own, which holds its address   *)
(* (compiler.py:203-240).                                                  *)
THEOREM ApusMatch == Spec => []ApusMatchProgram
<1>1. IInv => ApusMatchProgram BY DEF IInv
<1> QED BY <1>1, Invariant, PTL

(* Instructions are accepted outside every program only after a program    *)
(* failed, and refused in one only after another returned in it            *)
(* (compiler.py:103-109).                                                  *)
THEOREM ActiveIsInside == Spec => []ActiveInside
<1>1. IInv => ActiveInside BY DEF IInv
<1> QED BY <1>1, Invariant, PTL

-----------------------------------------------------------------------------
(* The lines of a program.  A trace gives the loops that are open after    *)
(* each number of lines; Straight is what holds while nothing unusual      *)
(* happened in the innermost program.                                      *)
IsTrace(f, lines) ==
    f = [n \in 0..Len(lines) |-> IF n = 0 THEN << >> ELSE After(f[n - 1], lines[n])]
Recorded(name, args) ==
    name < loop_var_next /\ Supported(args) /\ loop_ro_data[name] = iterations(args)
LoopFrame(frame) ==
    /\ Recorded(frame.name, frame.args)
    /\ frame.value = [var |-> frame.name, slope |-> slope(frame.args),
                      const |-> y_intercept(frame.args)]
Straight ==
    /\ \A f : IsTrace(f, program) => f[Len(program)] = OpenLoops
    /\ \A n \in StartLines : Recorded(program[n].name, program[n].args)
    /\ \A m, n \in StartLines : m < n => program[m].name < program[n].name
    /\ \A name \in 0..loop_var_next - 1 : \E n \in StartLines : program[n].name = name
    /\ \A n \in DOMAIN stack \ ProgramsIn(stack) :
         (\A p \in ProgramsIn(stack) : p < n) => LoopFrame(stack[n])
Nested == (\E f : IsTrace(f, program)) /\ (Clean => Straight)

(* A trace of a program with one line more.                                *)
LEMMA LongerTrace ==
    ASSUME NEW lines \in Seq(Lines), NEW l \in Lines, NEW f, IsTrace(f, lines)
    PROVE  /\ \E g : IsTrace(g, Append(lines, l))
           /\ \A g : IsTrace(g, Append(lines, l)) =>
                g[Len(lines) + 1] = After(g[Len(lines)], l)
                /\ IsTrace([n \in 0..Len(lines) |-> g[n]], lines)
<1> DEFINE longer == Append(lines, l)
           last == Len(lines) + 1
           g == [n \in 0..last |-> IF n = last THEN After(f[n - 1], l) ELSE f[n]]
<1>1. /\ Len(lines) \in Nat /\ Len(longer) = last
      /\ \A n \in 1..Len(lines) : longer[n] = lines[n]
      /\ longer[last] = l
  OBVIOUS
<1> HIDE DEF longer
<1>2. IsTrace(g, longer)
  <2>1. \A n \in 0..last :
          g[n] = IF n = 0 THEN << >> ELSE After(g[n - 1], longer[n])
    <3> SUFFICES ASSUME NEW n \in 0..last
                 PROVE  g[n] = IF n = 0 THEN << >> ELSE After(g[n - 1], longer[n])
      OBVIOUS
    <3>1. CASE n = last
      <4>1. n # 0 /\ n - 1 \in 0..last /\ n - 1 # last BY <1>1, <3>1
      <4>2. g[n] = After(f[n - 1], l) /\ g[n - 1] = f[n - 1] BY <3>1, <4>1
      <4> HIDE DEF g
      <4> QED BY <1>1, <3>1, <4>1, <4>2
    <3>2. CASE n # last
      <4>1. n \in 0..Len(lines) BY <1>1, <3>2
      <4>2. f[n] = IF n = 0 THEN << >> ELSE After(f[n - 1], lines[n])
        BY <4>1 DEF IsTrace
      <4>3. g[n] = f[n] BY <3>2
      <4>4. n # 0 => g[n - 1] = f[n - 1] /\ longer[n] = lines[n]
        <5> SUFFICES ASSUME n # 0 PROVE g[n - 1] = f[n - 1] /\ longer[n] = lines[n]
          OBVIOUS
        <5>1. n - 1 \in 0..last /\ n - 1 # last /\ n \in 1..Len(lines) BY <4>1, <1>1
        <5> QED BY <5>1, <1>1
      <4> HIDE DEF g
      <4> QED BY <4>2, <4>3, <4>4
    <3> QED BY <3>1, <3>2
  <2> DEFINE h == [n \in 0..last |-> IF n = 0 THEN << >> ELSE After(g[n - 1], longer[n])]
  <2>2. \A n \in 0..last : h[n] = IF n = 0 THEN << >> ELSE After(g[n - 1], longer[n])
    OBVIOUS
  <2>3. h = [n \in 0..last |-> h[n]] /\ g = [n \in 0..last |-> g[n]]
    OBVIOUS
  <2> HIDE DEF h, g
  <2>4. g = h BY <2>1, <2>2, <2>3
  <2> QED BY <1>1, <2>4 DEF IsTrace, h
<1>3. ASSUME NEW e, IsTrace(e, longer)
      PROVE  /\ e[last] = After(e[Len(lines)], l)
             /\ IsTrace([n \in 0..Len(lines) |-> e[n]], lines)
  <2> DEFINE h == [n \in 0..Len(lines) |-> e[n]]
  <2>1. \A n \in 0..last : e[n] = IF n = 0 THEN << >> ELSE After(e[n - 1], longer[n])
    BY <1>1, <1>3 DEF IsTrace
  <2>2. e[last] = After(e[Len(lines)], l)
    <3>1. last \in 0..last /\ last # 0 /\ last - 1 = Len(lines) BY <1>1
    <3> QED BY <2>1, <3>1, <1>1
  <2>3. ASSUME NEW n \in 0..Len(lines)
        PROVE  h[n] = IF n = 0 THEN << >> ELSE After(h[n - 1], lines[n])
    <3>1. n \in 0..last /\ h[n] = e[n] BY <1>1
    <3>2. CASE n = 0 BY <2>1, <3>1, <3>2
    <3>3. CASE n # 0
      <4>1. n - 1 \in 0..Len(lines) /\ n \in 1..Len(lines) BY <1>1, <3>3
      <4>2. h[n - 1] = e[n - 1] /\ longer[n] = lines[n] BY <4>1, <1>1
      <4> HIDE DEF h
      <4> QED BY <2>1, <3>1, <3>3, <4>2
    <3> QED BY <3>2, <3>3
  <2> DEFINE k == [n \in 0..Len(lines) |-> IF n = 0 THEN << >> ELSE After(h[n - 1], lines[n])]
  <2>4. \A n \in 0..Len(lines) : k[n] = IF n = 0 THEN << >> ELSE After(h[n - 1], lines[n])
    OBVIOUS
  <2>5. k = [n \in 0..Len(lines) |-> k[n]] /\ h = [n \in 0..Len(lines) |-> h[n]]
    OBVIOUS
  <2>x. IsTrace(h, lines) = (h = k)
    BY DEF IsTrace
  <2> HIDE DEF h, k
  <2>6. h = k BY <2>3, <2>4, <2>5
  <2> QED BY <2>2, <2>6, <2>x DEF h
<1> QED BY <1>2, <1>3 DEF longer

(* The largest of a set of numbers.                                        *)
LEMMA MaxIs ==
    ASSUME NEW S \in SUBSET Int, NEW n \in S, \A m \in S : m <= n
    PROVE  Max(S) = n
<1>1. \E x \in S : \A y \in S : x >= y BY DEF Max
<1> DEFINE x == CHOOSE x \in S : \A y \in S : x >= y
<1>2. x \in S /\ \A y \in S : x >= y BY <1>1
<1>3. Max(S) = x BY DEF Max
<1> HIDE DEF x
<1>4. x >= n /\ x <= n /\ x \in Int /\ n \in Int BY <1>2
<1> QED BY <1>3, <1>4

(* The innermost program of a stack, and the loops opened in it.           *)
Top(s, p) == p \in ProgramsIn(s) /\ \A m \in ProgramsIn(s) : m <= p
OpenIn(s) == LET p == Max({0} \cup ProgramsIn(s)) IN [n \in 1..Len(s) - p |-> s[p + n].name]

LEMMA OpenIs ==
    ASSUME NEW s \in Seq(Frames), NEW p, Top(s, p)
    PROVE  /\ OpenIn(s) = [n \in 1..Len(s) - p |-> s[p + n].name]
           /\ OpenIn(s) \in Seq(loop_variables) /\ Len(OpenIn(s)) = Len(s) - p
           /\ p \in 1..Len(s)
           /\ \A m \in DOMAIN s \ ProgramsIn(s) : (\A q \in ProgramsIn(s) : q < m) <=> p < m
<1>1. p \in 1..Len(s) /\ Len(s) \in Nat
      /\ p \in ProgramsIn(s) /\ \A m \in ProgramsIn(s) : m \in 1..Len(s) /\ m <= p
  BY DEF Top, ProgramsIn
<1>2. Max({0} \cup ProgramsIn(s)) = p
  <2> DEFINE S == {0} \cup ProgramsIn(s)
  <2>1. \A m \in S : m \in Int /\ m <= p BY <1>1
  <2>2. S \in SUBSET Int /\ p \in S BY <1>1, <2>1
  <2> HIDE DEF S
  <2> QED BY <2>1, <2>2, MaxIs DEF S
<1> DEFINE len == Len(s) - p
           open == [n \in 1..len |-> s[p + n].name]
<1>3. OpenIn(s) = open
  BY <1>2 DEF OpenIn
<1>4. ASSUME NEW n \in 1..len PROVE s[p + n].name \in loop_variables
  <2>1. p + n \in 1..Len(s) /\ ~(p + n <= p) BY <1>1
  <2>2. s[p + n] \in Frames /\ s[p + n].kind # "program"
    BY <1>1, <2>1, ElementOfSeq DEF ProgramsIn, IsProgram
  <2> QED BY <2>2 DEF Frames
<1>5. len \in Nat BY <1>1
<1>6. open \in Seq(loop_variables) /\ Len(open) = len
  <2>1. open \in [1..len -> loop_variables] BY <1>4
  <2> HIDE DEF open, len
  <2> QED BY <1>5, <2>1
<1>7. \A m \in DOMAIN s \ ProgramsIn(s) : (\A q \in ProgramsIn(s) : q < m) <=> p < m
  <2> SUFFICES ASSUME NEW m \in DOMAIN s PROVE (\A q \in ProgramsIn(s) : q < m) <=> p < m
    OBVIOUS
  <2>1. m \in Int OBVIOUS
  <2> QED BY <1>1, <2>1
<1> QED BY <1>1, <1>3, <1>6, <1>7

(* Clean and OpenLoops in these terms, before and after a step.            *)
LEMMA CleanIs ==
    /\ Clean <=> \E p : Top(stack, p) /\ stack[p].clean
    /\ Clean' <=> \E p : Top(stack', p) /\ stack'[p].clean
    /\ OpenLoops = OpenIn(stack) /\ OpenLoops' = OpenIn(stack')
BY DEF Clean, Innermost, Top, ProgramsIn, OpenLoops, OpenIn

(* No program is clean where all of them have been disturbed.              *)
LEMMA RaiseNested ==
    ASSUME TypeOK, NEW depth \in 0..Len(stack), stack' = Disturbed(SubSeq(stack, 1, depth))
    PROVE  ~Clean'
<1>1. \A n \in ProgramsIn(stack') : ~stack'[n].clean
  BY PrefixFrames
<1> QED BY <1>1 DEF Clean, Innermost

(* A trace of no lines.                                                    *)
LEMMA NoTrace == \E f : IsTrace(f, << >>)
<1> DEFINE f == [n \in 0..0 |-> << >>]
           g == [n \in 0..0 |-> IF n = 0 THEN << >> ELSE After(f[n - 1], << >>[n])]
<1>1. \A n \in 0..0 : n = 0 OBVIOUS
<1>2. f = g BY <1>1
<1>3. IsTrace(f, << >>) BY <1>2 DEF IsTrace
<1> QED BY <1>3

(* Nothing is open at the start.                                           *)
LEMMA InitNested == Init => Nested
<1> SUFFICES ASSUME Init PROVE Nested
  OBVIOUS
<1>1. program = << >> /\ ProgramsIn(stack) = {}
  BY DEF Init, ProgramsIn
<1>2. ~Clean BY <1>1 DEF Clean, Innermost
<1>3. \E f : IsTrace(f, << >>)
  BY NoTrace
<1> QED BY <1>1, <1>2, <1>3 DEF Nested

(* The call of a program: its lines, and what is open in it, are none.     *)
LEMMA CallNested == IInv /\ cherry_program => Nested'
<1> SUFFICES ASSUME IInv, cherry_program PROVE Nested'
  OBVIOUS
<1>1. /\ program' = << >> /\ loop_var_next' = 0
      /\ TypeOK /\ stack \in Seq(Frames)
  BY DEF cherry_program, Reset, IInv, TypeOK
<1>2. \E f : IsTrace(f, program')
  BY <1>1, NoTrace
<1>3. CASE stack' = Append(Disturbed(stack), Called) /\ UNCHANGED failed
  <2> DEFINE s == Disturbed(stack)
             frame == Called
  <2>1. s \in Seq(Frames) BY <1>1, DisturbedFrames
  <2>2. frame \in Frames /\ frame.kind = "program" BY DEF Called, Frames
  <2> HIDE DEF s, frame
  <2>p. PICK p : p = Len(s) + 1 OBVIOUS
  <2>3. /\ stack' \in Seq(Frames) /\ Len(stack') = p /\ DOMAIN stack' = 1..p
        /\ stack'[p] = frame /\ p \in Nat \ {0}
    BY <1>3, <2>1, <2>2, <2>p DEF s, frame
  <2>4. Top(stack', p)
    BY <2>2, <2>3 DEF Top, ProgramsIn, IsProgram
  <2>5. OpenLoops' = << >>
    <3>1. OpenLoops' \in Seq(loop_variables) /\ Len(OpenLoops') = 0
      BY <2>3, <2>4, OpenIs, CleanIs
    <3> QED BY <3>1
  <2>6. \A n \in DOMAIN stack' \ ProgramsIn(stack') : ~\A m \in ProgramsIn(stack') : m < n
    BY <2>3, <2>4 DEF Top
  <2>7. StartLines' = {} BY <1>1 DEF StartLines
  <2>8. \A f : IsTrace(f, program)' => f[Len(program')] = OpenLoops'
    <3> SUFFICES ASSUME NEW f, IsTrace(f, << >>) PROVE f[0] = << >>
      BY <1>1, <2>5
    <3>1. Len(<< >>) = 0 /\ 0 \in 0..0 OBVIOUS
    <3> QED BY <3>1 DEF IsTrace
  <2>9. Straight'
    BY <1>1, <2>6, <2>7, <2>8 DEF Straight
  <2> QED BY <1>2, <2>9 DEF Nested
<1>4. CASE \E depth \in 0..Len(stack) :
             stack' = Disturbed(SubSeq(stack, 1, depth)) /\ failed' = TRUE
  BY <1>1, <1>2, <1>4, RaiseNested DEF Nested
<1> QED BY <1>3, <1>4 DEF cherry_program

(* A step that leaves the lines and the loops alone, or adds a line that   *)
(* is not about loops.                                                     *)
LEMMA OtherNested ==
    ASSUME IInv, Nested, NEW l \in Lines, l.line \in {"op", "memory"},
           program' = program \/ program' = Append(program, l),
           UNCHANGED <<loop_ro_data, loop_var_next, stack>>
    PROVE  Nested'
<1>1. program \in Seq(Lines) /\ DOMAIN program = 1..Len(program) BY DEF IInv, TypeOK
<1>2. CASE program' = program
  <2>1. OpenLoops' = OpenLoops BY CleanIs
  <2>2. Clean' = Clean BY DEF Clean, Innermost
  <2>3. StartLines' = StartLines BY <1>2 DEF StartLines
  <2>4. Straight => Straight' BY <1>2, <2>1, <2>3 DEF Straight, Recorded, LoopFrame
  <2> QED BY <1>2, <2>2, <2>4 DEF Nested
<1>3. CASE program' = Append(program, l)
  <2>1. \E f : IsTrace(f, program') BY <1>1, <1>3, LongerTrace DEF Nested
  <2>2. ASSUME Clean' PROVE Straight'
    <3>1. Clean /\ Straight BY <2>2 DEF Nested, Clean, Innermost
    <3>2. OpenLoops' = OpenLoops BY CleanIs
    <3>3. \A f : IsTrace(f, program)' => f[Len(program')] = OpenLoops'
      <4> SUFFICES ASSUME NEW f, IsTrace(f, Append(program, l))
                   PROVE  f[Len(program) + 1] = OpenLoops
        BY <1>1, <1>3, <3>2
      <4>1. PICK g : IsTrace(g, program) BY DEF Nested
      <4>2. /\ f[Len(program) + 1] = After(f[Len(program)], l)
            /\ IsTrace([n \in 0..Len(program) |-> f[n]], program)
        BY <1>1, <4>1, LongerTrace
      <4>3. Len(program) \in 0..Len(program) BY <1>1
      <4>4. f[Len(program)] = OpenLoops
        BY <3>1, <4>2, <4>3 DEF Straight
      <4>5. After(OpenLoops, l) = OpenLoops BY DEF After
      <4> QED BY <4>2, <4>4, <4>5
    <3>4. StartLines' = StartLines /\ \A n \in StartLines : program'[n] = program[n]
      BY <1>1, <1>3 DEF StartLines
    <3> QED BY <3>1, <3>3, <3>4 DEF Straight, Recorded, LoopFrame
  <2> QED BY <2>1, <2>2 DEF Nested
<1> QED BY <1>2, <1>3

(* A shape is set.                                                         *)
LEMMA ShapeNested == IInv /\ Nested /\ set_shape => Nested'
<1> SUFFICES ASSUME IInv, Nested, set_shape PROVE Nested'
  OBVIOUS
<1>1. stack \in Seq(Frames) /\ UNCHANGED <<program, loop_ro_data, loop_var_next>>
  BY DEF IInv, TypeOK, set_shape, globals
<1>2. PICK n \in DOMAIN stack : Innermost(n) /\ stack' = [stack EXCEPT ![n].shape = TRUE]
  BY DEF set_shape
<1>3. stack[n] \in Frames /\ stack[n].kind = "program"
  BY <1>1, <1>2, ElementOfSeq DEF Innermost, ProgramsIn, IsProgram
<1> DEFINE frame == [stack[n] EXCEPT !.shape = TRUE]
<1>4. frame \in Frames /\ frame.kind = "program" /\ frame.clean = stack[n].clean
  BY <1>3 DEF Frames
<1>5. /\ stack' \in Seq(Frames) /\ DOMAIN stack' = DOMAIN stack /\ stack'[n] = frame
      /\ Len(stack') = Len(stack)
      /\ \A m \in DOMAIN stack : m # n => stack'[m] = stack[m]
  <2>1. stack' = [stack EXCEPT ![n] = frame] BY <1>2
  <2> HIDE DEF frame
  <2>2. stack' \in Seq(Frames) BY <1>1, <1>4, <2>1, ExceptSeq
  <2> QED BY <1>1, <2>1, <2>2
<1> HIDE DEF frame
<1>6. ProgramsIn(stack') = ProgramsIn(stack)
  BY <1>3, <1>4, <1>5 DEF ProgramsIn, IsProgram
<1>7. \A m \in DOMAIN stack \ ProgramsIn(stack) : stack'[m] = stack[m]
  BY <1>2, <1>5 DEF Innermost
<1>8. ASSUME Clean' PROVE Straight'
  <2>1. PICK p : Top(stack', p) /\ stack'[p].clean BY <1>8, CleanIs
  <2>2. Top(stack, p) BY <1>6, <2>1 DEF Top
  <2>3. stack[p].clean BY <2>1, <2>2, <1>4, <1>5 DEF Top, ProgramsIn
  <2>4. Straight BY <2>2, <2>3, CleanIs DEF Nested
  <2>5. OpenIn(stack') = OpenIn(stack)
    <3>1. /\ OpenIn(stack) = [m \in 1..Len(stack) - p |-> stack[p + m].name]
          /\ OpenIn(stack') = [m \in 1..Len(stack') - p |-> stack'[p + m].name]
      BY <1>1, <1>5, <2>1, <2>2, OpenIs
    <3>2. ASSUME NEW m \in 1..Len(stack) - p PROVE stack'[p + m] = stack[p + m]
      <4>1. p \in 1..Len(stack) /\ Len(stack) \in Nat BY <1>1, <2>2, OpenIs
      <4>2. p + m \in 1..Len(stack) /\ ~(p + m <= p) BY <4>1
      <4>3. p + m \in DOMAIN stack \ ProgramsIn(stack) BY <1>1, <2>2, <4>2 DEF Top
      <4> QED BY <1>7, <4>3
    <3> QED BY <1>5, <3>1, <3>2
  <2>6. OpenLoops' = OpenLoops /\ StartLines' = StartLines
    BY <1>1, <2>5, CleanIs DEF StartLines
  <2> QED BY <1>1, <1>5, <1>6, <1>7, <2>4, <2>6 DEF Straight, Recorded, LoopFrame
<1> QED BY <1>1, <1>8 DEF Nested

(* The end of the innermost loop: its line closes it.                      *)
LEMMA LoopEndNested == IInv /\ Nested /\ LoopEnd => Nested'
<1> SUFFICES ASSUME IInv, Nested, LoopEnd PROVE Nested'
  OBVIOUS
<1> DEFINE l == [line |-> "loop_end"]
<1>1. /\ stack # << >> /\ ~IsProgram(Last(stack)) /\ stack' = Front(stack)
      /\ program' = Append(program, l) /\ UNCHANGED <<loop_ro_data, loop_var_next>>
      /\ stack \in Seq(Frames) /\ program \in Seq(Lines)
  BY DEF LoopEnd, IInv, TypeOK
<1>2. l \in Lines /\ l.line = "loop_end" BY DEF Lines
<1> HIDE DEF l
<1>3. \E f : IsTrace(f, program') BY <1>1, <1>2, LongerTrace DEF Nested
<1>4. /\ stack' \in Seq(Frames) /\ Len(stack) \in Nat \ {0} /\ Len(stack') = Len(stack) - 1
      /\ DOMAIN stack' = 1..Len(stack) - 1 /\ DOMAIN stack = 1..Len(stack)
      /\ \A n \in 1..Len(stack) - 1 : stack'[n] = stack[n]
      /\ Len(stack) \notin ProgramsIn(stack)
  <2>1. /\ DOMAIN Front(stack) = 1..Len(stack) - 1
        /\ \A n \in DOMAIN Front(stack) : Front(stack)[n] = stack[n]
        /\ Front(stack) \in Seq(Frames) /\ Last(stack) = stack[Len(stack)]
    BY <1>1, FrontFrames DEF IInv
  <2>2. Len(stack) \in Nat \ {0} /\ DOMAIN stack = 1..Len(stack) BY <1>1
  <2>3. Len(Front(stack)) = Len(stack) - 1
    <3> DEFINE s == Front(stack)
    <3>1. s \in Seq(Frames) /\ DOMAIN s = 1..Len(stack) - 1 /\ Len(stack) - 1 \in Nat BY <2>1, <2>2
    <3> HIDE DEF s
    <3>2. Len(s) = Len(stack) - 1 BY <3>1
    <3> QED BY <3>2 DEF s
  <2>4. Len(stack) \notin ProgramsIn(stack) BY <1>1, <2>1 DEF ProgramsIn
  <2> QED BY <1>1, <2>1, <2>2, <2>3, <2>4
<1>5. ProgramsIn(stack') = ProgramsIn(stack)
  BY <1>4 DEF ProgramsIn
<1>6. ASSUME Clean' PROVE Straight'
  <2>1. PICK p : Top(stack', p) /\ stack'[p].clean BY <1>6, CleanIs
  <2>2. Top(stack, p) BY <1>5, <2>1 DEF Top
  <2>3. stack[p].clean BY <2>1, <1>4 DEF Top, ProgramsIn
  <2>4. Straight BY <2>2, <2>3, CleanIs DEF Nested
  <2>5. /\ OpenIn(stack) = [m \in 1..Len(stack) - p |-> stack[p + m].name]
        /\ OpenIn(stack) \in Seq(loop_variables) /\ Len(OpenIn(stack)) = Len(stack) - p
        /\ OpenIn(stack') = [m \in 1..Len(stack') - p |-> stack'[p + m].name]
        /\ OpenIn(stack') \in Seq(loop_variables) /\ Len(OpenIn(stack')) = Len(stack') - p
        /\ p \in 1..Len(stack')
    BY <1>1, <1>4, <2>1, <2>2, OpenIs
  <2>6. OpenLoops # << >> /\ OpenLoops' = Front(OpenLoops)
    <3>1. ASSUME NEW m \in 1..Len(stack') - p
          PROVE  OpenIn(stack')[m] = OpenIn(stack)[m]
      <4>1. m \in 1..Len(stack) - p /\ p + m \in 1..Len(stack) - 1 BY <1>4, <2>5
      <4> QED BY <1>4, <2>5, <4>1
    <3>2. Len(OpenIn(stack)) \in Nat \ {0} BY <1>4, <2>5
    <3> DEFINE a == OpenIn(stack)
               b == OpenIn(stack')
    <3>3. /\ a \in Seq(loop_variables) /\ b \in Seq(loop_variables)
          /\ Len(b) = Len(a) - 1 /\ Len(a) \in Nat \ {0}
          /\ \A m \in 1..Len(b) : b[m] = a[m]
      BY <1>4, <2>5, <3>1, <3>2
    <3> HIDE DEF a, b
    <3>4. a # << >> /\ b = Front(a)
      <4>1. /\ Front(a) \in Seq(loop_variables) /\ Len(Front(a)) = Len(a) - 1
            /\ \A m \in 1..Len(a) - 1 : Front(a)[m] = a[m]
        BY <3>3 DEF Front
      <4> QED BY <3>3, <4>1
    <3> QED BY <3>4, CleanIs DEF a, b
  <2>7. \A f : IsTrace(f, program)' => f[Len(program')] = OpenLoops'
    <3> SUFFICES ASSUME NEW f, IsTrace(f, Append(program, l))
                 PROVE  f[Len(program) + 1] = OpenLoops'
      BY <1>1
    <3>1. PICK g : IsTrace(g, program) BY DEF Nested
    <3>2. /\ f[Len(program) + 1] = After(f[Len(program)], l)
          /\ IsTrace([n \in 0..Len(program) |-> f[n]], program)
      BY <1>1, <1>2, <3>1, LongerTrace
    <3>3. Len(program) \in 0..Len(program) BY <1>1
    <3>4. f[Len(program)] = OpenLoops
      BY <2>4, <3>2, <3>3 DEF Straight
    <3>5. After(OpenLoops, l) = Front(OpenLoops) BY <1>2, <2>6 DEF After
    <3> QED BY <2>6, <3>2, <3>4, <3>5
  <2>8. StartLines' = StartLines /\ \A n \in StartLines : program'[n] = program[n]
    BY <1>1, <1>2 DEF StartLines
  <2>9. \A n \in DOMAIN stack' \ ProgramsIn(stack') :
          n \in DOMAIN stack \ ProgramsIn(stack) /\ stack'[n] = stack[n]
    BY <1>4, <1>5
  <2>10. \A n \in StartLines' : Recorded(program[n].name, program[n].args)'
    BY <1>1, <2>4, <2>8 DEF Straight, Recorded
  <2>11. /\ \A m, n \in StartLines' : m < n => program'[m].name < program'[n].name
         /\ \A name \in 0..loop_var_next' - 1 : \E n \in StartLines' : program'[n].name = name
    BY <1>1, <2>4, <2>8 DEF Straight
  <2>12. \A n \in DOMAIN stack' \ ProgramsIn(stack') :
           (\A q \in ProgramsIn(stack') : q < n) => LoopFrame(stack[n])'
    BY <1>1, <1>5, <2>4, <2>9 DEF Straight, Recorded, LoopFrame
  <2> QED BY <2>7, <2>10, <2>11, <2>12 DEF Straight
<1> QED BY <1>3, <1>6 DEF Nested

(* A loop that is entered: its line opens it, and takes the next number.   *)
LEMMA EnterNested ==
    ASSUME IInv, Nested, NEW args \in Ranges, loop_var_next < LoopLimit, Supported(args),
           cherry_range(args)
    PROVE  Nested'
<1> DEFINE l == LoopStart(loop_var_next, args)
           frame == [kind |-> "loop", name |-> loop_var_next, args |-> args,
                     value |-> LoopValue(args)]
           last == Len(program) + 1
           top == Len(stack) + 1
<1>1. /\ program' = Append(program, l) /\ stack' = Append(stack, frame)
      /\ loop_ro_data' = [loop_ro_data EXCEPT ![loop_var_next] = iterations(args)]
      /\ loop_var_next' = loop_var_next + 1
      /\ stack \in Seq(Frames) /\ program \in Seq(Lines) /\ loop_var_next \in loop_variables
      /\ loop_ro_data \in [loop_variables -> Int \cup {None}] /\ loop_var_next \in Nat
      /\ Len(stack) \in Nat /\ Len(program) \in Nat
  BY CompilerAssumption DEF cherry_range, IInv, TypeOK, loop_variables
<1>2. /\ l \in Lines /\ l.line = "loop_start" /\ l.name = loop_var_next /\ l.args = args
      /\ frame \in Frames /\ frame.kind = "loop" /\ frame.name = loop_var_next
      /\ frame.args = args
      /\ frame.value = [var |-> frame.name, slope |-> slope(frame.args),
                        const |-> y_intercept(frame.args)]
  BY <1>1, RangeTypes DEF LoopStart, Lines, Frames, Formulas, LoopValue
<1> HIDE DEF l, frame
<1>3. \E f : IsTrace(f, program') BY <1>1, <1>2, LongerTrace DEF Nested
<1>4. /\ stack' \in Seq(Frames) /\ Len(stack') = top /\ DOMAIN stack' = 1..top
      /\ DOMAIN stack = 1..Len(stack) /\ stack'[top] = frame
      /\ \A n \in 1..Len(stack) : stack'[n] = stack[n]
  BY <1>1, <1>2
<1>5. ProgramsIn(stack') = ProgramsIn(stack)
  BY <1>2, <1>4 DEF ProgramsIn, IsProgram
<1>6. /\ DOMAIN program' = 1..last /\ DOMAIN program = 1..Len(program) /\ program'[last] = l
      /\ \A n \in 1..Len(program) : program'[n] = program[n]
      /\ Len(program') = last
  BY <1>1, <1>2
<1>7. StartLines' = StartLines \cup {last} /\ \A n \in StartLines : program'[n] = program[n] /\ n < last
  BY <1>1, <1>2, <1>6 DEF StartLines
<1>8. \A name, a : Recorded(name, a) /\ name \in loop_variables => Recorded(name, a)'
  BY <1>1 DEF Recorded, loop_variables
<1>k. PICK k : k = loop_var_next OBVIOUS
<1>9. Recorded(k, args)'
  BY <1>1, <1>k DEF Recorded
<1>10. ASSUME Clean' PROVE Straight'
  <2>1. PICK p : Top(stack', p) /\ stack'[p].clean BY <1>10, CleanIs
  <2>2. Top(stack, p) BY <1>5, <2>1 DEF Top
  <2>3. stack[p].clean BY <2>2, <2>1, <1>4 DEF Top, ProgramsIn
  <2>4. Straight BY <2>2, <2>3, CleanIs DEF Nested
  <2>5. /\ OpenIn(stack) = [m \in 1..Len(stack) - p |-> stack[p + m].name]
        /\ OpenIn(stack) \in Seq(loop_variables) /\ Len(OpenIn(stack)) = Len(stack) - p
        /\ OpenIn(stack') = [m \in 1..Len(stack') - p |-> stack'[p + m].name]
        /\ OpenIn(stack') \in Seq(loop_variables) /\ Len(OpenIn(stack')) = Len(stack') - p
        /\ p \in 1..Len(stack)
    BY <1>1, <1>4, <2>1, <2>2, OpenIs
  <2>6. OpenLoops' = Append(OpenLoops, loop_var_next)
    <3> DEFINE a == OpenIn(stack)
               b == OpenIn(stack')
    <3>1. ASSUME NEW m \in 1..Len(stack) - p PROVE b[m] = a[m]
      <4>1. m \in 1..Len(stack') - p /\ p + m \in 1..Len(stack) BY <1>1, <1>4, <2>5
      <4> QED BY <1>4, <2>5, <4>1
    <3>2. b[Len(stack') - p] = loop_var_next
      <4>1. Len(stack') - p \in 1..Len(stack') - p /\ p + (Len(stack') - p) = top
        BY <1>1, <1>4, <2>5
      <4> QED BY <1>2, <1>4, <2>5, <4>1
    <3>3. /\ a \in Seq(loop_variables) /\ b \in Seq(loop_variables)
          /\ Len(b) = Len(a) + 1 /\ Len(a) \in Nat
          /\ \A m \in 1..Len(a) : b[m] = a[m]
          /\ b[Len(b)] = loop_var_next
      <4>1. Len(stack') - p = Len(stack) - p + 1 /\ Len(stack) - p \in Nat BY <1>1, <1>4, <2>5
      <4> HIDE DEF a, b
      <4> QED BY <2>5, <3>1, <3>2, <4>1 DEF a, b
    <3> HIDE DEF a, b
    <3>4. b = Append(a, loop_var_next)
      <4> DEFINE c == Append(a, loop_var_next)
      <4>1. /\ c \in Seq(loop_variables) /\ Len(c) = Len(a) + 1
            /\ \A m \in 1..Len(a) : c[m] = a[m]
            /\ c[Len(a) + 1] = loop_var_next
        BY <1>1, <3>3
      <4> HIDE DEF c
      <4>2. \A m \in 1..Len(b) : b[m] = c[m]
        BY <3>3, <4>1
      <4> QED BY <3>3, <4>1, <4>2 DEF c
    <3> QED BY <3>4, CleanIs DEF a, b
  <2>7. \A f : IsTrace(f, program)' => f[Len(program')] = OpenLoops'
    <3> SUFFICES ASSUME NEW f, IsTrace(f, Append(program, l))
                 PROVE  f[Len(program) + 1] = OpenLoops'
      BY <1>1, <1>6
    <3>1. PICK g : IsTrace(g, program) BY DEF Nested
    <3>2. /\ f[Len(program) + 1] = After(f[Len(program)], l)
          /\ IsTrace([n \in 0..Len(program) |-> f[n]], program)
      BY <1>1, <1>2, <3>1, LongerTrace
    <3>3. Len(program) \in 0..Len(program) BY <1>1
    <3>4. f[Len(program)] = OpenLoops
      BY <2>4, <3>2, <3>3 DEF Straight
    <3>5. After(OpenLoops, l) = Append(OpenLoops, loop_var_next) BY <1>2 DEF After
    <3> QED BY <2>6, <3>2, <3>4, <3>5
  <2>8. \A n \in StartLines : program[n].name \in loop_variables /\ program[n].name < loop_var_next
    <3>1. \A n \in StartLines : program[n] \in Lines /\ program[n].line = "loop_start"
      BY <1>1, <1>6, ElementOfSeq DEF StartLines
    <3> QED BY <2>4, <3>1 DEF Straight, Recorded, Lines
  <2>9. \A n \in StartLines' : Recorded(program[n].name, program[n].args)'
    <3> SUFFICES ASSUME NEW n \in StartLines' PROVE Recorded(program[n].name, program[n].args)'
      OBVIOUS
    <3>1. CASE n = last
      BY <1>2, <1>6, <1>9, <1>k, <3>1 DEF Recorded
    <3>2. CASE n \in StartLines
      <4>1. PICK name, a : name = program[n].name /\ a = program[n].args OBVIOUS
      <4>2. Recorded(name, a)' BY <1>8, <2>4, <2>8, <3>2, <4>1 DEF Straight
      <4> QED BY <1>7, <3>2, <4>1, <4>2 DEF Recorded
    <3> QED BY <1>7, <3>1, <3>2
  <2>10. \A m, n \in StartLines' : m < n => program'[m].name < program'[n].name
    <3>1. program'[last].name = loop_var_next BY <1>2, <1>6
    <3>2. \A n \in StartLines : n < last /\ ~(last < n) /\ program'[n].name = program[n].name
      BY <1>1, <1>6, <1>7 DEF StartLines
    <3>3. ~(last < last) BY <1>1
    <3> HIDE DEF last
    <3> QED BY <1>7, <2>4, <2>8, <3>1, <3>2, <3>3 DEF Straight
  <2>11. \A name \in 0..loop_var_next' - 1 : \E n \in StartLines' : program'[n].name = name
    <3> SUFFICES ASSUME NEW name \in 0..loop_var_next' - 1
                 PROVE  \E n \in StartLines' : program'[n].name = name
      OBVIOUS
    <3>1. name = loop_var_next \/ name \in 0..loop_var_next - 1 BY <1>1
    <3> QED BY <1>2, <1>6, <1>7, <2>4, <3>1 DEF Straight
  <2>12. \A n \in DOMAIN stack' \ ProgramsIn(stack') :
           (\A q \in ProgramsIn(stack') : q < n) => LoopFrame(stack[n])'
    <3> SUFFICES ASSUME NEW n \in DOMAIN stack' \ ProgramsIn(stack'),
                        \A q \in ProgramsIn(stack') : q < n
                 PROVE  LoopFrame(stack[n])'
      OBVIOUS
    <3>1. CASE n = top
      <4>1. stack'[n] = frame BY <1>4, <3>1
      <4>2. Recorded(stack[n].name, stack[n].args)' BY <1>2, <1>9, <1>k, <4>1 DEF Recorded
      <4> QED BY <1>2, <4>1, <4>2 DEF LoopFrame
    <3>2. CASE n # top
      <4>1. n \in DOMAIN stack \ ProgramsIn(stack) /\ stack'[n] = stack[n]
        BY <1>1, <1>4, <1>5, <3>2
      <4>2. LoopFrame(stack[n]) BY <1>5, <2>4, <4>1 DEF Straight
      <4>3. stack[n].name \in loop_variables
        BY <1>1, <4>1, ElementOfSeq DEF Frames, ProgramsIn, IsProgram
      <4>4. Recorded(stack[n].name, stack[n].args)'
        <5>1. PICK name, a : name = stack[n].name /\ a = stack[n].args OBVIOUS
        <5>2. Recorded(name, a)' BY <1>8, <4>2, <4>3, <5>1 DEF LoopFrame
        <5> QED BY <4>1, <5>1, <5>2 DEF Recorded
      <4> QED BY <4>1, <4>2, <4>4 DEF LoopFrame
    <3> QED BY <3>1, <3>2
  <2> QED BY <2>7, <2>9, <2>10, <2>11, <2>12 DEF Straight
<1> QED BY <1>3, <1>10 DEF Nested

(* An exception leaves the lines, or all but the one that was just added.  *)
LEMMA RaisedNested ==
    ASSUME IInv, Nested, Raise, NEW l \in Lines,
           program' = program \/ program' = Append(program, l)
    PROVE  Nested'
<1>1. TypeOK /\ program \in Seq(Lines) BY DEF IInv, TypeOK
<1>2. \E f : IsTrace(f, program') BY <1>1, LongerTrace DEF Nested
<1>3. PICK depth \in 0..Len(stack) : stack' = Disturbed(SubSeq(stack, 1, depth))
  BY DEF Raise, RaiseInto
<1>4. ~Clean' BY <1>1, <1>3, RaiseNested
<1> QED BY <1>2, <1>4 DEF Nested

LEMMA RefuseNested == IInv /\ Nested /\ Refuse => Nested'
<1> SUFFICES ASSUME IInv, Nested, Refuse PROVE Nested'
  OBVIOUS
<1>1. [line |-> "op"] \in Lines BY DEF Lines
<1>2. program' = program /\ Raise BY DEF Refuse, globals
<1> QED BY <1>1, <1>2, RaisedNested

LEMMA UseApuNested ==
    ASSUME IInv, Nested, NEW address \in Formulas, use_apu(address) PROVE Nested'
<1>1. CASE ApuLeft
  <2> DEFINE l == [line |-> "memory", apu |-> next_apu, address |-> address]
  <2>1. /\ program' = Append(program, l)
        /\ UNCHANGED <<loop_ro_data, loop_var_next, stack>>
    BY <1>1 DEF use_apu
  <2>2. next_apu \in 0..ApuLimit - 1
    BY <1>1, CompilerAssumption DEF ApuLeft, IInv, TypeOK
  <2>3. l \in Lines /\ l.line = "memory" BY <2>2 DEF Lines
  <2> HIDE DEF l
  <2> QED BY <2>1, <2>3, OtherNested
<1>2. CASE ~ApuLeft
  BY <1>2, RefuseNested DEF use_apu
<1> QED BY <1>1, <1>2

LEMMA RangeNested ==
    ASSUME IInv, Nested, NEW args \in Ranges, cherry_range(args) PROVE Nested'
<1>1. CASE loop_var_next < LoopLimit /\ Supported(args)
  BY <1>1, EnterNested
<1>2. CASE ~(loop_var_next < LoopLimit /\ Supported(args))
  <2> DEFINE l == LoopStart(loop_var_next, args)
  <2>1. Raise BY <1>2 DEF cherry_range
  <2>2. CASE loop_var_next < LoopLimit
    <3>1. program' = Append(program, l) BY <2>2 DEF cherry_range
    <3>2. l \in Lines
      BY <2>2, CompilerAssumption DEF LoopStart, Lines, IInv, TypeOK, loop_variables
    <3> HIDE DEF l
    <3> QED BY <2>1, <3>1, <3>2, RaisedNested
  <2>3. CASE ~(loop_var_next < LoopLimit)
    <3>1. program' = program BY <2>3 DEF cherry_range
    <3>2. [line |-> "op"] \in Lines BY DEF Lines
    <3> QED BY <2>1, <3>1, <3>2, RaisedNested
  <2> QED BY <2>2, <2>3
<1> QED BY <1>1, <1>2

(* A program that returns, and a generator that is dropped.                *)
LEMMA ReturnNested == IInv /\ Nested /\ Return => Nested'
<1> SUFFICES ASSUME IInv, Nested, Return PROVE Nested'
  OBVIOUS
<1>1. TypeOK /\ program' = program /\ stack # << >> /\ IsProgram(Last(stack))
  BY DEF IInv, Return
<1>2. [line |-> "op"] \in Lines BY DEF Lines
<1>3. CASE Last(stack).shape
  <2>1. stack' = Front(stack) BY <1>3 DEF Return
  <2>2. /\ \A n \in ProgramsIn(stack') : n \in ProgramsIn(stack) /\ stack'[n] = stack[n]
                                       /\ n < Len(stack)
        /\ Len(stack) \in ProgramsIn(stack)
    BY <1>1, <2>1, FrontFrames DEF ProgramsIn
  <2>3. ~Clean' BY <2>2, CleanIs DEF Top, IInv, OlderDisturbed
  <2> QED BY <1>1, <2>3 DEF Nested
<1>4. CASE ~Last(stack).shape
  <2>1. PICK depth \in 0..Len(stack) - 1 : RaiseInto(depth) BY <1>4 DEF Return
  <2>2. depth \in 0..Len(stack) BY <1>1 DEF TypeOK
  <2> QED BY <1>1, <1>2, <2>1, <2>2, RaisedNested DEF Raise
<1> QED BY <1>3, <1>4

LEMMA BreakNested == IInv /\ Nested /\ Break => Nested'
<1> SUFFICES ASSUME IInv, Nested, Break PROVE Nested'
  OBVIOUS
<1>1. TypeOK /\ program' = program /\ stack # << >> /\ stack \in Seq(Frames)
  BY DEF IInv, Break, globals, TypeOK
<1> DEFINE depth == Len(stack) - 1
<1>2. depth \in 0..Len(stack) /\ Front(stack) = SubSeq(stack, 1, depth)
  BY <1>1 DEF Front
<1>3. stack' = Disturbed(SubSeq(stack, 1, depth))
  BY <1>2 DEF Break
<1> HIDE DEF depth
<1> QED BY <1>1, <1>2, <1>3, RaiseNested DEF Nested

(* Every step keeps it.                                                    *)
LEMMA NextNested == IInv /\ Nested /\ [Next]_vars => Nested'
<1> SUFFICES ASSUME IInv, Nested, [Next]_vars PROVE Nested'
  OBVIOUS
<1>op. [line |-> "op"] \in Lines BY DEF Lines
<1>1. \A address \in Values : address \in Formulas
  BY ValuesAreFormulas
<1>2. CASE cherry_program BY <1>2, CallNested
<1>3. CASE set_shape BY <1>3, ShapeNested
<1>4. CASE Return BY <1>4, ReturnNested
<1>5. CASE \E args \in Ranges : cherry_range(args) BY <1>5, RangeNested
<1>6. CASE LoopEnd BY <1>6, LoopEndNested
<1>7. CASE Break BY <1>7, BreakNested
<1>8. CASE Throw
  <2>1. PICK depth \in 0..Len(stack) - 1 : RaiseInto(depth)
    BY <1>8 DEF Throw
  <2>2. depth \in 0..Len(stack) /\ UNCHANGED globals
    BY <1>8 DEF Throw, IInv, TypeOK
  <2>3. Refuse BY <2>1, <2>2 DEF Refuse, Raise
  <2> QED BY <2>3, RefuseNested
<1>9. CASE cisa_op
  <2> DEFINE l == [line |-> "op"]
  <2>1. CASE is_jit_compiling_active
    <3>1. program' = Append(program, l) /\ UNCHANGED <<loop_ro_data, loop_var_next, stack>>
      BY <1>9, <2>1 DEF cisa_op
    <3>2. l.line = "op" OBVIOUS
    <3> HIDE DEF l
    <3>3. l \in Lines BY <1>op DEF l
    <3> QED BY <3>1, <3>2, <3>3, OtherNested
  <2>2. CASE ~is_jit_compiling_active
    BY <1>9, <2>2, RefuseNested DEF cisa_op
  <2> QED BY <2>1, <2>2
<1>10. CASE \E address \in Values, bits \in SlotBits : cisa_load(address, bits)
  <2>1. PICK address \in Values, bits \in SlotBits : cisa_load(address, bits)
    BY <1>10
  <2>2. use_apu(address) \/ Refuse
    BY <2>1 DEF cisa_load
  <2> QED BY <1>1, <2>2, UseApuNested, RefuseNested
<1>11. CASE \E address \in Values : \/ cisa_store(address)
                                     \/ cisa_mem_read(address)
                                     \/ cisa_mem_write(address)
  <2>1. PICK address \in Values : \/ cisa_store(address)
                                  \/ cisa_mem_read(address)
                                  \/ cisa_mem_write(address)
    BY <1>11
  <2>2. use_apu(address) \/ Refuse
    BY <2>1 DEF cisa_store, cisa_mem_read, cisa_mem_write
  <2> QED BY <1>1, <2>2, UseApuNested, RefuseNested
<1>12. CASE UNCHANGED vars
  <2>1. program' = program /\ UNCHANGED <<loop_ro_data, loop_var_next, stack>>
    BY <1>12 DEF vars, globals
  <2>2. [line |-> "op"].line = "op" OBVIOUS
  <2> QED BY <1>op, <2>1, <2>2, OtherNested
<1> QED BY <1>2, <1>3, <1>4, <1>5, <1>6, <1>7, <1>8, <1>9, <1>10, <1>11, <1>12 DEF Next

LEMMA NestedInvariant == Spec => [](IInv /\ Nested)
<1>1. Init => IInv /\ Nested BY InitHolds, InitNested
<1>2. IInv /\ Nested /\ [Next]_vars => (IInv /\ Nested)'
  BY NextKeeps, NextNested
<1> QED BY <1>1, <1>2, PTL DEF Spec

(* The loops of a program nest and are numbered in the order of their      *)
(* starts, however the caller enters and leaves loops and programs, as     *)
(* long as nothing unusual happens in the program (compiler.py:171-192).   *)
THEOREM LoopsAlwaysNest == Spec => []LoopsNest
<1>1. IInv /\ Nested => LoopsNest
  <2> SUFFICES ASSUME IInv, Nested, Clean PROVE LoopsNest
    BY DEF LoopsNest
  <2>1. Straight BY DEF Nested
  <2>2. unclosed = CHOOSE f : IsTrace(f, program)
    BY DEF unclosed, IsTrace
  <2>3. IsTrace(unclosed, program)
    BY <2>2 DEF Nested
  <2>4. unclosed[Len(program)] = OpenLoops
    BY <2>1, <2>3 DEF Straight
  <2>5. \A n \in StartLines : program[n].name \in Nat /\ program[n].name < loop_var_next
    <3>1. \A n \in StartLines : program[n] \in Lines /\ program[n].line = "loop_start"
      BY ElementOfSeq DEF StartLines, IInv, TypeOK
    <3> QED BY <2>1, <3>1 DEF Straight, Recorded, Lines, loop_variables
  <2>6. loop_var_next \in Nat BY CompilerAssumption DEF IInv, TypeOK
  <2>7. {program[n].name : n \in StartLines} = 0..loop_var_next - 1
    BY <2>1, <2>5, <2>6 DEF Straight
  <2> QED BY <2>1, <2>4, <2>7 DEF LoopsNest, Straight
<1> QED BY <1>1, NestedInvariant, PTL

-----------------------------------------------------------------------------
(* Products of whole numbers.                                              *)
LEMMA TimesOrder ==
    ASSUME NEW a \in Int, NEW b \in Int, NEW s \in Int, s > 0
    PROVE  a * s < b * s <=> a < b
<1>1. a < b => a * s < b * s
  <2> SUFFICES ASSUME a < b PROVE a * s < b * s
    OBVIOUS
  <2>1. PICK d \in Int : d > 0 /\ b = a + d
    <3>1. b - a \in Int /\ b - a > 0 /\ b = a + (b - a) OBVIOUS
    <3> QED BY <3>1
  <2>2. d * s > 0 BY <2>1
  <2>3. b * s = a * s + d * s BY <2>1
  <2>4. a * s \in Int /\ d * s \in Int BY <2>1
  <2> QED BY <2>2, <2>3, <2>4
<1>2. b <= a => b * s <= a * s
  <2> SUFFICES ASSUME b <= a PROVE b * s <= a * s
    OBVIOUS
  <2>1. PICK d \in Nat : a = b + d
    <3>1. a - b \in Nat /\ a = b + (a - b) OBVIOUS
    <3> QED BY <3>1
  <2>2. d * s >= 0 BY <2>1
  <2>3. a * s = b * s + d * s BY <2>1
  <2>4. b * s \in Int /\ d * s \in Int BY <2>1
  <2> QED BY <2>2, <2>3, <2>4
<1> QED BY <1>1, <1>2

(* A loop's formula visits the values of Python's range.                   *)
LEMMA VisitedIs ==
    ASSUME NEW args \in Ranges, Supported(args)
    PROVE  Visited(args) =
             {slope(args) * k + y_intercept(args) : k \in 0..iterations(args) - 1}
<1>1. args \in Seq(Int) /\ Len(args) \in 1..3 /\ \A n \in 1..Len(args) : args[n] \in Int
  BY CompilerAssumption
<1>2. CASE Len(args) = 1
  <2>1. args[1] \in Int BY <1>1, <1>2
  <2>2. iterations(args) = args[1] /\ slope(args) = 1 /\ y_intercept(args) = 0
    BY <1>2 DEF iterations, slope, y_intercept
  <2>3. PICK stop \in Int : stop = args[1] BY <2>1
  <2> DEFINE most == IF 0 < stop THEN stop - 0 ELSE 0 - stop
  <2>4. Visited(args) = {0 + k * 1 : k \in {m \in 0..most : 0 + m * 1 < stop}}
    BY <1>2, <2>3 DEF Visited
  <2>5. {m \in 0..most : 0 + m * 1 < stop} = 0..stop - 1
    OBVIOUS
  <2>6. \A k \in 0..stop - 1 : 0 + k * 1 = 1 * k + 0
    OBVIOUS
  <2> HIDE DEF most
  <2>7. {0 + k * 1 : k \in 0..stop - 1} = {1 * k + 0 : k \in 0..stop - 1}
    BY <2>6
  <2>8. Visited(args) = {0 + k * 1 : k \in 0..stop - 1} BY <2>4, <2>5
  <2> QED BY <2>2, <2>3, <2>7, <2>8
<1>3. CASE Len(args) = 3
  <2>1. PICK start \in Int, stop \in Int, step \in Int :
          start = args[1] /\ stop = args[2] /\ step = args[3]
    BY <1>1, <1>3
  <2>2. step # 0 /\ FloorDiv(stop - start, step) * step = stop - start
    BY <1>3, <2>1 DEF Supported
  <2>3. PICK count \in Int : count = FloorDiv(stop - start, step)
    BY <2>1, <2>2 DEF FloorDiv
  <2>4. iterations(args) = count /\ slope(args) = step /\ y_intercept(args) = start
    BY <1>3, <2>1, <2>3 DEF iterations, slope, y_intercept
  <2> DEFINE most == IF start < stop THEN stop - start ELSE start - stop
             before(m) == IF step > 0 THEN start + m * step < stop ELSE start + m * step > stop
  <2>5. Visited(args) = {start + k * step : k \in {m \in 0..most : before(m)}}
    BY <1>3, <2>1 DEF Visited
  <2>6. stop = start + count * step /\ count * step \in Int
    BY <2>2, <2>3
  <2>7. \A m \in Int : before(m) <=> m < count
    <3> SUFFICES ASSUME NEW m \in Int PROVE before(m) <=> m < count
      OBVIOUS
    <3>1. CASE step > 0
      <4>1. m * step < count * step <=> m < count BY <3>1, TimesOrder
      <4>2. m * step \in Int OBVIOUS
      <4> QED BY <2>6, <3>1, <4>1, <4>2
    <3>2. CASE ~(step > 0)
      <4>1. -step \in Int /\ -step > 0 BY <2>2, <3>2
      <4>2. m * (-step) < count * (-step) <=> m < count BY <4>1, TimesOrder
      <4>3. m * (-step) = -(m * step) /\ count * (-step) = -(count * step) OBVIOUS
      <4>4. m * step \in Int OBVIOUS
      <4>5. m * step > count * step <=> m < count
        BY <2>6, <4>2, <4>3, <4>4
      <4> QED BY <2>6, <3>2, <4>4, <4>5
    <3> QED BY <3>1, <3>2
  <2>8. count - 1 <= most
    <3>1. CASE count <= 0 BY <3>1
    <3>2. CASE count > 0
      <4>1. CASE step > 0
        <5>1. (step - 1) * count >= 0 BY <3>2, <4>1
        <5>2. count * step = (step - 1) * count + count OBVIOUS
        <5>3. (step - 1) * count \in Int OBVIOUS
        <5>4. count * step >= count BY <5>1, <5>2, <5>3
        <5> QED BY <2>6, <3>2, <5>4
      <4>2. CASE ~(step > 0)
        <5>1. (-step - 1) * count >= 0 BY <2>2, <3>2, <4>2
        <5>2. -(count * step) = (-step - 1) * count + count OBVIOUS
        <5>3. (-step - 1) * count \in Int OBVIOUS
        <5>4. -(count * step) >= count BY <5>1, <5>2, <5>3, <2>6
        <5> QED BY <2>6, <3>2, <5>4
      <4> QED BY <4>1, <4>2
    <3> QED BY <3>1, <3>2
  <2> HIDE DEF before
  <2>9. {m \in 0..most : before(m)} = 0..count - 1
    <3>1. most \in Nat OBVIOUS
    <3> HIDE DEF most
    <3> QED BY <2>7, <2>8, <3>1
  <2>10. {start + k * step : k \in 0..count - 1} = {step * k + start : k \in 0..count - 1}
    <3>1. \A k \in 0..count - 1 : start + k * step = step * k + start OBVIOUS
    <3> QED BY <3>1
  <2>11. Visited(args) = {start + k * step : k \in 0..count - 1} BY <2>5, <2>9
  <2> QED BY <2>4, <2>10, <2>11
<1> QED BY <1>2, <1>3 DEF Supported

(* Arithmetic progressions have as many members as indices.                *)
LEMMA ProgressionSize ==
    ASSUME NEW s \in Int, s # 0, NEW y \in Int, NEW count \in Int
    PROVE  Cardinality({s * k + y : k \in 0..count - 1}) = IF count > 0 THEN count ELSE 0
<1> DEFINE S == 0..count - 1
           T == {s * k + y : k \in S}
           f == [k \in S |-> s * k + y]
<1>1. Cardinality(S) = (IF count > 0 THEN count ELSE 0) /\ IsFiniteSet(S)
  <2>1. PICK last \in Int : last = count - 1 OBVIOUS
  <2>2. IsFiniteSet(0..last) /\ Cardinality(0..last) = IF 0 > last THEN 0 ELSE last - 0 + 1
    BY FS_Interval
  <2> QED BY <2>1, <2>2
<1>2. \A a, b \in S : s * a + y = s * b + y => a = b
  <2> SUFFICES ASSUME NEW a \in Int, NEW b \in Int, s * a + y = s * b + y PROVE a = b
    OBVIOUS
  <2>1. s * a = s * b
    <3>1. s * a \in Int /\ s * b \in Int OBVIOUS
    <3> QED BY <3>1
  <2>2. s * (a - b) = 0
    <3>1. s * (a - b) = s * a - s * b /\ s * a \in Int OBVIOUS
    <3> QED BY <2>1, <3>1
  <2> QED BY <2>2
<1>3. f \in Bijection(S, T)
  <2>1. f \in [S -> T] OBVIOUS
  <2>2. \A a, b \in S : f[a] = f[b] => a = b BY <1>2
  <2>3. \A t \in T : \E k \in S : f[k] = t OBVIOUS
  <2> HIDE DEF f, S, T
  <2> QED BY <2>1, <2>2, <2>3 DEF Bijection, Injection, Surjection, IsInjective
<1> HIDE DEF f, S, T
<1>4. Cardinality(T) = Cardinality(S)
  BY <1>1, <1>3, FS_Bijection DEF ExistsBijection
<1> QED BY <1>1, <1>4 DEF T, S

(* The count recorded for a loop is the number of values of its range, or  *)
(* no more than zero for an empty one, and the formula of a loop that is   *)
(* open visits these values, for ranges of any length, direction and step  *)
(* (compiler.py:173-191).                                                  *)
THEOREM RangesAlwaysVisited == Spec => []LoopsVisitTheirRange
<1>1. IInv /\ Nested => LoopsVisitTheirRange
  <2> SUFFICES ASSUME IInv, Nested, Clean PROVE LoopsVisitTheirRange
    BY DEF LoopsVisitTheirRange
  <2>1. Straight BY DEF Nested
  <2>2. ASSUME NEW args \in Ranges, Supported(args)
        PROVE  LET size == Cardinality(Visited(args))
               IN  IF size = 0 THEN iterations(args) <= 0 ELSE iterations(args) = size
    <3>1. slope(args) \in Int /\ y_intercept(args) \in Int /\ iterations(args) \in Int
      BY <2>2, RangeTypes
    <3>2. slope(args) # 0
      BY <2>2 DEF slope, Supported
    <3>3. PICK s \in Int, y \in Int, count \in Int :
            s = slope(args) /\ y = y_intercept(args) /\ count = iterations(args)
      BY <3>1
    <3>4. Visited(args) = {s * k + y : k \in 0..count - 1} BY <2>2, <3>3, VisitedIs
    <3>5. Cardinality(Visited(args)) = IF count > 0 THEN count ELSE 0
      <4>1. s # 0 BY <3>2, <3>3
      <4>2. Cardinality({s * k + y : k \in 0..count - 1}) = IF count > 0 THEN count ELSE 0
        BY <4>1, ProgressionSize
      <4> QED BY <3>4, <4>2
    <3> QED BY <3>3, <3>5
  <2>3. ASSUME NEW n \in StartLines
        PROVE  LET count == loop_ro_data[program[n].name]
                   size == Cardinality(Visited(program[n].args))
               IN  IF size = 0 THEN count <= 0 ELSE count = size
    <3>1. program[n] \in Lines /\ program[n].line = "loop_start"
      BY ElementOfSeq DEF StartLines, IInv, TypeOK
    <3>2. program[n].args \in Ranges BY <3>1 DEF Lines
    <3> QED BY <2>1, <2>2, <3>2 DEF Straight, Recorded
  <2>4. ASSUME NEW n \in DOMAIN stack \ ProgramsIn(stack), \A p \in ProgramsIn(stack) : p < n
        PROVE  LET value == stack[n].value
               IN  {value.slope * k + value.const : k \in 0..loop_ro_data[value.var] - 1}
                     = Visited(stack[n].args)
    <3>1. LoopFrame(stack[n]) BY <2>1, <2>4 DEF Straight
    <3>2. stack[n].args \in Ranges
      BY ElementOfSeq DEF IInv, TypeOK, Frames, ProgramsIn, IsProgram
    <3> QED BY <3>1, <3>2, VisitedIs DEF LoopFrame, Recorded
  <2> QED BY <2>3, <2>4 DEF LoopsVisitTheirRange
<1> QED BY <1>1, NestedInvariant, PTL
=============================================================================
