------------------------- MODULE SuperscalarProofs -------------------------
(***************************************************************************)
(* For all widths, latencies, queue lengths, programs and iteration        *)
(* counts: superscalar_push implements Schedule, and so every schedule it  *)
(* makes is exclusive and spaced.  The invariant says that everything in   *)
(* the queues is behind the two numbers the algorithm keeps for a type,    *)
(* and behind the place in the program that the script is at.  Counted     *)
(* adds that what is before that place is in the queues, once each, from   *)
(* which EachIterationOnce follows by counting.                            *)
(***************************************************************************)
EXTENDS Superscalar, FiniteSetTheorems, TLAPS

done == queue_position_when_done_for_queue_type
width == setup.SUPERSCALAR_WIDTH
BehindAt(t, p) ==
    LET e == queues[t][p]
    IN  /\ p < next_spot_in_queue[t]
        /\ e.copy <= p /\ e.copy < width
        /\ p + LATENCY[t] <= done[prevInstrType] + e.copy
        /\ e.first < i \/ (e.first = i /\ e.step < k)
Behind ==
    outcome = "running" =>
      /\ i < setup.LOOP_ITER
      /\ \A t \in Types, p \in Positions : queues[t][p] # None => BehindAt(t, p)
IInv == TypeOK /\ Behind

-----------------------------------------------------------------------------
LEMMA SetupTypes ==
    ASSUME TypeOK
    PROVE  /\ width \in Nat \ {0} /\ setup.LOOP_ITER \in Nat \ {0}
           /\ setup.program \in Seq(Instructions) /\ Len(setup.program) \in Nat \ {0}
           /\ instr_type \in Types
<1>1. /\ width \in Nat \ {0} /\ setup.LOOP_ITER \in Nat \ {0}
      /\ setup.program \in Seq(Instructions) /\ setup.program # << >>
  BY SuperscalarAssumption DEF TypeOK, width
<1>2. Len(setup.program) \in Nat \ {0}
  BY <1>1
<1> QED BY <1>1, <1>2 DEF instr_type, get_type, Types

(* The numbers that a push computes with.                                  *)
LEMMA PushNumbers ==
    ASSUME TypeOK, i < setup.LOOP_ITER
    PROVE  /\ insert_spot \in Nat /\ copy_count \in 1..width
           /\ insert_spot >= done[prevInstrType]
           /\ insert_spot >= next_spot_in_queue[instr_type]
           /\ NextSpot = insert_spot + width
           /\ WhenDone = insert_spot + LATENCY[instr_type] /\ WhenDone \in Nat
<1>1. /\ width \in Nat \ {0} /\ setup.LOOP_ITER \in Nat \ {0} /\ instr_type \in Types
  BY SetupTypes
<1>2. /\ done[prevInstrType] \in Nat /\ next_spot_in_queue[instr_type] \in Nat /\ i \in Nat
      /\ LATENCY[instr_type] \in Nat
  BY <1>1, SuperscalarAssumption DEF TypeOK, done
<1>3. copy_count \in 1..width
  BY <1>1, <1>2 DEF copy_count, width
<1>4. /\ insert_spot \in Nat /\ insert_spot >= done[prevInstrType]
      /\ insert_spot >= next_spot_in_queue[instr_type]
  BY <1>2 DEF insert_spot, Larger, done
<1> QED BY <1>2, <1>3, <1>4 DEF NextSpot, WhenDone, width

(* What a push leaves in the queues.                                       *)
New(p) == p \in insert_spot..insert_spot + copy_count - 1
LEMMA PushedQueues ==
    ASSUME TypeOK, i < setup.LOOP_ITER, superscalar_push
    PROVE  /\ queues' \in [Types -> [Positions -> Entries \cup {None}]]
           /\ \A p \in Positions :
                New(p) => /\ queues'[instr_type][p] = [step |-> k, first |-> i,
                                                      copy |-> p - insert_spot]
                          /\ queues'[instr_type][p] # None
           /\ \A t \in Types, p \in Positions :
                ~(t = instr_type /\ New(p)) => queues'[t][p] = queues[t][p]
<1> DEFINE row == [p \in Positions |-> IF New(p) THEN [step |-> k, first |-> i,
                                                       copy |-> p - insert_spot]
                                       ELSE queues[instr_type][p]]
<1>1. /\ insert_spot \in Nat /\ copy_count \in Nat /\ instr_type \in Types
      /\ QueueLength \in Nat /\ i \in Nat /\ k \in Nat
      /\ queues \in [Types -> [Positions -> Entries \cup {None}]]
  BY SetupTypes, PushNumbers, SuperscalarAssumption DEF TypeOK
<1>2. queues' = [queues EXCEPT ![instr_type] = row]
  BY DEF superscalar_push, New
<1>3. \A p \in Positions : New(p) =>
        /\ [step |-> k, first |-> i, copy |-> p - insert_spot] \in Entries
        /\ [step |-> k, first |-> i, copy |-> p - insert_spot] # None
  BY <1>1, SuperscalarAssumption DEF New, Positions, Entries
<1>4. row \in [Positions -> Entries \cup {None}]
  BY <1>1, <1>3
<1>5. /\ \A p \in Positions : New(p) => row[p] = [step |-> k, first |-> i,
                                                 copy |-> p - insert_spot]
      /\ \A p \in Positions : ~New(p) => row[p] = queues[instr_type][p]
  OBVIOUS
<1> HIDE DEF row
<1>6. queues' \in [Types -> [Positions -> Entries \cup {None}]]
  BY <1>1, <1>2, <1>4
<1>7. queues'[instr_type] = row /\ \A t \in Types : t # instr_type => queues'[t] = queues[t]
  BY <1>1, <1>2
<1> QED BY <1>3, <1>5, <1>6, <1>7

-----------------------------------------------------------------------------
LEMMA InitHolds == Init => IInv
<1> SUFFICES ASSUME Init PROVE IInv
  OBVIOUS
<1>1. queues \in [Types -> [Positions -> Entries \cup {None}]]
  BY DEF Init
<1>2. setup.program \in Seq(Instructions) /\ setup.program # << >> /\ setup.LOOP_ITER \in Nat \ {0}
  BY SuperscalarAssumption DEF Init
<1>3. k \in 1..Len(setup.program) /\ i < setup.LOOP_ITER
  BY <1>2 DEF Init
<1>4. TypeOK
  BY <1>1, <1>3 DEF Init, TypeOK, Types
<1>5. \A t \in Types, p \in Positions : queues[t][p] = None
  BY DEF Init
<1> QED BY <1>3, <1>4, <1>5 DEF IInv, Behind

LEMMA PushTypes ==
    ASSUME IInv, Push PROVE TypeOK'
<1>1. TypeOK /\ i < setup.LOOP_ITER /\ superscalar_push /\ setup' = setup
  BY DEF IInv, Behind, Push
<1>2. queues' \in [Types -> [Positions -> Entries \cup {None}]]
  BY <1>1, PushedQueues
<1>3. /\ instr_type \in Types /\ NextSpot \in Nat /\ WhenDone \in Nat /\ width \in Nat \ {0}
      /\ Len(setup.program) \in Nat \ {0}
  BY <1>1, SetupTypes, PushNumbers
<1>4. /\ next_spot_in_queue' = [next_spot_in_queue EXCEPT ![instr_type] = NextSpot]
      /\ done' = [done EXCEPT ![instr_type] = WhenDone]
      /\ prevInstrType' = instr_type
  BY <1>1 DEF superscalar_push, done
<1>5. /\ next_spot_in_queue' \in [Types -> Nat] /\ done' \in [Types -> Nat]
      /\ prevInstrType' \in Types
  BY <1>1, <1>3, <1>4 DEF TypeOK, done
<1>6. /\ i' \in Nat /\ k' \in 1..Len(setup.program)
      /\ outcome' \in {"running", "done", "IndexError"}
  BY <1>1, <1>3 DEF Push, Advance, TypeOK, width
<1> QED BY <1>1, <1>2, <1>5, <1>6 DEF TypeOK, done

(* Where the script goes: forward in the order of the copies.              *)
LEMMA GoesOn ==
    ASSUME IInv, Push, outcome' = "running"
    PROVE  /\ i' < setup.LOOP_ITER
           /\ i < i' \/ (i = i' /\ k < k')
           /\ i <= i'
           /\ insert_spot + copy_count <= QueueLength
<1>1. TypeOK /\ setup' = setup /\ outcome = "running" /\ i < setup.LOOP_ITER
  BY DEF IInv, Behind, Push
<1>2. width \in Nat \ {0} /\ i \in Nat /\ k \in Nat /\ setup.LOOP_ITER \in Nat
  BY <1>1, SetupTypes DEF TypeOK
<1>3. insert_spot + copy_count <= QueueLength /\ Advance
  BY DEF Push
<1>4. CASE k < Len(setup.program)
  BY <1>1, <1>2, <1>3, <1>4 DEF Advance
<1>5. CASE ~(k < Len(setup.program))
  BY <1>1, <1>2, <1>3, <1>5 DEF Advance, width
<1> QED BY <1>3, <1>4, <1>5

LEMMA PushBehind ==
    ASSUME IInv, Push PROVE Behind'
<1> SUFFICES ASSUME outcome' = "running" PROVE Behind'
  BY DEF Behind
<1>1. /\ TypeOK /\ outcome = "running" /\ superscalar_push /\ setup' = setup
      /\ i < setup.LOOP_ITER
      /\ \A t \in Types, p \in Positions : queues[t][p] # None => BehindAt(t, p)
  BY DEF IInv, Behind, Push
<1>2. TypeOK' BY PushTypes
<1>3. i' < setup.LOOP_ITER /\ (i < i' \/ (i = i' /\ k < k')) /\ i <= i'
  BY GoesOn
<1>4. /\ insert_spot \in Nat /\ copy_count \in 1..width /\ width \in Nat
      /\ insert_spot >= done[prevInstrType]
      /\ insert_spot >= next_spot_in_queue[instr_type]
      /\ NextSpot = insert_spot + width /\ instr_type \in Types
      /\ WhenDone = insert_spot + LATENCY[instr_type] /\ WhenDone \in Nat
  BY <1>1, PushNumbers, SetupTypes
<1>5. /\ next_spot_in_queue \in [Types -> Nat] /\ done \in [Types -> Nat]
      /\ prevInstrType \in Types /\ LATENCY \in [Types -> Nat]
      /\ QueueLength \in Nat /\ i \in Nat /\ k \in Nat /\ i' \in Nat /\ k' \in Nat
  BY <1>1, <1>2, SuperscalarAssumption DEF TypeOK, done
<1>6. /\ next_spot_in_queue' = [next_spot_in_queue EXCEPT ![instr_type] = NextSpot]
      /\ done' = [done EXCEPT ![instr_type] = WhenDone]
      /\ prevInstrType' = instr_type
  BY <1>1 DEF superscalar_push, done
<1>7. /\ done'[prevInstrType'] = insert_spot + LATENCY[instr_type]
      /\ next_spot_in_queue'[instr_type] = insert_spot + width
      /\ \A t \in Types : t # instr_type => next_spot_in_queue'[t] = next_spot_in_queue[t]
  BY <1>4, <1>5, <1>6
<1>8. ASSUME NEW t \in Types, NEW p \in Positions, queues'[t][p] # None
      PROVE  BehindAt(t, p)'
  <2>1. p \in Nat /\ LATENCY[t] \in Nat /\ next_spot_in_queue[t] \in Nat
        /\ LATENCY[instr_type] \in Nat /\ done[prevInstrType] \in Nat
    BY <1>4, <1>5 DEF Positions
  <2>2. width' = width BY <1>1 DEF width
  <2>3. CASE t = instr_type /\ New(p)
    <3>1. queues'[t][p] = [step |-> k, first |-> i, copy |-> p - insert_spot]
      BY <1>1, <2>3, PushedQueues
    <3>2. /\ queues'[t][p].step = k /\ queues'[t][p].first = i
          /\ queues'[t][p].copy = p - insert_spot
      BY <3>1
    <3>3. p >= insert_spot /\ p < insert_spot + copy_count
      BY <1>4, <2>1, <2>3 DEF New
    <3>4. /\ p < next_spot_in_queue'[t]
          /\ p - insert_spot <= p /\ p - insert_spot < width'
          /\ p + LATENCY[t] <= done'[prevInstrType'] + (p - insert_spot)
      BY <1>4, <1>7, <2>1, <2>2, <2>3, <3>3
    <3>5. i < i' \/ (i = i' /\ k < k')
      BY <1>3
    <3> QED BY <3>2, <3>4, <3>5 DEF BehindAt
  <2>4. CASE ~(t = instr_type /\ New(p))
    <3>1. queues'[t][p] = queues[t][p]
      BY <1>1, <2>4, PushedQueues
    <3> DEFINE e == queues[t][p]
    <3>2. /\ p < next_spot_in_queue[t] /\ e.copy <= p /\ e.copy < width
          /\ p + LATENCY[t] <= done[prevInstrType] + e.copy
          /\ e.first < i \/ (e.first = i /\ e.step < k)
      BY <1>1, <1>8, <3>1 DEF BehindAt
    <3>3. e \in Entries
      BY <1>1, <1>8, <3>1 DEF TypeOK
    <3>4. e.copy \in Nat /\ e.first \in Nat /\ e.step \in Nat
      BY <3>3 DEF Entries
    <3> HIDE DEF e
    <3>5. p < next_spot_in_queue'[t]
      BY <1>4, <1>7, <2>1, <3>2
    <3>6. p + LATENCY[t] <= done'[prevInstrType'] + e.copy
      BY <1>4, <1>7, <2>1, <3>2, <3>4
    <3>7. e.first < i' \/ (e.first = i' /\ e.step < k')
      BY <1>3, <1>5, <3>2, <3>4
    <3> QED BY <2>2, <3>1, <3>2, <3>5, <3>6, <3>7 DEF BehindAt, e
  <2> QED BY <2>3, <2>4
<1> QED BY <1>1, <1>3, <1>8 DEF Behind

LEMMA NextKeeps == IInv /\ [Next]_vars => IInv'
<1>1. ASSUME IInv, Push PROVE IInv'
  BY <1>1, PushTypes, PushBehind DEF IInv
<1>2. ASSUME IInv, UNCHANGED vars PROVE IInv'
  BY <1>2 DEF IInv, TypeOK, Behind, BehindAt, vars, width, done
<1> QED BY <1>1, <1>2 DEF Next

(* Every reachable state has the invariant.                                *)
THEOREM Invariant == Spec => []IInv
<1> QED BY InitHolds, NextKeeps, PTL DEF Spec

(* The counters and the queues of the algorithm have their types, whatever *)
(* its constants are (superscalar.py:24-50).                               *)
THEOREM TypeCorrect == Spec => []TypeOK
<1>1. IInv => TypeOK BY DEF IInv
<1> QED BY <1>1, Invariant, PTL

-----------------------------------------------------------------------------
(* The refinement: what is in the queues, as a set of placed copies.       *)
LEMMA Members ==
    /\ \A t \in Types, p \in Positions : queues[t][p] # None => CopyAt(t, p) \in placed
    /\ \A c \in placed : \E t \in Types, p \in Positions :
                           queues[t][p] # None /\ c = CopyAt(t, p)
<1>1. ASSUME NEW t \in Types, NEW p \in Positions, queues[t][p] # None
      PROVE  CopyAt(t, p) \in placed
  <2> DEFINE o == <<t, p>>
  <2>1. o \in Occupied /\ CopyAt(o[1], o[2]) = CopyAt(t, p)
    BY <1>1 DEF Occupied
  <2> QED BY <2>1 DEF placed
<1>2. ASSUME NEW c \in placed
      PROVE  \E t \in Types, p \in Positions : queues[t][p] # None /\ c = CopyAt(t, p)
  <2>1. PICK o \in Occupied : c = CopyAt(o[1], o[2])
    BY DEF placed
  <2>2. o[1] \in Types /\ o[2] \in Positions /\ queues[o[1]][o[2]] # None
    BY <2>1 DEF Occupied
  <2> QED BY <2>1, <2>2
<1> QED BY <1>1, <1>2

LEMMA MembersNext ==
    /\ \A t \in Types, p \in Positions : queues'[t][p] # None => CopyAt(t, p)' \in placed'
    /\ \A c \in placed' : \E t \in Types, p \in Positions :
                            queues'[t][p] # None /\ c = CopyAt(t, p)'
<1>1. ASSUME NEW t \in Types, NEW p \in Positions, queues'[t][p] # None
      PROVE  CopyAt(t, p)' \in placed'
  <2> DEFINE o == <<t, p>>
  <2>1. o \in Occupied' /\ CopyAt(o[1], o[2])' = CopyAt(t, p)'
    BY <1>1 DEF Occupied
  <2> QED BY <2>1 DEF placed
<1>2. ASSUME NEW c \in placed'
      PROVE  \E t \in Types, p \in Positions : queues'[t][p] # None /\ c = CopyAt(t, p)'
  <2>1. PICK o \in Occupied' : c = CopyAt(o[1], o[2])'
    BY DEF placed
  <2>2. o[1] \in Types /\ o[2] \in Positions /\ queues'[o[1]][o[2]] # None
    BY <2>1 DEF Occupied
  <2> QED BY <2>1, <2>2
<1> QED BY <1>1, <1>2

LEMMA CopyTypes ==
    ASSUME TypeOK, NEW t \in Types, NEW p \in Positions, queues[t][p] # None
    PROVE  /\ queues[t][p].step \in Nat /\ queues[t][p].first \in Nat
           /\ queues[t][p].copy \in Nat /\ CopyAt(t, p) \in S!Copies
<1>1. queues[t][p] \in Entries
  BY DEF TypeOK
<1>2. /\ queues[t][p].step \in Nat /\ queues[t][p].first \in Nat
      /\ queues[t][p].copy \in Nat
  BY <1>1 DEF Entries
<1> QED BY <1>2 DEF CopyAt, S!Copies, S!Positions, Positions

LEMMA PushPlaces ==
    ASSUME IInv, Push
    PROVE  \/ placed' = placed
           \/ \E type \in Types, spot \in Positions, size \in 1..QueueLength :
                S!Place(type, spot, size, k, i)
<1>1. /\ TypeOK /\ superscalar_push /\ i < setup.LOOP_ITER
      /\ \A t \in Types, p \in Positions : queues[t][p] # None => BehindAt(t, p)
  BY DEF IInv, Behind, Push
<1>2. /\ insert_spot \in Nat /\ copy_count \in Nat \ {0}
      /\ insert_spot >= done[prevInstrType]
      /\ insert_spot >= next_spot_in_queue[instr_type] /\ instr_type \in Types
      /\ QueueLength \in Nat /\ i \in Nat /\ k \in Nat
      /\ next_spot_in_queue \in [Types -> Nat] /\ done[prevInstrType] \in Nat
      /\ LATENCY \in [Types -> Nat]
  <2>1. instr_type \in Types /\ width \in Nat \ {0}
    BY <1>1, SetupTypes
  <2>2. /\ insert_spot \in Nat /\ copy_count \in 1..width
        /\ insert_spot >= done[prevInstrType]
        /\ insert_spot >= next_spot_in_queue[instr_type]
    BY <1>1, PushNumbers
  <2>3. copy_count \in Nat \ {0}
    BY <2>1, <2>2
  <2>4. /\ i \in Nat /\ k \in Nat /\ next_spot_in_queue \in [Types -> Nat]
        /\ done[prevInstrType] \in Nat
    BY <1>1 DEF TypeOK, done
  <2> QED BY <2>1, <2>2, <2>3, <2>4, SuperscalarAssumption
<1>3. /\ \A p \in Positions :
           New(p) => /\ queues'[instr_type][p] = [step |-> k, first |-> i,
                                                 copy |-> p - insert_spot]
                     /\ queues'[instr_type][p] # None
      /\ \A t \in Types, p \in Positions :
           ~(t = instr_type /\ New(p)) => queues'[t][p] = queues[t][p]
  BY <1>1, PushedQueues
<1> DEFINE last == insert_spot + copy_count
           size == IF last <= QueueLength THEN copy_count ELSE QueueLength - insert_spot
           group == S!Group(instr_type, insert_spot, size, k, i)
           Fresh(p) == [type |-> instr_type, position |-> p, step |-> k, first |-> i,
                        copy |-> p - insert_spot]
(* The positions of the type that are taken lie before the spot.           *)
<1>4. \A p \in Positions : New(p) => queues[instr_type][p] = None
  <2> SUFFICES ASSUME NEW p \in Positions, New(p), queues[instr_type][p] # None PROVE FALSE
    OBVIOUS
  <2>1. p < next_spot_in_queue[instr_type] /\ p >= insert_spot /\ p \in Nat
    BY <1>1, <1>2 DEF BehindAt, New, Positions
  <2> QED BY <1>2, <2>1
<1>5. \A t \in Types, p \in Positions :
        t = instr_type /\ New(p) => CopyAt(t, p)' = Fresh(p)
  <2> SUFFICES ASSUME NEW t \in Types, NEW p \in Positions, t = instr_type, New(p)
               PROVE  CopyAt(t, p)' = Fresh(p)
    OBVIOUS
  <2>1. queues'[t][p] = [step |-> k, first |-> i, copy |-> p - insert_spot]
    BY <1>3
  <2>2. CopyAt(t, p)' = [type |-> t, position |-> p, step |-> queues'[t][p].step,
                         first |-> queues'[t][p].first, copy |-> queues'[t][p].copy]
    BY DEF CopyAt
  <2> QED BY <2>1, <2>2
<1>6. \A t \in Types, p \in Positions :
        ~(t = instr_type /\ New(p)) => CopyAt(t, p)' = CopyAt(t, p)
  BY <1>3 DEF CopyAt
<1>7. \A c \in placed' : c \in placed \/ \E p \in Positions : New(p) /\ c = Fresh(p)
  <2> SUFFICES ASSUME NEW c \in placed'
               PROVE  c \in placed \/ \E p \in Positions : New(p) /\ c = Fresh(p)
    OBVIOUS
  <2>1. PICK t \in Types, p \in Positions : queues'[t][p] # None /\ c = CopyAt(t, p)'
    BY MembersNext
  <2>2. CASE t = instr_type /\ New(p) BY <2>1, <2>2, <1>5
  <2>3. CASE ~(t = instr_type /\ New(p)) BY <2>1, <2>3, <1>3, <1>6, Members
  <2> QED BY <2>2, <2>3
<1>8. \A p \in Positions : New(p) => Fresh(p) \in placed'
  <2> SUFFICES ASSUME NEW p \in Positions, New(p) PROVE Fresh(p) \in placed'
    OBVIOUS
  <2>1. PICK t \in Types : t = instr_type BY <1>2
  <2>2. queues'[t][p] # None BY <1>3, <2>1
  <2>3. CopyAt(t, p)' \in placed' BY <2>2, MembersNext
  <2> HIDE DEF Fresh
  <2> QED BY <1>5, <2>1, <2>3
<1>9. \A c \in placed : c \in placed'
  <2> SUFFICES ASSUME NEW c \in placed PROVE c \in placed'
    OBVIOUS
  <2>1. PICK t \in Types, p \in Positions : queues[t][p] # None /\ c = CopyAt(t, p)
    BY Members
  <2>2. ~(t = instr_type /\ New(p)) BY <2>1, <1>4
  <2> QED BY <2>1, <2>2, <1>3, <1>6, MembersNext
<1>10. CASE insert_spot >= QueueLength
  <2>1. \A p \in Positions : ~New(p)
    BY <1>2, <1>10 DEF New, Positions
  <2>2. placed' = placed
    BY <2>1, <1>7, <1>9
  <2> QED BY <2>2
<1>11. CASE insert_spot < QueueLength
  <2>1. size \in 1..QueueLength /\ insert_spot \in Positions
    BY <1>2, <1>11 DEF Positions
  <2>2. \A p \in Positions : New(p) <=> p - insert_spot \in 0..size - 1
    BY <1>2, <1>11 DEF New, Positions
  <2>3. \A n \in 0..size - 1 : insert_spot + n \in Positions /\ New(insert_spot + n)
    BY <1>2, <1>11 DEF New, Positions
  <2> HIDE DEF size, Fresh
  <2>4. ASSUME NEW c \in group
        PROVE  \E p \in Positions : New(p) /\ c = Fresh(p)
    <3>1. PICK n \in 0..size - 1 :
            c = [type |-> instr_type, position |-> insert_spot + n, step |-> k,
                 first |-> i, copy |-> n]
      BY <2>4 DEF S!Group
    <3>2. n = (insert_spot + n) - insert_spot
      BY <1>2, <2>1
    <3>3. c = Fresh(insert_spot + n) BY <3>1, <3>2 DEF Fresh
    <3> QED BY <2>3, <3>3
  <2>5. ASSUME NEW p \in Positions, New(p) PROVE Fresh(p) \in group
    <3>1. p - insert_spot \in 0..size - 1 BY <2>2, <2>5
    <3>2. p = insert_spot + (p - insert_spot) BY <1>2 DEF Positions
    <3> QED BY <3>1, <3>2 DEF S!Group, Fresh
  <2> HIDE DEF group
  <2>6. placed' = placed \cup group
    BY <1>7, <1>8, <1>9, <2>4, <2>5
  <2>7. group \subseteq S!Copies
    <3> SUFFICES ASSUME NEW d \in group PROVE d \in S!Copies
      OBVIOUS
    <3>1. PICK p \in Positions : New(p) /\ d = Fresh(p) BY <2>4
    <3>2. p - insert_spot \in Nat BY <1>2, <3>1 DEF New, Positions
    <3> QED BY <1>2, <3>1, <3>2 DEF Fresh, S!Copies, S!Positions, Positions
  <2>8. ASSUME NEW c \in placed, NEW d \in group
        PROVE  /\ c.type = d.type => c.position # d.position
               /\ c.copy = d.copy => /\ S!Before(c, d)
                                     /\ c.position + LATENCY[c.type] <= d.position
    <3>1. PICK t \in Types, p \in Positions : queues[t][p] # None /\ c = CopyAt(t, p)
      BY Members
    <3>2. PICK q \in Positions : New(q) /\ d = Fresh(q)
      BY <2>4
    <3> DEFINE e == queues[t][p]
    <3>3. /\ c.type = t /\ c.position = p /\ c.step = e.step /\ c.first = e.first
          /\ c.copy = e.copy
      BY <3>1 DEF CopyAt
    <3>4. /\ d.type = instr_type /\ d.position = q /\ d.step = k /\ d.first = i
          /\ d.copy = q - insert_spot
      BY <3>2 DEF Fresh
    <3>5. p + LATENCY[t] <= done[prevInstrType] + e.copy
          /\ (e.first < i \/ (e.first = i /\ e.step < k))
      BY <1>1, <3>1 DEF BehindAt
    <3>6. e.copy \in Nat
      BY <1>1, <3>1, CopyTypes
    <3>7. t = instr_type => p # q
      BY <1>4, <3>1, <3>2
    <3>8. p \in Nat /\ q \in Nat /\ LATENCY[t] \in Nat
      BY <1>2, <3>1, <3>2 DEF Positions
    <3> HIDE DEF e
    <3>9. e.copy = q - insert_spot => p + LATENCY[t] <= q
      BY <1>2, <3>5, <3>6, <3>8
    <3>10. c.type = d.type => c.position # d.position
      BY <3>3, <3>4, <3>7
    <3>11. S!Before(c, d)
      BY <3>3, <3>4, <3>5 DEF S!Before
    <3> QED BY <3>3, <3>4, <3>9, <3>10, <3>11
  <2>9. S!Place(instr_type, insert_spot, size, k, i)
    BY <2>6, <2>7, <2>8 DEF S!Place, group
  <2> QED BY <1>2, <2>1, <2>9
<1> QED BY <1>2, <1>10, <1>11

LEMMA StepPlaces ==
    IInv /\ [Next]_vars =>
      [\E type \in Types, spot \in Positions, size \in 1..QueueLength :
         S!Place(type, spot, size, k, i)]_placed
<1>1. ASSUME IInv, Push
      PROVE  [\E type \in Types, spot \in Positions, size \in 1..QueueLength :
                S!Place(type, spot, size, k, i)]_placed
  BY <1>1, PushPlaces
<1>2. ASSUME UNCHANGED vars PROVE placed' = placed
  BY <1>2 DEF vars, placed, Occupied, CopyAt
<1> QED BY <1>1, <1>2 DEF Next

LEMMA InitPlaces == Init => S!Init
<1> SUFFICES ASSUME Init PROVE placed = {}
  BY DEF S!Init
<1>1. \A t \in Types, p \in Positions : queues[t][p] = None
  BY DEF Init
<1> QED BY <1>1, Members

(* Every push is a step of Schedule, the one that places a group at the    *)
(* instruction and the iteration that the script is at, or changes nothing *)
(* (superscalar.py:37-44, 57-63).                                          *)
THEOREM Refinement == Spec => HoldsASchedule
<1> QED BY Invariant, InitPlaces, StepPlaces, PTL DEF Spec, HoldsASchedule

(* The algorithm implements the abstract specification.                    *)
THEOREM Implements == Spec => S!Spec
<1>1. TypeOK /\ [\E type \in Types, spot \in Positions, size \in 1..QueueLength :
                   S!Place(type, spot, size, k, i)]_placed => [S!Next]_placed
  <2> SUFFICES ASSUME TypeOK,
                      NEW type \in Types, NEW spot \in Positions, NEW size \in 1..QueueLength,
                      S!Place(type, spot, size, k, i)
               PROVE  S!Next
    OBVIOUS
  <2>1. PICK step \in Nat, first \in Nat : step = k /\ first = i
    BY SetupTypes DEF TypeOK
  <2>2. S!Place(type, spot, size, step, first)
    BY <2>1
  <2> QED BY <2>2 DEF S!Next, S!Positions, Positions
<1> QED BY <1>1, TypeCorrect, Refinement, PTL DEF HoldsASchedule, S!Spec

-----------------------------------------------------------------------------
(* What Schedule promises holds of the copies that are placed.             *)
PlacedInv == placed \subseteq S!Copies /\ S!Exclusive /\ S!Spaced

LEMMA PlaceKeeps ==
    ASSUME PlacedInv, NEW type, NEW spot \in Nat, NEW size, NEW step, NEW first,
           S!Place(type, spot, size, step, first)
    PROVE  PlacedInv'
<1> DEFINE group == S!Group(type, spot, size, step, first)
<1>1. /\ group \subseteq S!Copies /\ placed' = placed \cup group
      /\ \A c \in placed, d \in group :
           /\ c.type = d.type => c.position # d.position
           /\ c.copy = d.copy => /\ S!Before(c, d)
                                 /\ c.position + LATENCY[c.type] <= d.position
  BY DEF S!Place
<1>2. \A c, d \in group : /\ ~S!Before(c, d)
                          /\ c.position = d.position => c = d
  <2> SUFFICES ASSUME NEW c \in group, NEW d \in group
               PROVE  ~S!Before(c, d) /\ (c.position = d.position => c = d)
    OBVIOUS
  <2>1. PICK m \in 0..size - 1 :
          c = [type |-> type, position |-> spot + m, step |-> step, first |-> first, copy |-> m]
    BY DEF S!Group
  <2>2. PICK n \in 0..size - 1 :
          d = [type |-> type, position |-> spot + n, step |-> step, first |-> first, copy |-> n]
    BY DEF S!Group
  <2>3. c \in S!Copies /\ d \in S!Copies BY <1>1
  <2>4. c.step = step /\ d.step = step /\ c.first = first /\ d.first = first
        /\ c.copy = m /\ d.copy = n /\ c.type = d.type
        /\ c.step \in Nat /\ c.first \in Nat
        /\ c.position = spot + m /\ d.position = spot + n
    BY <2>1, <2>2, <2>3 DEF S!Copies
  <2> QED BY <2>1, <2>2, <2>4 DEF S!Before
<1> HIDE DEF group
<1>3. \A c, d \in S!Copies : S!Before(c, d) => ~S!Before(d, c)
  BY DEF S!Before, S!Copies
<1>4. (placed \subseteq S!Copies)'
  BY <1>1 DEF PlacedInv, S!Copies
<1>5. S!Exclusive'
  BY <1>1, <1>2 DEF PlacedInv, S!Exclusive
<1>6. S!Spaced'
  <2> SUFFICES ASSUME NEW c \in placed', NEW d \in placed', c.copy = d.copy, S!Before(c, d)
               PROVE  c.position + LATENCY[c.type] <= d.position
    BY DEF S!Spaced, S!Before
  <2>1. CASE c \in placed /\ d \in placed
    BY <2>1 DEF PlacedInv, S!Spaced
  <2>2. CASE c \in placed /\ d \in group
    BY <2>2, <1>1
  <2>3. CASE c \in group /\ d \in placed
    BY <2>3, <1>1, <1>3 DEF PlacedInv
  <2>4. CASE c \in group /\ d \in group
    BY <2>4, <1>2
  <2>5. c \in placed \cup group /\ d \in placed \cup group
    BY <1>1
  <2> QED BY <2>1, <2>2, <2>3, <2>4, <2>5
<1> QED BY <1>4, <1>5, <1>6 DEF PlacedInv

(* Nothing in the queues is on top of anything else, and no copy starts    *)
(* before what its thread did earlier is done (superscalar.py:37-44).      *)
THEOREM SchedulesSpaced == Spec => []SpacedInQueues
<1>1. Init => PlacedInv
  <2> SUFFICES ASSUME Init PROVE PlacedInv
    OBVIOUS
  <2>1. placed = {} BY InitPlaces DEF S!Init
  <2> QED BY <2>1 DEF PlacedInv, S!Exclusive, S!Spaced
<1>2. PlacedInv /\ [\E type \in Types, spot \in Positions, size \in 1..QueueLength :
                     S!Place(type, spot, size, k, i)]_placed => PlacedInv'
  <2>1. ASSUME PlacedInv, placed' = placed PROVE PlacedInv'
    BY <2>1 DEF PlacedInv, S!Exclusive, S!Spaced, S!Copies, S!Before
  <2>2. ASSUME PlacedInv, NEW type \in Types, NEW spot \in Positions,
               NEW size \in 1..QueueLength, S!Place(type, spot, size, k, i)
        PROVE  PlacedInv'
    <3>1. spot \in Nat BY DEF Positions
    <3> QED BY <2>2, <3>1, PlaceKeeps
  <2> QED BY <2>1, <2>2
<1>3. PlacedInv => SpacedInQueues
  BY DEF PlacedInv, SpacedInQueues
<1> QED BY <1>1, <1>2, <1>3, Refinement, PTL DEF Spec, HoldsASchedule
-----------------------------------------------------------------------------
(* How often: the copies of the instructions before the one that the       *)
(* script is at are in their queues, once each.  The first iterations of   *)
(* two groups are a width apart, so no iteration is in two of them.        *)
Inside(t, p) ==
    LET e == queues[t][p]
    IN  /\ p < next_spot_in_queue[t]
        /\ e.step \in StepsOf(t) /\ e.copy < width /\ e.first + e.copy < setup.LOOP_ITER
        /\ e.first < i \/ (e.first = i /\ e.step < k)
        /\ e.first = i \/ e.first + width <= i
Unlike(t, p, q) ==
    LET e == queues[t][p]
        f == queues[t][q]
    IN  /\ e.first < f.first => e.first + width <= f.first
        /\ e.step = f.step /\ e.first = f.first /\ e.copy = f.copy => p = q
Reached(step, n) == n < i \/ (n < i + width /\ step < k)
Holds(t, p, step, n) ==
    queues[t][p] # None /\ queues[t][p].step = step /\ queues[t][p].first + queues[t][p].copy = n
Counted ==
    outcome # "IndexError" =>
      /\ outcome = "done" => i >= setup.LOOP_ITER
      /\ \A t \in Types, p \in Positions : queues[t][p] # None => Inside(t, p)
      /\ \A t \in Types, p, q \in Positions :
           queues[t][p] # None /\ queues[t][q] # None => Unlike(t, p, q)
      /\ \A t \in Types : \A step \in StepsOf(t), n \in 0..setup.LOOP_ITER - 1 :
           Reached(step, n) => \E p \in Positions : Holds(t, p, step, n)

(* What was in a queue stays where it is.                                  *)
LEMMA OldStays ==
    ASSUME IInv, Push, NEW t \in Types, NEW p \in Positions, queues[t][p] # None
    PROVE  ~(t = instr_type /\ New(p)) /\ queues'[t][p] = queues[t][p]
<1>1. /\ TypeOK /\ superscalar_push /\ i < setup.LOOP_ITER /\ BehindAt(t, p)
  BY DEF IInv, Behind, Push
<1>2. /\ insert_spot \in Nat /\ insert_spot >= next_spot_in_queue[instr_type]
      /\ next_spot_in_queue[instr_type] \in Nat
  BY <1>1, PushNumbers, SetupTypes DEF TypeOK
<1>3. ~(t = instr_type /\ New(p))
  BY <1>1, <1>2 DEF BehindAt, New, Positions
<1> QED BY <1>1, <1>3, PushedQueues

(* Where the script is after a push for which there was room.              *)
LEMMA Advances ==
    ASSUME IInv, Push, outcome' # "IndexError"
    PROVE  /\ insert_spot + copy_count <= QueueLength
           /\ \/ k < Len(setup.program) /\ k' = k + 1 /\ i' = i /\ outcome' = "running"
              \/ k = Len(setup.program) /\ k' = 1 /\ i' = i + width
                   /\ outcome' = IF i' < setup.LOOP_ITER THEN "running" ELSE "done"
<1>1. TypeOK BY DEF IInv
<1>2. k \in 1..Len(setup.program) /\ Len(setup.program) \in Nat
  BY <1>1, SetupTypes DEF TypeOK
<1>3. insert_spot + copy_count <= QueueLength /\ Advance /\ outcome = "running"
  BY DEF Push
<1> QED BY <1>2, <1>3 DEF Advance, width

(* The types of an entry.                                                  *)
LEMMA EntryTypes ==
    ASSUME TypeOK, NEW t \in Types, NEW p \in Positions, queues[t][p] # None
    PROVE  /\ queues[t][p].step \in Nat /\ queues[t][p].first \in Nat
           /\ queues[t][p].copy \in Nat /\ p \in Nat
<1>1. queues[t][p] \in Entries
  BY DEF TypeOK
<1> QED BY <1>1, SuperscalarAssumption DEF Entries, Positions

(* Nothing is placed at the start.                                         *)
LEMMA InitCounted == Init => Counted
<1> SUFFICES ASSUME Init PROVE Counted
  OBVIOUS
<1>1. \A t \in Types, p \in Positions : queues[t][p] = None
  BY DEF Init
<1>2. i = 0 /\ k = 1 /\ outcome = "running"
  BY DEF Init
<1>3. \A t \in Types : \A step \in StepsOf(t), n \in 0..setup.LOOP_ITER - 1 : ~Reached(step, n)
  <2> SUFFICES ASSUME NEW t \in Types, NEW step \in StepsOf(t), NEW n \in 0..setup.LOOP_ITER - 1
               PROVE ~Reached(step, n)
    OBVIOUS
  <2>1. step >= 1 /\ n >= 0
    BY DEF StepsOf
  <2>2. step \in Int /\ n \in Int
    BY DEF StepsOf
  <2> QED BY <1>2, <2>1, <2>2 DEF Reached
<1> QED BY <1>1, <1>2, <1>3 DEF Counted

(* A push puts its instruction's copies behind those that are there.       *)
LEMMA PushCounted ==
    ASSUME IInv, Counted, Push
    PROVE  Counted'
<1> SUFFICES ASSUME outcome' # "IndexError" PROVE Counted'
  BY DEF Counted
<1>1. /\ TypeOK /\ superscalar_push /\ i < setup.LOOP_ITER /\ setup' = setup
      /\ outcome = "running"
  BY DEF IInv, Behind, Push
<1>2. /\ insert_spot \in Nat /\ copy_count \in 1..width /\ width \in Nat \ {0}
      /\ insert_spot >= next_spot_in_queue[instr_type] /\ instr_type \in Types
      /\ NextSpot = insert_spot + width /\ next_spot_in_queue \in [Types -> Nat]
      /\ i \in Nat /\ k \in 1..Len(setup.program) /\ Len(setup.program) \in Nat
      /\ setup.LOOP_ITER \in Nat /\ QueueLength \in Nat /\ k \in Nat
  BY <1>1, PushNumbers, SetupTypes, SuperscalarAssumption DEF TypeOK
<1>3. /\ insert_spot + copy_count <= QueueLength
      /\ \/ k < Len(setup.program) /\ k' = k + 1 /\ i' = i /\ outcome' = "running"
         \/ k = Len(setup.program) /\ k' = 1 /\ i' = i + width
              /\ outcome' = IF i' < setup.LOOP_ITER THEN "running" ELSE "done"
  BY Advances
<1>4. /\ \A t \in Types : StepsOf(t)' = StepsOf(t)
      /\ width' = width /\ setup'.LOOP_ITER = setup.LOOP_ITER
  BY <1>1 DEF StepsOf, width
<1>5. /\ next_spot_in_queue'[instr_type] = insert_spot + width
      /\ \A t \in Types : next_spot_in_queue[t] <= next_spot_in_queue'[t]
  BY <1>1, <1>2 DEF superscalar_push
<1>6. \A t \in Types, p \in Positions : queues[t][p] # None => Inside(t, p)
  BY <1>1 DEF Counted
<1>7. \A p \in Positions : New(p) =>
        /\ queues'[instr_type][p] # None
        /\ queues'[instr_type][p].step = k /\ queues'[instr_type][p].first = i
        /\ queues'[instr_type][p].copy = p - insert_spot
        /\ p - insert_spot \in Nat /\ p - insert_spot < copy_count /\ p \in Nat
  <2> SUFFICES ASSUME NEW p \in Positions, New(p)
               PROVE  /\ queues'[instr_type][p] # None
                      /\ queues'[instr_type][p].step = k /\ queues'[instr_type][p].first = i
                      /\ queues'[instr_type][p].copy = p - insert_spot
                      /\ p - insert_spot \in Nat /\ p - insert_spot < copy_count /\ p \in Nat
    OBVIOUS
  <2>1. /\ queues'[instr_type][p] = [step |-> k, first |-> i, copy |-> p - insert_spot]
        /\ queues'[instr_type][p] # None
    BY <1>1, PushedQueues
  <2>2. p - insert_spot \in Nat /\ p - insert_spot < copy_count /\ p \in Nat
    BY <1>2 DEF New, Positions
  <2> QED BY <2>1, <2>2
<1>8. \A t \in Types, p \in Positions : queues'[t][p] # None =>
        \/ t = instr_type /\ New(p)
        \/ queues[t][p] # None /\ queues'[t][p] = queues[t][p]
  BY <1>1, PushedQueues
<1>9. k \in StepsOf(instr_type)
  BY <1>2 DEF StepsOf, instr_type
<1>10. \A m \in Nat : m < copy_count => i + m < setup.LOOP_ITER
  BY <1>1, <1>2 DEF copy_count, width
<1>0. i' \in Nat /\ k' \in Nat /\ ((i' = i /\ k' = k + 1) \/ i' = i + width)
  BY <1>2, <1>3
<1>11. outcome' = "done" => i' >= setup'.LOOP_ITER
  BY <1>2, <1>3, <1>4
<1>12. ASSUME NEW t \in Types, NEW p \in Positions, queues'[t][p] # None
       PROVE  Inside(t, p)'
  <2>1. CASE t = instr_type /\ New(p)
    <3>1. /\ queues'[t][p].step = k /\ queues'[t][p].first = i
          /\ queues'[t][p].copy = p - insert_spot
          /\ p - insert_spot \in Nat /\ p - insert_spot < copy_count /\ p \in Nat
      BY <1>7, <2>1
    <3>2. p < next_spot_in_queue'[t] /\ p - insert_spot < width
      BY <1>2, <1>5, <2>1, <3>1
    <3>3. i + (p - insert_spot) < setup.LOOP_ITER
      BY <1>2, <1>10, <3>1
    <3>4. /\ i < i' \/ (i = i' /\ k < k')
          /\ i = i' \/ i + width <= i'
      BY <1>2, <1>3
    <3> QED BY <1>4, <1>9, <2>1, <3>1, <3>2, <3>3, <3>4 DEF Inside
  <2>2. CASE queues[t][p] # None /\ queues'[t][p] = queues[t][p]
    <3> DEFINE e == queues[t][p]
    <3>1. /\ p < next_spot_in_queue[t]
          /\ e.step \in StepsOf(t) /\ e.copy < width /\ e.first + e.copy < setup.LOOP_ITER
          /\ e.first < i \/ (e.first = i /\ e.step < k)
          /\ e.first = i \/ e.first + width <= i
      BY <1>6, <2>2 DEF Inside
    <3>2. e.step \in Nat /\ e.first \in Nat /\ e.copy \in Nat /\ p \in Nat
      BY <1>1, <2>2, EntryTypes
    <3> HIDE DEF e
    <3>3. /\ e.first < i' \/ (e.first = i' /\ e.step < k')
          /\ e.first = i' \/ e.first + width <= i'
      <4>1. /\ e.step \in Nat /\ e.first \in Nat /\ i \in Nat /\ k \in Nat /\ width \in Nat \ {0}
            /\ i' \in Nat /\ k' \in Nat
        BY <1>2, <1>0, <3>2
      <4>2. CASE i' = i /\ k' = k + 1
        BY ONLY <3>1, <4>1, <4>2
      <4>3. CASE i' = i + width
        BY ONLY <3>1, <4>1, <4>3
      <4> QED BY <1>0, <4>2, <4>3
    <3>4. p < next_spot_in_queue'[t]
      <4>1. next_spot_in_queue[t] \in Nat /\ next_spot_in_queue'[t] \in Nat
        <5>1. TypeOK' BY PushTypes
        <5> QED BY <1>2, <5>1 DEF TypeOK
      <4> QED BY <1>5, <3>1, <3>2, <4>1
    <3> QED BY <1>4, <2>2, <3>1, <3>3, <3>4 DEF Inside, e
  <2> QED BY <1>8, <1>12, <2>1, <2>2
<1>13. ASSUME NEW t \in Types, NEW p \in Positions, NEW q \in Positions,
              queues'[t][p] # None, queues'[t][q] # None
       PROVE  Unlike(t, p, q)'
  <2> DEFINE e == queues'[t][p]
             f == queues'[t][q]
  <2> SUFFICES /\ e.first < f.first => e.first + width <= f.first
               /\ e.step = f.step /\ e.first = f.first /\ e.copy = f.copy => p = q
    BY <1>4 DEF Unlike
  <2>1. CASE (t = instr_type /\ New(p)) /\ New(q)
    <3>1. e.step = k /\ f.step = k /\ e.first = i /\ f.first = i /\ p \in Nat /\ q \in Nat
          /\ e.copy = p - insert_spot /\ f.copy = q - insert_spot
      BY <1>7, <2>1
    <3> HIDE DEF e, f
    <3> QED BY <1>2, <3>1
  <2>2. CASE (t = instr_type /\ New(p)) /\ queues[t][q] # None /\ f = queues[t][q]
    <3>1. e.step = k /\ e.first = i
      BY <1>7, <2>2
    <3>2. f.first < i \/ (f.first = i /\ f.step < k)
      BY <1>6, <2>2 DEF Inside
    <3>3. f.first \in Nat /\ f.step \in Nat
      BY <1>1, <2>2, EntryTypes
    <3> HIDE DEF e, f
    <3> QED BY <1>2, <3>1, <3>2, <3>3
  <2>3. CASE (t = instr_type /\ New(q)) /\ queues[t][p] # None /\ e = queues[t][p]
    <3>1. f.step = k /\ f.first = i
      BY <1>7, <2>3
    <3>2. /\ e.first < i \/ (e.first = i /\ e.step < k)
          /\ e.first = i \/ e.first + width <= i
      BY <1>6, <2>3 DEF Inside
    <3>3. e.first \in Nat /\ e.step \in Nat
      BY <1>1, <2>3, EntryTypes
    <3> HIDE DEF e, f
    <3> QED BY <1>2, <3>1, <3>2, <3>3
  <2>4. CASE queues[t][p] # None /\ e = queues[t][p] /\ queues[t][q] # None /\ f = queues[t][q]
    <3>1. Unlike(t, p, q)
      BY <1>1, <2>4 DEF Counted
    <3> QED BY <2>4, <3>1 DEF Unlike
  <2> HIDE DEF e, f
  <2> QED BY <1>8, <1>13, <2>1, <2>2, <2>3, <2>4 DEF e, f
<1>14. ASSUME NEW t \in Types, NEW step \in StepsOf(t), NEW n \in 0..setup.LOOP_ITER - 1,
              Reached(step, n)'
       PROVE  \E p \in Positions : Holds(t, p, step, n)'
  <2>1. n \in Nat /\ step \in 1..Len(setup.program) /\ n < setup.LOOP_ITER
    BY <1>2 DEF StepsOf
  <2>2. n < i' \/ (n < i' + width /\ step < k')
    BY <1>4, <1>14 DEF Reached
  <2>3. CASE Reached(step, n)
    <3>1. PICK p \in Positions : Holds(t, p, step, n)
      BY <1>1, <2>3 DEF Counted
    <3>2. queues'[t][p] = queues[t][p]
      BY <3>1, OldStays DEF Holds
    <3> QED BY <3>1, <3>2 DEF Holds
  <2>4. CASE ~Reached(step, n)
    <3>1. i <= n /\ n < i + width /\ step = k
      BY <1>2, <1>3, <2>1, <2>2, <2>4 DEF Reached
    <3>2. t = instr_type
      BY <3>1 DEF StepsOf, instr_type
    <3>3. n - i < copy_count
      BY <1>2, <2>1, <3>1 DEF copy_count, width
    <3>4. PICK p \in Positions : New(p) /\ i + (p - insert_spot) = n
      <4>1. /\ insert_spot + (n - i) \in Positions /\ New(insert_spot + (n - i))
            /\ i + ((insert_spot + (n - i)) - insert_spot) = n
        BY <1>2, <1>3, <2>1, <3>1, <3>3 DEF Positions, New
      <4> QED BY <4>1
    <3>5. Holds(t, p, step, n)'
      BY <1>7, <3>1, <3>2, <3>4 DEF Holds
    <3> QED BY <3>4, <3>5
  <2> QED BY <2>3, <2>4
<1>15. \A t \in Types : \A step \in StepsOf(t)', n \in 0..setup'.LOOP_ITER - 1 :
           Reached(step, n)' => \E p \in Positions : Holds(t, p, step, n)'
  BY <1>4, <1>14
<1> QED BY <1>11, <1>12, <1>13, <1>15 DEF Counted

(* The count holds throughout.                                             *)
LEMMA CountedInvariant == Spec => [](IInv /\ Counted)
<1>1. IInv /\ Counted /\ [Next]_vars => (IInv /\ Counted)'
  <2>1. ASSUME IInv, Counted, UNCHANGED vars PROVE Counted'
    BY <2>1 DEF Counted, Inside, Unlike, Reached, Holds, StepsOf, vars, width
  <2> QED BY <2>1, NextKeeps, PushCounted DEF Next
<1> QED BY <1>1, InitHolds, InitCounted, PTL DEF Spec

(* At the end every instruction of the program has every iteration of the  *)
(* loop once in the queue of its type, whatever the width, also when the   *)
(* last group is smaller, and the script's count of used positions is the  *)
(* number of instructions it pushed (superscalar.py:37-44, 57-63, 80-81).  *)
THEOREM EveryIterationOnceAtTheEnd == Spec => []EachIterationOnce
<1>1. IInv /\ Counted => EachIterationOnce
  <2> SUFFICES ASSUME IInv, Counted, outcome = "done", NEW type \in Types
               PROVE  /\ {<<c.step, c.first + c.copy>> : c \in {d \in placed : d.type = type}}
                           = StepsOf(type) \X (0..setup.LOOP_ITER - 1)
                      /\ q_used(type) = Cardinality(StepsOf(type)) * setup.LOOP_ITER
    BY DEF EachIterationOnce
  <2> DEFINE Taken == {p \in Positions : queues[type][p] # None}
             last == setup.LOOP_ITER - 1
             Iterations == 0..last
             what(p) == <<queues[type][p].step, queues[type][p].first + queues[type][p].copy>>
             f == [p \in Taken |-> what(p)]
  <2>1. /\ TypeOK /\ setup.LOOP_ITER \in Nat /\ width \in Nat
        /\ i \in Nat /\ i >= setup.LOOP_ITER
        /\ Len(setup.program) \in Nat /\ next_spot_in_queue \in [Types -> Nat]
    BY SetupTypes DEF IInv, TypeOK, Counted
  <2>2. ASSUME NEW p \in Taken
        PROVE  /\ Inside(type, p) /\ what(p) \in StepsOf(type) \X Iterations
    <3>1. Inside(type, p)
      BY DEF Counted
    <3>2. queues[type][p].first \in Nat /\ queues[type][p].copy \in Nat
      BY <2>1, EntryTypes
    <3>3. /\ queues[type][p].step \in StepsOf(type)
          /\ queues[type][p].first + queues[type][p].copy < setup.LOOP_ITER
      BY <3>1 DEF Inside
    <3>4. queues[type][p].first + queues[type][p].copy \in Iterations
      <4>1. \A m, n, l \in Nat : m + n < l => m + n \in 0..l - 1
        OBVIOUS
      <4> QED BY <2>1, <3>2, <3>3, <4>1
    <3> QED BY <3>1, <3>3, <3>4
  <2>3. ASSUME NEW step \in StepsOf(type), NEW n \in Iterations
        PROVE  \E p \in Taken : what(p) = <<step, n>>
    <3>1. Reached(step, n)
      BY <2>1 DEF Reached
    <3>2. PICK p \in Positions : Holds(type, p, step, n)
      BY <3>1 DEF Counted
    <3> QED BY <3>2 DEF Holds
  <2>4. ASSUME NEW p \in Taken, NEW q \in Taken, what(p) = what(q)
        PROVE  p = q
    <3> DEFINE e == queues[type][p]
               g == queues[type][q]
    <3>1. e.first \in Nat /\ e.copy \in Nat /\ g.first \in Nat /\ g.copy \in Nat
      BY <2>1, EntryTypes
    <3>2. e.copy < width /\ g.copy < width
      BY <2>2 DEF Inside
    <3>3. /\ e.first < g.first => e.first + width <= g.first
          /\ g.first < e.first => g.first + width <= e.first
          /\ e.step = g.step /\ e.first = g.first /\ e.copy = g.copy => p = q
      BY DEF Counted, Unlike
    <3>4. e.step = g.step /\ e.first + e.copy = g.first + g.copy
      BY <2>4
    <3> HIDE DEF e, g
    <3>5. e.first = g.first
      BY <2>1, <3>1, <3>2, <3>3, <3>4
    <3> QED BY <3>1, <3>3, <3>4, <3>5
  <2>5. \A c : (\E d \in {b \in placed : b.type = type} : c = <<d.step, d.first + d.copy>>)
                 <=> \E p \in Taken : c = what(p)
    <3>1. ASSUME NEW c, NEW d \in placed, d.type = type, c = <<d.step, d.first + d.copy>>
          PROVE  \E p \in Taken : c = what(p)
      <4>1. PICK t \in Types, p \in Positions : queues[t][p] # None /\ d = CopyAt(t, p)
        BY Members
      <4>2. d.type = t /\ d.step = queues[t][p].step /\ d.first = queues[t][p].first
            /\ d.copy = queues[t][p].copy
        BY <4>1 DEF CopyAt
      <4> QED BY <3>1, <4>1, <4>2
    <3>2. ASSUME NEW c, NEW p \in Taken, c = what(p)
          PROVE  \E d \in {b \in placed : b.type = type} : c = <<d.step, d.first + d.copy>>
      <4> DEFINE d == CopyAt(type, p)
      <4>1. d \in placed
        BY Members
      <4>2. d.type = type /\ d.step = queues[type][p].step /\ d.first = queues[type][p].first
            /\ d.copy = queues[type][p].copy
        BY DEF CopyAt
      <4> HIDE DEF d
      <4> QED BY <3>2, <4>1, <4>2
    <3> HIDE DEF Taken, what
    <3> QED BY <3>1, <3>2
  <2>6. \A c \in StepsOf(type) \X Iterations : \E p \in Taken : c = what(p)
    <3> SUFFICES ASSUME NEW c \in StepsOf(type) \X Iterations
                 PROVE  \E p \in Taken : c = what(p)
      OBVIOUS
    <3>1. PICK step \in StepsOf(type), n \in Iterations : c = <<step, n>>
      OBVIOUS
    <3> HIDE DEF Taken, what, Iterations
    <3> QED BY <2>3, <3>1
  <2>7. {<<c.step, c.first + c.copy>> : c \in {d \in placed : d.type = type}}
          = StepsOf(type) \X Iterations
    <3> HIDE DEF Taken, what, Iterations
    <3> QED BY <2>2, <2>5, <2>6
  <2>8. Cardinality(Taken) = Cardinality(StepsOf(type)) * setup.LOOP_ITER
    <3>1. IsFiniteSet(StepsOf(type))
      <4>1. StepsOf(type) \subseteq 1..Len(setup.program)
        BY DEF StepsOf
      <4>2. IsFiniteSet(1..Len(setup.program))
        BY <2>1, FS_Interval
      <4> QED BY <4>1, <4>2, FS_Subset
    <3>2. IsFiniteSet(Iterations) /\ Cardinality(Iterations) = setup.LOOP_ITER
      <4>1. last \in Int /\ last >= 0 /\ last - 0 + 1 = setup.LOOP_ITER /\ 0 \in Int
        <5>1. setup.LOOP_ITER \in Nat /\ setup.LOOP_ITER # 0
          BY SetupTypes DEF IInv
        <5> QED BY <5>1
      <4> HIDE DEF last
      <4>2. IsFiniteSet(0..last) /\ Cardinality(0..last) = IF 0 > last THEN 0 ELSE last - 0 + 1
        BY <4>1, FS_Interval
      <4> QED BY <4>1, <4>2
    <3>3. IsFiniteSet(Taken)
      <4>1. IsFiniteSet(0..QueueLength - 1)
        BY SuperscalarAssumption, FS_Interval
      <4>2. Taken \subseteq 0..QueueLength - 1
        BY DEF Positions
      <4> QED BY <4>1, <4>2, FS_Subset
    <3> HIDE DEF Iterations
    <3>4. /\ IsFiniteSet(StepsOf(type) \X Iterations)
          /\ Cardinality(StepsOf(type) \X Iterations)
               = Cardinality(StepsOf(type)) * Cardinality(Iterations)
      BY <3>1, <3>2, FS_Product
    <3> HIDE DEF Taken, what
    <3>5. f \in Bijection(Taken, StepsOf(type) \X Iterations)
      <4>1. f \in [Taken -> StepsOf(type) \X Iterations]
        BY <2>2
      <4>2. \A p, q \in Taken : f[p] = f[q] => p = q
        BY <2>4
      <4>3. \A c \in StepsOf(type) \X Iterations : \E p \in Taken : f[p] = c
        BY <2>6
      <4> HIDE DEF f
      <4> QED BY <4>1, <4>2, <4>3 DEF Bijection, Injection, Surjection, IsInjective
    <3>6. Cardinality(Taken) = Cardinality(StepsOf(type) \X Iterations)
      <4> HIDE DEF f
      <4>1. ExistsBijection(Taken, StepsOf(type) \X Iterations)
        BY <3>5 DEF ExistsBijection
      <4> QED BY <3>3, <4>1, FS_Bijection
    <3> QED BY <3>2, <3>4, <3>6
  <2>9. \A p \in Taken : p < instructions_used
    <3> SUFFICES ASSUME NEW p \in Taken PROVE p < instructions_used
      OBVIOUS
    <3>1. p < next_spot_in_queue[type] /\ p \in Nat
      <4>1. Inside(type, p)
        BY <2>2
      <4>2. p \in Positions
        OBVIOUS
      <4> HIDE DEF Taken
      <4> QED BY <4>1, <4>2, SuperscalarAssumption DEF Inside, Positions
    <3>2. next_spot_in_queue[type] <= instructions_used /\ instructions_used \in Nat
      BY <2>1 DEF instructions_used, Larger, Types
    <3> QED BY <2>1, <3>1, <3>2
  <2>10. q_used(type) = Cardinality(Taken)
    BY <2>9 DEF q_used
  <2> QED BY <2>7, <2>8, <2>10
<1> QED BY <1>1, CountedInvariant, PTL
=============================================================================
