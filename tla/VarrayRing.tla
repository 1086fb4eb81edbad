----------------------------- MODULE VarrayRing -----------------------------
(***************************************************************************)
(* What one clock edge (core/FIFO/varray.sv:26-59) does to the ring of a   *)
(* varray, for rings of any length and entries holding any data: which     *)
(* slots are live, in which order, what they hold, when the tail moves,    *)
(* and what the flag of a new superscalar group is worth.  The lemmas are  *)
(* about the operators of VarrayOps alone, so that they serve the varray   *)
(* on its own and the four of the instruction queue.                       *)
(***************************************************************************)
EXTENDS VarrayOps, TLAPS

(* Slots between a tail and a head, and their order in the ring.           *)
LiveOf(h, t) == IF h >= t THEN t .. h - 1
                ELSE (t .. QUEUE_LENGTH - 1) \cup (0 .. h - 1)
Earlier(s, r, t) == IF s >= t /\ r >= t THEN s < r
                    ELSE IF s < t /\ r < t THEN s < r ELSE s >= t

(* The registers of a varray of Dat.                                       *)
EntriesOf(Dat) == [start : Nat, len : Nat, dat : Dat]
RegistersOf(Dat) ==
    [mem : [Slots -> EntriesOf(Dat)], head : Slots, tail : Slots, varray_len : Nat,
     is_new_superscalar_group : BOOLEAN]

(* A tail is stuck when it has been read to its end and has not moved.     *)
LiveIn(v) == LiveOf(v.head, v.tail)
StuckAt(v, p) == v.head # v.tail /\ EndOf(v.mem[v.tail]) <= p

(* A ring whose reader is at p is intact when its live slots hold groups   *)
(* in increasing positions within the length, and its tail is stuck in the *)
(* last slot if anywhere: there queue_size counts one entry too few.       *)
Intact(v, p) ==
    /\ \A s \in LiveIn(v) : v.mem[s].len >= 1 /\ EndOf(v.mem[s]) <= v.varray_len
    /\ \A s, r \in LiveIn(v) :
          Earlier(s, r, v.tail) => EndOf(v.mem[s]) <= v.mem[r].start
    /\ StuckAt(v, p) => v.tail = QUEUE_LENGTH - 1

(* The flag says whether the element to be read is the first of its group, *)
(* for a group whose data is not in X.                                     *)
FlagRight(v, p, X) ==
    v.tail \in LiveIn(v) /\ Covers(v.mem[v.tail], p) /\ v.mem[v.tail].dat \notin X
    => (v.is_new_superscalar_group <=> p = v.mem[v.tail].start)

-----------------------------------------------------------------------------
(* The live slots are slots, the head is not one, and the tail is oldest.  *)
LEMMA RingSlots ==
    ASSUME NEW h \in Slots, NEW t \in Slots
    PROVE  /\ LiveOf(h, t) \subseteq Slots /\ h \notin LiveOf(h, t)
           /\ h # t => t \in LiveOf(h, t)
           /\ h = t => LiveOf(h, t) = {}
           /\ NextSlot(h) \in Slots
           /\ \A s \in LiveOf(h, t) : s # t => Earlier(t, s, t)
  BY VarrayAssumption DEF VarrayAssumption, Slots, LiveOf, NextSlot, Earlier

(* A write makes the head live, and younger than all the live slots.       *)
LEMMA RingPush ==
    ASSUME NEW h \in Slots, NEW t \in Slots, NextSlot(h) # t
    PROVE  /\ LiveOf(NextSlot(h), t) = LiveOf(h, t) \cup {h}
           /\ \A s \in LiveOf(h, t) : ~ Earlier(h, s, t)
           /\ ~ Earlier(h, h, t)
  BY VarrayAssumption DEF VarrayAssumption, Slots, LiveOf, NextSlot, Earlier

(* A move of the tail takes the oldest slot and keeps the order of the rest. *)
LEMMA RingPop ==
    ASSUME NEW h \in Slots, NEW t \in Slots, h # t
    PROVE  /\ LiveOf(h, NextSlot(t)) = LiveOf(h, t) \ {t}
           /\ NextSlot(h) # NextSlot(t)
           /\ \A s, r \in LiveOf(h, t) \ {t} :
                 Earlier(s, r, NextSlot(t)) => Earlier(s, r, t)
  BY VarrayAssumption DEF VarrayAssumption, Slots, LiveOf, NextSlot, Earlier

(* Both at one edge.                                                       *)
LEMMA RingStep ==
    ASSUME NEW h \in Slots, NEW t \in Slots, NEW h1, NEW t1,
           NEW push \in BOOLEAN, NEW pop \in BOOLEAN,
           pop => h # t, push => NextSlot(h) # t,
           h1 = IF push THEN NextSlot(h) ELSE h,
           t1 = IF pop THEN NextSlot(t) ELSE t
    PROVE  /\ h1 \in Slots /\ t1 \in Slots
           /\ LiveOf(h1, t1) = (LiveOf(h, t) \ (IF pop THEN {t} ELSE {}))
                               \cup (IF push THEN {h} ELSE {})
           /\ \A s, r \in LiveOf(h1, t1) :
                 Earlier(s, r, t1) =>
                    /\ s \in LiveOf(h, t)
                    /\ r = h \/ (r \in LiveOf(h, t) /\ Earlier(s, r, t))
<1>1. h1 \in Slots /\ t1 \in Slots
  BY RingSlots
<1> DEFINE rest == LiveOf(h, t) \ (IF pop THEN {t} ELSE {})
<1>2. LiveOf(h, t1) = rest
  BY RingPop
<1>3. push => NextSlot(h) # t1
  BY RingPop
<1>4. LiveOf(h1, t1) = rest \cup (IF push THEN {h} ELSE {})
  BY <1>1, <1>2, <1>3, RingPush
<1>5. \A s, r \in rest : Earlier(s, r, t1) => Earlier(s, r, t)
  BY RingPop
<1>6. push => ~ Earlier(h, h, t1) /\ \A s \in rest : ~ Earlier(h, s, t1)
  BY <1>1, <1>2, <1>3, RingPush
<1> QED
  BY <1>1, <1>4, <1>5, <1>6

(* What the size of the ring tells, although it is miscounted.             *)
LEMMA SizeTells ==
    ASSUME NEW v, v.head \in Slots, v.tail \in Slots
    PROVE  /\ queue_size(v) # 0 => v.head # v.tail
           /\ queue_size(v) = 0 /\ v.head # v.tail => v.tail = QUEUE_LENGTH - 1
           /\ ~ queue_almost_full(v) => NextSlot(v.head) # v.tail
  BY VarrayAssumption
     DEF VarrayAssumption, Slots, queue_size, queue_almost_full, NextSlot

(* The position of the reader after an edge.                               *)
NextPos(re, p) == IF re THEN p + 1 ELSE p

(* Whether an edge moves the tail.                                         *)
Pops(v, re, p) == re /\ queue_size(v) # 0 /\ LastOf(v.mem[v.tail], p)

(* An edge writes behind all that was written, not where it reads, and     *)
(* only into a ring that has room.                                         *)
WritesBehind(v, we, entry, p) ==
    we => /\ NextSlot(v.head) # v.tail
          /\ entry.len >= 1 /\ entry.start >= v.varray_len /\ entry.start >= p

-----------------------------------------------------------------------------
(* What an edge does, field by field.                                      *)
LEMMA ClockFields ==
    ASSUME NEW Dat, NEW v \in RegistersOf(Dat), NEW p \in Nat,
           NEW we \in BOOLEAN, NEW re \in BOOLEAN, NEW entry \in EntriesOf(Dat),
           NEW w, w = Clock(v, we, entry, re, p)
    PROVE  /\ w \in RegistersOf(Dat)
           /\ w.head = IF we THEN NextSlot(v.head) ELSE v.head
           /\ w.tail = IF Pops(v, re, p) THEN NextSlot(v.tail) ELSE v.tail
           /\ w.varray_len = IF we THEN EndOf(entry) ELSE v.varray_len
           /\ w.mem[v.head] = IF we THEN entry ELSE v.mem[v.head]
           /\ \A s \in Slots : s # v.head => w.mem[s] = v.mem[s]
           /\ ~ re => w.is_new_superscalar_group = v.is_new_superscalar_group
           /\ re => (w.is_new_superscalar_group <=>
                        p < v.mem[v.tail].start \/ LastOf(v.mem[v.tail], p))
<1> DEFINE last == LastOf(v.mem[v.tail], p)
           pops == re /\ queue_size(v) # 0 /\ last
           flag == IF re THEN p < v.mem[v.tail].start \/ last
                   ELSE v.is_new_superscalar_group
           mem == IF we THEN [v.mem EXCEPT ![v.head] = entry] ELSE v.mem
           head == IF we THEN NextSlot(v.head) ELSE v.head
           tail == IF pops THEN NextSlot(v.tail) ELSE v.tail
           len == IF we THEN EndOf(entry) ELSE v.varray_len
<1>1. w = [mem |-> mem, head |-> head, tail |-> tail, varray_len |-> len,
           is_new_superscalar_group |-> flag]
  BY DEF Clock
<1>2. /\ v.mem \in [Slots -> EntriesOf(Dat)] /\ v.head \in Slots /\ v.tail \in Slots
      /\ v.varray_len \in Nat /\ v.is_new_superscalar_group \in BOOLEAN
  BY DEF RegistersOf
<1>3. mem \in [Slots -> EntriesOf(Dat)]
  <2>1. [v.mem EXCEPT ![v.head] = entry] \in [Slots -> EntriesOf(Dat)]
    BY <1>2
  <2> QED
    BY <1>2, <2>1
<1>4. head \in Slots /\ tail \in Slots
  BY <1>2, RingSlots
<1>5. EndOf(entry) \in Nat
  BY DEF EndOf, EntriesOf
<1>6. len \in Nat
  BY <1>2, <1>5
<1>7. v.mem[v.tail].start \in Nat
  BY <1>2 DEF EntriesOf
<1>8. last \in BOOLEAN
  BY DEF LastOf
<1>9. flag \in BOOLEAN
  BY <1>2, <1>7, <1>8
<1>10. /\ mem[v.head] = IF we THEN entry ELSE v.mem[v.head]
       /\ \A s \in Slots : s # v.head => mem[s] = v.mem[s]
  BY <1>2
<1>11. Pops(v, re, p) <=> pops
  BY DEF Pops
<1>12. /\ ~ re => flag = v.is_new_superscalar_group
       /\ re => (flag <=> p < v.mem[v.tail].start \/ last)
  BY <1>2, <1>7, <1>8
<1> HIDE DEF mem, head, tail, len, flag
<1>13. /\ w.mem = mem /\ w.head = head /\ w.tail = tail /\ w.varray_len = len
       /\ w.is_new_superscalar_group = flag
  BY <1>1
<1>14. w \in RegistersOf(Dat)
  BY <1>1, <1>3, <1>4, <1>6, <1>9 DEF RegistersOf
<1>15. w.tail = IF Pops(v, re, p) THEN NextSlot(v.tail) ELSE v.tail
  BY <1>11, <1>13 DEF tail
<1> QED
  BY <1>10, <1>12, <1>13, <1>14, <1>15 DEF head, len

(* What the types say of the fields.                                       *)
LEMMA RegisterTypes ==
    ASSUME NEW Dat, NEW v \in RegistersOf(Dat)
    PROVE  /\ v.head \in Slots /\ v.tail \in Slots /\ v.varray_len \in Nat
           /\ LiveIn(v) \subseteq Slots
           /\ v.tail \in LiveIn(v) <=> v.head # v.tail
           /\ v.head = v.tail => LiveIn(v) = {}
           /\ \A s \in Slots :
                 /\ v.mem[s] \in EntriesOf(Dat) /\ v.mem[s].start \in Nat
                 /\ v.mem[s].len \in Nat /\ v.mem[s].dat \in Dat
                 /\ EndOf(v.mem[s]) = v.mem[s].start + v.mem[s].len
                 /\ EndOf(v.mem[s]) \in Nat
<1>1. v.head \in Slots /\ v.tail \in Slots /\ v.varray_len \in Nat
      /\ v.mem \in [Slots -> EntriesOf(Dat)]
  BY DEF RegistersOf
<1>2. \A s \in Slots :
         /\ v.mem[s] \in EntriesOf(Dat) /\ v.mem[s].start \in Nat
         /\ v.mem[s].len \in Nat /\ v.mem[s].dat \in Dat
         /\ EndOf(v.mem[s]) = v.mem[s].start + v.mem[s].len
         /\ EndOf(v.mem[s]) \in Nat
  BY <1>1 DEF EntriesOf, EndOf
<1> QED
  BY <1>1, <1>2, RingSlots DEF LiveIn

(* What an edge does to the live slots and to their order: it takes the    *)
(* one that has been read to its end, and adds the one it writes.          *)
LEMMA ClockRing ==
    ASSUME NEW Dat, NEW v \in RegistersOf(Dat), NEW p \in Nat,
           NEW we \in BOOLEAN, NEW re \in BOOLEAN, NEW entry \in EntriesOf(Dat),
           NEW w, w = Clock(v, we, entry, re, p),
           NEW q, q = NextPos(re, p),
           WritesBehind(v, we, entry, q)
    PROVE  /\ v.head \notin LiveIn(v)
           /\ Pops(v, re, p) => v.tail \in LiveIn(v) /\ re /\ EndOf(v.mem[v.tail]) = q
           /\ LiveIn(w) = (LiveIn(v) \ (IF Pops(v, re, p) THEN {v.tail} ELSE {}))
                          \cup (IF we THEN {v.head} ELSE {})
           /\ \A s, r \in LiveIn(w) : Earlier(s, r, w.tail) =>
                 /\ s \in LiveIn(v)
                 /\ r = v.head \/ (r \in LiveIn(v) /\ Earlier(s, r, v.tail))
           /\ \A s \in LiveIn(v) : s # v.tail => Earlier(v.tail, s, v.tail)
           /\ \A s \in LiveIn(w) :
                 \/ we /\ s = v.head /\ w.mem[s] = entry
                 \/ /\ s \in LiveIn(v) /\ w.mem[s] = v.mem[s]
                    /\ Pops(v, re, p) => s # v.tail
           /\ we => v.head \in LiveIn(w) /\ w.mem[v.head] = entry
           /\ \A s \in LiveIn(v) : (Pops(v, re, p) => s # v.tail)
                                  => s \in LiveIn(w) /\ w.mem[s] = v.mem[s]
           /\ \A s \in Slots \ LiveIn(w) :
                 /\ w.mem[s] = v.mem[s]
                 /\ s \notin LiveIn(v) \/ (Pops(v, re, p) /\ s = v.tail)
<1> USE DEF NextPos
<1>1. v.head \in Slots /\ v.tail \in Slots
  BY RegisterTypes
<1>2. /\ w.head = IF we THEN NextSlot(v.head) ELSE v.head
      /\ w.tail = IF Pops(v, re, p) THEN NextSlot(v.tail) ELSE v.tail
      /\ w.mem[v.head] = IF we THEN entry ELSE v.mem[v.head]
      /\ \A s \in Slots : s # v.head => w.mem[s] = v.mem[s]
  BY ClockFields
<1>3. Pops(v, re, p) \in BOOLEAN /\ (Pops(v, re, p) => v.head # v.tail)
  BY <1>1, SizeTells DEF Pops, LastOf
<1>4. we => NextSlot(v.head) # v.tail
  BY DEF WritesBehind
<1>5. /\ LiveOf(w.head, w.tail) =
            (LiveOf(v.head, v.tail) \ (IF Pops(v, re, p) THEN {v.tail} ELSE {}))
            \cup (IF we THEN {v.head} ELSE {})
      /\ \A s, r \in LiveOf(w.head, w.tail) :
            Earlier(s, r, w.tail) =>
               /\ s \in LiveOf(v.head, v.tail)
               /\ r = v.head \/ (r \in LiveOf(v.head, v.tail) /\ Earlier(s, r, v.tail))
  BY <1>1, <1>2, <1>3, <1>4, RingStep
<1>6. /\ LiveOf(v.head, v.tail) \subseteq Slots /\ v.head \notin LiveOf(v.head, v.tail)
      /\ v.head # v.tail => v.tail \in LiveOf(v.head, v.tail)
      /\ \A s \in LiveOf(v.head, v.tail) : s # v.tail => Earlier(v.tail, s, v.tail)
  BY <1>1, RingSlots
<1>7. Pops(v, re, p) => re /\ EndOf(v.mem[v.tail]) = q
  BY DEF Pops, LastOf
<1>8. ASSUME NEW s \in LiveOf(w.head, w.tail)
      PROVE  \/ we /\ s = v.head /\ w.mem[s] = entry
             \/ /\ s \in LiveOf(v.head, v.tail) /\ w.mem[s] = v.mem[s]
                /\ Pops(v, re, p) => s # v.tail
  BY <1>2, <1>5, <1>6
<1>9. /\ we => v.head \in LiveOf(w.head, w.tail) /\ w.mem[v.head] = entry
      /\ \A s \in LiveOf(v.head, v.tail) :
            (Pops(v, re, p) => s # v.tail)
               => s \in LiveOf(w.head, w.tail) /\ w.mem[s] = v.mem[s]
  BY <1>2, <1>5, <1>6
<1>10. ASSUME NEW s \in Slots, s \notin LiveOf(w.head, w.tail)
       PROVE  /\ w.mem[s] = v.mem[s]
              /\ s \notin LiveOf(v.head, v.tail) \/ (Pops(v, re, p) /\ s = v.tail)
  <2>1. we => s # v.head
    BY <1>9, <1>10
  <2>2. w.mem[s] = v.mem[s]
    BY <1>2, <2>1
  <2> QED
    BY <1>3, <1>9, <1>10, <2>2
<1> QED
  BY <1>3, <1>5, <1>6, <1>7, <1>8, <1>9, <1>10 DEF LiveIn

(* What an edge writes is live after it.                                   *)
LEMMA ClockWrites ==
    ASSUME NEW Dat, NEW v \in RegistersOf(Dat), NEW p \in Nat,
           NEW we \in BOOLEAN, NEW re \in BOOLEAN, NEW entry \in EntriesOf(Dat),
           NEW w, w = Clock(v, we, entry, re, p),
           NEW q, q = NextPos(re, p),
           WritesBehind(v, we, entry, q)
    PROVE  we => v.head \in LiveIn(w) /\ w.mem[v.head] = entry
<1> USE DEF NextPos
<1>1. LiveIn(w) = (LiveIn(v) \ (IF Pops(v, re, p) THEN {v.tail} ELSE {}))
                  \cup (IF we THEN {v.head} ELSE {})
  BY ClockRing
<1>2. w.mem[v.head] = IF we THEN entry ELSE v.mem[v.head]
  BY ClockFields
<1> QED
  BY <1>1, <1>2

(* The next group at the tail is the one that starts where the popped one  *)
(* ended, or later.                                                        *)
LEMMA NextTailStarts ==
    ASSUME NEW Dat, NEW v \in RegistersOf(Dat), NEW p \in Nat,
           NEW we \in BOOLEAN, NEW re \in BOOLEAN, NEW entry \in EntriesOf(Dat),
           NEW w, w = Clock(v, we, entry, re, p),
           NEW q, q = NextPos(re, p),
           WritesBehind(v, we, entry, q),
           Intact(v, p), Pops(v, re, p), w.tail \in LiveIn(w)
    PROVE  w.mem[w.tail].start >= q /\ w.mem[w.tail].len >= 1
<1> USE DEF NextPos
<1>1. CASE we /\ w.mem[w.tail] = entry
  BY <1>1 DEF WritesBehind
<1>2. CASE w.tail \in LiveIn(v) /\ w.mem[w.tail] = v.mem[w.tail] /\ w.tail # v.tail
  <2>1. v.tail \in LiveIn(v) /\ EndOf(v.mem[v.tail]) = q /\ Earlier(v.tail, w.tail, v.tail)
    BY <1>2, ClockRing
  <2>2. EndOf(v.mem[v.tail]) <= v.mem[w.tail].start /\ v.mem[w.tail].len >= 1
    BY <1>2, <2>1 DEF Intact
  <2>3. v.mem[w.tail].start \in Nat /\ q \in Nat
    BY <1>2, RegisterTypes
  <2> QED
    BY <1>2, <2>1, <2>2, <2>3
<1> QED
  BY <1>1, <1>2, ClockRing

(* An edge keeps a ring intact.                                            *)
LEMMA ClockIntact ==
    ASSUME NEW Dat, NEW v \in RegistersOf(Dat), NEW p \in Nat,
           NEW we \in BOOLEAN, NEW re \in BOOLEAN, NEW entry \in EntriesOf(Dat),
           NEW w, w = Clock(v, we, entry, re, p),
           NEW q, q = NextPos(re, p),
           WritesBehind(v, we, entry, q),
           Intact(v, p)
    PROVE  Intact(w, q)
<1> USE DEF NextPos
<1>1. /\ v.varray_len \in Nat /\ LiveIn(v) \subseteq Slots /\ v.tail \in Slots
      /\ \A s \in Slots : v.mem[s].start \in Nat /\ v.mem[s].len \in Nat
                          /\ EndOf(v.mem[s]) \in Nat
      /\ entry.start \in Nat /\ entry.len \in Nat /\ EndOf(entry) = entry.start + entry.len
  BY RegisterTypes DEF EntriesOf, EndOf
<1>2. we => /\ entry.len >= 1 /\ entry.start >= v.varray_len /\ entry.start >= q
            /\ w.varray_len = EndOf(entry)
  <2>1. w.varray_len = IF we THEN EndOf(entry) ELSE v.varray_len
    BY ClockFields
  <2> QED
    BY <2>1 DEF WritesBehind
<1>3. ~ we => w.varray_len = v.varray_len
  BY ClockFields
<1>4. ASSUME NEW s \in LiveIn(w)
      PROVE  w.mem[s].len >= 1 /\ EndOf(w.mem[s]) <= w.varray_len
  <2>1. CASE we /\ s = v.head /\ w.mem[s] = entry
    <3>1. EndOf(entry) \in Nat
      BY <1>1
    <3>2. EndOf(w.mem[s]) = EndOf(entry) /\ w.mem[s].len = entry.len
      BY <2>1
    <3>3. entry.len >= 1 /\ w.varray_len = EndOf(entry)
      BY <1>2, <2>1
    <3> QED
      BY <3>1, <3>2, <3>3
  <2>2. CASE s \in LiveIn(v) /\ w.mem[s] = v.mem[s]
    <3>1. v.mem[s].len >= 1 /\ EndOf(v.mem[s]) <= v.varray_len
      BY <2>2 DEF Intact
    <3>2. v.varray_len <= w.varray_len /\ w.varray_len \in Nat
      BY <1>1, <1>2, <1>3
    <3> QED
      BY <1>1, <2>2, <3>1, <3>2
  <2> QED
    BY <2>1, <2>2, ClockRing
<1>5. ASSUME NEW s \in LiveIn(w), NEW r \in LiveIn(w), Earlier(s, r, w.tail)
      PROVE  EndOf(w.mem[s]) <= w.mem[r].start
  <2>1. s \in LiveIn(v) /\ (r = v.head \/ (r \in LiveIn(v) /\ Earlier(s, r, v.tail)))
    BY <1>5, ClockRing
  <2>2. v.head \notin LiveIn(v)
    BY ClockRing
  <2>3. w.mem[s] = v.mem[s] /\ EndOf(v.mem[s]) <= v.varray_len
    BY <2>1, <2>2, ClockRing DEF Intact
  <2>4. CASE r = v.head
    <3> DEFINE Written == we /\ r = v.head /\ w.mem[r] = entry
               Kept == r \in LiveIn(v)
    <3>0. Written \/ Kept
      BY ClockRing
    <3>1. we /\ w.mem[r] = entry
      BY <2>2, <2>4, <3>0
    <3>2. entry.start >= v.varray_len /\ EndOf(v.mem[s]) \in Nat
      BY <1>1, <1>2, <2>1, <3>1
    <3>3. v.varray_len \in Nat /\ entry.start \in Nat
      BY <1>1
    <3>4. EndOf(w.mem[s]) = EndOf(v.mem[s]) /\ w.mem[r].start = entry.start
      BY <2>3, <3>1
    <3> QED
      BY <2>3, <3>2, <3>3, <3>4
  <2>5. CASE r \in LiveIn(v) /\ Earlier(s, r, v.tail)
    <3>1. w.mem[r] = v.mem[r]
      BY <2>2, <2>5, ClockRing
    <3> QED
      BY <2>1, <2>3, <2>5, <3>1 DEF Intact
  <2> QED
    BY <2>1, <2>4, <2>5
<1>6. ASSUME StuckAt(w, q) PROVE w.tail = QUEUE_LENGTH - 1
  <2>1. w.head # w.tail /\ EndOf(w.mem[w.tail]) <= q /\ w \in RegistersOf(Dat)
    BY <1>6, ClockFields DEF StuckAt
  <2>2. w.tail \in LiveIn(w) /\ w.mem[w.tail].start \in Nat /\ w.mem[w.tail].len \in Nat
        /\ EndOf(w.mem[w.tail]) = w.mem[w.tail].start + w.mem[w.tail].len
    BY <2>1, RegisterTypes
  <2>3. q \in Nat
    OBVIOUS
  <2>4. ~ (w.mem[w.tail].start >= q /\ w.mem[w.tail].len >= 1)
    BY <2>1, <2>2, <2>3
  <2>5. ~ Pops(v, re, p)
    BY <2>2, <2>4, NextTailStarts
  <2>6. w.tail = v.tail
    BY <2>5, ClockFields
  <2>7. CASE we /\ w.tail = v.head /\ w.mem[w.tail] = entry
    BY <1>2, <2>4, <2>7
  <2>8. CASE v.tail \in LiveIn(v) /\ w.mem[v.tail] = v.mem[v.tail]
    <3>1. v.head # v.tail /\ v.head \in Slots
      BY <2>8, RegisterTypes
    <3>2. EndOf(v.mem[v.tail]) <= q
      BY <2>1, <2>6, <2>8
    <3>3. CASE EndOf(v.mem[v.tail]) <= p
      BY <2>6, <3>1, <3>3 DEF Intact, StuckAt
    <3>4. CASE ~ (EndOf(v.mem[v.tail]) <= p)
      <4>1. re /\ LastOf(v.mem[v.tail], p)
        BY <1>1, <3>2, <3>4 DEF LastOf
      <4>2. queue_size(v) = 0
        BY <2>5, <4>1 DEF Pops
      <4> QED
        BY <1>1, <2>6, <3>1, <4>2, SizeTells
    <3> QED
      BY <3>3, <3>4
  <2> QED
    BY <2>2, <2>6, <2>7, <2>8, ClockRing
<1> QED
  BY <1>4, <1>5, <1>6 DEF Intact

(* What the flag asks of a write: to be beyond the position, and in Y when *)
(* it goes into an empty ring right behind the position being read.        *)
RacesInto(v, we, entry, re, p, Y) ==
    /\ we => entry.start > p
    /\ we /\ re /\ entry.start = p + 1 /\ v.head = v.tail => entry.dat \in Y

(* A tail that is stuck stays stuck, at the same entry.                    *)
LEMMA ClockStuck ==
    ASSUME NEW Dat, NEW v \in RegistersOf(Dat), NEW p \in Nat,
           NEW we \in BOOLEAN, NEW re \in BOOLEAN, NEW entry \in EntriesOf(Dat),
           NEW w, w = Clock(v, we, entry, re, p),
           NEW q, q = NextPos(re, p),
           WritesBehind(v, we, entry, q),
           StuckAt(v, p)
    PROVE  StuckAt(w, q) /\ w.mem[w.tail] = v.mem[v.tail]
<1> USE DEF NextPos
<1>1. v.head # v.tail /\ EndOf(v.mem[v.tail]) <= p /\ v.tail \in Slots /\ v.head \in Slots
      /\ EndOf(v.mem[v.tail]) \in Nat
  BY RegisterTypes DEF StuckAt
<1>2. ~ Pops(v, re, p)
  BY <1>1 DEF Pops, LastOf
<1>3. w.tail = v.tail /\ w.head # w.tail /\ w.mem[v.tail] = v.mem[v.tail]
  BY <1>1, <1>2, ClockFields DEF WritesBehind
<1> QED
  BY <1>1, <1>3 DEF StuckAt

(* The flag is computed from the entry at the tail before the edge, and is *)
(* right for the one at the tail after it: unless that one is being written*)
(* into an empty ring, right behind the position that is being read.       *)
LEMMA ClockFlag ==
    ASSUME NEW Dat, NEW v \in RegistersOf(Dat), NEW p \in Nat,
           NEW we \in BOOLEAN, NEW re \in BOOLEAN, NEW entry \in EntriesOf(Dat),
           NEW w, w = Clock(v, we, entry, re, p),
           NEW q, q = NextPos(re, p),
           WritesBehind(v, we, entry, q),
           Intact(v, p), NEW X, NEW Y, FlagRight(v, p, X), X \subseteq Y,
           RacesInto(v, we, entry, re, p, Y)
    PROVE  FlagRight(w, q, Y)
<1> USE DEF NextPos, RacesInto
<1> SUFFICES ASSUME w.tail \in LiveIn(w), Covers(w.mem[w.tail], q),
                    w.mem[w.tail].dat \notin Y
             PROVE  w.is_new_superscalar_group <=> q = w.mem[w.tail].start
  BY DEF FlagRight
<1>1. /\ v.tail \in Slots /\ v.head \in Slots
      /\ v.mem[v.tail].start \in Nat /\ EndOf(v.mem[v.tail]) \in Nat
      /\ entry.start \in Nat
  BY RegisterTypes DEF EntriesOf
<1>2. w.mem[w.tail].start <= q /\ q < EndOf(w.mem[w.tail]) /\ w.mem[w.tail].start \in Nat
  <2>1. w \in RegistersOf(Dat)
    BY ClockFields
  <2>2. w.mem[w.tail].start \in Nat
    BY <2>1, RegisterTypes
  <2> QED
    BY <2>2 DEF Covers
<1>6. /\ w.tail = IF Pops(v, re, p) THEN NextSlot(v.tail) ELSE v.tail
      /\ re => (w.is_new_superscalar_group <=>
                   p < v.mem[v.tail].start \/ LastOf(v.mem[v.tail], p))
  BY ClockFields
<1>7. q \in Nat
  OBVIOUS
<1>3. CASE Pops(v, re, p)
  <2>1. re /\ LastOf(v.mem[v.tail], p)
    BY <1>3 DEF Pops
  <2>2. w.is_new_superscalar_group
    BY <1>6, <2>1
  <2>3. w.mem[w.tail].start >= q
    BY <1>3, NextTailStarts
  <2>4. q = w.mem[w.tail].start
    BY <1>2, <1>7, <2>3
  <2> QED
    BY <2>2, <2>4
<1>4. CASE ~ Pops(v, re, p) /\ we /\ w.tail = v.head /\ w.mem[w.tail] = entry
  <2>1. w.tail = v.tail
    BY <1>4, <1>6
  <2>2. re /\ entry.start = p + 1
    <3>1. entry.start > p /\ entry.start <= q /\ entry.start \in Nat
      BY <1>1, <1>2, <1>4
    <3> QED
      BY <3>1
  <2> QED
    BY <1>4, <2>1, <2>2
<1>5. CASE ~ Pops(v, re, p) /\ w.tail \in LiveIn(v) /\ w.mem[w.tail] = v.mem[w.tail]
  <2>1. w.tail = v.tail
    BY <1>5, ClockFields
  <2>2. CASE ~ re
    <3>1. w.is_new_superscalar_group = v.is_new_superscalar_group
      BY <2>2, ClockFields
    <3>2. v.is_new_superscalar_group <=> p = v.mem[v.tail].start
      BY <1>5, <2>1, <2>2 DEF FlagRight
    <3> QED
      BY <1>5, <2>1, <2>2, <3>1, <3>2
  <2>3. CASE re
    <3>1. ~ LastOf(v.mem[v.tail], p)
      BY <1>1, <1>2, <1>5, <2>1, <2>3 DEF LastOf
    <3>2. w.is_new_superscalar_group <=> p < v.mem[v.tail].start
      BY <1>6, <2>3, <3>1
    <3>3. p < v.mem[v.tail].start <=> p + 1 = v.mem[v.tail].start
      BY <1>1, <1>2, <1>5, <2>1, <2>3
    <3> QED
      BY <1>5, <2>1, <2>3, <3>2, <3>3
  <2> QED
    BY <2>2, <2>3
<1> QED
  BY <1>3, <1>4, <1>5, ClockRing

(* A live group that covers the position is read, unless the tail is stuck.*)
LEMMA ReadsAtTail ==
    ASSUME NEW Dat, NEW v \in RegistersOf(Dat), NEW p \in Nat, Intact(v, p),
           NEW s \in LiveIn(v), Covers(v.mem[s], p), ~ StuckAt(v, p)
    PROVE  s = v.tail /\ dat_r(v, p) = v.mem[s].dat
<1>1. s \in Slots /\ v.head # v.tail /\ v.tail \in Slots /\ v.head \in Slots
  BY RegisterTypes
<1>2. /\ v.mem[s].start \in Nat /\ EndOf(v.mem[v.tail]) \in Nat
      /\ v.mem[s].start <= p /\ EndOf(v.mem[v.tail]) > p
  BY <1>1, RegisterTypes DEF Covers, StuckAt
<1>3. s = v.tail
  <2> SUFFICES ASSUME s # v.tail PROVE FALSE
    OBVIOUS
  <2>1. Earlier(v.tail, s, v.tail) /\ v.tail \in LiveIn(v)
    BY <1>1, RingSlots DEF LiveIn
  <2>2. EndOf(v.mem[v.tail]) <= v.mem[s].start
    BY <2>1 DEF Intact
  <2> QED
    BY <1>2, <2>2
<1> QED
  BY <1>3 DEF dat_r
=============================================================================
