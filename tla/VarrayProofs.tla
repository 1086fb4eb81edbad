---------------------------- MODULE VarrayProofs ----------------------------
(***************************************************************************)
(* For rings of any length, groups of any length and any number of resets: *)
(* a varray is the array that was written, with the exceptions that        *)
(* Varray states.  The invariant is the picture of the ring: the live      *)
(* slots, from tail to head, hold groups in increasing positions that      *)
(* agree with the array, and every other slot holds an entry that the      *)
(* reader has passed, or one from before the last reset.                   *)
(***************************************************************************)
EXTENDS Varray, VarrayRing, TLAPS

Entries == [start: Nat, len: Nat, dat: Positions \cup {Nothing}]
Types ==
    /\ v \in [mem: [Slots -> Entries], head: Slots, tail: Slots, varray_len: Nat,
              is_new_superscalar_group: BOOLEAN]
    /\ read_pos \in Positions /\ granted \in BOOLEAN
    /\ arr \in [Positions -> Positions \cup {Nothing}]

Room == granted => NextSlot(v.head) # v.tail
Written ==
    \A s \in Live : /\ v.mem[s].len >= 1
                    /\ EndOf(v.mem[s]) <= v.varray_len
                    /\ \A p \in Positions : Covers(v.mem[s], p) => arr[p] = v.mem[s].dat
Ordered ==
    \A s, r \in Live : Earlier(s, r, v.tail) => EndOf(v.mem[s]) <= v.mem[r].start
Passed == \A s \in Slots \ Live : s \notin stale => EndOf(v.mem[s]) <= read_pos
FlagExact ==
    /\ Covers(v.mem[v.tail], read_pos)
    /\ v.tail \notin stale
    /\ read_pos \notin raced
    => (v.is_new_superscalar_group <=> read_pos = v.mem[v.tail].start)
IInv == /\ Types /\ Room /\ Written /\ Ordered /\ Passed
        /\ UnreadKept /\ SticksOnlyAtTheWrap /\ FlagExact

(* An edge without a reset, whether or not it writes.                      *)
Edge(we, entry, re) ==
    /\ we => /\ granted /\ entry.dat = entry.start /\ entry.len >= 1
             /\ entry.start >= v.varray_len /\ entry.start > read_pos
    /\ Read(re)
    /\ v' = Clock(v, we, entry, re, read_pos)
    /\ granted' = IF we THEN FALSE ELSE ~queue_almost_full(v)
    /\ arr' = IF we THEN [p \in Positions |->
                              IF Covers(entry, p) THEN entry.start ELSE arr[p]]
              ELSE arr
    /\ stale' = IF we THEN stale \ {v.head} ELSE stale
    /\ raced' = IF we /\ re /\ entry.start = read_pos + 1 /\ v.head = v.tail
                THEN raced \cup {entry.start} ELSE raced

Pop(re) == re /\ queue_size(v) # 0 /\ LastOf(v.mem[v.tail], read_pos)

-----------------------------------------------------------------------------
(* The memories power up with entries (varray.sv:11-19).                   *)
LEMMA PowerUpTyped == PowerUp.mem \in [Slots -> Entries]
<1>1. Unwritten \in Entries
  BY DEF Unwritten, Entries
<1> QED
  BY <1>1 DEF PowerUp, AfterReset

(* Init and Reset leave a ring without live slots.                         *)
LEMMA RestartKeeps ==
    ASSUME NEW mem \in [Slots -> Entries], v' = AfterReset(mem),
           read_pos' = 0, granted' = FALSE, arr' = Blank, stale' = Slots
    PROVE  IInv'
<1>1. /\ v'.head = 0 /\ v'.tail = 0 /\ v'.mem = mem
      /\ 0 \in Slots /\ 0 \in Positions
  BY VarrayAssumption, VarrayBounds
     DEF VarrayAssumption, VarrayBounds, AfterReset, Slots, Positions
<1>2. Live' = {}
  BY <1>1 DEF Live
<1>3. Types'
  BY <1>1 DEF Types, AfterReset, Blank
<1>4. \A p \in Positions : arr'[p] = Nothing
  BY DEF Blank
<1>5. UnreadKept'
  BY <1>4 DEF UnreadKept
<1>6. SticksOnlyAtTheWrap'
  BY <1>1 DEF SticksOnlyAtTheWrap, Stuck
<1>7. FlagExact'
  BY <1>1 DEF FlagExact
<1>8. Written' /\ Ordered' /\ Passed' /\ Room'
  BY <1>2 DEF Written, Ordered, Passed, Room
<1> QED
  BY <1>3, <1>5, <1>6, <1>7, <1>8 DEF IInv

(* Before the first clock nothing is written, and nothing is live.         *)
LEMMA InitEstablishes == Init => IInv
<1> SUFFICES ASSUME Init PROVE IInv
  OBVIOUS
<1>1. /\ v.head = 0 /\ v.tail = 0 /\ v.mem \in [Slots -> Entries]
      /\ \A s \in Slots : v.mem[s] = Unwritten
      /\ 0 \in Slots /\ 0 \in Positions
  BY PowerUpTyped, VarrayAssumption, VarrayBounds
     DEF Init, VarrayAssumption, VarrayBounds, PowerUp, AfterReset, Slots, Positions
<1>2. Live = {}
  BY <1>1 DEF Live
<1>3. Types
  BY <1>1 DEF Types, Init, PowerUp, AfterReset, Blank
<1>4. \A p \in Positions : arr[p] = Nothing
  BY DEF Init, Blank
<1>5. UnreadKept
  BY <1>4 DEF UnreadKept
<1>6. SticksOnlyAtTheWrap
  BY <1>1 DEF SticksOnlyAtTheWrap, Stuck
<1>7. EndOf(Unwritten) = 0
  BY DEF EndOf, Unwritten
<1>8. FlagExact
  BY <1>1, <1>7 DEF FlagExact, Covers, Init, Unwritten
<1>9. Passed
  BY <1>1, <1>7 DEF Passed, Init
<1>10. Written /\ Ordered /\ Room
  BY <1>2 DEF Written, Ordered, Room, Init
<1> QED
  BY <1>3, <1>5, <1>6, <1>8, <1>9, <1>10 DEF IInv

-----------------------------------------------------------------------------
(* What an edge does, field by field.                                      *)
LEMMA EdgeFields ==
    ASSUME Types, NEW we \in BOOLEAN, NEW re \in BOOLEAN, NEW entry \in Entries,
           Edge(we, entry, re)
    PROVE  /\ v'.head = IF we THEN NextSlot(v.head) ELSE v.head
           /\ v'.tail = IF Pop(re) THEN NextSlot(v.tail) ELSE v.tail
           /\ v'.varray_len = IF we THEN EndOf(entry) ELSE v.varray_len
           /\ v'.mem = IF we THEN [v.mem EXCEPT ![v.head] = entry] ELSE v.mem
           /\ ~ re => v'.is_new_superscalar_group = v.is_new_superscalar_group
           /\ re => (v'.is_new_superscalar_group <=>
                         \/ read_pos < v.mem[v.tail].start
                         \/ LastOf(v.mem[v.tail], read_pos))
           /\ read_pos' = IF re THEN read_pos + 1 ELSE read_pos
           /\ v'.is_new_superscalar_group \in BOOLEAN
<1> DEFINE last == LastOf(v.mem[v.tail], read_pos)
<1>1. v' = [mem |-> IF we THEN [v.mem EXCEPT ![v.head] = entry] ELSE v.mem,
            head |-> IF we THEN NextSlot(v.head) ELSE v.head,
            tail |-> IF re /\ queue_size(v) # 0 /\ last
                     THEN NextSlot(v.tail) ELSE v.tail,
            varray_len |-> IF we THEN EndOf(entry) ELSE v.varray_len,
            is_new_superscalar_group |->
                IF re THEN read_pos < v.mem[v.tail].start \/ last
                ELSE v.is_new_superscalar_group]
  BY DEF Edge, Clock
<1>2. read_pos' = IF re THEN read_pos + 1 ELSE read_pos
  BY DEF Edge, Read
<1>3. v.is_new_superscalar_group \in BOOLEAN
  BY DEF Types
<1>4. last \in BOOLEAN /\ (read_pos < v.mem[v.tail].start) \in BOOLEAN
  BY DEF LastOf, Types
<1>5. Pop(re) <=> re /\ queue_size(v) # 0 /\ last
  BY DEF Pop
<1> HIDE DEF last
<1> QED
  BY <1>1, <1>2, <1>3, <1>4, <1>5 DEF last

(* What an edge does to the ring.                                          *)
LEMMA EdgeRing ==
    ASSUME Types, Room, NEW we \in BOOLEAN, NEW re \in BOOLEAN, NEW entry \in Entries,
           Edge(we, entry, re)
    PROVE  /\ v.head \in Slots /\ v.tail \in Slots
           /\ v'.head \in Slots /\ v'.tail \in Slots
           /\ Live \subseteq Slots /\ v.head \notin Live
           /\ v.head # v.tail => v.tail \in Live
           /\ v'.head # v'.tail => v'.tail \in Live'
           /\ v'.head \notin Live'
           /\ Pop(re) => v.tail \in Live
           /\ \A s \in Live : s # v.tail => Earlier(v.tail, s, v.tail)
           /\ Live' = (Live \ (IF Pop(re) THEN {v.tail} ELSE {}))
                      \cup (IF we THEN {v.head} ELSE {})
           /\ \A s, r \in Live' : Earlier(s, r, v'.tail) =>
                 /\ s \in Live
                 /\ r = v.head \/ (r \in Live /\ Earlier(s, r, v.tail))
           /\ v'.mem[v.head] = IF we THEN entry ELSE v.mem[v.head]
           /\ \A s \in Slots : s # v.head => v'.mem[s] = v.mem[s]
<1>1. v.head \in Slots /\ v.tail \in Slots /\ v.mem \in [Slots -> Entries]
  BY DEF Types
<1>2. /\ v'.head = IF we THEN NextSlot(v.head) ELSE v.head
      /\ v'.tail = IF Pop(re) THEN NextSlot(v.tail) ELSE v.tail
      /\ v'.mem = IF we THEN [v.mem EXCEPT ![v.head] = entry] ELSE v.mem
  BY EdgeFields
<1>3. Pop(re) \in BOOLEAN /\ (Pop(re) => v.head # v.tail)
  BY <1>1, SizeTells DEF Pop, LastOf
<1>4. we => NextSlot(v.head) # v.tail
  BY DEF Edge, Room
<1>5. Live = LiveOf(v.head, v.tail) /\ Live' = LiveOf(v'.head, v'.tail)
  BY DEF Live, LiveOf
<1>6. /\ v'.head \in Slots /\ v'.tail \in Slots
      /\ LiveOf(v'.head, v'.tail) =
            (LiveOf(v.head, v.tail) \ (IF Pop(re) THEN {v.tail} ELSE {}))
            \cup (IF we THEN {v.head} ELSE {})
      /\ \A s, r \in LiveOf(v'.head, v'.tail) :
            Earlier(s, r, v'.tail) =>
               /\ s \in LiveOf(v.head, v.tail)
               /\ r = v.head \/ (r \in LiveOf(v.head, v.tail) /\ Earlier(s, r, v.tail))
  BY <1>1, <1>2, <1>3, <1>4, RingStep
<1>7. /\ LiveOf(v.head, v.tail) \subseteq Slots /\ v.head \notin LiveOf(v.head, v.tail)
      /\ v.head # v.tail => v.tail \in LiveOf(v.head, v.tail)
      /\ \A s \in LiveOf(v.head, v.tail) : s # v.tail => Earlier(v.tail, s, v.tail)
  BY <1>1, RingSlots
<1>8. /\ v'.head # v'.tail => v'.tail \in LiveOf(v'.head, v'.tail)
      /\ v'.head \notin LiveOf(v'.head, v'.tail)
  BY <1>6, RingSlots
<1>9. /\ v'.mem[v.head] = IF we THEN entry ELSE v.mem[v.head]
      /\ \A s \in Slots : s # v.head => v'.mem[s] = v.mem[s]
  BY <1>1, <1>2
<1> QED
  BY <1>1, <1>3, <1>5, <1>6, <1>7, <1>8, <1>9

(* The numbers an edge depends on.                                         *)
LEMMA EdgeNumbers ==
    ASSUME Types, NEW we \in BOOLEAN, NEW re \in BOOLEAN, NEW entry \in Entries,
           Edge(we, entry, re)
    PROVE  /\ read_pos \in Nat /\ v.varray_len \in Nat
           /\ read_pos' \in Positions /\ read_pos' \in Nat
           /\ read_pos' = IF re THEN read_pos + 1 ELSE read_pos
           /\ \A s \in Slots :
                 /\ v.mem[s] \in Entries /\ v.mem[s].start \in Nat /\ v.mem[s].len \in Nat
                 /\ EndOf(v.mem[s]) \in Nat
           /\ entry.start \in Nat /\ entry.len \in Nat
           /\ EndOf(entry) = entry.start + entry.len /\ EndOf(entry) \in Nat
           /\ we => /\ entry.len >= 1 /\ entry.start > read_pos
                    /\ entry.start >= v.varray_len
                    /\ v'.varray_len = EndOf(entry)
           /\ ~ we => v'.varray_len = v.varray_len
           /\ Pop(re) => /\ re /\ EndOf(v.mem[v.tail]) = read_pos + 1
<1>1. v.mem \in [Slots -> Entries] /\ read_pos \in Positions /\ v.varray_len \in Nat
  BY DEF Types
<1>2. read_pos \in Nat
  BY <1>1 DEF Positions
<1>3. \A s \in Slots :
         /\ v.mem[s] \in Entries /\ v.mem[s].start \in Nat /\ v.mem[s].len \in Nat
         /\ EndOf(v.mem[s]) \in Nat
  BY <1>1 DEF Entries, EndOf
<1>4. /\ entry.start \in Nat /\ entry.len \in Nat
      /\ EndOf(entry) = entry.start + entry.len /\ EndOf(entry) \in Nat
  BY DEF Entries, EndOf
<1>5. read_pos' \in Positions /\ read_pos' \in Nat
      /\ read_pos' = IF re THEN read_pos + 1 ELSE read_pos
  BY <1>1, <1>2, VarrayBounds DEF Edge, Read, Positions, VarrayBounds
<1>6. /\ we => v'.varray_len = EndOf(entry)
      /\ ~ we => v'.varray_len = v.varray_len
  BY EdgeFields
<1>7. we => entry.len >= 1 /\ entry.start > read_pos /\ entry.start >= v.varray_len
  BY DEF Edge
<1>8. Pop(re) => re /\ EndOf(v.mem[v.tail]) = read_pos + 1
  BY DEF Pop, LastOf
<1> QED
  BY <1>1, <1>2, <1>3, <1>4, <1>5, <1>6, <1>7, <1>8

-----------------------------------------------------------------------------
(* An edge keeps each part of the invariant, in the order of IInv.         *)
LEMMA EdgeTypes ==
    ASSUME Types, Room, NEW we \in BOOLEAN, NEW re \in BOOLEAN, NEW entry \in Entries,
           we => entry.start \in Positions, Edge(we, entry, re)
    PROVE  Types'
<1>1. v.mem \in [Slots -> Entries]
  BY DEF Types
<1>2. v'.mem = IF we THEN [v.mem EXCEPT ![v.head] = entry] ELSE v.mem
  BY EdgeFields
<1>10. [v.mem EXCEPT ![v.head] = entry] \in [Slots -> Entries]
  BY <1>1
<1>3. v'.head \in Slots /\ v'.tail \in Slots
  BY EdgeRing
<1>4. v'.varray_len \in Nat
  BY EdgeNumbers
<1>5. v'.is_new_superscalar_group \in BOOLEAN
  BY EdgeFields
<1>6. granted' \in BOOLEAN
  BY DEF Edge, queue_almost_full
<1>7. arr' \in [Positions -> Positions \cup {Nothing}]
  BY DEF Edge, Types
<1>8. v' = [mem |-> v'.mem, head |-> v'.head, tail |-> v'.tail,
            varray_len |-> v'.varray_len,
            is_new_superscalar_group |-> v'.is_new_superscalar_group]
  BY DEF Edge, Clock
<1>9. v' \in [mem: [Slots -> Entries], head: Slots, tail: Slots, varray_len: Nat,
              is_new_superscalar_group: BOOLEAN]
  BY <1>1, <1>2, <1>10, <1>3, <1>4, <1>5, <1>8
<1> QED
  BY <1>6, <1>7, <1>9, EdgeNumbers DEF Types

LEMMA EdgeRoom ==
    ASSUME Types, Room, NEW we \in BOOLEAN, NEW re \in BOOLEAN, NEW entry \in Entries,
           Edge(we, entry, re)
    PROVE  Room'
<1> SUFFICES ASSUME granted' PROVE NextSlot(v'.head) # v'.tail
  BY DEF Room, NextSlot
<1>1. ~ we /\ ~ queue_almost_full(v)
  BY DEF Edge
<1>2. v.head \in Slots /\ v.tail \in Slots
  BY DEF Types
<1>3. NextSlot(v.head) # v.tail /\ (Pop(re) => v.head # v.tail)
  BY <1>1, <1>2, SizeTells DEF Pop
<1>4. Pop(re) => NextSlot(v.head) # NextSlot(v.tail)
  BY <1>2, <1>3, RingPop
<1>5. v'.head = v.head /\ v'.tail = IF Pop(re) THEN NextSlot(v.tail) ELSE v.tail
  BY <1>1, EdgeFields
<1> QED
  BY <1>3, <1>4, <1>5

(* A write changes the array where its entry covers it.                   *)
LEMMA EdgeArr ==
    ASSUME Types, NEW we \in BOOLEAN, NEW re \in BOOLEAN, NEW entry \in Entries,
           Edge(we, entry, re), NEW p \in Positions
    PROVE  /\ we /\ Covers(entry, p) => arr'[p] = entry.dat
           /\ ~ (we /\ Covers(entry, p)) => arr'[p] = arr[p]
<1>1. arr \in [Positions -> Positions \cup {Nothing}]
  BY DEF Types
<1> QED
  BY <1>1 DEF Edge

(* A live slot stays as it is; only the head is written.                   *)
LEMMA EdgeLive ==
    ASSUME Types, Room, NEW we \in BOOLEAN, NEW re \in BOOLEAN, NEW entry \in Entries,
           Edge(we, entry, re), NEW s \in Live'
    PROVE  /\ s \in Slots
           /\ \/ we /\ s = v.head /\ v'.mem[s] = entry
              \/ /\ s \in Live /\ v'.mem[s] = v.mem[s]
                 /\ Pop(re) => s # v.tail
  BY EdgeRing

(* The slot the tail leaves ends where the reader has come to, and the     *)
(* head that is written was not live.                                      *)
LEMMA EdgeUnreadKept ==
    ASSUME IInv, NEW we \in BOOLEAN, NEW re \in BOOLEAN, NEW entry \in Entries,
           Edge(we, entry, re)
    PROVE  UnreadKept'
<1> USE DEF IInv
<1> SUFFICES ASSUME NEW p \in Positions, p >= read_pos', arr'[p] # Nothing
             PROVE  \E s \in Live' : Covers(v'.mem[s], p) /\ v'.mem[s].dat = arr'[p]
  BY DEF UnreadKept, Covers, EndOf
<1>1. CASE we /\ Covers(entry, p)
  <2>1. v.head \in Live' /\ v'.mem[v.head] = entry
    <3>1. Live' = (Live \ (IF Pop(re) THEN {v.tail} ELSE {})) \cup {v.head}
      BY <1>1, EdgeRing
    <3> QED
      BY <1>1, <3>1, EdgeRing
  <2>2. arr'[p] = entry.dat
    BY <1>1, EdgeArr
  <2> QED
    BY <1>1, <2>1, <2>2
<1>2. CASE ~ (we /\ Covers(entry, p))
  <2>1. arr'[p] = arr[p]
    BY <1>2, EdgeArr
  <2>2. p \in Nat /\ p >= read_pos
    BY EdgeNumbers DEF Positions
  <2>3. PICK s \in Live : Covers(v.mem[s], p) /\ v.mem[s].dat = arr[p]
    BY <2>1, <2>2 DEF UnreadKept
  <2>4. s \in Slots /\ s # v.head /\ v'.mem[s] = v.mem[s]
    BY EdgeRing
  <2>5. p < EndOf(v.mem[s]) /\ EndOf(v.mem[s]) \in Nat
    BY <2>3, <2>4, EdgeNumbers DEF Covers
  <2>6. Pop(re) => EndOf(v.mem[v.tail]) = read_pos'
    BY EdgeNumbers
  <2>7. Pop(re) => s # v.tail
    BY <2>2, <2>5, <2>6, EdgeNumbers
  <2>8. s \in Live'
    BY <2>7, EdgeRing
  <2> QED
    BY <2>1, <2>3, <2>4, <2>8
<1> QED
  BY <1>1, <1>2

(* A new entry starts at or behind the end of all the others.              *)
LEMMA EdgeWritten ==
    ASSUME IInv, NEW we \in BOOLEAN, NEW re \in BOOLEAN, NEW entry \in Entries,
           Edge(we, entry, re)
    PROVE  Written'
<1> USE DEF IInv
<1> SUFFICES ASSUME NEW s \in Live'
             PROVE  /\ v'.mem[s].len >= 1 /\ EndOf(v'.mem[s]) <= v'.varray_len
                    /\ \A p \in Positions :
                          Covers(v'.mem[s], p) => arr'[p] = v'.mem[s].dat
  BY DEF Written, Covers, EndOf
<1>1. CASE we /\ s = v.head /\ v'.mem[s] = entry
  <2>1. entry.len >= 1 /\ v'.varray_len = EndOf(entry) /\ EndOf(entry) \in Nat
    BY <1>1, EdgeNumbers
  <2>2. \A p \in Positions : Covers(entry, p) => arr'[p] = entry.dat
    BY <1>1, EdgeArr
  <2> QED
    BY <1>1, <2>1, <2>2
<1>2. CASE s \in Live /\ v'.mem[s] = v.mem[s]
  <2>1. /\ v.mem[s].len >= 1 /\ EndOf(v.mem[s]) <= v.varray_len
        /\ \A p \in Positions : Covers(v.mem[s], p) => arr[p] = v.mem[s].dat
    BY <1>2 DEF Written
  <2>2. s \in Slots /\ EndOf(v.mem[s]) \in Nat
    BY EdgeLive, EdgeNumbers
  <2>3. v.varray_len <= v'.varray_len
    BY EdgeNumbers
  <2>4. EndOf(v.mem[s]) <= v'.varray_len
    BY <2>1, <2>2, <2>3, EdgeNumbers
  <2>5. ASSUME NEW p \in Positions, Covers(v.mem[s], p)
        PROVE  ~ (we /\ Covers(entry, p))
    <3>1. p \in Nat /\ p < EndOf(v.mem[s])
      BY <2>5 DEF Positions, Covers
    <3>2. v.varray_len \in Nat /\ entry.start \in Nat
          /\ (we => entry.start >= v.varray_len)
      BY EdgeNumbers
    <3>3. we => p < entry.start
      BY <2>1, <2>2, <3>1, <3>2
    <3> QED
      BY <3>1, <3>2, <3>3 DEF Covers
  <2>6. \A p \in Positions : Covers(v.mem[s], p) => arr'[p] = v.mem[s].dat
    BY <2>1, <2>5, EdgeArr
  <2> QED
    BY <1>2, <2>1, <2>4, <2>6
<1> QED
  BY <1>1, <1>2, EdgeLive

LEMMA EdgeOrdered ==
    ASSUME IInv, NEW we \in BOOLEAN, NEW re \in BOOLEAN, NEW entry \in Entries,
           Edge(we, entry, re)
    PROVE  Ordered'
<1> USE DEF IInv
<1> SUFFICES ASSUME NEW s \in Live', NEW r \in Live', Earlier(s, r, v'.tail)
             PROVE  EndOf(v'.mem[s]) <= v'.mem[r].start
  BY DEF Ordered, Earlier, EndOf
<1>1. s \in Live /\ (r = v.head \/ (r \in Live /\ Earlier(s, r, v.tail)))
  BY EdgeRing
<1>2. s \in Slots /\ v'.mem[s] = v.mem[s] /\ EndOf(v.mem[s]) <= v.varray_len
  BY <1>1, EdgeRing DEF Written
<1>3. CASE r = v.head
  <2>1. we /\ v'.mem[r] = entry
    BY <1>3, EdgeRing, EdgeLive
  <2>2. /\ v.varray_len \in Nat /\ entry.start \in Nat
        /\ EndOf(v.mem[s]) \in Nat /\ entry.start >= v.varray_len
    BY <1>2, <2>1, EdgeNumbers
  <2> QED
    BY <1>2, <2>1, <2>2
<1>4. CASE r \in Live /\ Earlier(s, r, v.tail)
  <2>1. v'.mem[r] = v.mem[r]
    BY <1>4, EdgeRing
  <2> QED
    BY <1>1, <1>2, <1>4, <2>1 DEF Ordered
<1> QED
  BY <1>1, <1>3, <1>4

LEMMA EdgePassed ==
    ASSUME IInv, NEW we \in BOOLEAN, NEW re \in BOOLEAN, NEW entry \in Entries,
           Edge(we, entry, re)
    PROVE  Passed'
<1> USE DEF IInv
<1> SUFFICES ASSUME NEW s \in Slots, s \notin Live', s \notin stale'
             PROVE  EndOf(v'.mem[s]) <= read_pos'
  BY DEF Passed, EndOf
<1>1. CASE s \in Live
  <2>1. Pop(re) /\ s = v.tail /\ s # v.head
    BY <1>1, EdgeRing
  <2> QED
    BY <2>1, EdgeRing, EdgeNumbers
<1>2. CASE s \notin Live
  <2>1. ~ (we /\ s = v.head)
    BY EdgeRing
  <2>2. v'.mem[s] = v.mem[s] /\ s \notin stale
    BY <2>1, EdgeRing DEF Edge
  <2>3. EndOf(v.mem[s]) <= read_pos /\ EndOf(v.mem[s]) \in Nat
    BY <1>2, <2>2, EdgeNumbers DEF Passed
  <2> QED
    BY <2>2, <2>3, EdgeNumbers
<1> QED
  BY <1>1, <1>2

(* The tail moves to the next group, or to the end of what was written.    *)
LEMMA NextTail ==
    ASSUME IInv, NEW we \in BOOLEAN, NEW re \in BOOLEAN, NEW entry \in Entries,
           Edge(we, entry, re), Pop(re), v'.head # v'.tail
    PROVE  v'.mem[v'.tail].start >= read_pos' /\ v'.mem[v'.tail].len >= 1
<1> USE DEF IInv
<1>1. v'.tail \in Live' /\ v.tail \in Live /\ v.tail \in Slots
  BY EdgeRing
<1>2. re /\ EndOf(v.mem[v.tail]) = read_pos + 1 /\ read_pos' = read_pos + 1
  BY EdgeNumbers
<1>3. CASE we /\ v'.mem[v'.tail] = entry
  <2>1. entry.start > read_pos /\ entry.len >= 1 /\ entry.start \in Nat /\ read_pos \in Nat
    BY <1>3, EdgeNumbers
  <2> QED
    BY <1>2, <1>3, <2>1
<1>4. CASE v'.tail \in Live /\ v'.mem[v'.tail] = v.mem[v'.tail] /\ v'.tail # v.tail
  <2>1. Earlier(v.tail, v'.tail, v.tail)
    BY <1>4, EdgeRing
  <2>2. EndOf(v.mem[v.tail]) <= v.mem[v'.tail].start
    BY <1>1, <1>4, <2>1 DEF Ordered
  <2>3. v.mem[v'.tail].len >= 1 /\ v'.tail \in Slots
    BY <1>4, EdgeRing DEF Written
  <2>4. v.mem[v'.tail].start \in Nat /\ read_pos \in Nat
    BY <2>3, EdgeNumbers
  <2> QED
    BY <1>2, <1>4, <2>2, <2>3, <2>4
<1> QED
  BY <1>1, <1>3, <1>4, EdgeLive

(* A tail that has reached the end of its entry without moving was kept    *)
(* from moving by a size of zero, so it is at the wrap.                    *)
LEMMA EdgeSticks ==
    ASSUME IInv, NEW we \in BOOLEAN, NEW re \in BOOLEAN, NEW entry \in Entries,
           Edge(we, entry, re)
    PROVE  SticksOnlyAtTheWrap'
<1> USE DEF IInv
<1> SUFFICES ASSUME v'.head # v'.tail, EndOf(v'.mem[v'.tail]) <= read_pos'
             PROVE  v'.tail = QUEUE_LENGTH - 1
  BY DEF SticksOnlyAtTheWrap, Stuck, EndOf
<1>1. v'.tail \in Slots /\ v'.mem[v'.tail] \in Entries
  <2>1. v'.tail \in Slots
    BY EdgeRing
  <2>2. v.mem[v'.tail] \in Entries
    BY <2>1, EdgeNumbers
  <2> QED
    BY <2>1, <2>2, EdgeRing
<1>2. v'.mem[v'.tail].start \in Nat /\ v'.mem[v'.tail].len \in Nat /\ read_pos' \in Nat
  BY <1>1, EdgeNumbers DEF Entries
<1>3. ~ (v'.mem[v'.tail].start >= read_pos' /\ v'.mem[v'.tail].len >= 1)
  BY <1>2 DEF EndOf
<1>4. ~ Pop(re)
  BY <1>3, NextTail
<1>5. v'.tail = v.tail
  BY <1>4, EdgeFields
<1>6. CASE v.head = v.tail
  <2>1. v'.head # v.head
    BY <1>5, <1>6
  <2>2. we
    BY <2>1, EdgeFields
  <2>3. v'.mem[v'.tail] = entry
    BY <1>5, <1>6, <2>2, EdgeRing
  <2>4. entry.start > read_pos /\ entry.len >= 1 /\ read_pos \in Nat
        /\ read_pos' = IF re THEN read_pos + 1 ELSE read_pos
    BY <2>2, EdgeNumbers
  <2> QED
    BY <1>2, <1>3, <2>3, <2>4
<1>7. CASE v.head # v.tail
  <2>1. v'.mem[v.tail] = v.mem[v.tail] /\ v.tail \in Slots /\ v.head \in Slots
    BY <1>7, EdgeRing
  <2>2. CASE EndOf(v.mem[v.tail]) <= read_pos
    BY <1>5, <1>7, <2>2 DEF SticksOnlyAtTheWrap, Stuck
  <2>3. CASE ~ (EndOf(v.mem[v.tail]) <= read_pos)
    <3>1. read_pos \in Nat /\ EndOf(v.mem[v.tail]) \in Nat
          /\ read_pos' = IF re THEN read_pos + 1 ELSE read_pos
      BY <2>1, EdgeNumbers
    <3>2. EndOf(v.mem[v.tail]) <= read_pos'
      BY <1>5, <2>1
    <3>3. re /\ LastOf(v.mem[v.tail], read_pos)
      BY <2>3, <3>1, <3>2 DEF LastOf
    <3>4. queue_size(v) = 0
      BY <1>4, <3>3 DEF Pop
    <3> QED
      BY <1>5, <1>7, <2>1, <3>4, SizeTells
  <2> QED
    BY <2>2, <2>3
<1> QED
  BY <1>6, <1>7

LEMMA EdgeEndIsNat ==
    ASSUME IInv, NEW we \in BOOLEAN, NEW re \in BOOLEAN, NEW entry \in Entries,
           Edge(we, entry, re)
    PROVE  /\ v'.mem[v'.tail].start \in Nat /\ EndOf(v'.mem[v'.tail]) \in Nat
           /\ read_pos' \in Nat
<1> USE DEF IInv
<1>1. v'.tail \in Slots
  BY EdgeRing
<1>2. v.mem[v'.tail] \in Entries
  BY <1>1, EdgeNumbers
<1>3. v'.mem[v'.tail] \in Entries
  BY <1>1, <1>2, EdgeRing
<1> QED
  BY <1>3, EdgeNumbers DEF Entries, EndOf

(* The flag is computed from the entry at the tail before the edge, and is *)
(* right for the one at the tail after it, unless that one is being written.*)
LEMMA EdgeFlag ==
    ASSUME IInv, NEW we \in BOOLEAN, NEW re \in BOOLEAN, NEW entry \in Entries,
           Edge(we, entry, re)
    PROVE  FlagExact'
<1> USE DEF IInv
<1> SUFFICES ASSUME Covers(v'.mem[v'.tail], read_pos'), v'.tail \notin stale',
                    read_pos' \notin raced'
             PROVE  v'.is_new_superscalar_group <=> read_pos' = v'.mem[v'.tail].start
  BY DEF FlagExact, Covers, EndOf
<1>1. /\ read_pos \in Nat /\ read_pos' = IF re THEN read_pos + 1 ELSE read_pos
      /\ v'.tail \in Slots /\ v.tail \in Slots /\ v.head \in Slots
      /\ v.mem[v.tail].start \in Nat /\ EndOf(v.mem[v.tail]) \in Nat
      /\ entry.start \in Nat /\ (we => entry.start > read_pos)
  BY EdgeRing, EdgeNumbers
<1>2. /\ v'.mem[v'.tail].start <= read_pos' /\ read_pos' < EndOf(v'.mem[v'.tail])
  BY DEF Covers
<1>3. CASE ~ re
  <2>1. v'.tail = v.tail /\ read_pos' = read_pos
    BY <1>1, <1>3, EdgeFields DEF Pop
  <2>2. /\ v'.is_new_superscalar_group = v.is_new_superscalar_group
        /\ raced' = raced
    BY <1>3, EdgeFields DEF Edge
  <2>3. ~ (we /\ v.head = v.tail)
    <3> SUFFICES ASSUME we, v.head = v.tail PROVE FALSE
      OBVIOUS
    <3>1. v'.mem[v'.tail] = entry
      BY <2>1, EdgeRing
    <3> QED
      BY <1>1, <1>2, <2>1, <3>1
  <2>4. v'.mem[v'.tail] = v.mem[v.tail]
    BY <1>1, <2>1, <2>3, EdgeRing
  <2>5. stale' = IF we THEN stale \ {v.head} ELSE stale
    BY DEF Edge
  <2>6. v.tail \notin stale
    BY <2>1, <2>3, <2>5
  <2> QED
    BY <2>1, <2>2, <2>4, <2>6 DEF FlagExact
<1>4. CASE Pop(re)
  <2>1. re /\ LastOf(v.mem[v.tail], read_pos) /\ v'.is_new_superscalar_group
    BY <1>4, EdgeFields DEF Pop
  <2>2. v'.head # v'.tail
    <3> SUFFICES ASSUME v'.head = v'.tail PROVE FALSE
      OBVIOUS
    <3>1. v'.tail \notin Live'
      BY EdgeRing
    <3>2. EndOf(v'.mem[v'.tail]) <= read_pos'
      BY <1>1, <3>1, EdgePassed DEF Passed
    <3>3. EndOf(v'.mem[v'.tail]) \in Nat /\ read_pos' \in Nat
      BY EdgeEndIsNat
    <3> QED
      BY <1>2, <3>2, <3>3
  <2>3. v'.mem[v'.tail].start >= read_pos'
    BY <1>4, <2>2, NextTail
  <2>4. v'.mem[v'.tail].start \in Nat /\ read_pos' \in Nat
    BY EdgeEndIsNat
  <2> QED
    BY <1>2, <2>1, <2>3, <2>4
<1>5. CASE re /\ ~ Pop(re)
  <2>1. v'.tail = v.tail /\ read_pos' = read_pos + 1
    BY <1>1, <1>5, EdgeFields
  <2>2. CASE we /\ v.head = v.tail
    <3>1. v'.mem[v'.tail] = entry
      BY <2>1, <2>2, EdgeRing
    <3>2. entry.start = read_pos + 1
      BY <1>1, <1>2, <2>1, <2>2, <3>1
    <3>3. read_pos' \in raced'
      BY <1>5, <2>1, <2>2, <3>2 DEF Edge
    <3> QED
      BY <3>3
  <2>3. CASE ~ (we /\ v.head = v.tail)
    <3>1. v'.mem[v'.tail] = v.mem[v.tail]
      BY <1>1, <2>1, <2>3, EdgeRing
    <3>2. ~ LastOf(v.mem[v.tail], read_pos)
      BY <1>1, <1>2, <2>1, <3>1 DEF LastOf
    <3>3. v'.is_new_superscalar_group <=> read_pos < v.mem[v.tail].start
      BY <1>5, <3>2, EdgeFields
    <3>4. read_pos < v.mem[v.tail].start <=> read_pos + 1 = v.mem[v.tail].start
      BY <1>1, <1>2, <2>1, <3>1
    <3> QED
      BY <2>1, <3>1, <3>3, <3>4
  <2> QED
    BY <2>2, <2>3
<1> QED
  BY <1>3, <1>4, <1>5

-----------------------------------------------------------------------------
LEMMA EdgePreserves ==
    ASSUME IInv, NEW we \in BOOLEAN, NEW re \in BOOLEAN, NEW entry \in Entries,
           we => entry.start \in Positions, Edge(we, entry, re)
    PROVE  IInv'
<1>1. Types /\ Room
  BY DEF IInv
<1>2. Types' /\ Room'
  BY <1>1, EdgeTypes, EdgeRoom
<1>3. Written' /\ Ordered' /\ Passed'
  BY EdgeWritten, EdgeOrdered, EdgePassed
<1>4. UnreadKept' /\ SticksOnlyAtTheWrap' /\ FlagExact'
  BY EdgeUnreadKept, EdgeSticks, EdgeFlag
<1> QED
  BY <1>2, <1>3, <1>4 DEF IInv

LEMMA StepPreserves == IInv /\ [Next]_vars => IInv'
<1> SUFFICES ASSUME IInv, [Next]_vars PROVE IInv'
  OBVIOUS
<1>1. CASE Reset
  <2>1. v.mem \in [Slots -> Entries]
    BY DEF IInv, Types
  <2> QED
    BY <1>1, <2>1, RestartKeeps DEF Reset
<1>2. ASSUME NEW re \in BOOLEAN, NoWrite(re) PROVE IInv'
  <2>1. Unwritten \in Entries
    BY DEF Unwritten, Entries
  <2>2. Edge(FALSE, Unwritten, re)
    BY <1>2 DEF NoWrite, Edge
  <2> QED
    BY <2>1, <2>2, EdgePreserves
<1>3. ASSUME NEW re \in BOOLEAN, NEW start \in Positions, NEW len \in 1 .. MaxLen,
             Write(re, start, len)
      PROVE  IInv'
  <2> DEFINE entry == [start |-> start, len |-> len, dat |-> start]
  <2>1. start \in Nat /\ len \in Nat /\ len >= 1
    BY VarrayBounds DEF VarrayBounds, Positions
  <2>2. entry \in Entries /\ entry.start \in Positions
    BY <2>1 DEF Entries
  <2>3. /\ entry.start = start /\ entry.len = len /\ entry.dat = start
    OBVIOUS
  <2>4. Edge(TRUE, entry, re)
    <3>1. /\ granted /\ start >= v.varray_len /\ start > read_pos
          /\ Read(re) /\ v' = Clock(v, TRUE, entry, re, read_pos)
          /\ granted' = FALSE /\ stale' = stale \ {v.head}
          /\ arr' = [p \in Positions |-> IF Covers(entry, p) THEN start ELSE arr[p]]
          /\ raced' = IF re /\ start = read_pos + 1 /\ v.head = v.tail
                      THEN raced \cup {start} ELSE raced
      BY <1>3 DEF Write, MayWrite
    <3> HIDE DEF entry
    <3> QED
      BY <2>1, <2>3, <3>1 DEF Edge
  <2> HIDE DEF entry
  <2> QED
    BY <2>2, <2>4, EdgePreserves
<1>4. CASE UNCHANGED vars
  BY <1>4 DEF vars, IInv, Types, Room, Written, Ordered, Passed, UnreadKept,
              SticksOnlyAtTheWrap, Stuck, FlagExact, Live, Earlier, EndOf, Covers, NextSlot
<1> QED
  BY <1>1, <1>2, <1>3, <1>4 DEF Next

(* The picture of the ring holds at every clock (varray.sv:20-60).         *)
THEOREM Inductive == Spec => []IInv
  BY InitEstablishes, StepPreserves, PTL DEF Spec

(* For every length of the ring: an entry is not overwritten before it has *)
(* been read, although the wrapped ring is counted one short               *)
(* (varray.sv:27-41).                                                      *)
THEOREM UnreadAlwaysKept == Spec => []UnreadKept
<1>1. IInv => UnreadKept
  BY DEF IInv
<1> QED
  BY <1>1, Inductive, PTL

(* For every length of the ring: the tail gets stuck at the last slot or   *)
(* nowhere (varray.sv:27, 46-60).                                          *)
THEOREM AlwaysSticksOnlyAtTheWrap == Spec => []SticksOnlyAtTheWrap
<1>1. IInv => SticksOnlyAtTheWrap
  BY DEF IInv
<1> QED
  BY <1>1, Inductive, PTL

(* For every length of the ring: is_new_superscalar_group is up at the     *)
(* first element of a group and at no other, except in raced and in slots  *)
(* from before a reset (varray.sv:52).                                     *)
THEOREM GroupFlagAlwaysExact == Spec => []GroupFlagExact
<1>1. IInv => GroupFlagExact
  <2> SUFFICES ASSUME IInv, dat_r(v, read_pos) # Nothing, v.tail \notin stale,
                      read_pos \notin raced
               PROVE  v.is_new_superscalar_group <=> read_pos = v.mem[v.tail].start
    BY DEF GroupFlagExact
  <2>1. Covers(v.mem[v.tail], read_pos)
    BY DEF dat_r
  <2> QED
    BY <2>1 DEF IInv, FlagExact
<1> QED
  BY <1>1, Inductive, PTL

(* For every length of the ring: a read returns the element written at its *)
(* position, or nothing when there is none, unless the tail is stuck or at *)
(* a slot from before a reset (varray.sv:46-60).                           *)
THEOREM AlwaysReadsTheArray == Spec => []ReadsTheArray
<1>1. IInv => ReadsTheArray
  <2> SUFFICES ASSUME IInv, v.tail \notin stale,
                      ~ (Stuck /\ dat_r(v, read_pos) = Nothing)
               PROVE  dat_r(v, read_pos) = arr[read_pos]
    BY DEF ReadsTheArray
  <2> USE DEF IInv
  <2>1. /\ v.head \in Slots /\ v.tail \in Slots /\ v.mem \in [Slots -> Entries]
        /\ read_pos \in Positions /\ read_pos \in Nat
    BY DEF Types, Positions
  <2>2. /\ Live \subseteq Slots
        /\ v.head # v.tail => v.tail \in Live
        /\ v.head = v.tail => Live = {}
        /\ \A s \in Live : s # v.tail => Earlier(v.tail, s, v.tail)
    <3>1. Live = LiveOf(v.head, v.tail)
      BY DEF Live, LiveOf
    <3> QED
      BY <2>1, <3>1, RingSlots
  <2>3. \A s \in Slots : v.mem[s].start \in Nat /\ v.mem[s].len \in Nat
                         /\ EndOf(v.mem[s]) \in Nat
    BY <2>1 DEF Entries, EndOf
  <2>4. CASE v.head = v.tail
    <3>1. EndOf(v.mem[v.tail]) <= read_pos
      BY <2>1, <2>2, <2>4 DEF Passed
    <3>2. ~ Covers(v.mem[v.tail], read_pos)
      BY <2>1, <2>3, <3>1 DEF Covers
    <3>3. arr[read_pos] = Nothing
      BY <2>1, <2>2, <2>4 DEF UnreadKept
    <3> QED
      BY <3>2, <3>3 DEF dat_r
  <2>5. CASE v.head # v.tail /\ Covers(v.mem[v.tail], read_pos)
    BY <2>1, <2>2, <2>5 DEF Written, dat_r
  <2>6. CASE v.head # v.tail /\ ~ Covers(v.mem[v.tail], read_pos)
    <3>1. dat_r(v, read_pos) = Nothing
      BY <2>6 DEF dat_r
    <3>2. EndOf(v.mem[v.tail]) > read_pos
      BY <2>1, <2>3, <2>6, <3>1 DEF Stuck
    <3>3. read_pos < v.mem[v.tail].start
      BY <2>1, <2>3, <2>6, <3>2 DEF Covers
    <3>4. ASSUME NEW s \in Live PROVE ~ Covers(v.mem[s], read_pos)
      <4>1. CASE s = v.tail
        BY <2>6, <4>1
      <4>2. CASE s # v.tail
        <5>1. EndOf(v.mem[v.tail]) <= v.mem[s].start
          BY <2>2, <2>6, <4>2 DEF Ordered
        <5> QED
          BY <2>1, <2>2, <2>3, <3>2, <5>1 DEF Covers
      <4> QED
        BY <4>1, <4>2
    <3>5. arr[read_pos] = Nothing
      BY <2>1, <3>4 DEF UnreadKept
    <3> QED
      BY <3>1, <3>5
  <2> QED
    BY <2>4, <2>5, <2>6
<1> QED
  BY <1>1, Inductive, PTL

=============================================================================
