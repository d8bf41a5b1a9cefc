--------------------------- MODULE UtilityProofs ---------------------------
(***************************************************************************)
(* The utilities that other parts build on: the bump allocator hands out   *)
(* no byte twice, for every buffer, size and set of requests; the free     *)
(* list of reusable objects is sound for any number of objects, any        *)
(* capacity and any nesting of deleters; the list and the map of the cache *)
(* are a recency queue for every limit; no time uuid is returned twice and *)
(* what was packed into it comes out again, for all widths of the fields;  *)
(* every request finds the handler that the routes have for it, for all    *)
(* methods, fragments, patterns, paths and handlers; and a string builder  *)
(* holds what was appended to it, for all texts, formats and numbers.      *)
(***************************************************************************)
EXTENDS StackAllocator, Reusable, LRUCache, TimeUUID, RoutingHandler, StringBuilder,
        Induction, FiniteSetTheorems

-----------------------------------------------------------------------------
(* StackAllocator.tla *)

(* The blocks in use, as the bump pointer and the counter describe them.   *)
StorageOK == StorageTypeOK /\ StorageInv

(* std::align never moves the pointer backwards. *)
LEMMA AdjustmentNat ==
    ASSUME ptr_ \in Nat, NEW a \in Nat \ {0} PROVE Adjustment(a) \in Nat
BY DEF Adjustment

(* Nothing is allocated at first.                                         *)
LEMMA InitStorage == StorageInit => StorageOK
BY StorageAssumption, FS_EmptySet DEF StorageInit, StorageOK, StorageTypeOK, StorageInv, End

(* A block of the buffer: it starts at or above the pointer, so it is      *)
(* apart from every block in use.                                          *)
LEMMA AllocateInv ==
    ASSUME StorageOK, NEW r \in Requests, Allocate(r) PROVE StorageOK'
<1> DEFINE start == ptr_ + Adjustment(r.alignment)
           block == [start |-> start, bytes |-> r.bytes, alignment |-> r.alignment]
<1>1. r.bytes \in Nat \ {0} /\ r.alignment \in Nat \ {0}
  BY StorageAssumption
<1>2. ptr_ \in Nat /\ size_ \in Nat /\ Adjustment(r.alignment) \in Nat
  BY <1>1, AdjustmentNat DEF StorageOK, StorageTypeOK
<1>3. CASE Fits(r)
  <2>1. /\ live' = live \cup {block} /\ ptr_' = start + r.bytes
        /\ size_' = size_ - Adjustment(r.alignment) - r.bytes
        /\ allocatedCount' = allocatedCount + 1 /\ upstream' = upstream
    BY <1>3 DEF Allocate
  <2>2. start \in Nat /\ start >= ptr_ /\ block \in Block
    BY <1>1, <1>2 DEF Block
  <2>3. size_' \in Nat /\ ptr_' \in Nat /\ ptr_' + size_' = End
    <3> HIDE DEF block
    <3>1. ptr_ + size_ = End /\ End \in Nat
      BY StorageAssumption DEF StorageOK, StorageInv, End
    <3>2. r.bytes + Adjustment(r.alignment) <= size_
      BY <1>3 DEF Fits
    <3> QED BY <1>1, <1>2, <2>1, <3>1, <3>2
  <2>4. \A b \in live : b \in Block /\ b.start >= Buffer /\ b.start + b.bytes <= ptr_
    BY DEF StorageOK, StorageTypeOK, StorageInv
  <2>5. block.start = start /\ block.bytes = r.bytes
    OBVIOUS
  <2>6. block \notin live
    BY <1>1, <1>2, <2>2, <2>4, <2>5 DEF Block
  <2>7. IsFiniteSet(live') /\ Cardinality(live') = Cardinality(live) + 1
    BY <2>1, <2>6, FS_AddElement DEF StorageOK, StorageTypeOK
  <2>8. ptr_ >= Buffer /\ Buffer \in Nat
    BY StorageAssumption DEF StorageOK, StorageInv
  <2>9. StorageTypeOK'
    BY <2>1, <2>2, <2>3, <2>7 DEF StorageOK, StorageTypeOK
  <2>10. \A b \in live' : b.start >= Buffer /\ b.start + b.bytes <= ptr_'
    <3> SUFFICES ASSUME NEW b \in live' PROVE b.start >= Buffer /\ b.start + b.bytes <= ptr_'
      OBVIOUS
    <3>1. CASE b = block
      <4> HIDE DEF block
      <4>1. ptr_' = start + r.bytes
        BY <2>1
      <4> QED BY <3>1, <4>1, <1>1, <1>2, <2>2, <2>5, <2>8
    <3>2. CASE b \in live
      <4>1. b.start \in Nat /\ b.bytes \in Nat /\ b.start >= Buffer /\ b.start + b.bytes <= ptr_
        BY <3>2, <2>4 DEF Block
      <4>2. ptr_' = start + r.bytes
        BY <2>1
      <4> HIDE DEF block
      <4> QED BY <4>1, <4>2, <1>1, <1>2, <2>2
    <3> QED BY <3>1, <3>2, <2>1
  <2>11. \A b, c \in live' :
            b = c \/ b.start + b.bytes <= c.start \/ c.start + c.bytes <= b.start
    <3> SUFFICES ASSUME NEW b \in live', NEW c \in live', b # c
                 PROVE  b.start + b.bytes <= c.start \/ c.start + c.bytes <= b.start
      OBVIOUS
    <3>1. CASE b \in live /\ c \in live
      BY <3>1 DEF StorageOK, StorageInv
    <3>2. CASE b = block /\ c \in live
      <4>1. c.start + c.bytes <= ptr_ /\ c.start \in Nat /\ c.bytes \in Nat
        BY <3>2, <2>4 DEF Block
      <4>2. b.start = start
        BY <3>2
      <4> HIDE DEF block
      <4> QED BY <4>1, <4>2, <1>2, <2>2
    <3>3. CASE b \in live /\ c = block
      <4>1. b.start + b.bytes <= ptr_ /\ b.start \in Nat /\ b.bytes \in Nat
        BY <3>3, <2>4 DEF Block
      <4>2. c.start = start
        BY <3>3
      <4> HIDE DEF block
      <4> QED BY <4>1, <4>2, <1>2, <2>2
    <3> QED BY <3>1, <3>2, <3>3, <2>1
  <2>12. allocatedCount' = Cardinality(live') /\ live' # {}
    BY <2>1, <2>7 DEF StorageOK, StorageInv
  <2>13. ptr_' >= Buffer
    <3> HIDE DEF block
    <3> QED BY <1>1, <1>2, <2>1, <2>2, <2>8
  <2>14. StorageInv'
    BY <2>3, <2>10, <2>11, <2>12, <2>13 DEF StorageInv, End
  <2> QED BY <2>9, <2>14 DEF StorageOK
<1>4. CASE ~Fits(r)
  <2>1. UNCHANGED <<ptr_, size_, allocatedCount, live>> /\ upstream' = upstream + 1
    BY <1>4 DEF Allocate
  <2> QED BY <2>1 DEF StorageOK, StorageTypeOK, StorageInv
<1> QED BY <1>3, <1>4

(* The counter reaches 0 only with the last block. *)
LEMMA DeallocateInv ==
    ASSUME StorageOK, NEW b \in live, Deallocate(b) PROVE StorageOK'
<1>1. live' = live \ {b} /\ allocatedCount' = allocatedCount - 1 /\ upstream' = upstream
  BY DEF Deallocate
<1>2. IsFiniteSet(live') /\ Cardinality(live') = Cardinality(live) - 1
      /\ Cardinality(live') \in Nat
  <2>1. IsFiniteSet(live)
    BY DEF StorageOK, StorageTypeOK
  <2>2. IsFiniteSet(live') /\ Cardinality(live') = Cardinality(live) - 1
    BY <1>1, <2>1, FS_RemoveElement
  <2> QED BY <2>2, FS_CardinalityType
<1>3. allocatedCount' = Cardinality(live')
  BY <1>1, <1>2 DEF StorageOK, StorageInv
<1>4. allocatedCount' = 0 <=> live' = {}
  BY <1>2, <1>3, FS_EmptySet
<1>5. live' \subseteq live
  BY <1>1
<1>6. CASE allocatedCount' = 0
  <2>1. ptr_' = Buffer /\ size_' = Size
    BY <1>6 DEF Deallocate
  <2>2. live' = {}
    BY <1>4, <1>6
  <2> QED BY <1>1, <1>2, <1>3, <2>1, <2>2, StorageAssumption DEF StorageOK, StorageTypeOK, StorageInv, End
<1>7. CASE allocatedCount' # 0
  <2>1. UNCHANGED <<ptr_, size_>>
    BY <1>7 DEF Deallocate
  <2>2. live' # {}
    BY <1>4, <1>7
  <2> QED BY <1>1, <1>2, <1>3, <1>5, <2>1, <2>2 DEF StorageOK, StorageTypeOK, StorageInv, End
<1> QED BY <1>6, <1>7

(* No step of the storage breaks it.                                       *)
LEMMA StorageStep == StorageOK /\ [StorageNext]_storageVars => StorageOK'
<1> SUFFICES ASSUME StorageOK, [StorageNext]_storageVars PROVE StorageOK'
  OBVIOUS
<1>1. ASSUME NEW r \in Requests, Allocate(r) PROVE StorageOK'
  BY <1>1, AllocateInv
<1>2. ASSUME NEW b \in live, Deallocate(b) PROVE StorageOK'
  BY <1>2, DeallocateInv
<1>3. CASE DeallocateUpstream
  BY <1>3 DEF DeallocateUpstream, StorageOK, StorageTypeOK, StorageInv
<1>4. CASE UNCHANGED storageVars
  BY <1>4 DEF storageVars, StorageOK, StorageTypeOK, StorageInv
<1> QED BY <1>1, <1>2, <1>3, <1>4 DEF StorageNext

(* The counter and the bump pointer of the storage describe the blocks in  *)
(* use after any sequence of allocations and deallocations.                *)
THEOREM StorageInvariant == StorageSpec => [](StorageTypeOK /\ StorageInv)
<1>1. StorageInit => StorageOK
  BY InitStorage
<1>2. StorageOK /\ [StorageNext]_storageVars => StorageOK'
  BY StorageStep
<1> QED BY <1>1, <1>2, PTL DEF StorageSpec, StorageOK

(* Blocks of the buffer in use never overlap and never leave the buffer,   *)
(* although the storage frees nothing before its counter reaches 0.        *)
THEOREM BlocksDisjoint == StorageSpec => []NoOverlap
<1>1. StorageTypeOK /\ StorageInv => NoOverlap
  <2> SUFFICES ASSUME StorageTypeOK, StorageInv, NEW b \in live
               PROVE  /\ b.start >= Buffer /\ b.start + b.bytes <= End
                      /\ \A c \in live : \/ b = c
                                         \/ b.start + b.bytes <= c.start
                                         \/ c.start + c.bytes <= b.start
    BY DEF NoOverlap
  <2>1. b.start \in Nat /\ b.bytes \in Nat
    BY DEF StorageTypeOK, Block
  <2>2. b.start >= Buffer /\ b.start + b.bytes <= ptr_ /\ ptr_ + size_ = End
        /\ ptr_ \in Nat /\ size_ \in Nat
    BY DEF StorageTypeOK, StorageInv
  <2>3. b.start + b.bytes <= End
    BY <2>1, <2>2
  <2> QED BY <2>2, <2>3 DEF StorageInv
<1> QED BY <1>1, StorageInvariant, PTL

(* deallocate() recognises every block of the buffer, so no pointer into   *)
(* the buffer reaches the upstream allocator.                              *)
THEOREM OwnBlocks == StorageSpec => []OwnBlocksRecognised
<1>1. StorageTypeOK /\ StorageInv => OwnBlocksRecognised
  <2> SUFFICES ASSUME StorageTypeOK, StorageInv, NEW b \in live PROVE IsAllocatedFromHere(b.start)
    BY DEF OwnBlocksRecognised
  <2>1. b.start \in Nat /\ b.bytes \in Nat \ {0}
    BY DEF StorageTypeOK, Block
  <2>2. b.start >= Buffer /\ b.start + b.bytes <= ptr_ /\ ptr_ + size_ = End
        /\ ptr_ \in Nat /\ size_ \in Nat
    BY DEF StorageTypeOK, StorageInv
  <2> QED BY <2>1, <2>2 DEF IsAllocatedFromHere
<1> QED BY <1>1, StorageInvariant, PTL

(* The storage starts over when the last block is given back: its whole    *)
(* buffer is available again after any use of it.                          *)
THEOREM BufferReclaimed == StorageSpec => []Reclaimed
<1>1. StorageInv => Reclaimed
  BY DEF StorageInv, Reclaimed
<1> QED BY <1>1, StorageInvariant, PTL

-----------------------------------------------------------------------------
(* TimeUUID.tla *)

\* Products keep the order.
LEMMA ProductGrows ==
    ASSUME NEW a \in Nat, NEW b \in Nat, NEW k \in Nat, a <= b
    PROVE  a * k <= b * k /\ a * k \in Nat
<1>1. PICK d \in Nat : b = a + d
  <2>1. b - a \in Nat /\ b = a + (b - a)
    OBVIOUS
  <2> QED BY <2>1
<1>2. b * k = a * k + d * k /\ a * k \in Nat /\ d * k \in Nat
  BY <1>1, SMTT(30)
<1> QED BY <1>2

\* A number is cut in one way only into a multiple and a rest.
LEMMA Division ==
    ASSUME NEW q \in Nat, NEW n \in Nat \ {0}, NEW r \in Nat, r < n
    PROVE  (q * n + r) \div n = q /\ (q * n + r) % n = r
BY SMTT(30)

\* Every number is cut so.
LEMMA Divided ==
    ASSUME NEW a \in Nat, NEW n \in Nat \ {0}
    PROVE  /\ a \div n \in Nat /\ a % n \in Nat /\ a % n < n
           /\ a = (a \div n) * n + (a % n)
BY SMTT(30)

\* What LowOf(), MidOf() and HighOf() take of a time stamp puts it together again.
LEMMA TimeFields ==
    ASSUME NEW time \in 0 .. MaxTime
    PROVE  /\ LowOf(time) \in Nat /\ LowOf(time) < Low
           /\ MidOf(time) \in Nat /\ MidOf(time) < Mid
           /\ HighOf(time) \in Nat /\ HighOf(time) < High
           /\ time = LowOf(time) + MidOf(time) * Low + HighOf(time) * Low * Mid
<1>1. /\ Low \in Nat \ {0} /\ Mid \in Nat \ {0} /\ High \in Nat \ {0}
      /\ time \in Nat /\ time < Low * Mid * High
  BY TimeUUIDAssumption, SMTT(30)
<1>2. PICK q \in Nat : q = time \div Low
  BY <1>1, Divided
<1>3. PICK l \in Nat : l = LowOf(time) /\ l < Low /\ time = q * Low + l
  BY <1>1, <1>2, Divided DEF LowOf
<1>4. PICK m \in Nat : m = MidOf(time) /\ m < Mid /\ q = (q \div Mid) * Mid + m
  BY <1>1, <1>2, Divided DEF MidOf
<1>5. PICK h \in Nat : h = q \div Mid
  BY <1>1, Divided
<1>6. PICK n \in Nat \ {0} : n = Low * Mid
  <2>1. Low * Mid \in Nat \ {0}
    BY <1>1, SMTT(30)
  <2> QED BY <2>1
<1>7. q = h * Mid + m
  BY <1>4, <1>5
<1>8. time = h * n + (m * Low + l)
  BY <1>1, <1>3, <1>6, <1>7, SMTT(30)
<1>9. m * Low + l \in Nat /\ m * Low + l < n
  BY <1>1, <1>3, <1>4, <1>6, SMTT(30)
<1>10. time \div n = h
  <2>1. PICK r \in Nat : r = m * Low + l
    BY <1>9
  <2> QED BY <1>8, <1>9, <2>1, Division
<1>11. h < High
  <2>1. h * n <= time /\ time < High * n
    BY <1>1, <1>6, <1>8, <1>9, SMTT(30)
  <2>2. CASE High <= h
    <3>1. High * n <= h * n /\ High * n \in Nat
      BY <1>1, <1>6, <2>2, ProductGrows
    <3>2. h * n \in Nat
      BY <1>6, ProductGrows
    <3> QED BY <1>1, <2>1, <3>1, <3>2
  <2> QED BY <1>1, <2>2
<1>12. HighOf(time) = h
  <2>1. h % High = h
    BY <1>1, <1>11
  <2> QED BY <1>6, <1>10, <2>1 DEF HighOf
<1>13. h * Low * Mid = h * n
  BY <1>1, <1>6, SMTT(30)
<1>14. time = l + m * Low + h * Low * Mid
  <2>1. m * Low \in Nat /\ h * n \in Nat
    BY <1>1, <1>6, SMTT(30)
  <2> QED BY <1>8, <1>13, <2>1
<1> QED BY <1>3, <1>4, <1>11, <1>12, <1>14

\* The fields that are packed into the first half of a uuid
LEMMA FirstHalf ==
    ASSUME NEW l \in Nat, NEW m \in Nat, NEW h \in Nat, m < Mid, h < High,
           NEW first, first = ((l * Mid + m) * 16 + 1) * High + h
    PROVE  /\ first \in Nat
           /\ (first \div High) % 16 = 1 /\ first % High = h
           /\ first \div (High * 16 * Mid) = l
           /\ (first \div (High * 16)) % Mid = m
           /\ (l * Mid + m) * (High * 16) + (first % (High * 16)) = first
<1>1. Mid \in Nat \ {0} /\ High \in Nat \ {0}
  BY TimeUUIDAssumption
<1>2. PICK u \in Nat : u = l * Mid + m
  <2>1. l * Mid + m \in Nat
    BY <1>1, SMTT(30)
  <2> QED BY <2>1
<1>3. first = (u * 16 + 1) * High + h /\ u * 16 + 1 \in Nat
  BY <1>2
<1>4. first \in Nat
  BY <1>1, <1>3, SMTT(30)
<1>5. first \div High = u * 16 + 1 /\ first % High = h
  <2>1. PICK v \in Nat : v = u * 16 + 1
    BY <1>3
  <2>2. first = v * High + h
    BY <1>3, <2>1
  <2>3. first \div High = v /\ first % High = h
    BY <1>1, <2>2, Division
  <2> QED BY <2>1, <2>3
<1>6. (u * 16 + 1) % 16 = 1
  OBVIOUS
<1>7. PICK n \in Nat \ {0} : n = High * 16
  BY <1>1
<1>8. first = u * n + (High + h) /\ High + h \in Nat /\ High + h < n
  <2>1. (u * 16 + 1) * High = u * n + High
    BY <1>1, <1>7, SMTT(30)
  <2> QED BY <1>1, <1>3, <1>7, <2>1
<1>9. first \div n = u /\ first % n = High + h
  <2>1. PICK r \in Nat : r = High + h
    BY <1>8
  <2>2. first = u * n + r /\ r < n
    BY <1>8, <2>1
  <2>3. (u * n + r) \div n = u /\ (u * n + r) % n = r
    BY <2>2, Division
  <2> QED BY <2>1, <2>2, <2>3
<1>10. u % Mid = m
  BY <1>1, <1>2, Division
<1>11. PICK w \in Nat \ {0} : w = High * 16 * Mid
  <2>1. n * Mid \in Nat \ {0}
    BY <1>1, SMTT(30)
  <2> QED BY <1>7, <2>1
<1>12. first \div w = l
  <2>1. PICK r \in Nat : r = m * n + (High + h)
    <3>1. m * n + (High + h) \in Nat
      BY <1>1, SMTT(30)
    <3> QED BY <3>1
  <2>2. first = l * w + r
    <3>1. u * n = l * w + m * n
      BY <1>1, <1>2, <1>7, <1>11, SMTT(30)
    <3>2. l * w \in Nat /\ m * n \in Nat
      BY SMTT(30)
    <3> QED BY <1>8, <2>1, <3>1, <3>2
  <2>3. r < w
    <3>1. (m + 1) * n <= Mid * n
      BY <1>1, ProductGrows
    <3>2. (m + 1) * n = m * n + n /\ Mid * n = w /\ m * n \in Nat
      BY <1>1, <1>7, <1>11, SMTT(30)
    <3> QED BY <1>8, <2>1, <3>1, <3>2
  <2> QED BY <2>2, <2>3, Division
<1> QED BY <1>2, <1>4, <1>5, <1>6, <1>7, <1>8, <1>9, <1>10, <1>11, <1>12

\* What the second half of a uuid is made of
SecondOf(clock, node) == (2 * Clocks + (clock % Clocks)) * NodeIds + (node % NodeIds)

\* The second half is the greater, the greater the clock id and then the node are ...
LEMMA SecondHalf ==
    ASSUME NEW c \in Nat, c <= MaxClockId, NEW node \in Nat
    PROVE  /\ SecondOf(c, node) \in Nat
           /\ SecondOf(0, 0) <= SecondOf(c, node)
           /\ SecondOf(c, node) <= SecondOf(MaxClockId, MaxNodeId)
           /\ (SecondOf(c, node) \div NodeIds) * NodeIds + (SecondOf(c, node) % NodeIds)
                = SecondOf(c, node)
<1>1. /\ Clocks \in Nat \ {0} /\ NodeIds \in Nat \ {0} /\ Clocks = MaxClockId + 1
      /\ NodeIds = MaxNodeId + 1 /\ MaxClockId \in Nat /\ MaxNodeId \in Nat
  BY TimeUUIDAssumption DEF Clocks, NodeIds
<1>2. c % Clocks = c /\ 0 % Clocks = 0 /\ MaxClockId % Clocks = MaxClockId
  BY <1>1
<1>3. 0 % NodeIds = 0 /\ MaxNodeId % NodeIds = MaxNodeId
  BY <1>1
<1>4. PICK n \in Nat : n = node % NodeIds /\ n <= MaxNodeId
  BY <1>1, Divided
<1>5. /\ (2 * Clocks) * NodeIds <= (2 * Clocks + c) * NodeIds
      /\ (2 * Clocks + c) * NodeIds <= (2 * Clocks + MaxClockId) * NodeIds
      /\ (2 * Clocks) * NodeIds \in Nat /\ (2 * Clocks + c) * NodeIds \in Nat
      /\ (2 * Clocks + MaxClockId) * NodeIds \in Nat
  BY <1>1, ProductGrows
<1>6. /\ SecondOf(c, node) = (2 * Clocks + c) * NodeIds + n
      /\ SecondOf(0, 0) = (2 * Clocks) * NodeIds
      /\ SecondOf(MaxClockId, MaxNodeId) = (2 * Clocks + MaxClockId) * NodeIds + MaxNodeId
  BY <1>1, <1>2, <1>3, <1>4, <1>5 DEF SecondOf
<1>7. SecondOf(c, node) \in Nat
  BY <1>5, <1>6
<1>8. (SecondOf(c, node) \div NodeIds) * NodeIds + (SecondOf(c, node) % NodeIds)
        = SecondOf(c, node)
  BY <1>1, <1>7, Divided
<1>9. SecondOf(0, 0) <= SecondOf(c, node) /\ SecondOf(c, node) <= SecondOf(MaxClockId, MaxNodeId)
  BY <1>1, <1>4, <1>5, <1>6
<1> QED BY <1>7, <1>8, <1>9

\* ... and says which clock id it was.
LEMMA ClockReadBack ==
    ASSUME NEW c \in Nat, c <= MaxClockId, NEW d \in Nat, d <= MaxClockId, NEW node \in Nat,
           SecondOf(c, node) = SecondOf(d, node)
    PROVE  c = d
<1>1. /\ Clocks \in Nat \ {0} /\ NodeIds \in Nat \ {0} /\ Clocks = MaxClockId + 1
      /\ MaxClockId \in Nat
  BY TimeUUIDAssumption DEF Clocks, NodeIds
<1>2. c % Clocks = c /\ d % Clocks = d
  BY <1>1
<1>3. PICK n \in Nat : n = node % NodeIds /\ n < NodeIds
  BY <1>1, Divided
<1>4. PICK e \in Nat : e = 2 * Clocks + c
  BY <1>1
<1>5. PICK f \in Nat : f = 2 * Clocks + d
  BY <1>1
<1>6. (e * NodeIds + n) \div NodeIds = e /\ (f * NodeIds + n) \div NodeIds = f
  BY <1>1, <1>3, Division
<1>7. e * NodeIds + n = f * NodeIds + n
  BY <1>2, <1>3, <1>4, <1>5 DEF SecondOf
<1>8. e = f
  BY <1>6, <1>7
<1> QED BY <1>1, <1>4, <1>5, <1>8

\* A uuid is the numbers it is packed of; its version and its time come out again, its
\* string leads back to it, and it is between the least and the greatest of its time.
LEMMA PackedAndRead ==
    ASSUME NEW time \in 0 .. MaxTime, NEW c \in Nat, c <= MaxClockId, NEW uuid,
           uuid = MakeUUID(time, c, NodeId)
    PROVE  /\ uuid \in [first : Nat, second : Nat] /\ uuid.second = SecondOf(c, NodeId)
           /\ GetVersion(uuid) = 1 /\ GetTime(uuid) = time
           /\ StrToUUID(UuidToStr(uuid)) = uuid
           /\ ~Less(uuid, MinUUID(time)) /\ ~Less(MaxUUID(time), uuid)
<1>1. PICK l \in Nat : l = LowOf(time) /\ l < Low
  BY TimeFields
<1>2. PICK m \in Nat : m = MidOf(time) /\ m < Mid
  BY TimeFields
<1>3. PICK h \in Nat : h = HighOf(time) /\ h < High
  BY TimeFields
<1>4. PICK first : first = ((l * Mid + m) * 16 + 1) * High + h
  OBVIOUS
<1>5. PICK second : second = SecondOf(c, NodeId)
  OBVIOUS
<1>6. uuid = [first |-> first, second |-> second]
  BY <1>1, <1>2, <1>3, <1>4, <1>5 DEF MakeUUID, SecondOf
<1>7. /\ first \in Nat
      /\ (first \div High) % 16 = 1 /\ first % High = h
      /\ first \div (High * 16 * Mid) = l /\ (first \div (High * 16)) % Mid = m
      /\ (l * Mid + m) * (High * 16) + (first % (High * 16)) = first
  BY <1>2, <1>3, <1>4, FirstHalf
<1>8. NodeId \in Nat /\ MaxClockId \in Nat
  BY TimeUUIDAssumption
<1>9. /\ second \in Nat /\ SecondOf(0, 0) <= second
      /\ second <= SecondOf(MaxClockId, MaxNodeId)
      /\ (second \div NodeIds) * NodeIds + (second % NodeIds) = second
  BY <1>5, <1>8, SecondHalf
<1>10. GetTime(uuid) = time
  <2>1. GetTime(uuid) = l + m * Low + h * Low * Mid
    BY <1>6, <1>7 DEF GetTime
  <2>2. time = l + m * Low + h * Low * Mid
    BY <1>1, <1>2, <1>3, TimeFields
  <2> QED BY <2>1, <2>2
<1>11. GetVersion(uuid) = 1
  BY <1>6, <1>7 DEF GetVersion
<1>12. StrToUUID(UuidToStr(uuid)) = uuid
  <2>1. PICK rest : rest = first % (High * 16)
    OBVIOUS
  <2>2. UuidToStr(uuid) = <<l, m, rest, second \div NodeIds, second % NodeIds>>
    BY <1>6, <1>7, <2>1 DEF UuidToStr
  <2>3. StrToUUID(UuidToStr(uuid)) =
          [first |-> (l * Mid + m) * (High * 16) + rest,
           second |-> (second \div NodeIds) * NodeIds + (second % NodeIds)]
    BY <2>2 DEF StrToUUID
  <2> QED BY <1>6, <1>7, <1>9, <2>1, <2>3
<1>13. ~Less(uuid, MinUUID(time)) /\ ~Less(MaxUUID(time), uuid)
  <2>1. PICK least : least = SecondOf(0, 0)
    OBVIOUS
  <2>2. PICK greatest : greatest = SecondOf(MaxClockId, MaxNodeId)
    OBVIOUS
  <2>3. /\ MinUUID(time) = [first |-> first, second |-> least]
        /\ MaxUUID(time) = [first |-> first, second |-> greatest]
    BY <1>1, <1>2, <1>3, <1>4, <2>1, <2>2 DEF MinUUID, MaxUUID, MakeUUID, SecondOf
  <2>4. least \in Nat /\ greatest \in Nat /\ least <= second /\ second <= greatest
    <3>1. 0 <= MaxClockId /\ MaxNodeId \in Nat
      BY TimeUUIDAssumption
    <3>2. SecondOf(0, 0) \in Nat /\ SecondOf(MaxClockId, MaxNodeId) \in Nat
      BY <1>8, <3>1, SecondHalf
    <3> QED BY <1>9, <2>1, <2>2, <3>2
  <2> QED BY <1>6, <1>7, <1>9, <2>3, <2>4 DEF Less
<1> QED BY <1>5, <1>6, <1>7, <1>9, <1>10, <1>11, <1>12, <1>13

\* Two uuids that are the same are of one time stamp and one clock id.
LEMMA SameUUID ==
    ASSUME NEW s \in 0 .. MaxTime, NEW t \in 0 .. MaxTime,
           NEW c \in Nat, c <= MaxClockId, NEW d \in Nat, d <= MaxClockId,
           MakeUUID(s, c, NodeId) = MakeUUID(t, d, NodeId)
    PROVE  s = t /\ c = d
<1>1. PICK uuid : uuid = MakeUUID(s, c, NodeId)
  OBVIOUS
<1>2. GetTime(uuid) = s /\ uuid.second = SecondOf(c, NodeId)
  BY <1>1, PackedAndRead
<1>3. GetTime(uuid) = t /\ uuid.second = SecondOf(d, NodeId)
  BY <1>1, PackedAndRead
<1>4. NodeId \in Nat
  BY TimeUUIDAssumption
<1> QED BY <1>2, <1>3, <1>4, ClockReadBack

\* makeTimeUUID()
LEMMA MakeTimeUUIDKeeps ==
    ASSUME UUIDInv, MakeTimeUUID
    PROVE  UUIDInv'
<1>1. PICK clock : clock = IF now # lastTimestamp THEN 0 ELSE clockId
  OBVIOUS
<1>2. PICK new : new = [uuid |-> MakeUUID(now, clock, NodeId), time |-> now]
  OBVIOUS
<1>3. /\ now # lastTimestamp \/ ~(clockId > MaxClockId)
      /\ lastTimestamp' = now /\ clockId' = clock + 1 /\ now' = now
      /\ made' = Append(made, new)
  BY <1>1, <1>2 DEF MakeTimeUUID, Exhausted
<1>4. /\ now \in 1 .. MaxTime /\ lastTimestamp \in Nat /\ clockId \in Nat
      /\ MaxClockId \in Nat /\ MaxTime \in Nat
      /\ Clocks = MaxClockId + 1
  BY TimeUUIDAssumption DEF UUIDInv, UUIDTypeOK, Clocks
<1>5. clock \in Nat /\ clock <= MaxClockId
  BY <1>1, <1>3, <1>4
<1>6. new \in Entry
  <2>1. now \in 0 .. MaxTime
    BY <1>4
  <2>2. MakeUUID(now, clock, NodeId) \in [first : Nat, second : Nat]
    BY <1>5, <2>1, PackedAndRead
  <2> QED BY <1>2, <1>4, <2>2 DEF Entry
<1>7. PICK old \in Seq(Entry) : old = made
  BY DEF UUIDInv, UUIDTypeOK
<1>8. PICK more \in Seq(Entry) : more = Append(old, new)
  <2>1. Append(old, new) \in Seq(Entry)
    BY <1>6
  <2> QED BY <2>1
<1>9. /\ DOMAIN old = 1 .. Len(old) /\ DOMAIN more = 1 .. Len(old) + 1 /\ Len(old) \in Nat
      /\ \A i \in DOMAIN old : more[i] = old[i]
      /\ more[Len(old) + 1] = new
  BY <1>6, <1>8
<1>10. ASSUME NEW i \in DOMAIN old
       PROVE  \E c \in 0 .. MaxClockId :
                /\ MadeOf(old[i], c)
                /\ Steady(more, i, Len(old) + 1) => Passed(old[i], c, now, clock)
  <2>1. PICK c \in 0 .. MaxClockId :
          /\ MadeOf(old[i], c)
          /\ Steady(old, i, Len(old)) => Passed(old[i], c, lastTimestamp, clockId)
    BY <1>7 DEF UUIDInv
  <2>2. ASSUME Steady(more, i, Len(old) + 1)
        PROVE  Passed(old[i], c, now, clock)
    <3>1. Steady(old, i, Len(old))
      BY <1>9, <2>2 DEF Steady
    <3>2. Len(old) \in DOMAIN old /\ Len(old) + 1 \in i + 1 .. Len(old) + 1
      BY <1>9
    <3>3. old[Len(old)].time <= now
      <4>1. more[Len(old) + 1 - 1].time <= more[Len(old) + 1].time
        BY <2>2, <3>2 DEF Steady
      <4>2. Len(old) + 1 - 1 = Len(old) /\ new.time = now
        BY <1>2, <1>9
      <4> QED BY <1>9, <3>2, <4>1, <4>2
    <3>4. old[Len(old)].time = lastTimestamp
      BY <1>7, <3>2 DEF UUIDInv
    <3>5. lastTimestamp < now \/ (lastTimestamp = now /\ clock = clockId)
      BY <1>1, <1>4, <3>3, <3>4
    <3>6. old[i] \in Entry
      BY <1>7
    <3>7. Passed(old[i], c, lastTimestamp, clockId)
      BY <2>1, <3>1
    <3> QED BY <1>4, <3>5, <3>6, <3>7 DEF Entry, Passed
  <2> QED BY <2>1, <2>2
<1>11. MadeOf(new, clock) /\ clock \in 0 .. MaxClockId /\ Passed(new, clock, now, clock + 1)
  BY <1>2, <1>4, <1>5 DEF MadeOf, Passed
<1>12. \A i \in DOMAIN more : i \in DOMAIN old \/ i = Len(old) + 1
  BY <1>9
<1>13. ASSUME NEW i \in DOMAIN more
       PROVE  \E c \in 0 .. MaxClockId :
                /\ MadeOf(more[i], c)
                /\ Steady(more, i, Len(more)) => Passed(more[i], c, now, clock + 1)
  <2>1. CASE i \in DOMAIN old
    <3>1. PICK c \in 0 .. MaxClockId :
            /\ MadeOf(old[i], c)
            /\ Steady(more, i, Len(old) + 1) => Passed(old[i], c, now, clock)
      BY <1>10, <2>1
    <3>2. Passed(old[i], c, now, clock) => Passed(old[i], c, now, clock + 1)
      BY <1>5 DEF Passed
    <3>3. Len(more) = Len(old) + 1 /\ more[i] = old[i]
      BY <1>6, <1>8, <1>9, <2>1
    <3> QED BY <3>1, <3>2, <3>3
  <2>2. CASE i = Len(old) + 1
    BY <1>9, <1>11, <2>2
  <2> QED BY <1>12, <2>1, <2>2
<1>14. ASSUME NEW i \in DOMAIN more, NEW j \in DOMAIN more, i < j, Steady(more, i, j)
       PROVE  more[i].uuid # more[j].uuid
  <2>1. i \in DOMAIN old
    BY <1>9, <1>14
  <2>2. CASE j \in DOMAIN old
    <3>1. Steady(old, i, j)
      BY <1>9, <1>14, <2>1, <2>2 DEF Steady
    <3> QED BY <1>7, <1>9, <1>14, <2>1, <2>2, <3>1 DEF UUIDInv, OnceWhileSteady
  <2>3. CASE j = Len(old) + 1
    <3>1. PICK c \in 0 .. MaxClockId : MadeOf(old[i], c) /\ Passed(old[i], c, now, clock)
      BY <1>10, <1>14, <2>1, <2>3
    <3>2. PICK entry \in Entry : entry = old[i]
      BY <1>7, <2>1
    <3>3. CASE entry.uuid = new.uuid
      <4>1. MakeUUID(entry.time, c, NodeId) = MakeUUID(now, clock, NodeId)
        BY <1>2, <3>1, <3>2, <3>3 DEF MadeOf
      <4>2. /\ entry.time \in 0 .. MaxTime /\ now \in 0 .. MaxTime
            /\ c \in Nat /\ c <= MaxClockId
        <5>1. entry.time \in 1 .. MaxTime
          BY <3>2 DEF Entry
        <5>2. c \in 0 .. MaxClockId
          BY <3>1
        <5> QED BY <1>4, <5>1, <5>2
      <4>3. entry.time = now /\ c = clock
        BY <1>5, <4>1, <4>2, SameUUID
      <4> QED BY <1>4, <1>5, <3>1, <3>2, <4>3 DEF Passed
    <3> QED BY <1>9, <2>1, <2>3, <3>2, <3>3
  <2> QED BY <1>12, <2>2, <2>3
<1>15. made' = more
  BY <1>3, <1>7, <1>8
<1>16. UUIDTypeOK'
  BY <1>3, <1>4, <1>5, <1>15 DEF UUIDTypeOK, Clocks
<1>17. more[Len(more)].time = now
  BY <1>2, <1>6, <1>8, <1>9
<1> QED BY <1>3, <1>13, <1>14, <1>15, <1>16, <1>17 DEF UUIDInv, OnceWhileSteady

\* makeTimeUUID() and the clock, wherever it is set
LEMMA UUIDStep == UUIDInv /\ [TimeUUIDNext]_uuidVars => UUIDInv'
<1> SUFFICES ASSUME UUIDInv, [TimeUUIDNext]_uuidVars PROVE UUIDInv'
  OBVIOUS
<1>1. CASE ClockTicks
  BY <1>1 DEF ClockTicks, UUIDInv, UUIDTypeOK, OnceWhileSteady
<1>2. CASE MakeTimeUUID
  BY <1>2, MakeTimeUUIDKeeps
<1>3. CASE UNCHANGED uuidVars
  BY <1>3 DEF uuidVars, UUIDInv, UUIDTypeOK, OnceWhileSteady
<1> QED BY <1>1, <1>2, <1>3 DEF TimeUUIDNext, MakeTimeUUIDThrows

\* The first call finds the statics at zero.
LEMMA UUIDStart == TimeUUIDInit => UUIDInv
BY TimeUUIDAssumption DEF TimeUUIDInit, UUIDInv, UUIDTypeOK, Clocks, OnceWhileSteady

\* Whatever the clock does, each uuid of a core was made of a time stamp and a clock id,
\* which the statics have passed unless the clock was set back after it, for every width
\* of the fields.
THEOREM UUIDInvariant == TimeUUIDSpec => []UUIDInv
<1>1. UUIDInv /\ [TimeUUIDNext]_uuidVars => UUIDInv'
  BY UUIDStep
<1> QED BY <1>1, UUIDStart, PTL DEF TimeUUIDSpec

\* makeTimeUUID() returns a uuid again only after a call that read a clock set back, and
\* getVersionFromUUID(), getTimeFromUUID(), strToUUID() and the least and greatest uuid of
\* its time agree with what it packed, whatever the clock does.
THEOREM UUIDsAreSound == TimeUUIDSpec => []UUIDsSound
<1>1. UUIDInv => UUIDsSound
  <2> SUFFICES ASSUME UUIDInv, NEW i \in DOMAIN made
               PROVE  LET uuid == made[i].uuid
                          time == GetTime(uuid)
                      IN  /\ GetVersion(uuid) = 1 /\ time = made[i].time
                          /\ StrToUUID(UuidToStr(uuid)) = uuid
                          /\ ~Less(uuid, MinUUID(time)) /\ ~Less(MaxUUID(time), uuid)
    BY DEF UUIDInv, UUIDsSound, RoundTrips
  <2>1. PICK entry : entry = made[i]
    OBVIOUS
  <2>2. entry.time \in 1 .. MaxTime
    <3>1. entry \in Entry
      BY <2>1 DEF UUIDInv, UUIDTypeOK
    <3> QED BY <3>1 DEF Entry
  <2>3. PICK c \in 0 .. MaxClockId : entry.uuid = MakeUUID(entry.time, c, NodeId)
    BY <2>1 DEF UUIDInv, MadeOf
  <2>4. entry.time \in 0 .. MaxTime /\ c \in Nat /\ c <= MaxClockId
    BY <2>2, <2>3, TimeUUIDAssumption
  <2>5. PICK uuid : uuid = entry.uuid
    OBVIOUS
  <2>6. PICK time : time = entry.time
    OBVIOUS
  <2>7. /\ GetVersion(uuid) = 1 /\ GetTime(uuid) = time
        /\ StrToUUID(UuidToStr(uuid)) = uuid
        /\ ~Less(uuid, MinUUID(time)) /\ ~Less(MaxUUID(time), uuid)
    BY <2>3, <2>4, <2>5, <2>6, PackedAndRead
  <2> QED BY <2>1, <2>5, <2>6, <2>7
<1> QED BY <1>1, UUIDInvariant, PTL

-----------------------------------------------------------------------------
(* LRUCache.tla *)

(* A sequence without its element at position p *)
Cut(s, p) == [j \in 1..Len(s) - 1 |-> IF j < p THEN s[j] ELSE s[j + 1]]

(* Removing at a position is cutting there, position by position. *)
LEMMA RemoveAtCuts ==
  ASSUME NEW S, NEW s \in Seq(S), NEW p \in Nat, 1 <= p, p <= Len(s)
  PROVE  RemoveAt(s, p) = Cut(s, p)
<1>1. PICK a : a = SubSeq(s, 1, p - 1)
  OBVIOUS
<1>2. PICK b : b = SubSeq(s, p + 1, Len(s))
  OBVIOUS
<1>3. PICK c : c = a \o b
  OBVIOUS
<1>4. a \in Seq(S) /\ Len(a) = p - 1 /\ \A j \in 1..p - 1 : a[j] = s[j]
  BY <1>1
<1>5. b \in Seq(S) /\ Len(b) = Len(s) - p /\ \A j \in 1..Len(s) - p : b[j] = s[p + j]
  BY <1>2
<1>6. /\ c \in Seq(S) /\ Len(c) = Len(a) + Len(b)
      /\ \A j \in 1..Len(a) + Len(b) : c[j] = IF j <= Len(a) THEN a[j] ELSE b[j - Len(a)]
  <2>1. a \in Seq(S) /\ b \in Seq(S)
    BY <1>4, <1>5
  <2> QED BY <1>3, <2>1, ConcatProperties, Zenon
<1>7. Len(s) \in Nat /\ Len(c) = Len(s) - 1 /\ c \in Seq(S)
  BY <1>4, <1>5, <1>6
<1>8. ASSUME NEW j \in Nat, 1 <= j, j <= Len(s) - 1
      PROVE  c[j] = IF j < p THEN s[j] ELSE s[j + 1]
  <2>1. j \in 1..Len(a) + Len(b)
    BY <1>4, <1>5, <1>8
  <2>2. CASE j < p
    <3>1. j <= Len(a) /\ a[j] = s[j]
      BY <1>4, <1>8, <2>2
    <3> QED BY <1>6, <2>1, <2>2, <3>1
  <2>3. CASE ~(j < p)
    <3>1. ~(j <= Len(a)) /\ j - Len(a) \in 1..Len(s) - p /\ p + (j - Len(a)) = j + 1
      BY <1>4, <1>8, <2>3
    <3>2. b[j - Len(a)] = s[j + 1]
      BY <1>5, <3>1
    <3> QED BY <1>6, <2>1, <2>3, <3>1, <3>2
  <2> QED BY <2>2, <2>3
<1>9. c = [j \in 1..Len(c) |-> c[j]]
  BY <1>7, LenProperties
<1>10. c = [j \in 1..Len(s) - 1 |-> IF j < p THEN s[j] ELSE s[j + 1]]
  BY <1>7, <1>8, <1>9
<1> QED BY <1>1, <1>2, <1>3, <1>10 DEF Cut, RemoveAt

(* An element that occurs once is removed where it is. *)
LEMMA RemoveFirstCuts ==
  ASSUME NEW S, NEW s \in Seq(S), NEW p \in Nat, 1 <= p, p <= Len(s),
         \A j \in 1..Len(s) : s[j] = s[p] => j = p
  PROVE  RemoveFirst(s, s[p]) = Cut(s, p)
<1>1. {i \in 1..Len(s) : s[i] = s[p]} = {p}
  OBVIOUS
<1>2. SelectInSeq(s, LAMBDA v : v = s[p]) = p
  BY <1>1 DEF SelectInSeq, Min
<1> QED BY <1>2, RemoveAtCuts DEF RemoveFirst

(* The length and the elements of what is left *)
LEMMA CutSeq ==
  ASSUME NEW S, NEW s \in Seq(S), NEW p \in Nat, 1 <= p, p <= Len(s)
  PROVE  /\ Cut(s, p) \in Seq(S) /\ Len(Cut(s, p)) = Len(s) - 1
         /\ DOMAIN Cut(s, p) = 1..Len(s) - 1
         /\ \A j \in 1..Len(s) - 1 : Cut(s, p)[j] = IF j < p THEN s[j] ELSE s[j + 1]
<1> Len(s) - 1 \in Nat
  OBVIOUS
<1>1. \A j \in 1..Len(s) - 1 : (IF j < p THEN s[j] ELSE s[j + 1]) \in S
  OBVIOUS
<1> QED BY <1>1 DEF Cut

(* A sequence with a first element *)
IsPush(g, n, s) ==
  /\ Len(g) = Len(s) + 1 /\ g[1] = n
  /\ \A j \in 1..Len(s) : g[j + 1] = s[j]
  /\ \A j \in 1..Len(s) + 1 : j # 1 => j - 1 \in 1..Len(s) /\ g[j] = s[j - 1]
(* The length and the elements of a sequence with one more in front *)
LEMMA PushSeq ==
  ASSUME NEW S, NEW s \in Seq(S), NEW n \in S
  PROVE  <<n>> \o s \in Seq(S) /\ IsPush(<<n>> \o s, n, s)
<1>1. PICK c : c = <<n>> \o s
  OBVIOUS
<1>2. PICK a : a = <<n>>
  OBVIOUS
<1>3. a \in Seq(S) /\ Len(a) = 1 /\ a[1] = n /\ Len(s) \in Nat
  BY <1>2
<1>4. /\ c \in Seq(S) /\ Len(c) = Len(a) + Len(s)
      /\ \A j \in 1..Len(a) + Len(s) : c[j] = IF j <= Len(a) THEN a[j] ELSE s[j - Len(a)]
  BY <1>1, <1>2, <1>3, ConcatProperties, Zenon
<1>5. c[1] = n /\ Len(c) = Len(s) + 1
  BY <1>3, <1>4
<1>6. \A j \in 1..Len(s) : c[j + 1] = s[j]
  BY <1>3, <1>4
<1>7. \A j \in 1..Len(s) + 1 : j # 1 => j - 1 \in 1..Len(s) /\ c[j] = s[j - 1]
  BY <1>3, <1>4
<1> QED BY <1>1, <1>4, <1>5, <1>6, <1>7 DEF IsPush

(* The keys of a list of nodes, front first *)
KeysOf(l, c) == [i \in DOMAIN l |-> c[l[i]].key]

(* A node that leaves the list with its key leaves list and map linked. *)
LEMMA CutLinked ==
  ASSUME NEW c, NEW m, NEW s \in Seq(Nodes), Linked(s, c, m),
         NEW p \in Nat, 1 <= p, p <= Len(s), NEW k, k = c[s[p]].key
  PROVE  Linked(Cut(s, p), c, EraseKey(m, k)) /\ KeysOf(Cut(s, p), c) = Cut(KeysOf(s, c), p)
<1>1. PICK t : t = Cut(s, p)
  OBVIOUS
<1>2. PICK e : e = EraseKey(m, k)
  OBVIOUS
<1>3. /\ t \in Seq(Nodes) /\ Len(t) = Len(s) - 1 /\ DOMAIN t = 1..Len(s) - 1 /\ Len(s) \in Nat
      /\ \A j \in 1..Len(s) - 1 : t[j] = IF j < p THEN s[j] ELSE s[j + 1]
      /\ DOMAIN s = 1..Len(s)
  <2>1. /\ Cut(s, p) \in Seq(Nodes) /\ Len(Cut(s, p)) = Len(s) - 1
        /\ DOMAIN Cut(s, p) = 1..Len(s) - 1
        /\ \A j \in 1..Len(s) - 1 : Cut(s, p)[j] = IF j < p THEN s[j] ELSE s[j + 1]
    BY CutSeq
  <2>2. Len(s) \in Nat /\ DOMAIN s = 1..Len(s)
    OBVIOUS
  <2> QED BY <1>1, <2>1, <2>2, Zenon
<1>4. DOMAIN e = DOMAIN m \ {k} /\ \A j \in DOMAIN e : e[j] = m[j]
  BY <1>2 DEF EraseKey
<1>5. k \in DOMAIN m /\ m[k] = s[p] /\ p \in DOMAIN s
  <2>1. p \in DOMAIN s
    BY <1>3
  <2> QED BY <2>1 DEF Linked
<1>6. \A j \in DOMAIN t : \E i \in DOMAIN s : i # p /\ s[i] = t[j]
  <2> SUFFICES ASSUME NEW j \in DOMAIN t PROVE \E i \in DOMAIN s : i # p /\ s[i] = t[j]
    OBVIOUS
  <2>1. j \in Nat /\ 1 <= j /\ j <= Len(s) - 1 /\ t[j] = IF j < p THEN s[j] ELSE s[j + 1]
    BY <1>3
  <2>2. CASE j < p
    <3>1. j \in DOMAIN s /\ j # p
      BY <1>3, <2>1, <2>2
    <3> QED BY <2>1, <2>2, <3>1
  <2>3. CASE ~(j < p)
    <3>1. j + 1 \in DOMAIN s /\ j + 1 # p
      BY <1>3, <2>1, <2>3
    <3> QED BY <2>1, <2>3, <3>1
  <2> QED BY <2>2, <2>3
<1>7. \A i \in DOMAIN s : i # p => \E j \in DOMAIN t : t[j] = s[i]
  <2> SUFFICES ASSUME NEW i \in DOMAIN s, i # p PROVE \E j \in DOMAIN t : t[j] = s[i]
    OBVIOUS
  <2>1. CASE i < p
    <3>1. i \in DOMAIN t /\ t[i] = s[i]
      BY <1>3, <2>1
    <3> QED BY <3>1
  <2>2. CASE i > p
    <3>1. i - 1 \in DOMAIN t /\ ~(i - 1 < p) /\ (i - 1) + 1 = i
      BY <1>3, <2>2
    <3>2. t[i - 1] = s[i]
      BY <1>3, <3>1
    <3> QED BY <3>1, <3>2
  <2> QED BY <1>3, <2>1, <2>2
<1>8. \A i \in DOMAIN s : i # p => c[s[i]].key # k
  BY <1>5 DEF Linked
<1>9. \A j \in DOMAIN t : c[t[j]].key \in DOMAIN e /\ e[c[t[j]].key] = t[j]
  BY <1>4, <1>6, <1>8 DEF Linked
<1>10. \A x \in DOMAIN e : \E j \in DOMAIN t : t[j] = e[x] /\ c[t[j]].key = x
  <2> SUFFICES ASSUME NEW x \in DOMAIN e PROVE \E j \in DOMAIN t : t[j] = e[x] /\ c[t[j]].key = x
    OBVIOUS
  <2>1. x \in DOMAIN m /\ x # k /\ e[x] = m[x]
    BY <1>4
  <2>2. PICK i \in DOMAIN s : s[i] = m[x] /\ c[s[i]].key = x
    BY <2>1 DEF Linked
  <2>3. i # p
    BY <2>1, <2>2
  <2> QED BY <1>7, <2>1, <2>2, <2>3
<1>11. \A i, j \in DOMAIN t : t[i] = t[j] => i = j
  <2> SUFFICES ASSUME NEW i \in DOMAIN t, NEW j \in DOMAIN t, t[i] = t[j] PROVE i = j
    OBVIOUS
  <2> DEFINE from(x) == IF x < p THEN x ELSE x + 1
  <2>1. \A x \in DOMAIN t : from(x) \in DOMAIN s /\ t[x] = s[from(x)]
    <3> SUFFICES ASSUME NEW x \in DOMAIN t PROVE from(x) \in DOMAIN s /\ t[x] = s[from(x)]
      OBVIOUS
    <3>1. x \in Nat /\ 1 <= x /\ x <= Len(s) - 1 /\ t[x] = IF x < p THEN s[x] ELSE s[x + 1]
      BY <1>3
    <3>2. from(x) \in DOMAIN s
      BY <1>3, <3>1
    <3> QED BY <3>1, <3>2
  <2>2. from(i) = from(j)
    BY <2>1 DEF Linked
  <2> QED BY <1>3, <2>2
<1>12. IsFiniteSet(DOMAIN e) /\ Cardinality(DOMAIN e) = Len(t)
  <2>1. IsFiniteSet(DOMAIN m) /\ Cardinality(DOMAIN m) = Len(s)
    BY DEF Linked
  <2>2. IsFiniteSet(DOMAIN m \ {k}) /\ Cardinality(DOMAIN m \ {k}) = Cardinality(DOMAIN m) - 1
    BY <1>5, <2>1, FS_RemoveElement
  <2> QED BY <1>3, <1>4, <2>1, <2>2
<1>13. Linked(t, c, e)
  BY <1>9, <1>10, <1>11, <1>12 DEF Linked
<1>14. KeysOf(t, c) = Cut(KeysOf(s, c), p)
  <2>1. PICK f : f = KeysOf(s, c)
    OBVIOUS
  <2>2. DOMAIN f = 1..Len(s) /\ \A i \in 1..Len(s) : f[i] = c[s[i]].key
    BY <1>3, <2>1 DEF KeysOf
  <2>3. Len(f) = Len(s)
    BY <1>3, <2>2
  <2>4. \A j \in 1..Len(s) - 1 : c[t[j]].key = IF j < p THEN f[j] ELSE f[j + 1]
    BY <1>3, <2>2
  <2> QED BY <1>3, <2>1, <2>3, <2>4 DEF KeysOf, Cut
<1> QED BY <1>1, <1>2, <1>13, <1>14

(* What a new node is *)
Pushed(n, s) == <<n>> \o s
Puts(d, c, n, k, v) == d = [c EXCEPT ![n] = [key |-> k, value |-> v]]
Adds(e, m, n, k) == /\ k \notin DOMAIN m /\ DOMAIN e = DOMAIN m \cup {k}
                    /\ e[k] = n /\ \A x \in DOMAIN m : e[x] = m[x]
Away(s, n) == \A i \in DOMAIN s : s[i] # n

(* A new node with a new key at the front leaves them linked. *)
LEMMA PushLinked ==
  ASSUME NEW c \in [Nodes -> Cells], NEW m, NEW s \in Seq(Nodes), Linked(s, c, m),
         NEW n \in Nodes, NEW k \in Keys, NEW v \in Values,
         NEW d, NEW e, Puts(d, c, n, k, v), Adds(e, m, n, k), Away(s, n)
  PROVE  Linked(Pushed(n, s), d, e) /\ KeysOf(Pushed(n, s), d) = Pushed(k, KeysOf(s, c))
<1> USE DEF Puts, Adds, Away, Pushed
<1>1. PICK g : g = <<n>> \o s
  OBVIOUS
<1>2. /\ g \in Seq(Nodes) /\ Len(g) = Len(s) + 1 /\ g[1] = n
      /\ \A j \in 1..Len(s) : g[j + 1] = s[j]
      /\ \A j \in 1..Len(s) + 1 : j # 1 => j - 1 \in 1..Len(s) /\ g[j] = s[j - 1]
  <2>1. g \in Seq(Nodes) /\ IsPush(g, n, s)
    BY <1>1, PushSeq
  <2> QED BY <2>1 DEF IsPush
<1>3. DOMAIN g = 1..Len(s) + 1 /\ DOMAIN s = 1..Len(s) /\ Len(s) \in Nat /\ 1 \in DOMAIN g
  BY <1>2
<1>4. d[n].key = k /\ d[n].value = v /\ \A x \in Nodes : x # n => d[x] = c[x]
  OBVIOUS
<1>5. \A i \in DOMAIN s : s[i] \in Nodes /\ d[s[i]] = c[s[i]] /\ c[s[i]].key \in DOMAIN m
  BY <1>3, <1>4 DEF Linked
<1>6. \A j \in DOMAIN g : (j = 1 /\ g[j] = n) \/ (j # 1 /\ j - 1 \in DOMAIN s /\ g[j] = s[j - 1])
  BY <1>2, <1>3
<1>7. \A i \in DOMAIN s : i + 1 \in DOMAIN g /\ g[i + 1] = s[i]
  BY <1>2, <1>3
<1>8. \A j \in DOMAIN g : d[g[j]].key \in DOMAIN e /\ e[d[g[j]].key] = g[j]
  <2> SUFFICES ASSUME NEW j \in DOMAIN g PROVE d[g[j]].key \in DOMAIN e /\ e[d[g[j]].key] = g[j]
    OBVIOUS
  <2>1. CASE g[j] = n
    BY <1>4, <2>1
  <2>2. CASE j - 1 \in DOMAIN s /\ g[j] = s[j - 1]
    BY <1>5, <2>2 DEF Linked
  <2> QED BY <1>6, <2>1, <2>2
<1>9. \A x \in DOMAIN e : \E j \in DOMAIN g : g[j] = e[x] /\ d[g[j]].key = x
  <2> SUFFICES ASSUME NEW x \in DOMAIN e PROVE \E j \in DOMAIN g : g[j] = e[x] /\ d[g[j]].key = x
    OBVIOUS
  <2>1. CASE x = k
    BY <1>2, <1>3, <1>4, <2>1
  <2>2. CASE x \in DOMAIN m
    <3>1. PICK i \in DOMAIN s : s[i] = m[x] /\ c[s[i]].key = x
      BY <2>2 DEF Linked
    <3>2. g[i + 1] = e[x] /\ d[g[i + 1]].key = x /\ i + 1 \in DOMAIN g
      BY <1>5, <1>7, <2>2, <3>1
    <3> QED BY <3>2
  <2> QED BY <2>1, <2>2
<1>10. \A i, j \in DOMAIN g : g[i] = g[j] => i = j
  <2> SUFFICES ASSUME NEW i \in DOMAIN g, NEW j \in DOMAIN g, g[i] = g[j] PROVE i = j
    OBVIOUS
  <2>1. CASE g[i] = n
    <3>1. \A o \in DOMAIN g : g[o] = n => o = 1
      BY <1>6
    <3> QED BY <2>1, <3>1
  <2>2. CASE g[i] # n
    <3>1. i - 1 \in DOMAIN s /\ j - 1 \in DOMAIN s /\ s[i - 1] = s[j - 1]
      BY <1>6, <2>2
    <3>2. i - 1 = j - 1
      BY <3>1 DEF Linked
    <3> QED BY <1>3, <3>2
  <2> QED BY <2>1, <2>2
<1>11. IsFiniteSet(DOMAIN e) /\ Cardinality(DOMAIN e) = Len(g)
  <2>1. IsFiniteSet(DOMAIN m) /\ Cardinality(DOMAIN m) = Len(s)
    BY DEF Linked
  <2>2. IsFiniteSet(DOMAIN m \cup {k}) /\ Cardinality(DOMAIN m \cup {k}) = Cardinality(DOMAIN m) + 1
    BY <2>1, FS_AddElement
  <2> QED BY <1>2, <2>1, <2>2
<1>12. Linked(g, d, e)
  BY <1>8, <1>9, <1>10, <1>11 DEF Linked
<1>13. KeysOf(g, d) = <<k>> \o KeysOf(s, c)
  <2>1. PICK f : f = KeysOf(s, c)
    OBVIOUS
  <2>2. DOMAIN f = 1..Len(s) /\ \A i \in 1..Len(s) : f[i] = c[s[i]].key /\ f[i] \in Keys
    BY <1>3, <1>5, <2>1 DEF KeysOf, Cells
  <2>3. f \in Seq(Keys) /\ Len(f) = Len(s)
    BY <1>3, <2>1, <2>2 DEF KeysOf
  <2>4. PICK h : h = <<k>> \o f
    OBVIOUS
  <2>5. h \in Seq(Keys) /\ IsPush(h, k, f)
    BY <2>3, <2>4, PushSeq
  <2>6. \A j \in 1..Len(s) + 1 : h[j] = d[g[j]].key
    <3> SUFFICES ASSUME NEW j \in 1..Len(s) + 1 PROVE h[j] = d[g[j]].key
      OBVIOUS
    <3>1. CASE j = 1
      BY <1>2, <1>4, <2>5, <3>1 DEF IsPush
    <3>2. CASE j # 1
      <4>1. j - 1 \in DOMAIN s /\ g[j] = s[j - 1] /\ h[j] = f[j - 1]
        BY <1>2, <1>3, <2>3, <2>5, <3>2 DEF IsPush
      <4> QED BY <1>3, <1>5, <2>2, <4>1
    <3> QED BY <3>1, <3>2
  <2>7. h = [j \in 1..Len(h) |-> h[j]]
    BY <2>5, LenProperties
  <2>8. Len(h) = Len(s) + 1
    BY <2>3, <2>5 DEF IsPush
  <2>9. h = [j \in 1..Len(s) + 1 |-> d[g[j]].key]
    BY <2>6, <2>7, <2>8
  <2> QED BY <1>3, <2>1, <2>4, <2>9 DEF KeysOf
<1> QED BY <1>1, <1>12, <1>13

(* What stays in the list when a key is set or used *)
Kept(k) == IF k \in DOMAIN map THEN EraseNode(list, map[k]) ELSE list
KeptSound(k) ==
  /\ Kept(k) \in Seq(Nodes) /\ Len(Kept(k)) <= Len(list)
  /\ Linked(Kept(k), cell, EraseKey(map, k))
  /\ RemoveFirst(KeysOf(list, cell), k) = KeysOf(Kept(k), cell)
  /\ k \in DOMAIN map => \A i \in DOMAIN Kept(k) : Kept(k)[i] # map[k]

(* The abstract cache and the list remove an element alike. *)
LEMMA SameRemoval == \A s, k : Abstract!RemoveFirst(s, k) = RemoveFirst(s, k)
BY DEF Abstract!RemoveFirst, Abstract!RemoveAt, Abstract!SelectInSeq, Abstract!Min,
       RemoveFirst, RemoveAt, SelectInSeq, Min

(* As many keys as nodes *)
LEMMA KeysSeq ==
  ASSUME LRUInv
  PROVE  /\ KeysOf(list, cell) \in Seq(Keys) /\ Len(KeysOf(list, cell)) = Len(list)
         /\ DOMAIN list = 1..Len(list) /\ Len(list) \in Nat
         /\ \A i \in 1..Len(list) : KeysOf(list, cell)[i] = cell[list[i]].key
<1>1. DOMAIN list = 1..Len(list) /\ Len(list) \in Nat /\ list \in Seq(Nodes)
  BY DEF LRUInv, LRUTypeOK
<1>2. \A i \in 1..Len(list) : cell[list[i]].key \in Keys
  BY <1>1 DEF LRUInv, LRUTypeOK, Cells
<1> QED BY <1>1, <1>2 DEF KeysOf

(* Without the node of a key, list and map are linked but for that key, and *)
(* its users see the recency queue without the key.                         *)
LEMMA KeptIsSound == ASSUME LRUInv, NEW k \in Keys PROVE KeptSound(k)
<1>1. PICK f : f = KeysOf(list, cell)
  OBVIOUS
<1>2. /\ f \in Seq(Keys) /\ Len(f) = Len(list) /\ DOMAIN list = 1..Len(list) /\ Len(list) \in Nat
      /\ \A i \in 1..Len(list) : f[i] = cell[list[i]].key
  BY <1>1, KeysSeq
<1>3. Linked(list, cell, map) /\ list \in Seq(Nodes)
  BY DEF LRUInv, LRUTypeOK
<1>4. CASE k \in DOMAIN map
  <2>1. PICK p \in DOMAIN list : list[p] = map[k] /\ cell[list[p]].key = k
    BY <1>3, <1>4 DEF Linked
  <2>2. p \in Nat /\ 1 <= p /\ p <= Len(list) /\ p <= Len(f)
    BY <1>2, <2>1
  <2>3. \A j \in 1..Len(list) : list[j] = list[p] => j = p
    BY <1>2, <1>3, <2>1 DEF Linked
  <2>4. Kept(k) = Cut(list, p)
    <3>1. RemoveFirst(list, list[p]) = Cut(list, p)
      BY <1>3, <2>2, <2>3, RemoveFirstCuts
    <3> QED BY <1>4, <2>1, <3>1 DEF Kept, EraseNode
  <2>5. Linked(Cut(list, p), cell, EraseKey(map, k)) /\ KeysOf(Cut(list, p), cell) = Cut(f, p)
    BY <1>1, <1>3, <2>1, <2>2, CutLinked
  <2>6. RemoveFirst(f, k) = Cut(f, p)
    <3>1. f[p] = k
      BY <1>2, <2>1
    <3>2. \A j \in 1..Len(f) : f[j] = f[p] => j = p
      <4> SUFFICES ASSUME NEW j \in 1..Len(f), f[j] = f[p] PROVE j = p
        OBVIOUS
      <4>1. j \in DOMAIN list /\ cell[list[j]].key = k
        BY <1>2, <2>1, <3>1
      <4>2. list[j] = list[p]
        BY <1>3, <2>1, <4>1 DEF Linked
      <4> QED BY <1>2, <2>3, <4>1, <4>2
    <3> QED BY <1>2, <2>2, <3>1, <3>2, RemoveFirstCuts
  <2>7. /\ Cut(list, p) \in Seq(Nodes) /\ Len(Cut(list, p)) = Len(list) - 1
        /\ DOMAIN Cut(list, p) = 1..Len(list) - 1
        /\ \A j \in 1..Len(list) - 1 : Cut(list, p)[j] = IF j < p THEN list[j] ELSE list[j + 1]
    BY <1>3, <2>2, CutSeq
  <2>8. \A j \in DOMAIN Cut(list, p) : Cut(list, p)[j] # map[k]
    <3> SUFFICES ASSUME NEW j \in 1..Len(list) - 1 PROVE Cut(list, p)[j] # list[p]
      BY <2>1, <2>7
    <3>1. CASE j < p
      BY <1>2, <2>2, <2>3, <2>7, <3>1
    <3>2. CASE ~(j < p)
      <4>1. j + 1 \in 1..Len(list) /\ j + 1 # p
        BY <1>2, <2>2, <3>2
      <4> QED BY <2>3, <2>7, <3>2, <4>1
    <3> QED BY <3>1, <3>2
  <2>9. Len(Cut(list, p)) <= Len(list)
    BY <1>2, <2>7
  <2> QED BY <1>1, <2>4, <2>5, <2>6, <2>7, <2>8, <2>9 DEF KeptSound
<1>5. CASE k \notin DOMAIN map
  <2>1. Kept(k) = list
    BY <1>5 DEF Kept
  <2>2. \A i \in 1..Len(f) : f[i] # k
    BY <1>2, <1>3, <1>5 DEF Linked
  <2>3. RemoveFirst(f, k) = f
    BY <2>2 DEF RemoveFirst
  <2>4. DOMAIN EraseKey(map, k) = DOMAIN map /\ \A x \in DOMAIN map : EraseKey(map, k)[x] = map[x]
    BY <1>5 DEF EraseKey
  <2>5. Linked(list, cell, EraseKey(map, k))
    BY <1>3, <2>4 DEF Linked
  <2> QED BY <1>1, <1>2, <1>3, <1>5, <2>1, <2>3, <2>5 DEF KeptSound
<1> QED BY <1>4, <1>5

(* An empty cache is linked, and shows an empty cache. *)
LEMMA LRUStart == LRUInit => LRUInv /\ Abstract!Init
<1> SUFFICES ASSUME LRUInit PROVE LRUInv /\ Abstract!Init
  OBVIOUS
<1>1. list = <<>> /\ cell \in [Nodes -> Cells] /\ map = [k \in {} |-> k] /\ hit = NoValue
  BY DEF LRUInit
<1>2. DOMAIN map = {} /\ DOMAIN list = {} /\ Len(list) = 0 /\ list \in Seq(Nodes)
  BY <1>1
<1>3. Linked(list, cell, map)
  BY <1>2, FS_EmptySet DEF Linked
<1>4. LRUTypeOK
  BY <1>1, <1>2, MaxSizeAssumption DEF LRUTypeOK
<1>5. Abstract!Init
  BY <1>1, <1>2 DEF Abstract!Init, Abstract!NoValue, NoValue
<1> QED BY <1>3, <1>4, <1>5 DEF LRUInv

(* What the cache holds, as its users see it *)
LEMMA Shows ==
  ASSUME LRUInv
  PROVE  /\ [i \in DOMAIN list |-> cell[list[i]].key] = KeysOf(list, cell)
         /\ DOMAIN [k \in DOMAIN map |-> cell[map[k]].value] = DOMAIN map
         /\ cell \in [Nodes -> Cells] /\ Linked(list, cell, map)
         /\ DOMAIN map \subseteq Keys /\ \A k \in DOMAIN map : map[k] \in Nodes
BY DEF KeysOf, LRUInv, LRUTypeOK

(* get() moves the key to the front, and answers its value. *)
LEMMA GetStep ==
  ASSUME LRUInv, NEW k \in Keys, Get(k)
  PROVE  LRUInv' /\ Abstract!Get(k)
<1>1. CASE k \in DOMAIN map
  <2>1. PICK n : n = map[k]
    OBVIOUS
  <2>2. PICK s : s = Kept(k)
    OBVIOUS
  <2>3. /\ list' = <<n>> \o s /\ hit' = cell[n].value /\ cell' = cell /\ map' = map
    BY <1>1, <2>1, <2>2 DEF Get, Kept
  <2>4. /\ s \in Seq(Nodes) /\ Len(s) <= Len(list) /\ Linked(s, cell, EraseKey(map, k))
        /\ RemoveFirst(KeysOf(list, cell), k) = KeysOf(s, cell)
        /\ \A i \in DOMAIN s : s[i] # n
    BY <1>1, <2>1, <2>2, KeptIsSound DEF KeptSound
  <2>5. n \in Nodes /\ cell[n] \in Cells /\ cell[n].key = k
    BY <1>1, <2>1, Shows DEF Linked
  <2>6. PICK v \in Values : v = cell[n].value
    BY <2>5 DEF Cells
  <2>7. cell = [cell EXCEPT ![n] = [key |-> k, value |-> v]]
    <3>1. cell[n] = [key |-> k, value |-> v]
      BY <2>5, <2>6 DEF Cells
    <3> QED BY <2>5, <3>1, Shows
  <2>8. /\ DOMAIN map = DOMAIN EraseKey(map, k) \cup {k} /\ k \notin DOMAIN EraseKey(map, k)
        /\ \A x \in DOMAIN EraseKey(map, k) : map[x] = EraseKey(map, k)[x]
    BY <1>1 DEF EraseKey
  <2>9. Linked(<<n>> \o s, cell, map) /\ KeysOf(<<n>> \o s, cell) = <<k>> \o KeysOf(s, cell)
    <3>1. PICK m : m = EraseKey(map, k)
      OBVIOUS
    <3>2. Linked(s, cell, m) /\ Adds(map, m, n, k)
      BY <2>1, <2>4, <2>8, <3>1 DEF Adds
    <3>3. PICK d : d = cell
      OBVIOUS
    <3>4. Puts(d, cell, n, k, v) /\ cell \in [Nodes -> Cells]
      BY <2>7, <3>3, Shows DEF Puts
    <3>5. Linked(Pushed(n, s), d, map) /\ KeysOf(Pushed(n, s), d) = Pushed(k, KeysOf(s, cell))
      <4>1. s \in Seq(Nodes) /\ n \in Nodes /\ Away(s, n)
        BY <2>4, <2>5 DEF Away
      <4> QED BY <2>6, <3>2, <3>4, <4>1, PushLinked
    <3> QED BY <3>3, <3>5, Zenon DEF Pushed
  <2>10. Linked(list', cell', map') /\ KeysOf(list', cell') = <<k>> \o KeysOf(s, cell)
    BY <2>3, <2>9, Zenon
  <2>11. list' \in Seq(Nodes)
    BY <2>3, <2>4, <2>5, PushSeq
  <2>12. Len(list') = Len(list)
    <3>1. Linked(list', cell, map)
      BY <2>3, <2>10, Zenon
    <3> QED BY <3>1, Shows DEF Linked
  <2>13. LRUTypeOK'
    BY <2>3, <2>6, <2>11, <2>12 DEF LRUInv, LRUTypeOK
  <2>14. Abstract!Get(k)
    <3>1. KeysOf(list', cell') = <<k>> \o RemoveFirst(KeysOf(list, cell), k)
      BY <2>4, <2>10
    <3>2. ([i \in DOMAIN list |-> cell[list[i]].key])' = KeysOf(list', cell')
      BY DEF KeysOf
    <3>3. Abstract!Used(k) = <<k>> \o RemoveFirst(KeysOf(list, cell), k)
      BY SameRemoval, Zenon DEF Abstract!Used, KeysOf
    <3>4. [x \in DOMAIN map |-> cell[map[x]].value][k] = cell[n].value
      BY <1>1, <2>1
    <3>5. ([x \in DOMAIN map |-> cell[map[x]].value])' = [x \in DOMAIN map |-> cell[map[x]].value]
      BY <2>3
    <3> QED BY <1>1, <2>3, <3>1, <3>2, <3>3, <3>4, <3>5 DEF Abstract!Get
  <2> QED BY <2>10, <2>13, <2>14 DEF LRUInv
<1>2. CASE k \notin DOMAIN map
  <2>1. hit' = NoValue /\ list' = list /\ cell' = cell /\ map' = map
    BY <1>2 DEF Get
  <2>2. LRUInv'
    BY <2>1 DEF LRUInv, LRUTypeOK, Linked
  <2>3. Abstract!Get(k)
    BY <1>2, <2>1 DEF Abstract!Get, Abstract!NoValue, NoValue
  <2> QED BY <2>2, <2>3
<1> QED BY <1>1, <1>2

(* erase() forgets one key. *)
LEMMA EraseStep ==
  ASSUME LRUInv, NEW k \in Keys, Erase(k)
  PROVE  LRUInv' /\ Abstract!Forget(k)
<1>1. PICK s : s = Kept(k)
  OBVIOUS
<1>2. /\ s \in Seq(Nodes) /\ Len(s) <= Len(list) /\ Linked(s, cell, EraseKey(map, k))
      /\ RemoveFirst(KeysOf(list, cell), k) = KeysOf(s, cell)
  BY <1>1, KeptIsSound DEF KeptSound
<1>3. list' = s /\ hit' = NoValue /\ cell' = cell
  BY <1>1 DEF Erase, Kept
<1>4. /\ DOMAIN map' = DOMAIN map \ {k} /\ \A x \in DOMAIN map' : map'[x] = map[x]
      /\ DOMAIN EraseKey(map, k) = DOMAIN map' /\ \A x \in DOMAIN map' : EraseKey(map, k)[x] = map[x]
  BY DEF Erase, EraseKey
<1>5. Linked(list', cell', map')
  <2>1. PICK e : e = EraseKey(map, k)
    OBVIOUS
  <2>2. Linked(s, cell, e) /\ DOMAIN e = DOMAIN map' /\ \A x \in DOMAIN map' : e[x] = map'[x]
    BY <1>2, <1>4, <2>1
  <2>3. Linked(s, cell, map')
    BY <2>2 DEF Linked
  <2> QED BY <1>3, <2>3, Zenon
<1>6. LRUTypeOK'
  <2>1. Len(list') <= MaxSize
    BY <1>2, <1>3, MaxSizeAssumption DEF LRUInv, LRUTypeOK
  <2> QED BY <1>2, <1>3, <1>4, <2>1 DEF LRUInv, LRUTypeOK
<1>7. Abstract!Forget(k)
  <2>1. ([i \in DOMAIN list |-> cell[list[i]].key])' = RemoveFirst([i \in DOMAIN list |-> cell[list[i]].key], k)
    <3>1. KeysOf(list', cell') = RemoveFirst(KeysOf(list, cell), k)
      BY <1>2, <1>3
    <3> QED BY <3>1, Zenon DEF KeysOf
  <2>2. ([x \in DOMAIN map |-> cell[map[x]].value])'
          = [x \in DOMAIN map \ {k} |-> [y \in DOMAIN map |-> cell[map[y]].value][x]]
    BY <1>3, <1>4
  <2> QED BY <1>3, <2>1, <2>2, SameRemoval DEF Abstract!Forget, Abstract!NoValue, NoValue
<1> QED BY <1>5, <1>6, <1>7 DEF LRUInv

(* clear() forgets all. *)
LEMMA ClearStep ==
  ASSUME LRUInv, Clear
  PROVE  LRUInv' /\ Abstract!ForgetAll
<1>1. list' = <<>> /\ cell' = cell /\ map' = [k \in {} |-> k] /\ hit' = NoValue
  BY DEF Clear
<1>2. DOMAIN map' = {} /\ DOMAIN list' = {} /\ Len(list') = 0 /\ list' \in Seq(Nodes)
  BY <1>1
<1>3. Linked(list', cell', map')
  BY <1>2, FS_EmptySet DEF Linked
<1>4. LRUTypeOK'
  BY <1>1, <1>2, MaxSizeAssumption DEF LRUInv, LRUTypeOK
<1>5. Abstract!ForgetAll
  BY <1>1, <1>2 DEF Abstract!ForgetAll, Abstract!NoValue, NoValue
<1> QED BY <1>3, <1>4, <1>5 DEF LRUInv

(* What set() has done before it looks at the limit *)
Placed(k, v, n, d, e) ==
  /\ n \in Nodes /\ Away(Kept(k), n)
  /\ Puts(d, cell, n, k, v)
  /\ DOMAIN e = DOMAIN map \cup {k} /\ e[k] = n /\ \A x \in DOMAIN map : x # k => e[x] = map[x]

(* Before the limit is looked at, everything is linked. *)
LEMMA PlacedLinked ==
  ASSUME LRUInv, NEW k \in Keys, NEW v \in Values, NEW n, NEW d, NEW e, Placed(k, v, n, d, e)
  PROVE  /\ Linked(Pushed(n, Kept(k)), d, e)
         /\ KeysOf(Pushed(n, Kept(k)), d) = Pushed(k, RemoveFirst(KeysOf(list, cell), k))
         /\ Pushed(n, Kept(k)) \in Seq(Nodes) /\ Len(Pushed(n, Kept(k))) <= MaxSize + 1
         /\ d \in [Nodes -> Cells]
<1>1. PICK s : s = Kept(k)
  OBVIOUS
<1>2. PICK m : m = EraseKey(map, k)
  OBVIOUS
<1>3. /\ s \in Seq(Nodes) /\ Len(s) <= Len(list) /\ Linked(s, cell, m)
      /\ RemoveFirst(KeysOf(list, cell), k) = KeysOf(s, cell)
  BY <1>1, <1>2, KeptIsSound DEF KeptSound
<1>4. Adds(e, m, n, k)
  BY <1>2 DEF Adds, EraseKey, Placed
<1>5. n \in Nodes /\ Away(s, n) /\ Puts(d, cell, n, k, v) /\ cell \in [Nodes -> Cells]
  BY <1>1, Shows DEF Placed
<1>6. Linked(Pushed(n, s), d, e) /\ KeysOf(Pushed(n, s), d) = Pushed(k, KeysOf(s, cell))
  BY <1>3, <1>4, <1>5, PushLinked
<1>7. Pushed(n, s) \in Seq(Nodes) /\ IsPush(Pushed(n, s), n, s)
  BY <1>3, <1>5, PushSeq, Zenon DEF Pushed
<1>8. Len(Pushed(n, s)) <= MaxSize + 1
  <2>1. Len(Pushed(n, s)) = Len(s) + 1
    BY <1>7 DEF IsPush
  <2>2. Len(list) <= MaxSize /\ Len(list) \in Nat /\ Len(s) \in Nat
    BY <1>3 DEF LRUInv, LRUTypeOK
  <2> QED BY <1>3, <2>1, <2>2, MaxSizeAssumption
<1>9. d \in [Nodes -> Cells]
  BY <1>5 DEF Puts, Cells
<1> QED BY <1>1, <1>3, <1>6, <1>7, <1>8, <1>9

(* The map with its iterator to the new node *)
Mapped(k, n) == [j \in DOMAIN map \cup {k} |-> IF j = k THEN n ELSE map[j]]

(* pop_back() *)
LEMMA SubSeqCuts ==
  ASSUME NEW S, NEW s \in Seq(S), Len(s) >= 1
  PROVE  SubSeq(s, 1, Len(s) - 1) = Cut(s, Len(s))
BY DEF Cut

(* What users see after set(), when the keys in o are kept *)
QueueBecomes(o, k, v, val) ==
  /\ ([i \in DOMAIN list |-> cell[list[i]].key])' = o
  /\ ([x \in DOMAIN map |-> cell[map[x]].value])'
       = [x \in {o[i] : i \in DOMAIN o} |-> IF x = k THEN v ELSE val[x]]
  /\ hit' = Abstract!NoValue

(* set() keeps the MaxSize keys used last, whatever address the new node has. *)
LEMMA SetStep ==
  ASSUME LRUInv, NEW k \in Keys, NEW v \in Values, Set(k, v)
  PROVE  LRUInv' /\ Abstract!Set(k, v)
<1>1. PICK n \in Nodes :
        /\ \A i \in DOMAIN Kept(k) : Kept(k)[i] # n
        /\ cell' = [cell EXCEPT ![n] = [key |-> k, value |-> v]]
        /\ map'  = IF Over(Mapped(k, n))
                     THEN EraseKey(Mapped(k, n), cell'[Pushed(n, Kept(k))[Len(Pushed(n, Kept(k)))]].key)
                     ELSE Mapped(k, n)
        /\ list' = IF Over(Mapped(k, n))
                     THEN SubSeq(Pushed(n, Kept(k)), 1, Len(Pushed(n, Kept(k))) - 1)
                     ELSE Pushed(n, Kept(k))
        /\ hit'  = NoValue
  <2>1. PICK n \in Nodes \ {Kept(k)[i] : i \in DOMAIN Kept(k)} :
        /\ cell' = [cell EXCEPT ![n] = [key |-> k, value |-> v]]
        /\ map'  = IF Over(Mapped(k, n))
                     THEN EraseKey(Mapped(k, n), cell'[Pushed(n, Kept(k))[Len(Pushed(n, Kept(k)))]].key)
                     ELSE Mapped(k, n)
        /\ list' = IF Over(Mapped(k, n))
                     THEN SubSeq(Pushed(n, Kept(k)), 1, Len(Pushed(n, Kept(k))) - 1)
                     ELSE Pushed(n, Kept(k))
        /\ hit'  = NoValue
    BY Zenon DEF Set, Kept, Mapped, Pushed
  <2>2. n \in Nodes /\ \A i \in DOMAIN Kept(k) : Kept(k)[i] # n
    BY Zenon
  <2> QED BY <2>1, <2>2
<1>2. PICK e : e = Mapped(k, n)
  OBVIOUS
<1>3. PICK g : g = Pushed(n, Kept(k))
  OBVIOUS
<1>4. PICK d : d = cell'
  OBVIOUS
<1>5. /\ d = [cell EXCEPT ![n] = [key |-> k, value |-> v]]
      /\ map' = IF Over(e) THEN EraseKey(e, d[g[Len(g)]].key) ELSE e
      /\ list' = IF Over(e) THEN SubSeq(g, 1, Len(g) - 1) ELSE g
      /\ hit' = NoValue
  BY <1>1, <1>2, <1>3, <1>4
<1>6. Placed(k, v, n, d, e)
  BY <1>1, <1>2, <1>5 DEF Placed, Away, Puts, Mapped
<1>7. PICK u : u = Pushed(k, RemoveFirst(KeysOf(list, cell), k))
  OBVIOUS
<1>8. /\ Linked(g, d, e) /\ KeysOf(g, d) = u
      /\ g \in Seq(Nodes) /\ Len(g) <= MaxSize + 1 /\ d \in [Nodes -> Cells]
  BY <1>3, <1>6, <1>7, PlacedLinked
<1>9. DOMAIN g = 1..Len(g) /\ Len(g) \in Nat /\ Len(u) = Len(g) /\ DOMAIN u = 1..Len(g)
      /\ \A i \in 1..Len(g) : u[i] = d[g[i]].key
  <2>1. DOMAIN g = 1..Len(g) /\ Len(g) \in Nat
    BY <1>8
  <2> QED BY <1>8, <2>1 DEF KeysOf
<1>10. Over(e) <=> Len(g) > MaxSize
  BY <1>8 DEF Linked, Over
<1>11. Abstract!Used(k) = u
  BY <1>7, SameRemoval, Zenon DEF Abstract!Used, KeysOf, Pushed
<1>12. \A x \in DOMAIN map' : x \in DOMAIN e /\ map'[x] = e[x]
  BY <1>5 DEF EraseKey
<1>13. ASSUME KeysOf(list', d) = SubSeq(u, 1, IF Len(u) > MaxSize THEN MaxSize ELSE Len(u)),
              Linked(list', d, map'), list' \in Seq(Nodes), Len(list') <= MaxSize
       PROVE  LRUInv' /\ Abstract!Set(k, v)
  <2>1. LRUTypeOK'
    <3>1. DOMAIN e \subseteq Keys /\ \A x \in DOMAIN e : e[x] \in Nodes
      BY <1>6, Shows DEF Placed
    <3>2. DOMAIN map' \subseteq Keys /\ \A x \in DOMAIN map' : map'[x] \in Nodes
      BY <1>12, <3>1
    <3> QED BY <1>4, <1>5, <1>8, <1>13, <3>2 DEF LRUTypeOK
  <2>2. PICK kept : kept = SubSeq(u, 1, IF Len(u) > MaxSize THEN MaxSize ELSE Len(u))
    OBVIOUS
  <2>3. kept = [i \in DOMAIN list' |-> d[list'[i]].key]
    BY <1>13, <2>2 DEF KeysOf
  <2>4. {kept[i] : i \in DOMAIN kept} = DOMAIN map'
    <3>1. \A i \in DOMAIN list' : kept[i] \in DOMAIN map'
      BY <1>13, <2>3 DEF Linked
    <3>2. \A x \in DOMAIN map' : \E i \in DOMAIN list' : kept[i] = x
      BY <1>13, <2>3 DEF Linked
    <3> QED BY <2>3, <3>1, <3>2
  <2>5. \A x \in DOMAIN map' : d[map'[x]].value = IF x = k THEN v ELSE [y \in DOMAIN map |-> cell[map[y]].value][x]
    <3> SUFFICES ASSUME NEW x \in DOMAIN map'
                 PROVE d[map'[x]].value = IF x = k THEN v ELSE [y \in DOMAIN map |-> cell[map[y]].value][x]
      OBVIOUS
    <3>1. x \in DOMAIN e /\ map'[x] = e[x]
      BY <1>12
    <3>2. CASE x = k
      BY <1>5, <1>6, <3>1, <3>2, Shows DEF Placed
    <3>3. CASE x # k
      <4>1. x \in DOMAIN map /\ e[x] = map[x]
        BY <1>6, <3>1, <3>3 DEF Placed
      <4>2. map[x] # n
        <5>1. x \in DOMAIN EraseKey(map, k) /\ EraseKey(map, k)[x] = map[x]
          BY <3>3, <4>1 DEF EraseKey
        <5>2. PICK i \in DOMAIN Kept(k) : Kept(k)[i] = map[x]
          <6>1. Linked(Kept(k), cell, EraseKey(map, k))
            BY KeptIsSound DEF KeptSound
          <6> QED BY <5>1, <6>1 DEF Linked
        <5> QED BY <1>6, <5>2 DEF Placed, Away
      <4>3. d[map[x]] = cell[map[x]]
        BY <1>5, <4>1, <4>2, Shows
      <4> QED BY <3>1, <3>3, <4>1, <4>3
    <3> QED BY <3>2, <3>3
  <2>6. Abstract!Set(k, v)
    <3>1. ([i \in DOMAIN list |-> cell[list[i]].key])' = kept
      BY <1>4, <2>3
    <3>2. ([x \in DOMAIN map |-> cell[map[x]].value])'
            = [x \in {kept[i] : i \in DOMAIN kept} |->
                 IF x = k THEN v ELSE [y \in DOMAIN map |-> cell[map[y]].value][x]]
      BY <1>4, <2>4, <2>5
    <3>3. kept = SubSeq(Abstract!Used(k), 1, IF Len(Abstract!Used(k)) > MaxSize THEN MaxSize ELSE Len(Abstract!Used(k)))
      BY <1>11, <2>2
    <3>4. hit' = Abstract!NoValue
      BY <1>5 DEF Abstract!NoValue, NoValue
    <3>5. PICK val : val = [y \in DOMAIN map |-> cell[map[y]].value]
      OBVIOUS
    <3>6. QueueBecomes(kept, k, v, val)
      BY <3>1, <3>2, <3>4, <3>5 DEF QueueBecomes
    <3>7. QueueBecomes(SubSeq(Abstract!Used(k), 1, IF Len(Abstract!Used(k)) > MaxSize
                                                THEN MaxSize ELSE Len(Abstract!Used(k))), k, v, val)
      <4> HIDE DEF QueueBecomes
      <4> QED BY <3>3, <3>6
    <3> QED BY <3>5, <3>7, Zenon DEF Abstract!Set, QueueBecomes
  <2> QED BY <1>4, <1>13, <2>1, <2>6 DEF LRUInv
<1>14. CASE Over(e)
  <2>1. Len(g) = MaxSize + 1 /\ Len(u) > MaxSize /\ Len(g) - 1 = MaxSize /\ Len(g) >= 1
    <3>1. Len(g) \in Nat /\ Len(g) <= MaxSize + 1 /\ Len(g) > MaxSize /\ Len(u) = Len(g)
      BY <1>8, <1>9, <1>10, <1>14
    <3> QED BY <3>1, MaxSizeAssumption
  <2>2. list' = Cut(g, Len(g)) /\ map' = EraseKey(e, d[g[Len(g)]].key)
    BY <1>5, <1>8, <1>14, <2>1, SubSeqCuts
  <2>3. PICK p : p = Len(g)
    OBVIOUS
  <2>4. PICK x : x = d[g[p]].key
    OBVIOUS
  <2>5. p \in Nat /\ 1 <= p /\ p <= Len(g)
    BY <1>9, <2>1, <2>3
  <2>6. Linked(Cut(g, p), d, EraseKey(e, x)) /\ KeysOf(Cut(g, p), d) = Cut(KeysOf(g, d), p)
    BY <1>8, <2>4, <2>5, CutLinked
  <2>7. Linked(list', d, map')
    BY <2>2, <2>3, <2>4, <2>6
  <2>8. list' \in Seq(Nodes) /\ Len(list') <= MaxSize
    BY <1>8, <2>1, <2>2, <2>3, <2>5, CutSeq, MaxSizeAssumption
  <2>9. KeysOf(list', d) = SubSeq(u, 1, IF Len(u) > MaxSize THEN MaxSize ELSE Len(u))
    <3>1. KeysOf(list', d) = Cut(u, p)
      BY <1>8, <2>2, <2>3, <2>6
    <3>2. u \in Seq({u[i] : i \in 1..Len(g)})
      <4>1. u = [i \in 1..Len(g) |-> d[g[i]].key]
        BY <1>8, <1>9 DEF KeysOf
      <4> QED BY <1>9, <4>1
    <3>3. SubSeq(u, 1, Len(u) - 1) = Cut(u, Len(u))
      BY <1>9, <2>1, <3>2, SubSeqCuts
    <3>4. Len(u) - 1 = MaxSize /\ Len(u) = p
      BY <1>9, <2>1, <2>3
    <3> QED BY <2>1, <3>1, <3>3, <3>4
  <2> QED BY <1>13, <2>7, <2>8, <2>9
<1>15. CASE ~Over(e)
  <2>1. list' = g /\ map' = e /\ Len(g) <= MaxSize
    BY <1>5, <1>8, <1>9, <1>10, <1>15, MaxSizeAssumption
  <2>2. KeysOf(list', d) = SubSeq(u, 1, IF Len(u) > MaxSize THEN MaxSize ELSE Len(u))
    <3>1. u = [i \in 1..Len(g) |-> u[i]]
      BY <1>8, <1>9 DEF KeysOf
    <3>2. SubSeq(u, 1, Len(u)) = u
      BY <1>9, <3>1
    <3>3. ~(Len(u) > MaxSize)
      BY <1>9, <2>1, MaxSizeAssumption
    <3> QED BY <1>8, <2>1, <3>2, <3>3
  <2>3. Linked(list', d, map') /\ list' \in Seq(Nodes) /\ Len(list') <= MaxSize
    BY <1>8, <2>1
  <2> QED BY <1>13, <2>2, <2>3
<1> QED BY <1>14, <1>15

(* Every operation keeps the cache linked, and is what users should see. *)
LEMMA LRUStep ==
  ASSUME LRUInv, [LRUNext]_lruVars
  PROVE  LRUInv' /\ [Abstract!Next]_(Abstract!vars)
<1>1. ASSUME NEW k \in Keys, NEW v \in Values, Set(k, v) PROVE LRUInv' /\ Abstract!Next
  BY <1>1, SetStep DEF Abstract!Next
<1>2. ASSUME NEW k \in Keys, Get(k) PROVE LRUInv' /\ Abstract!Next
  BY <1>2, GetStep DEF Abstract!Next
<1>3. ASSUME NEW k \in Keys, Erase(k) PROVE LRUInv' /\ Abstract!Next
  BY <1>3, EraseStep DEF Abstract!Next
<1>4. CASE Clear
  BY <1>4, ClearStep DEF Abstract!Next
<1>5. CASE UNCHANGED lruVars
  <2>1. list' = list /\ cell' = cell /\ map' = map /\ hit' = hit
    BY <1>5 DEF lruVars
  <2>2. LRUInv'
    BY <2>1 DEF LRUInv, LRUTypeOK, Linked
  <2>3. UNCHANGED Abstract!vars
    BY <2>1 DEF Abstract!vars
  <2> QED BY <2>2, <2>3
<1> QED BY <1>1, <1>2, <1>3, <1>4, <1>5 DEF LRUNext

(* The list and the map hold the same keys, each once, and no iterator in   *)
(* the map is to a node that was freed or given another key.                *)
THEOREM LRUInvariant == LRUSpec => []LRUInv
<1>1. LRUInit => LRUInv
  BY LRUStart
<1>2. LRUInv /\ [LRUNext]_lruVars => LRUInv'
  BY LRUStep
<1> QED BY <1>1, <1>2, PTL DEF LRUSpec

(* The cache is the recency queue its class comment promises, for every     *)
(* limit, every set of keys and values and every use of addresses.          *)
THEOREM CacheImplements == LRUSpec => ImplementsLRU
<1>1. LRUInit => Abstract!Init
  BY LRUStart
<1>2. LRUInv /\ [LRUNext]_lruVars => [Abstract!Next]_(Abstract!vars)
  BY LRUStep
<1> QED BY <1>1, <1>2, LRUInvariant, PTL DEF LRUSpec, ImplementsLRU, Abstract!Spec

-----------------------------------------------------------------------------
(* Reusable.tla *)

USE ReusableAssumption

(* The deleter that runs is the last of the frames, and what is left when  *)
(* it returns are the others: no more than the shape of the call stack.    *)
LEMMA TopFrame ==
    ASSUME frames \in Seq(Frame), frames # <<>>
    PROVE  /\ Len(frames) \in DOMAIN frames /\ Top = frames[Len(frames)] /\ Top \in Frame
           /\ Pop \in Seq(Frame) /\ DOMAIN Pop = 1 .. Len(frames) - 1
           /\ \A k \in DOMAIN Pop : k \in DOMAIN frames /\ k # Len(frames) /\ Pop[k] = frames[k]
BY DEF Top, Pop

(* The free list starts out empty, with no deleter running.                *)
LEMMA InitReusable == ReusableInit => ReusableInv
BY DEF ReusableInit, ReusableInv, ReusableTypeOK, ListSound, OwnsNothing, FramesSound, Slots

(* A deleter that begins, by the owner of an object or inside the deleter  *)
(* of the object it belongs to, finds it in use.                           *)
LEMMA EnterKeeps ==
    ASSUME NEW o \in Objects, ReusableInv, status[o] = "used", Enter(o), UNCHANGED <<freeList, size>>
    PROVE  ReusableInv'
<1> DEFINE f == [object |-> o, size |-> size, keep |-> size < Capacity]
<1>1. f \in Frame /\ f.object = o /\ f.size = size /\ f.keep = (size < Capacity)
  BY DEF ReusableInv, ReusableTypeOK, Frame
<1>2. frames' = Append(frames, f) /\ frames \in Seq(Frame)
  BY DEF Enter, ReusableInv, ReusableTypeOK
<1> HIDE DEF f
<1>3. /\ frames' \in Seq(Frame) /\ DOMAIN frames' = 1 .. Len(frames) + 1
      /\ DOMAIN frames = 1 .. Len(frames) /\ Len(frames) \in Nat
      /\ frames'[Len(frames) + 1] = f /\ \A k \in DOMAIN frames : frames'[k] = frames[k]
  BY <1>1, <1>2
<1>4. status' = [status EXCEPT ![o] = "freeing"] /\ owner' = [owner EXCEPT ![o] = None]
  BY DEF Enter
<1>5. ReusableTypeOK'
  BY <1>3, <1>4 DEF ReusableInv, ReusableTypeOK
<1>6. ListSound'
  BY <1>4 DEF ReusableInv, ReusableTypeOK, ListSound
<1>7. OwnsNothing'
  BY <1>4 DEF ReusableInv, ReusableTypeOK, OwnsNothing
<1>8. \A k \in DOMAIN frames : frames[k].object \in Objects /\ frames[k].object # o
  <2>1. \A k \in DOMAIN frames : frames[k] \in Frame
    BY <1>2
  <2>2. \A g \in Frame : g.object \in Objects
    BY DEF Frame
  <2> QED BY <2>1, <2>2 DEF ReusableInv, FramesSound
<1>9. FramesSound'
  <2>1. ASSUME NEW k \in DOMAIN frames' PROVE k \in DOMAIN frames \/ k = Len(frames) + 1
    BY <1>3
  <2>2. \A k \in DOMAIN frames' :
          /\ status'[frames'[k].object] = "freeing"
          /\ frames'[k].keep => frames'[k].size < Capacity
          /\ \A i \in Slots : i < frames'[k].size => freeList[i] # None
    BY <1>1, <1>3, <1>4, <1>8, <2>1 DEF ReusableInv, FramesSound, ListSound, ReusableTypeOK
  <2>3. \A j, k \in DOMAIN frames' : frames'[j].object = frames'[k].object => j = k
    BY <1>1, <1>3, <1>8, <2>1 DEF ReusableInv, FramesSound
  <2> QED BY <2>2, <2>3 DEF FramesSound
<1> QED BY <1>5, <1>6, <1>7, <1>9 DEF ReusableInv

(* The object is stored at the slot its deleter chose, over one that a     *)
(* deleter inside it may have left there.                                  *)
LEMMA StoreKeeps == ReusableInv /\ Store => ReusableInv'
<1> SUFFICES ASSUME ReusableInv, Store PROVE ReusableInv'
  OBVIOUS
<1> DEFINE t == Top
           old == freeList[t.size]
<1>1. frames \in Seq(Frame) /\ frames # <<>>
  BY DEF Store, ReusableInv, ReusableTypeOK
<1>2. t \in Frame /\ Len(frames) \in DOMAIN frames /\ t = frames[Len(frames)]
  BY <1>1, TopFrame
<1>3. t.object \in Objects /\ t.size \in Nat
  BY <1>2 DEF Frame
<1>4. /\ t.keep /\ Children(t.object) = {} /\ frames' = Pop /\ owner' = owner /\ size' = t.size + 1
      /\ freeList' = [freeList EXCEPT ![t.size] = t.object]
      /\ status' = [o \in Objects |-> CASE o = t.object -> "free"
                                        [] o = old /\ o # t.object -> "deleted"
                                        [] OTHER -> status[o]]
  BY DEF Store
<1>5. /\ status[t.object] = "freeing" /\ t.size < Capacity
      /\ \A i \in Slots : i < t.size => freeList[i] # None
  BY <1>2, <1>4 DEF ReusableInv, FramesSound
<1>6. t.size \in Slots
  BY <1>3, <1>5 DEF Slots
<1>7. /\ frames' \in Seq(Frame) /\ DOMAIN frames' \subseteq DOMAIN frames
      /\ \A k \in DOMAIN frames' : k # Len(frames) /\ frames'[k] = frames[k]
  BY <1>1, <1>4, TopFrame
<1>8. \A k \in DOMAIN frames : frames[k] \in Frame /\ frames[k].object \in Objects
  <2>1. \A k \in DOMAIN frames : frames[k] \in Frame
    BY <1>1
  <2>2. \A g \in Frame : g.object \in Objects
    BY DEF Frame
  <2> QED BY <2>1, <2>2
<1> HIDE DEF t
<1>9. /\ freeList \in [Slots -> Objects \cup {None}] /\ owner \in [Objects -> Objects \cup {None}]
      /\ status \in [Objects -> {"new", "used", "freeing", "free", "deleted"}]
  BY DEF ReusableInv, ReusableTypeOK
<1>10. \A o \in Objects : /\ o = t.object => status'[o] = "free"
                          /\ o # t.object /\ o = old => status'[o] = "deleted"
                          /\ o # t.object /\ o # old => status'[o] = status[o]
  BY <1>3, <1>4
<1>11. /\ freeList'[t.size] = t.object
       /\ \A i \in Slots : i # t.size => freeList'[i] = freeList[i]
  BY <1>4, <1>6, <1>9
<1>12. ReusableTypeOK'
  <2>1. size' \in 0 .. Capacity
    BY <1>3, <1>4, <1>5
  <2>2. freeList' \in [Slots -> Objects \cup {None}]
    BY <1>3, <1>4, <1>9
  <2>3. status' \in [Objects -> {"new", "used", "freeing", "free", "deleted"}]
    BY <1>4, <1>9
  <2> QED BY <1>4, <1>7, <1>9, <2>1, <2>2, <2>3 DEF ReusableTypeOK
<1>13. \A i \in Slots : freeList[i] # None => freeList[i] \in Objects /\ freeList[i] # t.object
  BY <1>5, <1>9 DEF ReusableInv, ListSound
<1>14. \A i \in Slots : i # t.size /\ freeList[i] # None => freeList[i] # old
  BY <1>6 DEF ReusableInv, ListSound
<1>15. ListSound'
  <2>1. \A i \in Slots : freeList'[i] # None => status'[freeList'[i]] = "free"
    BY <1>3, <1>10, <1>11, <1>13, <1>14 DEF ReusableInv, ListSound
  <2>2. \A i, j \in Slots : freeList'[i] # None /\ freeList'[i] = freeList'[j] => i = j
    BY <1>11, <1>13 DEF ReusableInv, ListSound
  <2>3. \A i \in Slots : i < size' => freeList'[i] # None
    BY <1>3, <1>4, <1>5, <1>11 DEF Slots
  <2> QED BY <2>1, <2>2, <2>3 DEF ListSound
<1>16. old = None \/ (old \in Objects /\ status[old] = "free")
  BY <1>6, <1>9 DEF ReusableInv, ListSound
<1>17. OwnsNothing'
  <2>1. \A c \in Objects : owner[c] # t.object
    BY <1>4 DEF Children
  <2>2. \A c \in Objects : owner[c] # None => /\ c # t.object /\ c # old
                                              /\ owner[c] \in Objects /\ owner[c] # old
    BY <1>5, <1>9, <1>16 DEF ReusableInv, OwnsNothing
  <2> QED BY <1>4, <1>10, <2>1, <2>2 DEF ReusableInv, OwnsNothing
<1>18. FramesSound'
  <2>1. \A k \in DOMAIN frames' : frames[k].object # t.object /\ frames[k].object # old
    <3>1. \A k \in DOMAIN frames' : k \in DOMAIN frames /\ k # Len(frames)
      BY <1>7
    <3>2. \A k \in DOMAIN frames' : frames[k].object # t.object
      BY <1>2, <3>1 DEF ReusableInv, FramesSound
    <3>3. \A k \in DOMAIN frames' : frames[k].object \in Objects /\ status[frames[k].object] = "freeing"
      BY <1>8, <3>1 DEF ReusableInv, FramesSound
    <3> QED BY <1>16, <3>2, <3>3
  <2>2. \A k \in DOMAIN frames' :
          /\ status'[frames'[k].object] = "freeing"
          /\ frames'[k].keep => frames'[k].size < Capacity
    BY <1>7, <1>8, <1>10, <2>1 DEF ReusableInv, FramesSound
  <2>3. ASSUME NEW k \in DOMAIN frames', NEW i \in Slots, i < frames'[k].size
        PROVE  freeList'[i] # None
    <3>1. freeList[i] # None
      BY <1>7, <2>3 DEF ReusableInv, FramesSound
    <3> QED BY <1>3, <1>11, <3>1
  <2>4. \A j, k \in DOMAIN frames' : frames'[j].object = frames'[k].object => j = k
    BY <1>7 DEF ReusableInv, FramesSound
  <2> QED BY <2>2, <2>3, <2>4 DEF FramesSound
<1> QED BY <1>12, <1>15, <1>17, <1>18 DEF ReusableInv

(* An object that is deleted was on no list.                               *)
LEMMA DeleteKeeps == ReusableInv /\ Delete => ReusableInv'
<1> SUFFICES ASSUME ReusableInv, Delete PROVE ReusableInv'
  OBVIOUS
<1> DEFINE t == Top
<1>1. frames \in Seq(Frame) /\ frames # <<>>
  BY DEF Delete, ReusableInv, ReusableTypeOK
<1>2. t \in Frame /\ Len(frames) \in DOMAIN frames /\ t = frames[Len(frames)]
  BY <1>1, TopFrame
<1>3. t.object \in Objects
  BY <1>2 DEF Frame
<1>4. /\ Children(t.object) = {} /\ frames' = Pop /\ status' = [status EXCEPT ![t.object] = "deleted"]
      /\ owner' = owner /\ size' = size /\ freeList' = freeList
  BY DEF Delete
<1>5. status[t.object] = "freeing"
  BY <1>2 DEF ReusableInv, FramesSound
<1>6. /\ frames' \in Seq(Frame) /\ DOMAIN frames' \subseteq DOMAIN frames
      /\ \A k \in DOMAIN frames' : k # Len(frames) /\ frames'[k] = frames[k]
  BY <1>1, <1>4, TopFrame
<1>7. \A k \in DOMAIN frames : frames[k] \in Frame /\ frames[k].object \in Objects
  <2>1. \A k \in DOMAIN frames : frames[k] \in Frame
    BY <1>1
  <2>2. \A g \in Frame : g.object \in Objects
    BY DEF Frame
  <2> QED BY <2>1, <2>2
<1> HIDE DEF t
<1>8. ReusableTypeOK'
  BY <1>3, <1>4, <1>6 DEF ReusableInv, ReusableTypeOK
<1>9. ListSound'
  BY <1>3, <1>4, <1>5 DEF ReusableInv, ListSound, ReusableTypeOK
<1>10. OwnsNothing'
  BY <1>3, <1>4, <1>5 DEF ReusableInv, OwnsNothing, ReusableTypeOK, Children
<1>11. FramesSound'
  BY <1>2, <1>3, <1>4, <1>6, <1>7 DEF ReusableInv, FramesSound, ReusableTypeOK
<1> QED BY <1>8, <1>9, <1>10, <1>11 DEF ReusableInv

(* No step of makeReusable() or of a deleter breaks the invariant.         *)
LEMMA ReusableStep == ReusableInv /\ [ReusableNext]_reusableVars => ReusableInv'
<1> SUFFICES ASSUME ReusableInv, [ReusableNext]_reusableVars PROVE ReusableInv'
  OBVIOUS
<1> USE DEF ReusableInv
<1>1. ASSUME NEW o \in Objects, MakeNew(o) PROVE ReusableInv'
  BY <1>1 DEF MakeNew, ReusableTypeOK, ListSound, OwnsNothing, FramesSound
<1>2. ASSUME NEW o \in Objects, MakeAgain(o) PROVE ReusableInv'
  <2>1. /\ size - 1 \in Slots /\ size \in Nat /\ freeList[size - 1] = o /\ frames = <<>> /\ frames' = frames
        /\ freeList' = [freeList EXCEPT ![size - 1] = None] /\ size' = size - 1
        /\ status' = [status EXCEPT ![o] = "used"] /\ owner' = owner
    BY <1>2 DEF MakeAgain, ReusableTypeOK, Slots
  <2>2. ReusableTypeOK'
    <3>1. size' \in 0 .. Capacity
      BY <2>1 DEF ReusableTypeOK, Slots
    <3> QED BY <2>1, <3>1 DEF ReusableTypeOK
  <2>3. ListSound'
    BY <2>1 DEF ListSound, ReusableTypeOK, Slots
  <2>4. OwnsNothing'
    BY <2>1 DEF OwnsNothing, ReusableTypeOK
  <2>5. FramesSound'
    BY <2>1 DEF FramesSound
  <2> QED BY <2>2, <2>3, <2>4, <2>5
<1>3. ASSUME NEW o \in Objects, Release(o) PROVE ReusableInv'
  BY <1>3, EnterKeeps DEF Release
<1>4. ASSUME NEW o \in Objects, ReleaseChild(o) PROVE ReusableInv'
  <2>1. Top.object \in Objects
    BY <1>4, TopFrame DEF ReleaseChild, ReusableTypeOK, Frame
  <2>2. status[o] = "used"
    BY <1>4, <2>1 DEF ReleaseChild, OwnsNothing
  <2> QED BY <1>4, <2>2, EnterKeeps DEF ReleaseChild
<1>5. ASSUME NEW c \in Objects, NEW o \in Objects, Give(c, o) PROVE ReusableInv'
  BY <1>5 DEF Give, ReusableTypeOK, ListSound, OwnsNothing, FramesSound
<1>6. CASE UNCHANGED reusableVars
  BY <1>6 DEF reusableVars, ReusableTypeOK, ListSound, OwnsNothing, FramesSound
<1> QED BY <1>1, <1>2, <1>3, <1>4, <1>5, <1>6, StoreKeeps, DeleteKeeps DEF ReusableNext

(* The bookkeeping of the list and of the deleters that run inside each    *)
(* other is an invariant.                                                  *)
THEOREM ReusableInvariant == ReusableSpec => []ReusableInv
BY InitReusable, ReusableStep, PTL DEF ReusableSpec

(* makeReusable() never hands out a null pointer or an object in use.      *)
THEOREM FreeListSound == ReusableSpec => []ListSound
<1>1. ReusableInv => ListSound
  BY DEF ReusableInv
<1> QED BY <1>1, ReusableInvariant, PTL

(* An object on the free list holds no other: freeResources() of a deleter *)
(* is done with all of them before it is stored.                           *)
THEOREM FreeOwnNothing == ReusableSpec => []OwnsNothing
<1>1. ReusableInv => OwnsNothing
  BY DEF ReusableInv
<1> QED BY <1>1, ReusableInvariant, PTL

(* RoutingHandler: what the loop of findForRoute() has after each fragment *)

TreeNodes == Seq(Fragments \cup {"no node"})
Turn == [node : TreeNodes, found : BOOLEAN]
FirstTurn == [node |-> <<>>, found |-> FALSE]
NextTurn(turn, fragment) == IF turn.found THEN turn ELSE FindChild(turn.node, fragment)

LEMMA TurnTypes ==
    /\ FirstTurn \in Turn
    /\ \A turn \in Turn, fragment \in Fragments : NextTurn(turn, fragment) \in Turn
  <1>1. FirstTurn \in Turn
    BY EmptySeq DEF FirstTurn, Turn, TreeNodes
  <1>2. ASSUME NEW n \in TreeNodes, NEW fragment \in Fragments
        PROVE  FindChild(n, fragment) \in Turn
    <2>1. \A f \in {fragment, "*", "**"} : Append(n, f) \in TreeNodes
      <3>1. {fragment, "*", "**"} \subseteq Fragments \cup {"no node"}
        BY RoutingAssumption DEF Wildcards
      <3> QED
        BY <3>1, AppendProperties DEF TreeNodes
    <2>2. NoNode \in TreeNodes
      <3>1. PICK S, e : S = Fragments \cup {"no node"} /\ e = "no node"
        OBVIOUS
      <3>2. <<e>> \in Seq(S)
        <4>1. e \in S
          BY <3>1
        <4> QED
          BY <4>1
      <3> QED
        BY <3>1, <3>2 DEF NoNode, TreeNodes
    <2>3. \E node \in TreeNodes, found \in BOOLEAN :
            FindChild(n, fragment) = [node |-> node, found |-> found]
      <3>1. CASE HasChild(n, fragment)
        BY <2>1, <3>1 DEF FindChild
      <3>2. CASE ~HasChild(n, fragment) /\ HasChild(n, "**")
        BY <2>1, <3>2 DEF FindChild
      <3>3. CASE ~HasChild(n, fragment) /\ ~HasChild(n, "**") /\ HasChild(n, "*")
        BY <2>1, <3>3 DEF FindChild
      <3>4. CASE ~HasChild(n, fragment) /\ ~HasChild(n, "**") /\ ~HasChild(n, "*")
        BY <2>2, <3>4 DEF FindChild
      <3> QED
        BY <3>1, <3>2, <3>3, <3>4
    <2> QED
      BY <2>3 DEF Turn
  <1>3. ASSUME NEW turn \in Turn, NEW fragment \in Fragments
        PROVE  NextTurn(turn, fragment) \in Turn
    BY <1>2 DEF NextTurn, Turn
  <1> QED
    BY <1>1, <1>3

TakesTurns(after, path) ==
    /\ after \in [0 .. Len(path) -> Turn] /\ after[0] = FirstTurn
    /\ \A i \in 1 .. Len(path) : after[i] = NextTurn(after[i - 1], path[i])

LEMMA FoundByTurns ==
    ASSUME NEW path \in Seq(Fragments)
    PROVE  \E after : TakesTurns(after, path) /\ FindForRoute(path) = after[Len(path)].node
  <1>1. PICK n \in Nat : n = Len(path)
    OBVIOUS
  <1>2. \A i \in 1 .. n : path[i] \in Fragments
    BY <1>1
  <1>3. PICK step : step = [x \in Turn \X (1 .. n) |-> NextTurn(x[1], path[x[2]])]
    OBVIOUS
  <1>4. step \in [Turn \X (1 .. n) -> Turn]
    BY <1>2, <1>3, TurnTypes
  <1>5. PICK f : Iterates(f, n, Turn, FirstTurn, step)
    <2>1. FirstTurn \in Turn
      BY TurnTypes
    <2> QED
      BY <1>4, <2>1, Iteration
  <1>6. ASSUME NEW i \in 1 .. n PROVE f[i] = NextTurn(f[i - 1], path[i])
    <2>1. <<f[i - 1], i>> \in Turn \X (1 .. n)
      BY <1>5 DEF Iterates
    <2>2. step[<<f[i - 1], i>>] = NextTurn(f[i - 1], path[i])
      BY <1>3, <2>1
    <2> QED
      BY <1>5, <2>2 DEF Iterates
  <1> DEFINE Recurs(g) == g = [i \in 0 .. Len(path) |->
                IF i = 0 THEN [node |-> <<>>, found |-> FALSE]
                ELSE IF g[i - 1].found THEN g[i - 1]
                ELSE FindChild(g[i - 1].node, path[i])]
  <1>7. Recurs(f)
    BY <1>1, <1>5, <1>6 DEF FirstTurn, NextTurn, Iterates
  <1>8. PICK g : g = CHOOSE x : Recurs(x)
    OBVIOUS
  <1>9. Recurs(g)
    <2> HIDE DEF Recurs
    <2> QED
      BY <1>7, <1>8
  <1>10. FindForRoute(path) = g[Len(path)].node
    BY <1>8 DEF FindForRoute
  <1>11. /\ g = [i \in 0 .. n |-> g[i]]
         /\ g[0] = FirstTurn
         /\ \A i \in 1 .. n : g[i] = NextTurn(g[i - 1], path[i])
    BY <1>1, <1>9 DEF FirstTurn, NextTurn
  <1>12. \A i \in 0 .. n : g[i] \in Turn
    <2>1. g[0] \in Turn /\ \A i \in 1 .. n : g[i - 1] \in Turn => g[i] \in Turn
      BY <1>2, <1>11, TurnTypes
    <2> QED
      BY <2>1, KeptUpTo
  <1>13. g \in [0 .. n -> Turn]
    BY <1>11, <1>12
  <1> QED
    BY <1>1, <1>10, <1>11, <1>13 DEF TakesTurns

(* A node that was reached is a pattern of the fragments read so far, and  *)
(* of more of them if it ended the search.                                 *)
Agrees(n, path) ==
    /\ n \in DOMAIN wildcardRoutingTree
    /\ \A k \in 1 .. Len(n) : n[k] \in Wildcards \/ n[k] = path[k]
Reached(turn, path, i) ==
    IF turn.found THEN turn.node = NoNode \/ /\ Agrees(turn.node, path)
                                             /\ Len(turn.node) \in 1 .. i
                                             /\ turn.node[Len(turn.node)] = "**"
                  ELSE Agrees(turn.node, path) /\ Len(turn.node) = i

LEMMA ChildAgrees ==
    ASSUME TreeSound, NEW path \in Seq(Fragments), NEW n, Agrees(n, path),
           Len(n) < Len(path),
           NEW f, f \in Wildcards \/ f = path[Len(n) + 1], HasChild(n, f)
    PROVE  /\ Agrees(Append(n, f), path)
           /\ Len(Append(n, f)) = Len(n) + 1 /\ Append(n, f)[Len(n) + 1] = f
  <1>1. n \in Seq(Fragments)
    BY DEF Agrees, TreeSound
  <1>2. f \in Fragments
    BY <1>1, RoutingAssumption
  <1>3. PICK c : c = Append(n, f)
    OBVIOUS
  <1>4. /\ Len(c) = Len(n) + 1 /\ c[Len(n) + 1] = f
        /\ \A k \in 1 .. Len(n) : c[k] = n[k]
    BY <1>1, <1>2, <1>3, AppendProperties
  <1>5. ASSUME NEW k \in 1 .. Len(c) PROVE c[k] \in Wildcards \/ c[k] = path[k]
    <2>1. CASE k = Len(n) + 1
      BY <1>4, <2>1
    <2>2. CASE k # Len(n) + 1
      <3>1. Len(n) \in Nat
        BY <1>1
      <3>2. k \in 1 .. Len(n)
        BY <1>4, <2>2, <3>1
      <3> QED
        BY <1>4, <3>2 DEF Agrees
    <2> QED
      BY <2>1, <2>2
  <1> QED
    BY <1>3, <1>4, <1>5 DEF Agrees, HasChild

LEMMA TurnsReach ==
    ASSUME TreeSound, NEW path \in Seq(Fragments), NEW after, TakesTurns(after, path)
    PROVE  \A i \in 0 .. Len(path) : Reached(after[i], path, i)
  <1>1. PICK n \in Nat : n = Len(path)
    OBVIOUS
  <1>2. PICK T : T = {i \in 0 .. n : Reached(after[i], path, i)}
    OBVIOUS
  <1>3. 0 \in T
    <2>1. after[0].node = <<>> /\ ~after[0].found
      BY DEF TakesTurns, FirstTurn
    <2>2. Len(<<>>) = 0
      OBVIOUS
    <2>3. Agrees(<<>>, path)
      BY <2>2 DEF Agrees, TreeSound
    <2> QED
      BY <1>2, <2>1, <2>2, <2>3 DEF Reached
  <1>4. ASSUME NEW i \in 1 .. n, i - 1 \in T PROVE i \in T
    <2> SUFFICES Reached(after[i], path, i)
      BY <1>2
    <2>1. after[i] = NextTurn(after[i - 1], path[i]) /\ Reached(after[i - 1], path, i - 1)
      BY <1>1, <1>2, <1>4 DEF TakesTurns
    <2>2. CASE after[i - 1].found
      <3>1. after[i] = after[i - 1]
        BY <2>1, <2>2 DEF NextTurn
      <3> QED
        BY <2>1, <2>2, <3>1 DEF Reached
    <2>3. CASE ~after[i - 1].found
      <3>1. PICK node : node = after[i - 1].node
        OBVIOUS
      <3>2. Agrees(node, path) /\ Len(node) = i - 1 /\ after[i] = FindChild(node, path[i])
        BY <2>1, <2>3, <3>1 DEF Reached, NextTurn
      <3>3. Len(node) < Len(path) /\ Len(node) + 1 = i
        BY <1>1, <3>2
      <3>8. \A f : (f \in Wildcards \/ f = path[i]) /\ HasChild(node, f) =>
              /\ Agrees(Append(node, f), path) /\ Len(Append(node, f)) = i
              /\ Append(node, f)[i] = f
        <4> SUFFICES ASSUME NEW f, f \in Wildcards \/ f = path[i], HasChild(node, f)
                     PROVE  /\ Agrees(Append(node, f), path) /\ Len(Append(node, f)) = i
                            /\ Append(node, f)[i] = f
          OBVIOUS
        <4>1. /\ Agrees(Append(node, f), path)
              /\ Len(Append(node, f)) = Len(node) + 1 /\ Append(node, f)[Len(node) + 1] = f
          BY <3>2, <3>3, ChildAgrees
        <4> QED
          BY <3>3, <4>1
      <3>4. CASE HasChild(node, path[i])
        <4>1. after[i].node = Append(node, path[i]) /\ after[i].found = FALSE
          BY <3>2, <3>4 DEF FindChild
        <4>2. Agrees(Append(node, path[i]), path) /\ Len(Append(node, path[i])) = i
          BY <3>4, <3>8
        <4> QED
          BY <4>1, <4>2 DEF Reached
      <3>5. CASE ~HasChild(node, path[i]) /\ HasChild(node, "**")
        <4>1. after[i].node = Append(node, "**") /\ after[i].found = TRUE
          BY <3>2, <3>5 DEF FindChild
        <4>2. /\ Agrees(Append(node, "**"), path) /\ Len(Append(node, "**")) = i
              /\ Append(node, "**")[i] = "**"
          BY <3>5, <3>8 DEF Wildcards
        <4> QED
          BY <4>1, <4>2 DEF Reached
      <3>6. CASE ~HasChild(node, path[i]) /\ ~HasChild(node, "**") /\ HasChild(node, "*")
        <4>1. after[i].node = Append(node, "*") /\ after[i].found = FALSE
          BY <3>2, <3>6 DEF FindChild
        <4>2. Agrees(Append(node, "*"), path) /\ Len(Append(node, "*")) = i
          BY <3>6, <3>8 DEF Wildcards
        <4> QED
          BY <4>1, <4>2 DEF Reached
      <3>7. CASE ~HasChild(node, path[i]) /\ ~HasChild(node, "**") /\ ~HasChild(node, "*")
        <4>1. after[i] = [node |-> NoNode, found |-> TRUE]
          BY <3>2, <3>7 DEF FindChild
        <4> QED
          BY <4>1 DEF Reached
      <3> QED
        BY <3>4, <3>5, <3>6, <3>7
    <2> QED
      BY <2>2, <2>3
  <1>5. 0 .. n \subseteq T
    BY <1>3, <1>4, UpTo
  <1> QED
    BY <1>1, <1>2, <1>5

(* The node that findForRoute() returns is a pattern the path matches.     *)
LEMMA FoundMatches ==
    ASSUME TreeSound, NEW path \in Seq(Fragments), FindForRoute(path) # NoNode
    PROVE  /\ FindForRoute(path) \in DOMAIN wildcardRoutingTree
           /\ Matches(FindForRoute(path), path)
  <1>1. PICK after : TakesTurns(after, path) /\ FindForRoute(path) = after[Len(path)].node
    BY FoundByTurns
  <1>2. PICK n : n = FindForRoute(path)
    OBVIOUS
  <1>3. Len(path) \in Nat
    OBVIOUS
  <1>4. Reached(after[Len(path)], path, Len(path))
    BY <1>1, <1>3, TurnsReach
  <1>5. /\ Agrees(n, path)
        /\ \/ Len(n) = Len(path)
           \/ Len(n) \in 1 .. Len(path) /\ n[Len(n)] = "**"
    BY <1>1, <1>2, <1>4 DEF Reached
  <1>6. n \in Seq(Fragments)
    BY <1>5 DEF Agrees, TreeSound
  <1>7. Matches(n, path)
    <2>1. n # <<>> <=> Len(n) # 0
      BY <1>6, EmptySeq
    <2>2. DOMAIN n = 1 .. Len(n) /\ Len(n) \in Nat
      BY <1>6
    <2> QED
      BY <1>3, <1>5, <2>1, <2>2 DEF Matches, Agrees
  <1> QED
    BY <1>2, <1>5, <1>7 DEF Agrees

(* A pattern that is in the tree is found for the path that spells it.     *)
LEMMA SpeltIsFound ==
    ASSUME TreeSound, NEW path \in Seq(Fragments), path \in DOMAIN wildcardRoutingTree
    PROVE  FindForRoute(path) = path
  <1>1. PICK after : TakesTurns(after, path) /\ FindForRoute(path) = after[Len(path)].node
    BY FoundByTurns
  <1>2. PICK n \in Nat : n = Len(path)
    OBVIOUS
  <1>3. PICK T : T = {i \in 0 .. n : after[i] = [node |-> SubSeq(path, 1, i), found |-> FALSE]}
    OBVIOUS
  <1>4. 0 \in T
    <2>1. SubSeq(path, 1, 0) = <<>>
      BY SubSeqEmpty
    <2>2. after[0] = [node |-> SubSeq(path, 1, 0), found |-> FALSE]
      BY <1>1, <2>1 DEF TakesTurns, FirstTurn
    <2> QED
      BY <1>3, <2>2
  <1>5. ASSUME NEW i \in 1 .. n, i - 1 \in T PROVE i \in T
    <2>1. Append(SubSeq(path, 1, i - 1), path[i]) = SubSeq(path, 1, i)
      BY <1>2
    <2>2. SubSeq(path, 1, i) \in DOMAIN wildcardRoutingTree
      BY <1>2 DEF TreeSound
    <2>3. /\ after[i - 1] = [node |-> SubSeq(path, 1, i - 1), found |-> FALSE]
          /\ after[i] = NextTurn(after[i - 1], path[i])
      BY <1>1, <1>2, <1>3, <1>5 DEF TakesTurns
    <2>4. after[i] = FindChild(SubSeq(path, 1, i - 1), path[i])
      <3>1. PICK s : s = SubSeq(path, 1, i - 1)
        OBVIOUS
      <3>2. after[i - 1] = [node |-> s, found |-> FALSE]
        BY <2>3, <3>1
      <3>3. ~after[i - 1].found /\ after[i - 1].node = s
        BY <3>2
      <3> QED
        BY <2>3, <3>1, <3>3 DEF NextTurn
    <2>5. HasChild(SubSeq(path, 1, i - 1), path[i])
      BY <2>1, <2>2 DEF HasChild
    <2>6. after[i] = [node |-> SubSeq(path, 1, i), found |-> FALSE]
      BY <2>1, <2>4, <2>5 DEF FindChild
    <2> QED
      BY <1>3, <2>6
  <1>6. 0 .. n \subseteq T
    BY <1>4, <1>5, UpTo
  <1>7. after[n].node = SubSeq(path, 1, n)
    <2>1. n \in T
      BY <1>6
    <2>2. after[n] = [node |-> SubSeq(path, 1, n), found |-> FALSE]
      BY <1>3, <2>1
    <2> QED
      BY <2>2
  <1>8. SubSeq(path, 1, n) = path
    BY <1>2, SubSeqFull
  <1> QED
    BY <1>1, <1>2, <1>7, <1>8

-----------------------------------------------------------------------------
(* RoutingHandler: handler maps *)

NothingGiven == [m \in Methods |-> {}]

LEMMA EmptyMapSound == MapSound(EmptyMap, NothingGiven)
  BY DEF MapSound, EmptyMap, HandlerMap, NothingGiven, MethodSlots

LEMMA SetSound ==
    ASSUME NEW entry, NEW given, MapSound(entry, given), NEW m \in Methods, NEW h \in Handlers,
           given \in [Methods -> SUBSET Handlers]
    PROVE  MapSound(SetHandler(entry, m, h), [given EXCEPT ![m] = @ \cup {h}])
  <1>1. PICK set : set = SetHandler(entry, m, h)
    OBVIOUS
  <1>2. PICK more : more = [given EXCEPT ![m] = @ \cup {h}]
    OBVIOUS
  <1>3. entry \in HandlerMap /\ h # NoHandler
    BY RoutingAssumption DEF MapSound
  <1>4. /\ \A s \in MethodSlots : set.slot[s] = IF s = m THEN h ELSE entry.slot[s]
        /\ \A s \in Methods : set.handlers[s] = IF s = m /\ entry.handlers[m] = NoHandler THEN h
                                                ELSE entry.handlers[s]
        /\ set \in HandlerMap
    BY <1>1, <1>3 DEF SetHandler, HandlerMap
  <1>5. /\ DOMAIN more = Methods /\ more[m] = given[m] \cup {h}
        /\ \A s \in Methods : s # m => more[s] = given[s]
    BY <1>2
  <1>6. ASSUME NEW s \in Methods 
        PROVE  IF more[s] = {} THEN set.handlers[s] = NoHandler ELSE set.handlers[s] \in more[s]
    <2>1. IF given[s] = {} THEN entry.handlers[s] = NoHandler ELSE entry.handlers[s] \in given[s]
      BY DEF MapSound
    <2>2. CASE s = m
      <3>1. h \in more[m]
        BY <1>5
      <3>2. entry.handlers[m] # NoHandler => entry.handlers[m] \in more[m]
        BY <1>5, <2>1, <2>2
      <3>3. set.handlers[m] = IF entry.handlers[m] = NoHandler THEN h ELSE entry.handlers[m]
        BY <1>4
      <3> QED
        BY <2>2, <3>1, <3>2, <3>3
    <2>3. CASE s # m
      BY <1>4, <1>5, <2>1, <2>3
    <2> QED
      BY <2>2, <2>3
  <1>7. ASSUME NEW s \in MethodSlots 
        PROVE  IF more[s] = {} THEN set.slot[s] = NoHandler ELSE set.slot[s] \in more[s]
    <2>1. /\ s \in Methods
          /\ IF given[s] = {} THEN entry.slot[s] = NoHandler ELSE entry.slot[s] \in given[s]
      BY DEF MapSound, MethodSlots
    <2>2. CASE s = m
      BY <1>4, <1>5, <2>2
    <2>3. CASE s # m
      BY <1>4, <1>5, <2>1, <2>3
    <2> QED
      BY <2>2, <2>3
  <1> QED
    BY <1>1, <1>2, <1>4, <1>6, <1>7 DEF MapSound

LEMMA RemoveSound ==
    ASSUME NEW entry, NEW given, MapSound(entry, given), NEW m \in Methods,
           given \in [Methods -> SUBSET Handlers]
    PROVE  MapSound(RemoveHandler(entry, m), [given EXCEPT ![m] = {}])
  <1>1. PICK removed : removed = RemoveHandler(entry, m)
    OBVIOUS
  <1>2. PICK less : less = [given EXCEPT ![m] = {}]
    OBVIOUS
  <1>3. entry \in HandlerMap
    BY DEF MapSound
  <1>4. /\ \A s \in MethodSlots : removed.slot[s] = IF s = m THEN NoHandler ELSE entry.slot[s]
        /\ \A s \in Methods : removed.handlers[s] = IF s = m THEN NoHandler ELSE entry.handlers[s]
        /\ removed \in HandlerMap
    BY <1>1, <1>3 DEF RemoveHandler, HandlerMap
  <1>5. \A s \in Methods : less[s] = IF s = m THEN {} ELSE given[s]
    BY <1>2
  <1> QED
    BY <1>1, <1>2, <1>4, <1>5 DEF MapSound, MethodSlots

(* What getRoute() and the fast path take out of a map                     *)
LEMMA HandlerGiven ==
    ASSUME NEW entry, NEW given, MapSound(entry, given), NEW m \in Methods
    PROVE  /\ IF given[m] = {} THEN GetHandler(entry, m) = NoHandler
                               ELSE GetHandler(entry, m) \in given[m]
           /\ GetHandler(entry, m) = NoHandler => entry.handlers[m] = NoHandler \/ given[m] # {}
  BY DEF MapSound, GetHandler, MethodSlots

-----------------------------------------------------------------------------
(* RoutingHandler: the invariant *)

LEMMA RoutingStarts == RoutingInit => RoutingInv
  <1> SUFFICES ASSUME RoutingInit PROVE RoutingInv
    OBVIOUS
  <1>1. DOMAIN fullPathRoutingMap = {} /\ DOMAIN wildcardRoutingTree = {<<>>}
        /\ wildcardRoutingTree[<<>>] = EmptyMap
    BY DEF RoutingInit
  <1>2. FullPathsSound
    BY <1>1 DEF FullPathsSound
  <1>3. /\ <<>> \in Seq(Fragments) /\ Len(<<>>) = 0 /\ SubSeq(<<>>, 1, 0) = <<>>
        /\ DOMAIN (<<>>) = {}
    BY EmptySeq, SubSeqEmpty
  <1>4. TreeSound
    BY <1>1, <1>3, EmptyMapSound DEF TreeSound, HasWildcard, NothingGiven
  <1>5. RoutesPlaced
    BY DEF RoutingInit, RoutesPlaced
  <1> QED
    BY <1>2, <1>4, <1>5 DEF RoutingInv

LEMMA GivenTypes ==
    ASSUME RoutesPlaced, NEW path
    PROVE  Given(path) \in [Methods -> SUBSET Handlers]
  BY DEF RoutesPlaced, Given

(* After route() and removeRoute() another pattern has the routes it had.  *)
LEMMA GivenElsewhere ==
    ASSUME RoutesPlaced, NEW m \in Methods, NEW p \in Patterns, NEW S,
           routed' = [routed EXCEPT ![m][p] = S], NEW path
    PROVE  Given(path)' = IF path = p THEN [Given(p) EXCEPT ![m] = S] ELSE Given(path)
  BY DEF RoutesPlaced, Given

LEMMA RoutesPlacedNext ==
    ASSUME RoutesPlaced, NEW m \in Methods, NEW p \in Patterns, NEW S \in SUBSET Handlers,
           routed' = [routed EXCEPT ![m][p] = S],
           DOMAIN fullPathRoutingMap \subseteq DOMAIN fullPathRoutingMap',
           DOMAIN wildcardRoutingTree \subseteq DOMAIN wildcardRoutingTree',
           S # {} => p \in IF HasWildcard(p) THEN DOMAIN wildcardRoutingTree'
                                             ELSE DOMAIN fullPathRoutingMap'
    PROVE  RoutesPlaced'
  <1>1. routed' \in [Methods -> [Patterns -> SUBSET Handlers]]
    BY DEF RoutesPlaced
  <1>2. ASSUME NEW n \in Methods, NEW q \in Patterns, routed'[n][q] # {}
        PROVE  q \in IF HasWildcard(q) THEN DOMAIN wildcardRoutingTree'
                                       ELSE DOMAIN fullPathRoutingMap'
    <2>1. CASE n = m /\ q = p
      <3>1. routed'[m][p] = S
        BY DEF RoutesPlaced
      <3> QED
        BY <1>2, <2>1, <3>1
    <2>2. CASE ~(n = m /\ q = p)
      <3>1. routed'[n][q] = routed[n][q]
        BY <2>2 DEF RoutesPlaced
      <3> QED
        BY <1>2, <3>1 DEF RoutesPlaced
    <2> QED
      BY <2>1, <2>2
  <1> QED
    BY <1>1, <1>2 DEF RoutesPlaced

LEMMA RouteFull ==
    ASSUME RoutingInv, NEW m \in Methods, NEW p \in Patterns, NEW h \in Handlers,
           ~HasWildcard(p), Remember(m, p, h), UNCHANGED wildcardRoutingTree,
           fullPathRoutingMap' =
             Put(fullPathRoutingMap, p, SetHandler(MapAt(fullPathRoutingMap, p), m, h))
    PROVE  RoutingInv'
  <1>1. PICK S : S = routed[m][p] \cup {h}
    OBVIOUS
  <1>2. routed' = [routed EXCEPT ![m][p] = S] /\ S \in SUBSET Handlers
    BY <1>1 DEF Remember, RoutingInv, RoutesPlaced
  <1>3. DOMAIN fullPathRoutingMap' = DOMAIN fullPathRoutingMap \cup {p}
    BY DEF Put
  <1>4. RoutesPlaced /\ RoutesPlaced'
    BY <1>2, <1>3, RoutesPlacedNext DEF RoutingInv
  <1>5. Given(p)' = [Given(p) EXCEPT ![m] = S] /\ Given(p)[m] = routed[m][p]
    BY <1>2, <1>4 DEF Given, RoutesPlaced
  <1>6. MapSound(MapAt(fullPathRoutingMap, p), Given(p))
    <2>1. CASE p \in DOMAIN fullPathRoutingMap
      BY <2>1 DEF MapAt, RoutingInv, FullPathsSound
    <2>2. CASE p \notin DOMAIN fullPathRoutingMap
      <3>1. Given(p) = NothingGiven
        BY <1>4, <2>2 DEF RoutesPlaced, Given, NothingGiven
      <3> QED
        BY <2>2, <3>1, EmptyMapSound DEF MapAt
    <2> QED
      BY <2>1, <2>2
  <1>7. MapSound(SetHandler(MapAt(fullPathRoutingMap, p), m, h), Given(p)')
    <2>1. Given(p) \in [Methods -> SUBSET Handlers]
      BY <1>4, GivenTypes
    <2>2. [Given(p) EXCEPT ![m] = @ \cup {h}] = Given(p)'
      BY <1>1, <1>5, <2>1
    <2> QED
      BY <1>6, <2>1, <2>2, SetSound
  <1>8. FullPathsSound'
    <2> SUFFICES ASSUME NEW q \in DOMAIN fullPathRoutingMap'
                 PROVE  q \in Patterns /\ ~HasWildcard(q) /\ MapSound(fullPathRoutingMap'[q], Given(q)')
      BY DEF FullPathsSound
    <2>1. CASE q = p
      BY <1>3, <1>7, <2>1 DEF Put
    <2>2. CASE q # p
      <3>1. q \in DOMAIN fullPathRoutingMap /\ fullPathRoutingMap'[q] = fullPathRoutingMap[q]
        BY <1>3, <2>2 DEF Put
      <3>2. Given(q)' = Given(q)
        BY <1>2, <1>4, <2>2 DEF Given, RoutesPlaced
      <3> QED
        BY <3>1, <3>2 DEF RoutingInv, FullPathsSound
    <2> QED
      BY <2>1, <2>2
  <1>9. TreeSound'
    <2>1. \A q : HasWildcard(q) => Given(q)' = Given(q)
      BY <1>2, <1>4, GivenElsewhere
    <2> QED
      BY <2>1 DEF RoutingInv, TreeSound
  <1> QED
    BY <1>4, <1>8, <1>9 DEF RoutingInv

LEMMA RouteWildcard ==
    ASSUME RoutingInv, NEW m \in Methods, NEW p \in Patterns, NEW h \in Handlers,
           HasWildcard(p), Remember(m, p, h), UNCHANGED fullPathRoutingMap,
           wildcardRoutingTree' = [WithNodes(p) EXCEPT ![p] = SetHandler(@, m, h)]
    PROVE  RoutingInv'
  <1>1. PICK S : S = routed[m][p] \cup {h}
    OBVIOUS
  <1>2. routed' = [routed EXCEPT ![m][p] = S] /\ S \in SUBSET Handlers
    BY <1>1 DEF Remember, RoutingInv, RoutesPlaced
  <1>3. PICK way : way = {SubSeq(p, 1, i) : i \in 0 .. Len(p)}
    OBVIOUS
  <1>0. p \in Seq(Fragments) /\ Len(p) \in Nat
    BY RoutingAssumption
  <1>4. /\ p \in way
        /\ \A n \in way : n \in Seq(Fragments)
        /\ \A n \in way : \A i \in 0 .. Len(n) : SubSeq(n, 1, i) \in way
    <2>1. p = SubSeq(p, 1, Len(p))
      BY <1>0, SubSeqFull
    <2>2. ASSUME NEW j \in 0 .. Len(p)
          PROVE  /\ SubSeq(p, 1, j) \in Seq(Fragments) /\ Len(SubSeq(p, 1, j)) = j
                 /\ \A i \in 0 .. j : SubSeq(SubSeq(p, 1, j), 1, i) = SubSeq(p, 1, i)
      BY <1>0
    <2>3. p \in way
      <3>1. Len(p) \in 0 .. Len(p)
        BY <1>0
      <3> QED
        BY <1>3, <2>1, <3>1
    <2>4. ASSUME NEW n \in way
          PROVE  n \in Seq(Fragments) /\ \A i \in 0 .. Len(n) : SubSeq(n, 1, i) \in way
      <3>1. PICK j \in 0 .. Len(p) : n = SubSeq(p, 1, j)
        BY <1>3
      <3>2. \A i \in 0 .. j : i \in 0 .. Len(p)
        BY <1>0
      <3> QED
        BY <1>3, <2>2, <3>1, <3>2
    <2> QED
      BY <2>3, <2>4
  <1>5. /\ DOMAIN wildcardRoutingTree' = DOMAIN wildcardRoutingTree \cup way
        /\ wildcardRoutingTree'[p] = SetHandler(MapAt(wildcardRoutingTree, p), m, h)
        /\ \A n \in DOMAIN wildcardRoutingTree' :
             n # p => wildcardRoutingTree'[n] = MapAt(wildcardRoutingTree, n)
    BY <1>3, <1>4 DEF WithNodes
  <1>6. RoutesPlaced /\ RoutesPlaced'
    BY <1>2, <1>4, <1>5, RoutesPlacedNext DEF RoutingInv
  <1>7. Given(p)' = [Given(p) EXCEPT ![m] = S] /\ Given(p)[m] = routed[m][p]
    BY <1>2, <1>6 DEF Given, RoutesPlaced
  <1> DEFINE GivenAt(n) == IF HasWildcard(n) THEN Given(n) ELSE NothingGiven
  <1>8. ASSUME NEW n PROVE MapSound(MapAt(wildcardRoutingTree, n), GivenAt(n))
    <2>1. CASE n \in DOMAIN wildcardRoutingTree
      BY <2>1 DEF MapAt, RoutingInv, TreeSound, NothingGiven
    <2>2. CASE n \notin DOMAIN wildcardRoutingTree
      <3>1. GivenAt(n) = NothingGiven
        BY <1>6, <2>2 DEF RoutesPlaced, Given, NothingGiven
      <3> QED
        BY <2>2, <3>1, EmptyMapSound DEF MapAt
    <2> QED
      BY <2>1, <2>2
  <1>9. MapSound(wildcardRoutingTree'[p], Given(p)')
    <2>1. Given(p) \in [Methods -> SUBSET Handlers]
      BY <1>6, GivenTypes
    <2>2. [Given(p) EXCEPT ![m] = @ \cup {h}] = Given(p)'
      BY <1>1, <1>7, <2>1
    <2>3. MapSound(MapAt(wildcardRoutingTree, p), Given(p))
      BY <1>8
    <2> QED
      BY <1>5, <2>1, <2>2, <2>3, SetSound
  <1>10. TreeSound'
    <2>1. /\ DOMAIN wildcardRoutingTree' \subseteq Seq(Fragments)
          /\ <<>> \in DOMAIN wildcardRoutingTree'
          /\ \A n \in DOMAIN wildcardRoutingTree' : \A i \in 0 .. Len(n) :
               SubSeq(n, 1, i) \in DOMAIN wildcardRoutingTree'
      BY <1>4, <1>5 DEF RoutingInv, TreeSound
    <2>2. ASSUME NEW n \in DOMAIN wildcardRoutingTree'
          PROVE  MapSound(wildcardRoutingTree'[n], IF HasWildcard(n) THEN Given(n)' ELSE NothingGiven)
      <3>1. CASE n = p
        BY <1>9, <3>1
      <3>2. CASE n # p
        <4>1. Given(n)' = Given(n)
          BY <1>2, <1>6, <3>2 DEF Given, RoutesPlaced
        <4> QED
          BY <1>5, <1>8, <3>2, <4>1
      <3> QED
        BY <3>1, <3>2
    <2> QED
      BY <2>1, <2>2 DEF TreeSound, NothingGiven
  <1>11. FullPathsSound'
    <2>1. \A q : ~HasWildcard(q) => Given(q)' = Given(q)
      BY <1>2, <1>6, GivenElsewhere
    <2> QED
      BY <2>1 DEF RoutingInv, FullPathsSound
  <1> QED
    BY <1>6, <1>10, <1>11 DEF RoutingInv

LEMMA RouteRemoved ==
    ASSUME RoutingInv, NEW m \in Methods, NEW p \in Patterns, removeRoute(m, p)
    PROVE  RoutingInv'
  <1>1. routed' = [routed EXCEPT ![m][p] = {}] /\ {} \in SUBSET Handlers
    BY DEF removeRoute
  <1>2. /\ DOMAIN fullPathRoutingMap' = DOMAIN fullPathRoutingMap
        /\ DOMAIN wildcardRoutingTree' = DOMAIN wildcardRoutingTree
    BY DEF removeRoute
  <1>3. RoutesPlaced /\ RoutesPlaced'
    BY <1>1, <1>2, RoutesPlacedNext DEF RoutingInv
  <1>4. ASSUME NEW q, NEW entry, MapSound(entry, Given(q))
        PROVE  MapSound(IF q = p THEN RemoveHandler(entry, m) ELSE entry, Given(q)')
    <2>1. Given(q) \in [Methods -> SUBSET Handlers]
      BY <1>3, GivenTypes
    <2>2. Given(q)' = IF q = p THEN [Given(p) EXCEPT ![m] = {}] ELSE Given(q)
      BY <1>1, <1>3 DEF Given, RoutesPlaced
    <2> QED
      BY <1>4, <2>1, <2>2, RemoveSound
  <1>5. FullPathsSound'
    <2> SUFFICES ASSUME NEW q \in DOMAIN fullPathRoutingMap'
                 PROVE  q \in Patterns /\ ~HasWildcard(q) /\ MapSound(fullPathRoutingMap'[q], Given(q)')
      BY DEF FullPathsSound
    <2>1. q \in Patterns /\ ~HasWildcard(q) /\ MapSound(fullPathRoutingMap[q], Given(q))
      BY <1>2 DEF RoutingInv, FullPathsSound
    <2>2. fullPathRoutingMap'[q] = IF q = p THEN RemoveHandler(fullPathRoutingMap[q], m)
                                            ELSE fullPathRoutingMap[q]
      BY <1>2 DEF removeRoute
    <2> QED
      BY <1>4, <2>1, <2>2
  <1>6. TreeSound'
    <2> SUFFICES ASSUME NEW n \in DOMAIN wildcardRoutingTree'
                 PROVE  MapSound(wildcardRoutingTree'[n],
                                 IF HasWildcard(n) THEN Given(n)' ELSE [l \in Methods |-> {}])
      BY <1>2 DEF RoutingInv, TreeSound
    <2>1. MapSound(wildcardRoutingTree[n], IF HasWildcard(n) THEN Given(n) ELSE NothingGiven)
      BY <1>2 DEF RoutingInv, TreeSound, NothingGiven
    <2>2. wildcardRoutingTree'[n] = IF n = p THEN RemoveHandler(wildcardRoutingTree[n], m)
                                             ELSE wildcardRoutingTree[n]
      BY <1>2 DEF removeRoute
    <2>3. CASE HasWildcard(n)
      BY <1>4, <2>1, <2>2, <2>3
    <2>4. CASE ~HasWildcard(n)
      <3>1. NothingGiven \in [Methods -> SUBSET Handlers] /\ [NothingGiven EXCEPT ![m] = {}] = NothingGiven
        BY DEF NothingGiven
      <3>2. MapSound(RemoveHandler(wildcardRoutingTree[n], m), NothingGiven)
        BY <2>1, <2>4, <3>1, RemoveSound
      <3> QED
        BY <2>1, <2>2, <2>4, <3>2 DEF NothingGiven
    <2> QED
      BY <2>3, <2>4
  <1> QED
    BY <1>3, <1>5, <1>6 DEF RoutingInv

(* A handler map always holds what was routed to its path and not removed. *)
THEOREM RoutingInvariant == RoutingSpec => []RoutingInv
  <1>1. RoutingInv /\ [RoutingNext]_routingVars => RoutingInv'
    <2> SUFFICES ASSUME RoutingInv, [RoutingNext]_routingVars PROVE RoutingInv'
      OBVIOUS
    <2>1. CASE UNCHANGED routingVars
      BY <2>1 DEF routingVars, RoutingInv, FullPathsSound, TreeSound, RoutesPlaced, Given
    <2>2. ASSUME NEW m \in Methods, NEW p \in Patterns, NEW h \in Handlers, route(m, p, h)
          PROVE  RoutingInv'
      BY <2>2, RouteFull, RouteWildcard DEF route
    <2> QED
      BY <2>1, <2>2, RouteRemoved DEF RoutingNext
  <1> QED
    BY <1>1, RoutingStarts, PTL DEF RoutingSpec

(* Whatever routes came and went, a request reaches a handler of a pattern *)
(* that matches its path, that of the full path before any wildcard's, and *)
(* the fast path of handle() answers as getRoute() does.                   *)
THEOREM RoutesRight == RoutingSpec => []RightHandler
  <1>1. RoutingInv => RightHandler
    <2> SUFFICES ASSUME RoutingInv PROVE RightHandler
      OBVIOUS
    <2>1. /\ Paths \subseteq Seq(Fragments) /\ Patterns \subseteq Seq(Fragments)
          /\ FullPathsSound /\ TreeSound /\ RoutesPlaced
      BY RoutingAssumption DEF RoutingInv
    <2>2. ASSUME NEW m \in Methods, NEW path \in Paths, path \in DOMAIN fullPathRoutingMap
          PROVE  /\ Handle(m, path, FALSE) = getRoute(m, path)
                 /\ Handle(m, path, TRUE) = getRoute(m, path)
                 /\ path \in Patterns /\ Matches(path, path)
                 /\ IF routed[m][path] = {} THEN getRoute(m, path) = NoHandler
                                            ELSE getRoute(m, path) \in routed[m][path]
      <3>1. PICK entry : entry = fullPathRoutingMap[path]
        OBVIOUS
      <3>2. path \in Patterns /\ ~HasWildcard(path) /\ MapSound(entry, Given(path))
        BY <2>1, <2>2, <3>1 DEF FullPathsSound
      <3>3. getRoute(m, path) = GetHandler(entry, m)
        BY <2>2, <3>1 DEF getRoute
      <3>4. Given(path)[m] = routed[m][path]
        BY <3>2 DEF Given
      <3>5. Matches(path, path)
        <4>1. Len(path) \in Nat /\ DOMAIN path = 1 .. Len(path)
          BY <2>1
        <4>2. path # <<>> => Len(path) \in DOMAIN path
          BY <2>1, <4>1, EmptySeq
        <4> QED
          BY <3>2, <4>1, <4>2 DEF Matches, HasWildcard, Wildcards
      <3>6. Handle(m, path, FALSE) = getRoute(m, path)
        <4>1. PICK h : h = IF m \in MethodSlots /\ entry.slot[m] # NoHandler THEN entry.slot[m]
                           ELSE entry.handlers[m]
          OBVIOUS
        <4>2. Handle(m, path, FALSE) = IF h # NoHandler THEN h ELSE getRoute(m, path)
          BY <2>2, <3>1, <4>1 DEF Handle
        <4>3. h # NoHandler => h = GetHandler(entry, m)
          <5>1. Given(path)[m] \subseteq Handlers /\ NoHandler \notin Handlers
            BY <2>1, GivenTypes, RoutingAssumption
          <5>2. m \in MethodSlots /\ entry.slot[m] = NoHandler => entry.handlers[m] = NoHandler
            BY <3>2, <5>1 DEF MapSound
          <5> QED
            BY <4>1, <5>2 DEF GetHandler
        <4> QED
          BY <3>3, <4>2, <4>3
      <3>7. Handle(m, path, TRUE) = getRoute(m, path)
        BY DEF Handle
      <3> QED
        BY <3>2, <3>3, <3>4, <3>5, <3>6, <3>7, HandlerGiven
    <2>3. ASSUME NEW m \in Methods, NEW path \in Paths, path \notin DOMAIN fullPathRoutingMap
          PROVE  /\ Handle(m, path, FALSE) = getRoute(m, path)
                 /\ getRoute(m, path) = NoHandler
                    \/ \E p \in Patterns : getRoute(m, path) \in routed[m][p] /\ Matches(p, path)
      <3>1. PICK node : node = FindForRoute(path)
        OBVIOUS
      <3>2. Handle(m, path, FALSE) = getRoute(m, path)
        BY <2>3 DEF Handle
      <3>3. CASE node = NoNode
        BY <2>3, <3>1, <3>2, <3>3 DEF getRoute
      <3>4. CASE node # NoNode
        <4>1. node \in DOMAIN wildcardRoutingTree /\ Matches(node, path)
          BY <2>1, <3>1, <3>4, FoundMatches
        <4>2. PICK h : h = getRoute(m, path)
          OBVIOUS
        <4>3. h = GetHandler(wildcardRoutingTree[node], m)
          BY <2>3, <3>1, <3>4, <4>2 DEF getRoute
        <4>4. PICK given : given = IF HasWildcard(node) THEN Given(node) ELSE NothingGiven
          OBVIOUS
        <4>5. MapSound(wildcardRoutingTree[node], given)
          BY <2>1, <4>1, <4>4 DEF TreeSound, NothingGiven
        <4>6. h = NoHandler \/ h \in given[m]
          BY <4>3, <4>5, HandlerGiven
        <4>7. h \in given[m] => node \in Patterns /\ h \in routed[m][node]
          BY <4>4 DEF Given, NothingGiven
        <4> QED
          BY <3>2, <4>1, <4>2, <4>6, <4>7
      <3> QED
        BY <3>3, <3>4
    <2>4. OnlyMatchingHandlers
      <3> SUFFICES ASSUME NEW m \in Methods, NEW path \in Paths, NEW h, h = Handle(m, path, FALSE),
                          h # NoHandler
                   PROVE  \E p \in Patterns : h \in routed[m][p] /\ Matches(p, path)
        BY DEF OnlyMatchingHandlers
      <3> QED
        BY <2>2, <2>3
    <2>5. FastPathAgrees
      BY <2>2 DEF FastPathAgrees
    <2>6. FullPathWins
      <3> SUFFICES ASSUME NEW m \in Methods, NEW path \in Paths \cap Patterns, routed[m][path] # {}
                   PROVE  getRoute(m, path) \in routed[m][path]
        BY DEF FullPathWins
      <3>1. CASE path \in DOMAIN fullPathRoutingMap
        BY <2>2, <3>1
      <3>2. CASE path \notin DOMAIN fullPathRoutingMap
        <4>1. HasWildcard(path) /\ path \in DOMAIN wildcardRoutingTree
          BY <2>1, <3>2 DEF RoutesPlaced
        <4>2. FindForRoute(path) = path
          BY <2>1, <4>1, SpeltIsFound
        <4>3. path # NoNode
          <5>1. \A i \in DOMAIN NoNode : NoNode[i] \notin Wildcards
            <6>1. DOMAIN NoNode = 1 .. 1 /\ NoNode[1] = "no node"
              BY DEF NoNode
            <6>2. \A i \in 1 .. 1 : i = 1
              OBVIOUS
            <6>3. "no node" \notin Wildcards
              BY DEF Wildcards
            <6> QED
              BY <6>1, <6>2, <6>3
          <5> QED
            BY <4>1, <5>1 DEF HasWildcard
        <4>4. getRoute(m, path) = GetHandler(wildcardRoutingTree[path], m)
          BY <3>2, <4>2, <4>3 DEF getRoute
        <4>5. MapSound(wildcardRoutingTree[path], Given(path))
          BY <2>1, <4>1 DEF TreeSound
        <4>6. Given(path)[m] = routed[m][path]
          BY DEF Given
        <4> QED
          BY <4>4, <4>5, <4>6, HandlerGiven
      <3> QED
        BY <3>1, <3>2
    <2> QED
      BY <2>4, <2>5, <2>6 DEF RightHandler
  <1> QED
    BY <1>1, RoutingInvariant, PTL

-----------------------------------------------------------------------------
(* StringBuilder: the buffer *)

(* A builder that has the text t at the start of its buffer                *)
Holds(b, t) ==
    /\ b = [buffer |-> b.buffer, size |-> b.size]
    /\ b.buffer \in Seq(Characters) /\ t \in Seq(Characters)
    /\ b.size = Len(t) /\ Len(t) <= Len(b.buffer)
    /\ \A i \in 1 .. Len(t) : b.buffer[i] = t[i]

LEMMA UnknownCharacter == "?" \in Characters /\ "a" \in Characters /\ "-" \in Characters
  BY BuilderAssumption

LEMMA GarbageTypes == ASSUME NEW n \in Nat PROVE Garbage(n) \in Seq(Characters) /\ Len(Garbage(n)) = n
  BY UnknownCharacter DEF Garbage

LEMMA ModTypes == ASSUME NEW x \in Int, NEW m \in Nat \ {0} PROVE x % m \in 0 .. m - 1
  OBVIOUS

LEMMA SizeSumTypes ==
    ASSUME NEW x \in Nat, NEW y \in Nat PROVE SizeSum(x, y) \in Nat /\ SizeDifference(x, y) \in Nat
  <1>1. PICK m \in Nat \ {0} : m = SizeMax + 1
    BY BuilderAssumption
  <1>2. (x + y) % m \in 0 .. m - 1 /\ (x - y) % m \in 0 .. m - 1
    BY ModTypes
  <1> QED
    BY <1>1, <1>2 DEF SizeSum, SizeDifference

(* reserve() keeps the text and makes the room that it was asked for.      *)
LEMMA ReserveHolds ==
    ASSUME NEW b, NEW t, Holds(b, t), NEW n \in Nat
    PROVE  Holds(Reserve(b, n), t) /\ n <= Len(Reserve(b, n).buffer)
  <1>1. /\ b.buffer \in Seq(Characters) /\ t \in Seq(Characters) /\ b.size = Len(t)
        /\ Len(t) \in Nat /\ Len(b.buffer) \in Nat
    BY DEF Holds
  <1>2. CASE n <= Len(b.buffer)
    BY <1>2 DEF Reserve
  <1>3. CASE n > Len(b.buffer) /\ b.size = 0
    <2>1. Reserve(b, n) = [buffer |-> Garbage(n), size |-> 0]
      BY <1>1, <1>3 DEF Reserve, Builder
    <2> QED
      BY <1>1, <1>3, <2>1, GarbageTypes DEF Holds
  <1>4. CASE n > Len(b.buffer) /\ b.size # 0
    <2>1. PICK capacity :
            capacity = Larger(Larger(n, SizeSum(Len(b.buffer), Len(b.buffer))), MinCapacityForGrow)
      OBVIOUS
    <2>2. capacity \in Nat /\ n <= capacity
      <3>1. SizeSum(Len(b.buffer), Len(b.buffer)) \in Nat
        BY <1>1, SizeSumTypes
      <3> QED
        BY <2>1, <3>1, BuilderAssumption DEF Larger
    <2>3. PICK f : f = [i \in 1 .. capacity |-> IF i <= b.size THEN View(b)[i] ELSE "?"]
      OBVIOUS
    <2>4. Reserve(b, n) = [buffer |-> f, size |-> b.size]
      <3>1. ~(n <= Len(b.buffer))
        BY <1>1, <1>4
      <3> QED
        BY <1>4, <2>1, <2>3, <3>1 DEF Reserve, Builder
    <2>5. \A i \in 1 .. Len(t) : View(b)[i] = t[i]
      <3>1. \A i \in 1 .. Len(t) : i \in DOMAIN b.buffer /\ b.buffer[i] = t[i]
        BY <1>1 DEF Holds
      <3>2. \A i \in 1 .. Len(t) : i \in 1 .. (b.size - 0) /\ 0 + i = i
        BY <1>1
      <3> QED
        BY <3>1, <3>2 DEF View, ViewFrom
    <2>6. f \in Seq(Characters) /\ Len(f) = capacity
      <3>1. \A i \in 1 .. capacity : f[i] \in Characters
        BY <1>1, <2>2, <2>3, <2>5, UnknownCharacter
      <3>2. f \in [1 .. capacity -> Characters]
        BY <2>3, <3>1
      <3> QED
        BY <2>2, <3>2
    <2>7. Len(t) <= capacity
      BY <1>1, <1>4, <2>2 DEF Holds
    <2>8. \A i \in 1 .. Len(t) : f[i] = t[i]
      BY <1>1, <2>2, <2>3, <2>5, <2>7
    <2> QED
      BY <1>1, <2>2, <2>4, <2>6, <2>7, <2>8 DEF Holds
  <1> QED
    BY <1>1, <1>2, <1>3, <1>4

(* Characters that are written where grow() pointed at, no more of them    *)
(* than it was asked for, come after the text.                             *)
LEMMA WrittenHolds ==
    ASSUME NEW b, NEW t, Holds(b, t), NEW n \in Nat, NEW chars \in Seq(Characters), Len(chars) <= n,
           NEW w, w = WriteAt(Grow(b, n), b.size, chars)
    PROVE  /\ w.size = b.size + n
           /\ Holds([w EXCEPT !.size = b.size + Len(chars)], t \o chars)
  <1>1. /\ t \in Seq(Characters) /\ b.size = Len(t) /\ Len(t) \in Nat /\ Len(chars) \in Nat
        /\ b.size + n \in Nat
    BY DEF Holds
  <1>2. PICK r : r = Reserve(b, b.size + n)
    OBVIOUS
  <1>3. Holds(r, t) /\ b.size + n <= Len(r.buffer)
    BY <1>1, <1>2, ReserveHolds
  <1>4. r.buffer \in Seq(Characters) /\ Len(r.buffer) \in Nat /\ DOMAIN r.buffer = 1 .. Len(r.buffer)
    BY <1>3 DEF Holds
  <1>5. PICK f : f = [i \in DOMAIN r.buffer |-> IF i - b.size \in DOMAIN chars
                                                THEN chars[i - b.size] ELSE r.buffer[i]]
    OBVIOUS
  <1>6. w = [buffer |-> f, size |-> b.size + n]
    <2>1. Grow(b, n) = [buffer |-> r.buffer, size |-> b.size + n]
      BY <1>2, <1>3 DEF Grow, Holds
    <2>2. PICK g : g = [buffer |-> r.buffer, size |-> b.size + n]
      OBVIOUS
    <2>3. w = [g EXCEPT !.buffer = [i \in DOMAIN r.buffer |-> IF i - b.size \in DOMAIN chars
                                        THEN chars[i - b.size] ELSE r.buffer[i]]]
      BY <2>1, <2>2 DEF WriteAt
    <2>4. w = [g EXCEPT !.buffer = f]
      BY <1>5, <2>3
    <2> QED
      BY <2>2, <2>4
  <1>7. f \in Seq(Characters) /\ Len(f) = Len(r.buffer)
    <2>1. \A i \in 1 .. Len(r.buffer) : f[i] \in Characters
      BY <1>1, <1>4, <1>5
    <2>2. f \in [1 .. Len(r.buffer) -> Characters]
      BY <1>4, <1>5, <2>1
    <2> QED
      BY <1>4, <2>2
  <1>8. PICK u : u = t \o chars
    OBVIOUS
  <1>9. /\ u \in Seq(Characters) /\ Len(u) = Len(t) + Len(chars)
        /\ \A i \in 1 .. Len(t) : u[i] = t[i]
        /\ \A i \in 1 .. Len(chars) : u[Len(t) + i] = chars[i]
    BY <1>1, <1>8, ConcatProperties
  <1>10. \A i \in 1 .. Len(u) : f[i] = u[i]
    <2> SUFFICES ASSUME NEW i \in 1 .. Len(u) PROVE f[i] = u[i]
      OBVIOUS
    <2>1. i \in DOMAIN r.buffer /\ DOMAIN chars = 1 .. Len(chars)
      BY <1>1, <1>3, <1>4, <1>9
    <2>2. CASE i <= Len(t)
      <3>1. i - b.size \notin DOMAIN chars
        BY <1>1, <2>1, <2>2
      <3>2. r.buffer[i] = t[i] /\ u[i] = t[i]
        BY <1>1, <1>3, <1>9, <2>2 DEF Holds
      <3> QED
        BY <1>5, <2>1, <3>1, <3>2
    <2>3. CASE i > Len(t)
      <3>1. PICK k \in 1 .. Len(chars) : i = Len(t) + k
        <4>1. i - Len(t) \in 1 .. Len(chars) /\ i = Len(t) + (i - Len(t))
          BY <1>1, <1>9, <2>3
        <4> QED
          BY <4>1
      <3>2. i - b.size = k /\ k \in DOMAIN chars
        BY <1>1, <2>1, <3>1
      <3> QED
        BY <1>5, <1>9, <2>1, <3>1, <3>2
    <2> QED
      BY <1>1, <2>2, <2>3
  <1>11. PICK x : x = [w EXCEPT !.size = b.size + Len(chars)]
    OBVIOUS
  <1>12. x = [buffer |-> f, size |-> Len(u)]
    BY <1>1, <1>6, <1>9, <1>11
  <1>13. Holds(x, u)
    BY <1>1, <1>3, <1>7, <1>9, <1>10, <1>12 DEF Holds
  <1> QED
    BY <1>6, <1>8, <1>11, <1>13

LEMMA AppendHolds ==
    ASSUME NEW b, NEW t, Holds(b, t), NEW chars \in Seq(Characters)
    PROVE  Holds(AppendChars(b, chars), t \o chars)
  <1>1. CASE chars = <<>>
    <2>1. t \o chars = t
      BY <1>1, ConcatEmptySeq DEF Holds
    <2> QED
      BY <1>1, <2>1 DEF AppendChars
  <1>2. CASE chars # <<>>
    <2>1. PICK w : w = WriteAt(Grow(b, Len(chars)), b.size, chars)
      OBVIOUS
    <2>2. Len(chars) \in Nat
      OBVIOUS
    <2>3. /\ w.size = b.size + Len(chars)
          /\ Holds([w EXCEPT !.size = b.size + Len(chars)], t \o chars)
      BY <2>1, <2>2, WrittenHolds
    <2>4. [w EXCEPT !.size = b.size + Len(chars)] = w
      BY <2>1, <2>3 DEF WriteAt, Grow, Reserve, Builder, Holds
    <2>5. AppendChars(b, chars) = w
      BY <1>2, <2>1 DEF AppendChars
    <2> QED
      BY <2>3, <2>4, <2>5
  <1> QED
    BY <1>1, <1>2

-----------------------------------------------------------------------------
(* StringBuilder: what a stream yields *)

(* Builders that have some text                                            *)
Builders == {b \in [buffer : Seq(Characters), size : Nat] : \E t \in Seq(Characters) : Holds(b, t)}

LEMMA HoldsTypes ==
    ASSUME NEW b, NEW t, Holds(b, t)
    PROVE  b \in Builders /\ t \in Seq(Characters)
  <1>1. t \in Seq(Characters) /\ Len(t) \in Nat /\ b.size = Len(t)
    BY DEF Holds
  <1>2. b \in [buffer : Seq(Characters), size : Nat]
    BY <1>1 DEF Holds
  <1> QED
    BY <1>1, <1>2 DEF Builders

(* What is appended part after part is appended in all.                    *)
LEMMA CollectedHolds ==
    ASSUME NEW b, NEW t, Holds(b, t), NEW parts \in Seq(Seq(Characters))
    PROVE  Holds(Collected(b, parts), t \o FlattenSeq(parts))
  <1>1. PICK n \in Nat : n = Len(parts)
    OBVIOUS
  <1>2. \A i \in 1 .. n : parts[i] \in Seq(Characters)
    BY <1>1
  <1>3. PICK S : S = Builders
    OBVIOUS
  <1>4. PICK step : step = [x \in S \X (1 .. n) |-> AppendChars(x[1], parts[x[2]])]
    OBVIOUS
  <1>5. step \in [S \X (1 .. n) -> S]
    <2>1. ASSUME NEW v \in S, NEW i \in 1 .. n PROVE AppendChars(v, parts[i]) \in S
      <3>1. PICK u \in Seq(Characters) : Holds(v, u)
        BY <1>3 DEF Builders
      <3> QED
        BY <1>2, <1>3, <3>1, AppendHolds, HoldsTypes
    <2> QED
      BY <1>4, <2>1
  <1>6. PICK f : Iterates(f, n, S, b, step)
    <2>1. b \in S
      BY <1>3, HoldsTypes
    <2> QED
      BY <1>5, <2>1, Iteration
  <1>7. ASSUME NEW i \in 1 .. n PROVE f[i] = AppendChars(f[i - 1], parts[i])
    <2>1. <<f[i - 1], i>> \in S \X (1 .. n)
      BY <1>6 DEF Iterates
    <2>2. step[<<f[i - 1], i>>] = AppendChars(f[i - 1], parts[i])
      BY <1>4, <2>1
    <2> QED
      BY <1>6, <2>2 DEF Iterates
  <1> DEFINE Recurs(g) == g = [i \in 0 .. Len(parts) |->
                IF i = 0 THEN b ELSE AppendChars(g[i - 1], parts[i])]
  <1>8. Recurs(f)
    BY <1>1, <1>6, <1>7 DEF Iterates
  <1>9. PICK g : g = CHOOSE x : Recurs(x)
    OBVIOUS
  <1>10. Recurs(g)
    <2> HIDE DEF Recurs
    <2> QED
      BY <1>8, <1>9
  <1>11. Collected(b, parts) = g[n]
    BY <1>1, <1>9 DEF Collected
  <1>12. PICK joined : /\ joined \in [0 .. n -> Seq(Characters)] /\ Joins(joined, parts)
                       /\ FlattenSeq(parts) = joined[n]
    BY <1>1, FlattenJoins
  <1> DEFINE HeldAt(i) == Holds(g[i], t \o joined[i])
  <1>20. \A i \in 0 .. n : g[i] = IF i = 0 THEN b ELSE AppendChars(g[i - 1], parts[i])
    BY <1>1, <1>10
  <1>21. \A i \in 1 .. n : joined[i] = joined[i - 1] \o parts[i]
    BY <1>1, <1>12 DEF Joins
  <1>13. PICK T : T = {i \in 0 .. n : HeldAt(i)}
    OBVIOUS
  <1>14. 0 \in T
    <2>1. g[0] = b /\ joined[0] = <<>>
      BY <1>12, <1>20 DEF Joins
    <2>2. t \o <<>> = t
      BY ConcatEmptySeq DEF Holds
    <2>3. HeldAt(0)
      BY <2>1, <2>2
    <2> HIDE DEF HeldAt
    <2> QED
      BY <1>13, <2>3
  <1>15. ASSUME NEW i \in 1 .. n, i - 1 \in T PROVE i \in T
    <2>1. g[i] = AppendChars(g[i - 1], parts[i])
      BY <1>20
    <2>2. joined[i] = joined[i - 1] \o parts[i] /\ joined[i - 1] \in Seq(Characters)
      <3>1. i - 1 \in 0 .. n
        OBVIOUS
      <3> QED
        BY <1>12, <1>21, <3>1
    <2>3. Holds(g[i - 1], t \o joined[i - 1])
      BY <1>13, <1>15
    <2>4. Holds(g[i], (t \o joined[i - 1]) \o parts[i])
      BY <1>2, <2>1, <2>3, AppendHolds
    <2>5. (t \o joined[i - 1]) \o parts[i] = t \o joined[i]
      <3>1. t \in Seq(Characters)
        BY DEF Holds
      <3> QED
        <4>1. PICK u \in Seq(Characters), v \in Seq(Characters) : u = joined[i - 1] /\ v = parts[i]
          BY <1>2, <2>2
        <4>2. (t \o u) \o v = t \o (u \o v)
          BY <3>1, ConcatAssociative
        <4> QED
          BY <2>2, <4>1, <4>2
    <2>6. HeldAt(i)
      BY <2>4, <2>5
    <2> QED
      BY <1>13, <2>6
  <1>16. 0 .. n \subseteq T
    BY <1>14, <1>15, UpTo
  <1>17. n \in T
    BY <1>16
  <1> QED
    BY <1>11, <1>12, <1>13, <1>17

-----------------------------------------------------------------------------
(* StringBuilder: integers *)

Representable == IntMin .. IntMax
DigitCharacters == {DecimalDigits[d] : d \in 1 .. 10}
Magnitude(n) == IF n >= 0 THEN n ELSE -n
LastDigit(m) == DecimalDigits[(m % 10) + 1]

LEMMA DigitsDiffer ==
    /\ \A d \in 0 .. 9 : DecimalDigits[d + 1] \in DigitCharacters
    /\ \A d, e \in 0 .. 9 : DecimalDigits[d + 1] = DecimalDigits[e + 1] => d = e
    /\ "-" \notin DigitCharacters /\ DigitCharacters \subseteq Characters
    /\ Len(DecimalDigits) = 10
  <1>1. /\ DecimalDigits[1] = "0" /\ DecimalDigits[2] = "1" /\ DecimalDigits[3] = "2"
        /\ DecimalDigits[4] = "3" /\ DecimalDigits[5] = "4" /\ DecimalDigits[6] = "5"
        /\ DecimalDigits[7] = "6" /\ DecimalDigits[8] = "7" /\ DecimalDigits[9] = "8"
        /\ DecimalDigits[10] = "9" /\ Len(DecimalDigits) = 10
    BY DEF DecimalDigits
  <1>2. \A d \in 1 .. 10 : DecimalDigits[d] \in DigitCharacters
    BY DEF DigitCharacters
  <1>3. \A d \in 0 .. 9 : d + 1 \in 1 .. 10
    OBVIOUS
  <1>4. ASSUME NEW d \in 0 .. 9, NEW e \in 0 .. 9, DecimalDigits[d + 1] = DecimalDigits[e + 1]
        PROVE  d = e
    BY <1>1, <1>4
  <1>5. ASSUME "-" \in DigitCharacters PROVE FALSE
    <2>1. PICK d \in 1 .. 10 : DecimalDigits[d] = "-"
      BY <1>5 DEF DigitCharacters
    <2> QED
      BY <1>1, <2>1
  <1>6. DigitCharacters \subseteq Characters
    BY BuilderAssumption DEF DigitCharacters
  <1> QED
    BY <1>1, <1>2, <1>3, <1>4, <1>5, <1>6

LEMMA WrappedValue ==
    /\ \A x \in Int : Wrapped(x) \in Representable
    /\ \A x \in Representable : Wrapped(x) = x
    /\ Wrapped(IntMax + 1) = IntMin
  <1>1. PICK max \in Nat \ {0} : max = IntMax
    BY BuilderAssumption
  <1>2. PICK m \in Nat \ {0} : m = 2 * (max + 1)
    OBVIOUS
  <1>3. IntMin = -max - 1 /\ IntMin \in Int
    BY <1>1 DEF IntMin
  <1>4. \A x \in Int : Wrapped(x) = ((x - IntMin) % m) + IntMin
    BY <1>1, <1>2 DEF Wrapped
  <1>5. \A x \in Int : (x - IntMin) % m \in 0 .. m - 1
    BY <1>3, ModTypes
  <1>6. \A y \in 0 .. m - 1 : y % m = y
    OBVIOUS
  <1>7. m % m = 0
    OBVIOUS
  <1>8. ASSUME NEW x \in Int PROVE Wrapped(x) \in Representable
    BY <1>1, <1>2, <1>3, <1>4, <1>5 DEF Representable
  <1>9. ASSUME NEW x \in Representable PROVE Wrapped(x) = x
    <2>1. x \in Int /\ x - IntMin \in 0 .. m - 1
      BY <1>1, <1>2, <1>3 DEF Representable
    <2>2. (x - IntMin) % m = x - IntMin
      BY <1>6, <2>1
    <2>3. Wrapped(x) = ((x - IntMin) % m) + IntMin
      BY <1>4, <2>1
    <2> QED
      BY <1>3, <2>1, <2>2, <2>3
  <1>10. Wrapped(IntMax + 1) = IntMin
    <2>1. IntMax + 1 \in Int /\ (IntMax + 1) - IntMin = m
      BY <1>1, <1>2, <1>3
    <2>2. Wrapped(IntMax + 1) = (((IntMax + 1) - IntMin) % m) + IntMin
      BY <1>4, <2>1
    <2>3. Wrapped(IntMax + 1) = (m % m) + IntMin
      BY <2>1, <2>2
    <2> QED
      BY <1>3, <1>7, <2>3
  <1> QED
    BY <1>8, <1>9, <1>10

LEMMA Truncation ==
    ASSUME NEW n \in Representable
    PROVE  /\ Magnitude(n) \in 0 .. IntMax + 1
           /\ Quotient(n) \in Representable /\ Magnitude(Quotient(n)) = Magnitude(n) \div 10
           /\ Digit(n) = LastDigit(Magnitude(n))
           /\ Quotient(n) = 0 <=> Magnitude(n) < 10
  <1>1. PICK max \in Nat \ {0} : max = IntMax
    BY BuilderAssumption
  <1>2. IntMin = -max - 1 /\ n \in Int /\ -max - 1 <= n /\ n <= max
    BY <1>1 DEF IntMin, Representable
  <1>3. PICK m \in Nat : m = Magnitude(n) /\ m <= max + 1
    BY <1>2 DEF Magnitude
  <1>4. /\ m \div 10 \in 0 .. m /\ m % 10 \in 0 .. 9
        /\ m \div 10 = 0 <=> m < 10
        /\ m > 0 => m \div 10 < m
    OBVIOUS
  <1>5. CASE n >= 0
    <2>1. Quotient(n) = m \div 10 /\ Rest(n) = m % 10 /\ m = n
      BY <1>3, <1>5 DEF Quotient, Rest, Magnitude
    <2> QED
      BY <1>1, <1>2, <1>3, <1>4, <2>1 DEF Magnitude, Digit, LastDigit, Representable
  <1>6. CASE n < 0
    <2>1. Quotient(n) = -(m \div 10) /\ Rest(n) = -(m % 10) /\ m = -n
      BY <1>2, <1>3, <1>6 DEF Quotient, Rest, Magnitude
    <2>2. Quotient(n) \in Representable /\ Magnitude(Quotient(n)) = m \div 10
      BY <1>1, <1>2, <1>4, <2>1 DEF Magnitude, Representable
    <2>3. Digit(n) = LastDigit(m)
      <3>1. (IF Rest(n) >= 0 THEN Rest(n) ELSE -Rest(n)) = m % 10
        BY <1>4, <2>1
      <3> QED
        BY <3>1 DEF Digit, LastDigit
    <2> QED
      BY <1>1, <1>3, <1>4, <2>1, <2>2, <2>3
  <1> QED
    BY <1>2, <1>5, <1>6

(* The digits of a magnitude, the last one first                           *)
GivesDigits(d) ==
    /\ d \in [0 .. IntMax + 1 -> Seq(DigitCharacters)]
    /\ \A m \in 0 .. IntMax + 1 :
         d[m] = IF m < 10 THEN <<LastDigit(m)>> ELSE <<LastDigit(m)>> \o d[m \div 10]
    /\ \A n \in Representable : DigitsFrom[n] = d[Magnitude(n)]

LEMMA LastDigitTypes == \A m \in Nat : LastDigit(m) \in DigitCharacters
  <1>1. \A m \in Nat : m % 10 \in 0 .. 9
    OBVIOUS
  <1> QED
    BY <1>1, DigitsDiffer DEF LastDigit

LEMMA DigitsExist == \E d : GivesDigits(d)
  <1>1. PICK N \in Nat \ {0} : N = IntMax + 1
    BY BuilderAssumption
  <1>2. PICK S : S = Seq(DigitCharacters)
    OBVIOUS
  <1>3. PICK before : before = [m \in 1 .. N |-> m \div 10]
    OBVIOUS
  <1>4. before \in [1 .. N -> Nat] /\ \A m \in 1 .. N : before[m] < m
    <2>1. \A m \in 1 .. N : m \div 10 \in Nat /\ m \div 10 < m
      OBVIOUS
    <2> QED
      BY <1>3, <2>1
  <1>5. PICK step : step = [x \in S \X (1 .. N) |->
                              IF x[2] < 10 THEN <<LastDigit(x[2])>> ELSE <<LastDigit(x[2])>> \o x[1]]
    OBVIOUS
  <1>6. \A m \in Nat : <<LastDigit(m)>> \in S
    <2> SUFFICES ASSUME NEW m \in Nat PROVE <<LastDigit(m)>> \in S
      OBVIOUS
    <2>1. PICK c \in DigitCharacters : c = LastDigit(m)
      BY LastDigitTypes
    <2>2. <<c>> \in Seq(DigitCharacters)
      OBVIOUS
    <2> QED
      BY <1>2, <2>1, <2>2
  <1>7. step \in [S \X (1 .. N) -> S]
    <2>1. ASSUME NEW v \in S, NEW m \in 1 .. N PROVE <<LastDigit(m)>> \o v \in S
      <3>1. PICK s \in S : s = <<LastDigit(m)>>
        <4>1. m \in Nat
          OBVIOUS
        <4>2. <<LastDigit(m)>> \in S
          BY <1>6, <4>1
        <4> QED
          BY <4>2
      <3> QED
        BY <1>2, <3>1, ConcatProperties
    <2>2. ASSUME NEW x \in S \X (1 .. N)
          PROVE  (IF x[2] < 10 THEN <<LastDigit(x[2])>> ELSE <<LastDigit(x[2])>> \o x[1]) \in S
      <3>1. x[1] \in S /\ x[2] \in 1 .. N
        OBVIOUS
      <3> QED
        BY <1>6, <2>1, <3>1
    <2> QED
      BY <1>5, <2>2
  <1>8. PICK f : Computes(f, N, S, <<LastDigit(0)>>, before, step)
    <2>1. <<LastDigit(0)>> \in S
      BY <1>6
    <2> QED
      BY <1>4, <1>7, <2>1, Recursion
  <1>9. ASSUME NEW m \in 0 .. N
        PROVE  f[m] = IF m < 10 THEN <<LastDigit(m)>> ELSE <<LastDigit(m)>> \o f[m \div 10]
    <2>1. CASE m = 0
      BY <1>8, <2>1 DEF Computes
    <2>2. CASE m # 0
      <3>1. PICK k : k = m \div 10
        OBVIOUS
      <3>2. m \in 1 .. N /\ before[m] = k /\ k \in 0 .. N
        BY <1>3, <2>2, <3>1
      <3>3. <<f[k], m>> \in S \X (1 .. N)
        BY <1>8, <3>2 DEF Computes
      <3>4. step[<<f[k], m>>] = IF m < 10 THEN <<LastDigit(m)>> ELSE <<LastDigit(m)>> \o f[k]
        BY <1>5, <3>3
      <3>5. f[m] = step[<<f[k], m>>]
        BY <1>8, <3>2 DEF Computes
      <3> QED
        BY <3>1, <3>4, <3>5
    <2> QED
      BY <2>1, <2>2
  <1> DEFINE Recurs(g) == g = [n \in IntMin .. IntMax |->
                IF Quotient(n) = 0 THEN <<Digit(n)>> ELSE <<Digit(n)>> \o g[Quotient(n)]]
  <1>10. PICK h : h = [n \in IntMin .. IntMax |-> f[Magnitude(n)]]
    OBVIOUS
  <1>11. Recurs(h)
    <2>1. ASSUME NEW n \in IntMin .. IntMax
          PROVE  h[n] = IF Quotient(n) = 0 THEN <<Digit(n)>> ELSE <<Digit(n)>> \o h[Quotient(n)]
      <3>1. PICK m : m = Magnitude(n)
        OBVIOUS
      <3>2. /\ m \in 0 .. N /\ Digit(n) = LastDigit(m) /\ (Quotient(n) = 0 <=> m < 10)
            /\ Quotient(n) \in IntMin .. IntMax /\ Magnitude(Quotient(n)) = m \div 10
        BY <1>1, <3>1, Truncation DEF Representable
      <3>3. h[n] = f[m] /\ h[Quotient(n)] = f[m \div 10]
        BY <1>10, <3>1, <3>2
      <3> QED
        BY <1>9, <3>2, <3>3
    <2> QED
      BY <1>10, <2>1
  <1>12. PICK g : g = DigitsFrom
    OBVIOUS
  <1>13. Recurs(g)
    <2>1. g = CHOOSE x : Recurs(x)
      BY <1>12 DEF DigitsFrom
    <2> HIDE DEF Recurs
    <2> QED
      BY <1>11, <2>1
  <1>14. ASSUME NEW n \in Representable PROVE g[n] = f[Magnitude(n)]
    <2>1. PICK Bad : Bad = {m \in 0 .. N : \E k \in Representable : Magnitude(k) = m /\ g[k] # f[m]}
      OBVIOUS
    <2>2. ASSUME Bad # {} PROVE FALSE
      <3>1. PICK m \in Bad : \A y \in Bad : m <= y
        BY <2>1, <2>2, Smallest
      <3>2. PICK k \in Representable : Magnitude(k) = m /\ g[k] # f[m]
        BY <2>1, <3>1
      <3>3. /\ m \in 0 .. N /\ Digit(k) = LastDigit(m) /\ (Quotient(k) = 0 <=> m < 10)
            /\ Quotient(k) \in Representable /\ Magnitude(Quotient(k)) = m \div 10
        BY <1>1, <3>2, Truncation
      <3>4. g[k] = IF Quotient(k) = 0 THEN <<Digit(k)>> ELSE <<Digit(k)>> \o g[Quotient(k)]
        BY <1>13 DEF Representable
      <3>5. m >= 10 => g[Quotient(k)] = f[m \div 10]
        <4>1. m >= 10 => m \div 10 \in 0 .. N /\ m \div 10 \notin Bad
          BY <3>1, <3>3
        <4> QED
          BY <2>1, <3>3, <4>1
      <3> QED
        BY <1>9, <3>2, <3>3, <3>4, <3>5
    <2>3. Magnitude(n) \in 0 .. N
      BY <1>1, Truncation
    <2> QED
      BY <2>1, <2>2, <2>3
  <1>15. f \in [0 .. N -> S]
    BY <1>8 DEF Computes
  <1>16. GivesDigits(f)
    BY <1>1, <1>2, <1>9, <1>12, <1>14, <1>15 DEF GivesDigits
  <1> QED
    BY <1>16

LEMMA DigitsLonger ==
    ASSUME NEW d, GivesDigits(d), NEW m \in 0 .. IntMax + 1
    PROVE  /\ d[m] \in Seq(DigitCharacters) /\ Len(d[m]) \in Nat \ {0}
           /\ m < 10 => Len(d[m]) = 1
           /\ m >= 10 => m \div 10 \in 0 .. IntMax /\ m \div 10 < m
                         /\ Len(d[m]) = 1 + Len(d[m \div 10])
  <1>1. PICK max \in Nat \ {0} : max = IntMax
    BY BuilderAssumption
  <1>2. m >= 10 => m \div 10 \in 0 .. IntMax /\ m \div 10 < m
    BY <1>1
  <1>3. d[m] \in Seq(DigitCharacters)
    BY DEF GivesDigits
  <1>4. PICK c \in DigitCharacters : c = LastDigit(m)
    BY <1>1, LastDigitTypes
  <1>5. <<c>> \in Seq(DigitCharacters) /\ Len(<<c>>) = 1
    OBVIOUS
  <1>6. CASE m < 10
    <2>1. d[m] = <<c>>
      BY <1>4, <1>6 DEF GivesDigits
    <2> QED
      BY <1>1, <1>5, <1>6, <2>1
  <1>7. CASE m >= 10
    <2>1. PICK k \in 0 .. IntMax : k = m \div 10
      BY <1>2, <1>7
    <2>2. d[m] = <<c>> \o d[k]
      <3>1. m \in 0 .. IntMax + 1 /\ ~(m < 10)
        BY <1>1, <1>7
      <3>2. d[m] = <<LastDigit(m)>> \o d[m \div 10]
        BY <3>1 DEF GivesDigits
      <3> QED
        BY <1>4, <2>1, <3>2
    <2>3. d[k] \in Seq(DigitCharacters) /\ Len(d[k]) \in Nat
      BY <1>1, <2>1 DEF GivesDigits
    <2>4. Len(d[m]) = 1 + Len(d[k])
      BY <1>5, <2>2, <2>3, ConcatProperties
    <2> QED
      BY <1>1, <1>2, <1>3, <1>7, <2>1, <2>3, <2>4
  <1> QED
    BY <1>1, <1>6, <1>7

LEMMA DigitsOfMaxCounts ==
    \A b \in 0 .. IntMax : /\ DigitsOfMax[b] \in Nat \ {0}
                           /\ b >= 10 => DigitsOfMax[b] = 1 + DigitsOfMax[b \div 10]
  <1>1. PICK N \in Nat : N = IntMax
    BY BuilderAssumption
  <1>2. PICK before : before = [b \in 1 .. N |-> b \div 10]
    OBVIOUS
  <1>3. before \in [1 .. N -> Nat] /\ \A b \in 1 .. N : before[b] < b
    <2>1. \A b \in 1 .. N : b \div 10 \in Nat /\ b \div 10 < b
      OBVIOUS
    <2> QED
      BY <1>2, <2>1
  <1>4. PICK S : S = Nat \ {0}
    OBVIOUS
  <1>5. PICK step : step = [x \in S \X (1 .. N) |-> IF x[2] >= 10 THEN 1 + x[1] ELSE 1]
    OBVIOUS
  <1>6. step \in [S \X (1 .. N) -> S]
    BY <1>4, <1>5
  <1>7. PICK f : Computes(f, N, S, 1, before, step)
    <2>1. 1 \in S
      BY <1>4
    <2> QED
      BY <1>3, <1>6, <2>1, Recursion
  <1>8. ASSUME NEW b \in 0 .. N
        PROVE  f[b] = IF b >= 10 THEN 1 + f[b \div 10] ELSE 1
    <2>1. CASE b = 0
      BY <1>7, <2>1 DEF Computes
    <2>2. CASE b # 0
      <3>1. PICK k : k = b \div 10
        OBVIOUS
      <3>2. b \in 1 .. N /\ before[b] = k /\ k \in 0 .. N
        BY <1>2, <2>2, <3>1
      <3>3. <<f[k], b>> \in S \X (1 .. N)
        BY <1>7, <3>2 DEF Computes
      <3>4. step[<<f[k], b>>] = IF b >= 10 THEN 1 + f[k] ELSE 1
        BY <1>5, <3>3
      <3>5. f[b] = step[<<f[k], b>>]
        BY <1>7, <3>2 DEF Computes
      <3> QED
        BY <3>1, <3>4, <3>5
    <2> QED
      BY <2>1, <2>2
  <1> DEFINE Recurs(g) == g = [max \in 0 .. IntMax |-> IF max >= 10 THEN 1 + g[max \div 10] ELSE 1]
  <1>9. Recurs(f)
    BY <1>1, <1>7, <1>8 DEF Computes
  <1>10. PICK g : g = DigitsOfMax
    OBVIOUS
  <1>11. Recurs(g)
    <2>1. g = CHOOSE x : Recurs(x)
      BY <1>10 DEF DigitsOfMax
    <2> HIDE DEF Recurs
    <2> QED
      BY <1>9, <2>1
  <1>12. \A b \in 0 .. N : g[b] = IF b >= 10 THEN 1 + g[b \div 10] ELSE 1
    BY <1>1, <1>11
  <1>13. PICK Bad : Bad = {b \in 0 .. N : g[b] \notin Nat \ {0}}
    OBVIOUS
  <1>14. ASSUME Bad # {} PROVE FALSE
    <2>1. PICK b \in Bad : \A y \in Bad : b <= y
      BY <1>13, <1>14, Smallest
    <2>2. b >= 10 => b \div 10 \in 0 .. N /\ b \div 10 \notin Bad
      BY <1>13, <2>1
    <2> QED
      BY <1>12, <1>13, <2>1, <2>2
  <1> QED
    BY <1>1, <1>10, <1>12, <1>13, <1>14

(* getMaxStringSize() is enough for every integer: for the smallest one    *)
(* too, whose magnitude the type does not have.                            *)
LEMMA DigitsFit ==
    ASSUME NEW d, GivesDigits(d), NEW m \in 0 .. IntMax + 1
    PROVE  Len(d[m]) <= DigitsOfMax[IntMax]
  <1>1. PICK max \in Nat \ {0} : max = IntMax /\ max % 10 # 9
    BY BuilderAssumption
  <1>2. ASSUME NEW b \in 0 .. max PROVE \A a \in 0 .. b : Len(d[a]) <= DigitsOfMax[b]
    <2>1. PICK Bad : Bad = {x \in 0 .. max : \E a \in 0 .. x : ~(Len(d[a]) <= DigitsOfMax[x])}
      OBVIOUS
    <2>2. ASSUME Bad # {} PROVE FALSE
      <3>0. Bad \in SUBSET Nat
        BY <2>1
      <3>1. PICK x \in Bad : \A y \in Bad : x <= y
        BY <2>2, <3>0, Smallest
      <3>2. PICK a \in 0 .. x : ~(Len(d[a]) <= DigitsOfMax[x])
        BY <2>1, <3>1
      <3>3. x \in 0 .. IntMax /\ a \in 0 .. IntMax + 1 /\ DigitsOfMax[x] \in Nat \ {0}
        BY <1>1, <2>1, <3>1, DigitsOfMaxCounts
      <3>4. a >= 10
        <4>1. CASE a < 10
          <5>1. Len(d[a]) = 1
            BY <3>3, <4>1, DigitsLonger
          <5> QED
            BY <3>2, <3>3, <5>1
        <4> QED
          BY <3>3, <4>1
      <3>5. /\ Len(d[a]) = 1 + Len(d[a \div 10]) /\ Len(d[a \div 10]) \in Nat
            /\ DigitsOfMax[x] = 1 + DigitsOfMax[x \div 10]
        <4>1. a \div 10 \in 0 .. IntMax + 1 /\ x >= 10
          BY <1>1, <3>3, <3>4
        <4> QED
          BY <3>3, <3>4, <4>1, DigitsLonger, DigitsOfMaxCounts
      <3>6. /\ x \div 10 \in 0 .. max /\ x \div 10 < x /\ a \div 10 \in 0 .. x \div 10
        BY <1>1, <3>3, <3>4
      <3>7. Len(d[a \div 10]) <= DigitsOfMax[x \div 10]
        BY <2>1, <3>1, <3>6
      <3>8. DigitsOfMax[x \div 10] \in Nat
        BY <1>1, <3>6, DigitsOfMaxCounts
      <3> QED
        BY <3>2, <3>5, <3>7, <3>8
    <2> QED
      BY <2>1, <2>2
  <1>3. CASE m <= max
    BY <1>1, <1>2, <1>3
  <1>4. CASE m = max + 1 /\ m < 10
    <2>1. Len(d[m]) = 1 /\ DigitsOfMax[IntMax] \in Nat \ {0}
      BY <1>1, <1>4, DigitsLonger, DigitsOfMaxCounts
    <2> QED
      BY <2>1
  <1>5. CASE m = max + 1 /\ m >= 10
    <2>1. max >= 10 /\ m \div 10 = max \div 10 /\ max \div 10 \in 0 .. max
      BY <1>1, <1>5
    <2>2. Len(d[max \div 10]) <= DigitsOfMax[max \div 10]
      BY <1>2, <2>1
    <2>3. Len(d[m]) = 1 + Len(d[m \div 10]) /\ Len(d[m \div 10]) \in Nat
      BY <1>1, <1>5, <2>1, DigitsLonger
    <2>4. DigitsOfMax[IntMax] = 1 + DigitsOfMax[max \div 10] /\ DigitsOfMax[max \div 10] \in Nat
      BY <1>1, <2>1, DigitsOfMaxCounts
    <2> QED
      BY <2>1, <2>2, <2>3, <2>4
  <1> QED
    BY <1>1, <1>3, <1>4, <1>5

(* loadIntFromDec(), digit after digit                                     *)
DigitValue(c) == CHOOSE d \in 0 .. 9 : DecimalDigits[d + 1] = c

LEMMA DigitValues ==
    /\ \A d \in 0 .. 9 : DigitValue(DecimalDigits[d + 1]) = d
    /\ \A c \in DigitCharacters : DigitValue(c) \in 0 .. 9
  <1>1. ASSUME NEW d \in 0 .. 9 PROVE DigitValue(DecimalDigits[d + 1]) = d
    BY DigitsDiffer DEF DigitValue
  <1>2. ASSUME NEW c \in DigitCharacters PROVE DigitValue(c) \in 0 .. 9
    <2>1. PICK e \in 1 .. 10 : c = DecimalDigits[e]
      BY DEF DigitCharacters
    <2>2. PICK d \in 0 .. 9 : e = d + 1
      <3>1. e - 1 \in 0 .. 9 /\ e = (e - 1) + 1
        OBVIOUS
      <3> QED
        BY <3>1
    <2> QED
      BY <1>1, <2>1, <2>2
  <1> QED
    BY <1>1, <1>2

Reads(value, s) ==
    /\ value[0] = 0 /\ \A i \in 0 .. Len(s) : value[i] \in Representable
    /\ \A i \in 1 .. Len(s) : value[i] = Wrapped(value[i - 1] * 10 + DigitValue(s[i]))

LEMMA ValueByDigits ==
    ASSUME NEW s \in Seq(DigitCharacters)
    PROVE  \E value : Reads(value, s) /\ ValueOf(s) = value[Len(s)]
  <1>1. PICK n \in Nat : n = Len(s)
    OBVIOUS
  <1>2. \A i \in 1 .. n : s[i] \in DigitCharacters
    BY <1>1
  <1>3. Representable \subseteq Int /\ 0 \in Representable
    BY BuilderAssumption DEF Representable, IntMin
  <1>4. PICK step : step = [x \in Representable \X (1 .. n) |-> Wrapped(x[1] * 10 + DigitValue(s[x[2]]))]
    OBVIOUS
  <1>5. ASSUME NEW v \in Representable, NEW i \in 1 .. n
        PROVE  Wrapped(v * 10 + DigitValue(s[i])) \in Representable
    <2>1. v * 10 + DigitValue(s[i]) \in Int
      <3>1. PICK e \in 0 .. 9 : e = DigitValue(s[i])
        BY <1>2, DigitValues
      <3>2. PICK x \in Int : x = v
        BY <1>3
      <3>3. x * 10 + e \in Int
        OBVIOUS
      <3> QED
        BY <3>1, <3>2, <3>3
    <2> QED
      BY <2>1, WrappedValue
  <1>6. step \in [Representable \X (1 .. n) -> Representable]
    BY <1>4, <1>5
  <1>7. PICK f : Iterates(f, n, Representable, 0, step)
    BY <1>3, <1>6, Iteration
  <1>8. ASSUME NEW i \in 1 .. n PROVE f[i] = Wrapped(f[i - 1] * 10 + DigitValue(s[i]))
    <2>1. <<f[i - 1], i>> \in Representable \X (1 .. n)
      BY <1>7 DEF Iterates
    <2>2. step[<<f[i - 1], i>>] = Wrapped(f[i - 1] * 10 + DigitValue(s[i]))
      BY <1>4, <2>1
    <2> QED
      BY <1>7, <2>2 DEF Iterates
  <1> DEFINE Recurs(g) == g = [i \in 0 .. Len(s) |->
                IF i = 0 THEN 0
                ELSE Wrapped(g[i - 1] * 10 + (CHOOSE d \in 0 .. 9 : DecimalDigits[d + 1] = s[i]))]
  <1>9. Recurs(f)
    <2>1. \A i \in 0 .. n : f[i] = IF i = 0 THEN 0 ELSE Wrapped(f[i - 1] * 10 + DigitValue(s[i]))
      BY <1>7, <1>8 DEF Iterates
    <2> QED
      BY <1>1, <1>7, <2>1 DEF DigitValue, Iterates
  <1>10. PICK g : g = CHOOSE x : Recurs(x)
    OBVIOUS
  <1>11. Recurs(g)
    <2> HIDE DEF Recurs
    <2> QED
      BY <1>9, <1>10
  <1>12. ValueOf(s) = g[n]
    BY <1>1, <1>10 DEF ValueOf
  <1>13. /\ g[0] = 0
         /\ \A i \in 1 .. n : g[i] = Wrapped(g[i - 1] * 10 + DigitValue(s[i]))
    BY <1>1, <1>11 DEF DigitValue
  <1>14. \A i \in 0 .. n : g[i] \in Representable
    <2>1. g[0] \in Representable /\ \A i \in 1 .. n : g[i - 1] \in Representable => g[i] \in Representable
      BY <1>3, <1>5, <1>13
    <2> QED
      BY <2>1, KeptUpTo
  <1>15. Reads(g, s)
    BY <1>1, <1>13, <1>14 DEF Reads
  <1> QED
    BY <1>1, <1>12, <1>15

(* One more digit *)
LEMMA ValueAppended ==
    ASSUME NEW s \in Seq(DigitCharacters), NEW c \in DigitCharacters
    PROVE  /\ ValueOf(s) \in Representable
           /\ ValueOf(Append(s, c)) = Wrapped(ValueOf(s) * 10 + DigitValue(c))
  <1>1. PICK n \in Nat : n = Len(s)
    OBVIOUS
  <1>2. PICK u \in Seq(DigitCharacters) : u = Append(s, c)
    BY AppendProperties
  <1>3. Len(u) = n + 1 /\ u[n + 1] = c /\ \A i \in 1 .. n : u[i] = s[i]
    BY <1>1, <1>2, AppendProperties
  <1>4. PICK f : Reads(f, s) /\ ValueOf(s) = f[n]
    BY <1>1, ValueByDigits
  <1>5. PICK g : Reads(g, u) /\ ValueOf(u) = g[n + 1]
    BY <1>3, ValueByDigits
  <1>6. PICK T : T = {i \in 0 .. n : g[i] = f[i]}
    OBVIOUS
  <1>7. 0 \in T
    BY <1>4, <1>5, <1>6 DEF Reads
  <1>8. ASSUME NEW i \in 1 .. n, i - 1 \in T PROVE i \in T
    <2>1. i \in 1 .. n + 1
      OBVIOUS
    <2>2. f[i] = Wrapped(f[i - 1] * 10 + DigitValue(s[i]))
      BY <1>1, <1>4 DEF Reads
    <2>3. g[i] = Wrapped(g[i - 1] * 10 + DigitValue(u[i]))
      BY <1>3, <1>5, <2>1 DEF Reads
    <2>4. g[i - 1] = f[i - 1] /\ u[i] = s[i]
      BY <1>3, <1>6, <1>8
    <2> QED
      BY <1>6, <2>2, <2>3, <2>4
  <1>9. 0 .. n \subseteq T
    BY <1>7, <1>8, UpTo
  <1>10. g[n] = f[n]
    BY <1>6, <1>9
  <1>11. g[n + 1] = Wrapped(g[n] * 10 + DigitValue(c))
    <2>1. n + 1 \in 1 .. n + 1 /\ (n + 1) - 1 = n
      OBVIOUS
    <2>2. g[n + 1] = Wrapped(g[(n + 1) - 1] * 10 + DigitValue(u[n + 1]))
      BY <1>3, <1>5, <2>1 DEF Reads
    <2> QED
      BY <1>3, <2>1, <2>2
  <1>12. f[n] \in Representable
    BY <1>1, <1>4 DEF Reads
  <1> QED
    BY <1>2, <1>4, <1>5, <1>10, <1>11, <1>12

LEMMA ValueOfNothing == ValueOf(<<>>) = 0
  <1>1. PICK s : s = <<>>
    OBVIOUS
  <1>2. s \in Seq(DigitCharacters) /\ Len(s) = 0
    BY <1>1, EmptySeq
  <1>3. PICK value : Reads(value, s) /\ ValueOf(s) = value[0]
    BY <1>2, ValueByDigits
  <1> QED
    BY <1>1, <1>3 DEF Reads

LEMMA ReverseTypes ==
    ASSUME NEW S, NEW s \in Seq(S)
    PROVE  Reverse(s) \in Seq(S) /\ Len(Reverse(s)) = Len(s)
  <1>1. \A i \in 1 .. Len(s) : (Len(s) - i) + 1 \in 1 .. Len(s)
    OBVIOUS
  <1>2. Reverse(s) \in [1 .. Len(s) -> S]
    BY <1>1 DEF Reverse
  <1>3. Len(s) \in Nat
    OBVIOUS
  <1> QED
    BY <1>2, <1>3

LEMMA ReverseConcat ==
    ASSUME NEW S, NEW c \in S, NEW s \in Seq(S)
    PROVE  Reverse(<<c>> \o s) = Append(Reverse(s), c)
  <1>1. PICK n \in Nat : n = Len(s)
    OBVIOUS
  <1>2. PICK u : u = <<c>> \o s
    OBVIOUS
  <1>3. /\ u \in Seq(S) /\ Len(u) = n + 1 /\ u[1] = c
        /\ \A i \in 1 .. n : u[i + 1] = s[i]
    <2>1. <<c>> \in Seq(S) /\ Len(<<c>>) = 1 /\ <<c>>[1] = c
      OBVIOUS
    <2>2. /\ u \in Seq(S) /\ Len(u) = 1 + n
          /\ \A i \in 1 .. 1 + n : u[i] = IF i <= 1 THEN <<c>>[i] ELSE s[i - 1]
      BY <1>1, <1>2, <2>1, ConcatProperties
    <2>3. \A i \in 1 .. n : i + 1 \in 1 .. 1 + n /\ ~(i + 1 <= 1) /\ (i + 1) - 1 = i
      OBVIOUS
    <2>4. 1 \in 1 .. 1 + n
      OBVIOUS
    <2> QED
      BY <2>1, <2>2, <2>3, <2>4
  <1>4. PICK r : r = Reverse(s)
    OBVIOUS
  <1>5. r \in Seq(S) /\ Len(r) = n /\ \A i \in 1 .. n : r[i] = s[(n - i) + 1]
    BY <1>1, <1>4, ReverseTypes DEF Reverse
  <1>6. PICK x : x = Reverse(u)
    OBVIOUS
  <1>7. x \in Seq(S) /\ Len(x) = n + 1 /\ \A i \in 1 .. n + 1 : x[i] = u[((n + 1) - i) + 1]
    BY <1>3, <1>6, ReverseTypes DEF Reverse
  <1>8. PICK y : y = Append(r, c)
    OBVIOUS
  <1>9. y \in Seq(S) /\ Len(y) = n + 1 /\ y[n + 1] = c /\ \A i \in 1 .. n : y[i] = r[i]
    BY <1>5, <1>8, AppendProperties
  <1>10. ASSUME NEW i \in 1 .. n + 1 PROVE x[i] = y[i]
    <2>1. CASE i = n + 1
      <3>1. ((n + 1) - i) + 1 = 1
        BY <2>1
      <3> QED
        BY <1>3, <1>7, <1>9, <2>1, <3>1
    <2>2. CASE i # n + 1
      <3>1. i \in 1 .. n
        BY <2>2
      <3>2. PICK k \in 1 .. n : k = (n - i) + 1 /\ ((n + 1) - i) + 1 = k + 1
        <4>1. (n - i) + 1 \in 1 .. n /\ ((n + 1) - i) + 1 = ((n - i) + 1) + 1
          BY <3>1
        <4> QED
          BY <4>1
      <3> QED
        <4>1. x[i] = u[k + 1]
          BY <1>7, <3>2
        <4>2. u[k + 1] = s[k]
          BY <1>3
        <4>3. y[i] = s[k]
          BY <1>5, <1>9, <3>1, <3>2
        <4> QED
          BY <4>1, <4>2, <4>3
    <2> QED
      BY <2>1, <2>2
  <1>11. x = y
    BY <1>7, <1>9, <1>10, SeqEqual
  <1> QED
    BY <1>2, <1>4, <1>6, <1>8, <1>11

(* What appendImpl() writes for a magnitude is read as that magnitude; the *)
(* one of the smallest integer wraps to the smallest integer.              *)
LEMMA DigitsReadBack ==
    ASSUME NEW d, GivesDigits(d), NEW n \in 0 .. IntMax + 1
    PROVE  ValueOf(Reverse(d[n])) = Wrapped(n)
  <1>1. PICK max \in Nat \ {0} : max = IntMax
    BY BuilderAssumption
  <1>2. PICK Bad : Bad = {m \in 0 .. max + 1 : ValueOf(Reverse(d[m])) # Wrapped(m)}
    OBVIOUS
  <1>3. ASSUME Bad # {} PROVE FALSE
    <2>1. PICK m \in Bad : \A y \in Bad : m <= y
      BY <1>2, <1>3, Smallest
    <2>2. m \in 0 .. max + 1 /\ ValueOf(Reverse(d[m])) # Wrapped(m)
      BY <1>2, <2>1
    <2>3. PICK e \in 0 .. 9 : e = m % 10
      BY <2>2
    <2>4. PICK c \in DigitCharacters : c = LastDigit(m) /\ DigitValue(c) = e
      BY <2>2, <2>3, LastDigitTypes, DigitValues DEF LastDigit
    <2>5. CASE m < 10
      <3>1. d[m] = <<c>>
        BY <1>1, <2>2, <2>4, <2>5 DEF GivesDigits
      <3>2. PICK s : s = <<>>
        OBVIOUS
      <3>3. s \in Seq(DigitCharacters) /\ ValueOf(s) = 0 /\ Reverse(s) = s
        <4>1. s \in Seq(DigitCharacters) /\ Len(s) = 0
          BY <3>2, EmptySeq
        <4>2. Reverse(s) = <<>>
          BY <4>1, ReverseTypes, EmptySeq
        <4> QED
          BY <3>2, <4>1, <4>2, ValueOfNothing
      <3>4. <<c>> \o s = <<c>>
        <4>1. <<c>> \in Seq(DigitCharacters)
          OBVIOUS
        <4> QED
          BY <3>2, <4>1, ConcatEmptySeq
      <3>5. Reverse(d[m]) = Append(s, c)
        BY <3>1, <3>3, <3>4, ReverseConcat
      <3>6. ValueOf(Reverse(d[m])) = Wrapped(0 * 10 + e)
        BY <2>4, <3>3, <3>5, ValueAppended
      <3>7. 0 * 10 + e = m
        BY <2>2, <2>3, <2>5
      <3> QED
        BY <2>2, <3>6, <3>7
    <2>6. CASE m >= 10
      <3>1. PICK k \in 0 .. max : k = m \div 10 /\ k < m
        BY <1>1, <2>2, <2>6
      <3>2. d[m] = <<c>> \o d[k]
        <4>1. m \in 0 .. IntMax + 1 /\ ~(m < 10)
          BY <1>1, <2>2, <2>6
        <4>2. d[m] = <<LastDigit(m)>> \o d[m \div 10]
          BY <4>1 DEF GivesDigits
        <4> QED
          BY <2>4, <3>1, <4>2
      <3>3. d[k] \in Seq(DigitCharacters)
        BY <1>1, <3>1 DEF GivesDigits
      <3>4. PICK s \in Seq(DigitCharacters) : s = Reverse(d[k])
        BY <3>3, ReverseTypes
      <3>5. ValueOf(s) = Wrapped(k)
        BY <1>2, <2>1, <3>1, <3>4
      <3>6. Wrapped(k) = k
        <4>1. k \in Representable
          BY <1>1 DEF Representable, IntMin
        <4> QED
          BY <4>1, WrappedValue
      <3>7. ValueOf(Reverse(d[m])) = Wrapped(k * 10 + e)
        <4>1. Reverse(d[m]) = Append(s, c)
          BY <3>2, <3>3, <3>4, ReverseConcat
        <4>2. ValueOf(Append(s, c)) = Wrapped(ValueOf(s) * 10 + DigitValue(c))
          BY ValueAppended
        <4> QED
          BY <2>4, <3>5, <3>6, <4>1, <4>2
      <3>8. k * 10 + e = m
        BY <2>2, <2>3, <3>1
      <3> QED
        BY <2>2, <3>7, <3>8
    <2> QED
      BY <2>2, <2>5, <2>6
  <1> QED
    BY <1>1, <1>2, <1>3

LEMMA IntTextTypes ==
    ASSUME NEW n \in Representable
    PROVE  IntText(n) \in Seq(Characters) /\ Len(IntText(n)) <= MaxIntSize /\ MaxIntSize \in Nat
  <1>1. PICK d : GivesDigits(d)
    BY DigitsExist
  <1>2. PICK m \in 0 .. IntMax + 1 : m = Magnitude(n)
    BY Truncation
  <1>3. DigitsFrom[n] = d[m]
    BY <1>1, <1>2 DEF GivesDigits
  <1>4. d[m] \in Seq(DigitCharacters) /\ Len(d[m]) \in Nat
    BY <1>1, DigitsLonger
  <1>5. PICK r \in Seq(DigitCharacters) : r = Reverse(d[m]) /\ Len(r) = Len(d[m])
    BY <1>4, ReverseTypes
  <1>6. r \in Seq(Characters)
    BY DigitsDiffer
  <1>7. DigitsOfMax[IntMax] \in Nat \ {0}
    BY BuilderAssumption, DigitsOfMaxCounts
  <1>8. Len(r) <= DigitsOfMax[IntMax]
    BY <1>1, <1>5, DigitsFit
  <1>9. PICK sign : sign = IF n < 0 THEN <<"-">> ELSE <<>>
    OBVIOUS
  <1>10. sign \in Seq(Characters) /\ Len(sign) \in 0 .. 1
    <2>1. PICK c \in Characters : c = "-"
      BY UnknownCharacter
    <2>2. <<c>> \in Seq(Characters) /\ Len(<<c>>) = 1
      OBVIOUS
    <2>3. <<>> \in Seq(Characters) /\ Len(<<>>) = 0
      BY EmptySeq
    <2> QED
      BY <1>9, <2>1, <2>2, <2>3
  <1>11. IntText(n) = sign \o r
    BY <1>3, <1>5, <1>9 DEF IntText
  <1>12. sign \o r \in Seq(Characters) /\ Len(sign \o r) = Len(sign) + Len(r)
    BY <1>6, <1>10, ConcatProperties
  <1> QED
    <2>1. PICK max \in Nat, length \in Nat, signs \in 0 .. 1 :
            max = DigitsOfMax[IntMax] /\ length = Len(r) /\ signs = Len(sign)
      BY <1>4, <1>5, <1>7, <1>10
    <2>2. MaxIntSize = max + 1 /\ Len(IntText(n)) = signs + length /\ length <= max
      BY <1>8, <1>11, <1>12, <2>1 DEF MaxIntSize
    <2>3. signs + length <= max + 1 /\ max + 1 \in Nat
      BY <2>2
    <2>4. IntText(n) \in Seq(Characters)
      BY <1>11, <1>12
    <2> QED
      BY <2>2, <2>3, <2>4

(* toInt() reads what fromInt() wrote.                                     *)
LEMMA IntegersReadBack ==
    ASSUME NEW n \in Representable
    PROVE  LoadIntFromDec(IntText(n)) = <<n>>
  <1>1. PICK d : GivesDigits(d)
    BY DigitsExist
  <1>2. PICK m \in 0 .. IntMax + 1 : m = Magnitude(n)
    BY Truncation
  <1>3. DigitsFrom[n] = d[m]
    BY <1>1, <1>2 DEF GivesDigits
  <1>4. d[m] \in Seq(DigitCharacters) /\ Len(d[m]) \in Nat \ {0}
    BY <1>1, DigitsLonger
  <1>5. PICK r \in Seq(DigitCharacters) : r = Reverse(d[m]) /\ Len(r) = Len(d[m])
    BY <1>4, ReverseTypes
  <1>6. \A i \in 1 .. Len(r) : r[i] \in DigitCharacters
    BY <1>5
  <1>7. \A i \in DOMAIN r : Contains(DecimalDigits, r[i])
    <2> SUFFICES ASSUME NEW i \in DOMAIN r PROVE Contains(DecimalDigits, r[i])
      OBVIOUS
    <2>1. r[i] \in DigitCharacters
      OBVIOUS
    <2>2. PICK k \in 1 .. 10 : DecimalDigits[k] = r[i]
      BY <2>1 DEF DigitCharacters
    <2> QED
      BY <2>2, DigitsDiffer DEF Contains
  <1>8. ValueOf(r) = Wrapped(m)
    BY <1>1, <1>5, DigitsReadBack
  <1>9. IntMin = -IntMax - 1 /\ IntMax \in Nat /\ n \in Int /\ IntMin <= n /\ n <= IntMax
    BY BuilderAssumption DEF IntMin, Representable
  <1>10. CASE n >= 0
    <2>1. m = n
      BY <1>2, <1>10 DEF Magnitude
    <2>2. IntText(n) = r
      <3>1. ~(n < 0)
        BY <1>9, <1>10
      <3>2. IntText(n) = <<>> \o r
        BY <1>3, <1>5, <3>1 DEF IntText
      <3> QED
        BY <3>2, ConcatEmptySeq
    <2>3. r[1] # "-"
      <3>1. 1 \in 1 .. Len(r)
        BY <1>4, <1>5
      <3> QED
        BY <1>6, <3>1, DigitsDiffer
    <2>4. LoadIntFromDec(r) = <<ValueOf(r)>>
      BY <1>7, <2>3 DEF LoadIntFromDec
    <2>5. Wrapped(m) = n
      BY <2>1, WrappedValue
    <2> QED
      BY <1>8, <2>2, <2>4, <2>5
  <1>11. CASE n < 0
    <2>1. m = -n
      BY <1>2, <1>9, <1>11 DEF Magnitude
    <2>2. PICK c \in Characters : c = "-"
      BY UnknownCharacter
    <2>3. PICK u : u = <<c>> \o r
      OBVIOUS
    <2>4. IntText(n) = u
      BY <1>3, <1>5, <1>11, <2>2, <2>3 DEF IntText
    <2>5. r \in Seq(Characters) /\ <<c>> \in Seq(Characters) /\ Len(<<c>>) = 1 /\ <<c>>[1] = c
      BY DigitsDiffer
    <2>6. u \in Seq(Characters) /\ u # <<>> /\ u[1] = "-" /\ Tail(u) = r
      <3>1. /\ u \in Seq(Characters) /\ Len(u) = 1 + Len(r) /\ Len(r) \in Nat
            /\ \A i \in 1 .. 1 + Len(r) : u[i] = IF i <= 1 THEN <<c>>[i] ELSE r[i - 1]
        BY <2>3, <2>5, ConcatProperties
      <3>2. u # <<>>
        BY <3>1, EmptySeq
      <3>3. u[1] = "-"
        BY <2>2, <2>5, <3>1
      <3>4. Tail(u) \in Seq(Characters) /\ Len(Tail(u)) = Len(r)
            /\ \A i \in 1 .. Len(r) : Tail(u)[i] = u[i + 1]
        BY <3>1, <3>2, HeadTailProperties
      <3>5. \A i \in 1 .. Len(r) : u[i + 1] = r[i]
        <4>1. \A i \in 1 .. Len(r) : i + 1 \in 1 .. 1 + Len(r) /\ ~(i + 1 <= 1) /\ (i + 1) - 1 = i
          BY <3>1
        <4> QED
          BY <3>1, <4>1
      <3>6. Tail(u) = r
        BY <2>5, <3>4, <3>5, SeqEqual
      <3> QED
        BY <3>1, <3>2, <3>3, <3>6
    <2>7. LoadIntFromDec(u) = <<Wrapped(-ValueOf(r))>>
      BY <1>7, <2>6 DEF LoadIntFromDec
    <2>8. Wrapped(-ValueOf(r)) = n
      <3>1. CASE n = IntMin
        <4>1. m = IntMax + 1 /\ ValueOf(r) = IntMin /\ -IntMin = IntMax + 1
          BY <1>8, <1>9, <2>1, <3>1, WrappedValue
        <4> QED
          BY <3>1, <4>1, WrappedValue
      <3>2. CASE n # IntMin
        <4>1. m \in Representable /\ -m = n
          BY <1>9, <2>1, <3>2 DEF Representable
        <4>2. ValueOf(r) = m
          BY <1>8, <4>1, WrappedValue
        <4> QED
          BY <4>1, <4>2, WrappedValue
      <3> QED
        BY <3>1, <3>2
    <2> QED
      BY <2>4, <2>7, <2>8
  <1> QED
    BY <1>9, <1>10, <1>11

(* append() of an integer: its text comes after the one before, and what   *)
(* was written is read back as the integer.                                *)
LEMMA AppendIntHolds ==
    ASSUME NEW b, NEW t, Holds(b, t), NEW n \in Representable
    PROVE  /\ Holds(AppendInt(b, n), t \o IntText(n))
           /\ ViewFrom(AppendInt(b, n), b.size) = IntText(n)
  <1>1. PICK chars \in Seq(Characters) : chars = IntText(n)
    BY IntTextTypes
  <1>2. Len(chars) \in Nat /\ Len(chars) <= MaxIntSize /\ MaxIntSize \in Nat
    BY <1>1, IntTextTypes
  <1>3. PICK x : x = AppendInt(b, n)
    OBVIOUS
  <1>4. PICK w : w = WriteAt(Grow(b, MaxIntSize), b.size, chars)
    OBVIOUS
  <1>5. x = [w EXCEPT !.size = b.size + Len(chars)]
    BY <1>1, <1>3, <1>4 DEF AppendInt
  <1>6. Holds(x, t \o chars)
    BY <1>2, <1>4, <1>5, WrittenHolds
  <1>7. t \in Seq(Characters) /\ Len(t) \in Nat /\ b.size = Len(t)
    BY DEF Holds
  <1>8. PICK u : u = t \o chars
    OBVIOUS
  <1>9. /\ u \in Seq(Characters) /\ Len(u) = Len(t) + Len(chars)
        /\ \A i \in 1 .. Len(chars) : u[Len(t) + i] = chars[i]
    BY <1>2, <1>7, <1>8, ConcatProperties
  <1>10. x.size = Len(u) /\ DOMAIN x.buffer = 1 .. Len(x.buffer) /\ Len(x.buffer) \in Nat
         /\ Len(u) <= Len(x.buffer) /\ \A i \in 1 .. Len(u) : x.buffer[i] = u[i]
    BY <1>6, <1>8 DEF Holds
  <1>11. PICK v : v = ViewFrom(x, b.size)
    OBVIOUS
  <1>12. \A i \in 1 .. Len(chars) : Len(t) + i \in 1 .. Len(u) /\ Len(t) + i \in 1 .. Len(x.buffer)
    BY <1>2, <1>7, <1>9, <1>10
  <1>13. x.size - b.size = Len(chars)
    BY <1>2, <1>7, <1>9, <1>10
  <1>14. v = [i \in 1 .. Len(chars) |-> chars[i]]
    BY <1>7, <1>9, <1>10, <1>11, <1>12, <1>13 DEF ViewFrom
  <1>15. v = chars
    BY <1>14
  <1> QED
    BY <1>1, <1>3, <1>6, <1>11, <1>15

-----------------------------------------------------------------------------
(* StringBuilder: the invariant *)

BuilderInv == Holds(Current, text) /\ handedOut.chars = handedOut.expected

LEMMA ViewIsText ==
    ASSUME NEW b, NEW t, Holds(b, t)
    PROVE  View(b) = t
  <1>1. t \in Seq(Characters) /\ Len(t) \in Nat /\ b.size = Len(t)
    BY DEF Holds
  <1>2. \A i \in 1 .. Len(t) : i \in DOMAIN b.buffer /\ b.buffer[i] = t[i] /\ 0 + i = i
    BY <1>1 DEF Holds
  <1>3. b.size - 0 = Len(t)
    BY <1>1
  <1>4. View(b) = [i \in 1 .. Len(t) |-> t[i]]
    BY <1>2, <1>3 DEF View, ViewFrom
  <1> QED
    BY <1>1, <1>4

LEMMA BecomesHolds ==
    ASSUME NEW b, NEW t, Holds(b, t), Becomes(b)
    PROVE  Holds(Current', t)
  <1>1. /\ b.buffer \in Seq(Characters) /\ t \in Seq(Characters) /\ b.size = Len(t) /\ Len(t) \in Nat
        /\ Len(t) <= Len(b.buffer) /\ \A i \in 1 .. Len(t) : b.buffer[i] = t[i]
    BY DEF Holds
  <1>2. PICK n \in Nat : n = Len(b.buffer) /\ DOMAIN b.buffer = 1 .. n
    BY <1>1
  <1>3. PICK f : f = [i \in 1 .. n |-> IF i <= b.size THEN b.buffer[i] ELSE "?"]
    OBVIOUS
  <1>4. Current' = [buffer |-> f, size |-> b.size]
    BY <1>2, <1>3 DEF Becomes, Current, Builder
  <1>5. f \in Seq(Characters) /\ Len(f) = n
    <2>1. \A i \in 1 .. n : b.buffer[i] \in Characters
      BY <1>1, <1>2
    <2>2. f \in [1 .. n -> Characters]
      BY <1>3, <2>1, UnknownCharacter
    <2> QED
      BY <2>2
  <1>6. \A i \in 1 .. Len(t) : f[i] = t[i]
    BY <1>1, <1>2, <1>3
  <1> QED
    BY <1>1, <1>2, <1>4, <1>5, <1>6 DEF Holds

LEMMA BuilderStarts == BuilderInit => BuilderInv
  <1> SUFFICES ASSUME BuilderInit PROVE BuilderInv
    OBVIOUS
  <1>1. Current = [buffer |-> <<>>, size |-> 0] /\ text = <<>>
    BY DEF BuilderInit, Current, Builder
  <1>2. PICK e : e = <<>>
    OBVIOUS
  <1>3. e \in Seq(Characters) /\ Len(e) = 0
    BY <1>2, EmptySeq
  <1>4. Holds(Current, text)
    BY <1>1, <1>2, <1>3 DEF Holds
  <1> QED
    BY <1>4 DEF BuilderInit, BuilderInv, NothingOut, HandedOut

(* A builder with nothing in it *)
LEMMA NothingHolds ==
    ASSUME NEW f \in Seq(Characters), NEW t, t = <<>>
    PROVE  Holds(Builder(f, 0), t)
  <1>1. t \in Seq(Characters) /\ Len(t) = 0 /\ Len(f) \in Nat
    BY EmptySeq
  <1> QED
    BY <1>1 DEF Holds, Builder

LEMMA StreamTypes ==
    ASSUME NEW parts \in Streams
    PROVE  /\ parts \in Seq(Seq(Characters)) /\ Len(parts) >= 1
           /\ Head(parts) \in Seq(Characters) /\ Head(parts) = parts[1]
  <1>1. PICK n \in 1 .. MaxReads : parts \in [1 .. n -> Views \cup {<<>>}]
    BY DEF Streams
  <1>2. n \in Nat
    BY <1>1, BuilderAssumption
  <1>3. Views \cup {<<>>} \subseteq Seq(Characters)
    BY BuilderAssumption, EmptySeq
  <1>4. parts \in [1 .. n -> Seq(Characters)]
    BY <1>1, <1>3
  <1>5. parts \in Seq(Seq(Characters)) /\ Len(parts) = n
    BY <1>2, <1>4
  <1>6. Head(parts) = parts[1]
    BY <1>5
  <1> QED
    BY <1>1, <1>2, <1>4, <1>5, <1>6

LEMMA ReservedTypes == ASSUME NEW n \in Nat PROVE ReservedFor(n) \in Nat
  BY BuilderAssumption DEF ReservedFor, Smaller

LEMMA BuilderSteps == BuilderInv /\ [BuilderNext]_builderVars => BuilderInv'
  <1> SUFFICES ASSUME BuilderInv, [BuilderNext]_builderVars PROVE BuilderInv'
    OBVIOUS
  <1>1. /\ Holds(Current, text) /\ text \in Seq(Characters) /\ Len(text) \in Nat
        /\ Current.size = builtSize /\ Current.buffer = buffer /\ builtSize = Len(text)
        /\ buffer \in Seq(Characters)
    BY DEF BuilderInv, Holds, Current, Builder
  <1>2. NothingOut.chars = NothingOut.expected
    BY DEF NothingOut, HandedOut
  <1>3. CASE UNCHANGED builderVars
    BY <1>3 DEF builderVars, BuilderInv, Current
  <1>4. ASSUME NEW n \in Sizes, ReserveTo(n) PROVE BuilderInv'
    <2>1. Holds(Reserve(Current, n), text)
      BY <1>1, BuilderAssumption, ReserveHolds
    <2> QED
      BY <1>2, <1>4, <2>1, BecomesHolds DEF ReserveTo, BuilderInv
  <1>5. ASSUME NEW n \in Sizes, ResizeBuilder(n) PROVE BuilderInv'
    <2>1. n \in 0 .. Len(text)
      BY <1>1, <1>5, BuilderAssumption DEF ResizeBuilder
    <2>2. PICK s \in Seq(Characters) : /\ s = SubSeq(text, 1, n) /\ Len(s) = n
                                       /\ \A i \in 1 .. n : s[i] = text[i]
      <3>1. n \in Nat /\ n <= Len(text)
        BY <1>1, <2>1
      <3>2. \A i \in 1 .. n : text[i] \in Characters
        BY <1>1, <3>1
      <3>3. PICK s : s = [i \in 1 .. n |-> text[i]]
        OBVIOUS
      <3>4. SubSeq(text, 1, n) = s
        BY <1>1, <3>1, <3>3
      <3>5. s \in [1 .. n -> Characters]
        BY <3>2, <3>3
      <3>6. s \in Seq(Characters) /\ Len(s) = n
        BY <3>1, <3>5
      <3> QED
        BY <3>3, <3>4, <3>6
    <2>3. Holds(Builder(buffer, n), s)
      BY <1>1, <2>1, <2>2 DEF Holds, Builder
    <2> QED
      BY <1>2, <1>5, <2>2, <2>3, BecomesHolds DEF ResizeBuilder, BuilderInv
  <1>6. ASSUME NEW view \in Views, AppendView(view) PROVE BuilderInv'
    <2>1. Holds(AppendChars(Current, view), text \o view)
      BY <1>1, BuilderAssumption, AppendHolds
    <2> QED
      BY <1>2, <1>6, <2>1, BecomesHolds DEF AppendView, BuilderInv
  <1>7. ASSUME NEW count \in {1, SizeMax}, AppendCopies(count) PROVE BuilderInv'
    <2>1. count \in Nat
      BY BuilderAssumption
    <2>2. PICK chars \in Seq(Characters) : chars = [i \in 1 .. count |-> "a"] /\ Len(chars) = count
      <3>1. PICK c \in Characters : c = "a"
        BY UnknownCharacter
      <3>2. PICK s : s = [i \in 1 .. count |-> c]
        OBVIOUS
      <3>3. s \in Seq(Characters) /\ Len(s) = count
        BY <2>1, <3>2
      <3> QED
        BY <3>1, <3>2, <3>3
    <2>3. PICK w : w = WriteAt(Grow(Current, count), builtSize, chars)
      OBVIOUS
    <2>4. w.size = builtSize + count /\ Holds([w EXCEPT !.size = builtSize + count], text \o chars)
      <3>1. PICK c : c = Current
        OBVIOUS
      <3>2. Holds(c, text) /\ c.size = builtSize
        BY <1>1, <3>1
      <3>3. w = WriteAt(Grow(c, count), c.size, chars) /\ Len(chars) <= count
        BY <2>1, <2>2, <2>3, <3>1, <3>2
      <3>4. w.size = c.size + count /\ Holds([w EXCEPT !.size = c.size + Len(chars)], text \o chars)
        BY <2>1, <3>2, <3>3, WrittenHolds
      <3> QED
        BY <2>2, <3>2, <3>4
    <2>5. [w EXCEPT !.size = builtSize + count] = w
      BY <2>3, <2>4 DEF WriteAt, Grow, Reserve, Builder, Current
    <2>6. Holds(w, text \o chars)
      BY <2>4, <2>5
    <2> QED
      BY <1>2, <1>7, <2>2, <2>3, <2>6, BecomesHolds DEF AppendCopies, BuilderInv
  <1>8. ASSUME NEW count, AppendThrows(count) PROVE BuilderInv'
    BY <1>8 DEF AppendThrows, builderVars, BuilderInv, Current
  <1>9. ASSUME NEW n \in SampleIntegers, AppendInteger(n) PROVE BuilderInv'
    <2>1. n \in Representable
      BY BuilderAssumption DEF Representable, IntMin
    <2>2. PICK b : b = AppendInt(Current, n)
      OBVIOUS
    <2>3. Holds(b, text \o IntText(n)) /\ ViewFrom(b, builtSize) = IntText(n)
      BY <1>1, <2>1, <2>2, AppendIntHolds
    <2>4. /\ Becomes(b) /\ text' = text \o IntText(n)
          /\ handedOut' = HandedOut(LoadIntFromDec(ViewFrom(b, builtSize)), <<n>>)
      BY <1>9, <2>2 DEF AppendInteger
    <2>5. LoadIntFromDec(ViewFrom(b, builtSize)) = <<n>>
      BY <2>1, <2>3, IntegersReadBack
    <2> QED
      BY <2>3, <2>4, <2>5, BecomesHolds DEF HandedOut, BuilderInv
  <1>10. ASSUME ClearBuilder PROVE BuilderInv'
    BY <1>1, <1>2, <1>10, NothingHolds, BecomesHolds DEF ClearBuilder, BuilderInv
  <1>11. ASSUME BuildString PROVE BuilderInv'
    <2>1. View(Current) = text
      BY <1>1, ViewIsText
    <2>2. Current' = Builder(<<>>, 0) /\ text' = <<>>
      BY <1>11 DEF BuildString, Current
    <2>3. Holds(Builder(<<>>, 0), <<>>)
      BY EmptySeq, NothingHolds
    <2> QED
      BY <1>11, <2>1, <2>2, <2>3 DEF BuildString, BuilderInv, HandedOut
  <1>12. ASSUME NEW parts \in Streams, NEW hint \in Sizes, ReadInto(parts, hint) PROVE BuilderInv'
    <2>1. hint \in Nat
      BY BuilderAssumption
    <2>2. PICK b : b = IF hint > 0 THEN Reserve(Current, ReservedFor(SizeSum(builtSize, hint)))
                       ELSE Current
      OBVIOUS
    <2>3. Holds(b, text)
      BY <1>1, <2>1, <2>2, ReservedTypes, SizeSumTypes, ReserveHolds
    <2>4. Holds(Collected(b, parts), text \o FlattenSeq(parts))
      BY <2>3, StreamTypes, CollectedHolds
    <2> QED
      BY <1>2, <1>12, <2>2, <2>4, BecomesHolds DEF ReadInto, BuilderInv
  <1>13. ASSUME NEW parts \in Streams, NEW hint \in Sizes, ReadAllOf(parts, hint) PROVE BuilderInv'
    <2>1. hint \in Nat /\ Len(Head(parts)) \in Nat
      BY BuilderAssumption, StreamTypes
    <2>2. PICK b : b = IF hint > 0
                       THEN Reserve(Builder(<<>>, 0),
                                    ReservedFor(SizeDifference(hint, Len(Head(parts)))))
                       ELSE Builder(<<>>, 0)
      OBVIOUS
    <2>3. PICK e : e = <<>>
      OBVIOUS
    <2>4. Holds(b, e)
      <3>1. e \in Seq(Characters)
        BY <2>3, EmptySeq
      <3>2. Holds(Builder(e, 0), e)
        BY <2>3, <3>1, NothingHolds
      <3> QED
        BY <2>1, <2>2, <2>3, <3>2, ReservedTypes, SizeSumTypes, ReserveHolds
    <2>5. Holds(Collected(b, parts), e \o FlattenSeq(parts))
      BY <2>4, StreamTypes, CollectedHolds
    <2>6. e \o FlattenSeq(parts) = FlattenSeq(parts)
      <3>1. FlattenSeq(parts) \in Seq(Characters)
        <4>1. PICK joined : /\ joined \in [0 .. Len(parts) -> Seq(Characters)]
                            /\ FlattenSeq(parts) = joined[Len(parts)]
          BY StreamTypes, FlattenJoins
        <4>2. Len(parts) \in 0 .. Len(parts)
          BY StreamTypes
        <4> QED
          BY <4>1, <4>2
      <3> QED
        BY <2>3, <3>1, ConcatEmptySeq
    <2>7. View(Collected(b, parts)) = FlattenSeq(parts)
      BY <2>5, <2>6, ViewIsText
    <2>8. UNCHANGED <<buffer, builtSize, text>>
      BY <1>13 DEF ReadAllOf
    <2>9. handedOut'.chars = handedOut'.expected
      <3>1. CASE Len(parts) = 1
        <4>1. handedOut' = HandedOut(Head(parts), Head(parts))
          BY <1>13, <3>1 DEF ReadAllOf
        <4> QED
          BY <4>1 DEF HandedOut
      <3>2. CASE Len(parts) # 1
        <4>1. handedOut' = HandedOut(View(Collected(b, parts)), FlattenSeq(parts))
          <5>1. CASE hint > 0
            BY <1>13, <2>2, <3>2, <5>1 DEF ReadAllOf
          <5>2. CASE ~(hint > 0)
            BY <1>13, <2>2, <3>2, <5>2 DEF ReadAllOf
          <5> QED
            BY <5>1, <5>2
        <4> QED
          BY <2>7, <4>1 DEF HandedOut
      <3> QED
        BY <3>1, <3>2
    <2>10. Current' = Current
      BY <2>8 DEF Current
    <2> QED
      BY <1>1, <2>8, <2>9, <2>10 DEF BuilderInv
  <1> QED
    BY <1>3, <1>4, <1>5, <1>6, <1>7, <1>8, <1>9, <1>10, <1>11, <1>12, <1>13 DEF BuilderNext

(* Through growing, a doubled capacity that wraps, clearing and reuse, the *)
(* buffer starts with what was appended; what a stream yields is collected *)
(* whatever its size hint, and every integer is read back.                 *)
THEOREM BuilderRight == BuilderSpec => []BuilderHolds
  <1>1. BuilderInv => BuilderHolds
    <2> SUFFICES ASSUME BuilderInv PROVE BuilderHolds
      OBVIOUS
    <2>1. Holds(Current, text) /\ handedOut.chars = handedOut.expected
      BY DEF BuilderInv
    <2>2. builtSize <= Len(buffer)
      BY <2>1 DEF Holds, Current, Builder
    <2> QED
      BY <2>1, <2>2, ViewIsText DEF BuilderHolds
  <1> QED
    BY <1>1, BuilderStarts, BuilderSteps, PTL DEF BuilderSpec
=============================================================================
