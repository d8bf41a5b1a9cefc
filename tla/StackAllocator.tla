--------------------------- MODULE StackAllocator ---------------------------
(***************************************************************************)
(* StackAllocatorStorage and StackAllocator: a bump allocator over a       *)
(* buffer of fixed size, with an upstream allocator behind it.  Memory of  *)
(* the buffer is never given back piece by piece: the storage counts what  *)
(* is allocated and starts over when the count reaches 0.                  *)
(***************************************************************************)
EXTENDS Integers, FiniteSets

CONSTANTS Buffer,      \* buf_.data(), an address
          Size,        \* buf_.size()
          Requests,    \* what containers ask for: [bytes, alignment]
          MaxUpstream  \* bound: blocks of the upstream allocator at one time

ASSUME StorageAssumption ==
    /\ Buffer \in Nat /\ Size \in Nat /\ MaxUpstream \in Nat
    /\ Requests \subseteq [bytes : Nat \ {0}, alignment : Nat \ {0}]

VARIABLES ptr_, size_, allocatedCount,  \* ptr_, size_, allocated_count_
          live,      \* blocks of the buffer in use: [start, bytes, alignment]
          upstream   \* how many blocks came from the upstream allocator

storageVars == <<ptr_, size_, allocatedCount, live, upstream>>

End == Buffer + Size

Block == [start : Nat, bytes : Nat \ {0}, alignment : Nat \ {0}]

StorageInit == /\ ptr_ = Buffer /\ size_ = Size /\ allocatedCount = 0
        /\ live = {} /\ upstream = 0

(* std::align: the distance to the next address with that alignment *)
Adjustment(alignment) == (alignment - (ptr_ % alignment)) % alignment

Fits(r) == r.bytes + Adjustment(r.alignment) <= size_

(* allocate(): from the buffer, or from upstream when std::align finds no  *)
(* room and leaves everything as it is.                                    *)
Allocate(r) ==
    LET start == ptr_ + Adjustment(r.alignment)
    IN  \/ /\ Fits(r)
           /\ live' = live \cup {[start |-> start, bytes |-> r.bytes, alignment |-> r.alignment]}
           /\ ptr_' = start + r.bytes
           /\ size_' = size_ - Adjustment(r.alignment) - r.bytes
           /\ allocatedCount' = allocatedCount + 1
           /\ UNCHANGED upstream
        \/ /\ ~Fits(r) /\ upstream < MaxUpstream
           /\ upstream' = upstream + 1
           /\ UNCHANGED <<ptr_, size_, allocatedCount, live>>

(* is_allocated_from_here() *)
IsAllocatedFromHere(address) == address >= Buffer /\ address < End

\* Slips: the bytes of a block are used again at once, or never.
ReuseAtOnce(b) ==
    /\ IsAllocatedFromHere(b.start)
    /\ allocatedCount' = allocatedCount - 1 /\ live' = live \ {b}
    /\ ptr_' = b.start /\ size_' = End - b.start
    /\ UNCHANGED upstream
NeverReuse(b) ==
    /\ IsAllocatedFromHere(b.start)
    /\ allocatedCount' = allocatedCount - 1 /\ live' = live \ {b}
    /\ UNCHANGED <<ptr_, size_, upstream>>

(* deallocate() of a block of the buffer *)
Deallocate(b) ==
    /\ IsAllocatedFromHere(b.start)
    /\ allocatedCount' = allocatedCount - 1 /\ live' = live \ {b}
    /\ \/ allocatedCount' = 0 /\ ptr_' = Buffer /\ size_' = Size
       \/ allocatedCount' # 0 /\ UNCHANGED <<ptr_, size_>>
    /\ UNCHANGED upstream

(* deallocate() of a block from upstream *)
DeallocateUpstream ==
    /\ upstream > 0 /\ upstream' = upstream - 1
    /\ UNCHANGED <<ptr_, size_, allocatedCount, live>>

StorageNext == \/ \E r \in Requests : Allocate(r)
        \/ \E b \in live : Deallocate(b)
        \/ DeallocateUpstream

StorageSpec == StorageInit /\ [][StorageNext]_storageVars

-----------------------------------------------------------------------------
(* Every variable has its type. *)
StorageTypeOK == /\ ptr_ \in Nat /\ size_ \in Nat /\ allocatedCount \in Nat /\ upstream \in Nat
          /\ live \subseteq Block /\ IsFiniteSet(live)

(* No two blocks in use share a byte, whatever the order they are given    *)
(* back in, and each lies within the buffer.                               *)
NoOverlap ==
    \A b \in live :
      /\ b.start >= Buffer /\ b.start + b.bytes <= End
      /\ \A c \in live : b = c \/ b.start + b.bytes <= c.start \/ c.start + c.bytes <= b.start

(* A block of the buffer is recognised as such when it is given back; it   *)
(* never goes to the upstream allocator.                                   *)
OwnBlocksRecognised == \A b \in live : IsAllocatedFromHere(b.start)

(* When nothing is in use, all of the buffer is available again. *)
Reclaimed == live = {} => ptr_ = Buffer /\ size_ = Size

(* Why they hold: the pointer and the remaining size move together, every  *)
(* block in use ends below the pointer, and the counter is their number.   *)
StorageInv ==
    /\ ptr_ + size_ = End /\ ptr_ >= Buffer
    /\ \A b \in live : b.start >= Buffer /\ b.start + b.bytes <= ptr_
    /\ \A b, c \in live : b = c \/ b.start + b.bytes <= c.start \/ c.start + c.bytes <= b.start
    /\ allocatedCount = Cardinality(live)
    /\ live = {} => ptr_ = Buffer /\ size_ = Size
=============================================================================
