------------------------------ MODULE Reusable ------------------------------
(***************************************************************************)
(* Reusable<T> and its free list on one core:                              *)
(* include/CPVFramework/Utility/Reusable.hpp.  An object may own other     *)
(* objects of its type, which freeResources() or its destructor give up,   *)
(* so the function that puts an object on the free list runs inside        *)
(* itself.                                                                 *)
(***************************************************************************)
EXTENDS Naturals, Sequences, FiniteSets

CONSTANTS Objects,   \* the addresses objects are constructed at
          Capacity,  \* ReusableStorage::Capacity
          None,      \* no object: a null pointer
          MayThrow   \* whether freeResources() may throw

ASSUME ReusableAssumption ==
    /\ Capacity \in Nat /\ None \notin Objects /\ MayThrow \in BOOLEAN

VARIABLES freeList, size,  \* the storage: slots 0 .. Capacity - 1
          status,          \* object -> "new", "used", "freeing", "free" or "deleted"
          owner,           \* object -> the object that owns it
          frames           \* the deleters that run, each in the one before

reusableVars == <<freeList, size, status, owner, frames>>

Slots == 0 .. Capacity - 1

Frame == [object : Objects, size : Nat, keep : BOOLEAN]

ReusableInit == /\ freeList = [i \in Slots |-> None] /\ size = 0 /\ frames = <<>>
        /\ status = [o \in Objects |-> "new"] /\ owner = [o \in Objects |-> None]

Top == frames[Len(frames)]
Pop == SubSeq(frames, 1, Len(frames) - 1)
Children(o) == {c \in Objects : owner[c] = o}

-----------------------------------------------------------------------------
(* makeReusable(): a new object, at an address that may have been another's*)
(* before, or the last one of the free list.                               *)
MakeNew(o) ==
    /\ frames = <<>> /\ size = 0 /\ status[o] \in {"new", "deleted"}
    /\ status' = [status EXCEPT ![o] = "used"]
    /\ UNCHANGED <<freeList, size, owner, frames>>

\* A slip: the slot is read and not emptied.
LeavesInList(o) ==
    /\ frames = <<>> /\ size > 0 /\ o = freeList[size - 1]
    /\ status' = [status EXCEPT ![o] = "used"]
    /\ UNCHANGED <<freeList, size, owner, frames>>

MakeAgain(o) ==
    /\ frames = <<>> /\ size > 0 /\ o = freeList[size - 1]
    /\ status' = [status EXCEPT ![o] = "used"]
    /\ size' = size - 1 /\ freeList' = [freeList EXCEPT ![size - 1] = None]
    /\ UNCHANGED <<owner, frames>>

(* An object is moved into a member of another one.                        *)
Give(c, o) ==
    /\ frames = <<>> /\ c # o /\ status[c] = "used" /\ status[o] = "used"
    /\ owner[c] = None /\ owner[o] = None
    /\ owner' = [owner EXCEPT ![c] = o]
    /\ UNCHANGED <<freeList, size, status, frames>>

-----------------------------------------------------------------------------
(* The deleter.  It reads the size of the list first and decides by it,    *)
(* then calls freeResources(), or the destructor when the list is full.    *)
Enter(o) ==
    /\ frames' = Append(frames, [object |-> o, size |-> size, keep |-> size < Capacity])
    /\ status' = [status EXCEPT ![o] = "freeing"]
    /\ owner' = [owner EXCEPT ![o] = None]

(* The owner of a Reusable, no object itself, drops it.                    *)
Release(o) ==
    /\ frames = <<>> /\ status[o] = "used" /\ owner[o] = None
    /\ Enter(o) /\ UNCHANGED <<freeList, size>>

(* freeResources() or the destructor drops what the object owns.           *)
ReleaseChild(c) ==
    /\ frames # <<>> /\ owner[c] = Top.object
    /\ Enter(c) /\ UNCHANGED <<freeList, size>>

(* The object goes to the slot that was free when the deleter began.  An   *)
(* object that was put there meanwhile is deleted.                         *)
Store ==
    LET old == freeList[Top.size]
    IN  /\ frames # <<>> /\ Top.keep /\ Children(Top.object) = {}
        /\ status' = [o \in Objects |-> CASE o = Top.object -> "free"
                                          [] o = old /\ o # Top.object -> "deleted"
                                          [] OTHER -> status[o]]
        /\ freeList' = [freeList EXCEPT ![Top.size] = Top.object]
        /\ size' = Top.size + 1 /\ frames' = Pop /\ UNCHANGED owner

(* The list was full, or freeResources() threw: the object is destroyed.   *)
Delete ==
    /\ frames # <<>> /\ (Top.keep => MayThrow) /\ Children(Top.object) = {}
    /\ status' = [status EXCEPT ![Top.object] = "deleted"]
    /\ frames' = Pop /\ UNCHANGED <<freeList, size, owner>>

-----------------------------------------------------------------------------
ReusableNext == \/ \E o \in Objects : MakeNew(o) \/ MakeAgain(o) \/ Release(o) \/ ReleaseChild(o)
        \/ \E c, o \in Objects : Give(c, o)
        \/ Store \/ Delete

ReusableSpec == ReusableInit /\ [][ReusableNext]_reusableVars

-----------------------------------------------------------------------------
(* Every variable has its type, and the free list stays within its array.  *)
ReusableTypeOK ==
    /\ size \in 0 .. Capacity /\ freeList \in [Slots -> Objects \cup {None}]
    /\ status \in [Objects -> {"new", "used", "freeing", "free", "deleted"}]
    /\ owner \in [Objects -> Objects \cup {None}] /\ frames \in Seq(Frame)

(* However deleters nest, the list holds free objects only, each of them   *)
(* once, and below its size no slot is empty: who allocates never gets a   *)
(* null pointer or an object that somebody uses.                           *)
ListSound ==
    /\ \A i \in Slots : freeList[i] # None => status[freeList[i]] = "free"
    /\ \A i, j \in Slots : freeList[i] # None /\ freeList[i] = freeList[j] => i = j
    /\ \A i \in Slots : i < size => freeList[i] # None

(* What is on the free list or deleted owns nothing (the warning at the    *)
(* head of Reusable), and is owned by nobody.                              *)
OwnsNothing ==
    \A c \in Objects : owner[c] # None => status[c] = "used" /\ status[owner[c]] \in {"used", "freeing"}

(* What makes the list sound at every step of nested deleters: an object   *)
(* is given up by one deleter at a time, and every slot below the one that *)
(* a deleter has chosen stays taken until it is done.                      *)
FramesSound ==
    /\ \A k \in DOMAIN frames :
         /\ status[frames[k].object] = "freeing"
         /\ frames[k].keep => frames[k].size < Capacity
         /\ \A i \in Slots : i < frames[k].size => freeList[i] # None
    /\ \A j, k \in DOMAIN frames : frames[j].object = frames[k].object => j = k

ReusableInv == ReusableTypeOK /\ ListSound /\ OwnsNothing /\ FramesSound

-----------------------------------------------------------------------------
(* "back to free list automatically on destruction": as long as the list   *)
(* has room, no object is deleted.                                         *)
BackToFreeList ==
    [][\A o \in Objects : status[o] # "deleted" /\ status'[o] = "deleted" => size = Capacity]_reusableVars
=============================================================================
