---------------------------- MODULE LRUCacheSpec ----------------------------
(***************************************************************************)
(* "A cache type that keeps up to given number of least recently used      *)
(* values" (include/CPVFramework/Utility/LRUCache.hpp), stated without     *)
(* lists or iterators: keys in order of their last use, and their values.  *)
(***************************************************************************)
EXTENDS Naturals, Sequences, SequencesExt

CONSTANTS Keys, Values, MaxSize

VARIABLES recent,  \* keys, most recently used first
          value,   \* key -> value
          hit

vars == <<recent, value, hit>>

NoValue == [none |-> TRUE]

Used(k) == <<k>> \o RemoveFirst(recent, k)

Init == recent = <<>> /\ value = [k \in {} |-> k] /\ hit = NoValue

(* Keep the MaxSize keys used last. *)
Set(k, v) ==
    LET kept == SubSeq(Used(k), 1, IF Len(Used(k)) > MaxSize THEN MaxSize ELSE Len(Used(k)))
    IN  /\ recent' = kept
        /\ value' = [j \in {kept[i] : i \in DOMAIN kept} |-> IF j = k THEN v ELSE value[j]]
        /\ hit' = NoValue

Get(k) == IF k \in DOMAIN value
            THEN recent' = Used(k) /\ hit' = value[k] /\ UNCHANGED value
            ELSE hit' = NoValue /\ UNCHANGED <<recent, value>>

Forget(k) == /\ recent' = RemoveFirst(recent, k)
             /\ value' = [j \in DOMAIN value \ {k} |-> value[j]]
             /\ hit' = NoValue

ForgetAll == recent' = <<>> /\ value' = [k \in {} |-> k] /\ hit' = NoValue

Next == \/ \E k \in Keys : (\E v \in Values : Set(k, v)) \/ Get(k) \/ Forget(k)
        \/ ForgetAll

Spec == Init /\ [][Next]_vars
=============================================================================
