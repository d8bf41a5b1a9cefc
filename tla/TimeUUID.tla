------------------------------ MODULE TimeUUID ------------------------------
(***************************************************************************)
(* Version 1 uuids of one core: src/Utility/UUIDUtils.cpp.  How many       *)
(* values a field has is a parameter: 2^32, 2^16 and 2^12 for those of the *)
(* time, 2^14 for the clock id and 2^48 for the node in the code.          *)
(***************************************************************************)
EXTENDS Naturals, Sequences

CONSTANTS Low, Mid, High,              \* the values of the fields of a time stamp
          MaxClockId,                  \* the largest clock id, all bits set
          NodeId,                      \* random, wider than its field, set by the first call
          MaxNodeId,                   \* all bits of the field set
          MaxTime,                     \* bound: the time stamps of the clock
          MaxMade                      \* bound: uuids made

Clocks == MaxClockId + 1
NodeIds == MaxNodeId + 1

ASSUME TimeUUIDAssumption ==
    /\ {Low, Mid, High} \subseteq Nat \ {0}
    /\ {MaxClockId, NodeId, MaxNodeId, MaxTime, MaxMade} \subseteq Nat
    \* Until a time stamp needs more than its 60 bits, in the year 5236
    /\ MaxTime < Low * Mid * High

VARIABLES now,                       \* system_clock::now(), as a time stamp
          lastTimestamp, clockId,    \* staticLastTimestamp, staticClockId
          made                       \* history: [uuid, time] in the order they were returned

uuidVars == <<now, lastTimestamp, clockId, made>>

-----------------------------------------------------------------------------
(* The 64 bit halves of a uuid as numbers.  The low bits of the time come  *)
(* first, then the middle ones, the version and the high ones.             *)

LowOf(time) == time % Low
\* A slip: the middle field is taken from the high one.
MidFromHigh(time) == (time \div (Low * Mid)) % Mid
MidOf(time) == (time \div Low) % Mid
HighOf(time) == (time \div (Low * Mid)) % High

MakeUUID(time, clock, node) ==
    [first  |-> ((LowOf(time) * Mid + MidOf(time)) * 16 + 1) * High + HighOf(time),
     second |-> (2 * Clocks + (clock % Clocks)) * NodeIds + (node % NodeIds)]

GetVersion(uuid) == (uuid.first \div High) % 16

GetTime(uuid) == (uuid.first \div (High * 16 * Mid))
                   + (((uuid.first \div (High * 16)) % Mid) * Low)
                   + ((uuid.first % High) * Low * Mid)

(* uuidToStr() and strToUUID(), with hexadecimal digits as numbers         *)
UuidToStr(uuid) == <<uuid.first \div (High * 16 * Mid), (uuid.first \div (High * 16)) % Mid,
                     uuid.first % (High * 16), uuid.second \div NodeIds, uuid.second % NodeIds>>
StrToUUID(str) == [first |-> (str[1] * Mid + str[2]) * (High * 16) + str[3],
                   second |-> str[4] * NodeIds + str[5]]

MinUUID(time) == MakeUUID(time, 0, 0)
MaxUUID(time) == MakeUUID(time, MaxClockId, MaxNodeId)

-----------------------------------------------------------------------------
TimeUUIDInit == now \in 1 .. MaxTime /\ lastTimestamp = 0 /\ clockId = 0 /\ made = <<>>

(* The system clock may be set back.                                       *)
ClockTicks == now' \in 1 .. MaxTime /\ UNCHANGED <<lastTimestamp, clockId, made>>

\* A slip: one clock id too many.
OneTooMany == clockId > MaxClockId + 1

Exhausted == clockId > MaxClockId

(* makeTimeUUID()                                                          *)
MakeTimeUUID ==
    LET fresh == now # lastTimestamp
        clock == IF fresh THEN 0 ELSE clockId
    IN  /\ fresh \/ ~Exhausted
        /\ Len(made) < MaxMade
        /\ lastTimestamp' = now /\ clockId' = clock + 1
        /\ made' = Append(made, [uuid |-> MakeUUID(now, clock, NodeId), time |-> now])
        /\ UNCHANGED now

(* It throws UUIDConflictException, and nothing changes.                   *)
MakeTimeUUIDThrows == now = lastTimestamp /\ Exhausted /\ UNCHANGED uuidVars

TimeUUIDNext == ClockTicks \/ MakeTimeUUID \/ MakeTimeUUIDThrows

TimeUUIDSpec == TimeUUIDInit /\ [][TimeUUIDNext]_uuidVars

-----------------------------------------------------------------------------
Less(a, b) == a.first < b.first \/ (a.first = b.first /\ a.second < b.second)

(* No call from the one after i to j read a clock behind the call before.  *)
Steady(uuids, i, j) == \A k \in i + 1 .. j : uuids[k - 1].time <= uuids[k].time

(* A uuid is returned again only after the clock was set back, up to the   *)
(* last clock id of a time stamp.                                          *)
OnceWhileSteady ==
    \A i, j \in DOMAIN made : i < j /\ Steady(made, i, j) => made[i].uuid # made[j].uuid

(* What was packed comes out again: the version, the time, the same uuid   *)
(* from its string; and it lies between the least and the greatest uuid of *)
(* its time, "useful for search query".                                    *)
RoundTrips ==
    \A i \in DOMAIN made :
      LET uuid == made[i].uuid
          time == GetTime(uuid)
      IN  /\ GetVersion(uuid) = 1 /\ time = made[i].time
          /\ StrToUUID(UuidToStr(uuid)) = uuid
          /\ ~Less(uuid, MinUUID(time)) /\ ~Less(MaxUUID(time), uuid)

(* A uuid is one that no call has returned since the clock was last set    *)
(* back, and one its time can be read from again.                          *)
UUIDsSound == OnceWhileSteady /\ RoundTrips

(* Why: each one was made of a time stamp and a clock id that the statics  *)
(* have passed, unless the clock was set back after it.                    *)
MadeOf(entry, c) == entry.uuid = MakeUUID(entry.time, c, NodeId)

Passed(entry, c, timestamp, clock) ==
    entry.time < timestamp \/ (entry.time = timestamp /\ c < clock)

Entry == [uuid : [first : Nat, second : Nat], time : 1 .. MaxTime]

UUIDTypeOK ==
    /\ now \in 1 .. MaxTime /\ lastTimestamp \in 0 .. MaxTime /\ clockId \in 0 .. Clocks
    /\ made \in Seq(Entry)

UUIDInv ==
    /\ UUIDTypeOK
    /\ made # <<>> => lastTimestamp = made[Len(made)].time
    /\ \A i \in DOMAIN made :
         \E c \in 0 .. MaxClockId :
           /\ MadeOf(made[i], c)
           /\ Steady(made, i, Len(made)) => Passed(made[i], c, lastTimestamp, clockId)
    /\ OnceWhileSteady

-----------------------------------------------------------------------------
(* Statements the code does not keep.                                      *)

(* No uuid is returned twice, whatever the clock does.                     *)
Unique == \A i, j \in DOMAIN made : made[i].uuid = made[j].uuid => i = j

(* TestUUIDUtils.cpp asserts a < b for two uuids made one after the other. *)
Increasing == \A i \in DOMAIN made : i > 1 => Less(made[i - 1].uuid, made[i].uuid)
=============================================================================
