------------------------------- MODULE Packet -------------------------------
(* Packet and the streams over it.  A packet is one fragment, or several in a *)
(* reusable object, or - after it was moved from - nothing.  A fragment only  *)
(* points at memory; a chain of deleters keeps that memory, and every way of  *)
(* putting packets together moves fragments and deleters separately.          *)
EXTENDS Naturals, Sequences, FiniteSets

CONSTANTS
  Chunks,        \* pieces of memory that strings are made of
  StaticChunks,  \* those that live forever: a string over one has an empty deleter
  EmptyChunks,   \* those of no size
  NoChunk,
  PacketNames,
  MaxFragments   \* bound: fragments of one packet

ASSUME ChunksAssumption ==
  /\ StaticChunks \subseteq Chunks /\ EmptyChunks \subseteq Chunks /\ NoChunk \notin Chunks
  /\ MaxFragments \in Nat

VARIABLES
  packet,        \* name -> [kind, fragments, deleter]
  contents,      \* ghost: name -> the chunks that were put into it
  unused,        \* chunks no string was made of yet
  givenOut,      \* the string, buffer or network packet that the last operation made
  inputStream    \* a PacketInputStream: [packet, index, read, isEnd], ghost contents

packetVars == <<packet, contents, unused, givenOut, inputStream>>

-----------------------------------------------------------------------------
Fragment(chunk) == [chunk |-> chunk, size |-> IF chunk \in EmptyChunks THEN 0 ELSE 1]
NoFragment == [chunk |-> NoChunk, size |-> 0]
Deleter(chunk) == IF chunk \in StaticChunks THEN {} ELSE {chunk}

Single(fragment, deleter) ==
  [kind |-> "single", fragments |-> <<fragment>>, deleter |-> deleter]
Multiple(fragments, deleter) ==
  [kind |-> "multiple", fragments |-> fragments, deleter |-> deleter]
Valueless == [kind |-> "valueless", fragments |-> <<>>, deleter |-> {}]
EmptyPacket == Single(NoFragment, {})

IsSingle(p) == p.kind = "single"
IsMultiple(p) == p.kind = "multiple"
Holds(p) == p.fragments[1].size # 0

\* What is left of a fragment, whose size becomes 0, and of a packet that was moved from.
FragmentTaken == Single(NoFragment, {})
MovedFrom(p) == IF IsSingle(p) THEN FragmentTaken ELSE Valueless

\* The bytes of a fragment, as the chunk that holds them
BytesOf(fragment) == IF fragment.size = 0 THEN <<>> ELSE <<fragment.chunk>>

\* Something made of a packet: the fragments it points at, what keeps them there, whether
\* it has a copy of them instead; and (ghost) the bytes it should have.
Given(fragments, deleter, copied, held) ==
  [fragments |-> fragments, deleter |-> deleter, copied |-> copied, contents |-> held]
NothingGiven == Given(<<>>, {}, TRUE, <<>>)

\* append(SharedString&&)
AppendString(p, chunk) ==
  LET fragment == Fragment(chunk)
      appended == Multiple(Append(p.fragments, fragment), p.deleter \cup Deleter(chunk))
  IN CASE IsMultiple(p) -> appended
       [] IsSingle(p) /\ Holds(p) -> appended
       [] OTHER -> Single(fragment, Deleter(chunk))

\* A slip: the deleter of the first packet is not chained to the second's.
MultipleToSingleNoDeleter(this, other) ==
  [this |-> Multiple(this.fragments \o other.fragments, other.deleter), other |-> Valueless]

MultipleToSingle(this, other) ==
  [this |-> Multiple(this.fragments \o other.fragments, other.deleter \cup this.deleter),
   other |-> Valueless]

\* append(Packet&&): both packets afterwards
AppendPacket(this, other) ==
  LET both == Multiple(this.fragments \o other.fragments, this.deleter \cup other.deleter)
      unchanged == [this |-> this, other |-> other]
  IN CASE IsMultiple(this) /\ IsMultiple(other) -> [this |-> both, other |-> Multiple(<<>>, {})]
       [] IsMultiple(this) /\ IsSingle(other) -> [this |-> both, other |-> FragmentTaken]
       [] IsSingle(this) /\ IsMultiple(other) -> MultipleToSingle(this, other)
       [] IsSingle(this) /\ IsSingle(other) /\ ~Holds(this) ->
            [this |-> other, other |-> FragmentTaken]
       [] IsSingle(this) /\ IsSingle(other) /\ Holds(this) /\ Holds(other) ->
            [this |-> both, other |-> FragmentTaken]
       [] this.kind = "valueless" -> [this |-> other, other |-> MovedFrom(other)]
       [] OTHER -> unchanged

\* getOrConvertToMultiple()
GetOrConvertToMultiple(p) ==
  CASE IsMultiple(p) -> p
    [] IsSingle(p) /\ Holds(p) -> Multiple(p.fragments, p.deleter)
    [] OTHER -> Multiple(<<>>, {})

\* toString(): several fragments are copied, a single one is shared.
StringOf(p, held) == IF IsSingle(p) THEN Given(p.fragments, p.deleter, FALSE, held)
                     ELSE Given(p.fragments, {}, TRUE, held)

\* release(): the fragments and the deleter go, the object stays.
Released(p) == CASE IsSingle(p) -> FragmentTaken
                 [] IsMultiple(p) -> Multiple(<<>>, {})
                 [] OTHER -> p

-----------------------------------------------------------------------------
PacketInit ==
  /\ packet = [n \in PacketNames |-> EmptyPacket]
  /\ contents = [n \in PacketNames |-> <<>>]
  /\ unused = Chunks
  /\ givenOut = NothingGiven
  /\ inputStream = [packet |-> EmptyPacket, index |-> 0, read |-> <<>>, isEnd |-> FALSE,
                    contents |-> <<>>]

PutString(n, chunk) ==
  /\ chunk \in unused
  /\ packet' = [packet EXCEPT ![n] = AppendString(@, chunk)]
  /\ contents' = [contents EXCEPT ![n] = @ \o BytesOf(Fragment(chunk))]
  /\ unused' = unused \ {chunk}
  /\ givenOut' = NothingGiven
  /\ UNCHANGED inputStream

PutPacket(n, m) ==
  /\ n # m /\ Len(packet[n].fragments) + Len(packet[m].fragments) <= MaxFragments
  /\ LET after == AppendPacket(packet[n], packet[m])
     IN packet' = [packet EXCEPT ![n] = after.this, ![m] = after.other]
  /\ contents' = [contents EXCEPT ![n] = @ \o contents[m], ![m] = <<>>]
  /\ givenOut' = NothingGiven
  /\ UNCHANGED <<unused, inputStream>>

\* Used by whoever appends many pieces: JsonBuilder, the response headers.
ConvertPacket(n) ==
  /\ ~IsMultiple(packet[n])
  /\ packet' = [packet EXCEPT ![n] = GetOrConvertToMultiple(@)]
  /\ givenOut' = NothingGiven
  /\ UNCHANGED <<contents, unused, inputStream>>

\* The move constructor and the move assignment
MovePacket(n, m) ==
  /\ n # m
  /\ packet' = [packet EXCEPT ![n] = packet[m], ![m] = MovedFrom(packet[m])]
  /\ contents' = [contents EXCEPT ![n] = contents[m], ![m] = <<>>]
  /\ givenOut' = NothingGiven
  /\ UNCHANGED <<unused, inputStream>>

MakeString(n) ==
  /\ givenOut' = StringOf(packet[n], contents[n])
  /\ UNCHANGED <<packet, contents, unused, inputStream>>

\* data_sink << packet: the buffer or the network packet owns what it points at.
SendPacket(n) ==
  /\ packet' = [packet EXCEPT ![n] = Released(@)]
  /\ contents' = [contents EXCEPT ![n] = <<>>]
  /\ givenOut' = Given(packet[n].fragments, packet[n].deleter, FALSE, contents[n])
  /\ UNCHANGED <<unused, inputStream>>

\* PacketInputStream::reset(Packet&&)
OpenInputStream(n) ==
  /\ inputStream' = [packet |-> packet[n], index |-> 0, read |-> <<>>, isEnd |-> FALSE,
                     contents |-> contents[n]]
  /\ packet' = [packet EXCEPT ![n] = MovedFrom(@)]
  /\ contents' = [contents EXCEPT ![n] = <<>>]
  /\ givenOut' = NothingGiven
  /\ UNCHANGED unused

\* A slip: an empty fragment ends the stream.
FirstFilledNoSkip(fragments, index) ==
  { i \in DOMAIN fragments : i = index + 1 /\ fragments[i].size # 0 }

\* The fragments after the index that have bytes
FirstFilled(fragments, index) ==
  { i \in DOMAIN fragments : i > index /\ fragments[i].size # 0
      /\ \A j \in (index + 1)..(i - 1) : fragments[j].size = 0 }

\* PacketInputStream::read(), as readAll calls it until it says isEnd.  A string that
\* is read shares the packet's deleter.
ReadInputStream ==
  /\ ~inputStream.isEnd
  /\ LET p == inputStream.packet
         next == IF IsMultiple(p) THEN FirstFilled(p.fragments, inputStream.index)
                 ELSE IF IsSingle(p) /\ inputStream.index = 0 THEN {1} ELSE {}
     IN IF next = {}
        THEN /\ inputStream' = [inputStream EXCEPT !.isEnd = TRUE, !.index = Len(p.fragments)]
             /\ givenOut' = NothingGiven
        ELSE LET i == CHOOSE i \in next : TRUE
                 bytes == BytesOf(p.fragments[i])
             IN /\ inputStream' = [inputStream EXCEPT !.index = i, !.read = @ \o bytes,
                                                      !.isEnd = (i >= Len(p.fragments))]
                /\ givenOut' = Given(<<p.fragments[i]>>, p.deleter, FALSE, bytes)
  /\ UNCHANGED <<packet, contents, unused>>

PacketNext ==
  \/ \E n \in PacketNames, chunk \in Chunks : PutString(n, chunk)
  \/ \E n, m \in PacketNames : PutPacket(n, m) \/ MovePacket(n, m)
  \/ \E n \in PacketNames :
       ConvertPacket(n) \/ MakeString(n) \/ SendPacket(n) \/ OpenInputStream(n)
  \/ ReadInputStream

PacketSpec == PacketInit /\ [][PacketNext]_packetVars

-----------------------------------------------------------------------------
(* Properties *)

Owned(fragments, deleter) ==
  \A i \in DOMAIN fragments :
    fragments[i].size # 0 => fragments[i].chunk \in StaticChunks \cup deleter

\* Whoever points at memory keeps it: every fragment of a packet, of a stream's
\* packet, and every string, buffer or network packet made of one, is covered by
\* the deleter that travels with it, through any chain of appends, moves and releases.
NoDangling ==
  /\ \A n \in PacketNames : Owned(packet[n].fragments, packet[n].deleter)
  /\ Owned(inputStream.packet.fragments, inputStream.packet.deleter)
  /\ givenOut.copied \/ Owned(givenOut.fragments, givenOut.deleter)

\* Why nothing dangles: a packet has the shape of its kind and its deleter covers its
\* fragments, and so for the packet of the stream, wherever it stands.
AnyFragment == [chunk : Chunks \cup {NoChunk}, size : {0, 1}]
AnyPacket == [kind : {"single", "multiple", "valueless"}, deleter : SUBSET Chunks,
              fragments : Seq(AnyFragment)]
Covered(p) == /\ p \in AnyPacket /\ Owned(p.fragments, p.deleter)
              /\ IsSingle(p) => Len(p.fragments) = 1
PacketInv ==
  /\ packet \in [PacketNames -> AnyPacket] /\ \A n \in PacketNames : Covered(packet[n])
  /\ DOMAIN inputStream = {"packet", "index", "read", "isEnd", "contents"}
  /\ inputStream.index \in Nat /\ Covered(inputStream.packet)
  /\ givenOut.copied \/ Owned(givenOut.fragments, givenOut.deleter)

\* The bytes of a list of fragments are those of the chunks, in order: every chunk has its
\* place, and a fragment that is no chunk's place has no bytes.
Placed(place, fragments, chunks) ==
  /\ \A i, j \in 1..Len(chunks) : i < j => place[i] < place[j]
  /\ \A i \in 1..Len(chunks) :
       fragments[place[i]].size # 0 /\ fragments[place[i]].chunk = chunks[i]
  /\ \A f \in DOMAIN fragments :
       fragments[f].size # 0 => \E i \in 1..Len(chunks) : place[i] = f
BytesAre(fragments, chunks) ==
  \E place \in [1..Len(chunks) -> DOMAIN fragments] : Placed(place, fragments, chunks)

\* A packet holds what was put into it, in order; what is made of it has the same
\* bytes; and a stream over it yields them all before it says that it ended.
BytesKept ==
  /\ \A n \in PacketNames : BytesAre(packet[n].fragments, contents[n])
  /\ BytesAre(givenOut.fragments, givenOut.contents)
  /\ inputStream.isEnd => inputStream.read = inputStream.contents

\* Why: nothing is left in a packet that was moved from, and the stream has read the first chunks,
\* those whose places it has passed.
Bare(p) == p.kind = "valueless" => p.fragments = <<>>
ReadUpTo(stream, place, count) ==
  /\ Placed(place, stream.packet.fragments, stream.contents)
  /\ stream.read = SubSeq(stream.contents, 1, count)
  /\ \A i \in 1..Len(stream.contents) : place[i] <= stream.index <=> i <= count
BytesInv ==
  /\ contents \in [PacketNames -> Seq(Chunks)] /\ inputStream.contents \in Seq(Chunks)
  /\ \A n \in PacketNames : Bare(packet[n])
  /\ Bare(inputStream.packet)
  /\ \E place \in [1..Len(inputStream.contents) -> DOMAIN inputStream.packet.fragments],
        count \in 0..Len(inputStream.contents) : ReadUpTo(inputStream, place, count)
  /\ BytesKept

=============================================================================
