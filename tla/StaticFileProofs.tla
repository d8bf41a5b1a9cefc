-------------------------- MODULE StaticFileProofs --------------------------
(***************************************************************************)
(* StaticFileHandler.tla, for any number of requests, any files and sizes, *)
(* any cache: an answer is what its headers say, whole and of one version, *)
(* and so is what is cached, however the files change meanwhile.           *)
(***************************************************************************)
EXTENDS StaticFileHandler, FiniteSetTheorems, WellFoundedInduction, TLAPS

-----------------------------------------------------------------------------
(* Numbers and sequences *)

(* A set of natural numbers with an element has a smallest one.            *)
LEMMA Smallest ==
    ASSUME NEW S \in SUBSET Nat, S # {}
    PROVE  \E x \in S : \A y \in S : x <= y
<1>1. PICK x \in S : \A y \in S : ~(<<y, x>> \in OpToRel(<, Nat))
  BY NatLessThanWellFounded, WFMin
<1>2. \A y \in S : <<y, x>> \in Nat \X Nat /\ <<y, x>>[1] = y /\ <<y, x>>[2] = x
  OBVIOUS
<1>3. \A y \in S : ~(y < x)
  BY <1>1, <1>2, Zenon DEF OpToRel
<1> QED BY <1>3

(* The smaller and the larger of two numbers *)
LEMMA TwoNumbers ==
    ASSUME NEW a \in Int, NEW b \in Int
    PROVE  /\ Min({a, b}) = IF a <= b THEN a ELSE b
           /\ Max({a, b}) = IF a >= b THEN a ELSE b
BY DEF Min, Max

LEMMA MinOfThree ==
    ASSUME NEW a \in Nat, NEW b \in Nat, NEW c \in Nat
    PROVE  /\ Min({a, b, c}) \in Nat /\ Min({a, b, c}) <= a
           /\ Min({a, b, c}) <= b /\ Min({a, b, c}) <= c
           /\ Min({a, b, c}) \in {a, b, c}
<1>1. PICK S : S = {a, b, c}
  OBVIOUS
<1>2. \E x \in S : \A y \in S : x <= y
  BY <1>1, Smallest
<1>3. Min(S) \in S /\ \A y \in S : Min(S) <= y
  BY <1>2 DEF Min
<1> QED BY <1>1, <1>3

(* Without an element, a sequence has the elements it had.                 *)
LEMMA Removed ==
    ASSUME NEW S, NEW s \in Seq(S), NEW e
    PROVE  fileCache!RemoveFirst(s, e) \in Seq(S)
<1>1. PICK I : I = {i \in 1 .. Len(s) : s[i] = e}
  OBVIOUS
<1>2. CASE I = {}
  BY <1>1, <1>2 DEF fileCache!RemoveFirst
<1>3. CASE I # {}
  <2>1. \E x \in I : \A y \in I : x <= y
    <3>1. I \in SUBSET Nat
      BY <1>1
    <3> QED BY <1>3, <3>1, Smallest
  <2>2. fileCache!Min(I) \in I
    BY <2>1 DEF fileCache!Min
  <2>3. PICK i : i = fileCache!Min(I)
    OBVIOUS
  <2>4. fileCache!RemoveFirst(s, e) = fileCache!RemoveAt(s, i)
    BY <1>1, <1>3, <2>3 DEF fileCache!RemoveFirst, fileCache!SelectInSeq
  <2>5. i \in Nat /\ 1 <= i /\ i <= Len(s)
    BY <1>1, <2>2, <2>3
  <2>6. SubSeq(s, 1, i - 1) \in Seq(S) /\ SubSeq(s, i + 1, Len(s)) \in Seq(S)
    BY <2>5
  <2> QED BY <2>4, <2>6 DEF fileCache!RemoveAt
<1> QED BY <1>2, <1>3

(* get() *)
LEMMA GetKeeps ==
    ASSUME NEW k, recent \in Seq(DOMAIN value), fileCache!Get(k)
    PROVE  /\ value' = value /\ recent' \in Seq(DOMAIN value)
           /\ hit' # fileCache!NoValue => k \in DOMAIN value /\ hit' = value[k]
<1>1. CASE k \in DOMAIN value
  <2>1. fileCache!RemoveFirst(recent, k) \in Seq(DOMAIN value)
    BY Removed
  <2>2. fileCache!Used(k) \in Seq(DOMAIN value)
    BY <1>1, <2>1 DEF fileCache!Used
  <2> QED BY <1>1, <2>2 DEF fileCache!Get
<1>2. CASE k \notin DOMAIN value
  BY <1>2 DEF fileCache!Get
<1> QED BY <1>1, <1>2

(* set(): nothing comes in but the new entry.                              *)
LEMMA SetKeeps ==
    ASSUME NEW k, NEW v, recent \in Seq(DOMAIN value), fileCache!Set(k, v)
    PROVE  /\ recent' \in Seq(DOMAIN value')
           /\ \A p \in DOMAIN value' : \/ p = k /\ value'[p] = v
                                       \/ p # k /\ p \in DOMAIN value /\ value'[p] = value[p]
<1>1. PICK u : u = fileCache!Used(k)
  OBVIOUS
<1>2. PICK n : n = IF Len(u) > MaxCacheFileEntities THEN MaxCacheFileEntities ELSE Len(u)
  OBVIOUS
<1>3. PICK kept : kept = SubSeq(u, 1, n)
  OBVIOUS
<1>4. u \in Seq(DOMAIN value \cup {k})
  <2>1. fileCache!RemoveFirst(recent, k) \in Seq(DOMAIN value)
    BY Removed
  <2>2. fileCache!RemoveFirst(recent, k) \in Seq(DOMAIN value \cup {k})
    BY <2>1
  <2> QED BY <1>1, <2>2 DEF fileCache!Used
<1>5. n \in Nat /\ n <= Len(u)
  BY <1>2, <1>4, StaticFileAssumption
<1>6. kept \in Seq(DOMAIN value \cup {k}) /\ kept \in Seq({kept[i] : i \in DOMAIN kept})
  <2>1. kept = [i \in 1 .. n |-> u[i]]
    BY <1>3, <1>4, <1>5
  <2> QED BY <1>4, <1>5, <2>1
<1>7. recent' = kept /\ value' = [j \in {kept[i] : i \in DOMAIN kept} |-> IF j = k THEN v ELSE value[j]]
  BY <1>1, <1>2, <1>3 DEF fileCache!Set
<1> QED BY <1>6, <1>7

-----------------------------------------------------------------------------
(* What a step leaves alone *)

(* Only the request r moves: it is q now.                                  *)
Moves(r, q) == \A s \in Requests : req'[s] = IF s = r THEN q ELSE req[s]

FilesStay == UNCHANGED <<disk, newest, floor>>
CacheStays == UNCHANGED cacheVars

(* Once the compressed file was touched it is never again the one that was *)
(* there at first, and nothing that is promised then is promised anew.     *)
LEMMA Later ==
    ASSUME NEW gz, NEW later, later = 2 => gz = 2
    PROVE  /\ \A e : EntrySound(e, gz) => EntrySound(e, later)
           /\ \A q : RequestSound(q, gz) => RequestSound(q, later)
BY DEF EntrySound, RequestSound, SearchSound, AnswerSound

(* A request under way *)
LEMMA Underway ==
    ASSUME StaticFileInv, NEW r \in Requests, req[r].pc # "done"
    PROVE  /\ req[r] \in Request /\ RequestSound(req[r], disk["gz"])
           /\ DOMAIN req = Requests
           /\ Path(r) \in FilePaths /\ disk[Path(r)] \in AnyVersion
<1>1. req[r] # Unused /\ req[r] \in Request /\ DOMAIN req = Requests
  BY DEF StaticFileInv, StaticFileTypeOK, Unused
<1>2. Path(r) \in FilePaths
  BY DEF Path, FilePaths
<1> QED BY <1>1, <1>2 DEF StaticFileInv, StaticFileTypeOK

(* When one request moves, with the cache or without, the rest is as sound *)
(* as it was.                                                              *)
LEMMA MoveKeeps ==
    ASSUME StaticFileInv, NEW r \in Requests, NEW q \in Request, RequestSound(q, disk["gz"]),
           Moves(r, q), req' \in [Requests -> Request \cup {Unused}], FilesStay,
           recent' \in Seq(DOMAIN value'), DOMAIN value' \subseteq FilePaths,
           \A p \in DOMAIN value' : value'[p] \in Entry /\ EntrySound(value'[p], disk["gz"])
    PROVE  StaticFileInv'
<1>1. StaticFileTypeOK'
  BY DEF StaticFileInv, StaticFileTypeOK, FilesStay
<1>2. \A s \in Requests : req'[s] # Unused => RequestSound(req'[s], disk["gz"])
  BY DEF StaticFileInv, Moves
<1>3. disk' = disk
  BY DEF FilesStay
<1> QED BY <1>1, <1>2, <1>3 DEF StaticFileInv

LEMMA MoveOnly ==
    ASSUME StaticFileInv, NEW r \in Requests, NEW q \in Request, RequestSound(q, disk["gz"]),
           req' = [req EXCEPT ![r] = q], FilesStay, CacheStays
    PROVE  StaticFileInv'
<1>1. Moves(r, q) /\ req' \in [Requests -> Request \cup {Unused}]
  BY DEF StaticFileInv, StaticFileTypeOK, Moves
<1>2. /\ recent' \in Seq(DOMAIN value') /\ DOMAIN value' \subseteq FilePaths
      /\ \A p \in DOMAIN value' : value'[p] \in Entry /\ EntrySound(value'[p], disk["gz"])
  BY DEF StaticFileInv, StaticFileTypeOK, CacheStays, cacheVars
<1> QED BY <1>1, <1>2, MoveKeeps

(* A request with its answer *)
Done(q, reply) == [q EXCEPT !.pc = "done", !.reply = reply]

LEMMA DoneSound ==
    ASSUME NEW gz, NEW q \in Request, RequestSound(q, gz), NEW reply \in Reply,
           AnswerSound(Done(q, reply), gz), EndSound(Done(q, reply))
    PROVE  Done(q, reply) \in Request /\ RequestSound(Done(q, reply), gz)
<1>1. Done(q, reply) \in Request
  BY DEF Done, Request
<1>2. SearchSound(Done(q, reply), gz) /\ OpenSound(Done(q, reply))
  BY DEF Done, Request, RequestSound, SearchSound, OpenSound
<1> QED BY <1>1, <1>2 DEF RequestSound

LEMMA AnswerMoves ==
    ASSUME StaticFileInv, NEW r \in Requests, NEW reply, req[r] \in Request, Answer(r, reply)
    PROVE  req' = [req EXCEPT ![r] = Done(req[r], reply)]
<1>1. DOMAIN req = Requests
  BY DEF StaticFileInv, StaticFileTypeOK
<1> QED BY <1>1 DEF Answer, Done

(* An answer that sends nothing, so that nothing is promised of it *)
LEMMA OtherAnswer ==
    ASSUME StaticFileInv, NEW r \in Requests, NEW reply \in Reply,
           req[r].pc # "done", reply.status \notin {200, 206},
           ~reply.cutShort, reply.status = 500 => req[r].file = 0,
           Answer(r, reply), FilesStay, CacheStays
    PROVE  StaticFileInv'
<1>1. req[r] \in Request /\ RequestSound(req[r], disk["gz"])
  BY Underway
<1>2. AnswerSound(Done(req[r], reply), disk["gz"]) /\ EndSound(Done(req[r], reply))
  BY <1>1 DEF AnswerSound, EndSound, Done, Request
<1>3. Done(req[r], reply) \in Request /\ RequestSound(Done(req[r], reply), disk["gz"])
  BY <1>1, <1>2, DoneSound
<1>4. req' = [req EXCEPT ![r] = Done(req[r], reply)]
  BY <1>1, AnswerMoves
<1> QED BY <1>3, <1>4, MoveOnly

-----------------------------------------------------------------------------
(* The steps of a request *)

(* What answers start from *)
LEMMA NoReplyType == NoReply \in Reply /\ NoReply.status = 0 /\ ~NoReply.cutShort
BY StaticFileAssumption DEF NoReply, Reply, FilePaths, AnyVersion

(* file_type(): who looks for the compressed file gives up only when it is *)
(* gone.                                                                   *)
LEMMA FileTypeKeeps ==
    ASSUME StaticFileInv, NEW r \in Requests, FileType(r) PROVE StaticFileInv'
<1>1. req[r].pc = "type" /\ FilesStay /\ CacheStays
  BY DEF FileType, FilesStay, CacheStays
<1>2. /\ req[r] \in Request /\ RequestSound(req[r], disk["gz"]) /\ DOMAIN req = Requests
  BY <1>1, Underway
<1>3. CASE disk[Path(r)] = 0 /\ req[r].supportCompress /\ GivesUpCompression(r)
  <2>1. PICK q : q = [req[r] EXCEPT !.supportCompress = FALSE, !.noCompressedVersion = TRUE]
    OBVIOUS
  <2>2. req' = [req EXCEPT ![r] = q]
    BY <1>2, <1>3, <2>1 DEF GivesUpCompression
  <2>3. disk["gz"] # 2
    BY <1>3 DEF Path
  <2>4. q \in Request /\ RequestSound(q, disk["gz"])
    BY <1>1, <1>2, <2>1, <2>3 DEF Request, RequestSound, SearchSound, OpenSound, AnswerSound, EndSound
  <2> QED BY <1>1, <2>2, <2>4, MoveOnly
<1>4. CASE Answer(r, [NoReply EXCEPT !.status = 404])
  <2>1. PICK reply : reply = [NoReply EXCEPT !.status = 404]
    OBVIOUS
  <2>2. reply \in Reply /\ reply.status = 404 /\ ~reply.cutShort /\ Answer(r, reply)
    BY <1>4, <2>1, NoReplyType DEF Reply
  <2>3. req[r].pc # "done"
    BY <1>1
  <2> QED BY <1>1, <2>2, <2>3, OtherAnswer
<1>5. CASE req' = [req EXCEPT ![r].pc = "open"]
  <2>1. PICK q : q = [req[r] EXCEPT !.pc = "open"]
    OBVIOUS
  <2>2. req' = [req EXCEPT ![r] = q]
    BY <1>2, <1>5, <2>1
  <2>3. q \in Request /\ RequestSound(q, disk["gz"])
    BY <1>1, <1>2, <2>1 DEF Request, RequestSound, SearchSound, OpenSound, AnswerSound, EndSound
  <2> QED BY <1>1, <2>2, <2>3, MoveOnly
<1> QED BY <1>3, <1>4, <1>5 DEF FileType

(* open_file_dma() *)
LEMMA OpenFileKeeps ==
    ASSUME StaticFileInv, NEW r \in Requests, OpenFile(r) PROVE StaticFileInv'
<1>1. req[r].pc = "open" /\ FilesStay /\ CacheStays
  BY DEF OpenFile, FilesStay, CacheStays
<1>2. /\ req[r] \in Request /\ RequestSound(req[r], disk["gz"]) /\ DOMAIN req = Requests
      /\ disk[Path(r)] \in AnyVersion
  BY <1>1, Underway
<1>3. CASE Answer(r, [NoReply EXCEPT !.status = 500])
  <2>1. PICK reply : reply = [NoReply EXCEPT !.status = 500]
    OBVIOUS
  <2>2. reply \in Reply /\ reply.status = 500 /\ ~reply.cutShort /\ Answer(r, reply)
    BY <1>3, <2>1, NoReplyType DEF Reply
  <2>3. req[r].pc # "done" /\ req[r].file = 0
    BY <1>1, <1>2 DEF RequestSound, OpenSound
  <2> QED BY <1>1, <2>2, <2>3, OtherAnswer
<1>4. CASE disk[Path(r)] # 0 /\ req' = [req EXCEPT ![r].pc = "stat", ![r].file = disk[Path(r)]]
  <2>1. PICK q : q = [req[r] EXCEPT !.pc = "stat", !.file = disk[Path(r)]]
    OBVIOUS
  <2>2. req' = [req EXCEPT ![r] = q]
    BY <1>2, <1>4, <2>1
  <2>3. disk[Path(r)] \in Versions
    BY <1>2, <1>4, StaticFileAssumption DEF Versions, AnyVersion
  <2>4. q \in Request /\ q.pc = "stat" /\ q.file \in Versions
    BY <1>2, <2>1, <2>3, StaticFileAssumption DEF Request, Versions, AnyVersion
  <2>5. RequestSound(q, disk["gz"])
    BY <1>1, <1>2, <2>1, <2>4 DEF Request, RequestSound, SearchSound, OpenSound, AnswerSound, EndSound
  <2> QED BY <1>1, <2>2, <2>4, <2>5, MoveOnly
<1> QED BY <1>3, <1>4 DEF OpenFile

(* The length of a part is the number of bytes its range stands for.       *)
LEMMA PartStandsFor ==
    ASSUME NEW a \in AnyAsk, NEW size \in Nat, NEW x \in Part(ParseRangeHeader(a.range), size)
    PROVE  /\ x.from \in Nat /\ PartLength(x) \in Nat /\ StandsFor(a, size, PartLength(x))
           /\ PartLength(x) >= 1 /\ x.from + PartLength(x) <= size
<1>1. PICK y \in ParseRangeHeader(a.range) :
        y.first < size /\ y.first <= y.last /\ x = [from |-> y.first, to |-> Min({y.last, size - 1})]
  BY DEF Part
<1>2. y.first \in Nat /\ y.last \in Nat
  <2>1. a.range.from \in Numbers /\ a.range.to \in Numbers
    BY DEF AnyAsk
  <2>2. /\ a.range.from # NotDigits /\ a.range.to # NotDigits
        /\ y = [first |-> Number(a.range.from),
                last |-> IF a.range.to = Empty THEN Unlimited ELSE Number(a.range.to)]
    BY DEF ParseRangeHeader
  <2>3. ASSUME NEW n \in Nat \cup {Empty} PROVE Number(n) \in Nat
    <3>1. CASE n = Empty
      BY <3>1 DEF Number
    <3>2. CASE n # Empty
      <4>1. Unlimited + 1 \in Nat \ {0}
        BY StaticFileAssumption
      <4>2. n % (Unlimited + 1) \in Nat
        BY <3>2, <4>1
      <4> QED BY <3>2, <4>2 DEF Number
    <3> QED BY <3>1, <3>2
  <2>4. a.range.from \in Nat \cup {Empty} /\ a.range.to \in Nat \cup {Empty}
    BY <2>1, <2>2, Zenon DEF Numbers
  <2>5. Number(a.range.from) \in Nat /\ Number(a.range.to) \in Nat
    BY <2>3, <2>4
  <2> QED BY <2>2, <2>5, StaticFileAssumption
<1>3. x.from = y.first /\ x.to = (IF y.last <= size - 1 THEN y.last ELSE size - 1)
  BY <1>1, <1>2, TwoNumbers
<1>4. x.to \in Nat /\ x.from \in Nat /\ x.from <= x.to
  BY <1>1, <1>2, <1>3
<1>5. {i \in y.first .. size - 1 : i <= y.last} = x.from .. x.to
  BY <1>1, <1>2, <1>3, <1>4
<1>6. Cardinality(x.from .. x.to) = x.to - x.from + 1
  <2>1. PICK b : b = x.from
    OBVIOUS
  <2>2. PICK c : c = x.to
    OBVIOUS
  <2>3. b \in Int /\ c \in Int /\ ~(b > c)
    BY <1>4, <2>1, <2>2
  <2>4. Cardinality(b .. c) = c - b + 1
    BY <2>3, FS_Interval
  <2> QED BY <2>1, <2>2, <2>4
<1>7. PartLength(x) = Cardinality({i \in y.first .. size - 1 : i <= y.last})
  BY <1>5, <1>6 DEF PartLength
<1>8. PartLength(x) \in Nat /\ PartLength(x) >= 1 /\ x.from + PartLength(x) <= size
  BY <1>1, <1>2, <1>3, <1>4 DEF PartLength
<1> QED BY <1>4, <1>7, <1>8 DEF StandsFor

(* stat(): what the answer promises is decided here, about the open file.  *)
LEMMA StatKeeps ==
    ASSUME StaticFileInv, NEW r \in Requests, Stat(r) PROVE StaticFileInv'
<1>1. req[r].pc = "stat" /\ FilesStay /\ CacheStays
  BY DEF Stat, FilesStay, CacheStays
<1>2. /\ req[r] \in Request /\ RequestSound(req[r], disk["gz"]) /\ DOMAIN req = Requests
      /\ Path(r) \in FilePaths
  BY <1>1, Underway
<1>3. PICK old : old = req[r]
  OBVIOUS
<1>4. PICK version : version = old.file
  OBVIOUS
<1>5. PICK size : size = Size[version]
  OBVIOUS
<1>6. version \in Versions /\ size \in Nat /\ Stamp[version] \in Nat /\ version \in AnyVersion
  BY <1>1, <1>2, <1>3, <1>4, <1>5, StaticFileAssumption DEF RequestSound, OpenSound, Versions, AnyVersion
<1>7. PICK head : head = Bare(r, version)
  OBVIOUS
<1>8. PICK dated : dated = Dated(r, version)
  OBVIOUS
<1>9. /\ head \in Reply /\ head.path = Path(r) /\ head.bytes = 0 /\ head.status = 0
      /\ ~head.cutShort
      /\ dated \in Reply /\ dated.path = Path(r) /\ dated.bytes = 0 /\ dated.status = 0
      /\ ~dated.cutShort /\ dated.lastModified = Stamp[version]
  <2>1. dated = [head EXCEPT !.lastModified = Stamp[version]]
    BY <1>7, <1>8 DEF Dated
  <2> QED BY <1>2, <1>6, <1>7, <2>1, NoReplyType DEF Reply, NoReply, Bare
<1>10. Path(r) = IF old.supportCompress THEN "gz" ELSE "plain"
  BY <1>3 DEF Path
<1>11. PICK parts : parts = Part(ParseRangeHeader(old.ask.range), size)
  OBVIOUS
<1>12. PICK sent : sent = Pieces(r, version)
  OBVIOUS
<1>13. \/ Answer(r, [dated EXCEPT !.status = 304])
       \/ req' = [req EXCEPT ![r] = [old EXCEPT !.pc = "readAll", !.fileSize = size,
                    !.reply = [dated EXCEPT !.encoded = old.supportCompress]]]
       \/ \E x \in sent :
            req' = [req EXCEPT ![r] = [old EXCEPT !.pc = "chunk", !.fileSize = size,
                      !.remainSize = x.bytes, !.from = x.from,
                      !.reply = [x.reply EXCEPT !.encoded = old.supportCompress,
                                                !.length = x.bytes]]]
  <2>1. version = Examined(r)
    BY <1>3, <1>4 DEF Examined
  <2> QED BY <2>1, <1>3, <1>5, <1>8, <1>12, Zenon DEF Stat
<1>14. CASE Answer(r, [dated EXCEPT !.status = 304])
  <2>1. PICK reply : reply = [dated EXCEPT !.status = 304]
    OBVIOUS
  <2>2. reply \in Reply /\ reply.status = 304 /\ ~reply.cutShort /\ Answer(r, reply)
    BY <1>9, <1>14, <2>1 DEF Reply
  <2>3. req[r].pc # "done"
    BY <1>1
  <2> QED BY <1>1, <2>2, <2>3, OtherAnswer
<1>15. CASE req' = [req EXCEPT ![r] = [old EXCEPT !.pc = "readAll", !.fileSize = size,
                      !.reply = [dated EXCEPT !.encoded = old.supportCompress]]]
  <2>1. PICK reply : reply = [dated EXCEPT !.encoded = old.supportCompress]
    OBVIOUS
  <2>2. /\ reply \in Reply /\ reply.encoded = old.supportCompress /\ reply.path = Path(r)
        /\ reply.lastModified = Stamp[version] /\ reply.status = 0 /\ ~reply.cutShort
    BY <1>2, <1>3, <1>9, <2>1 DEF Reply, Request
  <2>3. PICK q : q = [old EXCEPT !.pc = "readAll", !.fileSize = size, !.reply = reply]
    OBVIOUS
  <2>4. q \in Request
    BY <1>2, <1>3, <1>6, <2>2, <2>3 DEF Request
  <2>5. RequestSound(q, disk["gz"])
    BY <1>1, <1>2, <1>3, <1>4, <1>5, <1>6, <1>10, <2>2, <2>3
       DEF Request, RequestSound, SearchSound, OpenSound, AnswerSound, EndSound
  <2> QED BY <1>1, <1>15, <2>1, <2>3, <2>4, <2>5, MoveOnly
<1>16. ASSUME NEW x \in sent
       PROVE  /\ x.from \in Nat /\ x.bytes \in Nat /\ x.from + x.bytes <= size
              /\ x.bytes = 0 => size = 0
              /\ x.reply \in Reply /\ x.reply.path = Path(r) /\ x.reply.bytes = 0
              /\ ~x.reply.cutShort
              /\ \/ /\ x.reply.status = 200 /\ x.bytes = size
                    /\ x.reply.lastModified = Stamp[version]
                 \/ x.reply.status = 206 /\ StandsFor(old.ask, size, x.bytes)
  <2>1. old.ask \in AnyAsk
    BY <1>2, <1>3, StaticFileAssumption DEF Request
  <2>2. CASE x = [from |-> 0, bytes |-> size, reply |-> [dated EXCEPT !.status = 200]]
    BY <1>6, <1>9, <2>2 DEF Reply
  <2>3. CASE \E y \in parts : x = [from |-> y.from, bytes |-> PartLength(y),
                                   reply |-> [head EXCEPT !.status = 206]]
    <3>1. PICK y \in parts : x = [from |-> y.from, bytes |-> PartLength(y),
                                  reply |-> [head EXCEPT !.status = 206]]
      BY <2>3
    <3>2. /\ y.from \in Nat /\ PartLength(y) \in Nat /\ StandsFor(old.ask, size, PartLength(y))
          /\ PartLength(y) >= 1 /\ y.from + PartLength(y) <= size
      BY <1>6, <1>11, <2>1, PartStandsFor
    <3>3. PICK reply : reply = [head EXCEPT !.status = 206]
      OBVIOUS
    <3>4. /\ reply \in Reply /\ reply.path = Path(r) /\ reply.bytes = 0 /\ ~reply.cutShort
          /\ reply.status = 206
      BY <1>9, <3>3 DEF Reply
    <3>5. x.from = y.from /\ x.bytes = PartLength(y) /\ x.reply = reply
      BY <3>1, <3>3
    <3> QED BY <3>2, <3>4, <3>5
  <2>4. sent = IF parts = {}
               THEN {[from |-> 0, bytes |-> size, reply |-> [dated EXCEPT !.status = 200]]}
               ELSE {[from |-> y.from, bytes |-> PartLength(y),
                      reply |-> [head EXCEPT !.status = 206]] : y \in parts}
    BY <1>3, <1>5, <1>7, <1>8, <1>11, <1>12, Zenon DEF Pieces
  <2> QED BY <2>2, <2>3, <2>4, Zenon
<1>17. ASSUME NEW x \in sent,
              req' = [req EXCEPT ![r] = [old EXCEPT !.pc = "chunk", !.fileSize = size,
                        !.remainSize = x.bytes, !.from = x.from,
                        !.reply = [x.reply EXCEPT !.encoded = old.supportCompress,
                                                  !.length = x.bytes]]]
       PROVE  StaticFileInv'
  <2>1. PICK from \in Nat : from = x.from
    BY <1>16
  <2>2. PICK bytes \in Nat : bytes = x.bytes
    BY <1>16
  <2>3. PICK before \in Reply : before = x.reply
    BY <1>16
  <2>4. /\ from + bytes <= size /\ (bytes = 0 => size = 0)
        /\ before.path = Path(r) /\ before.bytes = 0 /\ ~before.cutShort
        /\ \/ before.status = 200 /\ bytes = size /\ before.lastModified = Stamp[version]
           \/ before.status = 206 /\ StandsFor(old.ask, size, bytes)
    BY <1>16, <2>1, <2>2, <2>3
  <2>5. PICK reply : reply = [before EXCEPT !.encoded = old.supportCompress, !.length = bytes]
    OBVIOUS
  <2>6. /\ reply \in Reply /\ reply.encoded = old.supportCompress /\ reply.path = Path(r)
        /\ reply.lastModified = before.lastModified /\ reply.bytes = 0 /\ reply.length = bytes
        /\ reply.status = before.status /\ ~reply.cutShort
    <3>1. old.supportCompress \in BOOLEAN
      BY <1>2, <1>3 DEF Request
    <3> QED BY <2>4, <2>5, <3>1 DEF Reply
  <2>7. PICK q : q = [old EXCEPT !.pc = "chunk", !.fileSize = size, !.remainSize = bytes,
                                 !.from = from, !.reply = reply]
    OBVIOUS
  <2>8. req' = [req EXCEPT ![r] = q]
    BY <1>17, <2>1, <2>2, <2>3, <2>5, <2>7
  <2>9. q \in Request
    BY <1>2, <1>3, <1>6, <2>6, <2>7 DEF Request
  <2>10. /\ q.pc = "chunk" /\ q.ask = old.ask /\ q.reply = reply /\ q.fileSize = size
         /\ q.remainSize = bytes /\ q.from = from /\ q.file = version
         /\ q.supportCompress = old.supportCompress
         /\ q.noCompressedVersion = old.noCompressedVersion /\ q.changed = old.changed
    BY <1>2, <1>3, <1>4, <2>7 DEF Request
  <2>11. SearchSound(q, disk["gz"]) /\ AnswerSound(q, disk["gz"]) /\ EndSound(q)
    BY <1>1, <1>2, <1>3, <2>10 DEF RequestSound, SearchSound, AnswerSound, EndSound
  <2>12. OpenSound(q)
    BY <1>5, <1>6, <1>10, <2>4, <2>6, <2>10 DEF OpenSound
  <2> QED BY <1>1, <2>8, <2>9, <2>11, <2>12, MoveOnly DEF RequestSound
<1> QED BY <1>13, <1>14, <1>15, <1>17

(* read_exactly() of the whole file, which goes to the cache as well       *)
LEMMA ReadAllKeeps ==
    ASSUME StaticFileInv, NEW r \in Requests, ReadAll(r) PROVE StaticFileInv'
<1>1. req[r].pc = "readAll" /\ FilesStay
  BY DEF ReadAll, FilesStay
<1>2. /\ req[r] \in Request /\ RequestSound(req[r], disk["gz"]) /\ DOMAIN req = Requests
      /\ Path(r) \in FilePaths
  BY <1>1, Underway
<1>3. PICK old : old = req[r]
  OBVIOUS
<1>4. PICK bytes : bytes = ReadExactly(r)
  OBVIOUS
<1>5. PICK entry : entry = [version |-> old.file, bytes |-> bytes,
                            lastModified |-> old.reply.lastModified,
                            noCompressedVersion |-> old.noCompressedVersion,
                            changed |-> old.changed]
  OBVIOUS
<1>6. PICK reply : reply = [old.reply EXCEPT !.status = 200, !.version = old.file,
                                             !.bytes = bytes, !.length = bytes]
  OBVIOUS
<1>7. fileCache!Set(Path(r), entry) /\ Answer(r, reply)
  BY <1>3, <1>4, <1>5, <1>6, Zenon DEF ReadAll
<1>8. /\ old.file \in Versions /\ Size[old.file] \in Nat /\ old.fileSize \in Nat
      /\ old.reply \in Reply /\ old.reply.lastModified \in Nat /\ old.file \in AnyVersion
      /\ old.noCompressedVersion \in BOOLEAN /\ old.changed \in BOOLEAN
  BY <1>1, <1>2, <1>3, StaticFileAssumption DEF Request, Reply, RequestSound, OpenSound, Versions, AnyVersion
<1>9. bytes \in Nat /\ (old.fileSize = Size[old.file] => bytes = Size[old.file])
  <2>1. PICK a : a = old.fileSize
    OBVIOUS
  <2>2. PICK b : b = Size[old.file]
    OBVIOUS
  <2>3. a \in Nat /\ b \in Nat /\ a \in Int /\ b \in Int
    BY <1>8, <2>1, <2>2
  <2>4. Min({a, b}) = IF a <= b THEN a ELSE b
    BY <2>3, TwoNumbers
  <2>5. bytes = Min({a, b})
    BY <1>3, <1>4, <2>1, <2>2 DEF ReadExactly
  <2> QED BY <2>1, <2>2, <2>3, <2>4, <2>5
<1>10. /\ ~old.changed => old.reply.lastModified = Stamp[old.file] /\ bytes = Size[old.file]
       /\ old.noCompressedVersion => disk["gz"] # 2
  BY <1>1, <1>2, <1>3, <1>9 DEF RequestSound, SearchSound, OpenSound
<1>11. entry \in Entry /\ EntrySound(entry, disk["gz"])
  BY <1>5, <1>8, <1>9, <1>10 DEF Entry, EntrySound
<1>12. reply \in Reply /\ reply.encoded = old.reply.encoded /\ reply.path = old.reply.path
       /\ reply.lastModified = old.reply.lastModified /\ reply.status = 200
       /\ reply.version = old.file /\ reply.bytes = bytes /\ reply.length = bytes
       /\ ~reply.cutShort
  <2>1. PICK before : before = old.reply
    OBVIOUS
  <2>2. PICK version : version = old.file
    OBVIOUS
  <2>3. before \in Reply /\ version \in AnyVersion /\ 200 \in Nat /\ bytes \in Nat
    BY <1>8, <1>9, <2>1, <2>2
  <2>4. reply = [before EXCEPT !.status = 200, !.version = version, !.bytes = bytes, !.length = bytes]
    BY <1>6, <2>1, <2>2
  <2>5. /\ reply \in Reply /\ reply.encoded = before.encoded /\ reply.path = before.path
        /\ reply.lastModified = before.lastModified /\ reply.status = 200
        /\ reply.version = version /\ reply.bytes = bytes /\ reply.length = bytes
        /\ reply.cutShort = before.cutShort
    BY <2>3, <2>4 DEF Reply
  <2>6. ~old.reply.cutShort
    BY <1>1, <1>2, <1>3 DEF RequestSound, OpenSound
  <2> QED BY <2>1, <2>2, <2>5, <2>6
<1>13. AnswerSound(Done(old, reply), disk["gz"]) /\ EndSound(Done(old, reply))
  <2>1. /\ Done(old, reply).reply = reply /\ Done(old, reply).ask = old.ask
        /\ Done(old, reply).changed = old.changed
    BY <1>2, <1>3 DEF Done, Request
  <2>2. /\ old.reply.encoded = old.supportCompress
        /\ old.reply.path = IF old.supportCompress THEN "gz" ELSE "plain"
        /\ old.supportCompress => AcceptsGzip(old.ask)
        /\ disk["gz"] = 2 /\ AcceptsGzip(old.ask) => old.supportCompress
        /\ old.supportCompress \in BOOLEAN
    BY <1>1, <1>2, <1>3 DEF Request, RequestSound, SearchSound, OpenSound
  <2>3. /\ reply.encoded <=> reply.path = "gz"
        /\ reply.encoded => AcceptsGzip(old.ask)
        /\ disk["gz"] = 2 /\ AcceptsGzip(old.ask) => reply.encoded
    BY <1>12, <2>2
  <2>4. ~old.changed => reply.lastModified = Stamp[reply.version] /\ reply.bytes = Size[reply.version]
    BY <1>10, <1>12
  <2> QED BY <1>12, <2>1, <2>3, <2>4 DEF AnswerSound, EndSound
<1>14. Done(old, reply) \in Request /\ RequestSound(Done(old, reply), disk["gz"])
  BY <1>2, <1>3, <1>12, <1>13, DoneSound
<1>15. Moves(r, Done(old, reply)) /\ req' \in [Requests -> Request \cup {Unused}]
  <2>1. req' = [req EXCEPT ![r] = Done(old, reply)]
    BY <1>2, <1>3, <1>7, AnswerMoves
  <2> QED BY <1>14, <2>1 DEF Moves, StaticFileInv, StaticFileTypeOK
<1>16. /\ recent' \in Seq(DOMAIN value') /\ DOMAIN value' \subseteq FilePaths
       /\ \A p \in DOMAIN value' : value'[p] \in Entry /\ EntrySound(value'[p], disk["gz"])
  <2>1. /\ recent' \in Seq(DOMAIN value')
        /\ \A p \in DOMAIN value' : \/ p = Path(r) /\ value'[p] = entry
                                    \/ p # Path(r) /\ p \in DOMAIN value /\ value'[p] = value[p]
    BY <1>7, SetKeeps DEF StaticFileInv, StaticFileTypeOK
  <2> QED BY <1>2, <1>11, <2>1 DEF StaticFileInv, StaticFileTypeOK
<1> QED BY <1>1, <1>14, <1>15, <1>16, MoveKeeps

(* read_up_to(): what is sent and what is left add up to Content-Length.   *)
LEMMA ReadChunkKeeps ==
    ASSUME StaticFileInv, NEW r \in Requests, ReadChunk(r) PROVE StaticFileInv'
<1>1. req[r].pc = "chunk" /\ FilesStay /\ CacheStays
  BY DEF ReadChunk, FilesStay, CacheStays
<1>2. /\ req[r] \in Request /\ RequestSound(req[r], disk["gz"]) /\ DOMAIN req = Requests
  BY <1>1, Underway
<1>3. PICK old : old = req[r]
  OBVIOUS
<1>4. /\ old.reply \in Reply /\ old.file \in Versions /\ old.file \in AnyVersion
      /\ old.remainSize \in Nat /\ old.reply.bytes \in Nat /\ old.from \in Nat
      /\ old.reply.length \in Nat /\ old.reply.bytes + old.remainSize = old.reply.length
      /\ Size[old.file] \in Nat
  BY <1>1, <1>2, <1>3, StaticFileAssumption DEF Request, Reply, RequestSound, OpenSound, Versions, AnyVersion
<1>5. /\ OpenSound(old) /\ SearchSound(old, disk["gz"]) /\ old.pc = "chunk"
      /\ old.fileSize \in Nat /\ old.from + old.reply.length <= old.fileSize
      /\ ~old.reply.cutShort
  BY <1>1, <1>2, <1>3 DEF Request, RequestSound, OpenSound
<1>6. PICK left \in Nat : left = Left(r) /\ (left = 0 => Size[old.file] <= old.from + old.reply.bytes)
  <2>1. PICK b : b = Size[old.file] - old.from - old.reply.bytes
    OBVIOUS
  <2>2. b \in Int /\ 0 \in Int
    BY <1>4, <2>1
  <2>3. Max({0, b}) = IF 0 >= b THEN 0 ELSE b
    BY <2>2, TwoNumbers
  <2>4. Left(r) = Max({0, b})
    BY <1>3, <2>1 DEF Left
  <2>5. b <= 0 => Size[old.file] <= old.from + old.reply.bytes
    BY <1>4, <2>1
  <2> QED BY <2>2, <2>3, <2>4, <2>5
<1>7. /\ ReadUpTo(r) \in Nat /\ ReadUpTo(r) <= old.remainSize
      /\ ReadUpTo(r) = 0 => old.remainSize = 0 \/ left = 0
  <2>1. PICK a : a = old.remainSize
    OBVIOUS
  <2>2. a \in Nat /\ ReadFileChunkSize \in Nat /\ ReadFileChunkSize # 0
    BY <1>4, <2>1, StaticFileAssumption
  <2>3. PICK m : m = Min({a, ReadFileChunkSize, left})
    OBVIOUS
  <2>4. m \in Nat /\ m <= a /\ m \in {a, ReadFileChunkSize, left}
    BY <2>2, <2>3, MinOfThree
  <2> QED BY <1>3, <1>6, <2>1, <2>2, <2>3, <2>4 DEF ReadUpTo
<1>8. CASE ReadUpTo(r) = 0 /\ Answer(r, [Aborted(old.reply) EXCEPT !.version = old.file])
  <2>1. PICK before \in Reply : before = old.reply
    BY <1>4
  <2>2. PICK version \in AnyVersion : version = old.file
    BY <1>4
  <2>3. PICK reply : reply = [Aborted(before) EXCEPT !.version = version]
    OBVIOUS
  <2>4. old.changed \/ old.fileSize = 0
    <3>1. CASE old.remainSize = 0
      BY <1>5, <3>1 DEF OpenSound
    <3>2. CASE left = 0 /\ ~old.changed /\ old.remainSize # 0
      BY <1>4, <1>5, <1>6, <3>2 DEF OpenSound
    <3> QED BY <1>7, <1>8, <3>1, <3>2
  <2>5. PICK q : q = Done(old, reply)
    OBVIOUS
  <2>6. /\ reply \in Reply /\ reply.path = before.path /\ reply.encoded = before.encoded
        /\ reply.bytes = before.bytes /\ reply.version = version
        /\ \/ reply.status = 500
           \/ /\ reply.status = before.status /\ reply.cutShort
              /\ reply.length = before.length /\ reply.lastModified = before.lastModified
    <3>1. CASE before.bytes = 0
      <4>1. PICK status \in Nat : status = 500
        OBVIOUS
      <4>2. reply = [before EXCEPT !.status = status, !.length = 0, !.version = version]
        BY <2>3, <3>1, <4>1 DEF Aborted, Reply
      <4>3. /\ reply \in Reply /\ reply.path = before.path /\ reply.encoded = before.encoded
            /\ reply.bytes = before.bytes /\ reply.version = version /\ reply.status = status
        BY <4>2 DEF Reply
      <4> QED BY <4>1, <4>3
    <3>2. CASE before.bytes # 0
      <4>1. reply = [before EXCEPT !.cutShort = TRUE, !.version = version]
        BY <2>3, <3>2 DEF Aborted, Reply
      <4> QED BY <4>1 DEF Reply
    <3> QED BY <3>1, <3>2
  <2>7. q.ask = old.ask /\ q.changed = old.changed /\ q.fileSize = old.fileSize /\ q.reply = reply
    BY <1>2, <1>3, <2>5 DEF Done, Request
  <2>8. EndSound(q)
    BY <2>4, <2>7 DEF EndSound
  <2>9. AnswerSound(q, disk["gz"])
    <3> SUFFICES ASSUME reply.status \in {200, 206} PROVE AnswerSound(q, disk["gz"])
      BY <2>7 DEF AnswerSound
    <3>1. /\ reply.status = before.status /\ reply.cutShort
          /\ reply.length = before.length /\ reply.lastModified = before.lastModified
      BY <2>6
    <3>2. /\ old.supportCompress => AcceptsGzip(old.ask)
          /\ disk["gz"] = 2 /\ AcceptsGzip(old.ask) => old.supportCompress
          /\ old.supportCompress \in BOOLEAN
      BY <1>2, <1>3, <1>5 DEF Request, SearchSound
    <3>3. /\ reply.encoded <=> reply.path = "gz"
          /\ reply.encoded => AcceptsGzip(old.ask)
          /\ disk["gz"] = 2 /\ AcceptsGzip(old.ask) => reply.encoded
      BY <1>5, <2>1, <2>6, <3>2 DEF OpenSound
    <3>4. old.remainSize # 0
      <4>1. CASE old.fileSize = 0 /\ old.remainSize = 0
        <5>1. reply.bytes = 0
          <6>1. PICK length \in Nat : length = old.reply.length
            BY <1>4
          <6>2. PICK from \in Nat : from = old.from
            BY <1>4
          <6>3. from + length <= 0
            BY <1>5, <4>1, <6>1, <6>2
          <6>4. length = 0
            BY <6>3
          <6>5. PICK bytes \in Nat : bytes = before.bytes
            BY <2>1 DEF Reply
          <6>6. bytes = 0
            BY <1>4, <2>1, <4>1, <6>1, <6>4, <6>5
          <6> QED BY <2>6, <6>5, <6>6
        <5>2. reply.status = 500
          BY <2>1, <2>2, <2>3, <2>6, <5>1 DEF Aborted, Reply
        <5> QED BY <5>2
      <4> QED BY <1>5, <4>1 DEF OpenSound
    <3>5. reply.bytes < reply.length
      BY <1>4, <2>1, <2>6, <3>1, <3>4
    <3>6. reply.status = 206 => StandsFor(old.ask, old.fileSize, reply.length)
      BY <1>5, <2>1, <3>1 DEF OpenSound
    <3>7. ~old.changed => old.fileSize = 0 /\ old.fileSize = Size[version] /\ reply.length = 0
      <4> SUFFICES ASSUME ~old.changed PROVE old.fileSize = 0 /\ old.fileSize = Size[version] /\ reply.length = 0
        OBVIOUS
      <4>1. old.fileSize = 0 /\ old.fileSize = Size[version]
        BY <1>5, <2>2, <2>4 DEF OpenSound
      <4>2. PICK length \in Nat : length = before.length
        BY <2>1 DEF Reply
      <4>3. PICK from \in Nat : from = old.from
        BY <1>4
      <4>4. from + length <= 0
        BY <1>5, <2>1, <4>1, <4>2, <4>3
      <4>5. length = 0
        BY <4>4
      <4> QED BY <3>1, <4>1, <4>2, <4>5
    <3>8. reply.bytes \in Nat /\ reply.length \in Nat
      BY <2>6 DEF Reply
    <3> QED BY <2>7, <3>1, <3>3, <3>5, <3>6, <3>7, <3>8 DEF AnswerSound
  <2>10. q \in Request /\ RequestSound(q, disk["gz"])
    BY <1>2, <1>3, <2>5, <2>6, <2>8, <2>9, DoneSound
  <2>11. req' = [req EXCEPT ![r] = q]
    BY <1>2, <1>3, <1>8, <2>1, <2>2, <2>3, <2>5, AnswerMoves
  <2> QED BY <1>1, <2>10, <2>11, MoveOnly
<1>9. ASSUME NEW n \in 1 .. ReadUpTo(r),
             req' = [req EXCEPT ![r].remainSize = @ - n, ![r].reply.bytes = @ + n,
                                ![r].reply.version = old.file,
                                ![r].pc = IF old.remainSize = n THEN "done" ELSE "chunk"]
      PROVE  StaticFileInv'
  <2>2. n \in Nat /\ n >= 1 /\ n <= old.remainSize
    BY <1>4, <1>7
  <2>3. PICK reply : reply = [old.reply EXCEPT !.bytes = old.reply.bytes + n, !.version = old.file]
    OBVIOUS
  <2>4. PICK q : q = [old EXCEPT !.remainSize = old.remainSize - n, !.reply = reply,
                                 !.pc = IF old.remainSize = n THEN "done" ELSE "chunk"]
    OBVIOUS
  <2>5. req' = [req EXCEPT ![r] = q]
    BY <1>2, <1>3, <1>4, <1>9, <2>3, <2>4 DEF Request, Reply
  <2>6. /\ reply \in Reply /\ reply.bytes = old.reply.bytes + n /\ reply.version = old.file
        /\ reply.status = old.reply.status /\ reply.path = old.reply.path
        /\ reply.length = old.reply.length /\ reply.lastModified = old.reply.lastModified
        /\ reply.encoded = old.reply.encoded /\ reply.cutShort = old.reply.cutShort
    <3>1. PICK before : before = old.reply
      OBVIOUS
    <3>2. PICK version : version = old.file
      OBVIOUS
    <3>3. PICK bytes : bytes = old.reply.bytes + n
      OBVIOUS
    <3>4. before \in Reply /\ version \in AnyVersion /\ bytes \in Nat
      BY <1>4, <2>2, <3>1, <3>2, <3>3
    <3>5. reply = [before EXCEPT !.bytes = bytes, !.version = version]
      BY <2>3, <3>1, <3>2, <3>3
    <3>6. /\ reply \in Reply /\ reply.bytes = bytes /\ reply.version = version
          /\ reply.status = before.status /\ reply.path = before.path
          /\ reply.length = before.length /\ reply.lastModified = before.lastModified
          /\ reply.encoded = before.encoded /\ reply.cutShort = before.cutShort
      BY <3>4, <3>5 DEF Reply
    <3> QED BY <3>1, <3>2, <3>3, <3>6
  <2>7. old.remainSize - n \in Nat
    BY <1>4, <2>2
  <2>8. /\ q \in Request
        /\ q.remainSize = old.remainSize - n /\ q.reply = reply /\ q.ask = old.ask
        /\ q.supportCompress = old.supportCompress /\ q.changed = old.changed
        /\ q.noCompressedVersion = old.noCompressedVersion /\ q.file = old.file
        /\ q.fileSize = old.fileSize /\ q.from = old.from /\ q.pc = IF old.remainSize = n THEN "done" ELSE "chunk"
    BY <1>2, <1>3, <2>4, <2>6, <2>7 DEF Request
  <2>9. SearchSound(q, disk["gz"])
    BY <1>1, <1>2, <1>3, <2>8 DEF RequestSound, SearchSound
  <2>10. reply.bytes + q.remainSize = reply.length
    BY <1>4, <2>2, <2>6, <2>8
  <2>11. OpenSound(old) /\ old.pc = "chunk" /\ ~reply.cutShort
    BY <1>5, <2>6
  <2>12. OpenSound(q) /\ EndSound(q)
    <3>1. q.pc = "chunk" => q.remainSize # 0
      BY <1>4, <2>2, <2>8
    <3>2. reply.status \in {200, 206}
      BY <2>6, <2>11 DEF OpenSound
    <3> QED BY <2>6, <2>8, <2>10, <2>11, <3>1, <3>2 DEF OpenSound, EndSound
  <2>13. AnswerSound(q, disk["gz"])
    <3> SUFFICES ASSUME q.pc = "done", reply.status \in {200, 206} PROVE AnswerSound(q, disk["gz"])
      BY <2>8 DEF AnswerSound
    <3>1. q.remainSize = 0 /\ reply.bytes = reply.length
      <4>1. old.remainSize = n
        BY <2>8
      <4>2. q.remainSize = 0
        BY <1>4, <2>2, <2>8, <4>1
      <4> QED BY <2>6, <2>10, <4>2 DEF Reply
    <3>2. /\ reply.encoded <=> reply.path = "gz"
          /\ reply.encoded => AcceptsGzip(old.ask)
          /\ disk["gz"] = 2 /\ AcceptsGzip(old.ask) => reply.encoded
      <4>1. /\ old.supportCompress => AcceptsGzip(old.ask)
            /\ disk["gz"] = 2 /\ AcceptsGzip(old.ask) => old.supportCompress
            /\ old.supportCompress \in BOOLEAN
        BY <1>1, <1>2, <1>3 DEF Request, RequestSound, SearchSound
      <4> QED BY <2>6, <2>11, <4>1 DEF OpenSound
    <3>3. /\ ~old.changed /\ reply.status = 200 => /\ reply.lastModified = Stamp[reply.version]
                                                   /\ reply.bytes = Size[reply.version]
          /\ reply.status = 206 => /\ StandsFor(old.ask, old.fileSize, reply.length)
                                   /\ ~old.changed => old.fileSize = Size[reply.version]
      BY <2>6, <2>11, <3>1 DEF OpenSound
    <3> QED BY <2>8, <2>11, <3>1, <3>2, <3>3 DEF AnswerSound
  <2> QED BY <1>1, <2>5, <2>8, <2>9, <2>12, <2>13, MoveOnly DEF RequestSound
<1> QED BY <1>3, <1>8, <1>9 DEF ReadChunk

(* A request that begins looks for the compressed file if it may have it.  *)
LEMMA BegunSound ==
    ASSUME StaticFileInv, NEW a \in Asks
    PROVE  Begun(a) \in Request /\ RequestSound(Begun(a), disk["gz"])
<1>1. a.gzip \in BOOLEAN /\ floor \in [FilePaths -> AnyVersion] /\ 0 \in AnyVersion
  BY StaticFileAssumption DEF AnyAsk, StaticFileInv, StaticFileTypeOK, AnyVersion
<1>2. Begun(a) \in Request
  BY <1>1, NoReplyType DEF Begun, Request
<1>3. RequestSound(Begun(a), disk["gz"])
  <2>1. PICK q : q = Begun(a)
    OBVIOUS
  <2>2. /\ q.pc = "type" /\ q.file = 0 /\ q.ask = a /\ ~q.changed /\ ~q.noCompressedVersion
        /\ q.supportCompress = (a.gzip /\ a.range.form = "none")
    BY <2>1 DEF Begun
  <2>3. SearchSound(q, disk["gz"])
    BY <1>1, <2>2 DEF SearchSound, AcceptsGzip
  <2>4. OpenSound(q) /\ AnswerSound(q, disk["gz"]) /\ EndSound(q)
    BY <2>2 DEF OpenSound, AnswerSound, EndSound
  <2> QED BY <2>1, <2>3, <2>4 DEF RequestSound
<1> QED BY <1>2, <1>3

(* FileCacheEntry::reply(), when the entry is one that will do             *)
LEMMA CachedSound ==
    ASSUME StaticFileInv, NEW a \in Asks, a.range.form = "none",
           NEW path \in FilePaths, path = "gz" => a.gzip,
           NEW e \in Entry, EntrySound(e, disk["gz"]), Usable(a.gzip, path, e),
           NEW q, q = [Begun(a) EXCEPT !.pc = "done", !.changed = e.changed,
                                       !.reply = CachedReply(a, path, e)]
    PROVE  q \in Request /\ RequestSound(q, disk["gz"])
<1>1. PICK begun : begun = Begun(a)
  OBVIOUS
<1>2. begun \in Request /\ RequestSound(begun, disk["gz"]) /\ begun.ask = a
      /\ begun.noCompressedVersion = FALSE
  BY <1>1, BegunSound DEF Begun
<1>3. PICK reply : reply = CachedReply(a, path, e)
  OBVIOUS
<1>4. /\ e.version \in Versions /\ e.bytes \in Nat /\ e.lastModified \in Nat /\ e.changed \in BOOLEAN
      /\ e.version \in AnyVersion /\ e.noCompressedVersion \in BOOLEAN /\ a.gzip \in BOOLEAN
  BY StaticFileAssumption DEF Entry, Versions, AnyVersion, AnyAsk
<1>5. CASE a.since = e.lastModified
  <2>1. reply = [NoReply EXCEPT !.status = 304, !.path = path, !.version = e.version,
                                !.lastModified = e.lastModified]
    BY <1>3, <1>5 DEF CachedReply
  <2>2. reply \in Reply /\ reply.status = 304 /\ ~reply.cutShort
    <3>1. PICK status \in Nat : status = 304
      OBVIOUS
    <3>2. PICK version \in AnyVersion : version = e.version
      BY <1>4
    <3>3. PICK time \in Nat : time = e.lastModified
      BY <1>4
    <3>4. reply = [NoReply EXCEPT !.status = status, !.path = path, !.version = version,
                                  !.lastModified = time]
      BY <2>1, <3>1, <3>2, <3>3
    <3>5. reply \in Reply /\ reply.status = status /\ ~reply.cutShort
      BY <3>4, NoReplyType DEF Reply
    <3> QED BY <3>1, <3>5
  <2>3. /\ q \in Request /\ q.pc = "done" /\ q.reply = reply /\ q.ask = a
        /\ q.supportCompress = begun.supportCompress /\ q.noCompressedVersion = FALSE
    <3>1. PICK changed \in BOOLEAN : changed = e.changed
      BY <1>4
    <3>2. q = [begun EXCEPT !.pc = "done", !.changed = changed, !.reply = reply]
      BY <1>1, <1>3, <3>1
    <3>3. PICK answer \in Reply : answer = reply
      BY <2>2
    <3>4. /\ q \in Request /\ q.pc = "done" /\ q.reply = answer /\ q.ask = begun.ask
          /\ q.supportCompress = begun.supportCompress
          /\ q.noCompressedVersion = begun.noCompressedVersion
      BY <1>2, <3>2, <3>3 DEF Request
    <3> QED BY <1>2, <3>3, <3>4
  <2>4. SearchSound(q, disk["gz"]) /\ OpenSound(q) /\ AnswerSound(q, disk["gz"]) /\ EndSound(q)
    BY <1>2, <2>2, <2>3 DEF RequestSound, SearchSound, OpenSound, AnswerSound, EndSound
  <2> QED BY <2>3, <2>4 DEF RequestSound
<1>6. CASE a.since # e.lastModified
  <2>1. reply = [status |-> 200, path |-> path, version |-> e.version, bytes |-> e.bytes,
                 length |-> e.bytes, lastModified |-> e.lastModified, encoded |-> path = "gz",
                 cutShort |-> FALSE]
    BY <1>3, <1>6 DEF CachedReply
  <2>2. /\ reply \in Reply /\ reply.status = 200 /\ reply.path = path /\ reply.version = e.version
        /\ reply.bytes = e.bytes /\ reply.length = e.bytes /\ reply.lastModified = e.lastModified
        /\ reply.encoded <=> path = "gz"
        /\ ~reply.cutShort
    <3>1. PICK enc \in BOOLEAN : enc = (path = "gz")
      OBVIOUS
    <3>2. reply = [status |-> 200, path |-> path, version |-> e.version, bytes |-> e.bytes,
                   length |-> e.bytes, lastModified |-> e.lastModified, encoded |-> enc,
                   cutShort |-> FALSE]
      BY <2>1, <3>1
    <3>3. reply \in Reply
      BY <1>4, <3>2 DEF Reply
    <3> QED BY <3>1, <3>2, <3>3
  <2>3. /\ q \in Request /\ q.pc = "done" /\ q.reply = reply /\ q.ask = a
        /\ q.supportCompress = begun.supportCompress /\ q.noCompressedVersion = FALSE
        /\ q.changed = e.changed
    BY <1>1, <1>2, <1>3, <1>4, <2>2 DEF Request
  <2>4. SearchSound(q, disk["gz"]) /\ OpenSound(q)
    BY <1>2, <2>3 DEF RequestSound, SearchSound, OpenSound
  <2>5. disk["gz"] = 2 /\ AcceptsGzip(a) => path = "gz"
    BY <1>4 DEF Usable, EntrySound, AcceptsGzip
  <2>6. path = "gz" => AcceptsGzip(a)
    BY DEF AcceptsGzip
  <2>7. ~e.changed => reply.lastModified = Stamp[reply.version] /\ reply.bytes = Size[reply.version]
    BY <2>2 DEF EntrySound
  <2>8. AnswerSound(q, disk["gz"]) /\ EndSound(q)
    BY <2>2, <2>3, <2>5, <2>6, <2>7 DEF AnswerSound, EndSound
  <2> QED BY <2>3, <2>4, <2>8 DEF RequestSound
<1> QED BY <1>5, <1>6

(* handle() *)
LEMMA HandleFileKeeps ==
    ASSUME StaticFileInv, NEW r \in Requests, NEW a \in Asks, HandleFile(r, a)
    PROVE  StaticFileInv'
<1>1. FilesStay
  BY DEF HandleFile, FilesStay
<1>2. PICK lookup : lookup = IF a.gzip /\ "gz" \in DOMAIN value THEN "gz" ELSE "plain"
  OBVIOUS
<1>3. PICK cached \in BOOLEAN : cached <=> MaxCacheFileEntities > 0 /\ a.range.form = "none"
  OBVIOUS
<1>4. /\ IF cached THEN fileCache!Get(lookup) ELSE UNCHANGED cacheVars
      /\ IF cached /\ hit' # fileCache!NoValue /\ Usable(a.gzip, lookup, hit')
         THEN req' = [req EXCEPT ![r] = [Begun(a) EXCEPT !.pc = "done",
                        !.changed = hit'.changed, !.reply = CachedReply(a, lookup, hit')]]
         ELSE req' = [req EXCEPT ![r] = Begun(a)]
  BY <1>2, <1>3 DEF HandleFile
<1>5. /\ value' = value /\ recent' \in Seq(DOMAIN value)
      /\ cached /\ hit' # fileCache!NoValue => lookup \in DOMAIN value /\ hit' = value[lookup]
  <2>1. recent \in Seq(DOMAIN value)
    BY DEF StaticFileInv, StaticFileTypeOK
  <2>2. CASE cached
    BY <1>4, <2>1, <2>2, GetKeeps
  <2>3. CASE ~cached
    BY <1>4, <2>1, <2>3 DEF cacheVars
  <2> QED BY <2>2, <2>3
<1>6. /\ recent' \in Seq(DOMAIN value') /\ DOMAIN value' \subseteq FilePaths
      /\ \A p \in DOMAIN value' : value'[p] \in Entry /\ EntrySound(value'[p], disk["gz"])
  BY <1>5 DEF StaticFileInv, StaticFileTypeOK
<1>7. \E q \in Request : RequestSound(q, disk["gz"]) /\ req' = [req EXCEPT ![r] = q]
  <2>1. CASE req' = [req EXCEPT ![r] = Begun(a)]
    BY <2>1, BegunSound
  <2>2. CASE /\ cached /\ hit' # fileCache!NoValue /\ Usable(a.gzip, lookup, hit')
             /\ req' = [req EXCEPT ![r] = [Begun(a) EXCEPT !.pc = "done",
                          !.changed = hit'.changed, !.reply = CachedReply(a, lookup, hit')]]
    <3>1. PICK e : e = hit'
      OBVIOUS
    <3>2. e \in Entry /\ EntrySound(e, disk["gz"]) /\ lookup \in FilePaths
      BY <1>5, <2>2, <3>1 DEF StaticFileInv, StaticFileTypeOK
    <3>3. a.range.form = "none" /\ (lookup = "gz" => a.gzip) /\ Usable(a.gzip, lookup, e)
      BY <1>2, <1>3, <2>2, <3>1
    <3>4. PICK q : q = [Begun(a) EXCEPT !.pc = "done", !.changed = e.changed,
                                        !.reply = CachedReply(a, lookup, e)]
      OBVIOUS
    <3>5. q \in Request /\ RequestSound(q, disk["gz"])
      BY <3>2, <3>3, <3>4, CachedSound
    <3>6. req' = [req EXCEPT ![r] = q]
      BY <2>2, <3>1, <3>4
    <3> QED BY <3>5, <3>6
  <2> QED BY <1>4, <2>1, <2>2
<1>8. PICK q \in Request : RequestSound(q, disk["gz"]) /\ req' = [req EXCEPT ![r] = q]
  BY <1>7
<1>9. Moves(r, q) /\ req' \in [Requests -> Request \cup {Unused}]
  BY <1>8 DEF StaticFileInv, StaticFileTypeOK, Moves
<1> QED BY <1>1, <1>6, <1>8, <1>9, MoveKeeps

-----------------------------------------------------------------------------
(* The cache and the files *)

(* clearCache() *)
LEMMA ClearCacheKeeps ==
    ASSUME StaticFileInv, ClearCache PROVE StaticFileInv'
<1>1. /\ recent' = <<>> /\ DOMAIN value' = {} /\ floor' = disk
      /\ disk' = disk /\ newest' = newest /\ req' = req
  BY DEF ClearCache, fileCache!ForgetAll
<1>2. recent' \in Seq(DOMAIN value')
  BY <1>1
<1> QED BY <1>1, <1>2 DEF StaticFileInv, StaticFileTypeOK

(* The next version is none of the first two.                              *)
LEMMA NextVersion ==
    ASSUME StaticFileInv, newest < MaxVersion
    PROVE  /\ newest + 1 \in Versions /\ newest + 1 \in AnyVersion /\ newest + 1 # 2
           /\ newest + 1 \in 2 .. MaxVersion
BY StaticFileAssumption DEF StaticFileInv, StaticFileTypeOK, Versions, AnyVersion

(* What becomes of a file changes no promise that was made: the file of an *)
(* open request stays, or is marked as changed while it is read.           *)
LEMMA FilesChange ==
    ASSUME StaticFileInv, NEW p \in FilePaths, NEW version \in AnyVersion, version # 2,
           disk' = [disk EXCEPT ![p] = version], newest' \in 2 .. MaxVersion,
           UNCHANGED <<cacheVars, floor>>,
           req' \in [Requests -> Request \cup {Unused}],
           \A r \in Requests : req'[r] # Unused => RequestSound(req'[r], disk["gz"])
    PROVE  StaticFileInv'
<1>1. disk \in [FilePaths -> AnyVersion] /\ "gz" \in FilePaths
  BY DEF StaticFileInv, StaticFileTypeOK, FilePaths
<1>2. disk'["gz"] = 2 => disk["gz"] = 2
  BY <1>1
<1>3. UNCHANGED <<recent, value, hit, floor>>
  BY DEF cacheVars
<1>4. StaticFileTypeOK'
  BY <1>1, <1>3 DEF StaticFileInv, StaticFileTypeOK
<1>5. PICK gz : gz = disk["gz"]
  OBVIOUS
<1>6. PICK later : later = disk'["gz"]
  OBVIOUS
<1>7. /\ \A e : EntrySound(e, gz) => EntrySound(e, later)
      /\ \A q : RequestSound(q, gz) => RequestSound(q, later)
  BY <1>2, <1>5, <1>6, Later
<1> QED BY <1>3, <1>4, <1>5, <1>6, <1>7 DEF StaticFileInv

LEMMA ReplaceKeeps ==
    ASSUME StaticFileInv, NEW p \in FilePaths, ReplaceFile(p) PROVE StaticFileInv'
<1>1. /\ newest < MaxVersion /\ newest' = newest + 1 /\ req' = req
      /\ disk' = [disk EXCEPT ![p] = newest + 1] /\ UNCHANGED <<cacheVars, floor>>
  BY DEF ReplaceFile
<1>2. PICK version : version = newest + 1
  OBVIOUS
<1>3. version \in AnyVersion /\ version # 2 /\ newest' \in 2 .. MaxVersion
  BY <1>1, <1>2, NextVersion
<1>4. /\ req' \in [Requests -> Request \cup {Unused}]
      /\ \A r \in Requests : req'[r] # Unused => RequestSound(req'[r], disk["gz"])
  BY <1>1 DEF StaticFileInv, StaticFileTypeOK
<1> QED BY <1>1, <1>2, <1>3, <1>4, FilesChange

LEMMA RemoveKeeps ==
    ASSUME StaticFileInv, NEW p \in FilePaths, RemoveFile(p) PROVE StaticFileInv'
<1>1. /\ disk' = [disk EXCEPT ![p] = 0] /\ req' = req /\ newest' = newest
      /\ UNCHANGED <<cacheVars, floor>>
  BY DEF RemoveFile
<1>2. PICK version : version = 0
  OBVIOUS
<1>3. version \in AnyVersion /\ version # 2 /\ newest' \in 2 .. MaxVersion
  BY <1>1, <1>2, StaticFileAssumption DEF StaticFileInv, StaticFileTypeOK, AnyVersion
<1>4. /\ req' \in [Requests -> Request \cup {Unused}]
      /\ \A r \in Requests : req'[r] # Unused => RequestSound(req'[r], disk["gz"])
  BY <1>1 DEF StaticFileInv, StaticFileTypeOK
<1> QED BY <1>1, <1>2, <1>3, <1>4, FilesChange

LEMMA WriteIntoKeeps ==
    ASSUME StaticFileInv, NEW p \in FilePaths, WriteIntoFile(p) PROVE StaticFileInv'
<1>1. PICK version : version = newest + 1
  OBVIOUS
<1>2. /\ newest < MaxVersion /\ newest' = version
      /\ disk' = [disk EXCEPT ![p] = version] /\ UNCHANGED <<cacheVars, floor>>
      /\ req' = [r \in Requests |->
                  IF req[r].pc \in {"stat", "readAll", "chunk"} /\ req[r].file = disk[p]
                  THEN [req[r] EXCEPT !.file = version, !.changed = (req[r].pc # "stat")]
                  ELSE req[r]]
  BY <1>1 DEF WriteIntoFile
<1>3. version \in AnyVersion /\ version \in Versions /\ version # 2 /\ newest' \in 2 .. MaxVersion
  BY <1>1, <1>2, NextVersion
<1>4. ASSUME NEW r \in Requests
      PROVE  /\ req'[r] \in Request \cup {Unused}
             /\ req'[r] # Unused => RequestSound(req'[r], disk["gz"])
  <2>1. CASE req[r].pc \in {"stat", "readAll", "chunk"} /\ req[r].file = disk[p]
    <3>1. PICK old : old = req[r]
      OBVIOUS
    <3>2. old \in Request /\ RequestSound(old, disk["gz"]) /\ old.pc \in {"stat", "readAll", "chunk"}
      BY <2>1, <3>1, Underway
    <3>3. PICK changed \in BOOLEAN : changed = (old.pc # "stat")
      OBVIOUS
    <3>4. req'[r] = [old EXCEPT !.file = version, !.changed = changed]
      BY <1>2, <2>1, <3>1, <3>3
    <3>5. PICK q : q = [old EXCEPT !.file = version, !.changed = changed]
      OBVIOUS
    <3>6. /\ q \in Request /\ q.pc = old.pc /\ q.ask = old.ask /\ q.reply = old.reply
          /\ q.supportCompress = old.supportCompress /\ q.file = version /\ q.changed = changed
          /\ q.noCompressedVersion = old.noCompressedVersion
          /\ q.fileSize = old.fileSize /\ q.remainSize = old.remainSize /\ q.from = old.from
      BY <1>3, <3>2, <3>5 DEF Request
    <3>7. SearchSound(q, disk["gz"])
      BY <3>2, <3>6 DEF RequestSound, SearchSound
    <3>8. OpenSound(q)
      <4>1. OpenSound(old) /\ changed \in BOOLEAN /\ (changed <=> q.pc # "stat")
        BY <3>2, <3>3, <3>6 DEF RequestSound
      <4>2. CASE q.pc = "stat"
        BY <1>3, <3>6, <4>1, <4>2 DEF OpenSound
      <4>3. CASE q.pc \in {"readAll", "chunk"}
        BY <1>3, <3>6, <4>1, <4>3 DEF OpenSound
      <4> QED BY <3>2, <3>6, <4>2, <4>3
    <3>9. AnswerSound(q, disk["gz"]) /\ EndSound(q)
      BY <3>2, <3>6 DEF AnswerSound, EndSound
    <3> QED BY <3>4, <3>5, <3>6, <3>7, <3>8, <3>9 DEF RequestSound
  <2>2. CASE ~(req[r].pc \in {"stat", "readAll", "chunk"} /\ req[r].file = disk[p])
    <3>1. req'[r] = req[r]
      BY <1>2, <2>2
    <3> QED BY <3>1 DEF StaticFileInv, StaticFileTypeOK
  <2> QED BY <2>1, <2>2
<1>5. req' \in [Requests -> Request \cup {Unused}]
  BY <1>2, <1>4
<1> QED BY <1>2, <1>3, <1>4, <1>5, FilesChange

-----------------------------------------------------------------------------
(* Nothing is cached and nobody has asked anything.                        *)
LEMMA StaticFileStart == StaticFileInit => StaticFileInv
<1> SUFFICES ASSUME StaticFileInit PROVE StaticFileInv
  OBVIOUS
<1>1. /\ disk \in [FilePaths -> 0 .. 2] /\ newest = 2 /\ recent = <<>> /\ DOMAIN value = {}
      /\ req = [r \in Requests |-> Unused] /\ floor = [p \in FilePaths |-> 0]
  BY DEF StaticFileInit, fileCache!Init
<1>2. \A v \in 0 .. 2 : v \in AnyVersion
  BY StaticFileAssumption DEF AnyVersion
<1>3. disk \in [FilePaths -> AnyVersion] /\ floor \in [FilePaths -> AnyVersion]
  BY <1>1, <1>2
<1>4. newest \in 2 .. MaxVersion /\ recent \in Seq(DOMAIN value)
  BY <1>1, StaticFileAssumption
<1> QED BY <1>1, <1>3, <1>4 DEF StaticFileInv, StaticFileTypeOK

LEMMA StaticFileStep ==
    StaticFileInv /\ [StaticFileNext]_staticFileVars => StaticFileInv'
<1> SUFFICES ASSUME StaticFileInv, [StaticFileNext]_staticFileVars PROVE StaticFileInv'
  OBVIOUS
<1>1. ASSUME NEW r \in Requests, Step(r) PROVE StaticFileInv'
  BY <1>1, FileTypeKeeps, OpenFileKeeps, StatKeeps, ReadAllKeeps, ReadChunkKeeps DEF Step
<1>2. ASSUME NEW r \in Requests, NEW a \in Asks, HandleFile(r, a) PROVE StaticFileInv'
  BY <1>2, HandleFileKeeps
<1>3. CASE ClearCache
  BY <1>3, ClearCacheKeeps
<1>4. ASSUME NEW p \in FilePaths, ReplaceFile(p) \/ RemoveFile(p) \/ WriteIntoFile(p)
      PROVE  StaticFileInv'
  BY <1>4, ReplaceKeeps, RemoveKeeps, WriteIntoKeeps
<1>5. CASE UNCHANGED staticFileVars
  BY <1>5 DEF staticFileVars, cacheVars, StaticFileInv, StaticFileTypeOK
<1> QED BY <1>1, <1>2, <1>3, <1>4, <1>5 DEF StaticFileNext

(* What the cache holds, what a request has decided and what it has sent   *)
(* always belong together, whoever changes the files.                      *)
THEOREM StaticFileInvariant == StaticFileSpec => []StaticFileInv
BY StaticFileStart, StaticFileStep, PTL DEF StaticFileSpec

(* An answer that was sent is that of a request, and it is sound.          *)
LEMMA SentIsSound ==
    ASSUME StaticFileInv, NEW r \in Requests, Sent(r)
    PROVE  /\ req[r] \in Request /\ req[r].pc = "done" /\ req[r].reply.status \in {200, 206}
           /\ AnswerSound(req[r], disk["gz"])
BY DEF StaticFileInv, StaticFileTypeOK, Sent, Answered, RequestSound

(* What is sent and what is cached is one version and whole, with its own  *)
(* Last-Modified or, of a part, with its size, unless it is written into   *)
(* while it is read.                                                       *)
THEOREM OneVersionSent == StaticFileSpec => []OneVersion
<1>1. StaticFileInv => OneVersion
  <2> SUFFICES ASSUME StaticFileInv PROVE OneVersion
    OBVIOUS
  <2>1. ASSUME NEW r \in Requests, Sent(r), ~req[r].changed
        PROVE  /\ req[r].reply.status = 200 =>
                    /\ req[r].reply.lastModified = Stamp[req[r].reply.version]
                    /\ req[r].reply.bytes = Size[req[r].reply.version]
               /\ req[r].reply.status = 206 => req[r].fileSize = Size[req[r].reply.version]
    <3>1. /\ req[r].pc = "done" /\ req[r].reply.status \in {200, 206}
          /\ AnswerSound(req[r], disk["gz"])
      BY <2>1, SentIsSound
    <3> QED BY <2>1, <3>1 DEF AnswerSound
  <2>2. ASSUME NEW p \in DOMAIN value, ~value[p].changed
        PROVE  /\ value[p].lastModified = Stamp[value[p].version]
               /\ value[p].bytes = Size[value[p].version]
    BY <2>2 DEF StaticFileInv, EntrySound
  <2> QED BY <2>1, <2>2 DEF OneVersion
<1> QED BY <1>1, StaticFileInvariant, PTL

(* Encoding, length and range of every answer are what its headers say and *)
(* what the request may have; who accepts gzip gets it while it is there;  *)
(* and an answer is cut short, or an error after the file was opened, only *)
(* when the file was written into meanwhile or is empty.                   *)
THEOREM HeadersAreHonest == StaticFileSpec => []HeadersHonest
<1>1. StaticFileInv => HeadersHonest
  <2> SUFFICES ASSUME StaticFileInv PROVE HeadersHonest
    OBVIOUS
  <2>1. EncodingHonest
    BY SentIsSound DEF EncodingHonest, AnswerSound, AcceptsGzip
  <2>2. LengthsAgree
    <3> SUFFICES ASSUME NEW r \in Requests, Sent(r)
                 PROVE  /\ IF req[r].reply.cutShort THEN req[r].reply.bytes < req[r].reply.length
                           ELSE req[r].reply.bytes = req[r].reply.length
                        /\ req[r].reply.status = 206 =>
                             StandsFor(req[r].ask, req[r].fileSize, req[r].reply.length)
      BY DEF LengthsAgree
    <3>1. /\ req[r].pc = "done" /\ req[r].reply.status \in {200, 206}
          /\ AnswerSound(req[r], disk["gz"])
      BY SentIsSound
    <3> QED BY <3>1 DEF AnswerSound
  <2>3. PrefersCompressed
    BY SentIsSound DEF PrefersCompressed, AnswerSound, AcceptsGzip
  <2>4. EndsEarlyWhenChanged
    BY DEF EndsEarlyWhenChanged, Answered, StaticFileInv, RequestSound, EndSound
  <2> QED BY <2>1, <2>2, <2>3, <2>4 DEF HeadersHonest
<1> QED BY <1>1, StaticFileInvariant, PTL
=============================================================================
