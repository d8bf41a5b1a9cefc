------------------------- MODULE StaticFileHandler -------------------------
(***************************************************************************)
(* HttpServerRequestStaticFileHandler on one core:                         *)
(* src/HttpServer/Handlers/HttpServerRequestStaticFileHandler.cpp.  One    *)
(* file and its compressed version ("plain" and "gz"), the requests for    *)
(* it, the cache they share, and somebody who changes the files.           *)
(***************************************************************************)
EXTENDS Integers, Sequences, FiniteSets, FiniteSetsExt

CONSTANTS Requests,              \* requests under way at one time
          Asks,                  \* their headers: [gzip, range : [form, from, to], since]
          MaxVersion,            \* bound: contents a file may ever have
          Size, Stamp,           \* of each version its size and its time in seconds
          MaxCacheFileEntities, MaxCacheFileSize,
          ReadFileChunkSize,
          Unlimited              \* std::numeric_limits<std::size_t>::max()

FilePaths == {"plain", "gz"}
Versions == 1 .. MaxVersion

(* The numbers of "bytes=from-to" are written with digits, or one of: *)
Empty == -1
NotDigits == -2
Numbers == Nat \cup {Empty, NotDigits}

AnyAsk == [gzip : BOOLEAN, since : Nat,
           range : [form : {"none", "bytes", "other"}, from : Numbers, to : Numbers]]

ASSUME StaticFileAssumption ==
    /\ MaxVersion \in Nat /\ MaxVersion >= 2
    /\ Size \in [Versions -> Nat] /\ Stamp \in [Versions -> Nat \ {0}]
    /\ MaxCacheFileEntities \in Nat /\ MaxCacheFileSize \in Nat
    /\ ReadFileChunkSize \in Nat \ {0} /\ Unlimited \in Nat
    /\ IsFiniteSet(Requests) /\ Asks \subseteq AnyAsk

VARIABLES
    disk, newest,        \* path -> version (0: none, or a directory), the newest version
    recent, value, hit,  \* data_->fileCache, see LRUCacheSpec
    req,                 \* the requests
    floor                \* history: path -> version on disk at the last clearCache()

cacheVars == <<recent, value, hit>>
staticFileVars == <<disk, newest, cacheVars, req, floor>>

Entry == [version : Versions, bytes : Nat, lastModified : Nat, noCompressedVersion : BOOLEAN,
          changed : BOOLEAN]

fileCache == INSTANCE LRUCacheSpec WITH Keys <- FilePaths, Values <- Entry,
                                        MaxSize <- MaxCacheFileEntities

(* A request: what it asks, the members of its replier, its open file with *)
(* the version an editor last left in it (changed: since it was opened),   *)
(* and the response so far (lastModified 0: no such header; cutShort: an   *)
(* error came when the head and some bytes were written already).          *)
NoReply == [status |-> 0, path |-> "plain", version |-> 0, bytes |-> 0, length |-> 0,
            lastModified |-> 0, encoded |-> FALSE, cutShort |-> FALSE]
Begun(a) == [pc |-> "type", ask |-> a, supportCompress |-> a.gzip /\ a.range.form = "none",
             noCompressedVersion |-> FALSE, file |-> 0, changed |-> FALSE, fileSize |-> 0,
             from |-> 0, remainSize |-> 0, reply |-> NoReply, floor |-> floor]
Unused == [pc |-> "done"]

StaticFileInit ==
    /\ disk \in {d \in [FilePaths -> 0 .. 2] : d.plain = 1 /\ d.gz # 1}
    /\ newest = 2 /\ fileCache!Init
    /\ req = [r \in Requests |-> Unused]
    /\ floor = [p \in FilePaths |-> 0]

Path(r) == IF req[r].supportCompress THEN "gz" ELSE "plain"

Answer(r, reply) == req' = [req EXCEPT ![r].pc = "done", ![r].reply = reply]

-----------------------------------------------------------------------------
(* Headers *)

(* loadIntFromDec() takes an empty string for 0, and wraps. *)
Number(digits) == IF digits = Empty THEN 0 ELSE digits % (Unlimited + 1)

(* parseRangeHeader(): a pair, or none for a header that is absent, of     *)
(* another form or holds something else than digits.                       *)
ParseRangeHeader(range) ==
    IF range.form # "bytes" \/ NotDigits \in {range.from, range.to} THEN {}
    ELSE {[first |-> Number(range.from),
           last |-> IF range.to = Empty THEN Unlimited ELSE Number(range.to)]}

\* A slip: a range that ends behind the file is not cut.
PartPastEnd(ranges, size) ==
    {[from |-> x.first, to |-> x.last] : x \in {y \in ranges : y.first < size /\ y.first <= y.last}}

(* The part of a file of that size that a range stands for, if any         *)
Part(ranges, size) ==
    {[from |-> x.first, to |-> Min({x.last, size - 1})] :
       x \in {y \in ranges : y.first < size /\ y.first <= y.last}}

-----------------------------------------------------------------------------
(* handle(): from the cache when the request has no Range header           *)

\* A slip: a compressed version is not looked for when the plain one is at hand.
AnyEntryWillDo(gzip, path, entry) == TRUE

Usable(gzip, path, entry) == path = "gz" \/ ~gzip \/ entry.noCompressedVersion

\* A slip: the answer is compressed when the client could take it.
EncodesWhenAccepted(a, path, entry) ==
    IF a.since = entry.lastModified
    THEN [NoReply EXCEPT !.status = 304, !.path = path, !.version = entry.version,
                         !.lastModified = entry.lastModified]
    ELSE [status |-> 200, path |-> path, version |-> entry.version, bytes |-> entry.bytes,
          length |-> entry.bytes, lastModified |-> entry.lastModified, encoded |-> a.gzip, cutShort |-> FALSE]

(* FileCacheEntry::reply() *)
CachedReply(a, path, entry) ==
    IF a.since = entry.lastModified
    THEN [NoReply EXCEPT !.status = 304, !.path = path, !.version = entry.version,
                         !.lastModified = entry.lastModified]
    ELSE [status |-> 200, path |-> path, version |-> entry.version, bytes |-> entry.bytes,
          length |-> entry.bytes, lastModified |-> entry.lastModified, encoded |-> path = "gz",
          cutShort |-> FALSE]

(* get() of the compressed path changes nothing when it finds nothing.     *)
HandleFile(r, a) ==
    LET lookup == IF a.gzip /\ "gz" \in DOMAIN value THEN "gz" ELSE "plain"
    IN  /\ req[r].pc = "done"
        /\ IF MaxCacheFileEntities > 0 /\ a.range.form = "none"
           THEN fileCache!Get(lookup) ELSE UNCHANGED cacheVars
        /\ IF MaxCacheFileEntities > 0 /\ a.range.form = "none"
              /\ hit' # fileCache!NoValue /\ Usable(a.gzip, lookup, hit')
           THEN req' = [req EXCEPT ![r] = [Begun(a) EXCEPT !.pc = "done",
                          !.changed = hit'.changed, !.reply = CachedReply(a, lookup, hit')]]
           ELSE req' = [req EXCEPT ![r] = Begun(a)]
        /\ UNCHANGED <<disk, newest, floor>>

-----------------------------------------------------------------------------
(* HttpServerRequestStaticFileReplier::execute() *)

GivesUpCompression(r) ==
    req' = [req EXCEPT ![r].supportCompress = FALSE, ![r].noCompressedVersion = TRUE]

(* file_type() *)
FileType(r) ==
    /\ req[r].pc = "type"
    /\ \/ disk[Path(r)] = 0 /\ req[r].supportCompress /\ GivesUpCompression(r)
       \/ disk[Path(r)] = 0 /\ ~req[r].supportCompress
            /\ Answer(r, [NoReply EXCEPT !.status = 404])
       \/ disk[Path(r)] # 0 /\ req' = [req EXCEPT ![r].pc = "open"]
    /\ UNCHANGED <<disk, newest, cacheVars, floor>>

(* open_file_dma(): the file may be gone by now.                           *)
OpenFile(r) ==
    /\ req[r].pc = "open"
    /\ IF disk[Path(r)] = 0 THEN Answer(r, [NoReply EXCEPT !.status = 500])
       ELSE req' = [req EXCEPT ![r].pc = "stat", ![r].file = disk[Path(r)]]
    /\ UNCHANGED <<disk, newest, cacheVars, floor>>

\* A slip: the last byte of a range is left out.
ExclusiveEnd(part) == part.to - part.from

PartLength(part) == part.to - part.from + 1

\* A slip: the file is looked up by its name, which may be another file by now.
StatsTheName(r) == IF disk[Path(r)] = 0 THEN req[r].file ELSE disk[Path(r)]

Examined(r) == req[r].file

Bare(r, version) == [NoReply EXCEPT !.path = Path(r), !.version = version]
Dated(r, version) == [Bare(r, version) EXCEPT !.lastModified = Stamp[version]]

(* What is sent of the file: the part that is asked for, or the whole, and *)
(* only the whole with its time.                                           *)
Pieces(r, version) ==
    LET parts == Part(ParseRangeHeader(req[r].ask.range), Size[version])
    IN  IF parts = {} THEN {[from |-> 0, bytes |-> Size[version],
                             reply |-> [Dated(r, version) EXCEPT !.status = 200]]}
        ELSE {[from |-> x.from, bytes |-> PartLength(x),
               reply |-> [Bare(r, version) EXCEPT !.status = 206]] : x \in parts}

(* stat() of the open file, and everything that is decided by it           *)
Stat(r) ==
    LET q == req[r]
        version == Examined(r)
        size == Size[version]
        toCache == /\ size <= MaxCacheFileSize /\ MaxCacheFileEntities > 0
                   /\ ParseRangeHeader(q.ask.range) = {}
    IN  /\ q.pc = "stat"
        /\ \/ /\ q.ask.since = Stamp[version]
              /\ Answer(r, [Dated(r, version) EXCEPT !.status = 304])
           \/ /\ q.ask.since # Stamp[version] /\ toCache
              /\ req' = [req EXCEPT ![r] = [q EXCEPT !.pc = "readAll", !.fileSize = size,
                           !.reply = [Dated(r, version) EXCEPT !.encoded = q.supportCompress]]]
           \/ /\ q.ask.since # Stamp[version] /\ ~toCache
              /\ \E x \in Pieces(r, version) :
                   req' = [req EXCEPT ![r] = [q EXCEPT !.pc = "chunk", !.fileSize = size,
                             !.remainSize = x.bytes, !.from = x.from,
                             !.reply = [x.reply EXCEPT !.encoded = q.supportCompress,
                                                       !.length = x.bytes]]]
        /\ UNCHANGED <<disk, newest, cacheVars, floor>>

(* read_exactly(fileSize): less when the file has shrunk                   *)
ReadExactly(r) == Min({req[r].fileSize, Size[req[r].file]})

ReadAll(r) ==
    LET q == req[r]
        bytes == ReadExactly(r)
    IN  /\ q.pc = "readAll"
        /\ fileCache!Set(Path(r), [version |-> q.file, bytes |-> bytes,
                                   lastModified |-> q.reply.lastModified,
                                   noCompressedVersion |-> q.noCompressedVersion,
                                   changed |-> q.changed])
        /\ Answer(r, [q.reply EXCEPT !.status = 200, !.version = q.file,
                                     !.bytes = bytes, !.length = bytes])
        /\ UNCHANGED <<disk, newest, floor>>

Left(r) == Max({0, Size[req[r].file] - req[r].from - req[r].reply.bytes})

(* How many bytes read_up_to(readSize) may return *)
ReadUpTo(r) == Min({req[r].remainSize, ReadFileChunkSize, Left(r)})

(* The exception ends in the 500 handler: it replaces the status and the   *)
(* length, the other headers stay; but when bytes were written the head is *)
(* out, and its message is all it adds.                                    *)
Aborted(reply) == IF reply.bytes = 0 THEN [reply EXCEPT !.status = 500, !.length = 0]
                  ELSE [reply EXCEPT !.cutShort = TRUE]

(* One turn of the loop: read_up_to(), and the chunk is written.  No bytes *)
(* are an error, at the end of the file or because none were asked for.    *)
ReadChunk(r) ==
    LET q == req[r]
    IN  /\ q.pc = "chunk"
        /\ \/ ReadUpTo(r) = 0 /\ Answer(r, [Aborted(q.reply) EXCEPT !.version = q.file])
           \/ \E n \in 1 .. ReadUpTo(r) :
                req' = [req EXCEPT ![r].remainSize = @ - n, ![r].reply.bytes = @ + n,
                                   ![r].reply.version = q.file,
                                   ![r].pc = IF q.remainSize = n THEN "done" ELSE "chunk"]
        /\ UNCHANGED <<disk, newest, cacheVars, floor>>

-----------------------------------------------------------------------------
(* clearCache() *)
ClearCache == /\ fileCache!ForgetAll /\ floor' = disk
              /\ UNCHANGED <<disk, newest, req>>

(* Somebody replaces or removes a file (who has it open keeps the old one), *)
(* or writes into it.                                                       *)
ReplaceFile(p) ==
    /\ newest < MaxVersion /\ newest' = newest + 1
    /\ disk' = [disk EXCEPT ![p] = newest + 1]
    /\ UNCHANGED <<cacheVars, req, floor>>

RemoveFile(p) ==
    /\ disk[p] # 0 /\ disk' = [disk EXCEPT ![p] = 0]
    /\ UNCHANGED <<newest, cacheVars, req, floor>>

WriteIntoFile(p) ==
    /\ disk[p] # 0 /\ newest < MaxVersion /\ newest' = newest + 1
    /\ disk' = [disk EXCEPT ![p] = newest + 1]
    /\ req' = [r \in Requests |->
                IF req[r].pc \in {"stat", "readAll", "chunk"} /\ req[r].file = disk[p]
                THEN [req[r] EXCEPT !.file = newest + 1, !.changed = (req[r].pc # "stat")]
                ELSE req[r]]
    /\ UNCHANGED <<cacheVars, floor>>

-----------------------------------------------------------------------------
Step(r) == FileType(r) \/ OpenFile(r) \/ Stat(r) \/ ReadAll(r) \/ ReadChunk(r)

StaticFileNext ==
        \/ \E r \in Requests : Step(r) \/ \E a \in Asks : HandleFile(r, a)
        \/ ClearCache
        \/ \E p \in FilePaths : ReplaceFile(p) \/ RemoveFile(p) \/ WriteIntoFile(p)

StaticFileSpec == StaticFileInit /\ [][StaticFileNext]_staticFileVars

-----------------------------------------------------------------------------
Answered(r) == req[r].pc = "done" /\ req[r] # Unused
Sent(r) == Answered(r) /\ req[r].reply.status \in {200, 206}

(* The compressed file is sent with Content-Encoding, only to those who    *)
(* accept it, and nothing else is sent with it.                            *)
EncodingHonest ==
    \A r \in Requests : Sent(r) =>
      /\ req[r].reply.encoded <=> req[r].reply.path = "gz"
      /\ req[r].reply.encoded => req[r].ask.gzip /\ req[r].ask.range.form = "none"

(* As long as nobody has touched the compressed file, who accepts gzip     *)
(* gets it, whatever has become of the plain one and whatever others have  *)
(* left in the cache.                                                      *)
PrefersCompressed ==
    disk["gz"] = 2 =>
      \A r \in Requests : Sent(r) /\ req[r].ask.gzip /\ req[r].ask.range.form = "none"
        => req[r].reply.encoded

(* However often files are replaced in the middle of an answer, what is    *)
(* sent and what is cached is one version and complete, with its own       *)
(* Last-Modified; a part, which has no such header, gives the size of its  *)
(* version in Content-Range.  Only a file that is written into while it is *)
(* read is not.                                                            *)
OneVersion ==
    /\ \A r \in Requests : Sent(r) /\ ~req[r].changed =>
         /\ req[r].reply.status = 200 =>
              /\ req[r].reply.lastModified = Stamp[req[r].reply.version]
              /\ req[r].reply.bytes = Size[req[r].reply.version]
         /\ req[r].reply.status = 206 => req[r].fileSize = Size[req[r].reply.version]
    /\ \A p \in DOMAIN value : ~value[p].changed =>
         /\ value[p].lastModified = Stamp[value[p].version]
         /\ value[p].bytes = Size[value[p].version]

(* So many bytes is what one of the ranges of a request stands for.        *)
StandsFor(a, size, bytes) ==
    \E x \in ParseRangeHeader(a.range) :
       bytes = Cardinality({i \in x.first .. size - 1 : i <= x.last})

(* An answer has as many bytes as its Content-Length says, and a partial   *)
(* one says those its range stands for; one that has fewer was cut short.  *)
LengthsAgree ==
    \A r \in Requests : Sent(r) =>
      /\ IF req[r].reply.cutShort THEN req[r].reply.bytes < req[r].reply.length
         ELSE req[r].reply.bytes = req[r].reply.length
      /\ req[r].reply.status = 206 =>
           StandsFor(req[r].ask, req[r].fileSize, req[r].reply.length)

(* No answer ends early, and none becomes an error once the file is open,  *)
(* unless somebody has written into the file, or it is empty.              *)
EndsEarlyWhenChanged ==
    \A r \in Requests :
      Answered(r) /\ (req[r].reply.cutShort \/ (req[r].reply.status = 500 /\ req[r].file # 0))
        => req[r].changed \/ req[r].fileSize = 0

(* An answer is what its headers say, and what the request may have: the   *)
(* encoding, the length, the range.                                        *)
HeadersHonest == EncodingHonest /\ LengthsAgree /\ PrefersCompressed /\ EndsEarlyWhenChanged

-----------------------------------------------------------------------------
(* Why the answers are what they should be: what the cache, the requests   *)
(* and the files are at any time.                                          *)

AnyVersion == 0 .. MaxVersion
Reply == [status : Nat, path : FilePaths, version : AnyVersion, bytes : Nat, length : Nat,
          lastModified : Nat, encoded : BOOLEAN, cutShort : BOOLEAN]
Request == [pc : {"type", "open", "stat", "readAll", "chunk", "done"}, ask : Asks,
            supportCompress : BOOLEAN, noCompressedVersion : BOOLEAN, file : AnyVersion,
            changed : BOOLEAN, fileSize : Nat, from : Nat, remainSize : Nat, reply : Reply,
            floor : [FilePaths -> AnyVersion]]

StaticFileTypeOK ==
    /\ disk \in [FilePaths -> AnyVersion] /\ floor \in [FilePaths -> AnyVersion]
    /\ newest \in 2 .. MaxVersion
    /\ recent \in Seq(DOMAIN value) /\ DOMAIN value \subseteq FilePaths
    /\ \A p \in DOMAIN value : value[p] \in Entry
    /\ req \in [Requests -> Request \cup {Unused}]

AcceptsGzip(a) == a.gzip /\ a.range.form = "none"

(* A cached file is a whole version, and the plain one is only known to    *)
(* have no compressed version if that was taken away.                      *)
EntrySound(e, gz) ==
    /\ ~e.changed => e.lastModified = Stamp[e.version] /\ e.bytes = Size[e.version]
    /\ e.noCompressedVersion => gz # 2

(* The compressed file is looked for until it turns out to be missing.     *)
SearchSound(q, gz) ==
    /\ q.supportCompress => AcceptsGzip(q.ask)
    /\ q.noCompressedVersion => ~q.supportCompress /\ gz # 2
    /\ q.pc # "done" /\ AcceptsGzip(q.ask) => q.supportCompress \/ q.noCompressedVersion

(* What is decided by stat() stays with the file that is open.             *)
OpenSound(q) ==
    /\ q.pc \in {"type", "open"} => q.file = 0
    /\ q.pc \in {"type", "open", "stat"} => ~q.changed
    /\ q.pc \in {"stat", "readAll", "chunk"} => q.file \in Versions
    /\ q.pc \in {"readAll", "chunk"} =>
         /\ q.reply.encoded = q.supportCompress
         /\ q.reply.path = IF q.supportCompress THEN "gz" ELSE "plain"
         /\ ~q.reply.cutShort
         /\ ~q.changed => q.fileSize = Size[q.file]
         /\ ~q.changed /\ q.reply.status # 206 => q.reply.lastModified = Stamp[q.file]
    /\ q.pc = "readAll" => q.reply.status # 206
    /\ q.pc = "chunk" =>
         /\ q.reply.bytes + q.remainSize = q.reply.length
         /\ q.from + q.reply.length <= q.fileSize
         /\ q.remainSize = 0 => q.fileSize = 0
         /\ \/ q.reply.status = 200 /\ q.reply.length = q.fileSize
            \/ q.reply.status = 206 /\ StandsFor(q.ask, q.fileSize, q.reply.length)

AnswerSound(q, gz) ==
    q.pc = "done" /\ q.reply.status \in {200, 206} =>
      /\ q.reply.encoded <=> q.reply.path = "gz"
      /\ q.reply.encoded => AcceptsGzip(q.ask)
      /\ gz = 2 /\ AcceptsGzip(q.ask) => q.reply.encoded
      /\ IF q.reply.cutShort THEN q.reply.bytes < q.reply.length
         ELSE q.reply.bytes = q.reply.length
      /\ ~q.changed /\ q.reply.status = 200 =>
           /\ q.reply.lastModified = Stamp[q.reply.version]
           /\ q.reply.bytes = Size[q.reply.version]
      /\ q.reply.status = 206 =>
           /\ StandsFor(q.ask, q.fileSize, q.reply.length)
           /\ ~q.changed => q.fileSize = Size[q.reply.version]

EndSound(q) ==
    q.pc = "done" /\ (q.reply.cutShort \/ (q.reply.status = 500 /\ q.file # 0)) =>
      q.changed \/ q.fileSize = 0

RequestSound(q, gz) == SearchSound(q, gz) /\ OpenSound(q) /\ AnswerSound(q, gz) /\ EndSound(q)

StaticFileInv ==
    /\ StaticFileTypeOK
    /\ \A p \in DOMAIN value : EntrySound(value[p], disk["gz"])
    /\ \A r \in Requests : req[r] # Unused => RequestSound(req[r], disk["gz"])

-----------------------------------------------------------------------------
(* What a comment and a message say, and the code does not keep.           *)

(* clearCache(): "Clear cached file contents".  A request that comes later *)
(* is not answered with a file older than the one on disk at that time.    *)
FreshAfterClear ==
    \A r \in Requests : Sent(r) => req[r].reply.version >= req[r].floor[req[r].reply.path]

(* "remain size > 0 but eof occurs" is the error of a file that is shorter *)
(* than its size was, never of a file that is just as long as expected.    *)
EofMeansRemaining ==
    \A r \in Requests : Answered(r) /\ req[r].reply.status = 500 /\ req[r].file # 0
      => req[r].remainSize > 0

(* "set Content-Encoding if compressed file is used": an error message is  *)
(* not sent with it.                                                       *)
ErrorsUnencoded ==
    \A r \in Requests : Answered(r) /\ req[r].reply.status = 500 => ~req[r].reply.encoded
=============================================================================
