----------------------------- MODULE FileHandle -----------------------------
(***************************************************************************)
(* `DiscordFile` of src/src/vfs.py: what an open handle does to the        *)
(* contents of one file.  The contents live in attachments on Discord,     *)
(* which are immutable and addressed by message id; the file's document    *)
(* lists its chunks, each naming a message.  Every change is upload, then  *)
(* commit of the document, then delete of what the document no longer      *)
(* names, and each of the three is an await that may fail.                 *)
(*                                                                         *)
(* Bytes are drawn from Values with 0 as the zero byte; MAX_CHUNK_SIZE is  *)
(* ChunkMax bytes.  A node's mac stands for the size and the chunk list it *)
(* was computed from.  Encryption, permissions, times and the file's place *)
(* in its directory are left out (DirEntries has the last).                *)
(*                                                                         *)
(* A query and the answer to it are two steps where another handle can act *)
(* in between: a document read in `open` or `_sync` is stamped into        *)
(* `_node_versions` when the answer arrives, and a commit is recorded when *)
(* its answer arrives, which may be after a later commit's, or never: the  *)
(* update may raise although it was applied.  The web upload's task may be *)
(* cancelled in any of its awaits.                                         *)
(***************************************************************************)
EXTENDS Naturals, Sequences, FiniteSets

CONSTANTS
  Handles,     \* open file handles, of any connection
  Values,      \* byte values other than the zero byte
  ChunkMax,    \* MAX_CHUNK_SIZE
  MaxSize,     \* bound on the length of the file
  MaxMessages, \* bound on the attachments uploaded
  MaxFailures, \* bound on failed or cancelled calls and crashes, none once shared
  SharedSize,  \* bound on the length of the file once two handles share it
  SharedMessages \* bound on the attachments uploaded once two handles share it

ASSUME BytesAssumption == 0 \notin Values /\ ChunkMax \in Nat \ {0} /\ MaxSize \in Nat
ASSUME FailuresAssumption == MaxMessages \in Nat /\ MaxFailures \in Nat
ASSUME SharedAssumption == SharedSize \in 0 .. MaxSize /\ SharedMessages \in 0 .. MaxMessages

VARIABLES
  doc,      \* the node's document: [state, size, chunks]
  version,  \* `_node_versions`: the mac of the last commit or verified read
  discord,  \* message id -> the bytes of its attachment, for those there are
  sent,     \* attachments uploaded so far
  file,     \* Handles -> the handle
  failures, \* failed and cancelled calls and crashes so far
  lost,     \* observer: attachments whose delete failed, or that whoever would have
            \* named or deleted them forgot: a crash, a cancelled task, or a handle
            \* whose commit was applied and raised
  unwound,  \* observer: attachments a handle giving up on its own file deleted
  denied,   \* observer: attachments of commits that were applied and raised
  shared    \* observer: two handles have been open on the file at once

vars == <<doc, version, discord, sent, file, failures, lost, unwound, denied, shared>>

Messages == 1 .. MaxMessages
Quota == IF shared THEN SharedMessages ELSE MaxMessages
Room == IF shared THEN SharedSize ELSE MaxSize
MayFail == ~shared /\ failures < MaxFailures
Bytes == Values \cup {0}
Empty == [size |-> 0, chunks |-> <<>>]
None == [size |-> MaxSize + 1, chunks |-> <<>>]

-----------------------------------------------------------------------------
(* Layouts: a size and a list of chunks.                                   *)

Max2(a, b) == IF a > b THEN a ELSE b
Min2(a, b) == IF a < b THEN a ELSE b

\* `_covered_end`: just past the last chunk.
CoveredEnd(chunks) ==
  IF chunks = <<>> THEN 0
  ELSE LET last == CHOOSE c \in {chunks[k] : k \in DOMAIN chunks} :
                     \A k \in DOMAIN chunks : chunks[k].offset <= c.offset
       IN  last.offset + last.size

\* `_locate_chunk`: where in the list the chunk holding a position is.
Locate(chunks, pos) ==
  {k \in DOMAIN chunks :
     chunks[k].offset <= pos /\ pos < chunks[k].offset + chunks[k].size}

Piece(bytes) == SubSeq(bytes, 1, Min2(ChunkMax, Len(bytes)))
Dropped(bytes, n) == SubSeq(bytes, n + 1, Len(bytes))
Zeros(n) == [k \in 1 .. n |-> 0]

\* What the mac of a document, or of a handle's copy of it, is computed from.
Content(o) == [size |-> o.size, chunks |-> o.chunks]

\* `_append_position` and `_end_of_file`: buffered bytes are part of the file.
AppendPosition(o) == CoveredEnd(o.chunks) + Len(o.buffer)
EndOfFile(o) == Max2(o.size, AppendPosition(o))

\* `_chunk_bytes`: by index from the cache, else from Discord.
Readable(o, c) == c.index \in DOMAIN o.cache \/ c.msg \in DOMAIN discord
ChunkBytes(o, c) == IF c.index \in DOMAIN o.cache THEN o.cache[c.index] ELSE discord[c.msg]

\* `_chunk_cache[index] = bytes`.
Cached(cache, index, bytes) ==
  [k \in DOMAIN cache \cup {index} |-> IF k = index THEN bytes ELSE cache[k]]

\* `if start >= len(data): break` leaves what a chunk does not have unread.
ByteAt(bytes, k) == IF k \in DOMAIN bytes THEN bytes[k] ELSE 0

\* What `read_at` returns over the whole file, flushing the buffer on the way:
\* chunks where there are chunks, then the buffer, then a hole of zeros.
View(o) ==
  [p \in 1 .. EndOfFile(o) |->
     IF Locate(o.chunks, p - 1) # {}
     THEN LET c == o.chunks[CHOOSE k \in Locate(o.chunks, p - 1) : TRUE]
          IN  IF Readable(o, c) THEN ByteAt(ChunkBytes(o, c), p - c.offset) ELSE 0
     ELSE IF p - 1 - CoveredEnd(o.chunks) \in 0 .. Len(o.buffer) - 1
          THEN o.buffer[p - CoveredEnd(o.chunks)] ELSE 0]

-----------------------------------------------------------------------------
(* Reference definitions: what a write and a truncate do to an array.      *)

Spliced(bytes, at, data) ==
  [p \in 1 .. Max2(Len(bytes), at + Len(data)) |->
     IF p - 1 \in at .. at + Len(data) - 1 THEN data[p - at]
     ELSE IF p <= Len(bytes) THEN bytes[p] ELSE 0]

Resized(bytes, n) == [p \in 1 .. n |-> IF p <= Len(bytes) THEN bytes[p] ELSE 0]

-----------------------------------------------------------------------------
(* Handles.                                                                *)

NoCache == <<>>

\* task: the method that holds the handle's lock; pc: the call it awaits; step:
\* what that call is for; at, data: the offset (or the new size) and the bytes
\* still to write; piece, msg: the chunk being uploaded; doomed: attachments to
\* delete; undo: they are deleted because the commit failed; goal: history, the
\* array the operations called so far make.
Closed ==
  [open |-> FALSE, created |-> FALSE, appends |-> FALSE, failed |-> FALSE,
   replaces |-> FALSE, latest |-> None,
   size |-> 0, chunks |-> <<>>, mac |-> None, buffer |-> <<>>, cache |-> NoCache,
   task |-> "none", pc |-> "idle", step |-> "none", at |-> 0, data |-> <<>>,
   piece |-> <<>>, msg |-> 0, doomed |-> {}, undo |-> FALSE, goal |-> <<>>]

Tasks == {"none", "append", "random", "resize", "read", "close", "abort"}
Pcs == {"idle", "fetch", "upload", "commit", "ack", "discard", "swap", "unwind", "drop"}
Steps == {"none", "append", "flush", "gap", "patch", "extend", "trim"}

\* The steps that upload a new chunk through `_upload_chunk`, which unwinds the
\* handle when it fails; the others leave the handle usable.
NewChunk == {"append", "flush", "gap", "extend"}

\* The method returns, or raises.
Rest(o) ==
  [o EXCEPT !.task = "none", !.pc = "idle", !.step = "none", !.at = 0, !.data = <<>>,
            !.piece = <<>>, !.msg = 0, !.doomed = {}, !.undo = FALSE]

\* A method that raised promises nothing of what it was asked to do.
Raised(o) == [Rest(o) EXCEPT !.goal = View(o)]

Upload(o, step, piece) ==
  [o EXCEPT !.pc = "upload", !.step = step, !.piece = piece, !.msg = 0]

\* `_append`: whole chunks leave the buffer.
AppendOn(o) ==
  IF Len(o.buffer) >= ChunkMax THEN Upload(o, "append", Piece(o.buffer)) ELSE Rest(o)

\* `_write_random`, last part first: what lies past the chunks is appended,
\* what overlaps them is patched, a gap before it is filled with zeros.
Extend(o) == IF o.data = <<>> THEN Rest(o) ELSE Upload(o, "extend", Piece(o.data))

Patch(o) ==
  IF o.data # <<>> /\ o.at < CoveredEnd(o.chunks) THEN Upload(o, "patch", <<>>)
  ELSE Extend(o)

Gap(o) ==
  IF o.at > CoveredEnd(o.chunks)
  THEN Upload(o, "gap", Piece(Zeros(o.at - CoveredEnd(o.chunks)))) ELSE Patch(o)

\* `_resize_node`: the chunk the new end falls inside is uploaded again, shorter.
Straddlers(o) ==
  {k \in DOMAIN o.chunks :
     o.chunks[k].offset < o.at /\ o.chunks[k].offset + o.chunks[k].size > o.at}

Trim(o) ==
  IF Straddlers(o) = {} THEN [o EXCEPT !.pc = "commit", !.step = "trim", !.msg = 0]
  ELSE Upload(o, "trim", <<>>)

\* What a method does once the buffer is on Discord.
Flushed(o) ==
  CASE o.task = "random" -> Gap(o)
    [] o.task = "resize" -> Trim(o)
    [] o.task = "read"   -> Rest(o)
    [] o.task = "close"  -> IF o.replaces THEN [o EXCEPT !.pc = "swap"] ELSE Closed

FlushThen(o) == IF o.buffer # <<>> THEN Upload(o, "flush", o.buffer) ELSE Flushed(o)

\* `_sync`: another handle's commit moved the version.
Outdated(o) == version # None /\ version # o.mac

AdoptedKeepingCache(o) ==
  [o EXCEPT !.size = o.latest.size, !.chunks = o.latest.chunks, !.mac = o.latest,
            !.latest = None, !.pc = "idle", !.open = TRUE]

\* What `_sync`, or `open`, makes of the document it read: indices are reused as
\* chunks are trimmed and replaced, so the cache goes.
Adopted(o) ==
  [o EXCEPT !.size = o.latest.size, !.chunks = o.latest.chunks, !.mac = o.latest,
            !.latest = None, !.pc = "idle", !.open = TRUE, !.cache = NoCache]

\* `_rollback`: a file this handle did not create is left as it was committed.
RollbackAll(o) ==
  [o EXCEPT !.failed = TRUE, !.pc = "unwind", !.step = "none",
            !.doomed = {o.chunks[k].msg : k \in DOMAIN o.chunks}]

Rollback(o) ==
  IF o.failed \/ ~o.created THEN [Raised(o) EXCEPT !.failed = TRUE] ELSE RollbackAll(o)

-----------------------------------------------------------------------------
(* Opening.                                                                *)

\* The history of a shared file is not kept: no handle can promise its own.
Set(h, o) == file' = [file EXCEPT ![h] = IF shared THEN [o EXCEPT !.goal = <<>>] ELSE o]

Exists == doc.state \in {"here", "apart"}

Fresh(o) == ~o.open /\ o.pc = "idle"

\* The bounds of sharing: a second handle opens on a short file with something in
\* it, after no failure, while the first rests, and neither appends.
Sharable(o) == o.pc = "idle" /\ ~o.appends /\ EndOfFile(o) <= SharedSize

Joins(h, appends) ==
  LET others == {g \in Handles \ {h} : ~Fresh(file[g])} IN
  /\ shared' = (shared \/ others # {})
  /\ others # {} =>
       /\ failures = 0 /\ sent <= SharedMessages /\ doc.size \in 1 .. SharedSize
       /\ ~appends /\ \A g \in others : Sharable(file[g])

\* `open` of a path nobody lives at, and `_begin_overwrite`, which writes into a
\* node of its own, which no path leads to: the handle creates the file.
Create(h, replaces) ==
  /\ Fresh(file[h]) /\ doc.state = "none"
  /\ doc' = [state |-> IF replaces THEN "apart" ELSE "here", size |-> 0, chunks |-> <<>>]
  /\ version' = Empty
  /\ Set(h, [Closed EXCEPT !.open = TRUE, !.created = TRUE, !.mac = Empty,
                           !.replaces = replaces])
  /\ Joins(h, FALSE)
  /\ UNCHANGED <<discord, sent, failures, lost, unwound, denied>>

\* `open` of an existing file, for patching in place or with O_APPEND, and the
\* refetch of `_sync`: the document is read ...
Open(h, appends) ==
  /\ Fresh(file[h]) /\ doc.state = "here"
  /\ Set(h, [Closed EXCEPT !.pc = "fetch", !.appends = appends, !.latest = Content(doc)])
  /\ Joins(h, appends)
  /\ UNCHANGED <<doc, version, discord, sent, failures, lost, unwound, denied>>

Refetch(h) ==
  /\ file[h].open /\ file[h].pc = "idle" /\ Outdated(file[h]) /\ Exists
  /\ Set(h, [file[h] EXCEPT !.pc = "fetch", !.latest = Content(doc)])
  /\ UNCHANGED <<doc, version, discord, sent, failures, lost, unwound, denied, shared>>

\* ... and `_verify_node` stamps the version with what was read.
Fetched(h) ==
  LET o == Adopted(file[h]) IN
  /\ file[h].pc = "fetch"
  /\ version' = o.mac
  /\ Set(h, [o EXCEPT !.goal = View(o)])
  /\ UNCHANGED <<doc, discord, sent, failures, lost, unwound, denied, shared>>

-----------------------------------------------------------------------------
(* The methods, up to the first call they await.  Each begins with `_sync`, *)
(* which is a dictionary lookup once the handle is up to date.             *)

Free(h) == file[h].open /\ file[h].pc = "idle"

Call(h, o) ==
  /\ Set(h, o)
  /\ UNCHANGED <<doc, version, discord, sent, failures, lost, unwound, denied, shared>>

\* `write_at`: at the append position it goes to the buffer, elsewhere it
\* rewrites chunks.
Write(h, offset, data) ==
  LET o == file[h]
      at == IF o.appends THEN EndOfFile(o) ELSE offset
      n == [o EXCEPT !.goal = Spliced(@, at, data)]
  IN
  /\ Free(h) /\ ~o.failed
  /\ ~Outdated(o)
  /\ at + Len(data) <= Room
  /\ Call(h, IF at = AppendPosition(o)
             THEN AppendOn([n EXCEPT !.task = "append", !.buffer = @ \o data])
             ELSE FlushThen([n EXCEPT !.task = "random", !.at = at, !.data = data]))

\* `truncate_to`.
Truncate(h, size) ==
  LET o == file[h] IN
  /\ Free(h) /\ ~o.failed
  /\ ~Outdated(o)
  /\ size <= Room
  /\ Call(h, FlushThen([o EXCEPT !.task = "resize", !.at = size,
                                 !.goal = Resized(@, size)]))

ReadFlushingAnyway(h, k) ==
  LET o == file[h] IN
  /\ Free(h)
  /\ ~Outdated(o)
  /\ IF o.buffer # <<>> THEN k = 1 /\ Call(h, FlushThen([o EXCEPT !.task = "read"]))
     ELSE /\ k \in DOMAIN o.chunks /\ Readable(o, o.chunks[k])
          /\ Call(h, [o EXCEPT !.cache = Cached(@, o.chunks[k].index,
                                                 ChunkBytes(o, o.chunks[k]))])

\* `read_at` of a chunk, which stays in the cache; bytes still buffered are
\* flushed first, unless the handle has failed.
Read(h, k) ==
  LET o == file[h] IN
  /\ Free(h)
  /\ ~Outdated(o)
  /\ IF o.buffer # <<>> /\ ~o.failed THEN k = 1 /\ Call(h, FlushThen([o EXCEPT !.task = "read"]))
     ELSE /\ k \in DOMAIN o.chunks /\ Readable(o, o.chunks[k])
          /\ Call(h, [o EXCEPT !.cache = Cached(@, o.chunks[k].index,
                                                 ChunkBytes(o, o.chunks[k]))])

\* `close`: the flush, after `_sync` if there is something to place.
Close(h) ==
  LET o == file[h] IN
  /\ Free(h)
  /\ IF o.failed THEN Call(h, Closed)
     ELSE /\ o.buffer # <<>> => ~Outdated(o)
          /\ Call(h, FlushThen([o EXCEPT !.task = "close"]))

\* `abort`: the buffer is dropped and what was uploaded is unwound.
Abort(h) ==
  /\ Free(h)
  /\ Call(h, IF file[h].failed THEN Closed
             ELSE Rollback([file[h] EXCEPT !.buffer = <<>>, !.task = "abort"]))

-----------------------------------------------------------------------------
(* Upload, commit, delete.                                                 *)

\* The chunk a patch rewrites, and its bytes with the new ones in place.
Patched(o) == o.chunks[CHOOSE k \in Locate(o.chunks, o.at) : TRUE]

PatchTake(o) == Min2(Len(o.data), Patched(o).offset + Patched(o).size - o.at)

PatchedBytes(o) ==
  Spliced(ChunkBytes(o, Patched(o)), o.at - Patched(o).offset,
          SubSeq(o.data, 1, PatchTake(o)))

Straddler(o) == o.chunks[CHOOSE k \in Straddlers(o) : TRUE]

\* A trim fetches its chunk from Discord, a patch asks the cache first.
Fetchable(o) ==
  CASE o.step = "patch" -> Readable(o, Patched(o))
    [] o.step = "trim"  -> Straddler(o).msg \in DOMAIN discord
    [] OTHER -> TRUE

\* The plaintext the call uploads.
Sending(o) ==
  CASE o.step = "patch" -> PatchedBytes(o)
    [] o.step = "trim"  -> SubSeq(discord[Straddler(o).msg], 1, o.at - Straddler(o).offset)
    [] OTHER -> o.piece

\* `discord_api.upload_chunk` returns a new message id.
Send(h) ==
  LET o == file[h] IN
  /\ o.pc = "upload" /\ Fetchable(o) /\ sent < Quota
  /\ sent' = sent + 1
  /\ discord' = [m \in DOMAIN discord \cup {sent + 1} |->
                   IF m = sent + 1 THEN Sending(o) ELSE discord[m]]
  /\ Set(h, [o EXCEPT !.pc = "commit", !.piece = Sending(o), !.msg = sent + 1])
  /\ UNCHANGED <<doc, version, failures, lost, unwound, denied, shared>>

\* It raises: a new chunk unwinds the handle, a replacement only the method.
SendFails(h) ==
  LET o == file[h] IN
  /\ o.pc = "upload"
  /\ \/ MayFail /\ failures' = failures + 1
     \/ ~Fetchable(o) /\ UNCHANGED failures
  /\ Set(h, IF o.step \in NewChunk THEN Rollback(o) ELSE Raised(o))
  /\ UNCHANGED <<doc, version, discord, sent, lost, unwound, denied, shared>>

NewChunkAtSize(o) ==
  LET at == o.size IN
  [size |-> Max2(o.size, at + Len(o.piece)),
   chunks |-> Append(o.chunks, [msg |-> o.msg, index |-> Len(o.chunks), offset |-> at,
                                size |-> Len(o.piece)])]

\* `_upload_chunk`: new chunks land where the existing ones stop, which is not
\* the end of the file when a hole follows them.
WithNewChunk(o) ==
  LET at == CoveredEnd(o.chunks) IN
  [size |-> Max2(o.size, at + Len(o.piece)),
   chunks |-> Append(o.chunks, [msg |-> o.msg, index |-> Len(o.chunks), offset |-> at,
                                size |-> Len(o.piece)])]

\* `_replace_chunk`: offset and length stay.
WithPatch(o) ==
  [size |-> o.size,
   chunks |-> [k \in DOMAIN o.chunks |->
                 IF o.chunks[k] = Patched(o) THEN [o.chunks[k] EXCEPT !.msg = o.msg]
                 ELSE o.chunks[k]]]

\* `_resize_node`: what lies before the new end, the last chunk trimmed to it.
\* Sorted by offset, as the list is already, what to keep comes first.
WithTrim(o) ==
  LET before == {k \in DOMAIN o.chunks : o.chunks[k].offset + o.chunks[k].size <= o.at}
      kept == SubSeq(o.chunks, 1, Cardinality(before))
  IN
  [size |-> o.at,
   chunks |-> IF Straddlers(o) = {} THEN kept
              ELSE Append(kept, [Straddler(o) EXCEPT !.msg = o.msg,
                                                     !.size = o.at - Straddler(o).offset])]

Layout(o) ==
  CASE o.step \in NewChunk -> WithNewChunk(o)
    [] o.step = "patch"    -> WithPatch(o)
    [] o.step = "trim"     -> WithTrim(o)

Messaged(chunks) == {chunks[k].msg : k \in DOMAIN chunks}

\* `_commit_content`: size, chunks and mac in one update; one that matches no
\* document is no error.
Apply(h) ==
  LET new == Layout(file[h]) IN
  /\ file[h].pc = "commit"
  /\ doc' = IF Exists THEN [doc EXCEPT !.size = new.size, !.chunks = new.chunks]
            ELSE doc
  /\ file' = [file EXCEPT ![h].pc = "ack"]
  /\ UNCHANGED <<version, discord, sent, failures, lost, unwound, denied, shared>>

\* The update is answered; what the new layout no longer names is deleted next.
Commit(h) ==
  LET o == file[h]
      new == Layout(o)
  IN
  /\ o.pc = "ack"
  /\ version' = new
  /\ Set(h, [o EXCEPT !.size = new.size, !.chunks = new.chunks, !.mac = new,
                      !.pc = "discard",
                      !.doomed = Messaged(o.chunks) \ Messaged(new.chunks)])
  /\ UNCHANGED <<doc, discord, sent, failures, lost, unwound, denied, shared>>

\* What the update that was applied replaced.
Replaced(o) == IF o.pc = "ack" THEN Messaged(o.chunks) \ Messaged(Layout(o).chunks) ELSE {}

CommitFailsKeeping(h) ==
  LET o == file[h] IN
  /\ o.pc \in {"commit", "ack"} /\ MayFail
  /\ failures' = failures + 1
  /\ Set(h, [o EXCEPT !.pc = "discard", !.undo = TRUE])
  /\ denied' = IF o.pc = "ack" THEN denied \cup ({o.msg} \ {0}) ELSE denied
  /\ lost' = lost \cup Replaced(o)
  /\ UNCHANGED <<doc, version, discord, sent, unwound, shared>>

\* The update raises, whether it was applied or not: the handle keeps its old layout,
\* and the attachment just uploaded, taken for one nothing names, is deleted next.
CommitFails(h) ==
  LET o == file[h] IN
  /\ o.pc \in {"commit", "ack"} /\ MayFail
  /\ failures' = failures + 1
  /\ Set(h, [o EXCEPT !.pc = "discard", !.undo = TRUE, !.doomed = {o.msg} \ {0}])
  /\ denied' = IF o.pc = "ack" THEN denied \cup ({o.msg} \ {0}) ELSE denied
  /\ lost' = lost \cup Replaced(o)
  /\ UNCHANGED <<doc, version, discord, sent, unwound, shared>>

Awaiting(o) == o.pc \in {"discard", "unwind"}

\* `_safe_delete_message` of one attachment; deleting what is gone is no error.
Delete(h, m) ==
  /\ Awaiting(file[h]) /\ m \in file[h].doomed
  /\ discord' = [k \in DOMAIN discord \ {m} |-> discord[k]]
  /\ file' = [file EXCEPT ![h].doomed = @ \ {m}]
  /\ unwound' = IF file[h].pc = "unwind" /\ file[h].created THEN unwound \cup {m} ELSE unwound
  /\ UNCHANGED <<doc, version, sent, failures, lost, denied, shared>>

\* It fails, which is not fatal: the attachment stays behind.
DeleteFails(h, m) ==
  LET o == file[h] IN
  /\ Awaiting(o) /\ m \in o.doomed /\ MayFail
  /\ failures' = failures + 1
  /\ lost' = lost \cup {m}
  /\ Set(h, [o EXCEPT !.doomed = @ \ {m}])
  /\ UNCHANGED <<doc, version, discord, sent, unwound, denied, shared>>

\* The chunk just patched is cached; a resize drops the cache.
ContinueKeepingCache(o) ==
  CASE o.step = "append" -> AppendOn([o EXCEPT !.buffer = Dropped(@, Len(o.piece))])
    [] o.step = "flush"  -> Flushed([o EXCEPT !.buffer = <<>>])
    [] o.step = "gap"    -> Gap(o)
    [] o.step = "extend" -> Extend([o EXCEPT !.data = Dropped(@, Len(o.piece))])
    [] o.step = "patch"  -> Patch([o EXCEPT !.at = @ + PatchTake(o),
                                            !.data = Dropped(@, PatchTake(o)),
                                            !.cache = Cached(@, Patched(o).index, o.piece)])
    [] o.step = "trim"   -> Rest(o)

Continue(o) ==
  CASE o.step = "append" -> AppendOn([o EXCEPT !.buffer = Dropped(@, Len(o.piece))])
    [] o.step = "flush"  -> Flushed([o EXCEPT !.buffer = <<>>])
    [] o.step = "gap"    -> Gap(o)
    [] o.step = "extend" -> Extend([o EXCEPT !.data = Dropped(@, Len(o.piece))])
    [] o.step = "patch"  -> Patch([o EXCEPT !.at = @ + PatchTake(o),
                                            !.data = Dropped(@, PatchTake(o)),
                                            !.cache = Cached(@, Patched(o).index, o.piece)])
    [] o.step = "trim"   -> Rest([o EXCEPT !.cache = NoCache])

Proceed(h) ==
  LET o == file[h] IN
  /\ o.pc = "discard" /\ o.doomed = {}
  /\ Call(h, IF ~o.undo THEN Continue(o)
             ELSE IF o.step \in NewChunk THEN Rollback(o) ELSE Raised(o))

\* `close` of an overwrite: `_finish_overwrite` puts the node in its directory,
\* and a failure there unwinds it.
Swap(h) ==
  /\ file[h].pc = "swap"
  /\ doc' = [doc EXCEPT !.state = "here"]
  /\ Set(h, Closed)
  /\ UNCHANGED <<version, discord, sent, failures, lost, unwound, denied, shared>>

SwapFails(h) ==
  /\ file[h].pc = "swap" /\ MayFail
  /\ failures' = failures + 1
  /\ Set(h, Rollback(file[h]))
  /\ UNCHANGED <<doc, version, discord, sent, lost, unwound, denied, shared>>

-----------------------------------------------------------------------------
(* Unwinding a file the handle created.                                    *)

\* The attachments are gone; the row goes too if its parent could be staged.
Unwound(h) ==
  LET o == [file[h] EXCEPT !.chunks = <<>>, !.size = 0] IN
  /\ file[h].pc = "unwind" /\ file[h].doomed = {}
  /\ \/ Call(h, [o EXCEPT !.pc = "drop"])
     \/ /\ MayFail /\ failures' = failures + 1
        /\ Set(h, Rest(o))
        /\ UNCHANGED <<doc, version, discord, sent, lost, unwound, denied, shared>>

DropRow(h) ==
  /\ file[h].pc = "drop"
  /\ doc' = [state |-> "gone", size |-> 0, chunks |-> <<>>]
  /\ version' = None
  /\ Set(h, Rest(file[h]))
  /\ UNCHANGED <<discord, sent, failures, lost, unwound, denied, shared>>

DropRowFails(h) ==
  /\ file[h].pc = "drop" /\ MayFail
  /\ failures' = failures + 1
  /\ Set(h, Rest(file[h]))
  /\ UNCHANGED <<doc, version, discord, sent, lost, unwound, denied, shared>>

\* What only the handle could have named or deleted: uploaded and not committed, or
\* committed away and not yet deleted.
Forgotten(o) ==
  (IF o.pc = "commit" THEN {o.msg} \ {0} ELSE {}) \cup o.doomed \cup Replaced(o)

\* The web upload is cancelled while it waits for a call of a write, and `abort`,
\* which is shielded, unwinds the file: the chunk is in the handle's list from the
\* answer to its upload on, and forgotten if that answer was still on its way.
CancelWrite(h) ==
  LET o == [file[h] EXCEPT !.buffer = <<>>, !.task = "abort"]
      new == Layout(o)
  IN
  /\ file[h].step = "append" /\ o.created /\ ~o.failed /\ MayFail
  /\ failures' = failures + 1
  /\ \/ /\ o.pc \in {"upload", "commit"}
        /\ Set(h, Rollback(o))
        /\ lost' = lost \cup Forgotten(o)
     \/ /\ o.pc \in {"commit", "ack", "discard"}
        /\ o.pc = "discard" => o.undo /\ o.doomed # {}
        /\ Set(h, Rollback([o EXCEPT !.size = new.size, !.chunks = new.chunks]))
        /\ UNCHANGED lost
  /\ UNCHANGED <<doc, version, discord, sent, unwound, denied, shared>>

\* It is cancelled in `close`, which nothing shields, or in an unwinding that a write
\* had begun, which `abort` does not take up again: the handle is left as it is.
CancelClose(h) ==
  LET o == file[h] IN
  /\ o.created /\ MayFail
  /\ o.pc \notin {"idle", "fetch"} /\ (Awaiting(o) => o.doomed # {})
  /\ o.task = "close" \/ (o.task = "append" /\ o.failed)
  /\ failures' = failures + 1
  /\ lost' = lost \cup Forgotten(o)
  /\ Set(h, Closed)
  /\ UNCHANGED <<doc, version, discord, sent, unwound, denied, shared>>

Crash ==
  /\ MayFail
  /\ failures' = failures + 1
  /\ lost' = lost \cup UNION {Forgotten(file[h]) : h \in Handles}
  /\ version' = None
  /\ file' = [h \in Handles |-> Closed]
  /\ UNCHANGED <<doc, discord, sent, unwound, denied, shared>>

-----------------------------------------------------------------------------

Chunk(m, i, at, n) == [msg |-> m, index |-> i, offset |-> at, size |-> n]

\* No file yet, or one of a chunk with perhaps a hole after it.
Init ==
  /\ \/ doc = [state |-> "none", size |-> 0, chunks |-> <<>>] /\ discord = <<>> /\ sent = 0
     \/ \E size \in {SharedSize, MaxSize} \ {0}, v \in Values :
          LET full == Min2(ChunkMax, size) IN
          /\ doc = [state |-> "here", size |-> size, chunks |-> <<Chunk(1, 0, 0, full)>>]
          /\ discord = [m \in {1} |-> [k \in 1 .. full |-> v]]
          /\ sent = 1
  /\ version = None
  /\ file = [h \in Handles |-> Closed]
  /\ failures = 0
  /\ lost = {} /\ unwound = {} /\ denied = {} /\ shared = FALSE

Method(h) ==
  \/ Refetch(h) \/ Close(h) \/ Abort(h)
  \/ \E flag \in BOOLEAN : Create(h, flag) \/ Open(h, flag)
  \/ \E at \in 0 .. MaxSize, n \in 1 .. MaxSize, v \in Values :
       Write(h, at, [k \in 1 .. n |-> v])
  \/ \E n \in 0 .. MaxSize : Truncate(h, n)
  \/ \E k \in 1 .. MaxSize : Read(h, k)

Await(h) ==
  \/ Fetched(h) \/ Send(h) \/ SendFails(h) \/ Apply(h) \/ Commit(h) \/ CommitFails(h)
  \/ Proceed(h) \/ CancelWrite(h) \/ CancelClose(h)
  \/ Swap(h) \/ SwapFails(h) \/ Unwound(h) \/ DropRow(h) \/ DropRowFails(h)
  \/ \E m \in Messages : Delete(h, m) \/ DeleteFails(h, m)

Next == Crash \/ \E h \in Handles : Method(h) \/ Await(h)

Spec == Init /\ [][Next]_vars

-----------------------------------------------------------------------------
(* Properties.                                                             *)

TypeOK ==
  /\ doc.state \in {"none", "here", "apart", "gone"} /\ doc.size \in 0 .. MaxSize
  /\ DOMAIN discord \subseteq Messages /\ sent \in 0 .. MaxMessages
  /\ failures \in 0 .. MaxFailures /\ lost \subseteq Messages
  /\ unwound \subseteq Messages /\ denied \subseteq Messages
  /\ \A h \in Handles :
       /\ file[h].pc \in Pcs /\ file[h].step \in Steps /\ file[h].task \in Tasks
       /\ Len(file[h].buffer) <= MaxSize /\ file[h].doomed \subseteq Messages

Named == IF Exists THEN Messaged(doc.chunks) ELSE {}

AtRest == \A h \in Handles : file[h].pc = "idle"

\* Whatever failed, was cancelled or died between an upload, a commit and a delete,
\* every chunk the document names is on Discord, save those a handle giving up on the
\* file it created has deleted itself, and those of a commit that was applied and
\* raised.  "Nothing references it" (`_upload_chunk`) is not so of the last: the
\* document names the attachment the handle then deletes.
EveryChunkIsThere == ~shared => Named \ (unwound \cup denied) \subseteq DOMAIN discord

\* Once every method has returned, raised or been cancelled, an attachment nothing
\* names is one whose delete failed, or that a crash, a cancellation, or a commit
\* that was applied and raised, cut off from the handle that would have committed
\* or deleted it.
EveryOrphanHasACause == AtRest /\ ~shared => DOMAIN discord \subseteq Named \cup lost

\* The layout every commit leaves is the one `_locate_chunk` and `_covered_end`
\* rely on: chunks back to back from zero, at their own index, inside the file,
\* each as long as its attachment; the chunk's tag covers all of it.
ChunksAreContiguous ==
  \A k \in DOMAIN doc.chunks :
    LET c == doc.chunks[k] IN
    /\ c.index = k - 1
    /\ c.offset = (IF k = 1 THEN 0 ELSE doc.chunks[k - 1].offset + doc.chunks[k - 1].size)
    /\ c.offset + c.size <= doc.size
    /\ c.msg \in DOMAIN discord => Len(discord[c.msg]) = c.size

\* A handle alone on its file reads back exactly what was written and truncated
\* through it, whatever mix of buffered appends, patches, gaps, trims and cached
\* reads the calls came to, and whichever of them raised.
ReadYourWrites ==
  ~shared => \A h \in Handles :
    file[h].open /\ file[h].pc = "idle" /\ ~file[h].failed => View(file[h]) = file[h].goal

\* "Resurrecting a write that was reported as lost": a handle that has failed
\* uploads and commits nothing more, its buffer included.
FailedHandleIsDone ==
  \A h \in Handles : file[h].failed => file[h].pc \notin {"upload", "commit"}

\* "Indices are reused as chunks are trimmed and replaced" (`_sync`): whatever
\* two handles do to one file, the bytes a handle has cached under an index are
\* those of the chunk its layout has there.
CacheHoldsItsChunks ==
  \A h \in Handles : file[h].pc = "idle" =>
    \A k \in DOMAIN file[h].chunks :
      LET c == file[h].chunks[k] IN
      c.index \in DOMAIN file[h].cache /\ c.msg \in DOMAIN discord
        => file[h].cache[c.index] = discord[c.msg]
=============================================================================
