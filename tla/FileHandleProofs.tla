--------------------------- MODULE FileHandleProofs ---------------------------
(***************************************************************************)
(* Uploads, commits and deletes of FileHandle, for files and chunks of any *)
(* size and any number of handles, attachments, failures and crashes: the  *)
(* layout every commit leaves, the bytes a handle has cached, no hole in a *)
(* file, nothing left behind silently, no write after a failure, and what  *)
(* a handle alone on its file reads back.                                  *)
(***************************************************************************)
EXTENDS FileHandle, FiniteSetTheorems, WellFoundedInduction, TLAPS

Fields ==
  {"open", "created", "appends", "failed", "replaces", "latest", "size", "chunks", "mac",
   "buffer", "cache", "task", "pc", "step", "at", "data", "piece", "msg", "doomed", "undo",
   "goal"}

\* A list of chunks, whatever their offsets.
IsChunk(c) == c = [msg |-> c.msg, index |-> c.index, offset |-> c.offset, size |-> c.size]
Listed(chunks) == \E S : chunks \in Seq(S) /\ \A c \in S : IsChunk(c)

EndOf(c) == c.offset + c.size

\* Chunks back to back from zero, none of them empty.
Laid(chunks) ==
  /\ Listed(chunks)
  /\ \A k \in DOMAIN chunks :
       /\ chunks[k].offset \in Nat /\ chunks[k].size \in Nat \ {0}
       /\ chunks[k].offset = IF k = 1 THEN 0 ELSE EndOf(chunks[k - 1])
  /\ \A j, k \in DOMAIN chunks : j < k => EndOf(chunks[j]) <= chunks[k].offset

\* What an upload is for, which is what the handle goes on with afterwards.
Flushing == {"random", "resize", "read", "close"}

Aimed(o) == o.step \in Steps \ {"none"} /\ (o.step = "flush" => o.task \in Flushing)

\* A resize that cuts no chunk commits without an upload.
Bare(o) == o.step = "trim" /\ Straddlers(o) = {}

\* A handle, whatever the others do.
Typed(o) ==
  /\ DOMAIN o = Fields /\ o.pc \in Pcs
  /\ o.failed => o.pc \in {"idle", "fetch", "unwind", "drop"}
  /\ o.pc = "unwind" => o.created
  /\ o.pc \in {"unwind", "drop"} => o.failed
  /\ o.undo => o.pc \in {"discard", "unwind", "drop"}
  /\ o.pc = "discard" /\ o.undo => o.doomed \subseteq {o.msg}
  /\ o.pc \in {"upload", "commit", "ack", "discard"} => Aimed(o)

\* What an upload is made of, and where it goes.
Shaped(o) ==
  /\ o.step \in NewChunk => o.piece \in Seq(Bytes) \ {<<>>}
  /\ o.step = "patch" => Locate(o.chunks, o.at) # {}

Loaded(o) ==
  o.buffer \in Seq(Bytes) /\ o.data \in Seq(Bytes) /\ o.at \in Nat /\ o.size \in Nat

Ready(o) ==
  /\ Loaded(o)
  /\ o.pc \in {"upload", "commit", "ack", "discard"} => Shaped(o)
  /\ o.pc = "upload" /\ o.step = "trim" => Straddlers(o) # {}
  /\ o.pc = "commit" /\ Bare(o) => o.msg = 0

\* Bytes of a given number.
AreBytes(bytes, n) == bytes \in Seq(Bytes) /\ Len(bytes) = n

\* What a chunk names is one of the n attachments sent, and while it is among those
\* held it is as long as the chunk.
Holds(c, held, n) ==
  c.msg \in 1 .. n /\ (c.msg \in DOMAIN held => AreBytes(held[c.msg], c.size))

\* A layout: chunks back to back, at their own index, inside the file.
Fitted(size, chunks, held, n) ==
  /\ Laid(chunks) /\ size \in Nat
  /\ \A k \in DOMAIN chunks : /\ chunks[k].index = k - 1 /\ EndOf(chunks[k]) <= size
                              /\ Holds(chunks[k], held, n)

\* What was uploaded is what the commit will say of it.
Fresher(o, held, n) ==
  /\ o.msg \in 1 .. n /\ o.piece \in Seq(Bytes)
  /\ o.msg \in DOMAIN held => held[o.msg] = o.piece
  /\ o.step = "patch" => Len(o.piece) = Patched(o).size
  /\ o.step = "trim" => Len(o.piece) = o.at - Straddler(o).offset

\* A commit is answered, and what the method does next is not done yet.
Behind(o) == o.pc = "discard" /\ ~o.undo

\* Bytes that are those of a chunk, as far as anybody can tell.
Matches(bytes, c, held) ==
  AreBytes(bytes, c.size) /\ (c.msg \in DOMAIN held => bytes = held[c.msg])

Mirrors(cache, c, held) == c.index \in DOMAIN cache => Matches(cache[c.index], c, held)

Slots(chunks) == {k - 1 : k \in DOMAIN chunks}

\* The cache is of the chunks there are, until a resize drops it; the chunk a patch
\* has just replaced is cached when the old attachment is gone.
Mirrored(o, held) ==
  ~(Behind(o) /\ o.step = "trim") =>
    /\ o.failed \/ DOMAIN o.cache \subseteq Slots(o.chunks)
    /\ \A k \in DOMAIN o.chunks : \/ Mirrors(o.cache, o.chunks[k], held)
                                  \/ Behind(o) /\ o.step = "patch" /\ o.chunks[k] = Patched(o)

\* A commit is awaited, or raised and its attachment is being deleted.
Pending(o) == o.pc \in {"commit", "ack"} \/ (o.pc = "discard" /\ o.undo)

\* A handle and the attachments its layout and its cache are made of.
Firm(o, held, n) ==
  /\ Ready(o) /\ Fitted(o.size, o.chunks, held, n) /\ Mirrored(o, held)
  /\ o.pc = "fetch" => Fitted(o.latest.size, o.latest.chunks, held, n)
  /\ Pending(o) /\ ~Bare(o) => Fresher(o, held, n)
  /\ Behind(o) /\ o.step = "patch" =>
       Patched(o).msg = o.msg /\ Matches(o.piece, Patched(o), held)

\* What a document names, and whether a path or an overwrite leads to it.
Live(d) == d.state \in {"here", "apart"}
Names(d) == IF Live(d) THEN Messaged(d.chunks) ELSE {}

\* Attachments a handle still has to name or to delete.
Owes(o) ==
  (IF o.pc \in {"discard", "unwind"} THEN o.doomed ELSE {})
    \cup (IF o.pc = "commit" THEN {o.msg} ELSE {}) \cup Replaced(o)

\* A method that has not failed.
Working(o) ==
  ~o.failed /\ (o.pc \in {"upload", "commit", "discard", "swap"} \/ (o.pc = "idle" /\ o.open))

\* Attachments deleted although the document may still name them.
Undone == unwound \cup denied

\* The document is behind the layout of the handle alone on the file, or ahead of it
\* by a commit that raised: what the layout names is there, but for what was undone,
\* and what only the document names is on record, for the handle to delete, or gone.
Trails(chunks, d, there, deleted, gone) ==
  /\ Live(d) /\ Messaged(chunks) \ deleted \subseteq there
  /\ Names(d) \cap there \subseteq Messaged(chunks) \cup gone

\* What the handle alone on the file can tell of the document; what it unwinds is all
\* the document names.
Agrees(o, d, there, deleted, gone) ==
  /\ Working(o) => Trails(o.chunks, d, there, deleted, gone \cup Owes(o))
  /\ o.pc = "ack" => /\ Live(d) /\ d.chunks = Layout(o).chunks
                     /\ Messaged(o.chunks) \ deleted \subseteq there
                     /\ o.msg \notin Messaged(o.chunks)
  /\ o.pc = "fetch" => Live(d) /\ d.chunks = o.latest.chunks
  /\ o.pc = "commit" => /\ o.msg \notin Names(d) \cup Messaged(o.chunks)
                        /\ o.msg \in there \/ Bare(o)
  /\ o.pc = "discard" => /\ o.doomed \cap Names(d) \subseteq deleted
                         /\ o.doomed \cap Messaged(o.chunks) = {}
  /\ o.pc = "unwind" => Names(d) \cap there \subseteq gone \cup o.doomed
  /\ o.pc = "drop" => Names(d) \cap there \subseteq gone

\* The attachments: those there were all sent, and what the document names is
\* there, but for what was undone.
Whole(d, there, n, deleted) ==
  there \subseteq 1 .. n /\ Names(d) \subseteq 1 .. n /\ Names(d) \ deleted \subseteq there

\* A handle that is alone on the file: what is on Discord is named, on record, or
\* for the handle to name or delete.
Sound(o, d, there, n, deleted, gone) ==
  /\ Whole(d, there, n, deleted) /\ Agrees(o, d, there, deleted, gone)
  /\ there \subseteq Names(d) \cup gone \cup Owes(o)

Types ==
  /\ DOMAIN file = Handles /\ sent \in Nat /\ DOMAIN doc = {"state", "size", "chunks"}
  /\ \A h \in Handles : Typed(file[h])

\* The document and every handle's copy of it are layouts, whoever shares the file.
Layouts ==
  /\ Fitted(doc.size, doc.chunks, discord, sent)
  /\ \A h \in Handles : Firm(file[h], discord, sent)

\* While no two handles have been open at once.
Alone ==
  /\ \A g, h \in Handles : ~Fresh(file[g]) /\ ~Fresh(file[h]) => g = h
  /\ Whole(doc, DOMAIN discord, sent, Undone)
  /\ \A h \in Handles : Agrees(file[h], doc, DOMAIN discord, Undone, lost)
  /\ DOMAIN discord \subseteq Names(doc) \cup lost \cup UNION {Owes(file[h]) : h \in Handles}

IInv == Types /\ Layouts /\ (~shared => Alone)

-----------------------------------------------------------------------------
(* Lists of chunks.                                                        *)

LEMMA EmptyListed == Listed(<<>>) /\ Messaged(<<>>) = {}
<1>1. <<>> \in Seq({}) /\ DOMAIN <<>> = {} OBVIOUS
<1>2. \A c \in {} : IsChunk(c) OBVIOUS
<1>3. Listed(<<>>) BY <1>1, <1>2, Zenon DEF Listed
<1>4. Messaged(<<>>) = {} BY <1>1 DEF Messaged
<1> QED BY <1>3, <1>4

\* A chunk appended.
LEMMA AppendListed ==
  ASSUME NEW chunks, Listed(chunks), NEW c, IsChunk(c), NEW longer, longer = Append(chunks, c)
  PROVE  Listed(longer) /\ Messaged(longer) = Messaged(chunks) \cup {c.msg}
<1>1. PICK S : chunks \in Seq(S) /\ \A d \in S : IsChunk(d) BY DEF Listed
<1>2. chunks \in Seq(S \cup {c}) BY <1>1
<1>3. longer \in Seq(S \cup {c}) BY <1>2
<1>4. Listed(longer) BY <1>1, <1>3 DEF Listed
<1>5. DOMAIN chunks = 1 .. Len(chunks) /\ Len(chunks) \in Nat BY <1>1
<1>6. /\ DOMAIN longer = 1 .. Len(chunks) + 1
      /\ \A k \in DOMAIN chunks : longer[k] = chunks[k]
      /\ longer[Len(chunks) + 1] = c
  BY <1>2, <1>5
<1>7. Messaged(longer) \subseteq Messaged(chunks) \cup {c.msg}
  BY <1>5, <1>6 DEF Messaged
<1>8. Messaged(chunks) \cup {c.msg} \subseteq Messaged(longer)
  BY <1>5, <1>6 DEF Messaged
<1> QED BY <1>4, <1>7, <1>8

\* The first chunks of a list.
LEMMA PrefixListed ==
  ASSUME NEW chunks, Listed(chunks), NEW n \in 0 .. Len(chunks)
  PROVE  /\ Listed(SubSeq(chunks, 1, n))
         /\ Messaged(SubSeq(chunks, 1, n)) \subseteq Messaged(chunks)
<1> DEFINE kept == SubSeq(chunks, 1, n)
<1>1. PICK S : chunks \in Seq(S) /\ \A c \in S : IsChunk(c) BY DEF Listed
<1>2. Len(chunks) \in Nat /\ DOMAIN chunks = 1 .. Len(chunks) BY <1>1
<1>3. kept \in Seq(S) BY <1>1, <1>2
<1>4. Len(kept) = n BY <1>1, <1>2
<1>5. \A k \in 1 .. n : kept[k] = chunks[k] BY <1>1, <1>2
<1> HIDE DEF kept
<1>6. DOMAIN kept = 1 .. n BY <1>3, <1>4
<1>7. Listed(kept) BY <1>1, <1>3 DEF Listed
<1>8. Messaged(kept) \subseteq Messaged(chunks) BY <1>2, <1>5, <1>6 DEF Messaged
<1> QED BY <1>7, <1>8 DEF kept

-----------------------------------------------------------------------------
(* Layouts.                                                                *)

LEMMA Lengths ==
  ASSUME NEW chunks, Listed(chunks)
  PROVE  Len(chunks) \in Nat /\ DOMAIN chunks = 1 .. Len(chunks)
  BY DEF Listed

LEMMA EndIs ==
  ASSUME NEW chunks, Laid(chunks), chunks # <<>>
  PROVE  /\ Len(chunks) \in DOMAIN chunks
         /\ CoveredEnd(chunks) = EndOf(chunks[Len(chunks)])
<1>1. Len(chunks) \in Nat /\ DOMAIN chunks = 1 .. Len(chunks) BY Lengths DEF Laid
<1>2. Len(chunks) \in DOMAIN chunks
  <2>1. Len(chunks) # 0 BY DEF Laid, Listed
  <2> QED BY <1>1, <2>1
<1> DEFINE top == chunks[Len(chunks)]
<1>3. ASSUME NEW k \in DOMAIN chunks, k # Len(chunks)
      PROVE  chunks[k].offset < top.offset
  <2>1. k < Len(chunks) BY <1>1, <1>3
  <2>2. EndOf(chunks[k]) <= top.offset BY <1>2, <2>1 DEF Laid
  <2>3. chunks[k].offset < EndOf(chunks[k]) /\ chunks[k].offset \in Nat /\ top.offset \in Nat
        /\ EndOf(chunks[k]) \in Nat
    BY <1>2 DEF Laid, EndOf
  <2> QED BY <2>2, <2>3
<1>4. top.offset \in Nat BY <1>2 DEF Laid
<1>5. \A c \in {chunks[k] : k \in DOMAIN chunks} :
        (\A k \in DOMAIN chunks : chunks[k].offset <= c.offset) => c = top
  <2>1. ASSUME NEW k \in DOMAIN chunks, chunks[Len(chunks)].offset <= chunks[k].offset
        PROVE  chunks[k] = top
    <3>1. chunks[k].offset \in Nat BY DEF Laid
    <3> QED BY <1>3, <1>4, <2>1, <3>1
  <2> QED BY <1>2, <2>1
<1>6. top \in {chunks[k] : k \in DOMAIN chunks} BY <1>2
<1>7. \A k \in DOMAIN chunks : chunks[k].offset <= top.offset
  <2> TAKE k \in DOMAIN chunks
  <2>1. chunks[k].offset \in Nat BY DEF Laid
  <2> QED BY <1>3, <1>4, <2>1
<1>8. (CHOOSE c \in {chunks[k] : k \in DOMAIN chunks} :
         \A k \in DOMAIN chunks : chunks[k].offset <= c.offset) = top
  BY <1>5, <1>6, <1>7
<1> QED BY <1>2, <1>8 DEF CoveredEnd, EndOf

LEMMA EndType ==
  ASSUME NEW chunks, Laid(chunks)
  PROVE  /\ CoveredEnd(chunks) \in Nat
         /\ \A k \in DOMAIN chunks : EndOf(chunks[k]) <= CoveredEnd(chunks)
<1>1. CASE chunks = <<>> BY <1>1 DEF CoveredEnd
<1>2. CASE chunks # <<>>
  <2>1. CoveredEnd(chunks) = EndOf(chunks[Len(chunks)]) /\ Len(chunks) \in DOMAIN chunks
    BY <1>2, EndIs
  <2>2. Len(chunks) \in Nat /\ DOMAIN chunks = 1 .. Len(chunks) BY Lengths DEF Laid
  <2>3. \A k \in DOMAIN chunks : EndOf(chunks[k]) \in Nat /\ chunks[k].offset <= EndOf(chunks[k])
                                 /\ chunks[k].offset \in Nat
    BY DEF Laid, EndOf
  <2>4. ASSUME NEW k \in DOMAIN chunks, k # Len(chunks)
        PROVE  EndOf(chunks[k]) <= EndOf(chunks[Len(chunks)])
    <3>1. k < Len(chunks) BY <2>2, <2>4
    <3>2. EndOf(chunks[k]) <= chunks[Len(chunks)].offset BY <2>1, <3>1 DEF Laid
    <3> QED BY <2>1, <2>3, <3>2
  <2> QED BY <2>1, <2>3, <2>4
<1> QED BY <1>1, <1>2

LEMMA LocateSome ==
  ASSUME NEW chunks, Laid(chunks), NEW pos \in Nat, pos < CoveredEnd(chunks)
  PROVE  Locate(chunks, pos) # {}
<1>1. chunks # <<>> BY DEF CoveredEnd
<1>2. Len(chunks) \in DOMAIN chunks /\ CoveredEnd(chunks) = EndOf(chunks[Len(chunks)])
  BY <1>1, EndIs
<1>3. Len(chunks) \in Nat /\ DOMAIN chunks = 1 .. Len(chunks) BY Lengths DEF Laid
<1> DEFINE past == {k \in DOMAIN chunks : pos < EndOf(chunks[k])}
<1>4. Len(chunks) \in past /\ past \subseteq Nat BY <1>2, <1>3
<1>5. PICK k \in past : \A j \in past : <<j, k>> \notin OpToRel(<, Nat)
  BY <1>4, NatLessThanWellFounded, WFMin
<1>6. \A j \in past : ~(j < k) BY <1>4, <1>5 DEF OpToRel
<1>7. chunks[k].offset <= pos
  <2>1. CASE k = 1 BY <1>4, <2>1 DEF Laid
  <2>2. CASE k # 1
    <3>1. k - 1 \in DOMAIN chunks /\ k - 1 < k BY <1>3, <2>2
    <3>2. ~(pos < EndOf(chunks[k - 1])) BY <1>6, <3>1
    <3>3. chunks[k].offset = EndOf(chunks[k - 1]) /\ EndOf(chunks[k - 1]) \in Nat
      BY <2>2, <3>1 DEF Laid, EndOf
    <3> QED BY <3>2, <3>3
  <2> QED BY <2>1, <2>2
<1>8. k \in Locate(chunks, pos) BY <1>7 DEF Locate, EndOf
<1> QED BY <1>8

LEMMA LongerLaid ==
  ASSUME NEW chunks, Laid(chunks), NEW c, IsChunk(c), c.offset = CoveredEnd(chunks),
         c.size \in Nat \ {0}, NEW longer, longer = Append(chunks, c)
  PROVE  Laid(longer)
<1>1. Len(chunks) \in Nat /\ DOMAIN chunks = 1 .. Len(chunks) BY Lengths DEF Laid
<1>2. Listed(longer) BY AppendListed DEF Laid
<1>3. /\ DOMAIN longer = 1 .. Len(chunks) + 1
      /\ \A k \in DOMAIN chunks : longer[k] = chunks[k]
      /\ longer[Len(chunks) + 1] = c
  BY DEF Laid, Listed
<1>4. CoveredEnd(chunks) \in Nat /\ \A k \in DOMAIN chunks : EndOf(chunks[k]) <= CoveredEnd(chunks)
  BY EndType
<1>5. ASSUME NEW k \in DOMAIN longer
      PROVE  /\ longer[k].offset \in Nat /\ longer[k].size \in Nat \ {0}
             /\ longer[k].offset = IF k = 1 THEN 0 ELSE EndOf(longer[k - 1])
  <2>1. CASE k \in DOMAIN chunks
    <3>1. k # 1 => k - 1 \in DOMAIN chunks BY <1>1, <2>1
    <3> QED BY <1>3, <2>1, <3>1 DEF Laid
  <2>2. CASE k = Len(chunks) + 1
    <3>1. CASE chunks = <<>>
      <4>1. Len(chunks) = 0 BY <3>1
      <4> QED BY <1>3, <2>2, <3>1, <4>1 DEF CoveredEnd
    <3>2. CASE chunks # <<>>
      <4>1. Len(chunks) \in DOMAIN chunks /\ CoveredEnd(chunks) = EndOf(chunks[Len(chunks)])
        BY <3>2, EndIs
      <4>2. k # 1 /\ k - 1 = Len(chunks) BY <1>1, <2>2, <4>1
      <4> QED BY <1>3, <1>4, <2>2, <4>1, <4>2
    <3> QED BY <3>1, <3>2
  <2> QED BY <1>1, <1>3, <2>1, <2>2
<1>6. ASSUME NEW j \in DOMAIN longer, NEW k \in DOMAIN longer, j < k
      PROVE  EndOf(longer[j]) <= longer[k].offset
  <2>1. j \in DOMAIN chunks BY <1>1, <1>3, <1>6
  <2>2. CASE k \in DOMAIN chunks BY <1>3, <1>6, <2>1, <2>2 DEF Laid
  <2>3. CASE k = Len(chunks) + 1 BY <1>3, <1>4, <2>1, <2>3
  <2> QED BY <1>1, <1>3, <2>2, <2>3
<1> QED BY <1>2, <1>5, <1>6 DEF Laid

LEMMA PrefixLaid ==
  ASSUME NEW chunks, Laid(chunks), NEW n \in 0 .. Len(chunks), NEW kept,
         kept = SubSeq(chunks, 1, n)
  PROVE  Laid(kept) /\ Len(kept) = n /\ \A k \in 1 .. n : kept[k] = chunks[k]
<1>1. Len(chunks) \in Nat /\ DOMAIN chunks = 1 .. Len(chunks) BY Lengths DEF Laid
<1>2. Listed(kept) BY PrefixListed DEF Laid
<1>3. Len(kept) = n /\ DOMAIN kept = 1 .. n /\ \A k \in 1 .. n : kept[k] = chunks[k]
  BY <1>1 DEF Laid, Listed
<1>4. \A k \in DOMAIN kept : k \in DOMAIN chunks /\ (k # 1 => k - 1 \in DOMAIN kept)
  BY <1>1, <1>3
<1> QED BY <1>2, <1>3, <1>4 DEF Laid

LEMMA PatchLaid ==
  ASSUME NEW chunks, Laid(chunks), NEW m, NEW new, Listed(new), DOMAIN new = DOMAIN chunks,
         \A k \in DOMAIN chunks :
           new[k].offset = chunks[k].offset /\ new[k].size = chunks[k].size
  PROVE  Laid(new) /\ \A pos : Locate(new, pos) = Locate(chunks, pos)
<1>1. Len(chunks) \in Nat /\ DOMAIN chunks = 1 .. Len(chunks) BY Lengths DEF Laid
<1>2. \A k \in DOMAIN chunks : k # 1 => k - 1 \in DOMAIN chunks BY <1>1
<1>3. \A k \in DOMAIN chunks : EndOf(new[k]) = EndOf(chunks[k]) BY DEF EndOf
<1>4. Laid(new) BY <1>2, <1>3 DEF Laid
<1>5. \A pos : Locate(new, pos) = Locate(chunks, pos) BY DEF Locate
<1> QED BY <1>4, <1>5

\* What lies before a position comes first.
LEMMA BeforeIs ==
  ASSUME NEW chunks, Laid(chunks), NEW at \in Nat, NEW before \in SUBSET DOMAIN chunks,
         \A j \in DOMAIN chunks : j \in before <=> EndOf(chunks[j]) <= at
  PROVE  \E m \in 0 .. Len(chunks) : before = 1 .. m /\ Cardinality(before) = m
<1>1. Len(chunks) \in Nat /\ DOMAIN chunks = 1 .. Len(chunks) BY Lengths DEF Laid
<1>2. \A j \in DOMAIN chunks : /\ EndOf(chunks[j]) \in Nat /\ chunks[j].offset \in Nat
                               /\ chunks[j].offset <= EndOf(chunks[j])
  BY DEF Laid, EndOf
<1>3. PICK past : past = DOMAIN chunks \ before OBVIOUS
<1>4. ASSUME NEW m \in 0 .. Len(chunks), before = 1 .. m
      PROVE  Cardinality(before) = m
  <2>1. m \in Int /\ 1 \in Int /\ m \in Nat BY <1>1
  <2>2. Cardinality(1 .. m) = m BY <2>1, FS_Interval
  <2> QED BY <1>4, <2>2
<1>5. CASE past = {}
  <2>1. before = DOMAIN chunks BY <1>3, <1>5
  <2>2. before = 1 .. Len(chunks) /\ Len(chunks) \in 0 .. Len(chunks) BY <1>1, <2>1
  <2> QED BY <1>4, <2>2
<1>6. CASE past # {}
  <2>1. past \subseteq Nat BY <1>1, <1>3
  <2>2. PICK k \in past : \A j \in past : <<j, k>> \notin OpToRel(<, Nat)
    BY <1>6, <2>1, NatLessThanWellFounded, WFMin
  <2>3. \A j \in past : ~(j < k) BY <2>1, <2>2 DEF OpToRel
  <2>4. k \in DOMAIN chunks /\ ~(EndOf(chunks[k]) <= at) BY <1>3
  <2>5. \A j \in DOMAIN chunks : j < k => j \in before BY <1>3, <2>3
  <2>6. ASSUME NEW j \in DOMAIN chunks, ~(j < k) PROVE j \notin before
    <3>1. j = k \/ k < j BY <1>1, <2>4, <2>6
    <3>2. CASE j = k BY <2>4, <3>2
    <3>3. CASE k < j
      <4>1. EndOf(chunks[k]) <= chunks[j].offset BY <2>4, <3>3 DEF Laid
      <4>2. /\ chunks[j].offset \in Nat /\ EndOf(chunks[j]) \in Nat /\ EndOf(chunks[k]) \in Nat
            /\ chunks[j].offset <= EndOf(chunks[j])
        BY <1>2, <2>4
      <4>3. ~(EndOf(chunks[j]) <= at) BY <2>4, <4>1, <4>2
      <4> QED BY <4>3
    <3> QED BY <3>1, <3>2, <3>3
  <2>7. before = 1 .. k - 1
    <3>1. \A j : j \in before <=> j \in DOMAIN chunks /\ j < k BY <2>5, <2>6
    <3>2. \A j : j \in DOMAIN chunks /\ j < k <=> j \in 1 .. k - 1 BY <1>1, <2>4
    <3> QED BY <3>1, <3>2
  <2>8. k - 1 \in 0 .. Len(chunks) BY <1>1, <2>4
  <2> QED BY <1>4, <2>7, <2>8
<1> QED BY <1>5, <1>6

-----------------------------------------------------------------------------
(* What a commit leaves.                                                   *)

\* A chunk of a layout has its index to itself.
LEMMA IndexIs ==
  ASSUME NEW size, NEW chunks, NEW held, NEW n, Fitted(size, chunks, held, n)
  PROVE  /\ Len(chunks) \in Nat /\ DOMAIN chunks = 1 .. Len(chunks)
         /\ \A k \in DOMAIN chunks : IsChunk(chunks[k]) /\ chunks[k].index = k - 1
         /\ \A j, k \in DOMAIN chunks : chunks[j] = chunks[k] => j = k
<1>1. Len(chunks) \in Nat /\ DOMAIN chunks = 1 .. Len(chunks) BY Lengths DEF Fitted, Laid
<1>2. \A k \in DOMAIN chunks : IsChunk(chunks[k]) BY DEF Fitted, Laid, Listed
<1>3. \A k \in DOMAIN chunks : chunks[k].index = k - 1 BY DEF Fitted
<1> QED BY <1>1, <1>2, <1>3

LEMMA NewChunkIs ==
  ASSUME NEW o, DOMAIN o = Fields, NEW held, NEW n, o.step \in NewChunk, Shaped(o),
         Fitted(o.size, o.chunks, held, n), Fresher(o, held, n),
         NEW old, old = o.chunks, NEW new, new = Layout(o)
  PROVE  /\ Fitted(new.size, new.chunks, held, n)
         /\ Messaged(new.chunks) = Messaged(old) \cup {o.msg}
         /\ Slots(old) \subseteq Slots(new.chunks)
         /\ \A k \in DOMAIN new.chunks :
              \/ k \in DOMAIN old /\ new.chunks[k] = old[k]
              \/ new.chunks[k].index \notin Slots(old)
<1>1. Layout(o) = WithNewChunk(o) BY DEF Layout, NewChunk
<1>2. Laid(old) /\ Listed(old) BY DEF Fitted, Laid
<1>3. Len(old) \in Nat /\ DOMAIN old = 1 .. Len(old)
      /\ \A k \in DOMAIN old : old[k].index = k - 1
  BY IndexIs
<1>4. CoveredEnd(old) \in Nat BY <1>2, EndType
<1>5. Len(o.piece) \in Nat \ {0} /\ o.piece \in Seq(Bytes) BY DEF Shaped
<1>6. PICK c : /\ IsChunk(c) /\ c.msg = o.msg /\ c.offset = CoveredEnd(old)
               /\ c.size = Len(o.piece) /\ c.index = Len(old)
               /\ new.chunks = Append(old, c)
               /\ new.size = Max2(o.size, CoveredEnd(old) + Len(o.piece))
  BY <1>1 DEF WithNewChunk, IsChunk
<1>7. PICK longer : longer = new.chunks OBVIOUS
<1>8. Laid(longer) BY <1>2, <1>5, <1>6, <1>7, LongerLaid
<1>9. Messaged(longer) = Messaged(old) \cup {c.msg}
  BY <1>2, <1>6, <1>7, AppendListed
<1>10. /\ DOMAIN longer = 1 .. Len(old) + 1
       /\ \A k \in DOMAIN old : longer[k] = old[k]
       /\ longer[Len(old) + 1] = c
  BY <1>2, <1>6, <1>7 DEF Listed
<1>11. new.size \in Nat /\ o.size <= new.size /\ EndOf(c) <= new.size
  BY <1>4, <1>5, <1>6 DEF Max2, EndOf, Fitted
<1>12. Holds(c, held, n) BY <1>5, <1>6 DEF Holds, Fresher, AreBytes
<1>13. ASSUME NEW k \in DOMAIN longer
       PROVE  /\ longer[k].index = k - 1 /\ EndOf(longer[k]) <= new.size
              /\ Holds(longer[k], held, n)
  <2>1. CASE k \in DOMAIN old
    <3>1. longer[k] = old[k] /\ old[k].index = k - 1 /\ EndOf(old[k]) <= o.size
          /\ Holds(old[k], held, n)
      BY <1>10, <2>1 DEF Fitted
    <3>2. EndOf(old[k]) \in Nat /\ o.size \in Nat BY <2>1 DEF Fitted, Laid, EndOf
    <3> QED BY <1>11, <3>1, <3>2
  <2>2. CASE k = Len(old) + 1 BY <1>3, <1>6, <1>10, <1>11, <1>12, <2>2
  <2> QED BY <1>3, <1>10, <2>1, <2>2
<1>14. Fitted(new.size, longer, held, n) BY <1>8, <1>11, <1>13 DEF Fitted
<1>15. Slots(old) \subseteq Slots(longer) BY <1>3, <1>10 DEF Slots
<1>16. Len(old) \notin Slots(old) BY <1>3 DEF Slots
<1>17. \A k \in DOMAIN longer : \/ k \in DOMAIN old /\ longer[k] = old[k]
                                \/ longer[k].index \notin Slots(old)
  BY <1>3, <1>6, <1>10, <1>16
<1> QED BY <1>6, <1>7, <1>9, <1>14, <1>15, <1>17

\* A chunk that names another attachment.
LEMMA Renamed ==
  ASSUME NEW c, IsChunk(c), NEW m, NEW new, new = [c EXCEPT !.msg = m]
  PROVE  /\ IsChunk(new) /\ new.msg = m
         /\ new.index = c.index /\ new.offset = c.offset /\ new.size = c.size
<1>1. PICK p, i, at, z : c = [msg |-> p, index |-> i, offset |-> at, size |-> z] BY DEF IsChunk
<1>2. new = [msg |-> m, index |-> i, offset |-> at, size |-> z] BY <1>1
<1> QED BY <1>1, <1>2 DEF IsChunk

LEMMA PatchIs ==
  ASSUME NEW o, DOMAIN o = Fields, NEW held, NEW n, o.step = "patch", Shaped(o),
         Fitted(o.size, o.chunks, held, n), Fresher(o, held, n),
         NEW old, old = o.chunks, NEW new, new = Layout(o),
         NEW p, p = CHOOSE k \in Locate(old, o.at) : TRUE
  PROVE  /\ Fitted(new.size, new.chunks, held, n) /\ new.size = o.size
         /\ o.msg \in Messaged(new.chunks)
         /\ Messaged(new.chunks) \subseteq Messaged(old) \cup {o.msg}
         /\ DOMAIN new.chunks = DOMAIN old
         /\ Locate(new.chunks, o.at) = Locate(old, o.at)
         /\ p \in DOMAIN old /\ old[p] = Patched(o)
         /\ new.chunks[p].msg = o.msg /\ new.chunks[p].size = old[p].size
         /\ new.chunks[p].offset = old[p].offset
         /\ \A k \in DOMAIN old \ {p} : new.chunks[k] = old[k]
<1>1. PICK with : with = new.chunks OBVIOUS
<1>2. /\ with = [k \in DOMAIN old |-> IF old[k] = Patched(o)
                                      THEN [old[k] EXCEPT !.msg = o.msg] ELSE old[k]]
      /\ new.size = o.size
  BY <1>1 DEF Layout, NewChunk, WithPatch
<1>4. p \in Locate(old, o.at) /\ Patched(o) = old[p] BY DEF Shaped, Patched
<1>5. p \in DOMAIN old BY <1>4 DEF Locate
<1>6. /\ Len(old) \in Nat /\ DOMAIN old = 1 .. Len(old)
      /\ \A k \in DOMAIN old : IsChunk(old[k]) /\ old[k].index = k - 1
      /\ \A k \in DOMAIN old : old[k] = old[p] => k = p
  BY <1>5, IndexIs
<1>7. DOMAIN with = DOMAIN old /\ \A k \in DOMAIN old \ {p} : with[k] = old[k]
  BY <1>2, <1>4, <1>6
<1>8. /\ IsChunk(with[p]) /\ with[p].msg = o.msg /\ with[p].index = old[p].index
      /\ with[p].offset = old[p].offset /\ with[p].size = old[p].size
  <2>1. PICK c, x, m : c = old[p] /\ x = with[p] /\ m = o.msg OBVIOUS
  <2>2. IsChunk(c) BY <1>5, <1>6, <2>1
  <2>3. x = [c EXCEPT !.msg = m] BY <1>2, <1>4, <1>5, <2>1
  <2>4. /\ IsChunk(x) /\ x.msg = m
        /\ x.index = c.index /\ x.offset = c.offset /\ x.size = c.size
    BY <2>2, <2>3, Renamed
  <2> QED BY <2>1, <2>4
<1>9. Listed(with)
  <2>1. PICK S : S = {with[k] : k \in DOMAIN old} OBVIOUS
  <2>2. with \in [1 .. Len(old) -> S] BY <1>2, <1>6, <1>7, <2>1
  <2>3. with \in Seq(S) BY <1>6, <2>2
  <2>4. \A k \in DOMAIN old : IsChunk(with[k]) BY <1>6, <1>7, <1>8
  <2>5. \A c \in S : IsChunk(c) BY <2>1, <2>4
  <2> QED BY <2>3, <2>5 DEF Listed
<1>10. \A k \in DOMAIN old : with[k].offset = old[k].offset /\ with[k].size = old[k].size
  BY <1>7, <1>8
<1>11. Laid(old) BY DEF Fitted
<1>12. Laid(with) /\ Locate(with, o.at) = Locate(old, o.at)
  BY <1>7, <1>9, <1>10, <1>11, PatchLaid
<1>13. ASSUME NEW k \in DOMAIN with
       PROVE  /\ with[k].index = k - 1 /\ EndOf(with[k]) <= o.size
              /\ Holds(with[k], held, n)
  <2>1. CASE k # p BY <1>7, <1>13, <2>1 DEF Fitted
  <2>2. CASE k = p
    <3>1. EndOf(with[p]) = EndOf(old[p]) BY <1>8 DEF EndOf
    <3>2. Holds(with[p], held, n) BY <1>4, <1>8 DEF Holds, Fresher, AreBytes
    <3> QED BY <1>5, <1>6, <1>8, <2>2, <3>1, <3>2 DEF Fitted
  <2> QED BY <2>1, <2>2
<1>14. Fitted(o.size, with, held, n) BY <1>12, <1>13 DEF Fitted
<1>15. o.msg \in Messaged(with) /\ Messaged(with) \subseteq Messaged(old) \cup {o.msg}
  <2>1. o.msg \in Messaged(with) BY <1>5, <1>7, <1>8 DEF Messaged
  <2>2. ASSUME NEW k \in DOMAIN with PROVE with[k].msg \in Messaged(old) \cup {o.msg}
    <3>1. CASE k = p BY <1>8, <3>1
    <3>2. CASE k # p BY <1>7, <3>2 DEF Messaged
    <3> QED BY <3>1, <3>2
  <2> QED BY <2>1, <2>2 DEF Messaged
<1>16. Fitted(new.size, new.chunks, held, n) /\ new.size = o.size BY <1>1, <1>2, <1>14
<1>17. /\ o.msg \in Messaged(new.chunks)
       /\ Messaged(new.chunks) \subseteq Messaged(old) \cup {o.msg}
  BY <1>1, <1>15
<1>18. DOMAIN new.chunks = DOMAIN old /\ Locate(new.chunks, o.at) = Locate(old, o.at)
  BY <1>1, <1>7, <1>12
<1>19. /\ new.chunks[p].msg = o.msg /\ new.chunks[p].size = old[p].size
       /\ new.chunks[p].offset = old[p].offset
       /\ \A k \in DOMAIN old \ {p} : new.chunks[k] = old[k]
  BY <1>1, <1>7, <1>8
<1> QED BY <1>4, <1>5, <1>16, <1>17, <1>18, <1>19

LEMMA TrimIs ==
  ASSUME NEW o, DOMAIN o = Fields, NEW held, NEW n, o.step = "trim", Loaded(o),
         Fitted(o.size, o.chunks, held, n), Bare(o) \/ Fresher(o, held, n),
         NEW old, old = o.chunks, NEW new, new = Layout(o)
  PROVE  /\ Fitted(new.size, new.chunks, held, n)
         /\ Bare(o) \/ o.msg \in Messaged(new.chunks)
         /\ Messaged(new.chunks) \subseteq Messaged(old) \cup {o.msg}
         /\ Bare(o) => Messaged(new.chunks) \subseteq Messaged(old)
<1>1. Laid(old) /\ Listed(old) BY DEF Fitted, Laid
<1>2. /\ Len(old) \in Nat /\ DOMAIN old = 1 .. Len(old)
      /\ \A k \in DOMAIN old : IsChunk(old[k]) /\ old[k].index = k - 1
  BY IndexIs
<1>3. PICK before : before = {k \in DOMAIN old : EndOf(old[k]) <= o.at} OBVIOUS
<1>4. PICK m \in 0 .. Len(old) : before = 1 .. m /\ Cardinality(before) = m
  <2>1. PICK at \in Nat : at = o.at BY DEF Loaded
  <2>2. /\ before \in SUBSET DOMAIN old
        /\ \A k \in DOMAIN old : k \in before <=> EndOf(old[k]) <= at
    BY <1>3, <2>1
  <2> QED BY <1>1, <2>1, <2>2, BeforeIs
<1>5. PICK kept : kept = SubSeq(old, 1, m) OBVIOUS
<1>6. /\ new.size = o.at
      /\ new.chunks = IF Straddlers(o) = {} THEN kept
                      ELSE Append(kept, [Straddler(o) EXCEPT !.msg = o.msg,
                                                             !.size = o.at - Straddler(o).offset])
  BY <1>3, <1>4, <1>5 DEF Layout, NewChunk, WithTrim, EndOf
<1>7. Laid(kept) /\ Len(kept) = m /\ \A k \in 1 .. m : kept[k] = old[k]
  BY <1>1, <1>5, PrefixLaid
<1>8. DOMAIN kept = 1 .. m /\ Listed(kept) BY <1>7, Lengths DEF Laid
<1>9. Messaged(kept) \subseteq Messaged(old) BY <1>2, <1>7, <1>8 DEF Messaged
<1>10. \A k \in 1 .. m : /\ k \in DOMAIN old /\ kept[k].index = k - 1
                         /\ EndOf(kept[k]) <= o.at /\ Holds(kept[k], held, n)
  BY <1>2, <1>3, <1>4, <1>7 DEF Fitted
<1>11. Fitted(o.at, kept, held, n) BY <1>7, <1>8, <1>10 DEF Fitted, Loaded
<1>12. CASE Straddlers(o) = {} BY <1>6, <1>9, <1>11, <1>12 DEF Bare
<1>13. CASE Straddlers(o) # {}
  <2>1. PICK k \in Straddlers(o) : Straddler(o) = old[k] BY <1>13 DEF Straddler
  <2>2. k \in DOMAIN old /\ old[k].offset < o.at /\ o.at < EndOf(old[k])
    BY <1>1, <2>1 DEF Straddlers, EndOf, Loaded, Laid
  <2>3. k = m + 1
    <3>1. k \notin before
      <4>1. EndOf(old[k]) \in Nat BY <1>1, <2>2 DEF Laid, EndOf
      <4> QED BY <1>3, <2>2, <4>1 DEF Loaded
    <3>2. CASE k = 1 BY <1>4, <3>1, <3>2
    <3>3. CASE k # 1
      <4>1. k - 1 \in DOMAIN old BY <1>2, <2>2, <3>3
      <4>2. EndOf(old[k - 1]) = old[k].offset /\ old[k].offset \in Nat
        BY <1>1, <2>2, <3>3 DEF Laid
      <4>3. k - 1 \in before BY <1>3, <2>2, <4>1, <4>2 DEF Loaded
      <4> QED BY <1>2, <1>4, <2>2, <3>1, <4>3
    <3> QED BY <3>2, <3>3
  <2>4. PICK p, i, at, z : old[k] = [msg |-> p, index |-> i, offset |-> at, size |-> z]
    <3>1. IsChunk(old[k]) BY <1>2, <2>2
    <3> QED BY <3>1 DEF IsChunk
  <2>5. PICK c : c = [msg |-> o.msg, index |-> i, offset |-> at, size |-> o.at - at]
    OBVIOUS
  <2>6. new.chunks = Append(kept, c)
    <3>1. PICK d, x, y : d = Straddler(o) /\ x = o.msg /\ y = o.at - at OBVIOUS
    <3>2. d = [msg |-> p, index |-> i, offset |-> at, size |-> z] BY <2>1, <2>4, <3>1
    <3>3. [d EXCEPT !.msg = x] = [msg |-> x, index |-> i, offset |-> at, size |-> z]
      BY <3>2
    <3>4. PICK cut : cut = [d EXCEPT !.msg = x, !.size = y] OBVIOUS
    <3>5. cut = [[d EXCEPT !.msg = x] EXCEPT !.size = y] BY <3>4
    <3>6. cut = [msg |-> x, index |-> i, offset |-> at, size |-> y] BY <3>3, <3>5
    <3>7. d.offset = at BY <3>2
    <3> QED BY <1>6, <1>13, <2>5, <3>1, <3>4, <3>6, <3>7
  <2>7. IsChunk(c) /\ c.msg = o.msg /\ c.offset = at /\ c.size = o.at - at /\ c.index = i
    BY <2>5 DEF IsChunk
  <2>8. /\ at \in Nat /\ at < o.at /\ at = IF k = 1 THEN 0 ELSE EndOf(old[k - 1])
        /\ i = m
    BY <1>1, <1>2, <2>2, <2>3, <2>4 DEF Laid
  <2>9. c.size \in Nat \ {0} /\ EndOf(c) = o.at BY <2>7, <2>8 DEF Loaded, EndOf
  <2>10. at = CoveredEnd(kept)
    <3>1. CASE k = 1
      <4>1. kept = <<>> BY <1>7, <1>8, <2>3, <3>1 DEF Listed
      <4> QED BY <2>8, <3>1, <4>1 DEF CoveredEnd
    <3>2. CASE k # 1
      <4>1. m \in 1 .. m /\ kept # <<>> BY <1>4, <1>7, <2>2, <2>3, <3>2
      <4>2. CoveredEnd(kept) = EndOf(kept[m]) BY <1>7, <4>1, EndIs
      <4> QED BY <1>4, <1>7, <2>3, <2>8, <3>2, <4>1, <4>2
    <3> QED BY <3>1, <3>2
  <2>11. PICK longer : longer = new.chunks OBVIOUS
  <2>12. Laid(longer) BY <1>7, <2>6, <2>7, <2>9, <2>10, <2>11, LongerLaid
  <2>13. Messaged(longer) = Messaged(kept) \cup {c.msg}
    BY <1>8, <2>6, <2>7, <2>11, AppendListed
  <2>14. /\ DOMAIN longer = 1 .. m + 1 /\ longer[m + 1] = c
         /\ \A j \in 1 .. m : longer[j] = kept[j]
    BY <1>4, <1>7, <1>8, <2>6, <2>11 DEF Listed
  <2>15. Holds(c, held, n)
    <3>1. Fresher(o, held, n) /\ Len(o.piece) = o.at - at
      BY <1>13, <2>1, <2>4 DEF Bare, Fresher
    <3> QED BY <2>7, <3>1 DEF Holds, Fresher, AreBytes
  <2>16. o.at \in Nat BY DEF Loaded
  <2>17. ASSUME NEW j \in DOMAIN longer
         PROVE  /\ longer[j].index = j - 1 /\ EndOf(longer[j]) <= o.at
                /\ Holds(longer[j], held, n)
    <3>1. CASE j = m + 1 BY <1>4, <2>7, <2>8, <2>9, <2>14, <2>15, <2>16, <3>1
    <3>2. CASE j # m + 1
      <4>1. j \in 1 .. m BY <1>4, <2>14, <3>2
      <4> QED BY <1>10, <2>14, <4>1
    <3> QED BY <3>1, <3>2
  <2>18. Fitted(o.at, longer, held, n) BY <2>12, <2>16, <2>17 DEF Fitted
  <2> QED BY <1>6, <1>9, <1>13, <2>7, <2>11, <2>13, <2>18 DEF Bare
<1> QED BY <1>12, <1>13

\* What a commit leaves is a layout again, and names the new attachment.
LEMMA LayoutIs ==
  ASSUME NEW o, DOMAIN o = Fields, NEW held, NEW n, Aimed(o), Loaded(o), Shaped(o),
         Fitted(o.size, o.chunks, held, n), Bare(o) \/ Fresher(o, held, n),
         NEW new, new = Layout(o)
  PROVE  /\ Fitted(new.size, new.chunks, held, n)
         /\ Bare(o) \/ o.msg \in Messaged(new.chunks)
         /\ Messaged(new.chunks) \subseteq Messaged(o.chunks) \cup {o.msg}
         /\ Bare(o) => Messaged(new.chunks) \subseteq Messaged(o.chunks)
<1>1. CASE o.step \in NewChunk
  <2>1. ~Bare(o) BY <1>1 DEF Bare, NewChunk
  <2> QED BY <1>1, <2>1, NewChunkIs
<1>2. CASE o.step = "patch"
  <2>1. ~Bare(o) BY <1>2 DEF Bare
  <2> QED BY <1>2, <2>1, PatchIs
<1>3. CASE o.step = "trim" BY <1>3, TrimIs
<1> QED BY <1>1, <1>2, <1>3 DEF Aimed, Steps, NewChunk

-----------------------------------------------------------------------------
(* Handles.                                                                *)

\* What a method that has not failed makes of its handle: the layout and the cache
\* stay, and the next await is an upload, the commit of a resize, the swap, or none.
Goes(n, o) ==
  \/ n = Closed
  \/ /\ DOMAIN n = Fields /\ ~n.failed /\ ~n.undo
     /\ n.chunks = o.chunks /\ n.size = o.size /\ n.cache = o.cache
     /\ n.pc \in {"idle", "upload", "commit", "swap"}
     /\ n.pc \in {"upload", "commit"} => Aimed(n)
     /\ n.pc = "commit" => Bare(n) /\ n.msg = 0

\* The cache once a method goes on: a patched chunk is in it, a resize drops it.
Recached(o) ==
  [o EXCEPT !.cache = CASE o.step = "patch" -> Cached(o.cache, Patched(o).index, o.piece)
                        [] o.step = "trim"  -> NoCache
                        [] OTHER            -> o.cache]

LEMMA GoesLike ==
  ASSUME NEW n, NEW a, NEW b, Goes(n, a),
         b.chunks = a.chunks, b.size = a.size, b.cache = a.cache
  PROVE  Goes(n, b)
  BY DEF Goes

LEMMA RestGoes ==
  ASSUME NEW o, DOMAIN o = Fields, ~o.failed
  PROVE  Goes(Rest(o), o)
  BY DEF Rest, Goes, Fields

LEMMA UploadGoes ==
  ASSUME NEW o, DOMAIN o = Fields, ~o.failed, ~o.undo, NEW step \in Steps \ {"none"}, NEW piece,
         step = "flush" => o.task \in Flushing
  PROVE  Goes(Upload(o, step, piece), o)
  BY DEF Upload, Goes, Fields, Aimed

LEMMA AppendOnGoes ==
  ASSUME NEW o, DOMAIN o = Fields, ~o.failed, ~o.undo
  PROVE  Goes(AppendOn(o), o)
  BY RestGoes, UploadGoes DEF AppendOn, Steps

LEMMA ExtendGoes ==
  ASSUME NEW o, DOMAIN o = Fields, ~o.failed, ~o.undo
  PROVE  Goes(Extend(o), o)
  BY RestGoes, UploadGoes DEF Extend, Steps

LEMMA PatchGoes ==
  ASSUME NEW o, DOMAIN o = Fields, ~o.failed, ~o.undo
  PROVE  Goes(Patch(o), o)
  BY ExtendGoes, UploadGoes DEF Patch, Steps

LEMMA GapGoes ==
  ASSUME NEW o, DOMAIN o = Fields, ~o.failed, ~o.undo
  PROVE  Goes(Gap(o), o)
  BY PatchGoes, UploadGoes DEF Gap, Steps

LEMMA TrimGoes ==
  ASSUME NEW o, DOMAIN o = Fields, ~o.failed, ~o.undo
  PROVE  Goes(Trim(o), o)
<1>1. CASE Straddlers(o) = {}
  <2> DEFINE n == [o EXCEPT !.pc = "commit", !.step = "trim", !.msg = 0]
  <2>1. /\ DOMAIN n = Fields /\ ~n.failed /\ ~n.undo /\ n.chunks = o.chunks /\ n.at = o.at
        /\ n.size = o.size /\ n.cache = o.cache
        /\ n.pc = "commit" /\ n.step = "trim" /\ n.msg = 0
    BY DEF Fields
  <2>2. Trim(o) = n BY <1>1 DEF Trim
  <2> HIDE DEF n
  <2>3. Straddlers(n) = {} BY <1>1, <2>1 DEF Straddlers
  <2> QED BY <2>1, <2>2, <2>3 DEF Goes, Bare, Aimed, Steps
<1>2. CASE Straddlers(o) # {}
  BY <1>2, UploadGoes DEF Trim, Steps
<1> QED BY <1>1, <1>2

LEMMA FlushedGoes ==
  ASSUME NEW o, DOMAIN o = Fields, ~o.failed, ~o.undo, o.task \in Flushing
  PROVE  Goes(Flushed(o), o)
<1>1. CASE o.task = "random" BY <1>1, GapGoes DEF Flushed
<1>2. CASE o.task = "resize" BY <1>2, TrimGoes DEF Flushed
<1>3. CASE o.task = "read" BY <1>3, RestGoes DEF Flushed
<1>4. CASE o.task = "close"
  <2>1. Flushed(o) = IF o.replaces THEN [o EXCEPT !.pc = "swap"] ELSE Closed
    BY <1>4 DEF Flushed
  <2>2. Goes([o EXCEPT !.pc = "swap"], o) BY DEF Goes, Fields
  <2> QED BY <2>1, <2>2 DEF Goes
<1> QED BY <1>1, <1>2, <1>3, <1>4 DEF Flushing

LEMMA FlushThenGoes ==
  ASSUME NEW o, DOMAIN o = Fields, ~o.failed, ~o.undo, o.task \in Flushing
  PROVE  Goes(FlushThen(o), o)
  BY FlushedGoes, UploadGoes DEF FlushThen, Steps

LEMMA ContinueGoes ==
  ASSUME NEW o, DOMAIN o = Fields, ~o.failed, ~o.undo, Aimed(o)
  PROVE  Goes(Continue(o), Recached(o))
<1>1. PICK r : r = Recached(o) OBVIOUS
<1>2. /\ DOMAIN r = Fields /\ r.chunks = o.chunks /\ r.size = o.size
      /\ r.cache = CASE o.step = "patch" -> Cached(o.cache, Patched(o).index, o.piece)
                     [] o.step = "trim"  -> NoCache
                     [] OTHER            -> o.cache
  BY <1>1 DEF Recached, Fields
<1>3. CASE o.step = "append"
  <2>1. PICK n : n = [o EXCEPT !.buffer = Dropped(o.buffer, Len(o.piece))] OBVIOUS
  <2>2. /\ DOMAIN n = Fields /\ ~n.failed /\ ~n.undo
        /\ n.chunks = o.chunks /\ n.size = o.size /\ n.cache = o.cache
    BY <2>1 DEF Fields
  <2>3. Continue(o) = AppendOn(n) BY <1>3, <2>1 DEF Continue
  <2>4. Goes(AppendOn(n), n) BY <2>2, AppendOnGoes
  <2>5. r.cache = o.cache BY <1>2, <1>3
  <2> QED BY <1>1, <1>2, <2>2, <2>3, <2>4, <2>5, GoesLike
<1>4. CASE o.step = "flush"
  <2>1. PICK n : n = [o EXCEPT !.buffer = <<>>] OBVIOUS
  <2>2. /\ DOMAIN n = Fields /\ ~n.failed /\ ~n.undo /\ n.task \in Flushing
        /\ n.chunks = o.chunks /\ n.size = o.size /\ n.cache = o.cache
    BY <1>4, <2>1 DEF Fields, Aimed
  <2>3. Continue(o) = Flushed(n) BY <1>4, <2>1 DEF Continue
  <2>4. Goes(Flushed(n), n) BY <2>2, FlushedGoes
  <2>5. r.cache = o.cache BY <1>2, <1>4
  <2> QED BY <1>1, <1>2, <2>2, <2>3, <2>4, <2>5, GoesLike
<1>5. CASE o.step = "gap"
  <2>1. Continue(o) = Gap(o) /\ Goes(Gap(o), o) BY <1>5, GapGoes DEF Continue
  <2>2. r.cache = o.cache BY <1>2, <1>5
  <2> QED BY <1>1, <1>2, <2>1, <2>2, GoesLike
<1>6. CASE o.step = "extend"
  <2>1. PICK n : n = [o EXCEPT !.data = Dropped(o.data, Len(o.piece))] OBVIOUS
  <2>2. /\ DOMAIN n = Fields /\ ~n.failed /\ ~n.undo
        /\ n.chunks = o.chunks /\ n.size = o.size /\ n.cache = o.cache
    BY <2>1 DEF Fields
  <2>3. Continue(o) = Extend(n) BY <1>6, <2>1 DEF Continue
  <2>4. Goes(Extend(n), n) BY <2>2, ExtendGoes
  <2>5. r.cache = o.cache BY <1>2, <1>6
  <2> QED BY <1>1, <1>2, <2>2, <2>3, <2>4, <2>5, GoesLike
<1>7. CASE o.step = "patch"
  <2>1. PICK n : n = [o EXCEPT !.at = o.at + PatchTake(o),
                               !.data = Dropped(o.data, PatchTake(o)),
                               !.cache = Cached(o.cache, Patched(o).index, o.piece)]
    OBVIOUS
  <2>2. /\ DOMAIN n = Fields /\ ~n.failed /\ ~n.undo
        /\ n.chunks = o.chunks /\ n.size = o.size
        /\ n.cache = Cached(o.cache, Patched(o).index, o.piece)
    BY <2>1 DEF Fields
  <2>3. Continue(o) = Patch(n) BY <1>7, <2>1 DEF Continue
  <2>4. Goes(Patch(n), n) BY <2>2, PatchGoes
  <2>5. r.cache = n.cache BY <1>2, <1>7, <2>2
  <2> QED BY <1>1, <1>2, <2>2, <2>3, <2>4, <2>5, GoesLike
<1>8. CASE o.step = "trim"
  <2>1. PICK n : n = [o EXCEPT !.cache = NoCache] OBVIOUS
  <2>2. /\ DOMAIN n = Fields /\ ~n.failed /\ ~n.undo
        /\ n.chunks = o.chunks /\ n.size = o.size /\ n.cache = NoCache
    BY <2>1 DEF Fields
  <2>3. Continue(o) = Rest(n) BY <1>8, <2>1 DEF Continue
  <2>4. Goes(Rest(n), n) BY <2>2, RestGoes
  <2>5. r.cache = n.cache BY <1>2, <1>8, <2>2
  <2> QED BY <1>1, <1>2, <2>2, <2>3, <2>4, <2>5, GoesLike
<1> QED BY <1>3, <1>4, <1>5, <1>6, <1>7, <1>8 DEF Aimed, Steps

-----------------------------------------------------------------------------
(* The bytes the methods pass on.                                          *)

LEMMA PieceIs ==
  ASSUME NEW bytes \in Seq(Bytes), bytes # <<>>
  PROVE  Piece(bytes) \in Seq(Bytes) \ {<<>>}
<1>1. Len(bytes) \in Nat \ {0} OBVIOUS
<1>2. PICK n : n = Min2(ChunkMax, Len(bytes)) OBVIOUS
<1>3. n \in 1 .. Len(bytes) BY <1>1, <1>2, BytesAssumption DEF Min2
<1>4. SubSeq(bytes, 1, n) \in Seq(Bytes) /\ Len(SubSeq(bytes, 1, n)) = n BY <1>1, <1>3
<1>5. SubSeq(bytes, 1, n) # <<>> BY <1>3, <1>4
<1> QED BY <1>2, <1>4, <1>5 DEF Piece

LEMMA DroppedIs ==
  ASSUME NEW bytes \in Seq(Bytes), NEW n \in Nat
  PROVE  Dropped(bytes, n) \in Seq(Bytes)
  BY DEF Dropped

LEMMA ZerosIs ==
  ASSUME NEW n \in Nat \ {0}
  PROVE  Zeros(n) \in Seq(Bytes) /\ Zeros(n) # <<>>
<1>1. Zeros(n) \in [1 .. n -> Bytes] BY DEF Zeros, Bytes
<1>2. Zeros(n) \in Seq(Bytes) BY <1>1
<1>3. 1 \in DOMAIN Zeros(n) BY DEF Zeros
<1> QED BY <1>2, <1>3

LEMMA RestReady ==
  ASSUME NEW o, DOMAIN o = Fields, Loaded(o)
  PROVE  Ready(Rest(o))
<1>1. PICK n : n = Rest(o) OBVIOUS
<1>2. /\ n.buffer = o.buffer /\ n.data = <<>> /\ n.at = 0 /\ n.size = o.size /\ n.pc = "idle"
  BY <1>1 DEF Rest, Fields
<1>3. <<>> \in Seq(Bytes) OBVIOUS
<1> QED BY <1>1, <1>2, <1>3 DEF Ready, Loaded

LEMMA UploadReady ==
  ASSUME NEW o, DOMAIN o = Fields, Loaded(o), NEW step, NEW piece,
         step \in NewChunk => piece \in Seq(Bytes) \ {<<>>},
         step = "patch" => Locate(o.chunks, o.at) # {},
         step = "trim" => Straddlers(o) # {}
  PROVE  Ready(Upload(o, step, piece))
<1>1. PICK n : n = Upload(o, step, piece) OBVIOUS
<1>2. /\ n.buffer = o.buffer /\ n.data = o.data /\ n.at = o.at /\ n.size = o.size
      /\ n.pc = "upload" /\ n.step = step /\ n.piece = piece /\ n.chunks = o.chunks
  BY <1>1 DEF Upload, Fields
<1>3. Straddlers(n) = Straddlers(o) BY <1>2 DEF Straddlers
<1> QED BY <1>1, <1>2, <1>3 DEF Ready, Loaded, Shaped

LEMMA AppendOnReady ==
  ASSUME NEW o, DOMAIN o = Fields, Loaded(o)
  PROVE  Ready(AppendOn(o))
<1>1. CASE Len(o.buffer) >= ChunkMax
  <2>1. o.buffer # <<>> BY <1>1, BytesAssumption
  <2>2. Piece(o.buffer) \in Seq(Bytes) \ {<<>>} BY <2>1, PieceIs DEF Loaded
  <2>3. AppendOn(o) = Upload(o, "append", Piece(o.buffer)) BY <1>1 DEF AppendOn
  <2> QED BY <2>2, <2>3, UploadReady
<1>2. CASE ~(Len(o.buffer) >= ChunkMax) BY <1>2, RestReady DEF AppendOn
<1> QED BY <1>1, <1>2

LEMMA ExtendReady ==
  ASSUME NEW o, DOMAIN o = Fields, Loaded(o)
  PROVE  Ready(Extend(o))
<1>1. CASE o.data # <<>>
  <2>1. Piece(o.data) \in Seq(Bytes) \ {<<>>} BY <1>1, PieceIs DEF Loaded
  <2>2. Extend(o) = Upload(o, "extend", Piece(o.data)) BY <1>1 DEF Extend
  <2> QED BY <2>1, <2>2, UploadReady
<1>2. CASE o.data = <<>> BY <1>2, RestReady DEF Extend
<1> QED BY <1>1, <1>2

LEMMA PatchReady ==
  ASSUME NEW o, DOMAIN o = Fields, Loaded(o), Laid(o.chunks)
  PROVE  Ready(Patch(o))
<1>1. CASE o.data # <<>> /\ o.at < CoveredEnd(o.chunks)
  <2>1. Locate(o.chunks, o.at) # {} BY <1>1, LocateSome DEF Loaded
  <2>2. Patch(o) = Upload(o, "patch", <<>>) BY <1>1 DEF Patch
  <2>3. "patch" \notin NewChunk BY DEF NewChunk
  <2> QED BY <2>1, <2>2, <2>3, UploadReady
<1>2. CASE ~(o.data # <<>> /\ o.at < CoveredEnd(o.chunks)) BY <1>2, ExtendReady DEF Patch
<1> QED BY <1>1, <1>2

LEMMA GapReady ==
  ASSUME NEW o, DOMAIN o = Fields, Loaded(o), Laid(o.chunks)
  PROVE  Ready(Gap(o))
<1>1. CASE o.at > CoveredEnd(o.chunks)
  <2>1. PICK n : n = o.at - CoveredEnd(o.chunks) OBVIOUS
  <2>2. n \in Nat \ {0} BY <1>1, <2>1, EndType DEF Loaded
  <2>3. Piece(Zeros(n)) \in Seq(Bytes) \ {<<>>} BY <2>2, ZerosIs, PieceIs
  <2>4. Gap(o) = Upload(o, "gap", Piece(Zeros(n))) BY <1>1, <2>1 DEF Gap
  <2> QED BY <2>3, <2>4, UploadReady
<1>2. CASE ~(o.at > CoveredEnd(o.chunks)) BY <1>2, PatchReady DEF Gap
<1> QED BY <1>1, <1>2

LEMMA TrimReady ==
  ASSUME NEW o, DOMAIN o = Fields, Loaded(o)
  PROVE  Ready(Trim(o))
<1>1. CASE Straddlers(o) = {}
  <2>1. PICK n : n = [o EXCEPT !.pc = "commit", !.step = "trim", !.msg = 0] OBVIOUS
  <2>2. /\ n.buffer = o.buffer /\ n.data = o.data /\ n.at = o.at /\ n.size = o.size
        /\ n.pc = "commit" /\ n.step = "trim" /\ n.msg = 0
    BY <2>1 DEF Fields
  <2>3. Trim(o) = n BY <1>1, <2>1 DEF Trim
  <2> QED BY <2>2, <2>3 DEF Ready, Loaded, Shaped, NewChunk
<1>2. CASE Straddlers(o) # {}
  <2>1. Trim(o) = Upload(o, "trim", <<>>) /\ "trim" \notin NewChunk
    BY <1>2 DEF Trim, NewChunk
  <2> QED BY <1>2, <2>1, UploadReady
<1> QED BY <1>1, <1>2

LEMMA ClosedReady == Ready(Closed)
<1>1. <<>> \in Seq(Bytes) OBVIOUS
<1> QED BY <1>1 DEF Ready, Loaded, Closed

LEMMA FlushedReady ==
  ASSUME NEW o, DOMAIN o = Fields, Loaded(o), Laid(o.chunks), o.task \in Flushing
  PROVE  Ready(Flushed(o))
<1>1. CASE o.task = "random" BY <1>1, GapReady DEF Flushed
<1>2. CASE o.task = "resize" BY <1>2, TrimReady DEF Flushed
<1>3. CASE o.task = "read" BY <1>3, RestReady DEF Flushed
<1>4. CASE o.task = "close"
  <2>1. PICK n : n = [o EXCEPT !.pc = "swap"] OBVIOUS
  <2>2. /\ n.buffer = o.buffer /\ n.data = o.data /\ n.at = o.at /\ n.size = o.size
        /\ n.pc = "swap"
    BY <2>1 DEF Fields
  <2>3. Ready(n) BY <2>2 DEF Ready, Loaded
  <2> QED BY <1>4, <2>1, <2>3, ClosedReady DEF Flushed
<1> QED BY <1>1, <1>2, <1>3, <1>4 DEF Flushing

LEMMA FlushThenReady ==
  ASSUME NEW o, DOMAIN o = Fields, Loaded(o), Laid(o.chunks), o.task \in Flushing
  PROVE  Ready(FlushThen(o))
<1>1. CASE o.buffer # <<>>
  <2>1. FlushThen(o) = Upload(o, "flush", o.buffer) BY <1>1 DEF FlushThen
  <2> QED BY <1>1, <2>1, UploadReady DEF Loaded
<1>2. CASE o.buffer = <<>> BY <1>2, FlushedReady DEF FlushThen
<1> QED BY <1>1, <1>2

LEMMA ContinueReady ==
  ASSUME NEW o, DOMAIN o = Fields, Loaded(o), Laid(o.chunks), Aimed(o), Shaped(o)
  PROVE  Ready(Continue(o))
<1>1. CASE o.step = "append"
  <2>1. Dropped(o.buffer, Len(o.piece)) \in Seq(Bytes)
    <3>1. Len(o.piece) \in Nat BY <1>1 DEF Shaped, NewChunk
    <3> QED BY <3>1, DroppedIs DEF Loaded
  <2>2. PICK n : n = [o EXCEPT !.buffer = Dropped(o.buffer, Len(o.piece))] OBVIOUS
  <2>3. DOMAIN n = Fields /\ Loaded(n) BY <2>1, <2>2 DEF Fields, Loaded
  <2>4. Continue(o) = AppendOn(n) BY <1>1, <2>2 DEF Continue
  <2> QED BY <2>3, <2>4, AppendOnReady
<1>2. CASE o.step = "flush"
  <2>1. PICK n : n = [o EXCEPT !.buffer = <<>>] OBVIOUS
  <2>2. <<>> \in Seq(Bytes) OBVIOUS
  <2>3. DOMAIN n = Fields /\ Loaded(n) /\ n.chunks = o.chunks /\ n.task \in Flushing
    BY <1>2, <2>1, <2>2 DEF Fields, Loaded, Aimed
  <2>4. Continue(o) = Flushed(n) BY <1>2, <2>1 DEF Continue
  <2> QED BY <2>3, <2>4, FlushedReady
<1>3. CASE o.step = "gap" BY <1>3, GapReady DEF Continue
<1>4. CASE o.step = "extend"
  <2>1. Dropped(o.data, Len(o.piece)) \in Seq(Bytes)
    <3>1. Len(o.piece) \in Nat BY <1>4 DEF Shaped, NewChunk
    <3> QED BY <3>1, DroppedIs DEF Loaded
  <2>2. PICK n : n = [o EXCEPT !.data = Dropped(o.data, Len(o.piece))] OBVIOUS
  <2>3. DOMAIN n = Fields /\ Loaded(n) BY <2>1, <2>2 DEF Fields, Loaded
  <2>4. Continue(o) = Extend(n) BY <1>4, <2>2 DEF Continue
  <2> QED BY <2>3, <2>4, ExtendReady
<1>5. CASE o.step = "patch"
  <2>1. PICK k \in Locate(o.chunks, o.at) : Patched(o) = o.chunks[k]
    BY <1>5 DEF Shaped, Patched
  <2>2. /\ Patched(o).offset \in Nat /\ Patched(o).size \in Nat
        /\ o.at < Patched(o).offset + Patched(o).size
    BY <2>1 DEF Locate, Laid
  <2>3. PatchTake(o) \in Nat
    <3>1. Len(o.data) \in Nat /\ Patched(o).offset + Patched(o).size - o.at \in Nat
      BY <2>2 DEF Loaded
    <3> QED BY <3>1 DEF PatchTake, Min2
  <2>4. Dropped(o.data, PatchTake(o)) \in Seq(Bytes) BY <2>3, DroppedIs DEF Loaded
  <2>5. PICK n : n = [o EXCEPT !.at = o.at + PatchTake(o),
                               !.data = Dropped(o.data, PatchTake(o)),
                               !.cache = Cached(o.cache, Patched(o).index, o.piece)]
    OBVIOUS
  <2>6. /\ DOMAIN n = Fields /\ n.chunks = o.chunks /\ n.buffer = o.buffer /\ n.size = o.size
        /\ n.at = o.at + PatchTake(o) /\ n.data = Dropped(o.data, PatchTake(o))
    BY <2>5 DEF Fields
  <2>7. Loaded(n) BY <2>3, <2>4, <2>6 DEF Loaded
  <2>8. Continue(o) = Patch(n) BY <1>5, <2>5 DEF Continue
  <2> QED BY <2>6, <2>7, <2>8, PatchReady
<1>6. CASE o.step = "trim"
  <2>1. PICK n : n = [o EXCEPT !.cache = NoCache] OBVIOUS
  <2>2. DOMAIN n = Fields /\ Loaded(n) BY <2>1 DEF Fields, Loaded
  <2>3. Continue(o) = Rest(n) BY <1>6, <2>1 DEF Continue
  <2> QED BY <2>2, <2>3, RestReady
<1> QED BY <1>1, <1>2, <1>3, <1>4, <1>5, <1>6 DEF Aimed, Steps

-----------------------------------------------------------------------------
(* One handle moves.                                                       *)

LEMMA ClosedIs ==
  /\ Typed(Closed) /\ Closed.chunks = <<>> /\ Closed.pc = "idle" /\ ~Closed.open
  /\ ~Closed.failed /\ DOMAIN Closed = Fields
  BY DEF Typed, Closed, Fields, Pcs

LEMMA EmptyLaid == Laid(<<>>)
<1>1. DOMAIN <<>> = {} OBVIOUS
<1> QED BY <1>1, EmptyListed DEF Laid

LEMMA EmptyFits ==
  ASSUME NEW size \in Nat, NEW held, NEW n
  PROVE  Fitted(size, <<>>, held, n)
<1>1. DOMAIN <<>> = {} OBVIOUS
<1> QED BY <1>1, EmptyLaid DEF Fitted

LEMMA ClosedFirm ==
  ASSUME NEW held, NEW n
  PROVE  Firm(Closed, held, n)
<1>1. Fitted(0, <<>>, held, n) BY EmptyFits
<1>2. DOMAIN <<>> = {} OBVIOUS
<1>3. /\ Closed.size = 0 /\ Closed.chunks = <<>> /\ Closed.cache = <<>> /\ Closed.pc = "idle"
  BY DEF Closed, NoCache
<1>4. Mirrored(Closed, held) BY <1>2, <1>3 DEF Mirrored
<1> QED BY <1>1, <1>3, <1>4, ClosedReady DEF Firm, Behind, Pending

\* A layout and a cache that go together.
Steady(o, held, n) ==
  /\ Fitted(o.size, o.chunks, held, n) /\ DOMAIN o.cache \subseteq Slots(o.chunks)
  /\ \A k \in DOMAIN o.chunks : Mirrors(o.cache, o.chunks[k], held)

LEMMA FirmSteady ==
  ASSUME NEW o, NEW held, NEW n, Firm(o, held, n), ~o.failed, ~Behind(o)
  PROVE  Steady(o, held, n)
  BY DEF Firm, Mirrored, Steady

LEMMA RecachedSteady ==
  ASSUME NEW o, DOMAIN o = Fields, NEW held, NEW n, Firm(o, held, n), ~o.failed, Behind(o),
         Aimed(o)
  PROVE  Steady(Recached(o), held, n)
<1>1. PICK r, old : r = Recached(o) /\ old = o.chunks OBVIOUS
<1>2. /\ r.chunks = old /\ r.size = o.size
      /\ r.cache = CASE o.step = "patch" -> Cached(o.cache, Patched(o).index, o.piece)
                     [] o.step = "trim"  -> NoCache
                     [] OTHER            -> o.cache
  BY <1>1 DEF Recached, Fields
<1>3. Fitted(r.size, r.chunks, held, n) BY <1>1, <1>2 DEF Firm
<1>4. CASE o.step = "trim"
  <2>1. r.cache = <<>> /\ DOMAIN <<>> = {} BY <1>2, <1>4 DEF NoCache
  <2> QED BY <1>1, <1>3, <2>1 DEF Steady, Mirrors
<1>5. CASE o.step = "patch"
  <2>1. PICK p : p = CHOOSE k \in Locate(old, o.at) : TRUE OBVIOUS
  <2>2. p \in DOMAIN old /\ Patched(o) = old[p]
    <3>1. Locate(old, o.at) # {} BY <1>1, <1>5 DEF Firm, Ready, Shaped, Behind
    <3> QED BY <1>1, <2>1, <3>1 DEF Patched, Locate
  <2>3. PICK cache, index, piece : cache = o.cache /\ index = old[p].index /\ piece = o.piece
    OBVIOUS
  <2>4. r.cache = Cached(cache, index, piece) BY <1>2, <1>5, <2>2, <2>3
  <2>5. /\ DOMAIN r.cache = DOMAIN cache \cup {index} /\ r.cache[index] = piece
        /\ \A k \in DOMAIN cache \ {index} : r.cache[k] = cache[k]
    BY <2>4 DEF Cached
  <2>6. /\ \A k \in DOMAIN old : old[k].index = k - 1 /\ k \in Nat
        /\ \A j, k \in DOMAIN old : old[j] = old[k] => j = k
    BY <1>1, <1>2, <1>3, IndexIs
  <2>7. /\ DOMAIN cache \subseteq Slots(old)
        /\ \A k \in DOMAIN old \ {p} : Mirrors(cache, old[k], held)
    BY <1>1, <1>5, <2>2, <2>3, <2>6 DEF Firm, Mirrored, Behind
  <2>8. Matches(piece, old[p], held)
    BY <1>5, <2>2, <2>3 DEF Firm
  <2>9. DOMAIN r.cache \subseteq Slots(old) BY <2>2, <2>3, <2>5, <2>6, <2>7 DEF Slots
  <2>10. Mirrors(r.cache, old[p], held) BY <2>3, <2>5, <2>8 DEF Mirrors
  <2>11. ASSUME NEW k \in DOMAIN old, k # p PROVE Mirrors(r.cache, old[k], held)
    <3>1. Mirrors(cache, old[k], held) BY <2>7, <2>11
    <3>2. old[k].index # index BY <2>2, <2>3, <2>6, <2>11
    <3> QED BY <2>5, <3>1, <3>2 DEF Mirrors
  <2> QED BY <1>1, <1>2, <1>3, <2>9, <2>10, <2>11 DEF Steady
<1>6. CASE o.step \notin {"trim", "patch"}
  <2>1. r.cache = o.cache BY <1>2, <1>6
  <2> QED BY <1>1, <1>2, <1>3, <1>6, <2>1 DEF Firm, Mirrored, Steady
<1> QED BY <1>4, <1>5, <1>6

\* Attachments are added under ids of their own, and deleted.
Since(now, m, held, n) ==
  n <= m /\ \A i \in 1 .. n : i \in DOMAIN now => i \in DOMAIN held /\ now[i] = held[i]

LEMMA StillFits ==
  ASSUME NEW now, NEW m \in Nat, NEW held, NEW n \in Nat, Since(now, m, held, n),
         NEW size, NEW chunks, Fitted(size, chunks, held, n)
  PROVE  Fitted(size, chunks, now, m)
<1>1. ASSUME NEW k \in DOMAIN chunks PROVE Holds(chunks[k], now, m)
  BY DEF Fitted, Holds, Since
<1> QED BY <1>1 DEF Fitted

LEMMA StillFirm ==
  ASSUME NEW now, NEW m \in Nat, NEW held, NEW n \in Nat, Since(now, m, held, n),
         NEW o, Firm(o, held, n)
  PROVE  Firm(o, now, m)
<1>1. Ready(o) /\ Fitted(o.size, o.chunks, held, n) /\ Mirrored(o, held) BY DEF Firm
<1>2. Fitted(o.size, o.chunks, now, m) BY <1>1, StillFits
<1>3. \A k \in DOMAIN o.chunks : o.chunks[k].msg \in 1 .. n BY <1>1 DEF Fitted, Holds
<1>4. \A k \in DOMAIN o.chunks :
        Mirrors(o.cache, o.chunks[k], held) => Mirrors(o.cache, o.chunks[k], now)
  BY <1>3 DEF Mirrors, Matches, Since
<1>5. Mirrored(o, now) BY <1>1, <1>4 DEF Mirrored
<1>6. o.pc = "fetch" => Fitted(o.latest.size, o.latest.chunks, now, m)
  BY StillFits DEF Firm
<1>7. Fresher(o, held, n) => Fresher(o, now, m) BY DEF Fresher, Since
<1>8. ASSUME Behind(o), o.step = "patch"
      PROVE  Patched(o).msg = o.msg /\ Matches(o.piece, Patched(o), now)
  <2>1. Locate(o.chunks, o.at) # {} BY <1>1, <1>8 DEF Ready, Shaped, Behind
  <2>2. Patched(o).msg \in 1 .. n BY <1>3, <2>1 DEF Patched, Locate
  <2> QED BY <1>8, <2>2 DEF Firm, Matches, Since
<1> QED BY <1>1, <1>2, <1>5, <1>6, <1>7, <1>8 DEF Firm

\* What a handle is doing to its layout, whatever call it awaits.
Alike(a, b) ==
  /\ b.step = a.step /\ b.at = a.at /\ b.chunks = a.chunks /\ b.size = a.size
  /\ b.cache = a.cache /\ b.buffer = a.buffer /\ b.data = a.data

LEMMA AlikeIs ==
  ASSUME NEW a, NEW b, Alike(a, b)
  PROVE  /\ Straddlers(b) = Straddlers(a) /\ Straddler(b) = Straddler(a)
         /\ Patched(b) = Patched(a) /\ (Bare(b) <=> Bare(a)) /\ (Loaded(b) <=> Loaded(a))
<1>1. Straddlers(b) = Straddlers(a) BY DEF Alike, Straddlers
<1>2. Straddler(b) = Straddler(a) BY <1>1 DEF Alike, Straddler
<1>3. Patched(b) = Patched(a) BY DEF Alike, Patched
<1>4. Bare(b) <=> Bare(a) BY <1>1 DEF Alike, Bare
<1>5. Loaded(b) <=> Loaded(a) BY DEF Alike, Loaded
<1> QED BY <1>1, <1>2, <1>3, <1>4, <1>5

\* What is still to be deleted, or promised, makes no difference.
LEMMA Regarded ==
  ASSUME NEW a, NEW b, Alike(a, b), b.pc = a.pc, b.piece = a.piece, b.msg = a.msg,
         b.undo = a.undo, b.failed = a.failed, b.latest = a.latest,
         NEW held, NEW n, Firm(a, held, n)
  PROVE  Firm(b, held, n)
<1>1. /\ Straddlers(b) = Straddlers(a) /\ Straddler(b) = Straddler(a)
      /\ Patched(b) = Patched(a) /\ (Bare(b) <=> Bare(a)) /\ (Loaded(b) <=> Loaded(a))
  BY AlikeIs
<1>2. Ready(b) BY <1>1 DEF Alike, Firm, Ready, Shaped
<1>3. Mirrored(b, held) BY <1>1 DEF Alike, Firm, Mirrored, Behind
<1>4. Fresher(a, held, n) => Fresher(b, held, n) BY <1>1 DEF Alike, Fresher
<1> QED BY <1>1, <1>2, <1>3, <1>4 DEF Alike, Firm, Behind, Pending

\* A closed handle owes nothing and expects nothing.
LEMMA FreshSound ==
  ASSUME NEW o, Fresh(o)
  PROVE  /\ \A d, there, deleted, gone : Agrees(o, d, there, deleted, gone)
         /\ Owes(o) = {}
  BY DEF Agrees, Fresh, Working, Owes, Replaced

\* A handle goes on with the layout it had.
LEMMA GoesOn ==
  ASSUME NEW n, NEW o, Goes(n, o)
  PROVE  /\ Typed(n)
         /\ \A d, there, deleted, gone :
              /\ Trails(o.chunks, d, there, deleted, gone)
              /\ 0 \notin Names(d) \cup Messaged(o.chunks)
              => Agrees(n, d, there, deleted, gone)
<1>1. CASE n = Closed BY <1>1, ClosedIs DEF Agrees, Working
<1>2. CASE n # Closed
  <2>1. Typed(n) BY <1>2 DEF Goes, Typed, Pcs
  <2>2. ASSUME NEW d, NEW there, NEW deleted, NEW gone,
               Trails(o.chunks, d, there, deleted, gone),
               0 \notin Names(d) \cup Messaged(o.chunks)
        PROVE  Agrees(n, d, there, deleted, gone)
    <3>1. n.chunks = o.chunks BY <1>2 DEF Goes
    <3>2. Trails(n.chunks, d, there, deleted, gone \cup Owes(n)) BY <2>2, <3>1 DEF Trails
    <3> QED BY <1>2, <2>2, <3>1, <3>2 DEF Goes, Agrees, Working
  <2> QED BY <2>1, <2>2
<1> QED BY <1>1, <1>2

LEMMA GoesFirm ==
  ASSUME NEW n, NEW o, Goes(n, o), Ready(n), NEW held, NEW m, Steady(o, held, m)
  PROVE  Firm(n, held, m)
<1>1. CASE n = Closed BY <1>1, ClosedFirm
<1>2. CASE n # Closed
  <2>1. /\ n.chunks = o.chunks /\ n.size = o.size /\ n.cache = o.cache
        /\ n.pc \in {"idle", "upload", "commit", "swap"}
        /\ n.pc = "commit" => Bare(n)
    BY <1>2 DEF Goes
  <2>2. Mirrored(n, held) BY <2>1 DEF Mirrored, Steady
  <2> QED BY <2>1, <2>2 DEF Firm, Steady, Behind, Pending
<1> QED BY <1>1, <1>2

LEMMA RaisedGoes ==
  ASSUME NEW o, DOMAIN o = Fields, ~o.failed
  PROVE  Goes(Raised(o), o)
  BY DEF Raised, Rest, Goes, Fields

LEMMA RaisedReady ==
  ASSUME NEW o, DOMAIN o = Fields, Loaded(o)
  PROVE  Ready(Raised(o))
<1>1. PICK r : r = Rest(o) OBVIOUS
<1>2. DOMAIN r = Fields /\ Ready(r) /\ r.pc = "idle"
  BY <1>1, RestReady DEF Rest, Fields
<1>3. PICK n : n = Raised(o) OBVIOUS
<1>4. /\ n.buffer = r.buffer /\ n.data = r.data /\ n.at = r.at /\ n.size = r.size
      /\ n.pc = "idle"
  BY <1>1, <1>2, <1>3 DEF Raised, Fields
<1> QED BY <1>2, <1>3, <1>4 DEF Ready, Loaded

\* Giving up: the handle unwinds all the document names, or nothing.
LEMMA RollbackOn ==
  ASSUME NEW o, DOMAIN o = Fields
  PROVE  /\ Typed(Rollback(o))
         /\ \A held, m : Loaded(o) /\ Steady(o, held, m) => Firm(Rollback(o), held, m)
         /\ \A d, there, deleted, gone :
              Names(d) \cap there \subseteq Messaged(o.chunks) \cup gone
                => Agrees(Rollback(o), d, there, deleted, gone)
<1>1. PICK n : n = Rollback(o) OBVIOUS
<1>2. /\ DOMAIN n = Fields /\ n.failed = TRUE
      /\ n.chunks = o.chunks /\ n.size = o.size /\ n.cache = o.cache
      /\ \/ n.pc = "idle" /\ ~n.undo
         \/ n.pc = "unwind" /\ n.created /\ n.doomed = Messaged(o.chunks)
      /\ Loaded(o) => Loaded(n)
  <2>1. CASE o.failed \/ ~o.created
    <3>1. PICK q, r : q = Rest(o) /\ r = Raised(o) OBVIOUS
    <3>2. /\ DOMAIN q = Fields /\ q.chunks = o.chunks /\ q.size = o.size
          /\ q.cache = o.cache /\ q.pc = "idle" /\ q.undo = FALSE
          /\ q.buffer = o.buffer /\ q.data = <<>> /\ q.at = 0
      BY <3>1 DEF Rest, Fields
    <3>3. /\ DOMAIN r = Fields /\ r.chunks = o.chunks /\ r.size = o.size
          /\ r.cache = o.cache /\ r.pc = "idle" /\ r.undo = FALSE
          /\ r.buffer = o.buffer /\ r.data = <<>> /\ r.at = 0
      BY <3>1, <3>2 DEF Raised, Fields
    <3>4. /\ DOMAIN n = Fields /\ n.chunks = o.chunks /\ n.size = o.size
          /\ n.cache = o.cache /\ n.pc = "idle" /\ n.undo = FALSE /\ n.failed = TRUE
          /\ n.buffer = o.buffer /\ n.data = <<>> /\ n.at = 0
      BY <1>1, <2>1, <3>1, <3>3 DEF Rollback, Fields
    <3>5. <<>> \in Seq(Bytes) OBVIOUS
    <3> QED BY <3>4, <3>5 DEF Loaded
  <2>2. CASE ~(o.failed \/ ~o.created)
    <3>1. /\ DOMAIN n = Fields /\ n.chunks = o.chunks /\ n.size = o.size
          /\ n.cache = o.cache /\ n.pc = "unwind" /\ n.failed = TRUE /\ n.created
          /\ n.doomed = Messaged(o.chunks)
          /\ n.buffer = o.buffer /\ n.data = o.data /\ n.at = o.at
      BY <1>1, <2>2 DEF Rollback, RollbackAll, Fields, Messaged
    <3> QED BY <3>1 DEF Loaded
  <2> QED BY <2>1, <2>2
<1>3. Typed(n) BY <1>2 DEF Typed, Pcs
<1>4. ASSUME NEW held, NEW m, Loaded(o), Steady(o, held, m)
      PROVE  Firm(n, held, m)
  <2>1. Ready(n) BY <1>2, <1>4 DEF Ready
  <2>2. Mirrored(n, held) BY <1>2, <1>4 DEF Mirrored, Steady
  <2> QED BY <1>2, <1>4, <2>1, <2>2 DEF Firm, Steady, Behind, Pending
<1>5. \A d, there, deleted, gone :
        Names(d) \cap there \subseteq Messaged(o.chunks) \cup gone
          => Agrees(n, d, there, deleted, gone)
  BY <1>2 DEF Agrees, Working
<1> QED BY <1>1, <1>3, <1>4, <1>5

\* Setting a handle changes nothing but that handle, and of it, once the file is
\* shared, what nothing here depends on.
LEMMA Placed ==
  ASSUME Types, NEW h \in Handles, NEW n, Typed(n), Set(h, n)
  PROVE  /\ DOMAIN file' = Handles /\ \A g \in Handles \ {h} : file'[g] = file[g]
         /\ Typed(file'[h])
         /\ \A held, m : Firm(n, held, m) => Firm(file'[h], held, m)
         /\ ~shared => file'[h] = n
<1>1. DOMAIN file = Handles BY DEF Types
<1>2. /\ DOMAIN file' = Handles /\ \A g \in Handles \ {h} : file'[g] = file[g]
      /\ file'[h] = IF shared THEN [n EXCEPT !.goal = <<>>] ELSE n
  BY <1>1 DEF Set
<1>3. PICK a : a = [n EXCEPT !.goal = <<>>] OBVIOUS
<1>4. /\ DOMAIN a = Fields /\ a.pc = n.pc /\ a.failed = n.failed /\ a.created = n.created
      /\ a.step = n.step /\ a.task = n.task /\ a.undo = n.undo
      /\ a.at = n.at /\ a.chunks = n.chunks /\ a.size = n.size
      /\ a.cache = n.cache /\ a.buffer = n.buffer /\ a.data = n.data
      /\ a.piece = n.piece /\ a.msg = n.msg /\ a.latest = n.latest /\ a.doomed = n.doomed
  BY <1>3 DEF Typed, Fields
<1>5. Typed(a) BY <1>4 DEF Typed, Aimed
<1>6. \A held, m : Firm(n, held, m) => Firm(a, held, m) BY <1>4, Regarded DEF Alike
<1> QED BY <1>2, <1>3, <1>5, <1>6

\* What a handle knows while the others are closed, as they are while it is in use
\* and the file is not shared.
LEMMA OneSound ==
  ASSUME IInv, ~shared, NEW h \in Handles, \A g \in Handles \ {h} : Fresh(file[g])
  PROVE  Sound(file[h], doc, DOMAIN discord, sent, Undone, lost)
<1>1. UNION {Owes(file[g]) : g \in Handles} \subseteq Owes(file[h])
  BY FreshSound
<1> QED BY <1>1 DEF IInv, Alone, Sound

LEMMA InUse ==
  ASSUME IInv, ~shared, NEW h \in Handles, ~Fresh(file[h])
  PROVE  /\ \A g \in Handles \ {h} : Fresh(file[g])
         /\ Sound(file[h], doc, DOMAIN discord, sent, Undone, lost)
<1>1. \A g \in Handles \ {h} : Fresh(file[g]) BY DEF IInv, Alone
<1> QED BY <1>1, OneSound

LEMMA OneHandle ==
  ASSUME IInv, NEW h \in Handles,
         DOMAIN file' = Handles, \A g \in Handles \ {h} : file'[g] = file[g],
         Typed(file'[h]), sent' \in Nat, DOMAIN doc' = {"state", "size", "chunks"},
         Since(discord', sent', discord, sent),
         Fitted(doc'.size, doc'.chunks, discord', sent'), Firm(file'[h], discord', sent'),
         ~shared' => /\ ~shared
                     /\ \A g \in Handles \ {h} : Fresh(file[g])
                     /\ Sound(file'[h], doc', DOMAIN discord', sent', Undone', lost')
  PROVE  IInv'
<1>1. Types' BY DEF IInv, Types
<1>2. Layouts'
  <2>1. ASSUME NEW g \in Handles \ {h} PROVE Firm(file'[g], discord', sent')
    <3>1. PICK held, now, n, m : held = discord /\ now = discord' /\ n = sent /\ m = sent'
      OBVIOUS
    <3>2. PICK o : o = file[g] /\ file'[g] = o OBVIOUS
    <3>3. /\ n \in Nat /\ m \in Nat /\ Since(now, m, held, n) /\ Firm(o, held, n)
      BY <3>1, <3>2 DEF IInv, Types, Layouts
    <3>4. Firm(o, now, m) BY <3>3, StillFirm
    <3> QED BY <3>1, <3>2, <3>4
  <2> QED BY <2>1 DEF Layouts
<1>3. ASSUME ~shared' PROVE Alone'
  <2>1. \A g \in Handles \ {h} : Fresh(file'[g]) BY <1>3
  <2>2. \A g \in Handles \ {h} : Agrees(file'[g], doc', DOMAIN discord', Undone', lost')
    BY <2>1, FreshSound
  <2>3. \A f, g \in Handles : ~Fresh(file'[f]) /\ ~Fresh(file'[g]) => f = g BY <2>1
  <2>4. Owes(file'[h]) \subseteq UNION {Owes(file'[g]) : g \in Handles} OBVIOUS
  <2>5. DOMAIN discord' \subseteq Names(doc') \cup lost' \cup UNION {Owes(file'[g]) : g \in Handles}
    BY <1>3, <2>4 DEF Sound
  <2>6. Whole(doc', DOMAIN discord', sent', Undone') BY <1>3 DEF Sound
  <2>7. \A g \in Handles : Agrees(file'[g], doc', DOMAIN discord', Undone', lost')
    BY <1>3, <2>2 DEF Sound
  <2> QED BY <2>3, <2>5, <2>6, <2>7 DEF Alone
<1> QED BY <1>1, <1>2, <1>3 DEF IInv

LEMMA NoChange ==
  ASSUME IInv, UNCHANGED <<discord, sent>>
  PROVE  Since(discord', sent', discord, sent)
  BY DEF IInv, Types, Since

\* Nothing moves but a handle in use.
LEMMA Quiet ==
  ASSUME IInv, NEW h \in Handles, ~Fresh(file[h]), NEW n, Set(h, n),
         UNCHANGED <<doc, discord, sent, shared>>, Typed(n), Firm(n, discord, sent),
         ~shared /\ Sound(file[h], doc, DOMAIN discord, sent, Undone, lost)
           => Sound(n, doc, DOMAIN discord, sent, Undone', lost')
  PROVE  IInv'
<1>1. /\ DOMAIN file' = Handles /\ \A g \in Handles \ {h} : file'[g] = file[g]
      /\ Typed(file'[h]) /\ Firm(file'[h], discord, sent)
      /\ ~shared => file'[h] = n
  BY Placed DEF IInv
<1>2. /\ sent' \in Nat /\ DOMAIN doc' = {"state", "size", "chunks"}
      /\ Fitted(doc'.size, doc'.chunks, discord', sent') /\ Firm(file'[h], discord', sent')
  BY <1>1 DEF IInv, Types, Layouts
<1>3. ASSUME ~shared'
      PROVE  /\ ~shared
             /\ \A g \in Handles \ {h} : Fresh(file[g])
             /\ Sound(file'[h], doc', DOMAIN discord', sent', Undone', lost')
  BY <1>1, <1>3, InUse
<1> QED BY <1>1, <1>2, <1>3, NoChange, OneHandle

\* A method that has not failed goes on, with nothing left to delete.
LEMMA WorkingSound ==
  ASSUME NEW o, NEW d, NEW there, NEW n, NEW deleted, NEW gone, Working(o),
         Sound(o, d, there, n, deleted, gone)
  PROVE  /\ Trails(o.chunks, d, there, deleted, gone \cup Owes(o)) /\ 0 \notin Names(d)
         /\ Owes(o) = {} => Trails(o.chunks, d, there, deleted, gone)
  BY DEF Sound, Agrees, Whole, Trails

\* What every handle knows of itself.
LEMMA Holding ==
  ASSUME IInv, NEW h \in Handles
  PROVE  /\ Typed(file[h]) /\ Firm(file[h], discord, sent)
         /\ Laid(file[h].chunks) /\ Ready(file[h]) /\ Loaded(file[h])
         /\ 0 \notin Messaged(file[h].chunks)
<1>1. /\ Typed(file[h]) /\ Firm(file[h], discord, sent)
      /\ Laid(file[h].chunks) /\ Ready(file[h]) /\ Loaded(file[h]) /\ sent \in Nat
  BY DEF IInv, Types, Layouts, Firm, Fitted, Ready
<1>2. \A k \in DOMAIN file[h].chunks : file[h].chunks[k].msg # 0
  BY <1>1 DEF Firm, Fitted, Holds
<1> QED BY <1>1, <1>2 DEF Messaged

LEMMA QuietGoes ==
  ASSUME IInv, NEW h \in Handles, Working(file[h]), Owes(file[h]) = {}, NEW n, Set(h, n),
         UNCHANGED <<doc, discord, sent, Undone, shared, lost>>, Ready(n),
         NEW o, Goes(n, o), o.chunks = file[h].chunks, Steady(o, discord, sent)
  PROVE  IInv'
<1>1. ~Fresh(file[h]) BY DEF Working, Fresh
<1>2. Typed(n) BY GoesOn
<1>3. Firm(n, discord, sent) BY GoesFirm
<1>4. ASSUME ~shared, Sound(file[h], doc, DOMAIN discord, sent, Undone, lost)
      PROVE  Sound(n, doc, DOMAIN discord, sent, Undone, lost')
  <2>1. Trails(o.chunks, doc, DOMAIN discord, Undone, lost) /\ 0 \notin Names(doc)
    BY <1>4, WorkingSound
  <2>2. 0 \notin Names(doc) \cup Messaged(o.chunks) BY <2>1, Holding
  <2>3. Agrees(n, doc, DOMAIN discord, Undone, lost) BY <2>1, <2>2, GoesOn
  <2> QED BY <1>4, <2>3 DEF Sound
<1> QED BY <1>1, <1>2, <1>3, <1>4, Quiet

LEMMA QuietRollback ==
  ASSUME IInv, NEW h \in Handles, Working(file[h]), Owes(file[h]) = {}, ~Behind(file[h]),
         NEW o, DOMAIN o = Fields, o.chunks = file[h].chunks, o.size = file[h].size,
         o.cache = file[h].cache, Loaded(o),
         Set(h, Rollback(o)), UNCHANGED <<doc, discord, sent, Undone, shared, lost>>
  PROVE  IInv'
<1>1. ~Fresh(file[h]) /\ ~file[h].failed BY DEF Working, Fresh
<1>2. Typed(Rollback(o)) BY RollbackOn
<1>3. Steady(file[h], discord, sent) BY <1>1, Holding, FirmSteady
<1>4. Steady(o, discord, sent) BY <1>3 DEF Steady
<1>5. Firm(Rollback(o), discord, sent) BY <1>4, RollbackOn
<1>6. ASSUME ~shared, Sound(file[h], doc, DOMAIN discord, sent, Undone, lost)
      PROVE  Sound(Rollback(o), doc, DOMAIN discord, sent, Undone, lost')
  <2>1. Trails(o.chunks, doc, DOMAIN discord, Undone, lost) BY <1>6, WorkingSound
  <2>2. Agrees(Rollback(o), doc, DOMAIN discord, Undone, lost)
    BY <2>1, RollbackOn DEF Trails
  <2> QED BY <1>6, <2>2 DEF Sound
<1> QED BY <1>1, <1>2, <1>5, <1>6, Quiet

-----------------------------------------------------------------------------
(* The methods.                                                            *)

LEMMA CreateKeeps ==
  ASSUME IInv, NEW h \in Handles, NEW flag, Create(h, flag)
  PROVE  IInv'
<1>1. PICK n : n = [Closed EXCEPT !.open = TRUE, !.created = TRUE, !.mac = Empty,
                                  !.replaces = flag]
  OBVIOUS
<1>2. /\ DOMAIN n = Fields /\ n.pc = "idle" /\ n.failed = FALSE /\ n.undo = FALSE
      /\ n.chunks = <<>> /\ Alike(Closed, n) /\ n.piece = <<>> /\ n.msg = 0 /\ n.latest = None
  BY <1>1, ClosedIs DEF Fields, Closed, Alike
<1>3. Typed(n) BY <1>2 DEF Typed, Pcs
<1>4. Firm(n, discord, sent)
  <2>1. Firm(Closed, discord, sent) BY ClosedFirm
  <2> QED BY <1>2, <2>1, Regarded DEF Closed
<1>5. /\ DOMAIN file' = Handles /\ \A g \in Handles \ {h} : file'[g] = file[g]
      /\ Typed(file'[h]) /\ Firm(file'[h], discord, sent)
      /\ ~shared => file'[h] = n
  BY <1>1, <1>3, <1>4, Placed DEF Create, IInv
<1>6. /\ DOMAIN doc' = {"state", "size", "chunks"} /\ doc'.chunks = <<>> /\ doc'.size = 0
      /\ Live(doc') /\ doc.state = "none" /\ Fresh(file[h])
      /\ UNCHANGED <<discord, sent, Undone, lost>>
  BY DEF Create, Live, Undone
<1>7. /\ sent' \in Nat /\ Fitted(doc'.size, doc'.chunks, discord', sent')
      /\ Firm(file'[h], discord', sent')
  BY <1>5, <1>6, EmptyFits DEF IInv, Types
<1>8. ASSUME ~shared'
      PROVE  /\ ~shared
             /\ \A g \in Handles \ {h} : Fresh(file[g])
             /\ Sound(file'[h], doc', DOMAIN discord', sent', Undone', lost')
  <2>1. ~shared /\ \A g \in Handles \ {h} : Fresh(file[g]) BY <1>8 DEF Create, Joins
  <2>2. Sound(file[h], doc, DOMAIN discord, sent, Undone, lost) BY <2>1, OneSound
  <2>3. Names(doc') = {} /\ Names(doc) = {} BY <1>6, EmptyListed DEF Names, Live
  <2>4. Owes(file[h]) = {} BY <1>6, FreshSound
  <2>5. Whole(doc', DOMAIN discord', sent', Undone') BY <1>6, <2>2, <2>3 DEF Sound, Whole
  <2>6. Agrees(n, doc', DOMAIN discord', Undone', lost')
    BY <1>2, <1>6, <2>3, EmptyListed DEF Agrees, Working, Trails
  <2>7. DOMAIN discord' \subseteq lost' BY <1>6, <2>2, <2>3, <2>4 DEF Sound
  <2> QED BY <1>5, <2>1, <2>5, <2>6, <2>7 DEF Sound
<1> QED BY <1>5, <1>6, <1>7, <1>8, NoChange, OneHandle

LEMMA OpenKeeps ==
  ASSUME IInv, NEW h \in Handles, NEW flag, Open(h, flag)
  PROVE  IInv'
<1>1. PICK n : n = [Closed EXCEPT !.pc = "fetch", !.appends = flag, !.latest = Content(doc)]
  OBVIOUS
<1>2. /\ DOMAIN n = Fields /\ n.chunks = <<>> /\ n.pc = "fetch" /\ n.failed = FALSE
      /\ n.undo = FALSE /\ n.latest.chunks = doc.chunks /\ n.latest.size = doc.size
      /\ Alike(Closed, n)
  BY <1>1, ClosedIs DEF Fields, Closed, Content, Alike
<1>3. Typed(n) BY <1>2 DEF Typed, Pcs
<1>4. Firm(n, discord, sent)
  <2>1. Firm(Closed, discord, sent) /\ Fitted(doc.size, doc.chunks, discord, sent)
    BY ClosedFirm DEF IInv, Layouts
  <2>2. Loaded(n) BY <1>2, <2>1, AlikeIs DEF Firm, Ready
  <2> QED BY <1>2, <2>1, <2>2 DEF Firm, Ready, Alike, Mirrored, Behind, Pending, Closed
<1>5. /\ DOMAIN file' = Handles /\ \A g \in Handles \ {h} : file'[g] = file[g]
      /\ Typed(file'[h]) /\ Firm(file'[h], discord, sent)
      /\ ~shared => file'[h] = n
  BY <1>1, <1>3, <1>4, Placed DEF Open, IInv
<1>6. UNCHANGED <<doc, discord, sent, Undone, lost>> /\ Live(doc) /\ Fresh(file[h])
  BY DEF Open, Live, Undone
<1>7. /\ sent' \in Nat /\ DOMAIN doc' = {"state", "size", "chunks"}
      /\ Fitted(doc'.size, doc'.chunks, discord', sent') /\ Firm(file'[h], discord', sent')
  BY <1>5, <1>6 DEF IInv, Types, Layouts
<1>8. ASSUME ~shared'
      PROVE  /\ ~shared
             /\ \A g \in Handles \ {h} : Fresh(file[g])
             /\ Sound(file'[h], doc', DOMAIN discord', sent', Undone', lost')
  <2>1. ~shared /\ \A g \in Handles \ {h} : Fresh(file[g]) BY <1>8 DEF Open, Joins
  <2>2. Sound(file[h], doc, DOMAIN discord, sent, Undone, lost) BY <2>1, OneSound
  <2>3. Owes(file[h]) = {} BY <1>6, FreshSound
  <2>4. Agrees(n, doc, DOMAIN discord, Undone, lost) BY <1>2, <1>6 DEF Agrees, Working
  <2> QED BY <1>5, <1>6, <2>1, <2>2, <2>3, <2>4 DEF Sound
<1> QED BY <1>5, <1>6, <1>7, <1>8, NoChange, OneHandle

LEMMA RefetchKeeps ==
  ASSUME IInv, NEW h \in Handles, Refetch(h)
  PROVE  IInv'
<1>1. PICK o : o = file[h] OBVIOUS
<1>2. PICK n : n = [o EXCEPT !.pc = "fetch", !.latest = Content(doc)] OBVIOUS
<1>3. /\ Typed(o) /\ Firm(o, discord, sent) /\ Fitted(doc.size, doc.chunks, discord, sent)
  BY <1>1, Holding DEF IInv, Layouts
<1>4. /\ DOMAIN n = Fields /\ n.pc = "fetch" /\ n.failed = o.failed /\ n.undo = o.undo
      /\ n.latest.chunks = doc.chunks /\ n.latest.size = doc.size /\ Alike(o, n)
  BY <1>2, <1>3 DEF Typed, Fields, Content, Alike
<1>5. Live(doc) /\ ~Fresh(o) /\ o.pc = "idle" BY <1>1 DEF Refetch, Exists, Live, Fresh
<1>6. Typed(n) BY <1>3, <1>4, <1>5 DEF Typed, Pcs
<1>7. Set(h, n) /\ UNCHANGED <<doc, discord, sent, Undone, shared, lost>>
  BY <1>1, <1>2 DEF Refetch, Undone
<1>8. Firm(n, discord, sent)
  <2>1. Loaded(n) BY <1>3, <1>4, AlikeIs DEF Firm, Ready
  <2> QED BY <1>3, <1>4, <1>5, <2>1 DEF Firm, Ready, Alike, Mirrored, Behind, Pending
<1>9. ASSUME Sound(o, doc, DOMAIN discord, sent, Undone, lost)
      PROVE  Sound(n, doc, DOMAIN discord, sent, Undone, lost')
  <2>1. Agrees(n, doc, DOMAIN discord, Undone, lost) BY <1>4, <1>5 DEF Agrees, Working
  <2>2. Owes(o) = {} BY <1>5 DEF Owes, Replaced
  <2> QED BY <1>7, <1>9, <2>1, <2>2 DEF Sound
<1> QED BY <1>1, <1>5, <1>6, <1>7, <1>8, <1>9, Quiet

LEMMA FetchedKeeps ==
  ASSUME IInv, NEW h \in Handles, Fetched(h)
  PROVE  IInv'
<1>1. PICK o, a : o = file[h] /\ a = Adopted(o) OBVIOUS
<1>2. PICK n : n = [a EXCEPT !.goal = View(a)] OBVIOUS
<1>3. Typed(o) /\ Firm(o, discord, sent) /\ o.pc = "fetch" BY <1>1, Holding DEF Fetched
<1>4. /\ DOMAIN a = Fields /\ a.chunks = o.latest.chunks /\ a.size = o.latest.size
      /\ a.pc = "idle" /\ a.buffer = o.buffer /\ a.data = o.data /\ a.at = o.at
      /\ a.cache = <<>> /\ a.undo = o.undo
  BY <1>1, <1>3 DEF Typed, Fields, Adopted, NoCache
<1>5. /\ DOMAIN n = Fields /\ n.chunks = o.latest.chunks /\ n.size = o.latest.size
      /\ n.pc = "idle" /\ n.buffer = o.buffer /\ n.data = o.data /\ n.at = o.at
      /\ n.cache = <<>> /\ n.undo = o.undo
  BY <1>2, <1>4 DEF Fields
<1>6. Typed(n) BY <1>3, <1>5 DEF Typed, Pcs
<1>7. ~Fresh(o) BY <1>3 DEF Fresh
<1>8. Set(h, n) /\ UNCHANGED <<doc, discord, sent, Undone, shared, lost>>
  BY <1>1, <1>2 DEF Fetched, Undone
<1>9. Firm(n, discord, sent)
  <2>1. Fitted(n.size, n.chunks, discord, sent) BY <1>3, <1>5 DEF Firm
  <2>2. Ready(n) BY <1>3, <1>5, <2>1 DEF Firm, Ready, Loaded, Fitted
  <2>3. DOMAIN <<>> = {} OBVIOUS
  <2>4. Mirrored(n, discord) BY <1>5, <2>3 DEF Mirrored, Mirrors
  <2> QED BY <1>5, <2>1, <2>2, <2>4 DEF Firm, Behind, Pending
<1>10. ASSUME Sound(o, doc, DOMAIN discord, sent, Undone, lost)
       PROVE  Sound(n, doc, DOMAIN discord, sent, Undone, lost')
  <2>1. Agrees(n, doc, DOMAIN discord, Undone, lost)
    <3>1. Live(doc) /\ doc.chunks = n.chunks /\ Whole(doc, DOMAIN discord, sent, Undone)
      BY <1>3, <1>5, <1>10 DEF Sound, Agrees
    <3>2. Trails(n.chunks, doc, DOMAIN discord, Undone, lost \cup Owes(n))
      BY <3>1 DEF Trails, Whole, Names
    <3> QED BY <1>5, <3>2 DEF Agrees
  <2>2. Owes(o) = {} BY <1>3 DEF Owes, Replaced
  <2> QED BY <1>8, <1>10, <2>1, <2>2 DEF Sound
<1> QED BY <1>1, <1>6, <1>7, <1>8, <1>9, <1>10, Quiet

\* A method called on a handle that rests.
LEMMA IdleOwes ==
  ASSUME NEW o, o.pc \in {"idle", "upload", "swap"}
  PROVE  Owes(o) = {} /\ ~Behind(o)
  BY DEF Owes, Replaced, Behind

\* What a method makes of a handle at rest that has not failed.
LEMMA Called ==
  ASSUME IInv, NEW h \in Handles, Working(file[h]), file[h].pc = "idle",
         NEW n, n.chunks = file[h].chunks, n.size = file[h].size, n.cache = file[h].cache,
         NEW r, Goes(r, n), Ready(r), Call(h, r), UNCHANGED lost
  PROVE  IInv'
<1>1. Goes(r, file[h]) BY GoesLike
<1>2. Owes(file[h]) = {} /\ ~Behind(file[h]) BY IdleOwes
<1>3. Steady(file[h], discord, sent) BY <1>2, Holding, FirmSteady DEF Working
<1>4. Set(h, r) /\ UNCHANGED <<doc, discord, sent, Undone, shared, lost>>
  BY DEF Call, Undone
<1> QED BY <1>1, <1>2, <1>3, <1>4, QuietGoes

LEMMA WriteKeeps ==
  ASSUME IInv, NEW h \in Handles, NEW offset \in Nat, NEW data \in Seq(Bytes),
         Write(h, offset, data)
  PROVE  IInv'
<1>1. PICK o : o = file[h] OBVIOUS
<1>2. /\ DOMAIN o = Fields /\ Working(o) /\ o.pc = "idle" /\ ~o.undo
      /\ Laid(o.chunks) /\ Loaded(o)
  BY <1>1, Holding DEF Typed, Working, Write, Free
<1>3. PICK at : at = IF o.appends THEN EndOfFile(o) ELSE offset OBVIOUS
<1>4. at \in Nat
  <2>1. CoveredEnd(o.chunks) \in Nat BY <1>2, EndType
  <2>2. Len(o.buffer) \in Nat /\ o.size \in Nat BY <1>2 DEF Loaded
  <2>3. EndOfFile(o) \in Nat BY <2>1, <2>2 DEF EndOfFile, AppendPosition, Max2
  <2> QED BY <1>3, <2>3
<1>5. PICK m : m = [o EXCEPT !.goal = Spliced(o.goal, at, data)] OBVIOUS
<1>6. PICK a : a = [m EXCEPT !.task = "append", !.buffer = m.buffer \o data] OBVIOUS
<1>7. PICK r : r = [m EXCEPT !.task = "random", !.at = at, !.data = data] OBVIOUS
<1>8. /\ Call(h, IF at = AppendPosition(o) THEN AppendOn(a) ELSE FlushThen(r))
      /\ UNCHANGED lost
  BY <1>1, <1>3, <1>5, <1>6, <1>7 DEF Write, Call
<1>9. /\ DOMAIN m = Fields /\ ~m.failed /\ ~m.undo
      /\ m.chunks = o.chunks /\ m.size = o.size /\ m.cache = o.cache
      /\ m.buffer = o.buffer /\ m.data = o.data /\ m.at = o.at
  BY <1>2, <1>5 DEF Fields, Working
<1>10. CASE at = AppendPosition(o)
  <2>1. /\ DOMAIN a = Fields /\ ~a.failed /\ ~a.undo
        /\ a.chunks = o.chunks /\ a.size = o.size /\ a.cache = o.cache
        /\ a.buffer = o.buffer \o data /\ a.data = o.data /\ a.at = o.at
    BY <1>6, <1>9 DEF Fields
  <2>2. Loaded(a) BY <1>2, <2>1 DEF Loaded
  <2>3. Goes(AppendOn(a), a) /\ Ready(AppendOn(a)) BY <2>1, <2>2, AppendOnGoes, AppendOnReady
  <2> QED BY <1>1, <1>2, <1>8, <1>10, <2>1, <2>3, Called
<1>11. CASE at # AppendPosition(o)
  <2>1. /\ DOMAIN r = Fields /\ ~r.failed /\ ~r.undo /\ r.task \in Flushing
        /\ r.chunks = o.chunks /\ r.size = o.size /\ r.cache = o.cache
        /\ r.buffer = o.buffer /\ r.data = data /\ r.at = at
    BY <1>7, <1>9 DEF Fields, Flushing
  <2>2. Loaded(r) BY <1>2, <1>4, <2>1 DEF Loaded
  <2>3. Goes(FlushThen(r), r) /\ Ready(FlushThen(r))
    BY <1>2, <2>1, <2>2, FlushThenGoes, FlushThenReady
  <2> QED BY <1>1, <1>2, <1>8, <1>11, <2>1, <2>3, Called
<1> QED BY <1>10, <1>11

\* A method that begins with the flush of the buffer.
LEMMA FlushCalled ==
  ASSUME IInv, NEW h \in Handles, NEW o, o = file[h], Working(o), o.pc = "idle",
         NEW n, DOMAIN n = Fields, n.failed = o.failed, n.undo = o.undo, n.task \in Flushing,
         n.chunks = o.chunks, n.size = o.size, n.cache = o.cache, Loaded(n),
         Call(h, FlushThen(n)), UNCHANGED lost
  PROVE  IInv'
<1>1. ~n.failed /\ ~n.undo /\ Laid(n.chunks) BY Holding DEF Working, Typed
<1>2. Goes(FlushThen(n), n) /\ Ready(FlushThen(n)) BY <1>1, FlushThenGoes, FlushThenReady
<1> QED BY <1>2, Called

LEMMA TruncateKeeps ==
  ASSUME IInv, NEW h \in Handles, NEW size \in Nat, Truncate(h, size)
  PROVE  IInv'
<1>1. PICK o : o = file[h] OBVIOUS
<1>2. DOMAIN o = Fields /\ Working(o) /\ o.pc = "idle" /\ Loaded(o)
  BY <1>1, Holding DEF Typed, Working, Truncate, Free
<1>3. PICK n : n = [o EXCEPT !.task = "resize", !.at = size, !.goal = Resized(o.goal, size)]
  OBVIOUS
<1>4. /\ DOMAIN n = Fields /\ n.failed = o.failed /\ n.undo = o.undo /\ n.task \in Flushing
      /\ n.chunks = o.chunks /\ n.size = o.size /\ n.cache = o.cache
      /\ n.buffer = o.buffer /\ n.data = o.data /\ n.at = size
  BY <1>2, <1>3 DEF Fields, Flushing
<1>5. Loaded(n) BY <1>2, <1>4 DEF Loaded
<1>6. Call(h, FlushThen(n)) /\ UNCHANGED lost BY <1>1, <1>3 DEF Truncate, Call
<1> QED BY <1>1, <1>2, <1>4, <1>5, <1>6, FlushCalled

\* The cache is of the chunks there are.
AllMirrored(cache, chunks, held) ==
  \A k \in DOMAIN chunks : Mirrors(cache, chunks[k], held)

\* What a read leaves in the cache is the chunk it read.
LEMMA CachedIs ==
  ASSUME NEW cache, NEW chunks, NEW held, NEW size, NEW n, Fitted(size, chunks, held, n),
         NEW k \in DOMAIN chunks, NEW c, c = chunks[k], NEW bytes, Matches(bytes, c, held),
         AllMirrored(cache, chunks, held),
         NEW new, new = Cached(cache, c.index, bytes)
  PROVE  DOMAIN new = DOMAIN cache \cup {k - 1} /\ AllMirrored(new, chunks, held)
<1>1. \A j \in DOMAIN chunks : chunks[j].index = j - 1 /\ j \in Nat BY IndexIs
<1>2. /\ DOMAIN new = DOMAIN cache \cup {k - 1} /\ new[k - 1] = bytes
      /\ \A i \in DOMAIN cache \ {k - 1} : new[i] = cache[i]
  BY <1>1 DEF Cached
<1>3. Mirrors(new, chunks[k], held) BY <1>1, <1>2 DEF Mirrors
<1>4. ASSUME NEW j \in DOMAIN chunks, j # k PROVE Mirrors(new, chunks[j], held)
  <2>1. j - 1 # k - 1 BY <1>1, <1>4
  <2> QED BY <1>1, <1>2, <2>1 DEF AllMirrored, Mirrors
<1> QED BY <1>2, <1>3, <1>4 DEF AllMirrored

LEMMA ReadKeeps ==
  ASSUME IInv, NEW h \in Handles, NEW k, Read(h, k)
  PROVE  IInv'
<1>1. PICK o : o = file[h] OBVIOUS
<1>2. /\ Typed(o) /\ o.open /\ o.pc = "idle" /\ ~Fresh(o) /\ Firm(o, discord, sent) /\ Loaded(o)
  BY <1>1, Holding DEF Read, Free, Fresh
<1>3. CASE o.buffer # <<>> /\ ~o.failed
  <2>1. PICK n : n = [o EXCEPT !.task = "read"] OBVIOUS
  <2>2. /\ DOMAIN n = Fields /\ n.failed = o.failed /\ n.undo = o.undo /\ n.task \in Flushing
        /\ n.chunks = o.chunks /\ n.size = o.size /\ n.cache = o.cache
        /\ n.buffer = o.buffer /\ n.data = o.data /\ n.at = o.at
    BY <1>2, <2>1 DEF Fields, Typed, Flushing
  <2>3. Loaded(n) BY <1>2, <2>2 DEF Loaded
  <2>4. Call(h, FlushThen(n)) /\ UNCHANGED lost BY <1>1, <1>3, <2>1 DEF Read, Call
  <2>5. Working(o) BY <1>2, <1>3 DEF Working
  <2> QED BY <1>1, <1>2, <2>2, <2>3, <2>4, <2>5, FlushCalled
<1>4. CASE ~(o.buffer # <<>> /\ ~o.failed)
  <2>1. PICK c, new : /\ c = o.chunks[k] /\ new = Cached(o.cache, c.index, ChunkBytes(o, c))
    OBVIOUS
  <2>2. PICK n : n = [o EXCEPT !.cache = new] OBVIOUS
  <2>3. /\ k \in DOMAIN o.chunks /\ Readable(o, c)
        /\ Set(h, n) /\ UNCHANGED <<doc, discord, sent, Undone, shared, lost>>
    BY <1>1, <1>4, <2>1, <2>2 DEF Read, Call, Undone
  <2>4. /\ DOMAIN n = Fields /\ n.failed = o.failed /\ n.undo = o.undo /\ n.pc = "idle"
        /\ n.chunks = o.chunks /\ n.size = o.size /\ n.cache = new /\ n.open = o.open
        /\ n.buffer = o.buffer /\ n.data = o.data /\ n.at = o.at
    BY <1>2, <2>2 DEF Fields, Typed
  <2>5. Typed(n) BY <1>2, <2>4 DEF Typed
  <2>6. /\ Fitted(o.size, o.chunks, discord, sent)
        /\ \A j \in DOMAIN o.chunks : Mirrors(o.cache, o.chunks[j], discord)
        /\ o.failed \/ DOMAIN o.cache \subseteq Slots(o.chunks)
    BY <1>2 DEF Firm, Mirrored, Behind
  <2>7. Matches(ChunkBytes(o, c), c, discord)
    BY <2>1, <2>3, <2>6 DEF Readable, ChunkBytes, Mirrors, Matches, Fitted, Holds
  <2>8. /\ DOMAIN new = DOMAIN o.cache \cup {k - 1}
        /\ \A j \in DOMAIN o.chunks : Mirrors(new, o.chunks[j], discord)
    <3>1. PICK bytes, held, chunks, cache, size, m :
            /\ bytes = ChunkBytes(o, c) /\ held = discord /\ chunks = o.chunks
            /\ cache = o.cache /\ size = o.size /\ m = sent
      OBVIOUS
    <3>2. Fitted(size, chunks, held, m) BY <2>6, <3>1
    <3>3. k \in DOMAIN chunks /\ c = chunks[k] BY <2>1, <2>3, <3>1
    <3>4. Matches(bytes, c, held) BY <2>7, <3>1
    <3>5. AllMirrored(cache, chunks, held) BY <2>6, <3>1 DEF AllMirrored
    <3>6. new = Cached(cache, c.index, bytes) BY <2>1, <3>1
    <3>7. DOMAIN new = DOMAIN cache \cup {k - 1} /\ AllMirrored(new, chunks, held)
      BY <3>2, <3>3, <3>4, <3>5, <3>6, CachedIs
    <3> QED BY <3>1, <3>7 DEF AllMirrored
  <2>9. Firm(n, discord, sent)
    <3>1. Ready(n) BY <1>2, <2>4 DEF Ready, Loaded
    <3>2. o.failed \/ DOMAIN new \subseteq Slots(o.chunks) BY <2>3, <2>6, <2>8 DEF Slots
    <3>3. Mirrored(n, discord) BY <2>4, <2>8, <3>2 DEF Mirrored
    <3> QED BY <2>4, <2>6, <3>1, <3>3 DEF Firm, Behind, Pending
  <2>10. ASSUME Sound(o, doc, DOMAIN discord, sent, Undone, lost)
         PROVE  Sound(n, doc, DOMAIN discord, sent, Undone, lost')
    <3>1. Agrees(n, doc, DOMAIN discord, Undone, lost)
      BY <1>2, <2>4, <2>10, IdleOwes DEF Sound, Agrees, Working
    <3> QED BY <1>2, <2>3, <2>10, <3>1, IdleOwes DEF Sound
  <2> QED BY <1>1, <1>2, <2>3, <2>5, <2>9, <2>10, Quiet
<1> QED BY <1>3, <1>4

\* A handle that has failed is only let go.
LEMMA FailedCloses ==
  ASSUME IInv, NEW h \in Handles, ~Fresh(file[h]), file[h].pc = "idle", Set(h, Closed),
         UNCHANGED <<doc, discord, sent, Undone, shared, lost>>
  PROVE  IInv'
<1>1. PICK o : o = file[h] OBVIOUS
<1>2. ASSUME Sound(o, doc, DOMAIN discord, sent, Undone, lost)
      PROVE  Sound(Closed, doc, DOMAIN discord, sent, Undone, lost')
  <2>1. Agrees(Closed, doc, DOMAIN discord, Undone, lost) BY ClosedIs, FreshSound DEF Fresh
  <2> QED BY <1>1, <1>2, <2>1, IdleOwes DEF Sound
<1> QED BY <1>1, <1>2, ClosedIs, ClosedFirm, Quiet

LEMMA CloseKeeps ==
  ASSUME IInv, NEW h \in Handles, Close(h)
  PROVE  IInv'
<1>1. PICK o : o = file[h] OBVIOUS
<1>2. Typed(o) /\ o.open /\ o.pc = "idle" /\ ~Fresh(o) /\ Loaded(o)
  BY <1>1, Holding DEF Close, Free, Fresh
<1>3. CASE o.failed
  <2>1. Set(h, Closed) /\ UNCHANGED <<doc, discord, sent, Undone, shared, lost>>
    BY <1>1, <1>3 DEF Close, Call, Undone
  <2> QED BY <1>1, <1>2, <2>1, FailedCloses
<1>4. CASE ~o.failed
  <2>1. PICK n : n = [o EXCEPT !.task = "close"] OBVIOUS
  <2>2. /\ DOMAIN n = Fields /\ n.failed = o.failed /\ n.undo = o.undo /\ n.task \in Flushing
        /\ n.chunks = o.chunks /\ n.size = o.size /\ n.cache = o.cache
        /\ n.buffer = o.buffer /\ n.data = o.data /\ n.at = o.at
    BY <1>2, <2>1 DEF Fields, Typed, Flushing
  <2>3. Loaded(n) BY <1>2, <2>2 DEF Loaded
  <2>4. Call(h, FlushThen(n)) /\ UNCHANGED lost BY <1>1, <1>4, <2>1 DEF Close, Call
  <2>5. Working(o) BY <1>2, <1>4 DEF Working
  <2> QED BY <1>1, <1>2, <2>2, <2>3, <2>4, <2>5, FlushCalled
<1> QED BY <1>3, <1>4

LEMMA AbortKeeps ==
  ASSUME IInv, NEW h \in Handles, Abort(h)
  PROVE  IInv'
<1>1. PICK o : o = file[h] OBVIOUS
<1>2. Typed(o) /\ ~Fresh(o) /\ o.open /\ o.pc = "idle" /\ Loaded(o)
  BY <1>1, Holding DEF Abort, Free, Fresh
<1>3. CASE o.failed
  <2>1. Set(h, Closed) /\ UNCHANGED <<doc, discord, sent, Undone, shared, lost>>
    BY <1>1, <1>3 DEF Abort, Call, Undone
  <2> QED BY <1>1, <1>2, <2>1, FailedCloses
<1>4. CASE ~o.failed
  <2>1. PICK n : n = [o EXCEPT !.buffer = <<>>, !.task = "abort"] OBVIOUS
  <2>2. /\ DOMAIN n = Fields /\ n.chunks = o.chunks /\ n.size = o.size /\ n.cache = o.cache
        /\ n.buffer = <<>> /\ n.data = o.data /\ n.at = o.at
    BY <1>2, <2>1 DEF Fields, Typed
  <2>3. <<>> \in Seq(Bytes) OBVIOUS
  <2>4. Loaded(n) BY <1>2, <2>2, <2>3 DEF Loaded
  <2>5. Set(h, Rollback(n)) /\ UNCHANGED <<doc, discord, sent, Undone, shared, lost>>
    BY <1>1, <1>4, <2>1 DEF Abort, Call, Undone
  <2>6. Working(o) BY <1>2, <1>4 DEF Working
  <2> QED BY <1>1, <1>2, <2>2, <2>4, <2>5, <2>6, IdleOwes, QuietRollback
<1> QED BY <1>3, <1>4

-----------------------------------------------------------------------------
(* Upload, commit, delete.                                                 *)

LEMMA SplicedIs ==
  ASSUME NEW bytes \in Seq(Bytes), NEW at \in Nat, NEW data \in Seq(Bytes),
         at + Len(data) <= Len(bytes)
  PROVE  AreBytes(Spliced(bytes, at, data), Len(bytes))
<1>1. PICK n, m : n = Len(bytes) /\ m = Len(data) OBVIOUS
<1>2. /\ n \in Nat /\ DOMAIN bytes = 1 .. n /\ m \in Nat /\ DOMAIN data = 1 .. m
      /\ \A k \in 1 .. n : bytes[k] \in Bytes
      /\ \A k \in 1 .. m : data[k] \in Bytes
  BY <1>1
<1>3. Max2(n, at + m) = n BY <1>1, <1>2 DEF Max2
<1>4. PICK all : all = Spliced(bytes, at, data) OBVIOUS
<1>5. /\ DOMAIN all = 1 .. n
      /\ \A p \in 1 .. n : all[p] = IF p - 1 \in at .. at + m - 1 THEN data[p - at]
                                    ELSE IF p <= n THEN bytes[p] ELSE 0
  BY <1>1, <1>3, <1>4 DEF Spliced
<1>6. ASSUME NEW p \in 1 .. n PROVE all[p] \in Bytes
  <2>1. CASE p - 1 \in at .. at + m - 1
    <3>1. p - at \in 1 .. m BY <1>2, <2>1
    <3> QED BY <1>2, <1>5, <2>1, <3>1
  <2>2. CASE p - 1 \notin at .. at + m - 1 BY <1>2, <1>5, <2>2
  <2> QED BY <2>1, <2>2
<1>7. all \in [1 .. n -> Bytes]
  <2>1. all = [p \in 1 .. n |-> all[p]] BY <1>4, <1>5 DEF Spliced
  <2> QED BY <1>6, <2>1
<1>8. all \in Seq(Bytes) /\ Len(all) = n BY <1>2, <1>7
<1> QED BY <1>1, <1>4, <1>8 DEF AreBytes

\* What is uploaded is of the length the commit will say.
LEMMA SendingIs ==
  ASSUME NEW o, o.pc = "upload", ~o.failed, Aimed(o), Firm(o, discord, sent), Fetchable(o),
         NEW bytes, bytes = Sending(o)
  PROVE  /\ bytes \in Seq(Bytes)
         /\ o.step \in NewChunk => bytes = o.piece
         /\ o.step = "patch" => Len(bytes) = Patched(o).size
         /\ o.step = "trim" => Len(bytes) = o.at - Straddler(o).offset
<1>1. PICK old : old = o.chunks OBVIOUS
<1>2. /\ Laid(old) /\ Loaded(o) /\ Shaped(o) /\ o.at \in Nat
      /\ \A k \in DOMAIN old : Holds(old[k], discord, sent) /\ Mirrors(o.cache, old[k], discord)
  BY <1>1 DEF Firm, Fitted, Ready, Mirrored, Behind, Loaded
<1>3. CASE o.step \in NewChunk
  <2>1. bytes = o.piece BY <1>3 DEF Sending, NewChunk
  <2> QED BY <1>2, <1>3, <2>1 DEF Shaped, NewChunk
<1>4. CASE o.step = "patch"
  <2>1. PICK p \in DOMAIN old : /\ Patched(o) = old[p] /\ old[p].offset <= o.at
                                /\ o.at < old[p].offset + old[p].size
    BY <1>1, <1>2, <1>4 DEF Shaped, Patched, Locate
  <2>2. PICK whole, first, from, take :
          /\ whole = ChunkBytes(o, old[p]) /\ from = o.at - old[p].offset
          /\ take = PatchTake(o) /\ first = SubSeq(o.data, 1, take)
    OBVIOUS
  <2>3. Readable(o, old[p]) BY <1>4, <2>1 DEF Fetchable
  <2>4. whole \in Seq(Bytes) /\ Len(whole) = old[p].size
    BY <1>2, <2>2, <2>3 DEF Readable, ChunkBytes, Holds, Mirrors, Matches, AreBytes
  <2>5. old[p].offset \in Nat /\ old[p].size \in Nat BY <1>2 DEF Laid
  <2>6. from \in Nat /\ from < old[p].size BY <1>2, <2>1, <2>2, <2>5
  <2>7. Len(o.data) \in Nat BY <1>2 DEF Loaded
  <2>8. take \in 0 .. Len(o.data) /\ from + take <= old[p].size
    <3>1. PICK at, offset, size, left :
            /\ at = o.at /\ offset = old[p].offset /\ size = old[p].size
            /\ left = offset + size - at
      OBVIOUS
    <3>2. left \in Nat /\ from + left = old[p].size
      <4>1. /\ at \in Nat /\ offset \in Nat /\ size \in Nat /\ at < offset + size
            /\ from = at - offset
        BY <1>2, <2>1, <2>2, <2>5, <3>1
      <4>2. left \in Nat /\ from + left = size BY <3>1, <4>1
      <4> QED BY <3>1, <4>2
    <3>3. take = Min2(Len(o.data), left) BY <2>1, <2>2, <3>1 DEF PatchTake
    <3> QED BY <2>5, <2>6, <2>7, <3>2, <3>3 DEF Min2
  <2>9. first \in Seq(Bytes) /\ Len(first) = take
    BY <1>2, <2>2, <2>7, <2>8 DEF Loaded
  <2>10. AreBytes(Spliced(whole, from, first), Len(whole))
    BY <2>4, <2>6, <2>8, <2>9, SplicedIs
  <2>11. bytes = Spliced(whole, from, first)
    BY <1>4, <2>1, <2>2 DEF Sending, PatchedBytes
  <2> QED BY <1>4, <2>1, <2>4, <2>10, <2>11 DEF AreBytes, NewChunk
<1>5. CASE o.step = "trim"
  <2>1. Straddlers(o) # {} BY <1>5 DEF Firm, Ready
  <2>2. PICK k \in DOMAIN old : /\ Straddler(o) = old[k] /\ old[k].offset < o.at
                                /\ old[k].offset + old[k].size > o.at
    BY <1>1, <2>1 DEF Straddler, Straddlers
  <2>3. old[k].msg \in DOMAIN discord BY <1>5, <2>2 DEF Fetchable
  <2>4. PICK whole, upto : whole = discord[old[k].msg] /\ upto = o.at - old[k].offset OBVIOUS
  <2>5. whole \in Seq(Bytes) /\ Len(whole) = old[k].size
    BY <1>2, <2>3, <2>4 DEF Holds, AreBytes
  <2>6. old[k].offset \in Nat /\ old[k].size \in Nat BY <1>2 DEF Laid
  <2>7. upto \in 1 .. Len(whole) BY <1>2, <2>2, <2>4, <2>5, <2>6
  <2>8. SubSeq(whole, 1, upto) \in Seq(Bytes) /\ Len(SubSeq(whole, 1, upto)) = upto
    BY <2>5, <2>7
  <2>9. bytes = SubSeq(whole, 1, upto) BY <1>5, <2>2, <2>4 DEF Sending
  <2> QED BY <1>5, <2>2, <2>4, <2>8, <2>9 DEF NewChunk
<1> QED BY <1>3, <1>4, <1>5 DEF Aimed, Steps, NewChunk

LEMMA SendKeeps ==
  ASSUME IInv, NEW h \in Handles, Send(h)
  PROVE  IInv'
<1>1. PICK o : o = file[h] OBVIOUS
<1>2. PICK n, bytes : /\ bytes = Sending(o)
                      /\ n = [o EXCEPT !.pc = "commit", !.piece = bytes, !.msg = sent + 1]
  OBVIOUS
<1>3. /\ Typed(o) /\ o.pc = "upload" /\ ~o.failed /\ ~Fresh(o) /\ Aimed(o) /\ Fetchable(o)
      /\ Firm(o, discord, sent) /\ Working(o)
  BY <1>1, Holding DEF Typed, Send, Fresh, Working
<1>4. /\ DOMAIN n = Fields /\ n.failed = o.failed /\ n.undo = o.undo /\ n.pc = "commit"
      /\ n.msg = sent + 1 /\ n.task = o.task /\ n.piece = bytes /\ Alike(o, n)
  BY <1>2, <1>3 DEF Fields, Typed, Alike
<1>5. Typed(n) BY <1>3, <1>4 DEF Typed, Pcs, Aimed, Alike
<1>6. Set(h, n) BY <1>1, <1>2 DEF Send
<1>7. /\ DOMAIN file' = Handles /\ \A g \in Handles \ {h} : file'[g] = file[g]
      /\ Typed(file'[h])
      /\ \A held, m : Firm(n, held, m) => Firm(file'[h], held, m)
      /\ ~shared => file'[h] = n
  BY <1>5, <1>6, Placed DEF IInv
<1>8. /\ UNCHANGED <<doc, Undone, lost, shared>> /\ sent' = sent + 1
      /\ DOMAIN discord' = DOMAIN discord \cup {sent + 1}
      /\ discord'[sent + 1] = bytes
      /\ \A i \in DOMAIN discord \ {sent + 1} : discord'[i] = discord[i]
  BY <1>1, <1>2 DEF Send, Undone
<1>9. sent \in Nat /\ sent' \in Nat /\ DOMAIN doc' = {"state", "size", "chunks"}
  BY <1>8 DEF IInv, Types
<1>10. Since(discord', sent', discord, sent) BY <1>8, <1>9 DEF Since
<1>11. Fitted(doc'.size, doc'.chunks, discord', sent')
  <2>1. Fitted(doc.size, doc.chunks, discord, sent) BY DEF IInv, Layouts
  <2> QED BY <1>8, <1>9, <1>10, <2>1, StillFits
<1>12. /\ bytes \in Seq(Bytes)
       /\ o.step \in NewChunk => bytes = o.piece
       /\ o.step = "patch" => Len(bytes) = Patched(o).size
       /\ o.step = "trim" => Len(bytes) = o.at - Straddler(o).offset
  BY <1>2, <1>3, SendingIs
<1>13. PICK now, m : now = discord' /\ m = sent' OBVIOUS
<1>14. Firm(n, now, m)
  <2>1. Firm(o, now, m) BY <1>3, <1>9, <1>10, <1>13, StillFirm
  <2>2. /\ Straddlers(n) = Straddlers(o) /\ Straddler(n) = Straddler(o)
        /\ Patched(n) = Patched(o) /\ (Bare(n) <=> Bare(o)) /\ (Loaded(n) <=> Loaded(o))
    BY <1>4, AlikeIs
  <2>3. ~Bare(n) BY <1>3, <2>1, <2>2 DEF Bare, Firm, Ready
  <2>4. Shaped(n) BY <1>3, <1>4, <1>12, <2>1 DEF Firm, Ready, Shaped, Alike
  <2>5. Ready(n) BY <1>4, <2>1, <2>2, <2>3, <2>4 DEF Firm, Ready
  <2>6. Mirrored(n, now) BY <1>3, <1>4, <2>1 DEF Firm, Mirrored, Alike, Behind
  <2>7. m = sent + 1 /\ now[sent + 1] = bytes /\ sent + 1 \in 1 .. m BY <1>8, <1>9, <1>13
  <2>8. Fresher(n, now, m) BY <1>4, <1>12, <2>2, <2>7 DEF Fresher, Alike
  <2>9. Fitted(n.size, n.chunks, now, m) BY <1>4, <2>1 DEF Firm, Alike
  <2> QED BY <1>4, <2>5, <2>6, <2>8, <2>9 DEF Firm, Behind, Pending
<1>15. Firm(file'[h], discord', sent') BY <1>7, <1>13, <1>14
<1>16. ASSUME ~shared'
       PROVE  /\ ~shared
              /\ \A g \in Handles \ {h} : Fresh(file[g])
              /\ Sound(file'[h], doc', DOMAIN discord', sent', Undone', lost')
  <2>1. /\ ~shared /\ \A g \in Handles \ {h} : Fresh(file[g])
        /\ Sound(o, doc, DOMAIN discord, sent, Undone, lost)
    BY <1>1, <1>3, <1>8, <1>16, InUse
  <2>2. /\ Whole(doc, DOMAIN discord, sent, Undone)
        /\ Trails(o.chunks, doc, DOMAIN discord, Undone, lost)
    BY <1>3, <2>1, IdleOwes, WorkingSound DEF Sound
  <2>3. Whole(doc', DOMAIN discord', sent', Undone') BY <1>8, <1>9, <2>2 DEF Whole
  <2>4. sent + 1 \notin Names(doc) \cup Messaged(o.chunks)
    <3>1. \A k \in DOMAIN o.chunks : o.chunks[k].msg \in 1 .. sent
      BY <1>3 DEF Firm, Fitted, Holds
    <3> QED BY <1>9, <2>2, <3>1 DEF Whole, Messaged
  <2>5. Agrees(n, doc, DOMAIN discord', Undone, lost)
    <3>1. Trails(n.chunks, doc, DOMAIN discord', Undone, lost \cup Owes(n))
      BY <1>4, <1>8, <2>2, <2>4 DEF Trails, Alike
    <3> QED BY <1>4, <1>8, <2>4, <3>1 DEF Agrees, Alike
  <2>6. sent + 1 \in Owes(n) BY <1>4 DEF Owes
  <2>7. Owes(o) = {} BY <1>3, IdleOwes
  <2>8. DOMAIN discord' \subseteq Names(doc) \cup lost \cup Owes(n)
    BY <1>8, <2>1, <2>6, <2>7 DEF Sound
  <2> QED BY <1>7, <1>8, <2>1, <2>3, <2>5, <2>8 DEF Sound
<1> QED BY <1>7, <1>9, <1>10, <1>11, <1>15, <1>16, OneHandle

LEMMA SendFailsKeeps ==
  ASSUME IInv, NEW h \in Handles, SendFails(h)
  PROVE  IInv'
<1>1. PICK o : o = file[h] OBVIOUS
<1>2. /\ DOMAIN o = Fields /\ o.pc = "upload" /\ ~o.failed /\ Working(o) /\ Loaded(o)
      /\ Owes(o) = {} /\ ~Behind(o) /\ Firm(o, discord, sent)
  BY <1>1, Holding, IdleOwes DEF Typed, SendFails, Working
<1>3. UNCHANGED <<doc, discord, sent, Undone, shared, lost>> BY DEF SendFails, Undone
<1>4. CASE o.step \in NewChunk
  <2>1. Set(h, Rollback(o)) BY <1>1, <1>4 DEF SendFails
  <2> QED BY <1>1, <1>2, <1>3, <2>1, QuietRollback
<1>5. CASE o.step \notin NewChunk
  <2>1. Set(h, Raised(o)) BY <1>1, <1>5 DEF SendFails
  <2>2. Goes(Raised(o), o) /\ Ready(Raised(o)) BY <1>2, RaisedGoes, RaisedReady
  <2>3. Steady(o, discord, sent) BY <1>2, FirmSteady
  <2> QED BY <1>1, <1>2, <1>3, <2>1, <2>2, <2>3, QuietGoes
<1> QED BY <1>4, <1>5

\* The answer is awaited for the layout that was sent.
LEMMA SameLayout ==
  ASSUME NEW o, DOMAIN o = Fields, NEW n, n = [o EXCEPT !.pc = "ack"]
  PROVE  Layout(n) = Layout(o)
<1>1. /\ n.step = o.step /\ n.size = o.size /\ n.chunks = o.chunks /\ n.piece = o.piece
      /\ n.msg = o.msg /\ n.at = o.at
  BY DEF Fields
<1>2. Straddlers(n) = Straddlers(o) /\ Patched(n) = Patched(o)
  BY <1>1 DEF Straddlers, Patched
<1>3. Straddler(n) = Straddler(o) BY <1>1, <1>2 DEF Straddler
<1>4. WithNewChunk(n) = WithNewChunk(o) BY <1>1 DEF WithNewChunk
<1>5. WithPatch(n) = WithPatch(o) BY <1>1, <1>2 DEF WithPatch
<1>6. WithTrim(n) = WithTrim(o)
  <2> DEFINE Before(x) == {k \in DOMAIN x.chunks :
                             x.chunks[k].offset + x.chunks[k].size <= x.at}
             Shorter(x) == [Straddler(x) EXCEPT !.msg = x.msg, !.size = x.at - Straddler(x).offset]
             Trimmed(at, chunks, cut, before, last) ==
               [size |-> at,
                chunks |-> IF cut = {} THEN SubSeq(chunks, 1, Cardinality(before))
                           ELSE Append(SubSeq(chunks, 1, Cardinality(before)), last)]
  <2>1. \A x : WithTrim(x) = Trimmed(x.at, x.chunks, Straddlers(x), Before(x), Shorter(x))
    BY DEF WithTrim
  <2>2. Before(n) = Before(o) BY <1>1
  <2>3. Shorter(n) = Shorter(o) BY <1>1, <1>3
  <2> HIDE DEF Before, Shorter, Trimmed
  <2> QED BY <1>1, <1>2, <2>1, <2>2, <2>3
<1> QED BY <1>1, <1>4, <1>5, <1>6 DEF Layout

\* What is being committed, whichever of its awaits it is at.
LEMMA LayoutFits ==
  ASSUME NEW o, DOMAIN o = Fields, Pending(o), Aimed(o),
         NEW held, NEW n, Firm(o, held, n), NEW new, new = Layout(o)
  PROVE  /\ Loaded(o) /\ Shaped(o) /\ Fitted(o.size, o.chunks, held, n)
         /\ Bare(o) \/ Fresher(o, held, n)
         /\ Fitted(new.size, new.chunks, held, n)
         /\ Bare(o) \/ o.msg \in Messaged(new.chunks)
         /\ Messaged(new.chunks) \subseteq Messaged(o.chunks) \cup {o.msg}
         /\ Bare(o) => Messaged(new.chunks) \subseteq Messaged(o.chunks)
<1>1. /\ Loaded(o) /\ Shaped(o) /\ Fitted(o.size, o.chunks, held, n)
      /\ Bare(o) \/ Fresher(o, held, n)
  BY DEF Firm, Ready, Pending
<1> QED BY <1>1, LayoutIs

LEMMA ApplyKeeps ==
  ASSUME IInv, NEW h \in Handles, Apply(h)
  PROVE  IInv'
<1>1. PICK o, new : o = file[h] /\ new = Layout(o) OBVIOUS
<1>2. PICK n : n = [o EXCEPT !.pc = "ack"] OBVIOUS
<1>3. /\ Typed(o) /\ o.pc = "commit" /\ ~o.failed /\ ~Fresh(o) /\ Working(o) /\ Aimed(o)
      /\ Firm(o, discord, sent)
  BY <1>1, Holding DEF Typed, Apply, Fresh, Working
<1>4. /\ DOMAIN n = Fields /\ n.failed = o.failed /\ n.undo = o.undo /\ n.pc = "ack"
      /\ n.msg = o.msg /\ n.task = o.task /\ n.piece = o.piece /\ Alike(o, n)
  BY <1>2, <1>3 DEF Fields, Typed, Alike
<1>5. Typed(n) BY <1>3, <1>4 DEF Typed, Pcs, Aimed, Alike
<1>6. /\ DOMAIN file' = Handles /\ \A g \in Handles \ {h} : file'[g] = file[g]
      /\ file'[h] = n
  BY <1>1, <1>2 DEF Apply, IInv, Types
<1>7. /\ Fitted(new.size, new.chunks, discord, sent)
      /\ Bare(o) \/ o.msg \in Messaged(new.chunks)
      /\ Messaged(new.chunks) \subseteq Messaged(o.chunks) \cup {o.msg}
      /\ Bare(o) => Messaged(new.chunks) \subseteq Messaged(o.chunks)
  BY <1>1, <1>3, LayoutFits DEF Typed, Pending
<1>8. /\ UNCHANGED <<discord, sent, Undone, lost, shared>>
      /\ doc' = IF Live(doc) THEN [doc EXCEPT !.size = new.size, !.chunks = new.chunks]
                ELSE doc
  BY <1>1 DEF Apply, Exists, Live, Undone
<1>9. DOMAIN doc = {"state", "size", "chunks"} BY DEF IInv, Types
<1>10. /\ Live(doc) => /\ DOMAIN doc' = {"state", "size", "chunks"} /\ Live(doc')
                       /\ doc'.chunks = new.chunks /\ doc'.size = new.size
       /\ ~Live(doc) => doc' = doc
  BY <1>8, <1>9 DEF Live
<1>11. /\ sent' \in Nat /\ DOMAIN doc' = {"state", "size", "chunks"}
       /\ Fitted(doc'.size, doc'.chunks, discord', sent')
  BY <1>7, <1>8, <1>9, <1>10 DEF IInv, Types, Layouts
<1>12. Firm(n, discord, sent)
  <2>1. /\ Straddlers(n) = Straddlers(o) /\ Straddler(n) = Straddler(o)
        /\ Patched(n) = Patched(o) /\ (Bare(n) <=> Bare(o)) /\ (Loaded(n) <=> Loaded(o))
    BY <1>4, AlikeIs
  <2>2. Ready(n) BY <1>3, <1>4, <2>1 DEF Firm, Ready, Shaped, Alike
  <2>3. Mirrored(n, discord) BY <1>3, <1>4 DEF Firm, Mirrored, Alike, Behind
  <2>4. ~Bare(n) => Fresher(n, discord, sent)
    BY <1>3, <1>4, <2>1 DEF Firm, Fresher, Alike, Pending
  <2>5. Fitted(n.size, n.chunks, discord, sent) BY <1>3, <1>4 DEF Firm, Alike
  <2> QED BY <1>4, <2>2, <2>3, <2>4, <2>5 DEF Firm, Behind, Pending
<1>13. ASSUME ~shared'
       PROVE  /\ ~shared
              /\ \A g \in Handles \ {h} : Fresh(file[g])
              /\ Sound(file'[h], doc', DOMAIN discord', sent', Undone', lost')
  <2>1. /\ ~shared /\ \A g \in Handles \ {h} : Fresh(file[g])
        /\ Sound(o, doc, DOMAIN discord, sent, Undone, lost)
    BY <1>1, <1>3, <1>8, <1>13, InUse
  <2>2. /\ Whole(doc, DOMAIN discord, sent, Undone) /\ Ready(o)
        /\ Trails(o.chunks, doc, DOMAIN discord, Undone, lost \cup Owes(o))
        /\ o.msg \notin Messaged(o.chunks) /\ (o.msg \in DOMAIN discord \/ Bare(o))
    BY <1>3, <2>1, WorkingSound DEF Sound, Agrees, Firm
  <2>3. Live(doc) /\ Names(doc') = Messaged(new.chunks)
    BY <1>10, <2>2 DEF Names, Trails
  <2>4. /\ Messaged(new.chunks) \subseteq 1 .. sent
        /\ Messaged(new.chunks) \ Undone \subseteq DOMAIN discord
    <3>1. \A k \in DOMAIN new.chunks : new.chunks[k].msg \in 1 .. sent
      BY <1>7 DEF Fitted, Holds
    <3>2. Messaged(new.chunks) \ Undone \subseteq DOMAIN discord BY <1>7, <2>2 DEF Trails
    <3> QED BY <3>1, <3>2 DEF Messaged
  <2>5. Whole(doc', DOMAIN discord', sent', Undone') BY <1>8, <2>2, <2>3, <2>4 DEF Whole
  <2>6. Layout(n) = new BY <1>1, <1>2, <1>3, SameLayout DEF Typed
  <2>7. Agrees(n, doc', DOMAIN discord', Undone', lost')
    <3>1. Live(doc') /\ doc'.chunks = new.chunks BY <1>10, <2>3
    <3>2. Messaged(o.chunks) \ Undone \subseteq DOMAIN discord BY <2>2 DEF Trails
    <3>3. n.chunks = o.chunks BY <1>4 DEF Alike
    <3> QED BY <1>4, <1>8, <2>2, <2>6, <3>1, <3>2, <3>3 DEF Agrees, Working
  <2>8. Owes(o) = {o.msg} BY <1>3 DEF Owes, Replaced
  <2>9. Owes(n) = Messaged(o.chunks) \ Messaged(new.chunks)
    BY <1>4, <2>6 DEF Owes, Replaced, Alike
  <2>10. o.msg \in DOMAIN discord => o.msg \in Names(doc')
    BY <1>3, <1>7, <2>2, <2>3 DEF Ready, Whole
  <2>11. DOMAIN discord \subseteq Names(doc') \cup lost \cup Owes(n)
    <3>1. DOMAIN discord \subseteq Messaged(o.chunks) \cup lost \cup {o.msg}
      BY <2>1, <2>2, <2>8 DEF Sound, Trails
    <3> QED BY <2>3, <2>9, <2>10, <3>1
  <2> QED BY <1>6, <1>8, <2>1, <2>5, <2>7, <2>11 DEF Sound
<1>14. Firm(file'[h], discord', sent') BY <1>6, <1>8, <1>12
<1> QED BY <1>5, <1>6, <1>8, <1>11, <1>13, <1>14, NoChange, OneHandle

\* The commit is answered: the handle takes up the layout it sent.
LEMMA CommitFirm ==
  ASSUME NEW o, Typed(o), o.pc = "ack", NEW held, NEW m, Firm(o, held, m),
         NEW new, new = Layout(o), NEW n, DOMAIN n = Fields,
         n.pc = "discard", n.undo = o.undo, n.step = o.step, n.at = o.at, n.cache = o.cache,
         n.buffer = o.buffer, n.data = o.data, n.piece = o.piece, n.msg = o.msg,
         n.failed = o.failed, n.size = new.size, n.chunks = new.chunks
  PROVE  Firm(n, held, m)
<1>1. PICK old : old = o.chunks OBVIOUS
<1>2. /\ DOMAIN o = Fields /\ Aimed(o) /\ ~o.failed /\ ~o.undo BY DEF Typed
<1>3. /\ Loaded(o) /\ Shaped(o) /\ Fitted(o.size, o.chunks, held, m)
      /\ Bare(o) \/ Fresher(o, held, m)
      /\ Fitted(new.size, new.chunks, held, m)
  BY <1>2, LayoutFits DEF Pending
<1>4. Behind(n) BY <1>2 DEF Behind
<1>5. Loaded(n) BY <1>3 DEF Loaded, Fitted
<1>6. /\ DOMAIN o.cache \subseteq Slots(old)
      /\ \A k \in DOMAIN old : Mirrors(o.cache, old[k], held)
  BY <1>1, <1>2 DEF Firm, Mirrored, Behind
<1>7. CASE o.step \in NewChunk
  <2>1. Fresher(o, held, m) BY <1>3, <1>7 DEF Bare, NewChunk
  <2>2. /\ Slots(old) \subseteq Slots(new.chunks)
        /\ \A k \in DOMAIN new.chunks :
             \/ k \in DOMAIN old /\ new.chunks[k] = old[k]
             \/ new.chunks[k].index \notin Slots(old)
    BY <1>1, <1>2, <1>3, <1>7, <2>1, NewChunkIs
  <2>3. \A k \in DOMAIN new.chunks : Mirrors(o.cache, new.chunks[k], held)
    BY <1>6, <2>2 DEF Mirrors
  <2>4. Mirrored(n, held) BY <1>6, <2>2, <2>3 DEF Mirrored
  <2>5. Ready(n) BY <1>3, <1>5, <1>7 DEF Ready, Shaped, NewChunk
  <2>6. n.step # "patch" BY <1>7 DEF NewChunk
  <2> QED BY <1>3, <1>4, <2>4, <2>5, <2>6 DEF Firm, Pending, Behind
<1>8. CASE o.step = "patch"
  <2>1. Fresher(o, held, m) BY <1>3, <1>8 DEF Bare
  <2>2. PICK p : p = CHOOSE k \in Locate(old, o.at) : TRUE OBVIOUS
  <2>3. /\ DOMAIN new.chunks = DOMAIN old
        /\ Locate(new.chunks, o.at) = Locate(old, o.at)
        /\ p \in DOMAIN old /\ old[p] = Patched(o)
        /\ new.chunks[p].msg = o.msg /\ new.chunks[p].size = old[p].size
        /\ \A k \in DOMAIN old \ {p} : new.chunks[k] = old[k]
    BY <1>1, <1>2, <1>3, <1>8, <2>1, <2>2, PatchIs
  <2>4. Patched(n) = new.chunks[p] BY <2>2, <2>3 DEF Patched
  <2>5. Slots(new.chunks) = Slots(old) BY <2>3 DEF Slots
  <2>6. Mirrored(n, held) BY <1>4, <1>6, <1>8, <2>3, <2>4, <2>5 DEF Mirrored
  <2>7. Ready(n) BY <1>1, <1>3, <1>5, <1>8, <2>3 DEF Ready, Shaped
  <2>8. Matches(n.piece, Patched(n), held)
    BY <1>8, <2>1, <2>3, <2>4 DEF Fresher, Matches, AreBytes
  <2> QED BY <1>3, <1>4, <2>3, <2>4, <2>6, <2>7, <2>8 DEF Firm, Pending, Behind
<1>9. CASE o.step = "trim"
  <2>1. Mirrored(n, held) BY <1>4, <1>9 DEF Mirrored
  <2>2. Ready(n) BY <1>3, <1>5, <1>9 DEF Ready, Shaped, NewChunk
  <2> QED BY <1>3, <1>4, <1>9, <2>1, <2>2 DEF Firm, Pending, Behind
<1> QED BY <1>2, <1>7, <1>8, <1>9 DEF Aimed, Steps, NewChunk

LEMMA CommitKeeps ==
  ASSUME IInv, NEW h \in Handles, Commit(h)
  PROVE  IInv'
<1>1. PICK o, new : o = file[h] /\ new = Layout(o) OBVIOUS
<1>2. PICK n : n = [o EXCEPT !.size = new.size, !.chunks = new.chunks, !.mac = new,
                             !.pc = "discard",
                             !.doomed = Messaged(o.chunks) \ Messaged(new.chunks)]
  OBVIOUS
<1>3. /\ Typed(o) /\ o.pc = "ack" /\ ~o.failed /\ ~Fresh(o) /\ Aimed(o)
      /\ Firm(o, discord, sent)
  BY <1>1, Holding DEF Typed, Commit, Fresh
<1>4. /\ DOMAIN n = Fields /\ n.failed = o.failed /\ n.undo = o.undo /\ n.pc = "discard"
      /\ n.size = new.size /\ n.chunks = new.chunks /\ n.cache = o.cache
      /\ n.step = o.step /\ n.task = o.task /\ n.piece = o.piece /\ n.msg = o.msg
      /\ n.doomed = Messaged(o.chunks) \ Messaged(new.chunks)
      /\ n.buffer = o.buffer /\ n.data = o.data /\ n.at = o.at
  BY <1>2, <1>3 DEF Fields, Typed
<1>5. Typed(n) BY <1>3, <1>4 DEF Typed, Pcs, Aimed
<1>6. Set(h, n) /\ UNCHANGED <<doc, discord, sent, Undone, shared, lost>>
  BY <1>1, <1>2 DEF Commit, Undone
<1>7. Firm(n, discord, sent)
  <2>1. PICK held, m : held = discord /\ m = sent OBVIOUS
  <2>2. Firm(o, held, m) BY <1>3, <2>1
  <2>3. Firm(n, held, m) BY <1>1, <1>3, <1>4, <2>2, CommitFirm
  <2> QED BY <2>1, <2>3
<1>8. ASSUME Sound(o, doc, DOMAIN discord, sent, Undone, lost)
      PROVE  Sound(n, doc, DOMAIN discord, sent, Undone, lost')
  <2>1. /\ Live(doc) /\ doc.chunks = new.chunks
        /\ Whole(doc, DOMAIN discord, sent, Undone)
    BY <1>1, <1>3, <1>8 DEF Sound, Agrees
  <2>2. Names(doc) = Messaged(new.chunks) BY <2>1 DEF Names
  <2>3. Agrees(n, doc, DOMAIN discord, Undone, lost)
    <3>1. Trails(n.chunks, doc, DOMAIN discord, Undone, lost \cup Owes(n))
      BY <1>4, <2>1, <2>2 DEF Trails, Whole
    <3>2. n.doomed \cap Messaged(n.chunks) = {} /\ n.doomed \cap Names(doc) = {}
      BY <1>4, <2>2
    <3> QED BY <1>4, <3>1, <3>2 DEF Agrees
  <2>4. Owes(n) = Owes(o) BY <1>1, <1>3, <1>4 DEF Owes, Replaced
  <2> QED BY <1>6, <1>8, <2>3, <2>4 DEF Sound
<1> QED BY <1>1, <1>3, <1>5, <1>6, <1>7, <1>8, Quiet

LEMMA CommitFailsKeeps ==
  ASSUME IInv, NEW h \in Handles, CommitFails(h)
  PROVE  IInv'
<1>1. PICK o, new : o = file[h] /\ new = Layout(o) OBVIOUS
<1>2. PICK n : n = [o EXCEPT !.pc = "discard", !.undo = TRUE, !.doomed = {o.msg} \ {0}]
  OBVIOUS
<1>3. /\ Typed(o) /\ o.pc \in {"commit", "ack"} /\ ~o.failed /\ ~Fresh(o)
      /\ Firm(o, discord, sent) /\ 0 \notin Messaged(o.chunks)
  BY <1>1, Holding DEF Typed, CommitFails, Fresh
<1>4. /\ DOMAIN n = Fields /\ n.failed = o.failed /\ n.pc = "discard" /\ n.undo = TRUE
      /\ n.task = o.task /\ n.piece = o.piece /\ n.msg = o.msg /\ n.doomed = {o.msg} \ {0}
      /\ Alike(o, n)
  BY <1>2, <1>3 DEF Fields, Typed, Alike
<1>5. Typed(n) BY <1>3, <1>4 DEF Typed, Pcs, Aimed, Alike
<1>6. /\ Set(h, n) /\ UNCHANGED <<doc, discord, sent, shared>>
      /\ lost' = lost \cup Replaced(o)
      /\ Undone \subseteq Undone' /\ (o.pc = "ack" => {o.msg} \ {0} \subseteq Undone')
  BY <1>1, <1>2 DEF CommitFails, Undone
<1>7. Firm(n, discord, sent)
  <2>1. /\ Loaded(n) <=> Loaded(o)
        /\ Straddler(n) = Straddler(o) /\ Patched(n) = Patched(o) /\ (Bare(n) <=> Bare(o))
    BY <1>4, AlikeIs
  <2>2. Ready(n) BY <1>3, <1>4, <2>1 DEF Firm, Ready, Shaped, Alike
  <2>3. Mirrored(n, discord) BY <1>3, <1>4 DEF Firm, Mirrored, Alike, Behind
  <2>4. ~Bare(n) => Fresher(n, discord, sent)
    BY <1>3, <1>4, <2>1 DEF Firm, Fresher, Alike, Pending
  <2> QED BY <1>3, <1>4, <2>2, <2>3, <2>4 DEF Firm, Alike, Behind
<1>8. ASSUME Sound(o, doc, DOMAIN discord, sent, Undone, lost)
      PROVE  Sound(n, doc, DOMAIN discord, sent, Undone', lost')
  <2>1. Whole(doc, DOMAIN discord, sent, Undone') BY <1>6, <1>8 DEF Sound, Whole
  <2>2. Owes(n) = {o.msg} \ {0} /\ n.chunks = o.chunks BY <1>4 DEF Owes, Replaced, Alike
  <2>3. 0 \notin DOMAIN discord
    <3>1. DOMAIN discord \subseteq 1 .. sent BY <2>1 DEF Whole
    <3> QED BY <3>1
  <2>4. /\ Trails(n.chunks, doc, DOMAIN discord, Undone', lost' \cup Owes(n))
        /\ o.msg \notin Messaged(o.chunks)
        /\ n.doomed \cap Names(doc) \subseteq Undone'
        /\ DOMAIN discord \subseteq Names(doc) \cup lost' \cup Owes(n)
    <3>1. CASE o.pc = "commit"
      <4>1. Owes(o) = {o.msg} BY <3>1 DEF Owes, Replaced
      <4>2. /\ Trails(o.chunks, doc, DOMAIN discord, Undone, lost \cup Owes(o))
            /\ o.msg \notin Names(doc) \cup Messaged(o.chunks)
        BY <1>3, <1>8, <3>1 DEF Sound, Agrees, Working
      <4>3. Trails(n.chunks, doc, DOMAIN discord, Undone', lost' \cup Owes(n))
        BY <1>6, <2>2, <2>3, <4>1, <4>2 DEF Trails
      <4>4. DOMAIN discord \subseteq Names(doc) \cup lost' \cup Owes(n)
        BY <1>6, <1>8, <2>2, <2>3, <4>1 DEF Sound
      <4> QED BY <1>4, <4>2, <4>3, <4>4
    <3>2. CASE o.pc = "ack"
      <4>1. /\ Live(doc) /\ doc.chunks = new.chunks /\ o.msg \notin Messaged(o.chunks)
            /\ Messaged(o.chunks) \ Undone \subseteq DOMAIN discord
        BY <1>1, <1>8, <3>2 DEF Sound, Agrees
      <4>2. Messaged(new.chunks) \subseteq Messaged(o.chunks) \cup {o.msg}
        BY <1>1, <1>3, LayoutFits DEF Typed, Pending
      <4>3. Names(doc) = Messaged(new.chunks) BY <4>1 DEF Names
      <4>4. Owes(o) = Replaced(o) BY <3>2 DEF Owes
      <4>5. Trails(n.chunks, doc, DOMAIN discord, Undone', lost' \cup Owes(n))
        BY <1>6, <2>2, <2>3, <4>1, <4>2, <4>3 DEF Trails
      <4>6. DOMAIN discord \subseteq Names(doc) \cup lost' \cup Owes(n)
        BY <1>6, <1>8, <4>4 DEF Sound
      <4> QED BY <1>4, <1>6, <3>2, <4>1, <4>5, <4>6
    <3> QED BY <1>3, <3>1, <3>2
  <2>5. n.doomed \cap Messaged(n.chunks) = {} BY <1>4, <2>2, <2>4
  <2>6. Agrees(n, doc, DOMAIN discord, Undone', lost') BY <1>4, <2>4, <2>5 DEF Agrees
  <2> QED BY <2>1, <2>4, <2>6 DEF Sound
<1> QED BY <1>1, <1>3, <1>5, <1>6, <1>7, <1>8, Quiet

\* One attachment less to delete.
LEMMA FewerDoomed ==
  ASSUME NEW o, Typed(o), NEW m, NEW n, n = [o EXCEPT !.doomed = o.doomed \ {m}]
  PROVE  /\ Typed(n) /\ n.pc = o.pc /\ n.failed = o.failed /\ n.created = o.created
         /\ n.chunks = o.chunks /\ n.doomed = o.doomed \ {m}
         /\ \A held, k : Firm(o, held, k) => Firm(n, held, k)
<1>1. /\ DOMAIN n = Fields /\ n.failed = o.failed /\ n.pc = o.pc /\ n.undo = o.undo
      /\ n.task = o.task /\ n.created = o.created /\ n.piece = o.piece /\ n.msg = o.msg
      /\ n.latest = o.latest /\ n.doomed = o.doomed \ {m} /\ n.chunks = o.chunks
      /\ Alike(o, n)
  BY DEF Fields, Typed, Alike
<1>2. Typed(n) BY <1>1 DEF Typed, Aimed, Alike
<1>3. \A held, k : Firm(o, held, k) => Firm(n, held, k) BY <1>1, Regarded
<1> QED BY <1>1, <1>2, <1>3

LEMMA DeleteKeeps ==
  ASSUME IInv, NEW h \in Handles, NEW m, Delete(h, m)
  PROVE  IInv'
<1>1. PICK o : o = file[h] OBVIOUS
<1>2. PICK n : n = [o EXCEPT !.doomed = o.doomed \ {m}] OBVIOUS
<1>3. /\ Typed(o) /\ o.pc \in {"discard", "unwind"} /\ m \in o.doomed /\ ~Fresh(o)
      /\ Firm(o, discord, sent)
  BY <1>1, Holding DEF Delete, Awaiting, Fresh
<1>4. /\ Typed(n) /\ n.pc = o.pc /\ n.failed = o.failed /\ n.created = o.created
      /\ n.chunks = o.chunks /\ n.doomed = o.doomed \ {m}
      /\ \A held, k : Firm(o, held, k) => Firm(n, held, k)
  BY <1>2, <1>3, FewerDoomed
<1>5. /\ DOMAIN file' = Handles /\ \A g \in Handles \ {h} : file'[g] = file[g]
      /\ file'[h] = n
  BY <1>1, <1>2 DEF Delete, IInv, Types
<1>6. /\ UNCHANGED <<doc, sent, shared, lost>> /\ DOMAIN discord' = DOMAIN discord \ {m}
      /\ \A i \in DOMAIN discord \ {m} : discord'[i] = discord[i]
      /\ Undone \subseteq Undone' /\ (o.pc = "unwind" => m \in Undone')
  BY <1>1, <1>3 DEF Delete, Undone, Typed
<1>7. sent \in Nat /\ sent' \in Nat /\ DOMAIN doc' = {"state", "size", "chunks"}
  BY <1>6 DEF IInv, Types
<1>8. Since(discord', sent', discord, sent) BY <1>6, <1>7 DEF Since
<1>9. Fitted(doc'.size, doc'.chunks, discord', sent')
  <2>1. Fitted(doc.size, doc.chunks, discord, sent) BY DEF IInv, Layouts
  <2> QED BY <1>6, <1>7, <1>8, <2>1, StillFits
<1>10. Firm(file'[h], discord', sent')
  <2>1. PICK now, k : now = discord' /\ k = sent' OBVIOUS
  <2>2. Firm(o, now, k) BY <1>3, <1>7, <1>8, <2>1, StillFirm
  <2> QED BY <1>4, <1>5, <2>1, <2>2
<1>11. ASSUME ~shared'
       PROVE  /\ ~shared
              /\ \A g \in Handles \ {h} : Fresh(file[g])
              /\ Sound(file'[h], doc', DOMAIN discord', sent', Undone', lost')
  <2>1. /\ ~shared /\ \A g \in Handles \ {h} : Fresh(file[g])
        /\ Sound(o, doc, DOMAIN discord, sent, Undone, lost)
    BY <1>1, <1>3, <1>6, <1>11, InUse
  <2>2. /\ Whole(doc, DOMAIN discord, sent, Undone)
        /\ Agrees(o, doc, DOMAIN discord, Undone, lost)
    BY <2>1 DEF Sound
  <2>3. m \notin Names(doc) \/ m \in Undone' BY <1>3, <1>6, <2>2 DEF Agrees
  <2>4. Whole(doc', DOMAIN discord', sent', Undone') BY <1>6, <2>2, <2>3 DEF Whole
  <2>5. Agrees(n, doc', DOMAIN discord', Undone', lost')
    <3>1. CASE o.pc = "unwind"
      <4>1. ~Working(n) BY <1>4, <3>1 DEF Working
      <4> QED BY <1>4, <1>6, <2>2, <3>1, <4>1 DEF Agrees
    <3>2. CASE o.pc = "discard"
      <4>1. /\ Working(o) /\ o.doomed \cap Messaged(o.chunks) = {}
            /\ o.doomed \cap Names(doc) \subseteq Undone
            /\ Trails(o.chunks, doc, DOMAIN discord, Undone, lost \cup Owes(o))
        BY <1>3, <2>2, <3>2 DEF Agrees, Working, Typed
      <4>2. Owes(o) = o.doomed /\ Owes(n) = o.doomed \ {m}
        BY <1>4, <3>2 DEF Owes, Replaced
      <4>3. Trails(n.chunks, doc', DOMAIN discord', Undone', lost' \cup Owes(n))
        BY <1>3, <1>4, <1>6, <4>1, <4>2 DEF Trails
      <4>4. /\ n.doomed \cap Messaged(n.chunks) = {}
            /\ n.doomed \cap Names(doc) \subseteq Undone'
        BY <1>4, <1>6, <4>1
      <4> QED BY <1>4, <1>6, <3>2, <4>3, <4>4 DEF Agrees
    <3> QED BY <1>3, <3>1, <3>2
  <2>6. Owes(o) = o.doomed /\ Owes(n) = o.doomed \ {m} BY <1>3, <1>4 DEF Owes, Replaced
  <2>7. DOMAIN discord' \subseteq Names(doc') \cup lost' \cup Owes(n)
    BY <1>6, <2>1, <2>6 DEF Sound
  <2> QED BY <1>5, <2>1, <2>4, <2>5, <2>7 DEF Sound
<1> QED BY <1>4, <1>5, <1>7, <1>8, <1>9, <1>10, <1>11, OneHandle

LEMMA DeleteFailsKeeps ==
  ASSUME IInv, NEW h \in Handles, NEW m, DeleteFails(h, m)
  PROVE  IInv'
<1>1. PICK o : o = file[h] OBVIOUS
<1>2. PICK n : n = [o EXCEPT !.doomed = o.doomed \ {m}] OBVIOUS
<1>3. /\ Typed(o) /\ o.pc \in {"discard", "unwind"} /\ ~Fresh(o) /\ Firm(o, discord, sent)
  BY <1>1, Holding DEF DeleteFails, Awaiting, Fresh
<1>4. /\ Typed(n) /\ n.pc = o.pc /\ n.failed = o.failed /\ n.created = o.created
      /\ n.chunks = o.chunks /\ n.doomed = o.doomed \ {m}
      /\ \A held, k : Firm(o, held, k) => Firm(n, held, k)
  BY <1>2, <1>3, FewerDoomed
<1>5. /\ Set(h, n) /\ UNCHANGED <<doc, discord, sent, Undone, shared>>
      /\ lost' = lost \cup {m}
  BY <1>1, <1>2 DEF DeleteFails, Undone
<1>6. ASSUME Sound(o, doc, DOMAIN discord, sent, Undone, lost)
      PROVE  Sound(n, doc, DOMAIN discord, sent, Undone, lost')
  <2>1. Owes(o) = o.doomed /\ Owes(n) = o.doomed \ {m} BY <1>3, <1>4 DEF Owes, Replaced
  <2>2. Agrees(n, doc, DOMAIN discord, Undone, lost')
    BY <1>3, <1>4, <1>5, <1>6, <2>1 DEF Sound, Agrees, Working, Trails
  <2> QED BY <1>5, <1>6, <2>1, <2>2 DEF Sound
<1> QED BY <1>1, <1>3, <1>4, <1>5, <1>6, Quiet

LEMMA ProceedKeeps ==
  ASSUME IInv, NEW h \in Handles, Proceed(h)
  PROVE  IInv'
<1>1. PICK o : o = file[h] OBVIOUS
<1>2. /\ DOMAIN o = Fields /\ o.pc = "discard" /\ o.doomed = {} /\ ~o.failed /\ Working(o)
      /\ Aimed(o) /\ Firm(o, discord, sent) /\ Laid(o.chunks) /\ Loaded(o) /\ Shaped(o)
  BY <1>1, Holding DEF Typed, Proceed, Working, Ready
<1>3. UNCHANGED <<doc, discord, sent, Undone, shared, lost>>
  BY DEF Proceed, Call, Undone
<1>4. Owes(o) = {} BY <1>2 DEF Owes, Replaced
<1>5. CASE ~o.undo
  <2>1. Set(h, Continue(o)) BY <1>1, <1>5 DEF Proceed, Call
  <2>2. PICK r : r = Recached(o) OBVIOUS
  <2>3. Goes(Continue(o), r) /\ Ready(Continue(o))
    BY <1>2, <1>5, <2>2, ContinueGoes, ContinueReady
  <2>4. Behind(o) BY <1>2, <1>5 DEF Behind
  <2>5. Steady(r, discord, sent) BY <1>2, <2>2, <2>4, RecachedSteady
  <2>6. r.chunks = o.chunks BY <1>2, <2>2 DEF Recached, Fields
  <2> QED BY <1>1, <1>2, <1>3, <1>4, <2>1, <2>3, <2>5, <2>6, QuietGoes
<1>6. CASE o.undo /\ o.step \in NewChunk
  <2>1. Set(h, Rollback(o)) BY <1>1, <1>6 DEF Proceed, Call
  <2>2. ~Behind(o) BY <1>6 DEF Behind
  <2> QED BY <1>1, <1>2, <1>3, <1>4, <2>1, <2>2, QuietRollback
<1>7. CASE o.undo /\ o.step \notin NewChunk
  <2>1. Set(h, Raised(o)) BY <1>1, <1>7 DEF Proceed, Call
  <2>2. Goes(Raised(o), o) /\ Ready(Raised(o)) BY <1>2, RaisedGoes, RaisedReady
  <2>3. Steady(o, discord, sent) BY <1>2, <1>7, FirmSteady DEF Behind
  <2> QED BY <1>1, <1>2, <1>3, <1>4, <2>1, <2>2, <2>3, QuietGoes
<1> QED BY <1>5, <1>6, <1>7

LEMMA SwapKeeps ==
  ASSUME IInv, NEW h \in Handles, Swap(h)
  PROVE  IInv'
<1>1. PICK o : o = file[h] OBVIOUS
<1>2. Typed(o) /\ o.pc = "swap" /\ ~o.failed /\ ~Fresh(o) /\ Working(o)
  BY <1>1 DEF IInv, Types, Typed, Swap, Fresh, Working
<1>3. /\ DOMAIN file' = Handles /\ \A g \in Handles \ {h} : file'[g] = file[g]
      /\ Typed(file'[h])
      /\ \A held, m : Firm(Closed, held, m) => Firm(file'[h], held, m)
      /\ ~shared => file'[h] = Closed
  <2>1. Set(h, Closed) BY DEF Swap
  <2> QED BY <2>1, ClosedIs, Placed DEF IInv
<1>4. /\ UNCHANGED <<discord, sent, Undone, shared, lost>>
      /\ doc' = [doc EXCEPT !.state = "here"]
  BY DEF Swap, Undone
<1>5. DOMAIN doc = {"state", "size", "chunks"} BY DEF IInv, Types
<1>6. /\ DOMAIN doc' = {"state", "size", "chunks"} /\ doc'.chunks = doc.chunks
      /\ doc'.size = doc.size /\ Live(doc')
  BY <1>4, <1>5 DEF Live
<1>7. sent' \in Nat /\ Fitted(doc'.size, doc'.chunks, discord', sent')
  BY <1>4, <1>6 DEF IInv, Types, Layouts
<1>8. Firm(file'[h], discord', sent') BY <1>3, ClosedFirm
<1>9. ASSUME ~shared'
      PROVE  /\ ~shared
             /\ \A g \in Handles \ {h} : Fresh(file[g])
             /\ Sound(file'[h], doc', DOMAIN discord', sent', Undone', lost')
  <2>1. /\ ~shared /\ \A g \in Handles \ {h} : Fresh(file[g])
        /\ Sound(o, doc, DOMAIN discord, sent, Undone, lost)
    BY <1>1, <1>2, <1>4, <1>9, InUse
  <2>2. Whole(doc, DOMAIN discord, sent, Undone) /\ Live(doc)
    BY <1>2, <2>1, WorkingSound DEF Sound, Trails
  <2>3. Names(doc') = Names(doc) BY <1>6, <2>2 DEF Names
  <2>4. Whole(doc', DOMAIN discord', sent', Undone') BY <1>4, <2>2, <2>3 DEF Whole
  <2>5. Agrees(Closed, doc', DOMAIN discord', Undone', lost') BY ClosedIs, FreshSound DEF Fresh
  <2>6. Owes(o) = {} BY <1>2, IdleOwes
  <2> QED BY <1>3, <1>4, <2>1, <2>3, <2>4, <2>5, <2>6 DEF Sound
<1> QED BY <1>3, <1>4, <1>6, <1>7, <1>8, <1>9, NoChange, OneHandle

LEMMA SwapFailsKeeps ==
  ASSUME IInv, NEW h \in Handles, SwapFails(h)
  PROVE  IInv'
<1>1. PICK o : o = file[h] OBVIOUS
<1>2. /\ DOMAIN o = Fields /\ o.pc = "swap" /\ Working(o) /\ Loaded(o)
      /\ Owes(o) = {} /\ ~Behind(o)
  BY <1>1, Holding, IdleOwes DEF Typed, SwapFails, Working
<1>3. Set(h, Rollback(o)) /\ UNCHANGED <<doc, discord, sent, Undone, shared, lost>>
  BY <1>1 DEF SwapFails, Undone
<1> QED BY <1>1, <1>2, <1>3, QuietRollback

-----------------------------------------------------------------------------
(* Unwinding.                                                              *)

\* A handle that has failed and stops.
LEMMA StopsFailed ==
  ASSUME NEW o, DOMAIN o = Fields, o.failed
  PROVE  /\ Typed(Rest(o)) /\ Owes(Rest(o)) = {}
         /\ \A d, there, deleted, gone : Agrees(Rest(o), d, there, deleted, gone)
         /\ \A held, m :
              Loaded(o) /\ Fitted(o.size, o.chunks, held, m)
                /\ (\A k \in DOMAIN o.chunks : Mirrors(o.cache, o.chunks[k], held))
                  => Firm(Rest(o), held, m)
<1>1. PICK n : n = Rest(o) OBVIOUS
<1>2. /\ DOMAIN n = Fields /\ n.chunks = o.chunks /\ n.size = o.size /\ n.cache = o.cache
      /\ n.pc = "idle" /\ n.failed /\ n.undo = FALSE
  BY <1>1 DEF Rest, Fields
<1>3. Typed(n) BY <1>2 DEF Typed, Pcs
<1>4. \A d, there, deleted, gone : Agrees(n, d, there, deleted, gone)
  BY <1>2 DEF Agrees, Working
<1>5. Owes(n) = {} BY <1>2, IdleOwes
<1>6. Loaded(o) => Ready(n) BY <1>1, RestReady
<1>7. ASSUME NEW held, NEW m, Loaded(o), Fitted(o.size, o.chunks, held, m),
             \A k \in DOMAIN o.chunks : Mirrors(o.cache, o.chunks[k], held)
      PROVE  Firm(n, held, m)
  <2>1. Mirrored(n, held) BY <1>2, <1>7 DEF Mirrored
  <2> QED BY <1>2, <1>6, <1>7, <2>1 DEF Firm, Behind, Pending
<1> QED BY <1>1, <1>3, <1>4, <1>5, <1>7

LEMMA UnwoundKeeps ==
  ASSUME IInv, NEW h \in Handles, Unwound(h)
  PROVE  IInv'
<1>1. PICK was, o : was = file[h] /\ o = [was EXCEPT !.chunks = <<>>, !.size = 0] OBVIOUS
<1>2. /\ Typed(was) /\ was.pc = "unwind" /\ was.doomed = {} /\ was.failed /\ ~Fresh(was)
      /\ Loaded(was)
  BY <1>1, Holding DEF Typed, Unwound, Fresh
<1>3. /\ DOMAIN o = Fields /\ o.chunks = <<>> /\ o.failed
      /\ o.buffer = was.buffer /\ o.data = was.data /\ o.at = was.at /\ o.size = 0
  BY <1>1, <1>2 DEF Typed, Fields
<1>4. PICK n : n = [o EXCEPT !.pc = "drop"] OBVIOUS
<1>5. /\ DOMAIN n = Fields /\ n.chunks = <<>> /\ n.failed /\ n.pc = "drop"
      /\ n.buffer = was.buffer /\ n.data = was.data /\ n.at = was.at /\ n.size = 0
  BY <1>3, <1>4 DEF Fields
<1>6. Typed(n) BY <1>5 DEF Typed, Pcs
<1>7. Loaded(o) /\ Loaded(n) BY <1>2, <1>3, <1>5 DEF Loaded
<1>8. Fitted(0, <<>>, discord, sent) /\ DOMAIN <<>> = {} BY EmptyFits
<1>9. Firm(n, discord, sent)
  <2>1. Ready(n) BY <1>5, <1>7 DEF Ready
  <2>2. Mirrored(n, discord) BY <1>5, <1>8 DEF Mirrored
  <2> QED BY <1>5, <1>8, <2>1, <2>2 DEF Firm, Behind, Pending
<1>10. /\ Typed(Rest(o)) /\ Owes(Rest(o)) = {} /\ Firm(Rest(o), discord, sent)
       /\ \A d, there, deleted, gone : Agrees(Rest(o), d, there, deleted, gone)
  <2>1. \A k \in DOMAIN o.chunks : Mirrors(o.cache, o.chunks[k], discord) BY <1>3, <1>8
  <2>2. Fitted(o.size, o.chunks, discord, sent) BY <1>3, <1>8
  <2> QED BY <1>3, <1>7, <2>1, <2>2, StopsFailed
<1>11. /\ Set(h, n) \/ Set(h, Rest(o))
       /\ UNCHANGED <<doc, discord, sent, Undone, shared, lost>>
  BY <1>1, <1>4 DEF Unwound, Call, Undone
<1>12. ASSUME Sound(was, doc, DOMAIN discord, sent, Undone, lost)
       PROVE  /\ Sound(n, doc, DOMAIN discord, sent, Undone, lost')
              /\ Sound(Rest(o), doc, DOMAIN discord, sent, Undone, lost')
  <2>1. Owes(was) = {} BY <1>2 DEF Owes, Replaced
  <2>2. Names(doc) \cap DOMAIN discord \subseteq lost BY <1>2, <1>12 DEF Sound, Agrees
  <2>3. Agrees(n, doc, DOMAIN discord, Undone, lost) BY <1>5, <2>2 DEF Agrees, Working
  <2> QED BY <1>10, <1>11, <1>12, <2>1, <2>3 DEF Sound
<1> QED BY <1>1, <1>2, <1>6, <1>9, <1>10, <1>11, <1>12, Quiet

\* The row is gone, or stays: the handle stops.
LEMMA DropStops ==
  ASSUME IInv, NEW h \in Handles, file[h].pc = "drop", NEW o, o = file[h]
  PROVE  /\ o.failed /\ ~Fresh(o) /\ Owes(o) = {}
         /\ Typed(Rest(o)) /\ Owes(Rest(o)) = {} /\ Firm(Rest(o), discord, sent)
         /\ \A d, there, deleted, gone : Agrees(Rest(o), d, there, deleted, gone)
<1>1. Typed(o) /\ Firm(o, discord, sent) /\ Loaded(o) BY Holding
<1>2. DOMAIN o = Fields /\ o.failed /\ ~Fresh(o) BY <1>1 DEF Typed, Fresh
<1>3. /\ Fitted(o.size, o.chunks, discord, sent)
      /\ \A k \in DOMAIN o.chunks : Mirrors(o.cache, o.chunks[k], discord)
  BY <1>1 DEF Firm, Mirrored, Behind
<1>4. Owes(o) = {} BY DEF Owes, Replaced
<1> QED BY <1>1, <1>2, <1>3, <1>4, StopsFailed

LEMMA DropRowKeeps ==
  ASSUME IInv, NEW h \in Handles, DropRow(h)
  PROVE  IInv'
<1>1. PICK o : o = file[h] OBVIOUS
<1>2. o.pc = "drop" BY <1>1 DEF DropRow
<1>3. /\ o.failed /\ ~Fresh(o) /\ Owes(o) = {}
      /\ Typed(Rest(o)) /\ Owes(Rest(o)) = {} /\ Firm(Rest(o), discord, sent)
      /\ \A d, there, deleted, gone : Agrees(Rest(o), d, there, deleted, gone)
  BY <1>1, <1>2, DropStops
<1>4. /\ DOMAIN file' = Handles /\ \A g \in Handles \ {h} : file'[g] = file[g]
      /\ Typed(file'[h]) /\ Firm(file'[h], discord, sent)
      /\ ~shared => file'[h] = Rest(o)
  <2>1. Set(h, Rest(o)) BY <1>1 DEF DropRow
  <2> QED BY <1>3, <2>1, Placed DEF IInv
<1>5. /\ UNCHANGED <<discord, sent, Undone, shared, lost>>
      /\ DOMAIN doc' = {"state", "size", "chunks"} /\ doc'.chunks = <<>> /\ doc'.size = 0
      /\ ~Live(doc')
  BY DEF DropRow, Live, Undone
<1>6. /\ sent' \in Nat /\ Fitted(doc'.size, doc'.chunks, discord', sent')
      /\ Firm(file'[h], discord', sent')
  <2>1. Fitted(0, <<>>, discord, sent) BY EmptyFits
  <2>2. sent' \in Nat BY <1>5 DEF IInv, Types
  <2> QED BY <1>4, <1>5, <2>1, <2>2
<1>7. ASSUME ~shared'
      PROVE  /\ ~shared
             /\ \A g \in Handles \ {h} : Fresh(file[g])
             /\ Sound(file'[h], doc', DOMAIN discord', sent', Undone', lost')
  <2>1. /\ ~shared /\ \A g \in Handles \ {h} : Fresh(file[g])
        /\ Sound(o, doc, DOMAIN discord, sent, Undone, lost)
    BY <1>1, <1>3, <1>5, <1>7, InUse
  <2>2. Names(doc') = {} BY <1>5 DEF Names
  <2>3. Whole(doc', DOMAIN discord', sent', Undone')
    BY <1>5, <2>1, <2>2 DEF Sound, Whole
  <2>4. DOMAIN discord \subseteq lost BY <1>2, <1>3, <2>1 DEF Sound, Agrees
  <2> QED BY <1>3, <1>4, <1>5, <2>1, <2>3, <2>4 DEF Sound
<1> QED BY <1>4, <1>5, <1>6, <1>7, NoChange, OneHandle

LEMMA DropRowFailsKeeps ==
  ASSUME IInv, NEW h \in Handles, DropRowFails(h)
  PROVE  IInv'
<1>1. PICK o : o = file[h] OBVIOUS
<1>2. o.pc = "drop" BY <1>1 DEF DropRowFails
<1>3. /\ o.failed /\ ~Fresh(o) /\ Owes(o) = {}
      /\ Typed(Rest(o)) /\ Owes(Rest(o)) = {} /\ Firm(Rest(o), discord, sent)
      /\ \A d, there, deleted, gone : Agrees(Rest(o), d, there, deleted, gone)
  BY <1>1, <1>2, DropStops
<1>4. Set(h, Rest(o)) /\ UNCHANGED <<doc, discord, sent, Undone, shared, lost>>
  BY <1>1 DEF DropRowFails, Undone
<1>5. ASSUME Sound(o, doc, DOMAIN discord, sent, Undone, lost)
      PROVE  Sound(Rest(o), doc, DOMAIN discord, sent, Undone, lost')
  BY <1>3, <1>4, <1>5 DEF Sound
<1> QED BY <1>1, <1>3, <1>4, <1>5, Quiet

-----------------------------------------------------------------------------
(* Crashes, and the specification.                                         *)

\* What a handle owes is what is forgotten with it.
LEMMA LeavesBehind ==
  ASSUME NEW o
  PROVE  Owes(o) \ {0} \subseteq Forgotten(o)
<1>1. Owes(o) \subseteq o.doomed \cup Replaced(o) \cup (IF o.pc = "commit" THEN {o.msg} ELSE {})
  BY DEF Owes
<1>2. o.doomed \cup Replaced(o) \subseteq Forgotten(o) BY DEF Forgotten
<1>3. ASSUME o.pc = "commit" PROVE {o.msg} \ {0} \subseteq Forgotten(o)
  BY <1>3 DEF Forgotten
<1> QED BY <1>1, <1>2, <1>3

LEMMA CancelCloseKeeps ==
  ASSUME IInv, NEW h \in Handles, CancelClose(h)
  PROVE  IInv'
<1>1. PICK o : o = file[h] OBVIOUS
<1>2. Typed(o) /\ ~Fresh(o) BY <1>1, Holding DEF CancelClose, Fresh
<1>3. /\ Set(h, Closed) /\ UNCHANGED <<doc, discord, sent, Undone, shared>>
      /\ lost' = lost \cup Forgotten(o)
  BY <1>1 DEF CancelClose, Undone
<1>4. ASSUME Sound(o, doc, DOMAIN discord, sent, Undone, lost)
      PROVE  Sound(Closed, doc, DOMAIN discord, sent, Undone', lost')
  <2>1. Whole(doc, DOMAIN discord, sent, Undone') BY <1>3, <1>4 DEF Sound
  <2>2. Agrees(Closed, doc, DOMAIN discord, Undone', lost') /\ Owes(Closed) = {}
    BY ClosedIs, FreshSound DEF Fresh
  <2>3. 0 \notin DOMAIN discord
    <3>1. DOMAIN discord \subseteq 1 .. sent BY <2>1 DEF Whole
    <3> QED BY <3>1
  <2>4. DOMAIN discord \subseteq Names(doc) \cup lost' BY <1>3, <1>4, <2>3, LeavesBehind DEF Sound
  <2> QED BY <2>1, <2>2, <2>4 DEF Sound
<1> QED BY <1>1, <1>2, <1>3, <1>4, ClosedIs, ClosedFirm, Quiet

\* The chunk a cancelled write was committing is taken into the handle's list.
LEMMA TakenUp ==
  ASSUME NEW o, Typed(o), Pending(o), o.step \in NewChunk, ~o.failed,
         NEW held, NEW m, Firm(o, held, m),
         NEW new, new = Layout(o),
         NEW n, DOMAIN n = Fields, n.size = new.size, n.chunks = new.chunks, n.cache = o.cache
  PROVE  /\ Steady(n, held, m) /\ Messaged(new.chunks) = Messaged(o.chunks) \cup {o.msg}
         /\ new.size \in Nat
<1>1. PICK old : old = o.chunks OBVIOUS
<1>2. DOMAIN o = Fields /\ Aimed(o) /\ ~Behind(o) /\ ~Bare(o)
  BY DEF Typed, Pending, Behind, Bare, NewChunk
<1>3. Shaped(o) /\ Fitted(o.size, o.chunks, held, m) /\ Fresher(o, held, m)
  BY <1>2, LayoutFits
<1>4. /\ Fitted(new.size, new.chunks, held, m)
      /\ Messaged(new.chunks) = Messaged(old) \cup {o.msg}
      /\ Slots(old) \subseteq Slots(new.chunks)
      /\ \A k \in DOMAIN new.chunks :
           \/ k \in DOMAIN old /\ new.chunks[k] = old[k]
           \/ new.chunks[k].index \notin Slots(old)
  BY <1>1, <1>2, <1>3, NewChunkIs
<1>5. Steady(o, held, m) BY <1>2, FirmSteady
<1>6. /\ DOMAIN o.cache \subseteq Slots(old)
      /\ \A k \in DOMAIN old : Mirrors(o.cache, old[k], held)
  BY <1>1, <1>5 DEF Steady
<1>7. \A k \in DOMAIN new.chunks : Mirrors(o.cache, new.chunks[k], held)
  BY <1>4, <1>6 DEF Mirrors
<1> QED BY <1>1, <1>4, <1>6, <1>7 DEF Steady, Fitted

LEMMA CancelWriteKeeps ==
  ASSUME IInv, NEW h \in Handles, CancelWrite(h)
  PROVE  IInv'
<1>1. PICK was : was = file[h] OBVIOUS
<1>2. PICK o, new : o = [was EXCEPT !.buffer = <<>>, !.task = "abort"] /\ new = Layout(o)
  OBVIOUS
<1>3. /\ Typed(was) /\ ~was.failed /\ was.created /\ was.step = "append" /\ ~Fresh(was)
      /\ was.pc \in {"upload", "commit", "ack", "discard"}
      /\ Firm(was, discord, sent) /\ Loaded(was) /\ 0 \notin Messaged(was.chunks)
  BY <1>1, Holding DEF CancelWrite, Fresh
<1>4. /\ DOMAIN o = Fields /\ o.chunks = was.chunks /\ o.size = was.size
      /\ o.cache = was.cache /\ o.buffer = <<>> /\ o.data = was.data /\ o.at = was.at
      /\ ~o.failed /\ o.created /\ o.step = was.step /\ o.piece = was.piece
      /\ o.msg = was.msg
  BY <1>2, <1>3 DEF Typed, Fields
<1>5. Loaded(o)
  <2>1. <<>> \in Seq(Bytes) OBVIOUS
  <2> QED BY <1>3, <1>4, <2>1 DEF Loaded
<1>6. UNCHANGED <<doc, discord, sent, Undone, shared>> /\ MayFail
  BY DEF CancelWrite, Undone
<1>7. ASSUME was.pc \in {"upload", "commit"}, Set(h, Rollback(o)),
             lost' = lost \cup Forgotten(was)
      PROVE  IInv'
  <2>1. Steady(was, discord, sent) BY <1>3, <1>7, FirmSteady DEF Behind
  <2>2. Steady(o, discord, sent) BY <1>4, <2>1 DEF Steady
  <2>3. Typed(Rollback(o)) /\ Firm(Rollback(o), discord, sent)
    BY <1>4, <1>5, <2>2, RollbackOn
  <2>4. ASSUME Sound(was, doc, DOMAIN discord, sent, Undone, lost)
        PROVE  Sound(Rollback(o), doc, DOMAIN discord, sent, Undone', lost')
    <3>1. 0 \notin DOMAIN discord
      <4>1. DOMAIN discord \subseteq 1 .. sent BY <2>4 DEF Sound, Whole
      <4> QED BY <4>1
    <3>2. Trails(was.chunks, doc, DOMAIN discord, Undone, lost \cup Owes(was))
      BY <1>3, <1>7, <2>4, WorkingSound DEF Working
    <3>3. Owes(was) \ {0} \subseteq lost' BY <1>7, LeavesBehind
    <3>4. Names(doc) \cap DOMAIN discord \subseteq Messaged(o.chunks) \cup lost'
      BY <1>4, <1>7, <3>1, <3>2, <3>3 DEF Trails
    <3>5. Agrees(Rollback(o), doc, DOMAIN discord, Undone', lost') BY <1>4, <3>4, RollbackOn
    <3>6. DOMAIN discord \subseteq Names(doc) \cup lost' BY <1>7, <2>4, <3>1, <3>3 DEF Sound
    <3> QED BY <1>6, <2>4, <3>5, <3>6 DEF Sound
  <2> QED BY <1>1, <1>3, <1>6, <1>7, <2>3, <2>4, Quiet
<1>8. ASSUME was.pc \in {"commit", "ack", "discard"}, was.pc = "discard" => was.undo,
             Set(h, Rollback([o EXCEPT !.size = new.size, !.chunks = new.chunks])),
             UNCHANGED lost
      PROVE  IInv'
  <2>1. PICK n : n = [o EXCEPT !.size = new.size, !.chunks = new.chunks] OBVIOUS
  <2>2. /\ DOMAIN n = Fields /\ n.chunks = new.chunks /\ n.size = new.size
        /\ n.cache = was.cache /\ n.buffer = o.buffer /\ n.data = o.data /\ n.at = o.at
        /\ ~n.failed /\ n.created
    BY <1>4, <2>1 DEF Fields
  <2>3. Pending(was) /\ was.step \in NewChunk BY <1>3, <1>8 DEF Pending, NewChunk
  <2>4. new = Layout(was)
    <3>1. Layout(o) = WithNewChunk(o) /\ Layout(was) = WithNewChunk(was)
      BY <1>4, <2>3 DEF Layout, NewChunk
    <3>2. WithNewChunk(o) = WithNewChunk(was) BY <1>4 DEF WithNewChunk
    <3> QED BY <1>2, <3>1, <3>2
  <2>5. /\ Steady(n, discord, sent) /\ new.size \in Nat
        /\ Messaged(new.chunks) = Messaged(was.chunks) \cup {was.msg}
    <3>1. PICK held, m : held = discord /\ m = sent OBVIOUS
    <3>2. Firm(was, held, m) BY <1>3, <3>1
    <3>3. /\ Steady(n, held, m) /\ new.size \in Nat
          /\ Messaged(new.chunks) = Messaged(was.chunks) \cup {was.msg}
      BY <1>3, <2>2, <2>3, <2>4, <3>2, TakenUp
    <3> QED BY <3>1, <3>3
  <2>6. Loaded(n) BY <1>5, <2>2, <2>5 DEF Loaded
  <2>7. PICK r : r = Rollback(n) OBVIOUS
  <2>8. Typed(r) /\ Firm(r, discord, sent) BY <2>2, <2>5, <2>6, <2>7, RollbackOn
  <2>9. /\ r.pc = "unwind" /\ r.doomed = Messaged(new.chunks)
    BY <2>2, <2>7 DEF Rollback, RollbackAll, Messaged, Fields
  <2>10. ASSUME Sound(was, doc, DOMAIN discord, sent, Undone, lost)
         PROVE  Sound(r, doc, DOMAIN discord, sent, Undone', lost')
    <3>1. Owes(was) \subseteq Messaged(new.chunks)
      BY <1>3, <1>8, <2>4, <2>5 DEF Owes, Replaced, Typed
    <3>2. Names(doc) \cap DOMAIN discord \subseteq Messaged(new.chunks) \cup lost
      <4>1. CASE was.pc = "ack" BY <2>4, <2>10, <4>1 DEF Sound, Agrees, Names
      <4>2. CASE was.pc # "ack"
        <5>1. Trails(was.chunks, doc, DOMAIN discord, Undone, lost \cup Owes(was))
          BY <1>3, <1>8, <2>10, <4>2, WorkingSound DEF Working
        <5> QED BY <2>5, <3>1, <5>1 DEF Trails
      <4> QED BY <4>1, <4>2
    <3>3. Agrees(r, doc, DOMAIN discord, Undone', lost')
      BY <1>8, <2>2, <2>7, <3>2, RollbackOn
    <3>4. Owes(r) = Messaged(new.chunks) BY <2>9 DEF Owes, Replaced
    <3>5. DOMAIN discord \subseteq Names(doc) \cup lost' \cup Owes(r)
      BY <1>8, <2>10, <3>1, <3>4 DEF Sound
    <3> QED BY <1>6, <2>10, <3>3, <3>5 DEF Sound
  <2>11. Set(h, r) BY <1>8, <2>1, <2>7
  <2> QED BY <1>1, <1>3, <1>6, <2>8, <2>10, <2>11, Quiet
<1>9. \/ /\ was.pc \in {"upload", "commit"} /\ Set(h, Rollback(o))
         /\ lost' = lost \cup Forgotten(o)
      \/ /\ was.pc \in {"commit", "ack", "discard"} /\ (was.pc = "discard" => was.undo)
         /\ Set(h, Rollback([o EXCEPT !.size = new.size, !.chunks = new.chunks]))
         /\ UNCHANGED lost
  BY <1>1, <1>2, <1>4 DEF CancelWrite
<1>10. was.pc \in {"upload", "commit"} => Forgotten(o) = Forgotten(was)
  <2>1. o.pc = was.pc /\ o.doomed = was.doomed BY <1>2, <1>3 DEF Typed, Fields
  <2> QED BY <1>4, <2>1 DEF Forgotten, Replaced
<1> QED BY <1>7, <1>8, <1>9, <1>10

LEMMA CrashKeeps ==
  ASSUME IInv, Crash
  PROVE  IInv'
<1>1. /\ DOMAIN file' = Handles /\ \A h \in Handles : file'[h] = Closed
      /\ UNCHANGED <<doc, discord, sent, Undone, shared>>
      /\ lost' = lost \cup UNION {Forgotten(file[h]) : h \in Handles}
  BY DEF Crash, Undone
<1>2. Types' BY <1>1, ClosedIs DEF IInv, Types
<1>3. Fresh(Closed) BY ClosedIs DEF Fresh
<1>4. Layouts'
  <2>1. \A h \in Handles : Firm(file'[h], discord', sent') BY <1>1, ClosedFirm
  <2>2. Fitted(doc'.size, doc'.chunks, discord', sent') BY <1>1 DEF IInv, Layouts
  <2> QED BY <2>1, <2>2 DEF Layouts
<1>5. ASSUME ~shared PROVE Alone'
  <2>1. \A h \in Handles : /\ Fresh(file'[h])
                           /\ Agrees(file'[h], doc', DOMAIN discord', Undone', lost')
    BY <1>1, <1>3, FreshSound
  <2>2. Whole(doc, DOMAIN discord, sent, Undone)
        /\ DOMAIN discord \subseteq Names(doc) \cup lost \cup UNION {Owes(file[h]) : h \in Handles}
    BY <1>5 DEF IInv, Alone
  <2>3. 0 \notin DOMAIN discord
    <3>1. DOMAIN discord \subseteq 1 .. sent BY <2>2 DEF Whole
    <3> QED BY <3>1
  <2>4. \A h \in Handles : Owes(file[h]) \ {0} \subseteq Forgotten(file[h]) BY LeavesBehind
  <2>5. DOMAIN discord \subseteq Names(doc) \cup lost' BY <1>1, <2>2, <2>3, <2>4
  <2> QED BY <1>1, <2>1, <2>2, <2>5 DEF Alone
<1> QED BY <1>1, <1>2, <1>4, <1>5 DEF IInv

\* A file of one chunk, perhaps with a hole after it.
LEMMA OneChunk ==
  ASSUME NEW size \in {SharedSize, MaxSize} \ {0}, NEW v \in Values,
         doc = [state |-> "here", size |-> size,
                chunks |-> <<Chunk(1, 0, 0, Min2(ChunkMax, size))>>],
         discord = [m \in {1} |-> [k \in 1 .. Min2(ChunkMax, size) |-> v]],
         sent = 1
  PROVE  /\ DOMAIN doc = {"state", "size", "chunks"} /\ sent \in Nat
         /\ Fitted(doc.size, doc.chunks, discord, sent)
         /\ Whole(doc, DOMAIN discord, sent, {})
         /\ DOMAIN discord \subseteq Names(doc)
<1>1. PICK full : full = Min2(ChunkMax, size) OBVIOUS
<1>2. size \in Nat \ {0} BY BytesAssumption, SharedAssumption
<1>3. full \in Nat \ {0} /\ full <= size BY <1>1, <1>2, BytesAssumption DEF Min2
<1>4. PICK c : c = Chunk(1, 0, 0, full) OBVIOUS
<1>5. /\ IsChunk(c) /\ c.msg = 1 /\ c.offset = 0 /\ c.index = 0 /\ c.size = full
  BY <1>4 DEF Chunk, IsChunk
<1>6. PICK one : one = Append(<<>>, c) OBVIOUS
<1>7. Listed(one) /\ Messaged(one) = {1}
  <2>1. PICK none : none = <<>> OBVIOUS
  <2>2. Listed(none) /\ Messaged(none) = {} /\ one = Append(none, c)
    BY <1>6, <2>1, EmptyListed
  <2>3. Listed(one) /\ Messaged(one) = Messaged(none) \cup {c.msg}
    BY <1>5, <2>2, AppendListed
  <2> QED BY <1>5, <2>2, <2>3
<1>8. CoveredEnd(<<>>) = 0 BY DEF CoveredEnd
<1>9. Laid(one) BY <1>3, <1>5, <1>6, <1>8, EmptyLaid, LongerLaid
<1>10. one = <<c>> BY <1>6
<1>11. doc.chunks = one /\ doc.size = size BY <1>1, <1>4, <1>10
<1>12. Names(doc) = {1} BY <1>7, <1>11 DEF Names, Live
<1>13. DOMAIN discord = {1} OBVIOUS
<1>14. AreBytes(discord[1], full)
  <2>1. PICK bytes : bytes = [k \in 1 .. full |-> v] OBVIOUS
  <2>2. bytes \in [1 .. full -> Bytes] BY <2>1 DEF Bytes
  <2>3. bytes \in Seq(Bytes) /\ Len(bytes) = full BY <1>3, <2>2
  <2>4. discord[1] = bytes BY <1>1, <2>1
  <2> QED BY <2>3, <2>4 DEF AreBytes
<1>15. DOMAIN one = {1} /\ one[1] = c BY <1>10
<1>16. Holds(c, discord, sent) BY <1>5, <1>14 DEF Holds
<1>17. Fitted(size, one, discord, sent)
  <2>1. EndOf(c) <= size BY <1>2, <1>3, <1>5 DEF EndOf
  <2> QED BY <1>2, <1>5, <1>9, <1>15, <1>16, <2>1 DEF Fitted
<1>18. DOMAIN doc = {"state", "size", "chunks"} OBVIOUS
<1> QED BY <1>11, <1>12, <1>13, <1>17, <1>18 DEF Whole

LEMMA InitHolds == Init => IInv
<1> SUFFICES ASSUME Init PROVE IInv
  OBVIOUS
<1>1. DOMAIN file = Handles /\ \A h \in Handles : file[h] = Closed BY DEF Init
<1>2. /\ DOMAIN doc = {"state", "size", "chunks"} /\ sent \in Nat
      /\ Fitted(doc.size, doc.chunks, discord, sent)
      /\ Whole(doc, DOMAIN discord, sent, {}) /\ DOMAIN discord \subseteq Names(doc)
  <2>1. CASE doc = [state |-> "none", size |-> 0, chunks |-> <<>>] /\ discord = <<>> /\ sent = 0
    <3>1. DOMAIN discord = {} BY <2>1
    <3>2. Names(doc) = {} BY <2>1 DEF Names, Live
    <3> QED BY <2>1, <3>1, <3>2, EmptyFits DEF Whole
  <2> QED BY <2>1, OneChunk DEF Init
<1>3. Undone = {} BY DEF Init, Undone
<1>4. \A h \in Handles : /\ Typed(file[h]) /\ Fresh(file[h]) /\ Firm(file[h], discord, sent)
                         /\ Agrees(file[h], doc, DOMAIN discord, Undone, lost)
  BY <1>1, ClosedIs, ClosedFirm, FreshSound DEF Fresh
<1> QED BY <1>1, <1>2, <1>3, <1>4 DEF IInv, Types, Layouts, Alone

LEMMA NextKeeps == IInv /\ [Next]_vars => IInv'
<1> SUFFICES ASSUME IInv, [Next]_vars PROVE IInv'
  OBVIOUS
<1>1. CASE UNCHANGED vars BY <1>1 DEF vars, IInv, Types, Layouts, Alone, Undone
<1>2. CASE Crash BY <1>2, CrashKeeps
<1>3. ASSUME NEW h \in Handles, Method(h) PROVE IInv'
  <2>1. ASSUME NEW at \in 0 .. MaxSize, NEW n \in 1 .. MaxSize, NEW v \in Values,
               Write(h, at, [k \in 1 .. n |-> v])
        PROVE  IInv'
    <3>1. PICK data : data = [k \in 1 .. n |-> v] OBVIOUS
    <3>2. data \in [1 .. n -> Bytes] /\ n \in Nat BY <3>1 DEF Bytes
    <3>3. data \in Seq(Bytes) BY <3>2
    <3> QED BY <2>1, <3>1, <3>3, WriteKeeps
  <2>2. ASSUME NEW n \in 0 .. MaxSize, Truncate(h, n) PROVE IInv'
    BY <2>2, TruncateKeeps
  <2> QED BY <1>3, <2>1, <2>2, RefetchKeeps, CloseKeeps, AbortKeeps, CreateKeeps, OpenKeeps,
             ReadKeeps, Zenon DEF Method
<1>4. ASSUME NEW h \in Handles, Await(h) PROVE IInv'
  BY <1>4, FetchedKeeps, SendKeeps, SendFailsKeeps, ApplyKeeps, CommitKeeps, CommitFailsKeeps,
     ProceedKeeps, CancelWriteKeeps, CancelCloseKeeps, SwapKeeps, SwapFailsKeeps, UnwoundKeeps,
     DropRowKeeps, DropRowFailsKeeps, DeleteKeeps, DeleteFailsKeeps, Zenon DEF Await
<1> QED BY <1>1, <1>2, <1>3, <1>4 DEF Next

LEMMA Invariant == Spec => []IInv
  BY InitHolds, NextKeeps, PTL DEF Spec

-----------------------------------------------------------------------------
(* The array a layout, the attachments held and a buffer make.             *)

\* The byte a chunk has at a position, the cache left out, and the chunks together.
Within(c, held, p) == IF c.msg \in DOMAIN held THEN ByteAt(held[c.msg], p - c.offset) ELSE 0

Stored(chunks, held, p) ==
  IF Locate(chunks, p - 1) = {} THEN 0
  ELSE Within(chunks[CHOOSE k \in Locate(chunks, p - 1) : TRUE], held, p)

\* Chunks where there are chunks, then the buffer, then a hole of zeros.
Byte(chunks, buffer, held, p) ==
  IF p <= CoveredEnd(chunks) THEN Stored(chunks, held, p)
  ELSE IF p <= CoveredEnd(chunks) + Len(buffer) THEN buffer[p - CoveredEnd(chunks)]
  ELSE 0

Array(size, chunks, buffer, held) ==
  [p \in 1 .. Max2(size, CoveredEnd(chunks) + Len(buffer)) |-> Byte(chunks, buffer, held, p)]

\* Functions on 1 .. n, which two of them are equal if they agree at every position.
IsArray(f, n) == n \in Nat /\ Len(f) = n /\ f = [p \in 1 .. n |-> f[p]]

LEMMA Agree ==
  ASSUME NEW n, NEW f, IsArray(f, n), NEW g, IsArray(g, n), \A p \in 1 .. n : f[p] = g[p]
  PROVE  f = g
<1>1. [p \in 1 .. n |-> f[p]] = [p \in 1 .. n |-> g[p]] OBVIOUS
<1> QED BY <1>1 DEF IsArray

LEMMA Tabled ==
  ASSUME NEW n \in Nat, NEW f, f = [p \in 1 .. n |-> f[p]]
  PROVE  IsArray(f, n)
<1>1. PICK S : S = {f[p] : p \in 1 .. n} OBVIOUS
<1>2. f \in [1 .. n -> S] BY <1>1
<1>3. f \in Seq(S) /\ Len(f) = n BY <1>2
<1> QED BY <1>3 DEF IsArray

\* What an array reads: the chunks up to e, the b bytes buffered, zeros.
OfFile(all, n, chunks, e, buffer, b, held) ==
  /\ IsArray(all, n)
  /\ \A p \in 1 .. n : /\ p <= e => all[p] = Stored(chunks, held, p)
                       /\ e < p /\ p <= e + b => all[p] = buffer[p - e]
                       /\ e + b < p => all[p] = 0

\* The d bytes spliced in at a position, and the first n as they were elsewhere.
OfSplice(new, m, f, n, at, data, d) ==
  /\ IsArray(new, m)
  /\ \A p \in 1 .. m : /\ at < p /\ p <= at + d => new[p] = data[p - at]
                       /\ (p <= at \/ at + d < p) /\ p <= n => new[p] = f[p]
                       /\ (p <= at \/ at + d < p) /\ n < p => new[p] = 0

LEMMA ArrayIs ==
  ASSUME NEW size \in Nat, NEW chunks, Laid(chunks), NEW buffer, NEW b, AreBytes(buffer, b),
         NEW held, NEW e, e = CoveredEnd(chunks), NEW n, n = Max2(size, e + b),
         NEW all, all = Array(size, chunks, buffer, held)
  PROVE  /\ e \in Nat /\ b \in Nat /\ n \in Nat /\ size <= n /\ e + b <= n
         /\ n = size \/ n = e + b
         /\ OfFile(all, n, chunks, e, buffer, b, held)
<1>1. e \in Nat /\ b \in Nat /\ b = Len(buffer) BY EndType DEF AreBytes
<1>2. n \in Nat /\ size <= n /\ e + b <= n /\ (n = size \/ n = e + b) BY <1>1 DEF Max2
<1>3. all = [p \in 1 .. n |-> Byte(chunks, buffer, held, p)] BY <1>1 DEF Array
<1>4. \A p \in 1 .. n : all[p] = Byte(chunks, buffer, held, p) BY <1>3
<1>5. IsArray(all, n) BY <1>2, <1>3, Tabled
<1>6. ASSUME NEW p \in 1 .. n
      PROVE  /\ p <= e => all[p] = Stored(chunks, held, p)
             /\ e < p /\ p <= e + b => all[p] = buffer[p - e]
             /\ e + b < p => all[p] = 0
  <2>1. /\ p <= e => Byte(chunks, buffer, held, p) = Stored(chunks, held, p)
        /\ e < p /\ p <= e + b => Byte(chunks, buffer, held, p) = buffer[p - e]
        /\ e + b < p => Byte(chunks, buffer, held, p) = 0
    BY <1>1, <1>2 DEF Byte
  <2> QED BY <1>4, <2>1
<1> QED BY <1>1, <1>2, <1>5, <1>6 DEF OfFile

LEMMA SplicedArray ==
  ASSUME NEW n, NEW f, IsArray(f, n), NEW at \in Nat, NEW data, NEW d, AreBytes(data, d),
         NEW m, m = Max2(n, at + d), NEW new, new = Spliced(f, at, data)
  PROVE  /\ d \in Nat /\ m \in Nat /\ n <= m /\ at + d <= m /\ (m = n \/ m = at + d)
         /\ OfSplice(new, m, f, n, at, data, d)
<1>1. d \in Nat /\ d = Len(data) /\ n \in Nat /\ Len(f) = n BY DEF IsArray, AreBytes
<1>2. m \in Nat /\ n <= m /\ at + d <= m /\ (m = n \/ m = at + d) BY <1>1 DEF Max2
<1>3. new = [p \in 1 .. m |-> IF p - 1 \in at .. at + d - 1 THEN data[p - at]
                              ELSE IF p <= n THEN f[p] ELSE 0]
  BY <1>1 DEF Spliced
<1>4. \A p \in 1 .. m : new[p] = IF p - 1 \in at .. at + d - 1 THEN data[p - at]
                                 ELSE IF p <= n THEN f[p] ELSE 0
  BY <1>3
<1>5. IsArray(new, m) BY <1>2, <1>3, Tabled
<1>6. ASSUME NEW p \in 1 .. m
      PROVE  /\ at < p /\ p <= at + d => new[p] = data[p - at]
             /\ (p <= at \/ at + d < p) /\ p <= n => new[p] = f[p]
             /\ (p <= at \/ at + d < p) /\ n < p => new[p] = 0
  <2>1. p - 1 \in at .. at + d - 1 <=> at < p /\ p <= at + d BY <1>1, <1>2
  <2>2. p \in Nat /\ ~(p <= at /\ at < p) /\ ~(at + d < p /\ p <= at + d) /\ ~(n < p /\ p <= n)
    BY <1>1, <1>2
  <2>3. CASE at < p /\ p <= at + d
    <3>1. new[p] = data[p - at] BY <1>4, <2>1, <2>3
    <3> QED BY <2>2, <2>3, <3>1
  <2>4. CASE ~(at < p /\ p <= at + d)
    <3>1. new[p] = IF p <= n THEN f[p] ELSE 0 BY <1>4, <2>1, <2>4
    <3> QED BY <2>2, <2>4, <3>1
  <2> QED BY <2>3, <2>4
<1> QED BY <1>1, <1>2, <1>5, <1>6 DEF OfSplice

LEMMA ResizedArray ==
  ASSUME NEW n, NEW f, IsArray(f, n), NEW m \in Nat, NEW new, new = Resized(f, m)
  PROVE  /\ IsArray(new, m)
         /\ \A p \in 1 .. m : /\ p <= n => new[p] = f[p]
                              /\ n < p => new[p] = 0
<1>1. n \in Nat /\ Len(f) = n BY DEF IsArray
<1>2. new = [p \in 1 .. m |-> IF p <= n THEN f[p] ELSE 0] BY <1>1 DEF Resized
<1>3. \A p \in 1 .. m : new[p] = IF p <= n THEN f[p] ELSE 0 BY <1>2
<1>4. IsArray(new, m) BY <1>2, Tabled
<1>5. \A p \in 1 .. m : /\ p <= n => new[p] = f[p]
                        /\ n < p => new[p] = 0
  BY <1>1, <1>3
<1> QED BY <1>4, <1>5

LEMMA DroppedAt ==
  ASSUME NEW bytes \in Seq(Bytes), NEW n \in Nat, n <= Len(bytes),
         NEW rest, rest = Dropped(bytes, n)
  PROVE  /\ rest \in Seq(Bytes) /\ Len(rest) = Len(bytes) - n
         /\ \A k \in 1 .. Len(bytes) - n : rest[k] = bytes[n + k]
<1>1. PICK m : m = Len(bytes) OBVIOUS
<1>2. m \in Nat /\ DOMAIN bytes = 1 .. m BY <1>1
<1>3. rest = SubSeq(bytes, n + 1, m) BY <1>1 DEF Dropped
<1>4. rest \in Seq(Bytes) BY DroppedIs
<1>5. Len(rest) = m - n BY <1>1, <1>2, <1>3
<1>6. \A k \in 1 .. m - n : rest[k] = bytes[n + k] BY <1>1, <1>2, <1>3
<1> QED BY <1>1, <1>4, <1>5, <1>6

-----------------------------------------------------------------------------
(* What one commit, or one call, makes of the array.                       *)

\* The first of some bytes.
IsPrefix(piece, bytes) ==
  Len(piece) <= Len(bytes) /\ \A k \in 1 .. Len(piece) : piece[k] = bytes[k]

\* A chunk of these bytes more.
Grows(new, old, piece, held) ==
  /\ Laid(new) /\ CoveredEnd(new) = CoveredEnd(old) + Len(piece)
  /\ \A p \in 1 .. CoveredEnd(old) : Stored(new, held, p) = Stored(old, held, p)
  /\ \A p \in 1 .. Len(piece) : Stored(new, held, CoveredEnd(old) + p) = piece[p]

\* The first t of these bytes over those of the chunks.
Covers(new, old, at, data, t, held) ==
  /\ Laid(new) /\ CoveredEnd(new) = CoveredEnd(old) /\ at + t <= CoveredEnd(old)
  /\ \A p \in 1 .. CoveredEnd(old) :
       /\ at < p /\ p <= at + t => Stored(new, held, p) = data[p - at]
       /\ p <= at \/ at + t < p => Stored(new, held, p) = Stored(old, held, p)

\* Nothing past a position.
Cuts(new, old, at, held) ==
  /\ Laid(new) /\ CoveredEnd(new) = Min2(CoveredEnd(old), at)
  /\ \A p \in 1 .. CoveredEnd(new) : Stored(new, held, p) = Stored(old, held, p)

\* Bytes written at the append position are buffered.
LEMMA BufferedArray ==
  ASSUME NEW size \in Nat, NEW chunks, Laid(chunks), NEW buffer \in Seq(Bytes), NEW held,
         NEW data \in Seq(Bytes)
  PROVE  Spliced(Array(size, chunks, buffer, held), CoveredEnd(chunks) + Len(buffer), data)
           = Array(size, chunks, buffer \o data, held)
<1>0. PICK longer : longer = buffer \o data OBVIOUS
<1>1. PICK d : d = Len(data) OBVIOUS
<1>18. PICK e, b : e = CoveredEnd(chunks) /\ b = Len(buffer) OBVIOUS
<1>2. PICK at, x : at = e + b /\ x = b + d OBVIOUS
<1>3. PICK n : n = Max2(size, e + b) OBVIOUS
<1>14. PICK m : m = Max2(n, at + d) OBVIOUS
<1>15. PICK k : k = Max2(size, e + x) OBVIOUS
<1>4. PICK all : all = Array(size, chunks, buffer, held) OBVIOUS
<1>5. PICK new : new = Spliced(all, at, data) OBVIOUS
<1>16. PICK more : more = Array(size, chunks, longer, held) OBVIOUS
<1>6. /\ longer \in Seq(Bytes) /\ Len(longer) = x /\ d \in Nat
      /\ (\A i \in 1 .. b : longer[i] = buffer[i]) /\ \A i \in 1 .. d : longer[b + i] = data[i]
  BY <1>0, <1>1, <1>2, <1>18
<1>19. AreBytes(data, d) /\ AreBytes(buffer, b) /\ AreBytes(longer, x)
  BY <1>1, <1>6, <1>18 DEF AreBytes
<1>7. /\ e \in Nat /\ b \in Nat /\ n \in Nat /\ size <= n /\ e + b <= n
      /\ n = size \/ n = e + b
      /\ OfFile(all, n, chunks, e, buffer, b, held)
  BY <1>3, <1>4, <1>18, <1>19, ArrayIs
<1>8. IsArray(all, n) /\ at \in Nat BY <1>2, <1>7 DEF OfFile
<1>17. OfSplice(new, m, all, n, at, data, d)
  BY <1>5, <1>8, <1>14, <1>19, SplicedArray
<1>9. /\ m \in Nat /\ n <= m /\ at + d <= m /\ (m = n \/ m = at + d)
      /\ OfSplice(new, m, all, n, at, data, d)
  BY <1>6, <1>7, <1>8, <1>14, <1>17 DEF Max2
<1>10. /\ k \in Nat /\ size <= k /\ e + x <= k /\ (k = size \/ k = e + x)
       /\ OfFile(more, k, chunks, e, longer, x, held)
  BY <1>15, <1>16, <1>18, <1>19, ArrayIs
<1>11. k = m BY <1>2, <1>6, <1>7, <1>9, <1>10
<1>12. ASSUME NEW p \in 1 .. m PROVE new[p] = more[p]
  <2>1. p \in Nat BY <1>9
  <2>6. b \in Nat /\ d \in Nat /\ e \in Nat /\ at \in Nat /\ x \in Nat BY <1>2, <1>6, <1>7
  <2>2. CASE p <= e
    <3>1. p \in 1 .. n /\ p <= n /\ p <= at BY <1>2, <1>7, <2>1, <2>2
    <3>2. new[p] = all[p] BY <1>9, <3>1 DEF OfSplice
    <3>3. all[p] = Stored(chunks, held, p) BY <1>7, <2>2, <3>1 DEF OfFile
    <3>4. more[p] = Stored(chunks, held, p) BY <1>10, <1>11, <2>2 DEF OfFile
    <3> QED BY <3>2, <3>3, <3>4
  <2>3. CASE e < p /\ p <= e + b
    <3>1. p \in 1 .. n /\ p <= n /\ p <= at /\ p - e \in 1 .. b /\ p <= e + x
      BY <1>2, <1>6, <1>7, <2>1, <2>3
    <3>2. new[p] = all[p] BY <1>9, <3>1 DEF OfSplice
    <3>3. all[p] = buffer[p - e] BY <1>7, <2>3, <3>1 DEF OfFile
    <3>4. more[p] = longer[p - e] BY <1>10, <1>11, <2>3, <3>1 DEF OfFile
    <3> QED BY <1>6, <3>1, <3>2, <3>3, <3>4
  <2>4. CASE at < p /\ p <= at + d
    <3>1. PICK i : i = p - at OBVIOUS
    <3>2. i \in 1 .. d /\ p - e = b + i /\ e < p /\ p <= e + x
      BY <1>2, <2>1, <2>4, <2>6, <3>1
    <3>3. new[p] = data[i] BY <1>9, <2>4, <3>1 DEF OfSplice
    <3>4. more[p] = longer[b + i] BY <1>10, <1>11, <3>2 DEF OfFile
    <3> QED BY <1>6, <3>2, <3>3, <3>4
  <2>5. CASE at + d < p
    <3>1. e + x < p /\ e + b < p BY <1>2, <1>6, <1>7, <2>1, <2>5
    <3>2. more[p] = 0 BY <1>10, <1>11, <3>1 DEF OfFile
    <3>3. CASE p <= n
      <4>1. p \in 1 .. n BY <2>1, <3>3
      <4>2. all[p] = 0 BY <1>7, <3>1, <4>1 DEF OfFile
      <4> QED BY <1>9, <2>5, <3>2, <3>3, <4>2 DEF OfSplice
    <3>4. CASE n < p BY <1>9, <2>5, <3>2, <3>4 DEF OfSplice
    <3> QED BY <1>7, <2>1, <3>3, <3>4
  <2> QED BY <1>2, <1>6, <1>7, <2>1, <2>2, <2>3, <2>4, <2>5
<1>13. new = more BY <1>9, <1>10, <1>11, <1>12, Agree DEF OfSplice, OfFile
<1> QED BY <1>0, <1>2, <1>4, <1>5, <1>13, <1>16, <1>18

\* The buffer's first bytes are uploaded.
LEMMA GrownArray ==
  ASSUME NEW size \in Nat, NEW old, Laid(old), NEW buffer \in Seq(Bytes), NEW held,
         NEW piece, IsPrefix(piece, buffer), NEW q \in Nat, Len(piece) = q,
         NEW new, Grows(new, old, piece, held)
  PROVE  Array(size, old, buffer, held)
           = Array(Max2(size, CoveredEnd(old) + q), new, Dropped(buffer, q), held)
<1>1. PICK e, b : e = CoveredEnd(old) /\ b = Len(buffer) OBVIOUS
<1>2. PICK rest : rest = Dropped(buffer, q) OBVIOUS
<1>3. PICK x, r : x = CoveredEnd(new) /\ r = Len(rest) OBVIOUS
<1>4. PICK s : s = Max2(size, e + q) OBVIOUS
<1>5. PICK n : n = Max2(size, e + b) OBVIOUS
<1>6. PICK m : m = Max2(s, x + r) OBVIOUS
<1>7. PICK f : f = Array(size, old, buffer, held) OBVIOUS
<1>8. PICK g : g = Array(s, new, rest, held) OBVIOUS
<1>9. Laid(new) /\ e \in Nat /\ b \in Nat /\ q <= b /\ x = e + q
  <2>1. e \in Nat BY <1>1, EndType
  <2> QED BY <1>1, <1>3, <2>1 DEF Grows, IsPrefix
<1>10. s \in Nat /\ size <= s /\ e + q <= s /\ (s = size \/ s = e + q) BY <1>4, <1>9 DEF Max2
<1>11. rest \in Seq(Bytes) /\ r = b - q /\ \A k \in 1 .. b - q : rest[k] = buffer[q + k]
  <2>1. q <= Len(buffer) BY <1>1, <1>9
  <2>2. /\ rest \in Seq(Bytes) /\ Len(rest) = Len(buffer) - q
        /\ \A k \in 1 .. Len(buffer) - q : rest[k] = buffer[q + k]
    BY <1>2, <2>1, DroppedAt
  <2> QED BY <1>1, <1>3, <2>2
<1>12. /\ n \in Nat /\ size <= n /\ e + b <= n /\ (n = size \/ n = e + b)
       /\ OfFile(f, n, old, e, buffer, b, held)
  <2>1. AreBytes(buffer, b) BY <1>1 DEF AreBytes
  <2> QED BY <1>1, <1>5, <1>7, <2>1, ArrayIs
<1>13. /\ m \in Nat /\ s <= m /\ x + r <= m /\ (m = s \/ m = x + r)
       /\ OfFile(g, m, new, x, rest, r, held)
  <2>1. AreBytes(rest, r) BY <1>3, <1>11 DEF AreBytes
  <2>2. Laid(new) /\ s \in Nat BY <1>9, <1>10
  <2> QED BY <1>3, <1>6, <1>8, <2>1, <2>2, ArrayIs
<1>14. r \in Nat /\ x + r = e + b /\ x \in Nat BY <1>9, <1>11
<1>15. n = m BY <1>9, <1>10, <1>12, <1>13, <1>14
<1>16. ASSUME NEW p \in 1 .. n PROVE f[p] = g[p]
  <2>1. p \in Nat /\ p \in 1 .. m BY <1>12, <1>15
  <2>2. CASE p <= e
    <3>1. f[p] = Stored(old, held, p) BY <1>12, <2>2 DEF OfFile
    <3>2. p <= x /\ p \in 1 .. e BY <1>9, <2>1, <2>2
    <3>3. g[p] = Stored(new, held, p) BY <1>13, <2>1, <3>2 DEF OfFile
    <3>4. Stored(new, held, p) = Stored(old, held, p) BY <1>1, <3>2 DEF Grows
    <3> QED BY <3>1, <3>3, <3>4
  <2>3. CASE e < p /\ p <= x
    <3>1. PICK k : k = p - e OBVIOUS
    <3>2. k \in 1 .. q /\ p = e + k /\ p <= e + b BY <1>9, <2>1, <2>3, <3>1
    <3>3. f[p] = buffer[k] BY <1>12, <2>3, <3>1, <3>2 DEF OfFile
    <3>4. g[p] = Stored(new, held, e + k) BY <1>13, <2>1, <2>3, <3>2 DEF OfFile
    <3>5. Stored(new, held, e + k) = piece[k] BY <1>1, <3>2 DEF Grows
    <3>6. piece[k] = buffer[k] BY <3>2 DEF IsPrefix
    <3> QED BY <3>3, <3>4, <3>5, <3>6
  <2>4. CASE x < p /\ p <= x + r
    <3>1. PICK k : k = p - x OBVIOUS
    <3>2. k \in 1 .. b - q /\ p - e = q + k /\ e < p /\ p <= e + b
      BY <1>9, <1>11, <1>14, <2>1, <2>4, <3>1
    <3>3. f[p] = buffer[q + k] BY <1>12, <3>2 DEF OfFile
    <3>4. g[p] = rest[k] BY <1>13, <2>1, <2>4, <3>1 DEF OfFile
    <3> QED BY <1>11, <3>2, <3>3, <3>4
  <2>5. CASE x + r < p
    <3>1. e + b < p BY <1>14, <2>5
    <3>2. f[p] = 0 BY <1>12, <3>1 DEF OfFile
    <3>3. g[p] = 0 BY <1>13, <2>1, <2>5 DEF OfFile
    <3> QED BY <3>2, <3>3
  <2> QED BY <1>9, <1>14, <2>1, <2>2, <2>3, <2>4, <2>5
<1>17. f = g BY <1>12, <1>13, <1>15, <1>16, Agree DEF OfFile
<1> QED BY <1>1, <1>2, <1>4, <1>7, <1>8, <1>17

\* The bytes of an array where it ends, and zeros after that.
Padded(f, n, p) == IF p <= n THEN f[p] ELSE 0

LEMMA SplicedAlike ==
  ASSUME NEW n, NEW f, IsArray(f, n), NEW k, NEW g, IsArray(g, k),
         NEW at \in Nat, NEW data \in Seq(Bytes), NEW d, Len(data) = d,
         Max2(n, at + d) = Max2(k, at + d),
         \A p \in Nat \ {0} : Padded(f, n, p) = Padded(g, k, p)
  PROVE  Spliced(f, at, data) = Spliced(g, at, data)
<1>1. PICK m : m = Max2(n, at + d) OBVIOUS
<1>2. PICK x, y : x = Spliced(f, at, data) /\ y = Spliced(g, at, data) OBVIOUS
<1>8. AreBytes(data, d) BY DEF AreBytes
<1>3. OfSplice(x, m, f, n, at, data, d) BY <1>1, <1>2, <1>8, SplicedArray
<1>4. OfSplice(y, m, g, k, at, data, d) BY <1>1, <1>2, <1>8, SplicedArray
<1>5. d \in Nat /\ m \in Nat /\ n \in Nat /\ k \in Nat BY <1>3, <1>8 DEF IsArray, OfSplice, AreBytes
<1>6. ASSUME NEW p \in 1 .. m PROVE x[p] = y[p]
  <2>1. p \in Nat \ {0} BY <1>5
  <2>2. CASE at < p /\ p <= at + d BY <1>3, <1>4, <2>2 DEF OfSplice
  <2>3. CASE p <= at \/ at + d < p
    <3>1. x[p] = Padded(f, n, p) BY <1>3, <1>5, <2>1, <2>3 DEF OfSplice, Padded
    <3>2. y[p] = Padded(g, k, p) BY <1>4, <1>5, <2>1, <2>3 DEF OfSplice, Padded
    <3> QED BY <2>1, <3>1, <3>2
  <2> QED BY <1>5, <2>1, <2>2, <2>3
<1>7. x = y BY <1>3, <1>4, <1>6, Agree DEF OfSplice
<1> QED BY <1>2, <1>7

\* An array with nothing buffered, wherever it ends.
LEMMA UnbufferedIs ==
  ASSUME NEW size \in Nat, NEW chunks, Laid(chunks), NEW held, NEW e, e = CoveredEnd(chunks),
         NEW n, n = Max2(size, e), NEW f, f = Array(size, chunks, <<>>, held)
  PROVE  /\ e \in Nat /\ n \in Nat /\ size <= n /\ e <= n /\ (n = size \/ n = e)
         /\ IsArray(f, n)
         /\ \A p \in Nat \ {0} :
              Padded(f, n, p) = IF p <= e THEN Stored(chunks, held, p) ELSE 0
<1>1. e \in Nat BY EndType
<1>2. n \in Nat /\ size <= n /\ e <= n /\ (n = size \/ n = e) BY <1>1 DEF Max2
<1>3. PICK none, z : none = <<>> /\ z = Len(none) OBVIOUS
<1>4. none \in Seq(Bytes) /\ z = 0 BY <1>3
<1>5. n = Max2(size, e + z) BY <1>1, <1>4
<1>6. f = Array(size, chunks, none, held) BY <1>3
<1>10. AreBytes(none, z) BY <1>3, <1>4 DEF AreBytes
<1>7. OfFile(f, n, chunks, e, none, z, held) BY <1>5, <1>6, <1>10, ArrayIs
<1>8. IsArray(f, n) BY <1>7 DEF OfFile
<1>9. ASSUME NEW p \in Nat \ {0}
      PROVE  Padded(f, n, p) = IF p <= e THEN Stored(chunks, held, p) ELSE 0
  <2>1. CASE p <= e
    <3>1. p \in 1 .. n /\ p <= n BY <1>1, <1>2, <2>1
    <3> QED BY <1>7, <2>1, <3>1 DEF OfFile, Padded
  <2>2. CASE e < p /\ p <= n
    <3>1. p \in 1 .. n /\ e + z < p /\ ~(p <= e) BY <1>1, <1>2, <1>4, <2>2
    <3>2. f[p] = 0 BY <1>7, <3>1 DEF OfFile
    <3> QED BY <2>2, <3>1, <3>2 DEF Padded
  <2>3. CASE n < p
    <3>1. ~(p <= n) /\ ~(p <= e) BY <1>1, <1>2, <2>3
    <3> QED BY <3>1 DEF Padded
  <2> QED BY <1>1, <1>2, <2>1, <2>2, <2>3
<1> QED BY <1>1, <1>2, <1>8, <1>9

\* Zeros are uploaded where there were zeros.
LEMMA GapArray ==
  ASSUME NEW size \in Nat, NEW old, Laid(old), NEW held, NEW piece, NEW q \in Nat,
         Len(piece) = q, \A k \in 1 .. q : piece[k] = 0,
         NEW new, Grows(new, old, piece, held),
         NEW at \in Nat, CoveredEnd(old) + q <= at, NEW data \in Seq(Bytes)
  PROVE  Spliced(Array(size, old, <<>>, held), at, data)
           = Spliced(Array(Max2(size, CoveredEnd(old) + q), new, <<>>, held), at, data)
<1>1. PICK e : e = CoveredEnd(old) OBVIOUS
<1>2. PICK x : x = CoveredEnd(new) OBVIOUS
<1>3. PICK s : s = Max2(size, e + q) OBVIOUS
<1>4. PICK n : n = Max2(size, e) OBVIOUS
<1>5. PICK m : m = Max2(s, x) OBVIOUS
<1>8. PICK f : f = Array(size, old, <<>>, held) OBVIOUS
<1>9. PICK g : g = Array(s, new, <<>>, held) OBVIOUS
<1>10. e \in Nat BY <1>1, EndType
<1>11. Laid(new) /\ x = e + q /\ x \in Nat BY <1>1, <1>2, <1>10 DEF Grows
<1>12. s \in Nat /\ size <= s /\ e + q <= s /\ (s = size \/ s = e + q) BY <1>3, <1>10 DEF Max2
<1>13. /\ n \in Nat /\ size <= n /\ e <= n /\ (n = size \/ n = e)
       /\ IsArray(f, n)
       /\ \A p \in Nat \ {0} : Padded(f, n, p) = IF p <= e THEN Stored(old, held, p) ELSE 0
  BY <1>1, <1>4, <1>8, UnbufferedIs
<1>14. /\ m \in Nat /\ s <= m /\ x <= m /\ (m = s \/ m = x)
       /\ IsArray(g, m)
       /\ \A p \in Nat \ {0} : Padded(g, m, p) = IF p <= x THEN Stored(new, held, p) ELSE 0
  <2>1. Laid(new) /\ s \in Nat BY <1>11, <1>12
  <2> QED BY <1>2, <1>5, <1>9, <2>1, UnbufferedIs
<1>15. ASSUME NEW p \in Nat \ {0} PROVE Padded(f, n, p) = Padded(g, m, p)
  <2>1. Padded(f, n, p) = IF p <= e THEN Stored(old, held, p) ELSE 0 BY <1>13
  <2>2. Padded(g, m, p) = IF p <= x THEN Stored(new, held, p) ELSE 0 BY <1>14
  <2>3. CASE p <= e
    <3>1. p <= x /\ p \in 1 .. e BY <1>10, <1>11, <2>3
    <3>2. Stored(new, held, p) = Stored(old, held, p) BY <1>1, <3>1 DEF Grows
    <3> QED BY <2>1, <2>2, <2>3, <3>1, <3>2
  <2>4. CASE e < p /\ p <= x
    <3>1. PICK k : k = p - e OBVIOUS
    <3>2. k \in 1 .. q /\ p = e + k /\ ~(p <= e) BY <1>10, <1>11, <2>4, <3>1
    <3>3. Stored(new, held, e + k) = piece[k] BY <1>1, <3>2 DEF Grows
    <3> QED BY <2>1, <2>2, <2>4, <3>2, <3>3
  <2>5. CASE x < p
    <3>1. ~(p <= e) /\ ~(p <= x) BY <1>10, <1>11, <2>5
    <3> QED BY <2>1, <2>2, <3>1
  <2> QED BY <1>10, <1>11, <2>3, <2>4, <2>5
<1>16. PICK d : Len(data) = d OBVIOUS
<1>17. d \in Nat BY <1>16
<1>18. e + q <= at BY <1>1
<1>19. Max2(n, at + d) = Max2(m, at + d)
  BY <1>10, <1>11, <1>12, <1>13, <1>14, <1>17, <1>18 DEF Max2
<1>20. IsArray(f, n) /\ IsArray(g, m) BY <1>13, <1>14
<1>21. Spliced(f, at, data) = Spliced(g, at, data) BY <1>15, <1>16, <1>19, <1>20, SplicedAlike
<1> QED BY <1>1, <1>3, <1>8, <1>9, <1>21

\* Bytes past the chunks are uploaded.
LEMMA ExtendedArray ==
  ASSUME NEW size \in Nat, NEW old, Laid(old), NEW held, NEW data \in Seq(Bytes),
         NEW piece, IsPrefix(piece, data), NEW q \in Nat, Len(piece) = q,
         NEW new, Grows(new, old, piece, held)
  PROVE  Spliced(Array(size, old, <<>>, held), CoveredEnd(old), data)
           = Spliced(Array(Max2(size, CoveredEnd(old) + q), new, <<>>, held), CoveredEnd(new),
                     Dropped(data, q))
<1>1. PICK e, x : e = CoveredEnd(old) /\ x = CoveredEnd(new) OBVIOUS
<1>2. PICK s : s = Max2(size, e + q) OBVIOUS
<1>3. PICK rest : rest = Dropped(data, q) OBVIOUS
<1>4. PICK none : none = <<>> OBVIOUS
<1>5. e \in Nat BY <1>1, EndType
<1>6. Laid(new) /\ x \in Nat /\ s \in Nat BY <1>1, <1>2, <1>5, EndType DEF Grows, Max2
<1>7. rest \in Seq(Bytes) BY <1>3, DroppedIs
<1>8. none \in Seq(Bytes) /\ none \o data = data /\ none \o rest = rest
      /\ e + Len(none) = e /\ x + Len(none) = x
  BY <1>4, <1>5, <1>6, <1>7
<1>9. Spliced(Array(size, old, none, held), CoveredEnd(old) + Len(none), data)
        = Array(size, old, none \o data, held)
  <2>1. none \in Seq(Bytes) BY <1>8
  <2> QED BY <2>1, BufferedArray
<1>10. Spliced(Array(s, new, none, held), CoveredEnd(new) + Len(none), rest)
         = Array(s, new, none \o rest, held)
  <2>1. none \in Seq(Bytes) BY <1>8
  <2> QED BY <1>6, <1>7, <2>1, BufferedArray
<1>11. Array(size, old, data, held)
         = Array(Max2(size, CoveredEnd(old) + q), new, Dropped(data, q), held)
  BY GrownArray
<1>12. Spliced(Array(size, old, none, held), e, data) = Array(size, old, data, held)
  BY <1>1, <1>8, <1>9
<1>13. Spliced(Array(s, new, none, held), x, rest) = Array(s, new, rest, held)
  BY <1>1, <1>8, <1>10
<1>14. Array(size, old, data, held) = Array(s, new, rest, held)
  BY <1>1, <1>2, <1>3, <1>11
<1> QED BY <1>1, <1>2, <1>3, <1>4, <1>12, <1>13, <1>14

\* Bytes are uploaded over those of a chunk.
LEMMA PatchedArray ==
  ASSUME NEW size \in Nat, NEW old, Laid(old), NEW held, NEW at \in Nat,
         NEW data \in Seq(Bytes), NEW t \in Nat, t <= Len(data),
         NEW new, Covers(new, old, at, data, t, held)
  PROVE  Spliced(Array(size, old, <<>>, held), at, data)
           = Spliced(Array(size, new, <<>>, held), at + t, Dropped(data, t))
<1>1. PICK e : e = CoveredEnd(old) OBVIOUS
<1>2. PICK rest : rest = Dropped(data, t) OBVIOUS
<1>3. PICK d : d = Len(data) OBVIOUS
<1>4. PICK r : r = Len(rest) OBVIOUS
<1>5. PICK n : n = Max2(size, e) OBVIOUS
<1>6. PICK m : m = Max2(n, at + d) OBVIOUS
<1>7. PICK f : f = Array(size, old, <<>>, held) OBVIOUS
<1>8. PICK g : g = Array(size, new, <<>>, held) OBVIOUS
<1>9. PICK u : u = at + t OBVIOUS
<1>10. PICK x : x = Spliced(f, at, data) OBVIOUS
<1>11. PICK y : y = Spliced(g, u, rest) OBVIOUS
<1>12. Laid(new) /\ CoveredEnd(new) = e /\ u <= e BY <1>1, <1>9 DEF Covers
<1>13. /\ e \in Nat /\ n \in Nat /\ e <= n /\ IsArray(f, n)
       /\ \A p \in Nat \ {0} : Padded(f, n, p) = IF p <= e THEN Stored(old, held, p) ELSE 0
  BY <1>1, <1>5, <1>7, UnbufferedIs
<1>14. /\ IsArray(g, n)
       /\ \A p \in Nat \ {0} : Padded(g, n, p) = IF p <= e THEN Stored(new, held, p) ELSE 0
  BY <1>5, <1>8, <1>12, UnbufferedIs
<1>15. rest \in Seq(Bytes) /\ Len(rest) = Len(data) - t
       /\ \A k \in 1 .. Len(data) - t : rest[k] = data[t + k]
  BY <1>2, DroppedAt
<1>16. d \in Nat /\ t <= d /\ r = d - t /\ r \in Nat /\ \A k \in 1 .. r : rest[k] = data[t + k]
  BY <1>3, <1>4, <1>15
<1>17. u \in Nat /\ u + r = at + d BY <1>9, <1>16
<1>18. m = Max2(n, u + r) /\ m \in Nat BY <1>6, <1>13, <1>16, <1>17 DEF Max2
<1>19. OfSplice(x, m, f, n, at, data, d)
  <2>1. IsArray(f, n) BY <1>13
  <2>2. AreBytes(data, d) BY <1>3 DEF AreBytes
  <2> QED BY <1>6, <1>10, <2>1, <2>2, SplicedArray
<1>20. OfSplice(y, m, g, n, u, rest, r)
  <2>1. AreBytes(rest, r) BY <1>4, <1>15 DEF AreBytes
  <2>2. IsArray(g, n) /\ u \in Nat /\ m = Max2(n, u + r) BY <1>14, <1>17, <1>18
  <2> QED BY <1>11, <2>1, <2>2, SplicedArray
<1>21. ASSUME NEW p \in 1 .. m PROVE x[p] = y[p]
  <2>1. p \in Nat \ {0} BY <1>18
  <2>2. CASE at < p /\ p <= u
    <3>1. p <= at + d /\ p \in 1 .. e BY <1>9, <1>12, <1>13, <1>16, <2>1, <2>2
    <3>2. x[p] = data[p - at] BY <1>19, <2>2, <3>1 DEF OfSplice
    <3>3. y[p] = Padded(g, n, p) BY <1>13, <1>20, <2>1, <2>2 DEF OfSplice, Padded
    <3>4. Padded(g, n, p) = Stored(new, held, p) BY <1>14, <2>1, <3>1
    <3>5. Stored(new, held, p) = data[p - at] BY <1>1, <1>9, <2>2, <3>1 DEF Covers
    <3> QED BY <3>2, <3>3, <3>4, <3>5
  <2>3. CASE u < p /\ p <= u + r
    <3>1. PICK k : k = p - u OBVIOUS
    <3>2. k \in 1 .. r /\ p - at = t + k /\ at < p /\ p <= at + d
      BY <1>9, <1>16, <1>17, <2>1, <2>3, <3>1
    <3>3. x[p] = data[t + k] BY <1>19, <3>2 DEF OfSplice
    <3>4. y[p] = rest[k] BY <1>20, <2>3, <3>1 DEF OfSplice
    <3> QED BY <1>16, <3>2, <3>3, <3>4
  <2>4. CASE p <= at \/ at + d < p
    <3>1. (p <= at \/ at + d < p) /\ (p <= u \/ u + r < p) /\ (p <= at \/ u < p)
      BY <1>9, <1>16, <1>17, <2>1, <2>4
    <3>2. x[p] = Padded(f, n, p) BY <1>13, <1>19, <2>1, <3>1 DEF OfSplice, Padded
    <3>3. y[p] = Padded(g, n, p) BY <1>13, <1>20, <2>1, <3>1 DEF OfSplice, Padded
    <3>4. ASSUME p <= e PROVE Stored(new, held, p) = Stored(old, held, p)
      <4>1. p \in 1 .. e BY <1>13, <2>1, <3>4
      <4> QED BY <1>1, <1>9, <3>1, <4>1 DEF Covers
    <3>5. Padded(f, n, p) = Padded(g, n, p) BY <1>13, <1>14, <2>1, <3>4
    <3> QED BY <3>2, <3>3, <3>5
  <2> QED BY <1>9, <1>16, <1>17, <2>1, <2>2, <2>3, <2>4
<1>22. x = y BY <1>19, <1>20, <1>21, Agree DEF OfSplice
<1> QED BY <1>2, <1>7, <1>8, <1>9, <1>10, <1>11, <1>22

\* Nothing is written, where there is an array.
LEMMA UnchangedArray ==
  ASSUME NEW n, NEW f, IsArray(f, n), NEW at \in Nat, at <= n
  PROVE  Spliced(f, at, <<>>) = f
<1>1. PICK none, d : none = <<>> /\ d = Len(none) OBVIOUS
<1>2. none \in Seq(Bytes) /\ d = 0 BY <1>1
<1>3. PICK new : new = Spliced(f, at, none) OBVIOUS
<1>4. n = Max2(n, at + d) BY <1>2 DEF IsArray, Max2
<1>8. AreBytes(none, d) BY <1>1, <1>2 DEF AreBytes
<1>5. OfSplice(new, n, f, n, at, none, d) BY <1>3, <1>4, <1>8, SplicedArray
<1>6. ASSUME NEW p \in 1 .. n PROVE new[p] = f[p]
  <2>1. p <= n /\ (p <= at \/ at + d < p) BY <1>2 DEF IsArray
  <2> QED BY <1>5, <2>1 DEF OfSplice
<1>7. new = f BY <1>5, <1>6, Agree DEF OfSplice
<1> QED BY <1>1, <1>3, <1>7

\* What lies past the new end is dropped, what is missing before it is zeros.
LEMMA TrimmedArray ==
  ASSUME NEW size \in Nat, NEW old, Laid(old), NEW held, NEW at \in Nat,
         NEW new, Cuts(new, old, at, held)
  PROVE  Resized(Array(size, old, <<>>, held), at) = Array(at, new, <<>>, held)
<1>1. PICK e : e = CoveredEnd(old) OBVIOUS
<1>2. PICK x : x = CoveredEnd(new) OBVIOUS
<1>3. PICK n : n = Max2(size, e) OBVIOUS
<1>4. PICK m : m = Max2(at, x) OBVIOUS
<1>5. PICK f : f = Array(size, old, <<>>, held) OBVIOUS
<1>6. PICK g : g = Array(at, new, <<>>, held) OBVIOUS
<1>7. PICK y : y = Resized(f, at) OBVIOUS
<1>8. /\ e \in Nat /\ n \in Nat /\ e <= n /\ IsArray(f, n)
      /\ \A p \in Nat \ {0} : Padded(f, n, p) = IF p <= e THEN Stored(old, held, p) ELSE 0
  BY <1>1, <1>3, <1>5, UnbufferedIs
<1>9. Laid(new) /\ x = Min2(e, at) BY <1>1, <1>2 DEF Cuts
<1>10. x \in Nat /\ x <= at /\ x <= e /\ (x = e \/ x = at) BY <1>8, <1>9 DEF Min2
<1>11. m = at BY <1>4, <1>10 DEF Max2
<1>12. /\ IsArray(g, m)
       /\ \A p \in Nat \ {0} : Padded(g, m, p) = IF p <= x THEN Stored(new, held, p) ELSE 0
  <2>1. Laid(new) BY <1>9
  <2> QED BY <1>2, <1>4, <1>6, <2>1, UnbufferedIs
<1>13. /\ IsArray(y, at)
       /\ \A p \in 1 .. at : /\ p <= n => y[p] = f[p]
                             /\ n < p => y[p] = 0
  BY <1>7, <1>8, ResizedArray
<1>14. ASSUME NEW p \in 1 .. at PROVE y[p] = g[p]
  <2>1. p \in Nat \ {0} /\ p <= at OBVIOUS
  <2>2. y[p] = Padded(f, n, p) BY <1>8, <1>13, <2>1 DEF Padded
  <2>3. g[p] = Padded(g, m, p) BY <1>11, <2>1 DEF Padded
  <2>4. CASE p <= x
    <3>1. p \in 1 .. x /\ p <= e BY <1>8, <1>10, <2>1, <2>4
    <3>2. Stored(new, held, p) = Stored(old, held, p) BY <1>2, <3>1 DEF Cuts
    <3> QED BY <1>8, <1>12, <2>1, <2>2, <2>3, <2>4, <3>1, <3>2
  <2>5. CASE ~(p <= x)
    <3>1. ~(p <= e) BY <1>8, <1>10, <2>1, <2>5
    <3> QED BY <1>8, <1>12, <2>1, <2>2, <2>3, <2>5, <3>1
  <2> QED BY <2>4, <2>5
<1>15. y = g BY <1>11, <1>12, <1>13, <1>14, Agree
<1> QED BY <1>5, <1>6, <1>7, <1>15

-----------------------------------------------------------------------------
(* What a commit does to the bytes the chunks have.                        *)

\* A position is in one chunk, if it is before the end of the last.
LEMMA InOne ==
  ASSUME NEW chunks, Laid(chunks), NEW k \in DOMAIN chunks, NEW p \in Nat \ {0},
         chunks[k].offset < p, p <= EndOf(chunks[k])
  PROVE  /\ Locate(chunks, p - 1) = {k}
         /\ \A held : Stored(chunks, held, p) = Within(chunks[k], held, p)
<1>1. Len(chunks) \in Nat /\ DOMAIN chunks = 1 .. Len(chunks) BY Lengths DEF Laid
<1>2. \A j \in DOMAIN chunks : /\ chunks[j].offset \in Nat /\ EndOf(chunks[j]) \in Nat
                               /\ EndOf(chunks[j]) = chunks[j].offset + chunks[j].size
  BY DEF Laid, EndOf
<1>3. k \in Locate(chunks, p - 1)
  <2>1. chunks[k].offset <= p - 1 /\ p - 1 < EndOf(chunks[k]) BY <1>2
  <2> QED BY <1>2, <2>1 DEF Locate
<1>4. ASSUME NEW j \in Locate(chunks, p - 1) PROVE j = k
  <2>1. j \in DOMAIN chunks /\ chunks[j].offset <= p - 1 /\ p - 1 < EndOf(chunks[j])
    BY <1>2 DEF Locate
  <2>2. ~(EndOf(chunks[j]) <= chunks[k].offset) BY <1>2, <2>1
  <2>3. ~(EndOf(chunks[k]) <= chunks[j].offset) BY <1>2, <2>1
  <2>4. ~(j < k) /\ ~(k < j) BY <2>1, <2>2, <2>3 DEF Laid
  <2> QED BY <1>1, <2>1, <2>4
<1>5. Locate(chunks, p - 1) = {k} BY <1>3, <1>4
<1>6. (CHOOSE j \in {k} : TRUE) = k OBVIOUS
<1> QED BY <1>5, <1>6 DEF Stored

LEMMA InSome ==
  ASSUME NEW chunks, Laid(chunks), NEW p \in 1 .. CoveredEnd(chunks)
  PROVE  \E k \in DOMAIN chunks : chunks[k].offset < p /\ p <= EndOf(chunks[k])
<1>1. PICK pos : pos = p - 1 OBVIOUS
<1>2. CoveredEnd(chunks) \in Nat BY EndType
<1>3. pos \in Nat /\ pos < CoveredEnd(chunks) /\ p = pos + 1 BY <1>1, <1>2
<1>4. PICK k \in Locate(chunks, pos) : TRUE BY <1>3, LocateSome
<1>5. k \in DOMAIN chunks /\ chunks[k].offset <= pos /\ pos < EndOf(chunks[k])
  BY DEF Locate, EndOf
<1>6. chunks[k].offset \in Nat /\ EndOf(chunks[k]) \in Nat BY <1>5 DEF Laid, EndOf
<1>7. chunks[k].offset < p /\ p <= EndOf(chunks[k]) BY <1>3, <1>5, <1>6
<1> QED BY <1>5, <1>7

\* Past the last chunk there is none.
LEMMA InNone ==
  ASSUME NEW chunks, Laid(chunks), NEW p \in Nat \ {0}
  PROVE  (Locate(chunks, p - 1) = {}) <=> CoveredEnd(chunks) < p
<1>1. CoveredEnd(chunks) \in Nat /\ \A k \in DOMAIN chunks : EndOf(chunks[k]) <= CoveredEnd(chunks)
  BY EndType
<1>2. CASE CoveredEnd(chunks) < p
  <2>1. ASSUME NEW k \in Locate(chunks, p - 1) PROVE FALSE
    <3>1. k \in DOMAIN chunks /\ p - 1 < EndOf(chunks[k]) BY DEF Locate, EndOf
    <3>2. EndOf(chunks[k]) \in Nat BY <3>1 DEF Laid, EndOf
    <3>3. EndOf(chunks[k]) <= CoveredEnd(chunks) BY <1>1, <3>1
    <3> QED BY <1>1, <1>2, <3>1, <3>2, <3>3
  <2> QED BY <1>2, <2>1
<1>3. CASE ~(CoveredEnd(chunks) < p)
  <2>1. p \in 1 .. CoveredEnd(chunks) BY <1>1, <1>3
  <2>2. PICK k \in DOMAIN chunks : chunks[k].offset < p /\ p <= EndOf(chunks[k])
    BY <2>1, InSome
  <2>3. Locate(chunks, p - 1) = {k} BY <2>2, InOne
  <2> QED BY <1>3, <2>3
<1> QED BY <1>2, <1>3

\* A chunk more.
LEMMA LongerGrows ==
  ASSUME NEW chunks, Laid(chunks), NEW c, IsChunk(c), c.offset = CoveredEnd(chunks),
         c.size \in Nat \ {0}, NEW longer, longer = Append(chunks, c),
         NEW piece \in Seq(Bytes), Len(piece) = c.size, NEW held, c.msg \in DOMAIN held,
         held[c.msg] = piece
  PROVE  Grows(longer, chunks, piece, held)
<1>1. PICK e : e = CoveredEnd(chunks) OBVIOUS
<1>2. e \in Nat /\ \A k \in DOMAIN chunks : EndOf(chunks[k]) <= e BY <1>1, EndType
<1>3. PICK new : new = longer OBVIOUS
<1>4. Laid(new) BY <1>3, LongerLaid
<1>5. Len(chunks) \in Nat /\ DOMAIN chunks = 1 .. Len(chunks) BY Lengths DEF Laid
<1>6. PICK l : l = Len(chunks) + 1 OBVIOUS
<1>7. /\ l \in DOMAIN new /\ new[l] = c /\ new # <<>> /\ Len(new) = l
      /\ \A k \in DOMAIN chunks : k \in DOMAIN new /\ new[k] = chunks[k]
  <2>1. /\ DOMAIN new = 1 .. Len(chunks) + 1 /\ Len(new) = Len(chunks) + 1
        /\ \A k \in DOMAIN chunks : new[k] = chunks[k]
        /\ new[Len(chunks) + 1] = c
    BY <1>3 DEF Laid, Listed
  <2> QED BY <1>5, <1>6, <2>1
<1>8. CoveredEnd(new) = EndOf(c) BY <1>4, <1>7, EndIs
<1>9. EndOf(c) = e + Len(piece) BY <1>1 DEF EndOf
<1>10. ASSUME NEW p \in 1 .. e PROVE Stored(new, held, p) = Stored(chunks, held, p)
  <2>1. PICK k \in DOMAIN chunks : chunks[k].offset < p /\ p <= EndOf(chunks[k])
    BY <1>1, InSome
  <2>2. p \in Nat \ {0} BY <1>2
  <2>3. k \in DOMAIN new /\ new[k] = chunks[k] BY <1>7
  <2>4. Stored(chunks, held, p) = Within(chunks[k], held, p) BY <2>1, <2>2, InOne
  <2>5. new[k].offset < p /\ p <= EndOf(new[k]) BY <2>1, <2>3
  <2>6. Stored(new, held, p) = Within(new[k], held, p) BY <1>4, <2>2, <2>3, <2>5, InOne
  <2> QED BY <2>3, <2>4, <2>6
<1>11. ASSUME NEW i \in 1 .. Len(piece) PROVE Stored(new, held, e + i) = piece[i]
  <2>1. PICK p : p = e + i OBVIOUS
  <2>2. Len(piece) \in Nat /\ DOMAIN piece = 1 .. Len(piece) OBVIOUS
  <2>3. p \in Nat \ {0} /\ e < p /\ p <= EndOf(c) /\ p - e = i BY <1>2, <1>9, <2>1, <2>2
  <2>4. new[l].offset < p /\ p <= EndOf(new[l]) BY <1>1, <1>7, <2>3
  <2>5. Stored(new, held, p) = Within(new[l], held, p) BY <1>4, <1>7, <2>3, <2>4, InOne
  <2>6. Stored(new, held, p) = ByteAt(piece, i) BY <1>1, <1>7, <2>3, <2>5 DEF Within
  <2> QED BY <2>1, <2>2, <2>6 DEF ByteAt
<1> QED BY <1>1, <1>3, <1>4, <1>8, <1>9, <1>10, <1>11 DEF Grows

LEMMA NewChunkGrows ==
  ASSUME NEW o, NEW held, NEW n, o.step \in NewChunk, Shaped(o),
         Fitted(o.size, o.chunks, held, n), o.msg \in DOMAIN held, held[o.msg] = o.piece,
         NEW old, old = o.chunks, NEW new, new = Layout(o)
  PROVE  /\ Grows(new.chunks, old, o.piece, held)
         /\ new.size = Max2(o.size, CoveredEnd(old) + Len(o.piece))
<1>1. Layout(o) = WithNewChunk(o) BY DEF Layout, NewChunk
<1>2. Laid(old) BY DEF Fitted
<1>3. Len(o.piece) \in Nat \ {0} /\ o.piece \in Seq(Bytes) BY DEF Shaped
<1>4. PICK c : /\ IsChunk(c) /\ c.msg = o.msg /\ c.offset = CoveredEnd(old)
               /\ c.size = Len(o.piece)
               /\ new.chunks = Append(old, c)
               /\ new.size = Max2(o.size, CoveredEnd(old) + Len(o.piece))
  BY <1>1 DEF WithNewChunk, IsChunk
<1>5. PICK longer, piece, m : longer = new.chunks /\ piece = o.piece /\ m = o.msg OBVIOUS
<1>6. Grows(longer, old, piece, held) BY <1>2, <1>3, <1>4, <1>5, LongerGrows
<1> QED BY <1>4, <1>5, <1>6

\* A patch takes no more than there is to write and fits into its chunk.
LEMMA TakeIs ==
  ASSUME NEW o, Loaded(o), Laid(o.chunks), Locate(o.chunks, o.at) # {},
         NEW c, c = Patched(o), NEW t, t = PatchTake(o)
  PROVE  /\ c \in {o.chunks[k] : k \in DOMAIN o.chunks}
         /\ c.offset \in Nat /\ c.size \in Nat /\ c.offset <= o.at /\ o.at < EndOf(c)
         /\ t \in Nat /\ t <= Len(o.data) /\ o.at + t <= EndOf(c)
<1>1. PICK k \in Locate(o.chunks, o.at) : c = o.chunks[k] BY DEF Patched
<1>2. k \in DOMAIN o.chunks /\ c.offset <= o.at /\ o.at < EndOf(c)
  BY <1>1 DEF Locate, EndOf
<1>3. c.offset \in Nat /\ c.size \in Nat BY <1>1, <1>2 DEF Laid
<1>4. PICK at, e, d : at = o.at /\ e = EndOf(c) /\ d = Len(o.data) OBVIOUS
<1>5. at \in Nat /\ e \in Nat /\ d \in Nat /\ at < e BY <1>2, <1>3, <1>4 DEF Loaded, EndOf
<1>6. t = Min2(d, e - at)
  <2>1. PICK a, z : a = c.offset /\ z = c.size OBVIOUS
  <2>2. t = Min2(d, a + z - at) BY <1>4, <2>1 DEF PatchTake
  <2>3. a + z - at = e - at BY <1>3, <1>4, <1>5, <2>1 DEF EndOf
  <2> QED BY <2>2, <2>3
<1>7. t \in Nat /\ t <= d /\ at + t <= e BY <1>5, <1>6 DEF Min2
<1> QED BY <1>1, <1>2, <1>3, <1>4, <1>7

\* The bytes of the chunk a patch uploads.
LEMMA PatchedPiece ==
  ASSUME NEW bytes, NEW size, AreBytes(bytes, size), NEW at \in Nat, NEW data \in Seq(Bytes),
         NEW t \in Nat, t <= Len(data), at + t <= size,
         NEW piece, piece = Spliced(bytes, at, SubSeq(data, 1, t))
  PROVE  /\ DOMAIN piece = 1 .. size
         /\ \A i \in 1 .. size :
              /\ at < i /\ i <= at + t => piece[i] = data[i - at]
              /\ i <= at \/ at + t < i => piece[i] = bytes[i]
<1>1. PICK cut : cut = SubSeq(data, 1, t) OBVIOUS
<1>2. cut \in Seq(Bytes) /\ Len(cut) = t /\ \A k \in 1 .. t : cut[k] = data[k]
  BY <1>1
<1>3. AreBytes(cut, t) BY <1>2 DEF AreBytes
<1>4. size \in Nat BY DEF AreBytes
<1>5. IsArray(bytes, size)
  <2>1. bytes = [p \in 1 .. size |-> bytes[p]] BY DEF AreBytes
  <2> QED BY <1>4, <2>1, Tabled
<1>6. size = Max2(size, at + t) BY <1>4 DEF Max2
<1>7. piece = Spliced(bytes, at, cut) BY <1>1
<1>8. OfSplice(piece, size, bytes, size, at, cut, t) BY <1>3, <1>5, <1>6, <1>7, SplicedArray
<1>9. DOMAIN piece = 1 .. size BY <1>8 DEF OfSplice, IsArray
<1>10. ASSUME NEW i \in 1 .. size
       PROVE  /\ at < i /\ i <= at + t => piece[i] = data[i - at]
              /\ i <= at \/ at + t < i => piece[i] = bytes[i]
  <2>1. i <= size BY <1>4
  <2>2. i <= at \/ at + t < i => piece[i] = bytes[i] BY <1>8, <2>1 DEF OfSplice
  <2>3. ASSUME at < i, i <= at + t PROVE piece[i] = data[i - at]
    <3>1. i - at \in 1 .. t BY <1>4, <2>3
    <3>2. piece[i] = cut[i - at] BY <1>8, <2>3 DEF OfSplice
    <3> QED BY <1>2, <3>1, <3>2
  <2> QED BY <2>2, <2>3
<1> QED BY <1>9, <1>10

LEMMA PatchCovers ==
  ASSUME NEW o, DOMAIN o = Fields, NEW held, NEW n, o.step = "patch", Loaded(o), Shaped(o),
         Fitted(o.size, o.chunks, held, n), Fresher(o, held, n), o.msg \in DOMAIN held,
         Patched(o).msg \in DOMAIN held,
         o.piece = Spliced(held[Patched(o).msg], o.at - Patched(o).offset,
                           SubSeq(o.data, 1, PatchTake(o))),
         NEW old, old = o.chunks, NEW new, new = Layout(o).chunks
  PROVE  Covers(new, old, o.at, o.data, PatchTake(o), held)
<1>1. PICK at, t, data, piece : at = o.at /\ t = PatchTake(o) /\ data = o.data /\ piece = o.piece
  OBVIOUS
<1>2. Laid(old) /\ Locate(old, at) # {} /\ at \in Nat /\ data \in Seq(Bytes)
  BY <1>1 DEF Fitted, Shaped, Loaded
<1>3. PICK p : p = CHOOSE k \in Locate(old, at) : TRUE OBVIOUS
<1>4. /\ Laid(new) /\ DOMAIN new = DOMAIN old /\ p \in DOMAIN old /\ old[p] = Patched(o)
      /\ new[p].msg = o.msg /\ new[p].size = old[p].size /\ new[p].offset = old[p].offset
      /\ \A k \in DOMAIN old \ {p} : new[k] = old[k]
  <2>1. PICK lay : lay = Layout(o) OBVIOUS
  <2>2. /\ Fitted(lay.size, lay.chunks, held, n)
        /\ DOMAIN lay.chunks = DOMAIN old /\ p \in DOMAIN old /\ old[p] = Patched(o)
        /\ lay.chunks[p].msg = o.msg /\ lay.chunks[p].size = old[p].size
        /\ lay.chunks[p].offset = old[p].offset
        /\ \A k \in DOMAIN old \ {p} : lay.chunks[k] = old[k]
    BY <1>1, <1>3, <2>1, PatchIs
  <2> QED BY <2>1, <2>2 DEF Fitted
<1>5. PICK c : c = old[p] OBVIOUS
<1>6. /\ c.offset \in Nat /\ c.size \in Nat /\ c.offset <= at /\ at < EndOf(c)
      /\ t \in Nat /\ t <= Len(data) /\ at + t <= EndOf(c)
  BY <1>1, <1>2, <1>4, <1>5, TakeIs
<1>7. CoveredEnd(new) = CoveredEnd(old)
  <2>1. old # <<>> /\ new # <<>> BY <1>4
  <2>2. Len(old) \in DOMAIN old /\ CoveredEnd(old) = EndOf(old[Len(old)]) BY <1>2, <2>1, EndIs
  <2>3. Len(new) \in DOMAIN new /\ CoveredEnd(new) = EndOf(new[Len(new)]) BY <1>4, <2>1, EndIs
  <2>4. Len(new) = Len(old)
    <3>1. PICK a, b : a = Len(new) /\ b = Len(old) OBVIOUS
    <3>2. a \in Nat /\ DOMAIN new = 1 .. a BY <1>4, <3>1, Lengths DEF Laid
    <3>3. b \in Nat /\ DOMAIN old = 1 .. b BY <1>2, <3>1, Lengths DEF Laid
    <3>4. 1 .. a = 1 .. b BY <1>4, <3>2, <3>3
    <3>5. a = b BY <3>2, <3>3, <3>4
    <3> QED BY <3>1, <3>5
  <2>5. \A k \in DOMAIN old : EndOf(new[k]) = EndOf(old[k]) BY <1>4 DEF EndOf
  <2> QED BY <2>2, <2>3, <2>4, <2>5
<1>8. CoveredEnd(old) \in Nat /\ EndOf(c) <= CoveredEnd(old) BY <1>2, <1>4, <1>5, EndType
<1>9. PICK bytes, off : bytes = held[c.msg] /\ off = at - c.offset OBVIOUS
<1>10. off \in Nat /\ off + t <= c.size
  <2>1. PICK a, z : a = c.offset /\ z = c.size OBVIOUS
  <2>2. a \in Nat /\ z \in Nat /\ a <= at /\ at + t <= a + z /\ off = at - a
    BY <1>6, <1>9, <2>1 DEF EndOf
  <2> QED BY <1>2, <1>6, <2>1, <2>2
<1>11. AreBytes(bytes, c.size) BY <1>4, <1>5, <1>9 DEF Fitted, Holds
<1>12. piece = Spliced(bytes, off, SubSeq(data, 1, t)) BY <1>1, <1>4, <1>5, <1>9
<1>13. /\ DOMAIN piece = 1 .. c.size
       /\ \A i \in 1 .. c.size :
            /\ off < i /\ i <= off + t => piece[i] = data[i - off]
            /\ i <= off \/ off + t < i => piece[i] = bytes[i]
  BY <1>2, <1>6, <1>10, <1>11, <1>12, PatchedPiece
<1>14. ASSUME NEW i \in 1 .. CoveredEnd(old)
       PROVE  /\ at < i /\ i <= at + t => Stored(new, held, i) = data[i - at]
              /\ i <= at \/ at + t < i => Stored(new, held, i) = Stored(old, held, i)
  <2>1. i \in Nat \ {0} BY <1>8
  <2>2. PICK k \in DOMAIN old : old[k].offset < i /\ i <= EndOf(old[k]) BY <1>2, InSome
  <2>3. Locate(old, i - 1) = {k} /\ Stored(old, held, i) = Within(old[k], held, i)
    BY <1>2, <2>1, <2>2, InOne
  <2>4. new[k].offset < i /\ i <= EndOf(new[k]) BY <1>4, <2>2 DEF EndOf
  <2>5. Stored(new, held, i) = Within(new[k], held, i) BY <1>4, <2>1, <2>4, InOne
  <2>6. CASE k # p
    <3>1. ASSUME at < i, i <= at + t PROVE FALSE
      <4>1. c.offset < i /\ i <= EndOf(c)
        <5>1. EndOf(c) \in Nat BY <1>6 DEF EndOf
        <5> QED BY <1>2, <1>6, <2>1, <3>1, <5>1
      <4>2. Locate(old, i - 1) = {p} BY <1>2, <1>4, <1>5, <2>1, <4>1, InOne
      <4> QED BY <2>3, <2>6, <4>2
    <3>2. Stored(new, held, i) = Stored(old, held, i) BY <1>4, <2>3, <2>5, <2>6
    <3> QED BY <3>1, <3>2
  <2>7. CASE k = p
    <3>1. PICK j : j = i - c.offset OBVIOUS
    <3>2. j \in 1 .. c.size BY <1>5, <1>6, <2>1, <2>2, <2>7, <3>1 DEF EndOf
    <3>3. Stored(old, held, i) = bytes[j]
      <4>1. DOMAIN bytes = 1 .. c.size BY <1>11 DEF AreBytes
      <4> QED BY <1>4, <1>5, <1>9, <2>3, <2>7, <3>1, <3>2, <4>1 DEF Within, ByteAt
    <3>4. Stored(new, held, i) = piece[j]
      <4>1. held[o.msg] = piece BY <1>1 DEF Fresher
      <4> QED BY <1>4, <1>5, <1>13, <2>5, <2>7, <3>1, <3>2, <4>1 DEF Within, ByteAt
    <3>5. ASSUME at < i, i <= at + t PROVE Stored(new, held, i) = data[i - at]
      <4>1. PICK a : a = c.offset OBVIOUS
      <4>2. a \in Nat /\ at \in Nat /\ t \in Nat /\ i \in Nat /\ off = at - a /\ j = i - a
        BY <1>2, <1>6, <1>9, <2>1, <3>1, <4>1
      <4>3. off < j /\ j <= off + t /\ j - off = i - at BY <3>5, <4>2
      <4> QED BY <1>13, <3>2, <3>4, <4>3
    <3>6. ASSUME i <= at \/ at + t < i PROVE Stored(new, held, i) = Stored(old, held, i)
      <4>1. j <= off \/ off + t < j BY <1>2, <1>6, <1>9, <2>1, <3>1, <3>6
      <4> QED BY <1>13, <3>2, <3>3, <3>4, <4>1
    <3> QED BY <3>5, <3>6
  <2> QED BY <2>6, <2>7
<1>15. at + t <= CoveredEnd(old)
  <2>1. EndOf(c) \in Nat BY <1>6 DEF EndOf
  <2> QED BY <1>2, <1>6, <1>8, <2>1
<1> QED BY <1>1, <1>4, <1>7, <1>14, <1>15 DEF Covers

LEMMA NoChunks ==
  ASSUME NEW chunks, Laid(chunks), Len(chunks) = 0
  PROVE  chunks = <<>> /\ CoveredEnd(chunks) = 0
<1>1. chunks = <<>> BY DEF Laid, Listed
<1> QED BY <1>1 DEF CoveredEnd

\* Where the first m chunks end.
LEMMA PrefixEnd ==
  ASSUME NEW chunks, Laid(chunks), NEW m \in 0 .. Len(chunks), NEW kept,
         kept = SubSeq(chunks, 1, m)
  PROVE  /\ m = 0 => CoveredEnd(kept) = 0
         /\ m # 0 => m \in DOMAIN chunks /\ CoveredEnd(kept) = EndOf(chunks[m])
         /\ m + 1 \in DOMAIN chunks => CoveredEnd(kept) = chunks[m + 1].offset
<1>1. Len(chunks) \in Nat /\ DOMAIN chunks = 1 .. Len(chunks) BY Lengths DEF Laid
<1>2. PICK new : new = kept OBVIOUS
<1>3. Laid(new) /\ Len(new) = m /\ \A k \in 1 .. m : new[k] = chunks[k] BY <1>2, PrefixLaid
<1>4. CASE m = 0
  <2>2. CoveredEnd(new) = 0 BY <1>3, <1>4, NoChunks
  <2>3. m + 1 \in DOMAIN chunks => chunks[m + 1].offset = 0 BY <1>4 DEF Laid
  <2> QED BY <1>2, <1>4, <2>2, <2>3
<1>5. CASE m # 0
  <2>1. m \in 1 .. m /\ m \in DOMAIN chunks /\ m + 1 # 1 BY <1>1, <1>5
  <2>2. new # <<>> BY <1>3, <1>5
  <2>3. CoveredEnd(new) = EndOf(new[m]) BY <1>3, <2>2, EndIs
  <2>4. m + 1 \in DOMAIN chunks => chunks[m + 1].offset = EndOf(chunks[m])
    <3>1. PICK k : k = m + 1 OBVIOUS
    <3>2. k # 1 /\ k - 1 = m BY <1>1, <2>1, <3>1
    <3> QED BY <3>1, <3>2 DEF Laid
  <2> QED BY <1>2, <1>3, <1>5, <2>1, <2>3, <2>4
<1> QED BY <1>4, <1>5

\* What a resize keeps: the chunks that end before the new end, and of the one the new
\* end falls inside, what is before it.
Shortened(old, m, c, o) ==
  /\ m + 1 \in DOMAIN old /\ Straddler(o) = old[m + 1] /\ o.at < EndOf(old[m + 1])
  /\ IsChunk(c) /\ c.msg = o.msg /\ c.index = old[m + 1].index
  /\ c.offset = old[m + 1].offset /\ c.size = o.at - c.offset
  /\ c.offset \in Nat /\ c.size \in Nat \ {0} /\ EndOf(c) = o.at

Trimmed(old, m, new, o) ==
  /\ \A k \in DOMAIN old : k <= m <=> EndOf(old[k]) <= o.at
  /\ Bare(o) => new = SubSeq(old, 1, m)
  /\ ~Bare(o) => \E c : Shortened(old, m, c, o) /\ new = Append(SubSeq(old, 1, m), c)

LEMMA TrimTo ==
  ASSUME NEW o, o.step = "trim", Loaded(o), Laid(o.chunks),
         NEW old, old = o.chunks, NEW new, new = Layout(o)
  PROVE  new.size = o.at /\ \E m \in 0 .. Len(old) : Trimmed(old, m, new.chunks, o)
<1>1. Listed(old) BY DEF Laid
<1>2. /\ Len(old) \in Nat /\ DOMAIN old = 1 .. Len(old)
      /\ \A k \in DOMAIN old : IsChunk(old[k])
  BY Lengths DEF Laid, Listed
<1>3. PICK before : before = {k \in DOMAIN old : EndOf(old[k]) <= o.at} OBVIOUS
<1>4. PICK m \in 0 .. Len(old) : before = 1 .. m /\ Cardinality(before) = m
  <2>1. PICK at \in Nat : at = o.at BY DEF Loaded
  <2>2. /\ before \in SUBSET DOMAIN old
        /\ \A k \in DOMAIN old : k \in before <=> EndOf(old[k]) <= at
    BY <1>3, <2>1
  <2> QED BY <2>1, <2>2, BeforeIs
<1>5. PICK kept : kept = SubSeq(old, 1, m) OBVIOUS
<1>6. /\ new.size = o.at
      /\ new.chunks = IF Straddlers(o) = {} THEN kept
                      ELSE Append(kept, [Straddler(o) EXCEPT !.msg = o.msg,
                                                             !.size = o.at - Straddler(o).offset])
  BY <1>3, <1>4, <1>5 DEF Layout, NewChunk, WithTrim, EndOf
<1>7. \A k \in DOMAIN old : k <= m <=> EndOf(old[k]) <= o.at BY <1>2, <1>3, <1>4
<1>8. CASE Straddlers(o) = {} BY <1>5, <1>6, <1>7, <1>8 DEF Bare, Trimmed
<1>9. CASE Straddlers(o) # {}
  <2>1. PICK k \in Straddlers(o) : Straddler(o) = old[k] BY <1>9 DEF Straddler
  <2>2. k \in DOMAIN old /\ old[k].offset < o.at /\ o.at < EndOf(old[k])
    BY <2>1 DEF Straddlers, EndOf, Loaded, Laid
  <2>3. k = m + 1
    <3>1. k \notin before
      <4>1. EndOf(old[k]) \in Nat BY <2>2 DEF Laid, EndOf
      <4> QED BY <1>3, <2>2, <4>1 DEF Loaded
    <3>2. CASE k = 1 BY <1>4, <3>1, <3>2
    <3>3. CASE k # 1
      <4>1. k - 1 \in DOMAIN old BY <1>2, <2>2, <3>3
      <4>2. EndOf(old[k - 1]) = old[k].offset /\ old[k].offset \in Nat
        BY <2>2, <3>3 DEF Laid
      <4>3. k - 1 \in before BY <1>3, <2>2, <4>1, <4>2 DEF Loaded
      <4> QED BY <1>2, <1>4, <2>2, <3>1, <4>3
    <3> QED BY <3>2, <3>3
  <2>4. PICK p, i, at, z : old[k] = [msg |-> p, index |-> i, offset |-> at, size |-> z]
    <3>1. IsChunk(old[k]) BY <1>2, <2>2
    <3> QED BY <3>1 DEF IsChunk
  <2>5. PICK c : c = [msg |-> o.msg, index |-> i, offset |-> at, size |-> o.at - at]
    OBVIOUS
  <2>6. new.chunks = Append(kept, c)
    <3>1. PICK d, x, y : d = Straddler(o) /\ x = o.msg /\ y = o.at - at OBVIOUS
    <3>2. d = [msg |-> p, index |-> i, offset |-> at, size |-> z] BY <2>1, <2>4, <3>1
    <3>3. [d EXCEPT !.msg = x] = [msg |-> x, index |-> i, offset |-> at, size |-> z]
      BY <3>2
    <3>4. PICK cut : cut = [d EXCEPT !.msg = x, !.size = y] OBVIOUS
    <3>5. cut = [[d EXCEPT !.msg = x] EXCEPT !.size = y] BY <3>4
    <3>6. cut = [msg |-> x, index |-> i, offset |-> at, size |-> y] BY <3>3, <3>5
    <3>7. d.offset = at BY <3>2
    <3> QED BY <1>6, <1>9, <2>5, <3>1, <3>4, <3>6, <3>7
  <2>7. IsChunk(c) /\ c.msg = o.msg /\ c.offset = at /\ c.size = o.at - at /\ c.index = i
    BY <2>5 DEF IsChunk
  <2>8. at \in Nat /\ at < o.at /\ at = old[k].offset /\ i = old[k].index
    BY <2>2, <2>4 DEF Laid
  <2>9. c.size \in Nat \ {0} /\ EndOf(c) = o.at
    <3>1. PICK e : e = o.at OBVIOUS
    <3>2. e \in Nat /\ c.offset = at /\ c.size = e - at /\ at < e
      BY <2>7, <2>8, <3>1 DEF Loaded
    <3> QED BY <2>8, <3>1, <3>2 DEF EndOf
  <2>10. Shortened(old, m, c, o) BY <2>1, <2>2, <2>3, <2>7, <2>8, <2>9 DEF Shortened
  <2> QED BY <1>5, <1>6, <1>7, <1>9, <2>6, <2>10 DEF Bare, Trimmed
<1> QED BY <1>8, <1>9

\* What lies past a new end goes.
LEMMA TrimCuts ==
  ASSUME NEW o, NEW held, NEW n, o.step = "trim", Loaded(o),
         Fitted(o.size, o.chunks, held, n), Straddlers(o) = {} \/ o.piece \in Seq(Bytes),
         Bare(o) \/ (/\ o.msg \in DOMAIN held /\ held[o.msg] = o.piece
                     /\ Straddler(o).msg \in DOMAIN held
                     /\ o.piece = SubSeq(held[Straddler(o).msg], 1, o.at - Straddler(o).offset)),
         NEW old, old = o.chunks, NEW new, new = Layout(o).chunks
  PROVE  Cuts(new, old, o.at, held) /\ Layout(o).size = o.at
<1>1. Laid(old) BY DEF Fitted
<1>2. Len(old) \in Nat /\ DOMAIN old = 1 .. Len(old) BY <1>1, Lengths DEF Laid
<1>3. PICK at : at = o.at OBVIOUS
<1>4. at \in Nat BY <1>3 DEF Loaded
<1>5. PICK m \in 0 .. Len(old) :
        /\ \A k \in DOMAIN old : k <= m <=> EndOf(old[k]) <= at
        /\ Bare(o) => new = SubSeq(old, 1, m)
        /\ ~Bare(o) => \E c : Shortened(old, m, c, o) /\ new = Append(SubSeq(old, 1, m), c)
  <2>1. PICK lay : lay = Layout(o) OBVIOUS
  <2>2. \E m \in 0 .. Len(old) : Trimmed(old, m, lay.chunks, o) BY <1>1, <2>1, TrimTo
  <2> QED BY <1>3, <2>1, <2>2 DEF Trimmed
<1>6. Layout(o).size = at
  <2>1. PICK lay : lay = Layout(o) OBVIOUS
  <2>2. lay.size = o.at BY <1>1, <2>1, TrimTo
  <2> QED BY <1>3, <2>1, <2>2
<1>7. PICK kept : kept = SubSeq(old, 1, m) OBVIOUS
<1>8. PICK x : x = CoveredEnd(kept) OBVIOUS
<1>9. Laid(kept) /\ Len(kept) = m /\ \A k \in 1 .. m : kept[k] = old[k] BY <1>1, <1>7, PrefixLaid
<1>10. DOMAIN kept = 1 .. m /\ 1 .. m \subseteq DOMAIN old BY <1>2, <1>9, Lengths DEF Laid
<1>11. /\ m = 0 => x = 0
       /\ m # 0 => m \in DOMAIN old /\ x = EndOf(old[m])
       /\ m + 1 \in DOMAIN old => x = old[m + 1].offset
  BY <1>1, <1>7, <1>8, PrefixEnd
<1>12. /\ x \in Nat /\ CoveredEnd(old) \in Nat
       /\ \A k \in DOMAIN old : EndOf(old[k]) <= CoveredEnd(old)
  BY <1>1, <1>8, <1>9, EndType
<1>13. x <= at BY <1>4, <1>5, <1>11
<1>14. ASSUME NEW p \in 1 .. x PROVE Stored(kept, held, p) = Stored(old, held, p)
  <2>1. PICK k \in DOMAIN kept : kept[k].offset < p /\ p <= EndOf(kept[k])
    BY <1>8, <1>9, InSome
  <2>2. p \in Nat \ {0} BY <1>12
  <2>3. k \in DOMAIN old /\ kept[k] = old[k] BY <1>9, <1>10
  <2>4. Stored(kept, held, p) = Within(kept[k], held, p) BY <1>9, <2>1, <2>2, InOne
  <2>5. old[k].offset < p /\ p <= EndOf(old[k]) BY <2>1, <2>3
  <2>6. Stored(old, held, p) = Within(old[k], held, p) BY <1>1, <2>2, <2>3, <2>5, InOne
  <2> QED BY <2>3, <2>4, <2>6
<1>15. CASE Bare(o)
  <2>1. new = kept BY <1>5, <1>7, <1>15
  <2>2. x = Min2(CoveredEnd(old), at)
    <3>1. CASE m = Len(old)
      <4>1. CASE m = 0
        <5>1. CoveredEnd(old) = 0 BY <1>1, <3>1, <4>1, NoChunks
        <5> QED BY <1>4, <1>11, <4>1, <5>1 DEF Min2
      <4>2. CASE m # 0
        <5>1. old # <<>> BY <1>11, <4>2
        <5>2. CoveredEnd(old) = EndOf(old[m]) BY <1>1, <3>1, <5>1, EndIs
        <5> QED BY <1>4, <1>11, <1>12, <1>13, <4>2, <5>2 DEF Min2
      <4> QED BY <4>1, <4>2
    <3>2. CASE m # Len(old)
      <4>1. PICK k : k = m + 1 OBVIOUS
      <4>2. k \in DOMAIN old /\ ~(k <= m) /\ x = old[k].offset BY <1>2, <1>11, <3>2, <4>1
      <4>3. ~(EndOf(old[k]) <= at) BY <1>5, <4>2
      <4>4. k \notin Straddlers(o) BY <1>15 DEF Bare
      <4>5. EndOf(old[k]) \in Nat /\ EndOf(old[k]) = old[k].offset + old[k].size
        BY <1>1, <4>2 DEF Laid, EndOf
      <4>6. EndOf(old[k]) > at BY <1>4, <4>3, <4>5
      <4>7. ~(old[k].offset < at) BY <1>3, <4>2, <4>4, <4>5, <4>6 DEF Straddlers
      <4>8. x = at BY <1>4, <1>12, <1>13, <4>2, <4>7
      <4>9. at < CoveredEnd(old) BY <1>4, <1>12, <4>2, <4>5, <4>6
      <4> QED BY <1>4, <1>12, <4>8, <4>9 DEF Min2
    <3> QED BY <3>1, <3>2
  <2> QED BY <1>3, <1>6, <1>8, <1>9, <1>14, <2>1, <2>2 DEF Cuts
<1>16. CASE ~Bare(o)
  <2>1. PICK c : Shortened(old, m, c, o) /\ new = Append(kept, c) BY <1>5, <1>7, <1>16
  <2>2. PICK d : d = old[m + 1] OBVIOUS
  <2>3. /\ m + 1 \in DOMAIN old /\ Straddler(o) = d /\ at < EndOf(d)
        /\ IsChunk(c) /\ c.msg = o.msg /\ c.offset = d.offset /\ c.size = at - c.offset
        /\ c.offset \in Nat /\ c.size \in Nat \ {0} /\ EndOf(c) = at
    BY <1>3, <2>1, <2>2 DEF Shortened
  <2>4. c.offset = x BY <1>11, <2>2, <2>3
  <2>5. PICK piece, bytes : piece = o.piece /\ bytes = held[d.msg] OBVIOUS
  <2>6. /\ o.msg \in DOMAIN held /\ held[o.msg] = piece /\ d.msg \in DOMAIN held
        /\ piece = SubSeq(bytes, 1, c.size)
    BY <1>3, <1>16, <2>3, <2>5
  <2>7. AreBytes(bytes, d.size) BY <2>2, <2>3, <2>5, <2>6 DEF Fitted, Holds
  <2>8. d.size \in Nat /\ c.size <= d.size
    <3>1. d.size \in Nat /\ d.offset \in Nat BY <1>1, <2>2, <2>3 DEF Laid
    <3> QED BY <1>4, <2>3, <3>1 DEF EndOf
  <2>9. /\ piece \in Seq(Bytes) /\ Len(piece) = c.size
        /\ \A i \in 1 .. c.size : piece[i] = bytes[i]
    BY <2>3, <2>6, <2>7, <2>8 DEF AreBytes
  <2>10. PICK longer : longer = Append(kept, c) OBVIOUS
  <2>11. Grows(longer, kept, piece, held)
    BY <1>8, <1>9, <2>3, <2>4, <2>6, <2>9, <2>10, LongerGrows
  <2>12. Laid(longer) /\ CoveredEnd(longer) = at
    <3>1. Laid(longer) /\ CoveredEnd(longer) = x + c.size BY <1>8, <2>9, <2>11 DEF Grows
    <3>2. PICK z : z = c.size OBVIOUS
    <3>3. z = at - x /\ CoveredEnd(longer) = x + z BY <2>3, <2>4, <3>1, <3>2
    <3> QED BY <1>4, <1>12, <3>1, <3>3
  <2>13. at = Min2(CoveredEnd(old), at)
    <3>1. EndOf(d) <= CoveredEnd(old) BY <1>12, <2>2, <2>3
    <3>2. EndOf(d) \in Nat BY <1>1, <2>2, <2>3 DEF Laid, EndOf
    <3> QED BY <1>4, <1>12, <2>3, <3>1, <3>2 DEF Min2
  <2>14. ASSUME NEW p \in 1 .. at PROVE Stored(longer, held, p) = Stored(old, held, p)
    <3>1. CASE p <= x
      <4>1. p \in 1 .. x BY <1>4, <1>12, <3>1
      <4> QED BY <1>8, <1>14, <2>11, <4>1 DEF Grows
    <3>2. CASE x < p
      <4>1. PICK i, k : i = p - x /\ k = m + 1 OBVIOUS
      <4>2. i \in 1 .. c.size /\ p = x + i /\ p - d.offset = i
        BY <1>4, <1>12, <2>3, <2>4, <3>2, <4>1
      <4>3. Stored(longer, held, x + i) = piece[i] BY <1>8, <2>9, <2>11, <4>2 DEF Grows
      <4>4. p \in Nat \ {0} /\ d.offset < p /\ p <= EndOf(d)
        <5>1. EndOf(d) \in Nat BY <1>1, <2>2, <2>3 DEF Laid, EndOf
        <5> QED BY <1>4, <1>12, <2>3, <2>4, <3>2, <5>1
      <4>5. k \in DOMAIN old /\ old[k] = d BY <2>2, <2>3, <4>1
      <4>6. Stored(old, held, p) = Within(d, held, p) BY <1>1, <4>4, <4>5, InOne
      <4>7. DOMAIN bytes = 1 .. d.size /\ i \in 1 .. d.size
        <5>1. bytes \in Seq(Bytes) /\ Len(bytes) = d.size BY <2>7 DEF AreBytes
        <5>2. c.size \in Nat BY <2>3
        <5> QED BY <2>8, <4>2, <5>1, <5>2
      <4>8. Within(d, held, p) = bytes[i] BY <2>5, <2>6, <4>2, <4>7 DEF Within, ByteAt
      <4> QED BY <2>9, <4>2, <4>3, <4>6, <4>8
    <3> QED BY <1>4, <1>12, <3>1, <3>2
  <2> QED BY <1>3, <1>6, <2>1, <2>10, <2>12, <2>13, <2>14 DEF Cuts
<1> QED BY <1>15, <1>16

-----------------------------------------------------------------------------
(* What a handle alone on its file owes its caller.                        *)

\* What a method that flushes first makes of the array after that.
Asked(o, all) ==
  CASE o.task = "random" -> Spliced(all, o.at, o.data)
    [] o.task = "resize" -> Resized(all, o.at)
    [] OTHER             -> all

\* What a method makes of the array from the upload it is at, and once that is
\* committed.
Due(o, held) ==
  LET all == Array(o.size, o.chunks, o.buffer, held) IN
  CASE o.step = "append"           -> all
    [] o.step = "flush"            -> Asked(o, all)
    [] o.step \in {"gap", "patch"} -> Spliced(all, o.at, o.data)
    [] o.step = "extend"           -> Spliced(all, CoveredEnd(o.chunks), o.data)
    [] o.step = "trim"             -> Resized(all, o.at)

Left(o, held) ==
  LET all == Array(o.size, o.chunks, <<>>, held) IN
  CASE o.step = "append" -> Array(o.size, o.chunks, Dropped(o.buffer, Len(o.piece)), held)
    [] o.step = "flush"  -> Asked(o, all)
    [] o.step = "gap"    -> Spliced(all, o.at, o.data)
    [] o.step = "patch"  -> Spliced(all, o.at + PatchTake(o), Dropped(o.data, PatchTake(o)))
    [] o.step = "extend" -> Spliced(all, CoveredEnd(o.chunks), Dropped(o.data, Len(o.piece)))
    [] o.step = "trim"   -> all

\* Chunks are rewritten when nothing is buffered, and an upload is of the bytes the
\* step takes.
Planned(o) ==
  /\ o.step \notin {"append", "flush"} => o.buffer = <<>>
  /\ o.step = "append" => IsPrefix(o.piece, o.buffer)
  /\ o.step = "flush" => o.piece = o.buffer
  /\ o.step = "gap" => /\ CoveredEnd(o.chunks) + Len(o.piece) <= o.at
                       /\ \A k \in 1 .. Len(o.piece) : o.piece[k] = 0
  /\ o.step = "extend" => IsPrefix(o.piece, o.data)

\* What the attachment just uploaded was made from.
Made(o, held) ==
  /\ o.msg \in DOMAIN held
  /\ o.step = "patch" =>
       /\ Patched(o).msg \in DOMAIN held
       /\ o.piece = Spliced(held[Patched(o).msg], o.at - Patched(o).offset,
                            SubSeq(o.data, 1, PatchTake(o)))
  /\ o.step = "trim" =>
       /\ Straddler(o).msg \in DOMAIN held
       /\ o.piece = SubSeq(held[Straddler(o).msg], 1, o.at - Straddler(o).offset)

\* What is cached is on Discord too.
Backed(o, held) ==
  \A k \in DOMAIN o.chunks :
    o.chunks[k].index \in DOMAIN o.cache => o.chunks[k].msg \in DOMAIN held

\* The next await of a handle that has not failed leads to what the operations
\* called so far make.
Kept(o, held) ==
  o.open /\ ~o.failed =>
    /\ Backed(o, held)
    /\ o.pc = "idle" => o.goal = Array(o.size, o.chunks, o.buffer, held)
    /\ o.pc \in {"upload", "commit", "ack"} => Planned(o) /\ o.goal = Due(o, held)
    /\ o.pc \in {"commit", "ack"} /\ ~Bare(o) => Made(o, held)
    /\ Behind(o) => /\ o.goal = Left(o, held)
                    /\ o.step \notin {"append", "flush"} => o.buffer = <<>>
                    /\ o.step = "patch" => o.msg \in DOMAIN held

\* What a read makes is the array, since what is cached is what is stored.
LEMMA ViewIs ==
  ASSUME NEW o, Loaded(o), Laid(o.chunks), Backed(o, discord),
         \A k \in DOMAIN o.chunks : Mirrors(o.cache, o.chunks[k], discord)
  PROVE  View(o) = Array(o.size, o.chunks, o.buffer, discord)
<1>1. PICK old, buffer, e, b :
        old = o.chunks /\ buffer = o.buffer /\ e = CoveredEnd(old) /\ b = Len(buffer)
  OBVIOUS
<1>2. e \in Nat /\ b \in Nat /\ Laid(old) BY <1>1, EndType DEF Loaded
<1>3. PICK n : n = Max2(o.size, e + b) OBVIOUS
<1>4. n \in Nat BY <1>2, <1>3 DEF Loaded, Max2
<1>5. PICK seen : seen = View(o) OBVIOUS
<1>6. /\ DOMAIN seen = 1 .. n /\ seen = [p \in 1 .. n |-> seen[p]]
      /\ \A p \in 1 .. n :
           seen[p] =
             IF Locate(old, p - 1) # {}
             THEN LET c == old[CHOOSE k \in Locate(old, p - 1) : TRUE]
                  IN  IF Readable(o, c) THEN ByteAt(ChunkBytes(o, c), p - c.offset) ELSE 0
             ELSE IF p - 1 - e \in 0 .. b - 1 THEN buffer[p - e] ELSE 0
  BY <1>1, <1>3, <1>5 DEF View, EndOfFile, AppendPosition
<1>7. ASSUME NEW p \in 1 .. n PROVE seen[p] = Byte(old, buffer, discord, p)
  <2>1. p \in Nat \ {0} BY <1>4
  <2>2. Locate(old, p - 1) = {} <=> e < p BY <1>1, <1>2, <2>1, InNone
  <2>3. CASE p <= e
    <3>1. Locate(old, p - 1) # {} BY <1>2, <2>1, <2>2, <2>3
    <3>2. PICK j : j = CHOOSE k \in Locate(old, p - 1) : TRUE OBVIOUS
    <3>3. j \in DOMAIN old BY <3>1, <3>2 DEF Locate
    <3>4. PICK c : c = old[j] OBVIOUS
    <3>5. /\ Mirrors(o.cache, c, discord)
          /\ c.index \in DOMAIN o.cache => c.msg \in DOMAIN discord
      BY <1>1, <3>3, <3>4 DEF Backed
    <3>6. seen[p] = IF Readable(o, c) THEN ByteAt(ChunkBytes(o, c), p - c.offset) ELSE 0
      BY <1>6, <3>1, <3>2, <3>4
    <3>7. Readable(o, c) <=> c.msg \in DOMAIN discord BY <3>5 DEF Readable
    <3>8. c.msg \in DOMAIN discord => ChunkBytes(o, c) = discord[c.msg]
      BY <3>5 DEF ChunkBytes, Mirrors, Matches
    <3>9. seen[p] = Within(c, discord, p) BY <3>6, <3>7, <3>8 DEF Within
    <3>10. Stored(old, discord, p) = Within(c, discord, p) BY <3>1, <3>2, <3>4 DEF Stored
    <3> QED BY <1>1, <2>3, <3>9, <3>10 DEF Byte
  <2>4. CASE e < p
    <3>1. Locate(old, p - 1) = {} BY <2>2, <2>4
    <3>2. seen[p] = IF p - 1 - e \in 0 .. b - 1 THEN buffer[p - e] ELSE 0 BY <1>6, <3>1
    <3>3. p - 1 - e \in 0 .. b - 1 <=> p <= e + b BY <1>2, <2>1, <2>4
    <3>4. ~(p <= e) BY <1>2, <2>1, <2>4
    <3> QED BY <1>1, <3>2, <3>3, <3>4 DEF Byte
  <2> QED BY <1>2, <2>1, <2>3, <2>4
<1>8. Array(o.size, old, buffer, discord) = [p \in 1 .. n |-> Byte(old, buffer, discord, p)]
  BY <1>1, <1>3 DEF Array
<1>9. [p \in 1 .. n |-> seen[p]] = [p \in 1 .. n |-> Byte(old, buffer, discord, p)] BY <1>7
<1> QED BY <1>1, <1>5, <1>6, <1>8, <1>9

\* Attachments no chunk names make no difference.
SameFor(chunks, now, held) ==
  \A k \in DOMAIN chunks :
    /\ chunks[k].msg \in DOMAIN now <=> chunks[k].msg \in DOMAIN held
    /\ chunks[k].msg \in DOMAIN held => now[chunks[k].msg] = held[chunks[k].msg]

LEMMA SameArray ==
  ASSUME NEW chunks, NEW now, NEW held, SameFor(chunks, now, held)
  PROVE  \A size, buffer :
           Array(size, chunks, buffer, now) = Array(size, chunks, buffer, held)
<1>1. \A p : Stored(chunks, now, p) = Stored(chunks, held, p)
  <2> SUFFICES ASSUME NEW p, Locate(chunks, p - 1) # {}
               PROVE  Stored(chunks, now, p) = Stored(chunks, held, p)
    BY DEF Stored
  <2>1. PICK j : j = CHOOSE k \in Locate(chunks, p - 1) : TRUE OBVIOUS
  <2>2. j \in DOMAIN chunks BY <2>1 DEF Locate
  <2>3. Within(chunks[j], now, p) = Within(chunks[j], held, p)
    BY <2>2 DEF SameFor, Within
  <2> QED BY <2>1, <2>3 DEF Stored
<1>2. \A buffer, p : Byte(chunks, buffer, now, p) = Byte(chunks, buffer, held, p)
  BY <1>1 DEF Byte
<1> QED BY <1>2 DEF Array

LEMMA AllDropped ==
  ASSUME NEW bytes \in Seq(Bytes)
  PROVE  Dropped(bytes, Len(bytes)) = <<>>
<1>1. PICK n : n = Len(bytes) OBVIOUS
<1>2. n \in Nat BY <1>1
<1>3. SubSeq(bytes, n + 1, n) = <<>> BY <1>1, <1>2
<1> QED BY <1>1, <1>3 DEF Dropped

\* What a committed upload leaves to be done is what was due.
LEMMA NewChunkLeaves ==
  ASSUME NEW o, NEW held, NEW m, o.step \in NewChunk, Loaded(o), Shaped(o), Planned(o),
         Fitted(o.size, o.chunks, held, m), o.msg \in DOMAIN held, held[o.msg] = o.piece,
         NEW n, n.step = o.step, n.task = o.task, n.at = o.at, n.data = o.data,
         n.buffer = o.buffer, n.piece = o.piece,
         n.size = Layout(o).size, n.chunks = Layout(o).chunks
  PROVE  Due(o, held) = Left(n, held)
<1>1. PICK old, new, size, more, piece, q :
        /\ old = o.chunks /\ new = n.chunks /\ size = o.size /\ more = n.size
        /\ piece = o.piece /\ q = Len(piece)
  OBVIOUS
<1>2. /\ Laid(old) /\ size \in Nat /\ q \in Nat BY <1>1 DEF Fitted, Shaped, NewChunk
<1>3. Grows(new, old, piece, held) /\ more = Max2(size, CoveredEnd(old) + q)
  <2>1. PICK all : all = Layout(o) OBVIOUS
  <2>2. /\ Grows(all.chunks, old, o.piece, held)
        /\ all.size = Max2(o.size, CoveredEnd(old) + Len(o.piece))
    BY <1>1, <2>1, NewChunkGrows
  <2> QED BY <1>1, <2>1, <2>2
<1>4. CASE o.step = "append"
  <2>1. PICK buffer : buffer = o.buffer OBVIOUS
  <2>2. buffer \in Seq(Bytes) /\ IsPrefix(piece, buffer)
    BY <1>1, <1>4, <2>1 DEF Loaded, Planned
  <2>3. Array(size, old, buffer, held) = Array(more, new, Dropped(buffer, q), held)
    BY <1>1, <1>2, <1>3, <2>2, GrownArray
  <2>4. Due(o, held) = Array(size, old, buffer, held) BY <1>1, <1>4, <2>1 DEF Due
  <2>5. Left(n, held) = Array(more, new, Dropped(buffer, q), held)
    BY <1>1, <1>4, <2>1 DEF Left
  <2> QED BY <2>3, <2>4, <2>5
<1>5. CASE o.step = "flush"
  <2>1. PICK buffer : buffer = o.buffer OBVIOUS
  <2>2. buffer \in Seq(Bytes) /\ piece = buffer BY <1>1, <1>5, <2>1 DEF Loaded, Planned
  <2>3. IsPrefix(piece, buffer) BY <2>2 DEF IsPrefix
  <2>4. Array(size, old, buffer, held) = Array(more, new, Dropped(buffer, q), held)
    BY <1>1, <1>2, <1>3, <2>2, <2>3, GrownArray
  <2>5. Dropped(buffer, q) = <<>> BY <1>1, <2>2, AllDropped
  <2>6. Due(o, held) = Asked(o, Array(size, old, buffer, held))
    BY <1>1, <1>5, <2>1 DEF Due
  <2>7. Left(n, held) = Asked(n, Array(more, new, <<>>, held)) BY <1>1, <1>5 DEF Left
  <2>8. \A all : Asked(n, all) = Asked(o, all) BY DEF Asked
  <2> QED BY <2>4, <2>5, <2>6, <2>7, <2>8
<1>6. CASE o.step = "gap"
  <2>1. PICK at, data : at = o.at /\ data = o.data OBVIOUS
  <2>2. /\ at \in Nat /\ data \in Seq(Bytes) /\ o.buffer = <<>>
        /\ CoveredEnd(old) + q <= at /\ \A k \in 1 .. q : piece[k] = 0
    BY <1>1, <1>6, <2>1 DEF Loaded, Planned
  <2>3. Spliced(Array(size, old, <<>>, held), at, data)
          = Spliced(Array(Max2(size, CoveredEnd(old) + q), new, <<>>, held), at, data)
    BY <1>1, <1>2, <1>3, <2>2, GapArray
  <2>4. Due(o, held) = Spliced(Array(size, old, <<>>, held), at, data)
    BY <1>1, <1>6, <2>1, <2>2 DEF Due
  <2>5. Left(n, held) = Spliced(Array(more, new, <<>>, held), at, data)
    BY <1>1, <1>6, <2>1 DEF Left
  <2> QED BY <1>3, <2>3, <2>4, <2>5
<1>7. CASE o.step = "extend"
  <2>1. PICK data : data = o.data OBVIOUS
  <2>2. data \in Seq(Bytes) /\ o.buffer = <<>> /\ IsPrefix(piece, data)
    BY <1>1, <1>7, <2>1 DEF Loaded, Planned
  <2>3. Spliced(Array(size, old, <<>>, held), CoveredEnd(old), data)
          = Spliced(Array(Max2(size, CoveredEnd(old) + q), new, <<>>, held), CoveredEnd(new),
                    Dropped(data, q))
    BY <1>1, <1>2, <1>3, <2>2, ExtendedArray
  <2>4. Due(o, held) = Spliced(Array(size, old, <<>>, held), CoveredEnd(old), data)
    BY <1>1, <1>7, <2>1, <2>2 DEF Due
  <2>5. Left(n, held)
          = Spliced(Array(more, new, <<>>, held), CoveredEnd(new), Dropped(data, q))
    BY <1>1, <1>7, <2>1 DEF Left
  <2> QED BY <1>3, <2>3, <2>4, <2>5
<1> QED BY <1>4, <1>5, <1>6, <1>7 DEF NewChunk

LEMMA PatchLeaves ==
  ASSUME NEW o, DOMAIN o = Fields, NEW held, NEW m, o.step = "patch", Loaded(o), Shaped(o),
         Planned(o), Fitted(o.size, o.chunks, held, m), Fresher(o, held, m), Made(o, held),
         NEW n, n.step = o.step, n.at = o.at, n.data = o.data,
         n.size = Layout(o).size, n.chunks = Layout(o).chunks
  PROVE  Due(o, held) = Left(n, held)
<1>1. PICK old, all, new, size, at, data, t :
        /\ old = o.chunks /\ all = Layout(o) /\ new = all.chunks /\ size = o.size
        /\ at = o.at /\ data = o.data /\ t = PatchTake(o)
  OBVIOUS
<1>2. Laid(old) /\ size \in Nat /\ at \in Nat /\ data \in Seq(Bytes) /\ o.buffer = <<>>
  BY <1>1 DEF Fitted, Loaded, Planned
<1>3. t \in Nat /\ t <= Len(data)
  <2>1. Locate(o.chunks, o.at) # {} BY DEF Shaped
  <2>2. PICK c : c = Patched(o) OBVIOUS
  <2> QED BY <1>1, <1>2, <2>1, <2>2, TakeIs
<1>4. Covers(new, old, at, data, t, held)
  <2>1. /\ o.msg \in DOMAIN held /\ Patched(o).msg \in DOMAIN held
        /\ o.piece = Spliced(held[Patched(o).msg], o.at - Patched(o).offset,
                             SubSeq(o.data, 1, PatchTake(o)))
    BY DEF Made
  <2>2. new = Layout(o).chunks BY <1>1
  <2> QED BY <1>1, <2>1, <2>2, PatchCovers
<1>5. Spliced(Array(size, old, <<>>, held), at, data)
        = Spliced(Array(size, new, <<>>, held), at + t, Dropped(data, t))
  BY <1>2, <1>3, <1>4, PatchedArray
<1>6. all.size = size /\ PatchTake(n) = t
  <2>1. PICK p : p = CHOOSE k \in Locate(old, o.at) : TRUE OBVIOUS
  <2>2. /\ all.size = o.size
        /\ Locate(all.chunks, o.at) = Locate(old, o.at)
        /\ p \in DOMAIN old /\ old[p] = Patched(o)
        /\ all.chunks[p].size = old[p].size /\ all.chunks[p].offset = old[p].offset
    BY <1>1, <2>1, PatchIs
  <2>3. Patched(n) = all.chunks[p] BY <1>1, <2>1, <2>2 DEF Patched
  <2> QED BY <1>1, <2>2, <2>3 DEF PatchTake
<1>7. Due(o, held) = Spliced(Array(size, old, <<>>, held), at, data)
  BY <1>1, <1>2 DEF Due
<1>8. Left(n, held) = Spliced(Array(size, new, <<>>, held), at + t, Dropped(data, t))
  BY <1>1, <1>6 DEF Left
<1> QED BY <1>5, <1>7, <1>8

LEMMA TrimLeaves ==
  ASSUME NEW o, NEW held, NEW m, o.step = "trim", Loaded(o), Planned(o),
         Fitted(o.size, o.chunks, held, m),
         Bare(o) \/ (Fresher(o, held, m) /\ Made(o, held)),
         NEW n, n.step = o.step, n.size = Layout(o).size, n.chunks = Layout(o).chunks
  PROVE  Due(o, held) = Left(n, held)
<1>1. PICK old, all, new, size, at :
        /\ old = o.chunks /\ all = Layout(o) /\ new = all.chunks /\ size = o.size /\ at = o.at
  OBVIOUS
<1>2. Laid(old) /\ size \in Nat /\ at \in Nat /\ o.buffer = <<>>
  BY <1>1 DEF Fitted, Loaded, Planned
<1>3. Cuts(new, old, at, held) /\ all.size = at
  <2>1. Straddlers(o) = {} \/ o.piece \in Seq(Bytes) BY DEF Bare, Fresher
  <2>2. Bare(o) \/ (/\ o.msg \in DOMAIN held /\ held[o.msg] = o.piece
                    /\ Straddler(o).msg \in DOMAIN held
                    /\ o.piece = SubSeq(held[Straddler(o).msg], 1, o.at - Straddler(o).offset))
    BY DEF Fresher, Made
  <2>3. new = Layout(o).chunks BY <1>1
  <2>4. Cuts(new, old, o.at, held) /\ Layout(o).size = o.at
    BY <1>1, <2>1, <2>2, <2>3, TrimCuts
  <2> QED BY <1>1, <2>4
<1>4. Resized(Array(size, old, <<>>, held), at) = Array(at, new, <<>>, held)
  BY <1>2, <1>3, TrimmedArray
<1>5. Due(o, held) = Resized(Array(size, old, <<>>, held), at) BY <1>1, <1>2 DEF Due
<1>6. Left(n, held) = Array(at, new, <<>>, held) BY <1>1, <1>3 DEF Left
<1> QED BY <1>4, <1>5, <1>6

\* What is cached once the commit is answered is still there.
LEMMA CommitBacks ==
  ASSUME NEW o, Typed(o), o.pc = "ack", NEW held, NEW m, Firm(o, held, m), Backed(o, held),
         Bare(o) \/ Made(o, held),
         NEW n, n.cache = o.cache, n.chunks = Layout(o).chunks
  PROVE  Backed(n, held)
<1>1. PICK old, new, all : old = o.chunks /\ new = n.chunks /\ all = Layout(o) OBVIOUS
<1>2. /\ DOMAIN o = Fields /\ Aimed(o) /\ ~o.failed /\ new = all.chunks
      /\ Loaded(o) /\ Shaped(o) /\ Fitted(o.size, o.chunks, held, m)
      /\ Bare(o) \/ Fresher(o, held, m)
  BY <1>1 DEF Typed, Firm, Ready, Pending
<1>3. DOMAIN o.cache \subseteq Slots(old) BY <1>1, <1>2 DEF Firm, Mirrored, Behind
<1>4. Bare(o) \/ o.msg \in DOMAIN held BY DEF Made
<1>5. \A k \in DOMAIN new : \/ k \in DOMAIN old /\ new[k] = old[k]
                            \/ new[k].index \notin Slots(old)
                            \/ ~Bare(o) /\ new[k].msg = o.msg
  <2>1. CASE o.step \in NewChunk
    <3>1. Fresher(o, held, m) BY <1>2, <2>1 DEF Bare, NewChunk
    <3> QED BY <1>1, <1>2, <2>1, <3>1, NewChunkIs
  <2>2. CASE o.step = "patch"
    <3>1. Fresher(o, held, m) /\ ~Bare(o) BY <1>2, <2>2 DEF Bare
    <3>2. PICK p : p = CHOOSE k \in Locate(old, o.at) : TRUE OBVIOUS
    <3>3. /\ DOMAIN all.chunks = DOMAIN old /\ p \in DOMAIN old
          /\ all.chunks[p].msg = o.msg
          /\ \A k \in DOMAIN old \ {p} : all.chunks[k] = old[k]
      BY <1>1, <1>2, <2>2, <3>1, <3>2, PatchIs
    <3> QED BY <1>2, <3>1, <3>3
  <2>3. CASE o.step = "trim"
    <3>1. PICK q \in 0 .. Len(old) : Trimmed(old, q, all.chunks, o)
      <4>1. Laid(o.chunks) BY <1>2 DEF Fitted
      <4> QED BY <1>1, <1>2, <2>3, <4>1, TrimTo
    <3>2. PICK kept : kept = SubSeq(old, 1, q) OBVIOUS
    <3>3. /\ Listed(kept) /\ Len(kept) = q /\ \A k \in 1 .. q : kept[k] = old[k]
          /\ DOMAIN kept = 1 .. q
      <4>1. Laid(old) BY <1>1, <1>2 DEF Fitted
      <4>2. Laid(kept) /\ Len(kept) = q /\ \A k \in 1 .. q : kept[k] = old[k]
        BY <3>2, <4>1, PrefixLaid
      <4> QED BY <4>2, Lengths DEF Laid
    <3>4. Len(old) \in Nat /\ DOMAIN old = 1 .. Len(old) BY <1>1, <1>2, IndexIs
    <3>5. CASE Bare(o)
      <4>1. new = kept BY <1>2, <3>1, <3>2, <3>5 DEF Trimmed
      <4> QED BY <3>3, <3>4, <4>1
    <3>6. CASE ~Bare(o)
      <4>1. PICK c : Shortened(old, q, c, o) /\ new = Append(kept, c)
        BY <1>2, <3>1, <3>2, <3>6 DEF Trimmed
      <4>2. c.msg = o.msg BY <4>1 DEF Shortened
      <4>3. /\ DOMAIN new = 1 .. q + 1 /\ new[q + 1] = c
            /\ \A k \in 1 .. q : new[k] = kept[k]
        BY <3>3, <4>1 DEF Listed
      <4> QED BY <3>3, <3>4, <3>6, <4>2, <4>3
    <3> QED BY <3>5, <3>6
  <2> QED BY <1>2, <2>1, <2>2, <2>3 DEF Aimed, Steps, NewChunk
<1>6. \A k \in DOMAIN new : new[k].index \in DOMAIN n.cache => new[k].msg \in DOMAIN held
  BY <1>1, <1>3, <1>4, <1>5 DEF Backed
<1> QED BY <1>1, <1>6 DEF Backed

\* The commit is answered: what is left is what was due.
LEMMA CommitKept ==
  ASSUME NEW o, Typed(o), o.pc = "ack", NEW held, NEW m, Firm(o, held, m), Kept(o, held),
         NEW n, n.pc = "discard", n.undo = o.undo, n.step = o.step, n.task = o.task,
         n.at = o.at, n.cache = o.cache, n.buffer = o.buffer, n.data = o.data,
         n.piece = o.piece, n.msg = o.msg, n.failed = o.failed, n.open = o.open,
         n.goal = o.goal, n.size = Layout(o).size, n.chunks = Layout(o).chunks
  PROVE  Kept(n, held)
<1> SUFFICES ASSUME o.open, ~o.failed PROVE Kept(n, held)
  BY DEF Kept
<1>1. /\ Backed(o, held) /\ Planned(o) /\ o.goal = Due(o, held)
      /\ Bare(o) \/ Made(o, held)
  BY DEF Kept
<1>2. /\ DOMAIN o = Fields /\ Aimed(o)
      /\ Loaded(o) /\ Shaped(o) /\ Fitted(o.size, o.chunks, held, m)
      /\ Bare(o) \/ Fresher(o, held, m)
  BY DEF Typed, Firm, Ready, Pending
<1>3. Backed(n, held) BY <1>1, CommitBacks
<1>4. CASE o.step \in NewChunk
  <2>1. o.msg \in DOMAIN held /\ held[o.msg] = o.piece
    BY <1>1, <1>2, <1>4 DEF Bare, NewChunk, Made, Fresher
  <2>2. Due(o, held) = Left(n, held) BY <1>1, <1>2, <1>4, <2>1, NewChunkLeaves
  <2>3. n.step \notin {"append", "flush"} => n.buffer = <<>> BY <1>1 DEF Planned
  <2> QED BY <1>1, <1>3, <1>4, <2>2, <2>3 DEF Kept, NewChunk
<1>5. CASE o.step = "patch"
  <2>1. Fresher(o, held, m) /\ Made(o, held) BY <1>1, <1>2, <1>5 DEF Bare
  <2>2. Due(o, held) = Left(n, held) BY <1>1, <1>2, <1>5, <2>1, PatchLeaves
  <2>3. n.buffer = <<>> BY <1>1, <1>5 DEF Planned
  <2>4. n.msg \in DOMAIN held BY <2>1 DEF Made
  <2> QED BY <1>1, <1>3, <2>2, <2>3, <2>4 DEF Kept
<1>6. CASE o.step = "trim"
  <2>1. Due(o, held) = Left(n, held) BY <1>1, <1>2, <1>6, TrimLeaves
  <2>2. n.buffer = <<>> BY <1>1, <1>6 DEF Planned
  <2> QED BY <1>1, <1>3, <1>6, <2>1, <2>2 DEF Kept
<1> QED BY <1>2, <1>4, <1>5, <1>6 DEF Aimed, Steps, NewChunk

LEMMA PrefixIs ==
  ASSUME NEW bytes \in Seq(Bytes)
  PROVE  /\ Piece(bytes) \in Seq(Bytes) /\ Len(Piece(bytes)) <= Len(bytes)
         /\ IsPrefix(Piece(bytes), bytes)
<1>1. PICK n, piece : n = Min2(ChunkMax, Len(bytes)) /\ piece = SubSeq(bytes, 1, n) OBVIOUS
<1>2. Len(bytes) \in Nat /\ n \in 0 .. Len(bytes) BY <1>1, BytesAssumption DEF Min2
<1>3. piece \in Seq(Bytes) /\ Len(piece) = n /\ \A k \in 1 .. n : piece[k] = bytes[k]
  BY <1>1, <1>2
<1>4. Piece(bytes) = piece BY <1>1 DEF Piece
<1> QED BY <1>2, <1>3, <1>4 DEF IsPrefix

LEMMA RestKept ==
  ASSUME NEW o, DOMAIN o = Fields, NEW held, Backed(o, held),
         o.goal = Array(o.size, o.chunks, o.buffer, held)
  PROVE  Kept(Rest(o), held)
<1>1. PICK n : n = Rest(o) OBVIOUS
<1>2. /\ n.pc = "idle" /\ n.size = o.size /\ n.chunks = o.chunks /\ n.buffer = o.buffer
      /\ n.cache = o.cache /\ n.goal = o.goal
  BY <1>1 DEF Rest, Fields
<1>3. Kept(n, held) BY <1>2 DEF Kept, Backed, Behind
<1> QED BY <1>1, <1>3

\* An upload that is planned keeps what is due.
LEMMA UploadKept ==
  ASSUME NEW o, DOMAIN o = Fields, NEW held, Backed(o, held), NEW step, NEW piece,
         step \notin {"append", "flush"} => o.buffer = <<>>,
         step = "append" => IsPrefix(piece, o.buffer), step = "flush" => piece = o.buffer,
         step = "gap" => /\ CoveredEnd(o.chunks) + Len(piece) <= o.at
                         /\ \A k \in 1 .. Len(piece) : piece[k] = 0,
         step = "extend" => IsPrefix(piece, o.data),
         o.goal = Due([o EXCEPT !.step = step], held)
  PROVE  Kept(Upload(o, step, piece), held)
<1>1. PICK n : n = Upload(o, step, piece) OBVIOUS
<1>2. /\ n.pc = "upload" /\ n.step = step /\ n.piece = piece
      /\ n.size = o.size /\ n.chunks = o.chunks /\ n.buffer = o.buffer /\ n.at = o.at
      /\ n.data = o.data /\ n.task = o.task /\ n.cache = o.cache /\ n.goal = o.goal
  BY <1>1 DEF Upload, Fields
<1>3. PICK a : a = [o EXCEPT !.step = step] OBVIOUS
<1>4. /\ a.step = step /\ a.size = o.size /\ a.chunks = o.chunks /\ a.buffer = o.buffer
      /\ a.at = o.at /\ a.data = o.data /\ a.task = o.task
  BY <1>3 DEF Fields
<1>5. \A all : Asked(n, all) = Asked(a, all) BY <1>2, <1>4 DEF Asked
<1>6. Due(n, held) = Due(a, held) BY <1>2, <1>4, <1>5 DEF Due
<1>7. Planned(n) BY <1>2 DEF Planned
<1>8. Kept(n, held) BY <1>2, <1>3, <1>6, <1>7 DEF Kept, Backed, Behind
<1> QED BY <1>1, <1>8

LEMMA AppendOnKept ==
  ASSUME NEW o, DOMAIN o = Fields, Loaded(o), NEW held, Backed(o, held),
         o.goal = Array(o.size, o.chunks, o.buffer, held)
  PROVE  Kept(AppendOn(o), held)
<1>1. CASE Len(o.buffer) >= ChunkMax
  <2>1. PICK piece, a : piece = Piece(o.buffer) /\ a = [o EXCEPT !.step = "append"] OBVIOUS
  <2>2. AppendOn(o) = Upload(o, "append", piece) BY <1>1, <2>1 DEF AppendOn
  <2>3. IsPrefix(piece, o.buffer) BY <2>1, PrefixIs DEF Loaded
  <2>4. /\ a.step = "append" /\ a.size = o.size /\ a.chunks = o.chunks
        /\ a.buffer = o.buffer
    BY <2>1 DEF Fields
  <2>5. o.goal = Due(a, held) BY <2>4 DEF Due
  <2> QED BY <2>1, <2>2, <2>3, <2>5, UploadKept
<1>2. CASE ~(Len(o.buffer) >= ChunkMax) BY <1>2, RestKept DEF AppendOn
<1> QED BY <1>1, <1>2

\* Where nothing is left to write, the array is what it was.
LEMMA NothingLeft ==
  ASSUME NEW o, Loaded(o), Laid(o.chunks), o.buffer = <<>>, o.data = <<>>,
         NEW at \in Nat, at <= CoveredEnd(o.chunks), NEW held
  PROVE  Spliced(Array(o.size, o.chunks, <<>>, held), at, o.data)
           = Array(o.size, o.chunks, o.buffer, held)
<1>1. PICK old, size, e : old = o.chunks /\ size = o.size /\ e = CoveredEnd(old) OBVIOUS
<1>2. PICK n, f : n = Max2(size, e) /\ f = Array(size, old, <<>>, held) OBVIOUS
<1>3. Laid(old) /\ size \in Nat /\ at <= e BY <1>1 DEF Loaded
<1>4. e \in Nat /\ n \in Nat /\ e <= n /\ IsArray(f, n) BY <1>1, <1>2, <1>3, UnbufferedIs
<1>5. at <= n BY <1>3, <1>4
<1>6. Spliced(f, at, <<>>) = f BY <1>3, <1>4, <1>5, UnchangedArray
<1> QED BY <1>1, <1>2, <1>6

LEMMA ExtendKept ==
  ASSUME NEW o, DOMAIN o = Fields, Loaded(o), Laid(o.chunks), o.buffer = <<>>,
         NEW held, Backed(o, held),
         o.goal = Spliced(Array(o.size, o.chunks, <<>>, held), CoveredEnd(o.chunks), o.data)
  PROVE  Kept(Extend(o), held)
<1>1. CASE o.data = <<>>
  <2>1. PICK e : e = CoveredEnd(o.chunks) OBVIOUS
  <2>2. e \in Nat /\ e <= CoveredEnd(o.chunks) BY <2>1, EndType
  <2>3. o.goal = Array(o.size, o.chunks, o.buffer, held) BY <1>1, <2>1, <2>2, NothingLeft
  <2> QED BY <1>1, <2>3, RestKept DEF Extend
<1>2. CASE o.data # <<>>
  <2>1. PICK piece, a : piece = Piece(o.data) /\ a = [o EXCEPT !.step = "extend"] OBVIOUS
  <2>2. Extend(o) = Upload(o, "extend", piece) BY <1>2, <2>1 DEF Extend
  <2>3. IsPrefix(piece, o.data) BY <2>1, PrefixIs DEF Loaded
  <2>4. /\ a.step = "extend" /\ a.size = o.size /\ a.chunks = o.chunks
        /\ a.buffer = o.buffer /\ a.data = o.data
    BY <2>1 DEF Fields
  <2>5. o.goal = Due(a, held) BY <2>4 DEF Due
  <2> QED BY <2>1, <2>2, <2>3, <2>5, UploadKept
<1> QED BY <1>1, <1>2

LEMMA PatchKept ==
  ASSUME NEW o, DOMAIN o = Fields, Loaded(o), Laid(o.chunks), o.buffer = <<>>,
         NEW held, Backed(o, held), o.at <= CoveredEnd(o.chunks),
         o.goal = Spliced(Array(o.size, o.chunks, <<>>, held), o.at, o.data)
  PROVE  Kept(Patch(o), held)
<1>1. CASE o.data # <<>> /\ o.at < CoveredEnd(o.chunks)
  <2>1. PICK a : a = [o EXCEPT !.step = "patch"] OBVIOUS
  <2>2. Patch(o) = Upload(o, "patch", <<>>) BY <1>1 DEF Patch
  <2>3. /\ a.step = "patch" /\ a.size = o.size /\ a.chunks = o.chunks
        /\ a.buffer = o.buffer /\ a.data = o.data /\ a.at = o.at
    BY <2>1 DEF Fields
  <2>4. o.goal = Due(a, held) BY <2>3 DEF Due
  <2> QED BY <2>1, <2>2, <2>4, UploadKept
<1>2. CASE o.data = <<>>
  <2>1. Patch(o) = Rest(o) BY <1>2 DEF Patch, Extend
  <2>2. o.at \in Nat BY DEF Loaded
  <2>3. o.goal = Array(o.size, o.chunks, o.buffer, held) BY <1>2, <2>2, NothingLeft
  <2> QED BY <2>1, <2>3, RestKept
<1>3. CASE o.data # <<>> /\ ~(o.at < CoveredEnd(o.chunks))
  <2>1. o.at = CoveredEnd(o.chunks) BY <1>3, EndType DEF Loaded
  <2> QED BY <1>3, <2>1, ExtendKept DEF Patch
<1> QED BY <1>1, <1>2, <1>3

LEMMA GapKept ==
  ASSUME NEW o, DOMAIN o = Fields, Loaded(o), Laid(o.chunks), o.buffer = <<>>,
         NEW held, Backed(o, held),
         o.goal = Spliced(Array(o.size, o.chunks, <<>>, held), o.at, o.data)
  PROVE  Kept(Gap(o), held)
<1>1. PICK at, e : at = o.at /\ e = CoveredEnd(o.chunks) OBVIOUS
<1>2. at \in Nat /\ e \in Nat BY <1>1, EndType DEF Loaded
<1>3. CASE at > e
  <2>1. PICK d, zeros, piece, a : /\ d = at - e /\ zeros = Zeros(d) /\ piece = Piece(zeros)
                                  /\ a = [o EXCEPT !.step = "gap"]
    OBVIOUS
  <2>2. Gap(o) = Upload(o, "gap", piece) BY <1>1, <1>3, <2>1 DEF Gap
  <2>3. d \in Nat \ {0} /\ e + d = at BY <1>2, <1>3, <2>1
  <2>4. zeros \in Seq(Bytes) BY <2>1, <2>3, ZerosIs
  <2>5. DOMAIN zeros = 1 .. d /\ \A k \in 1 .. d : zeros[k] = 0 BY <2>1 DEF Zeros
  <2>6. Len(zeros) = d BY <2>3, <2>4, <2>5
  <2>7. IsPrefix(piece, zeros) /\ Len(piece) \in Nat BY <2>1, <2>4, PrefixIs
  <2>8. \A k \in 1 .. Len(piece) : piece[k] = 0 BY <2>3, <2>5, <2>6, <2>7 DEF IsPrefix
  <2>9. e + Len(piece) <= at BY <1>2, <2>3, <2>6, <2>7 DEF IsPrefix
  <2>10. /\ a.step = "gap" /\ a.size = o.size /\ a.chunks = o.chunks
         /\ a.buffer = o.buffer /\ a.data = o.data /\ a.at = o.at
    BY <2>1 DEF Fields
  <2>11. o.goal = Due(a, held) BY <2>10 DEF Due
  <2> QED BY <1>1, <2>1, <2>2, <2>8, <2>9, <2>11, UploadKept
<1>4. CASE ~(at > e)
  <2>1. o.at <= CoveredEnd(o.chunks) BY <1>1, <1>2, <1>4
  <2> QED BY <1>1, <1>4, <2>1, PatchKept DEF Gap
<1> QED BY <1>3, <1>4

LEMMA TrimKept ==
  ASSUME NEW o, DOMAIN o = Fields, o.buffer = <<>>, NEW held, Backed(o, held),
         o.goal = Resized(Array(o.size, o.chunks, <<>>, held), o.at)
  PROVE  Kept(Trim(o), held)
<1>1. CASE Straddlers(o) = {}
  <2>1. PICK n : n = [o EXCEPT !.pc = "commit", !.step = "trim", !.msg = 0] OBVIOUS
  <2>2. /\ n.pc = "commit" /\ n.step = "trim" /\ n.size = o.size /\ n.chunks = o.chunks
        /\ n.buffer = o.buffer /\ n.at = o.at /\ n.cache = o.cache /\ n.goal = o.goal
    BY <2>1 DEF Fields
  <2>3. Bare(n) BY <1>1, <2>2 DEF Bare, Straddlers
  <2>4. n.goal = Due(n, held) BY <2>2 DEF Due
  <2>5. Planned(n) BY <2>2 DEF Planned
  <2>6. Kept(n, held) BY <2>2, <2>3, <2>4, <2>5 DEF Kept, Backed, Behind
  <2> QED BY <1>1, <2>1, <2>6 DEF Trim
<1>2. CASE Straddlers(o) # {}
  <2>1. PICK a : a = [o EXCEPT !.step = "trim"] OBVIOUS
  <2>2. /\ a.step = "trim" /\ a.size = o.size /\ a.chunks = o.chunks
        /\ a.buffer = o.buffer /\ a.at = o.at
    BY <2>1 DEF Fields
  <2>3. o.goal = Due(a, held) BY <2>2 DEF Due
  <2>4. Trim(o) = Upload(o, "trim", <<>>) BY <1>2 DEF Trim
  <2> QED BY <2>1, <2>3, <2>4, UploadKept
<1> QED BY <1>1, <1>2

LEMMA ClosedKept ==
  ASSUME NEW held
  PROVE  Kept(Closed, held)
  BY ClosedIs DEF Kept

LEMMA FlushedKept ==
  ASSUME NEW o, DOMAIN o = Fields, Loaded(o), Laid(o.chunks), o.buffer = <<>>,
         o.task \in Flushing, NEW held, Backed(o, held),
         o.goal = Asked(o, Array(o.size, o.chunks, <<>>, held))
  PROVE  Kept(Flushed(o), held)
<1>1. CASE o.task = "random"
  <2>1. o.goal = Spliced(Array(o.size, o.chunks, <<>>, held), o.at, o.data) BY <1>1 DEF Asked
  <2>2. Flushed(o) = Gap(o) BY <1>1 DEF Flushed
  <2> QED BY <2>1, <2>2, GapKept
<1>2. CASE o.task = "resize"
  <2>1. o.goal = Resized(Array(o.size, o.chunks, <<>>, held), o.at) BY <1>2 DEF Asked
  <2>2. Flushed(o) = Trim(o) BY <1>2 DEF Flushed
  <2> QED BY <2>1, <2>2, TrimKept
<1>3. CASE o.task = "read"
  <2>1. o.goal = Array(o.size, o.chunks, o.buffer, held) BY <1>3 DEF Asked
  <2>2. Flushed(o) = Rest(o) BY <1>3 DEF Flushed
  <2> QED BY <2>1, <2>2, RestKept
<1>4. CASE o.task = "close"
  <2>1. PICK n : n = [o EXCEPT !.pc = "swap"] OBVIOUS
  <2>2. n.pc = "swap" /\ n.chunks = o.chunks /\ n.cache = o.cache BY <2>1 DEF Fields
  <2>3. Kept(n, held) BY <2>2 DEF Kept, Backed, Behind
  <2>4. Flushed(o) = IF o.replaces THEN n ELSE Closed BY <1>4, <2>1 DEF Flushed
  <2> QED BY <2>3, <2>4, ClosedKept
<1> QED BY <1>1, <1>2, <1>3, <1>4 DEF Flushing

LEMMA FlushThenKept ==
  ASSUME NEW o, DOMAIN o = Fields, Loaded(o), Laid(o.chunks), o.task \in Flushing,
         NEW held, Backed(o, held),
         o.goal = Asked(o, Array(o.size, o.chunks, o.buffer, held))
  PROVE  Kept(FlushThen(o), held)
<1>1. CASE o.buffer # <<>>
  <2>1. PICK a : a = [o EXCEPT !.step = "flush"] OBVIOUS
  <2>2. /\ a.step = "flush" /\ a.size = o.size /\ a.chunks = o.chunks /\ a.task = o.task
        /\ a.buffer = o.buffer /\ a.at = o.at /\ a.data = o.data
    BY <2>1 DEF Fields
  <2>3. \A all : Asked(a, all) = Asked(o, all) BY <2>2 DEF Asked
  <2>4. o.goal = Due(a, held) BY <2>2, <2>3 DEF Due
  <2>5. FlushThen(o) = Upload(o, "flush", o.buffer) BY <1>1 DEF FlushThen
  <2> QED BY <2>1, <2>4, <2>5, UploadKept
<1>2. CASE o.buffer = <<>> BY <1>2, FlushedKept DEF FlushThen
<1> QED BY <1>1, <1>2

\* A chunk that is there is cached.
LEMMA CachedBacks ==
  ASSUME NEW o, NEW held, NEW m, Fitted(o.size, o.chunks, held, m), Backed(o, held),
         NEW k \in DOMAIN o.chunks, o.chunks[k].msg \in DOMAIN held, NEW bytes,
         NEW n, n.chunks = o.chunks, n.cache = Cached(o.cache, o.chunks[k].index, bytes)
  PROVE  Backed(n, held)
<1>1. PICK old, cache, new : old = o.chunks /\ cache = o.cache /\ new = n.cache OBVIOUS
<1>2. DOMAIN new = DOMAIN cache \cup {old[k].index} BY <1>1 DEF Cached
<1>3. /\ \A j \in DOMAIN old : old[j].index = j - 1 /\ j \in Nat
      /\ k \in DOMAIN old
  BY <1>1, IndexIs
<1>4. ASSUME NEW j \in DOMAIN old, old[j].index \in DOMAIN new
      PROVE  old[j].msg \in DOMAIN held
  <2>1. CASE old[j].index \in DOMAIN cache BY <1>1, <2>1 DEF Backed
  <2>2. CASE old[j].index \notin DOMAIN cache
    <3>1. old[j].index = old[k].index BY <1>2, <1>4, <2>2
    <3>2. j = k BY <1>3, <3>1
    <3> QED BY <1>1, <3>2
  <2> QED BY <2>1, <2>2
<1> QED BY <1>1, <1>4 DEF Backed

\* What a patch goes on from.
LEMMA PatchContinues ==
  ASSUME NEW o, DOMAIN o = Fields, o.step = "patch", Behind(o), NEW held, NEW m,
         Firm(o, held, m), Backed(o, held), o.msg \in DOMAIN held, o.buffer = <<>>,
         o.goal = Left(o, held)
  PROVE  Kept(Continue(o), held)
<1>1. /\ Loaded(o) /\ Shaped(o) /\ Laid(o.chunks) /\ Fitted(o.size, o.chunks, held, m)
      /\ Patched(o).msg = o.msg
  BY DEF Firm, Ready, Fitted, Behind
<1>2. PICK c, t : c = Patched(o) /\ t = PatchTake(o) OBVIOUS
<1>3. PICK p \in DOMAIN o.chunks : c = o.chunks[p]
  BY <1>1, <1>2 DEF Shaped, Patched, Locate
<1>4. t \in Nat /\ t <= Len(o.data) /\ o.at + t <= EndOf(c)
  <2>1. Locate(o.chunks, o.at) # {} BY <1>1 DEF Shaped
  <2> QED BY <1>1, <1>2, <2>1, TakeIs
<1>5. o.at + t <= CoveredEnd(o.chunks)
  <2>1. EndOf(c) <= CoveredEnd(o.chunks) BY <1>1, <1>3, EndType
  <2>2. EndOf(c) \in Nat /\ CoveredEnd(o.chunks) \in Nat /\ o.at \in Nat
    BY <1>1, <1>3, EndType DEF Laid, EndOf, Loaded
  <2> QED BY <1>4, <2>1, <2>2
<1>6. PICK n : n = [o EXCEPT !.at = o.at + t, !.data = Dropped(o.data, t),
                             !.cache = Cached(o.cache, c.index, o.piece)]
  OBVIOUS
<1>7. /\ DOMAIN n = Fields /\ n.chunks = o.chunks /\ n.size = o.size /\ n.buffer = <<>>
      /\ n.at = o.at + t /\ n.data = Dropped(o.data, t) /\ n.goal = o.goal
      /\ n.cache = Cached(o.cache, c.index, o.piece)
  BY <1>6 DEF Fields
<1>8. Continue(o) = Patch(n) BY <1>2, <1>6 DEF Continue
<1>9. Dropped(o.data, t) \in Seq(Bytes) BY <1>1, <1>4, DroppedIs DEF Loaded
<1>10. Loaded(n)
  <2>1. <<>> \in Seq(Bytes) OBVIOUS
  <2> QED BY <1>1, <1>4, <1>7, <1>9, <2>1 DEF Loaded
<1>11. Backed(n, held)
  <2>1. PICK bytes : bytes = o.piece OBVIOUS
  <2>2. n.cache = Cached(o.cache, o.chunks[p].index, bytes) BY <1>3, <1>7, <2>1
  <2>3. o.chunks[p].msg \in DOMAIN held BY <1>1, <1>2, <1>3
  <2> QED BY <1>1, <1>7, <2>2, <2>3, CachedBacks
<1>12. n.goal = Spliced(Array(n.size, n.chunks, <<>>, held), n.at, n.data)
  BY <1>2, <1>7 DEF Left
<1>13. Laid(n.chunks) /\ n.at <= CoveredEnd(n.chunks) BY <1>1, <1>5, <1>7
<1>14. Kept(Patch(n), held) BY <1>7, <1>10, <1>11, <1>12, <1>13, PatchKept
<1> QED BY <1>8, <1>14

LEMMA ContinueKept ==
  ASSUME NEW o, DOMAIN o = Fields, Aimed(o), o.open, ~o.failed, Behind(o),
         NEW held, NEW m, Firm(o, held, m), Kept(o, held)
  PROVE  Kept(Continue(o), held)
<1>1. /\ Backed(o, held) /\ o.goal = Left(o, held)
      /\ o.step \notin {"append", "flush"} => o.buffer = <<>>
      /\ o.step = "patch" => o.msg \in DOMAIN held
  BY DEF Kept
<1>2. Loaded(o) /\ Shaped(o) /\ Laid(o.chunks) BY DEF Firm, Ready, Fitted, Behind
<1>3. CASE o.step = "append"
  <2>1. PICK rest : rest = Dropped(o.buffer, Len(o.piece)) OBVIOUS
  <2>2. rest \in Seq(Bytes)
    <3>1. Len(o.piece) \in Nat BY <1>2, <1>3 DEF Shaped, NewChunk
    <3> QED BY <1>2, <2>1, <3>1, DroppedIs DEF Loaded
  <2>3. PICK n : n = [o EXCEPT !.buffer = rest] OBVIOUS
  <2>4. /\ DOMAIN n = Fields /\ n.chunks = o.chunks /\ n.size = o.size /\ n.cache = o.cache
        /\ n.buffer = rest /\ n.goal = o.goal /\ n.at = o.at /\ n.data = o.data
    BY <2>3 DEF Fields
  <2>5. Loaded(n) BY <1>2, <2>2, <2>4 DEF Loaded
  <2>6. Backed(n, held) BY <1>1, <2>4 DEF Backed
  <2>7. n.goal = Array(n.size, n.chunks, n.buffer, held) BY <1>1, <1>3, <2>1, <2>4 DEF Left
  <2>8. Continue(o) = AppendOn(n) BY <1>3, <2>1, <2>3 DEF Continue
  <2>9. Kept(AppendOn(n), held) BY <2>4, <2>5, <2>6, <2>7, AppendOnKept
  <2> QED BY <2>8, <2>9
<1>4. CASE o.step = "flush"
  <2>1. PICK n : n = [o EXCEPT !.buffer = <<>>] OBVIOUS
  <2>2. /\ DOMAIN n = Fields /\ n.chunks = o.chunks /\ n.size = o.size /\ n.cache = o.cache
        /\ n.buffer = <<>> /\ n.goal = o.goal /\ n.at = o.at /\ n.data = o.data
        /\ n.task = o.task
    BY <2>1 DEF Fields
  <2>3. <<>> \in Seq(Bytes) OBVIOUS
  <2>4. Loaded(n) BY <1>2, <2>2, <2>3 DEF Loaded
  <2>5. Backed(n, held) BY <1>1, <2>2 DEF Backed
  <2>6. \A all : Asked(n, all) = Asked(o, all) BY <2>2 DEF Asked
  <2>7. n.goal = Asked(n, Array(n.size, n.chunks, <<>>, held))
    BY <1>1, <1>4, <2>2, <2>6 DEF Left
  <2>8. Continue(o) = Flushed(n) BY <1>4, <2>1 DEF Continue
  <2>9. n.task \in Flushing /\ Laid(n.chunks) BY <1>2, <1>4, <2>2 DEF Aimed
  <2>10. Kept(Flushed(n), held) BY <2>2, <2>4, <2>5, <2>7, <2>9, FlushedKept
  <2> QED BY <2>8, <2>10
<1>5. CASE o.step = "gap"
  <2>1. o.goal = Spliced(Array(o.size, o.chunks, <<>>, held), o.at, o.data)
    BY <1>1, <1>5 DEF Left
  <2>2. Continue(o) = Gap(o) BY <1>5 DEF Continue
  <2>3. o.buffer = <<>> BY <1>1, <1>5
  <2> QED BY <1>1, <1>2, <2>1, <2>2, <2>3, GapKept
<1>6. CASE o.step = "extend"
  <2>1. PICK rest : rest = Dropped(o.data, Len(o.piece)) OBVIOUS
  <2>2. rest \in Seq(Bytes)
    <3>1. Len(o.piece) \in Nat BY <1>2, <1>6 DEF Shaped, NewChunk
    <3> QED BY <1>2, <2>1, <3>1, DroppedIs DEF Loaded
  <2>3. PICK n : n = [o EXCEPT !.data = rest] OBVIOUS
  <2>4. /\ DOMAIN n = Fields /\ n.chunks = o.chunks /\ n.size = o.size /\ n.cache = o.cache
        /\ n.buffer = <<>> /\ n.goal = o.goal /\ n.at = o.at /\ n.data = rest
    BY <1>1, <1>6, <2>3 DEF Fields
  <2>5. <<>> \in Seq(Bytes) OBVIOUS
  <2>6. Loaded(n) BY <1>2, <2>2, <2>4, <2>5 DEF Loaded
  <2>7. Backed(n, held) BY <1>1, <2>4 DEF Backed
  <2>8. n.goal = Spliced(Array(n.size, n.chunks, <<>>, held), CoveredEnd(n.chunks), n.data)
    BY <1>1, <1>6, <2>1, <2>4 DEF Left
  <2>9. Continue(o) = Extend(n) BY <1>6, <2>1, <2>3 DEF Continue
  <2>10. Kept(Extend(n), held) BY <1>2, <2>4, <2>6, <2>7, <2>8, ExtendKept
  <2> QED BY <2>9, <2>10
<1>7. CASE o.step = "patch"
  BY <1>1, <1>7, PatchContinues
<1>8. CASE o.step = "trim"
  <2>1. PICK n : n = [o EXCEPT !.cache = NoCache] OBVIOUS
  <2>2. /\ DOMAIN n = Fields /\ n.chunks = o.chunks /\ n.size = o.size /\ n.cache = <<>>
        /\ n.buffer = <<>> /\ n.goal = o.goal
    BY <1>1, <1>8, <2>1 DEF Fields, NoCache
  <2>3. DOMAIN <<>> = {} OBVIOUS
  <2>4. Backed(n, held) BY <2>2, <2>3 DEF Backed
  <2>5. n.goal = Array(n.size, n.chunks, n.buffer, held) BY <1>1, <1>8, <2>2 DEF Left
  <2>6. Continue(o) = Rest(n) BY <1>8, <2>1 DEF Continue
  <2>7. Kept(Rest(n), held) BY <2>2, <2>4, <2>5, RestKept
  <2> QED BY <2>6, <2>7
<1> QED BY <1>3, <1>4, <1>5, <1>6, <1>7, <1>8 DEF Aimed, Steps

\* What is due stays due while the attachments of the layout stay.
LEMMA StillDue ==
  ASSUME NEW a, NEW b, Alike(a, b), b.task = a.task, NEW now, NEW held,
         SameFor(a.chunks, now, held)
  PROVE  /\ Due(b, now) = Due(a, held)
         /\ b.piece = a.piece => Left(b, now) = Left(a, held) /\ (Planned(b) <=> Planned(a))
         /\ Backed(b, now) <=> Backed(a, held)
         /\ PatchTake(b) = PatchTake(a)
<1>1. /\ b.step = a.step /\ b.at = a.at /\ b.chunks = a.chunks /\ b.size = a.size
      /\ b.cache = a.cache /\ b.buffer = a.buffer /\ b.data = a.data
  BY DEF Alike
<1>2. \A buffer : Array(b.size, b.chunks, buffer, now) = Array(a.size, a.chunks, buffer, held)
  BY <1>1, SameArray
<1>3. \A all : Asked(b, all) = Asked(a, all) BY <1>1 DEF Asked
<1>4. PatchTake(b) = PatchTake(a)
  <2>1. Patched(b) = Patched(a) BY AlikeIs
  <2> QED BY <1>1, <2>1 DEF PatchTake
<1>5. Due(b, now) = Due(a, held) BY <1>1, <1>2, <1>3 DEF Due
<1>6. b.piece = a.piece => Left(b, now) = Left(a, held)
  <2> SUFFICES ASSUME b.piece = a.piece PROVE Left(b, now) = Left(a, held)
    OBVIOUS
  <2>1. PICK new, old : /\ new = Array(b.size, b.chunks, <<>>, now)
                        /\ old = Array(a.size, a.chunks, <<>>, held)
    OBVIOUS
  <2>2. PICK rest, left : /\ rest = Dropped(a.buffer, Len(a.piece))
                          /\ left = Array(a.size, a.chunks, rest, held)
    OBVIOUS
  <2>3. new = old /\ Array(b.size, b.chunks, rest, now) = left BY <1>2, <2>1, <2>2
  <2>4. Asked(b, new) = Asked(a, old) BY <1>3, <2>3
  <2> QED BY <1>1, <1>4, <2>1, <2>2, <2>3, <2>4 DEF Left
<1>7. b.piece = a.piece => (Planned(b) <=> Planned(a)) BY <1>1 DEF Planned
<1>8. Backed(b, now) <=> Backed(a, held) BY <1>1 DEF Backed, SameFor
<1> QED BY <1>4, <1>5, <1>6, <1>7, <1>8

LEMMA SameHeld ==
  ASSUME NEW chunks, NEW held
  PROVE  SameFor(chunks, held, held)
  BY DEF SameFor

\* A method that raises promises what it left.
LEMMA RaisedKept ==
  ASSUME NEW o, DOMAIN o = Fields, Loaded(o), Laid(o.chunks), Backed(o, discord),
         \A k \in DOMAIN o.chunks : Mirrors(o.cache, o.chunks[k], discord)
  PROVE  Kept(Raised(o), discord)
<1>1. PICK r, n : r = Rest(o) /\ n = Raised(o) OBVIOUS
<1>2. /\ DOMAIN r = Fields /\ r.pc = "idle" /\ r.size = o.size /\ r.chunks = o.chunks
      /\ r.buffer = o.buffer /\ r.cache = o.cache
  BY <1>1 DEF Rest, Fields
<1>3. /\ n.pc = "idle" /\ n.size = o.size /\ n.chunks = o.chunks
      /\ n.buffer = o.buffer /\ n.cache = o.cache /\ n.goal = View(o)
  BY <1>1, <1>2 DEF Raised, Fields
<1>4. View(o) = Array(o.size, o.chunks, o.buffer, discord) BY ViewIs
<1>5. Kept(n, discord) BY <1>3, <1>4 DEF Kept, Backed, Behind
<1> QED BY <1>1, <1>5

-----------------------------------------------------------------------------
(* While no two handles have been open at once.                            *)

Faithful == ~shared => \A h \in Handles : Kept(file[h], discord)

LEMMA OneKept ==
  ASSUME NEW h \in Handles, \A g \in Handles \ {h} : file'[g] = file[g],
         ~shared' => /\ \A g \in Handles \ {h} : Fresh(file[g])
                     /\ Kept(file'[h], discord')
  PROVE  Faithful'
<1>1. \A o, held : Fresh(o) => Kept(o, held) BY DEF Fresh, Kept
<1>2. ASSUME ~shared', NEW g \in Handles PROVE Kept(file'[g], discord')
  BY <1>1, <1>2
<1> QED BY <1>2 DEF Faithful

\* A step of a handle in use.
LEMMA StepKept ==
  ASSUME IInv, Faithful, NEW h \in Handles, ~Fresh(file[h]), NEW n,
         \A g \in Handles \ {h} : file'[g] = file[g], ~shared => file'[h] = n,
         UNCHANGED shared, ~shared /\ Kept(file[h], discord) => Kept(n, discord')
  PROVE  Faithful'
<1>1. ASSUME ~shared'
      PROVE  (\A g \in Handles \ {h} : Fresh(file[g])) /\ Kept(file'[h], discord')
  <2>1. ~shared /\ file'[h] = n BY <1>1
  <2>2. \A g \in Handles \ {h} : Fresh(file[g]) BY <2>1, InUse
  <2>3. Kept(file[h], discord) BY <2>1 DEF Faithful
  <2> QED BY <2>1, <2>2, <2>3
<1> QED BY <1>1, OneKept

\* One that leaves the attachments as they are.
LEMMA QuietKept ==
  ASSUME IInv, Faithful, NEW h \in Handles, ~Fresh(file[h]), NEW n, Set(h, n),
         UNCHANGED <<discord, shared>>,
         ~shared /\ Kept(file[h], discord) => Kept(n, discord)
  PROVE  Faithful'
<1>1. DOMAIN file = Handles BY DEF IInv, Types
<1>2. (\A g \in Handles \ {h} : file'[g] = file[g]) /\ (~shared => file'[h] = n)
  BY <1>1 DEF Set
<1>3. ~shared /\ Kept(file[h], discord) => Kept(n, discord') OBVIOUS
<1> QED BY <1>2, <1>3, StepKept

LEMMA CreateKept ==
  ASSUME IInv, NEW h \in Handles, NEW flag, Create(h, flag)
  PROVE  Faithful'
<1>1. PICK n : n = [Closed EXCEPT !.open = TRUE, !.created = TRUE, !.mac = Empty,
                                  !.replaces = flag]
  OBVIOUS
<1>2. /\ n.pc = "idle" /\ n.size = 0 /\ n.chunks = <<>> /\ n.buffer = <<>> /\ n.goal = <<>>
  BY <1>1 DEF Closed
<1>3. Array(0, <<>>, <<>>, discord) = <<>>
  <2>1. PICK all : all = Array(0, <<>>, <<>>, discord) OBVIOUS
  <2>2. CoveredEnd(<<>>) = 0 /\ Len(<<>>) = 0 BY DEF CoveredEnd
  <2>3. Max2(0, CoveredEnd(<<>>) + Len(<<>>)) = 0 BY <2>2 DEF Max2
  <2>4. DOMAIN all = {} /\ all = [p \in {} |-> all[p]] BY <2>1, <2>3 DEF Array
  <2> QED BY <2>1, <2>4
<1>4. Kept(n, discord)
  <2>1. DOMAIN <<>> = {} OBVIOUS
  <2> QED BY <1>2, <1>3, <2>1 DEF Kept, Backed, Behind
<1>5. DOMAIN file = Handles /\ Set(h, n) /\ discord' = discord
  BY <1>1 DEF IInv, Types, Create
<1>6. \A g \in Handles \ {h} : file'[g] = file[g] BY <1>5 DEF Set
<1>7. ASSUME ~shared'
      PROVE  (\A g \in Handles \ {h} : Fresh(file[g])) /\ Kept(file'[h], discord')
  <2>1. ~shared /\ \A g \in Handles \ {h} : Fresh(file[g]) BY <1>7 DEF Create, Joins
  <2>2. file'[h] = n BY <1>5, <2>1 DEF Set
  <2> QED BY <1>4, <1>5, <2>1, <2>2
<1> QED BY <1>6, <1>7, OneKept

LEMMA OpenKept ==
  ASSUME IInv, NEW h \in Handles, NEW flag, Open(h, flag)
  PROVE  Faithful'
<1>1. PICK n : n = [Closed EXCEPT !.pc = "fetch", !.appends = flag, !.latest = Content(doc)]
  OBVIOUS
<1>2. n.open = FALSE BY <1>1 DEF Closed
<1>3. Kept(n, discord) BY <1>2 DEF Kept
<1>4. DOMAIN file = Handles /\ Set(h, n) /\ discord' = discord
  BY <1>1 DEF IInv, Types, Open
<1>5. \A g \in Handles \ {h} : file'[g] = file[g] BY <1>4 DEF Set
<1>6. ASSUME ~shared'
      PROVE  (\A g \in Handles \ {h} : Fresh(file[g])) /\ Kept(file'[h], discord')
  <2>1. ~shared /\ \A g \in Handles \ {h} : Fresh(file[g]) BY <1>6 DEF Open, Joins
  <2>2. file'[h] = n BY <1>4, <2>1 DEF Set
  <2> QED BY <1>3, <1>4, <2>1, <2>2
<1> QED BY <1>5, <1>6, OneKept

LEMMA RefetchKept ==
  ASSUME IInv, Faithful, NEW h \in Handles, Refetch(h)
  PROVE  Faithful'
<1>1. PICK o : o = file[h] OBVIOUS
<1>2. PICK n : n = [o EXCEPT !.pc = "fetch", !.latest = Content(doc)] OBVIOUS
<1>3. Typed(o) /\ o.open /\ o.pc = "idle" BY <1>1, Holding DEF Refetch
<1>4. /\ n.pc = "fetch" /\ n.failed = o.failed /\ n.open = o.open /\ n.chunks = o.chunks
      /\ n.cache = o.cache
  BY <1>2, <1>3 DEF Typed, Fields
<1>5. Kept(o, discord) => Kept(n, discord) BY <1>3, <1>4 DEF Kept, Backed, Behind
<1>6. Set(h, n) /\ UNCHANGED <<discord, shared>> BY <1>1, <1>2 DEF Refetch
<1>7. ~Fresh(o) BY <1>3 DEF Fresh
<1> QED BY <1>1, <1>5, <1>6, <1>7, QuietKept

LEMMA FetchedKept ==
  ASSUME IInv, Faithful, NEW h \in Handles, Fetched(h)
  PROVE  Faithful'
<1>1. PICK o, a : o = file[h] /\ a = Adopted(o) OBVIOUS
<1>2. PICK n : n = [a EXCEPT !.goal = View(a)] OBVIOUS
<1>3. Typed(o) /\ Firm(o, discord, sent) /\ o.pc = "fetch" BY <1>1, Holding DEF Fetched
<1>4. /\ DOMAIN a = Fields /\ a.chunks = o.latest.chunks /\ a.size = o.latest.size
      /\ a.pc = "idle" /\ a.buffer = o.buffer /\ a.data = o.data /\ a.at = o.at
      /\ a.cache = <<>>
  BY <1>1, <1>3 DEF Typed, Fields, Adopted, NoCache
<1>5. /\ n.chunks = a.chunks /\ n.size = a.size /\ n.pc = "idle" /\ n.buffer = a.buffer
      /\ n.cache = <<>> /\ n.goal = View(a)
  BY <1>2, <1>4 DEF Fields
<1>6. Fitted(a.size, a.chunks, discord, sent) BY <1>3, <1>4 DEF Firm
<1>7. Loaded(a) /\ Laid(a.chunks) BY <1>3, <1>4, <1>6 DEF Firm, Ready, Loaded, Fitted
<1>8. DOMAIN <<>> = {} OBVIOUS
<1>9. /\ Backed(a, discord) /\ Backed(n, discord)
      /\ \A k \in DOMAIN a.chunks : Mirrors(a.cache, a.chunks[k], discord)
  BY <1>4, <1>5, <1>8 DEF Backed, Mirrors
<1>10. View(a) = Array(a.size, a.chunks, a.buffer, discord) BY <1>7, <1>9, ViewIs
<1>11. Kept(n, discord) BY <1>5, <1>9, <1>10 DEF Kept, Behind
<1>12. Set(h, n) /\ UNCHANGED <<discord, shared>> BY <1>1, <1>2 DEF Fetched
<1>13. ~Fresh(o) BY <1>3 DEF Fresh
<1> QED BY <1>1, <1>11, <1>12, <1>13, QuietKept

\* What an idle handle that has not failed promises is the array.
LEMMA IdleKept ==
  ASSUME NEW o, o.open, ~o.failed, o.pc = "idle", NEW held, Kept(o, held)
  PROVE  Backed(o, held) /\ o.goal = Array(o.size, o.chunks, o.buffer, held)
  BY DEF Kept

\* A method that begins with the flush of the buffer.
LEMMA FlushCallKept ==
  ASSUME IInv, Faithful, NEW h \in Handles, NEW o, o = file[h], o.open, o.pc = "idle",
         ~o.failed,
         NEW n, DOMAIN n = Fields, n.task \in Flushing,
         n.chunks = o.chunks, n.size = o.size, n.cache = o.cache, n.buffer = o.buffer,
         Loaded(n), Call(h, FlushThen(n)),
         o.goal = Array(o.size, o.chunks, o.buffer, discord)
           => n.goal = Asked(n, Array(o.size, o.chunks, o.buffer, discord))
  PROVE  Faithful'
<1>1. Laid(n.chunks) BY Holding
<1>2. ASSUME Kept(o, discord) PROVE Kept(FlushThen(n), discord)
  <2>1. Backed(o, discord) /\ o.goal = Array(o.size, o.chunks, o.buffer, discord)
    BY <1>2, IdleKept
  <2>2. PICK held : held = discord OBVIOUS
  <2>3. Backed(n, held) BY <2>1, <2>2 DEF Backed
  <2>4. n.goal = Asked(n, Array(n.size, n.chunks, n.buffer, held)) BY <2>1, <2>2
  <2>5. Kept(FlushThen(n), held) BY <1>1, <2>3, <2>4, FlushThenKept
  <2> QED BY <2>2, <2>5
<1>3. ~Fresh(o) BY DEF Fresh
<1>4. Set(h, FlushThen(n)) /\ UNCHANGED <<discord, shared>> BY DEF Call
<1> QED BY <1>2, <1>3, <1>4, QuietKept

LEMMA WriteKept ==
  ASSUME IInv, Faithful, NEW h \in Handles, NEW offset \in Nat, NEW data \in Seq(Bytes),
         Write(h, offset, data)
  PROVE  Faithful'
<1>1. PICK o : o = file[h] OBVIOUS
<1>2. /\ DOMAIN o = Fields /\ o.open /\ ~o.failed /\ o.pc = "idle"
      /\ Laid(o.chunks) /\ Loaded(o)
  BY <1>1, Holding DEF Typed, Write, Free
<1>3. PICK at : at = IF o.appends THEN EndOfFile(o) ELSE offset OBVIOUS
<1>4. at \in Nat
  <2>1. CoveredEnd(o.chunks) \in Nat BY <1>2, EndType
  <2>2. Len(o.buffer) \in Nat /\ o.size \in Nat BY <1>2 DEF Loaded
  <2>3. EndOfFile(o) \in Nat BY <2>1, <2>2 DEF EndOfFile, AppendPosition, Max2
  <2> QED BY <1>3, <2>3
<1>5. PICK m : m = [o EXCEPT !.goal = Spliced(o.goal, at, data)] OBVIOUS
<1>6. PICK a : a = [m EXCEPT !.task = "append", !.buffer = m.buffer \o data] OBVIOUS
<1>7. PICK r : r = [m EXCEPT !.task = "random", !.at = at, !.data = data] OBVIOUS
<1>8. Call(h, IF at = AppendPosition(o) THEN AppendOn(a) ELSE FlushThen(r))
  BY <1>1, <1>3, <1>5, <1>6, <1>7 DEF Write, Call
<1>9. /\ DOMAIN m = Fields /\ m.goal = Spliced(o.goal, at, data)
      /\ m.chunks = o.chunks /\ m.size = o.size /\ m.cache = o.cache
      /\ m.buffer = o.buffer /\ m.data = o.data /\ m.at = o.at
  BY <1>2, <1>5 DEF Fields
<1>10. CASE at = AppendPosition(o)
  <2>1. /\ DOMAIN a = Fields /\ a.goal = Spliced(o.goal, at, data)
        /\ a.chunks = o.chunks /\ a.size = o.size /\ a.cache = o.cache
        /\ a.buffer = o.buffer \o data /\ a.data = o.data /\ a.at = o.at
    BY <1>6, <1>9 DEF Fields
  <2>2. Loaded(a) BY <1>2, <2>1 DEF Loaded
  <2>3. ASSUME Kept(o, discord) PROVE Kept(AppendOn(a), discord)
    <3>1. Backed(o, discord) /\ o.goal = Array(o.size, o.chunks, o.buffer, discord)
      BY <1>2, <2>3, IdleKept
    <3>2. PICK held : held = discord OBVIOUS
    <3>3. Backed(a, held) BY <2>1, <3>1, <3>2 DEF Backed
    <3>4. o.size \in Nat /\ o.buffer \in Seq(Bytes) BY <1>2 DEF Loaded
    <3>5. Spliced(Array(o.size, o.chunks, o.buffer, held),
                  CoveredEnd(o.chunks) + Len(o.buffer), data)
            = Array(o.size, o.chunks, o.buffer \o data, held)
      BY <1>2, <3>4, BufferedArray
    <3>6. at = CoveredEnd(o.chunks) + Len(o.buffer) BY <1>10 DEF AppendPosition
    <3>7. a.goal = Array(a.size, a.chunks, a.buffer, held) BY <2>1, <3>1, <3>2, <3>5, <3>6
    <3>8. Kept(AppendOn(a), held) BY <2>1, <2>2, <3>3, <3>7, AppendOnKept
    <3> QED BY <3>2, <3>8
  <2>4. Set(h, AppendOn(a)) /\ UNCHANGED <<discord, shared>> BY <1>8, <1>10 DEF Call
  <2>5. ~Fresh(o) BY <1>2 DEF Fresh
  <2> QED BY <1>1, <2>3, <2>4, <2>5, QuietKept
<1>11. CASE at # AppendPosition(o)
  <2>1. /\ DOMAIN r = Fields /\ r.task = "random" /\ r.goal = Spliced(o.goal, at, data)
        /\ r.chunks = o.chunks /\ r.size = o.size /\ r.cache = o.cache
        /\ r.buffer = o.buffer /\ r.data = data /\ r.at = at
    BY <1>7, <1>9 DEF Fields
  <2>2. Loaded(r) BY <1>2, <1>4, <2>1 DEF Loaded
  <2>3. PICK all : all = Array(o.size, o.chunks, o.buffer, discord) OBVIOUS
  <2>4. o.goal = all => r.goal = Asked(r, all) BY <2>1 DEF Asked
  <2>5. r.task \in Flushing /\ Call(h, FlushThen(r)) BY <1>8, <1>11, <2>1 DEF Flushing
  <2> QED BY <1>1, <1>2, <2>1, <2>2, <2>3, <2>4, <2>5, FlushCallKept
<1> QED BY <1>10, <1>11

LEMMA TruncateKept ==
  ASSUME IInv, Faithful, NEW h \in Handles, NEW size \in Nat, Truncate(h, size)
  PROVE  Faithful'
<1>1. PICK o : o = file[h] OBVIOUS
<1>2. DOMAIN o = Fields /\ o.open /\ ~o.failed /\ o.pc = "idle" /\ Loaded(o)
  BY <1>1, Holding DEF Typed, Truncate, Free
<1>3. PICK n : n = [o EXCEPT !.task = "resize", !.at = size, !.goal = Resized(o.goal, size)]
  OBVIOUS
<1>4. /\ DOMAIN n = Fields /\ n.task = "resize" /\ n.goal = Resized(o.goal, size)
      /\ n.chunks = o.chunks /\ n.size = o.size /\ n.cache = o.cache
      /\ n.buffer = o.buffer /\ n.data = o.data /\ n.at = size
  BY <1>2, <1>3 DEF Fields
<1>5. Loaded(n) BY <1>2, <1>4 DEF Loaded
<1>6. n.task \in Flushing /\ Call(h, FlushThen(n)) BY <1>1, <1>3, <1>4 DEF Truncate, Flushing
<1>7. PICK all : all = Array(o.size, o.chunks, o.buffer, discord) OBVIOUS
<1>8. o.goal = all => n.goal = Asked(n, all) BY <1>4 DEF Asked
<1> QED BY <1>1, <1>2, <1>4, <1>5, <1>6, <1>7, <1>8, FlushCallKept

LEMMA ReadKept ==
  ASSUME IInv, Faithful, NEW h \in Handles, NEW k, Read(h, k)
  PROVE  Faithful'
<1>1. PICK o : o = file[h] OBVIOUS
<1>2. DOMAIN o = Fields /\ o.open /\ o.pc = "idle" /\ Loaded(o) /\ Firm(o, discord, sent)
  BY <1>1, Holding DEF Typed, Read, Free
<1>3. CASE o.buffer # <<>> /\ ~o.failed
  <2>1. PICK n : n = [o EXCEPT !.task = "read"] OBVIOUS
  <2>2. /\ DOMAIN n = Fields /\ n.task = "read" /\ n.goal = o.goal
        /\ n.chunks = o.chunks /\ n.size = o.size /\ n.cache = o.cache
        /\ n.buffer = o.buffer /\ n.data = o.data /\ n.at = o.at
    BY <1>2, <2>1 DEF Fields
  <2>3. Loaded(n) BY <1>2, <2>2 DEF Loaded
  <2>4. n.task \in Flushing /\ Call(h, FlushThen(n)) BY <1>1, <1>3, <2>1, <2>2 DEF Read, Flushing
  <2>5. PICK all : all = Array(o.size, o.chunks, o.buffer, discord) OBVIOUS
  <2>6. o.goal = all => n.goal = Asked(n, all) BY <2>2 DEF Asked
  <2> QED BY <1>1, <1>2, <1>3, <2>2, <2>3, <2>4, <2>5, <2>6, FlushCallKept
<1>4. CASE ~(o.buffer # <<>> /\ ~o.failed)
  <2>1. PICK c, bytes : c = o.chunks[k] /\ bytes = ChunkBytes(o, c) OBVIOUS
  <2>2. PICK n : n = [o EXCEPT !.cache = Cached(o.cache, c.index, bytes)] OBVIOUS
  <2>3. /\ k \in DOMAIN o.chunks /\ Readable(o, c) /\ Set(h, n)
        /\ UNCHANGED <<discord, shared>>
    BY <1>1, <1>4, <2>1, <2>2 DEF Read, Call
  <2>4. /\ n.pc = "idle" /\ n.size = o.size /\ n.chunks = o.chunks /\ n.buffer = o.buffer
        /\ n.cache = Cached(o.cache, c.index, bytes) /\ n.goal = o.goal
        /\ n.open = o.open /\ n.failed = o.failed
    BY <1>2, <2>2 DEF Fields
  <2>5. ASSUME Kept(o, discord) PROVE Kept(n, discord)
    <3>1. CASE o.failed BY <2>4, <3>1 DEF Kept
    <3>2. CASE ~o.failed
      <4>1. Backed(o, discord) /\ o.goal = Array(o.size, o.chunks, o.buffer, discord)
        BY <1>2, <2>5, <3>2, IdleKept
      <4>2. c.msg \in DOMAIN discord BY <2>1, <2>3, <4>1 DEF Readable, Backed
      <4>3. PICK held, m : held = discord /\ m = sent OBVIOUS
      <4>4. Fitted(o.size, o.chunks, held, m) BY <1>2, <4>3 DEF Firm
      <4>5. o.chunks[k].msg \in DOMAIN held BY <2>1, <4>2, <4>3
      <4>6. n.cache = Cached(o.cache, o.chunks[k].index, bytes) BY <2>1, <2>4
      <4>7. Backed(o, held) BY <4>1, <4>3
      <4>8. Backed(n, held) BY <2>3, <2>4, <4>4, <4>5, <4>6, <4>7, CachedBacks
      <4> QED BY <2>4, <4>1, <4>3, <4>8 DEF Kept, Behind
    <3> QED BY <3>1, <3>2
  <2>6. ~Fresh(o) BY <1>2 DEF Fresh
  <2> QED BY <1>1, <2>3, <2>5, <2>6, QuietKept
<1> QED BY <1>3, <1>4

\* A handle that lets go, or has failed, owes nothing.
LEMMA LetGo ==
  ASSUME IInv, Faithful, NEW h \in Handles, ~Fresh(file[h]), NEW n, Set(h, n),
         UNCHANGED <<discord, shared>>, n.failed \/ n = Closed
  PROVE  Faithful'
<1>1. Kept(n, discord)
  <2>1. CASE n.failed BY <2>1 DEF Kept
  <2>2. CASE n = Closed BY <2>2, ClosedKept
  <2> QED BY <2>1, <2>2
<1> QED BY <1>1, QuietKept

LEMMA RollbackFails ==
  ASSUME NEW o, DOMAIN o = Fields
  PROVE  Rollback(o).failed = TRUE
<1>1. PICK q, r, n : q = Rest(o) /\ r = Raised(o) /\ n = Rollback(o) OBVIOUS
<1>2. DOMAIN q = Fields BY <1>1 DEF Rest, Fields
<1>3. DOMAIN r = Fields BY <1>1, <1>2 DEF Raised, Fields
<1>4. n.failed = TRUE BY <1>1, <1>3 DEF Rollback, RollbackAll, Fields
<1> QED BY <1>1, <1>4

LEMMA CloseKept ==
  ASSUME IInv, Faithful, NEW h \in Handles, Close(h)
  PROVE  Faithful'
<1>1. PICK o : o = file[h] OBVIOUS
<1>2. DOMAIN o = Fields /\ o.open /\ o.pc = "idle" /\ Loaded(o) /\ ~Fresh(o)
  BY <1>1, Holding DEF Typed, Close, Free, Fresh
<1>3. CASE o.failed
  <2>1. Set(h, Closed) /\ UNCHANGED <<discord, shared>> BY <1>1, <1>3 DEF Close, Call
  <2> QED BY <1>1, <1>2, <2>1, LetGo
<1>4. CASE ~o.failed
  <2>1. PICK n : n = [o EXCEPT !.task = "close"] OBVIOUS
  <2>2. /\ DOMAIN n = Fields /\ n.task = "close" /\ n.goal = o.goal
        /\ n.chunks = o.chunks /\ n.size = o.size /\ n.cache = o.cache
        /\ n.buffer = o.buffer /\ n.data = o.data /\ n.at = o.at
    BY <1>2, <2>1 DEF Fields
  <2>3. Loaded(n) BY <1>2, <2>2 DEF Loaded
  <2>4. n.task \in Flushing /\ Call(h, FlushThen(n)) BY <1>1, <1>4, <2>1, <2>2 DEF Close, Flushing
  <2>5. PICK all : all = Array(o.size, o.chunks, o.buffer, discord) OBVIOUS
  <2>6. o.goal = all => n.goal = Asked(n, all) BY <2>2 DEF Asked
  <2> QED BY <1>1, <1>2, <1>4, <2>2, <2>3, <2>4, <2>5, <2>6, FlushCallKept
<1> QED BY <1>3, <1>4

LEMMA AbortKept ==
  ASSUME IInv, Faithful, NEW h \in Handles, Abort(h)
  PROVE  Faithful'
<1>1. PICK o : o = file[h] OBVIOUS
<1>2. DOMAIN o = Fields /\ ~Fresh(o) BY <1>1, Holding DEF Typed, Abort, Free, Fresh
<1>3. PICK n : n = [o EXCEPT !.buffer = <<>>, !.task = "abort"] OBVIOUS
<1>4. PICK p : p = IF o.failed THEN Closed ELSE Rollback(n) OBVIOUS
<1>5. DOMAIN n = Fields BY <1>2, <1>3 DEF Fields
<1>6. p.failed \/ p = Closed BY <1>4, <1>5, RollbackFails
<1>7. Set(h, p) /\ UNCHANGED <<discord, shared>> BY <1>1, <1>3, <1>4 DEF Abort, Call
<1> QED BY <1>1, <1>2, <1>6, <1>7, LetGo

\* A new attachment is of no chunk there is.
LEMMA SentSame ==
  ASSUME NEW size, NEW chunks, NEW held, NEW m \in Nat, Fitted(size, chunks, held, m),
         NEW now, DOMAIN now = DOMAIN held \cup {m + 1},
         \A i \in DOMAIN held \ {m + 1} : now[i] = held[i]
  PROVE  SameFor(chunks, now, held)
<1>1. ASSUME NEW k \in DOMAIN chunks
      PROVE  /\ chunks[k].msg \in DOMAIN now <=> chunks[k].msg \in DOMAIN held
             /\ chunks[k].msg \in DOMAIN held => now[chunks[k].msg] = held[chunks[k].msg]
  <2>1. chunks[k].msg \in 1 .. m BY DEF Fitted, Holds
  <2>2. chunks[k].msg # m + 1 BY <2>1
  <2> QED BY <2>2
<1> QED BY <1>1 DEF SameFor

\* What is uploaded was made from the chunk it replaces.
LEMMA SendingMade ==
  ASSUME NEW o, o.pc = "upload", Aimed(o), Firm(o, discord, sent), Backed(o, discord),
         Fetchable(o), NEW now, SameFor(o.chunks, now, discord),
         NEW n, Alike(o, n), n.piece = Sending(o), n.msg \in DOMAIN now
  PROVE  Made(n, now)
<1>1. PICK old, held : old = o.chunks /\ held = discord OBVIOUS
<1>2. /\ Laid(old) /\ Loaded(o) /\ Shaped(o)
      /\ \A k \in DOMAIN old : Mirrors(o.cache, old[k], held)
      /\ o.step = "trim" => Straddlers(o) # {}
  BY <1>1 DEF Firm, Fitted, Ready, Mirrored, Behind
<1>3. Patched(n) = Patched(o) /\ Straddler(n) = Straddler(o) BY AlikeIs
<1>4. n.step = o.step /\ n.at = o.at /\ n.data = o.data /\ n.chunks = o.chunks BY DEF Alike
<1>5. PatchTake(n) = PatchTake(o) BY <1>3, <1>4 DEF PatchTake
<1>6. ASSUME NEW k \in DOMAIN old, old[k].msg \in DOMAIN held
      PROVE  old[k].msg \in DOMAIN now /\ now[old[k].msg] = held[old[k].msg]
  BY <1>1, <1>6 DEF SameFor
<1>7. ASSUME o.step = "patch"
      PROVE  /\ Patched(n).msg \in DOMAIN now
             /\ n.piece = Spliced(now[Patched(n).msg], n.at - Patched(n).offset,
                                  SubSeq(n.data, 1, PatchTake(n)))
  <2>1. Locate(old, o.at) # {} BY <1>1, <1>2, <1>7 DEF Shaped
  <2>2. PICK k : k = CHOOSE j \in Locate(old, o.at) : TRUE OBVIOUS
  <2>3. k \in DOMAIN old /\ Patched(o) = old[k] BY <1>1, <2>1, <2>2 DEF Locate, Patched
  <2>4. PICK c : c = old[k] OBVIOUS
  <2>5. Readable(o, c) BY <1>7, <2>3, <2>4 DEF Fetchable
  <2>6. c.index \in DOMAIN o.cache => c.msg \in DOMAIN held
    BY <1>1, <2>3, <2>4 DEF Backed
  <2>7. c.msg \in DOMAIN held BY <1>1, <2>5, <2>6 DEF Readable
  <2>8. ChunkBytes(o, c) = held[c.msg]
    BY <1>1, <1>2, <2>3, <2>4, <2>7 DEF ChunkBytes, Mirrors, Matches
  <2>9. n.piece = Spliced(ChunkBytes(o, c), o.at - c.offset, SubSeq(o.data, 1, PatchTake(o)))
    BY <1>7, <2>3, <2>4 DEF Sending, PatchedBytes
  <2>10. c.msg \in DOMAIN now /\ now[c.msg] = held[c.msg] BY <1>6, <2>3, <2>4, <2>7
  <2>11. Patched(n) = c BY <1>3, <2>3, <2>4
  <2> QED BY <1>4, <1>5, <2>8, <2>9, <2>10, <2>11
<1>8. ASSUME o.step = "trim"
      PROVE  /\ Straddler(n).msg \in DOMAIN now
             /\ n.piece = SubSeq(now[Straddler(n).msg], 1, n.at - Straddler(n).offset)
  <2>1. Straddlers(o) # {} BY <1>2, <1>8
  <2>2. PICK k : k = CHOOSE j \in Straddlers(o) : TRUE OBVIOUS
  <2>3. k \in DOMAIN old /\ Straddler(o) = old[k] BY <1>1, <2>1, <2>2 DEF Straddlers, Straddler
  <2>4. PICK c : c = old[k] OBVIOUS
  <2>5. c.msg \in DOMAIN held BY <1>1, <1>8, <2>3, <2>4 DEF Fetchable
  <2>6. n.piece = SubSeq(held[c.msg], 1, o.at - c.offset)
    BY <1>1, <1>8, <2>3, <2>4 DEF Sending
  <2>7. c.msg \in DOMAIN now /\ now[c.msg] = held[c.msg] BY <1>6, <2>3, <2>4, <2>5
  <2>8. Straddler(n) = c BY <1>3, <2>3, <2>4
  <2> QED BY <1>4, <2>6, <2>7, <2>8
<1> QED BY <1>4, <1>7, <1>8 DEF Made

LEMMA SendKept ==
  ASSUME IInv, Faithful, NEW h \in Handles, Send(h)
  PROVE  Faithful'
<1>1. PICK o : o = file[h] OBVIOUS
<1>2. PICK n, bytes : /\ bytes = Sending(o)
                      /\ n = [o EXCEPT !.pc = "commit", !.piece = bytes, !.msg = sent + 1]
  OBVIOUS
<1>3. /\ Typed(o) /\ o.pc = "upload" /\ ~o.failed /\ ~Fresh(o) /\ Aimed(o) /\ Fetchable(o)
      /\ Firm(o, discord, sent)
  BY <1>1, Holding DEF Typed, Send, Fresh
<1>4. /\ n.failed = o.failed /\ n.undo = o.undo /\ n.pc = "commit" /\ n.open = o.open
      /\ n.msg = sent + 1 /\ n.task = o.task /\ n.piece = bytes /\ n.goal = o.goal
      /\ Alike(o, n)
  BY <1>2, <1>3 DEF Fields, Typed, Alike
<1>5. DOMAIN file = Handles /\ sent \in Nat BY DEF IInv, Types
<1>6. /\ \A g \in Handles \ {h} : file'[g] = file[g]
      /\ ~shared => file'[h] = n
  BY <1>1, <1>2, <1>5 DEF Send, Set
<1>7. PICK now, held, m : now = discord' /\ held = discord /\ m = sent OBVIOUS
<1>8. /\ DOMAIN now = DOMAIN held \cup {m + 1}
      /\ \A i \in DOMAIN held \ {m + 1} : now[i] = held[i]
  BY <1>1, <1>7 DEF Send
<1>9. SameFor(o.chunks, now, held)
  <2>1. Fitted(o.size, o.chunks, held, m) BY <1>3, <1>7 DEF Firm
  <2>2. m \in Nat BY <1>5, <1>7
  <2> QED BY <1>8, <2>1, <2>2, SentSame
<1>10. ASSUME Kept(o, held), o.open PROVE Kept(n, now)
  <2>1. Backed(o, held) /\ Planned(o) /\ o.goal = Due(o, held) BY <1>3, <1>10 DEF Kept
  <2>2. /\ Due(n, now) = Due(o, held) /\ (Backed(n, now) <=> Backed(o, held))
        /\ n.piece = o.piece => (Planned(n) <=> Planned(o))
    BY <1>4, <1>9, StillDue
  <2>3. o.step \in NewChunk => bytes = o.piece BY <1>2, <1>3, SendingIs
  <2>4. Planned(n)
    <3>1. CASE o.step \in NewChunk BY <1>4, <2>1, <2>2, <2>3, <3>1
    <3>2. CASE o.step \notin NewChunk
      BY <1>4, <2>1, <3>2 DEF Planned, NewChunk, Alike
    <3> QED BY <3>1, <3>2
  <2>5. Made(n, now)
    <3>1. SameFor(o.chunks, now, discord) BY <1>7, <1>9
    <3>2. Backed(o, discord) BY <1>7, <2>1
    <3>3. n.piece = Sending(o) BY <1>2, <1>4
    <3>4. n.msg \in DOMAIN now BY <1>4, <1>7, <1>8
    <3> QED BY <1>3, <1>4, <3>1, <3>2, <3>3, <3>4, SendingMade
  <2> QED BY <1>4, <2>1, <2>2, <2>4, <2>5 DEF Kept, Behind
<1>11. ASSUME Kept(o, discord) PROVE Kept(n, discord')
  <2>1. CASE o.open BY <1>7, <1>10, <1>11, <2>1
  <2>2. CASE ~o.open BY <1>4, <2>2 DEF Kept
  <2> QED BY <2>1, <2>2
<1>12. UNCHANGED shared BY DEF Send
<1> QED BY <1>1, <1>3, <1>6, <1>11, <1>12, StepKept

\* An upload or a commit that raises.
LEMMA RaiseKept ==
  ASSUME IInv, Faithful, NEW h \in Handles, NEW o, o = file[h], o.pc \in {"upload", "discard"},
         ~Behind(o), UNCHANGED <<discord, shared>>,
         Set(h, IF o.step \in NewChunk THEN Rollback(o) ELSE Raised(o))
  PROVE  Faithful'
<1>1. /\ DOMAIN o = Fields /\ ~o.failed /\ ~Fresh(o) /\ Loaded(o) /\ Laid(o.chunks)
      /\ Firm(o, discord, sent)
  BY Holding DEF Typed, Fresh
<1>2. CASE o.step \in NewChunk
  <2>1. Set(h, Rollback(o)) BY <1>2
  <2> QED BY <1>1, <2>1, RollbackFails, LetGo
<1>3. CASE o.step \notin NewChunk
  <2>1. Set(h, Raised(o)) BY <1>3
  <2>2. ASSUME Kept(o, discord) PROVE Kept(Raised(o), discord)
    <3>1. CASE o.open
      <4>1. Backed(o, discord) BY <1>1, <2>2, <3>1 DEF Kept
      <4>2. \A k \in DOMAIN o.chunks : Mirrors(o.cache, o.chunks[k], discord)
        BY <1>1 DEF Firm, Mirrored
      <4> QED BY <1>1, <4>1, <4>2, RaisedKept
    <3>2. CASE ~o.open
      <4>1. PICK r, n : r = Rest(o) /\ n = Raised(o) OBVIOUS
      <4>2. DOMAIN r = Fields /\ r.open = o.open BY <1>1, <4>1 DEF Rest, Fields
      <4>3. n.open = o.open BY <4>1, <4>2 DEF Raised, Fields
      <4>4. Kept(n, discord) BY <3>2, <4>3 DEF Kept
      <4> QED BY <4>1, <4>4
    <3> QED BY <3>1, <3>2
  <2> QED BY <1>1, <2>1, <2>2, QuietKept
<1> QED BY <1>2, <1>3

LEMMA SendFailsKept ==
  ASSUME IInv, Faithful, NEW h \in Handles, SendFails(h)
  PROVE  Faithful'
<1>1. PICK o : o = file[h] OBVIOUS
<1>2. /\ o.pc = "upload" /\ UNCHANGED <<discord, shared>>
      /\ Set(h, IF o.step \in NewChunk THEN Rollback(o) ELSE Raised(o))
  BY <1>1 DEF SendFails
<1> QED BY <1>1, <1>2, RaiseKept DEF Behind

LEMMA ApplyKept ==
  ASSUME IInv, Faithful, NEW h \in Handles, Apply(h)
  PROVE  Faithful'
<1>1. PICK o : o = file[h] OBVIOUS
<1>2. PICK n : n = [o EXCEPT !.pc = "ack"] OBVIOUS
<1>3. Typed(o) /\ o.pc = "commit" /\ ~o.failed /\ ~Fresh(o)
  BY <1>1, Holding DEF Typed, Apply, Fresh
<1>4. /\ n.failed = o.failed /\ n.undo = o.undo /\ n.pc = "ack" /\ n.open = o.open
      /\ n.msg = o.msg /\ n.task = o.task /\ n.piece = o.piece /\ n.goal = o.goal
      /\ Alike(o, n)
  BY <1>2, <1>3 DEF Fields, Typed, Alike
<1>5. /\ \A g \in Handles \ {h} : file'[g] = file[g]
      /\ file'[h] = n /\ UNCHANGED <<discord, shared>>
  BY <1>1, <1>2 DEF Apply, IInv, Types
<1>6. ASSUME Kept(o, discord), o.open PROVE Kept(n, discord)
  <2>1. PICK held : held = discord OBVIOUS
  <2>2. Backed(o, held) /\ Planned(o) /\ o.goal = Due(o, held) /\ (Bare(o) \/ Made(o, held))
    BY <1>3, <1>6, <2>1 DEF Kept
  <2>3. SameFor(o.chunks, held, held) BY SameHeld
  <2>4. /\ Due(n, held) = Due(o, held) /\ (Backed(n, held) <=> Backed(o, held))
        /\ n.piece = o.piece => (Planned(n) <=> Planned(o))
        /\ PatchTake(n) = PatchTake(o)
    BY <1>4, <2>3, StillDue
  <2>5. Patched(n) = Patched(o) /\ Straddler(n) = Straddler(o) /\ (Bare(n) <=> Bare(o))
    BY <1>4, AlikeIs
  <2>6. Made(o, held) => Made(n, held) BY <1>4, <2>4, <2>5 DEF Made, Alike
  <2> QED BY <1>4, <2>1, <2>2, <2>4, <2>5, <2>6 DEF Kept, Behind
<1>7. ASSUME Kept(o, discord) PROVE Kept(n, discord')
  <2>1. CASE o.open BY <1>5, <1>6, <1>7, <2>1
  <2>2. CASE ~o.open BY <1>4, <2>2 DEF Kept
  <2> QED BY <2>1, <2>2
<1> QED BY <1>1, <1>3, <1>5, <1>7, StepKept

LEMMA CommittedKept ==
  ASSUME IInv, Faithful, NEW h \in Handles, Commit(h)
  PROVE  Faithful'
<1>1. PICK o, new : o = file[h] /\ new = Layout(o) OBVIOUS
<1>2. PICK n : n = [o EXCEPT !.size = new.size, !.chunks = new.chunks, !.mac = new,
                             !.pc = "discard",
                             !.doomed = Messaged(o.chunks) \ Messaged(new.chunks)]
  OBVIOUS
<1>3. Typed(o) /\ o.pc = "ack" /\ ~Fresh(o) /\ Firm(o, discord, sent)
  BY <1>1, Holding DEF Commit, Fresh
<1>4. /\ n.failed = o.failed /\ n.undo = o.undo /\ n.pc = "discard" /\ n.open = o.open
      /\ n.size = new.size /\ n.chunks = new.chunks /\ n.cache = o.cache
      /\ n.step = o.step /\ n.task = o.task /\ n.piece = o.piece /\ n.msg = o.msg
      /\ n.buffer = o.buffer /\ n.data = o.data /\ n.at = o.at /\ n.goal = o.goal
  BY <1>2, <1>3 DEF Fields, Typed
<1>5. Set(h, n) /\ UNCHANGED <<discord, shared>> BY <1>1, <1>2 DEF Commit
<1>6. ASSUME Kept(o, discord) PROVE Kept(n, discord)
  <2>1. PICK held, m : held = discord /\ m = sent OBVIOUS
  <2>2. Firm(o, held, m) /\ Kept(o, held) BY <1>3, <1>6, <2>1
  <2>3. n.size = Layout(o).size /\ n.chunks = Layout(o).chunks BY <1>1, <1>4
  <2>4. Kept(n, held) BY <1>3, <1>4, <2>2, <2>3, CommitKept
  <2> QED BY <2>1, <2>4
<1> QED BY <1>1, <1>3, <1>5, <1>6, QuietKept

LEMMA CommitFailsKept ==
  ASSUME IInv, Faithful, NEW h \in Handles, CommitFails(h)
  PROVE  Faithful'
<1>1. PICK o : o = file[h] OBVIOUS
<1>2. PICK n : n = [o EXCEPT !.pc = "discard", !.undo = TRUE, !.doomed = {o.msg} \ {0}]
  OBVIOUS
<1>3. Typed(o) /\ o.pc \in {"commit", "ack"} /\ ~Fresh(o)
  BY <1>1, Holding DEF CommitFails, Fresh
<1>4. /\ n.failed = o.failed /\ n.undo = TRUE /\ n.pc = "discard" /\ n.open = o.open
      /\ n.chunks = o.chunks /\ n.cache = o.cache
  BY <1>2, <1>3 DEF Fields, Typed
<1>5. Set(h, n) /\ UNCHANGED <<discord, shared>> BY <1>1, <1>2 DEF CommitFails
<1>6. Kept(o, discord) => Kept(n, discord) BY <1>3, <1>4 DEF Kept, Backed, Behind
<1> QED BY <1>1, <1>3, <1>5, <1>6, QuietKept

\* A delete after a commit is of attachments the layout does not name.
LEMMA DoomedKept ==
  ASSUME NEW o, Typed(o), o.pc = "discard", NEW held, NEW k, Firm(o, held, k), Kept(o, held),
         NEW gone, NEW n, n = [o EXCEPT !.doomed = gone],
         NEW now, SameFor(o.chunks, now, held)
  PROVE  Kept(n, now)
<1>1. /\ n.failed = o.failed /\ n.undo = o.undo /\ n.pc = "discard" /\ n.open = o.open
      /\ n.msg = o.msg /\ n.task = o.task /\ n.piece = o.piece /\ n.goal = o.goal
      /\ Alike(o, n)
  BY DEF Fields, Typed, Alike
<1>2. /\ (Backed(n, now) <=> Backed(o, held))
      /\ n.piece = o.piece => Left(n, now) = Left(o, held)
  BY <1>1, StillDue
<1>3. ASSUME Behind(o), o.step = "patch", o.msg \in DOMAIN held PROVE n.msg \in DOMAIN now
  <2>1. Locate(o.chunks, o.at) # {} BY <1>3 DEF Firm, Ready, Shaped
  <2>2. PICK j : j = CHOOSE i \in Locate(o.chunks, o.at) : TRUE OBVIOUS
  <2>3. j \in DOMAIN o.chunks /\ Patched(o) = o.chunks[j] BY <2>1, <2>2 DEF Locate, Patched
  <2>4. o.chunks[j].msg = o.msg BY <1>3, <2>3 DEF Firm
  <2> QED BY <1>1, <1>3, <2>3, <2>4 DEF SameFor
<1>4. Behind(n) <=> Behind(o) BY <1>1 DEF Behind
<1> QED BY <1>1, <1>2, <1>3, <1>4 DEF Kept, Alike

LEMMA DeleteKept ==
  ASSUME IInv, Faithful, NEW h \in Handles, NEW m, Delete(h, m)
  PROVE  Faithful'
<1>1. PICK o : o = file[h] OBVIOUS
<1>2. PICK n : n = [o EXCEPT !.doomed = o.doomed \ {m}] OBVIOUS
<1>3. /\ Typed(o) /\ o.pc \in {"discard", "unwind"} /\ m \in o.doomed /\ ~Fresh(o)
      /\ Firm(o, discord, sent)
  BY <1>1, Holding DEF Delete, Awaiting, Fresh
<1>4. /\ \A g \in Handles \ {h} : file'[g] = file[g]
      /\ file'[h] = n /\ UNCHANGED shared
  BY <1>1, <1>2 DEF Delete, IInv, Types
<1>5. PICK now, held, k : now = discord' /\ held = discord /\ k = sent OBVIOUS
<1>6. DOMAIN now = DOMAIN held \ {m} /\ \A i \in DOMAIN held \ {m} : now[i] = held[i]
  BY <1>5 DEF Delete
<1>7. ASSUME ~shared, Kept(o, discord) PROVE Kept(n, discord')
  <2>1. CASE o.pc = "discard"
    <3>1. ~o.failed /\ Working(o) BY <1>3, <2>1 DEF Typed, Working
    <3>2. Sound(o, doc, DOMAIN discord, sent, Undone, lost) BY <1>1, <1>3, <1>7, InUse
    <3>3. o.doomed \cap Messaged(o.chunks) = {} BY <2>1, <3>2 DEF Sound, Agrees
    <3>4. m \notin Messaged(o.chunks) BY <1>3, <3>3
    <3>5. SameFor(o.chunks, now, held) BY <1>6, <3>4 DEF SameFor, Messaged
    <3>6. Firm(o, held, k) /\ Kept(o, held) BY <1>3, <1>5, <1>7
    <3>7. Kept(n, now) BY <1>2, <1>3, <2>1, <3>5, <3>6, DoomedKept
    <3> QED BY <1>5, <3>7
  <2>2. CASE o.pc = "unwind"
    <3>1. n.failed = o.failed /\ o.failed BY <1>2, <1>3, <2>2 DEF Typed, Fields
    <3> QED BY <3>1 DEF Kept
  <2> QED BY <1>3, <2>1, <2>2
<1> QED BY <1>1, <1>3, <1>4, <1>7, StepKept

LEMMA DeleteFailsKept ==
  ASSUME IInv, Faithful, NEW h \in Handles, NEW m, DeleteFails(h, m)
  PROVE  Faithful'
<1>1. PICK o : o = file[h] OBVIOUS
<1>2. PICK n : n = [o EXCEPT !.doomed = o.doomed \ {m}] OBVIOUS
<1>3. /\ Typed(o) /\ o.pc \in {"discard", "unwind"} /\ ~Fresh(o) /\ Firm(o, discord, sent)
  BY <1>1, Holding DEF DeleteFails, Awaiting, Fresh
<1>4. Set(h, n) /\ UNCHANGED <<discord, shared>> BY <1>1, <1>2 DEF DeleteFails
<1>5. ASSUME Kept(o, discord) PROVE Kept(n, discord)
  <2>1. CASE o.pc = "discard"
    <3>1. PICK held, k : held = discord /\ k = sent OBVIOUS
    <3>2. Firm(o, held, k) /\ Kept(o, held) BY <1>3, <1>5, <3>1
    <3>3. Kept(n, held) BY <1>2, <1>3, <2>1, <3>2, SameHeld, DoomedKept
    <3> QED BY <3>1, <3>3
  <2>2. CASE o.pc = "unwind"
    <3>1. n.failed = o.failed /\ o.failed BY <1>2, <1>3, <2>2 DEF Typed, Fields
    <3> QED BY <3>1 DEF Kept
  <2> QED BY <1>3, <2>1, <2>2
<1> QED BY <1>1, <1>3, <1>4, <1>5, QuietKept

\* Going on does not open a handle.
LEMMA StaysShut ==
  ASSUME NEW o, DOMAIN o = Fields, Aimed(o), ~o.open
  PROVE  ~Continue(o).open
<1> DEFINE Shut(n) == DOMAIN n = Fields /\ ~n.open
<1>1. ASSUME NEW n, Shut(n) PROVE ~Rest(n).open BY <1>1 DEF Rest, Fields
<1>2. ASSUME NEW n, Shut(n), NEW step, NEW piece PROVE ~Upload(n, step, piece).open
  BY <1>2 DEF Upload, Fields
<1>3. ASSUME NEW n, Shut(n), NEW pc PROVE ~[n EXCEPT !.pc = pc].open BY <1>3 DEF Fields
<1>4. ASSUME NEW n, Shut(n) PROVE ~[n EXCEPT !.pc = "commit", !.step = "trim", !.msg = 0].open
  BY <1>4 DEF Fields
<1>5. ASSUME NEW n, Shut(n), NEW buffer, NEW data, NEW at, NEW cache
      PROVE  /\ Shut([n EXCEPT !.buffer = buffer]) /\ Shut([n EXCEPT !.data = data])
             /\ Shut([n EXCEPT !.at = at, !.data = data, !.cache = cache])
             /\ Shut([n EXCEPT !.cache = cache])
             /\ [n EXCEPT !.buffer = buffer].task = n.task
  BY <1>5 DEF Fields
<1> HIDE DEF Shut
<1>6. ASSUME NEW n, Shut(n) PROVE ~AppendOn(n).open BY <1>1, <1>2, <1>6 DEF AppendOn
<1>7. ASSUME NEW n, Shut(n) PROVE ~Extend(n).open BY <1>1, <1>2, <1>7 DEF Extend
<1>8. ASSUME NEW n, Shut(n) PROVE ~Patch(n).open BY <1>2, <1>7, <1>8 DEF Patch
<1>9. ASSUME NEW n, Shut(n) PROVE ~Gap(n).open BY <1>2, <1>8, <1>9 DEF Gap
<1>10. ASSUME NEW n, Shut(n) PROVE ~Trim(n).open BY <1>2, <1>4, <1>10 DEF Trim
<1>11. ASSUME NEW n, Shut(n), n.task \in Flushing PROVE ~Flushed(n).open
  <2>1. CASE n.task = "random" BY <1>9, <1>11, <2>1 DEF Flushed
  <2>2. CASE n.task = "resize" BY <1>10, <1>11, <2>2 DEF Flushed
  <2>3. CASE n.task = "read" BY <1>1, <1>11, <2>3 DEF Flushed
  <2>4. CASE n.task = "close"
    <3>1. Flushed(n) = IF n.replaces THEN [n EXCEPT !.pc = "swap"] ELSE Closed
      BY <2>4 DEF Flushed
    <3> QED BY <1>3, <1>11, <3>1, ClosedIs
  <2> QED BY <1>11, <2>1, <2>2, <2>3, <2>4 DEF Flushing
<1>12. Shut(o) BY DEF Shut
<1>13. CASE o.step = "append"
  <2>1. PICK n : n = [o EXCEPT !.buffer = Dropped(o.buffer, Len(o.piece))] OBVIOUS
  <2>2. Continue(o) = AppendOn(n) BY <1>13, <2>1 DEF Continue
  <2> QED BY <1>5, <1>6, <1>12, <2>1, <2>2
<1>14. CASE o.step = "flush"
  <2>1. PICK n : n = [o EXCEPT !.buffer = <<>>] OBVIOUS
  <2>2. Continue(o) = Flushed(n) BY <1>14, <2>1 DEF Continue
  <2>3. Shut(n) /\ n.task = o.task BY <1>5, <1>12, <2>1
  <2> QED BY <1>11, <1>14, <2>2, <2>3 DEF Aimed
<1>15. CASE o.step = "gap" BY <1>9, <1>12, <1>15 DEF Continue
<1>16. CASE o.step = "extend"
  <2>1. PICK n : n = [o EXCEPT !.data = Dropped(o.data, Len(o.piece))] OBVIOUS
  <2>2. Continue(o) = Extend(n) BY <1>16, <2>1 DEF Continue
  <2> QED BY <1>5, <1>7, <1>12, <2>1, <2>2
<1>17. CASE o.step = "patch"
  <2>1. PICK at, data, cache :
          /\ at = o.at + PatchTake(o) /\ data = Dropped(o.data, PatchTake(o))
          /\ cache = Cached(o.cache, Patched(o).index, o.piece)
    OBVIOUS
  <2>2. PICK n : n = [o EXCEPT !.at = at, !.data = data, !.cache = cache] OBVIOUS
  <2>3. Continue(o) = Patch(n) BY <1>17, <2>1, <2>2 DEF Continue
  <2> QED BY <1>5, <1>8, <1>12, <2>2, <2>3
<1>18. CASE o.step = "trim"
  <2>1. PICK n : n = [o EXCEPT !.cache = NoCache] OBVIOUS
  <2>2. Continue(o) = Rest(n) BY <1>18, <2>1 DEF Continue
  <2> QED BY <1>1, <1>5, <1>12, <2>1, <2>2
<1> QED BY <1>13, <1>14, <1>15, <1>16, <1>17, <1>18 DEF Aimed, Steps

LEMMA ProceedKept ==
  ASSUME IInv, Faithful, NEW h \in Handles, Proceed(h)
  PROVE  Faithful'
<1>1. PICK o : o = file[h] OBVIOUS
<1>2. /\ DOMAIN o = Fields /\ o.pc = "discard" /\ ~o.failed /\ ~Fresh(o) /\ Aimed(o)
      /\ Firm(o, discord, sent)
  BY <1>1, Holding DEF Typed, Proceed, Fresh
<1>3. UNCHANGED <<discord, shared>> BY DEF Proceed, Call
<1>4. CASE ~o.undo
  <2>1. Set(h, Continue(o)) BY <1>1, <1>4 DEF Proceed, Call
  <2>2. Behind(o) BY <1>2, <1>4 DEF Behind
  <2>3. ASSUME Kept(o, discord) PROVE Kept(Continue(o), discord)
    <3>1. PICK held, m : held = discord /\ m = sent OBVIOUS
    <3>2. Firm(o, held, m) /\ Kept(o, held) BY <1>2, <2>3, <3>1
    <3>3. CASE o.open
      <4>1. Kept(Continue(o), held) BY <1>2, <2>2, <3>2, <3>3, ContinueKept
      <4> QED BY <3>1, <4>1
    <3>4. CASE ~o.open BY <1>2, <3>4, StaysShut DEF Kept
    <3> QED BY <3>3, <3>4
  <2> QED BY <1>1, <1>2, <1>3, <2>1, <2>3, QuietKept
<1>5. CASE o.undo
  <2>1. Set(h, IF o.step \in NewChunk THEN Rollback(o) ELSE Raised(o))
    BY <1>1, <1>5 DEF Proceed, Call
  <2>2. ~Behind(o) BY <1>5 DEF Behind
  <2> QED BY <1>1, <1>2, <1>3, <2>1, <2>2, RaiseKept
<1> QED BY <1>4, <1>5

\* The steps after which a handle lets go, or has failed.
LEMMA LastKept ==
  ASSUME IInv, Faithful, NEW h \in Handles,
         \/ Swap(h) \/ SwapFails(h) \/ Unwound(h) \/ DropRow(h) \/ DropRowFails(h)
  PROVE  Faithful'
<1>1. PICK o : o = file[h] OBVIOUS
<1>2. Typed(o) /\ DOMAIN o = Fields BY <1>1, Holding DEF Typed
<1>3. CASE Swap(h)
  <2>1. ~Fresh(o) /\ Set(h, Closed) /\ UNCHANGED <<discord, shared>>
    BY <1>1, <1>3 DEF Swap, Fresh
  <2> QED BY <1>1, <2>1, LetGo
<1>4. CASE SwapFails(h)
  <2>1. ~Fresh(o) /\ Set(h, Rollback(o)) /\ UNCHANGED <<discord, shared>>
    BY <1>1, <1>4 DEF SwapFails, Fresh
  <2>2. Rollback(o).failed BY <1>2, RollbackFails
  <2> QED BY <1>1, <2>1, <2>2, LetGo
<1>5. CASE Unwound(h)
  <2>1. PICK e : e = [o EXCEPT !.chunks = <<>>, !.size = 0] OBVIOUS
  <2>2. PICK d, r : d = [e EXCEPT !.pc = "drop"] /\ r = Rest(e) OBVIOUS
  <2>3. ~Fresh(o) /\ o.failed BY <1>1, <1>2, <1>5 DEF Unwound, Typed, Fresh
  <2>4. DOMAIN e = Fields /\ e.failed BY <1>2, <2>1, <2>3 DEF Fields
  <2>5. d.failed /\ r.failed BY <2>2, <2>4 DEF Fields, Rest
  <2>6. (Set(h, d) \/ Set(h, r)) /\ UNCHANGED <<discord, shared>>
    BY <1>1, <1>5, <2>1, <2>2 DEF Unwound, Call
  <2> QED BY <1>1, <2>3, <2>5, <2>6, LetGo
<1>6. CASE DropRow(h) \/ DropRowFails(h)
  <2>1. PICK r : r = Rest(o) OBVIOUS
  <2>2. ~Fresh(o) /\ o.failed BY <1>1, <1>2, <1>6 DEF DropRow, DropRowFails, Typed, Fresh
  <2>3. r.failed BY <1>2, <2>1, <2>2 DEF Fields, Rest
  <2>4. Set(h, r) /\ UNCHANGED <<discord, shared>>
    BY <1>1, <1>6, <2>1 DEF DropRow, DropRowFails
  <2> QED BY <1>1, <2>2, <2>3, <2>4, LetGo
<1> QED BY <1>3, <1>4, <1>5, <1>6

LEMMA CancelWriteKept ==
  ASSUME IInv, Faithful, NEW h \in Handles, CancelWrite(h)
  PROVE  Faithful'
<1>1. PICK was, o : was = file[h] /\ o = [was EXCEPT !.buffer = <<>>, !.task = "abort"]
  OBVIOUS
<1>2. PICK new : new = Layout(o) OBVIOUS
<1>3. PICK n : n = [o EXCEPT !.size = new.size, !.chunks = new.chunks] OBVIOUS
<1>4. DOMAIN o = Fields /\ DOMAIN n = Fields BY <1>1, <1>3, Holding DEF Typed
<1>5. ~Fresh(was) BY <1>1 DEF CancelWrite, Fresh
<1>6. (Set(h, Rollback(o)) \/ Set(h, Rollback(n))) /\ UNCHANGED <<discord, shared>>
  BY <1>1, <1>2, <1>3 DEF CancelWrite
<1>7. Rollback(o).failed /\ Rollback(n).failed BY <1>4, RollbackFails
<1> QED BY <1>1, <1>5, <1>6, <1>7, LetGo

LEMMA CancelCloseKept ==
  ASSUME IInv, Faithful, NEW h \in Handles, CancelClose(h)
  PROVE  Faithful'
<1>1. ~Fresh(file[h]) /\ Set(h, Closed) /\ UNCHANGED <<discord, shared>>
  BY DEF CancelClose, Fresh
<1> QED BY <1>1, LetGo

LEMMA FaithfulInit == Init => Faithful
  BY ClosedKept DEF Init, Faithful

LEMMA FaithfulNext == IInv /\ Faithful /\ [Next]_vars => Faithful'
<1> SUFFICES ASSUME IInv, Faithful, [Next]_vars PROVE Faithful'
  OBVIOUS
<1>1. CASE UNCHANGED vars BY <1>1 DEF vars, Faithful
<1>2. CASE Crash
  <2>1. \A h \in Handles : file'[h] = Closed BY <1>2 DEF Crash
  <2> QED BY <2>1, ClosedKept DEF Faithful
<1>3. ASSUME NEW h \in Handles, Method(h) PROVE Faithful'
  <2>1. ASSUME NEW at \in 0 .. MaxSize, NEW n \in 1 .. MaxSize, NEW v \in Values,
               Write(h, at, [k \in 1 .. n |-> v])
        PROVE  Faithful'
    <3>1. PICK data : data = [k \in 1 .. n |-> v] OBVIOUS
    <3>2. data \in [1 .. n -> Bytes] /\ n \in Nat BY <3>1 DEF Bytes
    <3>3. data \in Seq(Bytes) BY <3>2
    <3> QED BY <2>1, <3>1, <3>3, WriteKept
  <2>2. ASSUME NEW n \in 0 .. MaxSize, Truncate(h, n) PROVE Faithful'
    BY <2>2, TruncateKept
  <2> QED BY <1>3, <2>1, <2>2, RefetchKept, CloseKept, AbortKept, CreateKept, OpenKept,
             ReadKept, Zenon DEF Method
<1>4. ASSUME NEW h \in Handles, Await(h) PROVE Faithful'
  BY <1>4, FetchedKept, SendKept, SendFailsKept, ApplyKept, CommittedKept, CommitFailsKept,
     ProceedKept, CancelWriteKept, CancelCloseKept, LastKept, DeleteKept,
     DeleteFailsKept, Zenon DEF Await
<1> QED BY <1>1, <1>2, <1>3, <1>4 DEF Next

LEMMA AlwaysFaithful == Spec => []Faithful
<1>1. IInv /\ Faithful /\ [Next]_vars => Faithful' BY FaithfulNext
<1> QED BY <1>1, Invariant, FaithfulInit, PTL DEF Spec

-----------------------------------------------------------------------------
(* The properties.                                                         *)

\* A handle that has failed never uploads or commits again (`_rollback` and the
\* `_failed` guards of `write_at`, `truncate_to`, `read_at` and `close`), with any
\* number of handles on the file.
THEOREM FailedHandlesAreDone == Spec => []FailedHandleIsDone
<1>1. IInv => FailedHandleIsDone BY DEF IInv, Types, Typed, FailedHandleIsDone
<1> QED BY <1>1, Invariant, PTL

\* Upload, then commit, then delete: whatever fails, is cancelled or dies in between,
\* no chunk the document names is missing from Discord, but for those the handle that
\* created the file has unwound and those of a commit that was applied and raised,
\* which `_upload_chunk`, `_replace_chunk` and `_resize_node` delete all the same.
THEOREM NoHoleInAFile == Spec => []EveryChunkIsThere
<1>1. Named = Names(doc) BY DEF Named, Names, Exists, Live
<1>2. IInv => EveryChunkIsThere
  BY <1>1 DEF IInv, Alone, Whole, EveryChunkIsThere, Undone
<1> QED BY <1>2, Invariant, PTL

\* Every upload ends named, deleted or on record: what `_upload_chunk`,
\* `_replace_chunk`, `_resize_node`, `_rollback`, `close` and the web upload leave on
\* Discord that the document does not name is what a failed delete, a crash, a
\* cancelled task, or a commit that was applied and raised, left.
THEOREM OrphansAreAccountedFor == Spec => []EveryOrphanHasACause
<1>1. Named = Names(doc) BY DEF Named, Names, Exists, Live
<1>2. ASSUME IInv, AtRest, ~shared PROVE DOMAIN discord \subseteq Named \cup lost
  <2>1. \A h \in Handles : Owes(file[h]) = {} BY <1>2, IdleOwes DEF AtRest
  <2> QED BY <1>1, <1>2, <2>1 DEF IInv, Alone
<1>3. IInv => EveryOrphanHasACause BY <1>2 DEF EveryOrphanHasACause
<1> QED BY <1>3, Invariant, PTL

\* What `_upload_chunk`, `_replace_chunk` and `_resize_node` commit is always the
\* layout `_locate_chunk` and `_covered_end` rely on, whoever else writes the file
\* and whatever fails: chunks back to back from zero, at their own index, inside the
\* file, each as long as the attachment it names.
THEOREM LayoutsAreContiguous == Spec => []ChunksAreContiguous
<1>1. ASSUME IInv PROVE ChunksAreContiguous
  <2>1. Fitted(doc.size, doc.chunks, discord, sent) BY <1>1 DEF IInv, Layouts
  <2>2. ASSUME NEW k \in DOMAIN doc.chunks, NEW c, c = doc.chunks[k]
        PROVE  /\ c.index = k - 1
               /\ c.offset = (IF k = 1 THEN 0
                              ELSE doc.chunks[k - 1].offset + doc.chunks[k - 1].size)
               /\ c.offset + c.size <= doc.size
               /\ c.msg \in DOMAIN discord => Len(discord[c.msg]) = c.size
    BY <2>1, <2>2 DEF Fitted, Laid, EndOf, Holds, AreBytes
  <2> QED BY <2>2 DEF ChunksAreContiguous
<1> QED BY <1>1, Invariant, PTL

\* What `_chunk_bytes` finds in a handle's cache at rest are the bytes of the chunk
\* the handle's layout has there, although indices are reused (`_sync`): a trim drops
\* the cache, a patch replaces its chunk in it, and what `_sync` adopts starts anew.
THEOREM CachesAreOfTheirChunks == Spec => []CacheHoldsItsChunks
<1>1. ASSUME IInv PROVE CacheHoldsItsChunks
  <2>1. ASSUME NEW h \in Handles, file[h].pc = "idle", NEW k \in DOMAIN file[h].chunks,
               NEW c, c = file[h].chunks[k],
               c.index \in DOMAIN file[h].cache, c.msg \in DOMAIN discord
        PROVE  file[h].cache[c.index] = discord[c.msg]
    <3>1. Mirrored(file[h], discord) /\ ~Behind(file[h])
      BY <1>1, <2>1, Holding, IdleOwes DEF Firm
    <3>2. Mirrors(file[h].cache, c, discord) BY <2>1, <3>1 DEF Mirrored
    <3> QED BY <2>1, <3>2 DEF Mirrors, Matches
  <2> QED BY <2>1 DEF CacheHoldsItsChunks
<1> QED BY <1>1, Invariant, PTL

\* A handle alone on its file reads back what was written and truncated through it:
\* `write_at` at the end and in the middle, `_append`, `_flush`, `_write_random` with
\* its gap, its patches and what lies past the chunks, `truncate_to`, and `read_at`
\* with its cache, come to what the same calls make of an array, whichever uploads,
\* commits and deletes fail.
THEOREM AloneReadsItsWrites == Spec => []ReadYourWrites
<1>1. ASSUME IInv, Faithful PROVE ReadYourWrites
  <2>1. ASSUME ~shared, NEW h \in Handles, file[h].open, file[h].pc = "idle", ~file[h].failed
        PROVE  View(file[h]) = file[h].goal
    <3>1. PICK o : o = file[h] OBVIOUS
    <3>2. Kept(o, discord) BY <1>1, <2>1, <3>1 DEF Faithful
    <3>3. Backed(o, discord) /\ o.goal = Array(o.size, o.chunks, o.buffer, discord)
      BY <2>1, <3>1, <3>2, IdleKept
    <3>4. Loaded(o) /\ Laid(o.chunks) /\ Mirrored(o, discord)
      BY <1>1, <3>1, Holding DEF Firm
    <3>5. \A k \in DOMAIN o.chunks : Mirrors(o.cache, o.chunks[k], discord)
      BY <2>1, <3>1, <3>4 DEF Mirrored, Behind
    <3>6. View(o) = Array(o.size, o.chunks, o.buffer, discord)
      BY <3>3, <3>4, <3>5, ViewIs
    <3> QED BY <3>1, <3>3, <3>6
  <2> QED BY <2>1 DEF ReadYourWrites
<1> QED BY <1>1, Invariant, AlwaysFaithful, PTL

=============================================================================
