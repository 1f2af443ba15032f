----------------------------- MODULE Attachments -----------------------------
(***************************************************************************)
(* src/src/discord_api.py: messages with one attachment each, posted,      *)
(* fetched and deleted over a connection that loses requests and answers;  *)
(* the cache of signed URLs; and src/scripts/find_orphans.py, which walks  *)
(* the channel and subtracts what the database refers to.                  *)
(*                                                                         *)
(* A request is one attempt at a time: what Discord does with it is one    *)
(* step, what the client does with the answer another.  Pacing and         *)
(* concurrency only delay a request; they are module RateLimit.  Message   *)
(* ids are snowflakes, so a later message has a larger number.  The life   *)
(* of a signed URL is counted in ticks, from Life down to 0.               *)
(***************************************************************************)
EXTENDS Integers, FiniteSets, SequencesExt

CONSTANTS
  Tasks,        \* asyncio tasks, and the script's process
  MaxMessages,  \* bound on the messages ever posted
  MaxAttempts,  \* _MAX_ATTEMPTS
  Life,         \* ticks a signed URL lasts
  Margin,       \* _URL_EXPIRY_MARGIN, in ticks
  CacheSize,    \* _URL_CACHE_SIZE
  Page          \* messages on a page of history

ASSUME SizesAssumption ==
  /\ {MaxMessages, MaxAttempts, Life, CacheSize, Page} \subseteq Nat \ {0}
  /\ Margin \in 0 .. Life - 1

Ids == 1 .. MaxMessages
NoMessage == 0

VARIABLES
  message,   \* Ids -> what the channel holds under the id
  kept,      \* ids that a node document refers to
  channel,   \* whether the DM channel's id has been resolved
  url_cache, \* <<id, life left of its URL>>, least recently used first
  call,      \* Tasks -> the client operation the task is in
  ambiguous, \* observer: posted by a request whose answer was lost
  undeleted, \* observer: ids a failed delete may have left behind
  badread,   \* observer: reads refused although the attachment was there
  report     \* observer: what the last scan got wrong

remote == <<message, kept>>
observers == <<ambiguous, undeleted, badread, report>>
vars == <<remote, channel, url_cache, call, observers>>

States == {"unused", "whole", "short", "deleted"}
There(m) == m \in Ids /\ message[m] \in {"whole", "short"}
StillThere(m) == m \in Ids /\ message'[m] \in {"whole", "short"}
Present == {m \in Ids : There(m)}
NextId == Cardinality({m \in Ids : message[m] # "unused"}) + 1

-----------------------------------------------------------------------------
(* Calls.                                                                  *)

Kinds == {"none", "upload", "fetch", "delete", "purge", "scan"}
Steps == {"idle", "channel", "url", "post", "get", "erase", "page", "answer",
          "cdn", "uploaded"}

\* step: the request to repeat; id: the message; attempt: attempts made;
\* refresh: whether the URL cache is to be passed by; url: life of the URL in
\* hand; batch: the page just received; found, before: messages yielded so far
\* and where the next page begins; referenced, stayed: what the script read from
\* the database, and (observer) what was in the channel then.
Idle ==
  [pc |-> "idle", kind |-> "none", step |-> "idle", id |-> NoMessage, attempt |-> 0,
   refresh |-> FALSE, url |-> 0, batch |-> {}, found |-> {}, before |-> NoMessage,
   referenced |-> {}, stayed |-> {}]

TypeOK ==
  /\ message \in [Ids -> States]
  /\ kept \cup ambiguous \cup undeleted \cup badread \subseteq Ids
  /\ channel \in BOOLEAN
  /\ Len(url_cache) <= CacheSize
  /\ ToSet(url_cache) \subseteq Ids \X (0 .. Life)
  /\ \A t \in Tasks :
       /\ call[t].pc \in Steps /\ call[t].kind \in Kinds
       /\ call[t].id \in Ids \cup {NoMessage}
       /\ call[t].attempt \in 0 .. MaxAttempts - 1
       /\ call[t].url \in 0 .. Life
       /\ (call[t].pc = "idle") = (call[t] = Idle)

Init ==
  /\ message = [m \in Ids |-> "unused"]
  /\ kept = {} /\ channel = FALSE
  /\ url_cache = <<>>
  /\ call = [t \in Tasks |-> Idle]
  /\ ambiguous = {} /\ undeleted = {} /\ badread = {} /\ report = {}

To(t, c) == call' = [call EXCEPT ![t] = c]
Request(c, step) == [c EXCEPT !.pc = step, !.step = step, !.attempt = 0]

\* Every operation asks for the channel first; a read may not need it.
First(c, step) == [Request(c, step) EXCEPT !.pc = IF channel THEN step ELSE "channel"]

Begin(t, c) ==
  /\ call[t].pc = "idle"
  /\ To(t, c)
  /\ UNCHANGED <<message, channel, url_cache, observers>>

Upload(t) ==
  Begin(t, First([Idle EXCEPT !.kind = "upload"], "post")) /\ UNCHANGED kept

\* `download_attachment` of a chunk a node refers to.
Fetch(t, m) ==
  /\ m \in kept
  /\ Begin(t, [Idle EXCEPT !.pc = "url", !.kind = "fetch", !.id = m]) /\ UNCHANGED kept

\* A patch or a trim stops referring to a chunk and then deletes it; a purge
\* deletes first and drops the node afterwards.
Replace(t, m) ==
  /\ m \in kept
  /\ Begin(t, First([Idle EXCEPT !.kind = "delete", !.id = m], "erase"))
  /\ kept' = kept \ {m}
Purge(t, m) ==
  /\ m \in kept
  /\ Begin(t, First([Idle EXCEPT !.kind = "purge", !.id = m], "erase")) /\ UNCHANGED kept

\* `main` of find_orphans.py: the references are read before the channel.
Scan(t) ==
  Begin(t, First([Idle EXCEPT !.kind = "scan", !.referenced = kept, !.stayed = Present],
                 "page"))
  /\ UNCHANGED kept

-----------------------------------------------------------------------------
(* How an operation ends.                                                  *)

\* A chunk stays referred to until its purge drops the node, whether or not the
\* attachment could be deleted: `_safe_delete_message` swallows the error.
Dropped(c) == kept' = IF c.kind = "purge" THEN kept \ {c.id} ELSE kept

\* `DiscordAPIError`, or the transport's own exception, leaves the operation.
\* status: whether it says 403 or 404.
Raise(t, status) ==
  LET c == call[t] IN
  /\ To(t, Idle)
  /\ Dropped(c)
  /\ undeleted' = IF c.step = "erase" /\ There(c.id) THEN undeleted \cup {c.id} ELSE undeleted
  /\ badread' = IF c.kind = "fetch" /\ status = "refused" /\ There(c.id)
                THEN badread \cup {c.id} ELSE badread
  /\ UNCHANGED <<message, channel, url_cache, ambiguous, report>>

\* The URL cache: `_remember_url` and `pop`.
Entry(m) == SelectSeq(url_cache, LAMBDA e : e[1] = m)
Without(m) == SelectSeq(url_cache, LAMBDA e : e[1] # m)
Remembered(m, life) ==
  LET all == Append(Without(m), <<m, life>>)
  IN  IF Len(all) > CacheSize THEN Tail(all) ELSE all

-----------------------------------------------------------------------------
(* `get_target_channel_id`: a request of its own, once; its attempts are   *)
(* merged.  Two tasks may both make it, with the same answer.              *)

Channel(t) ==
  /\ call[t].pc = "channel"
  /\ channel' = TRUE
  /\ To(t, [call[t] EXCEPT !.pc = call[t].step])
  /\ UNCHANGED <<remote, url_cache, observers>>

ChannelFails(t) == call[t].pc = "channel" /\ Raise(t, "other")

-----------------------------------------------------------------------------
(* What Discord does with an attempt of `_request`.                        *)

Requests == {"post", "get", "erase", "page"}

\* The newest `Page` messages older than `before`.  They come newest first, so
\* that the last is the oldest of them; the order says no more than that.
History(before) ==
  LET older == {m \in Present : before = NoMessage \/ m < before}
  IN  {m \in older : Cardinality({n \in older : n > m}) < Page}

\* Discord does what it is asked; a post may store fewer bytes than were sent.
Apply(t) ==
  LET c == call[t] IN
  CASE c.step = "post"  -> \E state \in {"whole", "short"} :
                             /\ NextId \in Ids
                             /\ message' = [message EXCEPT ![NextId] = state]
    [] c.step = "erase" -> message' = [message EXCEPT ![c.id] = "deleted"]
    [] OTHER            -> UNCHANGED message

\* What the answer says: the new id, whether the message is there, or a page.
Answer(t) ==
  LET c == call[t] IN
  CASE c.step = "post" -> [c EXCEPT !.pc = "answer", !.id = NextId]
    [] c.step = "page" -> [c EXCEPT !.pc = "answer", !.batch = History(c.before)]
    [] OTHER           -> [c EXCEPT !.pc = "answer", !.batch = {c.id} \cap Present]

Serve(t) ==
  /\ call[t].pc \in Requests
  /\ Apply(t)
  /\ To(t, Answer(t))
  /\ UNCHANGED <<kept, channel, url_cache, observers>>

\* After a 429, a 5xx or a transport failure: the same request again after a
\* pause, until the attempts are used up.
Retry(t) ==
  LET c == call[t] IN
  IF c.attempt + 1 < MaxAttempts
  THEN To(t, [c EXCEPT !.attempt = @ + 1]) /\ UNCHANGED <<kept, undeleted, badread>>
  ELSE /\ To(t, Idle)
       /\ Dropped(c)
       /\ undeleted' = IF c.step = "erase" /\ StillThere(c.id) THEN undeleted \cup {c.id}
                       ELSE undeleted
       /\ UNCHANGED badread

\* Refused for the moment, failed inside Discord, or lost on the way there.
Fault(t) ==
  /\ call[t].pc \in Requests
  /\ UNCHANGED message
  /\ Retry(t)
  /\ UNCHANGED <<channel, url_cache, ambiguous, report>>

\* Done, but the answer was lost on the way back.
LoseAnswer(t) ==
  /\ call[t].pc \in {"post", "erase"}
  /\ Apply(t)
  /\ ambiguous' = IF call[t].step = "post" THEN ambiguous \cup {NextId} ELSE ambiguous
  /\ Retry(t)
  /\ UNCHANGED <<channel, url_cache, report>>

\* A 4xx is not retried: the bot may not post here, or not any more.
Forbidden(t) == call[t].pc \in {"post", "page"} /\ Raise(t, "other")

-----------------------------------------------------------------------------
(* What the client does with an answer.                                    *)

\* `upload_chunk`: a short attachment is deleted again before the error.
TooShortUnchecked(m) == FALSE
TooShort(m) == message[m] = "short"

CleanUpSkipped(c) == Idle
CleanUp(c) == Request(c, "erase")

Uploaded(t) ==
  LET c == call[t] IN
  /\ c.pc = "answer" /\ c.step = "post"
  /\ IF TooShort(c.id)
     THEN To(t, CleanUp(c)) /\ UNCHANGED url_cache
     ELSE /\ url_cache' = Remembered(c.id, Life)
          /\ To(t, [c EXCEPT !.pc = "uploaded"])
  /\ UNCHANGED <<remote, channel, observers>>

\* The caller commits the node that refers to the chunk, or cannot and deletes.
Keep(t) ==
  /\ call[t].pc = "uploaded"
  /\ kept' = kept \cup {call[t].id}
  /\ To(t, Idle)
  /\ UNCHANGED <<message, channel, url_cache, observers>>
GiveBack(t) ==
  /\ call[t].pc = "uploaded"
  /\ To(t, Request([call[t] EXCEPT !.kind = "delete"], "erase"))
  /\ UNCHANGED <<remote, channel, url_cache, observers>>

\* `delete_message`: 204, or a 404 when an earlier attempt had already done it.
Erased(t) ==
  LET c == call[t] IN
  /\ c.pc = "answer" /\ c.step = "erase"
  /\ url_cache' = IF c.batch # {} THEN Without(c.id) ELSE url_cache
  /\ To(t, Idle)
  /\ Dropped(c)
  /\ UNCHANGED <<message, channel, observers>>

\* `get_attachment_url`: a cached URL with time to spare, or a new one.
Usable(life) == life > Margin

Url(t) ==
  LET c == call[t]
      cached == Entry(c.id)
      usable == ~c.refresh /\ cached # <<>> /\ Usable(Head(cached)[2])
  IN
  /\ c.pc = "url"
  /\ IF usable
     THEN /\ url_cache' = Append(Without(c.id), Head(cached))
          /\ To(t, [c EXCEPT !.pc = "cdn", !.attempt = 0, !.url = Head(cached)[2]])
     ELSE To(t, First(c, "get")) /\ UNCHANGED url_cache
  /\ UNCHANGED <<remote, channel, observers>>

Resolved(t) ==
  LET c == call[t] IN
  /\ c.pc = "answer" /\ c.step = "get"
  /\ \/ /\ c.batch # {}
        /\ url_cache' = Remembered(c.id, Life)
        /\ To(t, [c EXCEPT !.pc = "cdn", !.attempt = 0, !.url = Life, !.batch = {}])
        /\ UNCHANGED <<remote, channel, observers>>
     \/ c.batch = {} /\ Raise(t, "refused")

\* `download_chunk`: the CDN serves a signed URL for as long as it lives.
Downloaded(t) ==
  LET c == call[t] IN
  /\ c.pc = "cdn"
  /\ There(c.id) /\ c.url > 0
  /\ To(t, Idle)
  /\ UNCHANGED <<remote, channel, url_cache, observers>>

\* A first 403 or 404 is taken for a stale URL and the URL resolved again.
TryAgainStale(c) == [c EXCEPT !.pc = "cdn", !.attempt = 0, !.refresh = TRUE]
TryAgain(c) == [c EXCEPT !.pc = "url", !.attempt = 0, !.refresh = TRUE]

Rejected(t) ==
  LET c == call[t] IN
  /\ c.pc = "cdn"
  /\ ~There(c.id) \/ c.url = 0
  /\ \/ /\ ~c.refresh
        /\ To(t, TryAgain(c))
        /\ UNCHANGED <<remote, channel, url_cache, observers>>
     \/ c.refresh /\ Raise(t, "refused")

CdnFault(t) ==
  /\ call[t].pc = "cdn"
  /\ UNCHANGED message
  /\ Retry(t)
  /\ UNCHANGED <<channel, url_cache, ambiguous, report>>

-----------------------------------------------------------------------------
(* `iter_messages` and the report.                                         *)

Oldest(batch) == CHOOSE m \in batch : \A n \in batch : m <= n

NextPageOffByOne(batch) == Oldest(batch) - 1
NextPage(batch) == Oldest(batch)

\* What was in the channel, and unreferenced, from before the references were
\* read until now and is not reported; what was referenced, and there, all that
\* time and is reported missing.
Wrong(c) ==
  LET orphans == c.found \ c.referenced
      missing == c.referenced \ c.found
      stayed == c.stayed \cap Present
  IN  ((stayed \ (c.referenced \cup kept)) \ orphans) \cup (missing \cap stayed)

Paged(t) ==
  LET c == call[t] IN
  /\ c.pc = "answer" /\ c.step = "page"
  /\ IF c.batch = {}
     THEN To(t, Idle) /\ report' = report \cup Wrong(c)
     ELSE /\ To(t, Request([c EXCEPT !.found = @ \cup c.batch,
                                     !.before = NextPage(c.batch), !.batch = {}], "page"))
          /\ UNCHANGED report
  /\ UNCHANGED <<remote, channel, url_cache, ambiguous, undeleted, badread>>

-----------------------------------------------------------------------------
(* Time.  A URL resolved for this very read outlives it: a day against the *)
(* minutes `_TIMEOUT` and the attempts allow.                              *)

Older(life) == IF life > 0 THEN life - 1 ELSE 0

Tick ==
  /\ \A t \in Tasks : call[t].refresh /\ call[t].pc = "cdn" => call[t].url > 1
  /\ url_cache' = [k \in DOMAIN url_cache |-> <<url_cache[k][1], Older(url_cache[k][2])>>]
  /\ call' = [t \in Tasks |-> [call[t] EXCEPT !.url = Older(@)]]
  /\ <<url_cache, call>>' # <<url_cache, call>>
  /\ UNCHANGED <<remote, channel, observers>>

Step(t) ==
  \/ Upload(t) \/ Scan(t)
  \/ \E m \in Ids : Fetch(t, m) \/ Replace(t, m) \/ Purge(t, m)
  \/ Channel(t) \/ ChannelFails(t)
  \/ Serve(t) \/ Fault(t) \/ LoseAnswer(t) \/ Forbidden(t)
  \/ Uploaded(t) \/ Keep(t) \/ GiveBack(t) \/ Erased(t)
  \/ Url(t) \/ Resolved(t) \/ Downloaded(t) \/ Rejected(t) \/ CdnFault(t)
  \/ Paged(t)

Next == Tick \/ \E t \in Tasks : Step(t)

Spec == Init /\ [][Next]_vars

-----------------------------------------------------------------------------
(* What the client promises.                                               *)

InHand(m) == \E t \in Tasks : call[t].kind \in {"upload", "delete", "purge"} /\ call[t].id = m

\* An attachment that no node refers to and nobody is working on is there for
\* one of two reasons: the answer to its post was lost, so that the client
\* posted it again or gave up without ever learning its id, or a delete failed
\* (src/src/discord_api.py:174, :251).
OrphansHaveACause ==
  \A m \in Present \ kept : InHand(m) \/ m \in ambiguous \cup undeleted

\* A chunk a node refers to is on Discord in full, until a purge of that chunk
\* deletes it: neither retries, nor deletes repeated after a lost answer, nor a
\* post that stored too little leave a node with a chunk that is not there.
KeptIsWhole ==
  \A m \in kept :
    \/ message[m] = "whole"
    \/ message[m] = "deleted" /\ \E t \in Tasks : call[t].kind = "purge" /\ call[t].id = m

\* A read is never refused while the attachment is there, whatever the age of
\* the URL it starts from and whoever refreshes or drops the cache meanwhile
\* (src/src/discord_api.py:341).
StaleUrlsAreResolvedAgain == badread = {}

\* A scan of the channel names every orphan that was there all along, and calls
\* nothing missing that was: messages posted or deleted while it runs neither
\* hide nor repeat another (src/src/discord_api.py:275).
ScanMissesNothing == report = {}
=============================================================================
