------------------------------ MODULE RateLimit ------------------------------
(***************************************************************************)
(* src/src/ratelimit.py and the retry loop of `_request` in                *)
(* src/src/discord_api.py: requests that share a concurrency cap, the      *)
(* allowance Discord states for each bucket, and a pause it may impose on  *)
(* all of them.                                                            *)
(*                                                                         *)
(* Times are what is left of them, in ticks: `resetIn` is reset_at minus   *)
(* now, `globalIn` is _global_until minus now.  `acquire` decides under    *)
(* its lock without an await, so a turn of its loop is one step; the       *)
(* asyncio semaphore is a first-come queue.  What a request asks for is    *)
(* module Attachments; here it only has a route.                           *)
(***************************************************************************)
EXTENDS Integers, Sequences, FiniteSets

CONSTANTS
  Tasks,          \* requests, one per asyncio task
  Routes,         \* route keys
  Buckets,        \* X-RateLimit-Bucket values
  RouteOf,        \* Tasks -> the route of the request
  BucketOf,       \* Routes -> the bucket Discord keeps for it
  MaxConcurrency, \* DISCORD_MAX_CONCURRENCY
  MaxAttempts,    \* _MAX_ATTEMPTS
  Limit,          \* requests Discord allows in a window of a bucket
  Window,         \* ticks a window lasts
  Unknown         \* "not learned yet"

ASSUME RoutesAssumption ==
  RouteOf \in [Tasks -> Routes] /\ BucketOf \in [Routes -> Buckets]
ASSUME SizesAssumption ==
  {MaxConcurrency, MaxAttempts, Limit, Window} \subseteq Nat \ {0}
ASSUME UnknownAssumption == Unknown \notin Int

VARIABLES
  routes,     \* routes whose bucket a response has named
  remaining,  \* Buckets -> what is left of the stated allowance
  resetIn,    \* Buckets -> ticks until it is renewed
  globalIn,   \* ticks left of the global pause
  slots,      \* tasks inside the semaphore
  queue,      \* tasks waiting for it
  request,    \* Tasks -> where the request is
  left,       \* Discord: Buckets -> requests left in the window
  endsIn,     \* Discord: Buckets -> ticks left of the window, 0 if none is open
  stated,     \* observer: Buckets -> the allowance last stated
  granted,    \* observer: Buckets -> requests counted against it since
  told        \* observer: Tasks -> ticks left of the pause this task was told of

limiter == <<routes, remaining, resetIn, globalIn>>
semaphore == <<slots, queue>>
discord == <<left, endsIn>>
observers == <<stated, granted, told>>
vars == <<limiter, semaphore, request, discord, observers>>

-----------------------------------------------------------------------------
Steps == {"new", "queued", "pacing", "asleep", "sent", "answered", "backoff",
          "done", "failed", "cancelled"}
Verdicts == {"none", "served", "limited", "paused", "broken"}

\* wait: ticks to sleep; verdict and the two headers: the answer on its way.
Fresh == [pc |-> "new", attempt |-> 0, wait |-> 0, verdict |-> "none",
          remaining |-> 0, resetAfter |-> 0]

Requests == [pc : Steps, attempt : 0 .. MaxAttempts, wait : 0 .. Window,
             verdict : Verdicts, remaining : 0 .. Limit, resetAfter : 0 .. Window]

TypeOK ==
  /\ routes \subseteq Routes
  /\ remaining \in [Buckets -> Int \cup {Unknown}]
  /\ resetIn \in [Buckets -> 0 .. Window]
  /\ globalIn \in 0 .. Window
  /\ slots \subseteq Tasks
  /\ queue \in Seq(Tasks)
  /\ request \in [Tasks -> Requests]
  /\ left \in [Buckets -> 0 .. Limit]
  /\ endsIn \in [Buckets -> 0 .. Window]
  /\ stated \in [Buckets -> 0 .. Limit]
  /\ granted \in [Buckets -> Nat]
  /\ told \in [Tasks -> 0 .. Window]

Init ==
  /\ routes = {}
  /\ remaining = [b \in Buckets |-> Unknown]
  /\ resetIn = [b \in Buckets |-> 0]
  /\ globalIn = 0
  /\ slots = {} /\ queue = <<>>
  /\ request = [t \in Tasks |-> Fresh]
  /\ left = [b \in Buckets |-> Limit]
  /\ endsIn = [b \in Buckets |-> 0]
  /\ stated = [b \in Buckets |-> 0]
  /\ granted = [b \in Buckets |-> 0]
  /\ told = [t \in Tasks |-> 0]

Bucket(t) == BucketOf[RouteOf[t]]

\* `_bucket_for`: the bucket is known once a response on this route named it.
Learned(t) == RouteOf[t] \in routes /\ remaining[Bucket(t)] # Unknown

Larger(a, b) == IF a >= b THEN a ELSE b

\* `_delay`: the global pause, and the bucket's reset if nothing is left of it;
\* a bucket whose window has elapsed does not block.
Delay(t) ==
  IF Learned(t) /\ remaining[Bucket(t)] <= 0
  THEN Larger(globalIn, resetIn[Bucket(t)]) ELSE globalIn

-----------------------------------------------------------------------------
(* One attempt of `_request`.                                              *)

\* `slot`: through the semaphore, in the order of arrival.
Enter(t) ==
  /\ request[t].pc = "new" \/ (request[t].pc = "backoff" /\ request[t].wait = 0)
  /\ request' = [request EXCEPT ![t].pc = "queued"]
  /\ queue' = Append(queue, t)
  /\ UNCHANGED <<limiter, slots, discord, observers>>

Admit ==
  /\ queue # <<>> /\ Cardinality(slots) < MaxConcurrency
  /\ slots' = slots \cup {Head(queue)}
  /\ queue' = Tail(queue)
  /\ request' = [request EXCEPT ![Head(queue)].pc = "pacing"]
  /\ UNCHANGED <<limiter, discord, observers>>

\* `acquire` finds the way clear: one of the allowance is spent, and off it goes.
Go(t) ==
  /\ request' = [request EXCEPT ![t].pc = "sent"]
  /\ IF Learned(t)
     THEN /\ remaining' = [remaining EXCEPT ![Bucket(t)] = @ - 1]
          /\ granted' = [granted EXCEPT ![Bucket(t)] = @ + 1]
     ELSE UNCHANGED <<remaining, granted>>
  /\ UNCHANGED <<routes, resetIn, globalIn, semaphore, discord, stated, told>>

Acquire(t) == request[t].pc = "pacing" /\ Delay(t) <= 0 /\ Go(t)

\* It does not: sleep, with the slot, for as long as it takes now.
Sleep(t) ==
  /\ request[t].pc = "pacing" /\ Delay(t) > 0
  /\ request' = [request EXCEPT ![t].pc = "asleep", ![t].wait = Delay(t)]
  /\ UNCHANGED <<limiter, semaphore, discord, observers>>

\* A limiter that sleeps once and then goes.
AwakeGoes(t) == Go(t)
\* The loop: look again, since others may have spent what there was.
Awake(t) ==
  /\ request' = [request EXCEPT ![t].pc = "pacing"]
  /\ UNCHANGED <<limiter, semaphore, discord, observers>>

Wake(t) == request[t].pc = "asleep" /\ request[t].wait = 0 /\ Awake(t)

-----------------------------------------------------------------------------
(* Discord: a window opens with the first request of a bucket.  What it    *)
(* answers takes its time, and answers may overtake one another.           *)

Open(b) == IF endsIn[b] = 0 THEN Limit ELSE left[b]
Ends(b) == IF endsIn[b] = 0 THEN Window ELSE endsIn[b]

\* Served or failed inside Discord, within the allowance; or limited.
Count(t) ==
  LET b == Bucket(t)
      spent == IF Open(b) > 0 THEN Open(b) - 1 ELSE 0
  IN
  /\ request[t].pc = "sent"
  /\ left' = [left EXCEPT ![b] = spent]
  /\ endsIn' = [endsIn EXCEPT ![b] = Ends(b)]
  /\ \E verdict \in IF Open(b) > 0 THEN {"served", "broken"} ELSE {"limited"} :
       request' = [request EXCEPT ![t].pc = "answered", ![t].verdict = verdict,
                                  ![t].remaining = spent, ![t].resetAfter = Ends(b)]
  /\ UNCHANGED <<limiter, semaphore, observers>>

\* The global limit: no bucket in the headers, a pause of some length.
Pause(t) ==
  /\ request[t].pc = "sent"
  /\ \E pause \in 1 .. Window :
       request' = [request EXCEPT ![t].pc = "answered", ![t].verdict = "paused",
                                  ![t].resetAfter = pause]
  /\ UNCHANGED <<limiter, semaphore, discord, observers>>

-----------------------------------------------------------------------------
(* The answer reaches the client, or none does.                            *)

\* `update`: Discord's count replaces the client's own.
Update(t) ==
  LET b == Bucket(t) IN
  IF request[t].verdict = "paused"
  THEN UNCHANGED <<routes, remaining, resetIn, stated, granted>>
  ELSE /\ routes' = routes \cup {RouteOf[t]}
       /\ remaining' = [remaining EXCEPT ![b] = request[t].remaining]
       /\ resetIn' = [resetIn EXCEPT ![b] = request[t].resetAfter]
       /\ stated' = [stated EXCEPT ![b] = request[t].remaining]
       /\ granted' = [granted EXCEPT ![b] = 0]

\* A note that forgets a longer pause told to another request.
PausedUntilLast(pause) == pause
\* `note_429` of a global limit.
PausedUntil(pause) == Larger(globalIn, pause)

Note429(t) ==
  IF request[t].verdict = "paused"
  THEN /\ globalIn' = PausedUntil(request[t].resetAfter)
       /\ told' = [told EXCEPT ![t] = request[t].resetAfter]
  ELSE UNCHANGED <<globalIn, told>>

\* A retry loop that does not count what it was limited by.
SpentUnlessLimited(t) ==
  IF request[t].verdict \in {"limited", "paused"} THEN request[t].attempt
  ELSE request[t].attempt + 1
Spent(t) == request[t].attempt + 1

\* The attempt is over and the slot with it; a failed one is tried again after a
\* sleep outside the slot, until the attempts are used up.
Over(t, wait) ==
  /\ slots' = slots \ {t}
  /\ request' = [request EXCEPT ![t] =
       IF Spent(t) < MaxAttempts
       THEN [Fresh EXCEPT !.pc = "backoff", !.attempt = Spent(t), !.wait = wait]
       ELSE [Fresh EXCEPT !.pc = "failed", !.attempt = MaxAttempts]]
  /\ UNCHANGED queue

End(t, pc) ==
  /\ slots' = slots \ {t}
  /\ request' = [request EXCEPT ![t] = [Fresh EXCEPT !.pc = pc]]
  /\ UNCHANGED queue

\* Served, or refused with a 4xx: both end the request.
Succeed(t) ==
  /\ request[t].pc = "answered" /\ request[t].verdict = "served"
  /\ Update(t) /\ End(t, "done")
  /\ UNCHANGED <<globalIn, told, discord>>

\* A 429 waits as long as it says, a 5xx for the back-off.
TryAgain(t) ==
  /\ request[t].pc = "answered" /\ request[t].verdict # "served"
  /\ Update(t) /\ Note429(t)
  /\ Over(t, IF request[t].verdict = "broken" THEN 1 ELSE request[t].resetAfter)
  /\ UNCHANGED discord

\* A transport failure, before Discord has counted the request or after.
Lost(t) ==
  /\ request[t].pc \in {"sent", "answered"}
  /\ Over(t, 1)
  /\ UNCHANGED <<limiter, discord, observers>>

\* The request's task is cancelled, wherever it waits; `async with` lets go.
Without(s, i) == SubSeq(s, 1, i - 1) \o SubSeq(s, i + 1, Len(s))

Cancel(t) ==
  /\ request[t].pc \notin {"done", "failed", "cancelled"}
  /\ slots' = slots \ {t}
  /\ \/ request[t].pc # "queued" /\ UNCHANGED queue
     \/ \E i \in 1 .. Len(queue) : queue[i] = t /\ queue' = Without(queue, i)
  /\ request' = [request EXCEPT ![t] = [Fresh EXCEPT !.pc = "cancelled"]]
  /\ UNCHANGED <<limiter, discord, observers>>

-----------------------------------------------------------------------------
Down(n) == IF n > 0 THEN n - 1 ELSE 0
Passing(f) == [x \in DOMAIN f |-> Down(f[x])]

Tick ==
  /\ resetIn' = Passing(resetIn)
  /\ globalIn' = Down(globalIn)
  /\ endsIn' = Passing(endsIn)
  /\ told' = Passing(told)
  /\ request' = [t \in Tasks |-> [request[t] EXCEPT !.wait = Down(@)]]
  /\ UNCHANGED <<routes, remaining, semaphore, left, stated, granted>>

Turn(t) ==
  \/ Enter(t) \/ Acquire(t) \/ Sleep(t) \/ Wake(t)
  \/ Count(t) \/ Pause(t) \/ Succeed(t) \/ TryAgain(t) \/ Lost(t)

Next == Tick \/ Admit \/ \E t \in Tasks : Turn(t) \/ Cancel(t)

Spec == Init /\ [][Next]_vars

\* Time passes, and the loop does not sit still while something is ready; every
\* request that is sent is answered or times out (`_TIMEOUT`).
FairSpec ==
  Spec /\ WF_vars(Tick) /\ WF_vars(Admit \/ \E t \in Tasks : Turn(t))

-----------------------------------------------------------------------------
(* What the limiter promises.                                              *)

\* As long as the window Discord spoke of is open, no more requests of routes
\* known to be in the bucket are let through than it last said were left,
\* however many waited for it and slept (src/src/ratelimit.py:86, :98).
NeverOverspent ==
  \A b \in Buckets : remaining[b] # Unknown /\ resetIn[b] > 0 => granted[b] <= stated[b]

\* No request goes out before the end of every global pause that any of them
\* was told of, in whatever order the answers came (src/src/ratelimit.py:126).
PausesAreWaitedOut ==
  [][\A t \in Tasks : request[t].pc # "sent" /\ request'[t].pc = "sent" =>
       \A u \in Tasks : told[u] = 0]_vars

\* Every request is answered, gives up or is cancelled: the five attempts cover
\* limits and faults alike, and a request that waits for a bucket or a slot is
\* not left waiting (src/src/discord_api.py:174).
EveryRequestEnds ==
  \A t \in Tasks : <>(request[t].pc \in {"done", "failed", "cancelled"})
=============================================================================
