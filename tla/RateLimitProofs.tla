--------------------------- MODULE RateLimitProofs ---------------------------
(***************************************************************************)
(* The safety of the rate limiter, for every number of requests, routes,   *)
(* buckets, slots and attempts, and every window.                          *)
(***************************************************************************)
EXTENDS RateLimit, SequenceTheorems, TLAPS

\* A request that has not failed has an attempt left.
AttemptsLeft ==
  \A t \in Tasks : request[t].pc # "failed" => request[t].attempt < MaxAttempts

\* Within a window the client's own count is what was stated less what was
\* granted since, and never below zero.
Balanced ==
  \A b \in Buckets :
    remaining[b] # Unknown /\ resetIn[b] > 0 =>
      remaining[b] >= 0 /\ remaining[b] = stated[b] - granted[b]

\* No task knows of a pause the limiter has forgotten.
PausesKept == \A t \in Tasks : told[t] <= globalIn

\* The queue holds requests that wait, each of them once.
QueueWaits ==
  /\ \A i \in 1 .. Len(queue) : request[queue[i]].pc = "queued"
  /\ \A i, j \in 1 .. Len(queue) : queue[i] = queue[j] => i = j

IInv == TypeOK /\ AttemptsLeft /\ QueueWaits /\ Balanced /\ PausesKept

-----------------------------------------------------------------------------
(* Types.                                                                  *)

LEMMA Sizes ==
  /\ MaxConcurrency \in Nat /\ MaxAttempts \in Nat /\ MaxAttempts > 0
  /\ Limit \in Nat /\ Limit > 0 /\ Window \in Nat /\ Window > 0
  /\ Unknown \notin Int
  BY SizesAssumption, UnknownAssumption

LEMMA BucketTyped == ASSUME NEW t \in Tasks PROVE Bucket(t) \in Buckets
  BY RoutesAssumption DEF Bucket

\* What an attempt leaves of a request's record.
LEMMA FreshTyped ==
  Fresh \in Requests /\ Fresh.pc = "new" /\ Fresh.attempt = 0
  BY Sizes DEF Fresh, Requests, Steps, Verdicts

LEMMA EndedTyped ==
  ASSUME NEW pc \in Steps
  PROVE  LET r == [Fresh EXCEPT !.pc = pc]
         IN  r \in Requests /\ r.attempt = 0
  BY FreshTyped DEF Requests

LEMMA FailedTyped ==
  LET r == [Fresh EXCEPT !.pc = "failed", !.attempt = MaxAttempts]
  IN  r \in Requests /\ r.pc = "failed"
<1>1. MaxAttempts \in 0 .. MaxAttempts /\ "failed" \in Steps
  BY Sizes DEF Steps
<1> QED  BY <1>1, FreshTyped DEF Requests

LEMMA BackoffTyped ==
  ASSUME NEW n \in 0 .. MaxAttempts, NEW w \in 0 .. Window
  PROVE  LET r == [Fresh EXCEPT !.pc = "backoff", !.attempt = n, !.wait = w]
         IN  r \in Requests /\ r.attempt = n
  BY FreshTyped DEF Requests, Steps

LEMMA WaitTyped ==
  ASSUME NEW r \in Requests, NEW w \in 0 .. Window
  PROVE  [r EXCEPT !.wait = w] \in Requests
  BY DEF Requests

LEMMA StepTyped ==
  ASSUME NEW r \in Requests, NEW pc \in Steps, NEW w \in 0 .. Window
  PROVE  /\ [r EXCEPT !.pc = pc] \in Requests
         /\ [r EXCEPT !.pc = pc, !.wait = w] \in Requests
  BY DEF Requests

LEMMA DelayTyped ==
  ASSUME TypeOK, NEW t \in Tasks
  PROVE  Delay(t) \in 0 .. Window /\ Delay(t) >= globalIn
  BY BucketTyped, Sizes DEF TypeOK, Delay, Larger

LEMMA DownTyped ==
  ASSUME NEW n \in 0 .. Window
  PROVE  Down(n) \in 0 .. Window /\ Down(n) <= n /\ (Down(n) > 0 => n > 0)
  BY Sizes DEF Down

LEMMA DownMonotone ==
  ASSUME NEW m \in Nat, NEW n \in Nat, m <= n
  PROVE  Down(m) <= Down(n)
  BY DEF Down

-----------------------------------------------------------------------------
(* The invariant holds at first.                                           *)

LEMMA InitInv == Init => IInv
<1> SUFFICES ASSUME Init PROVE IInv
  OBVIOUS
<1>1. Fresh \in Requests
  BY FreshTyped
<1>2. TypeOK
  BY <1>1, Sizes DEF Init, TypeOK
<1>3. AttemptsLeft
  BY Sizes DEF Init, AttemptsLeft, Fresh
<1>4. Balanced /\ PausesKept /\ QueueWaits
  BY DEF Init, Balanced, PausesKept, QueueWaits
<1> QED  BY <1>2, <1>3, <1>4 DEF IInv

-----------------------------------------------------------------------------
(* Steps that leave the limiter alone.                                     *)

LEMMA LimiterAlone ==
  ASSUME IInv, UNCHANGED <<limiter, observers>>
  PROVE  Balanced' /\ PausesKept'
  BY DEF IInv, limiter, observers, Balanced, PausesKept

LEMMA QueueAlone ==
  ASSUME IInv, NEW t \in Tasks, request[t].pc # "queued", UNCHANGED queue,
         NEW r, request' = [request EXCEPT ![t] = r]
  PROVE  QueueWaits'
<1>1. \A i \in 1 .. Len(queue) : queue[i] \in Tasks /\ queue[i] # t
  BY DEF IInv, TypeOK, QueueWaits
<1> QED  BY <1>1 DEF IInv, TypeOK, QueueWaits

\* The i-th of the queue leaves it, and is no longer waiting.
LEMMA QueueShrinks ==
  ASSUME IInv, NEW i \in 1 .. Len(queue), NEW r,
         queue' \in Seq(Tasks), Len(queue') = Len(queue) - 1,
         \A j \in 1 .. Len(queue) - 1 :
           queue'[j] = IF j < i THEN queue[j] ELSE queue[j + 1],
         request' = [request EXCEPT ![queue[i]] = r]
  PROVE  QueueWaits'
<1> DEFINE old(j) == IF j < i THEN j ELSE j + 1
<1>1. queue \in Seq(Tasks) /\ Len(queue) \in Nat
  BY DEF IInv, TypeOK
<1>2. \A j \in 1 .. Len(queue') :
        /\ old(j) \in 1 .. Len(queue) /\ old(j) # i /\ queue'[j] = queue[old(j)]
  BY <1>1
<1>3. \A j, k \in 1 .. Len(queue') : old(j) = old(k) => j = k
  BY <1>1
<1> HIDE DEF old
<1>4. \A j \in 1 .. Len(queue) : j # i => queue[j] \in Tasks /\ queue[j] # queue[i]
  BY <1>1 DEF IInv, QueueWaits
<1>5. ASSUME NEW j \in 1 .. Len(queue') PROVE request'[queue'[j]].pc = "queued"
  <2>1. PICK k \in 1 .. Len(queue) : k # i /\ queue'[j] = queue[k]
    BY <1>2
  <2>2. request'[queue[k]] = request[queue[k]]
    BY <2>1, <1>4 DEF IInv, TypeOK
  <2> QED  BY <2>1, <2>2 DEF IInv, QueueWaits
<1>6. ASSUME NEW j \in 1 .. Len(queue'), NEW k \in 1 .. Len(queue'), queue'[j] = queue'[k]
      PROVE  j = k
  BY <1>2, <1>3, <1>6 DEF IInv, QueueWaits
<1> QED  BY <1>5, <1>6 DEF QueueWaits

LEMMA EnterInv == ASSUME IInv, NEW t \in Tasks, Enter(t) PROVE IInv'
<1>1. request[t] \in Requests /\ [request[t] EXCEPT !.pc = "queued"] \in Requests
  BY StepTyped, Sizes DEF IInv, TypeOK, Steps
<1>2. TypeOK'
  BY <1>1 DEF IInv, TypeOK, Enter, limiter, discord, observers
<1>3. AttemptsLeft'
  BY <1>1 DEF IInv, TypeOK, Enter, AttemptsLeft, Requests
<1>4. Balanced' /\ PausesKept'
  BY LimiterAlone DEF Enter
<1>5. QueueWaits'
  <2>1. request'[t].pc = "queued" /\ \A u \in Tasks \ {t} : request'[u] = request[u]
    BY <1>1 DEF IInv, TypeOK, Enter, Requests
  <2>2. /\ Len(queue') = Len(queue) + 1 /\ queue'[Len(queue) + 1] = t
        /\ \A i \in 1 .. Len(queue) : queue'[i] = queue[i] /\ queue[i] \in Tasks \ {t}
    BY DEF IInv, TypeOK, Enter, QueueWaits
  <2>3. Len(queue) \in Nat
    BY DEF IInv, TypeOK
  <2> QED  BY <2>1, <2>2, <2>3 DEF IInv, QueueWaits
<1> QED  BY <1>2, <1>3, <1>4, <1>5 DEF IInv

LEMMA AdmitInv == ASSUME IInv, Admit PROVE IInv'
<1> DEFINE t == Head(queue)
<1>1. t \in Tasks /\ Tail(queue) \in Seq(Tasks)
  BY DEF IInv, TypeOK, Admit
<1>7. /\ 1 \in 1 .. Len(queue) /\ t = queue[1] /\ Len(queue) \in Nat
      /\ Len(Tail(queue)) = Len(queue) - 1
      /\ \A i \in 1 .. Len(queue) - 1 : Tail(queue)[i] = queue[i + 1]
  <2>1. queue \in Seq(Tasks) /\ queue # << >>
    BY DEF IInv, TypeOK, Admit
  <2> QED  BY <2>1
<1>8. request[t].pc = "queued"
  BY <1>7 DEF IInv, QueueWaits
<1>2. request[t] \in Requests /\ [request[t] EXCEPT !.pc = "pacing"] \in Requests
  BY <1>1, StepTyped, Sizes DEF IInv, TypeOK, Steps
<1> HIDE DEF t
<1>3. /\ slots' = slots \cup {t} /\ queue' = Tail(queue)
      /\ request' = [request EXCEPT ![t].pc = "pacing"]
      /\ UNCHANGED <<limiter, discord, observers>>
  BY DEF Admit, t
<1>4. TypeOK'
  BY <1>1, <1>2, <1>3 DEF IInv, TypeOK, limiter, discord, observers
<1>5. AttemptsLeft'
  <2> DEFINE r == [request[t] EXCEPT !.pc = "pacing"]
  <2>1. r.attempt = request[t].attempt /\ request[t].pc # "failed"
    BY <1>1, <1>2, <1>8 DEF Requests
  <2>2. request' = [request EXCEPT ![t] = r]
    BY <1>3
  <2> HIDE DEF r
  <2> QED  BY <2>1, <2>2 DEF IInv, TypeOK, AttemptsLeft
<1>6. Balanced' /\ PausesKept'
  BY <1>3, LimiterAlone
<1>9. QueueWaits'
  <2>1. request' = [request EXCEPT ![queue[1]] = [request[t] EXCEPT !.pc = "pacing"]]
    BY <1>3, <1>7
  <2>2. \A j \in 1 .. Len(queue) - 1 :
          queue'[j] = IF j < 1 THEN queue[j] ELSE queue[j + 1]
    BY <1>3, <1>7
  <2> QED  BY <2>1, <2>2, <1>1, <1>3, <1>7, QueueShrinks
<1> QED  BY <1>4, <1>5, <1>6, <1>9 DEF IInv

LEMMA SleepInv == ASSUME IInv, NEW t \in Tasks, Sleep(t) PROVE IInv'
<1>1. /\ request[t] \in Requests /\ Delay(t) \in 0 .. Window
      /\ [request[t] EXCEPT !.pc = "asleep", !.wait = Delay(t)] \in Requests
  BY StepTyped, DelayTyped DEF IInv, TypeOK, Steps
<1>2. request' = [request EXCEPT ![t] = [request[t] EXCEPT !.pc = "asleep", !.wait = Delay(t)]]
  BY DEF Sleep, IInv, TypeOK
<1> DEFINE r == [request[t] EXCEPT !.pc = "asleep", !.wait = Delay(t)]
<1>6. r.attempt = request[t].attempt /\ request[t].pc = "pacing"
  BY <1>1 DEF Requests, Sleep
<1> HIDE DEF r
<1>3. TypeOK'
  BY <1>1, <1>2 DEF IInv, TypeOK, Sleep, limiter, semaphore, discord, observers
<1>4. AttemptsLeft'
  BY <1>2, <1>6 DEF IInv, TypeOK, AttemptsLeft, r
<1>5. Balanced' /\ PausesKept'
  BY LimiterAlone DEF Sleep
<1>7. QueueWaits'
  BY <1>2, <1>6, QueueAlone DEF Sleep, semaphore
<1> QED  BY <1>3, <1>4, <1>5, <1>7 DEF IInv

LEMMA WakeInv == ASSUME IInv, NEW t \in Tasks, Wake(t) PROVE IInv'
<1>1. request[t] \in Requests /\ [request[t] EXCEPT !.pc = "pacing"] \in Requests
  BY StepTyped, Sizes DEF IInv, TypeOK, Steps
<1>2. TypeOK'
  BY <1>1 DEF IInv, TypeOK, Wake, Awake, limiter, semaphore, discord, observers
<1>3. AttemptsLeft'
  BY <1>1 DEF IInv, TypeOK, Wake, Awake, AttemptsLeft, Requests
<1>4. Balanced' /\ PausesKept'
  BY LimiterAlone DEF Wake, Awake
<1>5. QueueWaits'
  <2>1. request[t].pc # "queued" /\ UNCHANGED queue
    BY DEF Wake, Awake, semaphore
  <2>2. request' = [request EXCEPT ![t] = [request[t] EXCEPT !.pc = "pacing"]]
    BY DEF Wake, Awake
  <2> QED  BY <2>1, <2>2, QueueAlone
<1> QED  BY <1>2, <1>3, <1>4, <1>5 DEF IInv

LEMMA CountInv == ASSUME IInv, NEW t \in Tasks, Count(t) PROVE IInv'
<1> DEFINE b == Bucket(t)
           spent == IF Open(b) > 0 THEN Open(b) - 1 ELSE 0
<1>1. b \in Buckets /\ spent \in 0 .. Limit /\ Ends(b) \in 0 .. Window
  BY BucketTyped, Sizes DEF IInv, TypeOK, Open, Ends
<1>2. PICK verdict \in {"served", "broken", "limited"} :
        request' = [request EXCEPT ![t].pc = "answered", ![t].verdict = verdict,
                                   ![t].remaining = spent, ![t].resetAfter = Ends(b)]
  BY DEF Count
<1>3. /\ left' = [left EXCEPT ![b] = spent] /\ endsIn' = [endsIn EXCEPT ![b] = Ends(b)]
      /\ UNCHANGED <<limiter, semaphore, observers>>
  BY DEF Count
<1> HIDE DEF b, spent
<1> DEFINE r == [request[t] EXCEPT !.pc = "answered", !.verdict = verdict,
                                   !.remaining = spent, !.resetAfter = Ends(b)]
<1>4. request[t] \in Requests /\ r \in Requests /\ r.attempt = request[t].attempt
  BY ZenonT(30), <1>1, <1>2 DEF IInv, TypeOK, Requests, Steps, Verdicts
<1>5. request' = [request EXCEPT ![t] = r]
  BY <1>2 DEF IInv, TypeOK
<1>6. TypeOK'
  <2> HIDE DEF r
  <2> QED  BY <1>1, <1>3, <1>4, <1>5 DEF IInv, TypeOK, limiter, semaphore, observers
<1>7. AttemptsLeft'
  <2>1. request[t].pc = "sent"
    BY DEF Count
  <2> HIDE DEF r
  <2> QED  BY <2>1, <1>4, <1>5 DEF IInv, TypeOK, AttemptsLeft
<1>8. Balanced' /\ PausesKept'
  BY <1>3, LimiterAlone
<1>9. QueueWaits'
  BY <1>3, <1>5, QueueAlone DEF Count, semaphore
<1> QED  BY <1>6, <1>7, <1>8, <1>9 DEF IInv

LEMMA PauseInv == ASSUME IInv, NEW t \in Tasks, Pause(t) PROVE IInv'
<1>1. PICK pause \in 1 .. Window :
        request' = [request EXCEPT ![t].pc = "answered", ![t].verdict = "paused",
                                   ![t].resetAfter = pause]
  BY DEF Pause
<1> DEFINE r == [request[t] EXCEPT !.pc = "answered", !.verdict = "paused",
                                   !.resetAfter = pause]
<1>2. request[t] \in Requests /\ r \in Requests /\ r.attempt = request[t].attempt
  <2>1. request[t] \in Requests /\ pause \in 0 .. Window
    BY Sizes DEF IInv, TypeOK
  <2> QED  BY <2>1 DEF Requests, Steps, Verdicts
<1>3. request' = [request EXCEPT ![t] = r]
  BY <1>1 DEF IInv, TypeOK
<1> HIDE DEF r
<1>4. TypeOK'
  BY <1>2, <1>3 DEF IInv, TypeOK, Pause, limiter, semaphore, discord, observers
<1>5. AttemptsLeft'
  BY <1>2, <1>3 DEF IInv, TypeOK, AttemptsLeft, Pause
<1>6. Balanced' /\ PausesKept'
  BY LimiterAlone DEF Pause
<1>7. QueueWaits'
  BY <1>3, QueueAlone DEF Pause, semaphore
<1> QED  BY <1>4, <1>5, <1>6, <1>7 DEF IInv

-----------------------------------------------------------------------------
(* The end of an attempt.                                                  *)

LEMMA OverTyped ==
  ASSUME IInv, NEW t \in Tasks, NEW w \in 0 .. Window,
         request[t].pc \notin {"failed", "queued"}, Over(t, w)
  PROVE  /\ request' \in [Tasks -> Requests] /\ slots' \subseteq Tasks
         /\ queue' \in Seq(Tasks) /\ AttemptsLeft' /\ QueueWaits'
<1> DEFINE again == [Fresh EXCEPT !.pc = "backoff", !.attempt = Spent(t), !.wait = w]
           failed == [Fresh EXCEPT !.pc = "failed", !.attempt = MaxAttempts]
<1>1. request[t] \in Requests /\ Spent(t) \in 0 .. MaxAttempts
  BY Sizes DEF IInv, TypeOK, AttemptsLeft, Requests, Spent
<1>2. /\ again \in Requests /\ again.attempt = Spent(t)
      /\ failed \in Requests /\ failed.pc = "failed"
  BY <1>1, BackoffTyped, FailedTyped
<1>3. request' = [request EXCEPT ![t] = IF Spent(t) < MaxAttempts THEN again ELSE failed]
  BY DEF Over
<1> HIDE DEF again, failed
<1>4. request' \in [Tasks -> Requests]
  BY <1>2, <1>3 DEF IInv, TypeOK
<1>5. AttemptsLeft'
  BY <1>1, <1>2, <1>3 DEF IInv, TypeOK, AttemptsLeft
<1>6. QueueWaits'
  BY <1>3, QueueAlone DEF Over
<1> QED  BY <1>4, <1>5, <1>6 DEF IInv, TypeOK, Over

LEMMA EndTyped ==
  ASSUME IInv, NEW t \in Tasks, NEW pc \in Steps \ {"failed"},
         request[t].pc # "queued", End(t, pc)
  PROVE  /\ request' \in [Tasks -> Requests] /\ slots' \subseteq Tasks
         /\ queue' \in Seq(Tasks) /\ AttemptsLeft' /\ QueueWaits'
<1> DEFINE r == [Fresh EXCEPT !.pc = pc]
<1>1. r \in Requests /\ r.attempt = 0
  BY EndedTyped
<1>2. request' = [request EXCEPT ![t] = r]
  BY DEF End
<1> HIDE DEF r
<1>3. QueueWaits'
  BY <1>2, QueueAlone DEF End
<1> QED  BY <1>1, <1>2, <1>3, Sizes DEF IInv, TypeOK, AttemptsLeft, End

\* Discord's count replaces the client's, and opens a new balance.
LEMMA UpdateKeeps ==
  ASSUME IInv, NEW t \in Tasks, Update(t)
  PROVE  /\ routes' \subseteq Routes
         /\ remaining' \in [Buckets -> Int \cup {Unknown}]
         /\ resetIn' \in [Buckets -> 0 .. Window]
         /\ stated' \in [Buckets -> 0 .. Limit] /\ granted' \in [Buckets -> Nat]
         /\ Balanced'
<1> DEFINE b == Bucket(t)
<1>1. /\ b \in Buckets /\ RouteOf[t] \in Routes
      /\ request[t].remaining \in 0 .. Limit /\ request[t].resetAfter \in 0 .. Window
  BY BucketTyped, RoutesAssumption DEF IInv, TypeOK, Requests
<1>2. CASE request[t].verdict = "paused"
  BY <1>2 DEF IInv, TypeOK, Balanced, Update
<1>3. CASE request[t].verdict # "paused"
  <2>1. /\ routes' = routes \cup {RouteOf[t]}
        /\ remaining' = [remaining EXCEPT ![b] = request[t].remaining]
        /\ resetIn' = [resetIn EXCEPT ![b] = request[t].resetAfter]
        /\ stated' = [stated EXCEPT ![b] = request[t].remaining]
        /\ granted' = [granted EXCEPT ![b] = 0]
    BY <1>3 DEF Update
  <2> HIDE DEF b
  <2>2. /\ routes' \subseteq Routes
        /\ remaining' \in [Buckets -> Int \cup {Unknown}]
        /\ resetIn' \in [Buckets -> 0 .. Window]
        /\ stated' \in [Buckets -> 0 .. Limit] /\ granted' \in [Buckets -> Nat]
    BY <2>1, <1>1 DEF IInv, TypeOK
  <2>3. Balanced'
    BY <2>1, <1>1 DEF IInv, TypeOK, Balanced
  <2> QED  BY <2>2, <2>3
<1> QED  BY <1>2, <1>3

\* A pause lasts as long as the longest any request was told of.
LEMMA NoteKeeps ==
  ASSUME IInv, NEW t \in Tasks, Note429(t)
  PROVE  globalIn' \in 0 .. Window /\ told' \in [Tasks -> 0 .. Window] /\ PausesKept'
<1>1. request[t].resetAfter \in 0 .. Window
  BY DEF IInv, TypeOK, Requests
<1>2. CASE request[t].verdict = "paused"
  <2>1. /\ globalIn' = Larger(globalIn, request[t].resetAfter)
        /\ told' = [told EXCEPT ![t] = request[t].resetAfter]
    BY <1>2 DEF Note429, PausedUntil
  <2>2. /\ globalIn' \in 0 .. Window /\ globalIn' >= globalIn
        /\ globalIn' >= request[t].resetAfter /\ globalIn \in 0 .. Window
    BY <2>1, <1>1, Sizes DEF IInv, TypeOK, Larger
  <2>3. told' \in [Tasks -> 0 .. Window]
    BY <2>1, <1>1 DEF IInv, TypeOK
  <2>4. PausesKept'
    <3> SUFFICES ASSUME NEW u \in Tasks PROVE told'[u] <= globalIn'
      BY DEF PausesKept
    <3>1. told[u] \in 0 .. Window /\ told[u] <= globalIn
      BY DEF IInv, TypeOK, PausesKept
    <3>2. told'[u] = IF u = t THEN request[t].resetAfter ELSE told[u]
      BY <2>1 DEF IInv, TypeOK
    <3> QED  BY <3>1, <3>2, <2>2, <1>1, Sizes
  <2> QED  BY <2>2, <2>3, <2>4
<1>3. CASE request[t].verdict # "paused"
  BY <1>3 DEF IInv, TypeOK, PausesKept, Note429
<1> QED  BY <1>2, <1>3

LEMMA SucceedInv == ASSUME IInv, NEW t \in Tasks, Succeed(t) PROVE IInv'
<1>1. /\ request' \in [Tasks -> Requests] /\ slots' \subseteq Tasks
      /\ queue' \in Seq(Tasks) /\ AttemptsLeft' /\ QueueWaits'
  BY EndTyped DEF Succeed, Steps
<1>2. PausesKept'
  BY DEF IInv, PausesKept, Succeed
<1> QED  BY <1>1, <1>2, UpdateKeeps DEF IInv, TypeOK, Succeed, discord

LEMMA TryAgainInv == ASSUME IInv, NEW t \in Tasks, TryAgain(t) PROVE IInv'
<1>1. (IF request[t].verdict = "broken" THEN 1 ELSE request[t].resetAfter) \in 0 .. Window
  BY Sizes DEF IInv, TypeOK, Requests
<1>2. /\ request' \in [Tasks -> Requests] /\ slots' \subseteq Tasks
      /\ queue' \in Seq(Tasks) /\ AttemptsLeft' /\ QueueWaits'
  BY <1>1, OverTyped DEF TryAgain
<1> QED  BY <1>2, UpdateKeeps, NoteKeeps DEF IInv, TypeOK, TryAgain, discord

LEMMA LostInv == ASSUME IInv, NEW t \in Tasks, Lost(t) PROVE IInv'
<1>1. /\ request' \in [Tasks -> Requests] /\ slots' \subseteq Tasks
      /\ queue' \in Seq(Tasks) /\ AttemptsLeft' /\ QueueWaits'
  BY OverTyped, Sizes DEF Lost
<1>2. Balanced' /\ PausesKept'
  BY LimiterAlone DEF Lost
<1> QED  BY <1>1, <1>2 DEF IInv, TypeOK, Lost, limiter, discord, observers

\* A sequence without its i-th element.
LEMMA WithoutTyped ==
  ASSUME NEW S, NEW s \in Seq(S), NEW i \in 1 .. Len(s)
  PROVE  /\ Without(s, i) \in Seq(S) /\ Len(Without(s, i)) = Len(s) - 1
         /\ \A j \in 1 .. Len(s) - 1 :
              Without(s, i)[j] = IF j < i THEN s[j] ELSE s[j + 1]
<1> DEFINE a == SubSeq(s, 1, i - 1)
           b == SubSeq(s, i + 1, Len(s))
<1>1. Len(s) \in Nat /\ \A j \in 1 .. Len(s) : s[j] \in S
  OBVIOUS
<1>2. /\ a \in Seq(S) /\ Len(a) = i - 1
      /\ \A j \in 1 .. i - 1 : a[j] = s[j]
  BY <1>1, SubSeqProperties
<1>3. /\ b \in Seq(S) /\ Len(b) = Len(s) - i
      /\ \A j \in 1 .. Len(s) - i : b[j] = s[i + j]
  BY <1>1, SubSeqProperties
<1> HIDE DEF a, b
<1>4. /\ a \o b \in Seq(S) /\ Len(a \o b) = Len(a) + Len(b)
      /\ \A j \in 1 .. Len(a) + Len(b) :
           (a \o b)[j] = IF j <= Len(a) THEN a[j] ELSE b[j - Len(a)]
  BY <1>2, <1>3, ConcatProperties
<1>5. Without(s, i) = a \o b
  BY DEF Without, a, b
<1>6. Len(s) \in Nat /\ Len(a) + Len(b) = Len(s) - 1
  BY <1>1, <1>2, <1>3
<1>7. ASSUME NEW j \in 1 .. Len(s) - 1
      PROVE  (a \o b)[j] = IF j < i THEN s[j] ELSE s[j + 1]
  <2>1. CASE j < i
    BY <2>1, <1>2, <1>4, <1>6
  <2>2. CASE j >= i
    <3>1. PICK k \in 1 .. Len(s) - i : k = j - Len(a) /\ i + k = j + 1 /\ ~(j <= Len(a))
      BY <2>2, <1>1, <1>2
    <3>2. (a \o b)[j] = b[k]
      BY <3>1, <1>4, <1>6
    <3>3. b[k] = s[j + 1]
      BY <3>1, <1>3
    <3> QED  BY <3>2, <3>3, <2>2
  <2>3. j < i \/ j >= i
    BY <1>1
  <2> QED  BY <2>1, <2>2, <2>3
<1> QED  BY <1>4, <1>5, <1>6, <1>7

LEMMA CancelInv == ASSUME IInv, NEW t \in Tasks, Cancel(t) PROVE IInv'
<1> DEFINE r == [Fresh EXCEPT !.pc = "cancelled"]
<1>1. r \in Requests /\ r.attempt = 0
  BY EndedTyped DEF Steps
<1>2. queue' \in Seq(Tasks)
  BY WithoutTyped DEF IInv, TypeOK, Cancel
<1>3. request' = [request EXCEPT ![t] = r]
  BY DEF Cancel
<1> HIDE DEF r
<1>4. TypeOK'
  BY <1>1, <1>2, <1>3 DEF IInv, TypeOK, Cancel, limiter, discord, observers
<1>5. AttemptsLeft'
  BY <1>1, <1>3, Sizes DEF IInv, TypeOK, AttemptsLeft
<1>6. Balanced' /\ PausesKept'
  BY LimiterAlone DEF Cancel
<1>7. QueueWaits'
  <2>1. CASE request[t].pc # "queued" /\ UNCHANGED queue
    BY <2>1, <1>3, QueueAlone
  <2>2. ASSUME NEW i \in 1 .. Len(queue), queue[i] = t, queue' = Without(queue, i)
        PROVE  QueueWaits'
    <3>1. queue \in Seq(Tasks) /\ Len(queue) \in Nat
      BY DEF IInv, TypeOK
    <3>2. /\ Len(queue') = Len(queue) - 1
          /\ \A j \in 1 .. Len(queue) - 1 :
               queue'[j] = IF j < i THEN queue[j] ELSE queue[j + 1]
      BY <2>2, <3>1, WithoutTyped
    <3> QED  BY <3>1, <3>2, <2>2, <1>2, <1>3, QueueShrinks
  <2> QED  BY <2>1, <2>2 DEF Cancel
<1> QED  BY <1>4, <1>5, <1>6, <1>7 DEF IInv

-----------------------------------------------------------------------------
(* Passing the limiter, and time.                                          *)

\* A request that is let through within a window finds something left of it.
LEMMA AcquireInv == ASSUME IInv, NEW t \in Tasks, Acquire(t) PROVE IInv'
<1> DEFINE b == Bucket(t)
<1>1. b \in Buckets
  BY BucketTyped
<1>2. request[t] \in Requests /\ [request[t] EXCEPT !.pc = "sent"] \in Requests
  BY StepTyped, Sizes DEF IInv, TypeOK, Steps
<1>3. AttemptsLeft'
  BY <1>2 DEF IInv, TypeOK, Acquire, Go, AttemptsLeft, Requests
<1>4. PausesKept' /\ QueueWaits'
  <2>1. PausesKept'
    BY DEF IInv, PausesKept, Acquire, Go
  <2>2. request' = [request EXCEPT ![t] = [request[t] EXCEPT !.pc = "sent"]]
    BY DEF Acquire, Go
  <2> QED  BY <2>1, <2>2, QueueAlone DEF Acquire, Go, semaphore
<1>5. CASE ~Learned(t)
  <2>1. UNCHANGED <<remaining, granted, resetIn, stated>>
    BY <1>5 DEF Acquire, Go
  <2> QED
    BY <2>1, <1>2, <1>3, <1>4 DEF IInv, TypeOK, Balanced, Acquire, Go, semaphore, discord
<1>6. CASE Learned(t)
  <2>1. /\ remaining' = [remaining EXCEPT ![b] = @ - 1]
        /\ granted' = [granted EXCEPT ![b] = @ + 1]
        /\ UNCHANGED <<resetIn, stated>>
    BY <1>6 DEF Acquire, Go
  <2>2. remaining[b] \in Int /\ (resetIn[b] > 0 => remaining[b] > 0)
    BY <1>1, <1>6, Sizes DEF IInv, TypeOK, Acquire, Delay, Learned, Larger
  <2> HIDE DEF b
  <2>3. TypeOK'
    BY SMTT(30), <2>1, <2>2, <1>1, <1>2 DEF IInv, TypeOK, Acquire, Go, semaphore, discord
  <2>4. Balanced'
    <3> SUFFICES ASSUME NEW c \in Buckets, remaining'[c] # Unknown, resetIn'[c] > 0
                 PROVE  /\ remaining'[c] >= 0
                        /\ remaining'[c] = stated'[c] - granted'[c]
      BY DEF Balanced
    <3>1. /\ resetIn'[c] = resetIn[c] /\ stated'[c] = stated[c]
          /\ stated[c] \in Int /\ granted[c] \in Int
      BY <2>1, Sizes DEF IInv, TypeOK
    <3>2. CASE c = b
      <4>1. remaining[b] # Unknown
        BY <2>2, Sizes
      <4>2. remaining'[b] = remaining[b] - 1 /\ granted'[b] = granted[b] + 1
        BY <2>1, <1>1 DEF IInv, TypeOK
      <4> QED  BY <4>1, <4>2, <3>1, <3>2, <2>2 DEF IInv, Balanced
    <3>3. CASE c # b
      BY <2>1, <3>1, <3>3 DEF IInv, TypeOK, Balanced
    <3> QED  BY <3>2, <3>3
  <2> QED  BY <2>3, <2>4, <1>3, <1>4 DEF IInv
<1> QED  BY <1>5, <1>6

LEMMA TickInv == ASSUME IInv, Tick PROVE IInv'
<1>1. \A t \in Tasks : /\ request[t] \in Requests
                       /\ request'[t] = [request[t] EXCEPT !.wait = Down(request[t].wait)]
  BY DEF IInv, TypeOK, Tick
<1>2. \A t \in Tasks : request'[t] \in Requests
  <2> SUFFICES ASSUME NEW t \in Tasks PROVE request'[t] \in Requests
    OBVIOUS
  <2>1. request[t] \in Requests /\ Down(request[t].wait) \in 0 .. Window
    BY <1>1, DownTyped DEF Requests
  <2> QED  BY ZenonT(30), <2>1, <1>1, WaitTyped
<1>3. /\ resetIn' = [b \in Buckets |-> Down(resetIn[b])]
      /\ endsIn' = [b \in Buckets |-> Down(endsIn[b])]
      /\ told' = [t \in Tasks |-> Down(told[t])]
  BY DEF IInv, TypeOK, Tick, Passing
<1>4. TypeOK'
  BY <1>2, <1>3, DownTyped DEF IInv, TypeOK, Tick, semaphore
<1>5. AttemptsLeft'
  BY <1>1 DEF IInv, AttemptsLeft, Requests
<1>6. Balanced'
  BY <1>3, DownTyped DEF IInv, TypeOK, Balanced, Tick
<1>7. PausesKept'
  <2> SUFFICES ASSUME NEW t \in Tasks PROVE told'[t] <= globalIn'
    BY DEF PausesKept
  <2>1. told[t] \in Nat /\ globalIn \in Nat /\ told[t] <= globalIn
    BY Sizes DEF IInv, TypeOK, PausesKept
  <2> QED  BY <2>1, <1>3, DownMonotone DEF Tick
<1>8. QueueWaits'
  <2>1. queue' = queue /\ queue \in Seq(Tasks) /\ QueueWaits
    BY DEF IInv, TypeOK, Tick, semaphore
  <2>2. \A t \in Tasks : request'[t].pc = request[t].pc
    BY <1>1 DEF Requests
  <2>3. \A i \in 1 .. Len(queue) : queue[i] \in Tasks
    BY <2>1
  <2> QED  BY <2>1, <2>2, <2>3 DEF QueueWaits
<1> QED  BY <1>4, <1>5, <1>6, <1>7, <1>8 DEF IInv

LEMMA NextInv == ASSUME IInv, [Next]_vars PROVE IInv'
<1>1. CASE UNCHANGED vars
  BY <1>1 DEF vars, limiter, semaphore, discord, observers, IInv, TypeOK,
              AttemptsLeft, QueueWaits, Balanced, PausesKept
<1>2. CASE Tick
  BY <1>2, TickInv
<1>3. CASE Admit
  BY <1>3, AdmitInv
<1>4. ASSUME NEW t \in Tasks, Turn(t) \/ Cancel(t) PROVE IInv'
  BY <1>4, EnterInv, AcquireInv, SleepInv, WakeInv, CountInv, PauseInv,
     SucceedInv, TryAgainInv, LostInv, CancelInv DEF Turn
<1> QED  BY <1>1, <1>2, <1>3, <1>4 DEF Next

LEMMA Invariant == Spec => []IInv
  BY InitInv, NextInv, PTL DEF Spec

-----------------------------------------------------------------------------
\* Every variable keeps its type: a request has an attempt number within the
\* five, a bucket a reset within a window (src/src/ratelimit.py:56).
THEOREM TypeCorrect == Spec => []TypeOK
<1>1. IInv => TypeOK
  BY DEF IInv
<1> QED  BY <1>1, Invariant, PTL

\* Within a window no more requests are let through than Discord last said were
\* left, whatever the number of tasks that slept for it (src/src/ratelimit.py:86).
THEOREM Thrifty == Spec => []NeverOverspent
<1>1. IInv => NeverOverspent
  BY Sizes DEF IInv, TypeOK, Balanced, NeverOverspent
<1> QED  BY <1>1, Invariant, PTL

\* Only acquire sends, and it does so after the end of every pause any request
\* was told of (src/src/ratelimit.py:126).
THEOREM Patient == Spec => PausesAreWaitedOut
<1> DEFINE Sends == \A t \in Tasks :
             request[t].pc # "sent" /\ request'[t].pc = "sent" =>
               \A u \in Tasks : told[u] = 0
<1>1. ASSUME IInv, [Next]_vars PROVE [Sends]_vars
  <2> SUFFICES ASSUME NEW t \in Tasks, request[t].pc # "sent",
                      request'[t].pc = "sent", NEW u \in Tasks, Next
               PROVE  told[u] = 0
    BY <1>1
  <2>1. PICK s \in Tasks : Acquire(s)
    <3>0. request[t] \in Requests /\ request \in [Tasks -> Requests]
      BY <1>1 DEF IInv, TypeOK
    <3>1. ~Tick
      BY <3>0 DEF Tick, Requests
    <3>2. ~Admit
      BY <3>0 DEF Admit, Requests
    <3>3. PICK s \in Tasks : Turn(s) \/ Cancel(s)
      BY <3>1, <3>2 DEF Next
    <3>4. ASSUME NEW r, request' = [request EXCEPT ![s] = r], r.pc # "sent"
          PROVE  FALSE
      BY <3>0, <3>4
    <3>6. ~Enter(s) /\ ~Sleep(s) /\ ~Wake(s)
      <4>1. ASSUME NEW pc \in {"queued", "pacing"}, request' = [request EXCEPT ![s].pc = pc]
            PROVE  FALSE
        BY <3>0, <4>1 DEF Requests
      <4>2. ~Sleep(s)
        BY <3>0 DEF Sleep, Requests
      <4> QED  BY <4>1, <4>2 DEF Enter, Wake, Awake
    <3>7. ~Count(s) /\ ~Pause(s)
      BY <3>0 DEF Count, Pause, Requests
    <3>8. ~Succeed(s) /\ ~Cancel(s)
      BY <3>4, FreshTyped DEF Succeed, Cancel, End, Requests
    <3>9. ~TryAgain(s) /\ ~Lost(s)
      <4>1. ASSUME NEW w, Over(s, w) PROVE FALSE
        BY <3>4, <4>1, FreshTyped DEF Over, Requests
      <4> QED  BY <4>1 DEF TryAgain, Lost
    <3> QED  BY <3>3, <3>6, <3>7, <3>8, <3>9 DEF Turn
  <2>2. globalIn \in Nat /\ globalIn <= 0
    <3>1. TypeOK /\ Delay(s) <= 0
      BY <1>1, <2>1 DEF IInv, Acquire
    <3>2. Delay(s) \in 0 .. Window /\ Delay(s) >= globalIn
      BY <3>1, DelayTyped
    <3> QED  BY <3>1, <3>2, Sizes DEF TypeOK
  <2>3. told[u] \in Nat /\ told[u] <= globalIn
    BY <1>1, Sizes DEF IInv, TypeOK, PausesKept
  <2> QED  BY <2>2, <2>3
<1> QED  BY <1>1, Invariant, PTL DEF Spec, PausesAreWaitedOut
=============================================================================
