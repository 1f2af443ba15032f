-------------------------------- MODULE Login --------------------------------
(***************************************************************************)
(* Signing in over HTTP: `login` in src/src/web.py with the guard of       *)
(* src/src/webauth.py, and the sessions of src/src/websession.py that a    *)
(* login opens and that hold the unwrapped master key.                     *)
(*                                                                         *)
(* An attempt looks at the counters when it arrives, waits for a slot,     *)
(* derives a key in a thread and is counted when that is over: others come *)
(* and go meanwhile.  Times are relative, in ticks, and stop at the point  *)
(* from which they make no difference.  Whether a password is right is a   *)
(* choice here; what it opens is module Startup.                           *)
(***************************************************************************)
EXTENDS Integers, FiniteSets

CONSTANTS
  Tasks,            \* POST /api/login, one per asyncio task
  Addresses,
  Devices,          \* device cookies
  SessionIds,
  Concurrency, Queue,                \* WEB_LOGIN_CONCURRENCY, WEB_LOGIN_QUEUE
  DeviceThreshold, AddressThreshold, \* DEVICE_THRESHOLD, ADDRESS_THRESHOLD
  BaseLockout, MaxLockout,           \* BASE_ and MAX_LOCKOUT_SECONDS
  ForgetAfter,                       \* FORGET_AFTER_SECONDS
  MaxFailures,      \* bound: more failures than these lock no longer
  IdleCeiling, AbsoluteCeiling,      \* WEB_SESSION_IDLE_ and _ABSOLUTE_SECONDS
  SweepInterval,    \* `interval` of websession.sweeper
  Lifetimes,        \* what a client may ask for; 0 is no preference
  NoCounter, NoSession, NoSource

Sources == Addresses \X Devices

ASSUME LimitsAssumption ==
  /\ {Concurrency, Queue, DeviceThreshold, AddressThreshold, BaseLockout,
      MaxLockout, ForgetAfter, MaxFailures, IdleCeiling, AbsoluteCeiling,
      SweepInterval} \subseteq Nat \ {0}
  /\ BaseLockout <= MaxLockout /\ MaxLockout <= ForgetAfter
  /\ IdleCeiling <= AbsoluteCeiling
  /\ Lifetimes \subseteq Nat
  /\ NoSource \notin Sources

VARIABLES
  pair,       \* _counters of ("pair", address, device): Sources -> counter
  address,    \* _counters of ("addr", address): Addresses -> counter
  request,    \* Tasks -> where the attempt is
  sessions,   \* _sessions
  sinceSweep, \* ticks since the sweeper ran
  late        \* observer: Sources -> guesses made while the source was locked out

guard == <<pair, address, request, late>>
sessionStore == <<sessions, sinceSweep>>
loginVars == <<guard, sessionStore>>

-----------------------------------------------------------------------------
\* quiet: ticks since last_touched; locked: ticks left until locked_until.
Counters == [failures : 1 .. MaxFailures, quiet : 0 .. ForgetAfter + 1,
             locked : 0 .. MaxLockout]
ASSUME NullAssumption == NoCounter \notin Counters
Attempts == [pc : {"none", "waiting", "deriving", "tree"},
             source : Sources \cup {NoSource}, right : BOOLEAN]
Idle == [pc |-> "none", source |-> NoSource, right |-> FALSE]

\* age, idle: ticks since created_at and last_seen; and what was granted.
Sessions == [age : 0 .. AbsoluteCeiling + SweepInterval,
             idle : 0 .. AbsoluteCeiling + SweepInterval,
             idleMax : 1 .. IdleCeiling, ageMax : 1 .. AbsoluteCeiling]

LoginTypeOK ==
  /\ pair \in [Sources -> Counters \cup {NoCounter}]
  /\ address \in [Addresses -> Counters \cup {NoCounter}]
  /\ request \in [Tasks -> Attempts]
  /\ sessions \in [SessionIds -> Sessions \cup {NoSession}]
  /\ sinceSweep \in 0 .. SweepInterval
  /\ late \in [Sources -> 0 .. Concurrency + Queue]

LoginInit ==
  /\ pair = [s \in Sources |-> NoCounter]
  /\ address = [a \in Addresses |-> NoCounter]
  /\ request = [t \in Tasks |-> Idle]
  /\ sessions = [i \in SessionIds |-> NoSession]
  /\ sinceSweep = 0
  /\ late = [s \in Sources |-> 0]

Smaller(a, b) == IF a <= b THEN a ELSE b
In(pc) == {t \in Tasks : request[t].pc = pc}

-----------------------------------------------------------------------------
(* The guard.                                                              *)

\* `_forget_stale`.
Stale(c) == c # NoCounter /\ c.quiet > ForgetAfter /\ c.locked = 0
Remembered(f) == [k \in DOMAIN f |-> IF Stale(f[k]) THEN NoCounter ELSE f[k]]

Locks(c) == c # NoCounter /\ c.locked > 0

\* MUTANT: the key a cookie can change is the only one.
LockedByPair(s) == Locks(pair[s])
\* `check`: the pair, and the address it can never escape.
Locked(s) == Locks(pair[s]) \/ Locks(address[s[1]])

\* What it is to find, for the observer and the properties.
LockedOut(s) == Locks(pair[s]) \/ Locks(address[s[1]])

\* The lock-out doubles with every failure from the threshold on.
Penalty(failures, threshold) ==
  Smaller(BaseLockout * 2 ^ (failures - threshold), MaxLockout)

Failed(c, threshold) ==
  LET n == IF c = NoCounter THEN 1 ELSE Smaller(c.failures + 1, MaxFailures)
      before == IF c = NoCounter THEN 0 ELSE c.locked
  IN [failures |-> n, quiet |-> 0,
      locked |-> IF n >= threshold THEN Penalty(n, threshold) ELSE before]

RecordFailure(s) ==
  /\ pair' = [pair EXCEPT ![s] = Failed(@, DeviceThreshold)]
  /\ address' = [address EXCEPT ![s[1]] = Failed(@, AddressThreshold)]

\* MUTANT: an attempt that is turned away counts as a failure.
TurnAwayCounting(s) == RecordFailure(s)
\* LoginLocked: turned away with a 429, nothing counted.
TurnAway(s) ==
  pair' = Remembered(pair) /\ address' = Remembered(address)

ArriveLocked(t, s) ==
  /\ request[t].pc = "none" /\ Locked(s)
  /\ TurnAway(s)
  /\ UNCHANGED <<request, late, sessionStore>>

\* `check` passes and `_Slot` has room to wait; a full queue is a 503.
Arrive(t, s, right) ==
  /\ request[t].pc = "none" /\ ~Locked(s)
  /\ pair' = Remembered(pair) /\ address' = Remembered(address)
  /\ IF Cardinality(In("waiting")) < Queue
     THEN request' = [request EXCEPT ![t] =
            [pc |-> "waiting", source |-> s, right |-> right]]
     ELSE UNCHANGED request
  /\ UNCHANGED <<late, sessionStore>>

TakeSlot(t) ==
  /\ request[t].pc = "waiting" /\ Cardinality(In("deriving")) < Concurrency
  /\ request' = [request EXCEPT ![t].pc = "deriving"]
  /\ UNCHANGED <<pair, address, late, sessionStore>>

\* authenticate or open_master_key says no: the slot is given back, the failure
\* counted under both keys, and a 401 sent.
Refuse(t) ==
  LET s == request[t].source IN
  /\ request[t].pc = "deriving" /\ ~request[t].right
  /\ RecordFailure(s)
  /\ late' = [late EXCEPT ![s] = IF LockedOut(s) THEN @ + 1 ELSE 0]
  /\ request' = [request EXCEPT ![t] = Idle]
  /\ UNCHANGED sessionStore

\* The key is there and the slot given back; ensure_root is awaited.
Accept(t) ==
  /\ request[t].pc = "deriving" /\ request[t].right
  /\ request' = [request EXCEPT ![t].pc = "tree"]
  /\ UNCHANGED <<pair, address, late, sessionStore>>

\* The tree cannot be served: a 500, and nothing is counted.
TreeFails(t) ==
  /\ request[t].pc = "tree"
  /\ request' = [request EXCEPT ![t] = Idle]
  /\ UNCHANGED <<pair, address, late, sessionStore>>

-----------------------------------------------------------------------------
(* The sessions.                                                           *)

\* MUTANT: only the first of the two deadlines.
ExpiredWhenIdle(s) == s.idle >= s.idleMax
\* `expired_at`.
Expired(s) == s.idle >= s.idleMax \/ s.age >= s.ageMax

Live(i) == sessions[i] # NoSession

\* `sweep`.
Swept == [i \in SessionIds |->
            IF Live(i) /\ Expired(sessions[i]) THEN NoSession ELSE sessions[i]]

\* `clamp`: downwards only, and an idle window that can elapse.
Clamped(asked, ceiling) == IF asked = 0 THEN ceiling ELSE Smaller(asked, ceiling)

\* record_success clears the pair and not the address; `create` sweeps first.
Enter(t) ==
  /\ request[t].pc = "tree"
  /\ pair' = [pair EXCEPT ![request[t].source] = NoCounter]
  /\ request' = [request EXCEPT ![t] = Idle]
  /\ LET s == request[t].source IN
     late' = [late EXCEPT ![s] = IF Locks(address[s[1]]) THEN @ ELSE 0]
  /\ \E i \in {j \in SessionIds : Swept[j] = NoSession}, idle, age \in Lifetimes :
       LET ageMax == Clamped(age, AbsoluteCeiling) IN
       sessions' = [Swept EXCEPT ![i] =
         [age |-> 0, idle |-> 0, ageMax |-> ageMax,
          idleMax |-> Smaller(Clamped(idle, IdleCeiling), ageMax)]]
  /\ UNCHANGED <<address, sinceSweep>>

\* `get`, at the start of every request that carries the cookie.
Touched(i) ==
  [sessions EXCEPT ![i] = IF Expired(@) THEN NoSession ELSE [@ EXCEPT !.idle = 0]]

Use(i) ==
  /\ Live(i)
  /\ sessions' = Touched(i)
  /\ UNCHANGED <<guard, sinceSweep>>

Logout(i) ==
  /\ Live(i)
  /\ sessions' = [sessions EXCEPT ![i] = NoSession]
  /\ UNCHANGED <<guard, sinceSweep>>

\* `drop_others`, for a caller that is still signed in.
RevokeOthers(i) ==
  /\ Live(i) /\ ~Expired(sessions[i])
  /\ sessions' = [j \in SessionIds |-> IF j = i THEN Touched(i)[i] ELSE NoSession]
  /\ UNCHANGED <<guard, sinceSweep>>

Sweep ==
  /\ sinceSweep = SweepInterval
  /\ sessions' = Swept /\ sinceSweep' = 0
  /\ UNCHANGED guard

-----------------------------------------------------------------------------
Aged(c) ==
  IF c = NoCounter THEN c
  ELSE [c EXCEPT !.quiet = Smaller(@ + 1, ForgetAfter + 1),
                 !.locked = IF @ > 0 THEN @ - 1 ELSE 0]

\* A second passes; the sweeper is not late, the event loop runs it when due.
Tick ==
  /\ sinceSweep < SweepInterval /\ sinceSweep' = sinceSweep + 1
  /\ pair' = [s \in Sources |-> Aged(pair[s])]
  /\ address' = [a \in Addresses |-> Aged(address[a])]
  /\ late' = [s \in Sources |->
       IF Locks(Aged(pair[s])) \/ Locks(Aged(address[s[1]])) THEN late[s] ELSE 0]
  /\ sessions' = [i \in SessionIds |->
       IF Live(i) THEN [sessions[i] EXCEPT !.age = @ + 1, !.idle = @ + 1]
                  ELSE NoSession]
  /\ UNCHANGED request

\* Guard and sessions live in memory; whoever was signing in is gone too.
Restart ==
  /\ pair' = [s \in Sources |-> NoCounter]
  /\ address' = [a \in Addresses |-> NoCounter]
  /\ request' = [t \in Tasks |-> Idle]
  /\ sessions' = [i \in SessionIds |-> NoSession]
  /\ sinceSweep' = 0
  /\ late' = [s \in Sources |-> 0]

Attempt(t) ==
  \/ \E s \in Sources : \/ ArriveLocked(t, s)
                        \/ \E right \in BOOLEAN : Arrive(t, s, right)
  \/ TakeSlot(t) \/ Refuse(t) \/ Accept(t) \/ TreeFails(t) \/ Enter(t)

Browse == \E i \in SessionIds : Use(i) \/ Logout(i) \/ RevokeOthers(i)

LoginNext == (\E t \in Tasks : Attempt(t)) \/ Browse \/ Sweep \/ Tick \/ Restart

LoginSpec == LoginInit /\ [][LoginNext]_loginVars

\* Time passes and the sweeper's timer fires.  Nothing is assumed of clients.
FairSpec == LoginSpec /\ WF_loginVars(Tick) /\ WF_loginVars(Sweep)

-----------------------------------------------------------------------------
\* While a source is locked out, only what was past the check when the lock-out
\* began is still tried, and the semaphore with its bounded queue says how much
\* that is: a burst of parallel guesses gains no more (src/src/webauth.py:98).
LateGuessesAreBounded == \A s \in Sources : late[s] < Concurrency + Queue

\* Nobody is locked out for good, however long others at the address keep
\* trying: a lock-out ends, and being turned away does not prolong it
\* ("Accounts are never locked", src/src/webauth.py:17).
LockoutsEnd == \A s \in Sources : []<>(~LockedOut(s))

\* No key stays in memory past the ceilings of the server by more than a sweep,
\* whatever the client asked for, used or forgot ("an abandoned session cannot
\* outlive its ceiling just because nobody asked about it", websession.py).
KeysAreForgotten ==
  \A i \in SessionIds : Live(i) =>
    /\ sessions[i].age < AbsoluteCeiling + SweepInterval
    /\ sessions[i].idle < IdleCeiling + SweepInterval
=============================================================================
