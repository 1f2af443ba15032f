------------------------------ MODULE DirLocks ------------------------------
(***************************************************************************)
(* `_locked_dirs` and `_forget` of src/src/vfs.py: the process-wide        *)
(* registry of per-directory locks, its reference counts, re-entrancy by   *)
(* task, and cancellation of a task that is queued.                        *)
(*                                                                         *)
(* Below it is asyncio.Lock (external): a flag and a queue of futures.     *)
(* `release` resolves the future at the head of the queue unless that one  *)
(* is done already; the task it belongs to takes the flag when it runs     *)
(* again; a newcomer takes it at once only if nobody with a live future is *)
(* queued.  A cancelled future stays in the queue until its task runs.     *)
(*                                                                         *)
(* Lock objects have an identity, because a registry entry that is dropped *)
(* too early is replaced by another object and excludes nobody.  A task    *)
(* that finds locks free takes them without yielding; here it takes them   *)
(* in one step each, which allows more interleavings than the code has.    *)
(***************************************************************************)
EXTENDS Naturals, FiniteSets

CONSTANTS
  Dirs,       \* directory ids, in their sort order
  Tasks,      \* asyncio tasks
  Locks,      \* identities a `_DirLock` may have
  NoLock, NoTask,
  Nesting,    \* tasks that enter a block within another, as `rename` does
  MaxDepth    \* bound on nested `async with _locked_dirs` blocks of a task

ASSUME DirsAssumption == Dirs \subseteq Nat \ {0}
ASSUME TasksAssumption == IsFiniteSet(Tasks) /\ NoTask \notin Tasks
ASSUME LocksAssumption == Locks \subseteq Nat /\ NoLock \notin Locks
ASSUME DepthAssumption == MaxDepth \in Nat
ASSUME NestingAssumption == Nesting \subseteq Tasks

NoDir == 0

VARIABLES
  registry, \* `_dir_locks`: Dirs -> the registered lock, or NoLock
  users,    \* `_DirLock.users`
  locked,   \* the locks whose flag is set
  held,     \* `_dirs_held_by`: Tasks -> directories
  entry,    \* Tasks -> Dirs -> the lock the task has counted itself on
  depth,    \* Tasks -> how many blocks the task is in
  taken,    \* Tasks -> block -> the directories that block took
  want,     \* Tasks -> what is left of `wanted` in the innermost block
  queuedOn, \* Tasks -> the directory whose lock the task is queued on
  ahead,    \* Tasks -> the tasks in front of it in that queue
  future,   \* Tasks -> the state of the future it awaits
  cancelled \* tasks with a CancelledError on its way

vars == <<registry, users, locked, held, entry, depth, taken, want, queuedOn, ahead,
          future, cancelled>>

Futures == {"none", "pending", "result", "cancelled"}

TypeOK ==
  /\ registry \in [Dirs -> Locks \cup {NoLock}]
  /\ users \in [Locks -> Nat]
  /\ locked \subseteq Locks
  /\ held \in [Tasks -> SUBSET Dirs]
  /\ entry \in [Tasks -> [Dirs -> Locks \cup {NoLock}]]
  /\ depth \in [Tasks -> 0 .. MaxDepth]
  /\ taken \in [Tasks -> [1 .. MaxDepth -> SUBSET Dirs]]
  /\ want \in [Tasks -> SUBSET Dirs]
  /\ queuedOn \in [Tasks -> Dirs \cup {NoDir}]
  /\ ahead \in [Tasks -> SUBSET Tasks]
  /\ future \in [Tasks -> Futures]
  /\ cancelled \subseteq Tasks

Init ==
  /\ registry = [d \in Dirs |-> NoLock]
  /\ users = [l \in Locks |-> 0]
  /\ locked = {}
  /\ held = [t \in Tasks |-> {}]
  /\ entry = [t \in Tasks |-> [d \in Dirs |-> NoLock]]
  /\ depth = [t \in Tasks |-> 0]
  /\ taken = [t \in Tasks |-> [k \in 1 .. MaxDepth |-> {}]]
  /\ want = [t \in Tasks |-> {}]
  /\ queuedOn = [t \in Tasks |-> NoDir]
  /\ ahead = [t \in Tasks |-> {}]
  /\ future = [t \in Tasks |-> "none"]
  /\ cancelled = {}

-----------------------------------------------------------------------------
(* asyncio.Lock (external).                                                *)

Queued(t) == queuedOn[t] # NoDir

\* The lock object a queued task is queued on.
Awaited(t) == entry[t][queuedOn[t]]

Queue(l) == {t \in Tasks : Queued(t) /\ Awaited(t) = l}

UncontendedWhenFree(l) == l \notin locked

\* `Lock.acquire` returns at once.
Uncontended(l) == l \notin locked /\ \A t \in Queue(l) : future[t] = "cancelled"

\* `_wake_up_first` for each lock of S, t having left its queue: a future at the
\* head that is done, cancelled or not, is left alone.
Woken(S, t) ==
  [u \in Tasks |->
     IF u = t THEN "none"
     ELSE IF Queued(u) /\ Awaited(u) \in S /\ ahead[u] \subseteq {t} /\ future[u] = "pending"
          THEN "result" ELSE future[u]]

-----------------------------------------------------------------------------
(* `_locked_dirs`.                                                         *)

\* `{d for d in dir_ids if d} - held`.
Wanted(dirs, mine) == (dirs \ {NoDir}) \ mine

InBody(t) == depth[t] > 0 /\ want[t] = {}

\* A task enters a block, its first or one in the body of another, for any
\* directories: `rename` reaches `purge` under the locks of its two ends, and the
\* parent its target has by then need not be one of them.
Enter(t, dirs) ==
  /\ depth[t] < MaxDepth
  /\ depth[t] = 0 \/ (t \in Nesting /\ InBody(t))
  /\ depth' = [depth EXCEPT ![t] = @ + 1]
  /\ taken' = [taken EXCEPT ![t][depth[t] + 1] = {}]
  /\ want' = [want EXCEPT ![t] = Wanted(dirs, held[t])]
  /\ UNCHANGED <<registry, users, locked, held, entry, queuedOn, ahead, future,
                 cancelled>>

NextWantedUnsorted(t, d) == d \in want[t]

\* The next directory of the sorted list.
NextWanted(t, d) == d \in want[t] /\ \A e \in want[t] : d <= e

\* A lock object nobody refers to: what `_DirLock()` may return.
Unreferenced(l) ==
  /\ \A d \in Dirs : registry[d] # l
  /\ \A t \in Tasks, d \in Dirs : entry[t][d] # l

\* The object registered for d, or a new one.
EntryFor(d, l) ==
  IF registry[d] # NoLock THEN l = registry[d]
  ELSE l \in Locks /\ Unreferenced(l) /\ \A k \in Locks : Unreferenced(k) => l <= k

\* What holding d changes.
Hold(t, d, l) ==
  /\ locked' = locked \cup {l}
  /\ held' = [held EXCEPT ![t] = @ \cup {d}]
  /\ taken' = [taken EXCEPT ![t][depth[t]] = @ \cup {d}]
  /\ want' = [want EXCEPT ![t] = @ \ {d}]

\* The user is counted before the await; then the lock is taken, or queued for.
Register(t, d, l) ==
  /\ ~Queued(t) /\ NextWanted(t, d) /\ EntryFor(d, l)
  /\ registry' = [registry EXCEPT ![d] = l]
  /\ users' = [users EXCEPT ![l] = IF registry[d] = NoLock THEN 1 ELSE @ + 1]
  /\ entry' = [entry EXCEPT ![t][d] = l]

Take(t, d, l) ==
  /\ Register(t, d, l)
  /\ Uncontended(l)
  /\ Hold(t, d, l)
  /\ UNCHANGED <<depth, queuedOn, ahead, future, cancelled>>

Wait(t, d, l) ==
  /\ Register(t, d, l)
  /\ ~Uncontended(l)
  /\ queuedOn' = [queuedOn EXCEPT ![t] = d]
  /\ ahead' = [ahead EXCEPT ![t] = Queue(l)]
  /\ future' = [future EXCEPT ![t] = "pending"]
  /\ UNCHANGED <<locked, held, taken, want, depth, cancelled>>

\* A queued task leaves the queue.
Dequeued(t) == [u \in Tasks |-> IF u = t THEN {} ELSE ahead[u] \ {t}]

\* The task whose future was resolved runs again and has the lock.
Resume(t) ==
  /\ Queued(t) /\ future[t] = "result" /\ t \notin cancelled
  /\ Hold(t, queuedOn[t], Awaited(t))
  /\ queuedOn' = [queuedOn EXCEPT ![t] = NoDir]
  /\ ahead' = Dequeued(t)
  /\ future' = [future EXCEPT ![t] = "none"]
  /\ UNCHANGED <<registry, users, entry, depth, cancelled>>

\* t takes itself off the locks of dirs.
Discount(t, dirs) ==
  /\ users' = [l \in Locks |->
                 IF \E d \in dirs : entry[t][d] = l THEN users[l] - 1 ELSE users[l]]
  /\ entry' = [entry EXCEPT ![t] = [d \in Dirs |-> IF d \in dirs THEN NoLock ELSE @[d]]]

ForgetEagerly(t, dirs) ==
  /\ Discount(t, dirs)
  /\ registry' = [d \in Dirs |-> IF d \in dirs THEN NoLock ELSE registry[d]]

ForgetLate(t, dirs) ==
  /\ Discount(t, dirs)
  /\ registry' = [d \in Dirs |->
                    IF d \in dirs /\ users[entry[t][d]] = 0 THEN NoLock ELSE registry[d]]

\* `_forget` for each of dirs: the last user drops the object it counted
\* itself on, if that is still the registered one.
Forget(t, dirs) ==
  /\ Discount(t, dirs)
  /\ registry' = [d \in Dirs |->
                    IF d \in dirs /\ registry[d] = entry[t][d] /\ users[entry[t][d]] = 1
                    THEN NoLock ELSE registry[d]]

UnlockOnSuccess(t) ==
  LET mine == taken[t][depth[t]] IN
  /\ locked' = IF t \in cancelled THEN locked ELSE locked \ {entry[t][d] : d \in mine}
  /\ held' = [held EXCEPT ![t] = @ \ mine]
  /\ taken' = [taken EXCEPT ![t][depth[t]] = {}]
  /\ depth' = [depth EXCEPT ![t] = @ - 1]
  /\ want' = [want EXCEPT ![t] = {}]

\* The `finally` of the innermost block, and the block is left.
Unlock(t) ==
  LET mine == taken[t][depth[t]] IN
  /\ locked' = locked \ {entry[t][d] : d \in mine}
  /\ held' = [held EXCEPT ![t] = @ \ mine]
  /\ taken' = [taken EXCEPT ![t][depth[t]] = {}]
  /\ depth' = [depth EXCEPT ![t] = @ - 1]
  /\ want' = [want EXCEPT ![t] = {}]

\* The body ends, or raises.
Leave(t) ==
  LET mine == taken[t][depth[t]] IN
  /\ InBody(t)
  /\ Unlock(t)
  /\ Forget(t, mine)
  /\ future' = Woken({entry[t][d] : d \in mine}, t)
  /\ UNCHANGED <<queuedOn, ahead, cancelled>>

\* `Task.cancel` of a queued task; its future is done at once.
Cancel(t) ==
  /\ Queued(t) /\ t \notin cancelled
  /\ cancelled' = cancelled \cup {t}
  /\ future' = [future EXCEPT ![t] = IF @ = "pending" THEN "cancelled" ELSE @]
  /\ UNCHANGED <<registry, users, locked, held, entry, depth, taken, want, queuedOn, ahead>>

\* `except CancelledError: if not self._locked: self._wake_up_first()`.
PassOn(t) == {Awaited(t)} \ locked

\* The CancelledError arrives: the task leaves the queue, wakes the next if the
\* lock was free or meant for it, and unwinds what the block had taken.
Unwind(t) ==
  LET mine == taken[t][depth[t]] IN
  /\ Queued(t) /\ t \in cancelled
  /\ Unlock(t)
  /\ Forget(t, mine \cup {queuedOn[t]})
  /\ future' = Woken({entry[t][d] : d \in mine} \cup PassOn(t), t)
  /\ queuedOn' = [queuedOn EXCEPT ![t] = NoDir]
  /\ ahead' = Dequeued(t)
  /\ cancelled' = cancelled \ {t}

-----------------------------------------------------------------------------

Step(t) ==
  \/ \E d \in Dirs, l \in Locks : Take(t, d, l) \/ Wait(t, d, l)
  \/ Resume(t) \/ Unwind(t) \/ Leave(t)

Next ==
  \E t \in Tasks :
    \/ \E dirs \in SUBSET (Dirs \cup {NoDir}) : Enter(t, dirs)
    \/ Cancel(t)
    \/ Step(t)

Spec == Init /\ [][Next]_vars

\* The event loop runs every task that can run.  The body of an outermost
\* block ends however often it enters another, if each of those ends: `rename`
\* calls `purge` once, and an await in it that is not for a lock is a database or
\* Discord call that returns or raises.
FairSpec ==
  /\ Spec
  /\ \A t \in Tasks : WF_vars(Step(t))
  /\ \A t \in Nesting : SF_vars(depth[t] = 1 /\ Leave(t))

-----------------------------------------------------------------------------
(* Properties.                                                             *)

\* A directory is in the hands of one task at a time, which is what lets it have
\* an owner.
MutualExclusion ==
  \A t, u \in Tasks : t # u => held[t] \cap held[u] = {}

\* "Counted before the await, so a lock somebody is queued behind is never
\* dropped from the registry out from under them": whoever holds or queues for
\* a directory does so on the one object the registry has for it.
RegistryServesEveryUser ==
  \A t \in Tasks, d \in Dirs : entry[t][d] # NoLock => registry[d] = entry[t][d]

\* tests/test_concurrent_writes.py `test_the_lock_registry_does_not_grow`: what
\* is registered is wanted, and a task outside every block holds nothing.
RegistryDoesNotGrow ==
  /\ \A d \in Dirs : registry[d] # NoLock =>
       \E t \in Tasks : depth[t] > 0 /\ entry[t][d] = registry[d]
  /\ \A t \in Tasks : depth[t] = 0 => held[t] = {}

\* Two tasks queued for one directory get it in the order they asked for it:
\* nobody takes it past a task that was not cancelled.
NoOvertaking ==
  [][\A t, u \in Tasks, d \in Dirs :
       /\ d \in held'[t] \ held[t]
       /\ u # t /\ queuedOn[u] = d /\ u \notin cancelled
       => t \in ahead[u]]_vars

Owner(d) ==
  IF \E t \in Tasks : d \in held[t] THEN CHOOSE t \in Tasks : d \in held[t] ELSE NoTask

\* The block its owner took a directory in.
Block(d) ==
  IF Owner(d) = NoTask THEN 0 ELSE CHOOSE k \in 1 .. MaxDepth : d \in taken[Owner(d)][k]

Mutex == INSTANCE DirMutex WITH Levels <- 1 .. MaxDepth,
                                owner <- [d \in Dirs |-> Owner(d)],
                                block <- [d \in Dirs |-> Block(d)]

\* The registry of locks implements one lock per directory, which the blocks of a
\* task take in order and give back innermost first.
ImplementsMutex == Mutex!Spec /\ []MutualExclusion

\* Each of S is queued for a directory that another of S holds, and none of them
\* was cancelled: without help from outside they wait for ever, those who only wait
\* behind the others with them.
Circle(S) ==
  \A t \in S :
    /\ Queued(t) /\ t \notin cancelled
    /\ \E u \in S \ {t} : queuedOn[t] \in held[u]

\* "Several ids are taken in sorted order so two callers ... cannot each hold what
\* the other wants": in every circle there is a task that asks, in a block inside
\* another, for a directory below one it has from outside; sorted blocks that are
\* not nested never make one.
OnlyNestingEntangles ==
  \A S \in SUBSET Tasks :
    S # {} /\ Circle(S) => \E t \in S : depth[t] > 1 /\ \E e \in held[t] : queuedOn[t] < e

\* "so they queue instead": a task that wants directories gets the last of them,
\* unless it is cancelled or among those that wait for each other.
EveryCallerGetsIn ==
  \A t \in Tasks :
    want[t] # {} ~> want[t] = {} \/ \E S \in SUBSET Tasks : t \in S /\ Circle(S)
=============================================================================
