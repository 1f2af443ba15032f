--------------------------- MODULE DirLocksProofs ---------------------------
(***************************************************************************)
(* The lock registry of `_locked_dirs` is one lock per directory, for any  *)
(* number of tasks, directories, lock objects and nested blocks, and any   *)
(* cancellations.                                                          *)
(***************************************************************************)
EXTENDS DirLocks, FiniteSetTheorems, WellFoundedInduction, TLAPS

\* The blocks of a task share out what it holds, and the innermost takes its
\* directories in ascending order; while the task is queued, it is for the least
\* it still wants.
Blocks ==
  \A t \in Tasks :
    /\ Queued(t) => NextWanted(t, queuedOn[t])
    /\ want[t] # {} => depth[t] > 0
    /\ \A d \in want[t] : d \notin held[t]
    /\ \A d \in Dirs : d \in held[t] <=> \E k \in 1 .. MaxDepth : d \in taken[t][k]
    /\ \A j, k \in 1 .. MaxDepth : taken[t][j] \cap taken[t][k] # {} => j = k
    /\ \A k \in 1 .. MaxDepth : k > depth[t] => taken[t][k] = {}
    /\ \A e \in taken[t][depth[t]], d \in want[t] : e < d

\* A task is counted on the locks it holds and on the one it is queued for.
Counted ==
  \A t \in Tasks, d \in Dirs :
    entry[t][d] # NoLock <=> d \in held[t] \/ queuedOn[t] = d

\* No lock object is registered for two directories.
Distinct ==
  \A d, e \in Dirs : registry[d] # NoLock /\ registry[d] = registry[e] => d = e

\* `users` of a registered lock is the number of tasks counted on it, and there
\* is one.
Users(d) == {t \in Tasks : entry[t][d] # NoLock}
Tally ==
  \A d \in Dirs : registry[d] # NoLock =>
    Users(d) # {} /\ users[registry[d]] = Cardinality(Users(d))

\* A lock that is held has its flag set.
Flagged == \A t \in Tasks : \A d \in held[t] : entry[t][d] \in locked

\* A task awaits a future while it is queued; one that was resolved is at the
\* head of the queue of a lock that is free.
Awaiting ==
  \A t \in Tasks :
    /\ future[t] # "none" <=> Queued(t)
    /\ future[t] = "cancelled" => t \in cancelled
    /\ future[t] = "result" => ahead[t] = {} /\ Awaited(t) \notin locked

\* Of two tasks queued for one directory, one is ahead of the other.
Lined ==
  \A t \in Tasks :
    /\ \A u \in ahead[t] : u # t /\ Queued(t) /\ queuedOn[u] = queuedOn[t]
    /\ \A u \in Tasks : u # t /\ Queued(t) /\ queuedOn[u] = queuedOn[t]
                          => u \in ahead[t] \/ t \in ahead[u]

IInv ==
  /\ TypeOK /\ Blocks /\ Counted /\ RegistryServesEveryUser /\ Distinct /\ Tally
  /\ MutualExclusion /\ Flagged /\ Awaiting /\ Lined

-----------------------------------------------------------------------------
(* Registering with a lock, and forgetting it.                             *)

\* A task wants directories only in a block.
LEMMA WantsInBlock ==
  ASSUME IInv, NEW t \in Tasks, want[t] # {}
  PROVE  depth[t] \in 1 .. MaxDepth
  <1>1. depth[t] \in 0 .. MaxDepth /\ depth[t] > 0
    BY DEF IInv, TypeOK, Blocks
  <1> QED
    BY <1>1, DepthAssumption

\* What a task that holds nothing of d, or queues for it, is counted on.
LEMMA Fresh ==
  ASSUME IInv, NEW t \in Tasks, NEW d \in Dirs, ~Queued(t), NextWanted(t, d)
  PROVE  entry[t][d] = NoLock /\ d \notin held[t] /\ depth[t] \in 1 .. MaxDepth /\ d # NoDir
  <1>1. d \in want[t] /\ want[t] # {} /\ d \in Nat /\ d # NoDir
    BY DirsAssumption DEF NextWanted, NoDir
  <1>2. d \notin held[t]
    BY <1>1 DEF IInv, Blocks
  <1>3. queuedOn[t] # d
    BY <1>1 DEF Queued
  <1>4. depth[t] \in 1 .. MaxDepth
    BY <1>1, WantsInBlock
  <1> QED
    BY <1>1, <1>2, <1>3, <1>4 DEF IInv, Counted

\* The lock a task registers with is the one every other user of the directory
\* has, and no user of another directory has it.
LEMMA EntryIsOwn ==
  ASSUME IInv, NEW d \in Dirs, NEW l \in Locks, EntryFor(d, l)
  PROVE  /\ \A u \in Tasks : entry[u][d] # NoLock => entry[u][d] = l
         /\ \A u \in Tasks, e \in Dirs : entry[u][e] = l => e = d
         /\ \A e \in Dirs : registry[e] = l => e = d
  <1>1. l # NoLock
    BY LocksAssumption
  <1>2. CASE registry[d] # NoLock
    <2>1. l = registry[d]
      BY <1>2 DEF EntryFor
    <2> QED
      BY <1>1, <2>1 DEF IInv, RegistryServesEveryUser, Distinct
  <1>3. CASE registry[d] = NoLock
    <2>1. Unreferenced(l)
      BY <1>3 DEF EntryFor
    <2>2. \A u \in Tasks : entry[u][d] = NoLock
      BY <1>3 DEF IInv, RegistryServesEveryUser
    <2> QED
      BY <2>1, <2>2 DEF Unreferenced
  <1> QED
    BY <1>2, <1>3

\* What a task that registers with a lock keeps of the registry.
LEMMA RegisterInv ==
  ASSUME IInv, NEW t \in Tasks, NEW d \in Dirs, NEW l \in Locks, Register(t, d, l)
  PROVE  /\ registry' \in [Dirs -> Locks \cup {NoLock}]
         /\ users' \in [Locks -> Nat]
         /\ entry' \in [Tasks -> [Dirs -> Locks \cup {NoLock}]]
         /\ RegistryServesEveryUser' /\ Distinct' /\ Tally'
  <1> USE DEF IInv
  <1>1. entry[t][d] = NoLock
    BY Fresh DEF Register
  <1>2. /\ \A u \in Tasks : entry[u][d] # NoLock => entry[u][d] = l
        /\ \A e \in Dirs : registry[e] = l => e = d
    BY EntryIsOwn DEF Register
  <1>3. l # NoLock
    BY LocksAssumption
  <1>4. /\ registry' = [registry EXCEPT ![d] = l]
        /\ users' = [users EXCEPT ![l] = IF registry[d] = NoLock THEN 1 ELSE @ + 1]
        /\ entry' = [entry EXCEPT ![t][d] = l]
    BY DEF Register
  <1>5. /\ registry' \in [Dirs -> Locks \cup {NoLock}]
        /\ users' \in [Locks -> Nat]
        /\ entry' \in [Tasks -> [Dirs -> Locks \cup {NoLock}]]
    BY <1>4 DEF TypeOK
  <1>6. /\ registry'[d] = l
        /\ \A e \in Dirs : e # d => registry'[e] = registry[e]
    BY <1>4 DEF TypeOK
  <1>7. /\ entry'[t][d] = l
        /\ \A u \in Tasks, e \in Dirs : u # t \/ e # d => entry'[u][e] = entry[u][e]
    BY <1>4 DEF TypeOK
  <1>8. RegistryServesEveryUser'
    BY <1>2, <1>6, <1>7 DEF RegistryServesEveryUser
  <1>9. Distinct'
    BY <1>2, <1>6 DEF Distinct
  <1>10. Tally'
    <2> SUFFICES ASSUME NEW e \in Dirs, registry'[e] # NoLock
                 PROVE  Users(e)' # {} /\ users'[registry'[e]] = Cardinality(Users(e)')
      BY DEF Tally
    <2>1. CASE e # d
      <3>1. Users(e)' = Users(e)
        BY <1>7, <2>1 DEF Users
      <3>2. registry'[e] = registry[e] /\ registry[e] # l
        BY <1>2, <1>6, <2>1
      <3>3. users'[registry[e]] = users[registry[e]]
        BY <1>4, <3>2 DEF TypeOK
      <3> QED
        BY <3>1, <3>2, <3>3 DEF Tally
    <2>2. CASE e = d
      <3>1. Users(d)' = Users(d) \cup {t} /\ t \notin Users(d)
        BY <1>1, <1>3, <1>7 DEF Users
      <3>2. IsFiniteSet(Users(d))
        BY TasksAssumption, FS_Subset DEF Users
      <3>3. Cardinality(Users(d)') = Cardinality(Users(d)) + 1
        BY <3>1, <3>2, FS_AddElement
      <3>4. CASE registry[d] = NoLock
        <4>1. Users(d) = {}
          BY <3>4 DEF Users, RegistryServesEveryUser
        <4>2. Cardinality(Users(d)) = 0
          BY <4>1, FS_EmptySet
        <4>3. users'[l] = 1
          BY <1>4, <3>4 DEF TypeOK
        <4> QED
          BY <1>6, <2>2, <3>1, <3>3, <4>2, <4>3
      <3>5. CASE registry[d] # NoLock
        <4>1. l = registry[d]
          BY <3>5 DEF Register, EntryFor
        <4>2. users'[l] = users[l] + 1
          BY <1>4, <3>5 DEF TypeOK
        <4>3. users[l] = Cardinality(Users(d))
          BY <3>5, <4>1 DEF Tally
        <4> QED
          BY <1>6, <2>2, <3>1, <3>3, <4>2, <4>3
      <3> QED
        BY <3>4, <3>5
    <2> QED
      BY <2>1, <2>2
  <1> QED
    BY <1>5, <1>8, <1>9, <1>10

\* What a task keeps of the registry that forgets locks it is counted on.
LEMMA ForgetInv ==
  ASSUME IInv, NEW t \in Tasks, NEW S \in SUBSET Dirs, Forget(t, S),
         \A d \in S : entry[t][d] # NoLock
  PROVE  /\ registry' \in [Dirs -> Locks \cup {NoLock}]
         /\ users' \in [Locks -> Nat]
         /\ entry' \in [Tasks -> [Dirs -> Locks \cup {NoLock}]]
         /\ RegistryServesEveryUser' /\ Distinct' /\ Tally'
  <1> USE DEF IInv
  <1>1. /\ users' = [l \in Locks |->
                      IF \E d \in S : entry[t][d] = l THEN users[l] - 1 ELSE users[l]]
        /\ entry' = [entry EXCEPT ![t] = [d \in Dirs |-> IF d \in S THEN NoLock ELSE @[d]]]
        /\ registry' = [d \in Dirs |->
                    IF d \in S /\ registry[d] = entry[t][d] /\ users[entry[t][d]] = 1
                    THEN NoLock ELSE registry[d]]
    BY DEF Forget, Discount
  <1>2. \A d \in S : registry[d] = entry[t][d] /\ registry[d] \in Locks
    BY DEF RegistryServesEveryUser, TypeOK
  <1>3. \A d \in Dirs : registry[d] # NoLock =>
          /\ IsFiniteSet(Users(d)) /\ Users(d) # {}
          /\ users[registry[d]] = Cardinality(Users(d))
    BY TasksAssumption, FS_Subset DEF Users, Tally
  <1>4. \A d \in S : t \in Users(d) /\ IsFiniteSet(Users(d))
                     /\ users[registry[d]] = Cardinality(Users(d))
    BY <1>2, <1>3, LocksAssumption DEF Users
  <1>5. \A d \in S : users[registry[d]] # 0
    BY <1>4, FS_EmptySet
  <1>6. users' \in [Locks -> Nat]
    BY <1>1, <1>2, <1>5 DEF TypeOK
  <1>7. registry' \in [Dirs -> Locks \cup {NoLock}]
    BY <1>1 DEF TypeOK
  <1>8. entry' \in [Tasks -> [Dirs -> Locks \cup {NoLock}]]
    BY <1>1 DEF TypeOK
  <1>9. /\ \A d \in Dirs : entry'[t][d] = IF d \in S THEN NoLock ELSE entry[t][d]
        /\ \A u \in Tasks : u # t => entry'[u] = entry[u]
    BY <1>1 DEF TypeOK
  <1>10. \A d \in Dirs : registry'[d] =
           IF d \in S /\ users[registry[d]] = 1 THEN NoLock ELSE registry[d]
    BY <1>1, <1>2
  <1>11. RegistryServesEveryUser'
    <2> SUFFICES ASSUME NEW u \in Tasks, NEW d \in Dirs, entry'[u][d] # NoLock
                 PROVE  registry'[d] = entry'[u][d]
      BY DEF RegistryServesEveryUser
    <2>1. entry'[u][d] = entry[u][d] /\ registry[d] = entry[u][d]
      BY <1>9 DEF RegistryServesEveryUser
    <2>2. CASE d \in S
      <3>1. u # t /\ u \in Users(d)
        BY <1>9, <2>1, <2>2 DEF Users
      <3>2. Cardinality(Users(d)) # 1
        BY <1>4, <2>2, <3>1, FS_Singleton
      <3> QED
        BY <1>4, <1>10, <2>1, <2>2, <3>2
    <2> QED
      BY <1>10, <2>1, <2>2
  <1>12. Distinct'
    BY <1>10 DEF Distinct
  <1>13. Tally'
    <2> SUFFICES ASSUME NEW e \in Dirs, registry'[e] # NoLock
                 PROVE  Users(e)' # {} /\ users'[registry'[e]] = Cardinality(Users(e)')
      BY DEF Tally
    <2>1. registry'[e] = registry[e] /\ registry[e] \in Locks
      BY <1>10 DEF TypeOK
    <2>2. CASE e \notin S
      <3>1. Users(e)' = Users(e)
        BY <1>9, <2>2 DEF Users
      <3>2. ~\E d \in S : entry[t][d] = registry[e]
        BY <1>2, <2>1, <2>2, LocksAssumption DEF Distinct
      <3>3. users'[registry[e]] = users[registry[e]]
        BY <1>1, <2>1, <3>2
      <3> QED
        BY <1>3, <2>1, <3>1, <3>3, LocksAssumption
    <2>3. CASE e \in S
      <3>1. Users(e)' = Users(e) \ {t}
        BY <1>9, <2>3 DEF Users
      <3>2. Cardinality(Users(e)') = Cardinality(Users(e)) - 1
        BY <1>4, <2>3, <3>1, FS_RemoveElement
      <3>3. users[registry[e]] # 1
        BY <1>10, <2>1, <2>3
      <3>4. Cardinality(Users(e)') # 0
        BY <1>4, <2>1, <2>3, <3>2, <3>3 DEF TypeOK
      <3>5. Users(e)' # {}
        BY <3>4, FS_EmptySet
      <3>6. users'[registry[e]] = users[registry[e]] - 1
        BY <1>1, <1>2, <2>1, <2>3
      <3> QED
        BY <1>4, <2>1, <2>3, <3>2, <3>5, <3>6
    <2> QED
      BY <2>2, <2>3
  <1> QED
    BY <1>6, <1>7, <1>8, <1>11, <1>12, <1>13

-----------------------------------------------------------------------------
(* What the actions have in common.                                        *)

\* Tasks counted on one lock are counted on it for one directory.
LEMMA OneLock ==
  ASSUME IInv, NEW t \in Tasks, NEW u \in Tasks, NEW d \in Dirs, NEW e \in Dirs,
         entry[t][d] # NoLock, entry[t][d] = entry[u][e]
  PROVE  d = e
  BY DEF IInv, RegistryServesEveryUser, Distinct

\* A queued task is in a block, and counted on a lock of the directory.
LEMMA QueuedFacts ==
  ASSUME IInv, NEW t \in Tasks, Queued(t)
  PROVE  /\ queuedOn[t] \in Dirs /\ queuedOn[t] \in want[t] /\ queuedOn[t] \notin held[t]
         /\ depth[t] \in 1 .. MaxDepth
         /\ Awaited(t) \in Locks /\ Awaited(t) # NoLock
  <1>1. queuedOn[t] \in Dirs /\ queuedOn[t] \in want[t] /\ queuedOn[t] \notin held[t]
    BY DEF IInv, TypeOK, Blocks, NextWanted, Queued
  <1>2. depth[t] \in 1 .. MaxDepth
    BY <1>1, WantsInBlock
  <1>3. entry[t][queuedOn[t]] # NoLock
    BY <1>1 DEF IInv, Counted
  <1> QED
    BY <1>1, <1>2, <1>3 DEF IInv, TypeOK, Awaited

\* A task outside every block holds nothing.
LEMMA OutsideHoldsNothing ==
  ASSUME IInv, NEW t \in Tasks, depth[t] = 0
  PROVE  held[t] = {}
  <1>1. \A k \in 1 .. MaxDepth : taken[t][k] = {}
    BY DepthAssumption DEF IInv, Blocks
  <1>2. held[t] \subseteq Dirs
    BY DEF IInv, TypeOK
  <1> QED
    BY <1>1, <1>2 DEF IInv, Blocks

\* Nobody holds a directory whose lock is free.
LEMMA FreeMeansUnheld ==
  ASSUME IInv, NEW t \in Tasks, NEW d \in Dirs, NEW l \in Locks, l \notin locked,
         EntryFor(d, l)
  PROVE  d \notin held[t]
  <1> SUFFICES ASSUME d \in held[t] PROVE FALSE
    OBVIOUS
  <1>1. entry[t][d] # NoLock /\ entry[t][d] \in locked
    BY DEF IInv, Counted, Flagged
  <1>2. entry[t][d] = l
    BY <1>1, EntryIsOwn
  <1> QED
    BY <1>1, <1>2

\* Who is queued on the lock of a directory is queued for that directory.
LEMMA QueueOf ==
  ASSUME IInv, NEW u \in Tasks, NEW d \in Dirs, NEW l \in Locks, EntryFor(d, l)
  PROVE  u \in Queue(l) <=> queuedOn[u] = d
  <1>1. d # NoDir
    BY DirsAssumption DEF NoDir
  <1>2. ASSUME u \in Queue(l) PROVE queuedOn[u] = d
    <2>1. Queued(u) /\ entry[u][queuedOn[u]] = l
      BY <1>2 DEF Queue, Awaited
    <2> QED
      BY <2>1, QueuedFacts, EntryIsOwn
  <1>3. ASSUME queuedOn[u] = d PROVE u \in Queue(l)
    <2>1. Queued(u) /\ entry[u][d] # NoLock
      BY <1>1, <1>3 DEF Queued, IInv, Counted
    <2> QED
      BY <1>3, <2>1, EntryIsOwn DEF Queue, Awaited
  <1> QED
    BY <1>2, <1>3

\* A task that stays as it is keeps its part of Blocks.
BlocksOf(t) ==
  /\ Queued(t) => NextWanted(t, queuedOn[t])
  /\ want[t] # {} => depth[t] > 0
  /\ \A d \in want[t] : d \notin held[t]
  /\ \A d \in Dirs : d \in held[t] <=> \E k \in 1 .. MaxDepth : d \in taken[t][k]
  /\ \A j, k \in 1 .. MaxDepth : taken[t][j] \cap taken[t][k] # {} => j = k
  /\ \A k \in 1 .. MaxDepth : k > depth[t] => taken[t][k] = {}
  /\ \A e \in taken[t][depth[t]], d \in want[t] : e < d

LEMMA OthersKeep ==
  ASSUME Blocks, NEW t \in Tasks, BlocksOf(t)',
         \A u \in Tasks : u # t =>
           /\ depth'[u] = depth[u] /\ taken'[u] = taken[u] /\ want'[u] = want[u]
           /\ held'[u] = held[u] /\ queuedOn'[u] = queuedOn[u]
  PROVE  Blocks'
  <1> SUFFICES ASSUME NEW u \in Tasks PROVE BlocksOf(u)'
    BY DEF Blocks, BlocksOf
  <1>1. CASE u = t
    BY <1>1
  <1>2. CASE u # t
    BY <1>2 DEF Blocks, BlocksOf, Queued, NextWanted
  <1> QED
    BY <1>1, <1>2

\* The innermost block takes the next directory.
LEMMA HoldKeepsBlocks ==
  ASSUME IInv, NEW t \in Tasks, NEW d \in Dirs, NEW l, NextWanted(t, d), Hold(t, d, l),
         depth' = depth, queuedOn'[t] = NoDir,
         \A u \in Tasks : u # t => queuedOn'[u] = queuedOn[u]
  PROVE  Blocks' /\ taken' \in [Tasks -> [1 .. MaxDepth -> SUBSET Dirs]]
  <1>1. /\ d \in want[t] /\ d \notin held[t] /\ \A f \in want[t] : d <= f
        /\ depth[t] \in 1 .. MaxDepth
    BY WantsInBlock DEF IInv, Blocks, NextWanted
  <1>2. /\ held' = [held EXCEPT ![t] = @ \cup {d}]
        /\ taken' = [taken EXCEPT ![t][depth[t]] = @ \cup {d}]
        /\ want' = [want EXCEPT ![t] = @ \ {d}]
    BY DEF Hold
  <1>3. taken[t] \in [1 .. MaxDepth -> SUBSET Dirs]
    BY DEF IInv, TypeOK
  <1>4. /\ \A k \in 1 .. MaxDepth :
              taken'[t][k] = IF k = depth[t] THEN taken[t][k] \cup {d} ELSE taken[t][k]
        /\ taken' \in [Tasks -> [1 .. MaxDepth -> SUBSET Dirs]]
    <2>1. taken'[t] = [taken[t] EXCEPT ![depth[t]] = @ \cup {d}]
      BY <1>2 DEF IInv, TypeOK
    <2>2. taken[t][depth[t]] \cup {d} \in SUBSET Dirs
      BY <1>1, <1>3
    <2>3. taken'[t] \in [1 .. MaxDepth -> SUBSET Dirs]
      BY <1>3, <2>1, <2>2
    <2> QED
      BY <1>1, <1>2, <1>3, <2>1, <2>3 DEF IInv, TypeOK
  <1>5. held'[t] = held[t] \cup {d} /\ want'[t] = want[t] \ {d} /\ depth'[t] = depth[t]
    BY <1>2 DEF IInv, TypeOK
  <1>6. \A k \in 1 .. MaxDepth : d \notin taken[t][k]
    BY <1>1 DEF IInv, Blocks
  <1>7. BlocksOf(t)'
    <2>1. ~Queued(t)'
      BY DEF Queued
    <2>2. /\ want'[t] # {} => depth'[t] > 0
          /\ \A f \in want'[t] : f \notin held'[t]
      BY <1>1, <1>5 DEF IInv, Blocks
    <2>3. ASSUME NEW e \in Dirs
          PROVE  e \in held'[t] <=> \E k \in 1 .. MaxDepth : e \in taken'[t][k]
      <3>1. e \in held[t] <=> \E k \in 1 .. MaxDepth : e \in taken[t][k]
        BY DEF IInv, Blocks
      <3>2. e = d => e \in taken'[t][depth[t]] /\ e \in held'[t]
        BY <1>1, <1>4, <1>5
      <3>3. e # d => /\ e \in held'[t] <=> e \in held[t]
                     /\ \A k \in 1 .. MaxDepth : e \in taken'[t][k] <=> e \in taken[t][k]
        BY <1>4, <1>5
      <3> QED
        BY <1>1, <3>1, <3>2, <3>3
    <2>4. ASSUME NEW j \in 1 .. MaxDepth, NEW k \in 1 .. MaxDepth, j # k
          PROVE  taken'[t][j] \cap taken'[t][k] = {}
      <3>1. taken[t][j] \cap taken[t][k] = {}
        BY <2>4 DEF IInv, Blocks
      <3> QED
        BY <1>4, <1>6, <2>4, <3>1
    <2>5. ASSUME NEW k \in 1 .. MaxDepth, k > depth'[t] PROVE taken'[t][k] = {}
      <3>1. k > depth[t] /\ k # depth[t]
        BY <1>1, <1>5, <2>5, DepthAssumption
      <3> QED
        BY <1>4, <3>1 DEF IInv, Blocks
    <2>6. ASSUME NEW e \in taken'[t][depth'[t]], NEW f \in want'[t] PROVE e < f
      <3>1. f \in want[t] /\ f # d /\ d <= f /\ f \in Nat /\ d \in Nat
        BY <1>1, <1>5, <2>6, DirsAssumption DEF IInv, TypeOK
      <3>2. e = d \/ e \in taken[t][depth[t]]
        BY <1>1, <1>4, <1>5, <2>6
      <3> QED
        BY <3>1, <3>2 DEF IInv, Blocks
    <2> QED
      BY <2>1, <2>2, <2>3, <2>4, <2>5, <2>6 DEF BlocksOf
  <1>8. \A u \in Tasks : u # t =>
          /\ depth'[u] = depth[u] /\ taken'[u] = taken[u] /\ want'[u] = want[u]
          /\ held'[u] = held[u] /\ queuedOn'[u] = queuedOn[u]
    BY <1>2 DEF IInv, TypeOK
  <1> QED
    BY <1>4, <1>7, <1>8, OthersKeep DEF IInv

\* The innermost block is left.
LEMMA UnlockKeepsBlocks ==
  ASSUME IInv, NEW t \in Tasks, Unlock(t), depth[t] \in 1 .. MaxDepth, queuedOn'[t] = NoDir,
         \A u \in Tasks : u # t => queuedOn'[u] = queuedOn[u]
  PROVE  /\ Blocks' /\ taken' \in [Tasks -> [1 .. MaxDepth -> SUBSET Dirs]]
         /\ depth' \in [Tasks -> 0 .. MaxDepth]
         /\ taken[t][depth[t]] \subseteq held[t] /\ taken[t][depth[t]] \subseteq Dirs
  <1>1. /\ held' = [held EXCEPT ![t] = @ \ taken[t][depth[t]]]
        /\ taken' = [taken EXCEPT ![t][depth[t]] = {}]
        /\ depth' = [depth EXCEPT ![t] = @ - 1]
        /\ want' = [want EXCEPT ![t] = {}]
    BY DEF Unlock
  <1>2. taken[t] \in [1 .. MaxDepth -> SUBSET Dirs]
    BY DEF IInv, TypeOK
  <1>3. /\ \A k \in 1 .. MaxDepth : taken'[t][k] = IF k = depth[t] THEN {} ELSE taken[t][k]
        /\ taken' \in [Tasks -> [1 .. MaxDepth -> SUBSET Dirs]]
    <2>1. taken'[t] = [taken[t] EXCEPT ![depth[t]] = {}]
      BY <1>1 DEF IInv, TypeOK
    <2>2. taken'[t] \in [1 .. MaxDepth -> SUBSET Dirs]
      BY <1>2, <2>1
    <2> QED
      BY <1>1, <1>2, <2>1, <2>2 DEF IInv, TypeOK
  <1>4. /\ held'[t] = held[t] \ taken[t][depth[t]] /\ want'[t] = {}
        /\ depth'[t] = depth[t] - 1 /\ depth' \in [Tasks -> 0 .. MaxDepth]
    <2>1. depth[t] - 1 \in 0 .. MaxDepth
      BY DepthAssumption
    <2> QED
      BY <1>1, <2>1 DEF IInv, TypeOK
  <1>5. taken[t][depth[t]] \subseteq held[t] /\ taken[t][depth[t]] \subseteq Dirs
    BY <1>2 DEF IInv, Blocks
  <1>6. BlocksOf(t)'
    <2>1. ~Queued(t)'
      BY DEF Queued
    <2>2. ASSUME NEW e \in Dirs
          PROVE  e \in held'[t] <=> \E k \in 1 .. MaxDepth : e \in taken'[t][k]
      <3>1. e \in held[t] <=> \E k \in 1 .. MaxDepth : e \in taken[t][k]
        BY DEF IInv, Blocks
      <3>2. \A k \in 1 .. MaxDepth : e \in taken[t][k] /\ e \in taken[t][depth[t]] => k = depth[t]
        BY DEF IInv, Blocks
      <3> QED
        BY <1>3, <1>4, <3>1, <3>2
    <2>3. \A j, k \in 1 .. MaxDepth : taken'[t][j] \cap taken'[t][k] # {} => j = k
      <3>1. \A j \in 1 .. MaxDepth : taken'[t][j] \subseteq taken[t][j]
        BY <1>3
      <3> QED
        BY <3>1 DEF IInv, Blocks
    <2>4. \A k \in 1 .. MaxDepth : k > depth'[t] => taken'[t][k] = {}
      BY <1>3, <1>4, DepthAssumption DEF IInv, Blocks
    <2> QED
      BY <1>4, <2>1, <2>2, <2>3, <2>4 DEF BlocksOf
  <1>7. \A u \in Tasks : u # t =>
          /\ depth'[u] = depth[u] /\ taken'[u] = taken[u] /\ want'[u] = want[u]
          /\ held'[u] = held[u] /\ queuedOn'[u] = queuedOn[u]
    BY <1>1 DEF IInv, TypeOK
  <1> QED
    BY <1>3, <1>4, <1>5, <1>6, <1>7, OthersKeep DEF IInv

-----------------------------------------------------------------------------
(* The invariant.                                                          *)

LEMMA InitInv == Init => IInv
  <1> SUFFICES ASSUME Init PROVE IInv
    OBVIOUS
  <1> USE DEF Init
  <1>1. TypeOK
    BY DepthAssumption DEF TypeOK, Futures
  <1>2. Blocks
    BY DEF Blocks, Queued
  <1>3. Counted
    BY DirsAssumption DEF Counted, NoDir
  <1>4. RegistryServesEveryUser /\ Distinct /\ Tally /\ MutualExclusion /\ Flagged
    BY DEF RegistryServesEveryUser, Distinct, Tally, MutualExclusion, Flagged
  <1>5. Awaiting /\ Lined
    BY DEF Awaiting, Lined, Queued
  <1> QED
    BY <1>1, <1>2, <1>3, <1>4, <1>5 DEF IInv

LEMMA EnterInv ==
  ASSUME IInv, NEW t \in Tasks, NEW dirs \in SUBSET (Dirs \cup {NoDir}), Enter(t, dirs)
  PROVE  IInv'
  <1> USE DEF IInv
  <1>1. /\ depth[t] \in 0 .. MaxDepth /\ depth[t] < MaxDepth
        /\ depth' = [depth EXCEPT ![t] = @ + 1]
        /\ taken' = [taken EXCEPT ![t][depth[t] + 1] = {}]
        /\ want' = [want EXCEPT ![t] = (dirs \ {NoDir}) \ held[t]]
        /\ want[t] = {}
        /\ UNCHANGED <<registry, users, locked, held, entry, queuedOn, ahead, future,
                       cancelled>>
    <2>1. want[t] = {}
      <3>1. depth[t] = 0 => want[t] = {}
        BY DEF Blocks
      <3> QED
        BY <3>1 DEF Enter, InBody
    <2> QED
      BY <2>1 DEF Enter, Wanted, TypeOK
  <1>2. depth[t] + 1 \in 1 .. MaxDepth /\ depth'[t] = depth[t] + 1
    BY <1>1, DepthAssumption DEF TypeOK
  <1>3. taken[t] \in [1 .. MaxDepth -> SUBSET Dirs]
    BY DEF TypeOK
  <1>4. taken[t][depth[t] + 1] = {}
    BY <1>1, <1>2 DEF Blocks
  <1>5. taken' = taken
    <2>1. [taken[t] EXCEPT ![depth[t] + 1] = {}] = taken[t]
      BY <1>2, <1>3, <1>4
    <2>2. taken' = [taken EXCEPT ![t] = taken[t]]
      BY <1>1, <2>1
    <2> QED
      BY <2>2 DEF TypeOK
  <1>6. TypeOK'
    BY <1>1, <1>2, <1>5 DEF TypeOK
  <1>7. Blocks'
    <2>1. ~Queued(t)'
      BY <1>1 DEF Blocks, Queued, NextWanted
    <2>2. want'[t] = (dirs \ {NoDir}) \ held[t] /\ held'[t] = held[t]
      BY <1>1 DEF TypeOK
    <2>3. \A k \in 1 .. MaxDepth : k > depth'[t] => taken'[t][k] = {}
      BY <1>1, <1>2, <1>5 DEF Blocks
    <2>4. taken'[t][depth'[t]] = {}
      BY <1>2, <1>4, <1>5
    <2>5. BlocksOf(t)'
      BY <1>1, <1>2, <1>5, <2>1, <2>2, <2>3, <2>4 DEF Blocks, BlocksOf
    <2>6. \A u \in Tasks : u # t =>
            /\ depth'[u] = depth[u] /\ taken'[u] = taken[u] /\ want'[u] = want[u]
            /\ held'[u] = held[u] /\ queuedOn'[u] = queuedOn[u]
      BY <1>1 DEF TypeOK
    <2> QED
      BY <2>5, <2>6, OthersKeep
  <1>8. Counted' /\ RegistryServesEveryUser' /\ Distinct' /\ Tally' /\ MutualExclusion' /\ Flagged'
    BY <1>1 DEF Counted, RegistryServesEveryUser, Distinct, Tally, Users, MutualExclusion, Flagged
  <1>9. Awaiting' /\ Lined'
    BY <1>1 DEF Awaiting, Lined, Queued, Awaited
  <1> QED
    BY <1>6, <1>7, <1>8, <1>9

LEMMA TakeInv ==
  ASSUME IInv, NEW t \in Tasks, NEW d \in Dirs, NEW l \in Locks, Take(t, d, l)
  PROVE  IInv'
  <1> USE DEF IInv
  <1>1. Register(t, d, l) /\ ~Queued(t) /\ NextWanted(t, d) /\ EntryFor(d, l)
    BY DEF Take, Register
  <1>2. entry[t][d] = NoLock /\ d \notin held[t] /\ depth[t] \in 1 .. MaxDepth /\ d # NoDir
    BY <1>1, Fresh
  <1>3. /\ locked' = locked \cup {l}
        /\ held' = [held EXCEPT ![t] = @ \cup {d}]
        /\ taken' = [taken EXCEPT ![t][depth[t]] = @ \cup {d}]
        /\ want' = [want EXCEPT ![t] = @ \ {d}]
        /\ UNCHANGED <<depth, queuedOn, ahead, future, cancelled>>
    BY <1>2 DEF Take, Hold
  <1>4. /\ entry'[t][d] = l /\ l # NoLock
        /\ \A u \in Tasks, e \in Dirs : u # t \/ e # d => entry'[u][e] = entry[u][e]
    BY <1>1, LocksAssumption DEF Register, TypeOK
  <1>5. /\ held'[t] = held[t] \cup {d}
        /\ \A u \in Tasks : u # t => held'[u] = held[u]
    BY <1>3 DEF TypeOK
  <1>7. Blocks' /\ taken' \in [Tasks -> [1 .. MaxDepth -> SUBSET Dirs]]
    <2>1. Hold(t, d, l) /\ queuedOn'[t] = NoDir
      BY <1>1, <1>3 DEF Take, Queued
    <2> QED
      BY <1>1, <1>3, <2>1, HoldKeepsBlocks
  <1>6. TypeOK'
    <2>1. /\ registry' \in [Dirs -> Locks \cup {NoLock}]
          /\ users' \in [Locks -> Nat]
          /\ entry' \in [Tasks -> [Dirs -> Locks \cup {NoLock}]]
      BY <1>1, RegisterInv
    <2>2. taken' \in [Tasks -> [1 .. MaxDepth -> SUBSET Dirs]]
      BY <1>7
    <2>3. /\ locked' \subseteq Locks
          /\ held' \in [Tasks -> SUBSET Dirs]
          /\ want' \in [Tasks -> SUBSET Dirs]
      BY <1>3 DEF TypeOK
    <2>4. /\ depth' \in [Tasks -> 0 .. MaxDepth]
          /\ queuedOn' \in [Tasks -> Dirs \cup {NoDir}]
          /\ ahead' \in [Tasks -> SUBSET Tasks]
          /\ future' \in [Tasks -> Futures]
          /\ cancelled' \subseteq Tasks
      BY <1>3 DEF TypeOK
    <2> QED
      BY <2>1, <2>2, <2>3, <2>4 DEF TypeOK
  <1>8. Counted'
    BY <1>1, <1>2, <1>3, <1>4, <1>5 DEF Counted, Queued
  <1>9. RegistryServesEveryUser' /\ Distinct' /\ Tally'
    BY <1>1, RegisterInv
  <1>10. MutualExclusion'
    <2>1. \A u \in Tasks : d \notin held[u]
      BY <1>1, FreeMeansUnheld DEF Take, Uncontended
    <2> QED
      BY <1>5, <2>1 DEF MutualExclusion
  <1>11. Flagged'
    <2> SUFFICES ASSUME NEW u \in Tasks, NEW e \in held'[u] PROVE entry'[u][e] \in locked'
      BY DEF Flagged
    <2>1. CASE u = t /\ e = d
      BY <1>3, <1>4, <2>1
    <2>2. CASE ~(u = t /\ e = d)
      <3>1. e \in held[u] /\ e \in Dirs
        BY <1>5, <2>2 DEF TypeOK
      <3>2. entry'[u][e] = entry[u][e]
        BY <1>4, <2>2, <3>1
      <3> QED
        BY <1>3, <3>1, <3>2 DEF Flagged
    <2> QED
      BY <2>1, <2>2
  <1>12. Awaiting'
    <2> SUFFICES ASSUME NEW u \in Tasks
                 PROVE  /\ future'[u] # "none" <=> Queued(u)'
                        /\ future'[u] = "cancelled" => u \in cancelled'
                        /\ future'[u] = "result" => ahead'[u] = {} /\ Awaited(u)' \notin locked'
      BY DEF Awaiting
    <2>1. future'[u] # "none" <=> Queued(u)'
      BY <1>3 DEF Awaiting, Queued
    <2>2. future'[u] = "cancelled" => u \in cancelled'
      BY <1>3 DEF Awaiting
    <2>3. ASSUME future'[u] = "result"
          PROVE  ahead'[u] = {} /\ Awaited(u)' \notin locked'
      <3>1. future[u] = "result" /\ Queued(u) /\ u # t
        BY <1>1, <1>3, <2>3 DEF Awaiting
      <3>2. Awaited(u) # l
        BY <3>1 DEF Take, Uncontended, Queue
      <3>3. Awaited(u)' = Awaited(u)
        BY <1>3, <1>4, <3>1, QueuedFacts DEF Awaited
      <3> QED
        BY <1>3, <3>1, <3>2, <3>3 DEF Awaiting
    <2> QED
      BY <2>1, <2>2, <2>3
  <1>13. Lined'
    BY <1>3 DEF Lined, Queued
  <1> QED
    BY <1>6, <1>7, <1>8, <1>9, <1>10, <1>11, <1>12, <1>13

LEMMA WaitInv ==
  ASSUME IInv, NEW t \in Tasks, NEW d \in Dirs, NEW l \in Locks, Wait(t, d, l)
  PROVE  IInv'
  <1> USE DEF IInv
  <1>1. Register(t, d, l) /\ ~Queued(t) /\ NextWanted(t, d) /\ EntryFor(d, l)
    BY DEF Wait, Register
  <1>2. entry[t][d] = NoLock /\ d \notin held[t] /\ depth[t] \in 1 .. MaxDepth /\ d # NoDir
    BY <1>1, Fresh
  <1>3. /\ queuedOn' = [queuedOn EXCEPT ![t] = d]
        /\ ahead' = [ahead EXCEPT ![t] = Queue(l)]
        /\ future' = [future EXCEPT ![t] = "pending"]
        /\ UNCHANGED <<locked, held, taken, want, depth, cancelled>>
    BY DEF Wait
  <1>4. /\ entry'[t][d] = l /\ l # NoLock
        /\ \A u \in Tasks, e \in Dirs : u # t \/ e # d => entry'[u][e] = entry[u][e]
    BY <1>1, LocksAssumption DEF Register, TypeOK
  <1>5. /\ queuedOn'[t] = d
        /\ \A u \in Tasks : u # t => queuedOn'[u] = queuedOn[u]
    BY <1>3 DEF TypeOK
  <1>6. TypeOK'
    BY <1>1, <1>3, RegisterInv DEF TypeOK, Queue, Futures
  <1>7. Blocks'
    <2>1. BlocksOf(t)'
      BY <1>1, <1>3, <1>5 DEF Blocks, BlocksOf, NextWanted
    <2> QED
      BY <1>3, <1>5, <2>1, OthersKeep
  <1>8. Counted'
    BY <1>1, <1>2, <1>3, <1>4, <1>5, DirsAssumption DEF Counted, Queued, NoDir
  <1>9. RegistryServesEveryUser' /\ Distinct' /\ Tally'
    BY <1>1, RegisterInv
  <1>10. MutualExclusion'
    BY <1>3 DEF MutualExclusion
  <1>11. Flagged'
    <2> SUFFICES ASSUME NEW u \in Tasks, NEW e \in held'[u] PROVE entry'[u][e] \in locked'
      BY DEF Flagged
    <2>1. e \in held[u] /\ e \in Dirs /\ ~(u = t /\ e = d)
      BY <1>2, <1>3 DEF TypeOK
    <2>2. entry'[u][e] = entry[u][e]
      BY <1>4, <2>1
    <2> QED
      BY <1>3, <2>1, <2>2 DEF Flagged
  <1>12. Awaiting'
    <2> SUFFICES ASSUME NEW u \in Tasks
                 PROVE  /\ future'[u] # "none" <=> Queued(u)'
                        /\ future'[u] = "cancelled" => u \in cancelled'
                        /\ future'[u] = "result" => ahead'[u] = {} /\ Awaited(u)' \notin locked'
      BY DEF Awaiting
    <2>1. CASE u # t
      <3>1. future'[u] = future[u] /\ ahead'[u] = ahead[u] /\ (Queued(u)' <=> Queued(u))
        BY <1>3, <1>5, <2>1 DEF TypeOK, Queued
      <3>2. Queued(u) => Awaited(u)' = Awaited(u)
        BY <1>4, <1>5, <2>1, QueuedFacts DEF Awaited
      <3> QED
        BY <1>3, <3>1, <3>2 DEF Awaiting
    <2>2. CASE u = t
      BY <1>2, <1>3, <1>5, <2>2 DEF TypeOK, Queued
    <2> QED
      BY <2>1, <2>2
  <1>13. Lined'
    <2>1. \A u \in Tasks : u \in Queue(l) <=> queuedOn[u] = d
      BY <1>1, QueueOf
    <2>2. t \notin Queue(l)
      BY <1>1 DEF Queue
    <2>3. /\ ahead'[t] = Queue(l)
          /\ \A u \in Tasks : u # t => ahead'[u] = ahead[u]
      BY <1>3 DEF TypeOK
    <2>4. \A u \in Tasks : t \notin ahead[u]
      BY <1>1 DEF Lined, Queued
    <2>5. Queue(l) \subseteq Tasks /\ \A u \in Tasks : ahead[u] \subseteq Tasks
      BY DEF Queue, TypeOK
    <2>6. \A u \in ahead'[t] : u # t /\ Queued(t)' /\ queuedOn'[u] = queuedOn'[t]
      BY <1>2, <1>5, <2>1, <2>2, <2>3, <2>5 DEF Queued
    <2>7. ASSUME NEW v \in Tasks, v # t
          PROVE  \A u \in ahead'[v] : u # v /\ Queued(v)' /\ queuedOn'[u] = queuedOn'[v]
      BY <1>5, <2>3, <2>4, <2>5, <2>7 DEF Lined, Queued
    <2>8. ASSUME NEW v \in Tasks, NEW u \in Tasks, u # v, Queued(v)', queuedOn'[u] = queuedOn'[v]
          PROVE  u \in ahead'[v] \/ v \in ahead'[u]
      <3>1. CASE u = t \/ v = t
        BY <1>5, <2>1, <2>3, <2>8, <3>1
      <3>2. CASE u # t /\ v # t
        BY <1>5, <2>3, <2>8, <3>2 DEF Lined, Queued
      <3> QED
        BY <3>1, <3>2
    <2> QED
      BY <2>6, <2>7, <2>8 DEF Lined
  <1> QED
    BY <1>6, <1>7, <1>8, <1>9, <1>10, <1>11, <1>12, <1>13

LEMMA ResumeInv ==
  ASSUME IInv, NEW t \in Tasks, Resume(t)
  PROVE  IInv'
  <1> USE DEF IInv
  <1> DEFINE d == queuedOn[t]
             l == Awaited(t)
  <1>1. /\ d \in Dirs /\ d \in want[t] /\ d \notin held[t] /\ depth[t] \in 1 .. MaxDepth
        /\ l \in Locks /\ l # NoLock /\ l = entry[t][d]
        /\ Queued(t) /\ NextWanted(t, d) /\ Hold(t, d, l)
    BY QueuedFacts DEF Resume, Awaited, Blocks
  <1>2. ahead[t] = {} /\ l \notin locked
    BY DEF Resume, Awaiting
  <1>3. /\ locked' = locked \cup {l}
        /\ held' = [held EXCEPT ![t] = @ \cup {d}]
        /\ taken' = [taken EXCEPT ![t][depth[t]] = @ \cup {d}]
        /\ want' = [want EXCEPT ![t] = @ \ {d}]
        /\ queuedOn' = [queuedOn EXCEPT ![t] = NoDir]
        /\ ahead' = [u \in Tasks |-> IF u = t THEN {} ELSE ahead[u] \ {t}]
        /\ future' = [future EXCEPT ![t] = "none"]
        /\ UNCHANGED <<registry, users, entry, depth, cancelled>>
    BY <1>1 DEF Resume, Hold, Dequeued
  <1>4. /\ held'[t] = held[t] \cup {d}
        /\ \A u \in Tasks : u # t => held'[u] = held[u]
    BY <1>3 DEF TypeOK
  <1>5. /\ queuedOn'[t] = NoDir
        /\ \A u \in Tasks : u # t => queuedOn'[u] = queuedOn[u]
    BY <1>3 DEF TypeOK
  <1> HIDE DEF d, l
  <1>6. Blocks' /\ taken' \in [Tasks -> [1 .. MaxDepth -> SUBSET Dirs]]
    BY <1>1, <1>3, <1>5, HoldKeepsBlocks
  <1>7. TypeOK'
    BY <1>1, <1>3, <1>6 DEF TypeOK, Futures
  <1>8. Counted'
    <2>1. NoDir \notin Dirs
      BY DirsAssumption DEF NoDir
    <2>2. d = queuedOn[t]
      BY DEF d
    <2> QED
      BY <1>3, <1>4, <1>5, <2>1, <2>2 DEF Counted
  <1>9. RegistryServesEveryUser' /\ Distinct' /\ Tally'
    BY <1>3 DEF RegistryServesEveryUser, Distinct, Tally, Users
  <1>10. MutualExclusion'
    <2>1. ASSUME NEW u \in Tasks PROVE d \notin held[u]
      <3> SUFFICES ASSUME d \in held[u] PROVE FALSE
        OBVIOUS
      <3>1. entry[u][d] \in locked /\ entry[u][d] # NoLock
        BY <1>1 DEF Flagged, Counted
      <3> QED
        BY <1>1, <1>2, <3>1 DEF RegistryServesEveryUser
    <2> QED
      BY <1>4, <2>1 DEF MutualExclusion
  <1>11. Flagged'
    BY <1>1, <1>3, <1>4 DEF Flagged
  <1>12. Awaiting'
    <2> SUFFICES ASSUME NEW u \in Tasks
                 PROVE  /\ future'[u] # "none" <=> Queued(u)'
                        /\ future'[u] = "cancelled" => u \in cancelled'
                        /\ future'[u] = "result" => ahead'[u] = {} /\ Awaited(u)' \notin locked'
      BY DEF Awaiting
    <2>1. CASE u = t
      BY <1>3, <1>5, <2>1 DEF TypeOK, Queued
    <2>2. CASE u # t
      <3>1. future'[u] = future[u] /\ ahead'[u] = ahead[u] \ {t} /\ (Queued(u)' <=> Queued(u))
        BY <1>3, <1>5, <2>2 DEF TypeOK, Queued
      <3>2. ASSUME future'[u] = "result"
            PROVE  ahead'[u] = {} /\ Awaited(u)' \notin locked'
        <4>1. Queued(u) /\ ahead[u] = {} /\ Awaited(u) \notin locked
          BY <3>1, <3>2 DEF Awaiting
        <4>2. queuedOn[u] \in Dirs /\ queuedOn[u] # d
          BY <1>1, <1>2, <2>2, <4>1, QueuedFacts DEF Lined, d
        <4>3. Awaited(u) # l
          BY <1>1, <4>2, OneLock DEF Awaited
        <4>4. Awaited(u)' = Awaited(u)
          BY <1>3, <1>5, <2>2 DEF Awaited
        <4> QED
          BY <1>3, <3>1, <4>1, <4>3, <4>4
      <3> QED
        BY <1>3, <3>1, <3>2 DEF Awaiting
    <2> QED
      BY <2>1, <2>2
  <1>13. Lined'
    BY <1>3, <1>5 DEF Lined, Queued, TypeOK
  <1> QED
    BY <1>6, <1>7, <1>8, <1>9, <1>10, <1>11, <1>12, <1>13

LEMMA CancelInv ==
  ASSUME IInv, NEW t \in Tasks, Cancel(t)
  PROVE  IInv'
  <1> USE DEF IInv
  <1>1. /\ Queued(t)
        /\ cancelled' = cancelled \cup {t}
        /\ future' = [future EXCEPT ![t] = IF @ = "pending" THEN "cancelled" ELSE @]
        /\ UNCHANGED <<registry, users, locked, held, entry, depth, taken, want, queuedOn, ahead>>
    BY DEF Cancel
  <1>2. TypeOK'
    BY <1>1 DEF TypeOK, Futures
  <1>3. Blocks' /\ Counted' /\ Lined'
    BY <1>1 DEF Blocks, Counted, Lined, Queued, NextWanted
  <1>4. RegistryServesEveryUser' /\ Distinct' /\ Tally' /\ MutualExclusion' /\ Flagged'
    BY <1>1 DEF RegistryServesEveryUser, Distinct, Tally, Users, MutualExclusion, Flagged
  <1>5. Awaiting'
    BY <1>1 DEF Awaiting, Queued, Awaited, TypeOK
  <1> QED
    BY <1>2, <1>3, <1>4, <1>5

\* Who stays in the queues when t gives up the locks of S finds them as they were,
\* or gets the future of the first in line resolved.
LEMMA WokenStay ==
  ASSUME IInv, NEW t \in Tasks, NEW S, NEW u \in Tasks, u # t, future' = Woken(S, t)
  PROVE  /\ future'[u] \in Futures
         /\ future'[u] # "none" <=> Queued(u)
         /\ future'[u] = "cancelled" <=> future[u] = "cancelled"
         /\ future'[u] = "result" =>
              \/ ahead[u] = {} /\ Awaited(u) \notin locked
              \/ Queued(u) /\ ahead[u] \subseteq {t} /\ Awaited(u) \in S
  <1>1. future'[u] =
          IF Queued(u) /\ Awaited(u) \in S /\ ahead[u] \subseteq {t} /\ future[u] = "pending"
          THEN "result" ELSE future[u]
    BY DEF Woken
  <1>2. /\ future[u] \in Futures
        /\ future[u] # "none" <=> Queued(u)
        /\ future[u] = "result" => ahead[u] = {} /\ Awaited(u) \notin locked
    BY DEF IInv, TypeOK, Awaiting
  <1>3. CASE Queued(u) /\ Awaited(u) \in S /\ ahead[u] \subseteq {t} /\ future[u] = "pending"
    BY <1>1, <1>3 DEF Futures
  <1>4. CASE ~(Queued(u) /\ Awaited(u) \in S /\ ahead[u] \subseteq {t} /\ future[u] = "pending")
    BY <1>1, <1>2, <1>4
  <1> QED
    BY <1>3, <1>4

LEMMA LeaveInv ==
  ASSUME IInv, NEW t \in Tasks, Leave(t)
  PROVE  IInv'
  <1> USE DEF IInv
  <1> DEFINE mine == taken[t][depth[t]]
  <1>1. /\ depth[t] \in 1 .. MaxDepth /\ want[t] = {} /\ ~Queued(t) /\ queuedOn[t] = NoDir
        /\ Unlock(t) /\ queuedOn' = queuedOn
    BY DepthAssumption DEF Leave, InBody, Blocks, Queued, NextWanted, TypeOK
  <1>2. /\ Blocks' /\ taken' \in [Tasks -> [1 .. MaxDepth -> SUBSET Dirs]]
        /\ depth' \in [Tasks -> 0 .. MaxDepth]
        /\ mine \subseteq held[t] /\ mine \subseteq Dirs
    BY <1>1, UnlockKeepsBlocks
  <1>3. /\ locked' = locked \ {entry[t][d] : d \in mine}
        /\ held' = [held EXCEPT ![t] = @ \ mine]
        /\ taken' = [taken EXCEPT ![t][depth[t]] = {}]
        /\ depth' = [depth EXCEPT ![t] = @ - 1]
        /\ want' = [want EXCEPT ![t] = {}]
        /\ Forget(t, mine)
        /\ future' = Woken({entry[t][d] : d \in mine}, t)
        /\ UNCHANGED <<queuedOn, ahead, cancelled>>
    BY DEF Leave, Unlock
  <1>4. mine \subseteq held[t] /\ \A d \in mine : entry[t][d] # NoLock
    BY <1>2 DEF Counted
  <1> HIDE DEF mine
  <1>5. /\ registry' \in [Dirs -> Locks \cup {NoLock}]
        /\ users' \in [Locks -> Nat]
        /\ entry' \in [Tasks -> [Dirs -> Locks \cup {NoLock}]]
        /\ RegistryServesEveryUser' /\ Distinct' /\ Tally'
    BY <1>2, <1>3, <1>4, ForgetInv
  <1>6. /\ \A d \in Dirs : entry'[t][d] = IF d \in mine THEN NoLock ELSE entry[t][d]
        /\ \A u \in Tasks : u # t => entry'[u] = entry[u]
    BY <1>3 DEF Forget, Discount, TypeOK
  <1>7. /\ held'[t] = held[t] \ mine
        /\ \A u \in Tasks : u # t => held'[u] = held[u]
    BY <1>3 DEF TypeOK
  <1>8. ~Queued(t)' /\ future'[t] = "none"
    BY <1>1, <1>3 DEF Queued, Woken
  <1>9. TypeOK'
    <2>1. future' \in [Tasks -> Futures]
      <3>1. \A u \in Tasks : future'[u] \in Futures
        BY <1>3, <1>8, WokenStay DEF Futures
      <3> QED
        BY <1>3, <3>1 DEF Woken
    <2>2. taken' \in [Tasks -> [1 .. MaxDepth -> SUBSET Dirs]]
      BY <1>2
    <2>3. depth' \in [Tasks -> 0 .. MaxDepth]
      BY <1>2
    <2>4. /\ locked' \subseteq Locks
          /\ held' \in [Tasks -> SUBSET Dirs]
          /\ want' \in [Tasks -> SUBSET Dirs]
          /\ queuedOn' \in [Tasks -> Dirs \cup {NoDir}]
          /\ ahead' \in [Tasks -> SUBSET Tasks]
          /\ cancelled' \subseteq Tasks
      BY <1>3 DEF TypeOK
    <2> QED
      BY <1>5, <2>1, <2>2, <2>3, <2>4 DEF TypeOK
  <1>10. Blocks'
    BY <1>2
  <1>11. Counted'
    <2>1. \A u \in Tasks : queuedOn'[u] = queuedOn[u]
      BY <1>3
    <2>2. NoDir \notin Dirs
      BY DirsAssumption DEF NoDir
    <2> QED
      BY <1>1, <1>6, <1>7, <2>1, <2>2 DEF Counted
  <1>12. MutualExclusion'
    BY <1>7 DEF MutualExclusion
  <1>13. Flagged'
    <2> SUFFICES ASSUME NEW u \in Tasks, NEW e \in held'[u] PROVE entry'[u][e] \in locked'
      BY DEF Flagged
    <2>1. e \in held[u] /\ e \in Dirs /\ ~(u = t /\ e \in mine)
      BY <1>7 DEF TypeOK
    <2>2. entry'[u][e] = entry[u][e] /\ entry[u][e] \in locked /\ entry[u][e] # NoLock
      BY <1>6, <2>1 DEF Flagged, Counted
    <2>3. ASSUME NEW d \in mine PROVE entry[t][d] # entry[u][e]
      <3> SUFFICES ASSUME entry[t][d] = entry[u][e] PROVE FALSE
        OBVIOUS
      <3>1. d \in Dirs /\ d \in held[t] /\ d = e
        BY <1>2, <1>4, <2>1, <2>2, OneLock
      <3> QED
        BY <2>1, <3>1 DEF MutualExclusion
    <2> QED
      BY <1>3, <2>2, <2>3
  <1>14. Awaiting'
    <2> SUFFICES ASSUME NEW u \in Tasks
                 PROVE  /\ future'[u] # "none" <=> Queued(u)'
                        /\ future'[u] = "cancelled" => u \in cancelled'
                        /\ future'[u] = "result" => ahead'[u] = {} /\ Awaited(u)' \notin locked'
      BY DEF Awaiting
    <2>1. CASE u = t
      BY <1>8, <2>1
    <2>2. CASE u # t
      <3>1. t \notin ahead[u] /\ (Queued(u)' <=> Queued(u))
        BY <1>1, <1>3 DEF Lined, Queued
      <3>2. Queued(u) => Awaited(u)' = Awaited(u)
        BY <1>3, <1>6, <2>2 DEF Awaited
      <3>3. future'[u] = "result" => Queued(u)
        BY <1>3, <2>2, WokenStay
      <3>4. ASSUME future'[u] = "result" PROVE ahead'[u] = {} /\ Awaited(u) \notin locked'
        <4>1. \/ ahead[u] = {} /\ Awaited(u) \notin locked
              \/ ahead[u] \subseteq {t} /\ Awaited(u) \in {entry[t][d] : d \in mine}
          BY <1>3, <2>2, <3>4, WokenStay
        <4>2. ahead'[u] = ahead[u] /\ locked' = locked \ {entry[t][d] : d \in mine}
          BY <1>3
        <4> QED
          BY <3>1, <4>1, <4>2
      <3>5. /\ future'[u] # "none" <=> Queued(u)'
            /\ future'[u] = "cancelled" => future[u] = "cancelled"
        <4> HIDE DEF IInv
        <4>1. /\ future'[u] # "none" <=> Queued(u)
              /\ future'[u] = "cancelled" <=> future[u] = "cancelled"
          BY <1>3, <2>2, WokenStay, ZenonT(60)
        <4> QED
          BY <3>1, <4>1
      <3>6. future'[u] = "cancelled" => u \in cancelled'
        BY <1>3, <3>5 DEF Awaiting
      <3> QED
        BY <3>2, <3>3, <3>4, <3>5, <3>6
    <2> QED
      BY <2>1, <2>2
  <1>15. Lined'
    BY <1>3 DEF Lined, Queued
  <1> QED
    BY <1>5, <1>9, <1>10, <1>11, <1>12, <1>13, <1>14, <1>15

LEMMA UnwindInv ==
  ASSUME IInv, NEW t \in Tasks, Unwind(t)
  PROVE  IInv'
  <1> USE DEF IInv
  <1> DEFINE q == queuedOn[t]
             l == Awaited(t)
             mine == taken[t][depth[t]]
             dirs == mine \cup {q}
             S == {entry[t][d] : d \in mine} \cup PassOn(t)
  <1>1. /\ q \in Dirs /\ q \notin held[t] /\ depth[t] \in 1 .. MaxDepth
        /\ l \in Locks /\ l # NoLock /\ l = entry[t][q] /\ Queued(t)
    BY QueuedFacts DEF Unwind, Awaited
  <1>a. /\ Unlock(t) /\ queuedOn'[t] = NoDir
        /\ \A u \in Tasks : u # t => queuedOn'[u] = queuedOn[u]
    BY DEF Unwind, TypeOK
  <1>b. /\ Blocks' /\ taken' \in [Tasks -> [1 .. MaxDepth -> SUBSET Dirs]]
        /\ depth' \in [Tasks -> 0 .. MaxDepth]
        /\ mine \subseteq held[t] /\ mine \subseteq Dirs
    BY <1>1, <1>a, UnlockKeepsBlocks
  <1>2. /\ dirs \in SUBSET Dirs
        /\ \A d \in dirs : entry[t][d] # NoLock
    BY <1>1, <1>b DEF Counted
  <1>3. /\ locked' = locked \ {entry[t][d] : d \in mine}
        /\ held' = [held EXCEPT ![t] = @ \ mine]
        /\ want' = [want EXCEPT ![t] = {}]
        /\ Forget(t, dirs)
        /\ future' = Woken(S, t)
        /\ queuedOn' = [queuedOn EXCEPT ![t] = NoDir]
        /\ ahead' = [u \in Tasks |-> IF u = t THEN {} ELSE ahead[u] \ {t}]
        /\ cancelled' = cancelled \ {t}
    BY <1>1 DEF Unwind, Unlock, Dequeued
  <1>4. S \cap locked' = {}
    BY <1>3 DEF PassOn
  <1>c. dirs = mine \cup {q} /\ q = queuedOn[t]
    OBVIOUS
  <1> HIDE DEF q, l, dirs, S, mine
  <1>5. /\ registry' \in [Dirs -> Locks \cup {NoLock}]
        /\ users' \in [Locks -> Nat]
        /\ entry' \in [Tasks -> [Dirs -> Locks \cup {NoLock}]]
        /\ RegistryServesEveryUser' /\ Distinct' /\ Tally'
    BY <1>2, <1>3, ForgetInv
  <1>6. /\ \A d \in Dirs : entry'[t][d] = IF d \in dirs THEN NoLock ELSE entry[t][d]
        /\ \A u \in Tasks : u # t => entry'[u] = entry[u]
    BY <1>3 DEF Forget, Discount, TypeOK
  <1>7. /\ held'[t] = held[t] \ mine /\ queuedOn'[t] = NoDir
        /\ \A u \in Tasks : u # t => held'[u] = held[u] /\ queuedOn'[u] = queuedOn[u]
    BY <1>3 DEF TypeOK
  <1>8. ~Queued(t)' /\ future'[t] = "none"
    BY <1>3, <1>7 DEF Queued, Woken
  <1>9. TypeOK'
    <2>1. future' \in [Tasks -> Futures]
      <3>1. \A u \in Tasks : future'[u] \in Futures
        BY <1>3, <1>8, WokenStay DEF Futures
      <3> QED
        BY <1>3, <3>1 DEF Woken
    <2>2. taken' \in [Tasks -> [1 .. MaxDepth -> SUBSET Dirs]]
      BY <1>b
    <2>3. depth' \in [Tasks -> 0 .. MaxDepth]
      BY <1>b
    <2>4. /\ locked' \subseteq Locks
          /\ held' \in [Tasks -> SUBSET Dirs]
          /\ want' \in [Tasks -> SUBSET Dirs]
          /\ cancelled' \subseteq Tasks
      BY <1>3 DEF TypeOK
    <2>5. queuedOn' \in [Tasks -> Dirs \cup {NoDir}]
      BY <1>3 DEF TypeOK
    <2>6. ahead' \in [Tasks -> SUBSET Tasks]
      BY <1>3 DEF TypeOK
    <2> QED
      BY <1>5, <2>1, <2>2, <2>3, <2>4, <2>5, <2>6 DEF TypeOK
  <1>10. Blocks'
    BY <1>b
  <1>11. Counted'
    <2>1. NoDir \notin Dirs
      BY DirsAssumption DEF NoDir
    <2>2. ASSUME NEW d \in Dirs PROVE entry'[t][d] # NoLock <=> d \in held'[t] \/ queuedOn'[t] = d
      BY <1>1, <1>6, <1>7, <1>c, <2>1 DEF Counted
    <2>3. ASSUME NEW u \in Tasks, NEW d \in Dirs, u # t
          PROVE  entry'[u][d] # NoLock <=> d \in held'[u] \/ queuedOn'[u] = d
      BY <1>6, <1>7, <2>3 DEF Counted
    <2> QED
      BY <2>2, <2>3 DEF Counted
  <1>12. MutualExclusion'
    BY <1>7 DEF MutualExclusion
  <1>13. Flagged'
    <2> SUFFICES ASSUME NEW u \in Tasks, NEW e \in held'[u] PROVE entry'[u][e] \in locked'
      BY DEF Flagged
    <2>1. e \in held[u] /\ e \in Dirs /\ ~(u = t /\ e \in mine)
      BY <1>7 DEF TypeOK
    <2>2. entry'[u][e] = entry[u][e] /\ entry[u][e] \in locked /\ entry[u][e] # NoLock
      BY <1>1, <1>6, <1>c, <2>1 DEF Flagged, Counted
    <2>3. ASSUME NEW d \in mine PROVE entry[t][d] # entry[u][e]
      <3> SUFFICES ASSUME entry[t][d] = entry[u][e] PROVE FALSE
        OBVIOUS
      <3>1. d \in Dirs /\ d \in held[t]
        BY <1>b
      <3>2. d = e
        BY <2>1, <2>2, <3>1, OneLock
      <3> QED
        BY <2>1, <3>1, <3>2 DEF MutualExclusion
    <2> QED
      BY <1>3, <2>2, <2>3
  <1>14. Awaiting'
    <2> SUFFICES ASSUME NEW u \in Tasks
                 PROVE  /\ future'[u] # "none" <=> Queued(u)'
                        /\ future'[u] = "cancelled" => u \in cancelled'
                        /\ future'[u] = "result" => ahead'[u] = {} /\ Awaited(u)' \notin locked'
      BY DEF Awaiting
    <2>1. CASE u = t
      BY <1>8, <2>1
    <2>2. CASE u # t
      <3>1. (Queued(u)' <=> Queued(u)) /\ ahead'[u] = ahead[u] \ {t} /\ Awaited(u)' = Awaited(u)
        BY <1>3, <1>6, <1>7, <2>2 DEF Queued, Awaited
      <3>2. ASSUME future'[u] = "result" PROVE ahead'[u] = {} /\ Awaited(u) \notin locked'
        <4>1. \/ ahead[u] = {} /\ Awaited(u) \notin locked
              \/ ahead[u] \subseteq {t} /\ Awaited(u) \in S
          BY <1>3, <2>2, <3>2, WokenStay
        <4> QED
          BY <1>3, <1>4, <3>1, <4>1
      <3>3. /\ future'[u] # "none" <=> Queued(u)'
            /\ future'[u] = "cancelled" => future[u] = "cancelled"
        BY <1>3, <2>2, <3>1, WokenStay
      <3>4. future'[u] = "cancelled" => u \in cancelled'
        BY <1>3, <2>2, <3>3 DEF Awaiting
      <3> QED
        BY <3>1, <3>2, <3>3, <3>4
    <2> QED
      BY <2>1, <2>2
  <1>15. Lined'
    <2>1. /\ ahead'[t] = {}
          /\ \A u \in Tasks : u # t => ahead'[u] = ahead[u] \ {t} /\ (Queued(u)' <=> Queued(u))
      BY <1>3, <1>7 DEF Queued
    <2>2. \A u \in Tasks : ahead[u] \subseteq Tasks
      BY DEF TypeOK
    <2>3. ASSUME NEW v \in Tasks, NEW u \in ahead'[v]
          PROVE  u # v /\ Queued(v)' /\ queuedOn'[u] = queuedOn'[v]
      <3>1. v # t /\ u # t /\ u \in ahead[v] /\ u \in Tasks
        BY <2>1, <2>2
      <3> QED
        BY <1>7, <2>1, <3>1 DEF Lined
    <2>4. ASSUME NEW v \in Tasks, NEW u \in Tasks, u # v, Queued(v)', queuedOn'[u] = queuedOn'[v]
          PROVE  u \in ahead'[v] \/ v \in ahead'[u]
      <3>1. v # t /\ u # t
        BY <1>7, <1>8, <2>4 DEF Queued
      <3>2. u \in ahead[v] \/ v \in ahead[u]
        BY <1>7, <2>1, <2>4, <3>1 DEF Lined
      <3> QED
        BY <2>1, <3>1, <3>2
    <2> QED
      BY <2>3, <2>4 DEF Lined
  <1> QED
    BY <1>5, <1>9, <1>10, <1>11, <1>12, <1>13, <1>14, <1>15

LEMMA InductiveInvariant == Spec => []IInv
  <1>1. Init => IInv
    BY InitInv
  <1>2. IInv /\ [Next]_vars => IInv'
    <2> SUFFICES ASSUME IInv, [Next]_vars PROVE IInv'
      OBVIOUS
    <2>1. ASSUME NEW t \in Tasks, NEW dirs \in SUBSET (Dirs \cup {NoDir}), Enter(t, dirs)
          PROVE  IInv'
      BY <2>1, EnterInv
    <2>2. ASSUME NEW t \in Tasks, NEW d \in Dirs, NEW l \in Locks, Take(t, d, l)
          PROVE  IInv'
      BY <2>2, TakeInv
    <2>3. ASSUME NEW t \in Tasks, NEW d \in Dirs, NEW l \in Locks, Wait(t, d, l)
          PROVE  IInv'
      BY <2>3, WaitInv
    <2>4. ASSUME NEW t \in Tasks, Resume(t)
          PROVE  IInv'
      BY <2>4, ResumeInv
    <2>5. ASSUME NEW t \in Tasks, Unwind(t)
          PROVE  IInv'
      BY <2>5, UnwindInv
    <2>6. ASSUME NEW t \in Tasks, Leave(t)
          PROVE  IInv'
      BY <2>6, LeaveInv
    <2>7. ASSUME NEW t \in Tasks, Cancel(t)
          PROVE  IInv'
      BY <2>7, CancelInv
    <2>8. CASE UNCHANGED vars
      <3>1. TypeOK' /\ Blocks' /\ Counted'
        BY <2>8 DEF vars, IInv, TypeOK, Blocks, Counted, Queued, NextWanted
      <3>2. RegistryServesEveryUser' /\ Distinct' /\ Tally'
        BY <2>8 DEF vars, IInv, RegistryServesEveryUser, Distinct, Tally, Users
      <3>3. MutualExclusion' /\ Flagged' /\ Awaiting' /\ Lined'
        BY <2>8 DEF vars, IInv, MutualExclusion, Flagged, Awaiting, Lined, Queued, Awaited
      <3> QED
        BY <3>1, <3>2, <3>3 DEF IInv
    <2> QED
      BY <2>1, <2>2, <2>3, <2>4, <2>5, <2>6, <2>7, <2>8 DEF Next, Step
  <1> QED
    BY <1>1, <1>2, PTL DEF Spec

-----------------------------------------------------------------------------
(* The theorems.                                                           *)

\* The registry, its counters and every queue have their types: in particular no
\* counter of `_DirLock.users` ever falls below zero.
THEOREM TypeCorrect == Spec => []TypeOK
  BY InductiveInvariant, PTL DEF IInv

\* A directory is in the hands of one task at a time, however many tasks queue
\* for it and are cancelled.
THEOREM OneTaskAtATime == Spec => []MutualExclusion
  BY InductiveInvariant, PTL DEF IInv

\* Whoever holds or queues for a directory does so on the one lock object the
\* registry has for it: `_forget` never drops one that somebody is behind.
THEOREM RegistryCorrect == Spec => []RegistryServesEveryUser
  BY InductiveInvariant, PTL DEF IInv

\* What is registered is wanted by a task in a block, and a task outside every
\* block holds nothing: the registry is empty when nobody works.
THEOREM NothingLeftBehind == Spec => []RegistryDoesNotGrow
  <1>1. IInv => RegistryDoesNotGrow
    <2> SUFFICES ASSUME IInv PROVE RegistryDoesNotGrow
      OBVIOUS
    <2>1. ASSUME NEW d \in Dirs, registry[d] # NoLock
          PROVE  \E t \in Tasks : depth[t] > 0 /\ entry[t][d] = registry[d]
      <3>1. PICK t \in Tasks : entry[t][d] # NoLock
        BY <2>1 DEF IInv, Tally, Users
      <3>2. entry[t][d] = registry[d]
        BY <3>1 DEF IInv, RegistryServesEveryUser
      <3>3. depth[t] # 0
        <4>1. d \in held[t] \/ Queued(t)
          BY <3>1, DirsAssumption DEF IInv, Counted, Queued, NoDir
        <4> QED
          BY <4>1, QueuedFacts, OutsideHoldsNothing
      <3>4. depth[t] > 0
        BY <3>3, DepthAssumption DEF IInv, TypeOK
      <3> QED
        BY <3>2, <3>4
    <2>2. \A t \in Tasks : depth[t] = 0 => held[t] = {}
      BY OutsideHoldsNothing
    <2> QED
      BY <2>1, <2>2 DEF RegistryDoesNotGrow
  <1> QED
    BY <1>1, InductiveInvariant, PTL

\* What a step adds to the directories of a task is taken with a free lock, by a
\* newcomer that finds only cancelled tasks queued, or by the head of the queue.
LEMMA Taking ==
  ASSUME IInv, [Next]_vars, NEW t \in Tasks, NEW d \in Dirs, d \in held'[t] \ held[t]
  PROVE  \/ Resume(t) /\ d = queuedOn[t]
         \/ \E l \in Locks : Take(t, d, l)
  <1> USE DEF IInv
  <1>1. CASE Next
    <2>1. ASSUME NEW u \in Tasks, NEW dirs \in SUBSET (Dirs \cup {NoDir}), Enter(u, dirs)
          PROVE  FALSE
      BY <2>1 DEF Enter
    <2>2. ASSUME NEW u \in Tasks, Cancel(u)
          PROVE  FALSE
      BY <2>2 DEF Cancel
    <2>3. ASSUME NEW u \in Tasks, Leave(u) \/ Unwind(u)
          PROVE  FALSE
      <3>1. held' = [held EXCEPT ![u] = @ \ taken[u][depth[u]]]
        BY <2>3 DEF Leave, Unwind, Unlock
      <3>2. held'[t] \subseteq held[t]
        BY <3>1 DEF TypeOK
      <3> QED
        BY <3>2
    <2>4. ASSUME NEW u \in Tasks, NEW e \in Dirs, NEW l \in Locks, Wait(u, e, l)
          PROVE  FALSE
      BY <2>4 DEF Wait
    <2>5. ASSUME NEW u \in Tasks, NEW e \in Dirs, NEW l \in Locks, Take(u, e, l)
          PROVE  Take(t, d, l)
      <3>1. held' = [held EXCEPT ![u] = @ \cup {e}]
        BY <2>5 DEF Take, Hold
      <3>2. u = t /\ e = d
        BY <3>1 DEF TypeOK
      <3> QED
        BY <2>5, <3>2
    <2>6. ASSUME NEW u \in Tasks, Resume(u)
          PROVE  Resume(t) /\ d = queuedOn[t]
      <3>1. held' = [held EXCEPT ![u] = @ \cup {queuedOn[u]}]
        BY <2>6 DEF Resume, Hold
      <3>2. u = t /\ queuedOn[u] = d
        BY <3>1 DEF TypeOK
      <3> QED
        BY <2>6, <3>2
    <2> QED
      BY <1>1, <2>1, <2>2, <2>3, <2>4, <2>5, <2>6 DEF Next, Step
  <1>2. CASE UNCHANGED vars
    BY <1>2 DEF vars
  <1> QED
    BY <1>1, <1>2

\* Tasks get a directory in the order they asked for it: nobody takes it past a
\* task that is queued for it and was not cancelled.
THEOREM FirstComeFirstServed == Spec => NoOvertaking
  <1> DEFINE InOrder ==
        \A t, u \in Tasks, d \in Dirs :
          /\ d \in held'[t] \ held[t]
          /\ u # t /\ queuedOn[u] = d /\ u \notin cancelled
          => t \in ahead[u]
  <1>1. IInv /\ [Next]_vars => InOrder
    <2> SUFFICES ASSUME IInv, [Next]_vars, NEW t \in Tasks, NEW u \in Tasks, NEW d \in Dirs,
                        d \in held'[t] \ held[t], u # t, queuedOn[u] = d, u \notin cancelled
                 PROVE  t \in ahead[u]
      OBVIOUS
    <2>1. Queued(u)
      BY DirsAssumption DEF Queued, NoDir
    <2>2. CASE Resume(t) /\ d = queuedOn[t]
      <3>1. ahead[t] = {}
        BY <2>2 DEF IInv, Awaiting, Resume
      <3> QED
        BY <2>1, <2>2, <3>1 DEF IInv, Lined
    <2>3. ASSUME NEW l \in Locks, Take(t, d, l) PROVE FALSE
      <3>1. EntryFor(d, l) /\ \A v \in Queue(l) : future[v] = "cancelled"
        BY <2>3 DEF Take, Register, Uncontended
      <3>2. u \in Queue(l)
        BY <3>1, QueueOf
      <3>3. u \in cancelled
        BY <3>1, <3>2 DEF IInv, Awaiting
      <3> QED
        BY <3>3
    <2> QED
      BY <2>2, <2>3, Taking
  <1> QED
    BY <1>1, InductiveInvariant, PTL DEF Spec, NoOvertaking

-----------------------------------------------------------------------------
(* Circles.                                                                *)

\* Of finitely many tasks that queue, one queues for a greatest directory.
LEMMA Greatest ==
  ASSUME NEW S \in SUBSET Tasks, S # {}, \A t \in S : queuedOn[t] \in Nat
  PROVE  \E t \in S : \A u \in S : queuedOn[u] <= queuedOn[t]
  <1> DEFINE Above(t) == {u \in S : queuedOn[u] > queuedOn[t]}
             R == StrictSubsetOrdering(S)
             T == {Above(t) : t \in S}
  <1>1. IsFiniteSet(S)
    BY TasksAssumption, FS_Subset
  <1>2. IsWellFoundedOn(R, SUBSET S)
    BY <1>1, FS_FiniteSubsetsOfFinite, FS_StrictSubsetOrderingWellFounded
  <1>3. T \subseteq SUBSET S /\ T # {}
    OBVIOUS
  <1>4. \E x \in T : \A y \in T : <<y, x>> \notin R
    <2> HIDE DEF T, R
    <2> QED
      BY <1>2, <1>3, WFMin
  <1>5. PICK t \in S : \A u \in S : <<Above(u), Above(t)>> \notin R
    BY <1>4
  <1>6. ASSUME NEW u \in S, queuedOn[u] > queuedOn[t] PROVE FALSE
    <2>1. Above(u) \subseteq Above(t) /\ u \in Above(t) /\ u \notin Above(u)
      BY <1>6
    <2>2. Above(u) \in SUBSET S /\ Above(t) \in SUBSET S /\ Above(u) # Above(t)
      BY <2>1
    <2> HIDE DEF Above
    <2>3. <<Above(u), Above(t)>> \in R
      BY <2>1, <2>2 DEF StrictSubsetOrdering
    <2> QED
      BY <1>5, <2>3
  <1>7. \A u \in S : ~(queuedOn[u] > queuedOn[t])
    BY <1>6
  <1> QED
    BY <1>7

\* Tasks that wait for each other do so because one of them asks, in a block inside
\* another, for a directory below one it has: whoever enters one block at a time
\* never deadlocks, however many directories the block takes.
THEOREM OnlyNestingDeadlocks == Spec => []OnlyNestingEntangles
  <1>1. IInv => OnlyNestingEntangles
    <2> SUFFICES ASSUME IInv, NEW S \in SUBSET Tasks, S # {}, Circle(S)
                 PROVE  \E t \in S : depth[t] > 1 /\ \E e \in held[t] : queuedOn[t] < e
      BY DEF OnlyNestingEntangles
    <2>1. \A t \in S : Queued(t) /\ queuedOn[t] \in Dirs /\ queuedOn[t] \in Nat
      BY QueuedFacts, DirsAssumption DEF Circle
    <2>2. PICK t \in S : \A u \in S : queuedOn[u] <= queuedOn[t]
      BY <2>1, Greatest
    <2>3. PICK u \in S : queuedOn[t] \in held[u]
      BY DEF Circle
    <2>4. /\ queuedOn[u] \notin held[u] /\ queuedOn[u] \in want[u]
          /\ depth[u] \in 1 .. MaxDepth
      BY <2>1, QueuedFacts
    <2>5. queuedOn[u] < queuedOn[t]
      BY <2>1, <2>2, <2>3, <2>4
    <2>6. PICK k \in 1 .. MaxDepth : queuedOn[t] \in taken[u][k]
      BY <2>1, <2>3 DEF IInv, Blocks
    <2>7. k # depth[u]
      <3>1. ~(queuedOn[t] < queuedOn[u])
        BY <2>1, <2>5
      <3> QED
        BY <2>4, <2>6, <3>1 DEF IInv, Blocks
    <2>8. ~(k > depth[u])
      BY <2>6 DEF IInv, Blocks
    <2>9. depth[u] > 1
      BY <2>4, <2>7, <2>8, DepthAssumption
    <2> QED
      BY <2>3, <2>5, <2>9
  <1> QED
    BY <1>1, InductiveInvariant, PTL

-----------------------------------------------------------------------------
(* The refinement.                                                         *)

\* The owner of a directory is the task that holds it, its block the one that took it.
Owners ==
  \A d \in Dirs :
    /\ \A t \in Tasks : d \in held[t] <=> Owner(d) = t
    /\ Owner(d) = NoTask <=> \A t \in Tasks : d \notin held[t]
    /\ Owner(d) = NoTask => Block(d) = 0
    /\ \A t \in Tasks, k \in 1 .. MaxDepth : d \in taken[t][k] => Owner(d) = t /\ Block(d) = k

LEMMA OwnersFollow == IInv => Owners
  <1> SUFFICES ASSUME IInv, NEW d \in Dirs
               PROVE  /\ \A t \in Tasks : d \in held[t] <=> Owner(d) = t
                      /\ Owner(d) = NoTask <=> \A t \in Tasks : d \notin held[t]
                      /\ Owner(d) = NoTask => Block(d) = 0
                      /\ \A t \in Tasks, k \in 1 .. MaxDepth :
                           d \in taken[t][k] => Owner(d) = t /\ Block(d) = k
    BY DEF Owners
  <1>1. /\ \A t \in Tasks : d \in held[t] <=> Owner(d) = t
        /\ Owner(d) = NoTask <=> \A t \in Tasks : d \notin held[t]
    <2>1. CASE \E t \in Tasks : d \in held[t]
      <3>1. Owner(d) \in Tasks /\ d \in held[Owner(d)]
        BY <2>1 DEF Owner
      <3> QED
        BY <3>1, TasksAssumption DEF IInv, MutualExclusion
    <2>2. CASE \A t \in Tasks : d \notin held[t]
      BY <2>2, TasksAssumption DEF Owner
    <2> QED
      BY <2>1, <2>2
  <1>2. Owner(d) = NoTask => Block(d) = 0
    BY DEF Block
  <1>3. ASSUME NEW t \in Tasks, NEW k \in 1 .. MaxDepth, d \in taken[t][k]
        PROVE  Owner(d) = t /\ Block(d) = k
    <2>1. Owner(d) = t /\ Owner(d) # NoTask
      BY <1>1, <1>3, TasksAssumption DEF IInv, Blocks
    <2>2. \A j \in 1 .. MaxDepth : d \in taken[t][j] => j = k
      BY <1>3 DEF IInv, Blocks
    <2> QED
      BY <1>3, <2>1, <2>2 DEF Block
  <1> QED
    BY <1>1, <1>2, <1>3

\* A directory whose place in the blocks stays keeps its owner and its block.
LEMMA Undisturbed ==
  ASSUME Blocks, Owners, Owners', NEW e \in Dirs,
         \A u \in Tasks : e \in held'[u] <=> e \in held[u],
         \A u \in Tasks, k \in 1 .. MaxDepth : e \in taken[u][k] => e \in taken'[u][k]
  PROVE  Owner(e)' = Owner(e) /\ Block(e)' = Block(e)
  <1>1. CASE \A u \in Tasks : e \notin held[u]
    BY <1>1 DEF Owners
  <1>2. ASSUME NEW u \in Tasks, e \in held[u] PROVE Owner(e)' = Owner(e) /\ Block(e)' = Block(e)
    <2>1. PICK k \in 1 .. MaxDepth : e \in taken[u][k]
      BY <1>2 DEF Blocks
    <2>2. e \in taken'[u][k]
      BY <2>1
    <2> QED
      BY <2>1, <2>2 DEF Owners
  <1> QED
    BY <1>1, <1>2

\* Taking a lock is the abstract Acquire.
LEMMA TakingIsAcquiring ==
  ASSUME IInv, Owners, Owners', NEW t \in Tasks, NEW d \in Dirs, NEW l,
         NextWanted(t, d), Hold(t, d, l), depth[t] \in 1 .. MaxDepth,
         \A u \in Tasks : d \notin held[u]
  PROVE  Mutex!Acquire(t, d, depth[t])
  <1>1. /\ held'[t] = held[t] \cup {d}
        /\ \A u \in Tasks : u # t => held'[u] = held[u] /\ taken'[u] = taken[u]
    BY DEF IInv, TypeOK, Hold
  <1>2. \A k \in 1 .. MaxDepth :
          taken'[t][k] = IF k = depth[t] THEN taken[t][k] \cup {d} ELSE taken[t][k]
    <2>1. taken'[t] = [taken[t] EXCEPT ![depth[t]] = @ \cup {d}]
      BY DEF Hold, IInv, TypeOK
    <2>2. taken[t] \in [1 .. MaxDepth -> SUBSET Dirs]
      BY DEF IInv, TypeOK
    <2> QED
      BY <2>1, <2>2
  <1>3. Owner(d) = NoTask
    BY DEF Owners
  <1>4. ASSUME NEW e \in Dirs, Owner(e) = t
        PROVE  Block(e) < depth[t] \/ (Block(e) = depth[t] /\ e < d)
    <2>1. e \in held[t]
      BY <1>4 DEF Owners
    <2>2. PICK k \in 1 .. MaxDepth : e \in taken[t][k]
      BY <2>1 DEF IInv, Blocks
    <2>3. Block(e) = k
      BY <2>2 DEF Owners
    <2>4. ~(k > depth[t])
      BY <2>2 DEF IInv, Blocks
    <2>5. k = depth[t] => e < d
      BY <2>2 DEF IInv, Blocks, NextWanted
    <2> QED
      BY <2>3, <2>4, <2>5, DepthAssumption
  <1>5. Owner(d)' = t /\ Block(d)' = depth[t]
    <2>1. d \in taken'[t][depth[t]]
      BY <1>2
    <2> QED
      BY <2>1 DEF Owners
  <1>6. ASSUME NEW e \in Dirs, e # d PROVE Owner(e)' = Owner(e) /\ Block(e)' = Block(e)
    <2>1. \A u \in Tasks : e \in held'[u] <=> e \in held[u]
      BY <1>1, <1>6
    <2>2. \A u \in Tasks, k \in 1 .. MaxDepth : e \in taken[u][k] => e \in taken'[u][k]
      BY <1>1, <1>2
    <2> QED
      BY <2>1, <2>2, Undisturbed DEF IInv
  <1> QED
    BY <1>3, <1>4, <1>5, <1>6 DEF Mutex!Acquire

\* Leaving a block is the abstract Release.
LEMMA LeavingIsReleasing ==
  ASSUME IInv, Owners, Owners', NEW t \in Tasks, Unlock(t), depth[t] \in 1 .. MaxDepth
  PROVE  Mutex!Release(t, depth[t])
  <1> DEFINE mine == taken[t][depth[t]]
  <1>1. /\ held'[t] = held[t] \ mine
        /\ \A u \in Tasks : u # t => held'[u] = held[u] /\ taken'[u] = taken[u]
    BY DEF IInv, TypeOK, Unlock
  <1>2. \A k \in 1 .. MaxDepth : taken'[t][k] = IF k = depth[t] THEN {} ELSE taken[t][k]
    <2>1. taken'[t] = [taken[t] EXCEPT ![depth[t]] = {}]
      BY DEF Unlock, IInv, TypeOK
    <2>2. taken[t] \in [1 .. MaxDepth -> SUBSET Dirs]
      BY DEF IInv, TypeOK
    <2> QED
      BY <2>1, <2>2
  <1>3. ASSUME NEW e \in Dirs
        PROVE  e \in mine <=> Owner(e) = t /\ Block(e) >= depth[t]
    <2>1. ASSUME e \in mine PROVE Owner(e) = t /\ Block(e) >= depth[t]
      BY <2>1, DepthAssumption DEF Owners
    <2>2. ASSUME Owner(e) = t, Block(e) >= depth[t] PROVE e \in mine
      <3>1. PICK k \in 1 .. MaxDepth : e \in taken[t][k]
        BY <2>2 DEF Owners, IInv, Blocks
      <3>2. Block(e) = k /\ ~(k > depth[t])
        BY <3>1 DEF Owners, IInv, Blocks
      <3>3. k = depth[t]
        BY <2>2, <3>2, DepthAssumption
      <3> QED
        BY <3>1, <3>3
    <2> QED
      BY <2>1, <2>2
  <1>4. ASSUME NEW e \in Dirs, e \in mine PROVE Owner(e)' = NoTask /\ Block(e)' = 0
    <2>1. \A u \in Tasks : e \notin held'[u]
      BY <1>1, <1>3, <1>4 DEF Owners
    <2> QED
      BY <2>1 DEF Owners
  <1>5. ASSUME NEW e \in Dirs, e \notin mine PROVE Owner(e)' = Owner(e) /\ Block(e)' = Block(e)
    <2>1. \A u \in Tasks : e \in held'[u] <=> e \in held[u]
      BY <1>1, <1>5
    <2>2. \A u \in Tasks, k \in 1 .. MaxDepth : e \in taken[u][k] => e \in taken'[u][k]
      BY <1>1, <1>2, <1>5
    <2> QED
      BY <2>1, <2>2, Undisturbed DEF IInv
  <1> HIDE DEF mine
  <1>6. {e \in Dirs : Owner(e) = t /\ Block(e) >= depth[t]} = {e \in Dirs : e \in mine}
    BY <1>3
  <1> QED
    BY <1>3, <1>4, <1>5 DEF Mutex!Release, Mutex!Freed

\* The registry implements one lock per directory, which the blocks of a task take
\* in order and give back innermost first: what DirEntries assumes of `_locked_dirs`.
THEOREM RegistryImplementsMutex == Spec => ImplementsMutex
  <1> DEFINE View == <<[d \in Dirs |-> Owner(d)], [d \in Dirs |-> Block(d)]>>
  <1>1. Init => Mutex!Init
    BY DEF Init, Mutex!Init, Owner, Block
  <1>2. IInv /\ Owners /\ Owners' /\ [Next]_vars => Mutex!Next \/ UNCHANGED View
    <2> SUFFICES ASSUME IInv, Owners, Owners', [Next]_vars
                 PROVE  Mutex!Next \/ UNCHANGED View
      OBVIOUS
    <2>1. ASSUME held' = held, \A u \in Tasks, k \in 1 .. MaxDepth : taken[u][k] \subseteq taken'[u][k]
          PROVE  UNCHANGED View
      <3>1. \A e \in Dirs : Owner(e)' = Owner(e) /\ Block(e)' = Block(e)
        BY <2>1, Undisturbed DEF IInv
      <3> QED
        BY <3>1
    <2> HIDE DEF View
    <2>2. ASSUME NEW t \in Tasks, NEW dirs \in SUBSET (Dirs \cup {NoDir}), Enter(t, dirs)
          PROVE  UNCHANGED View
      <3>1. /\ held' = held /\ taken' = [taken EXCEPT ![t][depth[t] + 1] = {}]
            /\ depth[t] + 1 \in 1 .. MaxDepth /\ depth[t] + 1 > depth[t]
        BY <2>2, DepthAssumption DEF Enter, IInv, TypeOK
      <3>2. taken[t][depth[t] + 1] = {} /\ taken[t] \in [1 .. MaxDepth -> SUBSET Dirs]
        BY <3>1 DEF IInv, Blocks, TypeOK
      <3>3. taken'[t] = [taken[t] EXCEPT ![depth[t] + 1] = {}]
            /\ \A u \in Tasks : u # t => taken'[u] = taken[u]
        BY <3>1 DEF IInv, TypeOK
      <3>4. \A u \in Tasks, k \in 1 .. MaxDepth : taken[u][k] \subseteq taken'[u][k]
        BY <3>2, <3>3
      <3> QED
        BY <2>1, <3>1, <3>4
    <2>3. ASSUME NEW t \in Tasks, Cancel(t)
          PROVE  UNCHANGED View
      BY <2>1, <2>3 DEF Cancel
    <2>4. ASSUME NEW t \in Tasks, NEW d \in Dirs, NEW l \in Locks, Wait(t, d, l)
          PROVE  UNCHANGED View
      BY <2>1, <2>4 DEF Wait
    <2>5. ASSUME NEW t \in Tasks, NEW d \in Dirs, NEW l \in Locks, Take(t, d, l)
          PROVE  Mutex!Next
      <3>1. /\ NextWanted(t, d) /\ EntryFor(d, l) /\ l \notin locked /\ Hold(t, d, l)
            /\ depth[t] \in 1 .. MaxDepth
        BY <2>5, Fresh DEF Take, Register, Uncontended
      <3>2. \A u \in Tasks : d \notin held[u]
        BY <3>1, FreeMeansUnheld
      <3>3. Mutex!Acquire(t, d, depth[t])
        BY <3>1, <3>2, TakingIsAcquiring
      <3> QED
        BY <3>1, <3>3 DEF Mutex!Next
    <2>6. ASSUME NEW t \in Tasks, Resume(t)
          PROVE  Mutex!Next
      <3>1. /\ queuedOn[t] \in Dirs /\ NextWanted(t, queuedOn[t])
            /\ Awaited(t) \in Locks /\ Awaited(t) # NoLock /\ Awaited(t) \notin locked
            /\ Hold(t, queuedOn[t], Awaited(t)) /\ depth[t] \in 1 .. MaxDepth
        BY <2>6, QueuedFacts DEF Resume, IInv, Awaiting, Blocks
      <3>2. EntryFor(queuedOn[t], Awaited(t))
        BY <3>1 DEF EntryFor, Awaited, IInv, RegistryServesEveryUser
      <3>3. \A u \in Tasks : queuedOn[t] \notin held[u]
        BY <3>1, <3>2, FreeMeansUnheld
      <3>4. Mutex!Acquire(t, queuedOn[t], depth[t])
        BY <3>1, <3>3, TakingIsAcquiring
      <3> QED
        BY <3>1, <3>4 DEF Mutex!Next
    <2>7. ASSUME NEW t \in Tasks, Leave(t) \/ Unwind(t)
          PROVE  Mutex!Next
      <3>1. Unlock(t)
        BY <2>7 DEF Leave, Unwind
      <3>2. depth[t] \in 1 .. MaxDepth
        BY <2>7, QueuedFacts, DepthAssumption DEF Leave, InBody, Unwind, IInv, TypeOK
      <3>3. Mutex!Release(t, depth[t])
        BY <3>1, <3>2, LeavingIsReleasing
      <3> QED
        BY <3>2, <3>3 DEF Mutex!Next
    <2>8. CASE UNCHANGED vars
      BY <2>1, <2>8 DEF vars
    <2> QED
      BY <2>2, <2>3, <2>4, <2>5, <2>6, <2>7, <2>8 DEF Next, Step
  <1>3. Spec => []IInv
    BY InductiveInvariant
  <1>4. Spec => []MutualExclusion
    BY OneTaskAtATime
  <1>5. IInv => Owners
    BY OwnersFollow
  <1> QED
    BY <1>1, <1>2, <1>3, <1>4, <1>5, PTL DEF Spec, ImplementsMutex, Mutex!Spec, Mutex!vars
=============================================================================
