------------------------------ MODULE DirMutex ------------------------------
(***************************************************************************)
(* What `_locked_dirs` of src/src/vfs.py promises to the handlers: a       *)
(* directory has at most one owner; the blocks of a task are nested, and   *)
(* the innermost takes its directories in ascending order, whatever those  *)
(* outside it have; a block gives back what it took when it is left, and   *)
(* nobody's directory is taken away for another.  DirLocks implements      *)
(* this, and DirEntries relies on no more than this.                       *)
(***************************************************************************)
EXTENDS Naturals

CONSTANTS
  Dirs,   \* positive numbers, in their sort order
  Tasks,
  NoTask, \* not a task
  Levels  \* of nested blocks: positive numbers, 1 the outermost

VARIABLES
  owner,  \* Dirs -> the task that has it, or NoTask
  block   \* Dirs -> the block of its owner that took it, 0 if nobody has it

vars == <<owner, block>>

Init ==
  /\ owner = [d \in Dirs |-> NoTask]
  /\ block = [d \in Dirs |-> 0]

\* "Several ids are taken in sorted order": block k of t, which is its innermost.
Acquire(t, d, k) ==
  /\ owner[d] = NoTask
  /\ \A e \in Dirs : owner[e] = t => block[e] < k \/ (block[e] = k /\ e < d)
  /\ owner' = [owner EXCEPT ![d] = t]
  /\ block' = [block EXCEPT ![d] = k]

Freed(S) ==
  /\ owner' = [d \in Dirs |-> IF d \in S THEN NoTask ELSE owner[d]]
  /\ block' = [d \in Dirs |-> IF d \in S THEN 0 ELSE block[d]]

\* t leaves its blocks from the innermost up to block k.
Release(t, k) == Freed({d \in Dirs : owner[d] = t /\ block[d] >= k})

\* The process dies, and its locks with it.
Crash == Freed(Dirs)

Next ==
  \/ \E t \in Tasks, d \in Dirs, k \in Levels : Acquire(t, d, k)
  \/ \E t \in Tasks, k \in Levels : Release(t, k)
  \/ Crash

Spec == Init /\ [][Next]_vars
=============================================================================
