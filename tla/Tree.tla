-------------------------------- MODULE Tree --------------------------------
(***************************************************************************)
(* The tree of src/src/vfs.py as a tree: directories that are made, moved, *)
(* trashed, restored and purged with everything below them while other     *)
(* requests resolve paths through them, list them and search them.         *)
(*                                                                         *)
(* Module DirEntries takes one level of it, with files only, and asks      *)
(* whether the tags survive; here the documents nest, and the question is  *)
(* whether what was stored can still be reached, whether a listing raises  *)
(* a false alarm, and whether a purge takes only what was discarded.  A    *)
(* tag is the set of entries it was computed over.  A node's own `mac`,    *)
(* and the order in which `_locked_dirs` takes its locks, are left to      *)
(* DirEntries and DirLocks: here the locks of a handler are taken at once. *)
(*                                                                         *)
(* A path is resolved in one step: `get_node` awaits once per segment, and *)
(* a name found on the way down was there when it was looked at.  The two  *)
(* resolutions of a handler, and what it does under its locks, are steps   *)
(* of their own.                                                           *)
(***************************************************************************)
EXTENDS Naturals, SequencesExt

CONSTANTS
  Root,         \* the id of this session's root directory
  Folders,      \* uuids of the directories below it
  Files,        \* uuids of the files
  Names,        \* filenames
  Tasks,        \* asyncio tasks serving requests
  Starts,       \* documents a run begins with
  NoId, NoName, NoTask,
  MaxDepth,     \* bound on the segments of a path a client sends
  MaxCalls,     \* bound on the requests served
  MaxCrashes    \* bound on the times the process dies

Ids == Folders \cup Files
Dirs == Folders \cup {Root}

(* The documents.                                                          *)

Doc(state, parent, name) == [state |-> state, parent |-> parent, name |-> name]

Docs == [state : {"fresh", "live", "trashed", "gone"}, parent : Dirs \cup {NoId},
         name : Names \cup {NoName}]

\* What a database may hold: every document has a name in a directory that is
\* there, and none is within itself.
IsTree(start) ==
  /\ start \in [Ids -> Docs]
  /\ \A i \in Ids :
       \/ start[i] = Doc("fresh", NoId, NoName)
       \/ /\ start[i].state \in {"live", "trashed"} /\ start[i].name \in Names
          /\ start[i].parent \in Dirs
          /\ start[i].parent # Root => start[start[i].parent].state # "fresh"
  /\ \A S \in SUBSET Ids : S # {} => \E i \in S : start[i].parent \notin S

ASSUME IdsAssumption ==
  Folders \cap Files = {} /\ {Root, NoId} \cap Ids = {} /\ Root # NoId
ASSUME NoneAssumption == NoTask \notin Tasks
ASSUME BoundsAssumption == MaxDepth \in Nat /\ MaxCalls \in Nat /\ MaxCrashes \in Nat
ASSUME StartsAssumption == \A start \in Starts : IsTree(start)

VARIABLES
  node,                 \* Ids -> document, or "fresh" (uuid not drawn) or "gone"
  entries_mac,          \* Dirs -> the entries the promoted tag covers
  entries_mac_pending,  \* Dirs -> the set of entry sets a staged tag covers
  dir_locks,            \* Dirs -> the task holding the directory
  op,                   \* Tasks -> the handler the task is in
  calls, crashes,       \* requests begun, processes died
  overtaken,            \* observer: ids written by a handler that was overtaken, or
                        \* whose only matching tag was staged over
  buried,               \* observer: ids that were in the bin when destroyed
  evicted,              \* observer: what a rename took the place of and nobody restored
  alarms                \* observer: listings that reported tampering

docs == <<node, entries_mac, entries_mac_pending>>
observers == <<overtaken, buried, evicted, alarms>>
vars == <<docs, dir_locks, op, calls, crashes, observers>>

-----------------------------------------------------------------------------
(* The tree.                                                               *)

Present(i) == i # Root => node[i].state \in {"live", "trashed"}
Trashed(i) == i # Root /\ node[i].state = "trashed"

\* `children`: the ids, trashed ones included; `live_children` leaves those out.
ChildrenOf(d) == {i \in Ids : Present(i) /\ node[i].parent = d}
LiveChildren(d) == {i \in ChildrenOf(d) : ~Trashed(i)}

\* `_entries_of(children)`: what an entry tag is computed over.
EntriesOf(d) == {<<i, node[i].name>> : i \in ChildrenOf(d)}

LiveAt(d, n) == {i \in LiveChildren(d) : node[i].name = n}

\* The partial unique index on (parent_id, filename) of live documents.
IndexAllows(i, d, n) == LiveAt(d, n) \subseteq {i}

\* `get_node`: from the root, one live document per segment.
Walks(path) ==
  {w \in [1 .. Len(path) -> Ids] :
     \A k \in 1 .. Len(path) : w[k] \in LiveAt(IF k = 1 THEN Root ELSE w[k - 1], path[k])}
Resolve(path) == IF path = <<>> THEN {Root} ELSE {w[Len(path)] : w \in Walks(path)}

\* The parents above a node, as far as they go: `_ancestors_of` stops at one
\* that is not there, or that it has seen.
ClosedUpward(S) == \A j \in S \ {Root} : Present(j) => node[j].parent \in S
Above(i) ==
  IF i = Root THEN {}
  ELSE {d \in Dirs : \A S \in SUBSET Dirs : node[i].parent \in S /\ ClosedUpward(S) => d \in S}

\* It comes to the root, and the trashed directories it passes.
ReachesRoot(i) == i # Root => Root \in Above(i)
BlockedBy(i) == {j \in Above(i) : Trashed(j)}

\* `_subtree`: the node and what is found from it through `children`.
ClosedDownward(S) == \A j \in S : ChildrenOf(j) \subseteq S
Subtree(i) == {j \in Ids : \A S \in SUBSET Ids : i \in S /\ ClosedDownward(S) => j \in S}

\* `_trashed_items`: what `list_trash` shows and `purge_expired` takes from.
InTrash(i) == Trashed(i) /\ ReachesRoot(i) /\ BlockedBy(i) = {}

\* `verify_dir_entries` over the tags of a directory document read earlier.
TagsOf(d) == {entries_mac[d]} \cup entries_mac_pending[d]
Vouched(d, tags) == EntriesOf(d) \in tags

-----------------------------------------------------------------------------
(* Handlers.                                                               *)

Kinds == {"none", "make", "trash", "restore", "purge", "rename", "list", "search"}
Steps == {"idle", "empty", "mark", "parent", "lock", "decide", "evictLock", "evict",
          "destroy", "unname", "stage", "mutate", "commit", "read"}

\* id, seen: the node and the document the handler read; dst, name: where it is
\* to be; path, over: the new path and the flag of `rename`; locks: directories
\* asked for; victim, held: root of the purged subtree and its document as read;
\* tree: that subtree as listed, with the parents; rest: what of it is still to
\* be deleted; tag: the staged value each `commit` holds; queue: directories to
\* list with the tags of the document in hand; chain, watch: observers, the
\* documents and the directories its decisions rest on; raced: one changed.
NoDoc == Doc("gone", NoId, NoName)

Idle ==
  [pc |-> "idle", kind |-> "none", id |-> NoId, seen |-> NoDoc, dst |-> NoId,
   name |-> NoName, path |-> <<>>, over |-> FALSE, locks |-> {},
   victim |-> NoId, held |-> NoDoc, tree |-> <<>>, rest |-> {}, tag |-> <<>>,
   queue |-> {}, chain |-> {}, watch |-> {}, raced |-> FALSE]

TypeOK ==
  /\ node \in [Ids -> Docs]
  /\ entries_mac \in [Dirs -> SUBSET (Ids \X Names)]
  /\ entries_mac_pending \in [Dirs -> SUBSET SUBSET (Ids \X Names)]
  /\ dir_locks \in [Dirs -> Tasks \cup {NoTask}]
  /\ \A t \in Tasks :
       /\ op[t].pc \in Steps /\ op[t].kind \in Kinds
       /\ op[t].seen \in Docs /\ op[t].held \in Docs
       /\ op[t].locks \subseteq Dirs
       /\ DOMAIN op[t].tag \subseteq Dirs
       /\ (op[t].pc = "idle") = (op[t] = Idle)
  /\ calls \in 0 .. MaxCalls /\ crashes \in 0 .. MaxCrashes
  /\ overtaken \cup buried \cup evicted \subseteq Ids \cup Dirs

Init ==
  /\ node \in Starts
  /\ entries_mac = [d \in Dirs |-> EntriesOf(d)]
  /\ entries_mac_pending = [d \in Dirs |-> {}]
  /\ dir_locks = [d \in Dirs |-> NoTask]
  /\ op = [t \in Tasks |-> Idle]
  /\ calls = 0 /\ crashes = 0
  /\ overtaken = {} /\ buried = {} /\ evicted = {} /\ alarms = {}

Begin(t, o) ==
  /\ calls' = calls + 1
  /\ op' = [op EXCEPT ![t] = o]
  /\ UNCHANGED <<docs, dir_locks, crashes, observers>>

\* The locks when the task keeps only those on S.
Keeping(t, S) ==
  [d \in Dirs |-> IF dir_locks[d] = t /\ d \notin S THEN NoTask ELSE dir_locks[d]]

\* Other handlers whose decisions rested on documents `D` or on the membership
\* of directories `M` have been overtaken; the task itself goes on as `o`.
Overtaking(t, o, D, M) ==
  op' = [u \in Tasks |->
           IF u = t THEN o
           ELSE [op[u] EXCEPT !.raced = @ \/ op[u].chain \cap D # {} \/ op[u].watch \cap M # {}]]

\* What a handler that was overtaken writes is no longer vouched for.
Note(t, S) == overtaken' = IF op[t].raced THEN overtaken \cup S ELSE overtaken

Leave(t) == op' = [op EXCEPT ![t] = Idle] /\ dir_locks' = Keeping(t, {})

Goto(t, pc) == op' = [op EXCEPT ![t].pc = pc]

-----------------------------------------------------------------------------
(* What a handler does before it takes a lock.                             *)

Paths == UNION {[1 .. k -> Names] : k \in 1 .. MaxDepth}

\* `makedir`, and `open` of a new file: nobody lives at the path, its parent is
\* a directory, and a uuid is drawn.
Make(t, i, path) ==
  \E d \in Resolve(Front(path)) \cap Dirs :
    /\ node[i].state = "fresh" /\ \A u \in Tasks : op[u].id # i
    /\ Resolve(path) = {}
    /\ Begin(t, [Idle EXCEPT !.pc = "lock", !.kind = "make", !.id = i, !.dst = d,
                             !.name = Last(path), !.locks = {d},
                             !.chain = {i, d} \cup Above(d)])

Discard(t, i, pc) ==
  Begin(t, [Idle EXCEPT !.pc = pc, !.kind = "trash", !.id = i, !.seen = node[i],
                        !.chain = {i}, !.watch = IF pc = "empty" THEN {i} ELSE {}])

\* `remove` and `trash` of whatever lives at the path; `removedir` looks for
\* live children first.
Trash(t, path) == \E i \in Resolve(path) : Discard(t, i, "mark")
RemoveDir(t, path) == \E i \in Resolve(path) \cap Folders : Discard(t, i, "empty")

\* `restore` up to its lock: found in the trash, and nothing above it is.
Restore(t, i) ==
  /\ InTrash(i)
  /\ Begin(t, [Idle EXCEPT !.pc = "lock", !.kind = "restore", !.id = i, !.seen = node[i],
                           !.dst = node[i].parent, !.name = node[i].name,
                           !.locks = {node[i].parent}, !.chain = {i} \cup Above(i)])

Purging(t, i) ==
  Begin(t, [Idle EXCEPT !.pc = "evictLock", !.kind = "purge", !.id = i, !.seen = node[i],
                        !.victim = i, !.held = node[i], !.chain = {i} \cup Above(i)])

\* `purge` by id, from the trash page or a job; `purge_expired` asks only for
\* what the trash shows.
Purge(t, i) == Trashed(i) /\ ReachesRoot(i) /\ Purging(t, i)
PurgeExpired(t, i) == InTrash(i) /\ Purging(t, i)

\* `rename`: the node is resolved, and refused if it is to go below itself.
BelowItselfFiles(i, old, new) == i \in Files /\ IsStrictPrefix(old, new)
BelowItself(i, old, new) == i \in Folders /\ IsStrictPrefix(old, new)

Rename(t, old, new, over) ==
  \E i \in Resolve(old) :
    /\ old # new
    /\ ~BelowItself(i, old, new)
    /\ Begin(t, [Idle EXCEPT !.pc = "parent", !.kind = "rename", !.id = i, !.seen = node[i],
                             !.name = Last(new), !.path = new, !.over = over,
                             !.chain = {i} \cup Above(i)])

\* The parent of the new path is resolved in an await of its own.
RenameParent(t) ==
  /\ op[t].pc = "parent"
  /\ LET found == Resolve(Front(op[t].path)) \cap Dirs IN
     IF found = {} THEN Leave(t)
     ELSE \E d \in found :
            /\ op' = [op EXCEPT ![t].pc = "lock", ![t].dst = d,
                                ![t].locks = {op[t].seen.parent, d},
                                ![t].chain = @ \cup {d} \cup Above(d)]
            /\ UNCHANGED dir_locks
  /\ UNCHANGED <<docs, calls, crashes, observers>>

\* `list_dir` reads the directory's document, tags and all, before its children;
\* `search` starts at the root and goes down.
Read(d) == [id |-> d, tags |-> TagsOf(d)]

List(t, path) ==
  \E d \in Resolve(path) \cap Dirs :
    Begin(t, [Idle EXCEPT !.pc = "read", !.kind = "list", !.queue = {Read(d)}, !.watch = {d}])

Search(t) ==
  Begin(t, [Idle EXCEPT !.pc = "read", !.kind = "search", !.queue = {Read(Root)},
                        !.watch = {Root}])

-----------------------------------------------------------------------------
(* Listing and searching: no lock, two reads.                              *)

AcceptsPromotedOnly(d, tags) == EntriesOf(d) = entries_mac[d]
Accepts(d, tags) == Vouched(d, tags)

\* The documents `children` returns carry the tags `search` will check below.
Deeper(d) == {Read(c) : c \in LiveChildren(d) \cap Folders}

ReadEntries(t) ==
  \E r \in op[t].queue :
    LET o == op[t]
        queue == (o.queue \ {r}) \cup (IF o.kind = "search" THEN Deeper(r.id) ELSE {})
    IN  /\ o.pc = "read"
        /\ IF ~Accepts(r.id, r.tags)
           THEN /\ alarms' = alarms \cup {[dir |-> r.id, raced |-> o.raced]}
                /\ Leave(t)
           ELSE /\ UNCHANGED alarms
                /\ IF queue = {} THEN Leave(t)
                   ELSE /\ op' = [op EXCEPT ![t].queue = queue,
                                            ![t].watch = {q.id : q \in queue}]
                        /\ UNCHANGED dir_locks
        /\ UNCHANGED <<docs, calls, crashes, overtaken, buried, evicted>>

-----------------------------------------------------------------------------
(* Trash: one write, no lock.                                              *)

\* `removedir`: live children are counted, in an await before the write.
CheckEmpty(t) ==
  /\ op[t].pc = "empty"
  /\ IF LiveChildren(op[t].id) = {} THEN Goto(t, "mark") /\ UNCHANGED dir_locks ELSE Leave(t)
  /\ UNCHANGED <<docs, calls, crashes, observers>>

WithState(i, state) == [node EXCEPT ![i].state = state]

\* `_set_trashed`: by id; a document that is gone is not matched.
Mark(t) ==
  LET i == op[t].id IN
  /\ op[t].pc = "mark"
  /\ node' = IF Present(i) THEN WithState(i, "trashed") ELSE node
  /\ Overtaking(t, Idle, {i}, {node[i].parent})
  /\ Note(t, {i})
  /\ UNCHANGED <<entries_mac, entries_mac_pending, dir_locks, calls, crashes,
                 buried, evicted, alarms>>

-----------------------------------------------------------------------------
(* Under the locks.                                                        *)

Lock(t) ==
  /\ op[t].pc = "lock"
  /\ \A d \in op[t].locks : dir_locks[d] = NoTask
  /\ dir_locks' = [d \in Dirs |-> IF d \in op[t].locks THEN t ELSE dir_locks[d]]
  /\ Goto(t, IF op[t].kind = "make" THEN "stage" ELSE "decide")
  /\ UNCHANGED <<docs, calls, crashes, observers>>

\* `restore` under its lock, by what the client chose for a name that is taken:
\* refuse or skip, put the occupant in the trash, or take a free name.
RestoreDecide(t, choice) ==
  LET o == op[t]
      occupants == LiveAt(o.seen.parent, o.seen.name)
      free == {n \in Names : LiveAt(o.seen.parent, n) = {}}
  IN
  /\ o.pc = "decide" /\ o.kind = "restore"
  /\ \/ /\ occupants = {}
        /\ Goto(t, "mutate") /\ UNCHANGED <<node, dir_locks>>
     \/ /\ occupants # {} /\ (choice = "fail" \/ (choice = "keep_both" /\ free = {}))
        /\ Leave(t) /\ UNCHANGED node
     \/ /\ choice = "replace"
        /\ \E v \in occupants :
             /\ node' = WithState(v, "trashed")
             /\ Overtaking(t, [o EXCEPT !.pc = "mutate"], {v}, {o.dst})
        /\ UNCHANGED dir_locks
     \/ /\ occupants # {} /\ choice = "keep_both"
        /\ \E n \in free : op' = [op EXCEPT ![t].pc = "stage", ![t].name = n]
        /\ UNCHANGED <<node, dir_locks>>
  /\ UNCHANGED <<entries_mac, entries_mac_pending, calls, crashes, observers>>

OccupantKept(o, v) == ~o.over

\* An occupant stops a rename that may not overwrite, or that would have to
\* destroy what still holds live children.
OccupantInTheWay(o, v) == ~o.over \/ (v \in Folders /\ LiveChildren(v) # {})

\* `rename` under its locks: the new path is looked up again.  An occupant that
\* is not in the way is trashed, and its purge begins.
RenameDecide(t) ==
  LET o == op[t]
      existing == Resolve(o.path)
  IN
  /\ o.pc = "decide" /\ o.kind = "rename"
  /\ \/ /\ existing = {}
        /\ Goto(t, "stage") /\ UNCHANGED <<node, dir_locks, evicted>>
     \/ \E v \in existing :
          /\ OccupantInTheWay(o, v)
          /\ Leave(t) /\ UNCHANGED <<node, evicted>>
     \/ \E v \in existing :
          /\ ~OccupantInTheWay(o, v)
          /\ node' = WithState(v, "trashed")
          /\ evicted' = evicted \cup {v}
          /\ Overtaking(t, [o EXCEPT !.pc = "evictLock", !.victim = v,
                                     !.held = [node[v] EXCEPT !.state = "trashed"],
                                     !.chain = @ \cup {v} \cup Above(v), !.watch = {v}],
                        {v}, {node[v].parent})
          /\ UNCHANGED dir_locks
  /\ UNCHANGED <<entries_mac, entries_mac_pending, calls, crashes, overtaken, buried, alarms>>

-----------------------------------------------------------------------------
(* `_stage_entries`, the change, and the promotion of the tag.             *)

\* The entries a handler takes out of directory d, and those it puts there.
Leaving(o, d) ==
  IF o.pc = "evict" THEN {<<o.victim, o.held.name>>}
  ELSE IF d = o.seen.parent THEN {<<o.id, o.seen.name>>} ELSE {}
Arriving(o, d) == IF o.pc # "evict" /\ d = o.dst THEN {<<o.id, o.name>>} ELSE {}

StagedDirs(o) ==
  IF o.pc = "evict" THEN {o.held.parent}
  ELSE {o.dst} \cup (IF o.kind = "rename" THEN {o.seen.parent} ELSE {})

Staged(o) ==
  [d \in StagedDirs(o) |-> (EntriesOf(d) \ Leaving(o, d)) \cup Arriving(o, d)]

\* Every directory staged still has its document, and its tag verifies.
Stageable(o) == \A d \in StagedDirs(o) : Present(d) /\ Vouched(d, TagsOf(d))

\* After a crash only the staged tag may match; staging again replaces it.
Overlaid(o) == {d \in StagedDirs(o) : entries_mac[d] # EntriesOf(d)}

Parked(tag) ==
  [d \in Dirs |-> IF d \in DOMAIN tag THEN {tag[d]} ELSE entries_mac_pending[d]]

Stage(t) ==
  LET o == op[t] IN
  /\ o.pc = "stage"
  /\ IF Stageable(o)
     THEN /\ entries_mac_pending' = Parked(Staged(o))
          /\ op' = [op EXCEPT ![t].pc = "mutate", ![t].tag = Staged(o)]
          /\ overtaken' = overtaken \cup Overlaid(o)
          /\ UNCHANGED dir_locks
     ELSE Leave(t) /\ UNCHANGED <<entries_mac_pending, overtaken>>
  /\ UNCHANGED <<node, entries_mac, calls, crashes, buried, evicted, alarms>>

\* `insert_one` for a new node; `update_one` by id, matching nothing if gone.
Written(o) ==
  LET i == o.id IN
  IF o.kind # "make" /\ ~Present(i) THEN node
  ELSE [node EXCEPT ![i] =
          Doc(IF o.kind = "rename" THEN @.state ELSE "live",
              IF o.kind = "restore" THEN @.parent ELSE o.dst, o.name)]

\* The unique index refuses a second live node under one name.
Refused(o) ==
  LET now == Written(o)[o.id] IN
  now.state = "live" /\ ~IndexAllows(o.id, now.parent, now.name)

Mutate(t) ==
  LET o == op[t] IN
  /\ o.pc = "mutate"
  /\ IF Refused(o)
     THEN Leave(t) /\ UNCHANGED <<node, overtaken>>
     ELSE /\ node' = Written(o)
          /\ Note(t, {o.id, o.dst, node[o.id].parent, o.seen.parent} \cap (Ids \cup Dirs))
          /\ Overtaking(t, [o EXCEPT !.pc = "commit"], {o.id},
                        {o.dst, node[o.id].parent})
          /\ UNCHANGED dir_locks
  /\ evicted' = {i \in evicted : node'[i].state # "live"}
  /\ UNCHANGED <<entries_mac, entries_mac_pending, calls, crashes, buried, alarms>>

Promoted(tag) == [d \in Dirs |-> IF d \in DOMAIN tag THEN tag[d] ELSE entries_mac[d]]
Unparked(tag) == [d \in Dirs |-> IF d \in DOMAIN tag THEN {} ELSE entries_mac_pending[d]]

Commit(t) ==
  /\ op[t].pc = "commit"
  /\ entries_mac' = Promoted(op[t].tag)
  /\ entries_mac_pending' = Unparked(op[t].tag)
  /\ Leave(t)
  /\ UNCHANGED <<node, calls, crashes, observers>>

-----------------------------------------------------------------------------
(* `purge`, on its own or for the occupant of a rename.                    *)

\* The parent's lock: held already when a rename purges within its target.
EvictLock(t) ==
  LET d == op[t].held.parent IN
  /\ op[t].pc = "evictLock"
  /\ dir_locks[d] \in {NoTask, t}
  /\ dir_locks' = [dir_locks EXCEPT ![d] = t]
  /\ Goto(t, "evict")
  /\ UNCHANGED <<docs, calls, crashes, observers>>

\* The subtree is listed and the parent's next tag staged.
Evict(t) ==
  LET o == op[t] IN
  /\ o.pc = "evict"
  /\ IF Stageable(o)
     THEN /\ entries_mac_pending' = Parked(Staged(o))
          /\ op' = [op EXCEPT ![t].pc = "destroy", ![t].tag = Staged(o),
                              ![t].tree = [i \in Subtree(o.victim) |-> node[i].parent],
                              ![t].rest = Subtree(o.victim),
                              ![t].chain = @ \cup Subtree(o.victim)]
          /\ overtaken' = overtaken \cup Overlaid(o)
          /\ UNCHANGED dir_locks
     ELSE Leave(t) /\ UNCHANGED <<entries_mac_pending, overtaken>>
  /\ UNCHANGED <<node, entries_mac, calls, crashes, buried, evicted, alarms>>

\* Put in the bin by somebody, itself or with the directory it was in.
Binned(i) == (Trashed(i) /\ i \notin evicted) \/ node[i].parent \in buried

\* The directory that loses an entry no staged tag leaves out.
Unstaged(o, i) ==
  IF i = o.victim /\ node[i].parent = o.held.parent /\ node[i].name = o.held.name
  THEN {} ELSE {node[i].parent}

\* What a purge that was overtaken destroys, and what is destroyed with a
\* directory that somebody overtaken had written.
Unvouched(o, i) ==
  IF o.raced THEN o.rest \cup Unstaged(o, i)
  ELSE IF i # o.victim /\ node[i].parent \in overtaken THEN {i} ELSE {}

\* The attachments go first (module FileHandle has them), then the documents,
\* parents before children.
Destroy(t, i) ==
  LET o == op[t] IN
  /\ o.pc = "destroy"
  /\ i \in o.rest /\ (i # o.victim => o.tree[i] \notin o.rest)
  /\ node' = WithState(i, "gone")
  /\ buried' = IF Binned(i) THEN buried \cup {i} ELSE buried
  /\ overtaken' = overtaken \cup Unvouched(o, i)
  /\ Overtaking(t, [o EXCEPT !.rest = @ \ {i}, !.pc = IF o.rest = {i} THEN "unname" ELSE @],
                {i}, {node[i].parent})
  /\ UNCHANGED <<entries_mac, entries_mac_pending, dir_locks, calls, crashes, evicted, alarms>>

\* The tag without the victim is promoted; a rename then goes on.
Unname(t) ==
  LET o == op[t] IN
  /\ o.pc = "unname"
  /\ entries_mac' = Promoted(o.tag)
  /\ entries_mac_pending' = Unparked(o.tag)
  /\ IF o.kind = "rename"
     THEN op' = [op EXCEPT ![t].pc = "stage", ![t].tag = <<>>, ![t].victim = NoId]
          /\ dir_locks' = Keeping(t, op[t].locks)
     ELSE Leave(t)
  /\ UNCHANGED <<node, calls, crashes, observers>>

-----------------------------------------------------------------------------
(* The process dies: handlers and locks are memory.                        *)

\* Documents a purge was about to delete when the process died.
HalfPurged == UNION {op[t].rest : t \in {u \in Tasks : op[u].pc = "destroy"}}

Crash ==
  /\ crashes < MaxCrashes
  /\ \E t \in Tasks : op[t].pc # "idle"
  /\ crashes' = crashes + 1
  /\ op' = [t \in Tasks |-> Idle]
  /\ dir_locks' = [d \in Dirs |-> NoTask]
  /\ overtaken' = overtaken \cup HalfPurged
  /\ UNCHANGED <<docs, calls, buried, evicted, alarms>>

\* What a client, a job or the sweeper may ask for.
Request(t) ==
  \/ \E i \in Ids, path \in Paths : Make(t, i, path)
  \/ \E path \in Paths : Trash(t, path) \/ RemoveDir(t, path) \/ List(t, path)
  \/ \E i \in Ids : Restore(t, i) \/ Purge(t, i) \/ PurgeExpired(t, i)
  \/ \E old \in Paths : Resolve(old) # {} /\
       \E new \in Paths, over \in BOOLEAN : Rename(t, old, new, over)
  \/ Search(t)

Next ==
  \/ \E t \in Tasks :
       \/ op[t].pc = "idle" /\ calls < MaxCalls /\ Request(t)
       \/ RenameParent(t) \/ CheckEmpty(t) \/ Mark(t) \/ ReadEntries(t)
       \/ Lock(t) \/ RenameDecide(t) \/ Stage(t) \/ Mutate(t) \/ Commit(t)
       \/ \E i \in op[t].rest : Destroy(t, i)
       \/ \E choice \in {"fail", "replace", "keep_both"} : RestoreDecide(t, choice)
       \/ EvictLock(t) \/ Evict(t) \/ Unname(t)
  \/ Crash

Spec == Init /\ [][Next]_vars

-----------------------------------------------------------------------------
(* What the tree promises.                                                 *)

\* Every document in the database can be walked to from the root, or its
\* subtree shows up in the trash: nothing is stored that nobody can name
\* (src/src/vfs.py:2087).  Excused are documents below one that was written by
\* a handler whose reading of the tree another handler had overtaken, and those
\* a purge was deleting when the process died.
NothingIsLost ==
  \A i \in Ids : Present(i) =>
    \/ ReachesRoot(i) \/ i \in HalfPurged
    \/ ({i} \cup Above(i)) \cap overtaken # {}

\* No directory is within itself: "cannot move a directory into its own
\* subtree" is what `rename` answers to a path below the node it moves
\* (src/src/vfs.py:2060).
NoDirectoryWithinItself == \A d \in Folders : Present(d) => d \notin Above(d)

\* A listing or a search reports tampering only when the directory changed
\* between the two reads it makes, or was written by a handler that had been
\* overtaken: crashes, staged tags and purges of neighbours never raise one.
AlarmsHaveARace == \A a \in alarms : a.raced \/ a.dir \in overtaken

\* A document is destroyed only if somebody had put it, or a directory above
\* it, in the trash, or as the empty directory a rename replaces; or else a
\* handler was overtaken between looking and destroying.
DestroyedWasDiscarded ==
  \A i \in Ids : node[i].state = "gone" => i \in buried \cup evicted \cup overtaken
=============================================================================
