----------------------------- MODULE DirEntries -----------------------------
(***************************************************************************)
(* The structural layer of src/src/vfs.py: which documents sit in which    *)
(* directory, the two tags that vouch for it, and the handlers that move,  *)
(* create, trash, restore, purge and overwrite files while other handlers  *)
(* run, fail or die.                                                       *)
(*                                                                         *)
(* A directory document carries `entries_mac` and, while a change is under *)
(* way, `entries_mac_pending`.  A tag is an HMAC over the list of          *)
(* (id, filename) pairs it was computed from; the model keeps, for each    *)
(* tag, the set of child sets it verifies: {S} for a list without          *)
(* repetitions whose elements are S, and {} for a list that names an entry *)
(* twice or for an absent tag.  A file's own `mac` is represented by the   *)
(* identity it was computed over.                                          *)
(*                                                                         *)
(* Every handler is a task of the asyncio server.  A step of a task is     *)
(* what it does between two awaits; the awaits that are merged are named   *)
(* where they are merged.  Contents, keys, permissions and times are left  *)
(* out: chunks are the business of module FileHandle.                       *)
(***************************************************************************)
EXTENDS Integers, FiniteSets

CONSTANTS
  Dirs,          \* directories that exist throughout; numbered in sort order
  Names,         \* filenames
  Ids,           \* uuids a node may draw
  Tasks,         \* asyncio tasks serving requests
  NoName, NoId, NoTask,
  NullsDistinct, \* whether the unique index ignores (null, null): SQLite
  MaxCuts        \* bound on failures and crashes together

ASSUME DirsAssumption == Dirs \subseteq Nat \ {0} /\ IsFiniteSet(Dirs)
ASSUME NullAssumption == NoName \notin Names /\ NoId \notin Ids /\ NoTask \notin Tasks
ASSUME IndexAssumption == NullsDistinct \in BOOLEAN
ASSUME CutsAssumption == MaxCuts \in Nat

NoDir == 0

VARIABLES
  node,      \* Ids -> document (or "fresh": not drawn, "gone": no document)
  entries_mac,         \* Dirs -> what the promoted tag verifies
  entries_mac_pending, \* Dirs -> what the staged tag verifies
  dir_locks, \* Dirs -> the task holding the directory's lock
  op,        \* Tasks -> the handler the task is in
  cuts,      \* failures and crashes so far
  blind,     \* observer: directories written from an out-of-date snapshot
  overlaid   \* observer: directories whose only matching tag was overwritten

vars == <<node, entries_mac, entries_mac_pending, dir_locks, op, cuts, blind, overlaid>>
tags == <<entries_mac, entries_mac_pending>>
observers == <<blind, overlaid>>

-----------------------------------------------------------------------------
(* Documents and tags.                                                     *)

Entries == Ids \X (Names \cup {NoName})
Tags == SUBSET SUBSET Entries

Kinds == {"none", "create", "trash", "restore", "purge", "rename",
          "overwrite", "rollback"}
Steps == {"idle", "open", "lock", "decide", "evictStage", "evictDelete",
          "evictCommit", "stage", "mutate", "commit"}

States == {"fresh", "gone", "live", "trashed"}

Docs == [state : States, parent : Dirs \cup {NoDir}, name : Names \cup {NoName},
         mac : (Dirs \cup {NoDir}) \X (Names \cup {NoName}) \X States]

\* What `node_tag` and `dir_tag` cover of a document's identity.
Identity(parent, name, state) == <<parent, name, state>>

Doc(state, parent, name) ==
  [state |-> state, parent |-> parent, name |-> name,
   mac |-> Identity(parent, name, state)]

Gone == Doc("gone", NoDir, NoName)

Present(i) == node[i].state \in {"live", "trashed"}

\* `_verify_node`: the stored tag is the tag of the document as it stands.
Verified(i) ==
  node[i].mac = Identity(node[i].parent, node[i].name, node[i].state)

\* `children`: trashed ones included.
Children(d) ==
  {<<i, node[i].name>> : i \in {j \in Ids : Present(j) /\ node[j].parent = d}}

\* `find_one({parent_id, filename, trashed_at: None})`: at most one, by the index.
LiveAt(d, n) ==
  {i \in Ids : node[i].state = "live" /\ node[i].parent = d /\ node[i].name = n}

\* The partial unique index over (parent_id, filename) of live documents.
IndexAllows(i, d, n) ==
  \/ LiveAt(d, n) \subseteq {i}
  \/ d = NoDir /\ NullsDistinct

\* `verify_dir_entries` accepts either tag.
EntriesVerify(d) == Children(d) \in entries_mac[d] \cup entries_mac_pending[d]

TagOfAddsOnly(current, add, drop) ==
  IF add \cap current = {} THEN {current \cup add} ELSE {}

\* `dir_entries_tag` over `[e for e in current if e not in dropped] + add`.
TagOf(current, add, drop) ==
  IF add \cap (current \ drop) = {} THEN {(current \ drop) \cup add} ELSE {}

-----------------------------------------------------------------------------
(* Handlers.                                                               *)

NoTags == [d \in Dirs |-> {}]

\* seen: the snapshot of the node the handler works from (the dict it read);
\* from, dst: directories that lose `<<id, seen.name>>` and gain `<<id, name>>`;
\* locks: what `_locked_dirs` was asked for; open: directories staged and not
\* yet promoted; tag: the value each `commit` closure holds.
Idle ==
  [pc |-> "idle", kind |-> "none", id |-> NoId, seen |-> Gone,
   from |-> NoDir, dst |-> NoDir, name |-> NoName, victim |-> NoId,
   locks |-> {}, open |-> {}, tag |-> NoTags]

Ops ==
  [pc : Steps, kind : Kinds, id : Ids \cup {NoId}, seen : Docs,
   from : Dirs \cup {NoDir}, dst : Dirs \cup {NoDir}, name : Names \cup {NoName},
   victim : Ids \cup {NoId}, locks : SUBSET Dirs, open : SUBSET Dirs,
   tag : [Dirs -> Tags]]

TypeOK ==
  /\ node \in [Ids -> Docs]
  /\ entries_mac \in [Dirs -> Tags]
  /\ entries_mac_pending \in [Dirs -> Tags]
  /\ dir_locks \in [Dirs -> Tasks \cup {NoTask}]
  /\ op \in [Tasks -> Ops]
  /\ cuts \in 0 .. MaxCuts
  /\ blind \subseteq Dirs
  /\ overlaid \subseteq Dirs

\* Every directory document carries both tags from the start: `_new_dir_doc`.
Init ==
  /\ node = [i \in Ids |-> Doc("fresh", NoDir, NoName)]
  /\ entries_mac = [d \in Dirs |-> {{}}]
  /\ entries_mac_pending = NoTags
  /\ dir_locks = [d \in Dirs |-> NoTask]
  /\ op = [t \in Tasks |-> Idle]
  /\ cuts = 0
  /\ blind = {}
  /\ overlaid = {}

\* `{d for d in dir_ids if d}`: a detached node has no directory to lock.
WantedUnfiltered(dirs) == dirs
Wanted(dirs) == dirs \ {NoDir}

Held(t) == {d \in Dirs : dir_locks[d] = t}

Released(t) == [d \in Dirs |-> IF dir_locks[d] = t THEN NoTask ELSE dir_locks[d]]

StageDirs(o) == {o.from, o.dst} \ {NoDir}

\* Where a handler goes once it holds its locks and has checked what it checks.
Ready(o) == [o EXCEPT !.pc = IF StageDirs(o) = {} THEN "mutate" ELSE "stage"]

\* A rollback that forgets to un-name the node in its parent.
RollbackUnstaged(o, copy) ==
  [Idle EXCEPT !.pc = "mutate", !.kind = "rollback", !.id = o.id, !.seen = copy]

\* `_rollback` of a handle whose own copy of the node is `copy`.
Rollback(o, copy) ==
  LET undo == [Idle EXCEPT !.kind = "rollback", !.id = o.id, !.seen = copy,
                           !.from = copy.parent, !.locks = Wanted({copy.parent})]
  IN  IF undo.locks = {} THEN Ready(undo) ELSE [undo EXCEPT !.pc = "lock"]

\* How a handler leaves when it raises: its locks go with the `finally`, and
\* `close` answers a failed swap with a rollback of the incoming node.
Raise(t) ==
  /\ dir_locks' = Released(t)
  /\ op' = [op EXCEPT ![t] = IF @.kind = "overwrite" THEN Rollback(@, @.seen) ELSE Idle]

\* How a handler leaves when it is done: `after` is what its task is in next.
Finish(t, after) ==
  /\ dir_locks' = Released(t)
  /\ op' = [op EXCEPT ![t] = after]

\* The write a handler is about to make rests on a snapshot that is no longer
\* what the document says.  A delete uses only the node's place; writing to a
\* document that is gone matters only where a tag was staged for it.
Stale(t) ==
  LET o == op[t]
      now == node[o.id]
      deletes == o.kind \in {"purge", "rollback"}
  IN  /\ deletes \/ StageDirs(o) = {} => Present(o.id)
      /\ IF deletes THEN <<now.parent, now.name>> # <<o.seen.parent, o.seen.name>>
         ELSE now # o.seen

Touched(t) == {op[t].seen.parent, node[op[t].id].parent, op[t].dst} \ {NoDir}

NoteBlind(t) == blind' = IF Stale(t) THEN blind \cup Touched(t) ELSE blind

-----------------------------------------------------------------------------
(* What a handler does before it takes a lock: resolve a path, verifying   *)
(* the node it reads, and refuse what can be refused.                      *)

\* `_create_file` and `makedir` up to `_locked_dirs`: the uuid is drawn, and
\* nobody lives at the path.
BeginCreate(t, i, d, n) ==
  /\ op[t].pc = "idle"
  /\ node[i].state = "fresh"
  /\ LiveAt(d, n) = {}
  /\ node' = [node EXCEPT ![i] = Gone]
  /\ op' = [op EXCEPT ![t] = [Idle EXCEPT !.pc = "lock", !.kind = "create", !.id = i,
                                          !.dst = d, !.name = n, !.locks = {d}]]
  /\ UNCHANGED <<tags, dir_locks, cuts, observers>>

\* `open` with O_TRUNC on an existing file: `_begin_overwrite` inserts a
\* detached node, which the unique index may refuse; the handle is then open.
BeginOverwrite(t, i, d, n) ==
  /\ op[t].pc = "idle"
  /\ node[i].state = "fresh"
  /\ \E old \in LiveAt(d, n) : Verified(old)
  /\ IndexAllows(i, NoDir, NoName)
  /\ node' = [node EXCEPT ![i] = Doc("live", NoDir, NoName)]
  /\ op' = [op EXCEPT ![t] = [Idle EXCEPT !.pc = "open", !.kind = "overwrite", !.id = i,
                                          !.seen = Doc("live", NoDir, NoName),
                                          !.dst = d, !.name = n, !.locks = {d}]]
  /\ UNCHANGED <<tags, dir_locks, cuts, observers>>

RenameLocks(source, target) == {source, target}

\* `rename` up to `_locked_dirs`: the snapshot is taken here and never again.
BeginRename(t, i, d, n) ==
  /\ op[t].pc = "idle"
  /\ node[i].state = "live" /\ node[i].parent # NoDir /\ Verified(i)
  /\ <<d, n>> # <<node[i].parent, node[i].name>>
  /\ op' = [op EXCEPT ![t] = [Idle EXCEPT !.pc = "lock", !.kind = "rename", !.id = i,
                                          !.seen = node[i], !.from = node[i].parent,
                                          !.dst = d, !.name = n,
                                          !.locks = RenameLocks(node[i].parent, d)]]
  /\ UNCHANGED <<node, tags, dir_locks, cuts, observers>>

\* `remove`, `removedir` and `trash`: no lock, the membership does not change.
BeginTrash(t, i) ==
  /\ op[t].pc = "idle"
  /\ node[i].state = "live" /\ node[i].parent # NoDir /\ Verified(i)
  /\ op' = [op EXCEPT ![t] = [Idle EXCEPT !.pc = "mutate", !.kind = "trash", !.id = i,
                                          !.seen = node[i]]]
  /\ UNCHANGED <<node, tags, dir_locks, cuts, observers>>

\* `restore` up to `_locked_dirs`.
BeginRestore(t, i) ==
  /\ op[t].pc = "idle"
  /\ node[i].state = "trashed" /\ node[i].parent # NoDir /\ Verified(i)
  /\ op' = [op EXCEPT ![t] = [Idle EXCEPT !.pc = "lock", !.kind = "restore", !.id = i,
                                          !.seen = node[i], !.name = node[i].name,
                                          !.locks = {node[i].parent}]]
  /\ UNCHANGED <<node, tags, dir_locks, cuts, observers>>

Purgeable(i) == node[i].state = "trashed" /\ node[i].parent # NoDir /\ Verified(i)

\* `purge` up to `_locked_dirs`, from the client, a job or `purge_expired`.
BeginPurge(t, i) ==
  /\ op[t].pc = "idle"
  /\ Purgeable(i)
  /\ op' = [op EXCEPT ![t] = [Idle EXCEPT !.pc = "lock", !.kind = "purge", !.id = i,
                                          !.seen = node[i], !.from = node[i].parent,
                                          !.locks = {node[i].parent}]]
  /\ UNCHANGED <<node, tags, dir_locks, cuts, observers>>

-----------------------------------------------------------------------------
(* What an open handle does to the directory.                              *)

\* `_sync`: another connection moved the mac, so the node is fetched
\* again; the trash marker is not among the fields it copies.
Sync(t) ==
  LET i == op[t].id IN
  /\ op[t].pc = "open"
  /\ Present(i) /\ Verified(i)
  /\ node[i].mac # op[t].seen.mac
  /\ op' = [op EXCEPT ![t].seen = [node[i] EXCEPT !.state = op[t].seen.state]]
  /\ UNCHANGED <<node, tags, dir_locks, cuts, observers>>

\* `close` after the last flush: only an overwrite has something left to do.
Close(t) ==
  /\ op[t].pc = "open"
  /\ op' = [op EXCEPT ![t] = IF @.kind = "overwrite" THEN [@ EXCEPT !.pc = "lock"] ELSE Idle]
  /\ UNCHANGED <<node, tags, dir_locks, cuts, observers>>

\* `abort`, or a write that failed: `_rollback` of a file this handle created.
Abort(t) ==
  /\ op[t].pc = "open"
  /\ op' = [op EXCEPT ![t] = Rollback(@, @.seen)]
  /\ UNCHANGED <<node, tags, dir_locks, cuts, observers>>

-----------------------------------------------------------------------------
(* `_locked_dirs`: the directories wanted, one at a time in sorted order.  *)

FreeOrHeld(d) == TRUE
Free(d) == dir_locks[d] = NoTask

NextUnsorted(wanted, d) == d \in wanted
NextWanted(wanted, d) == d \in wanted /\ \A e \in wanted : d <= e

Lock(t, d) ==
  LET wanted == op[t].locks \ Held(t) IN
  /\ op[t].pc = "lock"
  /\ NextWanted(wanted, d)
  /\ Free(d)
  /\ dir_locks' = [dir_locks EXCEPT ![d] = t]
  /\ op' = [op EXCEPT ![t] =
              IF wanted # {d} THEN @
              ELSE IF @.kind \in {"restore", "rename", "overwrite"}
                   THEN [@ EXCEPT !.pc = "decide"] ELSE Ready(@)]
  /\ UNCHANGED <<node, tags, cuts, observers>>

-----------------------------------------------------------------------------
(* The checks made under the lock.  Looking the occupant up and trashing   *)
(* it are two awaits of one handler, merged into one step.                 *)

\* `_set_trashed` of a document that was just read.
SetTrashed(v) == [node EXCEPT ![v] = Doc("trashed", node[v].parent, node[v].name)]

NameTaken(t) ==
  /\ op[t].pc = "decide"
  /\ LiveAt(op[t].dst, op[t].name) # {}

\* Nobody lives where the node is going; for `_finish_overwrite`, nobody else.
NameFree(t) ==
  /\ op[t].pc = "decide" /\ op[t].kind \in {"rename", "overwrite"}
  /\ LiveAt(op[t].dst, op[t].name) = {}
  /\ op' = [op EXCEPT ![t] = Ready(@)]
  /\ UNCHANGED <<node, tags, dir_locks, cuts, observers>>

\* `rename` without `overwrite`, or an occupant whose own tag does not verify.
RenameRefused(t) ==
  /\ NameTaken(t) /\ op[t].kind = "rename"
  /\ Raise(t)
  /\ UNCHANGED <<node, tags, cuts, observers>>

\* `posix_rename` over an occupant: trashed, then handed to `purge`, which
\* reads it again (the same await as the trashing here).
Evict(t, v) ==
  /\ NameTaken(t) /\ op[t].kind = "rename"
  /\ v \in LiveAt(op[t].dst, op[t].name) /\ Verified(v)
  /\ node' = SetTrashed(v)
  /\ op' = [op EXCEPT ![t].pc = "evictStage", ![t].victim = v]
  /\ UNCHANGED <<tags, dir_locks, cuts, observers>>

\* `_finish_overwrite`: whoever lives under the name goes to the trash.
Displace(t, v) ==
  /\ NameTaken(t) /\ op[t].kind = "overwrite"
  /\ v \in LiveAt(op[t].dst, op[t].name) /\ Verified(v)
  /\ node' = SetTrashed(v)
  /\ op' = [op EXCEPT ![t] = Ready(@)]
  /\ UNCHANGED <<tags, dir_locks, cuts, observers>>

\* It raises for an occupant whose own tag does not verify, and for one that is
\* a directory, as any occupant here may be.
DisplaceRefused(t) ==
  /\ NameTaken(t) /\ op[t].kind = "overwrite"
  /\ Raise(t)
  /\ UNCHANGED <<node, tags, cuts, observers>>

\* `restore`: nothing lives under the node's name, so only its marker changes.
RestoreUnopposed(t) ==
  /\ op[t].pc = "decide" /\ op[t].kind = "restore"
  /\ LiveAt(op[t].seen.parent, op[t].name) = {}
  /\ op' = [op EXCEPT ![t] = Ready(@)]
  /\ UNCHANGED <<node, tags, dir_locks, cuts, observers>>

RestoreConflict(t) ==
  /\ op[t].pc = "decide" /\ op[t].kind = "restore"
  /\ LiveAt(op[t].seen.parent, op[t].name) # {}

\* on_conflict "skip" or "fail", or an occupant that does not verify.
RestoreRefused(t) ==
  /\ RestoreConflict(t)
  /\ Raise(t)
  /\ UNCHANGED <<node, tags, cuts, observers>>

\* on_conflict "replace": the occupant goes to the trash.
RestoreReplacing(t, v) ==
  /\ RestoreConflict(t)
  /\ v \in LiveAt(op[t].seen.parent, op[t].name) /\ Verified(v)
  /\ node' = SetTrashed(v)
  /\ op' = [op EXCEPT ![t] = Ready(@)]
  /\ UNCHANGED <<tags, dir_locks, cuts, observers>>

\* on_conflict "keep_both": `_free_name` picks a name nobody lives under, and
\* the new name makes the membership change.
RestoreKeepingBoth(t, n) ==
  /\ RestoreConflict(t)
  /\ LiveAt(op[t].seen.parent, n) = {}
  /\ op' = [op EXCEPT ![t] = Ready([@ EXCEPT !.name = n, !.from = op[t].seen.parent,
                                             !.dst = op[t].seen.parent])]
  /\ UNCHANGED <<node, tags, dir_locks, cuts, observers>>

-----------------------------------------------------------------------------
(* stage -> mutate -> commit.  `_stage_entries` reads the directory, lists *)
(* its children and writes the new tag in three awaits, merged: whoever    *)
(* changes the children meanwhile holds another lock and is in `blind`.    *)

\* Entries the staging of d adds and drops.
Arriving(o, d) == IF d = o.dst THEN {<<o.id, o.name>>} ELSE {}
Leaving(o, d) == IF d = o.from THEN {<<o.id, o.seen.name>>} ELSE {}

Park(t, d, tag) ==
  /\ entries_mac_pending' = [entries_mac_pending EXCEPT ![d] = tag]
  /\ overlaid' = IF Children(d) \in entries_mac[d] THEN overlaid ELSE overlaid \cup {d}

\* A rename stages the directory it leaves before the one it enters.
NextToStage(o, d) ==
  /\ o.pc = "stage"
  /\ d \in StageDirs(o) \ o.open
  /\ o.from \in {NoDir, d} \cup o.open

Stage(t, d) ==
  LET staged == TagOf(Children(d), Arriving(op[t], d), Leaving(op[t], d)) IN
  /\ NextToStage(op[t], d)
  /\ EntriesVerify(d)
  /\ Park(t, d, staged)
  /\ op' = [op EXCEPT ![t].open = @ \cup {d}, ![t].tag[d] = staged,
                      ![t].pc = IF StageDirs(op[t]) = op[t].open \cup {d}
                                THEN "mutate" ELSE "stage"]
  /\ UNCHANGED <<node, entries_mac, dir_locks, cuts, blind>>

\* The directory does not verify: the handler raises, and `_rollback` leaves
\* the node where it is.
StageRefused(t, d) ==
  /\ NextToStage(op[t], d)
  /\ ~EntriesVerify(d)
  /\ Raise(t)
  /\ UNCHANGED <<node, tags, cuts, observers>>

\* What follows a mutation: the commits, or the end.
Mutated(t) ==
  IF op[t].open = {} THEN Finish(t, Idle)
  ELSE op' = [op EXCEPT ![t].pc = "commit"] /\ UNCHANGED dir_locks

AtMutation(t, kinds) == op[t].pc = "mutate" /\ op[t].kind \in kinds

\* `insert_one` of a new file or directory.
InsertNode(t) ==
  LET o == op[t] IN
  /\ AtMutation(t, {"create"})
  /\ IF IndexAllows(o.id, o.dst, o.name)
     THEN /\ node' = [node EXCEPT ![o.id] = Doc("live", o.dst, o.name)]
          /\ op' = [op EXCEPT ![t].pc = "commit", ![t].seen = Doc("live", o.dst, o.name)]
          /\ UNCHANGED dir_locks
     ELSE Raise(t) /\ UNCHANGED node
  /\ UNCHANGED <<tags, cuts, observers>>

\* The `update_one` of `rename` and `_finish_overwrite`: parent, filename and a
\* mac computed from the snapshot.  Matching no document is not an error.
MoveNode(t) ==
  LET o == op[t]
      moved == [node[o.id] EXCEPT !.parent = o.dst, !.name = o.name,
                  !.mac = Identity(o.dst, o.name, o.seen.state)]
  IN
  /\ AtMutation(t, {"rename", "overwrite"})
  /\ IF node[o.id].state = "live" /\ ~IndexAllows(o.id, o.dst, o.name)
     THEN Raise(t) /\ UNCHANGED <<node, blind>>
     ELSE /\ node' = IF Present(o.id) THEN [node EXCEPT ![o.id] = moved] ELSE node
          /\ op' = [op EXCEPT ![t].pc = "commit",
                              ![t].seen = IF o.kind = "overwrite"
                                          THEN Doc("live", o.dst, o.name) ELSE @]
          /\ NoteBlind(t)
          /\ UNCHANGED dir_locks
  /\ UNCHANGED <<tags, cuts, overlaid>>

\* The `update_one` of `restore`: filename, mac, and no trash marker any more.
RestoreNode(t) ==
  LET o == op[t]
      back == [node[o.id] EXCEPT !.state = "live", !.name = o.name,
                 !.mac = Identity(o.seen.parent, o.name, "live")]
  IN
  /\ AtMutation(t, {"restore"})
  /\ IF Present(o.id) /\ ~IndexAllows(o.id, node[o.id].parent, o.name)
     THEN Raise(t) /\ UNCHANGED <<node, blind>>
     ELSE /\ node' = IF Present(o.id) THEN [node EXCEPT ![o.id] = back] ELSE node
          /\ NoteBlind(t)
          /\ Mutated(t)
  /\ UNCHANGED <<tags, cuts, overlaid>>

\* The `update_one` of `_set_trashed`, reached from `remove` and its kin.
TrashNode(t) ==
  LET o == op[t]
      trashed == [node[o.id] EXCEPT !.state = "trashed",
                    !.mac = Identity(o.seen.parent, o.seen.name, "trashed")]
  IN
  /\ AtMutation(t, {"trash"})
  /\ node' = IF Present(o.id) THEN [node EXCEPT ![o.id] = trashed] ELSE node
  /\ NoteBlind(t)
  /\ Mutated(t)
  /\ UNCHANGED <<tags, cuts, overlaid>>

\* The `delete_one` of `purge` and `_rollback`.
DeleteNode(t) ==
  /\ AtMutation(t, {"purge", "rollback"})
  /\ node' = [node EXCEPT ![op[t].id] = Gone]
  /\ NoteBlind(t)
  /\ Mutated(t)
  /\ UNCHANGED <<tags, cuts, overlaid>>

\* `purge` consults `cancelled` between attachments and then simply returns.
CancelPurge(t) ==
  /\ AtMutation(t, {"purge"})
  /\ Finish(t, Idle)
  /\ UNCHANGED <<node, tags, cuts, observers>>

Promote(d, tag) ==
  /\ entries_mac' = [entries_mac EXCEPT ![d] = tag]
  /\ entries_mac_pending' = [entries_mac_pending EXCEPT ![d] = {}]
  /\ overlaid' = overlaid \ {d}

\* A file's creator is left with an open handle; a directory's is done.
Commit(t, d) ==
  LET o == op[t] IN
  /\ o.pc = "commit" /\ d \in o.open
  /\ o.from \in o.open => d = o.from
  /\ Promote(d, o.tag[d])
  /\ IF o.open # {d}
     THEN op' = [op EXCEPT ![t].open = @ \ {d}] /\ UNCHANGED dir_locks
     ELSE \/ Finish(t, Idle)
          \/ /\ o.kind = "create"
             /\ Finish(t, [Idle EXCEPT !.pc = "open", !.kind = "create",
                                       !.id = o.id, !.seen = o.seen])
  /\ UNCHANGED <<node, cuts, blind>>

-----------------------------------------------------------------------------
(* `purge` of the occupant, reached from `rename` with both ends held: the *)
(* lock is re-entrant, and the directory is staged and promoted on its own. *)

EvictStage(t) ==
  LET o == op[t]
      staged == TagOf(Children(o.dst), {}, {<<o.victim, o.name>>})
  IN
  /\ o.pc = "evictStage"
  /\ EntriesVerify(o.dst)
  /\ Park(t, o.dst, staged)
  /\ op' = [op EXCEPT ![t].open = {o.dst}, ![t].tag[o.dst] = staged,
                      ![t].pc = "evictDelete"]
  /\ UNCHANGED <<node, entries_mac, dir_locks, cuts, blind>>

EvictRefused(t) ==
  /\ op[t].pc = "evictStage"
  /\ ~EntriesVerify(op[t].dst)
  /\ Raise(t)
  /\ UNCHANGED <<node, tags, cuts, observers>>

EvictDelete(t) ==
  LET v == op[t].victim
      place == <<node[v].parent, node[v].name>>
  IN
  /\ op[t].pc = "evictDelete"
  /\ node' = [node EXCEPT ![v] = Gone]
  /\ blind' = IF Present(v) /\ place # <<op[t].dst, op[t].name>>
              THEN blind \cup ({op[t].dst, node[v].parent} \ {NoDir}) ELSE blind
  /\ op' = [op EXCEPT ![t].pc = "evictCommit"]
  /\ UNCHANGED <<tags, dir_locks, cuts, overlaid>>

EvictCommit(t) ==
  LET o == op[t] IN
  /\ o.pc = "evictCommit"
  /\ Promote(o.dst, o.tag[o.dst])
  /\ op' = [op EXCEPT ![t].open = {}, ![t].pc = "stage"]
  /\ UNCHANGED <<node, dir_locks, cuts, blind>>

-----------------------------------------------------------------------------
(* What goes wrong, and what cleans up.                                    *)

Running(t) == op[t].pc \notin {"idle", "open"}

\* An await raises: the database is unreachable, or the task is cancelled, in
\* which case the `except Exception` of `close` does not see it.  The write
\* being awaited may have been applied (failing after the step) or not.
Fail(t) ==
  /\ Running(t) /\ cuts < MaxCuts
  /\ cuts' = cuts + 1
  /\ \/ Raise(t)
     \/ Finish(t, Idle)
     \/ /\ op[t].kind = "overwrite" /\ op[t].pc = "commit"
        /\ Finish(t, Rollback(op[t], Doc("live", NoDir, NoName)))
  /\ UNCHANGED <<node, tags, observers>>

\* The process dies: the locks and the tasks were only ever in its memory.
Crash ==
  /\ cuts < MaxCuts
  /\ cuts' = cuts + 1
  /\ dir_locks' = [d \in Dirs |-> NoTask]
  /\ op' = [t \in Tasks |-> Idle]
  /\ UNCHANGED <<node, tags, observers>>

\* `sweep_incoming`, old enough to be past `max_age`: by then no handle is
\* still writing into the node.
SweepIncoming(i) ==
  /\ node[i].state = "live" /\ node[i].parent = NoDir /\ Verified(i)
  /\ \A t \in Tasks : op[t].id # i
  /\ node' = [node EXCEPT ![i] = Gone]
  /\ UNCHANGED <<tags, dir_locks, op, cuts, observers>>

-----------------------------------------------------------------------------

Begin(t) ==
  \E i \in Ids :
    \/ \E d \in Dirs, n \in Names :
         BeginCreate(t, i, d, n) \/ BeginOverwrite(t, i, d, n) \/ BeginRename(t, i, d, n)
    \/ BeginTrash(t, i) \/ BeginRestore(t, i) \/ BeginPurge(t, i)

Handle(t) == Sync(t) \/ Close(t) \/ Abort(t)

Decide(t) ==
  \/ NameFree(t) \/ RenameRefused(t) \/ DisplaceRefused(t)
  \/ RestoreUnopposed(t) \/ RestoreRefused(t)
  \/ \E v \in Ids : Evict(t, v) \/ Displace(t, v) \/ RestoreReplacing(t, v)
  \/ \E n \in Names : RestoreKeepingBoth(t, n)

EvictSteps(t) == EvictStage(t) \/ EvictRefused(t) \/ EvictDelete(t) \/ EvictCommit(t)

Mutate(t) ==
  InsertNode(t) \/ MoveNode(t) \/ RestoreNode(t) \/ TrashNode(t) \/ DeleteNode(t)

Proceed(t) ==
  \/ \E d \in Dirs : Lock(t, d) \/ Stage(t, d) \/ StageRefused(t, d) \/ Commit(t, d)
  \/ Decide(t) \/ EvictSteps(t) \/ Mutate(t) \/ CancelPurge(t)

Next ==
  \/ \E t \in Tasks : Begin(t) \/ Handle(t) \/ Proceed(t) \/ Fail(t)
  \/ \E i \in Ids : SweepIncoming(i)
  \/ Crash

Spec == Init /\ [][Next]_vars

-----------------------------------------------------------------------------
(* Properties.                                                             *)

\* `entries_of`: the child set verifies, and so does every trashed child that
\* the listing leaves out.
Listable(d) ==
  /\ EntriesVerify(d)
  /\ \A i \in Ids : node[i].state = "trashed" /\ node[i].parent = d => Verified(i)

\* `_locked_dirs`: while a handler has a directory staged, the parked tag is
\* the one its own commit will promote; no second stager overwrote it.
StagedTagHasOneOwner ==
  \A t \in Tasks : \A d \in op[t].open :
    dir_locks[d] = t /\ entries_mac_pending[d] = op[t].tag[d]

\* "Several ids are taken in sorted order, so that two renames crossing each
\* other between the same pair of directories cannot deadlock": what DirEntries
\* takes for the lock of a directory is what DirLocks implements.
Mutex == INSTANCE DirMutex WITH Levels <- {1}, owner <- dir_locks,
           block <- [d \in Dirs |-> IF dir_locks[d] = NoTask THEN 0 ELSE 1]

LocksInOrder == Mutex!Spec

\* `_stage_entries` and `verify_dir_entries`: wherever handlers are and
\* whichever of them failed or died, a directory lists, unless a handler wrote
\* into it from a snapshot that was no longer true or a staging overwrote the
\* only tag that matched.
ListableUnlessBlindOrOverlaid ==
  \A d \in Dirs \ (blind \cup overlaid) : Listable(d)

=============================================================================
