-------------------------- MODULE DirEntriesProofs --------------------------
(***************************************************************************)
(* The inductive invariant of DirEntries and its proof, for every number   *)
(* of directories, names, nodes, tasks, failures and crashes.              *)
(***************************************************************************)
EXTENDS DirEntries, TLAPS

USE DEF NoDir

-----------------------------------------------------------------------------
(* Types.                                                                  *)

Evicting == {"evictStage", "evictDelete", "evictCommit"}

\* A task that serves a request works on a node; only a rename evicts.
Works(o) ==
  /\ o.pc # "idle" => o.id \in Ids
  /\ o.kind = "rename" => o.dst \in Dirs
  /\ o.pc \in Evicting => o.kind = "rename" /\ o.victim \in Ids

USE DEF Evicting

TypeInv == TypeOK /\ \A t \in Tasks : Works(op[t])

OpType == {o \in Ops : Works(o)}

LEMMA DocTyped ==
  ASSUME NEW s \in States, NEW d \in Dirs \cup {NoDir},
         NEW n \in Names \cup {NoName}
  PROVE  Doc(s, d, n) \in Docs
  BY DEF Doc, Docs, Identity

LEMMA GoneTyped == Gone \in Docs
  BY DocTyped DEF Gone, States

LEMMA IdleTyped == Idle \in OpType /\ Idle.pc = "idle"
  BY GoneTyped DEF Idle, Ops, OpType, Works, Steps, Kinds, NoTags, Tags

LEMMA ReadyTyped ==
  ASSUME NEW o \in OpType, o.id \in Ids
  PROVE  Ready(o) \in OpType
  BY DEF Ready, OpType, Ops, Works, Steps

LEMMA RollbackTyped ==
  ASSUME NEW o \in OpType, o.id \in Ids, NEW copy \in Docs
  PROVE  Rollback(o, copy) \in OpType
<1> DEFINE undo == [Idle EXCEPT !.kind = "rollback", !.id = o.id, !.seen = copy,
                                !.from = copy.parent, !.locks = Wanted({copy.parent})]
<1>1. /\ copy.parent \in Dirs \cup {NoDir}
      /\ Wanted({copy.parent}) \in SUBSET Dirs
  BY DEF Docs, Wanted
<1>2. undo \in OpType /\ undo.id \in Ids
  <2>1. Idle \in Ops
    BY IdleTyped DEF OpType
  <2>2. undo \in Ops /\ undo.id = o.id /\ undo.pc = "idle" /\ undo.kind = "rollback"
    BY <1>1, <2>1, IdleTyped DEF Ops, Kinds
  <2> QED  BY <2>2 DEF OpType, Works
<1>3. [undo EXCEPT !.pc = "lock"] \in OpType
  <2> HIDE DEF undo
  <2> QED  BY <1>2 DEF OpType, Ops, Works, Steps
<1>4. Ready(undo) \in OpType
  BY <1>2, ReadyTyped
<1>5. Rollback(o, copy) = IF undo.locks = {} THEN Ready(undo) ELSE [undo EXCEPT !.pc = "lock"]
  BY DEF Rollback
<1> QED  BY <1>3, <1>4, <1>5

LEMMA RaiseTyped ==
  ASSUME TypeInv, NEW t \in Tasks, op[t].pc # "idle", Raise(t)
  PROVE  dir_locks' \in [Dirs -> Tasks \cup {NoTask}] /\ op' \in [Tasks -> OpType]
<1>1. op[t] \in OpType /\ op[t].id \in Ids /\ op[t].seen \in Docs
  BY DEF TypeInv, TypeOK, OpType, Works, Ops
<1> QED  BY <1>1, IdleTyped, RollbackTyped
         DEF TypeInv, TypeOK, OpType, Raise, Released

LEMMA FinishTyped ==
  ASSUME TypeInv, NEW t \in Tasks, NEW o \in OpType, Finish(t, o)
  PROVE  dir_locks' \in [Dirs -> Tasks \cup {NoTask}] /\ op' \in [Tasks -> OpType]
  BY DEF TypeInv, TypeOK, OpType, Finish, Released

LEMMA ChildrenTyped ==
  ASSUME TypeInv, NEW d
  PROVE  Children(d) \in SUBSET Entries
  BY DEF TypeInv, TypeOK, Children, Entries, Docs

LEMMA TagOfTyped ==
  ASSUME NEW C \in SUBSET Entries, NEW A \in SUBSET Entries, NEW D
  PROVE  TagOf(C, A, D) \in Tags
  BY DEF TagOf, Tags

-----------------------------------------------------------------------------

THEOREM TypeInvInit == Init => TypeInv
<1> SUFFICES ASSUME Init PROVE TypeInv
  OBVIOUS
<1>1. node \in [Ids -> Docs]
  BY DocTyped DEF Init, States
<1>2. entries_mac \in [Dirs -> Tags] /\ entries_mac_pending \in [Dirs -> Tags]
  BY DEF Init, Tags, NoTags
<1>3. op \in [Tasks -> OpType]
  BY IdleTyped DEF Init
<1> QED  BY <1>1, <1>2, <1>3, CutsAssumption DEF Init, TypeInv, TypeOK, OpType

\* What remains to be shown of a step to conclude TypeInv'.
LEMMA TypeInvParts ==
  ASSUME node' \in [Ids -> Docs],
         entries_mac' \in [Dirs -> Tags], entries_mac_pending' \in [Dirs -> Tags],
         dir_locks' \in [Dirs -> Tasks \cup {NoTask}],
         op' \in [Tasks -> OpType],
         cuts' \in 0 .. MaxCuts, blind' \subseteq Dirs, overlaid' \subseteq Dirs
  PROVE  TypeInv'
  BY DEF TypeInv, TypeOK, OpType

LEMMA TypeInvBegin ==
  ASSUME TypeInv, NEW t \in Tasks, Begin(t)
  PROVE  TypeInv'
<1> PICK i \in Ids :
      \/ \E d \in Dirs, n \in Names :
           BeginCreate(t, i, d, n) \/ BeginOverwrite(t, i, d, n) \/ BeginRename(t, i, d, n)
      \/ BeginTrash(t, i) \/ BeginRestore(t, i) \/ BeginPurge(t, i)
  BY DEF Begin
<1> USE GoneTyped, IdleTyped DEF tags, observers
<1>a. /\ node[i] \in Docs /\ Doc("live", NoDir, NoName) \in Docs
      /\ op \in [Tasks -> OpType]
  BY DocTyped DEF TypeInv, TypeOK, OpType, States
<1>b. Idle \in Ops
  BY DEF OpType
<1>1. ASSUME NEW d \in Dirs, NEW n \in Names, BeginCreate(t, i, d, n)
      PROVE  TypeInv'
  <2>1. op'[t] \in OpType
    BY ZenonT(60), <1>1, <1>a, <1>b DEF BeginCreate, OpType, Ops, Works, Steps, Kinds
  <2> QED  BY <1>1, <1>a, <2>1, TypeInvParts DEF BeginCreate, TypeInv, TypeOK
<1>2. ASSUME NEW d \in Dirs, NEW n \in Names, BeginOverwrite(t, i, d, n)
      PROVE  TypeInv'
  <2>1. op'[t] \in OpType
    BY ZenonT(60), <1>2, <1>a, <1>b DEF BeginOverwrite, OpType, Ops, Works, Steps, Kinds
  <2> QED  BY <1>2, <1>a, <2>1, TypeInvParts DEF BeginOverwrite, TypeInv, TypeOK
<1>3. ASSUME NEW d \in Dirs, NEW n \in Names, BeginRename(t, i, d, n)
      PROVE  TypeInv'
  <2>1. node[i].parent \in Dirs
    BY <1>3, <1>a DEF BeginRename, Docs
  <2>2. op'[t] \in OpType
    <3>1. /\ op'[t] \in Ops /\ op'[t].pc = "lock" /\ op'[t].kind = "rename"
          /\ op'[t].id = i /\ op'[t].dst = d
      BY <1>3, <1>a, <1>b, <2>1 DEF BeginRename, RenameLocks, Ops, Steps, Kinds
    <3> QED  BY <3>1 DEF OpType, Works
  <2> QED  BY <1>3, <1>a, <2>2, TypeInvParts DEF BeginRename, TypeInv, TypeOK
<1>4. CASE BeginTrash(t, i)
  <2>1. op'[t] \in OpType
    <3>1. /\ op'[t] \in Ops /\ op'[t].pc = "mutate" /\ op'[t].kind = "trash"
          /\ op'[t].id = i
      BY <1>4, <1>a, <1>b DEF BeginTrash, Ops, Steps, Kinds
    <3> QED  BY <3>1 DEF OpType, Works
  <2> QED  BY <1>4, <1>a, <2>1, TypeInvParts DEF BeginTrash, TypeInv, TypeOK
<1>5. CASE BeginRestore(t, i)
  <2>1. node[i].parent \in Dirs /\ node[i].name \in Names \cup {NoName}
    BY <1>5, <1>a DEF BeginRestore, Docs
  <2>2. op'[t] \in OpType
    BY ZenonT(60), <1>5, <1>a, <1>b, <2>1 DEF BeginRestore, OpType, Ops, Works, Steps, Kinds
  <2> QED  BY <1>5, <1>a, <2>2, TypeInvParts DEF BeginRestore, TypeInv, TypeOK
<1>6. CASE BeginPurge(t, i)
  <2>1. node[i].parent \in Dirs
    BY <1>6, <1>a DEF BeginPurge, Purgeable, Docs
  <2>2. op'[t] \in OpType
    BY ZenonT(60), <1>6, <1>a, <1>b, <2>1 DEF BeginPurge, OpType, Ops, Works, Steps, Kinds
  <2> QED  BY <1>6, <1>a, <2>2, TypeInvParts DEF BeginPurge, TypeInv, TypeOK
<1> QED  BY <1>1, <1>2, <1>3, <1>4, <1>5, <1>6

LEMMA TypeInvHandle ==
  ASSUME TypeInv, NEW t \in Tasks, Handle(t)
  PROVE  TypeInv'
<1> USE DEF tags, observers
<1>a. op[t] \in OpType /\ op \in [Tasks -> OpType] /\ op[t].seen \in Docs
  BY DEF TypeInv, TypeOK, OpType, Ops
<1>1. CASE Sync(t)
  <2>1. [node[op[t].id] EXCEPT !.state = op[t].seen.state] \in Docs
    BY <1>1, <1>a DEF Sync, TypeInv, TypeOK, OpType, Works, Docs
  <2>2. op'[t] \in OpType
    BY <1>1, <1>a, <2>1 DEF Sync, OpType, Ops, Works
  <2> QED  BY <1>1, <1>a, <2>2, TypeInvParts DEF Sync, TypeInv, TypeOK
<1>2. CASE Close(t)
  <2>1. op'[t] \in OpType
    BY SMTT(30), <1>2, <1>a, IdleTyped DEF Close, OpType, Ops, Works, Steps
  <2> QED  BY <1>2, <1>a, <2>1, TypeInvParts DEF Close, TypeInv, TypeOK
<1>3. CASE Abort(t)
  <2>1. op'[t] \in OpType
    BY <1>3, <1>a, RollbackTyped DEF Abort, OpType, Works
  <2> QED  BY <1>3, <1>a, <2>1, TypeInvParts DEF Abort, TypeInv, TypeOK
<1> QED  BY <1>1, <1>2, <1>3 DEF Handle

LEMMA TypeInvLock ==
  ASSUME TypeInv, NEW t \in Tasks, NEW d \in Dirs, Lock(t, d)
  PROVE  TypeInv'
<1> USE DEF tags, observers
<1>a. op[t] \in OpType /\ op \in [Tasks -> OpType] /\ op[t].id \in Ids
  BY DEF TypeInv, TypeOK, OpType, Lock, Works
<1>1. op'[t] \in OpType
  <2>1. [op[t] EXCEPT !.pc = "decide"] \in OpType
    BY <1>a DEF OpType, Ops, Works, Steps
  <2> QED  BY <2>1, <1>a, ReadyTyped DEF Lock
<1> QED  BY <1>1, <1>a, TypeInvParts DEF Lock, TypeInv, TypeOK

LEMMA SetTrashedTyped ==
  ASSUME TypeInv, NEW v \in Ids
  PROVE  SetTrashed(v) \in [Ids -> Docs]
<1>1. Doc("trashed", node[v].parent, node[v].name) \in Docs
  BY DocTyped DEF TypeInv, TypeOK, Docs, States
<1> QED  BY <1>1 DEF SetTrashed, TypeInv, TypeOK

LEMMA TypeInvDecide ==
  ASSUME TypeInv, NEW t \in Tasks, Decide(t)
  PROVE  TypeInv'
<1> USE DEF tags, observers, NameTaken, RestoreConflict
<1>a. op[t] \in OpType /\ op \in [Tasks -> OpType] /\ op[t].pc = "decide"
  BY DEF TypeInv, TypeOK, OpType, Decide, NameFree, RenameRefused, RestoreUnopposed,
         RestoreRefused, Evict, Displace, DisplaceRefused, RestoreReplacing, RestoreKeepingBoth
<1>b. op[t].id \in Ids /\ Ready(op[t]) \in OpType
  BY <1>a, ReadyTyped DEF OpType, Works
<1>1. CASE NameFree(t)
  BY <1>1, <1>a, <1>b, TypeInvParts DEF NameFree, TypeInv, TypeOK
<1>2. CASE RenameRefused(t) \/ DisplaceRefused(t)
  BY <1>2, <1>a, <1>b, RaiseTyped, TypeInvParts
     DEF RenameRefused, DisplaceRefused, TypeInv, TypeOK
<1>3. CASE RestoreUnopposed(t)
  BY <1>3, <1>a, <1>b, TypeInvParts DEF RestoreUnopposed, TypeInv, TypeOK
<1>4. CASE RestoreRefused(t)
  BY <1>4, <1>a, <1>b, RaiseTyped, TypeInvParts DEF RestoreRefused, TypeInv, TypeOK
<1>5. ASSUME NEW v \in Ids, Evict(t, v) PROVE TypeInv'
  <2>1. op'[t] \in OpType
    BY <1>5, <1>a DEF Evict, OpType, Ops, Works, Steps
  <2> QED  BY <1>5, <1>a, <2>1, SetTrashedTyped, TypeInvParts DEF Evict, TypeInv, TypeOK
<1>6. ASSUME NEW v \in Ids, Displace(t, v) PROVE TypeInv'
  BY <1>6, <1>a, <1>b, SetTrashedTyped, TypeInvParts DEF Displace, TypeInv, TypeOK
<1>7. ASSUME NEW v \in Ids, RestoreReplacing(t, v) PROVE TypeInv'
  BY <1>7, <1>a, <1>b, SetTrashedTyped, TypeInvParts DEF RestoreReplacing, TypeInv, TypeOK
<1>8. ASSUME NEW n \in Names, RestoreKeepingBoth(t, n) PROVE TypeInv'
  <2> DEFINE o == [op[t] EXCEPT !.name = n, !.from = op[t].seen.parent,
                                !.dst = op[t].seen.parent]
  <2>1. op[t].seen.parent \in Dirs \cup {NoDir}
    BY <1>a DEF OpType, Ops, Docs
  <2>2. o \in OpType /\ o.id \in Ids
    <3>1. /\ o \in Ops /\ o.pc = "decide" /\ o.kind = "restore" /\ o.id \in Ids
      BY <1>8, <1>a, <1>b, <2>1 DEF RestoreKeepingBoth, OpType, Ops
    <3> QED  BY <3>1 DEF OpType, Works
  <2>3. Ready(o) \in OpType
    BY <2>2, ReadyTyped
  <2>4. op' = [op EXCEPT ![t] = Ready(o)]
    BY <1>8 DEF RestoreKeepingBoth
  <2> QED  BY <1>8, <1>a, <2>3, <2>4, TypeInvParts DEF RestoreKeepingBoth, TypeInv, TypeOK
<1> QED  BY <1>1, <1>2, <1>3, <1>4, <1>5, <1>6, <1>7, <1>8 DEF Decide

LEMMA TypeInvStage ==
  ASSUME TypeInv, NEW t \in Tasks, NEW d \in Dirs,
         Stage(t, d) \/ StageRefused(t, d) \/ Commit(t, d)
  PROVE  TypeInv'
<1> USE DEF tags, observers
<1>a. op[t] \in OpType /\ op \in [Tasks -> OpType] /\ op[t].pc # "idle" /\ op[t].id \in Ids
  BY DEF TypeInv, TypeOK, OpType, Works, Stage, StageRefused, Commit, NextToStage
<1>1. CASE Stage(t, d)
  <2> DEFINE staged == TagOf(Children(d), Arriving(op[t], d), Leaving(op[t], d))
  <2>1. Arriving(op[t], d) \in SUBSET Entries
    BY <1>a DEF Arriving, Entries, OpType, Ops
  <2>2. staged \in Tags
    BY <2>1, ChildrenTyped, TagOfTyped
  <2> HIDE DEF staged
  <2>5. PICK pc \in {"mutate", "stage"} :
          op' = [op EXCEPT ![t].open = @ \cup {d}, ![t].tag[d] = staged, ![t].pc = pc]
    BY <1>1 DEF Stage, staged
  <2>6. op'[t] = [op[t] EXCEPT !.open = @ \cup {d}, !.tag[d] = staged, !.pc = pc]
    BY <1>a, <2>5
  <2>7. /\ op[t] \in Ops /\ Works(op[t]) /\ pc \in Steps
        /\ op[t].open \cup {d} \in SUBSET Dirs
        /\ [op[t].tag EXCEPT ![d] = staged] \in [Dirs -> Tags]
    BY <1>a, <2>2 DEF OpType, Ops, Steps
  <2>8. op'[t] \in Ops
    BY <2>6, <2>7 DEF Ops
  <2>9. /\ op'[t].pc = pc /\ op'[t].kind = op[t].kind /\ op'[t].id = op[t].id
        /\ op'[t].dst = op[t].dst
    BY <2>6, <2>7 DEF Ops
  <2>3. op'[t] \in OpType
    BY <1>a, <2>7, <2>8, <2>9 DEF OpType, Works
  <2>4. /\ entries_mac_pending' = [entries_mac_pending EXCEPT ![d] = staged]
        /\ overlaid' \subseteq Dirs
    BY <1>1 DEF Stage, Park, staged, TypeInv, TypeOK
  <2> QED  BY <1>1, <1>a, <2>2, <2>3, <2>4, TypeInvParts DEF Stage, TypeInv, TypeOK
<1>2. CASE StageRefused(t, d)
  BY <1>2, <1>a, RaiseTyped, TypeInvParts DEF StageRefused, TypeInv, TypeOK
<1>3. CASE Commit(t, d)
  <2>1. op[t].tag[d] \in Tags /\ {} \in Tags
    BY <1>a DEF OpType, Ops, Tags
  <2>2. /\ entries_mac' \in [Dirs -> Tags] /\ entries_mac_pending' \in [Dirs -> Tags]
        /\ overlaid' \subseteq Dirs /\ UNCHANGED <<node, cuts, blind>>
    BY <1>3, <2>1 DEF Commit, Promote, TypeInv, TypeOK
  <2>3. [op[t] EXCEPT !.open = @ \ {d}] \in OpType
    BY <1>a DEF OpType, Ops, Works
  <2>4. [Idle EXCEPT !.pc = "open", !.kind = "create", !.id = op[t].id,
                     !.seen = op[t].seen] \in OpType
    <3>1. Idle \in Ops /\ op[t].seen \in Docs
      BY <1>a, IdleTyped DEF OpType, Ops
    <3>2. [Idle EXCEPT !.pc = "open", !.kind = "create", !.id = op[t].id,
                       !.seen = op[t].seen] \in Ops
      BY <1>a, <3>1 DEF Ops, Steps, Kinds
    <3> QED  BY <1>a, <3>2, <3>1 DEF OpType, Works, Ops
  <2>5. dir_locks' \in [Dirs -> Tasks \cup {NoTask}] /\ op' \in [Tasks -> OpType]
    BY <1>3, <1>a, <2>3, <2>4, IdleTyped, FinishTyped DEF Commit, TypeInv, TypeOK
  <2> QED  BY <2>2, <2>5, TypeInvParts DEF TypeInv, TypeOK
<1> QED  BY <1>1, <1>2, <1>3

\* The writes that relate a node to the directories only ever mark those.
LEMMA NoteBlindTyped ==
  ASSUME TypeInv, NEW t \in Tasks, op[t].pc # "idle", NoteBlind(t)
  PROVE  blind' \subseteq Dirs
<1>1. Touched(t) \subseteq Dirs
  BY DEF TypeInv, TypeOK, Works, Ops, Docs, Touched
<1> QED  BY <1>1 DEF NoteBlind, TypeInv, TypeOK

LEMMA MutatedTyped ==
  ASSUME TypeInv, NEW t \in Tasks, op[t].pc # "idle", Mutated(t)
  PROVE  dir_locks' \in [Dirs -> Tasks \cup {NoTask}] /\ op' \in [Tasks -> OpType]
<1>1. op[t] \in OpType /\ op[t].id \in Ids /\ op \in [Tasks -> OpType]
  BY DEF TypeInv, TypeOK, OpType, Works
<1>2. [op[t] EXCEPT !.pc = "commit"] \in OpType
  BY <1>1 DEF OpType, Ops, Works, Steps
<1> QED  BY <1>1, <1>2, IdleTyped, FinishTyped DEF Mutated, TypeInv, TypeOK

LEMMA TypeInvMutate ==
  ASSUME TypeInv, NEW t \in Tasks, Mutate(t) \/ CancelPurge(t)
  PROVE  TypeInv'
<1> USE DEF tags, observers, AtMutation
<1> DEFINE o == op[t]
<1>a. o \in OpType /\ op \in [Tasks -> OpType] /\ o.pc = "mutate"
  BY DEF TypeInv, TypeOK, OpType, Mutate, CancelPurge, InsertNode, MoveNode, RestoreNode,
         TrashNode, DeleteNode
<1>b. /\ o.id \in Ids /\ o.seen \in Docs /\ o.dst \in Dirs \cup {NoDir}
      /\ o.name \in Names \cup {NoName} /\ node[o.id] \in Docs
      /\ o.seen.parent \in Dirs \cup {NoDir} /\ o.seen.name \in Names \cup {NoName}
  BY <1>a DEF OpType, Works, Ops, TypeInv, TypeOK, Docs
<1>1. CASE InsertNode(t)
  <2>1. Doc("live", o.dst, o.name) \in Docs
    BY <1>b, DocTyped DEF States
  <2>2. [o EXCEPT !.pc = "commit", !.seen = Doc("live", o.dst, o.name)] \in OpType
    BY <1>a, <2>1 DEF OpType, Ops, Works, Steps
  <2>3. CASE IndexAllows(o.id, o.dst, o.name)
    <3>1. op'[t] = [o EXCEPT !.pc = "commit", !.seen = Doc("live", o.dst, o.name)]
      BY <1>1, <1>a, <2>3 DEF InsertNode
    <3> HIDE DEF o
    <3> QED  BY <1>1, <1>a, <1>b, <2>1, <2>2, <2>3, <3>1, TypeInvParts
             DEF InsertNode, TypeInv, TypeOK, o
  <2>4. CASE ~IndexAllows(o.id, o.dst, o.name)
    BY <1>1, <1>a, <2>4, RaiseTyped, TypeInvParts DEF InsertNode, TypeInv, TypeOK
  <2> QED  BY <2>3, <2>4
<1>2. CASE MoveNode(t)
  <2> DEFINE moved == [node[o.id] EXCEPT !.parent = o.dst, !.name = o.name,
                         !.mac = Identity(o.dst, o.name, o.seen.state)]
             refused == node[o.id].state = "live" /\ ~IndexAllows(o.id, o.dst, o.name)
  <2>1. moved \in Docs /\ Doc("live", o.dst, o.name) \in Docs
    <3>1. Doc("live", o.dst, o.name) \in Docs
      BY <1>b, DocTyped DEF States
    <3> HIDE DEF o
    <3> QED  BY <1>b, <3>1 DEF Docs, Identity, States
  <2>2. CASE refused
    BY <1>2, <1>a, <2>2, RaiseTyped, TypeInvParts DEF MoveNode, TypeInv, TypeOK
  <2>3. CASE ~refused
    <3>1. node' = IF Present(o.id) THEN [node EXCEPT ![o.id] = moved] ELSE node
      BY <1>2, <2>3 DEF MoveNode
    <3>2. NoteBlind(t) /\ UNCHANGED <<entries_mac, entries_mac_pending, dir_locks, cuts, overlaid>>
      BY <1>2, <2>3 DEF MoveNode
    <3>3. op'[t] \in OpType /\ op' = [op EXCEPT ![t] = op'[t]]
      <4>1. op' = [op EXCEPT ![t].pc = "commit",
                             ![t].seen = IF o.kind = "overwrite"
                                         THEN Doc("live", o.dst, o.name) ELSE @]
        BY <1>2, <2>3 DEF MoveNode
      <4>2. op' = [op EXCEPT ![t] = op'[t]]
        BY <1>a, <4>1
      <4>3. op'[t] = [o EXCEPT !.pc = "commit",
                               !.seen = IF o.kind = "overwrite"
                                        THEN Doc("live", o.dst, o.name) ELSE @]
        BY <1>a, <4>1
      <4> HIDE DEF o
      <4> QED  BY <1>a, <1>b, <2>1, <4>2, <4>3 DEF OpType, Ops, Works, Steps
    <3> HIDE DEF moved
    <3> QED  BY <1>a, <1>b, <2>1, <3>1, <3>2, <3>3, NoteBlindTyped, TypeInvParts
             DEF TypeInv, TypeOK
  <2> QED  BY <2>2, <2>3
<1>3. CASE RestoreNode(t)
  <2> DEFINE back == [node[o.id] EXCEPT !.state = "live", !.name = o.name,
                        !.mac = Identity(o.seen.parent, o.name, "live")]
             refused == Present(o.id) /\ ~IndexAllows(o.id, node[o.id].parent, o.name)
  <2>1. back \in Docs
    BY <1>b DEF Docs, Identity, States
  <2>2. CASE refused
    BY <1>3, <1>a, <2>2, RaiseTyped, TypeInvParts DEF RestoreNode, TypeInv, TypeOK
  <2>3. CASE ~refused
    <3>1. /\ node' = IF Present(o.id) THEN [node EXCEPT ![o.id] = back] ELSE node
          /\ NoteBlind(t) /\ Mutated(t)
          /\ UNCHANGED <<entries_mac, entries_mac_pending, cuts, overlaid>>
      BY <1>3, <2>3 DEF RestoreNode
    <3> HIDE DEF back
    <3> QED  BY <1>a, <2>1, <3>1, NoteBlindTyped, MutatedTyped, TypeInvParts
             DEF TypeInv, TypeOK
  <2> QED  BY <2>2, <2>3
<1>4. CASE TrashNode(t)
  <2> DEFINE trashed == [node[o.id] EXCEPT !.state = "trashed",
                           !.mac = Identity(o.seen.parent, o.seen.name, "trashed")]
  <2>1. trashed \in Docs
    BY <1>b DEF Docs, Identity, States
  <2>2. node' = IF Present(o.id) THEN [node EXCEPT ![o.id] = trashed] ELSE node
    BY <1>4 DEF TrashNode
  <2> HIDE DEF trashed
  <2> QED  BY <1>4, <1>a, <2>1, <2>2, NoteBlindTyped, MutatedTyped, TypeInvParts
           DEF TrashNode, TypeInv, TypeOK
<1>5. CASE DeleteNode(t)
  BY <1>5, <1>a, GoneTyped, NoteBlindTyped, MutatedTyped, TypeInvParts
     DEF DeleteNode, TypeInv, TypeOK
<1>6. CASE CancelPurge(t)
  BY <1>6, <1>a, IdleTyped, FinishTyped, TypeInvParts DEF CancelPurge, TypeInv, TypeOK
<1> QED  BY <1>1, <1>2, <1>3, <1>4, <1>5, <1>6 DEF Mutate

LEMMA TypeInvEvict ==
  ASSUME TypeInv, NEW t \in Tasks, EvictSteps(t)
  PROVE  TypeInv'
<1> USE DEF tags, observers
<1> DEFINE o == op[t]
<1>a. o \in OpType /\ op \in [Tasks -> OpType] /\ o.pc # "idle" /\ o.dst \in Dirs \cup {NoDir}
  BY DEF TypeInv, TypeOK, OpType, Ops, EvictSteps, EvictStage, EvictRefused, EvictDelete,
         EvictCommit
<1>1. CASE EvictStage(t)
  <2> DEFINE staged == TagOf(Children(o.dst), {}, {<<o.victim, o.name>>})
  <2>1. staged \in Tags
    BY ChildrenTyped, TagOfTyped
  <2>2. /\ entries_mac_pending' = [entries_mac_pending EXCEPT ![o.dst] = staged]
        /\ overlaid' \subseteq overlaid \cup {o.dst}
        /\ op' = [op EXCEPT ![t].open = {o.dst}, ![t].tag[o.dst] = staged,
                            ![t].pc = "evictDelete"]
        /\ UNCHANGED <<node, entries_mac, dir_locks, cuts, blind>>
    BY <1>1 DEF EvictStage, Park
  <2>3. o.dst \in Dirs
    BY <1>1, <1>a DEF EvictStage, OpType, Works
  <2> HIDE DEF staged
  <2>4. op'[t] \in OpType
    <3>1. o \in Ops /\ o.id \in Ids /\ o.kind = "rename" /\ o.victim \in Ids
      BY <1>1, <1>a DEF EvictStage, OpType, Works
    <3> DEFINE q == [[[o EXCEPT !.open = {o.dst}] EXCEPT !.tag[o.dst] = staged]
                          EXCEPT !.pc = "evictDelete"]
    <3>2. op'[t] = q
      BY <1>a, <2>2
    <3>3. q \in Ops /\ q.id = o.id /\ q.kind = "rename" /\ q.dst = o.dst /\ q.victim = o.victim
      <4> HIDE DEF o
      <4> QED  BY <3>1, <2>1, <2>3 DEF Ops, Steps
    <3> QED  BY <2>3, <3>1, <3>2, <3>3 DEF OpType, Works
  <2> QED  BY <1>a, <2>1, <2>2, <2>3, <2>4, TypeInvParts DEF TypeInv, TypeOK
<1>2. CASE EvictRefused(t)
  BY <1>2, <1>a, RaiseTyped, TypeInvParts DEF EvictRefused, TypeInv, TypeOK
<1>3. CASE EvictDelete(t)
  <2>1. op'[t] \in OpType
    BY <1>3, <1>a DEF EvictDelete, OpType, Ops, Works, Steps
  <2>2. op[t].dst \in Dirs /\ node[op[t].victim].parent \in Dirs \cup {NoDir}
    BY <1>3, <1>a DEF EvictDelete, OpType, Works, TypeInv, TypeOK, Docs
  <2> QED  BY <1>3, <1>a, <2>1, <2>2, GoneTyped, TypeInvParts
           DEF EvictDelete, TypeInv, TypeOK
<1>4. CASE EvictCommit(t)
  <2>1. op'[t] \in OpType
    BY <1>4, <1>a DEF EvictCommit, OpType, Ops, Works, Steps
  <2>2. o.dst \in Dirs /\ o.tag[o.dst] \in Tags
    BY <1>4, <1>a DEF EvictCommit, OpType, Ops, Works
  <2>3. {} \in Tags
    BY DEF Tags
  <2> QED  BY <1>4, <1>a, <2>1, <2>2, <2>3, TypeInvParts
           DEF EvictCommit, Promote, TypeInv, TypeOK
<1> QED  BY <1>1, <1>2, <1>3, <1>4 DEF EvictSteps

LEMMA TypeInvFail ==
  ASSUME TypeInv, NEW t \in Tasks, Fail(t)
  PROVE  TypeInv'
<1> USE DEF tags, observers
<1>a. op[t] \in OpType /\ op[t].pc # "idle" /\ op[t].id \in Ids
  BY DEF TypeInv, TypeOK, OpType, Works, Fail, Running
<1>1. cuts' \in 0 .. MaxCuts
  BY CutsAssumption DEF Fail, TypeInv, TypeOK
<1>2. Doc("live", NoDir, NoName) \in Docs
  BY DocTyped DEF States
<1>3. dir_locks' \in [Dirs -> Tasks \cup {NoTask}] /\ op' \in [Tasks -> OpType]
  <2>1. CASE Raise(t)
    BY <1>a, <2>1, RaiseTyped
  <2>2. CASE Finish(t, Idle)
    BY <2>2, IdleTyped, FinishTyped
  <2>3. CASE Finish(t, Rollback(op[t], Doc("live", NoDir, NoName)))
    BY <1>a, <1>2, <2>3, RollbackTyped, FinishTyped
  <2> QED  BY <2>1, <2>2, <2>3 DEF Fail
<1> QED  BY <1>1, <1>3, TypeInvParts DEF Fail, TypeInv, TypeOK

LEMMA TypeInvNext == TypeInv /\ [Next]_vars => TypeInv'
<1> SUFFICES ASSUME TypeInv, [Next]_vars PROVE TypeInv'
  OBVIOUS
<1> USE DEF tags, observers
<1>1. ASSUME NEW t \in Tasks, Proceed(t) PROVE TypeInv'
  <2>1. CASE \E d \in Dirs : Lock(t, d) \/ Stage(t, d) \/ StageRefused(t, d) \/ Commit(t, d)
    BY <2>1, TypeInvLock, TypeInvStage
  <2>2. CASE Decide(t)
    BY <2>2, TypeInvDecide
  <2>3. CASE EvictSteps(t)
    BY <2>3, TypeInvEvict
  <2>4. CASE Mutate(t) \/ CancelPurge(t)
    BY <2>4, TypeInvMutate
  <2> QED  BY <1>1, <2>1, <2>2, <2>3, <2>4 DEF Proceed
<1>2. ASSUME NEW i \in Ids, SweepIncoming(i) PROVE TypeInv'
  BY <1>2, GoneTyped DEF SweepIncoming, TypeInv, TypeOK
<1>3. CASE Crash
  <2>1. op' \in [Tasks -> OpType] /\ dir_locks' \in [Dirs -> Tasks \cup {NoTask}]
    BY <1>3, IdleTyped DEF Crash
  <2>2. cuts' \in 0 .. MaxCuts
    BY <1>3, CutsAssumption DEF Crash, TypeInv, TypeOK
  <2> QED  BY <1>3, <2>1, <2>2, TypeInvParts DEF Crash, TypeInv, TypeOK
<1>4. CASE UNCHANGED vars
  BY <1>4 DEF vars, TypeInv, TypeOK
<1> QED  BY <1>1, <1>2, <1>3, <1>4, TypeInvBegin, TypeInvHandle, TypeInvFail DEF Next

\* Every variable keeps its type, and a handler that is running has drawn or
\* read the node it works on: the bounds of the runs play no part in it.
THEOREM TypeCorrect == Spec => []TypeOK
<1>1. Init => TypeInv
  BY TypeInvInit
<1>2. TypeInv => TypeOK
  BY DEF TypeInv
<1> QED  BY <1>1, <1>2, TypeInvNext, PTL DEF Spec

-----------------------------------------------------------------------------
(* What the record of a handler says of itself, whatever the others do.    *)

\* A handler stages only what it locks, has everything staged when it writes,
\* and knows where its node is from and where it goes.
Staging(o) ==
  /\ StageDirs(o) \subseteq o.locks
  /\ o.open \subseteq StageDirs(o)
  /\ o.pc \in {"idle", "open", "lock", "decide", "evictStage"} => o.open = {}
  /\ o.pc = "mutate" => o.open = StageDirs(o)
  /\ o.pc \in {"evictDelete", "evictCommit"} => o.open = {o.dst}

Going(o) ==
  /\ o.pc = "open" => o.kind \in {"create", "overwrite"}
  /\ o.kind = "create" /\ o.pc # "open" => o.dst \in Dirs /\ o.name \in Names
  /\ o.kind \in {"rename", "overwrite"} => o.dst \in Dirs /\ o.name \in Names
  /\ o.kind \in {"create", "overwrite"} => o.from = NoDir
  /\ o.kind = "rename" =>
       /\ o.from = o.seen.parent /\ o.from \in Dirs
       /\ o.seen.state = "live"
       /\ <<o.dst, o.name>> # <<o.seen.parent, o.seen.name>>
  /\ o.kind \in {"purge", "rollback"} => o.from = o.seen.parent /\ o.dst = NoDir
  /\ o.kind = "purge" => o.seen.state = "trashed"
  /\ o.kind = "trash" => StageDirs(o) = {} /\ o.seen.state = "live"
  /\ o.kind = "restore" =>
       /\ o.seen.state = "trashed" /\ o.locks = {o.seen.parent}
       /\ \/ StageDirs(o) = {} /\ o.name = o.seen.name
          \/ /\ o.from = o.seen.parent /\ o.dst = o.seen.parent
             /\ o.name \in Names /\ o.name # o.seen.name

\* A restore changes the membership only if it decides on another name.
Undecided(o) ==
  o.kind = "restore" /\ o.pc \in {"lock", "decide"} =>
    StageDirs(o) = {} /\ o.name = o.seen.name

Fit(o) == Staging(o) /\ Going(o) /\ Undecided(o)

FitInv == \A t \in Tasks : Fit(op[t])

LEMMA FitIdle == Fit(Idle)
  BY DEF Fit, Staging, Going, Undecided, StageDirs, Idle, Gone, Doc

LEMMA FitReady ==
  ASSUME NEW o \in OpType, Going(o), o.open = {}, o.pc # "open",
         StageDirs(o) \subseteq o.locks
  PROVE  Fit(Ready(o))
<1>1. /\ Ready(o).pc = IF StageDirs(o) = {} THEN "mutate" ELSE "stage"
      /\ Ready(o).open = {} /\ Ready(o).locks = o.locks /\ Ready(o).from = o.from
      /\ Ready(o).dst = o.dst /\ Ready(o).kind = o.kind /\ Ready(o).name = o.name
      /\ Ready(o).seen = o.seen /\ StageDirs(Ready(o)) = StageDirs(o)
  BY DEF Ready, OpType, Ops, StageDirs
<1> QED  BY <1>1 DEF Fit, Staging, Going, Undecided

LEMMA FitRollback ==
  ASSUME NEW o \in OpType, NEW copy \in Docs
  PROVE  Fit(Rollback(o, copy))
<1>1. /\ Rollback(o, copy).pc = IF copy.parent = NoDir THEN "mutate" ELSE "lock"
      /\ Rollback(o, copy).kind = "rollback" /\ Rollback(o, copy).open = {}
      /\ Rollback(o, copy).from = copy.parent /\ Rollback(o, copy).dst = NoDir
      /\ Rollback(o, copy).seen = copy
      /\ Rollback(o, copy).locks = {copy.parent} \ {NoDir}
  BY DEF Rollback, Ready, Idle, StageDirs, Wanted
<1> QED  BY <1>1 DEF Fit, Staging, Going, Undecided, StageDirs

LEMMA FitRaise ==
  ASSUME TypeInv, FitInv, NEW t \in Tasks, Raise(t)
  PROVE  FitInv'
<1>1. op[t] \in OpType /\ op[t].seen \in Docs
  BY DEF TypeInv, TypeOK, OpType, Ops
<1> QED  BY <1>1, FitIdle, FitRollback DEF FitInv, Raise, TypeInv, TypeOK

LEMMA FitFinish ==
  ASSUME TypeInv, FitInv, NEW t \in Tasks, NEW o, Fit(o), Finish(t, o)
  PROVE  FitInv'
  BY DEF FitInv, Finish, TypeInv, TypeOK

LEMMA FitBegin ==
  ASSUME TypeInv, FitInv, NEW t \in Tasks, Begin(t)
  PROVE  FitInv'
<1> PICK i \in Ids :
      \/ \E d \in Dirs, n \in Names :
           BeginCreate(t, i, d, n) \/ BeginOverwrite(t, i, d, n) \/ BeginRename(t, i, d, n)
      \/ BeginTrash(t, i) \/ BeginRestore(t, i) \/ BeginPurge(t, i)
  BY DEF Begin
<1>a. op \in [Tasks -> Ops] /\ node[i] \in Docs
  BY DEF TypeInv, TypeOK
<1>b. ASSUME op' = [op EXCEPT ![t] = op'[t]], Fit(op'[t]) PROVE FitInv'
  BY <1>a, <1>b DEF FitInv
<1> USE DirsAssumption DEF Idle
<1>1. ASSUME NEW d \in Dirs, NEW n \in Names, BeginCreate(t, i, d, n) PROVE FitInv'
  <2> DEFINE o == op'[t]
  <2>1. /\ op' = [op EXCEPT ![t] = o]
        /\ o.pc = "lock" /\ o.kind = "create" /\ o.open = {} /\ o.from = NoDir
        /\ o.dst = d /\ o.name = n /\ o.locks = {d}
    BY <1>1, <1>a DEF BeginCreate
  <2> QED  BY <1>b, <2>1 DEF Fit, Staging, Going, Undecided, StageDirs
<1>2. ASSUME NEW d \in Dirs, NEW n \in Names, BeginOverwrite(t, i, d, n) PROVE FitInv'
  <2> DEFINE o == op'[t]
  <2>1. /\ op' = [op EXCEPT ![t] = o]
        /\ o.pc = "open" /\ o.kind = "overwrite" /\ o.open = {} /\ o.from = NoDir
        /\ o.dst = d /\ o.name = n /\ o.locks = {d}
    BY <1>2, <1>a DEF BeginOverwrite
  <2> QED  BY <1>b, <2>1 DEF Fit, Staging, Going, Undecided, StageDirs
<1>3. ASSUME NEW d \in Dirs, NEW n \in Names, BeginRename(t, i, d, n) PROVE FitInv'
  <2> DEFINE o == op'[t]
  <2>1. /\ op' = [op EXCEPT ![t] = o]
        /\ o.pc = "lock" /\ o.kind = "rename" /\ o.open = {} /\ o.seen = node[i]
        /\ o.from = node[i].parent /\ o.dst = d /\ o.name = n
        /\ o.locks = {node[i].parent, d}
    BY <1>3, <1>a DEF BeginRename, RenameLocks
  <2>2. /\ node[i].parent \in Dirs /\ node[i].state = "live"
        /\ <<d, n>> # <<node[i].parent, node[i].name>>
    BY <1>3, <1>a DEF BeginRename, Docs
  <2> HIDE DEF o
  <2> QED  BY <1>b, <2>1, <2>2 DEF Fit, Staging, Going, Undecided, StageDirs, o
<1>4. CASE BeginTrash(t, i)
  <2> DEFINE o == op'[t]
  <2>1. /\ op' = [op EXCEPT ![t] = o]
        /\ o.pc = "mutate" /\ o.kind = "trash" /\ o.open = {} /\ o.from = NoDir
        /\ o.dst = NoDir /\ o.seen.state = "live"
    BY <1>4, <1>a DEF BeginTrash
  <2> QED  BY <1>b, <2>1 DEF Fit, Staging, Going, Undecided, StageDirs
<1>5. CASE BeginRestore(t, i)
  <2> DEFINE o == op'[t]
  <2>1. /\ op' = [op EXCEPT ![t] = o]
        /\ o.pc = "lock" /\ o.kind = "restore" /\ o.open = {} /\ o.from = NoDir
        /\ o.dst = NoDir /\ o.seen.state = "trashed" /\ o.name = o.seen.name
        /\ o.locks = {o.seen.parent}
    BY <1>5, <1>a DEF BeginRestore
  <2> QED  BY <1>b, <2>1 DEF Fit, Staging, Going, Undecided, StageDirs
<1>6. CASE BeginPurge(t, i)
  <2> DEFINE o == op'[t]
  <2>1. /\ op' = [op EXCEPT ![t] = o]
        /\ o.pc = "lock" /\ o.kind = "purge" /\ o.open = {} /\ o.dst = NoDir
        /\ o.from = o.seen.parent /\ o.seen.state = "trashed" /\ o.locks = {o.from}
    BY <1>6, <1>a DEF BeginPurge, Purgeable
  <2> QED  BY <1>b, <2>1 DEF Fit, Staging, Going, Undecided, StageDirs
<1> QED  BY <1>1, <1>2, <1>3, <1>4, <1>5, <1>6

LEMMA FitStep ==
  ASSUME TypeInv, FitInv, NEW t \in Tasks, op' = [op EXCEPT ![t] = op'[t]], Fit(op'[t])
  PROVE  FitInv'
  BY DEF FitInv, TypeInv, TypeOK

LEMMA FitHandleLockDecide ==
  ASSUME TypeInv, FitInv, NEW t \in Tasks,
         Handle(t) \/ Decide(t) \/ \E d \in Dirs : Lock(t, d)
  PROVE  FitInv'
<1> DEFINE o == op[t]
<1>a. /\ o \in OpType /\ op \in [Tasks -> Ops] /\ o \in Ops /\ o.seen \in Docs
      /\ Fit(o) /\ Going(o) /\ StageDirs(o) \subseteq o.locks
  BY DEF TypeInv, TypeOK, OpType, Ops, FitInv, Fit, Staging
<1>b. Fit(Idle)
  BY FitIdle
<1>c. ASSUME o.pc \in {"lock", "decide"} PROVE Fit(Ready(o))
  BY <1>a, <1>c, FitReady DEF Fit, Staging
<1>1. CASE Sync(t)
  <2>1. /\ op' = [op EXCEPT ![t] = op'[t]] /\ o.pc = "open"
        /\ \A f \in {"pc", "kind", "open", "from", "dst", "name", "locks"} :
             op'[t][f] = o[f]
    BY <1>1, <1>a DEF Sync, Ops
  <2>2. Fit(op'[t])
    BY <1>a, <2>1 DEF Fit, Staging, Going, Undecided, StageDirs
  <2> QED  BY <2>1, <2>2, FitStep
<1>2. CASE Close(t)
  <2>1. Fit([o EXCEPT !.pc = "lock"]) \/ o.kind # "overwrite"
    BY <1>2, <1>a DEF Close, Ops, Fit, Staging, Going, Undecided, StageDirs
  <2> QED  BY <1>2, <1>a, <1>b, <2>1, FitStep DEF Close
<1>3. CASE Abort(t)
  BY <1>3, <1>a, FitRollback, FitStep DEF Abort
<1>4. ASSUME NEW d \in Dirs, Lock(t, d) PROVE FitInv'
  <2>1. o.kind \in {"restore", "rename", "overwrite"} => Fit([o EXCEPT !.pc = "decide"])
    BY <1>4, <1>a DEF Lock, Ops, Fit, Staging, Going, Undecided, StageDirs
  <2> QED  BY <1>4, <1>a, <1>c, <2>1, FitStep DEF Lock
<1>5. CASE NameFree(t) \/ RestoreUnopposed(t)
  BY <1>5, <1>a, <1>c, FitStep DEF NameFree, RestoreUnopposed
<1>6. CASE RenameRefused(t) \/ DisplaceRefused(t) \/ RestoreRefused(t)
  BY <1>6, FitRaise DEF RenameRefused, DisplaceRefused, RestoreRefused
<1>7. ASSUME NEW v \in Ids, Evict(t, v) PROVE FitInv'
  <2>1. /\ op' = [op EXCEPT ![t] = op'[t]] /\ op'[t].pc = "evictStage"
        /\ o.pc = "decide" /\ o.kind = "rename"
        /\ \A f \in {"kind", "open", "from", "dst", "name", "locks", "seen"} :
             op'[t][f] = o[f]
    BY <1>7, <1>a DEF Evict, NameTaken, Ops
  <2>2. Fit(op'[t])
    BY <1>a, <2>1 DEF Fit, Staging, Going, Undecided, StageDirs
  <2> QED  BY <2>1, <2>2, FitStep
<1>8. ASSUME NEW v \in Ids, Displace(t, v) PROVE FitInv'
  BY <1>8, <1>a, <1>c, FitStep DEF Displace, NameTaken
<1>9. ASSUME NEW v \in Ids, RestoreReplacing(t, v) PROVE FitInv'
  BY <1>9, <1>a, <1>c, FitStep DEF RestoreReplacing, RestoreConflict
<1>10. ASSUME NEW n \in Names, RestoreKeepingBoth(t, n) PROVE FitInv'
  <2> DEFINE q == [o EXCEPT !.name = n, !.from = o.seen.parent, !.dst = o.seen.parent]
  <2>1. op' = [op EXCEPT ![t] = Ready(q)] /\ o.pc = "decide" /\ o.kind = "restore"
    BY <1>10 DEF RestoreKeepingBoth, RestoreConflict
  <2>2. n # o.seen.name
    BY <1>10, <1>a, <2>1 DEF RestoreKeepingBoth, RestoreConflict, Fit, Undecided
  <2>3. o.seen.parent \in Dirs \cup {NoDir}
    BY <1>a DEF Docs
  <2>4. /\ q \in Ops /\ q.pc = "decide" /\ q.kind = "restore" /\ q.id = o.id
        /\ q.open = o.open /\ q.locks = o.locks /\ q.name = n /\ q.seen = o.seen
        /\ q.from = o.seen.parent /\ q.dst = o.seen.parent
    BY <1>a, <2>1, <2>3 DEF Ops
  <2> HIDE DEF q
  <2>5. q \in OpType
    BY <1>a, <2>1, <2>4 DEF OpType, Works
  <2>6. q.open = {} /\ Going(q) /\ StageDirs(q) \subseteq q.locks
    BY <1>a, <2>1, <2>2, <2>4 DEF Fit, Staging, Going, StageDirs
  <2>7. Fit(Ready(q))
    BY <2>4, <2>5, <2>6, FitReady
  <2> QED  BY <1>a, <2>1, <2>7, FitStep
<1> QED  BY <1>1, <1>2, <1>3, <1>4, <1>5, <1>6, <1>7, <1>8, <1>9, <1>10 DEF Handle, Decide

LEMMA FitStageCommit ==
  ASSUME TypeInv, FitInv, NEW t \in Tasks, NEW d \in Dirs,
         Stage(t, d) \/ StageRefused(t, d) \/ Commit(t, d)
  PROVE  FitInv'
<1> DEFINE o == op[t]
<1>a. o \in Ops /\ op \in [Tasks -> Ops] /\ Fit(o)
  BY DEF TypeInv, TypeOK, FitInv
<1>1. CASE Stage(t, d)
  <2>1. /\ op' = [op EXCEPT ![t] = op'[t]] /\ o.pc = "stage" /\ d \in StageDirs(o)
        /\ op'[t].open = o.open \cup {d}
        /\ op'[t].pc = IF StageDirs(o) = o.open \cup {d} THEN "mutate" ELSE "stage"
        /\ \A f \in {"kind", "from", "dst", "name", "locks", "seen"} : op'[t][f] = o[f]
    BY <1>1, <1>a DEF Stage, NextToStage, Ops
  <2>2. Fit(op'[t])
    BY <1>a, <2>1 DEF Fit, Staging, Going, Undecided, StageDirs
  <2> QED  BY <2>1, <2>2, FitStep
<1>2. CASE StageRefused(t, d)
  BY <1>2, FitRaise DEF StageRefused
<1>3. CASE Commit(t, d)
  <2> DEFINE q == [Idle EXCEPT !.pc = "open", !.kind = "create",
                               !.id = o.id, !.seen = o.seen]
  <2>1. CASE o.open # {d}
    <3>1. /\ op' = [op EXCEPT ![t] = op'[t]] /\ o.pc = "commit"
          /\ op'[t].open = o.open \ {d}
          /\ \A f \in {"pc", "kind", "from", "dst", "name", "locks", "seen"} :
               op'[t][f] = o[f]
      BY <1>3, <1>a, <2>1 DEF Commit, Ops
    <3>2. Fit(op'[t])
      BY <1>a, <3>1 DEF Fit, Staging, Going, Undecided, StageDirs
    <3> QED  BY <3>1, <3>2, FitStep
  <2>2. Fit(q)
    BY DEF Fit, Staging, Going, Undecided, StageDirs, Idle
  <2> QED  BY <1>3, <2>1, <2>2, FitIdle, FitFinish DEF Commit
<1> QED  BY <1>1, <1>2, <1>3

LEMMA FitMutated ==
  ASSUME TypeInv, FitInv, NEW t \in Tasks, op[t].pc = "mutate", Mutated(t)
  PROVE  FitInv'
<1> DEFINE o == op[t]
<1>a. o \in Ops /\ op \in [Tasks -> Ops] /\ Fit(o)
  BY DEF TypeInv, TypeOK, FitInv
<1>1. CASE op' = [op EXCEPT ![t].pc = "commit"]
  <2>1. Fit([o EXCEPT !.pc = "commit"])
    BY <1>a DEF Ops, Fit, Staging, Going, Undecided, StageDirs
  <2> QED  BY <1>1, <1>a, <2>1, FitStep
<1> QED  BY <1>1, FitIdle, FitFinish DEF Mutated

LEMMA FitMutate ==
  ASSUME TypeInv, FitInv, NEW t \in Tasks, Mutate(t) \/ CancelPurge(t)
  PROVE  FitInv'
<1> USE DEF AtMutation
<1> DEFINE o == op[t]
           Only == /\ op' = [op EXCEPT ![t] = op'[t]] /\ op'[t].pc = "commit"
                   /\ \A f \in {"kind", "open", "from", "dst", "name", "locks"} :
                        op'[t][f] = o[f]
<1>a. o \in Ops /\ op \in [Tasks -> Ops] /\ Fit(o)
  BY DEF TypeInv, TypeOK, FitInv
<1>1. CASE InsertNode(t)
  <2>1. CASE Only
    <3>1. o.kind = "create" /\ o.pc = "mutate"
      BY <1>1 DEF InsertNode
    <3>2. Fit(op'[t])
      BY <1>a, <2>1, <3>1 DEF Fit, Staging, Going, Undecided, StageDirs
    <3> QED  BY <2>1, <3>2, FitStep
  <2>2. CASE Raise(t)
    BY <2>2, FitRaise
  <2>3. Raise(t) \/ op' = [op EXCEPT ![t].pc = "commit",
                                     ![t].seen = Doc("live", o.dst, o.name)]
    BY <1>1 DEF InsertNode
  <2> QED  BY <1>a, <2>1, <2>2, <2>3 DEF Ops
<1>2. CASE MoveNode(t)
  <2> DEFINE copy == IF o.kind = "overwrite" THEN Doc("live", o.dst, o.name) ELSE o.seen
  <2>1. Raise(t) \/ op' = [op EXCEPT ![t].pc = "commit", ![t].seen = copy]
    <3>1. CASE node[o.id].state = "live" /\ ~IndexAllows(o.id, o.dst, o.name)
      BY <1>2, <3>1 DEF MoveNode
    <3>2. CASE ~(node[o.id].state = "live" /\ ~IndexAllows(o.id, o.dst, o.name))
      <4>1. op' = [op EXCEPT ![t].pc = "commit",
                             ![t].seen = IF o.kind = "overwrite"
                                         THEN Doc("live", o.dst, o.name) ELSE @]
        BY <1>2, <3>2 DEF MoveNode
      <4> QED  BY <4>1, <1>a DEF Ops
    <3> QED  BY <3>1, <3>2
  <2>2. o.kind \in {"rename", "overwrite"} /\ o.pc = "mutate"
    BY <1>2 DEF MoveNode
  <2> HIDE DEF copy
  <2>3. CASE op' = [op EXCEPT ![t].pc = "commit", ![t].seen = copy]
    <3>1. Only /\ op'[t].seen = copy
      BY <1>a, <2>3 DEF Ops
    <3>2. Fit(op'[t])
      BY <1>a, <2>2, <3>1 DEF Fit, Staging, Going, Undecided, StageDirs, copy
    <3> QED  BY <3>1, <3>2, FitStep
  <2> QED  BY <2>1, <2>3, FitRaise
<1>3. CASE RestoreNode(t)
  <2>1. o.pc = "mutate" /\ (Raise(t) \/ Mutated(t))
    BY <1>3 DEF RestoreNode
  <2> QED  BY <2>1, FitRaise, FitMutated
<1>4. CASE TrashNode(t) \/ DeleteNode(t)
  BY <1>4, FitMutated DEF TrashNode, DeleteNode
<1>5. CASE CancelPurge(t)
  BY <1>5, FitIdle, FitFinish DEF CancelPurge
<1> QED  BY <1>1, <1>2, <1>3, <1>4, <1>5 DEF Mutate

LEMMA FitEvict ==
  ASSUME TypeInv, FitInv, NEW t \in Tasks, EvictSteps(t)
  PROVE  FitInv'
<1> DEFINE o == op[t]
           Same == \A f \in {"kind", "from", "dst", "name", "locks", "seen"} :
                     op'[t][f] = o[f]
<1>a. o \in Ops /\ op \in [Tasks -> Ops] /\ Fit(o) /\ Works(o)
  BY DEF TypeInv, TypeOK, FitInv
<1>1. CASE EvictStage(t)
  <2>1. /\ op' = [op EXCEPT ![t] = op'[t]] /\ o.pc = "evictStage" /\ Same
        /\ op'[t].open = {o.dst} /\ op'[t].pc = "evictDelete"
    BY <1>1, <1>a DEF EvictStage, Ops
  <2>2. Fit(op'[t])
    BY <1>a, <2>1, DirsAssumption DEF Works, Fit, Staging, Going, Undecided, StageDirs
  <2> QED  BY <2>1, <2>2, FitStep
<1>2. CASE EvictRefused(t)
  BY <1>2, FitRaise DEF EvictRefused
<1>3. CASE EvictDelete(t)
  <2>1. /\ op' = [op EXCEPT ![t] = op'[t]] /\ o.pc = "evictDelete" /\ Same
        /\ op'[t].open = o.open /\ op'[t].pc = "evictCommit"
    BY <1>3, <1>a DEF EvictDelete, Ops
  <2>2. Fit(op'[t])
    BY <1>a, <2>1 DEF Fit, Staging, Going, Undecided, StageDirs
  <2> QED  BY <2>1, <2>2, FitStep
<1>4. CASE EvictCommit(t)
  <2>1. /\ op' = [op EXCEPT ![t] = op'[t]] /\ o.pc = "evictCommit" /\ Same
        /\ op'[t].open = {} /\ op'[t].pc = "stage"
    BY <1>4, <1>a DEF EvictCommit, Ops
  <2>2. Fit(op'[t])
    BY <1>a, <2>1 DEF Fit, Staging, Going, Undecided, StageDirs
  <2> QED  BY <2>1, <2>2, FitStep
<1> QED  BY <1>1, <1>2, <1>3, <1>4 DEF EvictSteps

LEMMA FitNext == TypeInv /\ FitInv /\ [Next]_vars => FitInv'
<1> SUFFICES ASSUME TypeInv, FitInv, [Next]_vars PROVE FitInv'
  OBVIOUS
<1>1. ASSUME NEW t \in Tasks, Proceed(t) PROVE FitInv'
  <2>1. CASE \E d \in Dirs : Lock(t, d) \/ Stage(t, d) \/ StageRefused(t, d) \/ Commit(t, d)
    BY <2>1, FitHandleLockDecide, FitStageCommit
  <2>2. CASE Decide(t)
    BY <2>2, FitHandleLockDecide
  <2>3. CASE EvictSteps(t)
    BY <2>3, FitEvict
  <2>4. CASE Mutate(t) \/ CancelPurge(t)
    BY <2>4, FitMutate
  <2> QED  BY <1>1, <2>1, <2>2, <2>3, <2>4 DEF Proceed
<1>2. ASSUME NEW t \in Tasks, Fail(t) PROVE FitInv'
  <2>1. Doc("live", NoDir, NoName) \in Docs /\ op[t] \in OpType
    BY DocTyped DEF States, TypeInv, TypeOK, OpType
  <2> QED  BY <1>2, <2>1, FitIdle, FitRaise, FitFinish, FitRollback DEF Fail
<1>3. CASE Crash
  BY <1>3, FitIdle DEF Crash, FitInv
<1>4. ASSUME NEW i \in Ids, SweepIncoming(i) PROVE FitInv'
  BY <1>4 DEF SweepIncoming, FitInv
<1>5. CASE UNCHANGED vars
  BY <1>5 DEF vars, FitInv
<1> QED  BY <1>1, <1>2, <1>3, <1>4, <1>5, FitBegin, FitHandleLockDecide DEF Next

-----------------------------------------------------------------------------
(* Who holds which lock, and whose tag is parked where.                    *)

\* Steps of a handler that has all the locks it asked for.
Acting == {"decide", "evictStage", "evictDelete", "evictCommit", "stage",
           "mutate", "commit"}

Owns(t) ==
  /\ op[t].pc \in Acting => \A d \in op[t].locks : dir_locks[d] = t
  /\ \A d \in op[t].open : entries_mac_pending[d] = op[t].tag[d]

LockInv == \A t \in Tasks : Owns(t)

LEMMA OpenIsHeld ==
  ASSUME TypeInv, FitInv, LockInv, NEW t \in Tasks, NEW d \in op[t].open
  PROVE  d \in Dirs /\ dir_locks[d] = t
<1>1. Staging(op[t]) /\ op[t] \in Ops
  BY DEF TypeInv, TypeOK, FitInv, Fit
<1>2. op[t].pc \in Acting
  BY <1>1 DEF Staging, Ops, Steps, Acting
<1> QED  BY <1>1, <1>2 DEF Staging, LockInv, Owns, Ops

\* A task gives away only its own locks, takes only free ones, and writes only
\* the staged tags of directories it has locked.
LEMMA LockFrame ==
  ASSUME TypeInv, FitInv, LockInv, NEW t \in Tasks,
         \A u \in Tasks \ {t} : op'[u] = op[u],
         \A d \in Dirs : dir_locks[d] \notin {t, NoTask} => dir_locks'[d] = dir_locks[d],
         \A d \in Dirs : dir_locks[d] # t =>
                           entries_mac_pending'[d] = entries_mac_pending[d],
         Owns(t)'
  PROVE  LockInv'
<1> SUFFICES ASSUME NEW u \in Tasks \ {t} PROVE Owns(u)'
  BY DEF LockInv
<1>1. /\ op[u].locks \subseteq Dirs /\ Owns(u) /\ op'[u] = op[u] /\ u # NoTask /\ u # t
      /\ \A d \in op[u].open : d \in Dirs /\ dir_locks[d] = u
  BY OpenIsHeld, NullAssumption DEF TypeInv, TypeOK, Ops, LockInv
<1> QED  BY <1>1 DEF Owns

\* A handler that has nothing staged and waits for nothing it holds.
Unburdened(o) == o.open = {} /\ (o.pc \in Acting => o.locks = {})

LEMMA UnburdenedIdle ==
  ASSUME NEW o \in OpType, NEW copy \in Docs
  PROVE  Unburdened(Idle) /\ Unburdened(Rollback(o, copy))
<1>1. /\ Rollback(o, copy).pc = IF {copy.parent} \ {NoDir} = {} THEN "mutate" ELSE "lock"
      /\ Rollback(o, copy).open = {} /\ Rollback(o, copy).locks = {copy.parent} \ {NoDir}
  BY DEF Rollback, Ready, Idle, StageDirs, Wanted
<1> QED  BY <1>1 DEF Unburdened, Idle, Acting

LEMMA LockFinish ==
  ASSUME TypeInv, FitInv, LockInv, NEW t \in Tasks, NEW o, Unburdened(o), Finish(t, o),
         \A d \in Dirs : dir_locks[d] # t =>
                           entries_mac_pending'[d] = entries_mac_pending[d]
  PROVE  LockInv'
<1>1. Owns(t)'
  BY DEF Finish, Unburdened, Owns, TypeInv, TypeOK
<1>2. /\ \A u \in Tasks \ {t} : op'[u] = op[u]
      /\ \A d \in Dirs : dir_locks[d] \notin {t, NoTask} => dir_locks'[d] = dir_locks[d]
  BY DEF Finish, Released, TypeInv, TypeOK
<1> QED  BY <1>1, <1>2, LockFrame

LEMMA LockRaise ==
  ASSUME TypeInv, FitInv, LockInv, NEW t \in Tasks, Raise(t),
         UNCHANGED entries_mac_pending
  PROVE  LockInv'
<1>1. op[t] \in OpType /\ op[t].seen \in Docs
  BY DEF TypeInv, TypeOK, OpType, Ops
<1>2. PICK o : Unburdened(o) /\ Finish(t, o)
  BY <1>1, UnburdenedIdle DEF Raise, Finish
<1> QED  BY <1>2, LockFinish

LEMMA LockKeep ==
  ASSUME TypeInv, FitInv, LockInv, NEW t \in Tasks, NEW o \in Ops,
         op' = [op EXCEPT ![t] = o],
         op[t].pc \in Acting \/ Unburdened(o), o.locks = op[t].locks,
         UNCHANGED dir_locks,
         \A d \in Dirs : dir_locks[d] # t =>
                           entries_mac_pending'[d] = entries_mac_pending[d],
         \A d \in o.open : entries_mac_pending'[d] = o.tag[d]
  PROVE  LockInv'
<1>1. op'[t] = o /\ \A u \in Tasks \ {t} : op'[u] = op[u]
  BY DEF TypeInv, TypeOK
<1>2. Owns(t)'
  BY <1>1 DEF Owns, LockInv, Unburdened
<1> QED  BY <1>1, <1>2, LockFrame

LEMMA ReadyKeeps ==
  ASSUME NEW o \in OpType, o.id \in Ids, o.open = {}
  PROVE  Ready(o) \in Ops /\ Ready(o).open = {} /\ Ready(o).locks = o.locks
  BY ReadyTyped DEF Ready, OpType, Ops

LEMMA LockBegin ==
  ASSUME TypeInv, FitInv, LockInv, NEW t \in Tasks, Begin(t) \/ Handle(t)
  PROVE  LockInv'
<1> USE DEF tags, observers
<1>a. /\ op \in [Tasks -> Ops] /\ op[t] \in OpType /\ op[t].seen \in Docs
      /\ op[t].pc = "open" => op[t].open = {}
  BY DEF TypeInv, TypeOK, OpType, Ops, FitInv, Fit, Staging
<1>b. ASSUME UNCHANGED <<dir_locks, entries_mac_pending>>, Unburdened(op'[t]),
             \A u \in Tasks \ {t} : op'[u] = op[u]
      PROVE  LockInv'
  <2>1. Owns(t)'
    BY <1>b DEF Owns, Unburdened
  <2> QED  BY <1>b, <2>1, LockFrame
<1>1. CASE Begin(t)
  <2> PICK i \in Ids :
        \/ \E d \in Dirs, n \in Names :
             BeginCreate(t, i, d, n) \/ BeginOverwrite(t, i, d, n) \/ BeginRename(t, i, d, n)
        \/ BeginTrash(t, i) \/ BeginRestore(t, i) \/ BeginPurge(t, i)
    BY <1>1 DEF Begin
  <2> DEFINE Given == /\ UNCHANGED <<dir_locks, entries_mac_pending>>
                      /\ \A u \in Tasks \ {t} : op'[u] = op[u]
                      /\ op'[t].open = {}
                      /\ \/ op'[t].pc \in {"lock", "open"}
                         \/ op'[t].pc = "mutate" /\ op'[t].locks = {}
  <2>1. ASSUME NEW d \in Dirs, NEW n \in Names, BeginCreate(t, i, d, n) PROVE Given
    BY <1>a, <2>1 DEF BeginCreate, Idle
  <2>2. ASSUME NEW d \in Dirs, NEW n \in Names, BeginOverwrite(t, i, d, n) PROVE Given
    BY <1>a, <2>2 DEF BeginOverwrite, Idle
  <2>3. ASSUME NEW d \in Dirs, NEW n \in Names, BeginRename(t, i, d, n) PROVE Given
    BY <1>a, <2>3 DEF BeginRename, Idle
  <2>4. ASSUME BeginTrash(t, i) PROVE Given
    BY <1>a, <2>4 DEF BeginTrash, Idle
  <2>5. ASSUME BeginRestore(t, i) PROVE Given
    BY <1>a, <2>5 DEF BeginRestore, Idle
  <2>6. ASSUME BeginPurge(t, i) PROVE Given
    BY <1>a, <2>6 DEF BeginPurge, Idle
  <2>7. Given
    BY <2>1, <2>2, <2>3, <2>4, <2>5, <2>6
  <2> QED  BY <1>b, <2>7 DEF Unburdened, Acting
<1>2. CASE Sync(t)
  <2>1. op'[t].open = {} /\ op'[t].pc = "open"
    BY <1>2, <1>a DEF Sync, Ops
  <2> QED  BY <1>2, <1>a, <1>b, <2>1 DEF Sync, Unburdened, Acting
<1>3. CASE Close(t)
  <2>1. Unburdened(op'[t])
    BY <1>3, <1>a DEF Close, Ops, Unburdened, Acting, Idle
  <2> QED  BY <1>3, <1>a, <1>b, <2>1 DEF Close
<1>4. CASE Abort(t)
  BY <1>4, <1>a, <1>b, UnburdenedIdle DEF Abort
<1> QED  BY <1>1, <1>2, <1>3, <1>4 DEF Handle

\* The lock comes one directory at a time; with the last one, all are held.
LEMMA LockLock ==
  ASSUME TypeInv, FitInv, LockInv, NEW t \in Tasks, NEW d \in Dirs, Lock(t, d)
  PROVE  LockInv'
<1> DEFINE o == op[t]
<1>a. /\ o \in OpType /\ o \in Ops /\ op \in [Tasks -> Ops] /\ o.open = {} /\ o.id \in Ids
      /\ d \in o.locks /\ o.pc = "lock" /\ dir_locks[d] = NoTask
      /\ dir_locks' = [dir_locks EXCEPT ![d] = t]
  BY DEF TypeInv, TypeOK, OpType, Works, FitInv, Fit, Staging, Lock, NextWanted, Free
<1>1. \A u \in Tasks \ {t} : op'[u] = op[u]
  BY <1>a DEF Lock
<1>2. op'[t].open = {} /\ op'[t].locks = o.locks
  BY <1>a, ReadyKeeps DEF Lock, Ops
<1>3. op'[t].pc \in Acting => \A e \in o.locks : dir_locks'[e] = t
  <2>1. CASE o.locks \ Held(t) = {d}
    BY <1>a, <2>1 DEF Held, TypeInv, TypeOK, Ops
  <2>2. CASE o.locks \ Held(t) # {d}
    BY <1>a, <2>2 DEF Lock, Acting
  <2> QED  BY <2>1, <2>2
<1>4. Owns(t)'
  BY <1>2, <1>3 DEF Owns
<1>5. /\ \A e \in Dirs : dir_locks[e] \notin {t, NoTask} => dir_locks'[e] = dir_locks[e]
      /\ UNCHANGED entries_mac_pending
  BY <1>a DEF TypeInv, TypeOK, Lock, tags
<1> QED  BY <1>1, <1>4, <1>5, LockFrame

LEMMA LockDecide ==
  ASSUME TypeInv, FitInv, LockInv, NEW t \in Tasks, Decide(t)
  PROVE  LockInv'
<1> USE DEF tags, observers, NameTaken, RestoreConflict
<1> DEFINE o == op[t]
<1>a. /\ o \in OpType /\ o \in Ops /\ op \in [Tasks -> Ops] /\ o.pc = "decide"
      /\ UNCHANGED entries_mac_pending
  BY DEF TypeInv, TypeOK, OpType, Decide, NameFree, RenameRefused, RestoreUnopposed,
         RestoreRefused, Evict, Displace, DisplaceRefused, RestoreReplacing, RestoreKeepingBoth
<1>b. o.open = {} /\ o.id \in Ids /\ o.pc \in Acting
  BY <1>a DEF FitInv, Fit, Staging, OpType, Works, Acting
<1>c. ASSUME op' = [op EXCEPT ![t] = Ready(o)], UNCHANGED dir_locks PROVE LockInv'
  BY <1>a, <1>b, <1>c, ReadyKeeps, LockKeep
<1>1. CASE NameFree(t) \/ RestoreUnopposed(t)
  BY <1>1, <1>c DEF NameFree, RestoreUnopposed
<1>2. CASE RenameRefused(t) \/ DisplaceRefused(t) \/ RestoreRefused(t)
  BY <1>a, <1>2, LockRaise DEF RenameRefused, DisplaceRefused, RestoreRefused
<1>3. ASSUME NEW v \in Ids, Evict(t, v) PROVE LockInv'
  <2>1. /\ op'[t] \in Ops /\ op' = [op EXCEPT ![t] = op'[t]] /\ UNCHANGED dir_locks
        /\ op'[t].open = {} /\ op'[t].locks = o.locks
    BY <1>3, <1>a, <1>b DEF Evict, Ops, Steps
  <2> QED  BY <1>a, <1>b, <2>1, LockKeep
<1>4. ASSUME NEW v \in Ids, Displace(t, v) PROVE LockInv'
  BY <1>4, <1>c DEF Displace
<1>5. ASSUME NEW v \in Ids, RestoreReplacing(t, v) PROVE LockInv'
  BY <1>5, <1>c DEF RestoreReplacing
<1>6. ASSUME NEW n \in Names, RestoreKeepingBoth(t, n) PROVE LockInv'
  <2> DEFINE q == [o EXCEPT !.name = n, !.from = o.seen.parent, !.dst = o.seen.parent]
  <2>1. /\ q \in Ops /\ q.id = o.id /\ q.open = {} /\ q.locks = o.locks
        /\ q.kind = "restore" /\ q.pc = "decide"
    BY <1>a, <1>b, <1>6 DEF RestoreKeepingBoth, Ops, Docs
  <2>2. op' = [op EXCEPT ![t] = Ready(q)] /\ UNCHANGED dir_locks
    BY <1>6 DEF RestoreKeepingBoth
  <2> HIDE DEF q
  <2>3. q \in OpType
    BY <1>b, <2>1 DEF OpType, Works
  <2>4. Ready(q) \in Ops /\ Ready(q).open = {} /\ Ready(q).locks = o.locks
    BY <1>b, <2>1, <2>3, ReadyKeeps
  <2> QED  BY <1>a, <1>b, <2>2, <2>4, LockKeep
<1> QED  BY <1>1, <1>2, <1>3, <1>4, <1>5, <1>6 DEF Decide

LEMMA LockStageCommit ==
  ASSUME TypeInv, FitInv, LockInv, NEW t \in Tasks, NEW d \in Dirs,
         Stage(t, d) \/ StageRefused(t, d) \/ Commit(t, d)
  PROVE  LockInv'
<1> USE DEF tags, observers
<1> DEFINE o == op[t]
<1>a. o \in OpType /\ o \in Ops /\ op \in [Tasks -> Ops] /\ Staging(o) /\ Owns(t)
  BY DEF TypeInv, TypeOK, OpType, FitInv, Fit, LockInv
<1>1. CASE Stage(t, d)
  <2> DEFINE staged == TagOf(Children(d), Arriving(o, d), Leaving(o, d))
  <2>1. /\ entries_mac_pending' = [entries_mac_pending EXCEPT ![d] = staged]
        /\ op' = [op EXCEPT ![t] = op'[t]] /\ UNCHANGED dir_locks
        /\ op'[t].locks = o.locks /\ op'[t].open = o.open \cup {d}
        /\ op'[t].tag = [o.tag EXCEPT ![d] = staged]
    BY <1>1, <1>a DEF Stage, Park, Ops
  <2>2. o.pc \in Acting /\ dir_locks[d] = t
    BY <1>1, <1>a DEF Stage, NextToStage, Acting, Owns, Staging
  <2>3. op'[t] \in Ops
    BY <1>1, TypeInvStage DEF TypeInv, TypeOK
  <2> HIDE DEF staged
  <2>4. \A e \in op'[t].open : entries_mac_pending'[e] = op'[t].tag[e]
    BY <1>a, <2>1 DEF Owns, Ops, TypeInv, TypeOK, Staging
  <2>5. \A e \in Dirs : dir_locks[e] # t =>
          entries_mac_pending'[e] = entries_mac_pending[e]
    BY <2>1, <2>2 DEF TypeInv, TypeOK
  <2> QED  BY ZenonT(60), <2>1, <2>2, <2>3, <2>4, <2>5, LockKeep
<1>2. CASE StageRefused(t, d)
  BY <1>2, LockRaise DEF StageRefused
<1>3. CASE Commit(t, d)
  <2> DEFINE q == [Idle EXCEPT !.pc = "open", !.kind = "create",
                               !.id = o.id, !.seen = o.seen]
  <2>1. /\ entries_mac_pending' = [entries_mac_pending EXCEPT ![d] = {}]
        /\ o.pc \in Acting /\ dir_locks[d] = t
    BY <1>3, OpenIsHeld DEF Commit, Promote, Acting
  <2>2. \A e \in Dirs : dir_locks[e] # t =>
          entries_mac_pending'[e] = entries_mac_pending[e]
    BY <2>1 DEF TypeInv, TypeOK
  <2>3. CASE o.open # {d}
    <3>1. /\ op' = [op EXCEPT ![t] = op'[t]] /\ UNCHANGED dir_locks
          /\ op'[t].locks = o.locks /\ op'[t].open = o.open \ {d} /\ op'[t].tag = o.tag
          /\ op'[t] \in Ops
      BY <1>3, <1>a, <2>3 DEF Commit, Ops
    <3>2. \A e \in op'[t].open : entries_mac_pending'[e] = op'[t].tag[e]
      BY <1>a, <2>1, <3>1, OpenIsHeld DEF Owns, TypeInv, TypeOK
    <3> QED  BY <2>1, <2>2, <3>1, <3>2, LockKeep
  <2>4. Unburdened(q) /\ Unburdened(Idle)
    BY DEF Unburdened, Idle, Acting
  <2> QED  BY <1>3, <2>2, <2>3, <2>4, LockFinish DEF Commit
<1> QED  BY <1>1, <1>2, <1>3

LEMMA LockMutate ==
  ASSUME TypeInv, FitInv, LockInv, NEW t \in Tasks, Mutate(t) \/ CancelPurge(t)
  PROVE  LockInv'
<1> USE DEF tags, observers, AtMutation
<1> DEFINE o == op[t]
<1>a. /\ o \in Ops /\ op \in [Tasks -> Ops] /\ Owns(t)
      /\ o.pc \in Acting /\ UNCHANGED entries_mac_pending
  BY DEF TypeInv, TypeOK, LockInv, Acting, Mutate, CancelPurge, InsertNode, MoveNode,
         RestoreNode, TrashNode, DeleteNode
<1>b. Unburdened(Idle)
  BY DEF Unburdened, Idle, Acting
<1>c. ASSUME UNCHANGED dir_locks, op' = [op EXCEPT ![t] = op'[t]], op'[t] \in Ops,
             op'[t].open = o.open, op'[t].locks = o.locks, op'[t].tag = o.tag
      PROVE  LockInv'
  BY <1>a, <1>c, LockKeep DEF Owns
<1>d. TypeInv'
  BY TypeInvMutate
<1>1. ASSUME Mutated(t) PROVE LockInv'
  <2>1. CASE Finish(t, Idle)
    BY <1>a, <1>b, <2>1, LockFinish
  <2>2. CASE op' = [op EXCEPT ![t].pc = "commit"] /\ UNCHANGED dir_locks
    <3>1. op'[t] \in Ops
      BY <1>d DEF TypeInv, TypeOK
    <3> QED  BY <1>a, <1>c, <2>2, <3>1 DEF Ops
  <2> QED  BY <1>1, <2>1, <2>2 DEF Mutated
<1>2. ASSUME NEW x, op' = [op EXCEPT ![t].pc = "commit", ![t].seen = x],
             UNCHANGED dir_locks
      PROVE  LockInv'
  <2>1. op'[t] \in Ops
    BY <1>d DEF TypeInv, TypeOK
  <2> QED  BY <1>a, <1>c, <1>2, <2>1 DEF Ops
<1>3. CASE InsertNode(t)
  <2>1. \/ Raise(t)
        \/ /\ op' = [op EXCEPT ![t].pc = "commit", ![t].seen = Doc("live", o.dst, o.name)]
           /\ UNCHANGED dir_locks
    BY <1>3 DEF InsertNode
  <2> QED  BY <1>a, <1>2, <2>1, LockRaise
<1>4. CASE MoveNode(t)
  <2> DEFINE copy == IF o.kind = "overwrite" THEN Doc("live", o.dst, o.name) ELSE o.seen
             refused == node[o.id].state = "live" /\ ~IndexAllows(o.id, o.dst, o.name)
  <2>1. CASE refused
    BY <1>4, <1>a, <2>1, LockRaise DEF MoveNode
  <2>2. CASE ~refused
    <3>1. UNCHANGED dir_locks /\ op' = [op EXCEPT ![t].pc = "commit",
                             ![t].seen = IF o.kind = "overwrite"
                                         THEN Doc("live", o.dst, o.name) ELSE @]
      BY <1>4, <2>2 DEF MoveNode
    <3>2. op' = [op EXCEPT ![t].pc = "commit", ![t].seen = copy]
      BY <1>a, <3>1 DEF Ops
    <3> QED  BY <1>2, <3>1, <3>2
  <2> QED  BY <2>1, <2>2
<1>5. CASE RestoreNode(t)
  <2>1. Raise(t) \/ Mutated(t)
    BY <1>5 DEF RestoreNode
  <2> QED  BY <1>a, <1>1, <2>1, LockRaise
<1>6. CASE TrashNode(t) \/ DeleteNode(t)
  BY <1>6, <1>1 DEF TrashNode, DeleteNode
<1>7. CASE CancelPurge(t)
  BY <1>7, <1>a, <1>b, LockFinish DEF CancelPurge
<1> QED  BY <1>3, <1>4, <1>5, <1>6, <1>7 DEF Mutate

LEMMA LockEvict ==
  ASSUME TypeInv, FitInv, LockInv, NEW t \in Tasks, EvictSteps(t)
  PROVE  LockInv'
<1> USE DEF tags, observers
<1> DEFINE o == op[t]
<1>a. /\ o \in Ops /\ op \in [Tasks -> Ops] /\ Fit(o) /\ Works(o) /\ Owns(t)
      /\ o.pc \in Evicting
  BY DEF TypeInv, TypeOK, FitInv, LockInv, EvictSteps, EvictStage, EvictRefused,
         EvictDelete, EvictCommit
<1>b. o.pc \in Acting /\ o.dst \in Dirs /\ o.dst \in o.locks /\ dir_locks[o.dst] = t
  BY <1>a, DirsAssumption DEF Acting, Works, Fit, Staging, StageDirs, Owns
<1>c. op'[t] \in Ops
  BY TypeInvEvict DEF TypeInv, TypeOK
<1>1. CASE EvictStage(t)
  <2> DEFINE staged == TagOf(Children(o.dst), {}, {<<o.victim, o.name>>})
  <2>1. /\ entries_mac_pending' = [entries_mac_pending EXCEPT ![o.dst] = staged]
        /\ op' = [op EXCEPT ![t] = op'[t]] /\ UNCHANGED dir_locks
        /\ op'[t].locks = o.locks /\ op'[t].open = {o.dst}
        /\ op'[t].tag[o.dst] = staged
    BY <1>1, <1>a, <1>b DEF EvictStage, Park, Ops
  <2> HIDE DEF staged
  <2>2. /\ \A e \in op'[t].open : entries_mac_pending'[e] = op'[t].tag[e]
        /\ \A e \in Dirs : dir_locks[e] # t =>
             entries_mac_pending'[e] = entries_mac_pending[e]
    BY <1>b, <2>1 DEF TypeInv, TypeOK
  <2> QED  BY <1>b, <1>c, <2>1, <2>2, LockKeep
<1>2. CASE EvictRefused(t)
  BY <1>2, LockRaise DEF EvictRefused
<1>3. CASE EvictDelete(t)
  <2>1. /\ op' = [op EXCEPT ![t] = op'[t]]
        /\ UNCHANGED <<dir_locks, entries_mac_pending>>
        /\ op'[t].locks = o.locks /\ op'[t].open = o.open /\ op'[t].tag = o.tag
    BY <1>3, <1>a DEF EvictDelete, Ops
  <2> QED  BY <1>a, <1>b, <1>c, <2>1, LockKeep DEF Owns
<1>4. CASE EvictCommit(t)
  <2>1. /\ entries_mac_pending' = [entries_mac_pending EXCEPT ![o.dst] = {}]
        /\ op' = [op EXCEPT ![t] = op'[t]] /\ UNCHANGED dir_locks
        /\ op'[t].locks = o.locks /\ op'[t].open = {}
    BY <1>4, <1>a DEF EvictCommit, Promote, Ops
  <2>2. \A e \in Dirs : dir_locks[e] # t =>
          entries_mac_pending'[e] = entries_mac_pending[e]
    BY <1>b, <2>1 DEF TypeInv, TypeOK
  <2> QED  BY <1>b, <1>c, <2>1, <2>2, LockKeep
<1> QED  BY <1>1, <1>2, <1>3, <1>4 DEF EvictSteps

LEMMA LockNext == TypeInv /\ FitInv /\ LockInv /\ [Next]_vars => LockInv'
<1> SUFFICES ASSUME TypeInv, FitInv, LockInv, [Next]_vars PROVE LockInv'
  OBVIOUS
<1> USE DEF tags, observers
<1>1. ASSUME NEW t \in Tasks, Proceed(t) PROVE LockInv'
  <2>1. CASE \E d \in Dirs : Lock(t, d) \/ Stage(t, d) \/ StageRefused(t, d) \/ Commit(t, d)
    BY <2>1, LockLock, LockStageCommit
  <2> QED  BY <1>1, <2>1, LockDecide, LockEvict, LockMutate DEF Proceed
<1>2. ASSUME NEW t \in Tasks, Fail(t) PROVE LockInv'
  <2>1. Doc("live", NoDir, NoName) \in Docs /\ op[t] \in OpType
    BY DocTyped DEF States, TypeInv, TypeOK, OpType
  <2> QED  BY <1>2, <2>1, UnburdenedIdle, LockRaise, LockFinish DEF Fail
<1>3. CASE Crash
  BY <1>3, IdleTyped DEF Crash, LockInv, Owns, Idle, Acting
<1>4. ASSUME NEW i \in Ids, SweepIncoming(i) PROVE LockInv'
  BY <1>4 DEF SweepIncoming, LockInv, Owns
<1>5. CASE UNCHANGED vars
  BY <1>5 DEF vars, LockInv, Owns
<1> QED  BY <1>1, <1>2, <1>3, <1>4, <1>5, LockBegin DEF Next

LEMMA LockInit == Init => TypeInv /\ FitInv /\ LockInv
<1> SUFFICES ASSUME Init PROVE TypeInv /\ FitInv /\ LockInv
  OBVIOUS
<1>1. \A t \in Tasks : op[t] = Idle
  BY DEF Init
<1>2. Idle.pc \notin Acting /\ Idle.open = {}
  BY DEF Idle, Acting
<1> QED  BY <1>1, <1>2, TypeInvInit, FitIdle DEF FitInv, LockInv, Owns

\* Between staging a directory and promoting its tag a handler has the
\* directory to itself: the parked tag is the one it computed.
THEOREM StagedTagIsOwned == Spec => []StagedTagHasOneOwner
<1>1. TypeInv /\ FitInv /\ LockInv => StagedTagHasOneOwner
  BY OpenIsHeld DEF StagedTagHasOneOwner, LockInv, Owns
<1> QED  BY <1>1, LockInit, TypeInvNext, FitNext, LockNext, PTL DEF Spec

-----------------------------------------------------------------------------
(* Locks are taken in order: the handlers use no more than DirMutex.       *)

\* A task outside `_locked_dirs` holds nothing; one on its way in holds the
\* lesser of the directories it asked for.
Orderly(t) ==
  /\ op[t].pc \in {"idle", "open"} => Held(t) = {}
  /\ op[t].pc = "lock" =>
       \A d \in Held(t), e \in op[t].locks \ Held(t) : d < e

OrderInv == \A t \in Tasks : Orderly(t)

LockStep == Mutex!Next \/ UNCHANGED dir_locks

LEMMA OrderKeep ==
  ASSUME TypeInv, OrderInv, NEW t \in Tasks,
         UNCHANGED dir_locks, \A u \in Tasks \ {t} : op'[u] = op[u],
         op[t].pc \in {"idle", "open"} \/ op'[t].pc \notin {"idle", "open", "lock"}
  PROVE  OrderInv' /\ LockStep
<1>1. ASSUME NEW u \in Tasks PROVE Held(u)' = Held(u)
  BY DEF Held
<1>2. Orderly(t)'
  BY <1>1 DEF OrderInv, Orderly
<1>3. ASSUME NEW u \in Tasks \ {t} PROVE Orderly(u)'
  BY <1>1 DEF OrderInv, Orderly
<1> QED  BY <1>2, <1>3 DEF OrderInv, LockStep

LEMMA OrderFinish ==
  ASSUME TypeInv, OrderInv, NEW t \in Tasks, NEW o, Finish(t, o)
  PROVE  OrderInv' /\ LockStep
<1>1. Held(t)' = {} /\ \A u \in Tasks \ {t} : Held(u)' = Held(u) /\ op'[u] = op[u]
  BY NullAssumption DEF Finish, Released, Held, TypeInv, TypeOK
<1>2. Orderly(t)'
  BY <1>1 DEF Orderly
<1>3. ASSUME NEW u \in Tasks \ {t} PROVE Orderly(u)'
  BY <1>1 DEF OrderInv, Orderly
<1>4. \A d \in Dirs : dir_locks'[d] = IF dir_locks[d] = t THEN NoTask ELSE dir_locks[d]
  BY DEF Finish, Released
<1>5. Mutex!Release(t, 1)
  <2>1. dir_locks \in [Dirs -> Tasks \cup {NoTask}] /\ dir_locks' \in [Dirs -> Tasks \cup {NoTask}]
    BY <1>4 DEF TypeInv, TypeOK, Finish, Released
  <2> QED  BY <1>4, <2>1, NullAssumption DEF Mutex!Release, Mutex!Freed
<1> QED  BY <1>2, <1>3, <1>5 DEF OrderInv, LockStep, Mutex!Next

LEMMA OrderRaise ==
  ASSUME TypeInv, OrderInv, NEW t \in Tasks, Raise(t)
  PROVE  OrderInv' /\ LockStep
<1>1. PICK o : Finish(t, o)
  BY DEF Raise, Finish
<1> QED  BY <1>1, OrderFinish

LEMMA OrderLock ==
  ASSUME TypeInv, OrderInv, NEW t \in Tasks, NEW d \in Dirs, Lock(t, d)
  PROVE  OrderInv' /\ LockStep
<1>1. /\ op[t].pc = "lock" /\ d \in op[t].locks \ Held(t)
      /\ \A e \in op[t].locks \ Held(t) : d <= e
      /\ dir_locks[d] = NoTask /\ dir_locks' = [dir_locks EXCEPT ![d] = t]
      /\ op[t].locks \subseteq Nat
  BY DirsAssumption DEF Lock, NextWanted, Free, TypeInv, TypeOK, Ops
<1>2. /\ Held(t)' = Held(t) \cup {d}
      /\ \A u \in Tasks \ {t} : Held(u)' = Held(u) /\ op'[u] = op[u]
  BY <1>1, NullAssumption DEF Lock, Held, TypeInv, TypeOK
<1>3. \A e \in Held(t) : e < d
  BY <1>1 DEF OrderInv, Orderly
<1>4. Orderly(t)'
  <2>1. op'[t].pc \notin {"idle", "open"}
    BY <1>1 DEF Lock, Ready, TypeInv, TypeOK, Ops
  <2>2. ASSUME op'[t].pc = "lock" PROVE op'[t].locks = op[t].locks
    BY <1>1, <2>2 DEF Lock, Ready, TypeInv, TypeOK, Ops
  <2>3. ASSUME op'[t].pc = "lock", NEW a \in Held(t)', NEW e \in op'[t].locks \ Held(t)'
        PROVE  a < e
    <3>1. e \in op[t].locks \ Held(t) /\ e # d /\ e \in Nat /\ d \in Nat
      BY <1>1, <1>2, <2>2, <2>3
    <3>2. d < e
      BY <1>1, <3>1
    <3>3. CASE a = d
      BY <3>2, <3>3
    <3>4. CASE a \in Held(t)
      BY <1>1, <3>1, <3>4 DEF OrderInv, Orderly
    <3> QED  BY <1>2, <3>3, <3>4
  <2> QED  BY <2>1, <2>3 DEF Orderly
<1>5. ASSUME NEW u \in Tasks \ {t} PROVE Orderly(u)'
  BY <1>2 DEF OrderInv, Orderly
<1>6. Mutex!Acquire(t, d, 1)
  BY <1>1, <1>3, NullAssumption DEF Mutex!Acquire, Held, TypeInv, TypeOK
<1> QED  BY <1>4, <1>5, <1>6 DEF OrderInv, LockStep, Mutex!Next


LEMMA OrderBegin ==
  ASSUME TypeInv, OrderInv, NEW t \in Tasks, Begin(t) \/ Handle(t)
  PROVE  OrderInv' /\ LockStep
<1>1. op \in [Tasks -> Ops]
  BY DEF TypeInv, TypeOK
<1>2. CASE Begin(t)
  <2> DEFINE Given == /\ UNCHANGED dir_locks /\ op[t].pc = "idle"
                      /\ \A u \in Tasks \ {t} : op'[u] = op[u]
  <2> PICK i \in Ids :
        \/ \E d \in Dirs, n \in Names :
             BeginCreate(t, i, d, n) \/ BeginOverwrite(t, i, d, n) \/ BeginRename(t, i, d, n)
        \/ BeginTrash(t, i) \/ BeginRestore(t, i) \/ BeginPurge(t, i)
    BY <1>2 DEF Begin
  <2>1. ASSUME NEW d \in Dirs, NEW n \in Names,
               BeginCreate(t, i, d, n) \/ BeginOverwrite(t, i, d, n)
        PROVE  Given
    BY <1>1, <2>1 DEF BeginCreate, BeginOverwrite
  <2>2. ASSUME NEW d \in Dirs, NEW n \in Names, BeginRename(t, i, d, n) PROVE Given
    BY <1>1, <2>2 DEF BeginRename
  <2>3. ASSUME BeginTrash(t, i) \/ BeginRestore(t, i) \/ BeginPurge(t, i) PROVE Given
    BY <1>1, <2>3 DEF BeginTrash, BeginRestore, BeginPurge
  <2>4. Given
    BY <2>1, <2>2, <2>3
  <2> QED  BY <2>4, OrderKeep
<1>3. CASE Handle(t)
  <2>1. /\ UNCHANGED dir_locks /\ op[t].pc = "open"
        /\ \A u \in Tasks \ {t} : op'[u] = op[u]
    BY <1>1, <1>3 DEF Handle, Sync, Close, Abort
  <2> QED  BY <2>1, OrderKeep
<1> QED  BY <1>2, <1>3

\* A handler that goes on with the locks it has.
LEMMA OrderOn ==
  ASSUME TypeInv, OrderInv, NEW t \in Tasks, NEW o \in Ops,
         op' = [op EXCEPT ![t] = o], UNCHANGED dir_locks,
         o.pc \notin {"idle", "open", "lock"}
  PROVE  OrderInv' /\ LockStep
<1>1. op'[t] = o /\ \A u \in Tasks \ {t} : op'[u] = op[u]
  BY DEF TypeInv, TypeOK
<1> QED  BY <1>1, OrderKeep

LEMMA ReadyGoesOn ==
  ASSUME NEW o \in OpType, o.id \in Ids
  PROVE  Ready(o) \in Ops /\ Ready(o).pc \in {"stage", "mutate"}
  BY ReadyTyped DEF Ready, OpType, Ops

LEMMA OrderDecide ==
  ASSUME TypeInv, OrderInv, NEW t \in Tasks, Decide(t)
  PROVE  OrderInv' /\ LockStep
<1>a. /\ op \in [Tasks -> Ops] /\ op[t] \in OpType /\ op[t] \in Ops
      /\ op[t].pc # "idle" => op[t].id \in Ids
  BY DEF TypeInv, TypeOK, OpType, Works
<1>b. op[t].pc # "idle" => Ready(op[t]) \in Ops /\ Ready(op[t]).pc \in {"stage", "mutate"}
  BY <1>a, ReadyGoesOn
<1>1. ASSUME op' = [op EXCEPT ![t] = Ready(op[t])], op[t].pc # "idle", UNCHANGED dir_locks
      PROVE  OrderInv' /\ LockStep
  BY <1>1, <1>b, OrderOn
<1>2. ASSUME NameFree(t) \/ RestoreUnopposed(t) PROVE OrderInv' /\ LockStep
  BY <1>1, <1>2 DEF NameFree, RestoreUnopposed
<1>3. ASSUME RenameRefused(t) \/ DisplaceRefused(t) \/ RestoreRefused(t)
      PROVE  OrderInv' /\ LockStep
  BY <1>3, OrderRaise DEF RenameRefused, DisplaceRefused, RestoreRefused
<1>4. ASSUME NEW v \in Ids, Evict(t, v) PROVE OrderInv' /\ LockStep
  <2>1. /\ UNCHANGED dir_locks /\ op'[t].pc = "evictStage"
        /\ \A u \in Tasks \ {t} : op'[u] = op[u]
    BY <1>4, <1>a DEF Evict, Ops
  <2> QED  BY <2>1, OrderKeep
<1>5. ASSUME NEW v \in Ids, Displace(t, v) PROVE OrderInv' /\ LockStep
  BY <1>1, <1>5 DEF Displace, NameTaken
<1>6. ASSUME NEW v \in Ids, RestoreReplacing(t, v) PROVE OrderInv' /\ LockStep
  BY <1>1, <1>6 DEF RestoreReplacing, RestoreConflict
<1>7. ASSUME NEW n \in Names, RestoreKeepingBoth(t, n) PROVE OrderInv' /\ LockStep
  <2> DEFINE o == [op[t] EXCEPT !.name = n, !.from = op[t].seen.parent,
                                !.dst = op[t].seen.parent]
  <2>1. op[t].pc = "decide" /\ op[t].kind = "restore" /\ op[t].seen \in Docs
    BY <1>7, <1>a DEF RestoreKeepingBoth, RestoreConflict, Ops
  <2>2. o \in OpType /\ o.id \in Ids
    BY <1>a, <2>1 DEF OpType, Ops, Works, Docs
  <2>3. Ready(o) \in Ops /\ Ready(o).pc \in {"stage", "mutate"}
    BY <2>2, ReadyGoesOn
  <2>4. op' = [op EXCEPT ![t] = Ready(o)] /\ UNCHANGED dir_locks
    BY <1>7 DEF RestoreKeepingBoth
  <2> HIDE DEF o
  <2> QED  BY <2>3, <2>4, OrderOn
<1> QED  BY <1>2, <1>3, <1>4, <1>5, <1>6, <1>7 DEF Decide

LEMMA OrderStageCommit ==
  ASSUME TypeInv, OrderInv, NEW t \in Tasks, NEW d \in Dirs,
         Stage(t, d) \/ StageRefused(t, d) \/ Commit(t, d)
  PROVE  OrderInv' /\ LockStep
<1>a. op \in [Tasks -> Ops] /\ op[t] \in Ops
  BY DEF TypeInv, TypeOK
<1>1. CASE Stage(t, d)
  <2>1. /\ UNCHANGED dir_locks /\ op'[t].pc \in {"stage", "mutate"}
        /\ \A u \in Tasks \ {t} : op'[u] = op[u]
    BY <1>1, <1>a DEF Stage, Ops
  <2> QED  BY <2>1, OrderKeep
<1>2. CASE StageRefused(t, d)
  BY <1>2, OrderRaise DEF StageRefused
<1>3. CASE Commit(t, d)
  <2>1. CASE op[t].open # {d}
    <3>1. /\ UNCHANGED dir_locks /\ op'[t].pc = "commit"
          /\ \A u \in Tasks \ {t} : op'[u] = op[u]
      BY <1>3, <1>a, <2>1 DEF Commit, Ops
    <3> QED  BY <3>1, OrderKeep
  <2>2. CASE op[t].open = {d}
    <3>1. \E o : Finish(t, o)
      BY <1>3, <2>2 DEF Commit
    <3> QED  BY <3>1, OrderFinish
  <2> QED  BY <2>1, <2>2
<1> QED  BY <1>1, <1>2, <1>3

LEMMA OrderMutate ==
  ASSUME TypeInv, OrderInv, NEW t \in Tasks, Mutate(t) \/ CancelPurge(t)
  PROVE  OrderInv' /\ LockStep
<1>a. op \in [Tasks -> Ops] /\ op[t] \in Ops
  BY DEF TypeInv, TypeOK
<1>1. ASSUME Mutated(t) PROVE OrderInv' /\ LockStep
  <2>1. CASE op[t].open = {}
    BY <1>1, <2>1, OrderFinish DEF Mutated
  <2>2. CASE op[t].open # {}
    <3>1. /\ UNCHANGED dir_locks /\ op'[t].pc = "commit"
          /\ \A u \in Tasks \ {t} : op'[u] = op[u]
      BY <1>1, <1>a, <2>2 DEF Mutated, Ops
    <3> QED  BY <3>1, OrderKeep
  <2> QED  BY <2>1, <2>2
<1>2. ASSUME /\ UNCHANGED dir_locks /\ op'[t].pc = "commit"
             /\ \A u \in Tasks \ {t} : op'[u] = op[u]
      PROVE  OrderInv' /\ LockStep
  BY <1>2, OrderKeep
<1>3. CASE InsertNode(t)
  <2>1. CASE IndexAllows(op[t].id, op[t].dst, op[t].name)
    <3>1. /\ UNCHANGED dir_locks /\ op'[t].pc = "commit"
          /\ \A u \in Tasks \ {t} : op'[u] = op[u]
      BY <1>3, <1>a, <2>1 DEF InsertNode, Ops
    <3> QED  BY <3>1, <1>2
  <2> QED  BY <1>3, <2>1, OrderRaise DEF InsertNode
<1>4. CASE MoveNode(t)
  <2>1. CASE node[op[t].id].state = "live" /\ ~IndexAllows(op[t].id, op[t].dst, op[t].name)
    BY <1>4, <2>1, OrderRaise DEF MoveNode
  <2>2. CASE ~(node[op[t].id].state = "live" /\ ~IndexAllows(op[t].id, op[t].dst, op[t].name))
    <3>1. /\ UNCHANGED dir_locks /\ op'[t].pc = "commit"
          /\ \A u \in Tasks \ {t} : op'[u] = op[u]
      BY <1>4, <1>a, <2>2 DEF MoveNode, Ops
    <3> QED  BY <3>1, <1>2
  <2> QED  BY <2>1, <2>2
<1>5. CASE RestoreNode(t)
  BY <1>1, <1>5, OrderRaise DEF RestoreNode
<1>6. CASE TrashNode(t) \/ DeleteNode(t)
  BY <1>1, <1>6 DEF TrashNode, DeleteNode
<1>7. CASE CancelPurge(t)
  BY <1>7, OrderFinish DEF CancelPurge
<1> QED  BY <1>3, <1>4, <1>5, <1>6, <1>7 DEF Mutate

LEMMA OrderEvict ==
  ASSUME TypeInv, OrderInv, NEW t \in Tasks, EvictSteps(t)
  PROVE  OrderInv' /\ LockStep
<1>a. op \in [Tasks -> Ops] /\ op[t] \in Ops
  BY DEF TypeInv, TypeOK
<1>1. CASE EvictRefused(t)
  BY <1>1, OrderRaise DEF EvictRefused
<1>2. CASE EvictStage(t) \/ EvictDelete(t) \/ EvictCommit(t)
  <2>1. /\ UNCHANGED dir_locks /\ op'[t].pc \in {"evictDelete", "evictCommit", "stage"}
        /\ \A u \in Tasks \ {t} : op'[u] = op[u]
    BY <1>2, <1>a DEF EvictStage, EvictDelete, EvictCommit, Ops
  <2> QED  BY <2>1, OrderKeep
<1> QED  BY <1>1, <1>2 DEF EvictSteps

LEMMA OrderNext == TypeInv /\ OrderInv /\ [Next]_vars => OrderInv' /\ LockStep
<1> SUFFICES ASSUME TypeInv, OrderInv, [Next]_vars PROVE OrderInv' /\ LockStep
  OBVIOUS
<1>1. ASSUME NEW t \in Tasks, Proceed(t) PROVE OrderInv' /\ LockStep
  BY <1>1, OrderLock, OrderStageCommit, OrderDecide, OrderEvict, OrderMutate DEF Proceed
<1>2. ASSUME NEW t \in Tasks, Fail(t) PROVE OrderInv' /\ LockStep
  BY <1>2, OrderRaise, OrderFinish DEF Fail
<1>3. CASE Crash
  <2>1. OrderInv'
    BY <1>3, NullAssumption DEF Crash, OrderInv, Orderly, Held, Idle
  <2>2. dir_locks' = [d \in Dirs |-> NoTask]
    BY <1>3 DEF Crash
  <2>3. Mutex!Crash
    BY <2>2 DEF Mutex!Crash, Mutex!Freed
  <2> QED  BY <2>1, <2>3 DEF LockStep, Mutex!Next
<1>4. CASE UNCHANGED vars \/ \E i \in Ids : SweepIncoming(i)
  BY <1>4 DEF vars, SweepIncoming, OrderInv, Orderly, Held, LockStep
<1> QED  BY <1>1, <1>2, <1>3, <1>4, OrderBegin DEF Next

\* Every handler takes the directories it locks in ascending order and one
\* owner at a time, so what DirLocks implements is all the handlers rely on.
THEOREM HandlersTakeLocksInOrder == Spec => LocksInOrder
<1>1. Init => OrderInv /\ Mutex!Init
  BY NullAssumption DEF Init, OrderInv, Orderly, Held, Idle, Mutex!Init
<1>2. TypeInv /\ OrderInv /\ [Next]_vars => [Mutex!Next]_(Mutex!vars)
  BY OrderNext DEF LockStep, Mutex!vars
<1> QED  BY <1>1, <1>2, TypeInvInit, TypeInvNext, OrderNext, PTL
         DEF Spec, LocksInOrder, Mutex!Spec


-----------------------------------------------------------------------------
(* Whose node it is: a node that has no place yet is its creator's alone.  *)

\* A create or an overwrite that has not put its node in the directory yet.
Unplaced(o) ==
  \/ o.kind \in {"create", "overwrite"} /\ o.pc \in {"lock", "decide", "stage", "mutate"}
  \/ o.kind = "overwrite" /\ o.pc = "open"

Drawn(t) == op[t].id # NoId => node[op[t].id].state # "fresh"

Alone(t) ==
  Unplaced(op[t]) =>
    /\ node[op[t].id].parent = NoDir /\ op[t].seen.parent = NoDir
    /\ op[t].kind = "create" => ~Present(op[t].id)
    /\ op[t].kind = "overwrite" => op[t].seen.state = "live"
    /\ \A u \in Tasks \ {t} : op[u].id # op[t].id

PlaceInv == \A t \in Tasks : Drawn(t) /\ Alone(t)

\* What a step of t may do to the nodes: none becomes fresh, and a node without
\* a place that is not its own is left alone or deleted.
NodeStep(t) ==
  \A j \in Ids : node[j].state # "fresh" =>
    /\ node'[j].state # "fresh"
    /\ node[j].parent = NoDir /\ j # op[t].id => node'[j] \in {node[j], Gone}

\* What it may do to its own record: let the node go, or keep it.
OwnStep(t) ==
  /\ \A u \in Tasks \ {t} : op'[u] = op[u]
  /\ op'[t] = Idle \/ op'[t].id = op[t].id
  /\ Unplaced(op'[t]) =>
       /\ Unplaced(op[t]) /\ op'[t].kind = op[t].kind /\ node'[op[t].id] = node[op[t].id]
       /\ op'[t].seen.parent \in {op[t].seen.parent, node[op[t].id].parent}
       /\ op'[t].seen.state = op[t].seen.state

LEMMA GoneState == Gone.state = "gone" /\ Gone.parent = NoDir
  BY DEF Gone, Doc

\* The other tasks' nodes, where a step takes up a node only if it is fresh or
\* has a place.
LEMMA PlaceFrame ==
  ASSUME TypeInv, PlaceInv, NEW t \in Tasks, \A u \in Tasks \ {t} : op'[u] = op[u],
         NodeStep(t), Drawn(t)', Alone(t)',
         \/ op'[t].id \in {op[t].id, NoId}
         \/ /\ op'[t].id \in Ids
            /\ node[op'[t].id].state = "fresh" \/ node[op'[t].id].parent # NoDir
  PROVE  PlaceInv'
<1> SUFFICES ASSUME NEW u \in Tasks \ {t} PROVE Drawn(u)' /\ Alone(u)'
  BY DEF PlaceInv
<1>a. /\ op'[u] = op[u] /\ Drawn(u) /\ Alone(u)
      /\ op[u].pc # "idle" => op[u].id \in Ids
      /\ op[u].id # NoId => op[u].id \in Ids
  BY DEF PlaceInv, TypeInv, TypeOK, Works, Ops
<1>1. Drawn(u)'
  BY <1>a DEF Drawn, NodeStep
<1>2. ASSUME Unplaced(op[u])
      PROVE  /\ node'[op[u].id].parent = NoDir
             /\ op[u].kind = "create" => ~(node'[op[u].id].state \in {"live", "trashed"})
             /\ op'[t].id # op[u].id
  <2>1. /\ op[u].id \in Ids /\ op[u].id # op[t].id /\ op[u].id # NoId
        /\ node[op[u].id].state # "fresh" /\ node[op[u].id].parent = NoDir
        /\ op[u].kind = "create" => ~Present(op[u].id)
    BY <1>a, <1>2, NullAssumption DEF Unplaced, Alone, Drawn
  <2>2. node'[op[u].id] \in {node[op[u].id], Gone}
    BY <2>1 DEF NodeStep
  <2> QED  BY <2>1, <2>2, GoneState DEF Present
<1>3. Alone(u)'
  BY <1>a, <1>2 DEF Alone, Present
<1> QED  BY <1>1, <1>3

LEMMA PlaceStep ==
  ASSUME TypeInv, PlaceInv, NEW t \in Tasks, op[t].pc # "idle", NodeStep(t), OwnStep(t)
  PROVE  PlaceInv'
<1>a. Drawn(t) /\ Alone(t) /\ op[t].id \in Ids
  BY DEF PlaceInv, TypeInv, Works
<1>1. Idle.pc = "idle" /\ Idle.id = NoId /\ ~Unplaced(Idle)
  BY DEF Idle, Unplaced
<1>2. Drawn(t)'
  BY <1>a, <1>1 DEF Drawn, OwnStep, NodeStep
<1>3. Alone(t)'
  BY <1>a, <1>1 DEF Alone, OwnStep, Present
<1> QED  BY <1>1, <1>2, <1>3, PlaceFrame DEF OwnStep

LEMMA SetTrashedStep ==
  ASSUME TypeInv, NEW t, NEW d \in Dirs, NEW n, NEW v \in LiveAt(d, n),
         node' = SetTrashed(v)
  PROVE  NodeStep(t)
<1>1. v \in Ids /\ node[v].parent = d /\ d # NoDir /\ node \in [Ids -> Docs]
  BY DirsAssumption DEF LiveAt, TypeInv, TypeOK
<1> QED  BY <1>1 DEF SetTrashed, NodeStep, Doc

\* A handler's own node, and whoever it moves out of the way.
LEMMA NodeSteps ==
  ASSUME TypeInv, FitInv, NEW t \in Tasks, Handle(t) \/ Proceed(t) \/ Fail(t)
  PROVE  NodeStep(t)
<1>a. /\ node \in [Ids -> Docs] /\ op[t] \in Ops /\ Going(op[t])
      /\ op[t].pc # "idle" => op[t].id \in Ids
      /\ op[t].pc \in Evicting => op[t].victim \in Ids
  BY DEF TypeInv, TypeOK, Works, FitInv, Fit
<1>b. ASSUME node' = node PROVE NodeStep(t)
  BY <1>b DEF NodeStep
<1>c. ASSUME op[t].pc # "idle", NEW x, x.state # "fresh",
             node' = node \/ node' = [node EXCEPT ![op[t].id] = x]
      PROVE  NodeStep(t)
  BY <1>a, <1>c DEF NodeStep
<1>1. ASSUME Decide(t) PROVE NodeStep(t)
  <2>1. ASSUME NEW v \in Ids, Evict(t, v) \/ Displace(t, v) PROVE NodeStep(t)
    <3>1. op[t].dst \in Dirs /\ v \in LiveAt(op[t].dst, op[t].name)
      BY <1>a, <2>1 DEF Evict, Displace, NameTaken, Going
    <3>2. node' = SetTrashed(v)
      BY <2>1 DEF Evict, Displace
    <3> QED  BY <1>b, <3>1, <3>2, SetTrashedStep
  <2>2. ASSUME NEW v \in Ids, RestoreReplacing(t, v) PROVE NodeStep(t)
    <3>1. op[t].seen.parent \in Dirs /\ v \in LiveAt(op[t].seen.parent, op[t].name)
      BY <1>a, <2>2 DEF RestoreReplacing, RestoreConflict, Going, Ops
    <3> QED  BY <2>2, <3>1, SetTrashedStep DEF RestoreReplacing
  <2> QED  BY <1>1, <1>b, <2>1, <2>2
           DEF Decide, NameFree, RenameRefused, DisplaceRefused, RestoreUnopposed,
               RestoreRefused, RestoreKeepingBoth
<1>2. ASSUME Mutate(t) PROVE NodeStep(t)
  <2> DEFINE o == op[t]
  <2>a. o.pc = "mutate"
    BY <1>2 DEF Mutate, InsertNode, MoveNode, RestoreNode, TrashNode, DeleteNode, AtMutation
  <2>1. CASE InsertNode(t)
    BY <1>b, <1>c, <2>a, <2>1 DEF InsertNode, Doc
  <2>2. CASE MoveNode(t)
    <3>m. PICK moved :
            /\ moved = [node[o.id] EXCEPT !.parent = o.dst, !.name = o.name,
                          !.mac = Identity(o.dst, o.name, o.seen.state)]
            /\ node' = node \/ node' = IF Present(o.id) THEN [node EXCEPT ![o.id] = moved] ELSE node
      <4>1. CASE node[o.id].state = "live" /\ ~IndexAllows(o.id, o.dst, o.name)
        <5>1. node' = node
          BY <2>2, <4>1 DEF MoveNode
        <5> QED  BY <5>1
      <4>2. CASE ~(node[o.id].state = "live" /\ ~IndexAllows(o.id, o.dst, o.name))
        BY Zenon, <2>2, <4>2 DEF MoveNode
      <4> QED  BY Zenon, <4>1, <4>2
    <3>1. node' = node \/ (Present(o.id) /\ node' = [node EXCEPT ![o.id] = moved])
      <4>1. node' = node \/ node' = IF Present(o.id) THEN [node EXCEPT ![o.id] = moved] ELSE node
        BY Zenon, <3>m
      <4> QED  BY <4>1
    <3>2. moved.state = node[o.id].state
      BY <1>a, <2>a, <3>m DEF Docs
    <3> QED  BY <1>b, <1>c, <2>a, <3>1, <3>2 DEF Present
  <2>3. CASE RestoreNode(t)
    <3> DEFINE back == [node[o.id] EXCEPT !.state = "live", !.name = o.name,
                          !.mac = Identity(o.seen.parent, o.name, "live")]
    <3>1. node' = node \/ node' = [node EXCEPT ![o.id] = back]
      BY <2>3 DEF RestoreNode
    <3>2. back.state = "live"
      BY <1>a, <2>a DEF Docs
    <3> QED  BY <1>c, <2>a, <3>1, <3>2
  <2>4. CASE TrashNode(t)
    <3> DEFINE trashed == [node[o.id] EXCEPT !.state = "trashed",
                             !.mac = Identity(o.seen.parent, o.seen.name, "trashed")]
    <3>1. node' = node \/ node' = [node EXCEPT ![o.id] = trashed]
      BY <2>4 DEF TrashNode
    <3>2. trashed.state = "trashed"
      BY <1>a, <2>a DEF Docs
    <3> QED  BY <1>c, <2>a, <3>1, <3>2
  <2>5. CASE DeleteNode(t)
    BY <1>c, <2>a, <2>5, GoneState DEF DeleteNode
  <2> QED  BY <1>2, <2>1, <2>2, <2>3, <2>4, <2>5 DEF Mutate
<1>3. ASSUME EvictSteps(t) PROVE NodeStep(t)
  <2>1. CASE EvictDelete(t)
    BY <1>a, <2>1, GoneState DEF EvictDelete, NodeStep
  <2> QED  BY <1>3, <1>b, <2>1 DEF EvictSteps, EvictStage, EvictRefused, EvictCommit
<1>4. ASSUME Handle(t) \/ Fail(t) PROVE NodeStep(t)
  BY <1>4, <1>b DEF Handle, Sync, Close, Abort, Fail
<1>5. ASSUME Proceed(t) PROVE NodeStep(t)
  BY <1>5, <1>b, <1>1, <1>2, <1>3
     DEF Proceed, Lock, Stage, StageRefused, Commit, CancelPurge, tags
<1> QED  BY <1>4, <1>5

LEMMA RaiseKeepsNode ==
  ASSUME TypeInv, NEW t \in Tasks, op[t].pc # "idle", Raise(t)
  PROVE  OwnStep(t)
<1>1. /\ op \in [Tasks -> Ops] /\ op[t].seen \in Docs
      /\ op'[t] = Idle \/ op'[t] = Rollback(op[t], op[t].seen)
  BY DEF Raise, TypeInv, TypeOK, Ops
<1>2. /\ Rollback(op[t], op[t].seen).id = op[t].id
      /\ Rollback(op[t], op[t].seen).kind = "rollback"
  BY DEF Rollback, Ready, Idle, Wanted
<1>3. \A u \in Tasks \ {t} : op'[u] = op[u]
  BY <1>1 DEF Raise
<1> QED  BY <1>1, <1>2, <1>3 DEF OwnStep, Unplaced, Idle

\* A step that keeps the kind, the node and the snapshot of its handler.
LEMMA OwnKeep ==
  ASSUME TypeInv, NEW t \in Tasks, \A u \in Tasks \ {t} : op'[u] = op[u],
         op'[t].id = op[t].id,
         \/ op'[t].kind \notin {"create", "overwrite"}
         \/ op'[t].pc \in {"commit"} \cup Evicting
         \/ op'[t].kind = "create" /\ op'[t].pc = "open"
         \/ /\ Unplaced(op[t]) /\ op'[t].kind = op[t].kind
            /\ node'[op[t].id] = node[op[t].id]
            /\ op'[t].seen.parent \in {op[t].seen.parent, node[op[t].id].parent}
            /\ op'[t].seen.state = op[t].seen.state
  PROVE  OwnStep(t)
  BY DEF OwnStep, Unplaced

LEMMA OwnSteps ==
  ASSUME TypeInv, FitInv, PlaceInv, NEW t \in Tasks, Handle(t) \/ Proceed(t) \/ Fail(t)
  PROVE  op[t].pc # "idle" /\ OwnStep(t)
<1> DEFINE o == op[t]
<1> USE DEF tags, observers, AtMutation, NameTaken, RestoreConflict
<1>a. op \in [Tasks -> Ops] /\ o \in Ops /\ Going(o)
  BY DEF TypeInv, TypeOK, FitInv, Fit
<1>i. ASSUME NEW q, Finish(t, q) PROVE op'[t] = q /\ \A u \in Tasks \ {t} : op'[u] = op[u]
  BY <1>a, <1>i DEF Finish
<1>j. ASSUME Finish(t, Idle) PROVE OwnStep(t)
  BY <1>i, <1>j DEF OwnStep, Unplaced, Idle
<1>r. /\ Ready(o).id = o.id /\ Ready(o).kind = o.kind /\ Ready(o).seen = o.seen
      /\ Ready(o).pc \in {"stage", "mutate"}
  BY <1>a DEF Ready, Ops
<1>b. ASSUME op' = [op EXCEPT ![t] = Ready(o)], o.pc \in {"lock", "decide"}, node' = node
      PROVE  OwnStep(t)
  BY <1>a, <1>b, <1>r, OwnKeep DEF Unplaced
<1>c. ASSUME NEW copy, op' = [op EXCEPT ![t] = Rollback(o, copy)] PROVE OwnStep(t)
  <2>1. Rollback(o, copy).id = o.id /\ Rollback(o, copy).kind = "rollback"
    BY DEF Rollback, Ready, Idle, Wanted
  <2> QED  BY <1>a, <1>c, <2>1, OwnKeep
<1>1. ASSUME Handle(t) PROVE OwnStep(t) /\ o.pc = "open"
  <2>1. CASE Sync(t)
    <3>1. node[o.id] \in Docs
      BY <1>a, <2>1 DEF Sync, TypeInv, TypeOK, Works
    <3>2. /\ op'[t].id = o.id /\ op'[t].kind = o.kind /\ op'[t].pc = "open" /\ o.pc = "open"
          /\ op'[t].seen.parent = node[o.id].parent /\ node' = node
          /\ op'[t].seen.state = o.seen.state
          /\ \A u \in Tasks \ {t} : op'[u] = op[u]
      BY <1>a, <2>1, <3>1 DEF Sync, Ops, Docs
    <3> QED  BY <1>a, <3>2, OwnKeep DEF Unplaced, Going
  <2>2. CASE Close(t)
    <3>1. CASE o.kind = "overwrite"
      BY <1>a, <2>2, <3>1, OwnKeep DEF Close, Unplaced, Ops
    <3>2. CASE o.kind # "overwrite"
      BY <1>a, <2>2, <3>2 DEF Close, OwnStep, Unplaced, Idle
    <3> QED  BY <2>2, <3>1, <3>2 DEF Close
  <2>3. CASE Abort(t)
    BY <1>c, <2>3 DEF Abort
  <2> QED  BY <1>1, <2>1, <2>2, <2>3 DEF Handle
<1>2. ASSUME Fail(t) PROVE OwnStep(t) /\ o.pc # "idle"
  <2>1. o.pc # "idle"
    BY <1>2 DEF Fail, Running
  <2>2. ASSUME Finish(t, Rollback(o, Doc("live", NoDir, NoName))) PROVE OwnStep(t)
    BY <1>c, <2>2 DEF Finish
  <2> QED  BY <1>2, <1>j, <2>1, <2>2, RaiseKeepsNode DEF Fail
<1>3. ASSUME NEW d \in Dirs, Lock(t, d) PROVE OwnStep(t) /\ o.pc = "lock"
  <2>1. CASE op' = [op EXCEPT ![t] = o]
    BY <1>a, <1>3, <2>1, OwnKeep DEF Lock, Unplaced
  <2>2. CASE op' = [op EXCEPT ![t] = [o EXCEPT !.pc = "decide"]]
    BY <1>a, <1>3, <2>2, OwnKeep DEF Lock, Unplaced, Ops
  <2>3. CASE op' = [op EXCEPT ![t] = Ready(o)]
    BY <1>3, <1>b, <2>3 DEF Lock
  <2> QED  BY <1>3, <2>1, <2>2, <2>3 DEF Lock
<1>4. ASSUME NEW d \in Dirs, Stage(t, d) \/ StageRefused(t, d)
      PROVE  OwnStep(t) /\ o.pc = "stage"
  <2>1. CASE Stage(t, d)
    <3>1. /\ op'[t].id = o.id /\ op'[t].kind = o.kind /\ op'[t].seen = o.seen
          /\ o.pc = "stage" /\ node' = node /\ op'[t].pc \in {"stage", "mutate"}
          /\ \A u \in Tasks \ {t} : op'[u] = op[u]
      BY <1>a, <2>1 DEF Stage, NextToStage, Ops
    <3> QED  BY <1>a, <3>1, OwnKeep DEF Unplaced
  <2> QED  BY <1>4, <2>1, RaiseKeepsNode DEF StageRefused, NextToStage
<1>5. ASSUME NEW d \in Dirs, Commit(t, d) PROVE OwnStep(t) /\ o.pc = "commit"
  <2> DEFINE q == [Idle EXCEPT !.pc = "open", !.kind = "create",
                               !.id = o.id, !.seen = o.seen]
  <2>1. CASE o.open # {d}
    <3>1. /\ op'[t].id = o.id /\ op'[t].pc = "commit"
          /\ \A u \in Tasks \ {t} : op'[u] = op[u]
      BY <1>a, <1>5, <2>1 DEF Commit, Ops
    <3> QED  BY <1>5, <3>1, OwnKeep DEF Commit
  <2>2. CASE Finish(t, q)
    <3>1. q.id = o.id /\ q.kind = "create" /\ q.pc = "open"
      BY DEF Idle
    <3> QED  BY <1>5, <1>i, <2>2, <3>1, OwnKeep DEF Commit
  <2> QED  BY <1>5, <1>j, <2>1, <2>2 DEF Commit
<1>6. ASSUME Decide(t) PROVE OwnStep(t) /\ o.pc = "decide"
  <2>1. CASE NameFree(t) \/ RestoreUnopposed(t)
    BY <1>b, <2>1 DEF NameFree, RestoreUnopposed
  <2>2. CASE RenameRefused(t) \/ DisplaceRefused(t) \/ RestoreRefused(t)
    BY <2>2, RaiseKeepsNode DEF RenameRefused, DisplaceRefused, RestoreRefused
  <2>3. ASSUME NEW v \in Ids, Evict(t, v) PROVE OwnStep(t) /\ o.pc = "decide"
    <3>1. /\ op'[t].id = o.id /\ op'[t].pc = "evictStage" /\ o.pc = "decide"
          /\ \A u \in Tasks \ {t} : op'[u] = op[u]
      BY <1>a, <2>3 DEF Evict, Ops
    <3> QED  BY <3>1, OwnKeep
  <2>4. ASSUME NEW v \in Ids, Displace(t, v) PROVE OwnStep(t) /\ o.pc = "decide"
    <3>1. /\ op'[t].id = o.id /\ op'[t].kind = o.kind /\ op'[t].seen = o.seen
          /\ op'[t].pc \in {"stage", "mutate"} /\ o.pc = "decide" /\ o.kind = "overwrite"
          /\ \A u \in Tasks \ {t} : op'[u] = op[u]
      BY <1>a, <1>r, <2>4 DEF Displace
    <3>2. Unplaced(o) /\ node[o.id].parent = NoDir /\ o.dst \in Dirs
      BY <1>a, <3>1 DEF Unplaced, PlaceInv, Alone, Going
    <3>3. v # o.id /\ node' = SetTrashed(v)
      BY <2>4, <3>2, DirsAssumption DEF Displace, LiveAt
    <3>4. o.id \in Ids /\ node \in [Ids -> Docs]
      BY <3>1 DEF TypeInv, TypeOK, Works
    <3>5. node'[o.id] = node[o.id]
      BY <3>3, <3>4 DEF SetTrashed
    <3> QED  BY <3>1, <3>2, <3>5, OwnKeep
  <2>5. ASSUME NEW v \in Ids, RestoreReplacing(t, v) PROVE OwnStep(t) /\ o.pc = "decide"
    <3>1. /\ op'[t].id = o.id /\ op'[t].kind = "restore" /\ o.pc = "decide"
          /\ \A u \in Tasks \ {t} : op'[u] = op[u]
      BY <1>a, <1>r, <2>5 DEF RestoreReplacing
    <3> QED  BY <3>1, OwnKeep
  <2>6. ASSUME NEW n \in Names, RestoreKeepingBoth(t, n) PROVE OwnStep(t) /\ o.pc = "decide"
    <3>1. /\ op'[t].id = o.id /\ op'[t].kind = "restore" /\ o.pc = "decide"
          /\ \A u \in Tasks \ {t} : op'[u] = op[u]
      BY <1>a, <2>6 DEF RestoreKeepingBoth, Ready, Ops
    <3> QED  BY <3>1, OwnKeep
  <2> QED  BY <1>6, <2>1, <2>2, <2>3, <2>4, <2>5, <2>6 DEF Decide
<1>7. ASSUME EvictSteps(t) PROVE OwnStep(t) /\ o.pc # "idle"
  <2>1. CASE EvictRefused(t)
    BY <2>1, RaiseKeepsNode DEF EvictRefused
  <2>2. CASE EvictStage(t) \/ EvictDelete(t) \/ EvictCommit(t)
    <3>1. /\ op'[t].id = o.id /\ op'[t].kind = o.kind /\ o.pc \in Evicting
          /\ \A u \in Tasks \ {t} : op'[u] = op[u]
      BY <1>a, <2>2 DEF EvictStage, EvictDelete, EvictCommit, Ops
    <3>2. o.kind = "rename"
      BY <3>1 DEF TypeInv, Works
    <3> QED  BY <3>1, <3>2, OwnKeep
  <2> QED  BY <1>7, <2>1, <2>2 DEF EvictSteps
<1>8. ASSUME Mutate(t) \/ CancelPurge(t) PROVE OwnStep(t) /\ o.pc = "mutate"
  <2>a. o.pc = "mutate"
    BY <1>8 DEF Mutate, CancelPurge, InsertNode, MoveNode, RestoreNode, TrashNode, DeleteNode
  <2>1. ASSUME op' = [op EXCEPT ![t].pc = "commit"] PROVE OwnStep(t)
    BY <1>a, <2>1, OwnKeep DEF Ops
  <2>2. ASSUME NEW x, op' = [op EXCEPT ![t].pc = "commit", ![t].seen = x] PROVE OwnStep(t)
    BY <1>a, <2>2, OwnKeep DEF Ops
  <2>3. ASSUME Mutated(t) PROVE OwnStep(t)
    BY <1>j, <2>1, <2>3 DEF Mutated
  <2>4. CASE InsertNode(t)
    BY <2>a, <2>2, <2>4, RaiseKeepsNode DEF InsertNode
  <2>5. CASE MoveNode(t)
    <3>1. CASE node[o.id].state = "live" /\ ~IndexAllows(o.id, o.dst, o.name)
      BY <2>a, <2>5, <3>1, RaiseKeepsNode DEF MoveNode
    <3>2. CASE ~(node[o.id].state = "live" /\ ~IndexAllows(o.id, o.dst, o.name))
      <4>1. op' = [op EXCEPT ![t].pc = "commit",
                             ![t].seen = IF o.kind = "overwrite"
                                         THEN Doc("live", o.dst, o.name) ELSE @]
        BY <2>5, <3>2 DEF MoveNode
      <4>2. /\ op'[t].id = o.id /\ op'[t].pc = "commit"
            /\ \A u \in Tasks \ {t} : op'[u] = op[u]
        BY <1>a, <4>1 DEF Ops
      <4> QED  BY <2>a, <4>2, OwnKeep
    <3> QED  BY <3>1, <3>2
  <2>6. CASE RestoreNode(t)
    <3>1. Raise(t) \/ Mutated(t)
      BY <2>6 DEF RestoreNode
    <3> QED  BY <2>a, <2>3, <3>1, RaiseKeepsNode
  <2>7. CASE TrashNode(t) \/ DeleteNode(t)
    BY <2>3, <2>7 DEF TrashNode, DeleteNode
  <2>8. CASE CancelPurge(t)
    BY <1>j, <2>8 DEF CancelPurge
  <2> QED  BY <1>8, <2>a, <2>4, <2>5, <2>6, <2>7, <2>8 DEF Mutate
<1>9. ASSUME Proceed(t) PROVE OwnStep(t) /\ o.pc # "idle"
  BY <1>9, <1>3, <1>4, <1>5, <1>6, <1>7, <1>8 DEF Proceed
<1> QED  BY <1>1, <1>2, <1>9

LEMMA PlaceBegin ==
  ASSUME TypeInv, PlaceInv, NEW t \in Tasks, Begin(t)
  PROVE  PlaceInv'
<1> PICK i \in Ids :
      \/ \E d \in Dirs, n \in Names :
           BeginCreate(t, i, d, n) \/ BeginOverwrite(t, i, d, n) \/ BeginRename(t, i, d, n)
      \/ BeginTrash(t, i) \/ BeginRestore(t, i) \/ BeginPurge(t, i)
  BY DEF Begin
<1>a. /\ op \in [Tasks -> Ops] /\ node \in [Ids -> Docs]
      /\ \A u \in Tasks : op[u].id # NoId => node[op[u].id].state # "fresh"
  BY DEF TypeInv, TypeOK, PlaceInv, Drawn
<1>b. i # NoId
  BY NullAssumption
<1>1. ASSUME NEW d \in Dirs, NEW n \in Names, BeginCreate(t, i, d, n) PROVE PlaceInv'
  <2>1. /\ op'[t].id = i /\ op'[t].kind = "create" /\ op'[t].seen.parent = NoDir
        /\ \A u \in Tasks \ {t} : op'[u] = op[u]
        /\ node[i].state = "fresh" /\ node' = [node EXCEPT ![i] = Gone]
    BY <1>a, <1>1, GoneState DEF BeginCreate, Idle
  <2>2. NodeStep(t) /\ Drawn(t)' /\ Alone(t)'
    BY <1>a, <1>b, <2>1, GoneState DEF NodeStep, Drawn, Alone, Present
  <2> QED  BY <2>1, <2>2, PlaceFrame
<1>2. ASSUME NEW d \in Dirs, NEW n \in Names, BeginOverwrite(t, i, d, n) PROVE PlaceInv'
  <2>1. /\ op'[t].id = i /\ op'[t].kind = "overwrite" /\ op'[t].seen.parent = NoDir
        /\ op'[t].seen.state = "live"
        /\ \A u \in Tasks \ {t} : op'[u] = op[u]
        /\ node[i].state = "fresh" /\ node' = [node EXCEPT ![i] = Doc("live", NoDir, NoName)]
    BY <1>a, <1>2 DEF BeginOverwrite, Idle, Doc
  <2>2. NodeStep(t) /\ Drawn(t)' /\ Alone(t)'
    BY <1>a, <1>b, <2>1 DEF NodeStep, Drawn, Alone, Doc
  <2> QED  BY <2>1, <2>2, PlaceFrame
<1>3. ASSUME node' = node, op'[t].id = i, op'[t].kind \notin {"create", "overwrite"},
             \A u \in Tasks \ {t} : op'[u] = op[u],
             node[i].parent # NoDir, node[i].state # "fresh"
      PROVE  PlaceInv'
  <2>1. NodeStep(t) /\ Drawn(t)' /\ Alone(t)'
    BY <1>3 DEF NodeStep, Drawn, Alone, Unplaced
  <2> QED  BY <1>3, <2>1, PlaceFrame
<1>4. ASSUME NEW d \in Dirs, NEW n \in Names, BeginRename(t, i, d, n) PROVE PlaceInv'
  <2>1. op'[t].id = i /\ op'[t].kind = "rename" /\ \A u \in Tasks \ {t} : op'[u] = op[u]
    BY <1>a, <1>4 DEF BeginRename, Idle
  <2> QED  BY <1>3, <1>4, <2>1 DEF BeginRename
<1>5. CASE BeginTrash(t, i)
  BY <1>a, <1>3, <1>5 DEF BeginTrash
<1>6. CASE BeginRestore(t, i)
  BY <1>a, <1>3, <1>6 DEF BeginRestore
<1>7. CASE BeginPurge(t, i)
  BY <1>a, <1>3, <1>7 DEF BeginPurge, Purgeable
<1> QED  BY <1>1, <1>2, <1>4, <1>5, <1>6, <1>7

LEMMA PlaceNext == TypeInv /\ FitInv /\ PlaceInv /\ [Next]_vars => PlaceInv'
<1> SUFFICES ASSUME TypeInv, FitInv, PlaceInv, [Next]_vars PROVE PlaceInv'
  OBVIOUS
<1>1. ASSUME NEW t \in Tasks, Handle(t) \/ Proceed(t) \/ Fail(t) PROVE PlaceInv'
  BY <1>1, NodeSteps, OwnSteps, PlaceStep
<1>2. CASE Crash
  <2>1. \A t \in Tasks : op'[t] = Idle /\ Idle.id = NoId /\ ~Unplaced(Idle)
    BY <1>2 DEF Crash, Idle, Unplaced
  <2> QED  BY <2>1 DEF PlaceInv, Drawn, Alone
<1>3. ASSUME NEW i \in Ids, SweepIncoming(i) PROVE PlaceInv'
  <2>1. /\ node' = [node EXCEPT ![i] = Gone] /\ op' = op
        /\ \A t \in Tasks : op[t].id # i
    BY <1>3 DEF SweepIncoming
  <2>2. \A t \in Tasks : op[t].id # NoId => op[t].id \in Ids /\ node'[op[t].id] = node[op[t].id]
    BY <2>1 DEF TypeInv, TypeOK, Ops
  <2>3. \A t \in Tasks : Unplaced(op[t]) => op[t].id # NoId
    BY NullAssumption DEF TypeInv, Works, Unplaced
  <2> QED  BY <2>1, <2>2, <2>3 DEF PlaceInv, Drawn, Alone, Present
<1>4. CASE UNCHANGED vars
  BY <1>4 DEF vars, PlaceInv, Drawn, Alone, Present
<1> QED  BY <1>1, <1>2, <1>3, <1>4, PlaceBegin DEF Next

LEMMA PlaceInit == Init => PlaceInv
  BY DEF Init, PlaceInv, Drawn, Alone, Idle, Unplaced

-----------------------------------------------------------------------------
(* The tags tell the children: those of now, or those of a staged change.  *)

\* What a document contributes to the children of d.
EntryIn(i, doc, d) ==
  IF doc.state \in {"live", "trashed"} /\ doc.parent = d THEN {<<i, doc.name>>} ELSE {}

LEMMA ChildIn ==
  ASSUME NEW d, NEW i, NEW n
  PROVE  <<i, n>> \in Children(d) <=>
           i \in Ids /\ Present(i) /\ node[i].parent = d /\ node[i].name = n
  BY DEF Children

LEMMA ChildrenUpdate ==
  ASSUME TypeInv, NEW i \in Ids, NEW x, node' = [node EXCEPT ![i] = x], NEW d
  PROVE  Children(d)' = (Children(d) \ EntryIn(i, node[i], d)) \cup EntryIn(i, x, d)
<1>1. node'[i] = x /\ \A j \in Ids \ {i} : node'[j] = node[j]
  BY DEF TypeInv, TypeOK
<1>2. Children(d)' = {<<j, node'[j].name>> :
                        j \in {k \in Ids : node'[k].state \in {"live", "trashed"} /\ node'[k].parent = d}}
  BY DEF Children, Present
<1>3. Children(d) = {<<j, node[j].name>> :
                        j \in {k \in Ids : node[k].state \in {"live", "trashed"} /\ node[k].parent = d}}
  BY DEF Children, Present
<1> QED  BY <1>1, <1>2, <1>3 DEF EntryIn

LEMMA ChildrenKept ==
  ASSUME TypeInv, NEW i \in Ids, NEW x, node' = [node EXCEPT ![i] = x], NEW d,
         EntryIn(i, x, d) = EntryIn(i, node[i], d)
  PROVE  Children(d)' = Children(d)
<1>1. Children(d)' = (Children(d) \ EntryIn(i, node[i], d)) \cup EntryIn(i, x, d)
  BY Zenon, ChildrenUpdate
<1>2. ASSUME NEW e \in EntryIn(i, node[i], d) PROVE e \in Children(d)
  <2>1. e = <<i, node[i].name>> /\ Present(i) /\ node[i].parent = d
    BY <1>2 DEF EntryIn, Present
  <2> QED  BY <2>1 DEF Children
<1> QED  BY <1>1, <1>2

Pre == {"stage", "mutate", "evictDelete"}
Post == {"commit", "evictCommit"}

\* The tag a handler stages for d, in terms of its children as they are.
WillBe(o, d) ==
  IF o.pc = "evictDelete" THEN TagOf(Children(d), {}, {<<o.victim, o.name>>})
  ELSE TagOf(Children(d), Arriving(o, d), Leaving(o, d))

\* Before the write, the staged tag is that of the children as they will be,
\* and the promoted one that of the children as they are; after it, the staged
\* one is that of the children as they are.
Foretold(t) ==
  \A d \in op[t].open \ blind :
    /\ op[t].pc \in Pre =>
         /\ op[t].tag[d] = WillBe(op[t], d)
         /\ d \notin overlaid => Children(d) \in entries_mac[d]
    /\ op[t].pc \in Post => Children(d) \in op[t].tag[d]

Vouched(d) == d \notin blind \cup overlaid => EntriesVerify(d)

\* A node in the trash that nobody wrote from an old snapshot has its own tag.
Marked(i) == node[i].state = "trashed" /\ node[i].parent \in Dirs \ blind => Verified(i)

TrashInv == \A i \in Ids : Marked(i)

TagInv ==
  /\ \A t \in Tasks : Foretold(t)
  /\ \A d \in Dirs : Vouched(d)

\* A step of t changes only directories it holds, or marks them.
LEMMA TagFrame ==
  ASSUME TypeInv, FitInv, LockInv, TagInv, NEW t \in Tasks,
         \A u \in Tasks \ {t} : op'[u] = op[u], blind \subseteq blind',
         \A d \in Dirs : d \notin op[t].open \cup blind' => Children(d)' = Children(d),
         \A d \in Dirs : dir_locks[d] # t =>
           /\ entries_mac'[d] = entries_mac[d]
           /\ entries_mac_pending'[d] = entries_mac_pending[d]
           /\ d \in overlaid' <=> d \in overlaid,
         Foretold(t)',
         \A d \in Dirs : dir_locks[d] = t => Vouched(d)'
  PROVE  TagInv'
<1>1. ASSUME NEW u \in Tasks \ {t} PROVE Foretold(u)'
  <2>0. op'[u] = op[u]
    OBVIOUS
  <2>1. SUFFICES ASSUME NEW d \in op[u].open \ blind'
                 PROVE  /\ op[u].pc \in Pre =>
                             /\ op[u].tag[d] = WillBe(op[u], d)'
                             /\ d \notin overlaid' => Children(d)' \in entries_mac'[d]
                        /\ op[u].pc \in Post => Children(d)' \in op[u].tag[d]
    BY <2>0 DEF Foretold
  <2>2. d \in Dirs /\ dir_locks[d] = u /\ d \notin op[t].open /\ d \notin blind
    BY OpenIsHeld
  <2>3. Children(d)' = Children(d)
    BY <2>1, <2>2
  <2>4. /\ op[u].pc \in Pre =>
             /\ op[u].tag[d] = WillBe(op[u], d)
             /\ d \notin overlaid => Children(d) \in entries_mac[d]
        /\ op[u].pc \in Post => Children(d) \in op[u].tag[d]
    BY <2>1, <2>2 DEF TagInv, Foretold
  <2>5. WillBe(op[u], d)' = WillBe(op[u], d)
    BY <2>3 DEF WillBe, Arriving, Leaving
  <2> QED  BY <2>2, <2>3, <2>4, <2>5
<1>2. ASSUME NEW d \in Dirs, dir_locks[d] # t PROVE Vouched(d)'
  <2>1. d \notin op[t].open
    BY <1>2, OpenIsHeld
  <2>2. d \notin blind' => Children(d)' = Children(d)
    BY <2>1
  <2>3. Vouched(d)
    BY DEF TagInv
  <2> QED  BY <1>2, <2>2, <2>3 DEF Vouched, EntriesVerify
<1> QED  BY <1>1, <1>2 DEF TagInv

\* A step that leaves the children, the tags and the marks alone, and whose
\* handler has nothing staged.
LEMMA TagKeep ==
  ASSUME TypeInv, FitInv, LockInv, TagInv, NEW t \in Tasks,
         \A u \in Tasks \ {t} : op'[u] = op[u], op'[t].open = {},
         \A d \in Dirs : Children(d)' = Children(d), UNCHANGED <<tags, observers>>
  PROVE  TagInv'
<1> USE DEF tags, observers
<1>1. Foretold(t)'
  BY DEF Foretold
<1>2. \A d \in Dirs : Vouched(d)'
  BY DEF TagInv, Vouched, EntriesVerify
<1> QED  BY <1>1, <1>2, TagFrame

LEMMA ChildrenStill ==
  ASSUME node' = node, NEW d
  PROVE  Children(d)' = Children(d)
  BY DEF Children, Present

\* What a write makes of the children of every directory that is not marked:
\* what was foretold where the handler had staged, nothing elsewhere.
Changes(t) ==
  \A d \in Dirs \ blind' :
    IF d \in op[t].open THEN Children(d)' \in WillBe(op[t], d)
    ELSE Children(d)' = Children(d)

LEMMA TagWrite ==
  ASSUME TypeInv, FitInv, LockInv, TagInv, NEW t \in Tasks,
         \A u \in Tasks \ {t} : op'[u] = op[u], blind \subseteq blind',
         UNCHANGED <<tags, overlaid>>, Changes(t), op[t].pc \in Pre,
         \/ op'[t].open = {}
         \/ /\ op'[t].open = op[t].open /\ op'[t].tag = op[t].tag
            /\ op'[t].pc \in Post
  PROVE  TagInv'
<1> USE DEF tags
<1>1. ASSUME NEW d \in op[t].open, d \notin blind'
      PROVE  /\ d \in Dirs /\ Children(d)' \in op[t].tag[d]
             /\ entries_mac_pending[d] = op[t].tag[d]
  <2>1. d \in Dirs
    BY OpenIsHeld
  <2>2. op[t].tag[d] = WillBe(op[t], d)
    BY <1>1 DEF TagInv, Foretold
  <2>3. Children(d)' \in WillBe(op[t], d)
    BY <1>1, <2>1 DEF Changes
  <2> QED  BY <2>1, <2>2, <2>3 DEF LockInv, Owns
<1>2. Foretold(t)'
  BY <1>1 DEF Foretold, Pre, Post
<1>3. ASSUME NEW d \in Dirs PROVE Vouched(d)'
  <2>1. CASE d \in op[t].open
    BY <1>1, <2>1 DEF Vouched, EntriesVerify
  <2>2. CASE d \notin op[t].open
    BY <2>2 DEF Changes, TagInv, Vouched, EntriesVerify
  <2> QED  BY <2>1, <2>2
<1>4. \A d \in Dirs : d \notin op[t].open \cup blind' => Children(d)' = Children(d)
  BY DEF Changes
<1> QED  BY <1>2, <1>3, <1>4, TagFrame

LEMMA TagPost ==
  ASSUME TypeInv, FitInv, LockInv, TagInv, NEW t \in Tasks, NEW d \in Dirs,
         Commit(t, d)
  PROVE  TagInv'
<1> DEFINE o == op[t]
<1>a. /\ o \in Ops /\ op \in [Tasks -> Ops] /\ d \in o.open /\ o.pc = "commit"
      /\ dir_locks[d] = t /\ node' = node /\ blind' = blind
      /\ entries_mac' = [entries_mac EXCEPT ![d] = o.tag[d]]
      /\ entries_mac_pending' = [entries_mac_pending EXCEPT ![d] = {}]
      /\ overlaid' = overlaid \ {d}
      /\ entries_mac \in [Dirs -> Tags] /\ entries_mac_pending \in [Dirs -> Tags]
  BY OpenIsHeld DEF Commit, Promote, TypeInv, TypeOK
<1>b. \A e \in Dirs : Children(e)' = Children(e)
  BY <1>a, ChildrenStill
<1>c. \A e \in o.open : e \in Dirs
  BY OpenIsHeld
<1>1. /\ \A u \in Tasks \ {t} : op'[u] = op[u]
      /\ \/ op'[t].open = {}
         \/ /\ op'[t].pc = "commit" /\ op'[t].open = o.open \ {d} /\ op'[t].tag = o.tag
  <2>1. CASE o.open # {d}
    BY <1>a, <2>1 DEF Commit, Ops
  <2>2. ASSUME NEW q, Finish(t, q), q.open = {}
        PROVE  op'[t].open = {} /\ \A u \in Tasks \ {t} : op'[u] = op[u]
    BY <1>a, <2>2 DEF Finish
  <2>3. /\ Idle.open = {}
        /\ [Idle EXCEPT !.pc = "open", !.kind = "create",
                        !.id = o.id, !.seen = o.seen].open = {}
    BY DEF Idle
  <2> QED  BY <1>a, <2>1, <2>2, <2>3 DEF Commit
<1>2. Foretold(t)'
  <2>1. \A e \in o.open \ blind : Children(e) \in o.tag[e]
    BY <1>a DEF TagInv, Foretold, Post
  <2> QED  BY <1>a, <1>b, <1>c, <1>1, <2>1 DEF Foretold, Pre
<1>3. ASSUME NEW e \in Dirs PROVE Vouched(e)'
  <2>1. CASE e = d
    <3>1. d \notin blind => Children(d) \in o.tag[d]
      BY <1>a DEF TagInv, Foretold, Post
    <3> QED  BY <1>a, <1>b, <2>1, <3>1 DEF Vouched, EntriesVerify
  <2>2. CASE e # d
    BY <1>a, <1>b, <2>2 DEF TagInv, Vouched, EntriesVerify
  <2> QED  BY <2>1, <2>2
<1>4. \A e \in Dirs : dir_locks[e] # t =>
           /\ entries_mac'[e] = entries_mac[e]
           /\ entries_mac_pending'[e] = entries_mac_pending[e]
           /\ e \in overlaid' <=> e \in overlaid
  BY <1>a
<1> QED  BY <1>a, <1>b, <1>1, <1>2, <1>3, <1>4, TagFrame

LEMMA TagStage ==
  ASSUME TypeInv, FitInv, LockInv, TagInv, NEW t \in Tasks, NEW d \in Dirs,
         Stage(t, d)
  PROVE  TagInv'
<1> DEFINE o == op[t]
<1>s. PICK staged : staged = TagOf(Children(d), Arriving(o, d), Leaving(o, d))
  OBVIOUS
<1>a. /\ o \in Ops /\ op \in [Tasks -> Ops] /\ o.pc = "stage"
      /\ d \in StageDirs(o) /\ d \notin o.open
      /\ node' = node /\ blind' = blind /\ entries_mac' = entries_mac
      /\ entries_mac_pending' = [entries_mac_pending EXCEPT ![d] = staged]
      /\ overlaid' = IF Children(d) \in entries_mac[d] THEN overlaid ELSE overlaid \cup {d}
      /\ entries_mac_pending \in [Dirs -> Tags]
  BY <1>s DEF Stage, Park, NextToStage, TypeInv, TypeOK
<1>b. \A e \in Dirs : Children(e)' = Children(e)
  BY <1>a, ChildrenStill
<1>c. dir_locks[d] = t
  BY <1>a DEF FitInv, Fit, Staging, LockInv, Owns, Acting
<1>1. /\ \A u \in Tasks \ {t} : op'[u] = op[u]
      /\ op'[t].open = o.open \cup {d} /\ op'[t].tag = [o.tag EXCEPT ![d] = staged]
      /\ op'[t].pc \in {"stage", "mutate"}
      /\ op'[t].id = o.id /\ op'[t].name = o.name /\ op'[t].seen = o.seen
      /\ op'[t].from = o.from /\ op'[t].dst = o.dst
  BY <1>a, <1>s DEF Stage, Ops
<1>2. Foretold(t)'
  <2> SUFFICES ASSUME NEW e \in op'[t].open \ blind'
               PROVE  /\ op'[t].tag[e] = TagOf(Children(e)', Arriving(op'[t], e), Leaving(op'[t], e))
                      /\ e \notin overlaid' => Children(e)' \in entries_mac'[e]
    BY <1>1 DEF Foretold, WillBe, Post, Arriving, Leaving
  <2>1. e \in Dirs /\ e \notin blind /\ e \in o.open \cup {d}
    BY <1>a, <1>1, OpenIsHeld
  <2>2. /\ Children(e)' = Children(e)
        /\ Arriving(op'[t], e) = Arriving(o, e) /\ Leaving(op'[t], e) = Leaving(o, e)
    BY <1>b, <1>1, <2>1 DEF Arriving, Leaving
  <2>3. CASE e = d
    BY <1>a, <1>s, <1>1, <2>1, <2>2, <2>3 DEF Ops
  <2>4. CASE e # d
    <3>1. /\ o.tag[e] = TagOf(Children(e), Arriving(o, e), Leaving(o, e))
          /\ e \notin overlaid => Children(e) \in entries_mac[e]
      BY <1>a, <2>1, <2>4 DEF TagInv, Foretold, WillBe, Pre
    <3> QED  BY <1>a, <1>1, <2>1, <2>2, <2>4, <3>1 DEF Ops
  <2> QED  BY <2>3, <2>4
<1>3. ASSUME NEW e \in Dirs PROVE Vouched(e)'
  <2>1. CASE e = d
    BY <1>a, <1>b, <2>1 DEF Vouched, EntriesVerify
  <2>2. CASE e # d
    BY <1>a, <1>b, <2>2 DEF TagInv, Vouched, EntriesVerify
  <2> QED  BY <2>1, <2>2
<1>4. \A e \in Dirs : dir_locks[e] # t =>
           /\ entries_mac'[e] = entries_mac[e]
           /\ entries_mac_pending'[e] = entries_mac_pending[e]
           /\ e \in overlaid' <=> e \in overlaid
  BY <1>a, <1>c
<1> QED  BY <1>a, <1>b, <1>1, <1>2, <1>3, <1>4, TagFrame

\* A handler about to write has everything staged that it changes.
LEMMA AtWrite ==
  ASSUME TypeInv, FitInv, NEW t \in Tasks, op[t].pc = "mutate", op[t].kind # "none"
  PROVE  /\ op[t] \in Ops /\ op[t].id \in Ids /\ node \in [Ids -> Docs]
         /\ node[op[t].id] \in Docs /\ op[t].seen \in Docs
         /\ Going(op[t]) /\ op[t].open = StageDirs(op[t])
         /\ op[t].from \in {NoDir, op[t].seen.parent}
         /\ \A d : WillBe(op[t], d) = TagOf(Children(d), Arriving(op[t], d), Leaving(op[t], d))
<1>1. /\ op[t] \in Ops /\ op[t].id \in Ids /\ node \in [Ids -> Docs]
      /\ Going(op[t]) /\ op[t].open = StageDirs(op[t]) /\ NoDir \notin Dirs
  BY DirsAssumption DEF TypeInv, TypeOK, Works, FitInv, Fit, Staging
<1>2. op[t].from \in {NoDir, op[t].seen.parent}
  BY <1>1 DEF Going, StageDirs, Ops, Kinds
<1>3. \A d : WillBe(op[t], d) = TagOf(Children(d), Arriving(op[t], d), Leaving(op[t], d))
  BY DEF WillBe
<1> QED  BY <1>1, <1>2, <1>3 DEF Ops

\* A write from a snapshot that is no longer true marks all it may disturb.
LEMMA StaleChanges ==
  ASSUME TypeInv, FitInv, NEW t \in Tasks, op[t].pc = "mutate", op[t].kind # "none",
         NoteBlind(t), Stale(t), NEW x,
         node' = node \/ node' = [node EXCEPT ![op[t].id] = x],
         x.parent \in {NoDir, op[t].dst, node[op[t].id].parent}
  PROVE  Changes(t) /\ blind \subseteq blind'
<1> DEFINE o == op[t]
<1>a. /\ o.id \in Ids /\ o.open = {o.from, o.dst} \ {NoDir} /\ NoDir \notin Dirs
      /\ o.from \in {NoDir, o.seen.parent}
  BY AtWrite, DirsAssumption DEF StageDirs
<1>b. blind' = blind \cup ({o.seen.parent, node[o.id].parent, o.dst} \ {NoDir})
  BY DEF NoteBlind, Touched
<1>1. ASSUME NEW d \in Dirs \ blind' PROVE d \notin o.open /\ Children(d)' = Children(d)
  <2>1. d \notin o.open /\ d \notin {NoDir, o.dst, node[o.id].parent}
    BY <1>a, <1>b, <1>1
  <2>2. EntryIn(o.id, x, d) = EntryIn(o.id, node[o.id], d)
    BY <2>1 DEF EntryIn
  <2>3. CASE node' = node
    BY <2>1, <2>3, ChildrenStill
  <2>4. CASE node' = [node EXCEPT ![o.id] = x]
    <3>1. o.id \in Ids
      BY <1>a
    <3>2. Children(d)' = Children(d)
      BY Zenon, <2>2, <2>4, <3>1, ChildrenKept
    <3> QED  BY <2>1, <3>2
  <2> QED  BY <2>3, <2>4
<1> QED  BY <1>1, <1>b DEF Changes

\* The write of one document.
Writes(i, x) == node' = [node EXCEPT ![i] = x]

\* A write that was foretold: the node's entry goes from here to there.
LEMMA MovedChanges ==
  ASSUME TypeInv, FitInv, NEW t \in Tasks, op[t].pc = "mutate", op[t].kind # "none",
         NEW x, Writes(op[t].id, x),
         \A d \in Dirs :
           IF d \in op[t].open
           THEN /\ EntryIn(op[t].id, node[op[t].id], d) = Leaving(op[t], d)
                /\ EntryIn(op[t].id, x, d) = Arriving(op[t], d)
           ELSE EntryIn(op[t].id, x, d) = EntryIn(op[t].id, node[op[t].id], d)
  PROVE  Changes(t)
<1> DEFINE o == op[t]
<1> SUFFICES ASSUME NEW d \in Dirs \ blind'
             PROVE  IF d \in o.open THEN Children(d)' \in WillBe(o, d)
                    ELSE Children(d)' = Children(d)
  BY DEF Changes
<1>a. /\ o.id \in Ids
      /\ WillBe(o, d) = TagOf(Children(d), Arriving(o, d), Leaving(o, d))
  BY AtWrite
<1>w. node' = [node EXCEPT ![o.id] = x]
  BY DEF Writes
<1>x. d \notin o.open => EntryIn(o.id, x, d) = EntryIn(o.id, node[o.id], d)
  OBVIOUS
<1>1. CASE d \notin o.open
  BY Zenon, <1>1, <1>a, <1>w, <1>x, ChildrenKept
<1>2. CASE d \in o.open
  <2>1. Children(d)' = (Children(d) \ Leaving(o, d)) \cup Arriving(o, d)
    <3>1. Children(d)' = (Children(d) \ EntryIn(o.id, node[o.id], d)) \cup EntryIn(o.id, x, d)
      BY Zenon, <1>a, <1>w, ChildrenUpdate
    <3> QED  BY <1>2, <3>1
  <2>2. Arriving(o, d) \cap (Children(d) \ Leaving(o, d)) = {}
    <3>1. SUFFICES ASSUME <<o.id, o.name>> \in Children(d), d = o.dst
                   PROVE  <<o.id, o.name>> \in Leaving(o, d)
      BY DEF Arriving
    <3>2. Present(o.id) /\ node[o.id].parent = d /\ node[o.id].name = o.name
      BY <3>1, ChildIn
    <3>3. <<o.id, o.name>> \in EntryIn(o.id, node[o.id], d)
      BY <3>2 DEF EntryIn, Present
    <3> QED  BY <1>2, <3>3
  <2> QED  BY <1>2, <1>a, <2>1, <2>2 DEF TagOf
<1> QED  BY <1>1, <1>2

LEMMA InsertChanges ==
  ASSUME TypeInv, FitInv, PlaceInv, NEW t \in Tasks, InsertNode(t),
         IndexAllows(op[t].id, op[t].dst, op[t].name)
  PROVE  Changes(t)
<1> DEFINE o == op[t]
<1>a. /\ o.pc = "mutate" /\ o.kind = "create" /\ ~Present(o.id)
      /\ o.from = NoDir /\ o.dst \in Dirs /\ o.open = {o.dst} /\ NoDir \notin Dirs
      /\ node' = [node EXCEPT ![o.id] = Doc("live", o.dst, o.name)]
  BY AtWrite, DirsAssumption
     DEF InsertNode, AtMutation, PlaceInv, Alone, Unplaced, Going, StageDirs
<1>1. ASSUME NEW d \in Dirs
      PROVE  /\ EntryIn(o.id, node[o.id], d) = {} /\ Leaving(o, d) = {}
             /\ EntryIn(o.id, Doc("live", o.dst, o.name), d) = Arriving(o, d)
  BY <1>a DEF EntryIn, Doc, Present, Arriving, Leaving
<1>2. ASSUME NEW d \in Dirs, d \notin o.open PROVE Arriving(o, d) = {}
  BY <1>a, <1>2 DEF Arriving
<1>3. PICK x : x = Doc("live", o.dst, o.name)
  OBVIOUS
<1>4. Writes(o.id, x)
  BY <1>a, <1>3 DEF Writes
<1>5. ASSUME NEW d \in Dirs
      PROVE  IF d \in o.open
             THEN /\ EntryIn(o.id, node[o.id], d) = Leaving(o, d)
                  /\ EntryIn(o.id, x, d) = Arriving(o, d)
             ELSE EntryIn(o.id, x, d) = EntryIn(o.id, node[o.id], d)
  BY <1>1, <1>2, <1>3
<1>6. op[t].pc = "mutate" /\ op[t].kind # "none"
  BY <1>a
<1> QED  BY Zenon, <1>4, <1>5, <1>6, MovedChanges

\* A rename or a closing overwrite whose node is as it was read.
LEMMA MoveChanges ==
  ASSUME TypeInv, FitInv, PlaceInv, NEW t \in Tasks,
         op[t].pc = "mutate", op[t].kind \in {"rename", "overwrite"},
         NoteBlind(t), NEW x,
         node' = IF Present(op[t].id) THEN [node EXCEPT ![op[t].id] = x] ELSE node,
         x.state = node[op[t].id].state, x.parent = op[t].dst, x.name = op[t].name
  PROVE  Changes(t) /\ blind \subseteq blind'
<1> DEFINE o == op[t]
<1>a. /\ o.open = {o.from, o.dst} \ {NoDir} /\ NoDir \notin Dirs /\ o.dst \in Dirs
      /\ o.seen.state = "live" /\ o.seen \in Docs
      /\ \/ o.from = NoDir /\ o.seen.parent = NoDir
         \/ /\ o.from = o.seen.parent /\ o.from \in Dirs
            /\ <<o.dst, o.name>> # <<o.seen.parent, o.seen.name>>
  BY AtWrite, DirsAssumption DEF StageDirs, Going, PlaceInv, Alone, Unplaced
<1>1. CASE Stale(t)
  BY <1>1, StaleChanges
<1>2. CASE ~Stale(t)
  <2>1. node[o.id] = o.seen
    BY <1>2, <1>a DEF Stale, StageDirs
  <2>2. Writes(o.id, x) /\ x.state = "live" /\ Present(o.id)
    BY <1>a, <2>1 DEF Present, Writes
  <2>3. ASSUME NEW d \in Dirs
        PROVE  IF d \in o.open
               THEN /\ EntryIn(o.id, node[o.id], d) = Leaving(o, d)
                    /\ EntryIn(o.id, x, d) = Arriving(o, d)
               ELSE EntryIn(o.id, x, d) = EntryIn(o.id, node[o.id], d)
    BY <1>a, <2>1, <2>2 DEF EntryIn, Leaving, Arriving
  <2>4. Changes(t)
    BY <2>2, <2>3, MovedChanges
  <2> QED  BY <2>4 DEF NoteBlind
<1> QED  BY <1>1, <1>2

\* A restore, which changes the membership only if it changes the name.
LEMMA RestoreChanges ==
  ASSUME TypeInv, FitInv, NEW t \in Tasks, op[t].pc = "mutate", op[t].kind = "restore",
         NoteBlind(t), NEW x,
         node' = IF Present(op[t].id) THEN [node EXCEPT ![op[t].id] = x] ELSE node,
         x.state = "live", x.parent = node[op[t].id].parent, x.name = op[t].name
  PROVE  Changes(t) /\ blind \subseteq blind'
<1> DEFINE o == op[t]
<1>a. /\ o.open = StageDirs(o) /\ NoDir \notin Dirs /\ o.seen.state = "trashed"
      /\ \/ StageDirs(o) = {} /\ o.name = o.seen.name
         \/ /\ o.from = o.seen.parent /\ o.dst = o.seen.parent /\ o.name # o.seen.name
  BY AtWrite, DirsAssumption DEF Going
<1>1. CASE Stale(t)
  BY <1>1, StaleChanges
<1>2. CASE ~Stale(t) /\ ~Present(o.id) /\ StageDirs(o) = {}
  BY <1>2, <1>a, ChildrenStill DEF Changes, NoteBlind
<1>3. CASE ~Stale(t) /\ (Present(o.id) \/ StageDirs(o) # {})
  <2>1. node[o.id] = o.seen
    BY <1>3, <1>a DEF Stale
  <2>2. Writes(o.id, x) /\ Present(o.id)
    BY <1>a, <2>1 DEF Present, Writes
  <2>3. ASSUME NEW d \in Dirs
        PROVE  IF d \in o.open
               THEN /\ EntryIn(o.id, node[o.id], d) = Leaving(o, d)
                    /\ EntryIn(o.id, x, d) = Arriving(o, d)
               ELSE EntryIn(o.id, x, d) = EntryIn(o.id, node[o.id], d)
    BY <1>a, <2>1, <2>2 DEF EntryIn, Leaving, Arriving, StageDirs
  <2>4. Changes(t)
    BY <2>2, <2>3, MovedChanges
  <2> QED  BY <2>4, <1>3 DEF NoteBlind
<1> QED  BY <1>1, <1>2, <1>3

\* Trashing keeps a node among the children of its directory.
LEMMA TrashChanges ==
  ASSUME TypeInv, FitInv, NEW t \in Tasks, op[t].pc = "mutate", op[t].kind = "trash", NEW x,
         node' = IF Present(op[t].id) THEN [node EXCEPT ![op[t].id] = x] ELSE node,
         x.state = "trashed", x.parent = node[op[t].id].parent, x.name = node[op[t].id].name
  PROVE  Changes(t)
<1>a. op[t].open = {} /\ op[t].id \in Ids
  BY AtWrite DEF Going
<1>1. CASE Present(op[t].id)
  <2>1. \A d : EntryIn(op[t].id, x, d) = EntryIn(op[t].id, node[op[t].id], d)
    BY <1>1 DEF EntryIn, Present
  <2>2. \A d : Children(d)' = Children(d)
    BY Zenon, <1>1, <1>a, <2>1, ChildrenKept
  <2> QED  BY <1>a, <2>2 DEF Changes
<1>2. CASE ~Present(op[t].id)
  BY <1>2, <1>a, ChildrenStill DEF Changes
<1> QED  BY <1>1, <1>2

\* A delete drops what it had staged to drop, or finds it gone.
LEMMA DeleteChanges ==
  ASSUME TypeInv, FitInv, NEW t \in Tasks, op[t].pc = "mutate",
         op[t].kind \in {"purge", "rollback"}, NoteBlind(t),
         NEW x, Writes(op[t].id, x), x.state = "gone", x.parent = NoDir
  PROVE  Changes(t) /\ blind \subseteq blind'
<1> DEFINE o == op[t]
<1>a. /\ o.open = {o.seen.parent} \ {NoDir} /\ NoDir \notin Dirs
      /\ o.from = o.seen.parent /\ o.dst = NoDir /\ o.id \in Ids
      /\ \A d : WillBe(o, d) = TagOf(Children(d), Arriving(o, d), Leaving(o, d))
  BY AtWrite, DirsAssumption DEF Going, StageDirs
<1>g. \A d : EntryIn(o.id, x, d) = {}
  BY DEF EntryIn
<1>1. CASE Stale(t)
  BY <1>1, StaleChanges DEF Writes
<1>2. CASE ~Stale(t) /\ Present(o.id)
  <2>1. node[o.id].parent = o.seen.parent /\ node[o.id].name = o.seen.name
    BY <1>2 DEF Stale
  <2>2. ASSUME NEW d \in Dirs
        PROVE  IF d \in o.open
               THEN /\ EntryIn(o.id, node[o.id], d) = Leaving(o, d)
                    /\ EntryIn(o.id, x, d) = Arriving(o, d)
               ELSE EntryIn(o.id, x, d) = EntryIn(o.id, node[o.id], d)
    BY <1>a, <1>g, <1>2, <2>1 DEF EntryIn, Leaving, Arriving, Present
  <2>3. Changes(t)
    <3>1. op[t].kind # "none"
      OBVIOUS
    <3> QED  BY <2>2, <3>1, MovedChanges
  <2> QED  BY <2>3, <1>2 DEF NoteBlind
<1>3. CASE ~Stale(t) /\ ~Present(o.id)
  <2> SUFFICES ASSUME NEW d \in Dirs
               PROVE  Children(d)' = Children(d) /\ Children(d) \in TagOf(Children(d), {}, Leaving(o, d))
    BY <1>3, <1>a DEF Changes, NoteBlind, Arriving
  <2>1. EntryIn(o.id, x, d) = EntryIn(o.id, node[o.id], d)
    BY <1>3, <1>g DEF EntryIn, Present
  <2>2. Children(d)' = Children(d)
    BY Zenon, <1>a, <2>1, ChildrenKept DEF Writes
  <2>3. Leaving(o, d) \cap Children(d) = {}
    BY <1>3, ChildIn DEF Leaving
  <2> QED  BY <2>2, <2>3 DEF TagOf
<1> QED  BY <1>1, <1>2, <1>3

-----------------------------------------------------------------------------
(* The remaining steps: what leaves the children alone, and what moves a tag. *)

LEMMA RaiseLetsGo ==
  ASSUME TypeInv, NEW t \in Tasks, Raise(t)
  PROVE  op'[t].open = {} /\ \A u \in Tasks \ {t} : op'[u] = op[u]
<1>1. op \in [Tasks -> Ops] /\ op[t] \in OpType /\ op[t].seen \in Docs
  BY DEF TypeInv, TypeOK, OpType, Ops
<1> QED  BY <1>1, UnburdenedIdle DEF Raise, Unburdened

LEMMA TagRaise ==
  ASSUME TypeInv, FitInv, LockInv, TagInv, NEW t \in Tasks, Raise(t),
         UNCHANGED <<node, tags, observers>>
  PROVE  TagInv'
<1>1. \A d \in Dirs : Children(d)' = Children(d)
  BY ChildrenStill
<1> QED  BY <1>1, RaiseLetsGo, TagKeep

\* Trashing an occupant keeps it among the children.
LEMMA SetTrashedKeeps ==
  ASSUME TypeInv, NEW v \in Ids, Present(v), node' = SetTrashed(v), NEW d
  PROVE  Children(d)' = Children(d)
<1>1. PICK x : x = Doc("trashed", node[v].parent, node[v].name)
  OBVIOUS
<1>2. node' = [node EXCEPT ![v] = x]
  BY <1>1 DEF SetTrashed
<1>3. EntryIn(v, x, d) = EntryIn(v, node[v], d)
  BY <1>1 DEF EntryIn, Doc, Present
<1> QED  BY Zenon, <1>2, <1>3, ChildrenKept

LEMMA TagBegin ==
  ASSUME TypeInv, FitInv, LockInv, TagInv, NEW t \in Tasks, Begin(t)
  PROVE  TagInv'
<1> PICK i \in Ids :
      \/ \E d \in Dirs, n \in Names :
           BeginCreate(t, i, d, n) \/ BeginOverwrite(t, i, d, n) \/ BeginRename(t, i, d, n)
      \/ BeginTrash(t, i) \/ BeginRestore(t, i) \/ BeginPurge(t, i)
  BY DEF Begin
<1>a. op \in [Tasks -> Ops]
  BY DEF TypeInv, TypeOK
<1>1. /\ op'[t].open = {} /\ \A u \in Tasks \ {t} : op'[u] = op[u]
      /\ UNCHANGED <<tags, observers>>
  <2>1. UNCHANGED <<tags, observers>>
    BY DEF BeginCreate, BeginOverwrite, BeginRename, BeginTrash, BeginRestore, BeginPurge
  <2>a. ASSUME NEW q, op' = [op EXCEPT ![t] = q], q.open = {}
        PROVE  op'[t].open = {} /\ \A u \in Tasks \ {t} : op'[u] = op[u]
    BY <1>a, <2>a
  <2>2. ASSUME NEW d \in Dirs, NEW n \in Names,
               BeginCreate(t, i, d, n) \/ BeginOverwrite(t, i, d, n) \/ BeginRename(t, i, d, n)
        PROVE  op'[t].open = {} /\ \A u \in Tasks \ {t} : op'[u] = op[u]
    <3> DEFINE q == [Idle EXCEPT !.pc = "lock", !.kind = "create", !.id = i,
                                 !.dst = d, !.name = n, !.locks = {d}]
               r == [Idle EXCEPT !.pc = "open", !.kind = "overwrite", !.id = i,
                                 !.seen = Doc("live", NoDir, NoName),
                                 !.dst = d, !.name = n, !.locks = {d}]
               s == [Idle EXCEPT !.pc = "lock", !.kind = "rename", !.id = i,
                                 !.seen = node[i], !.from = node[i].parent,
                                 !.dst = d, !.name = n,
                                 !.locks = RenameLocks(node[i].parent, d)]
    <3>1. op' = [op EXCEPT ![t] = q] \/ op' = [op EXCEPT ![t] = r] \/ op' = [op EXCEPT ![t] = s]
      BY <2>2 DEF BeginCreate, BeginOverwrite, BeginRename
    <3>2. q.open = {} /\ r.open = {} /\ s.open = {}
      BY DEF Idle
    <3> HIDE DEF q, r, s
    <3> QED  BY <2>a, <3>1, <3>2
  <2>3. CASE BeginTrash(t, i)
    BY <1>a, <2>1, <2>3 DEF BeginTrash, Idle
  <2>4. CASE BeginRestore(t, i)
    BY <1>a, <2>1, <2>4 DEF BeginRestore, Idle
  <2>5. CASE BeginPurge(t, i)
    BY <1>a, <2>1, <2>5 DEF BeginPurge, Idle
  <2> QED  BY <2>1, <2>2, <2>3, <2>4, <2>5
<1>2. \/ node' = node
      \/ node[i].state = "fresh" /\ node' = [node EXCEPT ![i] = Gone]
      \/ node[i].state = "fresh" /\ node' = [node EXCEPT ![i] = Doc("live", NoDir, NoName)]
  BY DEF BeginCreate, BeginOverwrite, BeginRename, BeginTrash, BeginRestore, BeginPurge
<1>3. ASSUME NEW x, node[i].state = "fresh", x.parent = NoDir, Writes(i, x), NEW d \in Dirs
      PROVE  Children(d)' = Children(d)
  <2>1. EntryIn(i, x, d) = EntryIn(i, node[i], d)
    BY <1>3, DirsAssumption DEF EntryIn
  <2> QED  BY Zenon, <1>3, <2>1, ChildrenKept DEF Writes
<1>4. \A d \in Dirs : Children(d)' = Children(d)
  <2>1. Doc("live", NoDir, NoName).parent = NoDir
    BY DEF Doc
  <2> QED  BY <1>2, <1>3, <2>1, GoneState, ChildrenStill DEF Writes
<1> QED  BY <1>1, <1>4, TagKeep

LEMMA TagHandleLock ==
  ASSUME TypeInv, FitInv, LockInv, TagInv, NEW t \in Tasks,
         Handle(t) \/ \E d \in Dirs : Lock(t, d)
  PROVE  TagInv'
<1> DEFINE o == op[t]
<1>a. op \in [Tasks -> Ops] /\ o \in OpType /\ o.seen \in Docs /\ Staging(o)
  BY DEF TypeInv, TypeOK, OpType, Ops, FitInv, Fit
<1>b. o.open = {} /\ Ready(o).open = o.open /\ [o EXCEPT !.pc = "decide"].open = o.open
  BY <1>a DEF Staging, Ready, OpType, Ops, Handle, Sync, Close, Abort, Lock
<1>1. op'[t].open = {} /\ \A u \in Tasks \ {t} : op'[u] = op[u]
  <2>1. CASE Sync(t)
    BY <1>a, <1>b, <2>1 DEF Sync, Ops
  <2>2. CASE Close(t)
    BY <1>a, <1>b, <2>2 DEF Close, Idle, Ops
  <2>3. CASE Abort(t)
    BY <1>a, <2>3, UnburdenedIdle DEF Abort, Unburdened
  <2>4. CASE \E d \in Dirs : Lock(t, d)
    BY <1>a, <1>b, <2>4 DEF Lock
  <2> QED  BY <2>1, <2>2, <2>3, <2>4 DEF Handle
<1>2. node' = node /\ UNCHANGED <<tags, observers>>
  BY DEF Handle, Sync, Close, Abort, Lock
<1> QED  BY <1>1, <1>2, ChildrenStill, TagKeep

LEMMA TagDecide ==
  ASSUME TypeInv, FitInv, LockInv, TagInv, NEW t \in Tasks, Decide(t)
  PROVE  TagInv'
<1> DEFINE o == op[t]
<1> USE DEF NameTaken, RestoreConflict
<1>a. op \in [Tasks -> Ops] /\ o \in Ops /\ Staging(o) /\ o.pc = "decide"
  BY DEF TypeInv, TypeOK, FitInv, Fit, Decide, NameFree, RenameRefused, RestoreUnopposed,
         RestoreRefused, Evict, Displace, DisplaceRefused, RestoreReplacing, RestoreKeepingBoth
<1>b. o.open = {} /\ Ready(o).open = {}
  BY <1>a DEF Staging, Ready, Ops
<1>c. ASSUME node' = node, UNCHANGED <<tags, observers>>, op'[t].open = {},
             \A u \in Tasks \ {t} : op'[u] = op[u]
      PROVE  TagInv'
  BY <1>c, ChildrenStill, TagKeep
<1>d. ASSUME NEW v \in Ids, Present(v), node' = SetTrashed(v), UNCHANGED <<tags, observers>>,
             op'[t].open = {}, \A u \in Tasks \ {t} : op'[u] = op[u]
      PROVE  TagInv'
  BY <1>d, SetTrashedKeeps, TagKeep
<1>1. CASE NameFree(t) \/ RestoreUnopposed(t)
  BY <1>1, <1>a, <1>b, <1>c DEF NameFree, RestoreUnopposed
<1>2. CASE RenameRefused(t) \/ DisplaceRefused(t) \/ RestoreRefused(t)
  BY <1>2, TagRaise DEF RenameRefused, DisplaceRefused, RestoreRefused
<1>3. ASSUME NEW v \in Ids, Evict(t, v) PROVE TagInv'
  <2>1. op'[t].open = {} /\ \A u \in Tasks \ {t} : op'[u] = op[u]
    BY <1>3, <1>a, <1>b DEF Evict, Ops
  <2>2. Present(v)
    BY <1>3 DEF Evict, LiveAt, Present
  <2> QED  BY <1>3, <1>d, <2>1, <2>2 DEF Evict
<1>4. ASSUME NEW v \in Ids, Displace(t, v) PROVE TagInv'
  <2>1. Present(v)
    BY <1>4 DEF Displace, LiveAt, Present
  <2> QED  BY <1>4, <1>a, <1>b, <1>d, <2>1 DEF Displace
<1>5. ASSUME NEW v \in Ids, RestoreReplacing(t, v) PROVE TagInv'
  <2>1. Present(v)
    BY <1>5 DEF RestoreReplacing, LiveAt, Present
  <2> QED  BY <1>5, <1>a, <1>b, <1>d, <2>1 DEF RestoreReplacing
<1>6. ASSUME NEW n \in Names, RestoreKeepingBoth(t, n) PROVE TagInv'
  <2>1. op'[t].open = {} /\ \A u \in Tasks \ {t} : op'[u] = op[u]
    BY <1>6, <1>a, <1>b DEF RestoreKeepingBoth, Ready, Ops
  <2> QED  BY <1>6, <1>c, <2>1 DEF RestoreKeepingBoth
<1> QED  BY <1>1, <1>2, <1>3, <1>4, <1>5, <1>6 DEF Decide

LEMMA TagEvictStage ==
  ASSUME TypeInv, FitInv, LockInv, TagInv, NEW t \in Tasks, EvictStage(t)
  PROVE  TagInv'
<1> DEFINE o == op[t]
<1>d. PICK d : d = op[t].dst
  OBVIOUS
<1>s. PICK staged : staged = TagOf(Children(d), {}, {<<o.victim, o.name>>})
  OBVIOUS
<1>a. /\ o \in Ops /\ op \in [Tasks -> Ops] /\ o.pc = "evictStage" /\ d \in Dirs
      /\ node' = node /\ blind' = blind /\ entries_mac' = entries_mac
      /\ entries_mac_pending' = [entries_mac_pending EXCEPT ![d] = staged]
      /\ overlaid' = IF Children(d) \in entries_mac[d] THEN overlaid ELSE overlaid \cup {d}
      /\ entries_mac_pending \in [Dirs -> Tags]
  BY <1>d, <1>s DEF EvictStage, Park, TypeInv, TypeOK, Works
<1>b. \A e \in Dirs : Children(e)' = Children(e)
  BY <1>a, ChildrenStill
<1>c. dir_locks[d] = t
  BY <1>a, <1>d, DirsAssumption DEF FitInv, Fit, Staging, StageDirs, LockInv, Owns, Acting
<1>1. /\ \A u \in Tasks \ {t} : op'[u] = op[u]
      /\ op'[t].open = {d} /\ op'[t].tag[d] = staged /\ op'[t].pc = "evictDelete"
      /\ op'[t].victim = o.victim /\ op'[t].name = o.name
  BY <1>a, <1>d, <1>s DEF EvictStage, Ops
<1>2. Foretold(t)'
  <2>1. WillBe(op[t], d)' = staged
    BY <1>a, <1>b, <1>s, <1>1 DEF WillBe
  <2>2. d \notin overlaid' => Children(d)' \in entries_mac'[d]
    BY <1>a, <1>b
  <2> QED  BY <1>1, <2>1, <2>2 DEF Foretold, Post
<1>3. ASSUME NEW e \in Dirs PROVE Vouched(e)'
  <2>1. CASE e = d
    BY <1>a, <1>b, <2>1 DEF Vouched, EntriesVerify
  <2>2. CASE e # d
    BY <1>a, <1>b, <2>2 DEF TagInv, Vouched, EntriesVerify
  <2> QED  BY <2>1, <2>2
<1>4. \A e \in Dirs : dir_locks[e] # t =>
           /\ entries_mac'[e] = entries_mac[e]
           /\ entries_mac_pending'[e] = entries_mac_pending[e]
           /\ e \in overlaid' <=> e \in overlaid
  BY <1>a, <1>c
<1> QED  BY <1>a, <1>b, <1>1, <1>2, <1>3, <1>4, TagFrame

LEMMA TagEvictDelete ==
  ASSUME TypeInv, FitInv, LockInv, TagInv, NEW t \in Tasks, EvictDelete(t)
  PROVE  TagInv'
<1> DEFINE o == op[t]
           v == op[t].victim
<1>a. /\ o \in Ops /\ op \in [Tasks -> Ops] /\ o.pc = "evictDelete" /\ v \in Ids
      /\ o.open = {o.dst} /\ o.dst \in Dirs /\ node' = [node EXCEPT ![v] = Gone]
      /\ node \in [Ids -> Docs]
  BY DEF EvictDelete, TypeInv, TypeOK, Works, FitInv, Fit, Staging
<1>1. /\ \A u \in Tasks \ {t} : op'[u] = op[u]
      /\ op'[t].open = o.open /\ op'[t].tag = o.tag /\ op'[t].pc = "evictCommit"
      /\ UNCHANGED <<tags, overlaid>>
  BY <1>a DEF EvictDelete, Ops
<1>2. blind \subseteq blind'
  BY DEF EvictDelete
<1>3. Changes(t)
  <2> SUFFICES ASSUME NEW d \in Dirs \ blind'
               PROVE  IF d = o.dst
                      THEN Children(d)' \in TagOf(Children(d), {}, {<<v, o.name>>})
                      ELSE Children(d)' = Children(d)
    BY <1>a DEF Changes, WillBe
  <2>1. Children(d)' = (Children(d) \ EntryIn(v, node[v], d)) \cup EntryIn(v, Gone, d)
    BY Zenon, <1>a, ChildrenUpdate
  <2>2. EntryIn(v, Gone, d) = {}
    BY GoneState DEF EntryIn
  <2>3. CASE Present(v) /\ <<node[v].parent, node[v].name>> # <<o.dst, o.name>>
    <3>1. d # o.dst /\ d # node[v].parent
      BY <1>a, <2>3, DirsAssumption DEF EvictDelete
    <3> QED  BY <2>1, <2>2, <3>1 DEF EntryIn
  <2>4. CASE Present(v) /\ <<node[v].parent, node[v].name>> = <<o.dst, o.name>>
    <3>1. EntryIn(v, node[v], d) = IF d = o.dst THEN {<<v, o.name>>} ELSE {}
      BY <2>4 DEF EntryIn, Present
    <3> QED  BY <2>1, <2>2, <3>1 DEF TagOf
  <2>5. CASE ~Present(v)
    <3>1. EntryIn(v, node[v], d) = {}
      BY <2>5 DEF EntryIn, Present
    <3>2. <<v, o.name>> \notin Children(d)
      BY <2>5, ChildIn
    <3> QED  BY <2>1, <2>2, <3>1, <3>2 DEF TagOf
  <2> QED  BY <2>3, <2>4, <2>5
<1> QED  BY <1>a, <1>1, <1>2, <1>3, TagWrite DEF Pre, Post

LEMMA TagEvictCommit ==
  ASSUME TypeInv, FitInv, LockInv, TagInv, NEW t \in Tasks, EvictCommit(t)
  PROVE  TagInv'
<1> DEFINE o == op[t]
           d == op[t].dst
<1>a. /\ o \in Ops /\ op \in [Tasks -> Ops] /\ o.pc = "evictCommit" /\ d \in Dirs
      /\ o.open = {d} /\ node' = node /\ blind' = blind
      /\ entries_mac' = [entries_mac EXCEPT ![d] = o.tag[d]]
      /\ entries_mac_pending' = [entries_mac_pending EXCEPT ![d] = {}]
      /\ overlaid' = overlaid \ {d}
      /\ entries_mac \in [Dirs -> Tags] /\ entries_mac_pending \in [Dirs -> Tags]
  BY DEF EvictCommit, Promote, TypeInv, TypeOK, Works, FitInv, Fit, Staging
<1>b. \A e \in Dirs : Children(e)' = Children(e)
  BY <1>a, ChildrenStill
<1>c. dir_locks[d] = t
  BY <1>a, OpenIsHeld
<1>1. op'[t].open = {} /\ \A u \in Tasks \ {t} : op'[u] = op[u]
  BY <1>a DEF EvictCommit, Ops
<1>2. Foretold(t)'
  BY <1>1 DEF Foretold
<1>3. ASSUME NEW e \in Dirs PROVE Vouched(e)'
  <2>1. CASE e = d
    <3>1. d \notin blind => Children(d) \in o.tag[d]
      BY <1>a DEF TagInv, Foretold, Post
    <3> QED  BY <1>a, <1>b, <2>1, <3>1 DEF Vouched, EntriesVerify
  <2>2. CASE e # d
    BY <1>a, <1>b, <2>2 DEF TagInv, Vouched, EntriesVerify
  <2> QED  BY <2>1, <2>2
<1>4. \A e \in Dirs : dir_locks[e] # t =>
           /\ entries_mac'[e] = entries_mac[e]
           /\ entries_mac_pending'[e] = entries_mac_pending[e]
           /\ e \in overlaid' <=> e \in overlaid
  BY <1>a, <1>c
<1> QED  BY <1>a, <1>b, <1>1, <1>2, <1>3, <1>4, TagFrame

LEMMA TagMutated ==
  ASSUME TypeInv, NEW t \in Tasks, Mutated(t)
  PROVE  /\ \A u \in Tasks \ {t} : op'[u] = op[u]
         /\ \/ op'[t].open = {}
            \/ op'[t].open = op[t].open /\ op'[t].tag = op[t].tag /\ op'[t].pc = "commit"
<1>1. op \in [Tasks -> Ops] /\ op[t] \in Ops
  BY DEF TypeInv, TypeOK
<1>2. CASE op[t].open = {}
  BY <1>1, <1>2 DEF Mutated, Finish, Idle
<1>3. CASE op[t].open # {}
  BY <1>1, <1>3 DEF Mutated, Ops
<1> QED  BY <1>2, <1>3

LEMMA TagMutate ==
  ASSUME TypeInv, FitInv, LockInv, PlaceInv, TagInv, NEW t \in Tasks, Mutate(t)
  PROVE  TagInv'
<1> DEFINE o == op[t]
<1> USE DEF AtMutation
<1>a. /\ op \in [Tasks -> Ops] /\ o \in Ops /\ o.pc = "mutate" /\ o.kind # "none"
      /\ node \in [Ids -> Docs] /\ o.id \in Ids /\ node[o.id] \in Docs
  BY DEF Mutate, InsertNode, MoveNode, RestoreNode, TrashNode, DeleteNode,
         TypeInv, TypeOK, Works
<1>b. ASSUME Changes(t), blind \subseteq blind', UNCHANGED <<tags, overlaid>>,
             \A u \in Tasks \ {t} : op'[u] = op[u],
             \/ op'[t].open = {}
             \/ op'[t].open = o.open /\ op'[t].tag = o.tag /\ op'[t].pc = "commit"
      PROVE  TagInv'
  BY <1>a, <1>b, TagWrite DEF Pre, Post
<1>1. CASE InsertNode(t)
  <2>1. CASE ~IndexAllows(o.id, o.dst, o.name)
    BY <1>1, <2>1, TagRaise DEF InsertNode
  <2>2. CASE IndexAllows(o.id, o.dst, o.name)
    <3>1. /\ op'[t].open = o.open /\ op'[t].tag = o.tag /\ op'[t].pc = "commit"
          /\ \A u \in Tasks \ {t} : op'[u] = op[u]
      BY <1>1, <1>a, <2>2 DEF InsertNode, Ops
    <3>2. UNCHANGED <<tags, overlaid>> /\ blind' = blind
      BY <1>1 DEF InsertNode, observers
    <3>3. Changes(t)
      BY <1>1, <2>2, InsertChanges
    <3> QED  BY <1>b, <3>1, <3>2, <3>3
  <2> QED  BY <2>1, <2>2
<1>2. CASE MoveNode(t)
  <2>1. CASE node[o.id].state = "live" /\ ~IndexAllows(o.id, o.dst, o.name)
    BY <1>2, <2>1, TagRaise DEF MoveNode, observers
  <2>2. CASE ~(node[o.id].state = "live" /\ ~IndexAllows(o.id, o.dst, o.name))
    <3>m. PICK moved :
            moved = [node[o.id] EXCEPT !.parent = o.dst, !.name = o.name,
                       !.mac = Identity(o.dst, o.name, o.seen.state)]
      OBVIOUS
    <3>1. /\ op' = [op EXCEPT ![t].pc = "commit",
                              ![t].seen = IF o.kind = "overwrite"
                                          THEN Doc("live", o.dst, o.name) ELSE @]
          /\ NoteBlind(t) /\ UNCHANGED <<tags, overlaid>>
          /\ o.kind \in {"rename", "overwrite"}
      BY <1>2, <2>2 DEF MoveNode
    <3>2. /\ op'[t].open = o.open /\ op'[t].tag = o.tag /\ op'[t].pc = "commit"
          /\ \A u \in Tasks \ {t} : op'[u] = op[u]
      BY <1>a, <3>1 DEF Ops
    <3>3. node' = IF Present(o.id) THEN [node EXCEPT ![o.id] = moved] ELSE node
      BY <1>2, <2>2, <3>m DEF MoveNode
    <3>4. moved.state = node[o.id].state /\ moved.parent = o.dst /\ moved.name = o.name
      BY <1>a, <3>m DEF Docs
    <3>5. Changes(t) /\ blind \subseteq blind'
      BY Zenon, <1>a, <3>1, <3>3, <3>4, MoveChanges
    <3> QED  BY <1>b, <3>1, <3>2, <3>5
  <2> QED  BY <2>1, <2>2
<1>3. CASE RestoreNode(t)
  <2>1. CASE Present(o.id) /\ ~IndexAllows(o.id, node[o.id].parent, o.name)
    BY <1>3, <2>1, TagRaise DEF RestoreNode, observers
  <2>2. CASE ~(Present(o.id) /\ ~IndexAllows(o.id, node[o.id].parent, o.name))
    <3>m. PICK back : back = [node[o.id] EXCEPT !.state = "live", !.name = o.name,
                                !.mac = Identity(o.seen.parent, o.name, "live")]
      OBVIOUS
    <3>1. NoteBlind(t) /\ Mutated(t) /\ UNCHANGED <<tags, overlaid>> /\ o.kind = "restore"
      BY <1>3, <2>2 DEF RestoreNode
    <3>2. node' = IF Present(o.id) THEN [node EXCEPT ![o.id] = back] ELSE node
      BY <1>3, <2>2, <3>m DEF RestoreNode
    <3>3. back.state = "live" /\ back.parent = node[o.id].parent /\ back.name = o.name
      BY <1>a, <3>m DEF Docs
    <3>4. Changes(t) /\ blind \subseteq blind'
      BY Zenon, <1>a, <3>1, <3>2, <3>3, RestoreChanges
    <3> QED  BY <1>b, <3>1, <3>4, TagMutated
  <2> QED  BY <2>1, <2>2
<1>4. CASE TrashNode(t)
  <2>m. PICK trashed : trashed = [node[o.id] EXCEPT !.state = "trashed",
                                    !.mac = Identity(o.seen.parent, o.seen.name, "trashed")]
    OBVIOUS
  <2>1. NoteBlind(t) /\ Mutated(t) /\ UNCHANGED <<tags, overlaid>> /\ o.kind = "trash"
    BY <1>4 DEF TrashNode
  <2>2. node' = IF Present(o.id) THEN [node EXCEPT ![o.id] = trashed] ELSE node
    BY <1>4, <2>m DEF TrashNode
  <2>3. /\ trashed.state = "trashed" /\ trashed.parent = node[o.id].parent
        /\ trashed.name = node[o.id].name
    BY <1>a, <2>m DEF Docs
  <2>4. Changes(t)
    BY Zenon, <1>a, <2>1, <2>2, <2>3, TrashChanges
  <2>5. blind \subseteq blind'
    BY <2>1 DEF NoteBlind
  <2> QED  BY <1>b, <2>1, <2>4, <2>5, TagMutated
<1>5. CASE DeleteNode(t)
  <2>1. NoteBlind(t) /\ Mutated(t) /\ UNCHANGED <<tags, overlaid>> /\ o.kind \in {"purge", "rollback"}
    BY <1>5 DEF DeleteNode
  <2>2. Writes(o.id, Gone)
    BY <1>5 DEF DeleteNode, Writes
  <2>3. Changes(t) /\ blind \subseteq blind'
    BY Zenon, <1>a, <2>1, <2>2, GoneState, DeleteChanges
  <2> QED  BY <1>b, <2>1, <2>3, TagMutated
<1> QED  BY <1>1, <1>2, <1>3, <1>4, <1>5 DEF Mutate

LEMMA TagProceed ==
  ASSUME TypeInv, FitInv, LockInv, PlaceInv, TagInv, NEW t \in Tasks,
         Proceed(t) \/ Fail(t)
  PROVE  TagInv'
<1>a. op \in [Tasks -> Ops] /\ op[t] \in OpType /\ Doc("live", NoDir, NoName) \in Docs
  BY DocTyped DEF TypeInv, TypeOK, OpType, States
<1>b. ASSUME NEW q, Finish(t, q), q.open = {}, UNCHANGED <<node, tags, observers>>
      PROVE  TagInv'
  <2>1. op'[t].open = {} /\ \A u \in Tasks \ {t} : op'[u] = op[u]
    BY <1>a, <1>b DEF Finish
  <2> QED  BY <1>b, <2>1, ChildrenStill, TagKeep
<1>c. /\ Idle.open = {}
      /\ Rollback(op[t], Doc("live", NoDir, NoName)).open = {}
  BY <1>a, UnburdenedIdle DEF Unburdened
<1>1. CASE Fail(t)
  BY <1>1, <1>b, <1>c, TagRaise DEF Fail
<1>2. ASSUME NEW d \in Dirs, Lock(t, d) \/ Stage(t, d) \/ StageRefused(t, d) \/ Commit(t, d)
      PROVE  TagInv'
  BY <1>2, TagHandleLock, TagStage, TagRaise, TagPost DEF StageRefused
<1>3. CASE EvictSteps(t)
  BY <1>3, TagEvictStage, TagRaise, TagEvictDelete, TagEvictCommit
     DEF EvictSteps, EvictRefused
<1>4. CASE CancelPurge(t)
  BY <1>4, <1>b, <1>c DEF CancelPurge
<1> QED  BY <1>1, <1>2, <1>3, <1>4, TagDecide, TagMutate DEF Proceed

LEMMA TagNext ==
  TypeInv /\ FitInv /\ LockInv /\ PlaceInv /\ TagInv /\ [Next]_vars => TagInv'
<1> SUFFICES ASSUME TypeInv, FitInv, LockInv, PlaceInv, TagInv, [Next]_vars PROVE TagInv'
  OBVIOUS
<1> USE DEF tags, observers
<1>1. CASE Crash
  <2>1. \A d \in Dirs : Children(d)' = Children(d)
    BY <1>1, ChildrenStill DEF Crash
  <2>2. \A t \in Tasks : op'[t].open = {}
    BY <1>1 DEF Crash, Idle
  <2> QED  BY <1>1, <2>1, <2>2 DEF Crash, TagInv, Foretold, Vouched, EntriesVerify
<1>2. ASSUME op' = op, UNCHANGED <<tags, observers>>,
             \A d \in Dirs : Children(d)' = Children(d)
      PROVE  TagInv'
  <2>1. ASSUME NEW t \in Tasks PROVE Foretold(t)'
    <3>1. \A d \in op[t].open : d \in Dirs
      BY OpenIsHeld
    <3>2. Foretold(t)
      BY DEF TagInv
    <3> QED  BY <1>2, <3>1, <3>2 DEF Foretold, WillBe, Arriving, Leaving
  <2>2. \A d \in Dirs : Vouched(d)'
    BY <1>2 DEF TagInv, Vouched, EntriesVerify
  <2> QED  BY <2>1, <2>2 DEF TagInv
<1>3. ASSUME NEW i \in Ids, SweepIncoming(i) PROVE TagInv'
  <2>1. ASSUME NEW d \in Dirs PROVE Children(d)' = Children(d)
    <3>1. EntryIn(i, Gone, d) = EntryIn(i, node[i], d)
      BY <1>3, GoneState, DirsAssumption DEF SweepIncoming, EntryIn
    <3>2. node' = [node EXCEPT ![i] = Gone]
      BY <1>3 DEF SweepIncoming
    <3> QED  BY Zenon, <3>1, <3>2, ChildrenKept
  <2> QED  BY <1>2, <1>3, <2>1 DEF SweepIncoming
<1>4. CASE UNCHANGED vars
  BY <1>2, <1>4, ChildrenStill DEF vars
<1> QED  BY <1>1, <1>3, <1>4, TagBegin, TagHandleLock, TagProceed DEF Next

-----------------------------------------------------------------------------
(* Every step leaves the trash marked.                                     *)

LEMMA TrashKeep ==
  ASSUME TrashInv, node' = node, blind \subseteq blind'
  PROVE  TrashInv'
  BY DEF TrashInv, Marked, Verified

LEMMA TrashWrite ==
  ASSUME TypeInv, TrashInv, NEW i \in Ids, NEW x, Writes(i, x), blind \subseteq blind',
         x.state = "trashed" /\ x.parent \in Dirs \ blind' =>
           x.mac = Identity(x.parent, x.name, x.state)
  PROVE  TrashInv'
<1>1. node'[i] = x /\ \A j \in Ids \ {i} : node'[j] = node[j]
  BY DEF Writes, TypeInv, TypeOK
<1> QED  BY <1>1 DEF TrashInv, Marked, Verified

LEMMA TrashMutate ==
  ASSUME TypeInv, FitInv, TrashInv, NEW t \in Tasks, Mutate(t)
  PROVE  TrashInv'
<1> DEFINE o == op[t]
<1> USE DEF AtMutation
<1>a. /\ o \in Ops /\ o.pc = "mutate" /\ Going(o) /\ NoDir \notin Dirs
      /\ node \in [Ids -> Docs] /\ o.id \in Ids /\ node[o.id] \in Docs
  BY DirsAssumption
     DEF Mutate, InsertNode, MoveNode, RestoreNode, TrashNode, DeleteNode,
         TypeInv, TypeOK, Works, FitInv, Fit
<1>b. blind \subseteq blind'
  BY DEF Mutate, InsertNode, MoveNode, RestoreNode, TrashNode, DeleteNode, NoteBlind, observers
<1>1. CASE InsertNode(t)
  <2>1. node' = node \/ Writes(o.id, Doc("live", o.dst, o.name))
    BY <1>1 DEF InsertNode, Writes
  <2>2. Doc("live", o.dst, o.name).state = "live"
    BY DEF Doc
  <2> QED  BY <1>a, <1>b, <2>1, <2>2, TrashKeep, TrashWrite
<1>2. CASE MoveNode(t)
  <2>m. PICK moved :
          moved = [node[o.id] EXCEPT !.parent = o.dst, !.name = o.name,
                     !.mac = Identity(o.dst, o.name, o.seen.state)]
    OBVIOUS
  <2>1. node' = node \/ (Present(o.id) /\ Writes(o.id, moved) /\ NoteBlind(t))
    <3>1. CASE node[o.id].state = "live" /\ ~IndexAllows(o.id, o.dst, o.name)
      BY <1>2, <3>1 DEF MoveNode
    <3>2. CASE ~(node[o.id].state = "live" /\ ~IndexAllows(o.id, o.dst, o.name))
      BY <1>2, <2>m, <3>2 DEF MoveNode, Writes
    <3> QED  BY <3>1, <3>2
  <2>2. /\ moved.state = node[o.id].state /\ moved.parent = o.dst /\ moved.name = o.name
        /\ moved.mac = Identity(o.dst, o.name, o.seen.state)
    BY <1>a, <2>m DEF Docs
  <2>3. ASSUME Present(o.id), Writes(o.id, moved), NoteBlind(t) PROVE TrashInv'
    <3>1. CASE Stale(t)
      <4>1. o.dst \notin Dirs \ blind'
        BY <1>a, <2>3, <3>1 DEF NoteBlind, Touched
      <4> QED  BY <1>a, <1>b, <2>2, <2>3, <4>1, TrashWrite
    <3>2. CASE ~Stale(t)
      <4>1. node[o.id] = o.seen
        BY <1>2, <1>a, <2>3, <3>2 DEF Stale, MoveNode
      <4> QED  BY <1>a, <1>b, <2>2, <2>3, <4>1, TrashWrite
    <3> QED  BY <3>1, <3>2
  <2> QED  BY <1>b, <2>1, <2>3, TrashKeep
<1>3. CASE RestoreNode(t)
  <2>m. PICK back : back = [node[o.id] EXCEPT !.state = "live", !.name = o.name,
                              !.mac = Identity(o.seen.parent, o.name, "live")]
    OBVIOUS
  <2>1. node' = node \/ Writes(o.id, back)
    BY <1>3, <2>m DEF RestoreNode, Writes
  <2>2. back.state = "live"
    BY <1>a, <2>m DEF Docs
  <2> QED  BY <1>a, <1>b, <2>1, <2>2, TrashKeep, TrashWrite
<1>4. CASE TrashNode(t)
  <2>m. PICK trashed : trashed = [node[o.id] EXCEPT !.state = "trashed",
                                    !.mac = Identity(o.seen.parent, o.seen.name, "trashed")]
    OBVIOUS
  <2>1. node' = node \/ (Present(o.id) /\ Writes(o.id, trashed))
    BY <1>4, <2>m DEF TrashNode, Writes
  <2>2. /\ trashed.state = "trashed" /\ trashed.parent = node[o.id].parent
        /\ trashed.name = node[o.id].name
        /\ trashed.mac = Identity(o.seen.parent, o.seen.name, "trashed")
    BY <1>a, <2>m DEF Docs
  <2>3. ASSUME Present(o.id), Writes(o.id, trashed) PROVE TrashInv'
    <3>1. CASE Stale(t)
      <4>1. node[o.id].parent \notin Dirs \ blind'
        BY <1>4, <1>a, <3>1 DEF TrashNode, NoteBlind, Touched
      <4> QED  BY <1>a, <1>b, <2>2, <2>3, <4>1, TrashWrite
    <3>2. CASE ~Stale(t)
      <4>1. node[o.id] = o.seen
        BY <1>4, <1>a, <2>3, <3>2 DEF Stale, TrashNode
      <4> QED  BY <1>a, <1>b, <2>2, <2>3, <4>1, TrashWrite
    <3> QED  BY <3>1, <3>2
  <2> QED  BY <1>b, <2>1, <2>3, TrashKeep
<1>5. CASE DeleteNode(t)
  <2>1. Writes(o.id, Gone)
    BY <1>5 DEF DeleteNode, Writes
  <2> QED  BY <1>a, <1>b, <2>1, GoneState, TrashWrite
<1> QED  BY <1>1, <1>2, <1>3, <1>4, <1>5 DEF Mutate

LEMMA TrashSet ==
  ASSUME TypeInv, TrashInv, NEW v \in Ids, node' = SetTrashed(v), blind' = blind
  PROVE  TrashInv'
<1>1. PICK x : x = Doc("trashed", node[v].parent, node[v].name)
  OBVIOUS
<1>2. Writes(v, x) /\ x.mac = Identity(x.parent, x.name, x.state)
  BY <1>1 DEF SetTrashed, Writes, Doc
<1> QED  BY <1>2, TrashWrite

LEMMA TrashNext == TypeInv /\ FitInv /\ TrashInv /\ [Next]_vars => TrashInv'
<1> SUFFICES ASSUME TypeInv, FitInv, TrashInv, [Next]_vars PROVE TrashInv'
  OBVIOUS
<1> USE DEF tags, observers
<1>1. ASSUME NEW t \in Tasks, Begin(t) PROVE TrashInv'
  <2> PICK i \in Ids :
        \/ \E d \in Dirs, n \in Names :
             BeginCreate(t, i, d, n) \/ BeginOverwrite(t, i, d, n) \/ BeginRename(t, i, d, n)
        \/ BeginTrash(t, i) \/ BeginRestore(t, i) \/ BeginPurge(t, i)
    BY <1>1 DEF Begin
  <2>1. /\ blind' = blind
        /\ node' = node \/ Writes(i, Gone) \/ Writes(i, Doc("live", NoDir, NoName))
    BY DEF BeginCreate, BeginOverwrite, BeginRename, BeginTrash, BeginRestore, BeginPurge, Writes
  <2>2. Doc("live", NoDir, NoName).state = "live"
    BY DEF Doc
  <2> QED  BY <2>1, <2>2, GoneState, TrashKeep, TrashWrite
<1>2. ASSUME NEW t \in Tasks, Decide(t) PROVE TrashInv'
  <2>1. blind' = blind /\ (node' = node \/ \E v \in Ids : node' = SetTrashed(v))
    BY <1>2 DEF Decide, NameFree, RenameRefused, RestoreUnopposed, RestoreRefused,
                Evict, Displace, DisplaceRefused, RestoreReplacing, RestoreKeepingBoth
  <2> QED  BY <2>1, TrashKeep, TrashSet
<1>3. ASSUME NEW t \in Tasks, EvictSteps(t) PROVE TrashInv'
  <2>1. CASE EvictDelete(t)
    <3>1. op[t].victim \in Ids /\ Writes(op[t].victim, Gone) /\ blind \subseteq blind'
      BY <2>1 DEF EvictDelete, Writes, TypeInv, Works
    <3> QED  BY <3>1, GoneState, TrashWrite
  <2> QED  BY <1>3, <2>1, TrashKeep DEF EvictSteps, EvictStage, EvictRefused, EvictCommit
<1>4. ASSUME NEW t \in Tasks, Proceed(t) PROVE TrashInv'
  <2>1. CASE \E d \in Dirs : Lock(t, d) \/ Stage(t, d) \/ StageRefused(t, d) \/ Commit(t, d)
    BY <2>1, TrashKeep DEF Lock, Stage, StageRefused, Commit
  <2>2. CASE CancelPurge(t)
    BY <2>2, TrashKeep DEF CancelPurge
  <2> QED  BY <1>2, <1>3, <1>4, <2>1, <2>2, TrashMutate DEF Proceed
<1>5. ASSUME NEW t \in Tasks, Handle(t) \/ Fail(t) PROVE TrashInv'
  BY <1>5, TrashKeep DEF Handle, Sync, Close, Abort, Fail
<1>6. ASSUME NEW i \in Ids, SweepIncoming(i) PROVE TrashInv'
  <2>1. Writes(i, Gone) /\ blind' = blind
    BY <1>6 DEF SweepIncoming, Writes
  <2> QED  BY <2>1, GoneState, TrashWrite
<1>7. CASE Crash \/ UNCHANGED vars
  BY <1>7, TrashKeep DEF Crash, vars
<1> QED  BY <1>1, <1>4, <1>5, <1>6, <1>7 DEF Next

LEMMA TagInit == Init => TagInv /\ TrashInv
<1> SUFFICES ASSUME Init PROVE TagInv /\ TrashInv
  OBVIOUS
<1>1. \A i \in Ids : node[i].state = "fresh"
  BY DEF Init, Doc
<1>2. \A d \in Dirs : Children(d) = {} /\ entries_mac[d] = {{}}
  BY <1>1 DEF Children, Present, Init
<1>3. \A t \in Tasks : op[t].open = {}
  BY DEF Init, Idle
<1> QED  BY <1>1, <1>2, <1>3 DEF TagInv, TrashInv, Foretold, Vouched, EntriesVerify, Marked

\* `_stage_entries` and `verify_dir_entries`: a directory lists at every moment
\* of every interleaving, whichever handlers failed or died half-way, unless a
\* handler wrote into it from a snapshot that was no longer true or a staging
\* overwrote the only tag that matched.
THEOREM DirectoriesStayListable == Spec => []ListableUnlessBlindOrOverlaid
<1>1. TagInv /\ TrashInv => ListableUnlessBlindOrOverlaid
  BY DEF TagInv, TrashInv, ListableUnlessBlindOrOverlaid, Listable, Vouched, Marked
<1> QED  BY <1>1, LockInit, PlaceInit, TagInit, TypeInvNext, FitNext, LockNext, PlaceNext,
            TagNext, TrashNext, PTL DEF Spec
=============================================================================
