----------------------------- MODULE TreeProofs -----------------------------
(***************************************************************************)
(* The three promises of Tree, for any tree, any number of requests in     *)
(* flight and any number of crashes: nothing is stored that nobody can     *)
(* name, a listing does not cry wolf, and a purge takes only what was      *)
(* discarded.                                                              *)
(*                                                                         *)
(* They are proved together.  Each handler is followed by what it may rely *)
(* on while nobody has overtaken it (Sound), by the locks it has (Locked)  *)
(* and by what the tags of the directories it holds come to (Signs).  What *)
(* carries the argument is the lines from documents to the root: a write   *)
(* to one document leaves every line alone that does not come through it.  *)
(***************************************************************************)
EXTENDS Tree, SequenceTheorems, NaturalsInduction, WellFoundedInduction, TLAPS

-----------------------------------------------------------------------------
(* What always holds.                                                      *)

Line(d) == {d} \cup Above(d)
Live(d) == d # Root => node[d].state = "live"
LiveLine(d) == Root \in Line(d) /\ \A j \in Line(d) : Live(j)
Fresh(i) == i # Root /\ node[i].state = "fresh"

\* Documents that were drawn are in a directory that was drawn, and named.
Placed ==
  /\ node \in [Ids -> Docs]
  /\ \A i \in Ids :
       \/ node[i] = Doc("fresh", NoId, NoName)
       \/ /\ ~Fresh(i) /\ node[i].parent \in Dirs /\ ~Fresh(node[i].parent)
          /\ node[i].name \in Names

\* A directory as a handler knows it, and the document of a node it read.
Seat(d) == d \in Dirs /\ ~Fresh(d)
Drawn(i, doc) == i \in Ids /\ ~Fresh(i) /\ Seat(doc.parent) /\ doc.name \in Names

Writing(o) == o.kind \in {"make", "restore", "rename"}
InPurge(o) == o.pc \in {"evictLock", "evict", "destroy", "unname"}
Holding(o) == Writing(o) /\ o.pc \notin {"parent", "lock"}

Record(o) == o = [f \in DOMAIN Idle |-> o[f]]

\* What a handler holds, by the step it is at.
Fits(o) ==
  /\ Record(o) /\ o.raced \in BOOLEAN
  /\ \/ o = Idle
     \/ o.kind = "trash" /\ o.pc \in {"empty", "mark"}
     \/ o.kind \in {"list", "search"} /\ o.pc = "read"
     \/ o.kind = "make" /\ o.pc \in {"lock", "stage", "mutate", "commit"}
     \/ o.kind = "restore" /\ o.pc \in {"lock", "decide", "stage", "mutate", "commit"}
     \/ o.kind = "rename" /\ o.pc \in {"parent", "lock", "decide", "stage", "mutate", "commit"}
     \/ o.kind \in {"rename", "purge"} /\ InPurge(o)
  /\ o.pc \in {"empty", "mark"} => o.id \in Ids /\ ~Fresh(o.id)
  /\ o.kind \in {"rename", "restore"} => Drawn(o.id, o.seen)
  /\ o.kind = "make" => o.id \in Ids /\ o.seen = NoDoc
  /\ o.kind = "make" /\ o.pc # "commit" => Fresh(o.id)
  /\ Writing(o) => o.name \in Names
  /\ Writing(o) /\ o.pc # "parent" =>
       /\ Seat(o.dst)
       /\ o.locks = {o.dst} \cup (IF o.kind = "rename" THEN {o.seen.parent} ELSE {})
  /\ o.kind = "restore" => o.dst = o.seen.parent
  /\ o.kind = "restore" /\ o.pc \in {"lock", "decide"} => o.name = o.seen.name
  /\ o.kind = "rename" => o.path \in Seq(Names) /\ o.path # <<>>
  /\ InPurge(o) => Drawn(o.victim, o.held)
  /\ o.pc \in {"destroy", "unname"} =>
       /\ DOMAIN o.tag = {o.held.parent} /\ o.rest \subseteq DOMAIN o.tree
       /\ DOMAIN o.tree \subseteq Ids /\ \A i \in DOMAIN o.tree : ~Fresh(i)
  /\ o.pc = "unname" => o.rest = {}
  /\ o.pc = "read" => \A r \in o.queue : r.id \in Dirs
  /\ o.pc \in {"mutate", "commit"} =>
       \/ DOMAIN o.tag = o.locks
       \/ DOMAIN o.tag = {} /\ o.kind = "restore" /\ o.name = o.seen.name
  /\ o.pc \notin {"mutate", "commit", "destroy", "unname"} => DOMAIN o.tag = {}

\* The locks a handler has.
Locked(t) ==
  /\ Holding(op[t]) => \A d \in op[t].locks : dir_locks[d] = t
  /\ op[t].pc \in {"evict", "destroy", "unname"} => dir_locks[op[t].held.parent] = t

\* No two handlers make a node under one uuid.
MakesApart ==
  \A t, u \in Tasks :
    t # u /\ op[t].kind = "make" /\ op[t].pc # "commit" /\ op[u].kind = "make"
    => op[t].id # op[u].id

\* What a handler that was not overtaken may rely on.
Bound(o) == Writing(o) /\ o.pc \notin {"parent", "commit"}
Seated(o) == Bound(o) => LiveLine(o.dst) /\ Line(o.dst) \subseteq o.chain
Restores(o) ==
  o.kind = "restore" /\ Bound(o) =>
    o.id \in o.chain /\ node[o.id] = o.seen /\ o.seen.state = "trashed"
\* A path that leads to the renamed node, and does not lead to the new path.
Renames(o) ==
  o.kind = "rename" /\ o.pc # "commit" =>
    /\ node[o.id] = o.seen /\ Line(o.id) \subseteq o.chain
    /\ \E old \in Seq(Names) :
         /\ old # <<>> /\ o.id \in Resolve(old) /\ old # o.path
         /\ ~BelowItself(o.id, old, o.path)
Moves(o) ==
  o.kind = "rename" /\ Bound(o) =>
    o.id \notin Line(o.dst) /\ o.dst \in Resolve(Front(o.path))
Purges(o) ==
  InPurge(o) =>
    /\ o.victim \in o.chain
    /\ o.held.state = "trashed"
    /\ o.pc \in {"evictLock", "evict"} => node[o.victim] = o.held
Razes(o) ==
  o.pc = "destroy" =>
    /\ DOMAIN o.tree \subseteq o.chain /\ o.victim \in DOMAIN o.tree
    /\ \A i \in DOMAIN o.tree :
         /\ node[i].parent = o.tree[i]
         /\ i # o.victim => o.tree[i] \in DOMAIN o.tree
         /\ IF i \in o.rest THEN Present(i) ELSE node[i].state = "gone"
    /\ o.victim \in o.rest => node[o.victim] = o.held
    /\ \A i \in o.rest : \A j \in ChildrenOf(i) : j \in o.rest \/ {i, j} \cap overtaken # {}
Lists(o) ==
  o.pc = "read" =>
    \A r \in o.queue : r.id \in o.watch /\ (EntriesOf(r.id) \in r.tags \/ r.id \in overtaken)

Sound(o) ==
  ~o.raced =>
    /\ Seated(o) /\ Restores(o) /\ Renames(o) /\ Moves(o) /\ Purges(o) /\ Razes(o) /\ Lists(o)

\* Tags.
Counts(d) == d \in Dirs /\ d \notin overtaken /\ Present(d)
Tagged == \A d \in Dirs : Counts(d) => EntriesOf(d) \in TagsOf(d)
Unused == \A d \in Dirs : Fresh(d) => entries_mac[d] = {}

Lost(o, d) ==
  IF o.pc = "destroy" THEN {<<o.victim, o.held.name>>}
  ELSE IF d = o.seen.parent THEN {<<o.id, o.seen.name>>} ELSE {}
Gained(o, d) == IF o.pc # "destroy" /\ d = o.dst THEN {<<o.id, o.name>>} ELSE {}
Ahead(o) == o.pc = "mutate" \/ (o.pc = "destroy" /\ o.victim \in o.rest)
Behind(o) == o.pc \in {"commit", "unname"} \/ (o.pc = "destroy" /\ o.victim \notin o.rest)
Signs(o) ==
  \A d \in DOMAIN o.tag : Counts(d) =>
    /\ Ahead(o) => /\ entries_mac[d] = EntriesOf(d) /\ entries_mac_pending[d] = {o.tag[d]}
                   /\ o.tag[d] = (EntriesOf(d) \ Lost(o, d)) \cup Gained(o, d)
    /\ Behind(o) => EntriesOf(d) = o.tag[d] /\ entries_mac_pending[d] = {o.tag[d]}

\* Evicted directories.
Emptied ==
  \A v \in evicted :
    /\ v \in Ids /\ node[v].state \in {"trashed", "gone"}
    /\ \A i \in ChildrenOf(v) : Trashed(i) \/ i \in overtaken

IInv ==
  /\ DOMAIN op = Tasks /\ DOMAIN dir_locks = Dirs
  /\ Placed /\ MakesApart
  /\ \A t \in Tasks : Fits(op[t]) /\ Locked(t) /\ Sound(op[t]) /\ Signs(op[t])
  /\ Tagged /\ Unused /\ Emptied
  /\ NothingIsLost /\ AlarmsHaveARace /\ DestroyedWasDiscarded
-----------------------------------------------------------------------------
(* Lines of directories.                                                   *)

Known(d) == d \in Ids \cup {Root} /\ ~Fresh(d)

LEMMA IdsAre ==
  /\ Root \notin Ids /\ NoId \notin Ids /\ NoId \notin Dirs /\ Root \in Dirs
  /\ Dirs \subseteq Ids \cup {Root} /\ Folders \subseteq Dirs /\ Ids \cap Dirs = Folders
  /\ Files \cap Dirs = {}
  BY IdsAssumption DEF Ids, Dirs

LEMMA LeastIs ==
  ASSUME NEW S, S \subseteq Nat, S # {}
  PROVE  \E k \in S : \A j \in S : k <= j
  <1>1. PICK k \in S : \A j \in S : <<j, k>> \notin OpToRel(<, Nat)
    BY NatLessThanWellFounded, WFMin
  <1>2. ASSUME NEW j \in S PROVE k <= j
    <2>1. j \in Nat /\ k \in Nat /\ ~(j < k)
      BY <1>1 DEF OpToRel
    <2> QED
      BY <2>1
  <1> QED
    BY <1>2

\* A document that is drawn has its directory.
LEMMA ParentIs ==
  ASSUME Placed, NEW i, Known(i), i # Root
  PROVE  i \in Ids /\ node[i].parent \in Dirs /\ Known(node[i].parent)
  BY IdsAre DEF Placed, Known, Fresh, Doc

LEMMA PresentIsKnown ==
  ASSUME NEW i \in Ids \cup {Root}, Present(i)
  PROVE  Known(i)
  BY DEF Present, Known, Fresh

\* The line above a document is the least set with its parent and the parents of
\* what is there.
LEMMA AboveIs ==
  ASSUME Placed, NEW d, Known(d)
  PROVE  /\ Above(d) \subseteq Dirs /\ ClosedUpward(Above(d))
         /\ d # Root => node[d].parent \in Above(d)
  <1>1. CASE d = Root
    BY <1>1 DEF Above, ClosedUpward
  <1>2. CASE d # Root
    <2>1. Above(d) \subseteq Dirs /\ node[d].parent \in Above(d)
      BY <1>2, ParentIs DEF Above
    <2>2. ASSUME NEW j \in Above(d) \ {Root}, Present(j) PROVE node[j].parent \in Above(d)
      <3>1. Known(j) /\ node[j].parent \in Dirs
        BY <2>1, <2>2, IdsAre, PresentIsKnown, ParentIs
      <3> QED
        BY <1>2, <2>2, <3>1 DEF Above, ClosedUpward
    <2> QED
      BY <1>2, <2>1, <2>2 DEF ClosedUpward
  <1> QED
    BY <1>1, <1>2

LEMMA AboveIsLeast ==
  ASSUME NEW d, NEW S, S \subseteq Dirs, ClosedUpward(S), d # Root => node[d].parent \in S
  PROVE  Above(d) \subseteq S
  BY DEF Above

\* The line above something on a line is on that line.
LEMMA UpFrom ==
  ASSUME Placed, NEW d, Known(d), NEW j \in Above(d), Present(j)
  PROVE  Above(j) \subseteq Above(d)
  <1>1. /\ Above(d) \subseteq Dirs /\ ClosedUpward(Above(d))
    BY AboveIs
  <1>2. j # Root => node[j].parent \in Above(d)
    BY <1>1 DEF ClosedUpward
  <1> QED
    BY <1>1, <1>2, AboveIsLeast

LEMMA LiveIsPresent ==
  ASSUME NEW d \in Ids \cup {Root}, Live(d)
  PROVE  Present(d) /\ Known(d) /\ ~Trashed(d)
  BY DEF Live, Present, Known, Fresh, Trashed

\* The root is above every part of a live line.
LEMMA LiveLineUp ==
  ASSUME Placed, NEW d, Known(d), LiveLine(d), NEW j \in Line(d)
  PROVE  LiveLine(j) /\ Line(j) \subseteq Line(d) /\ Known(j)
  <1>1. /\ Above(d) \subseteq Dirs /\ ClosedUpward(Above(d))
        /\ d # Root => node[d].parent \in Above(d)
    BY AboveIs
  <1>2. Line(d) \subseteq Ids \cup {Root} /\ \A k \in Line(d) : Present(k) /\ Known(k)
    BY <1>1, IdsAre, LiveIsPresent DEF LiveLine, Line, Known
  <1>3. Above(j) \subseteq Above(d) /\ Above(j) \subseteq Dirs /\ ClosedUpward(Above(j))
        /\ (j # Root => node[j].parent \in Above(j))
    BY <1>2, UpFrom, AboveIs DEF Line
  <1>4. Root \in Line(j)
    <2> DEFINE C == {k \in Above(d) : k = j \/ j \in Above(k)} \cup Above(j)
    <2>1. SUFFICES ASSUME j # d, j # Root, d # Root PROVE Root \in Line(j)
      BY <1>3 DEF LiveLine, Line, Above
    <2>2. ASSUME NEW k, Known(k), k # Root, j \in Above(k), node[k].parent # j,
                 Known(node[k].parent)
          PROVE  j \in Above(node[k].parent)
      <3> DEFINE p == node[k].parent
                 B == {p} \cup Above(p)
      <3>1. Above(p) \subseteq Dirs /\ ClosedUpward(Above(p)) /\ (p # Root => node[p].parent \in Above(p))
        BY <2>2, AboveIs
      <3>2. p \in Dirs
        BY <2>2, ParentIs
      <3>3. ClosedUpward(B)
        BY <3>1 DEF ClosedUpward
      <3>4. Above(k) \subseteq B
        BY <3>1, <3>2, <3>3, AboveIsLeast
      <3> QED
        BY <2>2, <3>4
    <2>3. j \in Above(d)
      BY <2>1 DEF Line
    <2>4. node[d].parent \in C
      BY <1>1, <1>2, <2>1, <2>2, <2>3, ParentIs DEF Line
    <2>5. ASSUME NEW k \in C \ {Root}, Present(k) PROVE node[k].parent \in C
      <3>1. CASE k \in Above(j)
        BY <1>3, <2>5, <3>1 DEF ClosedUpward
      <3>2. CASE k = j
        BY <1>3, <2>1, <3>2
      <3>3. CASE k \in Above(d) /\ k # j /\ j \in Above(k)
        <4>1. Known(k) /\ node[k].parent \in Above(d) /\ Known(node[k].parent)
          BY <1>1, <1>2, <2>5, <3>3 DEF ClosedUpward, Line
        <4> QED
          BY <2>2, <2>5, <3>3, <4>1
      <3> QED
        BY <2>5, <3>1, <3>2, <3>3
    <2>6. C \subseteq Dirs /\ ClosedUpward(C)
      BY <1>1, <1>3, <2>5 DEF ClosedUpward
    <2>7. Above(d) \subseteq C
      BY <2>4, <2>6, AboveIsLeast
    <2>8. Root \in C
      BY <2>1, <2>7 DEF LiveLine, Line
    <2> QED
      BY <2>1, <2>8 DEF Line, Above
  <1> QED
    BY <1>2, <1>3, <1>4 DEF LiveLine, Line

\* A live child of a directory whose line is live is not on that line.
LEMMA NoLoop ==
  ASSUME Placed, NEW d, Known(d), LiveLine(d), NEW i \in Ids, node[i].parent = d
  PROVE  i \notin Line(d)
  <1>1. SUFFICES ASSUME i \in Line(d) PROVE FALSE
    OBVIOUS
  <1>2. LiveLine(i) /\ Line(i) \subseteq Line(d) /\ Known(i) /\ i # Root
    BY <1>1, LiveLineUp, IdsAre
  <1> DEFINE C == {k \in Above(i) : i \in Line(k)}
  <1>3. Above(i) \subseteq Dirs /\ ClosedUpward(Above(i)) /\ d \in Above(i)
    BY <1>2, AboveIs
  <1>4. ASSUME NEW k \in C \ {Root}, Present(k) PROVE node[k].parent \in C
    <2>1. node[k].parent \in Above(i) /\ k \in Line(i)
      BY <1>3, <1>4 DEF ClosedUpward, Line
    <2>2. CASE k = i
      BY <1>1, <1>3, <2>2
    <2>3. CASE k # i
      <3> DEFINE p == node[k].parent
                 B == {p} \cup Above(p)
      <3>1. Known(k) /\ Known(p) /\ p \in Dirs
        BY <1>2, <1>4, <2>1, LiveLineUp, ParentIs
      <3>2. Above(p) \subseteq Dirs /\ ClosedUpward(Above(p)) /\ (p # Root => node[p].parent \in Above(p))
        BY <3>1, AboveIs
      <3>3. ClosedUpward(B)
        BY <3>2 DEF ClosedUpward
      <3>4. Above(k) \subseteq B
        BY <3>1, <3>2, <3>3, AboveIsLeast
      <3> QED
        BY <1>4, <2>1, <2>3, <3>4 DEF Line
    <2> QED
      BY <2>2, <2>3
  <1>5. C \subseteq Dirs /\ ClosedUpward(C) /\ node[i].parent \in C
    BY <1>1, <1>3, <1>4 DEF ClosedUpward
  <1>6. Root \in C
    BY <1>2, <1>5, AboveIsLeast DEF LiveLine, Line
  <1> QED
    BY <1>2, <1>6 DEF Line, Above

\* A line goes on from the directory a document is in.
LEMMA LineThrough ==
  ASSUME Placed, NEW k, Known(k), k # Root
  PROVE  Above(k) \subseteq Line(node[k].parent)
  <1> DEFINE p == node[k].parent
             B == {p} \cup Above(p)
  <1>1. Known(p) /\ p \in Dirs
    BY ParentIs
  <1>2. Above(p) \subseteq Dirs /\ ClosedUpward(Above(p)) /\ (p # Root => node[p].parent \in Above(p))
    BY <1>1, AboveIs
  <1>3. ClosedUpward(B)
    BY <1>2 DEF ClosedUpward
  <1>4. Above(k) \subseteq B
    BY <1>1, <1>2, <1>3, AboveIsLeast
  <1> QED
    BY <1>4 DEF Line

\* A line that comes to the root has passed nothing that is not there.
LEMMA PresentUp ==
  ASSUME Placed, NEW i, Known(i), i # Root, Root \in Above(i), NEW j \in Above(i)
  PROVE  Present(j)
  <1>1. SUFFICES ASSUME ~Present(j) PROVE FALSE
    OBVIOUS
  <1>2. j # Root
    BY <1>1 DEF Present
  <1> DEFINE C == {k \in Above(i) : j \in Line(k)}
  <1>3. Above(i) \subseteq Dirs /\ ClosedUpward(Above(i)) /\ node[i].parent \in Above(i)
    BY AboveIs
  <1>4. ASSUME NEW k \in C \ {Root}, Present(k) PROVE node[k].parent \in C
    <2>1. Known(k) /\ k # j /\ j \in Above(k) /\ node[k].parent \in Above(i)
      BY <1>1, <1>3, <1>4, IdsAre, PresentIsKnown DEF ClosedUpward, Line
    <2> QED
      BY <1>4, <2>1, LineThrough
  <1>5. C \subseteq Dirs /\ ClosedUpward(C) /\ node[i].parent \in C
    BY <1>3, <1>4, LineThrough DEF ClosedUpward
  <1> HIDE DEF C
  <1>6. Above(i) \subseteq C
    BY <1>5, AboveIsLeast
  <1> QED
    BY <1>2, <1>6 DEF C, Line, Above

\* A document whose way to the root passes nothing trashed is in a live directory.
LEMMA ClearUp ==
  ASSUME Placed, NEW i, Known(i), i # Root, ReachesRoot(i), BlockedBy(i) = {}
  PROVE  LiveLine(node[i].parent) /\ Line(node[i].parent) = Above(i)
  <1> DEFINE d == node[i].parent
  <1>1. Above(i) \subseteq Dirs /\ ClosedUpward(Above(i)) /\ d \in Above(i) /\ Root \in Above(i)
    BY AboveIs DEF ReachesRoot
  <1>2. \A j \in Above(i) : Present(j) /\ Live(j)
    BY <1>1, PresentUp DEF BlockedBy, Live, Present, Trashed
  <1>3. Known(d)
    BY ParentIs
  <1>4. Above(d) \subseteq Above(i)
    BY <1>1, <1>2, <1>3, UpFrom
  <1>5. Above(i) \subseteq Line(d)
    BY LineThrough
  <1> QED
    BY <1>1, <1>2, <1>4, <1>5 DEF LiveLine, Line
-----------------------------------------------------------------------------
(* What a write to one document leaves of the lines of others.             *)

Others(w) == \A j \in Ids \ {w} : node'[j] = node[j]

LEMMA OthersAre ==
  ASSUME NEW w, Others(w), NEW j \in Ids \cup {Root}, j # w
  PROVE  /\ Present(j)' <=> Present(j)
         /\ Live(j)' <=> Live(j)
         /\ Fresh(j)' <=> Fresh(j)
         /\ Known(j)' <=> Known(j)
         /\ Trashed(j)' <=> Trashed(j)
         /\ j # Root => node'[j].parent = node[j].parent
  BY DEF Others, Present, Live, Fresh, Known, Trashed

AboveHolds(d) ==
  /\ Above(d) \subseteq Dirs /\ ClosedUpward(Above(d))
  /\ d # Root => node[d].parent \in Above(d)

LEMMA AboveAlways == Placed => \A d : Known(d) => AboveHolds(d)
  BY AboveIs DEF AboveHolds

LEMMA AboveNext == (Placed => \A d : Known(d) => AboveHolds(d))'
  BY AboveAlways, PTL

\* A line that does not come through the document is as it was.
LEMMA AboveSame ==
  ASSUME Placed, Placed', NEW w \in Ids, Others(w), NEW d, Known(d), w \notin Line(d)
  PROVE  Above(d)' = Above(d) /\ Known(d)'
  <1>1. d # w /\ d \in Ids \cup {Root} /\ Known(d)' /\ w \notin Above(d)
    BY OthersAre DEF Line, Known
  <1>a. PICK A : A = Above(d)
    OBVIOUS
  <1>b. PICK B : B = Above(d)'
    OBVIOUS
  <1>2. A \subseteq Dirs /\ ClosedUpward(A) /\ (d # Root => node[d].parent \in A)
    BY <1>a, AboveIs
  <1>3. B \subseteq Dirs /\ ClosedUpward(B)' /\ (d # Root => node'[d].parent \in B)
    BY <1>1, <1>b, AboveNext DEF AboveHolds
  <1>4. ClosedUpward(A)'
    BY <1>1, <1>2, <1>a, OthersAre, IdsAre DEF ClosedUpward
  <1>5. B \subseteq A
    BY <1>1, <1>2, <1>4, <1>b, OthersAre DEF Above
  <1>6. ClosedUpward(B)
    BY <1>1, <1>3, <1>5, <1>a, OthersAre, IdsAre DEF ClosedUpward
  <1>7. A \subseteq B
    BY <1>1, <1>3, <1>6, <1>a, OthersAre, AboveIsLeast
  <1> QED
    BY <1>1, <1>5, <1>7, <1>a, <1>b

LEMMA LineSame ==
  ASSUME Placed, Placed', NEW w \in Ids, Others(w), NEW d, Known(d), w \notin Line(d)
  PROVE  /\ Line(d)' = Line(d) /\ Known(d)'
         /\ LiveLine(d) => LiveLine(d)'
  <1>1. Line(d)' = Line(d) /\ Known(d)'
    BY AboveSame DEF Line
  <1>2. Line(d) \subseteq Ids \cup {Root}
    BY AboveIs, IdsAre DEF Line, Known
  <1> QED
    BY <1>1, <1>2, OthersAre DEF LiveLine

\* A line still comes as far as the document that was written.
LEMMA AboveKeeps ==
  ASSUME Placed, Placed', NEW w \in Ids, Others(w), NEW d, Known(d), w \in Above(d), w # d
  PROVE  w \in Above(d)'
  <1>1. d \in Ids \cup {Root} /\ Known(d)'
    BY OthersAre DEF Known
  <1>b. PICK B : B = Above(d)'
    OBVIOUS
  <1>2. B \subseteq Dirs /\ ClosedUpward(B)' /\ (d # Root => node'[d].parent \in B)
    BY <1>1, <1>b, AboveNext DEF AboveHolds
  <1>3. ASSUME w \notin B PROVE ClosedUpward(B)
    BY <1>2, <1>3, OthersAre, IdsAre DEF ClosedUpward
  <1>4. ASSUME w \notin B PROVE Above(d) \subseteq B
    BY <1>1, <1>2, <1>3, <1>4, OthersAre, AboveIsLeast
  <1> QED
    BY <1>4, <1>b

\* Lines depend on who is where and who is there.
LEMMA AboveSteady ==
  ASSUME \A j \in Ids : (Present(j)' <=> Present(j)) /\ node'[j].parent = node[j].parent,
         NEW d, Known(d)
  PROVE  Above(d)' = Above(d)
  <1>1. ASSUME NEW S \in SUBSET Dirs PROVE ClosedUpward(S)' <=> ClosedUpward(S)
    BY IdsAre DEF ClosedUpward
  <1>2. d # Root => node'[d].parent = node[d].parent
    BY DEF Known
  <1> QED
    BY <1>1, <1>2 DEF Above

-----------------------------------------------------------------------------
(* Paths.                                                                  *)

Routes == Seq(Names) \ {<<>>}

LEMMA FrontIs ==
  ASSUME NEW path \in Routes
  PROVE  /\ Front(path) \in Seq(Names) /\ Len(path) \in Nat \ {0}
         /\ Len(Front(path)) = Len(path) - 1
         /\ \A k \in 1 .. Len(path) - 1 : Front(path)[k] = path[k]
  <1>1. path \in Seq(Names) /\ Len(path) \in Nat \ {0}
    BY EmptySeq, LenProperties DEF Routes
  <1>2. PICK n : n = Len(path) - 1
    OBVIOUS
  <1>3. n \in Int /\ n \in Nat /\ Front(path) = SubSeq(path, 1, n)
    BY <1>1, <1>2 DEF Front
  <1>4. \A i \in 1 .. n : path[i] \in Names
    BY <1>1, <1>2, ElementOfSeq
  <1>5. /\ Front(path) \in Seq(Names)
        /\ Len(Front(path)) = IF 1 <= n THEN n - 1 + 1 ELSE 0
        /\ \A i \in 1 .. n - 1 + 1 : Front(path)[i] = path[1 + i - 1]
    BY <1>3, <1>4, SubSeqProperties
  <1>6. \A k \in 1 .. n : k \in 1 .. n - 1 + 1 /\ 1 + k - 1 = k
    BY <1>3
  <1>7. Len(Front(path)) = n
    BY <1>3, <1>5
  <1> QED
    BY <1>1, <1>2, <1>5, <1>6, <1>7

\* What a walk goes through.
LEMMA WalkIs ==
  ASSUME NEW path \in Routes, NEW w \in Walks(path), NEW k \in 1 .. Len(path)
  PROVE  /\ w[k] \in Ids /\ node[w[k]].state = "live" /\ node[w[k]].name = path[k]
         /\ node[w[k]].parent = IF k = 1 THEN Root ELSE w[k - 1]
         /\ Len(path) \in Nat \ {0} /\ k \in Nat
         /\ k > 1 => k - 1 \in 1 .. Len(path)
  <1>1. path \in Seq(Names) /\ Len(path) \in Nat \ {0} /\ k \in Nat
    BY EmptySeq, LenProperties DEF Routes
  <1>2. w[k] \in LiveAt(IF k = 1 THEN Root ELSE w[k - 1], path[k])
    BY DEF Walks
  <1>3. w[k] \in Ids /\ w[k] # Root
    BY <1>2, IdsAre DEF LiveAt, LiveChildren, ChildrenOf
  <1> QED
    BY <1>1, <1>2, <1>3 DEF LiveAt, LiveChildren, ChildrenOf, Present, Trashed

\* Everything a walk goes through is on the line of where it comes to.
LEMMA WalkLine ==
  ASSUME Placed, NEW path \in Routes, NEW w \in Walks(path), NEW k \in 1 .. Len(path)
  PROVE  /\ LiveLine(w[k]) /\ Known(w[k])
         /\ \A j \in 1 .. k : w[j] \in Line(w[k])
         /\ \A d \in Above(w[k]) : d = Root \/ \E j \in 1 .. k : j < k /\ d = w[j]
  <1>0. Len(path) \in Nat \ {0} /\ k \in Nat
    BY WalkIs
  <1>1. \A j \in 1 .. k : Known(w[j]) /\ Present(w[j]) /\ w[j] \in Ids /\ w[j] # Root /\ Live(w[j])
    BY <1>0, WalkIs, IdsAre DEF Known, Present, Fresh, Live
  <1>2. /\ Above(w[k]) \subseteq Dirs /\ ClosedUpward(Above(w[k])) /\ node[w[k]].parent \in Above(w[k])
    BY <1>0, <1>1, AboveIs
  <1>3. ASSUME NEW j \in 1 .. k PROVE w[j] \in Line(w[k])
    <2> DEFINE S == {i \in j .. k : w[i] \in Line(w[k])}
    <2>1. k \in S /\ S \subseteq Nat
      BY <1>0 DEF Line
    <2>2. PICK m \in S : \A i \in S : m <= i
      BY <2>1, LeastIs
    <2>3. SUFFICES ASSUME m # j PROVE FALSE
      BY <2>2
    <2>4. m \in 1 .. k /\ m > 1 /\ m > j /\ m - 1 \in j .. k /\ m \in 1 .. Len(path)
      BY <1>0, <2>3
    <2>5. node[w[m]].parent = w[m - 1]
      BY <2>4, WalkIs
    <2>6. w[m - 1] \in Above(w[k])
      BY <1>1, <1>2, <2>4, <2>5 DEF Line, ClosedUpward
    <2>7. m - 1 \in S
      BY <2>4, <2>6 DEF Line
    <2> QED
      BY <1>0, <2>2, <2>7
  <1>4. Root \in Above(w[k])
    <2>1. 1 \in 1 .. k /\ 1 \in 1 .. Len(path)
      BY <1>0
    <2>2. w[1] \in Line(w[k]) /\ node[w[1]].parent = Root
      BY <1>3, <2>1, WalkIs
    <2> QED
      BY <1>1, <1>2, <2>1, <2>2 DEF Line, ClosedUpward
  <1>5. \A d \in Above(w[k]) : d = Root \/ \E j \in 1 .. k : j < k /\ d = w[j]
    <2> DEFINE S == {d \in Dirs : d = Root \/ \E j \in 1 .. k : j < k /\ d = w[j]}
    <2>1. ASSUME NEW j \in 1 .. k PROVE node[w[j]].parent \in S
      <3>1. j \in 1 .. Len(path) /\ node[w[j]].parent \in Dirs
        BY <1>0, <1>1, ParentIs
      <3>2. node[w[j]].parent = IF j = 1 THEN Root ELSE w[j - 1]
        BY <3>1, WalkIs
      <3>3. j # 1 => j - 1 \in 1 .. k /\ j - 1 < k
        BY <1>0
      <3> QED
        BY <3>1, <3>2, <3>3
    <2>2. ClosedUpward(S)
      BY <2>1 DEF ClosedUpward
    <2>a. S \subseteq Dirs /\ node[w[k]].parent \in S
      BY <1>0, <2>1
    <2> HIDE DEF S
    <2>3. Above(w[k]) \subseteq S
      BY <2>a, <2>2, AboveIsLeast
    <2> QED
      BY <2>3 DEF S
  <1>6. \A d \in Line(w[k]) : Live(d)
    BY <1>0, <1>1, <1>5 DEF Line, Live
  <1> QED
    BY <1>0, <1>1, <1>3, <1>4, <1>5, <1>6 DEF LiveLine, Line

\* What a path leads to is reached by live directories only.
LEMMA ResolveIs ==
  ASSUME Placed, NEW path \in Seq(Names), NEW d \in Resolve(path)
  PROVE  /\ LiveLine(d) /\ Known(d)
         /\ path # <<>> => d \in Ids /\ \E w \in Walks(path) : d = w[Len(path)]
         /\ path = <<>> => d = Root
  <1>1. CASE path = <<>>
    BY <1>1, IdsAre DEF Resolve, LiveLine, Line, Above, Live, Known, Fresh
  <1>2. CASE path # <<>>
    <2>1. path \in Routes /\ Len(path) \in Nat \ {0}
      BY <1>2, EmptySeq, LenProperties DEF Routes
    <2>2. PICK w \in Walks(path) : d = w[Len(path)]
      BY <1>2 DEF Resolve
    <2>3. Len(path) \in 1 .. Len(path)
      BY <2>1
    <2> QED
      BY <1>2, <2>1, <2>2, <2>3, WalkLine, WalkIs
  <1> QED
    BY <1>1, <1>2

\* A path leads where it did if nothing on the way is written.
LEMMA ResolveKept ==
  ASSUME Placed, NEW x \in Ids, Others(x), NEW path \in Seq(Names), NEW d \in Resolve(path),
         x \notin Line(d)
  PROVE  d \in Resolve(path)'
  <1>1. CASE path = <<>>
    BY <1>1 DEF Resolve
  <1>2. CASE path # <<>>
    <2>1. path \in Routes /\ Len(path) \in Nat \ {0} /\ Len(path) \in 1 .. Len(path)
      BY <1>2, EmptySeq, LenProperties DEF Routes
    <2>2. PICK w \in Walks(path) : d = w[Len(path)]
      BY <1>2 DEF Resolve
    <2>3. ASSUME NEW k \in 1 .. Len(path)
          PROVE  w[k] \in LiveAt(IF k = 1 THEN Root ELSE w[k - 1], path[k])'
      <3>1. w[k] \in Line(d)
        BY <2>1, <2>2, WalkLine
      <3>2. w[k] \in Ids /\ w[k] # x /\ w[k] \in LiveAt(IF k = 1 THEN Root ELSE w[k - 1], path[k])
        BY <2>1, <3>1, WalkIs DEF Walks
      <3>3. node'[w[k]] = node[w[k]]
        BY <3>2 DEF Others
      <3> QED
        BY <3>2, <3>3 DEF LiveAt, LiveChildren, ChildrenOf, Present, Trashed
    <2>4. w \in Walks(path)'
      BY <2>3 DEF Walks
    <2> QED
      BY <1>2, <2>2, <2>4 DEF Resolve
  <1> QED
    BY <1>1, <1>2

\* Two walks that meet have come the same way.
LEMMA WalkUnique ==
  ASSUME NEW p \in Routes, NEW q \in Routes, NEW v \in Walks(p), NEW w \in Walks(q),
         NEW k \in 1 .. Len(q), v[Len(p)] = w[k]
  PROVE  Len(p) = k /\ \A j \in 1 .. k : p[j] = q[j]
  <1> DEFINE n == Len(p)
  <1>1. n \in Nat \ {0} /\ k \in Nat \ {0} /\ Len(q) \in Nat \ {0} /\ n \in 1 .. n
    <2>1. n \in Nat \ {0} /\ Len(q) \in Nat \ {0}
      BY EmptySeq, LenProperties DEF Routes
    <2> QED
      BY <2>1
  <1> HIDE DEF n
  <1>2. \A j \in Nat : j < n /\ j < k => v[n - j] = w[k - j]
    <2> DEFINE S == {j \in Nat : j < n /\ j < k /\ v[n - j] # w[k - j]}
    <2>1. SUFFICES ASSUME S # {} PROVE FALSE
      OBVIOUS
    <2>2. PICK m \in S : \A j \in S : m <= j
      BY <2>1, LeastIs
    <2>3. m # 0
      <3>1. n - 0 = n /\ k - 0 = k
        BY <1>1
      <3> QED
        BY <2>2, <3>1 DEF n
    <2>a. m \in Nat /\ m < n /\ m < k /\ v[n - m] # w[k - m]
      OBVIOUS
    <2>4. m - 1 \in Nat /\ m - 1 < n /\ m - 1 < k /\ ~(m <= m - 1)
      BY <1>1, <2>3, <2>a
    <2>5. v[n - (m - 1)] = w[k - (m - 1)]
      BY <2>2, <2>4
    <2>6. n - (m - 1) \in 1 .. n /\ n - (m - 1) # 1 /\ (n - (m - 1)) - 1 = n - m
      BY <1>1, <2>2, <2>4
    <2>7. k - (m - 1) \in 1 .. Len(q) /\ k - (m - 1) # 1 /\ (k - (m - 1)) - 1 = k - m
      BY <1>1, <2>2, <2>4
    <2>8. node[v[n - (m - 1)]].parent = v[n - m] /\ node[w[k - (m - 1)]].parent = w[k - m]
      <3>1. node[v[n - (m - 1)]].parent = v[(n - (m - 1)) - 1]
        BY <2>6, WalkIs DEF n
      <3>2. node[w[k - (m - 1)]].parent = w[(k - (m - 1)) - 1]
        BY <2>7, WalkIs
      <3> QED
        BY <2>6, <2>7, <3>1, <3>2
    <2> QED
      BY <2>2, <2>5, <2>8
  <1>3. n = k
    <2>1. CASE n < k
      <3>1. v[n - (n - 1)] = w[k - (n - 1)] /\ n - (n - 1) = 1 /\ 1 \in 1 .. n
        BY <1>1, <1>2, <2>1
      <3>2. k - (n - 1) \in 1 .. Len(q) /\ k - (n - 1) # 1 /\ (k - (n - 1)) - 1 \in 1 .. Len(q)
        BY <1>1, <2>1
      <3>3. node[v[1]].parent = Root
        BY <3>1, WalkIs DEF n
      <3>4. node[w[k - (n - 1)]].parent \in Ids
        BY <3>2, WalkIs
      <3> QED
        BY <3>1, <3>3, <3>4, IdsAre
    <2>2. CASE k < n
      <3>0. k - 1 \in Nat /\ k - 1 < n /\ k - 1 < k /\ k - (k - 1) = 1 /\ 1 \in 1 .. Len(q)
        BY <1>1, <2>2
      <3>1. v[n - (k - 1)] = w[k - (k - 1)] /\ k - (k - 1) = 1 /\ 1 \in 1 .. Len(q)
        BY <1>2, <3>0
      <3>2. n - (k - 1) \in 1 .. n /\ n - (k - 1) # 1 /\ (n - (k - 1)) - 1 \in 1 .. n
        BY <1>1, <2>2
      <3>3. node[w[1]].parent = Root
        BY <3>1, WalkIs
      <3>4. node[v[n - (k - 1)]].parent \in Ids
        <4>1. /\ node[v[n - (k - 1)]].parent = v[(n - (k - 1)) - 1]
              /\ v[(n - (k - 1)) - 1] \in Ids
          BY <3>2, WalkIs DEF n
        <4> QED
          BY <4>1
      <3> QED
        BY <3>1, <3>3, <3>4, IdsAre
    <2> QED
      BY <1>1, <2>1, <2>2
  <1>4. ASSUME NEW j \in 1 .. k PROVE p[j] = q[j]
    <2>1. k - j \in Nat /\ k - j < n /\ k - j < k /\ n - (k - j) = j /\ k - (k - j) = j
      BY <1>1, <1>3
    <2>2. v[j] = w[j]
      BY <1>2, <2>1
    <2>3. j \in 1 .. Len(p) /\ j \in 1 .. Len(q)
      BY <1>1, <1>3 DEF n
    <2> QED
      BY <2>2, <2>3, WalkIs
  <1> QED
    BY <1>3, <1>4 DEF n

\* What a path comes to is on the line of what another path comes to only if the
\* other path leads through it.
LEMMA WalkThrough ==
  ASSUME Placed, NEW p \in Routes, NEW i \in Resolve(p),
         NEW q \in Seq(Names), NEW d \in Resolve(q), i \in Line(d)
  PROVE  /\ q # <<>> /\ Len(p) \in Nat \ {0} /\ Len(q) \in Nat \ {0} /\ Len(p) <= Len(q)
         /\ \A j \in 1 .. Len(p) : p[j] = q[j]
         /\ \E w \in Walks(q) : d = w[Len(q)] /\ i = w[Len(p)]
  <1>1. p \in Seq(Names) /\ p # <<>> /\ Len(p) \in Nat \ {0}
    BY EmptySeq, LenProperties DEF Routes
  <1>2. i \in Ids /\ i # Root
    BY <1>1, ResolveIs, IdsAre
  <1>3. PICK v \in Walks(p) : i = v[Len(p)]
    BY <1>1, ResolveIs
  <1>4. q # <<>>
    BY <1>2, ResolveIs DEF Line, Above
  <1>5. q \in Routes
    BY <1>4 DEF Routes
  <1>6. PICK w \in Walks(q) : d = w[Len(q)]
    BY <1>4, ResolveIs
  <1>7. Len(q) \in Nat \ {0} /\ Len(q) \in 1 .. Len(q)
    <2>1. Len(q) \in Nat \ {0}
      BY <1>4, EmptySeq, LenProperties
    <2> QED
      BY <2>1
  <1>8. \A e \in Above(d) : e = Root \/ \E j \in 1 .. Len(q) : j < Len(q) /\ e = w[j]
    BY <1>5, <1>6, <1>7, WalkLine
  <1>9. PICK k \in 1 .. Len(q) : i = w[k]
    BY <1>2, <1>6, <1>7, <1>8 DEF Line
  <1>10. v[Len(p)] = w[k]
    BY <1>3, <1>9
  <1>11. Len(p) = k /\ \A j \in 1 .. k : p[j] = q[j]
    BY <1>5, <1>10, WalkUnique
  <1> QED
    BY <1>1, <1>4, <1>6, <1>7, <1>9, <1>11
-----------------------------------------------------------------------------
(* Subtrees.                                                               *)

LEMMA SubtreeIs ==
  ASSUME Placed, NEW i \in Ids, ~Fresh(i)
  PROVE  /\ Subtree(i) \subseteq Ids /\ i \in Subtree(i) /\ ClosedDownward(Subtree(i))
         /\ \A j \in Subtree(i) : ~Fresh(j) /\ (j # i => Present(j) /\ node[j].parent \in Subtree(i))
  <1>1. Subtree(i) \subseteq Ids /\ i \in Subtree(i)
    BY DEF Subtree
  <1>2. ASSUME NEW j \in Subtree(i) PROVE ChildrenOf(j) \subseteq Subtree(i)
    BY <1>2 DEF Subtree, ClosedDownward, ChildrenOf
  <1>3. ASSUME NEW j \in Subtree(i), j # i PROVE Present(j) /\ node[j].parent \in Subtree(i)
    <2> DEFINE S == {k \in Subtree(i) : k = i \/ (Present(k) /\ node[k].parent \in Subtree(i))}
    <2>1. i \in S /\ S \in SUBSET Ids
      BY <1>1
    <2>2. ClosedDownward(S)
      BY <1>2 DEF ClosedDownward, ChildrenOf
    <2>3. j \in S
      BY <2>1, <2>2 DEF Subtree
    <2> QED
      BY <1>3, <2>3
  <1>4. \A j \in Subtree(i) : ~Fresh(j)
    BY <1>1, <1>3, PresentIsKnown DEF Known
  <1> QED
    BY <1>1, <1>2, <1>3, <1>4 DEF ClosedDownward

\* Nothing on a live line is in a subtree that is being purged.
LEMMA TreeBlocks ==
  ASSUME Placed, NEW o, Fits(o), o.pc = "destroy", Purges(o), Razes(o),
         NEW d, Known(d), LiveLine(d)
  PROVE  Line(d) \cap DOMAIN o.tree = {}
  <1>1. SUFFICES ASSUME NEW i \in Line(d), i \in DOMAIN o.tree PROVE FALSE
    OBVIOUS
  <1>2. LiveLine(i) /\ Line(i) \subseteq Line(d) /\ Known(i)
    BY LiveLineUp
  <1>3. /\ DOMAIN o.tree \subseteq Ids /\ o.victim \in Ids /\ Known(o.victim)
        /\ i # Root /\ o.held.state = "trashed"
    BY <1>1, IdsAre DEF Fits, InPurge, Drawn, Purges, Known
  <1>4. ~Live(o.victim)
    BY <1>3, IdsAre DEF Razes, Live
  <1> DEFINE T == Above(i) \cap DOMAIN o.tree
  <1>5. /\ Above(i) \subseteq Dirs /\ ClosedUpward(Above(i)) /\ node[i].parent \in Above(i)
    BY <1>2, <1>3, AboveIs
  <1>6. \A j \in {i} \cup T : Live(j) /\ j # o.victim /\ node[j].parent \in DOMAIN o.tree
    BY <1>1, <1>2, <1>4 DEF Razes, LiveLine, Line
  <1>7. ClosedUpward(T) /\ node[i].parent \in T
    BY <1>5, <1>6 DEF ClosedUpward
  <1>8. Above(i) \subseteq T
    BY <1>5, <1>7, AboveIsLeast
  <1> QED
    BY <1>2, <1>3, <1>8, IdsAre DEF LiveLine, Line

-----------------------------------------------------------------------------
(* Handlers.                                                               *)

LEMMA IdleIs ==
  /\ Record(Idle) /\ Idle.raced = FALSE /\ Idle.chain = {} /\ Idle.watch = {}
  /\ Idle.pc = "idle" /\ Idle.kind = "none" /\ Idle.tag = <<>> /\ Idle.rest = {}
  /\ DOMAIN Idle.tag = {} /\ Idle.locks = {} /\ Idle.queue = {}
  <1>1. Idle.tag = <<>> /\ Record(Idle)
    BY Zenon DEF Idle, Record
  <1>2. DOMAIN <<>> = {}
    OBVIOUS
  <1>3. /\ Idle.raced = FALSE /\ Idle.chain = {} /\ Idle.watch = {}
        /\ Idle.pc = "idle" /\ Idle.kind = "none" /\ Idle.rest = {}
        /\ Idle.locks = {} /\ Idle.queue = {}
    BY DEF Idle
  <1> QED
    BY <1>1, <1>2, <1>3

LEMMA IdleFits == Fits(Idle) /\ Sound(Idle) /\ Signs(Idle)
  BY IdleIs DEF Fits, Sound, Signs, Writing, InPurge, Bound, Seated, Restores, Renames, Moves,
     Purges, Razes, Lists

\* Being overtaken changes nothing but the flag.
LEMMA FlagIs ==
  ASSUME NEW o, Record(o), NEW b, NEW p, p = [o EXCEPT !.raced = b]
  PROVE  /\ Record(p) /\ p.raced = b /\ (o.raced = b => p = o)
         /\ p.pc = o.pc /\ p.kind = o.kind /\ p.id = o.id /\ p.seen = o.seen
         /\ p.dst = o.dst /\ p.name = o.name /\ p.path = o.path /\ p.over = o.over
         /\ p.locks = o.locks /\ p.victim = o.victim /\ p.held = o.held /\ p.tree = o.tree
         /\ p.rest = o.rest /\ p.tag = o.tag /\ p.queue = o.queue /\ p.chain = o.chain
         /\ p.watch = o.watch
  BY DEF Record, Idle

Flagged(p, o) == p = [o EXCEPT !.raced = TRUE] /\ o # Idle

LEMMA FlaggedIs ==
  ASSUME NEW o, Fits(o), NEW p, Flagged(p, o)
  PROVE  /\ Fits(p) /\ Sound(p) /\ (Signs(o) => Signs(p)) /\ p.raced
         /\ p.pc = o.pc /\ p.kind = o.kind /\ p.id = o.id /\ p.locks = o.locks
         /\ p.held = o.held /\ p.rest = o.rest
  <1>1. /\ Record(p) /\ p.raced = TRUE
        /\ p.pc = o.pc /\ p.kind = o.kind /\ p.id = o.id /\ p.seen = o.seen
        /\ p.dst = o.dst /\ p.name = o.name /\ p.path = o.path /\ p.over = o.over
        /\ p.locks = o.locks /\ p.victim = o.victim /\ p.held = o.held /\ p.tree = o.tree
        /\ p.rest = o.rest /\ p.tag = o.tag /\ p.queue = o.queue
    <2>1. Record(o) /\ p = [o EXCEPT !.raced = TRUE]
      BY DEF Fits, Flagged
    <2> QED
      BY <2>1, FlagIs
  <1>2. Fits(p)
    BY <1>1 DEF Fits, Flagged, Writing, InPurge
  <1>3. Sound(p)
    BY <1>1 DEF Sound
  <1>4. Signs(o) => Signs(p)
    BY <1>1 DEF Signs, Ahead, Behind, Lost, Gained
  <1> QED
    BY <1>1, <1>2, <1>3, <1>4

LEMMA OvertakingIs ==
  ASSUME NEW t \in Tasks, NEW o, NEW D, NEW M, Overtaking(t, o, D, M),
         DOMAIN op = Tasks, \A u \in Tasks : Fits(op[u])
  PROVE  /\ DOMAIN op' = Tasks /\ op'[t] = o
         /\ \A u \in Tasks \ {t} :
              \/ op'[u] = op[u] /\ (~op[u].raced => op[u].chain \cap D = {} /\ op[u].watch \cap M = {})
              \/ Flagged(op'[u], op[u])
  <1>1. DOMAIN op' = Tasks /\ op'[t] = o
    BY DEF Overtaking
  <1>2. ASSUME NEW u \in Tasks \ {t}
        PROVE  \/ op'[u] = op[u]
                  /\ (~op[u].raced => op[u].chain \cap D = {} /\ op[u].watch \cap M = {})
               \/ Flagged(op'[u], op[u])
    <2>1. PICK q : q = op[u]
      OBVIOUS
    <2>2. PICK b : b = (q.raced \/ q.chain \cap D # {} \/ q.watch \cap M # {})
      OBVIOUS
    <2>3. op'[u] = [q EXCEPT !.raced = b]
      BY <2>1, <2>2 DEF Overtaking
    <2>4. Record(q) /\ q.raced \in BOOLEAN
      BY <2>1 DEF Fits
    <2>5. CASE b
      <3>1. q # Idle \/ op'[u] = q
        BY <2>2, <2>5, IdleIs
      <3>2. b = TRUE
        BY <2>2, <2>5
      <3>3. q # Idle
        BY <2>2, <2>5, IdleIs
      <3> QED
        BY <2>1, <2>3, <3>2, <3>3 DEF Flagged
    <2>6. CASE ~b
      <3>1. b = FALSE /\ q.raced = FALSE /\ q.chain \cap D = {} /\ q.watch \cap M = {}
        BY <2>2, <2>4, <2>6
      <3>2. op'[u] = q
        <4>1. PICK p : p = op'[u]
          OBVIOUS
        <4>2. p = [q EXCEPT !.raced = b] /\ q.raced = b
          BY <2>3, <3>1, <4>1
        <4>3. p = q
          BY <2>4, <4>2, FlagIs
        <4> QED
          BY <4>1, <4>3
      <3> QED
        BY <2>1, <3>1, <3>2
    <2> QED
      BY <2>5, <2>6
  <1> QED
    BY <1>1, <1>2
-----------------------------------------------------------------------------
(* What a step of one handler leaves of what another one knows.            *)

LEMMA NodeSame ==
  ASSUME UNCHANGED node
  PROVE  /\ Placed' <=> Placed
         /\ \A d : /\ Present(d)' <=> Present(d)
                   /\ Fresh(d)' <=> Fresh(d)
                   /\ Trashed(d)' <=> Trashed(d)
                   /\ Above(d)' = Above(d) /\ Line(d)' = Line(d)
                   /\ LiveLine(d)' <=> LiveLine(d)
                   /\ ChildrenOf(d)' = ChildrenOf(d) /\ EntriesOf(d)' = EntriesOf(d)
         /\ \A path : Resolve(path)' = Resolve(path)
  <1>1. /\ Placed' <=> Placed
        /\ \A d : Fresh(d)' <=> Fresh(d)
    BY DEF Placed, Fresh
  <1>2. \A d : /\ Present(d)' <=> Present(d)
               /\ Trashed(d)' <=> Trashed(d)
               /\ Live(d)' <=> Live(d)
    BY DEF Present, Trashed, Live
  <1>3. \A d : ChildrenOf(d)' = ChildrenOf(d)
    BY <1>2 DEF ChildrenOf
  <1>4. \A d : EntriesOf(d)' = EntriesOf(d)
    BY <1>3 DEF EntriesOf
  <1>5. \A d : Above(d)' = Above(d)
    BY <1>2 DEF Above, ClosedUpward
  <1>6. \A d : Line(d)' = Line(d) /\ (LiveLine(d)' <=> LiveLine(d))
    BY <1>2, <1>5 DEF Line, LiveLine
  <1>7. \A path : Resolve(path)' = Resolve(path)
    <2>1. \A d, n : LiveAt(d, n)' = LiveAt(d, n)
      BY <1>2, <1>3 DEF LiveAt, LiveChildren
    <2>2. \A path : Walks(path)' = Walks(path)
      BY <2>1 DEF Walks
    <2> QED
      BY <2>2 DEF Resolve
  <1> QED
    BY <1>1, <1>2, <1>3, <1>4, <1>5, <1>6, <1>7

\* Drawn documents stay drawn.
Keeps == \A j \in Ids : ~Fresh(j) => ~Fresh(j)'

LEMMA FitsKept ==
  ASSUME Keeps, NEW o, Fits(o), o.kind = "make" /\ o.pc # "commit" => Fresh(o.id)'
  PROVE  Fits(o)'
  <1>1. \A i, doc : Drawn(i, doc) => Drawn(i, doc)'
    BY DEF Keeps, Drawn, Seat, Fresh, Dirs, Ids
  <1>2. \A d : Seat(d) => Seat(d)'
    BY DEF Keeps, Seat, Fresh, Dirs, Ids
  <1> QED
    BY <1>1, <1>2 DEF Keeps, Fits

LEMMA FitsSame ==
  ASSUME UNCHANGED node, NEW o, Fits(o)
  PROVE  Fits(o)'
  <1>1. \A d : Fresh(d)' <=> Fresh(d)
    BY DEF Fresh
  <1> QED
    BY <1>1, FitsKept DEF Keeps, Fits

LEMMA SoundSame ==
  ASSUME UNCHANGED node, overtaken \subseteq overtaken', NEW o, Sound(o)
  PROVE  Sound(o)'
  <1> SUFFICES ASSUME ~o.raced PROVE Sound(o)'
    BY DEF Sound
  <1>1. Seated(o)' /\ Restores(o)' /\ Moves(o)' /\ Purges(o)'
    BY NodeSame DEF Sound, Seated, Restores, Moves, Purges
  <1>2. Renames(o)'
    BY NodeSame DEF Sound, Renames
  <1>3. Razes(o)'
    BY NodeSame DEF Sound, Razes
  <1>4. Lists(o)'
    BY NodeSame DEF Sound, Lists
  <1> QED
    BY <1>1, <1>2, <1>3, <1>4 DEF Sound

\* Whoever comes to a directory that is being purged was overtaken.
NewChildren ==
  \A d \in Dirs : \A j \in ChildrenOf(d)' : j \in ChildrenOf(d) \/ j \in overtaken' \/ LiveLine(d)

LEMMA RazesKept ==
  ASSUME Placed, Placed', NEW w \in Ids, Others(w), NewChildren, overtaken \subseteq overtaken',
         NEW o, Fits(o), o.pc = "destroy", Purges(o), Razes(o), w \notin o.chain
  PROVE  Razes(o)'
  <1>1. /\ DOMAIN o.tree \subseteq Ids \ {w} /\ o.victim \in DOMAIN o.tree
        /\ o.rest \subseteq DOMAIN o.tree
    BY DEF Razes, Fits
  <1>2. \A i \in DOMAIN o.tree : node'[i] = node[i] /\ (Present(i)' <=> Present(i))
    BY <1>1, OthersAre DEF Others
  <1>3. ASSUME NEW i \in o.rest, NEW j \in ChildrenOf(i)'
        PROVE  j \in o.rest \/ {i, j} \cap overtaken' # {}
    <2>1. i \in Ids /\ Known(i) /\ j \in Ids
      BY <1>1, IdsAre DEF Fits, Known, ChildrenOf
    <2>2. CASE j \in ChildrenOf(i)
      BY <2>2 DEF Razes
    <2>3. CASE j \notin ChildrenOf(i)
      <3>1. i \in Dirs
        <4>1. j # w => j \in ChildrenOf(i)
          BY <2>1, OthersAre, IdsAre DEF ChildrenOf
        <4>2. j = w /\ node'[j].parent = i /\ j # Root
          BY <2>1, <2>3, <4>1, <1>3, IdsAre DEF ChildrenOf
        <4>3. node'[j].state # "fresh"
          BY <1>3, <4>2 DEF ChildrenOf, Present
        <4>4. node'[j] # Doc("fresh", NoId, NoName)
          BY <4>3 DEF Doc
        <4> QED
          BY <2>1, <4>2, <4>4 DEF Placed
      <3>2. ~LiveLine(i)
        BY <1>1, <2>1, TreeBlocks DEF Line
      <3> QED
        BY <1>3, <2>3, <3>1, <3>2 DEF NewChildren
    <2> QED
      BY <2>2, <2>3
  <1> QED
    BY <1>1, <1>2, <1>3 DEF Razes

LEMMA SoundKept ==
  ASSUME Placed, Placed', NEW w \in Ids, Others(w), Keeps, NewChildren,
         overtaken \subseteq overtaken',
         NEW M, \A d \in Dirs \ M : EntriesOf(d)' = EntriesOf(d),
         NEW o, Fits(o), Sound(o), ~o.raced => w \notin o.chain /\ o.watch \cap M = {}
  PROVE  Sound(o)'
  <1> SUFFICES ASSUME ~o.raced PROVE Sound(o)'
    BY DEF Sound
  <1>0. /\ Seated(o) /\ Restores(o) /\ Renames(o) /\ Moves(o) /\ Purges(o) /\ Razes(o) /\ Lists(o)
        /\ w \notin o.chain /\ o.watch \cap M = {}
    BY DEF Sound
  <1>1. Bound(o) => Known(o.dst)
    BY IdsAre DEF Bound, Fits, Seat, Known
  <1>2. Bound(o) => /\ Line(o.dst)' = Line(o.dst) /\ LiveLine(o.dst)' /\ Known(o.dst)'
                    /\ Line(o.dst) \subseteq o.chain /\ w \notin Line(o.dst)
    BY <1>0, <1>1, LineSame DEF Seated
  <1>3. Seated(o)'
    BY <1>2 DEF Seated
  <1>4. Restores(o)'
    BY <1>0 DEF Restores, Fits, Drawn, Others
  <1>5. ASSUME o.kind = "rename", o.pc # "commit" PROVE Renames(o)'
    <2>1. Known(o.id) /\ o.id \in Ids /\ Line(o.id) \subseteq o.chain /\ w \notin Line(o.id)
          /\ o.id # w
      BY <1>0, <1>5 DEF Fits, Drawn, Known, Renames, Line
    <2>2. Line(o.id)' = Line(o.id) /\ node'[o.id] = node[o.id]
      BY <2>1, LineSame DEF Others
    <2>3. PICK old \in Seq(Names) : /\ old # <<>> /\ o.id \in Resolve(old) /\ old # o.path
                                    /\ ~BelowItself(o.id, old, o.path)
      BY <1>0, <1>5 DEF Renames
    <2>4. o.id \in Resolve(old)'
      BY <2>1, <2>3, ResolveKept
    <2>5. node'[o.id] = o.seen /\ Line(o.id)' \subseteq o.chain
      BY <1>0, <1>5, <2>1, <2>2 DEF Renames
    <2>6. ~BelowItself(o.id, old, o.path)'
      BY <2>3 DEF BelowItself
    <2> QED
      BY <2>3, <2>4, <2>5, <2>6 DEF Renames
  <1>6. Renames(o)'
    <2>1. CASE ~(o.kind = "rename" /\ o.pc # "commit")
      BY <2>1 DEF Renames
    <2> QED
      BY <1>5, <2>1
  <1>7. Moves(o)'
    <2> SUFFICES ASSUME o.kind = "rename", Bound(o) PROVE Moves(o)'
      BY DEF Moves
    <2>1. Front(o.path) \in Seq(Names) /\ o.dst \in Resolve(Front(o.path))
      BY <1>0, FrontIs DEF Fits, Routes, Moves
    <2>2. o.dst \in Resolve(Front(o.path))'
      BY <1>2, <2>1, ResolveKept
    <2> QED
      BY <1>0, <1>2, <2>2 DEF Moves
  <1>8. Purges(o)'
    BY <1>0 DEF Purges, Fits, Drawn, Others
  <1>9. Razes(o)'
    <2>1. CASE o.pc = "destroy"
      BY <1>0, <2>1, RazesKept
    <2> QED
      BY <2>1 DEF Razes
  <1>10. Lists(o)'
    <2> SUFFICES ASSUME o.pc = "read", NEW r \in o.queue
                 PROVE  r.id \in o.watch /\ (EntriesOf(r.id)' \in r.tags \/ r.id \in overtaken')
      BY DEF Lists
    <2>1. r.id \in Dirs \ M
      BY <1>0 DEF Fits, Lists
    <2> QED
      BY <1>0, <2>1 DEF Lists
  <1> QED
    BY <1>3, <1>4, <1>6, <1>7, <1>8, <1>9, <1>10 DEF Sound

\* The tag of a directory a handler holds is its own.
Untouched(d) ==
  /\ Counts(d) /\ EntriesOf(d)' = EntriesOf(d)
  /\ entries_mac'[d] = entries_mac[d] /\ entries_mac_pending'[d] = entries_mac_pending[d]

LEMMA TagsAreHeld ==
  ASSUME NEW t \in Tasks, Fits(op[t]), Locked(t), NEW d \in DOMAIN op[t].tag
  PROVE  d \in Dirs /\ ~Fresh(d) /\ dir_locks[d] = t
  <1>1. DOMAIN Idle.tag = {}
    BY IdleIs
  <1>2. CASE op[t].pc \in {"destroy", "unname"}
    BY <1>2 DEF Fits, InPurge, Drawn, Seat, Locked
  <1>3. CASE op[t].pc \in {"mutate", "commit"}
    <2>1. Writing(op[t]) /\ op[t].pc \notin {"parent", "lock"}
      BY <1>1, <1>3 DEF Fits, Writing, InPurge, Idle
    <2>2. d \in op[t].locks
      BY <1>3 DEF Fits
    <2>3. Seat(d)
      BY <2>1, <2>2 DEF Fits, Writing, Drawn
    <2> QED
      BY <2>1, <2>2, <2>3 DEF Locked, Holding, Seat
  <1> QED
    BY <1>1, <1>2, <1>3 DEF Fits
-----------------------------------------------------------------------------
(* What a step has to establish.                                           *)

Mine(t) == Fits(op[t]) /\ Locked(t) /\ Sound(op[t]) /\ Signs(op[t])

Handlers == /\ DOMAIN op = Tasks /\ DOMAIN dir_locks = Dirs
            /\ Placed /\ MakesApart /\ \A t \in Tasks : Mine(t)
Promises == NothingIsLost /\ AlarmsHaveARace /\ DestroyedWasDiscarded

LEMMA IInvIs == IInv <=> Handlers /\ Tagged /\ Unused /\ Emptied /\ Promises
  BY DEF IInv, Handlers, Mine, Promises

\* Another handler keeps what it holds, and its locks.
StillHolds(t) == \A u \in Tasks \ {t}, d \in Dirs : dir_locks[d] = u => dir_locks'[d] = u

SameTask(p, o) ==
  p.pc = o.pc /\ p.kind = o.kind /\ p.id = o.id /\ p.rest = o.rest

\* A handler that makes a node under an id makes it alone.
FirstToMake(t) ==
  op'[t].kind = "make" =>
    \/ /\ op[t].kind = "make" /\ op'[t].id = op[t].id
       /\ op[t].pc = "commit" => op'[t].pc = "commit"
    \/ \A u \in Tasks \ {t} : op[u].id # op'[t].id

LEMMA MakesApartKept ==
  ASSUME NEW t \in Tasks, MakesApart, FirstToMake(t),
         \A u \in Tasks \ {t} : SameTask(op'[u], op[u])
  PROVE  MakesApart'
  BY DEF MakesApart, FirstToMake, SameTask

LEMMA LockedKept ==
  ASSUME NEW t \in Tasks, NEW u \in Tasks \ {t}, StillHolds(t), Locked(u), Fits(op[u]),
         op'[u] = op[u] \/ Flagged(op'[u], op[u])
  PROVE  Locked(u)'
  <1>1. /\ op'[u].pc = op[u].pc /\ op'[u].kind = op[u].kind
        /\ op'[u].locks = op[u].locks /\ op'[u].held = op[u].held
    BY FlaggedIs
  <1>2. Holding(op[u]) => op[u].locks \subseteq Dirs
    <2> SUFFICES ASSUME Holding(op[u]), NEW d \in op[u].locks PROVE d \in Dirs
      OBVIOUS
    <2> QED
      BY DEF Holding, Writing, Fits, Seat, Drawn
  <1>3. op[u].pc \in {"evict", "destroy", "unname"} => op[u].held.parent \in Dirs
    BY DEF Fits, InPurge, Drawn, Seat
  <1>4. Holding(op[u])' <=> Holding(op[u])
    BY <1>1 DEF Holding, Writing
  <1> QED
    BY <1>1, <1>2, <1>3, <1>4 DEF Locked, StillHolds

LEMMA SignsKept ==
  ASSUME NEW u \in Tasks, NEW o, o = op[u], Fits(o), Locked(u), Signs(o),
         \A d \in Dirs : dir_locks[d] = u /\ ~Fresh(d) /\ Counts(d)' => Untouched(d)
  PROVE  Signs(o)'
  <1> SUFFICES ASSUME NEW d \in DOMAIN o.tag, Counts(d)'
               PROVE  /\ Ahead(o) =>
                           /\ entries_mac'[d] = EntriesOf(d)' /\ entries_mac_pending'[d] = {o.tag[d]}
                           /\ o.tag[d] = (EntriesOf(d)' \ Lost(o, d)) \cup Gained(o, d)
                      /\ Behind(o) => EntriesOf(d)' = o.tag[d] /\ entries_mac_pending'[d] = {o.tag[d]}
    BY DEF Signs, Ahead, Behind, Lost, Gained
  <1>1. Untouched(d)
    BY TagsAreHeld
  <1> QED
    BY <1>1 DEF Untouched, Signs

LEMMA TagsSame ==
  ASSUME UNCHANGED <<node, entries_mac, entries_mac_pending>>, overtaken \subseteq overtaken'
  PROVE  /\ Tagged => Tagged'
         /\ Unused => Unused'
         /\ \A o : Signs(o) => Signs(o)'
  <1>1. \A d : Counts(d)' => Counts(d) /\ EntriesOf(d)' = EntriesOf(d)
    BY NodeSame DEF Counts
  <1>2. Tagged => Tagged'
    BY <1>1 DEF Tagged, TagsOf
  <1>3. Unused => Unused'
    BY DEF Unused, Fresh
  <1>4. ASSUME NEW o, Signs(o) PROVE Signs(o)'
    <2> SUFFICES ASSUME NEW d \in DOMAIN o.tag, Counts(d)'
                 PROVE  /\ Ahead(o) =>
                             /\ entries_mac'[d] = EntriesOf(d)' /\ entries_mac_pending'[d] = {o.tag[d]}
                             /\ o.tag[d] = (EntriesOf(d)' \ Lost(o, d)) \cup Gained(o, d)
                        /\ Behind(o) => EntriesOf(d)' = o.tag[d] /\ entries_mac_pending'[d] = {o.tag[d]}
      BY DEF Signs, Ahead, Behind, Lost, Gained
    <2> QED
      BY <1>1, <1>4 DEF Signs
  <1> QED
    BY <1>2, <1>3, <1>4

\* A step that writes no document and leaves no purge half done.
Quiet(t) ==
  /\ UNCHANGED <<node, buried, evicted>> /\ overtaken \subseteq overtaken'
  /\ DOMAIN op' = Tasks /\ DOMAIN dir_locks' = Dirs
  /\ \A u \in Tasks \ {t} : op'[u] = op[u]
  /\ StillHolds(t) /\ FirstToMake(t) /\ op[t].pc # "destroy"
  /\ \A d \in Dirs : dir_locks[d] # t =>
       entries_mac'[d] = entries_mac[d] /\ entries_mac_pending'[d] = entries_mac_pending[d]

LEMMA QuietStep ==
  ASSUME IInv, NEW t \in Tasks, Quiet(t),
         Mine(t)', Tagged', Unused', AlarmsHaveARace'
  PROVE  IInv'
  <1>1. Handlers /\ Emptied /\ NothingIsLost /\ DestroyedWasDiscarded
    BY IInvIs DEF Promises
  <1>2. Placed'
    BY <1>1, NodeSame DEF Quiet, Handlers
  <1>3. MakesApart'
    BY <1>1, MakesApartKept DEF Quiet, Handlers, SameTask
  <1>4. ASSUME NEW u \in Tasks \ {t} PROVE Mine(u)'
    <2>1. op'[u] = op[u] /\ Mine(u)
      BY <1>1 DEF Quiet, Handlers
    <2>2. PICK o : o = op[u]
      OBVIOUS
    <2>3. Fits(o)' /\ Sound(o)'
      BY <2>1, <2>2, FitsSame, SoundSame DEF Quiet, Mine
    <2>4. Locked(u)'
      BY <2>1, LockedKept DEF Quiet, Mine
    <2>5. Signs(o)'
      <3>1. \A d \in Dirs : dir_locks[d] = u /\ ~Fresh(d) /\ Counts(d)' => Untouched(d)
        BY NodeSame DEF Quiet, Untouched, Counts
      <3> QED
        BY <2>1, <2>2, <3>1, SignsKept DEF Mine
    <2> QED
      BY <2>1, <2>2, <2>3, <2>4, <2>5 DEF Mine
  <1>5. Handlers'
    BY <1>2, <1>3, <1>4 DEF Handlers, Quiet
  <1>6. Emptied'
    BY <1>1, NodeSame DEF Emptied, Quiet
  <1>7. DestroyedWasDiscarded'
    BY <1>1 DEF DestroyedWasDiscarded, Quiet
  <1>8. HalfPurged \subseteq HalfPurged'
    BY DEF HalfPurged, Quiet
  <1>9. NothingIsLost'
    <2>1. \A i \in Ids : /\ Present(i)' <=> Present(i)
                         /\ ReachesRoot(i)' <=> ReachesRoot(i)
                         /\ Above(i)' = Above(i)
      BY NodeSame DEF Quiet, ReachesRoot
    <2> QED
      BY <1>1, <1>8, <2>1 DEF NothingIsLost, Quiet
  <1> QED
    BY <1>5, <1>6, <1>7, <1>9 DEF IInv, Handlers, Mine
-----------------------------------------------------------------------------
(* Requests.                                                               *)

LEMMA HandlersAre ==
  ASSUME IInv, NEW t \in Tasks
  PROVE  /\ DOMAIN op = Tasks /\ DOMAIN dir_locks = Dirs /\ Placed
         /\ Fits(op[t]) /\ Locked(t) /\ Sound(op[t]) /\ Signs(op[t])
         /\ Record(op[t]) /\ (op[t].pc = "idle" => op[t] = Idle)
  <1>1. Fits(op[t])
    BY DEF IInv
  <1>2. op[t].pc = "idle" => op[t] = Idle
    BY <1>1 DEF Fits, InPurge
  <1> QED
    BY <1>1, <1>2 DEF IInv, Fits

\* A handler begins with what it has read, and no lock.
LEMMA BeginStep ==
  ASSUME IInv, NEW t \in Tasks, NEW o, Begin(t, o), op[t].pc = "idle",
         Fits(o), Sound(o), o.pc \notin {"mutate", "commit", "evict", "destroy", "unname"},
         ~Holding(o), o.kind = "make" => \A u \in Tasks : op[u].id # o.id
  PROVE  IInv'
  <1>1. /\ DOMAIN op' = Tasks /\ op'[t] = o /\ (\A u \in Tasks \ {t} : op'[u] = op[u])
        /\ UNCHANGED <<node, entries_mac, entries_mac_pending, dir_locks, overtaken, buried,
                       evicted, alarms>>
    BY HandlersAre DEF Begin, docs, observers
  <1>2. Quiet(t)
    BY <1>1, HandlersAre DEF Quiet, StillHolds, FirstToMake
  <1>3. Fits(o)' /\ Sound(o)'
    BY <1>1, FitsSame, SoundSame
  <1>4. Signs(o)'
    BY DEF Fits, Signs
  <1>5. Locked(t)'
    BY <1>1 DEF Locked, Holding, Writing
  <1>6. Mine(t)'
    BY <1>1, <1>3, <1>4, <1>5 DEF Mine
  <1>7. Tagged' /\ Unused'
    BY <1>1, TagsSame DEF IInv
  <1>8. AlarmsHaveARace'
    BY <1>1 DEF IInv, AlarmsHaveARace
  <1> QED
    BY <1>2, <1>6, <1>7, <1>8, QuietStep

LEMMA PathsAre ==
  ASSUME NEW path \in Paths
  PROVE  /\ path \in Seq(Names) /\ path # <<>> /\ path \in Routes
         /\ Len(path) \in Nat \ {0} /\ Last(path) \in Names
         /\ Front(path) \in Seq(Names)
  <1>1. PICK k \in 1 .. MaxDepth : path \in [1 .. k -> Names]
    BY DEF Paths
  <1>2. k \in Nat \ {0}
    BY BoundsAssumption
  <1>3. path \in Seq(Names) /\ Len(path) = k
    BY <1>1, <1>2
  <1>4. path # <<>>
    BY <1>2, <1>3, EmptySeq
  <1>5. Last(path) \in Names
    BY <1>1, <1>2, <1>3 DEF Last
  <1> QED
    BY <1>2, <1>3, <1>4, <1>5, FrontIs DEF Routes

LEMMA LineOf ==
  ASSUME NEW d
  PROVE  {d} \cup Above(d) = Line(d)
  BY DEF Line

LEMMA MakeStep ==
  ASSUME IInv, NEW t \in Tasks, op[t].pc = "idle", NEW i \in Ids, NEW path \in Paths,
         Make(t, i, path)
  PROVE  IInv'
  <1>1. PICK d \in Resolve(Front(path)) \cap Dirs :
          /\ node[i].state = "fresh" /\ \A u \in Tasks : op[u].id # i
          /\ Begin(t, [Idle EXCEPT !.pc = "lock", !.kind = "make", !.id = i, !.dst = d,
                                   !.name = Last(path), !.locks = {d},
                                   !.chain = {i, d} \cup Above(d)])
    BY DEF Make
  <1>2. PICK o : o = [Idle EXCEPT !.pc = "lock", !.kind = "make", !.id = i, !.dst = d,
                                   !.name = Last(path), !.locks = {d},
                                   !.chain = {i, d} \cup Above(d)]
    OBVIOUS
  <1>3. /\ Record(o) /\ o.pc = "lock" /\ o.kind = "make" /\ o.id = i /\ o.dst = d
        /\ o.name = Last(path) /\ o.locks = {d} /\ o.chain = {i, d} \cup Above(d)
        /\ o.raced = FALSE /\ o.seen = NoDoc /\ o.tag = <<>>
    BY <1>2 DEF Record, Idle
  <1>4. Placed /\ LiveLine(d) /\ Known(d)
    BY HandlersAre, PathsAre, ResolveIs
  <1>5. DOMAIN o.tag = {}
    BY <1>3, IdleIs
  <1>6. Fits(o)
    BY <1>1, <1>3, <1>4, <1>5, PathsAre, IdsAre DEF Fits, Writing, InPurge, Seat, Known, Fresh
  <1>7. Sound(o)
    BY <1>3, <1>4, LineOf DEF Sound, Seated, Restores, Renames, Moves, Purges, Razes, Lists, Bound,
       InPurge, Line
  <1> QED
    BY <1>1, <1>2, <1>3, <1>6, <1>7, BeginStep DEF Holding

LEMMA DiscardStep ==
  ASSUME IInv, NEW t \in Tasks, op[t].pc = "idle", NEW i \in Ids, ~Fresh(i),
         NEW pc \in {"empty", "mark"}, Discard(t, i, pc)
  PROVE  IInv'
  <1>1. PICK o : o = [Idle EXCEPT !.pc = pc, !.kind = "trash", !.id = i, !.seen = node[i],
                        !.chain = {i}, !.watch = IF pc = "empty" THEN {i} ELSE {}]
    OBVIOUS
  <1>2. Begin(t, o)
    BY <1>1 DEF Discard
  <1>3. /\ Record(o) /\ o.pc = pc /\ o.kind = "trash" /\ o.id = i /\ o.raced = FALSE /\ o.tag = <<>>
    BY <1>1 DEF Record, Idle
  <1>4. DOMAIN o.tag = {}
    BY <1>3, IdleIs
  <1>5. Fits(o)
    BY <1>3, <1>4 DEF Fits, Writing, InPurge
  <1>6. Sound(o)
    BY <1>3 DEF Sound, Seated, Restores, Renames, Moves, Purges, Razes, Lists, Bound, Writing,
       InPurge
  <1> QED
    BY <1>2, <1>3, <1>5, <1>6, BeginStep DEF Holding, Writing

LEMMA TrashStep ==
  ASSUME IInv, NEW t \in Tasks, op[t].pc = "idle", NEW path \in Paths,
         Trash(t, path) \/ RemoveDir(t, path)
  PROVE  IInv'
  <1>1. PICK i \in Resolve(path) : Discard(t, i, "mark") \/ Discard(t, i, "empty")
    BY DEF Trash, RemoveDir
  <1>2. i \in Ids /\ Known(i)
    BY HandlersAre, PathsAre, ResolveIs
  <1> QED
    BY <1>1, <1>2, DiscardStep DEF Known

LEMMA RestoreStep ==
  ASSUME IInv, NEW t \in Tasks, op[t].pc = "idle", NEW i \in Ids, Restore(t, i)
  PROVE  IInv'
  <1>1. PICK o : o = [Idle EXCEPT !.pc = "lock", !.kind = "restore", !.id = i, !.seen = node[i],
                           !.dst = node[i].parent, !.name = node[i].name,
                           !.locks = {node[i].parent}, !.chain = {i} \cup Above(i)]
    OBVIOUS
  <1>2. Begin(t, o) /\ InTrash(i)
    BY <1>1 DEF Restore
  <1>3. /\ Record(o) /\ o.pc = "lock" /\ o.kind = "restore" /\ o.id = i /\ o.dst = node[i].parent
        /\ o.name = node[i].name /\ o.locks = {node[i].parent} /\ o.chain = {i} \cup Above(i)
        /\ o.raced = FALSE /\ o.seen = node[i] /\ o.tag = <<>>
    BY <1>1 DEF Record, Idle
  <1>4. Placed /\ i # Root /\ node[i].state = "trashed" /\ Known(i)
    BY <1>2, HandlersAre, IdsAre DEF InTrash, Trashed, Known, Fresh
  <1>5. /\ node[i].parent \in Dirs /\ node[i].name \in Names /\ Known(node[i].parent)
        /\ ~Fresh(node[i].parent)
    BY <1>4, ParentIs DEF Placed, Doc, Known
  <1>6. DOMAIN o.tag = {}
    BY <1>3, IdleIs
  <1>7. Fits(o)
    BY <1>3, <1>4, <1>5, <1>6 DEF Fits, Writing, InPurge, Seat, Drawn, Known
  <1>8. LiveLine(o.dst) /\ Line(o.dst) = Above(i)
    BY <1>2, <1>3, <1>4, ClearUp DEF InTrash
  <1>9. Sound(o)
    BY <1>3, <1>4, <1>8, IdsAre DEF Sound, Seated, Restores, Renames, Moves, Purges, Razes, Lists,
       Bound, Writing, InPurge
  <1> QED
    BY <1>2, <1>3, <1>7, <1>9, BeginStep DEF Holding, Writing

LEMMA PurgingStep ==
  ASSUME IInv, NEW t \in Tasks, op[t].pc = "idle", NEW i \in Ids, Trashed(i), Purging(t, i)
  PROVE  IInv'
  <1>1. PICK o : o = [Idle EXCEPT !.pc = "evictLock", !.kind = "purge", !.id = i, !.seen = node[i],
                        !.victim = i, !.held = node[i], !.chain = {i} \cup Above(i)]
    OBVIOUS
  <1>2. Begin(t, o)
    BY <1>1 DEF Purging
  <1>3. /\ Record(o) /\ o.pc = "evictLock" /\ o.kind = "purge" /\ o.victim = i /\ o.held = node[i]
        /\ o.chain = {i} \cup Above(i) /\ o.raced = FALSE /\ o.tag = <<>>
    BY <1>1 DEF Record, Idle
  <1>4. Placed /\ i # Root /\ node[i].state = "trashed" /\ Known(i)
    BY HandlersAre, IdsAre DEF Trashed, Known, Fresh
  <1>5. node[i].parent \in Dirs /\ node[i].name \in Names /\ ~Fresh(node[i].parent)
    BY <1>4, ParentIs DEF Placed, Doc, Known
  <1>6. DOMAIN o.tag = {}
    BY <1>3, IdleIs
  <1>7. Fits(o)
    BY <1>3, <1>4, <1>5, <1>6 DEF Fits, Writing, InPurge, Seat, Drawn, Known
  <1>8. Sound(o)
    BY <1>3, <1>4 DEF Sound, Seated, Restores, Renames, Moves, Purges, Razes, Lists, Bound, Writing,
       InPurge
  <1> QED
    BY <1>2, <1>3, <1>7, <1>8, BeginStep DEF Holding, Writing

LEMMA PurgeStep ==
  ASSUME IInv, NEW t \in Tasks, op[t].pc = "idle", NEW i \in Ids,
         Purge(t, i) \/ PurgeExpired(t, i)
  PROVE  IInv'
  BY PurgingStep DEF Purge, PurgeExpired, InTrash

LEMMA RenameStep ==
  ASSUME IInv, NEW t \in Tasks, op[t].pc = "idle", NEW old \in Paths, NEW new \in Paths,
         NEW over \in BOOLEAN, Rename(t, old, new, over)
  PROVE  IInv'
  <1>1. PICK i \in Resolve(old) :
          /\ old # new
          /\ ~BelowItself(i, old, new)
          /\ Begin(t, [Idle EXCEPT !.pc = "parent", !.kind = "rename", !.id = i, !.seen = node[i],
                             !.name = Last(new), !.path = new, !.over = over,
                             !.chain = {i} \cup Above(i)])
    BY DEF Rename
  <1>2. PICK o : o = [Idle EXCEPT !.pc = "parent", !.kind = "rename", !.id = i, !.seen = node[i],
                             !.name = Last(new), !.path = new, !.over = over,
                             !.chain = {i} \cup Above(i)]
    OBVIOUS
  <1>3. /\ Record(o) /\ o.pc = "parent" /\ o.kind = "rename" /\ o.id = i /\ o.seen = node[i]
        /\ o.name = Last(new) /\ o.path = new
        /\ o.chain = {i} \cup Above(i) /\ o.raced = FALSE /\ o.tag = <<>>
    BY <1>2 DEF Record, Idle
  <1>4. Placed /\ i \in Ids /\ Known(i) /\ i # Root
    BY HandlersAre, PathsAre, ResolveIs, IdsAre
  <1>5. node[i].parent \in Dirs /\ node[i].name \in Names /\ ~Fresh(node[i].parent)
    <2>1. node[i].state # "fresh" /\ ~Fresh(i)
      BY <1>4 DEF Known, Fresh
    <2>2. node[i] # Doc("fresh", NoId, NoName)
      BY <2>1 DEF Doc
    <2>3. node[i].parent \in Dirs /\ ~Fresh(node[i].parent)
      BY <1>4, ParentIs DEF Known
    <2> QED
      BY <1>4, <2>2, <2>3 DEF Placed
  <1>6. DOMAIN o.tag = {}
    BY <1>3, IdleIs
  <1>7. Fits(o)
    BY <1>3, <1>4, <1>5, <1>6, PathsAre DEF Fits, Writing, InPurge, Seat, Drawn, Known
  <1>8. Renames(o)
    BY <1>1, <1>3, PathsAre, LineOf DEF Renames
  <1>9. Sound(o)
    BY <1>3, <1>8 DEF Sound, Seated, Restores, Moves, Purges, Razes, Lists, Bound, Writing,
       InPurge
  <1> QED
    BY <1>1, <1>2, <1>3, <1>7, <1>9, BeginStep DEF Holding, Writing

\* What is there and was written by nobody overtaken verifies.
LEMMA TagsAreRead ==
  ASSUME IInv, NEW d \in Dirs, Present(d), NEW r, r = Read(d)
  PROVE  r.id = d /\ (EntriesOf(r.id) \in r.tags \/ r.id \in overtaken)
  BY DEF Read, IInv, Tagged, Counts

LEMMA ListingStep ==
  ASSUME IInv, NEW t \in Tasks, op[t].pc = "idle", NEW kind \in {"list", "search"}, NEW d \in Dirs,
         Present(d),
         Begin(t, [Idle EXCEPT !.pc = "read", !.kind = kind, !.queue = {Read(d)}, !.watch = {d}])
  PROVE  IInv'
  <1>1. PICK o : o = [Idle EXCEPT !.pc = "read", !.kind = kind, !.queue = {Read(d)}, !.watch = {d}]
    OBVIOUS
  <1>3. /\ Record(o) /\ o.pc = "read" /\ o.kind = kind /\ o.queue = {Read(d)} /\ o.watch = {d}
        /\ o.raced = FALSE /\ o.tag = <<>>
    BY <1>1 DEF Record, Idle
  <1>4. \A r \in o.queue : r.id = d /\ (EntriesOf(r.id) \in r.tags \/ r.id \in overtaken)
    BY <1>3, TagsAreRead
  <1>6. DOMAIN o.tag = {}
    BY <1>3, IdleIs
  <1>7. Fits(o)
    BY <1>3, <1>4, <1>6 DEF Fits, Writing, InPurge
  <1>8. Lists(o)
    BY <1>3, <1>4 DEF Lists
  <1>9. Sound(o)
    BY <1>3, <1>8 DEF Sound, Seated, Restores, Renames, Moves, Purges, Razes, Bound, Writing,
       InPurge
  <1> QED
    BY <1>1, <1>3, <1>7, <1>9, BeginStep DEF Holding, Writing

LEMMA ListStep ==
  ASSUME IInv, NEW t \in Tasks, op[t].pc = "idle",
         (\E path \in Paths : List(t, path)) \/ Search(t)
  PROVE  IInv'
  <1>1. ASSUME NEW path \in Paths, List(t, path) PROVE IInv'
    <2>1. PICK d \in Resolve(path) \cap Dirs :
            Begin(t, [Idle EXCEPT !.pc = "read", !.kind = "list", !.queue = {Read(d)}, !.watch = {d}])
      BY <1>1 DEF List
    <2>2. LiveLine(d) /\ Known(d)
      BY HandlersAre, PathsAre, ResolveIs
    <2>3. Present(d)
      BY <2>2, LiveIsPresent DEF LiveLine, Line, Known
    <2> QED
      BY <2>1, <2>3, ListingStep
  <1>2. CASE Search(t)
    <2>1. Present(Root) /\ Root \in Dirs
      BY IdsAre DEF Present
    <2> QED
      BY <1>2, <2>1, ListingStep DEF Search
  <1> QED
    BY <1>1, <1>2
-----------------------------------------------------------------------------
(* Steps that write no document.                                           *)

\* A node that was found at a path is not above what a path that does not lead
\* through it comes to.
LEMMA NotBelow ==
  ASSUME Placed, NEW old \in Seq(Names), old # <<>>, NEW new \in Routes,
         NEW i \in Resolve(old), old # new, ~BelowItself(i, old, new),
         NEW d \in Resolve(Front(new)) \cap Dirs
  PROVE  i \notin Line(d)
  <1>1. SUFFICES ASSUME i \in Line(d) PROVE FALSE
    OBVIOUS
  <1>2. /\ Front(new) \in Seq(Names) /\ Len(new) \in Nat \ {0}
        /\ Len(Front(new)) = Len(new) - 1
        /\ \A k \in 1 .. Len(new) - 1 : Front(new)[k] = new[k]
    BY FrontIs
  <1>3. old \in Routes /\ Len(old) \in Nat \ {0}
    BY EmptySeq, LenProperties DEF Routes
  <1>4. i \in Ids /\ i # Root
    BY ResolveIs, IdsAre
  <1>9. PICK n : n = Len(Front(new))
    OBVIOUS
  <1>12. PICK k : k = Len(old)
    OBVIOUS
  <1>13. /\ k \in Nat \ {0} /\ n \in Nat \ {0} /\ k <= n
         /\ Len(old) = k /\ \A j \in 1 .. k : old[j] = Front(new)[j]
    BY <1>1, <1>2, <1>3, <1>9, <1>12, WalkThrough
  <1>14. k \in Nat \ {0} /\ k \in Int /\ 1 \in Int /\ k <= Len(new) /\ k <= Len(new) - 1
    BY <1>2, <1>9, <1>13
  <1>15. \A j \in 1 .. k : old[j] = new[j] /\ old[j] \in Names /\ new[j] \in Names
    <2>1. \A j \in 1 .. k : j \in 1 .. Len(new) - 1 /\ j \in 1 .. Len(new) /\ j \in 1 .. Len(old)
      BY <1>2, <1>13, <1>14
    <2>2. new \in Seq(Names)
      BY DEF Routes
    <2> QED
      BY <1>2, <1>13, <2>1, <2>2, ElementOfSeq
  <1>16. SubSeq(old, 1, k) = SubSeq(new, 1, k)
    <2> DEFINE a == SubSeq(old, 1, k)
               b == SubSeq(new, 1, k)
    <2>1. /\ a \in Seq(Names) /\ Len(a) = IF 1 <= k THEN k - 1 + 1 ELSE 0
          /\ \A j \in 1 .. k - 1 + 1 : a[j] = old[1 + j - 1]
      BY <1>14, <1>15, SubSeqProperties
    <2>2. /\ b \in Seq(Names) /\ Len(b) = IF 1 <= k THEN k - 1 + 1 ELSE 0
          /\ \A j \in 1 .. k - 1 + 1 : b[j] = new[1 + j - 1]
      BY <1>14, <1>15, SubSeqProperties
    <2> HIDE DEF a, b
    <2>3. Len(a) = k /\ Len(b) = k
      BY <1>14, <2>1, <2>2
    <2>4. \A j \in 1 .. k : j \in 1 .. k - 1 + 1 /\ 1 + j - 1 = j
      BY <1>14
    <2>5. \A j \in 1 .. k : a[j] = b[j]
      BY <1>15, <2>1, <2>2, <2>4
    <2>6. a = b
      BY <2>1, <2>2, <2>3, <2>5, SeqEqual
    <2> QED
      BY <2>6 DEF a, b
  <1>17. IsStrictPrefix(old, new)
    BY <1>13, <1>14, <1>16 DEF IsStrictPrefix, IsPrefix
  <1>18. i \in Folders
    BY <1>1, <1>2, <1>4, ResolveIs, AboveIs, IdsAre DEF Line
  <1> QED
    BY <1>17, <1>18 DEF BelowItself

\* A handler goes on, and what is stored stays as it is.
GoesOn(t, o) ==
  /\ DOMAIN op' = Tasks /\ op'[t] = o /\ \A u \in Tasks \ {t} : op'[u] = op[u]
  /\ UNCHANGED <<node, entries_mac, entries_mac_pending, overtaken, buried, evicted>>
  /\ StillHolds(t) /\ DOMAIN dir_locks' = Dirs

LEMMA GoesOnStep ==
  ASSUME IInv, NEW t \in Tasks, NEW o, GoesOn(t, o), op[t].pc # "destroy",
         o.kind = "make" => /\ op[t].kind = "make" /\ o.id = op[t].id
                            /\ op[t].pc = "commit" => o.pc = "commit",
         Fits(o), Sound(o), Signs(o), Locked(t)', AlarmsHaveARace'
  PROVE  IInv'
  <1>1. UNCHANGED node /\ overtaken \subseteq overtaken' /\ op'[t] = o
    BY DEF GoesOn
  <1>2. Quiet(t)
    BY DEF Quiet, GoesOn, FirstToMake
  <1>3. Fits(o)' /\ Sound(o)'
    BY <1>1, FitsSame, SoundSame
  <1>4. Tagged' /\ Unused' /\ Signs(o)'
    BY TagsSame DEF IInv, GoesOn
  <1>5. Mine(t)'
    BY <1>1, <1>3, <1>4 DEF Mine
  <1> QED
    BY <1>2, <1>4, <1>5, QuietStep

LEMMA KeepingIs ==
  ASSUME NEW t \in Tasks, NEW S, dir_locks' = Keeping(t, S), DOMAIN dir_locks = Dirs
  PROVE  /\ StillHolds(t) /\ DOMAIN dir_locks' = Dirs
         /\ \A d \in S : d \in Dirs => dir_locks'[d] = dir_locks[d]
  BY DEF Keeping, StillHolds

LEMMA IdleLocked ==
  ASSUME NEW t, op'[t] = Idle
  PROVE  Locked(t)'
  BY IdleIs DEF Locked, Holding, Writing

LEMMA LeaveStep ==
  ASSUME IInv, NEW t \in Tasks, Leave(t), op[t].pc # "destroy",
         UNCHANGED <<node, entries_mac, entries_mac_pending, overtaken, buried, evicted>>,
         AlarmsHaveARace'
  PROVE  IInv'
  <1>1. /\ DOMAIN op' = Tasks /\ op'[t] = Idle /\ (\A u \in Tasks \ {t} : op'[u] = op[u])
        /\ dir_locks' = Keeping(t, {}) /\ DOMAIN dir_locks = Dirs
    BY HandlersAre DEF Leave
  <1>2. GoesOn(t, Idle)
    BY <1>1, KeepingIs DEF GoesOn
  <1>3. Locked(t)'
    BY <1>1, IdleLocked
  <1> QED
    BY <1>2, <1>3, IdleFits, IdleIs, GoesOnStep

LEMMA AlarmsSame ==
  ASSUME IInv, UNCHANGED alarms, overtaken \subseteq overtaken'
  PROVE  AlarmsHaveARace'
  BY DEF IInv, AlarmsHaveARace

\* A handler that only comes to another step.
LEMMA StepIs ==
  ASSUME NEW o, Record(o), NEW pc, NEW p, p = [o EXCEPT !.pc = pc]
  PROVE  /\ Record(p) /\ p.pc = pc
         /\ p.raced = o.raced /\ p.kind = o.kind /\ p.id = o.id /\ p.seen = o.seen
         /\ p.dst = o.dst /\ p.name = o.name /\ p.path = o.path /\ p.over = o.over
         /\ p.locks = o.locks /\ p.victim = o.victim /\ p.held = o.held /\ p.tree = o.tree
         /\ p.rest = o.rest /\ p.tag = o.tag /\ p.queue = o.queue /\ p.chain = o.chain
         /\ p.watch = o.watch
  BY DEF Record, Idle

LEMMA GotoIs ==
  ASSUME IInv, NEW t \in Tasks, NEW pc, Goto(t, pc)
  PROVE  /\ DOMAIN op' = Tasks /\ op'[t] = [op[t] EXCEPT !.pc = pc]
         /\ \A u \in Tasks \ {t} : op'[u] = op[u]
  BY HandlersAre DEF Goto

LEMMA RenameParentStep ==
  ASSUME IInv, NEW t \in Tasks, RenameParent(t)
  PROVE  IInv'
  <1>1. /\ op[t].pc = "parent" /\ AlarmsHaveARace'
        /\ UNCHANGED <<node, entries_mac, entries_mac_pending, overtaken, buried, evicted, alarms>>
    BY AlarmsSame DEF RenameParent, docs, observers
  <1>2. CASE Leave(t)
    BY <1>1, <1>2, LeaveStep
  <1>3. ASSUME NEW d \in Resolve(Front(op[t].path)) \cap Dirs,
               op' = [op EXCEPT ![t].pc = "lock", ![t].dst = d,
                                ![t].locks = {op[t].seen.parent, d},
                                ![t].chain = @ \cup {d} \cup Above(d)],
               UNCHANGED dir_locks
        PROVE  IInv'
    <2>1. PICK o : o = op[t]
      OBVIOUS
    <2>2. PICK p : p = [o EXCEPT !.pc = "lock", !.dst = d, !.locks = {o.seen.parent, d},
                                 !.chain = @ \cup {d} \cup Above(d)]
      OBVIOUS
    <2>3. Placed /\ Fits(o) /\ Sound(o) /\ Record(o) /\ o.pc = "parent"
      BY <1>1, <2>1, HandlersAre
    <2>4. /\ DOMAIN op' = Tasks /\ op'[t] = p /\ (\A u \in Tasks \ {t} : op'[u] = op[u])
          /\ DOMAIN dir_locks' = Dirs
      BY <1>3, <2>1, <2>2, HandlersAre
    <2>5. /\ Record(p) /\ p.pc = "lock" /\ p.dst = d /\ p.locks = {o.seen.parent, d}
          /\ p.chain = o.chain \cup Line(d)
          /\ p.raced = o.raced /\ p.kind = o.kind /\ p.id = o.id /\ p.seen = o.seen
          /\ p.name = o.name /\ p.path = o.path /\ p.tag = o.tag
      BY <2>2, <2>3 DEF Record, Idle, Line
    <2>6. o.kind = "rename" /\ o.path \in Seq(Names) /\ o.path # <<>> /\ DOMAIN o.tag = {}
          /\ Drawn(o.id, o.seen)
      BY <2>3, IdleIs DEF Fits, InPurge
    <2>7. Front(o.path) \in Seq(Names) /\ o.path \in Routes /\ d \in Resolve(Front(o.path)) \cap Dirs
      BY <1>3, <2>1, <2>6, FrontIs DEF Routes
    <2>8. LiveLine(d) /\ Known(d)
      BY <2>3, <2>7, ResolveIs
    <2>9. Fits(p)
      BY <2>3, <2>5, <2>6, <2>7, <2>8 DEF Fits, Writing, InPurge, Seat, Known
    <2>10. Sound(p)
      <3> SUFFICES ASSUME ~p.raced PROVE Sound(p)
        BY DEF Sound
      <3>1. Renames(o)
        BY <2>3, <2>5 DEF Sound
      <3>2. Renames(p)
        BY <2>3, <2>5, <2>6, <3>1 DEF Renames
      <3>3. o.id \notin Line(d)
        <4>1. PICK old \in Seq(Names) : /\ old # <<>> /\ o.id \in Resolve(old) /\ old # o.path
                                        /\ ~BelowItself(o.id, old, o.path)
          BY <2>3, <2>6, <3>1 DEF Renames
        <4> QED
          BY <2>3, <2>7, <4>1, NotBelow
      <3>4. Moves(p)
        BY <2>5, <2>7, <3>3 DEF Moves
      <3>5. Seated(p)
        BY <2>5, <2>8 DEF Seated
      <3> QED
        BY <2>5, <2>6, <3>2, <3>4, <3>5 DEF Sound, Restores, Purges, Razes, Lists, InPurge
    <2>11. Signs(p)
      BY <2>5, <2>6 DEF Signs
    <2>12. Locked(t)'
      BY <2>4, <2>5 DEF Locked, Holding
    <2>13. GoesOn(t, p)
      BY <1>1, <1>3, <2>4 DEF GoesOn, StillHolds
    <2> QED
      BY <1>1, <2>1, <2>5, <2>6, <2>9, <2>10, <2>11, <2>12, <2>13, GoesOnStep
  <1> QED
    BY <1>2, <1>3 DEF RenameParent

LEMMA CheckEmptyStep ==
  ASSUME IInv, NEW t \in Tasks, CheckEmpty(t)
  PROVE  IInv'
  <1>1. /\ op[t].pc = "empty" /\ AlarmsHaveARace'
        /\ UNCHANGED <<node, entries_mac, entries_mac_pending, overtaken, buried, evicted, alarms>>
    BY AlarmsSame DEF CheckEmpty, docs, observers
  <1>2. CASE Leave(t)
    BY <1>1, <1>2, LeaveStep
  <1>3. CASE Goto(t, "mark") /\ UNCHANGED dir_locks
    <2>1. PICK o : o = op[t]
      OBVIOUS
    <2>2. PICK p : p = [o EXCEPT !.pc = "mark"]
      OBVIOUS
    <2>3. Fits(o) /\ Sound(o) /\ Record(o) /\ o.pc = "empty" /\ DOMAIN dir_locks' = Dirs
      BY <1>1, <1>3, <2>1, HandlersAre
    <2>4. DOMAIN op' = Tasks /\ op'[t] = p /\ \A u \in Tasks \ {t} : op'[u] = op[u]
      BY <1>3, <2>1, <2>2, GotoIs
    <2>5. /\ Record(p) /\ p.pc = "mark" /\ p.raced = o.raced /\ p.kind = o.kind /\ p.id = o.id
          /\ p.tag = o.tag
      BY <2>2, <2>3, StepIs
    <2>6. o.kind = "trash"
      BY <2>3, IdleIs DEF Fits, InPurge
    <2>7. Fits(p)
      BY <2>3, <2>5, <2>6 DEF Fits, Writing, InPurge
    <2>8. Sound(p)
      BY <2>3, <2>5, <2>6 DEF Sound, Seated, Restores, Renames, Moves, Purges, Razes, Lists, Bound,
         Writing, InPurge
    <2>9. Signs(p) /\ Locked(t)'
      BY <2>4, <2>5, <2>6 DEF Signs, Ahead, Behind, Locked, Holding, Writing
    <2>10. GoesOn(t, p)
      BY <1>1, <1>3, <2>3, <2>4 DEF GoesOn, StillHolds
    <2> QED
      BY <1>1, <2>5, <2>6, <2>7, <2>8, <2>9, <2>10, GoesOnStep
  <1> QED
    BY <1>2, <1>3 DEF CheckEmpty

\* What a writing handler knows stays with it as it goes on.
LEMMA BoundKept ==
  ASSUME NEW o, NEW p, Record(o), Sound(o), Writing(o), Bound(o), Bound(p),
         p.raced = o.raced, p.kind = o.kind, p.id = o.id, p.seen = o.seen, p.dst = o.dst,
         p.path = o.path, p.victim = o.victim, p.held = o.held, o.chain \subseteq p.chain,
         p.pc \notin {"destroy", "read"}, InPurge(p) => Purges(p)
  PROVE  Sound(p)
  <1> SUFFICES ASSUME ~p.raced PROVE Sound(p)
    BY DEF Sound
  <1>1. Seated(o) /\ Restores(o) /\ Renames(o) /\ Moves(o)
    BY DEF Sound
  <1>2. Seated(p)
    BY <1>1 DEF Seated
  <1>3. Restores(p)
    BY <1>1 DEF Restores
  <1>4. Renames(p)
    BY <1>1 DEF Renames, Bound
  <1>5. Moves(p)
    BY <1>1 DEF Moves
  <1> QED
    BY <1>2, <1>3, <1>4, <1>5 DEF Sound, Purges, Razes, Lists

LEMMA LockStep ==
  ASSUME IInv, NEW t \in Tasks, Lock(t)
  PROVE  IInv'
  <1>1. PICK o : o = op[t]
    OBVIOUS
  <1>2. PICK pc : pc = IF o.kind = "make" THEN "stage" ELSE "decide"
    OBVIOUS
  <1>3. PICK p : p = [o EXCEPT !.pc = pc]
    OBVIOUS
  <1>4. /\ o.pc = "lock" /\ (\A d \in o.locks : dir_locks[d] = NoTask)
        /\ dir_locks' = [d \in Dirs |-> IF d \in o.locks THEN t ELSE dir_locks[d]]
        /\ Goto(t, pc)
        /\ UNCHANGED <<node, entries_mac, entries_mac_pending, overtaken, buried, evicted, alarms>>
    BY <1>1, <1>2 DEF Lock, docs, observers
  <1>5. Fits(o) /\ Sound(o) /\ Record(o)
    BY <1>1, HandlersAre
  <1>6. DOMAIN op' = Tasks /\ op'[t] = p /\ \A u \in Tasks \ {t} : op'[u] = op[u]
    BY <1>1, <1>3, <1>4, GotoIs
  <1>7. /\ Record(p) /\ p.pc = pc
        /\ p.raced = o.raced /\ p.kind = o.kind /\ p.id = o.id /\ p.seen = o.seen
        /\ p.dst = o.dst /\ p.name = o.name /\ p.path = o.path /\ p.locks = o.locks
        /\ p.victim = o.victim /\ p.held = o.held /\ p.tag = o.tag /\ p.chain = o.chain
    BY <1>3, <1>5, StepIs
  <1>8. Writing(o) /\ Writing(p) /\ Bound(o) /\ Bound(p) /\ p.pc \in {"stage", "decide"}
    BY <1>2, <1>4, <1>5, <1>7, IdleIs DEF Fits, InPurge, Writing, Bound
  <1>9. Fits(p)
    BY <1>2, <1>4, <1>5, <1>7, <1>8 DEF Fits, Writing, InPurge
  <1>10. Sound(p)
    BY <1>5, <1>7, <1>8, BoundKept DEF InPurge
  <1>11. Signs(p)
    BY <1>8 DEF Signs, Ahead, Behind
  <1>12. \A d \in o.locks : d \in Dirs
    BY <1>4, <1>5, <1>8 DEF Fits, Seat, Drawn
  <1>13. Locked(t)'
    BY <1>4, <1>6, <1>7, <1>8, <1>12 DEF Locked, Holding
  <1>14. StillHolds(t) /\ DOMAIN dir_locks' = Dirs
    BY <1>4, NoneAssumption DEF StillHolds
  <1>15. GoesOn(t, p)
    BY <1>4, <1>6, <1>14 DEF GoesOn
  <1>16. AlarmsHaveARace'
    BY <1>4, AlarmsSame
  <1> QED
    BY <1>1, <1>4, <1>7, <1>9, <1>10, <1>11, <1>13, <1>15, <1>16, GoesOnStep

LEMMA EvictLockStep ==
  ASSUME IInv, NEW t \in Tasks, EvictLock(t)
  PROVE  IInv'
  <1>1. PICK o : o = op[t]
    OBVIOUS
  <1>3. PICK p : p = [o EXCEPT !.pc = "evict"]
    OBVIOUS
  <1>4. /\ o.pc = "evictLock" /\ dir_locks[o.held.parent] \in {NoTask, t}
        /\ dir_locks' = [dir_locks EXCEPT ![o.held.parent] = t]
        /\ Goto(t, "evict")
        /\ UNCHANGED <<node, entries_mac, entries_mac_pending, overtaken, buried, evicted, alarms>>
    BY <1>1 DEF EvictLock, docs, observers
  <1>5. Fits(o) /\ Sound(o) /\ Record(o) /\ Locked(t) /\ DOMAIN dir_locks = Dirs
    BY <1>1, HandlersAre
  <1>6. DOMAIN op' = Tasks /\ op'[t] = p /\ \A u \in Tasks \ {t} : op'[u] = op[u]
    BY <1>1, <1>3, <1>4, GotoIs
  <1>7. /\ Record(p) /\ p.pc = "evict"
        /\ p.raced = o.raced /\ p.kind = o.kind /\ p.id = o.id /\ p.seen = o.seen
        /\ p.dst = o.dst /\ p.name = o.name /\ p.path = o.path /\ p.locks = o.locks
        /\ p.victim = o.victim /\ p.held = o.held /\ p.tag = o.tag /\ p.chain = o.chain
    BY <1>3, <1>5, StepIs
  <1>8. o.kind \in {"rename", "purge"} /\ Drawn(o.victim, o.held)
    BY <1>4, <1>5, IdleIs DEF Fits, InPurge
  <1>9. Fits(p)
    BY <1>4, <1>5, <1>7, <1>8 DEF Fits, Writing, InPurge
  <1>10. Sound(p)
    <2> SUFFICES ASSUME ~p.raced PROVE Sound(p)
      BY DEF Sound
    <2>1. Purges(p)
      BY <1>4, <1>5, <1>7 DEF Sound, Purges, InPurge
    <2>2. CASE o.kind = "rename"
      BY <1>4, <1>5, <1>7, <2>1, <2>2, BoundKept DEF Bound, Writing
    <2>3. CASE o.kind = "purge"
      BY <1>7, <2>1, <2>3 DEF Sound, Seated, Restores, Renames, Moves, Razes, Lists, Bound, Writing
    <2> QED
      BY <1>8, <2>2, <2>3
  <1>11. Signs(p)
    BY <1>7 DEF Signs, Ahead, Behind
  <1>12. o.held.parent \in Dirs
    BY <1>8 DEF Drawn, Seat
  <1>a. Holding(o) => \A d \in o.locks : d \in Dirs
    BY <1>5 DEF Fits, Seat, Drawn, Holding, Writing
  <1>13. Locked(t)'
    <2>1. dir_locks'[p.held.parent] = t
      BY <1>4, <1>5, <1>7, <1>12
    <2>2. Holding(p) => Holding(o)
      BY <1>4, <1>7 DEF Holding, Writing
    <2>3. ASSUME Holding(p), NEW d \in p.locks PROVE dir_locks'[d] = t
      <3>1. dir_locks[d] = t /\ d \in Dirs
        BY <1>1, <1>5, <1>7, <1>a, <2>2, <2>3 DEF Locked
      <3> QED
        BY <1>4, <1>5, <3>1
    <2>4. Holding(op[t])' <=> Holding(p)
      BY <1>6 DEF Holding, Writing
    <2> QED
      BY <1>6, <2>1, <2>3, <2>4 DEF Locked
  <1>14. StillHolds(t) /\ DOMAIN dir_locks' = Dirs
    BY <1>4, <1>5, NoneAssumption DEF StillHolds
  <1>15. GoesOn(t, p)
    BY <1>4, <1>6, <1>14 DEF GoesOn
  <1>16. AlarmsHaveARace'
    BY <1>4, AlarmsSame
  <1> QED
    BY <1>1, <1>4, <1>7, <1>8, <1>9, <1>10, <1>11, <1>13, <1>15, <1>16, GoesOnStep

LEMMA ReadEntriesStep ==
  ASSUME IInv, NEW t \in Tasks, ReadEntries(t)
  PROVE  IInv'
  <1>1. PICK o : o = op[t]
    OBVIOUS
  <1>2. PICK r \in o.queue : 
          LET queue == (o.queue \ {r}) \cup (IF o.kind = "search" THEN Deeper(r.id) ELSE {})
          IN  /\ o.pc = "read"
              /\ IF ~Accepts(r.id, r.tags)
                 THEN /\ alarms' = alarms \cup {[dir |-> r.id, raced |-> o.raced]}
                      /\ Leave(t)
                 ELSE /\ UNCHANGED alarms
                      /\ IF queue = {} THEN Leave(t)
                         ELSE /\ op' = [op EXCEPT ![t].queue = queue,
                                                  ![t].watch = {q.id : q \in queue}]
                              /\ UNCHANGED dir_locks
    BY <1>1 DEF ReadEntries
  <1>3. UNCHANGED <<node, entries_mac, entries_mac_pending, overtaken, buried, evicted>>
    BY DEF ReadEntries, docs
  <1>4. Fits(o) /\ Sound(o) /\ Record(o) /\ o.pc = "read" /\ DOMAIN dir_locks = Dirs
        /\ o.kind \in {"list", "search"} /\ r.id \in Dirs
    BY <1>1, <1>2, HandlersAre, IdleIs DEF Fits, InPurge
  <1>5. CASE ~Accepts(r.id, r.tags)
    <2>1. alarms' = alarms \cup {[dir |-> r.id, raced |-> o.raced]} /\ Leave(t)
      BY <1>2, <1>5
    <2>2. o.raced \/ r.id \in overtaken
      BY <1>4, <1>5 DEF Sound, Lists, Accepts, Vouched
    <2>3. AlarmsHaveARace'
      BY <1>3, <2>1, <2>2 DEF IInv, AlarmsHaveARace
    <2> QED
      BY <1>1, <1>3, <1>4, <2>1, <2>3, LeaveStep
  <1>6. CASE Accepts(r.id, r.tags)
    <2> DEFINE queue == (o.queue \ {r}) \cup (IF o.kind = "search" THEN Deeper(r.id) ELSE {})
    <2>1. AlarmsHaveARace'
      BY <1>2, <1>3, <1>6, AlarmsSame
    <2>2. CASE Leave(t)
      BY <1>1, <1>3, <1>4, <2>1, <2>2, LeaveStep
    <2>3. CASE op' = [op EXCEPT ![t].queue = queue, ![t].watch = {q.id : q \in queue}]
               /\ UNCHANGED dir_locks
      <3>1. PICK q : q = queue
        OBVIOUS
      <3>2. PICK p : p = [o EXCEPT !.queue = q, !.watch = {x.id : x \in q}]
        OBVIOUS
      <3>3. \A x \in q : x \in o.queue \/ \E c \in LiveChildren(r.id) \cap Folders : x = Read(c)
        BY <3>1 DEF Deeper
      <3>4. \A x \in q :
              \/ x \in o.queue
              \/ x.id \in Dirs /\ (EntriesOf(x.id) \in x.tags \/ x.id \in overtaken)
        <4>1. ASSUME NEW c \in LiveChildren(r.id) \cap Folders, NEW x, x = Read(c)
              PROVE  x.id \in Dirs /\ (EntriesOf(x.id) \in x.tags \/ x.id \in overtaken)
          <5>1. c \in Dirs /\ Present(c)
            BY IdsAre DEF LiveChildren, ChildrenOf
          <5>2. x.id = c /\ (EntriesOf(x.id) \in x.tags \/ x.id \in overtaken)
            BY <4>1, <5>1, TagsAreRead
          <5> QED
            BY <5>1, <5>2
        <4>2. ASSUME NEW x \in q, x \notin o.queue
              PROVE  x.id \in Dirs /\ (EntriesOf(x.id) \in x.tags \/ x.id \in overtaken)
          <5>1. PICK c \in LiveChildren(r.id) \cap Folders : x = Read(c)
            BY <3>3, <4>2
          <5> QED
            BY <4>1, <5>1
        <4> QED
          BY <4>2
      <3>5. DOMAIN op' = Tasks /\ op'[t] = p /\ \A u \in Tasks \ {t} : op'[u] = op[u]
        BY <1>1, <2>3, <3>1, <3>2, HandlersAre
      <3>6. /\ Record(p) /\ p.pc = o.pc /\ p.raced = o.raced /\ p.kind = o.kind /\ p.id = o.id
            /\ p.tag = o.tag /\ p.queue = q /\ p.watch = {x.id : x \in q}
        BY <1>4, <3>2 DEF Record, Idle
      <3>7. Fits(p)
        BY <1>4, <3>4, <3>6 DEF Fits, Writing, InPurge
      <3>8. Lists(o) => Lists(p)
        BY <1>4, <3>4, <3>6 DEF Lists
      <3>9. Sound(p)
        BY <1>4, <3>6, <3>8 DEF Sound, Seated, Restores, Renames, Moves, Purges, Razes, Bound,
           Writing, InPurge
      <3>10. Signs(p) /\ Locked(t)'
        BY <1>4, <3>5, <3>6 DEF Signs, Ahead, Behind, Locked, Holding, Writing
      <3>11. GoesOn(t, p)
        BY <1>3, <1>4, <2>3, <3>5 DEF GoesOn, StillHolds
      <3> QED
        BY <1>1, <1>4, <2>1, <3>6, <3>7, <3>9, <3>10, <3>11, GoesOnStep
    <2> QED
      BY <1>2, <1>6, <2>2, <2>3
  <1> QED
    BY <1>5, <1>6

\* The directories a handler that writes stages are those it holds.
LEMMA StagedAreHeld ==
  ASSUME IInv, NEW t \in Tasks, NEW o, o = op[t], o.pc \in {"stage", "evict"},
         NEW d \in StagedDirs(o)
  PROVE  d \in Dirs /\ ~Fresh(d) /\ dir_locks[d] = t
  <1>1. Fits(o) /\ Locked(t)
    BY HandlersAre
  <1>2. CASE o.pc = "evict"
    BY <1>1, <1>2 DEF StagedDirs, Fits, InPurge, Drawn, Seat, Locked
  <1>3. CASE o.pc = "stage"
    <2>1. Writing(o) /\ Holding(o)
      BY <1>1, <1>3, IdleIs DEF Fits, InPurge, Writing, Holding
    <2>2. d \in o.locks /\ Seat(d)
      BY <1>1, <1>3, <2>1 DEF StagedDirs, Fits, Writing, Drawn
    <2> QED
      BY <1>1, <2>1, <2>2 DEF Seat, Locked
  <1> QED
    BY <1>2, <1>3

LEMMA StagedIs ==
  ASSUME NEW o
  PROVE  /\ DOMAIN Staged(o) = StagedDirs(o)
         /\ \A d \in StagedDirs(o) : Staged(o)[d] = (EntriesOf(d) \ Leaving(o, d)) \cup Arriving(o, d)
  BY DEF Staged

\* What staging a tag leaves: others' tags as they were, and the new one beside
\* an old one that matches.
LEMMA StagingStep ==
  ASSUME IInv, NEW t \in Tasks, NEW o, o = op[t], o.pc \in {"stage", "evict"},
         entries_mac_pending' = Parked(Staged(o)),
         overtaken' = overtaken \cup Overlaid(o), UNCHANGED <<node, entries_mac>>
  PROVE  /\ Tagged' /\ Unused'
         /\ \A d \in Dirs : dir_locks[d] # t => entries_mac_pending'[d] = entries_mac_pending[d]
         /\ \A d \in StagedDirs(o) : Counts(d)' =>
              /\ entries_mac'[d] = EntriesOf(d)' /\ entries_mac_pending'[d] = {Staged(o)[d]}
              /\ Staged(o)[d] = (EntriesOf(d)' \ Leaving(o, d)) \cup Arriving(o, d)
  <1>1. \A d \in Dirs : entries_mac_pending'[d] =
          IF d \in StagedDirs(o) THEN {Staged(o)[d]} ELSE entries_mac_pending[d]
    BY StagedIs DEF Parked
  <1>2. \A d \in StagedDirs(o) : d \in Dirs /\ dir_locks[d] = t
    BY StagedAreHeld
  <1>3. \A d : Counts(d)' => Counts(d) /\ EntriesOf(d)' = EntriesOf(d)
    BY NodeSame DEF Counts
  <1>4. \A d \in StagedDirs(o) : Counts(d)' => entries_mac[d] = EntriesOf(d)
    BY DEF Counts, Overlaid
  <1>5. Tagged'
    <2> SUFFICES ASSUME NEW d \in Dirs, Counts(d)' PROVE EntriesOf(d)' \in TagsOf(d)'
      BY DEF Tagged
    <2>1. CASE d \in StagedDirs(o)
      BY <1>3, <1>4, <2>1 DEF TagsOf
    <2>2. CASE d \notin StagedDirs(o)
      BY <1>1, <1>3, <2>2 DEF IInv, Tagged, TagsOf
    <2> QED
      BY <2>1, <2>2
  <1>6. Unused'
    BY DEF IInv, Unused, Fresh
  <1>7. ASSUME NEW d \in StagedDirs(o), Counts(d)'
        PROVE  /\ entries_mac'[d] = EntriesOf(d)' /\ entries_mac_pending'[d] = {Staged(o)[d]}
               /\ Staged(o)[d] = (EntriesOf(d)' \ Leaving(o, d)) \cup Arriving(o, d)
    <2>1. d \in Dirs /\ EntriesOf(d)' = EntriesOf(d) /\ entries_mac[d] = EntriesOf(d)
      BY <1>2, <1>3, <1>4, <1>7
    <2>2. Staged(o)[d] = (EntriesOf(d) \ Leaving(o, d)) \cup Arriving(o, d)
      BY StagedIs
    <2> QED
      BY <1>1, <2>1, <2>2
  <1>8. \A d \in Dirs : dir_locks[d] # t => entries_mac_pending'[d] = entries_mac_pending[d]
    BY <1>1, <1>2
  <1> QED
    BY <1>5, <1>6, <1>7, <1>8

LEMMA StageStep ==
  ASSUME IInv, NEW t \in Tasks, Stage(t)
  PROVE  IInv'
  <1>1. PICK o : o = op[t]
    OBVIOUS
  <1>2. /\ o.pc = "stage"
        /\ UNCHANGED <<node, entries_mac, buried, evicted, alarms>>
    BY <1>1 DEF Stage
  <1>3. Fits(o) /\ Sound(o) /\ Record(o) /\ Locked(t) /\ DOMAIN dir_locks = Dirs
    BY <1>1, HandlersAre
  <1>4. CASE Stageable(o)
    <2>1. PICK tag : tag = Staged(o)
      OBVIOUS
    <2>2. PICK p : p = [o EXCEPT !.pc = "mutate", !.tag = tag]
      OBVIOUS
    <2>3. /\ entries_mac_pending' = Parked(Staged(o))
          /\ op' = [op EXCEPT ![t].pc = "mutate", ![t].tag = tag]
          /\ overtaken' = overtaken \cup Overlaid(o)
          /\ UNCHANGED dir_locks
      BY <1>1, <1>4, <2>1 DEF Stage
    <2>4. /\ DOMAIN op' = Tasks /\ op'[t] = p /\ (\A u \in Tasks \ {t} : op'[u] = op[u])
          /\ overtaken \subseteq overtaken' /\ DOMAIN dir_locks' = Dirs
      BY <1>1, <1>3, <2>2, <2>3, HandlersAre
    <2>5. /\ Record(p) /\ p.pc = "mutate" /\ p.tag = tag
          /\ p.raced = o.raced /\ p.kind = o.kind /\ p.id = o.id /\ p.seen = o.seen
          /\ p.dst = o.dst /\ p.name = o.name /\ p.path = o.path /\ p.locks = o.locks
          /\ p.victim = o.victim /\ p.held = o.held /\ p.chain = o.chain
      BY <1>3, <2>2 DEF Record, Idle
    <2>6. Writing(o) /\ Writing(p) /\ Bound(o) /\ Bound(p)
      BY <1>2, <1>3, <2>5, IdleIs DEF Fits, InPurge, Writing, Bound
    <2>7. DOMAIN tag = o.locks
      BY <1>2, <1>3, <2>1, <2>6, StagedIs DEF StagedDirs, Fits
    <2>8. Fits(p)
      BY <1>2, <1>3, <2>5, <2>6, <2>7 DEF Fits, Writing, InPurge
    <2>9. Sound(p)
      BY <1>2, <1>3, <2>5, <2>6, BoundKept DEF InPurge
    <2>10. Fits(p)' /\ Sound(p)'
      BY <1>2, <2>4, <2>8, <2>9, FitsSame, SoundSame
    <2>11. /\ Tagged' /\ Unused'
           /\ \A d \in Dirs : dir_locks[d] # t => entries_mac_pending'[d] = entries_mac_pending[d]
           /\ \A d \in StagedDirs(o) : Counts(d)' =>
                /\ entries_mac'[d] = EntriesOf(d)' /\ entries_mac_pending'[d] = {Staged(o)[d]}
                /\ Staged(o)[d] = (EntriesOf(d)' \ Leaving(o, d)) \cup Arriving(o, d)
      BY <1>1, <1>2, <2>3, StagingStep
    <2>12. \A d : Leaving(o, d) = Lost(p, d) /\ Arriving(o, d) = Gained(p, d)
      BY <1>2, <2>5 DEF Leaving, Lost, Arriving, Gained
    <2>13. Signs(p)'
      <3> SUFFICES ASSUME NEW d \in DOMAIN p.tag, Counts(d)'
                   PROVE  /\ entries_mac'[d] = EntriesOf(d)' /\ entries_mac_pending'[d] = {p.tag[d]}
                          /\ p.tag[d] = (EntriesOf(d)' \ Lost(p, d)) \cup Gained(p, d)
        BY <2>5 DEF Signs, Ahead, Behind, Lost, Gained
      <3>1. d \in StagedDirs(o)
        BY <2>1, <2>5, StagedIs
      <3> QED
        BY <2>1, <2>5, <2>11, <2>12, <3>1
    <2>14. Locked(t)'
      BY <1>1, <1>2, <1>3, <2>3, <2>4, <2>5, <2>6 DEF Locked, Holding, Writing
    <2>15. Quiet(t)
      BY <1>1, <1>2, <2>3, <2>4, <2>5, <2>11 DEF Quiet, StillHolds, FirstToMake
    <2>16. AlarmsHaveARace'
      BY <1>2, <2>4, AlarmsSame
    <2>17. Mine(t)'
      BY <2>4, <2>10, <2>13, <2>14 DEF Mine
    <2> QED
      BY <2>11, <2>15, <2>16, <2>17, QuietStep
  <1>5. CASE ~Stageable(o)
    <2>1. Leave(t) /\ UNCHANGED <<entries_mac_pending, overtaken>>
      BY <1>1, <1>5 DEF Stage
    <2>2. AlarmsHaveARace'
      BY <1>2, <2>1, AlarmsSame
    <2> QED
      BY <1>1, <1>2, <2>1, <2>2, LeaveStep
  <1> QED
    BY <1>4, <1>5

LEMMA EvictStep ==
  ASSUME IInv, NEW t \in Tasks, Evict(t)
  PROVE  IInv'
  <1>1. PICK o : o = op[t]
    OBVIOUS
  <1>2. /\ o.pc = "evict"
        /\ UNCHANGED <<node, entries_mac, buried, evicted, alarms>>
    BY <1>1 DEF Evict
  <1>3. Fits(o) /\ Sound(o) /\ Record(o) /\ Locked(t) /\ Placed /\ DOMAIN dir_locks = Dirs
    BY <1>1, HandlersAre
  <1>4. CASE Stageable(o)
    <2>1. PICK tag : tag = Staged(o)
      OBVIOUS
    <2>a. PICK S : S = Subtree(o.victim)
      OBVIOUS
    <2>b. PICK tree : tree = [i \in S |-> node[i].parent]
      OBVIOUS
    <2>2. PICK p : p = [o EXCEPT !.pc = "destroy", !.tag = tag, !.tree = tree, !.rest = S,
                                 !.chain = o.chain \cup S]
      OBVIOUS
    <2>3. /\ entries_mac_pending' = Parked(Staged(o))
          /\ op' = [op EXCEPT ![t].pc = "destroy", ![t].tag = tag, ![t].tree = tree,
                              ![t].rest = S, ![t].chain = @ \cup S]
          /\ overtaken' = overtaken \cup Overlaid(o)
          /\ UNCHANGED dir_locks
      BY <1>1, <1>4, <2>1, <2>a, <2>b DEF Evict
    <2>4. /\ DOMAIN op' = Tasks /\ op'[t] = p /\ (\A u \in Tasks \ {t} : op'[u] = op[u])
          /\ overtaken \subseteq overtaken' /\ DOMAIN dir_locks' = Dirs
      BY <1>1, <1>3, <2>2, <2>3, HandlersAre
    <2>5. /\ Record(p) /\ p.pc = "destroy" /\ p.tag = tag /\ p.tree = tree /\ p.rest = S
          /\ p.chain = o.chain \cup S
          /\ p.raced = o.raced /\ p.kind = o.kind /\ p.id = o.id /\ p.seen = o.seen
          /\ p.dst = o.dst /\ p.name = o.name /\ p.path = o.path /\ p.locks = o.locks
          /\ p.victim = o.victim /\ p.held = o.held
      BY <1>3, <2>2 DEF Record, Idle
    <2>6. o.kind \in {"rename", "purge"} /\ Drawn(o.victim, o.held)
      BY <1>2, <1>3, IdleIs DEF Fits, InPurge
    <2>7. DOMAIN tag = {o.held.parent}
      BY <1>2, <2>1, StagedIs DEF StagedDirs
    <2>8. /\ S \subseteq Ids /\ o.victim \in S /\ ClosedDownward(S) /\ DOMAIN tree = S
          /\ \A j \in S : ~Fresh(j) /\ tree[j] = node[j].parent
                          /\ (j # o.victim => Present(j) /\ node[j].parent \in S)
      BY <1>3, <2>6, <2>a, <2>b, SubtreeIs DEF Drawn
    <2>9. Fits(p)
      BY <1>2, <1>3, <2>5, <2>6, <2>7, <2>8 DEF Fits, Writing, InPurge
    <2>10. Sound(p)
      <3> SUFFICES ASSUME ~p.raced PROVE Sound(p)
        BY DEF Sound
      <3>1. Purges(p) /\ node[o.victim] = o.held /\ o.held.state = "trashed"
        BY <1>2, <1>3, <2>5 DEF Sound, Purges, InPurge
      <3>2. Present(o.victim)
        BY <3>1 DEF Present
      <3>3. Razes(p)
        BY <2>5, <2>8, <3>1, <3>2 DEF Razes, ClosedDownward
      <3>4. CASE o.kind = "purge"
        BY <2>5, <3>1, <3>3, <3>4 DEF Sound, Seated, Restores, Renames, Moves, Lists, Bound, Writing
      <3>5. CASE o.kind = "rename"
        <4>1. Seated(o) /\ Restores(o) /\ Renames(o) /\ Moves(o) /\ Bound(o) /\ Bound(p)
          BY <1>2, <1>3, <2>5, <3>5 DEF Sound, Bound, Writing
        <4>2. Seated(p)
          BY <2>5, <4>1 DEF Seated
        <4>3. Restores(p)
          BY <2>5, <3>5 DEF Restores
        <4>4. Renames(p)
          BY <2>5, <4>1 DEF Renames, Bound
        <4>5. Moves(p)
          BY <2>5, <4>1 DEF Moves
        <4> QED
          BY <2>5, <3>1, <3>3, <4>2, <4>3, <4>4, <4>5 DEF Sound, Lists
      <3> QED
        BY <2>6, <3>4, <3>5
    <2>11. Fits(p)' /\ Sound(p)'
      BY <1>2, <2>4, <2>9, <2>10, FitsSame, SoundSame
    <2>12. /\ Tagged' /\ Unused'
           /\ \A d \in Dirs : dir_locks[d] # t => entries_mac_pending'[d] = entries_mac_pending[d]
           /\ \A d \in StagedDirs(o) : Counts(d)' =>
                /\ entries_mac'[d] = EntriesOf(d)' /\ entries_mac_pending'[d] = {Staged(o)[d]}
                /\ Staged(o)[d] = (EntriesOf(d)' \ Leaving(o, d)) \cup Arriving(o, d)
      BY <1>1, <1>2, <2>3, StagingStep
    <2>13. \A d : Leaving(o, d) = Lost(p, d) /\ Arriving(o, d) = Gained(p, d)
      BY <1>2, <2>5 DEF Leaving, Lost, Arriving, Gained
    <2>14. Signs(p)'
      <3> SUFFICES ASSUME NEW d \in DOMAIN p.tag, Counts(d)'
                   PROVE  /\ entries_mac'[d] = EntriesOf(d)' /\ entries_mac_pending'[d] = {p.tag[d]}
                          /\ p.tag[d] = (EntriesOf(d)' \ Lost(p, d)) \cup Gained(p, d)
        BY <2>5, <2>8 DEF Signs, Ahead, Behind, Lost, Gained
      <3>1. d \in StagedDirs(o)
        BY <2>1, <2>5, StagedIs
      <3> QED
        BY <2>1, <2>5, <2>12, <2>13, <3>1
    <2>15. Locked(t)'
      BY <1>1, <1>2, <1>3, <2>3, <2>4, <2>5, <2>6 DEF Locked, Holding, Writing
    <2>16. Quiet(t)
      BY <1>1, <1>2, <2>3, <2>4, <2>5, <2>6, <2>12 DEF Quiet, StillHolds, FirstToMake
    <2>17. AlarmsHaveARace'
      BY <1>2, <2>4, AlarmsSame
    <2>18. Mine(t)'
      BY <2>4, <2>11, <2>14, <2>15 DEF Mine
    <2> QED
      BY <2>12, <2>16, <2>17, <2>18, QuietStep
  <1>5. CASE ~Stageable(o)
    <2>1. Leave(t) /\ UNCHANGED <<entries_mac_pending, overtaken>>
      BY <1>1, <1>5 DEF Evict
    <2>2. AlarmsHaveARace'
      BY <1>2, <2>1, AlarmsSame
    <2> QED
      BY <1>1, <1>2, <2>1, <2>2, LeaveStep
  <1> QED
    BY <1>4, <1>5

\* Promoting a tag that matches: the directories are the handler's own.
LEMMA PromotingStep ==
  ASSUME IInv, NEW t \in Tasks, NEW o, o = op[t], o.pc \in {"commit", "unname"},
         entries_mac' = Promoted(o.tag), entries_mac_pending' = Unparked(o.tag),
         UNCHANGED <<node, overtaken>>
  PROVE  /\ Tagged' /\ Unused'
         /\ \A d \in Dirs : dir_locks[d] # t =>
              entries_mac'[d] = entries_mac[d] /\ entries_mac_pending'[d] = entries_mac_pending[d]
  <1>1. \A d \in DOMAIN o.tag : d \in Dirs /\ ~Fresh(d) /\ dir_locks[d] = t
    BY HandlersAre, TagsAreHeld
  <1>2. \A d \in Dirs :
          /\ entries_mac'[d] = IF d \in DOMAIN o.tag THEN o.tag[d] ELSE entries_mac[d]
          /\ d \notin DOMAIN o.tag => entries_mac_pending'[d] = entries_mac_pending[d]
    BY DEF Promoted, Unparked
  <1>3. \A d : Counts(d)' => Counts(d) /\ EntriesOf(d)' = EntriesOf(d)
    BY NodeSame DEF Counts
  <1>4. \A d \in DOMAIN o.tag : Counts(d) => EntriesOf(d) = o.tag[d]
    BY HandlersAre DEF Signs, Behind
  <1>5. Tagged'
    <2> SUFFICES ASSUME NEW d \in Dirs, Counts(d)' PROVE EntriesOf(d)' \in TagsOf(d)'
      BY DEF Tagged
    <2>1. CASE d \in DOMAIN o.tag
      BY <1>2, <1>3, <1>4, <2>1 DEF TagsOf
    <2>2. CASE d \notin DOMAIN o.tag
      <3>1. EntriesOf(d) \in TagsOf(d)
        BY <1>3 DEF IInv, Tagged
      <3> QED
        BY <1>2, <1>3, <2>2, <3>1 DEF TagsOf
    <2> QED
      BY <2>1, <2>2
  <1>6. Unused'
    BY <1>1, <1>2 DEF IInv, Unused, Fresh
  <1> QED
    BY <1>1, <1>2, <1>5, <1>6

LEMMA CommitStep ==
  ASSUME IInv, NEW t \in Tasks, Commit(t)
  PROVE  IInv'
  <1>1. PICK o : o = op[t]
    OBVIOUS
  <1>2. /\ o.pc = "commit" /\ Leave(t)
        /\ entries_mac' = Promoted(o.tag) /\ entries_mac_pending' = Unparked(o.tag)
        /\ UNCHANGED <<node, overtaken, buried, evicted, alarms>>
    BY <1>1 DEF Commit, observers
  <1>3. /\ Tagged' /\ Unused'
        /\ \A d \in Dirs : dir_locks[d] # t =>
             entries_mac'[d] = entries_mac[d] /\ entries_mac_pending'[d] = entries_mac_pending[d]
    BY <1>1, <1>2, PromotingStep
  <1>4. /\ DOMAIN op' = Tasks /\ op'[t] = Idle /\ (\A u \in Tasks \ {t} : op'[u] = op[u])
        /\ dir_locks' = Keeping(t, {}) /\ DOMAIN dir_locks = Dirs
    BY <1>2, HandlersAre DEF Leave
  <1>5. Quiet(t)
    BY <1>1, <1>2, <1>3, <1>4, KeepingIs, IdleIs DEF Quiet, FirstToMake
  <1>6. Mine(t)'
    <2>1. Fits(Idle)' /\ Sound(Idle)'
      BY <1>2, IdleFits, FitsSame, SoundSame
    <2>2. Signs(Idle)'
      BY IdleIs DEF Signs
    <2> QED
      BY <1>4, <2>1, <2>2, IdleLocked DEF Mine
  <1>7. AlarmsHaveARace'
    BY <1>2, AlarmsSame
  <1> QED
    BY <1>3, <1>5, <1>6, <1>7, QuietStep

LEMMA UnnameStep ==
  ASSUME IInv, NEW t \in Tasks, Unname(t)
  PROVE  IInv'
  <1>1. PICK o : o = op[t]
    OBVIOUS
  <1>2. /\ o.pc = "unname"
        /\ entries_mac' = Promoted(o.tag) /\ entries_mac_pending' = Unparked(o.tag)
        /\ UNCHANGED <<node, overtaken, buried, evicted, alarms>>
    BY <1>1 DEF Unname, observers
  <1>3. /\ Tagged' /\ Unused'
        /\ \A d \in Dirs : dir_locks[d] # t =>
             entries_mac'[d] = entries_mac[d] /\ entries_mac_pending'[d] = entries_mac_pending[d]
    BY <1>1, <1>2, PromotingStep
  <1>4. Fits(o) /\ Sound(o) /\ Record(o) /\ Locked(t) /\ DOMAIN dir_locks = Dirs
        /\ o.kind \in {"rename", "purge"} /\ Drawn(o.victim, o.held)
    BY <1>1, <1>2, HandlersAre, IdleIs DEF Fits, InPurge
  <1>5. AlarmsHaveARace'
    BY <1>2, AlarmsSame
  <1>6. CASE o.kind # "rename"
    <2>1. Leave(t)
      BY <1>1, <1>6 DEF Unname
    <2>2. /\ DOMAIN op' = Tasks /\ op'[t] = Idle /\ (\A u \in Tasks \ {t} : op'[u] = op[u])
          /\ dir_locks' = Keeping(t, {})
      BY <2>1, HandlersAre DEF Leave
    <2>3. Quiet(t)
      BY <1>1, <1>2, <1>3, <1>4, <2>2, KeepingIs, IdleIs DEF Quiet, FirstToMake
    <2>4. Fits(Idle)' /\ Sound(Idle)'
      BY <1>2, IdleFits, FitsSame, SoundSame
    <2>5. Signs(Idle)'
      BY IdleIs DEF Signs
    <2>6. Mine(t)'
      BY <2>2, <2>4, <2>5, IdleLocked DEF Mine
    <2> QED
      BY <1>3, <1>5, <2>3, <2>6, QuietStep
  <1>7. CASE o.kind = "rename"
    <2>1. PICK p : p = [o EXCEPT !.pc = "stage", !.tag = <<>>, !.victim = NoId]
      OBVIOUS
    <2>2. /\ op' = [op EXCEPT ![t].pc = "stage", ![t].tag = <<>>, ![t].victim = NoId]
          /\ dir_locks' = Keeping(t, o.locks)
      BY <1>1, <1>7 DEF Unname
    <2>3. /\ DOMAIN op' = Tasks /\ op'[t] = p /\ (\A u \in Tasks \ {t} : op'[u] = op[u])
      BY <1>1, <2>1, <2>2, HandlersAre
    <2>4. /\ Record(p) /\ p.pc = "stage" /\ p.tag = <<>> /\ p.victim = NoId
          /\ p.chain = o.chain
          /\ p.raced = o.raced /\ p.kind = o.kind /\ p.id = o.id /\ p.seen = o.seen
          /\ p.dst = o.dst /\ p.name = o.name /\ p.path = o.path /\ p.locks = o.locks
      BY <1>4, <2>1 DEF Record, Idle
    <2>5. DOMAIN p.tag = {}
      BY <2>4, IdleIs
    <2>6. Fits(p)
      BY <1>2, <1>4, <1>7, <2>4, <2>5 DEF Fits, Writing, InPurge
    <2>7. Sound(p)
      <3> SUFFICES ASSUME ~p.raced PROVE Sound(p)
        BY DEF Sound
      <3>1. Seated(o) /\ Renames(o) /\ Moves(o) /\ Bound(o) /\ Bound(p)
        BY <1>2, <1>4, <1>7, <2>4 DEF Sound, Bound, Writing
      <3>2. Seated(p)
        BY <2>4, <3>1 DEF Seated
      <3>3. Renames(p)
        BY <2>4, <3>1 DEF Renames, Bound
      <3>4. Moves(p)
        BY <2>4, <3>1 DEF Moves
      <3> QED
        BY <1>7, <2>4, <3>2, <3>3, <3>4 DEF Sound, Restores, Purges, Razes, Lists, InPurge
    <2>8. Fits(p)' /\ Sound(p)'
      BY <1>2, <2>6, <2>7, FitsSame, SoundSame
    <2>9. Signs(p)'
      BY <2>5 DEF Signs
    <2>10. StillHolds(t) /\ DOMAIN dir_locks' = Dirs
           /\ \A d \in o.locks : d \in Dirs => dir_locks'[d] = dir_locks[d]
      BY <1>4, <2>2, KeepingIs
    <2>11. Locked(t)'
      <3>1. \A d \in o.locks : d \in Dirs /\ dir_locks[d] = t
        BY <1>1, <1>2, <1>4, <1>7 DEF Locked, Holding, Writing, Fits, Seat, Drawn
      <3> QED
        BY <2>3, <2>4, <2>10, <3>1 DEF Locked
    <2>12. Quiet(t)
      BY <1>1, <1>2, <1>3, <1>7, <2>3, <2>4, <2>10 DEF Quiet, FirstToMake
    <2>13. Mine(t)'
      BY <2>3, <2>8, <2>9, <2>11 DEF Mine
    <2> QED
      BY <1>3, <1>5, <2>12, <2>13, QuietStep
  <1> QED
    BY <1>6, <1>7

\* A writing handler comes to another step with its locks and nothing staged.
Decided(t, o, p) ==
  /\ o = op[t] /\ o.pc = "decide" /\ Record(p) /\ p.pc \in {"stage", "mutate"} /\ p.name \in Names
  /\ p.pc = "mutate" => o.kind = "restore" /\ p.name = o.seen.name
  /\ p.tag = o.tag /\ p.raced = o.raced /\ p.kind = o.kind /\ p.id = o.id /\ p.seen = o.seen
  /\ p.dst = o.dst /\ p.path = o.path /\ p.locks = o.locks
  /\ p.victim = o.victim /\ p.held = o.held /\ p.chain = o.chain
  /\ DOMAIN op' = Tasks /\ op'[t] = p /\ \A u \in Tasks \ {t} : op'[u] = op[u]
  /\ UNCHANGED <<node, entries_mac, entries_mac_pending, dir_locks, overtaken, buried,
                 evicted, alarms>>

LEMMA DecidedStep ==
  ASSUME IInv, NEW t \in Tasks, NEW o, NEW p, Decided(t, o, p)
  PROVE  IInv'
  <1>1. Fits(o) /\ Sound(o) /\ Record(o) /\ Locked(t) /\ DOMAIN dir_locks = Dirs
        /\ o.kind \in {"restore", "rename"} /\ DOMAIN o.tag = {}
    BY HandlersAre, IdleIs DEF Decided, Fits, InPurge
  <1>2. /\ o = op[t] /\ o.pc = "decide" /\ Record(p) /\ p.pc \in {"stage", "mutate"}
        /\ p.name \in Names /\ p.tag = o.tag
        /\ p.pc = "mutate" => o.kind = "restore" /\ p.name = o.seen.name
        /\ p.raced = o.raced /\ p.kind = o.kind /\ p.id = o.id /\ p.seen = o.seen
        /\ p.dst = o.dst /\ p.path = o.path /\ p.locks = o.locks
        /\ p.victim = o.victim /\ p.held = o.held /\ p.chain = o.chain
        /\ op'[t] = p
        /\ UNCHANGED <<node, entries_mac, entries_mac_pending, dir_locks, overtaken, buried,
                       evicted, alarms>>
    BY DEF Decided
  <1>3. Writing(o) /\ Bound(o) /\ Bound(p)
    BY <1>1, <1>2 DEF Writing, Bound
  <1>4. Fits(p)
    BY <1>1, <1>2 DEF Fits, Writing, InPurge
  <1>5. Sound(p)
    BY <1>1, <1>2, <1>3, BoundKept DEF InPurge
  <1>6. Signs(p)
    BY <1>1, <1>2 DEF Signs
  <1>7. Locked(t)'
    BY <1>1, <1>2 DEF Locked, Holding, Writing
  <1>8. GoesOn(t, p)
    BY <1>1, <1>2 DEF GoesOn, StillHolds, Decided
  <1> QED
    BY <1>1, <1>2, <1>4, <1>5, <1>6, <1>7, <1>8, AlarmsSame, GoesOnStep
-----------------------------------------------------------------------------
(* Steps that write a document.                                            *)

\* The handler writes document w, and overtakes those who rely on it.
Writes(t, o, w, M) ==
  /\ Others(w) /\ Placed' /\ Keeps /\ NewChildren /\ overtaken \subseteq overtaken'
  /\ \A d \in Dirs \ M : EntriesOf(d)' = EntriesOf(d)
  /\ Overtaking(t, o, {w}, M)
  /\ UNCHANGED <<entries_mac, entries_mac_pending, dir_locks, alarms>>
  /\ \A u \in Tasks \ {t} : op[u].kind = "make" /\ op[u].pc # "commit" /\ op[u].id = w => Fresh(w)'
  /\ \A d \in Dirs : dir_locks[d] # t /\ ~Fresh(d) /\ Counts(d)' =>
       Counts(d) /\ EntriesOf(d)' = EntriesOf(d)

LEMMA OtherTasks ==
  ASSUME IInv, NEW t \in Tasks, NEW o, NEW w \in Ids, NEW M, Writes(t, o, w, M),
         NEW u \in Tasks \ {t}
  PROVE  Mine(u)' /\ SameTask(op'[u], op[u])
  <1>1. PICK q : q = op[u]
    OBVIOUS
  <1>2. PICK p : p = op'[u]
    OBVIOUS
  <1>3. /\ Fits(q) /\ Sound(q) /\ Signs(q) /\ Locked(u) /\ Placed /\ DOMAIN op = Tasks
        /\ Record(q)
    BY <1>1, HandlersAre
  <1>4. \A x \in Tasks : Fits(op[x])
    BY HandlersAre
  <1>5. \/ p = q /\ (~q.raced => q.chain \cap {w} = {} /\ q.watch \cap M = {})
        \/ Flagged(p, q)
    <2>1. Overtaking(t, o, {w}, M)
      BY DEF Writes
    <2> QED
      BY <1>1, <1>2, <1>3, <1>4, <2>1, OvertakingIs
  <1>6. q.kind = "make" /\ q.pc # "commit" => Fresh(q.id)'
    <2>1. q.kind = "make" /\ q.pc # "commit" => q.id \in Ids /\ Fresh(q.id)
      BY <1>3 DEF Fits
    <2> QED
      BY <1>1, <2>1, OthersAre DEF Writes
  <1>7. Signs(q)'
    <2>1. \A d \in Dirs : dir_locks[d] = u /\ ~Fresh(d) /\ Counts(d)' => Untouched(d)
      BY DEF Writes, Untouched
    <2> QED
      BY <1>1, <1>3, <2>1, SignsKept
  <1>8. CASE p = q /\ (~q.raced => q.chain \cap {w} = {} /\ q.watch \cap M = {})
    <2>1. Fits(q)'
      BY <1>3, <1>6, FitsKept DEF Writes
    <2>2. Sound(q)'
      BY <1>3, <1>8, SoundKept DEF Writes
    <2>3. Locked(u)'
      BY <1>1, <1>2, <1>3, <1>8, LockedKept DEF Writes, StillHolds
    <2> QED
      BY <1>1, <1>2, <1>7, <1>8, <2>1, <2>2, <2>3 DEF Mine, SameTask
  <1>9. CASE Flagged(p, q)
    <2>1. /\ Fits(p) /\ Sound(p) /\ p.raced
          /\ p.pc = q.pc /\ p.kind = q.kind /\ p.id = q.id /\ p.rest = q.rest
      BY <1>3, <1>9, FlaggedIs
    <2>2. Fits(p)'
      BY <1>6, <2>1, FitsKept DEF Writes
    <2>3. Sound(p)'
      BY <2>1 DEF Sound
    <2>4. Signs(p)'
      <3>1. /\ p.pc = q.pc /\ p.id = q.id /\ p.seen = q.seen /\ p.dst = q.dst /\ p.name = q.name
            /\ p.victim = q.victim /\ p.held = q.held /\ p.rest = q.rest /\ p.tag = q.tag
        BY <1>3, <1>9, FlagIs DEF Flagged
      <3> QED
        BY <1>7, <3>1 DEF Signs, Ahead, Behind, Lost, Gained
    <2>5. Locked(u)'
      BY <1>1, <1>2, <1>3, <1>9, LockedKept DEF Writes, StillHolds
    <2> QED
      BY <1>1, <1>2, <2>1, <2>2, <2>3, <2>4, <2>5 DEF Mine, SameTask
  <1> QED
    BY <1>5, <1>8, <1>9

LEMMA WriteStep ==
  ASSUME IInv, NEW t \in Tasks, NEW o, NEW w \in Ids, NEW M, Writes(t, o, w, M), FirstToMake(t),
         Mine(t)', Tagged', Emptied', NothingIsLost', DestroyedWasDiscarded'
  PROVE  IInv'
  <1>1. DOMAIN op' = Tasks /\ DOMAIN dir_locks' = Dirs /\ MakesApart
    BY HandlersAre DEF Writes, Overtaking, IInv
  <1>2. \A u \in Tasks \ {t} : Mine(u)' /\ SameTask(op'[u], op[u])
    BY OtherTasks
  <1>3. MakesApart'
    BY <1>1, <1>2, MakesApartKept
  <1>4. Unused'
    <2>1. \A d \in Dirs : Fresh(d)' => Fresh(d)
      BY IdsAre DEF Writes, Keeps, Fresh
    <2> QED
      BY <2>1 DEF Writes, IInv, Unused
  <1>5. AlarmsHaveARace'
    BY AlarmsSame DEF Writes
  <1>6. Placed' /\ \A u \in Tasks : Mine(u)'
    BY <1>2 DEF Writes
  <1> QED
    BY <1>1, <1>3, <1>4, <1>5, <1>6 DEF IInv, Mine

\* Documents that others keep as they were are reached as before; those a purge
\* is deleting are deleted still.
LEMMA HalfPurgedKept ==
  ASSUME NEW t \in Tasks, op[t].pc # "destroy",
         \A u \in Tasks \ {t} : SameTask(op'[u], op[u])
  PROVE  HalfPurged \subseteq HalfPurged'
  BY DEF HalfPurged, SameTask
-----------------------------------------------------------------------------
(* Trashing.                                                               *)

\* Nothing moves, and nothing comes or goes.
LEMMA TrashingIs ==
  ASSUME Placed, NEW w \in Ids, node' = IF Present(w) THEN WithState(w, "trashed") ELSE node
  PROVE  /\ Others(w) /\ Placed' /\ Keeps /\ NewChildren
         /\ \A j \in Ids : /\ Present(j)' <=> Present(j)
                           /\ node'[j].parent = node[j].parent /\ node'[j].name = node[j].name
                           /\ Fresh(j)' <=> Fresh(j)
                           /\ Trashed(j) => Trashed(j)'
                           /\ (node'[j].state = "gone") <=> (node[j].state = "gone")
         /\ \A d : ChildrenOf(d)' = ChildrenOf(d) /\ EntriesOf(d)' = EntriesOf(d)
         /\ \A d : Known(d) => Above(d)' = Above(d)
         /\ Present(w) => node'[w] = [node[w] EXCEPT !.state = "trashed"]
  <1>1. node \in [Ids -> Docs] /\ w # Root
    BY IdsAre DEF Placed
  <1>2. \A j \in Ids \ {w} : node'[j] = node[j]
    BY <1>1 DEF WithState
  <1>3. Present(w) => node'[w] = [node[w] EXCEPT !.state = "trashed"]
    BY <1>1 DEF WithState
  <1>a. node[w] \in Docs
    BY <1>1
  <1>4. Present(w) => /\ node'[w].parent = node[w].parent /\ node'[w].name = node[w].name
                      /\ node'[w].state = "trashed" /\ node'[w] \in Docs
    BY <1>3, <1>a DEF Docs
  <1>5. ~Present(w) => node'[w] = node[w]
    OBVIOUS
  <1>6. \A j \in Ids : /\ Present(j)' <=> Present(j)
                       /\ node'[j].parent = node[j].parent /\ node'[j].name = node[j].name
                       /\ Fresh(j)' <=> Fresh(j)
                       /\ Trashed(j) => Trashed(j)'
                       /\ (node'[j].state = "gone") <=> (node[j].state = "gone")
    <2> SUFFICES ASSUME NEW j \in Ids
                 PROVE  /\ Present(j)' <=> Present(j)
                        /\ node'[j].parent = node[j].parent /\ node'[j].name = node[j].name
                        /\ Fresh(j)' <=> Fresh(j)
                        /\ Trashed(j) => Trashed(j)'
                        /\ (node'[j].state = "gone") <=> (node[j].state = "gone")
      OBVIOUS
    <2>1. CASE j # w
      BY <1>2, <2>1 DEF Present, Fresh, Trashed
    <2>2. CASE j = w /\ Present(w)
      BY <1>1, <1>4, <2>2 DEF Present, Fresh, Trashed
    <2>3. CASE j = w /\ ~Present(w)
      BY <1>5, <2>3 DEF Present, Fresh, Trashed
    <2> QED
      BY <2>1, <2>2, <2>3
  <1>7. \A d : ChildrenOf(d)' = ChildrenOf(d)
    BY <1>6 DEF ChildrenOf
  <1>8. \A d : EntriesOf(d)' = EntriesOf(d)
    <2> SUFFICES ASSUME NEW d PROVE EntriesOf(d)' = EntriesOf(d)
      OBVIOUS
    <2>1. ChildrenOf(d) \subseteq Ids /\ ChildrenOf(d)' = ChildrenOf(d)
      BY <1>7 DEF ChildrenOf
    <2> QED
      BY <1>6, <2>1 DEF EntriesOf
  <1>9. \A d : Known(d) => Above(d)' = Above(d)
    BY <1>6, AboveSteady
  <1>10. Placed'
    <2>1. node' \in [Ids -> Docs]
      <3>1. Present(w) => \A x \in Docs : [x EXCEPT !.state = "trashed"] \in Docs
        BY DEF Docs
      <3> QED
        BY <1>1, <3>1 DEF WithState
    <2>2. ASSUME NEW j \in Ids
          PROVE  \/ node'[j] = Doc("fresh", NoId, NoName)
                 \/ /\ ~Fresh(j)' /\ node'[j].parent \in Dirs /\ ~Fresh(node[j].parent)'
                    /\ node'[j].name \in Names
      <3>1. CASE Fresh(j)
        <4>1. node[j] = Doc("fresh", NoId, NoName) /\ ~Present(j)
          BY <3>1 DEF Placed, Present, Fresh
        <4> QED
          BY <1>2, <1>5, <4>1
      <3>2. CASE ~Fresh(j)
        <4>1. /\ node[j].parent \in Dirs /\ ~Fresh(node[j].parent) /\ node[j].name \in Names
          <5>1. node[j] # Doc("fresh", NoId, NoName)
            BY <3>2, IdsAre DEF Fresh, Doc
          <5> QED
            BY <5>1 DEF Placed
        <4>2. PICK d : d = node[j].parent
          OBVIOUS
        <4>3. d \in Dirs /\ ~Fresh(d)' /\ node'[j].parent = d
          BY <1>6, <4>1, <4>2, IdsAre DEF Fresh
        <4>4. ~Fresh(node[j].parent)'
          BY <4>3 DEF Fresh
        <4> QED
          BY <1>6, <3>2, <4>1, <4>3, <4>4
      <3> QED
        BY <3>1, <3>2
    <2> QED
      BY <2>1, <2>2 DEF Placed
  <1>11. Keeps /\ NewChildren
    BY <1>6, <1>7 DEF Keeps, NewChildren
  <1> QED
    BY <1>2, <1>3, <1>6, <1>7, <1>8, <1>9, <1>10, <1>11 DEF Others

LEMMA TrashingStep ==
  ASSUME IInv, NEW t \in Tasks, NEW o, NEW w \in Ids, NEW M,
         node' = IF Present(w) THEN WithState(w, "trashed") ELSE node,
         Overtaking(t, o, {w}, M), overtaken \subseteq overtaken',
         UNCHANGED <<entries_mac, entries_mac_pending, dir_locks, buried, alarms>>,
         op[t].pc # "destroy", o.kind # "make",
         NEW E, evicted' = evicted \cup E, E \subseteq {w},
         E # {} => Present(w) /\ \A i \in ChildrenOf(w) : Trashed(i),
         Mine(t)'
  PROVE  IInv'
  <1>1. Placed /\ DOMAIN op = Tasks /\ DOMAIN dir_locks = Dirs
    BY HandlersAre
  <1>2. /\ Others(w) /\ Placed' /\ Keeps /\ NewChildren
        /\ \A j \in Ids : /\ Present(j)' <=> Present(j)
                          /\ Fresh(j)' <=> Fresh(j)
                          /\ Trashed(j) => Trashed(j)'
                          /\ (node'[j].state = "gone") <=> (node[j].state = "gone")
        /\ \A d : ChildrenOf(d)' = ChildrenOf(d) /\ EntriesOf(d)' = EntriesOf(d)
        /\ \A d : Known(d) => Above(d)' = Above(d)
        /\ Present(w) => node'[w] = [node[w] EXCEPT !.state = "trashed"]
    BY <1>1, TrashingIs
  <1>3. \A d \in Dirs : Counts(d)' => Counts(d)
    BY <1>2, IdsAre DEF Counts, Present
  <1>4. op'[t] = o
    BY <1>1 DEF Overtaking
  <1>5. Writes(t, o, w, M)
    <2>1. \A u \in Tasks \ {t} : op[u].kind = "make" /\ op[u].pc # "commit" /\ op[u].id = w => Fresh(w)'
      BY <1>2, HandlersAre DEF Fits
    <2> QED
      BY <1>2, <1>3, <2>1 DEF Writes
  <1>6. \A u \in Tasks \ {t} : SameTask(op'[u], op[u])
    BY <1>5, OtherTasks
  <1>7. FirstToMake(t)
    BY <1>4 DEF FirstToMake
  <1>8. Tagged'
    BY <1>2, <1>3 DEF IInv, Tagged, TagsOf
  <1>9. Emptied'
    <2>1. ASSUME NEW v \in evicted
          PROVE  /\ v \in Ids /\ node'[v].state \in {"trashed", "gone"}
                 /\ \A i \in ChildrenOf(v)' : Trashed(i)' \/ i \in overtaken'
      <3>1. /\ v \in Ids /\ node[v].state \in {"trashed", "gone"}
            /\ \A i \in ChildrenOf(v) : Trashed(i) \/ i \in overtaken
        BY <2>1 DEF IInv, Emptied
      <3>2. node'[v].state \in {"trashed", "gone"}
        <4>1. CASE v = w /\ Present(w)
          <5>1. node[w] \in Docs
            BY <1>1 DEF Placed
          <5> QED
            BY <1>2, <4>1, <5>1 DEF Docs
        <4>2. CASE v # w
          BY <1>2, <3>1, <4>2 DEF Others
        <4>3. CASE v = w /\ ~Present(w)
          BY <3>1, <4>3
        <4> QED
          BY <4>1, <4>2, <4>3
      <3>3. ChildrenOf(v) \subseteq Ids
        BY DEF ChildrenOf
      <3> QED
        BY <1>2, <3>1, <3>2, <3>3
    <2>2. ASSUME NEW v \in E
          PROVE  /\ v \in Ids /\ node'[v].state \in {"trashed", "gone"}
                 /\ \A i \in ChildrenOf(v)' : Trashed(i)' \/ i \in overtaken'
      <3>1. v = w /\ Present(w) /\ node[w] \in Docs
        BY <1>1, <2>2 DEF Placed
      <3>2. node'[w].state = "trashed"
        BY <1>2, <3>1 DEF Docs
      <3>3. ChildrenOf(w) \subseteq Ids /\ \A i \in ChildrenOf(w) : Trashed(i)
        BY <2>2 DEF ChildrenOf
      <3> QED
        BY <1>2, <3>1, <3>2, <3>3
    <2> QED
      BY <2>1, <2>2 DEF Emptied
  <1>10. NothingIsLost'
    <2> SUFFICES ASSUME NEW i \in Ids, Present(i)'
                 PROVE  \/ ReachesRoot(i)' \/ i \in HalfPurged'
                        \/ ({i} \cup Above(i)') \cap overtaken' # {}
      BY DEF NothingIsLost
    <2>1. Present(i) /\ Known(i) /\ Above(i)' = Above(i)
      BY <1>2, PresentIsKnown
    <2>2. ReachesRoot(i)' <=> ReachesRoot(i)
      BY <2>1 DEF ReachesRoot
    <2>3. HalfPurged \subseteq HalfPurged'
      BY <1>6, HalfPurgedKept
    <2>4. \/ ReachesRoot(i) \/ i \in HalfPurged
          \/ ({i} \cup Above(i)) \cap overtaken # {}
      BY <2>1 DEF IInv, NothingIsLost
    <2> QED
      BY <2>1, <2>2, <2>3, <2>4
  <1>11. DestroyedWasDiscarded'
    BY <1>2 DEF IInv, DestroyedWasDiscarded
  <1> QED
    BY <1>5, <1>7, <1>8, <1>9, <1>10, <1>11, WriteStep

LEMMA MarkStep ==
  ASSUME IInv, NEW t \in Tasks, Mark(t)
  PROVE  IInv'
  <1>1. PICK i : i = op[t].id
    OBVIOUS
  <1>2. PICK M : M = {node[i].parent}
    OBVIOUS
  <1>3. /\ op[t].pc = "mark"
        /\ node' = IF Present(i) THEN WithState(i, "trashed") ELSE node
        /\ Overtaking(t, Idle, {i}, M)
        /\ overtaken \subseteq overtaken'
        /\ UNCHANGED <<entries_mac, entries_mac_pending, dir_locks, buried, evicted, alarms>>
    BY <1>1, <1>2 DEF Mark, Note
  <1>4. i \in Ids /\ DOMAIN op = Tasks /\ Placed
    BY <1>1, <1>3, HandlersAre DEF Fits
  <1>5. op'[t] = Idle
    BY <1>3, <1>4 DEF Overtaking
  <1>6. Keeps
    BY <1>3, <1>4, TrashingIs
  <1>7. Mine(t)'
    <2>1. Fits(Idle)'
      BY <1>6, IdleFits, IdleIs, FitsKept
    <2>2. Sound(Idle)' /\ Signs(Idle)'
      BY IdleIs DEF Sound, Seated, Restores, Renames, Moves, Purges, Razes, Lists, Bound, Writing,
         InPurge, Signs
    <2> QED
      BY <1>5, <2>1, <2>2, IdleLocked DEF Mine
  <1>8. evicted' = evicted \cup {}
    BY <1>3
  <1> QED
    BY <1>3, <1>4, <1>7, <1>8, IdleIs, TrashingStep

\* What a handler that goes on trashes is not on the way to where it writes.
LEMMA BoundTrashing ==
  ASSUME Placed, Placed', NEW w \in Ids, Others(w), NEW o, Fits(o), Sound(o), ~o.raced, Bound(o),
         w \notin Line(o.dst), o.kind = "restore" => w # o.id,
         o.kind = "rename" => w \notin Line(o.id),
         NEW p, p.raced = o.raced, p.kind = o.kind, p.id = o.id, p.seen = o.seen, p.dst = o.dst,
         p.path = o.path, o.chain \subseteq p.chain, p.pc # "read", Bound(p),
         Purges(p)', Razes(p)'
  PROVE  Sound(p)'
  <1>1. Seated(o) /\ Restores(o) /\ Renames(o) /\ Moves(o)
    BY DEF Sound
  <1>2. Known(o.dst) /\ LiveLine(o.dst) /\ Line(o.dst) \subseteq o.chain
    BY <1>1, IdsAre DEF Bound, Fits, Seat, Known, Seated
  <1>3. Line(o.dst)' = Line(o.dst) /\ LiveLine(o.dst)'
    BY <1>2, LineSame
  <1>a. PICK d : d = o.dst
    OBVIOUS
  <1>b. Line(d)' = Line(d) /\ LiveLine(d)' /\ Line(d) \subseteq o.chain /\ Line(d) = Line(o.dst)
    BY <1>2, <1>3, <1>a
  <1>4. Seated(p)'
    BY <1>a, <1>b DEF Seated
  <1>5. Restores(p)'
    <2> SUFFICES ASSUME p.kind = "restore" PROVE Restores(p)'
      BY DEF Restores
    <2>1. o.id \in o.chain /\ node[o.id] = o.seen /\ o.seen.state = "trashed" /\ o.id \in Ids
      BY <1>1 DEF Restores, Fits, Drawn
    <2>2. node'[o.id] = o.seen
      BY <2>1 DEF Others
    <2> QED
      BY <2>1, <2>2 DEF Restores
  <1>6. Renames(p)'
    <2> SUFFICES ASSUME p.kind = "rename" PROVE Renames(p)'
      BY DEF Renames
    <2>1. Known(o.id) /\ o.id \in Ids /\ Line(o.id) \subseteq o.chain /\ o.id # w /\ node[o.id] = o.seen
      BY <1>1 DEF Fits, Drawn, Known, Renames, Line, Bound
    <2>2. Line(o.id)' = Line(o.id) /\ node'[o.id] = o.seen
      BY <2>1, LineSame DEF Others
    <2>3. PICK old \in Seq(Names) : /\ old # <<>> /\ o.id \in Resolve(old) /\ old # o.path
                                    /\ ~BelowItself(o.id, old, o.path)
      BY <1>1 DEF Renames, Bound
    <2>4. o.id \in Resolve(old)'
      BY <2>1, <2>3, ResolveKept
    <2>5. ~BelowItself(p.id, old, p.path)'
      BY <2>3 DEF BelowItself
    <2>6. Line(p.id)' \subseteq p.chain
      BY <2>1, <2>2
    <2> QED
      BY <2>2, <2>3, <2>4, <2>5, <2>6 DEF Renames
  <1>7. Moves(p)'
    <2> SUFFICES ASSUME p.kind = "rename" PROVE Moves(p)'
      BY DEF Moves
    <2>1. Front(o.path) \in Seq(Names) /\ o.dst \in Resolve(Front(o.path)) /\ o.id \notin Line(o.dst)
      BY <1>1, FrontIs DEF Fits, Routes, Moves
    <2>2. o.dst \in Resolve(Front(o.path))'
      BY <2>1, ResolveKept
    <2>3. p.id \notin Line(p.dst)'
      BY <1>3, <2>1
    <2> QED
      BY <2>2, <2>3 DEF Moves
  <1> QED
    BY <1>4, <1>5, <1>6, <1>7 DEF Sound, Lists

LEMMA RestoreDecideStep ==
  ASSUME IInv, NEW t \in Tasks, NEW choice, RestoreDecide(t, choice)
  PROVE  IInv'
  <1>1. PICK o : o = op[t]
    OBVIOUS
  <1>2. /\ o.pc = "decide" /\ o.kind = "restore"
        /\ UNCHANGED <<entries_mac, entries_mac_pending, overtaken, buried, evicted, alarms>>
    BY <1>1 DEF RestoreDecide, observers
  <1>3. /\ Fits(o) /\ Sound(o) /\ Record(o) /\ Locked(t) /\ Placed
        /\ DOMAIN op = Tasks /\ DOMAIN dir_locks = Dirs
        /\ o.name = o.seen.name /\ o.dst = o.seen.parent /\ o.name \in Names /\ Drawn(o.id, o.seen)
        /\ DOMAIN o.tag = {}
    BY <1>1, <1>2, HandlersAre DEF Fits, Writing
  <1>a. AlarmsHaveARace'
    BY <1>2, AlarmsSame
  <1>4. CASE Goto(t, "mutate") /\ UNCHANGED <<node, dir_locks>>
    <2>1. PICK p : p = [o EXCEPT !.pc = "mutate"]
      OBVIOUS
    <2>2. DOMAIN op' = Tasks /\ op'[t] = p /\ \A u \in Tasks \ {t} : op'[u] = op[u]
      BY <1>1, <1>4, <2>1, GotoIs
    <2>5. UNCHANGED <<node, entries_mac, entries_mac_pending, dir_locks, overtaken, buried,
                       evicted, alarms>>
      BY <1>2, <1>4
    <2>3. /\ Record(p) /\ p.pc = "mutate" /\ p.name = o.name
          /\ p.raced = o.raced /\ p.kind = o.kind /\ p.id = o.id /\ p.seen = o.seen
          /\ p.dst = o.dst /\ p.path = o.path /\ p.locks = o.locks
          /\ p.victim = o.victim /\ p.held = o.held /\ p.tag = o.tag /\ p.chain = o.chain
      <3>1. Record(o)
        BY <1>3
      <3> QED
        BY <2>1, <3>1, StepIs
    <2>6. Decided(t, o, p)
      BY <1>1, <1>2, <1>3, <2>2, <2>3, <2>5 DEF Decided
    <2> QED
      BY <2>6, DecidedStep
  <1>5. CASE Leave(t) /\ UNCHANGED node
    BY <1>1, <1>2, <1>5, <1>a, LeaveStep
  <1>6. ASSUME NEW n \in Names, op' = [op EXCEPT ![t].pc = "stage", ![t].name = n],
               UNCHANGED <<node, dir_locks>>
        PROVE  IInv'
    <2>1. PICK p : p = [o EXCEPT !.pc = "stage", !.name = n]
      OBVIOUS
    <2>2. DOMAIN op' = Tasks /\ op'[t] = p /\ \A u \in Tasks \ {t} : op'[u] = op[u]
      BY <1>1, <1>3, <1>6, <2>1
    <2>5. UNCHANGED <<node, entries_mac, entries_mac_pending, dir_locks, overtaken, buried,
                       evicted, alarms>>
      BY <1>2, <1>6
    <2>6. Decided(t, o, p)
      BY <1>1, <1>2, <1>3, <2>1, <2>2, <2>5 DEF Decided, Record, Idle
    <2> QED
      BY <2>6, DecidedStep
  <1>7. ASSUME NEW v \in LiveAt(o.seen.parent, o.seen.name),
               node' = WithState(v, "trashed"),
               Overtaking(t, [o EXCEPT !.pc = "mutate"], {v}, {o.dst}),
               UNCHANGED dir_locks
        PROVE  IInv'
    <2>1. PICK p : p = [o EXCEPT !.pc = "mutate"]
      OBVIOUS
    <2>2. /\ Record(p) /\ p.pc = "mutate"
          /\ p.raced = o.raced /\ p.kind = o.kind /\ p.id = o.id /\ p.seen = o.seen
          /\ p.dst = o.dst /\ p.name = o.name /\ p.path = o.path /\ p.locks = o.locks
          /\ p.victim = o.victim /\ p.held = o.held /\ p.tag = o.tag /\ p.chain = o.chain
      BY <1>3, <2>1, StepIs
    <2>3. v \in Ids /\ Present(v) /\ node[v].parent = o.dst /\ ~Trashed(v) /\ v # Root
      BY <1>3, <1>7, IdsAre DEF LiveAt, LiveChildren, ChildrenOf
    <2>4. node' = IF Present(v) THEN WithState(v, "trashed") ELSE node
      BY <1>7, <2>3
    <2>5. Others(v) /\ Placed' /\ Keeps
      BY <1>3, <2>3, <2>4, TrashingIs
    <2>6. Fits(p)
      BY <1>2, <1>3, <2>2 DEF Fits, Writing, InPurge
    <2>7. Fits(p)'
      BY <1>2, <2>2, <2>5, <2>6, FitsKept
    <2>8. Sound(p)'
      <3> SUFFICES ASSUME ~p.raced PROVE Sound(p)'
        BY DEF Sound
      <3>1. Bound(o) /\ Bound(p) /\ LiveLine(o.dst) /\ Known(o.dst) /\ node[o.id].state = "trashed"
        BY <1>2, <1>3, <2>2, IdsAre DEF Bound, Writing, Sound, Seated, Restores, Fits, Seat, Known
      <3>2. v \notin Line(o.dst)
        BY <1>3, <2>3, <3>1, NoLoop
      <3>3. v # o.id
        BY <2>3, <3>1 DEF Trashed
      <3>4. Purges(p)' /\ Razes(p)'
        BY <2>2 DEF Purges, InPurge, Razes
      <3> QED
        BY <1>2, <1>3, <2>2, <2>3, <2>5, <3>1, <3>2, <3>3, <3>4, BoundTrashing
    <2>9. Signs(p)'
      BY <1>3, <2>2 DEF Signs
    <2>10. op'[t] = p
      BY <1>3, <1>7, <2>1 DEF Overtaking
    <2>11. Locked(t)'
      BY <1>1, <1>2, <1>3, <1>7, <2>2, <2>10 DEF Locked, Holding, Writing
    <2>12. Mine(t)'
      BY <2>7, <2>8, <2>9, <2>10, <2>11 DEF Mine
    <2>13. PICK E : E = {}
      OBVIOUS
    <2>14. /\ evicted' = evicted \cup E /\ E \subseteq {v} /\ overtaken \subseteq overtaken'
           /\ UNCHANGED <<entries_mac, entries_mac_pending, dir_locks, buried, alarms>>
           /\ Overtaking(t, p, {v}, {o.dst}) /\ op[t].pc # "destroy" /\ p.kind # "make"
      BY <1>1, <1>2, <1>7, <2>1, <2>2, <2>13
    <2> QED
      BY <2>3, <2>4, <2>12, <2>13, <2>14, TrashingStep
  <1> QED
    BY <1>1, <1>2, <1>4, <1>5, <1>6, <1>7 DEF RestoreDecide

LEMMA RenameDecideStep ==
  ASSUME IInv, NEW t \in Tasks, RenameDecide(t)
  PROVE  IInv'
  <1>1. PICK o : o = op[t]
    OBVIOUS
  <1>2. /\ o.pc = "decide" /\ o.kind = "rename"
        /\ UNCHANGED <<entries_mac, entries_mac_pending, overtaken, buried, alarms>>
    BY <1>1 DEF RenameDecide
  <1>3. /\ Fits(o) /\ Sound(o) /\ Record(o) /\ Locked(t) /\ Placed
        /\ DOMAIN op = Tasks /\ DOMAIN dir_locks = Dirs
        /\ o.name \in Names /\ Drawn(o.id, o.seen) /\ o.path \in Seq(Names) /\ o.path # <<>>
        /\ DOMAIN o.tag = {}
    BY <1>1, <1>2, HandlersAre DEF Fits, Writing
  <1>a. AlarmsHaveARace'
    BY <1>2, AlarmsSame
  <1>4. CASE Goto(t, "stage") /\ UNCHANGED <<node, dir_locks, evicted>>
    <2>1. PICK p : p = [o EXCEPT !.pc = "stage"]
      OBVIOUS
    <2>2. DOMAIN op' = Tasks /\ op'[t] = p /\ \A u \in Tasks \ {t} : op'[u] = op[u]
      BY <1>1, <1>4, <2>1, GotoIs
    <2>5. UNCHANGED <<node, entries_mac, entries_mac_pending, dir_locks, overtaken, buried,
                       evicted, alarms>>
      BY <1>2, <1>4
    <2>3. /\ Record(p) /\ p.pc = "stage" /\ p.name = o.name
          /\ p.raced = o.raced /\ p.kind = o.kind /\ p.id = o.id /\ p.seen = o.seen
          /\ p.dst = o.dst /\ p.path = o.path /\ p.locks = o.locks
          /\ p.victim = o.victim /\ p.held = o.held /\ p.tag = o.tag /\ p.chain = o.chain
      <3>1. Record(o)
        BY <1>3
      <3> QED
        BY <2>1, <3>1, StepIs
    <2>6. Decided(t, o, p)
      BY <1>1, <1>2, <1>3, <2>2, <2>3, <2>5 DEF Decided
    <2> QED
      BY <2>6, DecidedStep
  <1>5. CASE Leave(t) /\ UNCHANGED <<node, evicted>>
    BY <1>1, <1>2, <1>5, <1>a, LeaveStep
  <1>6. ASSUME NEW v \in Resolve(o.path), ~OccupantInTheWay(o, v),
               node' = WithState(v, "trashed"), evicted' = evicted \cup {v},
               Overtaking(t, [o EXCEPT !.pc = "evictLock", !.victim = v,
                                       !.held = [node[v] EXCEPT !.state = "trashed"],
                                       !.chain = @ \cup {v} \cup Above(v), !.watch = {v}],
                          {v}, {node[v].parent}),
               UNCHANGED dir_locks
        PROVE  IInv'
    <2>1. PICK held : held = [node[v] EXCEPT !.state = "trashed"]
      OBVIOUS
    <2>a. PICK p : p = [o EXCEPT !.pc = "evictLock", !.victim = v, !.held = held,
                                 !.chain = o.chain \cup {v} \cup Above(v), !.watch = {v}]
      OBVIOUS
    <2>b. [o EXCEPT !.pc = "evictLock", !.victim = v,
                                       !.held = [node[v] EXCEPT !.state = "trashed"],
                                       !.chain = @ \cup {v} \cup Above(v), !.watch = {v}] = p
      BY <1>3, <2>1, <2>a
    <2>2. /\ Record(p) /\ p.pc = "evictLock" /\ p.victim = v /\ p.held = held
          /\ o.chain \subseteq p.chain /\ v \in p.chain
          /\ p.raced = o.raced /\ p.kind = o.kind /\ p.id = o.id /\ p.seen = o.seen
          /\ p.dst = o.dst /\ p.name = o.name /\ p.path = o.path /\ p.locks = o.locks
          /\ p.tag = o.tag
      BY <1>3, <2>a DEF Record, Idle
    <2>3. o.path \in Routes /\ v \in Ids /\ v # Root /\ LiveLine(v) /\ Known(v)
      BY <1>3, ResolveIs, IdsAre DEF Routes
    <2>4. Present(v) /\ ~Trashed(v) /\ node[v] \in Docs
      BY <1>3, <2>3, LiveIsPresent DEF LiveLine, Line, Placed
    <2>5. node' = IF Present(v) THEN WithState(v, "trashed") ELSE node
      BY <1>6, <2>4
    <2>6. Others(v) /\ Placed' /\ Keeps /\ node'[v] = held
      BY <1>3, <2>1, <2>3, <2>4, <2>5, TrashingIs
    <2>7. /\ held.state = "trashed" /\ held.parent = node[v].parent /\ held.name = node[v].name
      BY <2>1, <2>4 DEF Docs
    <2>8. Drawn(v, held)
      <3>1. node[v] # Doc("fresh", NoId, NoName) /\ ~Fresh(v)
        <4>1. node[v].state # "fresh" /\ ~Fresh(v)
          BY <2>3 DEF Known, Fresh
        <4> QED
          BY <4>1 DEF Doc
      <3> QED
        BY <1>3, <2>3, <2>7, <3>1 DEF Placed, Drawn, Seat
    <2>9. Fits(p)
      BY <1>2, <1>3, <2>2, <2>8 DEF Fits, Writing, InPurge
    <2>10. Fits(p)'
      BY <1>2, <2>2, <2>6, <2>9, FitsKept
    <2>11. Sound(p)'
      <3> SUFFICES ASSUME ~p.raced PROVE Sound(p)'
        BY DEF Sound
      <3>1. Bound(o) /\ Bound(p) /\ Moves(o) /\ Renames(o)
        BY <1>2, <1>3, <2>2 DEF Bound, Writing, Sound
      <3>2. /\ Front(o.path) \in Seq(Names) /\ Len(o.path) \in Nat \ {0}
            /\ Len(Front(o.path)) = Len(o.path) - 1
            /\ o.dst \in Resolve(Front(o.path))
        BY <1>2, <2>3, <3>1, FrontIs DEF Moves
      <3>3. v \notin Line(o.dst)
        <4>1. ASSUME v \in Line(o.dst) PROVE Len(o.path) <= Len(Front(o.path))
          BY <1>3, <1>6, <2>3, <3>2, <4>1, WalkThrough
        <4> QED
          BY <3>2, <4>1
      <3>4. v \notin Line(o.id)
        <4>1. PICK old \in Seq(Names) : /\ old # <<>> /\ o.id \in Resolve(old) /\ old # o.path
                                        /\ ~BelowItself(o.id, old, o.path)
          BY <1>2, <3>1 DEF Renames, Bound
        <4>2. SUFFICES ASSUME v \in Line(o.id) PROVE FALSE
          OBVIOUS
        <4>3. /\ Len(o.path) \in Nat \ {0} /\ Len(old) \in Nat \ {0} /\ Len(o.path) <= Len(old)
              /\ \A j \in 1 .. Len(o.path) : o.path[j] = old[j]
              /\ \E w \in Walks(old) : o.id = w[Len(old)] /\ v = w[Len(o.path)]
          BY <1>3, <1>6, <2>3, <4>1, <4>2, WalkThrough
        <4>4. Len(o.path) # Len(old)
          <5>1. Len(o.path) = Len(old) => o.path = old
            BY <1>3, <4>1, <4>3, SeqEqual
          <5> QED
            BY <4>1, <5>1
        <4>5. PICK w \in Walks(old) : o.id = w[Len(old)] /\ v = w[Len(o.path)]
          BY <4>3
        <4>6. PICK n : n = Len(o.path) + 1
          OBVIOUS
        <4>7. n \in 1 .. Len(old) /\ n # 1 /\ n - 1 = Len(o.path)
          BY <4>3, <4>4, <4>6
        <4>8. w[n] \in LiveAt(v, old[n])
          BY <4>5, <4>7 DEF Walks
        <4>9. w[n] \in LiveChildren(v) /\ w[n] \in Ids
          BY <4>8 DEF LiveAt, LiveChildren, ChildrenOf
        <4>10. node[w[n]].parent = v /\ node[w[n]].state = "live"
          <5>1. old \in Routes
            BY <4>1 DEF Routes
          <5>2. w[n - 1] = v
            BY <4>5, <4>7
          <5> QED
            BY <4>7, <5>1, <5>2, WalkIs
        <4>11. v \in Dirs
          <5>1. node[w[n]] # Doc("fresh", NoId, NoName)
            BY <4>10 DEF Doc
          <5> QED
            BY <1>3, <4>9, <4>10, <5>1 DEF Placed
        <4> QED
          BY <1>6, <2>3, <4>9, <4>11, IdsAre DEF OccupantInTheWay
      <3>5. Purges(p)' /\ Razes(p)'
        BY <2>2, <2>6, <2>7 DEF Purges, Razes
      <3> QED
        BY <1>2, <1>3, <2>2, <2>3, <2>6, <3>1, <3>3, <3>4, <3>5, BoundTrashing
    <2>12. Signs(p)'
      BY <1>3, <2>2 DEF Signs
    <2>13. op'[t] = p
      BY <1>3, <1>6, <2>b DEF Overtaking
    <2>14. Locked(t)'
      BY <1>1, <1>2, <1>3, <1>6, <2>2, <2>13 DEF Locked, Holding, Writing
    <2>15. Mine(t)'
      BY <2>10, <2>11, <2>12, <2>13, <2>14 DEF Mine
    <2>16. \A i \in ChildrenOf(v) : Trashed(i)
      <3> SUFFICES ASSUME NEW i \in ChildrenOf(v), ~Trashed(i) PROVE FALSE
        OBVIOUS
      <3>1. i \in Ids /\ Present(i) /\ node[i].parent = v /\ i \in LiveChildren(v) /\ i # Root
        BY IdsAre DEF ChildrenOf, LiveChildren
      <3>2. node[i] # Doc("fresh", NoId, NoName)
        BY <3>1 DEF Present, Doc
      <3>3. v \in Dirs
        BY <1>3, <3>1, <3>2 DEF Placed
      <3> QED
        BY <1>6, <2>3, <3>1, <3>3, IdsAre DEF OccupantInTheWay
    <2> QED
      BY <1>1, <1>2, <1>6, <2>b, <2>2, <2>3, <2>4, <2>5, <2>15, <2>16, TrashingStep
  <1> QED
    BY <1>1, <1>2, <1>4, <1>5, <1>6 DEF RenameDecide
-----------------------------------------------------------------------------
(* The change itself.                                                      *)

LEMMA UpAlways ==
  Placed => \A d : Known(d) => \A j \in Above(d) : Present(j) => Above(j) \subseteq Above(d)
  BY UpFrom

LEMMA UpNext ==
  (Placed => \A d : Known(d) => \A j \in Above(d) : Present(j) => Above(j) \subseteq Above(d))'
  BY UpAlways, PTL

\* A document is put into a directory, under a name.
Puts(i, st, q, n) ==
  /\ i \in Ids /\ st \in {"live", "trashed"} /\ q \in Dirs /\ ~Fresh(q) /\ n \in Names
  /\ node' = [node EXCEPT ![i] = Doc(st, q, n)]

LEMMA PuttingIs ==
  ASSUME Placed, NEW i, NEW st, NEW q, NEW n, Puts(i, st, q, n)
  PROVE  /\ Others(i) /\ Placed' /\ Keeps /\ node'[i] = Doc(st, q, n) /\ Present(i)'
         /\ \A d : ChildrenOf(d)' = (ChildrenOf(d) \ {i}) \cup (IF d = q THEN {i} ELSE {})
         /\ \A d : EntriesOf(d)' = (EntriesOf(d) \ {<<i, node[i].name>>})
                                     \cup (IF d = q THEN {<<i, n>>} ELSE {})
  <1>a. /\ i \in Ids /\ st \in {"live", "trashed"} /\ q \in Dirs /\ ~Fresh(q) /\ n \in Names
        /\ node' = [node EXCEPT ![i] = Doc(st, q, n)]
    BY DEF Puts
  <1>1. node \in [Ids -> Docs] /\ i # Root
    BY <1>a, IdsAre DEF Placed
  <1>2. /\ (\A j \in Ids \ {i} : node'[j] = node[j]) /\ node'[i] = Doc(st, q, n)
        /\ node'[i].state = st /\ node'[i].parent = q /\ node'[i].name = n
    BY <1>a, <1>1 DEF Doc
  <1>3. Others(i) /\ Present(i)' /\ ~Fresh(i)' /\ i \in ChildrenOf(q)'
    BY <1>a, <1>1, <1>2 DEF Others, Present, Fresh, ChildrenOf
  <1>4. Keeps
    BY <1>a, <1>2, <1>3, IdsAre DEF Keeps, Fresh
  <1>5. \A j \in Ids \ {i} : Present(j)' <=> Present(j)
    BY <1>a, <1>2 DEF Present
  <1>6. \A d : ChildrenOf(d)' = (ChildrenOf(d) \ {i}) \cup (IF d = q THEN {i} ELSE {})
    <2> SUFFICES ASSUME NEW d, NEW j
                 PROVE  j \in ChildrenOf(d)' <=>
                          (j \in ChildrenOf(d) /\ j # i) \/ (d = q /\ j = i)
      OBVIOUS
    <2>1. CASE j = i
      BY <1>a, <1>1, <1>2, <1>3, <2>1 DEF ChildrenOf
    <2>2. CASE j # i
      BY <1>a, <1>2, <1>5, <2>2 DEF ChildrenOf
    <2> QED
      BY <2>1, <2>2
  <1>7. \A d : EntriesOf(d)' = (EntriesOf(d) \ {<<i, node[i].name>>})
                                 \cup (IF d = q THEN {<<i, n>>} ELSE {})
    <2> SUFFICES ASSUME NEW d, NEW e
                 PROVE  e \in EntriesOf(d)' <=>
                          (e \in EntriesOf(d) /\ e # <<i, node[i].name>>) \/ (d = q /\ e = <<i, n>>)
      OBVIOUS
    <2>1. ASSUME e \in EntriesOf(d)'
          PROVE  (e \in EntriesOf(d) /\ e # <<i, node[i].name>>) \/ (d = q /\ e = <<i, n>>)
      <3>1. PICK j \in ChildrenOf(d)' : e = <<j, node'[j].name>>
        BY <2>1 DEF EntriesOf
      <3>2. j \in Ids
        BY <3>1 DEF ChildrenOf
      <3>3. CASE j = i
        BY <1>a, <1>2, <1>6, <3>1, <3>3
      <3>4. CASE j # i
        BY <1>a, <1>2, <1>6, <3>1, <3>2, <3>4 DEF EntriesOf
      <3> QED
        BY <3>3, <3>4
    <2>2. ASSUME e \in EntriesOf(d), e # <<i, node[i].name>> PROVE e \in EntriesOf(d)'
      <3>1. PICK j \in ChildrenOf(d) : e = <<j, node[j].name>>
        BY <2>2 DEF EntriesOf
      <3>2. j \in Ids /\ j # i
        BY <2>2, <3>1 DEF ChildrenOf
      <3>3. j \in ChildrenOf(d)' /\ e = <<j, node'[j].name>>
        BY <1>a, <1>2, <1>6, <3>1, <3>2
      <3> QED
        BY <3>3 DEF EntriesOf
    <2>3. ASSUME d = q, e = <<i, n>> PROVE e \in EntriesOf(d)'
      BY <1>a, <1>2, <1>3, <2>3 DEF EntriesOf
    <2> QED
      BY <2>1, <2>2, <2>3
  <1>8. Placed'
    <2>1. node' \in [Ids -> Docs]
      <3>1. Doc(st, q, n) \in Docs
        BY <1>a DEF Doc, Docs
      <3> QED
        BY <1>a, <1>1, <3>1
    <2>2. ASSUME NEW j \in Ids
          PROVE  \/ node'[j] = Doc("fresh", NoId, NoName)
                 \/ /\ ~Fresh(j)' /\ node'[j].parent \in Dirs /\ ~Fresh(node[j].parent)'
                    /\ node'[j].name \in Names
      <3>a. \A d \in Dirs : ~Fresh(d) => ~Fresh(d)'
        BY <1>a, <1>4, IdsAre DEF Keeps, Fresh
      <3>1. CASE j = i
        <4>1. ~Fresh(q)' /\ node'[j].parent = q
          BY <1>a, <1>2, <3>1, <3>a
        <4>2. ~Fresh(node[j].parent)'
          BY <4>1 DEF Fresh
        <4> QED
          BY <1>a, <1>2, <1>3, <3>1, <4>2
      <3>2. CASE j # i /\ node[j] = Doc("fresh", NoId, NoName)
        BY <1>a, <1>2, <3>2
      <3>3. CASE j # i /\ node[j] # Doc("fresh", NoId, NoName)
        <4>1. PICK d : d = node[j].parent
          OBVIOUS
        <4>2. d \in Dirs /\ ~Fresh(d) /\ ~Fresh(j) /\ node[j].name \in Names
          BY <3>3, <4>1 DEF Placed
        <4>3. ~Fresh(d)' /\ node'[j].parent = d
          BY <1>a, <1>2, <3>3, <3>a, <4>1, <4>2
        <4>4. ~Fresh(node[j].parent)' /\ ~Fresh(j)'
          BY <1>a, <1>4, <4>2, <4>3 DEF Fresh, Keeps
        <4> QED
          BY <1>a, <1>2, <3>3, <4>2, <4>3, <4>4
      <3> QED
        BY <3>1, <3>2, <3>3
    <2> QED
      BY <2>1, <2>2 DEF Placed
  <1> QED
    BY <1>a, <1>2, <1>3, <1>4, <1>6, <1>7, <1>8

\* What a handler that was not overtaken knows as it writes.
LEMMA WriterIs ==
  ASSUME IInv, NEW t \in Tasks, NEW o, o = op[t], o.pc = "mutate"
  PROVE  /\ Placed /\ Fits(o) /\ Record(o) /\ Locked(t) /\ DOMAIN op = Tasks
         /\ o.kind \in {"make", "restore", "rename"} /\ o.id \in Ids /\ o.name \in Names
         /\ o.dst \in Dirs /\ ~Fresh(o.dst) /\ dir_locks[o.dst] = t
         /\ o.kind = "make" => Fresh(o.id) /\ node[o.id].parent = NoId /\ ~Present(o.id)
         /\ o.kind # "make" => /\ ~Fresh(o.id) /\ node[o.id].parent \in Dirs
                               /\ ~Fresh(node[o.id].parent) /\ o.seen.parent \in Dirs
         /\ o.kind = "rename" => dir_locks[o.seen.parent] = t
         /\ o.kind = "restore" => o.dst = o.seen.parent
         /\ ~o.raced => /\ LiveLine(o.dst) /\ o.id \notin Line(o.dst)
                        /\ o.kind # "make" => node[o.id] = o.seen /\ Present(o.id)
  <1>1. Placed /\ Fits(o) /\ Record(o) /\ Locked(t) /\ DOMAIN op = Tasks /\ Sound(o)
    BY HandlersAre
  <1>2. o.kind \in {"make", "restore", "rename"} /\ Writing(o) /\ Holding(o) /\ Bound(o)
    BY <1>1, IdleIs DEF Fits, InPurge, Writing, Holding, Bound
  <1>3. /\ o.id \in Ids /\ o.name \in Names /\ o.dst \in Dirs /\ ~Fresh(o.dst)
        /\ o.locks = {o.dst} \cup (IF o.kind = "rename" THEN {o.seen.parent} ELSE {})
        /\ o.kind = "make" => Fresh(o.id)
        /\ o.kind # "make" => ~Fresh(o.id) /\ o.seen.parent \in Dirs
        /\ o.kind = "restore" => o.dst = o.seen.parent
    BY <1>1, <1>2 DEF Fits, Seat, Drawn
  <1>4. \A d \in o.locks : dir_locks[d] = t
    BY <1>1, <1>2 DEF Locked
  <1>5. Fresh(o.id) => node[o.id].parent = NoId /\ ~Present(o.id)
    BY <1>1, <1>3 DEF Placed, Fresh, Present, Doc
  <1>6. ~Fresh(o.id) => node[o.id].parent \in Dirs /\ ~Fresh(node[o.id].parent)
    <2>1. ~Fresh(o.id) => node[o.id] # Doc("fresh", NoId, NoName)
      BY <1>3, IdsAre DEF Fresh, Doc
    <2> QED
      BY <1>1, <1>3, <2>1 DEF Placed
  <1>7. ASSUME ~o.raced
        PROVE  /\ LiveLine(o.dst) /\ o.id \notin Line(o.dst)
               /\ o.kind # "make" => node[o.id] = o.seen /\ Present(o.id)
    <2>1. LiveLine(o.dst) /\ Restores(o) /\ Renames(o) /\ Moves(o)
      BY <1>1, <1>2, <1>7 DEF Sound, Seated
    <2>2. CASE o.kind = "make"
      BY <1>3, <2>1, <2>2, IdsAre DEF LiveLine, Live, Fresh
    <2>3. CASE o.kind = "restore"
      <3>1. node[o.id] = o.seen /\ o.seen.state = "trashed"
        BY <1>2, <2>1, <2>3 DEF Restores
      <3> QED
        BY <1>3, <2>1, <2>3, <3>1, IdsAre DEF LiveLine, Live, Present
    <2>4. CASE o.kind = "rename"
      <3>1. node[o.id] = o.seen /\ o.id \notin Line(o.dst)
        BY <1>2, <2>1, <2>4 DEF Renames, Bound, Moves
      <3>2. PICK old \in Seq(Names) : o.id \in Resolve(old)
        BY <1>2, <2>1, <2>4 DEF Renames, Bound
      <3>3. LiveLine(o.id)
        BY <1>1, <3>2, ResolveIs
      <3>4. Present(o.id)
        BY <1>3, <3>3, LiveIsPresent DEF LiveLine, Line
      <3> QED
        BY <2>1, <2>4, <3>1, <3>4
    <2> QED
      BY <1>2, <2>2, <2>3, <2>4
  <1> QED
    BY <1>1, <1>2, <1>3, <1>4, <1>5, <1>6, <1>7

\* What the change comes to: the document is put where the handler says, or is gone.
LEMMA WrittenIs ==
  ASSUME IInv, NEW t \in Tasks, NEW o, o = op[t], o.pc = "mutate", node' = Written(o)
  PROVE  \/ o.kind # "make" /\ ~Present(o.id) /\ UNCHANGED node
         \/ \E st \in {"live", "trashed"}, q \in Dirs :
              /\ node' = [node EXCEPT ![o.id] = Doc(st, q, o.name)]
              /\ ~Fresh(q) /\ q \in {o.dst, node[o.id].parent} /\ (~o.raced => q = o.dst)
              /\ q # o.dst => q = node[o.id].parent /\ Present(o.id)
              /\ st = "live" \/ (o.kind = "rename" /\ st = node[o.id].state)
  <1>1. CASE o.kind # "make" /\ ~Present(o.id)
    BY <1>1 DEF Written
  <1>2. CASE o.kind = "make" \/ Present(o.id)
    <2>1. PICK i : i = o.id
      OBVIOUS
    <2>2. PICK st : st = IF o.kind = "rename" THEN node[i].state ELSE "live"
      OBVIOUS
    <2>3. PICK q : q = IF o.kind = "restore" THEN node[i].parent ELSE o.dst
      OBVIOUS
    <2>4. node' = [node EXCEPT ![i] = Doc(st, q, o.name)]
      <3>1. node \in [Ids -> Docs] /\ i \in Ids
        BY <2>1, WriterIs DEF Placed
      <3>2. Written(o) =
              [node EXCEPT ![i] = Doc(IF o.kind = "rename" THEN @.state ELSE "live",
                                      IF o.kind = "restore" THEN @.parent ELSE o.dst, o.name)]
        BY <1>2, <2>1 DEF Written
      <3> QED
        BY <2>2, <2>3, <3>1, <3>2
    <2>5. st \in {"live", "trashed"}
      BY <1>2, <2>1, <2>2, WriterIs, IdsAre DEF Present
    <2>6. /\ q \in Dirs /\ ~Fresh(q) /\ q \in {o.dst, node[i].parent} /\ (~o.raced => q = o.dst)
          /\ q # o.dst => q = node[i].parent /\ Present(i)
      BY <1>2, <2>1, <2>3, WriterIs
    <2> QED
      BY <2>1, <2>2, <2>4, <2>5, <2>6
  <1> QED
    BY <1>1, <1>2

\* The handler that wrote has what it staged.
LEMMA MutatedIs ==
  ASSUME IInv, NEW t \in Tasks, NEW o, o = op[t], o.pc = "mutate", Keeps,
         NEW p, p = [o EXCEPT !.pc = "commit"], op'[t] = p, UNCHANGED dir_locks,
         Signs(p)'
  PROVE  Mine(t)' /\ FirstToMake(t)
  <1>1. Fits(o) /\ Record(o) /\ Locked(t)
    BY HandlersAre
  <1>2. /\ Record(p) /\ p.pc = "commit"
        /\ p.raced = o.raced /\ p.kind = o.kind /\ p.id = o.id /\ p.seen = o.seen
        /\ p.dst = o.dst /\ p.name = o.name /\ p.path = o.path /\ p.locks = o.locks
        /\ p.victim = o.victim /\ p.held = o.held /\ p.tag = o.tag /\ p.chain = o.chain
    BY <1>1, StepIs
  <1>3. o.kind \in {"make", "restore", "rename"}
    BY WriterIs
  <1>4. Fits(p)
    BY <1>1, <1>2, <1>3 DEF Fits, Writing, InPurge
  <1>5. Fits(p)'
    BY <1>2, <1>4, FitsKept
  <1>6. Sound(p)'
    BY <1>2 DEF Sound, Seated, Restores, Renames, Moves, Purges, Razes, Lists, Bound, InPurge
  <1>7. Locked(t)'
    BY <1>1, <1>2, <1>3 DEF Locked, Holding, Writing
  <1>8. FirstToMake(t)
    BY <1>2 DEF FirstToMake
  <1> QED
    BY <1>5, <1>6, <1>7, <1>8 DEF Mine

\* What a write changes, and who vouches for it.
Mutated(t, o, i, M) ==
  /\ o = op[t] /\ o.pc = "mutate" /\ i = o.id /\ M = {o.dst, node[i].parent}
  /\ node' = Written(o)
  /\ overtaken' = IF o.raced
                  THEN overtaken \cup ({i, o.dst, node[i].parent, o.seen.parent} \cap (Ids \cup Dirs))
                  ELSE overtaken
  /\ Overtaking(t, [o EXCEPT !.pc = "commit"], {i}, M)
  /\ evicted' = {x \in evicted : node'[x].state # "live"}
  /\ UNCHANGED <<entries_mac, entries_mac_pending, dir_locks, buried, alarms>>

LEMMA MutatedWrites ==
  ASSUME IInv, NEW t \in Tasks, NEW o, NEW i, NEW M, Mutated(t, o, i, M)
  PROVE  /\ Writes(t, [o EXCEPT !.pc = "commit"], i, M)
         /\ \A d \in Dirs : Counts(d)' =>
              /\ \/ Fresh(d) /\ EntriesOf(d)' = {}
                 \/ Counts(d) /\ EntriesOf(d)' = EntriesOf(d)
                 \/ d \in DOMAIN o.tag
              /\ d \in DOMAIN o.tag =>
                   Counts(d) /\ EntriesOf(d)' = (EntriesOf(d) \ Lost(o, d)) \cup Gained(o, d)
  <1>1. /\ Placed /\ Fits(o) /\ Record(o) /\ Locked(t) /\ DOMAIN op = Tasks
        /\ o.kind \in {"make", "restore", "rename"} /\ i \in Ids /\ o.name \in Names
        /\ o.dst \in Dirs /\ ~Fresh(o.dst) /\ dir_locks[o.dst] = t
        /\ o.kind = "make" => Fresh(i) /\ node[i].parent = NoId /\ ~Present(i)
        /\ o.kind # "make" => /\ ~Fresh(i) /\ node[i].parent \in Dirs
                              /\ ~Fresh(node[i].parent) /\ o.seen.parent \in Dirs
        /\ o.kind = "rename" => dir_locks[o.seen.parent] = t
        /\ o.kind = "restore" => o.dst = o.seen.parent
        /\ ~o.raced => /\ LiveLine(o.dst) /\ i \notin Line(o.dst)
                       /\ o.kind # "make" => node[i] = o.seen /\ Present(i)
    BY WriterIs DEF Mutated
  <1>2. /\ M = {o.dst, node[i].parent} /\ node' = Written(o) /\ overtaken \subseteq overtaken'
        /\ o.raced => \A d \in M \cap Dirs : d \in overtaken'
        /\ o.raced => i \in overtaken'
        /\ o.pc = "mutate" /\ o = op[t] /\ i = o.id
    BY <1>1 DEF Mutated
  <1>a. \A d \in DOMAIN o.tag : /\ d \in Dirs /\ ~Fresh(d) /\ d \in {o.dst, o.seen.parent}
                                /\ o.raced => d \in overtaken'
    <2>1. \A d \in DOMAIN o.tag : d \in Dirs /\ ~Fresh(d)
      BY <1>1, <1>2, TagsAreHeld
    <2>2. DOMAIN o.tag \subseteq o.locks /\ o.locks \subseteq {o.dst, o.seen.parent}
      BY <1>1, <1>2 DEF Fits, Writing
    <2>3. o.raced => overtaken' = overtaken \cup
                       ({i, o.dst, node[i].parent, o.seen.parent} \cap (Ids \cup Dirs))
      BY DEF Mutated
    <2> QED
      BY <2>1, <2>2, <2>3
  <1>3. \A u \in Tasks \ {t} : op[u].kind = "make" /\ op[u].pc # "commit" => op[u].id # i
    <2> SUFFICES ASSUME NEW u \in Tasks \ {t}, op[u].kind = "make", op[u].pc # "commit", op[u].id = i
                 PROVE  FALSE
      OBVIOUS
    <2>1. Fresh(i)
      BY HandlersAre DEF Fits
    <2>2. op[t].kind = "make" /\ op[t].pc # "commit" /\ op[t].id = i
      BY <1>1, <1>2, <2>1
    <2> QED
      BY <2>2 DEF IInv, MakesApart
  <1>4. CASE o.kind # "make" /\ ~Present(i) /\ UNCHANGED node
    <2>1. \A d : EntriesOf(d)' = EntriesOf(d) /\ ChildrenOf(d)' = ChildrenOf(d)
                 /\ (Fresh(d)' <=> Fresh(d)) /\ (Present(d)' <=> Present(d))
      BY <1>4, NodeSame
    <2>2. Placed'
      BY <1>1, <1>4, NodeSame
    <2>3. Others(i) /\ Keeps /\ NewChildren
      BY <1>4, <2>1 DEF Others, Keeps, NewChildren
    <2>4. \A d \in Dirs : Counts(d)' => Counts(d)
      BY <1>2, <2>1 DEF Counts
    <2>5. Writes(t, [o EXCEPT !.pc = "commit"], i, M)
      BY <1>2, <1>3, <2>1, <2>2, <2>3, <2>4 DEF Writes, Mutated
    <2>6. o.raced
      BY <1>1, <1>4
    <2>7. \A d \in DOMAIN o.tag : ~Counts(d)'
      <3> SUFFICES ASSUME NEW d \in DOMAIN o.tag, Counts(d)' PROVE FALSE
        OBVIOUS
      <3>1. d \notin overtaken'
        BY DEF Counts
      <3> QED
        BY <1>a, <2>6, <3>1
    <2> QED
      BY <2>1, <2>4, <2>5, <2>7
  <1>5. ASSUME NEW st \in {"live", "trashed"}, NEW q \in Dirs,
               node' = [node EXCEPT ![i] = Doc(st, q, o.name)],
               ~Fresh(q), q \in {o.dst, node[i].parent}, ~o.raced => q = o.dst,
               q # o.dst => q = node[i].parent /\ Present(i)
        PROVE  /\ Writes(t, [o EXCEPT !.pc = "commit"], i, M)
               /\ \A d \in Dirs : Counts(d)' =>
                    /\ \/ Fresh(d) /\ EntriesOf(d)' = {}
                       \/ Counts(d) /\ EntriesOf(d)' = EntriesOf(d)
                       \/ d \in DOMAIN o.tag
                    /\ d \in DOMAIN o.tag =>
                         Counts(d) /\ EntriesOf(d)' = (EntriesOf(d) \ Lost(o, d)) \cup Gained(o, d)
    <2>1. /\ Others(i) /\ Placed' /\ Keeps
          /\ \A d : ChildrenOf(d)' = (ChildrenOf(d) \ {i}) \cup (IF d = q THEN {i} ELSE {})
          /\ \A d : EntriesOf(d)' = (EntriesOf(d) \ {<<i, node[i].name>>})
                                      \cup (IF d = q THEN {<<i, o.name>>} ELSE {})
      <3>1. PICK n \in Names : n = o.name
        BY <1>1
      <3>2. Puts(i, st, q, n) /\ Placed
        BY <1>1, <1>5, <3>1 DEF Puts
      <3>3. /\ Others(i) /\ Placed' /\ Keeps
            /\ \A d : ChildrenOf(d)' = (ChildrenOf(d) \ {i}) \cup (IF d = q THEN {i} ELSE {})
            /\ \A d : EntriesOf(d)' = (EntriesOf(d) \ {<<i, node[i].name>>})
                                        \cup (IF d = q THEN {<<i, n>>} ELSE {})
        BY <3>2, PuttingIs
      <3> QED
        BY <3>1, <3>3
    <2>2. \A d : d # node[i].parent \/ ~Present(i) => <<i, node[i].name>> \notin EntriesOf(d)
      <3> SUFFICES ASSUME NEW d, d # node[i].parent \/ ~Present(i), <<i, node[i].name>> \in EntriesOf(d)
                   PROVE  FALSE
        OBVIOUS
      <3>1. PICK j \in ChildrenOf(d) : <<i, node[i].name>> = <<j, node[j].name>>
        BY DEF EntriesOf
      <3> QED
        BY <3>1 DEF ChildrenOf
    <2>3. \A d \in Dirs \ M : EntriesOf(d)' = EntriesOf(d)
      BY <1>2, <1>5, <2>1, <2>2
    <2>4. NewChildren
      <3> SUFFICES ASSUME NEW d \in Dirs, NEW j \in ChildrenOf(d)', j \notin ChildrenOf(d)
                   PROVE  j \in overtaken' \/ LiveLine(d)
        BY DEF NewChildren
      <3>1. d = q /\ j = i
        BY <2>1
      <3> QED
        BY <1>1, <1>2, <1>5, <3>1
    <2>5. \A d \in Dirs : ~Fresh(d) /\ Counts(d)' => Counts(d)
      <3> SUFFICES ASSUME NEW d \in Dirs, ~Fresh(d), Counts(d)' PROVE Counts(d)
        OBVIOUS
      <3>1. d \notin overtaken
        BY <1>2 DEF Counts
      <3>2. CASE d # i
        BY <2>1, <3>1, <3>2, OthersAre, IdsAre DEF Counts
      <3>3. CASE d = i
        <4>1. o.kind # "make" /\ d \notin overtaken'
          BY <1>1, <3>3 DEF Counts
        <4>2. ~o.raced
          BY <1>2, <3>3, <4>1
        <4> QED
          BY <1>1, <3>1, <3>3, <4>1, <4>2 DEF Counts
      <3> QED
        BY <3>2, <3>3
    <2>a. ASSUME NEW d \in Dirs, ~o.raced
          PROVE  EntriesOf(d)' = (EntriesOf(d) \ Lost(o, d)) \cup Gained(o, d)
      <3>4. EntriesOf(d)' = (EntriesOf(d) \ {<<i, node[i].name>>})
                              \cup (IF d = o.dst THEN {<<i, o.name>>} ELSE {})
        BY <1>5, <2>1, <2>a
      <3>5. Gained(o, d) = IF d = o.dst THEN {<<i, o.name>>} ELSE {}
        BY <1>2 DEF Gained
      <3>6. EntriesOf(d) \ {<<i, node[i].name>>} = EntriesOf(d) \ Lost(o, d)
        <4>1. CASE o.kind = "make"
          <5>1. o.seen.parent = NoId
            BY <1>1, <4>1 DEF Fits, NoDoc, Doc
          <5>2. Lost(o, d) = {}
            BY <1>2, <5>1, IdsAre DEF Lost
          <5> QED
            BY <1>1, <2>2, <4>1, <5>2
        <4>2. CASE o.kind # "make"
          BY <1>1, <1>2, <2>2, <2>a, <4>2 DEF Lost
        <4> QED
          BY <4>1, <4>2
      <3> QED
        BY <3>4, <3>5, <3>6
    <2>6. ASSUME NEW d \in Dirs, ~Fresh(d), Counts(d)', EntriesOf(d)' # EntriesOf(d)
          PROVE  dir_locks[d] = t /\ d \in DOMAIN o.tag
      <3>1. d \in M
        BY <2>3, <2>6
      <3>2. ~o.raced
        BY <1>2, <2>6, <3>1 DEF Counts
      <3>3. dir_locks[d] = t /\ d \in o.locks
        BY <1>1, <1>2, <2>6, <3>1, <3>2, IdsAre DEF Fits, Writing
      <3>7. d \in DOMAIN o.tag
        <4>1. CASE DOMAIN o.tag = o.locks
          BY <3>3, <4>1
        <4>2. CASE DOMAIN o.tag = {} /\ o.kind = "restore" /\ o.name = o.seen.name
          <5>1. d = o.dst /\ o.dst = o.seen.parent /\ node[i] = o.seen /\ Present(i)
            BY <1>1, <1>2, <3>1, <3>2, <4>2
          <5>2. <<i, o.name>> = <<i, node[i].name>> /\ <<i, node[i].name>> \in EntriesOf(d)
            BY <1>1, <4>2, <5>1 DEF EntriesOf, ChildrenOf
          <5>3. EntriesOf(d)' = (EntriesOf(d) \ {<<i, node[i].name>>}) \cup {<<i, o.name>>}
            BY <1>5, <2>1, <3>2, <5>1
          <5> QED
            BY <2>6, <5>2, <5>3
        <4> QED
          BY <1>1, <1>2, <4>1, <4>2 DEF Fits
      <3> QED
        BY <3>3, <3>7
    <2>7. \A d \in Dirs : Fresh(d) => EntriesOf(d)' = {}
      <3> SUFFICES ASSUME NEW d \in Dirs, Fresh(d), NEW e \in EntriesOf(d)' PROVE FALSE
        OBVIOUS
      <3>1. EntriesOf(d) = {}
        <4> SUFFICES ASSUME NEW x \in EntriesOf(d) PROVE FALSE
          OBVIOUS
        <4>1. PICK j \in ChildrenOf(d) : TRUE
          BY DEF EntriesOf
        <4>2. j \in Ids /\ Present(j) /\ node[j].parent = d /\ j # Root
          BY <4>1, IdsAre DEF ChildrenOf
        <4>3. node[j] # Doc("fresh", NoId, NoName)
          BY <4>2 DEF Present, Doc
        <4> QED
          BY <1>1, <4>2, <4>3 DEF Placed
      <3> QED
        BY <1>5, <2>1, <3>1
    <2>8. Writes(t, [o EXCEPT !.pc = "commit"], i, M)
      BY <1>2, <1>3, <2>1, <2>3, <2>4, <2>5, <2>6 DEF Writes, Mutated
    <2>9. \A d \in DOMAIN o.tag : Counts(d)' =>
            Counts(d) /\ EntriesOf(d)' = (EntriesOf(d) \ Lost(o, d)) \cup Gained(o, d)
      <3> SUFFICES ASSUME NEW d \in DOMAIN o.tag, Counts(d)'
                   PROVE  Counts(d) /\ EntriesOf(d)' = (EntriesOf(d) \ Lost(o, d)) \cup Gained(o, d)
        OBVIOUS
      <3>0. d \notin overtaken'
        BY DEF Counts
      <3>1. d \in Dirs /\ ~Fresh(d) /\ ~o.raced
        BY <1>a, <3>0
      <3> QED
        BY <2>5, <2>a, <3>1
    <2> QED
      BY <2>5, <2>6, <2>7, <2>8, <2>9
  <1> QED
    BY <1>2, <1>4, <1>5, WrittenIs

\* Where the node was put, there is a way to the root; what is below it has it too.
LEMMA PutReaches ==
  ASSUME Placed, Placed', NEW i \in Ids, Others(i), NEW q \in Dirs, ~Fresh(q), LiveLine(q),
         i \notin Line(q), node'[i].parent = q, Present(i)',
         NEW k \in Ids, Known(k), i \in Line(k)
  PROVE  ReachesRoot(k)'
  <1>1. Known(q)
    BY IdsAre DEF Known
  <1>2. Line(q)' = Line(q) /\ LiveLine(q)' /\ Known(q)'
    BY <1>1, LineSame
  <1>3. Root \in Line(q)'
    BY <1>2 DEF LiveLine
  <1>4. Known(i)' /\ i # Root
    BY IdsAre DEF Known, Fresh, Present
  <1>5. q \in Above(i)'
    BY <1>4, AboveNext DEF AboveHolds
  <1>6. Present(q)'
    BY <1>1, <1>2, LiveIsPresent, OthersAre DEF LiveLine, Line, Live, Present, Known
  <1>7. Root \in Above(i)'
    <2>1. Above(q)' \subseteq Above(i)'
      BY <1>4, <1>5, <1>6, UpNext
    <2> QED
      BY <1>3, <1>5, <2>1 DEF Line
  <1>8. CASE k = i
    BY <1>4, <1>7, <1>8 DEF ReachesRoot
  <1>9. CASE k # i
    <2>1. i \in Above(k)
      BY <1>9 DEF Line
    <2>2. i \in Above(k)' /\ Known(k)'
      BY <1>9, <2>1, AboveKeeps, OthersAre
    <2>3. Above(i)' \subseteq Above(k)'
      BY <2>2, UpNext
    <2> QED
      BY <1>7, <2>3 DEF ReachesRoot
  <1> QED
    BY <1>8, <1>9

\* What a write leaves of the promise that nothing is lost, away from the document.
LEMMA NotLostAway ==
  ASSUME IInv, Placed', NEW i \in Ids, Others(i), overtaken \subseteq overtaken',
         NEW k \in Ids \ {i}, Present(k)', i \notin Line(k) \/ i \in overtaken',
         k \in HalfPurged => k \in HalfPurged' \/ k \in overtaken'
  PROVE  \/ ReachesRoot(k)' \/ k \in HalfPurged'
         \/ ({k} \cup Above(k)') \cap overtaken' # {}
  <1>1. Placed /\ Present(k) /\ Known(k)
    BY HandlersAre, OthersAre, PresentIsKnown DEF IInv
  <1>2. \/ ReachesRoot(k) \/ k \in HalfPurged
        \/ ({k} \cup Above(k)) \cap overtaken # {}
    BY <1>1 DEF IInv, NothingIsLost
  <1>3. CASE i \notin Line(k)
    <2>1. Above(k)' = Above(k)
      BY <1>1, <1>3, AboveSame
    <2>2. ReachesRoot(k)' <=> ReachesRoot(k)
      BY <2>1 DEF ReachesRoot
    <2> QED
      BY <1>2, <2>1, <2>2
  <1>4. CASE i \in Line(k) /\ i \in overtaken'
    <2>1. i \in Above(k)'
      BY <1>1, <1>4, AboveKeeps DEF Line
    <2> QED
      BY <1>4, <2>1
  <1> QED
    BY <1>3, <1>4

LEMMA MutatedKeeps ==
  ASSUME IInv, NEW t \in Tasks, NEW o, NEW i, NEW M, Mutated(t, o, i, M)
  PROVE  NothingIsLost' /\ Emptied' /\ DestroyedWasDiscarded'
  <1>1. /\ Placed /\ i \in Ids /\ o.dst \in Dirs /\ ~Fresh(o.dst) /\ i = o.id /\ o = op[t]
        /\ o.pc = "mutate" /\ node' = Written(o)
        /\ ~o.raced => /\ LiveLine(o.dst) /\ i \notin Line(o.dst)
                       /\ o.kind # "make" => Present(i)
        /\ o.name \in Names
        /\ o.kind = "make" => Fresh(i)
    BY WriterIs DEF Mutated
  <1>2. /\ overtaken \subseteq overtaken' /\ (o.raced => i \in overtaken')
        /\ evicted' = {x \in evicted : node'[x].state # "live"} /\ buried' = buried
    BY <1>1 DEF Mutated
  <1>3. Writes(t, [o EXCEPT !.pc = "commit"], i, M)
    BY MutatedWrites
  <1>4. Placed' /\ Others(i)
    BY <1>3 DEF Writes
  <1>5. \A u \in Tasks \ {t} : SameTask(op'[u], op[u])
    BY <1>1, <1>3, OtherTasks
  <1>6. HalfPurged \subseteq HalfPurged'
    BY <1>1, <1>5, HalfPurgedKept
  <1>7. CASE o.kind # "make" /\ ~Present(i) /\ UNCHANGED node
    <2>1. i \in overtaken'
      BY <1>1, <1>2, <1>7
    <2>2. NothingIsLost'
      BY <1>1, <1>2, <1>4, <1>6, <2>1, NotLostAway DEF NothingIsLost
    <2>3. Emptied'
      BY <1>2, <1>7, NodeSame DEF IInv, Emptied
    <2>4. DestroyedWasDiscarded'
      BY <1>2, <1>7 DEF IInv, DestroyedWasDiscarded
    <2> QED
      BY <2>2, <2>3, <2>4
  <1>8. ASSUME NEW st \in {"live", "trashed"}, NEW q \in Dirs,
               node' = [node EXCEPT ![i] = Doc(st, q, o.name)],
               ~Fresh(q), ~o.raced => q = o.dst,
               st = "live" \/ (o.kind = "rename" /\ st = node[i].state)
        PROVE  NothingIsLost' /\ Emptied' /\ DestroyedWasDiscarded'
    <2>1. PICK n \in Names : n = o.name
      BY <1>1
    <2>2. Puts(i, st, q, n)
      BY <1>1, <1>8, <2>1 DEF Puts
    <2>3. /\ node'[i] = Doc(st, q, n) /\ Present(i)'
          /\ \A d : ChildrenOf(d)' = (ChildrenOf(d) \ {i}) \cup (IF d = q THEN {i} ELSE {})
      BY <1>1, <2>2, PuttingIs
    <2>4. node'[i].parent = q /\ node'[i].state = st
      BY <2>3 DEF Doc
    <2>5. ASSUME NEW k \in Ids, Present(k)'
          PROVE  \/ ReachesRoot(k)' \/ k \in HalfPurged'
                 \/ ({k} \cup Above(k)') \cap overtaken' # {}
      <3>1. CASE o.raced
        <4>1. CASE k = i
          BY <1>2, <3>1, <4>1
        <4>2. CASE k # i
          BY <1>1, <1>2, <1>4, <1>6, <2>5, <3>1, <4>2, NotLostAway
        <4> QED
          BY <4>1, <4>2
      <3>2. CASE ~o.raced /\ i \in Line(k)
        <4>0. LiveLine(q) /\ i \notin Line(q)
          BY <1>1, <1>8, <3>2
        <4>1. CASE Known(k)
          BY <1>1, <1>4, <1>8, <2>3, <2>4, <3>2, <4>0, <4>1, PutReaches
        <4>2. CASE ~Known(k)
          <5>1. k = i
            BY <1>1, <1>4, <2>5, <4>2, OthersAre, PresentIsKnown
          <5>2. Known(q) /\ LiveLine(q)' /\ Known(q)' /\ Line(q)' = Line(q)
            BY <1>1, <1>4, <1>8, <4>0, LineSame, IdsAre DEF Known
          <5>3. Known(i)' /\ i # Root
            BY <1>1, <2>3, IdsAre DEF Known, Fresh, Present
          <5>4. q \in Above(i)'
            BY <1>4, <2>4, <5>3, AboveNext DEF AboveHolds
          <5>5. Present(q)'
            BY <1>8, <5>2, LiveIsPresent DEF LiveLine, Line, Live, Present, Known
          <5>6. Above(q)' \subseteq Above(i)'
            BY <1>4, <5>3, <5>4, <5>5, UpNext
          <5>7. Root \in Above(i)'
            BY <5>2, <5>4, <5>6 DEF LiveLine, Line
          <5> QED
            BY <5>1, <5>7 DEF ReachesRoot
        <4> QED
          BY <4>1, <4>2
      <3>3. CASE i \notin Line(k)
        <4>1. k # i
          BY <3>3 DEF Line
        <4> QED
          BY <1>1, <1>2, <1>4, <1>6, <2>5, <3>3, <4>1, NotLostAway
      <3> QED
        BY <3>1, <3>2, <3>3
    <2>6. NothingIsLost'
      BY <2>5 DEF NothingIsLost
    <2>7. Emptied'
      <3> SUFFICES ASSUME NEW v \in evicted'
                   PROVE  /\ v \in Ids /\ node'[v].state \in {"trashed", "gone"}
                          /\ \A j \in ChildrenOf(v)' : Trashed(j)' \/ j \in overtaken'
        BY DEF Emptied
      <3>1. /\ v \in evicted /\ v \in Ids /\ node[v].state \in {"trashed", "gone"}
            /\ \A j \in ChildrenOf(v) : Trashed(j) \/ j \in overtaken
            /\ node'[v].state # "live"
        BY <1>2 DEF IInv, Emptied
      <3>2. node'[v].state \in {"trashed", "gone"}
        BY <1>4, <1>8, <2>4, <3>1 DEF Others
      <3>3. ASSUME NEW j \in ChildrenOf(v)' PROVE Trashed(j)' \/ j \in overtaken'
        <4>1. CASE j # i
          <5>1. j \in ChildrenOf(v) /\ j \in Ids
            BY <2>3, <4>1 DEF ChildrenOf
          <5> QED
            BY <1>2, <1>4, <3>1, <4>1, <5>1, OthersAre
        <4>2. CASE j = i /\ ~o.raced
          <5>1. v = q
            BY <2>3, <3>3, <4>2
          <5>2. Live(v) /\ v # Root
            BY <1>1, <1>8, <3>1, <4>2, <5>1, IdsAre DEF LiveLine, Line
          <5> QED
            BY <3>1, <5>2 DEF Live
        <4> QED
          BY <1>2, <4>1, <4>2
      <3> QED
        BY <3>1, <3>2, <3>3
    <2>8. DestroyedWasDiscarded'
      <3> SUFFICES ASSUME NEW k \in Ids, node'[k].state = "gone"
                   PROVE  k \in buried' \cup evicted' \cup overtaken'
        BY DEF DestroyedWasDiscarded
      <3>1. k # i /\ node[k].state = "gone"
        BY <1>4, <2>4 DEF Others
      <3> QED
        BY <1>2, <3>1 DEF IInv, DestroyedWasDiscarded
    <2> QED
      BY <2>6, <2>7, <2>8
  <1> QED
    BY <1>1, <1>7, <1>8, WrittenIs

LEMMA MutateStep ==
  ASSUME IInv, NEW t \in Tasks, Mutate(t)
  PROVE  IInv'
  <1>1. PICK o : o = op[t]
    OBVIOUS
  <1>2. /\ o.pc = "mutate"
        /\ evicted' = {x \in evicted : node'[x].state # "live"}
        /\ UNCHANGED <<entries_mac, entries_mac_pending, buried, alarms>>
    BY <1>1 DEF Mutate
  <1>3. CASE Refused(o)
    <2>1. Leave(t) /\ UNCHANGED <<node, overtaken>>
      BY <1>1, <1>3 DEF Mutate
    <2>2. evicted' = evicted
      BY <1>2, <2>1 DEF IInv, Emptied
    <2>3. AlarmsHaveARace'
      BY <1>2, <2>1, AlarmsSame
    <2> QED
      BY <1>1, <1>2, <2>1, <2>2, <2>3, LeaveStep
  <1>4. CASE ~Refused(o)
    <2>1. PICK i : i = o.id
      OBVIOUS
    <2>2. PICK M : M = {o.dst, node[i].parent}
      OBVIOUS
    <2>3. Mutated(t, o, i, M)
      BY <1>1, <1>2, <1>4, <2>1, <2>2 DEF Mutate, Mutated, Note
    <2>4. PICK p : p = [o EXCEPT !.pc = "commit"]
      OBVIOUS
    <2>5. /\ Writes(t, p, i, M) /\ i \in Ids
          /\ \A d \in Dirs : Counts(d)' =>
               /\ \/ Fresh(d) /\ EntriesOf(d)' = {}
                  \/ Counts(d) /\ EntriesOf(d)' = EntriesOf(d)
                  \/ d \in DOMAIN o.tag
               /\ d \in DOMAIN o.tag =>
                    Counts(d) /\ EntriesOf(d)' = (EntriesOf(d) \ Lost(o, d)) \cup Gained(o, d)
      <3>1. i \in Ids
        BY <1>1, <1>2, <2>1, WriterIs
      <3> QED
        BY <2>3, <2>4, <3>1, MutatedWrites
    <2>6. /\ Fits(o) /\ Record(o) /\ Locked(t) /\ Signs(o) /\ DOMAIN op = Tasks
      BY <1>1, HandlersAre
    <2>7. op'[t] = p /\ Keeps
      BY <2>4, <2>5, <2>6 DEF Writes, Overtaking
    <2>8. /\ p.pc = "commit" /\ p.tag = o.tag
      BY <2>4, <2>6, StepIs
    <2>9. ASSUME NEW d \in DOMAIN o.tag, Counts(d)'
          PROVE  EntriesOf(d)' = o.tag[d] /\ entries_mac_pending'[d] = {o.tag[d]}
      <3>1. d \in Dirs /\ ~Fresh(d) /\ dir_locks[d] = t
        BY <1>1, <2>6, <2>9, TagsAreHeld
      <3>2. Counts(d) /\ entries_mac_pending'[d] = entries_mac_pending[d]
        BY <1>2, <2>5, <2>9, <3>1
      <3>3. /\ entries_mac_pending[d] = {o.tag[d]}
            /\ o.tag[d] = (EntriesOf(d) \ Lost(o, d)) \cup Gained(o, d)
        BY <1>2, <2>6, <2>9, <3>2 DEF Signs, Ahead
      <3>4. EntriesOf(d)' = (EntriesOf(d) \ Lost(o, d)) \cup Gained(o, d)
        BY <2>5, <2>9, <3>1
      <3> QED
        BY <3>2, <3>3, <3>4
    <2>10. Signs(p)'
      BY <2>8, <2>9 DEF Signs, Ahead, Behind
    <2>11. Mine(t)' /\ FirstToMake(t)
      BY <1>1, <1>2, <2>4, <2>5, <2>7, <2>10, MutatedIs DEF Writes
    <2>12. Tagged'
      <3> SUFFICES ASSUME NEW d \in Dirs, Counts(d)' PROVE EntriesOf(d)' \in TagsOf(d)'
        BY DEF Tagged
      <3>1. CASE Fresh(d) /\ EntriesOf(d)' = {}
        BY <1>2, <3>1 DEF IInv, Unused, TagsOf
      <3>2. CASE Counts(d) /\ EntriesOf(d)' = EntriesOf(d)
        BY <1>2, <3>2 DEF IInv, Tagged, TagsOf
      <3>3. CASE d \in DOMAIN o.tag
        BY <2>9, <3>3 DEF TagsOf
      <3> QED
        BY <2>5, <3>1, <3>2, <3>3
    <2>13. NothingIsLost' /\ Emptied' /\ DestroyedWasDiscarded'
      BY <2>3, MutatedKeeps
    <2> QED
      BY <2>5, <2>11, <2>12, <2>13, WriteStep
  <1> QED
    BY <1>3, <1>4

-----------------------------------------------------------------------------
(* Destroying.                                                             *)

\* A document goes, and with it the entry under which it was found.
LEMMA GoingIs ==
  ASSUME Placed, NEW i \in Ids, ~Fresh(i), node' = WithState(i, "gone")
  PROVE  /\ Others(i) /\ Placed' /\ Keeps /\ NewChildren
         /\ ~Present(i)' /\ node'[i].state = "gone" /\ node'[i].parent = node[i].parent
         /\ \A d : ChildrenOf(d)' \subseteq ChildrenOf(d) \ {i}
         /\ \A d : EntriesOf(d)' = EntriesOf(d) \ {<<i, node[i].name>>}
         /\ \A d : d # node[i].parent => EntriesOf(d)' = EntriesOf(d)
  <1>1. node \in [Ids -> Docs] /\ i # Root /\ node[i] \in Docs
    BY IdsAre DEF Placed
  <1>2. /\ \A j \in Ids \ {i} : node'[j] = node[j]
        /\ node'[i] = [node[i] EXCEPT !.state = "gone"]
    BY <1>1 DEF WithState
  <1>3. /\ node'[i].parent = node[i].parent /\ node'[i].name = node[i].name
        /\ node'[i].state = "gone" /\ node'[i] \in Docs
    BY <1>1, <1>2 DEF Docs
  <1>4. Others(i) /\ ~Present(i)' /\ ~Fresh(i)'
    BY <1>1, <1>2, <1>3 DEF Others, Present, Fresh
  <1>5. \A j \in Ids \ {i} : /\ Present(j)' <=> Present(j)
                             /\ node'[j].parent = node[j].parent /\ node'[j].name = node[j].name
    BY <1>2 DEF Present
  <1>6. \A d : ChildrenOf(d)' = ChildrenOf(d) \ {i}
    <2> SUFFICES ASSUME NEW d, NEW j PROVE j \in ChildrenOf(d)' <=> j \in ChildrenOf(d) /\ j # i
      OBVIOUS
    <2> QED
      BY <1>4, <1>5 DEF ChildrenOf
  <1>7. \A d : EntriesOf(d)' = EntriesOf(d) \ {<<i, node[i].name>>}
    <2> SUFFICES ASSUME NEW d, NEW e
                 PROVE  e \in EntriesOf(d)' <=> e \in EntriesOf(d) /\ e # <<i, node[i].name>>
      OBVIOUS
    <2>1. e \in EntriesOf(d)' <=> \E j \in ChildrenOf(d) : j # i /\ e = <<j, node'[j].name>>
      BY <1>6 DEF EntriesOf
    <2>2. \A j \in ChildrenOf(d) : j # i => node'[j].name = node[j].name
      BY <1>5 DEF ChildrenOf
    <2>3. e \in EntriesOf(d) <=> \E j \in ChildrenOf(d) : e = <<j, node[j].name>>
      BY DEF EntriesOf
    <2> QED
      BY <2>1, <2>2, <2>3
  <1>8. \A d : d # node[i].parent => EntriesOf(d)' = EntriesOf(d)
    <2> SUFFICES ASSUME NEW d, d # node[i].parent PROVE <<i, node[i].name>> \notin EntriesOf(d)
      BY <1>7
    <2>1. i \notin ChildrenOf(d)
      BY DEF ChildrenOf
    <2> QED
      BY <2>1 DEF EntriesOf
  <1>9. Placed'
    <2>1. node' \in [Ids -> Docs]
      <3>1. \A j \in Ids : node'[j] \in Docs
        BY <1>1, <1>2, <1>3
      <3>2. node' = [j \in Ids |-> node'[j]]
        BY <1>1 DEF WithState
      <3> QED
        BY <3>1, <3>2
    <2>a. \A d : Fresh(d)' <=> Fresh(d)
      BY <1>1, <1>2, <1>4, IdsAre DEF Fresh, WithState
    <2>2. ASSUME NEW j \in Ids
          PROVE  \/ node'[j] = Doc("fresh", NoId, NoName)
                 \/ /\ ~Fresh(j)' /\ node'[j].parent \in Dirs /\ ~Fresh(node[j].parent)'
                    /\ node'[j].name \in Names
      <3>1. CASE Fresh(j)
        <4>1. node[j] = Doc("fresh", NoId, NoName) /\ j # i
          BY <3>1 DEF Placed
        <4> QED
          BY <1>2, <4>1
      <3>2. CASE ~Fresh(j)
        <4>1. /\ node[j].parent \in Dirs /\ ~Fresh(node[j].parent) /\ node[j].name \in Names
          <5>1. node[j] # Doc("fresh", NoId, NoName)
            BY <3>2, IdsAre DEF Fresh, Doc
          <5> QED
            BY <5>1 DEF Placed
        <4>2. PICK d : d = node[j].parent
          OBVIOUS
        <4>3. ~Fresh(d)' /\ node'[j].parent = d /\ node'[j].name = node[j].name
          BY <1>3, <1>5, <2>a, <4>1, <4>2
        <4>4. ~Fresh(node[j].parent)'
          BY <4>3 DEF Fresh
        <4> QED
          BY <2>a, <3>2, <4>1, <4>2, <4>3, <4>4
      <3> QED
        BY <3>1, <3>2
    <2> QED
      BY <2>1, <2>2 DEF Placed
  <1>10. Keeps /\ NewChildren
    BY <1>2, <1>4, <1>6 DEF Keeps, NewChildren, Fresh
  <1> QED
    BY <1>3, <1>4, <1>6, <1>7, <1>8, <1>9, <1>10

\* A purge at its next document, and itself after it.
Destroyed(t, o, p, i) ==
  /\ o = op[t] /\ o.pc = "destroy" /\ i \in o.rest /\ (i # o.victim => o.tree[i] \notin o.rest)
  /\ p = [o EXCEPT !.rest = o.rest \ {i}, !.pc = IF o.rest = {i} THEN "unname" ELSE "destroy"]
  /\ node' = WithState(i, "gone")
  /\ buried' = IF Binned(i) THEN buried \cup {i} ELSE buried
  /\ overtaken' = overtaken \cup Unvouched(o, i)
  /\ Overtaking(t, p, {i}, {node[i].parent})
  /\ UNCHANGED <<entries_mac, entries_mac_pending, dir_locks, evicted, alarms>>

LEMMA DestroyerIs ==
  ASSUME IInv, NEW t \in Tasks, NEW o, NEW p, NEW i, Destroyed(t, o, p, i)
  PROVE  /\ Placed /\ Fits(o) /\ Sound(o) /\ Signs(o) /\ Locked(t) /\ Record(o) /\ DOMAIN op = Tasks
         /\ i \in Ids /\ ~Fresh(i) /\ i \in DOMAIN o.tree /\ node[i].parent \in Dirs
         /\ o.kind \in {"rename", "purge"} /\ Drawn(o.victim, o.held)
         /\ DOMAIN o.tag = {o.held.parent} /\ dir_locks[o.held.parent] = t
         /\ DOMAIN o.tree \subseteq Ids /\ o.rest \subseteq DOMAIN o.tree
         /\ overtaken \subseteq overtaken' /\ (o.raced => o.rest \subseteq overtaken')
         /\ ~o.raced =>
              /\ Purges(o) /\ Razes(o) /\ Present(i) /\ node[i].parent = o.tree[i]
              /\ i = o.victim => node[i] = o.held
              /\ i # o.victim => node[i].parent \in Ids /\ node[node[i].parent].state = "gone"
         /\ Record(p) /\ p.pc = (IF o.rest = {i} THEN "unname" ELSE "destroy")
         /\ p.rest = o.rest \ {i} /\ op'[t] = p
         /\ p.raced = o.raced /\ p.kind = o.kind /\ p.id = o.id /\ p.seen = o.seen
         /\ p.dst = o.dst /\ p.name = o.name /\ p.path = o.path /\ p.locks = o.locks
         /\ p.victim = o.victim /\ p.held = o.held /\ p.tag = o.tag /\ p.chain = o.chain
         /\ p.tree = o.tree
  <1>1. /\ o = op[t] /\ o.pc = "destroy" /\ i \in o.rest
        /\ i # o.victim => o.tree[i] \notin o.rest
        /\ overtaken' = overtaken \cup Unvouched(o, i)
        /\ Overtaking(t, p, {i}, {node[i].parent})
        /\ p = [o EXCEPT !.rest = o.rest \ {i},
                         !.pc = IF o.rest = {i} THEN "unname" ELSE "destroy"]
    BY DEF Destroyed
  <1>2. /\ Placed /\ Fits(o) /\ Sound(o) /\ Signs(o) /\ Locked(t) /\ Record(o) /\ DOMAIN op = Tasks
    BY <1>1, HandlersAre
  <1>3. /\ o.kind \in {"rename", "purge"} /\ Drawn(o.victim, o.held)
        /\ DOMAIN o.tag = {o.held.parent} /\ dir_locks[o.held.parent] = t
        /\ DOMAIN o.tree \subseteq Ids /\ o.rest \subseteq DOMAIN o.tree
        /\ i \in Ids /\ ~Fresh(i) /\ i \in DOMAIN o.tree
    BY <1>1, <1>2, IdleIs DEF Fits, InPurge, Locked
  <1>4. node[i].parent \in Dirs
    BY <1>2, <1>3, ParentIs, IdsAre DEF Known
  <1>5. overtaken \subseteq overtaken' /\ (o.raced => o.rest \subseteq overtaken')
    BY <1>1 DEF Unvouched
  <1>6. ~o.raced =>
          /\ Purges(o) /\ Razes(o) /\ Present(i) /\ node[i].parent = o.tree[i]
          /\ i = o.victim => node[i] = o.held
          /\ i # o.victim => node[i].parent \in Ids /\ node[node[i].parent].state = "gone"
    BY <1>1, <1>2, <1>3 DEF Sound, Razes
  <1>7. /\ Record(p) /\ p.pc = (IF o.rest = {i} THEN "unname" ELSE "destroy")
        /\ p.rest = o.rest \ {i}
        /\ p.raced = o.raced /\ p.kind = o.kind /\ p.id = o.id /\ p.seen = o.seen
        /\ p.dst = o.dst /\ p.name = o.name /\ p.path = o.path /\ p.locks = o.locks
        /\ p.victim = o.victim /\ p.held = o.held /\ p.tag = o.tag /\ p.chain = o.chain
        /\ p.tree = o.tree
    BY <1>1, <1>2 DEF Record, Idle
  <1>8. op'[t] = p
    BY <1>1, <1>2 DEF Overtaking
  <1> QED
    BY <1>2, <1>3, <1>4, <1>5, <1>6, <1>7, <1>8

\* A directory that counts loses an entry only when it is the one whose tag was
\* staged, and only the entry left out.
LEMMA DestroyedWrites ==
  ASSUME IInv, NEW t \in Tasks, NEW o, NEW p, NEW i, Destroyed(t, o, p, i)
  PROVE  /\ Writes(t, p, i, {node[i].parent})
         /\ \A d \in Dirs : Counts(d)' =>
              /\ Counts(d)
              /\ IF i = o.victim /\ d = o.held.parent
                 THEN EntriesOf(d)' = EntriesOf(d) \ {<<i, o.held.name>>}
                 ELSE EntriesOf(d)' = EntriesOf(d)
  <1>1. /\ Placed /\ i \in Ids /\ ~Fresh(i) /\ node[i].parent \in Dirs
        /\ overtaken \subseteq overtaken' /\ DOMAIN op = Tasks
        /\ dir_locks[o.held.parent] = t
        /\ ~o.raced =>
              /\ i = o.victim => node[i] = o.held
              /\ i # o.victim => node[i].parent \in Ids /\ node[node[i].parent].state = "gone"
    BY DestroyerIs
  <1>2. /\ node' = WithState(i, "gone") /\ overtaken' = overtaken \cup Unvouched(o, i)
        /\ Overtaking(t, p, {i}, {node[i].parent})
        /\ UNCHANGED <<entries_mac, entries_mac_pending, dir_locks, alarms>>
    BY DEF Destroyed
  <1>3. /\ Others(i) /\ Placed' /\ Keeps /\ NewChildren /\ ~Present(i)'
        /\ \A d : EntriesOf(d)' = EntriesOf(d) \ {<<i, node[i].name>>}
        /\ \A d : d # node[i].parent => EntriesOf(d)' = EntriesOf(d)
    BY <1>1, <1>2, GoingIs
  <1>4. ASSUME NEW d \in Dirs, Counts(d)' PROVE Counts(d)
    <2>1. d # i /\ d \notin overtaken /\ Present(d)'
      BY <1>1, <1>3, <1>4 DEF Counts
    <2> QED
      BY <1>3, <2>1, OthersAre, IdsAre DEF Counts
  <1>5. ASSUME NEW d \in Dirs, Counts(d)', d = node[i].parent
        PROVE  i = o.victim /\ d = o.held.parent /\ node[i].name = o.held.name
    <2>1. CASE o.raced
      <3>1. d \notin overtaken'
        BY <1>5 DEF Counts
      <3> QED
        BY <1>2, <1>5, <2>1, <3>1 DEF Unvouched, Unstaged
    <2>2. CASE ~o.raced
      <3>1. Present(d)
        BY <1>4, <1>5 DEF Counts
      <3>2. i = o.victim
        BY <1>1, <1>5, <2>2, <3>1, IdsAre DEF Present
      <3> QED
        BY <1>1, <1>5, <2>2, <3>2
    <2> QED
      BY <2>1, <2>2
  <1>6. ASSUME NEW d \in Dirs, Counts(d)'
        PROVE  IF i = o.victim /\ d = o.held.parent
               THEN EntriesOf(d)' = EntriesOf(d) \ {<<i, o.held.name>>}
               ELSE EntriesOf(d)' = EntriesOf(d)
    <2>1. CASE d = node[i].parent
      BY <1>3, <1>5, <1>6, <2>1
    <2>2. CASE d # node[i].parent
      <3>1. \A x : <<i, x>> \notin EntriesOf(d)
        <4> SUFFICES ASSUME NEW x, <<i, x>> \in EntriesOf(d) PROVE FALSE
          OBVIOUS
        <4>1. PICK j \in ChildrenOf(d) : <<i, x>> = <<j, node[j].name>>
          BY DEF EntriesOf
        <4> QED
          BY <2>2, <4>1 DEF ChildrenOf
      <3>2. EntriesOf(d)' = EntriesOf(d)
        BY <1>3, <2>2
      <3> QED
        BY <3>1, <3>2
    <2> QED
      BY <2>1, <2>2
  <1>7. ASSUME NEW u \in Tasks \ {t}, op[u].kind = "make", op[u].pc # "commit", op[u].id = i
        PROVE  FALSE
    BY <1>1, <1>7, HandlersAre DEF Fits
  <1>8. Writes(t, p, i, {node[i].parent})
    <2>1. \A d \in Dirs : dir_locks[d] # t /\ ~Fresh(d) /\ Counts(d)' =>
            Counts(d) /\ EntriesOf(d)' = EntriesOf(d)
      BY <1>1, <1>4, <1>6
    <2> QED
      BY <1>1, <1>2, <1>3, <1>7, <2>1 DEF Writes
  <1> QED
    BY <1>4, <1>6, <1>8

LEMMA DestroyedIs ==
  ASSUME IInv, NEW t \in Tasks, NEW o, NEW p, NEW i, Destroyed(t, o, p, i)
  PROVE  Mine(t)' /\ Tagged'
  <1>1. /\ Placed /\ Fits(o) /\ Sound(o) /\ Signs(o) /\ Locked(t)
        /\ i \in Ids /\ ~Fresh(i) /\ i \in DOMAIN o.tree
        /\ o.kind \in {"rename", "purge"} /\ Drawn(o.victim, o.held)
        /\ DOMAIN o.tag = {o.held.parent} /\ dir_locks[o.held.parent] = t
        /\ DOMAIN o.tree \subseteq Ids /\ o.rest \subseteq DOMAIN o.tree
        /\ overtaken \subseteq overtaken'
        /\ ~o.raced => Purges(o) /\ Razes(o)
        /\ Record(p) /\ p.pc = (IF o.rest = {i} THEN "unname" ELSE "destroy")
        /\ p.rest = o.rest \ {i} /\ op'[t] = p
    BY DestroyerIs
  <1>2. /\ p.raced = o.raced /\ p.kind = o.kind /\ p.id = o.id /\ p.seen = o.seen
        /\ p.dst = o.dst /\ p.name = o.name /\ p.path = o.path /\ p.locks = o.locks
        /\ p.victim = o.victim /\ p.held = o.held /\ p.tag = o.tag /\ p.chain = o.chain
        /\ p.tree = o.tree
    BY DestroyerIs
  <1>3. /\ o = op[t] /\ o.pc = "destroy" /\ i \in o.rest /\ node' = WithState(i, "gone")
        /\ UNCHANGED <<entries_mac, entries_mac_pending, dir_locks>>
    BY DEF Destroyed
  <1>4. /\ Others(i) /\ Placed' /\ Keeps /\ ~Present(i)' /\ node'[i].state = "gone"
        /\ node'[i].parent = node[i].parent
        /\ \A d : ChildrenOf(d)' \subseteq ChildrenOf(d) \ {i}
    BY <1>1, <1>3, GoingIs
  <1>5. \A d \in Dirs : Counts(d)' =>
          /\ Counts(d)
          /\ IF i = o.victim /\ d = o.held.parent
             THEN EntriesOf(d)' = EntriesOf(d) \ {<<i, o.held.name>>}
             ELSE EntriesOf(d)' = EntriesOf(d)
    BY DestroyedWrites
  <1>6. Fits(p)'
    <2>1. Fits(p)
      BY <1>1, <1>2, <1>3 DEF Fits, Writing, InPurge
    <2> QED
      BY <1>1, <1>2, <1>4, <2>1, FitsKept
  <1>7. Locked(t)'
    BY <1>1, <1>2, <1>3 DEF Locked, Holding, Writing
  <1>8. ASSUME NEW d, d = o.held.parent, Counts(d)'
        PROVE  /\ Ahead(p) => /\ Ahead(o) /\ EntriesOf(d)' = EntriesOf(d)
               /\ Behind(p) => EntriesOf(d)' = o.tag[d]
               /\ entries_mac_pending'[d] = {o.tag[d]}
    <2>1. d \in Dirs /\ d \in DOMAIN o.tag
      BY <1>1, <1>8 DEF Drawn, Seat
    <2>2. Counts(d)
      BY <1>5, <1>8, <2>1
    <2>3. CASE i = o.victim
      <3>1. ~Ahead(p) /\ Ahead(o)
        BY <1>1, <1>2, <1>3, <2>3 DEF Ahead
      <3>2. /\ entries_mac_pending[d] = {o.tag[d]}
            /\ o.tag[d] = (EntriesOf(d) \ Lost(o, d)) \cup Gained(o, d)
        BY <1>1, <2>1, <2>2, <3>1 DEF Signs
      <3>3. Lost(o, d) = {<<i, o.held.name>>} /\ Gained(o, d) = {}
        BY <1>3, <2>3 DEF Lost, Gained
      <3>4. EntriesOf(d)' = EntriesOf(d) \ {<<i, o.held.name>>}
        BY <1>5, <1>8, <2>1, <2>3
      <3> QED
        BY <1>3, <3>1, <3>2, <3>3, <3>4
    <2>4. CASE i # o.victim
      <3>1. (Ahead(p) => Ahead(o)) /\ (Behind(p) => Behind(o)) /\ (Ahead(o) \/ Behind(o))
        BY <1>1, <1>2, <1>3, <2>4 DEF Ahead, Behind
      <3>2. EntriesOf(d)' = EntriesOf(d)
        BY <1>5, <1>8, <2>1, <2>4
      <3>3. /\ entries_mac_pending[d] = {o.tag[d]}
            /\ Behind(o) => EntriesOf(d) = o.tag[d]
        BY <1>1, <2>1, <2>2, <3>1 DEF Signs
      <3> QED
        BY <1>3, <3>1, <3>2, <3>3
    <2> QED
      BY <2>3, <2>4
  <1>9. Signs(p)'
    <2> SUFFICES ASSUME NEW d \in DOMAIN p.tag, Counts(d)'
                 PROVE  /\ Ahead(p) => /\ entries_mac'[d] = EntriesOf(d)'
                                       /\ entries_mac_pending'[d] = {p.tag[d]}
                                       /\ p.tag[d] = (EntriesOf(d)' \ Lost(p, d)) \cup Gained(p, d)
                        /\ Behind(p) => /\ EntriesOf(d)' = p.tag[d]
                                        /\ entries_mac_pending'[d] = {p.tag[d]}
      BY DEF Signs, Ahead, Behind, Lost, Gained
    <2>1. d = o.held.parent /\ d \in Dirs /\ d \in DOMAIN o.tag
      BY <1>1, <1>2 DEF Drawn, Seat
    <2>2. /\ Ahead(p) => /\ Ahead(o) /\ EntriesOf(d)' = EntriesOf(d)
          /\ Behind(p) => EntriesOf(d)' = o.tag[d]
          /\ entries_mac_pending'[d] = {o.tag[d]}
      BY <1>8, <2>1
    <2>3. Ahead(o) => entries_mac[d] = EntriesOf(d)
                      /\ o.tag[d] = (EntriesOf(d) \ Lost(o, d)) \cup Gained(o, d)
      BY <1>1, <1>5, <2>1 DEF Signs
    <2>4. Ahead(p) => Lost(p, d) = Lost(o, d) /\ Gained(p, d) = Gained(o, d)
      BY <1>1, <1>2, <1>3 DEF Ahead, Lost, Gained
    <2> QED
      BY <1>2, <1>3, <2>2, <2>3, <2>4
  <1>10. Tagged'
    <2> SUFFICES ASSUME NEW d \in Dirs, Counts(d)' PROVE EntriesOf(d)' \in TagsOf(d)'
      BY DEF Tagged
    <2>1. CASE i = o.victim /\ d = o.held.parent
      <3>1. Behind(p)
        BY <1>1, <1>2, <2>1 DEF Behind
      <3> QED
        BY <1>8, <2>1, <3>1 DEF TagsOf
    <2>2. CASE ~(i = o.victim /\ d = o.held.parent)
      BY <1>3, <1>5, <2>2 DEF IInv, Tagged, TagsOf
    <2> QED
      BY <2>1, <2>2
  <1>11. Sound(p)'
    <2> SUFFICES ASSUME ~o.raced PROVE Sound(p)'
      BY <1>2 DEF Sound
    <2>1. Purges(p)'
      BY <1>1, <1>2, <1>3 DEF Purges, InPurge
    <2>2. Razes(p)'
      <3>1. /\ DOMAIN o.tree \subseteq o.chain /\ o.victim \in DOMAIN o.tree
            /\ \A j \in DOMAIN o.tree :
                 /\ node[j].parent = o.tree[j]
                 /\ j # o.victim => o.tree[j] \in DOMAIN o.tree
                 /\ IF j \in o.rest THEN Present(j) ELSE node[j].state = "gone"
            /\ o.victim \in o.rest => node[o.victim] = o.held
            /\ \A j \in o.rest : \A k \in ChildrenOf(j) : k \in o.rest \/ {j, k} \cap overtaken # {}
        BY <1>1, <1>3 DEF Razes
      <3>2. ASSUME NEW j \in DOMAIN o.tree
            PROVE  /\ node'[j].parent = o.tree[j]
                   /\ IF j \in p.rest THEN Present(j)' ELSE node'[j].state = "gone"
        <4>1. CASE j = i
          BY <1>1, <1>4, <3>1, <4>1
        <4>2. CASE j # i
          <5>1. node'[j] = node[j] /\ (Present(j)' <=> Present(j)) /\ (j \in p.rest <=> j \in o.rest)
            BY <1>1, <1>4, <4>2, OthersAre DEF Others
          <5> QED
            BY <3>1, <5>1
        <4> QED
          BY <4>1, <4>2
      <3>3. p.victim \in p.rest => node'[p.victim] = p.held
        BY <1>1, <1>2, <1>4, <3>1 DEF Others
      <3>4. \A j \in p.rest : \A k \in ChildrenOf(j)' : k \in p.rest \/ {j, k} \cap overtaken' # {}
        BY <1>1, <1>4, <3>1
      <3> QED
        BY <1>2, <3>1, <3>2, <3>3, <3>4 DEF Razes
    <2>3. CASE o.kind = "purge"
      <3>1. p.pc # "read"
        BY <1>1
      <3> QED
        BY <1>2, <2>1, <2>2, <2>3, <3>1
           DEF Sound, Seated, Restores, Renames, Moves, Lists, Bound, Writing
    <2>4. CASE o.kind = "rename"
      <3>1. Bound(o) /\ Bound(p) /\ p.pc # "read"
        BY <1>1, <1>2, <1>3, <2>4 DEF Bound, Writing
      <3>2. LiveLine(o.dst) /\ Known(o.dst)
        BY <1>1, <2>2, <3>1, IdsAre DEF Sound, Seated, Bound, Fits, Seat, Known
      <3>3. PICK old \in Seq(Names) : o.id \in Resolve(old)
        BY <1>1, <1>3, <2>4 DEF Sound, Renames
      <3>4. LiveLine(o.id) /\ Known(o.id)
        BY <1>1, <3>3, ResolveIs
      <3>5. i \notin Line(o.dst) /\ i \notin Line(o.id)
        BY <1>1, <1>3, <3>2, <3>4, TreeBlocks
      <3> QED
        BY <1>1, <1>2, <1>4, <2>1, <2>2, <2>4, <3>1, <3>5, BoundTrashing
    <2> QED
      BY <1>1, <2>3, <2>4
  <1> QED
    BY <1>1, <1>6, <1>7, <1>9, <1>10, <1>11 DEF Mine

LEMMA LeastAlways ==
  \A d, S : S \subseteq Dirs /\ ClosedUpward(S) /\ (d # Root => node[d].parent \in S)
            => Above(d) \subseteq S
  BY AboveIsLeast

LEMMA LeastNext ==
  (\A d, S : S \subseteq Dirs /\ ClosedUpward(S) /\ (d # Root => node[d].parent \in S)
             => Above(d) \subseteq S)'
  BY LeastAlways, PTL

\* What is below a document that a purge deletes is deleted by it too, unless
\* somebody who was overtaken came between.
LEMMA DestroyedBelow ==
  ASSUME IInv, NEW t \in Tasks, NEW o, NEW p, NEW i, Destroyed(t, o, p, i), ~o.raced,
         NEW k \in Ids \ {i}, Present(k)', i \in Above(k),
         ({k} \cup Above(k)') \cap overtaken' = {}
  PROVE  k \in o.rest
  <1>1. /\ Placed /\ i \in Ids /\ ~Fresh(i) /\ overtaken \subseteq overtaken' /\ Razes(o)
        /\ o.rest \subseteq Ids
    BY DestroyerIs
  <1>2. o.pc = "destroy" /\ i \in o.rest /\ node' = WithState(i, "gone")
    BY DEF Destroyed
  <1>3. Others(i) /\ Placed'
    BY <1>1, <1>2, GoingIs
  <1>4. Present(k) /\ Known(k) /\ Known(k)' /\ k # Root
    BY <1>3, OthersAre, PresentIsKnown, IdsAre
  <1>5. PICK B : B = Above(k)'
    OBVIOUS
  <1>6. i \in B
    BY <1>1, <1>3, <1>4, <1>5, AboveKeeps
  <1>7. B \subseteq Dirs /\ ClosedUpward(B)' /\ node'[k].parent \in B
    BY <1>3, <1>4, <1>5, AboveNext DEF AboveHolds
  <1>8. SUFFICES ASSUME k \notin o.rest PROVE FALSE
    OBVIOUS
  <1>9. ASSUME NEW j \in {k} \cup B, j # Root, j \notin o.rest, Present(j)'
        PROVE  node'[j].parent \in B /\ node'[j].parent \notin o.rest
    <2>1. node'[j].parent \in B
      BY <1>7, <1>9 DEF ClosedUpward
    <2>2. j \in Ids /\ j # i
      BY <1>2, <1>7, <1>9, IdsAre
    <2>3. ASSUME node'[j].parent \in o.rest PROVE FALSE
      <3>1. j \in ChildrenOf(node[j].parent) /\ node[j].parent \in o.rest /\ node[j].parent \in B
        BY <1>3, <1>9, <2>1, <2>2, <2>3, OthersAre DEF ChildrenOf
      <3>2. {node[j].parent, j} \cap overtaken # {}
        BY <1>1, <1>2, <1>9, <3>1 DEF Razes
      <3> QED
        BY <1>1, <1>5, <1>9, <3>1, <3>2
    <2> QED
      BY <2>1, <2>3
  <1>10. PICK E : E = {j \in B : j \notin o.rest}
    OBVIOUS
  <1>11. E \subseteq Dirs /\ node'[k].parent \in E
    BY <1>7, <1>8, <1>9, <1>10, <1>4
  <1>12. ClosedUpward(E)'
    BY <1>9, <1>10 DEF ClosedUpward
  <1>13. B \subseteq E
    BY <1>4, <1>5, <1>11, <1>12, LeastNext
  <1> QED
    BY <1>2, <1>6, <1>10, <1>13

LEMMA DestroyedKeeps ==
  ASSUME IInv, NEW t \in Tasks, NEW o, NEW p, NEW i, Destroyed(t, o, p, i)
  PROVE  NothingIsLost' /\ Emptied' /\ DestroyedWasDiscarded'
  <1>1. /\ Placed /\ i \in Ids /\ ~Fresh(i) /\ i \in DOMAIN o.tree /\ node[i].parent \in Dirs
        /\ DOMAIN o.tree \subseteq Ids /\ o.rest \subseteq DOMAIN o.tree
        /\ overtaken \subseteq overtaken' /\ (o.raced => o.rest \subseteq overtaken')
        /\ ~o.raced =>
             /\ Purges(o) /\ Present(i)
             /\ i = o.victim => node[i] = o.held
             /\ i # o.victim => node[i].parent \in Ids /\ node[node[i].parent].state = "gone"
        /\ p.pc = (IF o.rest = {i} THEN "unname" ELSE "destroy")
        /\ p.rest = o.rest \ {i} /\ op'[t] = p
    BY DestroyerIs
  <1>2. /\ o = op[t] /\ o.pc = "destroy" /\ i \in o.rest /\ node' = WithState(i, "gone")
        /\ buried' = IF Binned(i) THEN buried \cup {i} ELSE buried
        /\ overtaken' = overtaken \cup Unvouched(o, i) /\ UNCHANGED evicted
    BY DEF Destroyed
  <1>3. /\ Others(i) /\ Placed' /\ ~Present(i)' /\ node'[i].state = "gone"
        /\ \A d : ChildrenOf(d)' \subseteq ChildrenOf(d) \ {i}
    BY <1>1, <1>2, GoingIs
  <1>4. NothingIsLost'
    <2> SUFFICES ASSUME NEW k \in Ids, Present(k)'
                 PROVE  \/ ReachesRoot(k)' \/ k \in HalfPurged'
                        \/ ({k} \cup Above(k)') \cap overtaken' # {}
      BY DEF NothingIsLost
    <2>1. k # i
      BY <1>3
    <2>2. k \in o.rest => k \in HalfPurged'
      BY <1>1, <1>2, <2>1 DEF HalfPurged
    <2>3. \A u \in Tasks \ {t} : SameTask(op'[u], op[u])
      BY <1>1, DestroyedWrites, OtherTasks
    <2>4. k \in HalfPurged => k \in HalfPurged'
      BY <1>2, <2>2, <2>3 DEF HalfPurged, SameTask
    <2>5. CASE i \notin Line(k) \/ i \in overtaken'
      BY <1>1, <1>3, <2>1, <2>4, <2>5, NotLostAway
    <2>6. CASE i \in Line(k) /\ i \notin overtaken'
      <3>1. ~o.raced /\ i \in Above(k)
        BY <1>1, <1>2, <2>1, <2>6 DEF Line
      <3> QED
        BY <2>1, <2>2, <3>1, DestroyedBelow
    <2> QED
      BY <2>5, <2>6
  <1>5. Emptied'
    <2> SUFFICES ASSUME NEW v \in evicted
                 PROVE  /\ v \in Ids /\ node'[v].state \in {"trashed", "gone"}
                        /\ \A j \in ChildrenOf(v)' : Trashed(j)' \/ j \in overtaken'
      BY <1>2 DEF Emptied
    <2>1. /\ v \in Ids /\ node[v].state \in {"trashed", "gone"}
          /\ \A j \in ChildrenOf(v) : Trashed(j) \/ j \in overtaken
      BY DEF IInv, Emptied
    <2>2. node'[v].state \in {"trashed", "gone"}
      BY <1>3, <2>1 DEF Others
    <2>3. ASSUME NEW j \in ChildrenOf(v)' PROVE Trashed(j)' \/ j \in overtaken'
      <3>1. j \in ChildrenOf(v) /\ j # i /\ j \in Ids
        BY <1>3, <2>3 DEF ChildrenOf
      <3> QED
        BY <1>1, <1>3, <2>1, <3>1, OthersAre
    <2> QED
      BY <2>1, <2>2, <2>3
  <1>6. DestroyedWasDiscarded'
    <2> SUFFICES ASSUME NEW k \in Ids, node'[k].state = "gone"
                 PROVE  k \in buried' \cup evicted' \cup overtaken'
      BY DEF DestroyedWasDiscarded
    <2>1. CASE k # i
      <3>1. node[k].state = "gone"
        BY <1>3, <2>1 DEF Others
      <3> QED
        BY <1>1, <1>2, <3>1 DEF IInv, DestroyedWasDiscarded
    <2>2. CASE k = i /\ o.raced
      BY <1>1, <1>2, <2>2
    <2>3. CASE k = i /\ ~o.raced /\ i = o.victim
      <3>1. Trashed(i)
        BY <1>1, <1>2, <2>3, IdsAre DEF Purges, InPurge, Trashed
      <3> QED
        BY <1>2, <2>3, <3>1 DEF Binned
    <2>4. CASE k = i /\ ~o.raced /\ i # o.victim
      <3>1. node[i].parent \in buried \cup evicted \cup overtaken
        BY <1>1, <2>4 DEF IInv, DestroyedWasDiscarded
      <3>2. CASE node[i].parent \in buried
        BY <1>2, <2>4, <3>2 DEF Binned
      <3>3. CASE node[i].parent \in overtaken
        BY <1>2, <2>4, <3>3 DEF Unvouched
      <3>4. CASE node[i].parent \in evicted
        <4>1. i \in ChildrenOf(node[i].parent)
          BY <1>1, <2>4 DEF ChildrenOf
        <4>2. Trashed(i) \/ i \in overtaken
          BY <3>4, <4>1 DEF IInv, Emptied
        <4> QED
          BY <1>1, <1>2, <2>4, <4>2 DEF Binned
      <3> QED
        BY <3>1, <3>2, <3>3, <3>4
    <2> QED
      BY <2>1, <2>2, <2>3, <2>4
  <1> QED
    BY <1>4, <1>5, <1>6

LEMMA DestroyStep ==
  ASSUME IInv, NEW t \in Tasks, NEW i, Destroy(t, i)
  PROVE  IInv'
  <1>1. PICK o : o = op[t]
    OBVIOUS
  <1>2. PICK p : p = [o EXCEPT !.rest = o.rest \ {i},
                              !.pc = IF o.rest = {i} THEN "unname" ELSE "destroy"]
    OBVIOUS
  <1>3. Record(o) /\ o.pc = "destroy"
    BY <1>1, HandlersAre DEF Destroy
  <1>4. [o EXCEPT !.rest = @ \ {i}, !.pc = IF o.rest = {i} THEN "unname" ELSE @] = p
    BY <1>2, <1>3
  <1>5. Destroyed(t, o, p, i)
    BY <1>1, <1>2, <1>4 DEF Destroy, Destroyed
  <1>6. i \in Ids /\ op'[t] = p /\ p.kind # "make"
    BY <1>5, DestroyerIs
  <1>7. FirstToMake(t)
    BY <1>6 DEF FirstToMake
  <1>8. Writes(t, p, i, {node[i].parent})
    BY <1>5, DestroyedWrites
  <1>9. Mine(t)' /\ Tagged' /\ NothingIsLost' /\ Emptied' /\ DestroyedWasDiscarded'
    BY <1>5, DestroyedIs, DestroyedKeeps
  <1> QED
    BY <1>6, <1>7, <1>8, <1>9, WriteStep

-----------------------------------------------------------------------------
(* A crash, a pause, the beginning, and all steps.                         *)

LEMMA IdleStays == Fits(Idle)' /\ Sound(Idle)' /\ Signs(Idle)'
  <1>1. (Fits(Idle) /\ Sound(Idle) /\ Signs(Idle))'
    BY IdleFits, PTL
  <1> QED
    BY <1>1

LEMMA CrashStep ==
  ASSUME IInv, Crash
  PROVE  IInv'
  <1>1. /\ op' = [t \in Tasks |-> Idle] /\ dir_locks' = [d \in Dirs |-> NoTask]
        /\ overtaken' = overtaken \cup HalfPurged
        /\ UNCHANGED <<node, entries_mac, entries_mac_pending, buried, evicted, alarms>>
    BY DEF Crash, docs
  <1>2. Placed' /\ DOMAIN op' = Tasks /\ DOMAIN dir_locks' = Dirs
    BY <1>1, NodeSame DEF IInv
  <1>3. MakesApart'
    BY <1>1, IdleIs DEF MakesApart
  <1>4. \A t \in Tasks : Fits(op[t])' /\ Locked(t)' /\ Sound(op[t])' /\ Signs(op[t])'
    <2> SUFFICES ASSUME NEW t \in Tasks
                 PROVE  Fits(op[t])' /\ Locked(t)' /\ Sound(op[t])' /\ Signs(op[t])'
      OBVIOUS
    <2>1. op'[t] = Idle
      BY <1>1
    <2>2. Locked(t)'
      BY <2>1, IdleLocked
    <2> QED
      BY <2>1, <2>2, IdleStays
  <1>5. Tagged' /\ Unused'
    BY <1>1, TagsSame DEF IInv
  <1>6. Emptied'
    BY <1>1, NodeSame DEF IInv, Emptied
  <1>7. NothingIsLost'
    <2> SUFFICES ASSUME NEW i \in Ids, Present(i)'
                 PROVE  \/ ReachesRoot(i)' \/ i \in HalfPurged'
                        \/ ({i} \cup Above(i)') \cap overtaken' # {}
      BY DEF NothingIsLost
    <2>1. Present(i) /\ Above(i)' = Above(i)
      BY <1>1, NodeSame
    <2>2. \/ ReachesRoot(i) \/ i \in HalfPurged
          \/ ({i} \cup Above(i)) \cap overtaken # {}
      BY <2>1 DEF IInv, NothingIsLost
    <2> QED
      BY <1>1, <2>1, <2>2 DEF ReachesRoot
  <1>8. AlarmsHaveARace'
    BY <1>1, AlarmsSame
  <1>9. DestroyedWasDiscarded'
    BY <1>1 DEF IInv, DestroyedWasDiscarded
  <1> QED
    BY <1>2, <1>3, <1>4, <1>5, <1>6, <1>7, <1>8, <1>9 DEF IInv

LEMMA PauseStep ==
  ASSUME IInv, UNCHANGED vars
  PROVE  IInv'
  <1>1. UNCHANGED <<node, entries_mac, entries_mac_pending, dir_locks, op,
                    overtaken, buried, evicted, alarms>>
    BY DEF vars, docs, observers
  <1>2. Placed' /\ DOMAIN op' = Tasks /\ DOMAIN dir_locks' = Dirs /\ MakesApart'
    BY <1>1, NodeSame DEF IInv, MakesApart
  <1>3. \A t \in Tasks : Fits(op[t])' /\ Locked(t)' /\ Sound(op[t])' /\ Signs(op[t])'
    <2> SUFFICES ASSUME NEW t \in Tasks
                 PROVE  Fits(op[t])' /\ Locked(t)' /\ Sound(op[t])' /\ Signs(op[t])'
      OBVIOUS
    <2>1. PICK o : o = op[t]
      OBVIOUS
    <2>2. Fits(o) /\ Locked(t) /\ Sound(o) /\ Signs(o)
      BY <2>1 DEF IInv
    <2>3. Fits(o)' /\ Sound(o)' /\ Signs(o)'
      BY <1>1, <2>2, FitsSame, SoundSame, TagsSame
    <2>4. Locked(t)'
      BY <1>1, <2>2 DEF Locked, Holding, Writing
    <2> QED
      BY <1>1, <2>1, <2>3, <2>4
  <1>4. Tagged' /\ Unused'
    BY <1>1, TagsSame DEF IInv
  <1>5. Emptied'
    BY <1>1, NodeSame DEF IInv, Emptied
  <1>6. NothingIsLost'
    <2>1. \A i \in Ids : /\ Present(i)' <=> Present(i)
                         /\ ReachesRoot(i)' <=> ReachesRoot(i)
                         /\ Above(i)' = Above(i)
      BY <1>1, NodeSame DEF ReachesRoot
    <2>2. HalfPurged' = HalfPurged
      BY <1>1 DEF HalfPurged
    <2> QED
      BY <1>1, <2>1, <2>2 DEF IInv, NothingIsLost
  <1>7. AlarmsHaveARace' /\ DestroyedWasDiscarded'
    BY <1>1 DEF IInv, AlarmsHaveARace, DestroyedWasDiscarded
  <1> QED
    BY <1>2, <1>3, <1>4, <1>5, <1>6, <1>7 DEF IInv

\* A tree as a run may begin with hangs together: from every document the way
\* up ends at the root.
LEMMA TreeHangs ==
  ASSUME IsTree(node), NEW i \in Ids, Present(i)
  PROVE  Root \in Above(i)
  <1>1. /\ \A j \in Ids :
             \/ node[j] = Doc("fresh", NoId, NoName)
             \/ /\ node[j].state \in {"live", "trashed"} /\ node[j].parent \in Dirs
                /\ node[j].parent # Root => node[node[j].parent].state # "fresh"
        /\ \A S \in SUBSET Ids : S # {} => \E j \in S : node[j].parent \notin S
    BY DEF IsTree
  <1>2. PICK T : T = {d \in Dirs : ~Fresh(d)}
    OBVIOUS
  <1>3. \A j \in Ids : ~Fresh(j) => node[j].parent \in T /\ Present(j)
    <2> SUFFICES ASSUME NEW j \in Ids, ~Fresh(j) PROVE node[j].parent \in T /\ Present(j)
      OBVIOUS
    <2>1. node[j] # Doc("fresh", NoId, NoName)
      BY IdsAre DEF Fresh, Doc
    <2> QED
      BY <1>1, <1>2, <2>1 DEF Present, Fresh
  <1>4. ClosedUpward(T) /\ T \subseteq Dirs
    BY <1>2, <1>3, IdsAre DEF ClosedUpward
  <1>5. ~Fresh(i) /\ i # Root
    BY IdsAre DEF Fresh, Present
  <1>6. Above(i) \subseteq T
    BY <1>3, <1>4, <1>5, AboveIsLeast
  <1>7. SUFFICES ASSUME Root \notin Above(i) PROVE FALSE
    OBVIOUS
  <1>8. PICK S : S = {i} \cup Above(i)
    OBVIOUS
  <1>9. S \in SUBSET Ids /\ S # {} /\ \A j \in S : ~Fresh(j)
    BY <1>2, <1>5, <1>6, <1>7, <1>8, IdsAre
  <1>10. Placed
    <2> SUFFICES ASSUME NEW j \in Ids
                 PROVE  \/ node[j] = Doc("fresh", NoId, NoName)
                        \/ /\ ~Fresh(j) /\ node[j].parent \in Dirs /\ ~Fresh(node[j].parent)
                           /\ node[j].name \in Names
      BY DEF IsTree, Placed
    <2> QED
      BY <1>1, IdsAre DEF Fresh, IsTree
  <1>11. ClosedUpward(Above(i)) /\ node[i].parent \in Above(i)
    BY <1>5, <1>10, AboveIs DEF Known
  <1>12. \A j \in S : node[j].parent \in S
    BY <1>3, <1>7, <1>8, <1>9, <1>11 DEF ClosedUpward
  <1> QED
    BY <1>1, <1>9, <1>12

LEMMA InitHolds == Init => IInv
  <1> SUFFICES ASSUME Init PROVE IInv
    OBVIOUS
  <1>1. /\ node \in Starts
        /\ entries_mac = [d \in Dirs |-> EntriesOf(d)]
        /\ dir_locks = [d \in Dirs |-> NoTask] /\ op = [t \in Tasks |-> Idle]
        /\ overtaken = {} /\ buried = {} /\ evicted = {} /\ alarms = {}
    BY DEF Init
  <1>2. IsTree(node)
    BY <1>1, StartsAssumption
  <1>3. Placed /\ \A i \in Ids : node[i].state # "gone"
    <2>1. ASSUME NEW j \in Ids
          PROVE  /\ \/ node[j] = Doc("fresh", NoId, NoName)
                    \/ /\ ~Fresh(j) /\ node[j].parent \in Dirs /\ ~Fresh(node[j].parent)
                       /\ node[j].name \in Names
                 /\ node[j].state # "gone"
      <3>1. CASE node[j] = Doc("fresh", NoId, NoName)
        BY <3>1 DEF Doc
      <3>2. CASE node[j] # Doc("fresh", NoId, NoName)
        BY <1>2, <3>2, IdsAre DEF Fresh, IsTree
      <3> QED
        BY <3>1, <3>2
    <2> QED
      BY <1>2, <2>1 DEF IsTree, Placed
  <1>4. MakesApart /\ \A t \in Tasks : Fits(op[t]) /\ Locked(t) /\ Sound(op[t]) /\ Signs(op[t])
    BY <1>1, IdleIs, IdleFits DEF MakesApart, Locked, Holding, Writing
  <1>5. Tagged
    BY <1>1 DEF Tagged, TagsOf
  <1>6. Unused
    <2> SUFFICES ASSUME NEW d \in Dirs, Fresh(d), NEW x \in EntriesOf(d) PROVE FALSE
      BY <1>1 DEF Unused
    <2>1. PICK j \in ChildrenOf(d) : TRUE
      BY DEF EntriesOf
    <2>2. j \in Ids /\ Present(j) /\ node[j].parent = d /\ j # Root
      BY <2>1, IdsAre DEF ChildrenOf
    <2>3. node[j] # Doc("fresh", NoId, NoName)
      BY <2>2 DEF Present, Doc
    <2> QED
      BY <1>3, <2>2, <2>3 DEF Placed
  <1>7. NothingIsLost
    BY <1>2, TreeHangs DEF NothingIsLost, ReachesRoot
  <1>8. Emptied /\ AlarmsHaveARace /\ DestroyedWasDiscarded
    BY <1>1, <1>3 DEF Emptied, AlarmsHaveARace, DestroyedWasDiscarded
  <1> QED
    BY <1>1, <1>3, <1>4, <1>5, <1>6, <1>7, <1>8 DEF IInv

LEMMA RequestStep ==
  ASSUME IInv, NEW t \in Tasks, op[t].pc = "idle", Request(t)
  PROVE  IInv'
  <1>1. ASSUME NEW i \in Ids, NEW path \in Paths, Make(t, i, path) PROVE IInv'
    BY <1>1, MakeStep
  <1>2. ASSUME NEW path \in Paths, Trash(t, path) \/ RemoveDir(t, path) PROVE IInv'
    BY <1>2, TrashStep
  <1>3. ASSUME (\E path \in Paths : List(t, path)) \/ Search(t) PROVE IInv'
    BY <1>3, ListStep
  <1>4. ASSUME NEW i \in Ids, Restore(t, i) PROVE IInv'
    BY <1>4, RestoreStep
  <1>5. ASSUME NEW i \in Ids, Purge(t, i) \/ PurgeExpired(t, i) PROVE IInv'
    BY <1>5, PurgeStep
  <1>6. ASSUME NEW old \in Paths, NEW new \in Paths, NEW over \in BOOLEAN,
               Rename(t, old, new, over)
        PROVE  IInv'
    BY <1>6, RenameStep
  <1> QED
    BY <1>1, <1>2, <1>3, <1>4, <1>5, <1>6 DEF Request

LEMMA NextStep ==
  ASSUME IInv, [Next]_vars
  PROVE  IInv'
  <1>1. ASSUME NEW t \in Tasks, op[t].pc = "idle", Request(t) PROVE IInv'
    BY <1>1, RequestStep
  <1>2. ASSUME NEW t \in Tasks, RenameParent(t) PROVE IInv'
    BY <1>2, RenameParentStep
  <1>3. ASSUME NEW t \in Tasks, CheckEmpty(t) PROVE IInv'
    BY <1>3, CheckEmptyStep
  <1>4. ASSUME NEW t \in Tasks, Mark(t) PROVE IInv'
    BY <1>4, MarkStep
  <1>5. ASSUME NEW t \in Tasks, ReadEntries(t) PROVE IInv'
    BY <1>5, ReadEntriesStep
  <1>6. ASSUME NEW t \in Tasks, Lock(t) PROVE IInv'
    BY <1>6, LockStep
  <1>7. ASSUME NEW t \in Tasks, RenameDecide(t) PROVE IInv'
    BY <1>7, RenameDecideStep
  <1>8. ASSUME NEW t \in Tasks, Stage(t) PROVE IInv'
    BY <1>8, StageStep
  <1>9. ASSUME NEW t \in Tasks, Mutate(t) PROVE IInv'
    BY <1>9, MutateStep
  <1>10. ASSUME NEW t \in Tasks, Commit(t) PROVE IInv'
    BY <1>10, CommitStep
  <1>11. ASSUME NEW t \in Tasks, NEW i \in op[t].rest, Destroy(t, i) PROVE IInv'
    BY <1>11, DestroyStep
  <1>12. ASSUME NEW t \in Tasks, NEW choice \in {"fail", "replace", "keep_both"},
                RestoreDecide(t, choice)
         PROVE  IInv'
    BY <1>12, RestoreDecideStep
  <1>13. ASSUME NEW t \in Tasks, EvictLock(t) PROVE IInv'
    BY <1>13, EvictLockStep
  <1>14. ASSUME NEW t \in Tasks, Evict(t) PROVE IInv'
    BY <1>14, EvictStep
  <1>15. ASSUME NEW t \in Tasks, Unname(t) PROVE IInv'
    BY <1>15, UnnameStep
  <1>16. CASE Crash
    BY <1>16, CrashStep
  <1>17. CASE UNCHANGED vars
    BY <1>17, PauseStep
  <1> QED
    BY <1>1, <1>2, <1>3, <1>4, <1>5, <1>6, <1>7, <1>8, <1>9, <1>10, <1>11, <1>12, <1>13,
       <1>14, <1>15, <1>16, <1>17 DEF Next

LEMMA IInvHolds == Spec => []IInv
  BY InitHolds, NextStep, PTL DEF Spec

-----------------------------------------------------------------------------
(* The theorems.                                                           *)

\* However requests cross in `rename`, `restore`, `trash` and `purge`, and
\* wherever the process dies, every document in the database is below the root,
\* in the open or in the trash, unless it is below one that was written by a
\* handler whose reading of the tree another had overtaken, or a purge was
\* deleting it (the loss src/src/vfs.py:2087 refuses a rename for).
THEOREM NothingEverLost == Spec => []NothingIsLost
  BY IInvHolds, PTL DEF IInv

\* `list_dir` and `search` read a directory's tags and then its children with no
\* lock (src/src/vfs.py:1442).  They report tampering only of a directory that
\* changed between the two reads, or that somebody overtaken had written: no
\* staged tag, no crash and no purge beside it raises an alarm.
THEOREM AlarmsAlwaysRaced == Spec => []AlarmsHaveARace
  BY IInvHolds, PTL DEF IInv

\* `purge`, and `rename` of an occupant (src/src/vfs.py:1971), destroy a subtree
\* that was listed once, document by document.  Nothing goes but what was in the
\* trash, below something that was, or the empty directory a rename took the
\* place of, unless a handler was overtaken in between.
THEOREM OnlyDiscardedDestroyed == Spec => []DestroyedWasDiscarded
  BY IInvHolds, PTL DEF IInv
=============================================================================
