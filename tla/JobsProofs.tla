----------------------------- MODULE JobsProofs -----------------------------
(***************************************************************************)
(* What batches of trash entries do to the drive, for any number of jobs,  *)
(* requests, sessions, entries and attachments, wherever a batch is        *)
(* cancelled, killed or fails.                                             *)
(***************************************************************************)
EXTENDS Jobs, FiniteSetTheorems, TLAPS

\* A running job has counted the entries it is done with, and they are gone.
Progress(j) ==
  Running(j) =>
    /\ job[j].by \in Sessions
    /\ job[j].todo \subseteq job[j].batch
    /\ job[j].at = NoEntry <=> job[j].pc = "next"
    /\ job[j].at # NoEntry => job[j].at \in job[j].batch \ job[j].todo
    /\ job[j].done_entries = Cardinality(job[j].batch \ (job[j].todo \cup {job[j].at}))
    /\ \A e \in job[j].batch \ (job[j].todo \cup {job[j].at}) : Lost(e)
    /\ job[j].pc = "commit" => entry[job[j].at] = "gone"

\* The attachments of the entry it is on are gone up to the next to delete, and
\* all of them before its document is.
Deleted(j) ==
  Running(j) =>
    /\ job[j].pc \in {"next", "read", "lock"} => job[j].chunk = 1
    /\ job[j].pc = "delete" =>
         /\ job[j].chunk <= Chunks[job[j].at]
         /\ \A a \in attached : a[1] = job[j].at => a[2] >= job[j].chunk
    /\ job[j].pc \in {"rows", "commit"} => \A a \in attached : a[1] # job[j].at

\* The document a job deletes after its session was over is the last it deletes.
LastEntry(j) ==
  /\ job[j].after <= 1
  /\ Running(j) /\ job[j].after # 0 =>
       session[job[j].by] = "over" /\ job[j].pc \in {"commit", "next"}

DoneIsGone(j) ==
  job[j].state = "done" =>
    /\ job[j].done_entries = Cardinality(job[j].batch)
    /\ \A e \in job[j].batch : Lost(e)

JobInv(j) == Progress(j) /\ Deleted(j) /\ LastEntry(j) /\ DoneIsGone(j)

\* A request that counts has a session, and a number for the job it will start.
Reserved ==
  /\ \A r \in Counting : request[r].by \in Sessions
  /\ Cardinality(Counting) <= Cardinality(Unused)

IInv ==
  /\ TypeOK /\ RunningJobsAreKnown /\ SurvivorsAreNamed /\ Reserved
  /\ \A j \in JobIds : JobInv(j)

\* What no step takes back.
Forward ==
  /\ \A s \in Sessions : session[s] = "over" => session'[s] = "over"
  /\ \A e \in Entries : entry[e] = "gone" => entry'[e] = "gone"
  /\ \A e \in Entries : Lost(e) => Lost(e)'
  /\ attached' \subseteq attached

-----------------------------------------------------------------------------
(* Facts about data.                                                       *)

LEMMA AttachmentIs ==
  ASSUME NEW a \in Attachments
  PROVE  a[1] \in Entries /\ a[2] \in 1 .. Chunks[a[1]] /\ a = <<a[1], a[2]>>
  BY DEF Attachments, AttachmentsOf

LEMMA Numbers == JobIds \subseteq Nat /\ IsFiniteSet(JobIds) /\ NoJob \notin JobIds
  BY BoundsAssumption, FS_Interval DEF JobIds, NoJob

\* Entries a job has counted: no more than there are.
LEMMA SomeEntries ==
  ASSUME NEW S \in SUBSET Entries
  PROVE  IsFiniteSet(S) /\ Cardinality(S) \in 0 .. Cardinality(Entries)
  <1>1. IsFiniteSet(S) /\ Cardinality(S) <= Cardinality(Entries)
    BY FiniteAssumption, FS_Subset
  <1>2. Cardinality(S) \in Nat /\ Cardinality(Entries) \in Nat
    BY <1>1, FiniteAssumption, FS_CardinalityType
  <1> QED
    BY <1>1, <1>2

LEMMA SomeEntry == ASSUME NEW e \in Entries PROVE Cardinality(Entries) \in Nat \ {0}
  <1>1. Cardinality(Entries) \in Nat
    BY FiniteAssumption, FS_CardinalityType
  <1> QED
    BY <1>1, FiniteAssumption, FS_EmptySet

\* The numbers nobody has, and the requests that count, can be counted.
LEMMA Countable ==
  /\ IsFiniteSet(Unused) /\ Cardinality(Unused) \in Nat
  /\ IsFiniteSet(Counting) /\ Cardinality(Counting) \in Nat
  <1>1. Unused \in SUBSET JobIds /\ Counting \in SUBSET Requests
    BY DEF Unused, Counting
  <1> QED
    BY <1>1, Numbers, FiniteAssumption, FS_Subset, FS_CardinalityType

\* A record of a job, field by field.
LEMMA JobFields ==
  ASSUME TypeOK, NEW j \in JobIds
  PROVE  /\ job[j] \in Job
         /\ job[j].state \in States /\ job[j].by \in Sessions \cup {NoSession}
         /\ job[j].batch \subseteq Entries /\ job[j].todo \subseteq Entries
         /\ job[j].at \in Entries \cup {NoEntry} /\ job[j].pc \in Pcs
         /\ job[j].chunk \in Nat \ {0} /\ job[j].cancel_requested \in BOOLEAN
         /\ job[j].done_entries \in 0 .. Cardinality(Entries)
         /\ job[j].after \in 0 .. Cardinality(Entries)
  BY DEF TypeOK, Job

LEMMA NewJobIsOne == NewJob \in Job
  <1>1. 0 \in 0 .. Cardinality(Entries)
    BY FiniteAssumption, FS_CardinalityType
  <1> QED
    BY <1>1 DEF NewJob, Job, States, Pcs

\* The records the steps make of a record.
LEMMA EndedRecord ==
  ASSUME NEW r \in Job, NEW st \in States
  PROVE  [r EXCEPT !.state = st, !.at = NoEntry, !.todo = {}, !.pc = "next", !.chunk = 1] \in Job
  <1>1. 1 \in Nat \ {0} /\ "next" \in Pcs
    BY DEF Pcs
  <1> QED
    BY <1>1 DEF Job

LEMMA CountedRecord ==
  ASSUME NEW r \in Job, NEW n \in 0 .. Cardinality(Entries)
  PROVE  [r EXCEPT !.at = NoEntry, !.pc = "next", !.chunk = 1, !.done_entries = n] \in Job
  <1>1. 1 \in Nat \ {0} /\ "next" \in Pcs
    BY DEF Pcs
  <1> QED
    BY <1>1 DEF Job

\* A job is where it was, asked to stop or not.
SameProgress(r, q) ==
  /\ q.state = r.state /\ q.by = r.by /\ q.batch = r.batch /\ q.todo = r.todo
  /\ q.at = r.at /\ q.pc = r.pc /\ q.chunk = r.chunk
  /\ q.done_entries = r.done_entries /\ q.after = r.after

LEMMA AskedRecord ==
  ASSUME NEW r \in Job
  PROVE  LET q == [r EXCEPT !.cancel_requested = TRUE]
         IN  q \in Job /\ SameProgress(r, q)
  <1>1. [r EXCEPT !.cancel_requested = TRUE] \in Job
    BY DEF Job
  <1> QED
    BY <1>1 DEF Job, SameProgress

-----------------------------------------------------------------------------
(* What the steps have in common.                                          *)

\* Others do not undo what a job has done.
LEMMA Bystander ==
  ASSUME IInv, Forward, NEW k \in JobIds, SameProgress(job[k], job'[k])
  PROVE  JobInv(k)'
  <1>1. JobInv(k) /\ job[k].at \in Entries \cup {NoEntry} /\ job[k].batch \subseteq Entries
        /\ (Running(k) => job[k].by \in Sessions)
        /\ (Running(k)' <=> Running(k))
    BY JobFields DEF IInv, JobInv, Progress, Running, SameProgress
  <1>2. Progress(k)'
    <2> SUFFICES ASSUME Running(k) PROVE Progress(k)'
      BY <1>1 DEF Progress
    <2>1. \A e \in job[k].batch \ (job[k].todo \cup {job[k].at}) : Lost(e)'
      BY <1>1 DEF JobInv, Progress, Forward
    <2>2. job[k].pc = "commit" => job[k].at # NoEntry
      BY <1>1 DEF JobInv, Progress
    <2>3. job[k].pc = "commit" => entry'[job[k].at] = "gone"
      BY <1>1, <2>2 DEF JobInv, Progress, Forward
    <2> QED
      BY <1>1, <2>1, <2>3 DEF JobInv, Progress, SameProgress
  <1>3. Deleted(k)'
    BY <1>1 DEF JobInv, Deleted, Forward, SameProgress
  <1>4. LastEntry(k)'
    BY <1>1 DEF JobInv, LastEntry, Forward, SameProgress
  <1>5. DoneIsGone(k)'
    BY <1>1 DEF JobInv, DoneIsGone, Forward, SameProgress
  <1> QED
    BY <1>2, <1>3, <1>4, <1>5 DEF JobInv

\* What a step of one job has to establish that registers none.
LEMMA OneJob ==
  ASSUME IInv, Forward, NEW j \in JobIds, NEW new \in Job,
         job' = [job EXCEPT ![j] = new], JobInv(j)',
         job[j].state # "none", new.state # "none",
         new.state = "running" => Running(j),
         SurvivorsAreNamed',
         UNCHANGED <<request, known, phase>>,
         session' \in [Sessions -> {"none", "live", "over"}],
         entry' \in [Entries -> {"trashed", "live", "adrift", "gone"}],
         lock' \in [Entries -> JobIds \cup {NoJob}]
  PROVE  IInv'
  <1>1. job' \in [JobIds -> Job] /\ job'[j] = new
        /\ \A k \in JobIds : k # j => job'[k] = job[k]
    BY DEF IInv, TypeOK
  <1>2. TypeOK'
    BY <1>1 DEF IInv, TypeOK, Forward
  <1>3. RunningJobsAreKnown'
    BY <1>1 DEF IInv, RunningJobsAreKnown, Running
  <1>4. Unused' = Unused /\ Counting' = Counting
    BY <1>1 DEF Unused, Counting
  <1>5. Reserved'
    BY <1>4 DEF IInv, Reserved, Counting
  <1>6. \A k \in JobIds : k # j => SameProgress(job[k], job'[k])
    BY <1>1 DEF SameProgress
  <1>7. \A k \in JobIds : JobInv(k)'
    BY <1>6, Bystander
  <1> QED
    BY <1>2, <1>3, <1>5, <1>7 DEF IInv

\* A document is deleted by a job or a sweep; while none is, none is lost.
LEMMA StillNamed ==
  ASSUME IInv, attached' \subseteq attached,
         \A e \in Entries : entry'[e] = "gone" => entry[e] = "gone"
  PROVE  SurvivorsAreNamed'
  <1> SUFFICES ASSUME NEW a \in attached' PROVE entry'[a[1]] # "gone"
    BY DEF SurvivorsAreNamed
  <1>1. a \in attached /\ a[1] \in Entries
    BY AttachmentIs DEF IInv, TypeOK
  <1> QED
    BY <1>1 DEF IInv, SurvivorsAreNamed

\* The batch ends here.
LEMMA FinishInv ==
  ASSUME IInv, NEW j \in JobIds, Running(j), NEW state \in {"done", "cancelled", "failed"},
         state = "done" => /\ job[j].done_entries = Cardinality(job[j].batch)
                           /\ \A e \in job[j].batch : Lost(e),
         Finish(j, state), UNCHANGED <<session, entry, attached, request, known, phase>>
  PROVE  IInv'
  <1> DEFINE new == [job[j] EXCEPT !.state = state, !.at = NoEntry, !.todo = {},
                                   !.pc = "next", !.chunk = 1]
  <1>1. job' = [job EXCEPT ![j] = new] /\ lock' = Unlocked(j)
    BY DEF Finish
  <1>2. job[j] \in Job
    BY JobFields DEF IInv
  <1>3. new \in Job
    BY <1>2, EndedRecord DEF States
  <1>4. /\ new.state = state /\ new.after = job[j].after /\ new.batch = job[j].batch
        /\ new.done_entries = job[j].done_entries
    BY <1>2 DEF Job
  <1>5. job'[j] = new
    BY <1>1 DEF IInv, TypeOK
  <1> HIDE DEF new
  <1>6. JobInv(j)'
    <2>1. ~Running(j)' /\ job[j].after <= 1
      BY <1>4, <1>5 DEF Running, IInv, JobInv, LastEntry
    <2>2. Progress(j)' /\ Deleted(j)' /\ LastEntry(j)'
      BY <1>4, <1>5, <2>1 DEF Progress, Deleted, LastEntry
    <2>3. DoneIsGone(j)'
      BY <1>4, <1>5 DEF DoneIsGone, Lost
    <2> QED
      BY <2>2, <2>3 DEF JobInv
  <1>7. Forward /\ SurvivorsAreNamed'
    BY StillNamed DEF Forward, Lost
  <1>8. lock' \in [Entries -> JobIds \cup {NoJob}]
    BY <1>1 DEF Unlocked, IInv, TypeOK
  <1>9. job[j].state # "none" /\ state # "none" /\ state # "running"
    BY DEF Running
  <1> QED
    BY <1>1, <1>3, <1>4, <1>6, <1>7, <1>8, <1>9, OneJob DEF IInv, TypeOK

\* The entry a job is on is gone, and the job counts it.
LEMMA CountedInv ==
  ASSUME IInv, NEW j \in JobIds, Running(j), job[j].at # NoEntry,
         Lost(job[j].at), Counted(j),
         job[j].after # 0 => session[job[j].by] = "over",
         UNCHANGED <<session, entry, attached, request, known, phase>>,
         lock' \in [Entries -> JobIds \cup {NoJob}]
  PROVE  IInv'
  <1> DEFINE new == [job[j] EXCEPT !.at = NoEntry, !.pc = "next", !.chunk = 1,
                                   !.done_entries = job[j].done_entries + 1]
             S == job[j].batch \ (job[j].todo \cup {job[j].at})
             T == job[j].batch \ (job[j].todo \cup {NoEntry})
  <1>1. job' = [job EXCEPT ![j] = new]
    BY DEF Counted
  <1>2. job'[j] = new
    BY <1>1 DEF IInv, TypeOK
  <1>3. /\ job[j].batch \subseteq Entries /\ job[j].todo \subseteq job[j].batch
        /\ job[j].at \in job[j].batch \ job[j].todo
        /\ job[j].done_entries = Cardinality(S) /\ job[j].by \in Sessions
        /\ \A e \in S : Lost(e)
        /\ job[j].after <= 1
    BY JobFields DEF IInv, JobInv, Progress, LastEntry
  <1>4. T = S \cup {job[j].at} /\ job[j].at \notin S /\ S \in SUBSET Entries /\ T \in SUBSET Entries
    BY <1>3, NullsAssumption
  <1>5. Cardinality(T) = job[j].done_entries + 1 /\ Cardinality(T) \in 0 .. Cardinality(Entries)
    <2>1. IsFiniteSet(S)
      BY <1>4, SomeEntries
    <2>2. Cardinality(S \cup {job[j].at}) = Cardinality(S) + 1
      BY <1>4, <2>1, FS_AddElement
    <2> QED
      BY <1>3, <1>4, <2>2, SomeEntries
  <1> HIDE DEF S, T
  <1>6. new \in Job
    <2>1. job[j].done_entries + 1 \in 0 .. Cardinality(Entries)
      BY <1>5
    <2>2. job[j] \in Job
      BY JobFields DEF IInv
    <2> QED
      BY <2>1, <2>2, CountedRecord
  <1>7. /\ new.state = "running" /\ new.by = job[j].by /\ new.batch = job[j].batch
        /\ new.todo = job[j].todo /\ new.at = NoEntry /\ new.pc = "next" /\ new.chunk = 1
        /\ new.done_entries = job[j].done_entries + 1 /\ new.after = job[j].after
    BY JobFields DEF IInv, Job, Running
  <1> HIDE DEF new
  <1>8. JobInv(j)'
    <2>1. Progress(j)'
      <3>1. \A e \in T : Lost(e)'
        BY <1>3, <1>4 DEF Lost
      <3> QED
        BY <1>2, <1>3, <1>5, <1>7, <3>1 DEF Progress, T
    <2>2. Deleted(j)' /\ DoneIsGone(j)'
      BY <1>2, <1>7 DEF Deleted, DoneIsGone
    <2>3. LastEntry(j)'
      BY <1>2, <1>3, <1>7 DEF LastEntry
    <2> QED
      BY <2>1, <2>2, <2>3 DEF JobInv
  <1>9. Forward /\ SurvivorsAreNamed'
    BY StillNamed DEF Forward, Lost
  <1>10. job[j].state # "none"
    BY DEF Running
  <1> QED
    BY <1>1, <1>6, <1>7, <1>8, <1>9, <1>10, OneJob DEF IInv, TypeOK

\* What a step that leaves the jobs alone has to establish.
LEMMA NoJobMoves ==
  ASSUME IInv, Forward, UNCHANGED <<job, known>>, SurvivorsAreNamed',
         request' \in [Requests -> Request],
         \A r \in Counting' : request'[r].by \in Sessions,
         Cardinality(Counting') <= Cardinality(Unused),
         session' \in [Sessions -> {"none", "live", "over"}],
         entry' \in [Entries -> {"trashed", "live", "adrift", "gone"}],
         lock' = lock, phase' \in {"up", "stopping", "down"}
  PROVE  IInv'
  <1>1. TypeOK'
    BY DEF IInv, TypeOK, Forward
  <1>2. RunningJobsAreKnown'
    BY DEF IInv, RunningJobsAreKnown, Running
  <1>3. Reserved'
    <2>1. Unused' = Unused
      BY DEF Unused
    <2> QED
      BY <2>1 DEF Reserved
  <1>4. \A k \in JobIds : SameProgress(job[k], job'[k])
    BY DEF SameProgress
  <1>5. \A k \in JobIds : JobInv(k)'
    BY <1>4, Bystander
  <1> QED
    BY <1>1, <1>2, <1>3, <1>5 DEF IInv

\* A job is registered under a number nobody has.
LEMMA RegisterInv ==
  ASSUME IInv, NEW s \in Sessions, NEW batch \in SUBSET Entries, Register(s, batch),
         Unused # {}, UNCHANGED <<session, drive, phase>>,
         request' \in [Requests -> Request],
         \A r \in Counting' : request'[r].by \in Sessions,
         Cardinality(Counting') <= Cardinality(Unused) - 1
  PROVE  IInv'
  <1> DEFINE new == [NewJob EXCEPT !.state = "running", !.by = s,
                                   !.batch = batch, !.todo = batch]
  <1>1. PICK j \in JobIds : /\ j \in Unused
                            /\ job' = [job EXCEPT ![j] = new] /\ known' = known \cup {j}
    <2>1. (CHOOSE k \in Unused : TRUE) \in Unused
      OBVIOUS
    <2> QED
      BY <2>1 DEF Register, Unused
  <1>2. job' = [job EXCEPT ![j] = new] /\ known' = known \cup {j} /\ job[j].state = "none"
    BY <1>1 DEF Unused
  <1>3. /\ new.state = "running" /\ new.by = s /\ new.batch = batch /\ new.todo = batch
        /\ new.at = NoEntry /\ new.pc = "next" /\ new.chunk = 1 /\ new.done_entries = 0
        /\ new.after = 0
    BY DEF NewJob
  <1>4. new \in Job
    <2>1. "running" \in States
      BY DEF States
    <2> QED
      BY <2>1, NewJobIsOne DEF Job
  <1> HIDE DEF new
  <1>5. /\ job' \in [JobIds -> Job] /\ job'[j] = new
        /\ \A k \in JobIds : k # j => job'[k] = job[k]
    BY <1>1, <1>2, <1>4 DEF IInv, TypeOK
  <1>6. Forward /\ SurvivorsAreNamed'
    BY StillNamed DEF Forward, Lost, drive
  <1>7. TypeOK'
    BY <1>1, <1>2, <1>5 DEF IInv, TypeOK, drive
  <1>8. RunningJobsAreKnown'
    BY <1>2, <1>5 DEF IInv, RunningJobsAreKnown, Running
  <1>9. Reserved'
    <2>1. Unused' = Unused \ {j}
      BY <1>3, <1>5 DEF Unused
    <2>2. Cardinality(Unused') = Cardinality(Unused) - 1
      BY <1>1, <2>1, Countable, FS_RemoveElement
    <2> QED
      BY <2>2 DEF Reserved
  <1>10. JobInv(j)'
    <2>1. Progress(j)'
      <3>1. batch \ (batch \cup {NoEntry}) = {}
        OBVIOUS
      <3> QED
        BY <1>3, <1>5, <3>1, FS_EmptySet DEF Progress
    <2>2. Deleted(j)' /\ LastEntry(j)' /\ DoneIsGone(j)'
      BY <1>3, <1>5 DEF Deleted, LastEntry, DoneIsGone
    <2> QED
      BY <2>1, <2>2 DEF JobInv
  <1>11. \A k \in JobIds : k # j => SameProgress(job[k], job'[k])
    BY <1>5 DEF SameProgress
  <1>12. \A k \in JobIds : JobInv(k)'
    BY <1>10, <1>11, <1>6, Bystander
  <1> QED
    BY <1>6, <1>7, <1>8, <1>9, <1>12 DEF IInv

-----------------------------------------------------------------------------
(* The invariant.                                                          *)

LEMMA InitInv == Init => IInv
  <1> SUFFICES ASSUME Init PROVE IInv
    OBVIOUS
  <1> USE DEF Init
  <1>1. TypeOK
    BY NewJobIsOne DEF TypeOK, Request, Idle
  <1>2. \A j \in JobIds : job[j].state = "none" /\ job[j].after = 0
    BY DEF NewJob
  <1>3. \A j \in JobIds : JobInv(j)
    BY <1>2 DEF JobInv, Progress, Deleted, LastEntry, DoneIsGone, Running
  <1>4. RunningJobsAreKnown
    BY <1>2 DEF RunningJobsAreKnown, Running
  <1>5. SurvivorsAreNamed
    BY AttachmentIs DEF SurvivorsAreNamed
  <1>6. Reserved
    <2>1. Counting = {}
      BY DEF Counting, Idle
    <2> QED
      BY <2>1, Countable, FS_EmptySet DEF Reserved
  <1> QED
    BY <1>1, <1>3, <1>4, <1>5, <1>6 DEF IInv

\* Sessions and the drive.
LEMMA OthersInv ==
  ASSUME IInv,
         \/ \E s \in Sessions : Login(s) \/ Drop(s)
         \/ \E e \in Entries : Restore(e) \/ Trash(e) \/ Expire(e) \/ CutOff(e)
         \/ Down
  PROVE  IInv'
  <1>1. UNCHANGED <<job, known, request, lock>>
    BY DEF Login, Drop, Restore, Trash, Expire, CutOff, Down, drive
  <1>2. Forward
    BY DEF Login, Drop, Restore, Trash, Expire, CutOff, Down, Forward, Lost, drive, IInv,
           TypeOK
  <1>3. SurvivorsAreNamed'
    <2>1. CASE \E e \in Entries : Expire(e)
      <3> SUFFICES ASSUME NEW a \in attached' PROVE entry'[a[1]] # "gone"
        BY DEF SurvivorsAreNamed
      <3>1. PICK e \in Entries : Expire(e)
        BY <2>1
      <3>2. a \in attached /\ a \notin AttachmentsOf(e)
        BY <3>1 DEF Expire
      <3>3. a[1] \in Entries /\ a \in AttachmentsOf(a[1])
        BY <3>2, AttachmentIs DEF IInv, TypeOK, AttachmentsOf
      <3>4. a[1] # e
        BY <3>2, <3>3
      <3> QED
        BY <3>1, <3>2, <3>3, <3>4 DEF Expire, IInv, TypeOK, SurvivorsAreNamed
    <2>2. CASE ~\E e \in Entries : Expire(e)
      <3>1. \A e \in Entries : entry'[e] = "gone" => entry[e] = "gone"
        BY <2>2 DEF Login, Drop, Restore, Trash, CutOff, Down, drive, IInv, TypeOK
      <3> QED
        BY <1>2, <3>1, StillNamed DEF Forward
    <2> QED
      BY <2>1, <2>2
  <1>4. /\ session' \in [Sessions -> {"none", "live", "over"}]
        /\ entry' \in [Entries -> {"trashed", "live", "adrift", "gone"}]
        /\ phase' \in {"up", "stopping", "down"}
    BY DEF Login, Drop, Restore, Trash, Expire, CutOff, Down, drive, IInv, TypeOK
  <1>5. /\ request' \in [Requests -> Request]
        /\ \A r \in Counting' : request'[r].by \in Sessions
        /\ Cardinality(Counting') <= Cardinality(Unused)
    BY <1>1 DEF Counting, IInv, TypeOK, Reserved
  <1> QED
    BY <1>1, <1>2, <1>3, <1>4, <1>5, NoJobMoves

LEMMA StartInv ==
  ASSUME IInv, NEW r \in Requests, NEW s \in Sessions, NEW batch \in SUBSET Entries,
         Start(r, s, batch)
  PROVE  IInv'
  <1>1. ~request[r].counting /\ Cardinality(Unused) > Cardinality(Counting)
        /\ UNCHANGED <<session, drive, phase>>
    BY DEF Start
  <1>2. Cardinality(Unused) >= Cardinality(Counting) + 1 /\ Unused # {}
    BY <1>1, Countable, FS_EmptySet
  <1>3. CASE batch = {}
    <2>1. Register(s, batch) /\ request' = request
      BY <1>3 DEF Start
    <2>2. Counting' = Counting
      BY <2>1 DEF Counting
    <2>3. Cardinality(Counting') <= Cardinality(Unused) - 1
      BY <1>2, <2>2, Countable
    <2> QED
      BY <1>1, <1>2, <2>1, <2>2, <2>3, RegisterInv DEF IInv, TypeOK, Reserved
  <1>4. CASE batch # {}
    <2> DEFINE new == [counting |-> TRUE, by |-> s, batch |-> batch, todo |-> batch]
    <2>1. request' = [request EXCEPT ![r] = new] /\ UNCHANGED <<job, known>>
      BY <1>4 DEF Start
    <2>2. new \in Request
      BY DEF Request
    <2>3. /\ request' \in [Requests -> Request] /\ request'[r] = new
          /\ \A q \in Requests : q # r => request'[q] = request[q]
      BY <2>1, <2>2 DEF IInv, TypeOK
    <2>4. Counting' = Counting \cup {r} /\ r \notin Counting
      BY <1>1, <2>3 DEF Counting
    <2>5. Cardinality(Counting') <= Cardinality(Unused)
      <3>1. Cardinality(Counting') = Cardinality(Counting) + 1
        BY <2>4, Countable, FS_AddElement
      <3> QED
        BY <1>2, <3>1, Countable
    <2>6. \A q \in Counting' : request'[q].by \in Sessions
      BY <2>3, <2>4 DEF IInv, Reserved, Counting
    <2>7. Forward /\ SurvivorsAreNamed'
      BY <1>1, StillNamed DEF Forward, Lost, drive
    <2> HIDE DEF new
    <2> QED
      BY <1>1, <2>1, <2>3, <2>5, <2>6, <2>7, NoJobMoves DEF IInv, TypeOK, drive
  <1> QED
    BY <1>3, <1>4

LEMMA CountInv ==
  ASSUME IInv, NEW r \in Requests, NEW e \in Entries, Count(r, e)
  PROVE  IInv'
  <1>1. r \in Counting /\ UNCHANGED <<session, drive, phase>>
    BY DEF Count, Counting
  <1>2. /\ request[r] \in Request /\ request[r].batch \subseteq Entries
        /\ request[r].todo \subseteq Entries /\ request[r].by \in Sessions
    BY <1>1 DEF IInv, TypeOK, Request, Reserved
  <1>3. Idle \in Request
    BY DEF Idle, Request
  <1>4. Forward /\ SurvivorsAreNamed'
    BY <1>1, StillNamed DEF Forward, Lost, drive
  <1>5. ASSUME request' = [request EXCEPT ![r] = Idle]
        PROVE  /\ request' \in [Requests -> Request]
               /\ Cardinality(Counting') = Cardinality(Counting) - 1
               /\ \A q \in Counting' : request'[q].by \in Sessions
    <2>1. /\ request' \in [Requests -> Request] /\ ~request'[r].counting
          /\ \A q \in Requests : q # r => request'[q] = request[q]
      BY <1>3, <1>5 DEF IInv, TypeOK, Idle
    <2>2. Counting' = Counting \ {r}
      BY <2>1 DEF Counting
    <2>3. Cardinality(Counting') = Cardinality(Counting) - 1
      BY <1>1, <2>2, Countable, FS_RemoveElement
    <2> QED
      BY <2>1, <2>2, <2>3 DEF IInv, Reserved, Counting
  <1>6. CASE request' = [request EXCEPT ![r] = Idle] /\ UNCHANGED <<job, known>>
    <2>1. Cardinality(Counting') <= Cardinality(Unused)
      BY <1>5, <1>6, Countable DEF IInv, Reserved
    <2> QED
      BY <1>1, <1>4, <1>5, <1>6, <2>1, NoJobMoves DEF IInv, TypeOK, drive
  <1>7. CASE /\ request' = [request EXCEPT ![r].todo = request[r].todo \ {e}]
             /\ UNCHANGED <<job, known>>
    <2>1. [request[r] EXCEPT !.todo = request[r].todo \ {e}] \in Request
      BY <1>2 DEF Request
    <2>2. /\ request' \in [Requests -> Request]
          /\ request'[r].counting = request[r].counting /\ request'[r].by = request[r].by
          /\ \A q \in Requests : q # r => request'[q] = request[q]
      BY <1>2, <1>7, <2>1 DEF IInv, TypeOK, Request
    <2>3. Counting' = Counting
      BY <2>2 DEF Counting
    <2>4. \A q \in Counting' : request'[q].by \in Sessions
      BY <1>2, <2>2, <2>3 DEF IInv, Reserved, Counting
    <2>5. Cardinality(Counting') <= Cardinality(Unused)
      BY <2>3 DEF IInv, Reserved
    <2> QED
      BY <1>1, <1>4, <1>7, <2>2, <2>4, <2>5, NoJobMoves DEF IInv, TypeOK, drive
  <1>8. CASE /\ Register(request[r].by, request[r].batch)
             /\ request' = [request EXCEPT ![r] = Idle]
    <2>1. Cardinality(Counting') <= Cardinality(Unused) - 1
      BY <1>5, <1>8, Countable DEF IInv, Reserved
    <2>2. Unused # {}
      <3>1. Cardinality(Counting) # 0
        BY <1>1, Countable, FS_EmptySet
      <3>2. Cardinality(Unused) # 0
        BY <3>1, Countable DEF IInv, Reserved
      <3> QED
        BY <3>2, FS_EmptySet
    <2> QED
      BY <1>1, <1>2, <1>5, <1>8, <2>1, <2>2, RegisterInv
  <1> QED
    BY <1>6, <1>7, <1>8 DEF Count

\* A finished job is forgotten.
LEMMA SweepInv ==
  ASSUME IInv, NEW j \in JobIds, Sweep(j)
  PROVE  IInv'
  <1>1. /\ ~Running(j)
        /\ known' = known \ {j} /\ job' = [job EXCEPT ![j] = NewJob]
        /\ UNCHANGED <<session, drive, request, phase>>
    BY DEF Sweep, Sweepable, Running, Finished
  <1>2. /\ job' \in [JobIds -> Job] /\ job'[j] = NewJob
        /\ \A k \in JobIds : k # j => job'[k] = job[k]
    BY <1>1, NewJobIsOne DEF IInv, TypeOK
  <1>3. job'[j].state = "none" /\ job'[j].after = 0
    BY <1>2 DEF NewJob
  <1>4. Forward /\ SurvivorsAreNamed'
    BY <1>1, StillNamed DEF Forward, Lost, drive
  <1>5. TypeOK'
    BY <1>1, <1>2 DEF IInv, TypeOK, drive
  <1>6. RunningJobsAreKnown'
    BY <1>1, <1>2, <1>3 DEF IInv, RunningJobsAreKnown, Running
  <1>7. Reserved'
    <2>1. Unused' = Unused \cup {j} /\ Counting' = Counting
      BY <1>1, <1>2, <1>3 DEF Unused, Counting
    <2>2. j \notin Unused
      BY DEF Sweep, Sweepable, Finished, Unused
    <2>3. Cardinality(Unused') = Cardinality(Unused) + 1
      BY <2>1, <2>2, Countable, FS_AddElement
    <2>4. Cardinality(Counting') <= Cardinality(Unused')
      BY <2>1, <2>3, Countable DEF IInv, Reserved
    <2> QED
      BY <1>1, <2>1, <2>4 DEF IInv, Reserved
  <1>8. JobInv(j)'
    BY <1>3 DEF JobInv, Progress, Deleted, LastEntry, DoneIsGone, Running
  <1>9. \A k \in JobIds : k # j => SameProgress(job[k], job'[k])
    BY <1>2 DEF SameProgress
  <1>10. \A k \in JobIds : JobInv(k)'
    BY <1>4, <1>8, <1>9, Bystander
  <1> QED
    BY <1>4, <1>5, <1>6, <1>7, <1>10 DEF IInv

\* A client, or the shutdown, asks jobs to stop.
LEMMA AskInv ==
  ASSUME IInv, (\E j \in JobIds : Cancel(j)) \/ Stop
  PROVE  IInv'
  <1>1. /\ job' \in [JobIds -> Job]
        /\ \A k \in JobIds : SameProgress(job[k], job'[k])
        /\ UNCHANGED <<session, drive, known>>
        /\ phase' \in {"up", "stopping", "down"}
    <2>1. \A k \in JobIds : job'[k] \in {job[k], [job[k] EXCEPT !.cancel_requested = TRUE]}
      BY DEF Cancel, Stop, IInv, TypeOK
    <2>2. \A k \in JobIds : job[k] \in Job
      BY DEF IInv, TypeOK
    <2>3. ASSUME NEW k \in JobIds PROVE job'[k] \in Job /\ SameProgress(job[k], job'[k])
      <3>1. SameProgress(job[k], job[k])
        BY DEF SameProgress
      <3>2. /\ [job[k] EXCEPT !.cancel_requested = TRUE] \in Job
            /\ SameProgress(job[k], [job[k] EXCEPT !.cancel_requested = TRUE])
        BY <2>2, AskedRecord
      <3> QED
        BY <2>1, <2>2, <3>1, <3>2
    <2>4. job' = [k \in JobIds |-> job'[k]]
      BY DEF Cancel, Stop, IInv, TypeOK
    <2> QED
      BY <2>3, <2>4 DEF Cancel, Stop, IInv, TypeOK
  <1>2. Forward /\ SurvivorsAreNamed'
    BY <1>1, StillNamed DEF Forward, Lost, drive
  <1>3. /\ request' \in [Requests -> Request] /\ Counting' \subseteq Counting
        /\ \A r \in Counting' : request'[r] = request[r]
    <2>1. CASE request' = request
      BY <2>1 DEF Counting, IInv, TypeOK
    <2>2. CASE Stop
      <3>1. Idle \in Request /\ ~Idle.counting
        BY DEF Idle, Request
      <3>2. request' = [r \in Requests |-> Idle]
        BY <2>2 DEF Stop
      <3>3. request' \in [Requests -> Request] /\ Counting' = {}
        BY <3>1, <3>2 DEF Counting
      <3> QED
        BY <3>3
    <2> QED
      BY <2>1, <2>2 DEF Cancel
  <1>4. TypeOK'
    BY <1>1, <1>3 DEF IInv, TypeOK, drive
  <1>5. RunningJobsAreKnown'
    BY <1>1 DEF IInv, RunningJobsAreKnown, Running, SameProgress
  <1>6. Reserved'
    <2>1. Unused' = Unused
      BY <1>1 DEF Unused, SameProgress
    <2>2. Cardinality(Counting') <= Cardinality(Counting) /\ Cardinality(Counting') \in Nat
      BY <1>3, Countable, FS_Subset, FS_CardinalityType
    <2>3. Cardinality(Counting') <= Cardinality(Unused')
      BY <2>1, <2>2, Countable DEF IInv, Reserved
    <2> QED
      BY <1>3, <2>3 DEF IInv, Reserved
  <1>7. \A k \in JobIds : JobInv(k)'
    BY <1>1, <1>2, Bystander
  <1> QED
    BY <1>2, <1>4, <1>5, <1>6, <1>7 DEF IInv

-----------------------------------------------------------------------------
(* What a job does.                                                        *)

LEMMA AdvanceInv ==
  ASSUME IInv, NEW j \in JobIds, Advance(j)
  PROVE  IInv'
  <1>1. /\ Running(j) /\ job[j].pc = "next" /\ job[j].at = NoEntry /\ job[j] \in Job
        /\ job[j].batch \subseteq Entries /\ job[j].todo \subseteq job[j].batch
        /\ job[j].by \in Sessions /\ job[j].chunk = 1
        /\ UNCHANGED <<session, entry, attached, request, known, phase>>
    BY JobFields DEF Advance, At, IInv, JobInv, Progress, Deleted
  <1>2. /\ job[j].done_entries = Cardinality(job[j].batch \ job[j].todo)
        /\ \A e \in job[j].batch \ job[j].todo : Lost(e)
    <2>1. job[j].batch \ (job[j].todo \cup {NoEntry}) = job[j].batch \ job[j].todo
      BY <1>1, NullsAssumption
    <2> QED
      BY <1>1, <2>1 DEF IInv, JobInv, Progress
  <1>3. CASE Finish(j, "done") /\ job[j].todo = {}
    <2>1. job[j].batch \ job[j].todo = job[j].batch
      BY <1>3
    <2> QED
      BY <1>1, <1>2, <1>3, <2>1, FinishInv
  <1>4. CASE Finish(j, "cancelled")
    BY <1>1, <1>4, FinishInv
  <1>5. ASSUME ~Stopped(j), NEW e \in job[j].todo,
               job' = [job EXCEPT ![j] = [@ EXCEPT !.at = e, !.todo = job[j].todo \ {e},
                                                   !.pc = "read"]],
               UNCHANGED lock
        PROVE  IInv'
    <2> DEFINE new == [job[j] EXCEPT !.at = e, !.todo = job[j].todo \ {e}, !.pc = "read"]
    <2>1. job' = [job EXCEPT ![j] = new]
      BY <1>5
    <2>2. new \in Job
      <3>1. e \in Entries \cup {NoEntry} /\ job[j].todo \ {e} \in SUBSET Entries /\ "read" \in Pcs
        BY <1>1 DEF Pcs
      <3> QED
        BY <1>1, <3>1 DEF Job
    <2>3. /\ new.state = "running" /\ new.by = job[j].by /\ new.batch = job[j].batch
          /\ new.todo = job[j].todo \ {e} /\ new.at = e /\ new.pc = "read" /\ new.chunk = 1
          /\ new.done_entries = job[j].done_entries /\ new.after = job[j].after
      BY <1>1 DEF Job, Running
    <2> HIDE DEF new
    <2>4. job'[j] = new
      BY <2>1 DEF IInv, TypeOK
    <2>5. job[j].after = 0
      BY <1>1, <1>5 DEF Stopped, IInv, JobInv, LastEntry
    <2>6. e \in job[j].batch /\ e # NoEntry
          /\ job[j].batch \ ((job[j].todo \ {e}) \cup {e}) = job[j].batch \ job[j].todo
      BY <1>1, NullsAssumption
    <2>7. Progress(j)'
      BY <1>1, <1>2, <2>3, <2>4, <2>6 DEF Progress, Lost
    <2>8. Deleted(j)' /\ LastEntry(j)' /\ DoneIsGone(j)'
      BY <2>3, <2>4, <2>5 DEF Deleted, LastEntry, DoneIsGone
    <2>9. Forward /\ SurvivorsAreNamed'
      BY <1>1, StillNamed DEF Forward, Lost
    <2>10. job[j].state # "none"
      BY <1>1 DEF Running
    <2> QED
      BY <1>1, <1>5, <2>1, <2>2, <2>3, <2>7, <2>8, <2>9, <2>10, OneJob DEF IInv, TypeOK, JobInv
  <1> QED
    BY <1>3, <1>4, <1>5 DEF Advance

\* A job that goes on with its entry: what its next position promises of the
\* attachments that are left.
LEMMA OnwardInv ==
  ASSUME IInv, NEW j \in JobIds, Running(j), job[j].at # NoEntry, job[j].after = 0,
         NEW pc \in {"lock", "delete", "rows"}, NEW chunk \in Nat \ {0},
         job' = [job EXCEPT ![j] = [job[j] EXCEPT !.chunk = chunk, !.pc = pc]],
         pc = "lock" => chunk = 1,
         pc = "delete" => /\ chunk <= Chunks[job[j].at]
                          /\ \A a \in attached' : a[1] = job[j].at => a[2] >= chunk,
         pc = "rows" => \A a \in attached' : a[1] # job[j].at,
         attached' \subseteq attached,
         UNCHANGED <<session, entry, request, known, phase>>,
         lock' \in [Entries -> JobIds \cup {NoJob}]
  PROVE  IInv'
  <1> DEFINE new == [job[j] EXCEPT !.chunk = chunk, !.pc = pc]
  <1>1. job[j] \in Job
    BY JobFields DEF IInv
  <1>2. new \in Job
    <2>1. pc \in Pcs
      BY DEF Pcs
    <2> QED
      BY <1>1, <2>1 DEF Job
  <1>3. /\ new.state = "running" /\ new.by = job[j].by /\ new.batch = job[j].batch
        /\ new.todo = job[j].todo /\ new.at = job[j].at /\ new.pc = pc /\ new.chunk = chunk
        /\ new.done_entries = job[j].done_entries /\ new.after = 0
    BY <1>1 DEF Job, Running
  <1> HIDE DEF new
  <1>4. job'[j] = new
    BY DEF IInv, TypeOK, new
  <1>5. Progress(j)'
    <2>1. Progress(j) /\ job[j].pc # "next" /\ pc # "next" /\ pc # "commit"
      BY DEF IInv, JobInv, Progress
    <2> QED
      BY <1>3, <1>4, <2>1 DEF Progress, Lost
  <1>6. Deleted(j)'
    BY <1>3, <1>4 DEF Deleted
  <1>7. LastEntry(j)' /\ DoneIsGone(j)'
    <2>1. job'[j].after = 0 /\ job'[j].state = "running"
      BY <1>3, <1>4
    <2> QED
      BY <2>1 DEF LastEntry, DoneIsGone
  <1>8. Forward /\ SurvivorsAreNamed'
    BY StillNamed DEF Forward, Lost
  <1>9. job[j].state # "none" /\ job' = [job EXCEPT ![j] = new]
    BY DEF Running, new
  <1> QED
    BY <1>2, <1>3, <1>5, <1>6, <1>7, <1>8, <1>9, OneJob DEF IInv, TypeOK, JobInv

LEMMA OnEntry ==
  ASSUME IInv, NEW j \in JobIds, Running(j), job[j].pc # "next"
  PROVE  /\ job[j].at \in Entries /\ job[j].at # NoEntry /\ job[j] \in Job
         /\ job[j].pc # "commit" => job[j].after = 0
         /\ job[j].after # 0 => session[job[j].by] = "over"
         /\ job[j].by \in Sessions
         /\ Chunks[job[j].at] \in Nat /\ job[j].chunk \in Nat \ {0}
  <1>1. job[j].at \in Entries /\ job[j].at # NoEntry /\ job[j] \in Job /\ job[j].by \in Sessions
    BY JobFields DEF IInv, JobInv, Progress
  <1>2. Chunks[job[j].at] \in Nat /\ job[j].chunk \in Nat \ {0}
    BY <1>1, BoundsAssumption, JobFields DEF IInv
  <1>3. /\ job[j].pc # "commit" => job[j].after = 0
        /\ job[j].after # 0 => session[job[j].by] = "over"
    BY DEF IInv, JobInv, LastEntry
  <1> QED
    BY <1>1, <1>2, <1>3

LEMMA ReadInv ==
  ASSUME IInv, NEW j \in JobIds, Read(j)
  PROVE  IInv'
  <1>1. /\ Running(j) /\ job[j].pc = "read" /\ job[j].chunk = 1
        /\ job[j].at \in Entries /\ job[j].at # NoEntry /\ job[j].after = 0
        /\ UNCHANGED <<session, entry, attached, request, known, phase>>
    BY OnEntry DEF Read, At, IInv, JobInv, Deleted
  <1>2. CASE Lost(job[j].at)
    <2>1. Counted(j) /\ lock' = lock
      BY <1>2 DEF Read, Lost
    <2> QED
      BY <1>1, <1>2, <2>1, CountedInv DEF IInv, TypeOK
  <1>3. CASE entry[job[j].at] = "live"
    BY <1>1, <1>3, FinishInv DEF Read, Lost
  <1>4. CASE entry[job[j].at] = "trashed"
    <2>1. job' = [job EXCEPT ![j] = [job[j] EXCEPT !.chunk = 1, !.pc = "lock"]] /\ lock' = lock
      <3>1. [job[j] EXCEPT !.pc = "lock"] = [job[j] EXCEPT !.chunk = 1, !.pc = "lock"]
        BY <1>1, JobFields DEF IInv, Job
      <3>2. job' = [job EXCEPT ![j] = [job[j] EXCEPT !.pc = "lock"]] /\ lock' = lock
        BY <1>4 DEF Read, Lost
      <3> QED
        BY <3>1, <3>2
    <2>2. attached' \subseteq attached /\ lock' \in [Entries -> JobIds \cup {NoJob}]
      BY <1>1, <2>1 DEF IInv, TypeOK
    <2>3. 1 \in Nat \ {0} /\ "lock" \in {"lock", "delete", "rows"}
      OBVIOUS
    <2> QED
      BY <1>1, <2>1, <2>2, <2>3, OnwardInv
  <1>5. entry[job[j].at] \in {"trashed", "live", "adrift", "gone"}
    BY <1>1 DEF IInv, TypeOK
  <1> QED
    BY <1>2, <1>3, <1>4, <1>5 DEF Lost

\* Its directory is locked, and it is at its first attachment or has none; or there
\* is no directory to stage, and the entry is counted.
LEMMA LockInv ==
  ASSUME IInv, NEW j \in JobIds, Lock(j)
  PROVE  IInv'
  <1> DEFINE pc == After(j, 0)
  <1>1. /\ Running(j) /\ job[j].pc = "lock" /\ job[j].chunk = 1 /\ job[j] \in Job
        /\ job[j].at \in Entries /\ job[j].at # NoEntry /\ job[j].after = 0
        /\ Chunks[job[j].at] \in Nat
        /\ UNCHANGED <<session, entry, attached, request, known, phase>>
    BY OnEntry DEF Lock, At, IInv, JobInv, Deleted
  <1>2. CASE entry[job[j].at] = "adrift" /\ Counted(j) /\ UNCHANGED lock
    BY <1>1, <1>2, CountedInv DEF Lost, IInv, TypeOK
  <1>3. CASE /\ lock' = [lock EXCEPT ![job[j].at] = j]
             /\ job' = [job EXCEPT ![j] = [job[j] EXCEPT !.pc = pc]]
    <2>1. pc \in {"lock", "delete", "rows"} /\ pc # "lock"
      BY DEF After
    <2>2. job' = [job EXCEPT ![j] = [job[j] EXCEPT !.chunk = 1, !.pc = pc]]
      <3>1. [job[j] EXCEPT !.pc = pc] = [job[j] EXCEPT !.chunk = 1, !.pc = pc]
        BY <1>1 DEF Job
      <3> QED
        BY <1>3, <3>1
    <2>3. lock' \in [Entries -> JobIds \cup {NoJob}] /\ attached' \subseteq attached
      BY <1>1, <1>3 DEF IInv, TypeOK
    <2>4. \A a \in attached' : a[1] \in Entries /\ a[2] \in 1 .. Chunks[a[1]]
      BY <1>1, AttachmentIs DEF IInv, TypeOK
    <2>5. pc = "delete" => /\ 1 <= Chunks[job[j].at]
                           /\ \A a \in attached' : a[1] = job[j].at => a[2] >= 1
      BY <1>1, <2>4 DEF After
    <2>6. pc = "rows" => \A a \in attached' : a[1] # job[j].at
      BY <1>1, <2>4 DEF After
    <2>7. 1 \in Nat \ {0}
      OBVIOUS
    <2> HIDE DEF pc
    <2> QED
      BY <1>1, <2>1, <2>2, <2>3, <2>5, <2>6, <2>7, OnwardInv
  <1> QED
    BY <1>2, <1>3 DEF Lock

\* The attachment it is at is deleted, unless it was told to stop.
LEMMA DeleteInv ==
  ASSUME IInv, NEW j \in JobIds, Delete(j)
  PROVE  IInv'
  <1> DEFINE pc == After(j, job[j].chunk)
             chunk == job[j].chunk + 1
             at == job[j].at
  <1>1. /\ Running(j) /\ job[j].pc = "delete" /\ job[j] \in Job
        /\ at \in Entries /\ at # NoEntry /\ job[j].after = 0
        /\ Chunks[at] \in Nat /\ job[j].chunk \in Nat \ {0}
        /\ job[j].chunk <= Chunks[at]
        /\ \A a \in attached : a[1] = at => a[2] >= job[j].chunk
        /\ UNCHANGED <<session, entry, request, known, phase>>
    BY OnEntry DEF Delete, At, IInv, JobInv, Deleted
  <1>2. CASE Finish(j, "cancelled") /\ UNCHANGED attached
    BY <1>1, <1>2, FinishInv
  <1>3. CASE /\ job' = [job EXCEPT ![j] = [job[j] EXCEPT !.chunk = chunk, !.pc = pc]]
             /\ UNCHANGED lock
             /\ attached' = attached \ {<<at, job[j].chunk>>}
    <2>1. pc \in {"lock", "delete", "rows"} /\ pc # "lock" /\ chunk \in Nat \ {0}
      BY <1>1 DEF After
    <2>2. attached' \subseteq attached /\ lock' \in [Entries -> JobIds \cup {NoJob}]
      BY <1>3 DEF IInv, TypeOK
    <2>3. \A a \in attached : /\ a[1] \in Entries /\ a[2] \in 1 .. Chunks[a[1]]
                             /\ a = <<a[1], a[2]>>
      BY AttachmentIs DEF IInv, TypeOK
    <2>4. ASSUME NEW a \in attached', a[1] = at
          PROVE  a[2] >= chunk /\ a[2] \in 1 .. Chunks[at]
      <3>1. a \in attached /\ a # <<at, job[j].chunk>> /\ a = <<a[1], a[2]>>
        BY <1>3, <2>3
      <3>2. a[2] \in 1 .. Chunks[at] /\ a[2] >= job[j].chunk
        BY <1>1, <2>3, <2>4, <3>1
      <3>3. a[2] # job[j].chunk
        BY <2>4, <3>1
      <3> QED
        BY <1>1, <3>2, <3>3
    <2>5. pc = "delete" => /\ chunk <= Chunks[at]
                           /\ \A a \in attached' : a[1] = at => a[2] >= chunk
      BY <1>1, <2>4 DEF After
    <2>6. pc = "rows" => \A a \in attached' : a[1] # at
      <3>1. pc = "rows" => job[j].chunk = Chunks[at]
        BY DEF After
      <3>2. job[j].chunk = Chunks[at] => \A a \in attached' : a[1] # at
        <4> SUFFICES ASSUME job[j].chunk = Chunks[at], NEW a \in attached', a[1] = at
                     PROVE  FALSE
          OBVIOUS
        <4>1. a[2] >= chunk /\ a[2] \in 1 .. Chunks[at]
          BY <2>4
        <4> QED
          BY <1>1, <4>1
      <3> QED
        BY <3>1, <3>2
    <2> HIDE DEF pc, chunk
    <2> QED
      BY <1>1, <1>3, <2>1, <2>2, <2>5, <2>6, OnwardInv
  <1> QED
    BY <1>2, <1>3 DEF Delete

\* Its document is deleted, after all its attachments.
LEMMA DeleteRowInv ==
  ASSUME IInv, NEW j \in JobIds, DeleteRow(j)
  PROVE  IInv'
  <1> DEFINE n == job[j].after + IF session[job[j].by] = "over" THEN 1 ELSE 0
             new == [job[j] EXCEPT !.pc = "commit", !.after = n]
  <1>1. /\ Running(j) /\ job[j].pc = "rows" /\ job[j] \in Job
        /\ job[j].at \in Entries /\ job[j].at # NoEntry /\ job[j].after = 0
        /\ job[j].by \in Sessions
        /\ \A a \in attached : a[1] # job[j].at
        /\ UNCHANGED <<session, attached, lock, request, known, phase>>
        /\ entry' = [entry EXCEPT ![job[j].at] = "gone"]
    BY OnEntry DEF DeleteRow, At, IInv, JobInv, Deleted
  <1>2. n \in 0 .. Cardinality(Entries) /\ n \in {0, 1}
        /\ (n # 0 => session[job[j].by] = "over")
    BY <1>1, SomeEntry
  <1>3. job' = [job EXCEPT ![j] = new]
    BY DEF DeleteRow
  <1> HIDE DEF n
  <1>4. new \in Job
    <2>1. "commit" \in Pcs
      BY DEF Pcs
    <2> QED
      BY <1>1, <1>2, <2>1 DEF Job
  <1>5. /\ new.state = "running" /\ new.by = job[j].by /\ new.batch = job[j].batch
        /\ new.todo = job[j].todo /\ new.at = job[j].at /\ new.pc = "commit"
        /\ new.done_entries = job[j].done_entries /\ new.after = n
    BY <1>1 DEF Job, Running
  <1> HIDE DEF new
  <1>6. job'[j] = new
    BY <1>3 DEF IInv, TypeOK
  <1>7. /\ entry' \in [Entries -> {"trashed", "live", "adrift", "gone"}] /\ entry'[job[j].at] = "gone"
        /\ \A e \in Entries : e # job[j].at => entry'[e] = entry[e]
    BY <1>1 DEF IInv, TypeOK
  <1>8. Forward
    BY <1>1, <1>7 DEF Forward, Lost
  <1>9. SurvivorsAreNamed'
    <2>1. \A a \in attached : a[1] \in Entries
      BY AttachmentIs DEF IInv, TypeOK
    <2> QED
      BY <1>1, <1>7, <2>1 DEF SurvivorsAreNamed, IInv
  <1>10. Progress(j)'
    <2>1. /\ job[j].todo \subseteq job[j].batch /\ job[j].batch \subseteq Entries
          /\ job[j].at \in job[j].batch \ job[j].todo
          /\ job[j].done_entries = Cardinality(job[j].batch \ (job[j].todo \cup {job[j].at}))
          /\ \A e \in job[j].batch \ (job[j].todo \cup {job[j].at}) : Lost(e)
      BY <1>1, JobFields DEF IInv, JobInv, Progress
    <2>2. \A e \in job[j].batch \ (job[j].todo \cup {job[j].at}) : Lost(e)'
      BY <1>8, <2>1 DEF Forward
    <2> QED
      BY <1>1, <1>5, <1>6, <1>7, <2>1, <2>2 DEF Progress
  <1>11. Deleted(j)' /\ DoneIsGone(j)'
    BY <1>1, <1>5, <1>6 DEF Deleted, DoneIsGone
  <1>12. LastEntry(j)'
    BY <1>1, <1>2, <1>5, <1>6 DEF LastEntry
  <1>13. job[j].state # "none"
    BY <1>1 DEF Running
  <1> QED
    BY <1>1, <1>3, <1>4, <1>5, <1>7, <1>8, <1>9, <1>10, <1>11, <1>12, <1>13, OneJob
    DEF IInv, TypeOK, JobInv

LEMMA CommitInv ==
  ASSUME IInv, NEW j \in JobIds, Commit(j)
  PROVE  IInv'
  <1>1. /\ Running(j) /\ job[j].pc = "commit" /\ job[j].at # NoEntry
        /\ job[j].after # 0 => session[job[j].by] = "over"
        /\ UNCHANGED <<session, entry, attached, request, known, phase>> /\ Counted(j)
    BY OnEntry DEF Commit, At
  <1>2. Lost(job[j].at)
    BY <1>1 DEF IInv, JobInv, Progress, Lost
  <1>3. lock' \in [Entries -> JobIds \cup {NoJob}]
    BY DEF Commit, Unlocked, IInv, TypeOK
  <1> QED
    BY <1>1, <1>2, <1>3, CountedInv

LEMMA AbandonInv ==
  ASSUME IInv, NEW j \in JobIds, Fail(j) \/ Kill(j)
  PROVE  IInv'
  BY FinishInv DEF Fail, Kill

-----------------------------------------------------------------------------
(* The theorems.                                                           *)

LEMMA IInvNext == ASSUME IInv, [Next]_vars PROVE IInv'
  <1>1. CASE UNCHANGED vars
    <2>1. Forward /\ SurvivorsAreNamed'
      BY <1>1, StillNamed DEF Forward, Lost, vars, drive
    <2>2. Counting' = Counting
      BY <1>1 DEF vars, Counting
    <2> QED
      BY <1>1, <2>1, <2>2, NoJobMoves DEF IInv, TypeOK, Reserved, vars, drive
  <1>2. CASE Serve
    BY <1>2, OthersInv, StartInv, CountInv, SweepInv, AskInv DEF Serve
  <1>3. CASE Stop
    BY <1>3, AskInv
  <1>4. CASE Down
    BY <1>4, OthersInv
  <1>5. CASE \E j \in JobIds : Work(j) \/ Fail(j) \/ Kill(j)
    BY <1>5, AdvanceInv, ReadInv, LockInv, DeleteInv, DeleteRowInv, CommitInv, AbandonInv
    DEF Work
  <1>6. CASE \E e \in Entries : Restore(e) \/ Trash(e) \/ Expire(e) \/ CutOff(e)
    BY <1>6, OthersInv
  <1> QED
    BY <1>1, <1>2, <1>3, <1>4, <1>5, <1>6 DEF Next

LEMMA Inductive == Spec => []IInv
  BY InitInv, IInvNext, PTL DEF Spec

\* Sessions, entries, attachments, locks, requests, jobs and the registry keep
\* their types; a job never counts more entries than there are.
THEOREM TypeCorrect == Spec => []TypeOK
  BY Inductive, PTL DEF IInv

\* Wherever a batch is cancelled, killed or fails, and whatever other jobs and
\* the sweep destroy meanwhile, an attachment that is left has a document that
\* names it.
THEOREM SurvivorsNamed == Spec => []SurvivorsAreNamed
  BY Inductive, PTL DEF IInv

\* A batch of any size that reports itself done has counted every entry exactly
\* once, and `purge` finds none of them any more, whoever else restored, trashed,
\* swept or cut off entries of it meanwhile.
THEOREM DoneIsDone == Spec => []DoneMeansGone
  <1>1. IInv => DoneMeansGone
    BY DEF IInv, JobInv, DoneIsGone, DoneMeansGone
  <1> QED
    BY Inductive, <1>1, PTL

\* A job destroys at most one document after the session that started it is over.
THEOREM OneEntryMore == Spec => []OutlivesItsSessionByOneEntry
  <1>1. IInv => OutlivesItsSessionByOneEntry
    BY DEF IInv, JobInv, LastEntry, OutlivesItsSessionByOneEntry
  <1> QED
    BY Inductive, <1>1, PTL

\* A job that is destroying is found by `running_for_tree`, `get` and
\* `cancel_all`, however many sweeps of the registry there are.
THEOREM RunningIsKnown == Spec => []RunningJobsAreKnown
  BY Inductive, PTL DEF IInv
=============================================================================
