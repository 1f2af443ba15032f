-------------------------------- MODULE Jobs --------------------------------
(***************************************************************************)
(* src/src/jobs.py: batches of trash entries destroyed in the background,  *)
(* the web sessions of src/src/websession.py whose key they borrow, and    *)
(* what else moves meanwhile: other clients that restore and trash, the    *)
(* sweep of expired trash, and the shutdown of the web application.        *)
(*                                                                         *)
(* There is one drive (docs/OPERATIONS.md: "One account"), so every job    *)
(* and every session has the same `root_id`.  An entry has its attachments *)
(* and lies in a directory of its own, which another purge may destroy;    *)
(* the directory's tags are the business of DirEntries, and `purge`        *)
(* appears here as what it does to the entry and its attachments.  Times   *)
(* are left out: a session may pass a deadline, and a finished job its     *)
(* retention, at any moment.                                               *)
(***************************************************************************)
EXTENDS Naturals, FiniteSets

CONSTANTS
  Sessions,    \* ids of sessions that may be created
  Entries,     \* nodes that may be in the trash
  Requests,    \* HTTP requests being served
  Chunks,      \* Entries -> the number of its attachments
  MaxJobs,     \* bound on the jobs the registry has at a time
  NoEntry, NoSession

ASSUME NullsAssumption == NoEntry \notin Entries /\ NoSession \notin Sessions
ASSUME BoundsAssumption == Chunks \in [Entries -> Nat] /\ MaxJobs \in Nat
ASSUME FiniteAssumption == IsFiniteSet(Entries) /\ IsFiniteSet(Requests)

VARIABLES
  session,  \* Sessions -> "none" before the login, then "live", then "over"
  entry,    \* Entries -> "trashed", "live", "adrift": in the trash, and a directory
            \* above it is gone, or "gone": no document any more
  attached, \* the attachments no delete was sent for
  lock,     \* Entries -> the job holding the lock of the entry's directory
  request,  \* Requests -> the `start_purge` being served
  job,      \* jobs by number
  known,    \* `_jobs`: the numbers of the jobs in the registry
  phase     \* "up", then "stopping" in `_stop_sweeper`, then "down"

drive == <<entry, attached, lock>>
vars == <<session, drive, request, job, known, phase>>

JobIds == 1 .. MaxJobs
NoJob == 0
AttachmentsOf(e) == {e} \X (1 .. Chunks[e])
Attachments == UNION {AttachmentsOf(e) : e \in Entries}

-----------------------------------------------------------------------------
(* Jobs and requests.                                                      *)

States == {"none", "running", "done", "cancelled", "failed"}
Pcs == {"next", "read", "lock", "delete", "rows", "commit"}

\* todo: entries the loop has yet to come to; at: the one it is on; chunk: the
\* attachment to delete next; after: history, documents this job deleted after
\* its session was over.
NewJob ==
  [state |-> "none", by |-> NoSession, batch |-> {}, todo |-> {}, at |-> NoEntry,
   pc |-> "next", chunk |-> 1, cancel_requested |-> FALSE, done_entries |-> 0,
   after |-> 0]

Job ==
  [state : States, by : Sessions \cup {NoSession}, batch : SUBSET Entries,
   todo : SUBSET Entries, at : Entries \cup {NoEntry}, pc : Pcs,
   chunk : Nat \ {0}, cancel_requested : BOOLEAN,
   done_entries : 0 .. Cardinality(Entries), after : 0 .. Cardinality(Entries)]

\* counting: the loop over `purge_cost` is under way; todo: what is not counted.
Idle == [counting |-> FALSE, by |-> NoSession, batch |-> {}, todo |-> {}]

Request ==
  [counting : BOOLEAN, by : Sessions \cup {NoSession},
   batch : SUBSET Entries, todo : SUBSET Entries]

Init ==
  /\ session = [s \in Sessions |-> "none"]
  /\ entry = [e \in Entries |-> "trashed"]
  /\ attached = Attachments
  /\ lock = [e \in Entries |-> NoJob]
  /\ request = [r \in Requests |-> Idle]
  /\ job = [j \in JobIds |-> NewJob]
  /\ known = {}
  /\ phase = "up"

\* What `purge` answers with NotFound: no document, or no way up to the root.
Lost(e) == entry[e] \in {"gone", "adrift"}

Running(j) == job[j].state = "running"
Finished(j) == job[j].state \in {"done", "cancelled", "failed"}
At(j, pc) == Running(j) /\ job[j].pc = pc

\* A job number nobody has and no request is about to take.
Unused == {j \in JobIds : job[j].state = "none"}
Counting == {r \in Requests : request[r].counting}

\* The job is registered and its task created, in the request's own step.
Register(s, batch) ==
  LET j == CHOOSE k \in Unused : TRUE IN
  /\ job' = [job EXCEPT ![j] = [NewJob EXCEPT !.state = "running", !.by = s,
                                              !.batch = batch, !.todo = batch]]
  /\ known' = known \cup {j}

-----------------------------------------------------------------------------
(* Sessions.                                                               *)

\* `SessionStore.create`, from `login`.
Login(s) ==
  /\ phase = "up" /\ session[s] = "none"
  /\ session' = [session EXCEPT ![s] = "live"]
  /\ UNCHANGED <<drive, request, job, known, phase>>

\* `SessionStore.drop`: a logout, another session's "revoke others", or one of
\* the two deadlines noticed by `get`, `create` or the sweeper.  The session's
\* `vfs` is None from here on.
Drop(s) ==
  /\ phase = "up" /\ session[s] = "live"
  /\ session' = [session EXCEPT ![s] = "over"]
  /\ UNCHANGED <<drive, request, job, known, phase>>

-----------------------------------------------------------------------------
(* `start_purge`.                                                          *)

SweepableAll == known
\* `sweep`: finished jobs past their retention.
Sweepable == {j \in known : Finished(j)}

\* `purge_trash` of one node the client names, `empty_trash` of all that
\* `list_trash` returned.  Up to the first `purge_cost` nothing is awaited;
\* with nothing to count the job is registered at once.  The check of
\* `running_for_tree` is not repeated after the counting.
Start(r, s, batch) ==
  /\ phase = "up" /\ ~request[r].counting /\ session[s] = "live"
  /\ Cardinality(Unused) > Cardinality(Counting)
  /\ Cardinality(batch) = 1 \/ batch = {e \in Entries : entry[e] = "trashed"}
  /\ \A j \in known : ~Running(j)
  /\ IF batch = {}
     THEN Register(s, batch) /\ UNCHANGED request
     ELSE /\ request' = [request EXCEPT ![r] = [counting |-> TRUE, by |-> s,
                                                batch |-> batch, todo |-> batch]]
          /\ UNCHANGED <<job, known>>
  /\ UNCHANGED <<session, drive, phase>>

\* `purge_cost` of one entry answered; after the last answer the job is there.
Count(r, e) ==
  LET left == request[r].todo \ {e} IN
  /\ request[r].counting /\ e \in request[r].todo
  /\ IF entry[e] = "gone"
     THEN request' = [request EXCEPT ![r] = Idle] /\ UNCHANGED <<job, known>>
     ELSE IF left # {}
     THEN request' = [request EXCEPT ![r].todo = left] /\ UNCHANGED <<job, known>>
     ELSE /\ Register(request[r].by, request[r].batch)
          /\ request' = [request EXCEPT ![r] = Idle]
  /\ UNCHANGED <<session, drive, phase>>

\* `sweep`, from `start_purge` or `list_jobs`.  Of a finished job nothing is
\* left, and its number is free; a running task would run on without its entry.
Sweep(j) ==
  /\ phase = "up" /\ j \in Sweepable
  /\ known' = known \ {j}
  /\ job' = IF Running(j) THEN job ELSE [job EXCEPT ![j] = NewJob]
  /\ UNCHANGED <<session, drive, request, phase>>

\* `cancel`: the job is looked up in the registry, by whoever has the drive.
Cancel(j) ==
  /\ phase = "up" /\ j \in known /\ Running(j)
  /\ job' = [job EXCEPT ![j].cancel_requested = TRUE]
  /\ UNCHANGED <<session, drive, request, known, phase>>

-----------------------------------------------------------------------------
(* `_run`.                                                                 *)

UnlockedEventually(j) == lock
Unlocked(j) == [e \in Entries |-> IF lock[e] = j THEN NoJob ELSE lock[e]]

\* The batch is over, and with it whatever `purge` held.
Finish(j, state) ==
  /\ job' = [job EXCEPT ![j] = [@ EXCEPT !.state = state, !.at = NoEntry, !.todo = {},
                                         !.pc = "next", !.chunk = 1]]
  /\ lock' = Unlocked(j)

\* The cancel flag alone, whatever became of the session.
StoppedByFlag(j) == job[j].cancel_requested
\* The checks at the head of the loop.
Stopped(j) == session[job[j].by] = "over" \/ job[j].cancel_requested

\* The head of the loop, the `else` of it included.
Advance(j) ==
  /\ At(j, "next")
  /\ IF job[j].todo = {} THEN Finish(j, "done")
     ELSE IF Stopped(j) THEN Finish(j, "cancelled")
     ELSE /\ \E e \in job[j].todo :
               job' = [job EXCEPT ![j] = [@ EXCEPT !.at = e, !.todo = job[j].todo \ {e},
                                                     !.pc = "read"]]
          /\ UNCHANGED lock
  /\ UNCHANGED <<session, entry, attached, request, known, phase>>

\* The entry is done with.
Counted(j) ==
  job' = [job EXCEPT ![j] = [@ EXCEPT !.at = NoEntry, !.pc = "next", !.chunk = 1,
                                      !.done_entries = job[j].done_entries + 1]]

ReadSkippingRestored(j) ==
  /\ At(j, "read")
  /\ IF entry[job[j].at] = "trashed"
     THEN job' = [job EXCEPT ![j].pc = "lock"]
     ELSE Counted(j)
  /\ UNCHANGED <<session, drive, request, known, phase>>

\* `purge` reads its node and walks up from it: NotFound is counted as done, live
\* is refused, and the refusal is the job's.
Read(j) ==
  /\ At(j, "read")
  /\ CASE Lost(job[j].at) -> Counted(j) /\ UNCHANGED lock
       [] entry[job[j].at] = "live" -> Finish(j, "failed")
       [] entry[job[j].at] = "trashed" ->
            job' = [job EXCEPT ![j].pc = "lock"] /\ UNCHANGED lock
  /\ UNCHANGED <<session, entry, attached, request, known, phase>>

RowsFirst(j, n) == IF n = 0 THEN "delete" ELSE "rows"
\* Where `purge` is after n attachments: at the next one, or at the documents.
After(j, n) == IF n = Chunks[job[j].at] THEN "rows" ELSE "delete"

\* `_locked_dirs`, `_subtree` and `_stage_entries`: what was read is not read
\* again, but there must be a directory to stage.
Lock(j) ==
  /\ At(j, "lock") /\ lock[job[j].at] = NoJob
  /\ \/ /\ lock' = [lock EXCEPT ![job[j].at] = j]
        /\ job' = [job EXCEPT ![j].pc = After(j, 0)]
     \/ entry[job[j].at] = "adrift" /\ Counted(j) /\ UNCHANGED lock
  /\ UNCHANGED <<session, entry, attached, request, known, phase>>

\* One attachment, unless `cancelled()`; what the delete answers is not looked
\* at.
Delete(j) ==
  LET a == <<job[j].at, job[j].chunk>> IN
  /\ At(j, "delete")
  /\ IF job[j].cancel_requested
     THEN Finish(j, "cancelled") /\ UNCHANGED attached
     ELSE /\ job' = [job EXCEPT ![j] = [@ EXCEPT !.chunk = job[j].chunk + 1,
                                                  !.pc = After(j, job[j].chunk)]]
          /\ UNCHANGED lock
          /\ attached' = attached \ {a}
  /\ UNCHANGED <<session, entry, request, known, phase>>

\* `delete_one` of the document.
DeleteRow(j) ==
  /\ At(j, "rows")
  /\ entry' = [entry EXCEPT ![job[j].at] = "gone"]
  /\ job' = [job EXCEPT ![j] = [@ EXCEPT !.pc = "commit",
               !.after = job[j].after + IF session[job[j].by] = "over" THEN 1 ELSE 0]]
  /\ UNCHANGED <<session, attached, lock, request, known, phase>>

\* The directory's tag is promoted, and `purge` returns.
Commit(j) ==
  /\ At(j, "commit")
  /\ Counted(j)
  /\ lock' = Unlocked(j)
  /\ UNCHANGED <<session, entry, attached, request, known, phase>>

Work(j) == Advance(j) \/ Read(j) \/ Lock(j) \/ Delete(j) \/ DeleteRow(j) \/ Commit(j)

\* A call of `purge` raises: the batch ends as failed.
Fail(j) ==
  /\ Running(j) /\ job[j].pc \in {"read", "lock", "rows", "commit"}
  /\ Finish(j, "failed")
  /\ UNCHANGED <<session, entry, attached, request, known, phase>>

-----------------------------------------------------------------------------
(* Everybody else.                                                         *)

\* `restore` by another client, which wants the same directory.
Restore(e) ==
  /\ phase = "up" /\ lock[e] = NoJob /\ entry[e] = "trashed"
  /\ entry' = [entry EXCEPT ![e] = "live"]
  /\ UNCHANGED <<session, attached, lock, request, job, known, phase>>

\* `remove` or `trash`, which take no lock; SFTP is still there when the web
\* application stops.
Trash(e) ==
  /\ phase # "down" /\ entry[e] = "live"
  /\ entry' = [entry EXCEPT ![e] = "trashed"]
  /\ UNCHANGED <<session, attached, lock, request, job, known, phase>>

\* `trash_sweeper` purges an expired entry with a key it borrows; it holds the
\* directory throughout, so for the jobs it is one step.
Expire(e) ==
  /\ phase = "up" /\ \E s \in Sessions : session[s] = "live"
  /\ lock[e] = NoJob /\ entry[e] = "trashed"
  /\ entry' = [entry EXCEPT ![e] = "gone"]
  /\ attached' = attached \ AttachmentsOf(e)
  /\ UNCHANGED <<session, lock, request, job, known, phase>>

\* A purge of a directory above, which had listed what is below it before the
\* entry was moved there.
CutOff(e) ==
  /\ phase # "down" /\ entry[e] = "trashed"
  /\ entry' = [entry EXCEPT ![e] = "adrift"]
  /\ UNCHANGED <<session, attached, lock, request, job, known, phase>>

\* The handlers have ended or were cancelled, and `_stop_sweeper` asks every
\* job to stop.
Stop ==
  /\ phase = "up"
  /\ phase' = "stopping"
  /\ request' = [r \in Requests |-> Idle]
  /\ job' = [j \in JobIds |-> IF j \in known /\ Running(j)
                              THEN [job[j] EXCEPT !.cancel_requested = TRUE] ELSE job[j]]
  /\ UNCHANGED <<session, drive, known>>

\* The wait for a job timed out, here or in `_bounded`, and its task is
\* cancelled wherever it is.
Kill(j) ==
  /\ phase = "stopping" /\ Running(j)
  /\ Finish(j, "cancelled")
  /\ UNCHANGED <<session, entry, attached, request, known, phase>>

\* Every session is dropped, and the process ends.
Down ==
  /\ phase = "stopping" /\ \A j \in JobIds : ~Running(j)
  /\ phase' = "down"
  /\ session' = [s \in Sessions |-> IF session[s] = "live" THEN "over" ELSE session[s]]
  /\ UNCHANGED <<drive, request, job, known>>

-----------------------------------------------------------------------------

Serve ==
  \/ \E s \in Sessions : Login(s) \/ Drop(s)
  \/ \E r \in Requests :
       \/ \E e \in Entries : Count(r, e)
       \/ \E s \in Sessions, batch \in SUBSET Entries : Start(r, s, batch)
  \/ \E j \in JobIds : Sweep(j) \/ Cancel(j)

Next ==
  \/ Serve \/ Stop \/ Down
  \/ \E j \in JobIds : Work(j) \/ Fail(j) \/ Kill(j)
  \/ \E e \in Entries : Restore(e) \/ Trash(e) \/ Expire(e) \/ CutOff(e)

Spec == Init /\ [][Next]_vars

\* The event loop runs a job whose call has returned, calls return or raise,
\* and a free lock is taken by whoever waits for it.  Nothing is assumed of
\* clients, sessions, the sweeps or the shutdown.
FairSpec == Spec /\ \A j \in JobIds : WF_vars(Work(j))

-----------------------------------------------------------------------------
(* Properties.                                                             *)

TypeOK ==
  /\ session \in [Sessions -> {"none", "live", "over"}]
  /\ entry \in [Entries -> {"trashed", "live", "adrift", "gone"}]
  /\ attached \subseteq Attachments
  /\ lock \in [Entries -> JobIds \cup {NoJob}]
  /\ request \in [Requests -> Request]
  /\ job \in [JobIds -> Job]
  /\ known \subseteq JobIds
  /\ phase \in {"up", "stopping", "down"}

\* `purge`: "the attachments go first and the documents last, so the survivor is
\* always a node that can still be found and retried rather than an orphan
\* nobody can name", wherever a batch is cancelled, killed or fails.
SurvivorsAreNamed ==
  \A a \in attached : entry[a[1]] # "gone"

\* A batch that reports itself done has counted every entry once, and none of it
\* is where somebody could still find it: none was skipped because it was
\* restored meanwhile.  `_run` says of the NotFound it counts "the node is gone";
\* it may also be there, cut off from the root.
DoneMeansGone ==
  \A j \in JobIds : job[j].state = "done" =>
    /\ job[j].done_entries = Cardinality(job[j].batch)
    /\ \A e \in job[j].batch : Lost(e)

\* "A job dies with the session that started it": it may finish the entry it is
\* on, and destroys no other.
OutlivesItsSessionByOneEntry == \A j \in JobIds : job[j].after <= 1

\* `running_for_tree`, `get` and `cancel_all` look for jobs in the registry: a
\* job that is still destroying is always found there.
RunningJobsAreKnown == \A j \in JobIds : Running(j) => j \in known

\* Whatever other jobs, failures and cancellations there are, a job ends: it
\* never waits for ever on a directory that a dead job still holds.
EveryJobEnds == \A j \in JobIds : Running(j) ~> Finished(j)
=============================================================================
