# A verification project for Discord-SFTP-Drive

The program is an asyncio server that offers an encrypted drive over SFTP and a
web UI. File contents are attachments of Discord messages (immutable, addressed
by message id); everything else is documents in MongoDB or SQLite. There are no
transactions: each database call writes one document atomically, each Discord
call uploads or deletes one attachment, and between two calls any other task may
run, any call may fail, a task may be cancelled and the process may die. What
this project specifies is how the code keeps a drive whole all the same.

Paths below are relative to the repository; line numbers are in
`PROJECT.json` (`map`, `hazards`, `findings`), which names for every definition
of the modules the lines it stands for.

## 1. Inventory

| component | state | operations | talks to |
|---|---|---|---|
| directory structure (`src/vfs.py`: `DiscordVFS`, `_stage_entries`, `_locked_dirs`) | node documents: id, parent, name, trash marker, `mac`; directory documents: `entries_mac`, `entries_mac_pending`; in memory: lock registry | `open`, `makedir`, `rename`, `posix_rename`, `remove`, `removedir`, `trash`, `restore`, `purge`, `purge_expired`, `sweep_incoming`, `truncate`, `setstat`, `list_dir`, `search` | metadata store, crypto, open handles, jobs |
| open handles (`src/vfs.py`: `DiscordFile`) | private copy of the node, append buffer, chunk cache, method lock; shared: `_node_versions` | `write_at`, `append`, `read_at`, `truncate`, `flush`, `close`, `abort` | metadata store, discord_api, directory structure (`_finish_overwrite`, rollback) |
| crypto (`src/crypto.py`) | none | CTR with random access, chunk/node/directory tags, key wrap | everybody |
| metadata store (`src/db.py`, `src/sqlitedb.py`) | collections, unique indexes | single-document reads and writes; `connect` | vfs, users, keystore |
| discord_api | cache of signed URLs, channel id | upload, download, delete, page through the channel, each with retries | Discord, ratelimit |
| ratelimit | buckets and their allowance, global pause, semaphore | `slot`, `acquire`, `update`, `note_429` | discord_api |
| jobs (`src/jobs.py`) | job registry, progress, cancel flags | `start_purge`, `cancel`, `sweep`, `shutdown` | vfs.purge |
| websession, webauth | sessions with idle and absolute windows; failure counters, login slots | create, touch, sweep, drop; check, fail, succeed | web |
| users, keystore | account rows and wrapped master key | `sync_env_user`, `adopt_legacy_record`, `ensure_usable`; `authenticate`, `open_master_key` | metadata store |
| web, sftp, main | HTTP handlers, SFTP callbacks, start-up and drain | | vfs, jobs, sessions |
| config | settings | parse the environment | everybody |
| client, scripts, tools | user interface; operator scripts, of which `find_orphans.py` reads drive and channel | | web; Discord, metadata store |

What makes each of them correct, and what is hard about it:

* **Directory structure.** A directory is vouched for by a tag over its
  (id, name) pairs, kept in *another* document than its children. A structural
  change therefore stages the next tag, mutates the child, then promotes the
  tag. A directory whose tags do not verify does not list at all, so: at every
  point, whoever is interrupted wherever, one of the two tags matches; at most
  one live node has a name; everything stored can be reached from the root or
  from the trash; a node is destroyed only if somebody discarded it; a listing
  raises no false alarm. Hard: two handlers at once, snapshots read before the
  lock, paths resolved before the tree changes, failures between any two writes.
* **Lock registry.** Locks are created on demand and forgotten when nobody uses
  them; they exclude, do not leak, are fair, survive cancellation of a waiter,
  and sorted acquisition excludes deadlock. Hard: a block inside another is sorted
  on its own.
* **Open handles.** The document never names an attachment that is gone; an
  attachment nobody names is deleted or known to be an orphan; chunks cover the
  file without a gap; a handle reads what it wrote; a handle that failed is
  done. Hard: failure of each of upload, commit and delete, also of a commit that
  was applied; a task cancelled at any await; two handles with private copies of one
  document; caches.
* **Attachments and retries.** A request that was applied and whose answer was
  lost is sent again. No retry may cost a chunk a node refers to, and nothing
  else may leave an orphan. Signed URLs lapse while cached and shared.
* **Limiter.** Several tasks wait for one allowance, answers arrive out of
  order; nobody goes over what Discord stated nor before a pause has ended, and
  nobody waits for ever.
* **Jobs.** A purge batch holds the key of a session; batches race, are
  cancelled, killed and swept. What they leave can be purged again, what they
  call done is gone.
* **Accounts and key.** A start rewrites the one record that opens every file,
  in several writes, with passwords that change between starts. No crash and no
  lost account row may lose the key or make a second one.
* **Sign-in and sessions.** Counters are read before a wait and written after
  it; a session expires by two clocks the client chooses. Guesses in parallel
  gain little, a lock-out ends, and a key is forgotten in time.
* **Metadata store.** Two backends with different ideas of null, index names and
  types must look the same to their callers, across starts that die half way.

## 2. Plan

| | module | models | status |
|---|---|---|---|
| 1 | `DirEntries` | structural handlers in flat directories, tags, failures, crashes | written, checked, four theorems |
| 2 | `DirMutex`, `DirLocks` | abstract lock of a directory; the registry that implements it | written, checked, five theorems |
| 3 | `FileHandle` | contents of one file under several handles | written, checked, six theorems |
| 4 | `Tree` | directories that move, are trashed and purged with what is below them; listing and search | written, checked, three theorems |
| 5 | `Jobs` | purge batches with their sessions | written, checked, four theorems |
| 6 | `Attachments` | retries, lost answers, URL cache, the orphan scan | written, checked, four theorems |
| 7 | `RateLimit` | buckets, pauses, semaphore, the retry loop | written, checked, three theorems |
| 8 | `Startup` | account and key over starts, crashes, lost rows | written, checked, four theorems |
| 9 | `Login` | sign-in guard and sessions over time | written, checked, two theorems |
| 10 | `Collection`, `SqliteStore` | the contract of a collection; the SQLite backend that implements it | written, checked, three theorems |

Composition. `DirEntries` and `Tree` take of a directory lock exactly what
`DirMutex` says; `DirEntries` is *proved* to use locks that way
(`HandlersTakeLocksInOrder`) and `DirLocks` to implement `DirMutex`
(`RegistryImplementsMutex`), so the two fit together for any number of tasks and
directories. `SqliteStore` is proved to implement `Collection`
(`StoreKeepsContract`), which is what every other module takes a database call to
be: one document, one step (an upsert, which only the start uses, two), unique
indexes. `FileHandle` takes an upload and a delete to end in success or failure,
`Attachments` says how they do. `Attachments` lets any attempt be delayed,
`RateLimit` says for how long.

## 3. The modules and the code

Times are relative throughout: what is left of a timer, in ticks, stopping at
the value from which it makes no difference. "Observers" are variables of the
specification that record what the code does not see; no guard reads them.

### DirEntries

One record per asyncio task (`op`) holds the handler it is in: `kind`, `pc` (the
await it is at), the node it works on, the snapshot it read (`seen`), the
directories it stages, and the tags its `commit` closures hold. Documents are in
`node`; a directory's two tags are in `entries_mac` and `entries_mac_pending`.

* A tag is a keyed hash of a list of entries. The model keeps the set of child
  sets that verify against it: one set for a list without repetition, none for
  an absent tag or for a list that names an entry twice. A node's `mac` is the
  identity (parent, name, trash state) it was computed over, so a document
  written from an old snapshot fails verification just as it does in the code.
* Handlers: `BeginCreate` is `_create_file`/`makedir`; `BeginOverwrite`, `Close`,
  `Displace`, `MoveNode` are `open` with truncation up to `_finish_overwrite`;
  `BeginRename`, `Evict*`, `MoveNode` are `rename` and `posix_rename` with the
  purge inside it; `BeginTrash`/`TrashNode` are `remove`, `removedir` and
  `trash`; `BeginRestore`, `Restore*` are `restore` with its four answers to a
  taken name; `BeginPurge`, `CancelPurge`, `DeleteNode` are `purge`; `Rollback`
  is `DiscordFile._rollback`; `SweepIncoming` is `sweep_incoming`.
* `Lock`, `Stage`, the mutation and `Commit` are separate steps, so every other
  handler interleaves between them. Awaits merged into one step: the three of
  `_stage_entries` (read the directory, list the children, park the tag), and
  the look-up of an occupant with its trashing. Both run with the directory
  locked; a writer that changes the children in between without that lock is
  recorded by the observer `blind` whichever side it falls on.
* `Fail` is an await that raises (the write it awaited applied or not, since it
  may follow the step) or a cancellation; `Crash` forgets tasks and locks.
  `MaxCuts` bounds the two together.
* Observers: `blind`, directories that a handler wrote into from a snapshot no
  longer true, and `overlaid`, directories whose only matching tag a staging
  overwrote.
* Abstracted: contents and permissions; files and empty directories behave alike
  here; the directories are fixed (their own moves are `Tree`'s); the tag of a
  directory over its own name; `trashed_at` is a state, so trashing is not a
  time; `sweep_incoming` is assumed to be given a `max_age` longer than the pause
  between two chunks of a live upload, as its docstring demands.

### Tree

The same handlers on documents that nest. `node` keeps state, parent and name of
every uuid; a request carries a *path*, which `Resolve` walks (one step for one
`get_node`), and the second resolution that `rename` makes of its target's parent
is a step of its own (`RenameParent`), as are the check of `removedir` that
nothing lives below (`CheckEmpty`), the decision under the lock (`RenameDecide`,
`RestoreDecide`), staging, the write and the promotion. `Purge`, `PurgeExpired`
and the purge a rename makes of an empty directory it replaces go through
`EvictLock`, `Evict` (the subtree is listed once), `Destroy` for each document,
parents before children, and `Unname`. `List` and `Search` read the tags of a
directory in one step and its children in another (`ReadEntries`).

A node's own `mac` and the order of lock acquisition are left to `DirEntries` and
`DirLocks`: `Lock` takes all the directories a handler wants at once. Failures of
single calls are `DirEntries`'; here the process may die (`Crash`).

What the code finds by walking is said by what the walk comes to: `Resolve` by the
ways down a path (`Walks`), `Above` and `Subtree` as the least sets with the parent
or the node that are closed upward or downward. That is what `_ancestors_of` and
`_subtree` collect, cycles included, and it can be reasoned about without an
induction. `Starts` may be any documents that form a tree (`IsTree`).

Observers: `overtaken` has the nodes written by a handler after some document or
directory membership its decision rested on (`chain`, `watch`) was changed by
another, what such a purge had listed, the directory that loses an entry no staged
tag leaves out (`Unstaged`), and nodes whose only matching tag was staged over;
`buried` the nodes that were in the trash, or in something buried, when destroyed;
`evicted` the empty directories a rename put in the trash and nobody restored
since (a user who purges one later has not discarded what was put into it after a
restore, so what comes back is taken out of the set); `alarms` the listings that
reported tampering, each with whether the directory changed between the listing's
reads.

### DirMutex and DirLocks

`DirMutex` is the abstract promise: a directory has at most one owner, a task's
blocks are nested, the innermost takes its directories in ascending order, and a
block gives back what it took when it is left. `DirLocks` is
`_locked_dirs` itself: the registry `_dir_locks` with its `users` counts, lock
objects with FIFO waiters as `asyncio.Lock` has them (woken is not yet running:
a woken waiter has to be scheduled, and may be cancelled first), the nested
blocks of one task, and the two ways out. A free lock takes one step to acquire,
which is finer than the code (it does not yield there). The release of all locks
of a block is one step, because the `finally` has no await. A
nested block may want any directories: `rename` walks the path of its target again
under its locks, and the parent of the occupant it hands to `purge` need not be
among them. Sorting orders the directories of one block only, so `DirMutex` asks no
more, and two tasks can each hold what the other wants (section 7). `Circle` names
such tasks and those queued behind them; what holds is that every circle has a nested
block in it that asks below what its task holds (`OnlyNestingEntangles`), and that
everybody outside a circle gets in (`EveryCallerGetsIn`). `Nesting` has the tasks that
ever enter a block within another, as those in `rename` do; what is proved is proved
for any set of them. In `DirEntries` the directories do not move
and the nested block of `rename` is for one it holds, so no handler there is in
more than one block that takes anything.

### FileHandle

`doc` is the file's document, `discord` the attachments that exist, `version` the
shared `_node_versions`, and `file` a record per handle with its own copy of the
size and chunks, its buffer and cache, and the method it is in. An operation is a
method (`Write`, `Truncate`, `Read`, `Close`, `Abort`) that runs with the
handle's lock through its awaits: `Send` (upload), `Apply` then `Commit` (the
database applies, its answer arrives), `Delete`, `Swap` (the call into
`_finish_overwrite`), `Unwound`, `DropRow`. A query and its answer are two steps
wherever another handle can act in between: that is how a document read before a
commit gets stamped after it. `_sync` is `Refetch`/`Fetched`, and a method starts
only when the handle is not `Outdated`. `Continue` chooses the next await of the
method, exactly as the loops of `_write_random`, `append` and `_resize_node` do.

A call may fail in three ways. `SendFails`, `DeleteFails` and `CommitFails` are
answers that do not come; for a commit the update may have been applied by then
(`pc` is `ack` and not `commit`), and the handler does the same in either case:
it takes its list back and deletes the attachment it had sent, which the document
names if the update was applied. `CancelWrite` and `CancelClose` are the task of a
web upload that is cancelled: in a write, `abort` is shielded and unwinds the file;
in `close`, or in an unwinding that a write had begun, nobody takes over. An upload
cancelled between its answer and its commit is known to nobody any more. `Crash` is
the process dying.

`goal` is history: the array that the operations called so far make, by the
reference definitions `Spliced` and `Resized`. `lost`, `unwound` and `denied` are
observers: attachments whose delete failed or that whoever would have named or
deleted them forgot (a crash, a cancelled task, a handle whose commit was applied
and raised); attachments a handle giving up on its own file deleted while the row
was still there; attachments of commits that were applied and raised. `shared` says
that two handles have been open at once.

Two handles multiply the states, so sharing is entered under stated bounds: the
second handle opens a file that is short (`SharedSize`, `SharedMessages`) and not
empty, when nothing has failed, the other is between methods and neither is
appending; from then on nothing fails. The promises to a *single* writer
(`EveryChunkIsThere`, `EveryOrphanHasACause`, `ReadYourWrites`) are stated for files
that are not shared, since the code leaves two writers of one file to the last of
them; what must hold of shared files too (`ChunksAreContiguous`,
`CacheHoldsItsChunks`, `FailedHandleIsDone`) is checked of both.

Abstracted: encryption; a `mac` stands for size and chunk list; the cache evicts
nothing (`CHUNK_CACHE_SIZE` is 2, eviction only loses what can be read again);
modification times, permissions; removal or rename of the open file by others
(`DirEntries` has the place); cancellation of SFTP requests, which is asyncssh's,
and of a web upload whose file existed before (web uploads go to a row of their own
and take the place of the old file at the end, so `created` holds of them).

### Jobs

`job` holds one record per purge batch and `known` the registry `_jobs`;
`request` is a `start_purge` between its check and its registration, one step
(`Count`) per `purge_cost` it awaits. A job is at the head of the loop (`next`),
in `purge` before its lock (`read`, `lock`), among its attachments (`delete`),
its documents (`rows`) or at the promotion of the tag (`commit`); `Work` is the
loop, `Fail` an exception out of `purge`, `Kill` the cancellation of a task that
`_stop_sweeper` waited for in vain. `Login` and `Drop` are the session whose key
a job borrows; `Restore` and `Trash` are other clients, `Expire` is
`trash_sweeper`. An attachment counts as gone once its delete was sent, since
`_safe_delete_message` ignores the answer. Times are choices: a deadline or a
retention may have passed at any moment. `after` is history: the entries a job
destroyed although its session was over. Every entry lies in a directory of its
own and is one document; a subtree is `Tree`'s. `CutOff` is the purge of a directory
above an entry that came in after the subtree was listed: the entry is `adrift`, and
`purge` answers NotFound for it, either where it walks up to the root (`Read`) or,
having got that far before, where it stages the directory (`Lock`). A restore that
had walked up before the cut is left out. The number of a swept job is used again.

### Attachments

`message` is what the channel holds under each id, `kept` the ids a node refers
to, `call` one client operation per task. What Discord does with an attempt of
`_request` (`Serve`, `Fault` before it took effect, `LoseAnswer` after,
`Forbidden`) is one step, what the client does with the answer another
(`Uploaded` with the size check and `CleanUp`, `Erased`, `Resolved`, `Paged`);
`Retry` is the loop. `Url`, `Downloaded` and `Rejected` are `download_attachment`
with its one second try; `url_cache` is the LRU of signed URLs with the life each
has left, and `Tick` lets them lapse. `Keep` and `GiveBack` are the caller that
commits the chunk or fails to, `Replace` and `Purge` the two orders in which
callers stop referring to a chunk and delete it. `Scan` is `find_orphans.py`,
which reads the references first and then walks the channel page by page.

### RateLimit

One record per request (`request`) goes through `Enter` and `Admit` (the
semaphore, first come first served), `Acquire`, `Sleep` and `Wake` (the loop of
`acquire`, one turn a step since it has no await under its lock), the answer
(`Succeed`, `TryAgain`, `Lost`) and the back-off. `Count` and `Pause` are Discord:
a window opens with a bucket's first request and limits it, and a global pause may
be told at any time. Answers wait to be read and may overtake one another, so
`update` may be given an older allowance after a newer one. `granted`, `stated`
and `told` are observers.

### Startup

`users` and `keystore` are the two collections, `rootKey` the key the tree was
first written with, `pc` the step of `start_server` the process is at and `env`
the environment it was started in, chosen anew by `Start`: user, password, old
password, cost and the upgrade flag. `Reach`, `SyncEnvUser`, `Adopt`, the five
outcomes of `ensure_usable` (`Bootstrap`, `RefuseOrphan`, `UseRecord`, `Rewrap`,
`RefusePassword`) and `Bind` follow; `Die` may come between any two. A wrapping
may come out spoilt (`Wrappings`), which is what `_replace_wrapping` tests for
before it writes. `LoseUsers` and `RestoreRow` are the operator who drops the
account rows or puts old ones back, the case the code's refusal names.

### Login

An attempt is turned away (`ArriveLocked`), or waits (`Arrive`), takes a slot,
derives, and is counted (`Refuse`) or let in (`Accept`, then `Enter` or
`TreeFails`). `pair` and `address` are the two counters, `Failed` the doubling
lock-out, `Remembered` is `_forget_stale`. Sessions have their age, their idle
time and what was granted (`Clamped`); `Use` is `get`, `Sweep` the sweeper, which
is never late by more than its interval. `late` is an observer: guesses made at a
source while it was locked out.

### Collection and SqliteStore

`Collection` is the contract: each call takes effect in one step on a set of
documents, with MongoDB's matching and unique indexes, but an upsert that finds
nothing inserts in a second step, with any calls in between: neither backend
promises more. `upserts` holds, for each task, the one that missed. Where the
backends differ in a way no caller may rely on (two documents whose key is null:
refused by MongoDB, accepted by SQLite; which of several matches is changed) it
leaves a choice. `SqliteStore` translates `sqlitedb.py`: `Column` and `Type` are
`json_extract` and `json_type`, `Clause` the SQL of one condition with its third
truth value, `Kept` the WHERE; indexes have names that belong to the whole
database, `CreateIndex` is one request of `connect`, which may find an index of
another definition under its name, and may die (`Close`) between two. `Upsert` is
the first half of `replace_one` with upsert and `UpsertInserts` the `insert_one`
it ends in, which yields before it writes; every other method writes before it
yields again.

## 4. What the runs check

| run | instance | shows |
|---|---|---|
| `entries_one` | 1 directory, 2 names, 2 ids, 2 tasks, 2 cuts, MongoDB's index | every pair of handlers in one directory, with two failures or crashes: it stays listable except where `blind` or `overlaid` say why, and staged tags have one owner |
| `entries_two` | 2 directories, 1 name, 2 ids, 2 tasks, 1 cut, SQLite's index | crossing renames: the same, and locks are taken in order |
| `tree` | 2 directories, 1 file, 2 names, paths of 2, 2 tasks, 3 requests, 1 crash; started flat, nested and with a file | nothing stored is lost, no listing raises an unfounded alarm, purges take what was discarded, unless a handler was overtaken |
| `tree_cycle` | the same, 2 requests, no crash | **violated**: two crossing renames put two directories inside each other |
| `locks` | 3 tasks, 2 directories, 3 lock objects, blocks within blocks of 2 of the tasks | exclusion, no leak, no overtaking, refinement of DirMutex; only nested blocks entangle, and every caller outside a circle gets in |
| `handle` | 2 handles, 2 byte values, chunks of 2, files of 3, 3 attachments, 1 failure; shared: files of 1, 2 attachments | every mix of writes, gaps, truncates and reads by one handle, with any call failing or a crash; caches agree with layouts when another handle truncates and rewrites |
| `jobs` | 1 session, 2 requests, 2 jobs, a file of 2 attachments and a folder | batches that race, are cancelled, killed or fail leave nothing unnamed; a finished batch is finished; a job outlives its session by one entry, is always in the registry, and ends |
| `attachments` | 2 tasks, 2 messages, 2 attempts, URLs of 2 ticks with margin 1, a cache of 1, pages of 1 | orphans come only of lost answers and failed deletes, chunks in use are whole, stale URLs cost no read, a scan under way misses nothing |
| `limiter` | 3 requests of 2 routes and 1 bucket, 2 slots, 2 attempts, allowance 1, windows of 2 | allowances are not overspent, pauses are waited out, every request ends |
| `startup` | 2 usernames, 2 passwords, 2 costs, 2 accounts, 2 keys | the key of the tree is kept, there is no other, and who listens opens it |
| `login` | 3 attempts, 1 address with 2 devices, 1 slot, 1 place to wait, thresholds 1 and 2, lock-outs of 1 to 2, 1 session | a burst gains at most what was past the check, a lock-out ends, keys are forgotten by their ceilings |
| `store` | `nodes` and `keystore`, 2 documents each, 2 callers that upsert, an index of an earlier version, duplicates from before it | uniqueness whenever the server runs, and the contract of `Collection` |

Each module has a type invariant `TypeOK` (`StoreTypeOK` in `SqliteStore`). It
holds on these instances of all of them; `entries_one` lists it, and for
`DirEntries`, `RateLimit`, `Startup` and `SqliteStore` it is proved.

*Why the bounds are enough.* The structural hazards are about two actors and one
place: two tasks meet at every await, and two nodes with two names give the
renamed, the occupant and the free name. Two cuts are the least that leaves a
directory with neither tag right. Two directories are the least with an order to
respect, and enough to break it: a task that holds the second asks in a nested
block for the first, which another holds that wants the second. In a tree, a
directory inside another with something in it is the least that is lost when its
parent goes, and a third request is what meets the outcome of two. Three tasks put
two waiters behind a holder, which cancellation and overtaking need, and make the
semaphore bind. A file of three bytes in chunks of two has a full chunk, a partial
one, a straddled truncate, a hole and a patch that crosses a chunk boundary; three
attachments are two chunks and a replacement of one of them. Two requests are the
race of `start_purge`, two entries give a batch something to go on with after its
session ended, and two attachments a place to be cancelled between. Two messages
on pages of one make a scan cross a page while the other is posted or deleted; a
cache of one entry is evicted by any second read; two attempts are a first and a
repeated one. Two passwords and two accounts are a change and a row put back; a
third password that opens nothing would behave as the second does before the
change. With one slot and one place to wait, the third attempt is the one that
finds the queue full; the observers of the guard count against the limits
themselves, so larger ones only move the numbers. Two documents are what a unique
index is about. Values, handles, tasks, ids, names, accounts and keys are
interchangeable where no order is taken of them, and runs with safety properties
use that symmetry; `locks`, `jobs`, `limiter` and `login` use none.

*Deadlock.* `CHECK_DEADLOCK FALSE` is stated for `DirEntries`, `Tree`,
`FileHandle`, `Jobs` and `Attachments`, where the system may come to rest: every
id drawn, the requests of the bound served, every handle closed, or the process
ended. `locks`, `limiter`, `startup`, `login` and `store` are
checked for deadlock; a circle of tasks is not one to TLC, since one of them may
still be cancelled.

*Fairness.* Four runs use it. In `locks` each task's own steps are weakly fair (the
event loop runs every runnable callback, and the body of a block ends: it is a finite
sequence of calls with timeouts). For the tasks in `Nesting`, leaving the outermost
block is strongly fair, since a body that enters nested blocks ends if each of those
does. Nothing is assumed about callers arriving, being cancelled or entering
nested blocks, and nobody is assumed to cancel a task that hangs: members of a
`Circle` are the ones `EveryCallerGetsIn` excepts. In `jobs` each job's loop is
weakly fair: its task is runnable once the call it awaits has returned, the calls
have timeouts, and a directory that stays free is handed to whoever queues for it
(`EveryCallerGetsIn`); that the directory's holders let go, and are not in a circle
of renames, is assumed. Weak fairness is enough: the only other holder that stays is
a second job, which lets go, and no third one starts while one runs. In `limiter`
time passes, and the
loop does not sit still while some request is ready (an answer arrives or
`_TIMEOUT` makes it a loss); that is one weak fairness for all requests together,
no request is favoured. In `login` time passes and the sweeper's timer fires;
nothing at all is assumed of clients, so `LockoutsEnd` holds against attempts
that never cease. No liveness is claimed of the other modules, whose handlers
end or fail with the calls they make.

*Mutants.* Each property of a passing run has a mutated definition in the module
that breaks it, in the way a bug there would: forgetting to un-name a rolled-back
node, computing the tag without the removals, unsorted locks, a chunk placed at
the file size, a cache kept across a truncate, a wrapping written untested, an
index under MongoDB's own name, a page that begins one too low. They sit next to
the definition they mutate and are used by nothing else.

## 5. What is proved

The assumptions of every theorem are the named ones of its module: numbers are
natural, limits positive, null values are not members, directories are positive
integers whose order is the sort order. `SqliteStore` has three more, all of them
about its callers: a field holds booleans (as `is_dir` does) or numbers and text,
never both, since to `json_extract` true is 1; a filter is made of what
`_clause` takes, and a comparison is with a number; two indexes of a table are
over different fields, and an index that an earlier version left is over the
fields of one that this version asks for. TLC evaluates them on the instance of
`store`, whose documents, filters and indexes are those of `vfs.py`,
`keystore.py` and `db.py`.

**`DirEntriesProofs`**, for any directories, names, ids, tasks and bounds:

* `TypeCorrect`: `Spec => []TypeOK`.
* `StagedTagIsOwned`: `Spec => []StagedTagHasOneOwner`.
* `HandlersTakeLocksInOrder`: `Spec => Mutex!Spec`, the refinement of DirMutex.
* `DirectoriesStayListable`: `Spec => []ListableUnlessBlindOrOverlaid`.

The invariant is built in layers, each inductive given the ones before.
`TypeInv` is `TypeOK`. `FitInv` says a handler's record fits its step: which
kinds can be at which `pc`, which directories it stages, that a purge's snapshot
is of a trashed node. `LockInv` says that a handler past
`lock` owns every directory it asked for, and that what it has open it owns and
its tag is the parked one: `StagedTagHasOneOwner` alone is not inductive, because
nothing in it stops a handler from staging a directory it does not hold.
`OrderInv` says that a handler still acquiring holds a downward-closed part of
what it wants. Each is shown to hold initially (`...Init`) and to be preserved by
every action (one step per action), and the theorems follow by temporal logic.

That a directory stays listable takes three layers more. A listing compares the
tag of what is in the directory with one of two stored tags, so the invariant has
to say of both, at every await of every handler, which children they are the tag
of. `PlaceInv` says a node that has no place yet is its creator's alone (`Drawn`:
its id is below `nextId`; `Alone`: nobody else works on it), so nobody can put it
somewhere while its creator computes the tag it will have. `TagInv` is the heart:
`Foretold` says that while a directory is staged, the parked tag is that of the
children as they will be, before the handler's write, and as they are, after it;
`Vouched` that outside `blind` and `overlaid` one of the two stored tags is that
of the children as they are. `TrashInv` says that a trashed node of a directory
not in `blind` carries its own tag (`Marked`), which the tag of the trash is made
of. Three lemmas carry the case analysis: `Changes` (what a step of one handler
may do to nodes and tags), `TagWrite` (the mutation, where the children move from
one tag to the other) and `TagFrame` (a step that touches neither).

**`DirLocksProofs`**, for any tasks, directories, lock objects and nested blocks:
`TypeCorrect`, `OneTaskAtATime` (`[]MutualExclusion`), `RegistryCorrect`
(`[]RegistryServesEveryUser`), `NothingLeftBehind` (`[]RegistryDoesNotGrow`),
`FirstComeFirstServed` (the action property `NoOvertaking`),
`OnlyNestingDeadlocks` (`[]OnlyNestingEntangles`) and `RegistryImplementsMutex` (the
refinement of DirMutex). Mutual exclusion is not
inductive: it rests on the lock objects, on their counters and on the queues.
`Counted` says a task is counted on exactly the locks it holds or queues for,
`Distinct` that no object is registered twice, `Tally` that `users` is the number
of tasks counted, so that the one that finds 1 there is the last; with these
`_forget` drops no object somebody is behind (`ForgetInv`), and a new object is
nobody's yet (`RegisterInv`). `Flagged` says a held lock has its flag set;
`Awaiting` and `Lined` say that a resolved future is at the head of the queue of
a free lock and that the queue is a line, so at most one task of a queue can
resume, and the flag cannot be set by two. `Blocks` says that the blocks of a task
share out what it holds, and that what the innermost wants is above what that block
has taken: the order of DirMutex. The refinement maps the owner of a directory to
the task that holds it and its block to the one that took it. For circles, a task
of the circle that waits for the greatest directory (`Greatest`) waits for another
of them, which asks for a smaller one and so, by `Blocks`, in a block within the one
that took the greater.

**`RateLimitProofs`**, for any requests, routes, buckets, slots, attempts and
windows: `TypeCorrect`, `Thrifty` (`[]NeverOverspent`) and `Patient` (the action
property `PausesAreWaitedOut`). The inductive invariant is
`TypeOK /\ AttemptsLeft /\ QueueWaits /\ Balanced /\ PausesKept`. `NeverOverspent`
says nothing of the client's own count, so `Balanced` ties the two: within a
window, what is left is what was stated less what was granted, and not below
zero. `PausesKept` says the limiter's pause is no shorter than any a request was
told of, which is what a longer pause learned first needs. `QueueWaits` (the
queue holds waiting requests, once each) is what keeps a cancelled or admitted
request from being admitted again, and `AttemptsLeft` types the attempts.

**`ServerProofs`** is about what a server runs on, how it starts and whom it
lets in.

The store, for any tables, fields, documents, filters, updates and indexes:
`StoreInvariant`, `UniqueInService` (`[]IdsAndNamesAreUnique`) and
`StoreKeepsContract`, the refinement of `Collection`. It goes in three layers. The
first is about one row: `ColumnIs` and `TypeIs` say what `json_extract` and
`json_type` make of a value, `NotIs`, `OrIs` and `AndIs` are the third truth
value, and `ClauseIs` shows that the SQL of a condition says yes exactly where
MongoDB's condition holds, so that `Kept` is `Matches` (`KeptIs`) and two rows
share a key of an index where the contract says so and no part of it is null
(`SameColumnsIs`). The second is about one table: rows under distinct ids are a
map from id to document, and appending, replacing and removing a row are that map
with one entry more, changed or less (`Appended`, `Replaced`, `Removed`). An
upsert is two steps of the contract (`UpsertStep`, `UpsertInsertsStep`): nothing
is carried from its look to its insert but the document. The third is the
invariant `StoreInv`. Uniqueness while the server runs is not inductive, because
it says nothing while it starts: an index has to hold from when it is built until
the last one is. So `StoreInv` says of *every* index in the database that it is
over fields some index of its own table is asked for, stands under the name of its
table and fields, and is one the rows are not against (`Clean`); and that every
request made since the start is `Built`, which a later request could only undo
under the same name, hence never. A server that runs then enforces exactly the
indexes of `db.py` (`EnforcedIs`), so the store refuses exactly what the contract
says it must (`RejectedIs`).

The start, for any usernames, passwords, costs, accounts and keys:
`TypeCorrect`, `TheKeyIsNeverLost` (`[]TreeKeyIsKept`), `OneKey`
(`[]NobodyHoldsAnotherKey`) and `ListeningIsUseful`. The inductive invariant is
`TypeOK /\ OneRecord /\ TreeKeyIsKept /\ Synced /\ Usable`. The heart of it is
`OneRecord`: the keystore never holds two wrappings, since the legacy record is
moved and a key is made only in an empty keystore. A second record would make the
key of the tree a matter of which account signs in, and neither of the other
properties says so. `Synced` and `Usable` say what the start has established by
the step it is at.

Signing in, for any ceilings, interval of the sweeper, sessions and windows
asked for: `KeysDoNotLinger` (`[]KeysAreForgotten`). The property compares the age
of a session with the ceilings; the invariant says that a live session has
windows within the ceilings (`SessionsOK`), that it is past its own deadlines by
less than the time since the sweeper last looked (`Overdue`), and that this is no
more than the interval (`OnTime`). `BurstsGainNothing`
(`[]LateGuessesAreBounded`), for any thresholds, penalties, slots and places in
the queue, rests on an invariant of each source: a guess in flight holds a slot or
a place in the queue (`SlotsKept`); while the source is locked out, what was tried
late and what is past the check and not yet counted are together fewer than slots
and places, and outside a lock-out nothing counts as late (`Spent`). Two facts
about the counters carry it: a failure never lifts a lock, and the penalty it
sets is at least a tick, because a power of two, being the number of subsets of a
set, is positive (`PowerIsPositive`).

**`JobsProofs`**, for any sessions, entries, requests, jobs and attachments per
entry (finitely many entries and requests at a time): `TypeCorrect`,
`SurvivorsNamed` (`[]SurvivorsAreNamed`), `DoneIsDone` (`[]DoneMeansGone`),
`OneEntryMore` (`[]OutlivesItsSessionByOneEntry`) and `RunningIsKnown`
(`[]RunningJobsAreKnown`). None is inductive: what a job reports and what it
leaves depend on where it is. `Progress` says that a running job has counted
exactly the entries of its batch that it is past, and that they are gone or cut
off from the root;
`Deleted` that of the entry it is on the attachments below `chunk` are gone, and
all of them before its document; `LastEntry` that a job which deleted something
after its session was over is at the promotion of the tag or at the head of the
loop, where it stops. `Reserved` says that a request still counting has a session
and that there is a number for the job it will start. What others do is one
lemma (`Bystander`): no step brings back an entry, an attachment or a session
(`Forward`), so a job that did not move keeps its part of the invariant.

**`AttachmentsProofs`**, for any tasks, messages, attempts, page and cache sizes
and any life of a URL: `KeptChunksAreWhole` (`[]KeptIsWhole`), `NoOtherOrphans`
(`[]OrphansHaveACause`), `ReadsAreServed` (`[]StaleUrlsAreResolvedAgain`) and
`ScansAreComplete` (`[]ScanMissesNothing`).
`Fits` says which requests belong to which operation; `Knows` what a call knows of
its message: that an upload past its answer has one that is there and that no
node refers to, that a message being deleted is not referred to unless it is
purged, that a delete which was answered has deleted, that a read which found
nothing looked at a message that is gone for good, and that a URL resolved for
the read at hand still lives. `Apart` says nobody else works on the message of an
upload, which is what keeps `Keep` from committing a chunk somebody deletes;
`Numbered` that ids are used in turn, so a new one is nobody's. One lemma
(`Moves`) says what a step of one call has to establish, and each action is
checked against it. For the scan, `ScanKnows` says that a message which was there
at the start, still is and has not been yielded lies on the page in hand or is
older than `before`. That survives the next page because a page is the newest of
what is older: a full one leaves out only messages older than its oldest
(`HistoryIs`), and one that is not full is all there is.

**`FileHandleProofs`**, for files and chunks of any size and any number of
handles, uploads, failures and crashes: `LayoutsAreContiguous`
(`[]ChunksAreContiguous`), `CachesAreOfTheirChunks` (`[]CacheHoldsItsChunks`),
`FailedHandlesAreDone` (`[]FailedHandleIsDone`), `NoHoleInAFile`
(`[]EveryChunkIsThere`), `OrphansAreAccountedFor` (`[]EveryOrphanHasACause`) and
`AloneReadsItsWrites` (`[]ReadYourWrites`). The invariant is
`Types /\ Layouts /\ (~shared => Alone)`, and `Faithful` on top of it for the last.

`Types` holds of every handle, shared or not: a failed one is at rest or unwinding,
and what is uploaded is for one of the six steps. So does `Layouts`: the document,
every handle's copy of it and every answer on its way are `Fitted` (chunks back to
back, none empty, at their own index, inside the file, each naming an attachment
that was sent and is as long as the chunk while it exists), and every handle is
`Firm`: `Ready` (a patch is at a chunk, a trim cuts one, a new chunk has bytes),
`Fresher` between upload and commit (the attachment is there with the length the
commit will give it), and `Mirrored` (what is cached under an index are the bytes
of the chunk there). `Mirrored` names the two moments at which it does not hold yet:
a trim has been committed and its cache not dropped, a patch has been committed and
its chunk not cached; neither outlasts the method. That the cache of a handle that
has not failed has no index past its layout is part of it, since the next chunk
takes that index. `TrimIs`, `PatchIs` and `NewChunkIs` say what each kind of commit
makes of a layout, `SendingIs` how long what it uploads is, and `Since` and
`StillFirm` that nothing another handle uploads or deletes disturbs any of this:
attachments are immutable and ids are used once.

`Alone` holds until two handles have been open at once, and says how the only
handle in use, the document and the attachments fit together. `Agrees`: the
document is behind the handle's layout, or ahead of it by a commit that raised
(`Trails`): what the layout names is there but for what was undone (`unwound` or
`denied`), and what only the document names is on record, owed, or deleted; what
the handle is about to commit is there and not named yet, and of what it is about
to delete the document names only what is `denied`. `Owes` is what a handle still has to
name or to delete, and everything on Discord is named, on record as lost, or owed;
a handle at rest owes nothing, which is the theorem. An upload pays its debt only
if the commit really names the new attachment, which `Layouts` shows. `Goes` and
`GoesOn` say once what every method and every continuation may make of its handle,
and each action is an instance.

`AloneReadsItsWrites` compares a file spread over chunks, a buffer, a cache and a
hole with an array, position by position, in the middle of methods of many awaits.
`Array` is what a layout, the attachments held and a buffer make, the cache left
out; `ViewIs` shows that a read makes exactly that, given `Mirrored`. `Kept` is what
the handle owes its caller at each await: `Due` is what the method makes of the
array from the upload it is at, `Left` what it makes once that is committed, and
both must come to `goal`. `NewChunkLeaves`, `PatchLeaves` and `TrimLeaves` show that
a commit turns `Due` into `Left`: a chunk appended takes its bytes from the buffer,
the data or the gap, a chunk patched is the old one with the first bytes of the data
in it, a trim is the array cut. `ContinueKept` shows that the next step of the
method is due what is left, `SendingMade` that what is uploaded was made from the
chunk it replaces even if it came from the cache, and `DoomedKept` that the deletes
after a commit take nothing the layout names. `Backed` (what is cached is on
Discord too) is needed because `Array` leaves the cache out: a chunk that only the
cache still had would read otherwise. It holds while nobody else deletes, which
`Alone` gives.

**`TreeProofs`**, for any tree to begin with, any directories, files, names and
tasks, paths of any depth and any number of requests and crashes:
`NothingEverLost` (`[]NothingIsLost`), `AlarmsAlwaysRaced` (`[]AlarmsHaveARace`)
and `OnlyDiscardedDestroyed` (`[]DestroyedWasDiscarded`). None of the three is
inductive and they are proved together, since each leans on the others' observers.
The invariant `IInv` adds to them:

* `Placed`: a uuid is not drawn yet, or has a name in a directory that was drawn;
  `MakesApart`: no two handlers make the same node.
* `Fits` and `Locked`: what a handler's record holds at the step it is at, and the
  locks it has; only the owner of a directory stages or promotes its tag.
* `Sound`: what a handler may rely on *while nobody has overtaken it*. Where it will
  write, everything up to the root is live and in its `chain` (`Seated`); the node
  is as it was read (`Restores`, `Renames`, `Purges`); the target of a rename is not
  below the node (`Moves`); what is left of a purge is closed downward but for what
  somebody overtaken put there (`Razes`); a listing holds a tag of its directory
  (`Lists`).
* `Tagged`, `Signs`: a directory nobody overtaken has written verifies; before the
  write of the handler that staged it the promoted tag is that of the entries as
  they are and the staged one that of the entries as they will be (`Ahead`), after
  it the staged one is that of the entries as they are (`Behind`).
* `Emptied`: below a directory that a rename took the place of there is nothing live
  but what somebody overtaken put there, so that destroying it destroys nothing
  that was not in the trash itself.

The argument is about lines to the root. A write to one document leaves alone every
line that does not come through it (`AboveSame`), and one that does come through it
still reaches it (`AboveKeeps`); so a handler that another one could harm has that
document in its `chain`, and is flagged. That a rename makes no loop, unless it was
overtaken, is `WalkThrough`: what a path leads to is below the node only if the path
goes through it, and the check on the path (`BelowItself`) has excluded that. A purge
takes nobody's target because what it lists is below a trashed node, and nothing on
a live line is (`TreeBlocks`). `DestroyedBelow` is why nothing is left hanging:
whatever is below a document being destroyed is in the list too, or was put there by
somebody overtaken. `TreeHangs` is the beginning: in an `IsTree` every way up ends at
the root, since the nodes from which it does not would be a set that each has its
parent in.

*Only model-checked:* liveness (`EveryCallerGetsIn`, `EveryJobEnds`,
`EveryRequestEnds`, `LockoutsEnd`) is out of the prover's reach, which has
neither fairness nor `ENABLED`. Every safety property of a passing run is proved;
`NoDirectoryWithinItself` does not hold (section 7).

## 6. What is not modelled

* Cryptography itself (tags are taken as collision-free), AES-CTR, key
  derivation: byte operations of third-party libraries.
* `config.py`, wire formats, CSRF, HTTP range parsing, SFTP framing, logging, the
  client: no state, or none shared with the drive.
* In `vfs.py`: `set_metadata`, `setstat` and `truncate` by path, modification
  times and permissions; a file's contents and its place are in two modules
  (`FileHandle`, and `DirEntries` with `Tree`), so that a file removed while it
  is open for writing is in neither, and there is no clock that would say when
  `sweep_incoming` takes an idle upload for an abandoned one.
* In `db.py`: `_unique_index` replacing an index on MongoDB; the `trashed_at`
  index, which refuses nothing.
* The drain of live SFTP sessions at shutdown: what it waits for is asyncssh's
  own cleanup.
* More than one server process on a database: the documentation excludes it.

Hazards of these parts are in `PROJECT.json` with a note instead of a property.

## 7. Findings and remarks

**Finding.** *A directory inside itself* (`tree_cycle`). `rename` says that a directory
is not moved into its own subtree (`src/src/vfs.py:2060`, and `tests/test_rename.py:121`
tests the one-request case), but the check is made on the path before the locks:
two renames crossing make each of two directories the other's parent, and both
leave the tree with everything in them.

**Remarks.** Other behaviour a maintainer should know of; where a property of a
passing run excuses it, the property is named, and outside it the run finds
nothing wrong. Paths are below `src/src`, and the first six contradict a comment of the
code.

* Two tasks can each hold what the other wants (`Circle` in `EveryCallerGetsIn` and
  `OnlyNestingEntangles`), though `vfs.py:187` says they "cannot". Sorted order is
  kept within a block. `rename` resolves the parent of its target (2063), waits for
  its locks (2072), walks the whole path again (2073) and purges what it finds (2101),
  in a nested block for that node's parent (1980). If the directories of the path were
  moved and made anew while it waited, that parent is not held and may come below one
  that is; another rename that holds it and wants the one above waits for the first,
  and the first for it, until one is cancelled.
* A live node can be purged (`overtaken` in `DestroyedWasDiscarded`). `purge` checks
  that its node is in the trash ("only trashed nodes can be purged", `vfs.py:1971`),
  waits for the lock (1980) and does not check again: a restore that ran meanwhile
  made it live and listed, and it is destroyed.
* A commit can be applied and raise, when its answer is lost (`denied` in
  `EveryChunkIsThere`; `vfs.py:1171`). The handlers of `_upload_chunk`,
  `_replace_chunk` and `_resize_node` delete the attachment they sent, since "nothing
  references it" (`vfs.py:784`, 723, 1250); the document does, which is a hole in the
  file and not "at worst an orphan" (731-732). The attachment the update replaced
  becomes an orphan nobody tallies (`lost` in `EveryOrphanHasACause`).
* A web upload can be cancelled inside `close` (`lost` in `EveryOrphanHasACause`). Of
  the two ways `upload` ends only `abort` is shielded; a cancellation in `close`
  (`web.py:498`) is swallowed by the clause meant for the shield (507-510), and the
  file stays listed without its last chunk, which `tests/test_upload_disconnect.py:14`
  says must not happen. No property compares such a file with what was sent:
  `ReadYourWrites` is about handles that are open.
* A batch takes NotFound for "the node is gone" (`Lost` in `DoneMeansGone`;
  `jobs.py:230`). `purge` also raises it when the ancestors do not reach the root
  (`vfs.py:1977`) or the directory to stage is missing (1982), and leaves the document
  and its attachments where neither the trash page nor the sweep finds them.
* There is an await between a read and a write (the two steps of `Upsert` in
  `ContractKept`), though `sqlitedb.py:572` says there is none: `replace_one` with
  upsert looks (411) and awaits `insert_one` (415), which yields at 356. Its one
  caller, `keystore._store`, runs in the sequence of a start, so nothing comes in
  between today.
* A directory change interrupted twice in a row leaves neither tag matching
  (`overlaid` in `ListableUnlessBlindOrOverlaid`): the second staging overwrites
  the pending tag that was the only one right (`vfs.py:1592`); `crypto.py:341`
  speaks of one interruption.
* `rename` writes from a snapshot read before the lock (`vfs.py:2072`): renaming
  a file whose upload unwinds meanwhile names a node that is gone (`blind`).
* A failed overwrite can leave a name without a live file, with the old one in
  the trash (`vfs.py:2263`).
* A file or directory made in a directory that another request replaces or purges
  at that moment stays behind with a parent that is gone (`overtaken` in
  `NothingIsLost`; `vfs.py:2087`). So does what a purge had not deleted yet when
  the process died, since documents go parents first (`HalfPurged`), although the
  comment at `vfs.py:1940` says the survivor can still be found.
* A listing that overlaps a change of the directory may report tampering where
  there was none (`raced` in `AlarmsHaveARace`).
* An upload cancelled between the answer of Discord and the commit, or in an
  unwinding that a failed write had begun, leaves attachments nobody tallies (`lost`
  in `EveryOrphanHasACause`).
* Two handles on one file can leave it naming an attachment the other deleted
  (`~shared` in `EveryChunkIsThere`; `vfs.py:735`), and a document read before a
  commit may be stamped after it into the version cache (`vfs.py:1158`).
* Two requests pass the check of `running_for_tree` ("there may be at most one")
  while the first counts, and two batches run. What the rule is there for holds
  all the same (`SurvivorsAreNamed`, `DoneMeansGone`, `EveryJobEnds`). A restore
  during a batch makes it fail, where a comment of `_run` says "not an error", and
  a batch killed between its loops leaves a document without attachments, which
  can be purged again, where `_stop_sweeper` speaks of an orphan.
* A delete that was applied and whose answer was lost is answered 404 when
  repeated and counted as failed. `find_orphans.py` reads the references before the
  channel, so an upload that is being committed may be listed as an orphan.
* `slot()` sleeps holding its slot, so a request waiting for its bucket keeps
  others of other buckets out, contrary to `discord_api.py:180`.
* `bootstrap` writes the first wrapping without opening it first, as
  `_replace_wrapping` does; no login succeeds with a spoilt one, and no files exist
  yet.
* Who shares an address is locked out with it, and a right password in flight
  clears the counter of its own pair; `LoginBusy` may refuse the owner while
  others derive. The SFTP login has no guard.
* In SQLite a failing rebuild of an index leaves the old one dropped, and the
  start refused until the duplicates are gone. A numeric comparison of a field
  with 1 would match a JSON `true`, which no caller stores there.
