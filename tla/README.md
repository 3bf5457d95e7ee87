# A verification project for fast-storages

`fast-storages` gives FastAPI applications one asynchronous interface, `Storage`
(`fast_storages/base.py`), over several backends: local files, PostgreSQL large
objects, Azure blobs, and an S3 skeleton. This directory holds TLA+ models of the
parts of it where the difficulty is in the interleaving and in the failures, TLC
configurations that check them on small instances, and proofs that TLAPS checks
for every instance.

Paths below are relative to the package `fast_storages/` unless they say otherwise.

## Inventory

| Component | State | Operations | Hard part | What makes it correct |
|---|---|---|---|---|
| `base.py` `Storage` | none; a map from names to contents, as its callers see it | `save`, `open`, `delete`, `exists`, `size`, `url`, `aclose`, `resolve_upload_name` | each backend must keep the promise under concurrency | every call takes effect at one instant; `delete` is idempotent; `open` reports a missing file itself |
| `backends/postgresql.py`, operations | metadata table, large objects, one transaction per `save`, `delete` and stream | one SQL statement after another, each on an `await` | stale oids between statements; row and object locks; faults in a transaction | each row names an object that exists and is exactly one saved content; no deadlock; every call comes back; the contract is implemented |
| `backends/postgresql.py`, pool and drivers | `_pool_opened`, `_pool_lock`, `_driver._pool`; the connections and the executor threads | `_ensure_pool`, `acquire`, `aclose`; `_PsycopgDriver`, `_AsyncpgDriver` | double-checked lock; `aclose` takes no lock; `self._pool` is read twice; cancellation; blocked threads; calls that take two connections; streams nobody iterates to their end | one open pool at a time; every connection comes back, or a failure or a cancellation accounts for it; calls and `aclose` end unless calls wait for one another |
| `backends/local.py` | files under `media_root` | `save` truncates and rewrites in place, `open` reads lazily, `delete` unlinks | readers and writers of one file interleave; a failed `save` leaves a part; the thread of a cancelled call goes on | names share no bytes; for callers that serialise their calls, a name holds no mixture; paths stay below `media_root` |
| `backends/azure.py` | a container client | streaming upload, lazy download, SAS URLs | a failure after the first chunk; overwriting while a download runs | SDK errors become `StorageError`s; `delete` is idempotent |
| `backends/s3.py` | none | each raises `NotImplementedError` | none | none |
| `manager.py`, `dependencies.py` | a dict of named storages; `app.state` | `add`, `register_instance`, `get`, `aclose_all`, the FastAPI dependency | `aclose_all` awaits while it iterates; one `aclose` may raise | a name is registered once; shutdown closes each storage |
| `registry.py` | backend classes by name | `register_backend`, `_resolve_backend_class`, `build_storage` | precedence of built-in, registered and dotted names | a configured backend is the class its name means |
| `files.py` | the upload's read position | `UploadFileReader.__aiter__`, `read_all` | a reader can be used once | a save that is tried again does not silently store less |
| `examples/app.py` | three storages, the requests | routes that upload, link and download | names, links and chunk sizes at their edges | what is stored, reported, linked and read back is the upload |
| pure functions: `resolve_upload_name`, `_resolve_safe_path`, `url`, the checks of names and table names | none | | separators, dots, empty and absolute names | a file is found under the key it was saved under |
| `config.py`, `exceptions.py`, `backends/postgresql_schema.py` | declarations | | none | none |

The parts interact by `await`ed calls on one event loop. A route handler takes a
`Storage` out of the `StorageManager`; several handlers use one instance at once.
The PostgreSQL backend shares a pool among them, and with psycopg each statement
is a job of the executor behind `asyncio.to_thread`, so statements of different
calls interleave freely, in one process and among processes on one database. The
stream that `open` returns runs later, in its consumer's time.

`PROJECT.json` lists, under `hazards`, each place where this can go wrong.

## Modules

| Module | Models | Uses |
|---|---|---|
| `StorageContract` | what `Storage` promises: an abstract specification | |
| `PgStore` | the operations of the PostgreSQL backend, statement by statement, and their properties | instantiates `StorageContract` |
| `PgStoreProofs` | proofs about `PgStore` | extends `PgStore` |
| `PgStoreImplements` | the proof that `PgStore` implements `StorageContract` | extends `PgStoreProofs` |
| `PgPool` | the pool: `_ensure_pool`, `acquire`, `aclose`, with psycopg and with asyncpg | |
| `LocalStore` | the operations of the local backend, file operation by file operation | instantiates `StorageContract` |
| `AzureStore` | the operations of the Azure backend, request by request | instantiates `StorageContract` |
| `StorageManager` | the backend registry, the manager and the dependency | |
| `PathNames` | the pure functions: names to keys, paths and links | |
| `UploadRoute` | one file through a route, a save, a link and a stream, on each backend | extends `PathNames` |
| `PgPoolProofs`, `LocalStoreProofs`, `AzureStoreProofs`, `StorageManagerProofs`, `UploadRouteProofs` | proofs | the module each is named after |
| `LocalStoreImplements` | the proof that `LocalStore` implements `StorageContract` | extends `LocalStoreProofs` |
| `MCPgStore`, `MCPgPool`, `MCLocalStore`, `MCAzureStore`, `MCStorageManager`, `MCUploadRoute` | instances for TLC | the module each is named after |

### StorageContract

The map `store`, and for every client the call it makes, the phase of that call
(`idle`, `pending`, `effective`) and its answer. `Invoke` is the call,
`TakeEffect` the one instant at which it reads or changes the map, `Answer` the
return, and `RaiseError` an exception, which may hide that the call took effect
but after which it never will. A delete may also take effect together with a save
or a delete that overtakes it (`Overtakable`). This is linearizability with
at-most-once effects, stated without any history.

### PgStore

| In the model | In the code |
|---|---|
| `rows`, `live`, `data` | the table of `_ddl` (526), the large objects and their bytes |
| `unlinked`, `touched`, `put` | what the open transaction has done and not committed |
| `old`, `oid`, `total`, `got` | `old_oid` / `oid`, `oid`, `total_size`, the chunks yielded |
| `pc` | the statement a call executes next |
| `SaveSelect` ... `Commit` under `Save` | `save` (542-620), one action per statement; `LoWrite` is one turn of the loop over the content |
| `Delete`, `Open`, `Exists`, `Size` | lines 670, 622, 691, 707 |
| `Raise`, `Rollback` | the exception handlers and the transaction's exit (239-247) |
| `Fault` | the content iterable raises, the task is cancelled, the connection breaks, the process dies, the consumer closes a stream |

What PostgreSQL does is modelled from how the code relies on it and marked
external: a statement sees what is committed when it starts (READ COMMITTED); a
`DELETE` that waited for a row deletes the row as it is then, or nothing if that
row is gone, even if another of the same name has come; `INSERT ... ON CONFLICT`
waits for a transaction that holds the name and then updates; `lo_unlink` waits
for another one of the same object and then fails; the end of a transaction
releases its locks. `rid` tells a row that was updated from one that was inserted
anew, which is what decides the result of a waiting `DELETE`.

### PgPool

| In the model | In the code |
|---|---|
| `driver` | the class `_create_driver` (349-404) returns |
| `opened`, `lock`, `pool` | `_pool_opened`, `_pool_lock`, `_driver._pool` |
| `state`, `lent` | every pool made, and the connections out of it |
| `held`, `from`, `to` | the connections of a call, innermost last; the pool it asks, and the pool it gives back to |
| `row` | who holds the row that calls compete for |
| `todo` | what the call still has to wait for: a row (`"lock"`), the connection of a stream it saves (`"stream"`); or it is a stream that a consumer iterates (`"read"`) |
| `orphans`, `dropped` | `getconn` threads whose task was cancelled, and connections nobody will give back |
| `abandoned` | connections that a suspended generator of `open` still has, though nobody iterates it any more |
| `FastPath`, `TakeLock`, `GetLock`, `OpenPool`, `CreateTableDone`, `EnsureFails` | `_ensure_pool` (493-524) and `open` of the driver |
| `StartGetconn`, `Getconn`, `GetconnFails`, `Use`, `Putconn` | `acquire` of the driver (286-293, 336-339) around a call |
| `StartLock`, `TakeRow`, `LockFails`, `StartRollback`, `Rollback` | a statement that waits for another transaction (565-569, 682-684), and the exit of a transaction that is cancelled meanwhile (239-247) |
| `StartStream` | a `save` whose content is a stream of the same backend takes its second connection (589, 648), before or after the statement that waits for the row |
| `Abandon`, `Collect` | a `save` fails in `lowrite` (589-593), or a consumer of `open` stops: `async for` does not close the generator (648), which keeps its connection until it is collected |
| `CloseStart`, `ClosePool`, `CloseEnd`, `CloseRaises` | `aclose` (750-754) and `close` of the driver; the `await` of 753 may raise or be cancelled, and then 754 is skipped |
| `Cancel` | cancellation of the calling task, at each `await` |

An action runs from one `await` to the next, or is one job of the executor
(psycopg only; asyncpg needs no threads). `getconn`, and a statement that waits for
a row, keep their thread while they wait; other jobs are one step, enabled when a
thread is free. What a call does with its connection besides waiting is the single
step `Use`: `PgStore` is about that.

The drivers differ in three ways that matter. psycopg's `getconn` gives up after 30
seconds, asyncpg's waits for ever; asyncpg's `close` waits for the connections that
are out, psycopg's closes them as they come back; and a cancelled asyncpg call
undoes what it had begun, while psycopg's thread goes on. A statement that was
submitted for a call which is cancelled runs before that call's `ROLLBACK`.

A stream that ends, or whose own statement fails, gives its connection back before
the save that reads it goes on. A save that fails elsewhere does not close its
stream: the row stays locked until its `ROLLBACK`, its own connection goes back, and
that of the stream becomes `abandoned`.

`Deadlocked(S)` says that each call of a set `S` waits for something that only
calls of `S`, or abandoned streams, have: a row, `_pool_lock`, a thread, or a
connection of asyncpg, whose wait has no timeout (`WaitsFor`). `Stuck` calls are
those of such a set. `CallReturns` and `AcloseReturns` say that nothing else keeps a
call or an `aclose` from coming back. The ways there are:

- saves of streams hold every asyncpg connection, and each waits for another;
- a save of a stream has locked the row of the old file (565-569) and waits for a
  connection (648), while writers that wait for that row hold the rest of them;
- statements that wait for a row hold every thread of psycopg (finding 3);
- abandoned streams hold the connections that calls of asyncpg wait for.

### LocalStore

| In the model | In the code |
|---|---|
| `tree` | the names below `media_root`: a file, a directory or nothing |
| `data`, `file` | the bytes of a file (an inode), and the handle of `aiofiles.open` |
| `total`, `done` | `total_size`, and what of it has left the handle's buffer |
| `MakeDirs`, `Create`, `Write`, `Flush`, `CloseFile` | `save` (109-144); `Flush` is the buffer's own decision to write some of it early |
| `Check`, `StartStream`, `Read`, `EndOfFile` | `open` (146-162): the check before the return, and the generator |
| `Delete`, `Exists`, `Size` | lines 164, 174, 178; `os.remove` ignores a missing file and nothing else |
| `Fault` | the call ends early, by an exception of the caller's (kind `caller`: the content raises, the task is cancelled, the consumer stops, the process dies) or by a failure of the operating system, which is translated (`error`) only if it is a `PermissionError` that an `except` clause covers (`Covered`), and else is an `OSError` (`oserror`) |
| `Cancel`, `late` | the task is cancelled while a thread works for it: in `aiofiles.open` (127), in `remove` (167), or while `async with` closes the file (127) |
| `LateOpen`, `LateRemove`, `LateClose` | what that thread does, at any later time: it opens and truncates the file, removes it, or flushes an old buffer |

A file that is deleted while open keeps its bytes for its handles, and two handles
have positions of their own, so overlapping saves of one name can leave zeros
(`Hole`) and parts of both contents; `OwnBytes` says what holds even then. Names
may be directories of other names (`Above`). `serialised` says whether callers let
no save or delete of a name overlap another call on it, which is what this backend
needs to implement the contract. `ImplementsContract` therefore speaks of such
callers, until a call fails (a failed save has destroyed the old file, and leaves a
beginning of the new one, as `OneBeginning` says), and excepts the size of a
directory, which the code answers. Even such callers cannot know when the thread of
a call they have cancelled is done, so `OneBeginning` is about runs without `Cancel`,
and finding 4 is what happens with it. `TranslatedErrors` names the three causes of
errors that are no `StorageError` (kind `oserror`). A `mkdir` that fails is taken to
create nothing.

### AzureStore

| In the model | In the code |
|---|---|
| `blob`, `staged` | the blobs of the container and their uncommitted blocks |
| `total`, `seen`, `got` | `size_acc`, the version whose download has begun, the chunks yielded |
| `PutBlob` | `save` of bytes, one request |
| `BeginUpload`, `StageBlock`, `CommitBlocks` | `save` of a stream (212-276): `_counting_iter` inside `upload_blob` |
| `Download`, `NextRange`, `RangeChanged`, `EndOfBlob` | `open` (278-305) and its generator |
| `Delete`, `Exists`, `Size` | lines 307, 329, 347 |
| `Fault` | a request that is refused or times out, a content that raises, a cancelled task |

The service is external. The code relies on the SDK for two things: `upload_blob`
makes the identifiers of blocks from their offsets, so a save overwrites what a
failed one left behind, and the later ranges of a download carry the etag of the
first, so a replaced blob ends the stream with an error. `delete` may take the
staged blocks with it or not.

Saves of one name may overlap. A commit takes each block of its list from those
staged, or else from the blob if that was made of blocks too (`Block`), so it may
store blocks of another save, or fail because they are gone. `alone` remembers
whether another save or delete of the name has overlapped the call: `OwnBlocks` is
about saves that are alone, and `ImplementsContract` excepts only the commit of
one that is not (`OverlappedCommit`).

`Translated` is the table of the `except` clauses, by cause and by where the call
is. Errors that no clause names reach the caller as they are (kind `sdk`).

### StorageManager

| In the model | In the code |
|---|---|
| `registry` | `_REGISTRY` |
| `storages` | `StorageManager._storages`, in insertion order |
| `RegisterBackend`, `Resolve` | `register_backend`, `_resolve_backend_class` |
| `Add`, `AddFails`, `RegisterInstance` | `add` with `build_storage`, `register_instance` |
| `Attach`, `Get` | the lifespan handler sets `app.state`; `get_storage` |
| `CloseAll`, `CloseDone`, `CloseRaises` | `aclose_all`, from one `await` to the next |

Only `aclose_all` awaits, so everything else is one step. The iterator of a dict
raises if the dict has grown since, which `Advance` does at each turn of the loop.

### PathNames and UploadRoute

A name is a sequence of characters (`Characters`); the run has a letter, a digit, and
those that the code or a URL treats specially. `PathNames` translates `resolve_upload_name`, `_resolve_safe_path` (with
`Path.resolve` where there are no symbolic links) and what the `url` methods do to
a name. The URLs quote nothing, so the path that a server reads out of one
(`ParsedPath`) ends at the first `?`, and what looks like an escape in it is decoded
(`Unquoted`, with the table `Escapes`). The client is taken to send a URL as it is: one
that removes `..` or quotes characters first is not modelled.

| In the model | In the code |
|---|---|
| `req` | a request: backend, file name, `upload_to`, content, `bytes` or `UploadFileReader`, chunk sizes, whether the backend has a URL prefix |
| `at`, `begun` | the position of the uploaded file, now and when `save` was called |
| `Resolve` | `resolve_upload_name` and the check of the name |
| `WriteBytes`, `WriteSlice`, `WriteChunk` | content that is handed on in one piece, PostgreSQL's loop over slices (581-587), and one turn of the loop over `UploadFileReader` (`files.py:76`) |
| `SaveReturns`, `SaveFails` | `FileMeta`; an exception, after which the same content may be saved again |
| `Url`, `UrlUnsupported`, `BlobUrl`, `FollowLink` | `url`, and the route or the static files that answer the link (`app.py:103`, `194`); azure without `custom_url` answers with a URL of the SDK, which quotes the key (407-410) |
| `OpenKey`, `Read`, `ReadFails` | `open` with the key, and one turn of its generator; a Python file refuses a length below -1, `loread` takes a negative one for zero (`ChunkLength`) |

`saveChunk` and `openChunk` are `chunk_size` of the backend and of `open`. One
request is in progress at a time.

## Runs

| Run | Checks | Shows |
|---|---|---|
| `pg_safety` | `TypeOK`, `RowHasObject`, `RowDescribesObject`, `NoWaitCycle`, `ImplementsContract` | three clients on one name, four calls, one fault: all interleavings of statements keep rows and objects consistent, never deadlock and implement the contract (750,000 states) |
| `pg_names` | `StoreInv`, `ImplementsContract`, `CallReturns` | two clients on two names: the inductive invariant that the proofs use, calls on different names, and that each call comes back with a fault anywhere (227,000 states) |
| `pg_orphan` | `NoOrphanObject`, violated | finding 1 |
| `pg_idempotent` | `IdempotentDelete`, violated | finding 2 |
| `pool_live` | `TypeOK`, `NoForgottenPool`, `NoLostConnection`, `CallReturns`, `AcloseReturns` | both drivers, two tasks that save streams over an existing name or as a new one, or iterate one, and a closer that may close twice, with a failure and a cancellation, also of `aclose`: the double-checked lock opens one pool at a time, the flag means an open pool, and a lent connection belongs to one call, but for what the failure or the cancellation accounts for; calls and `aclose` end unless calls are stuck on one another (375,000 states) |
| `pool_threads` | `NeverHangs`, violated | finding 3 |
| `local_tree` | `TypeOK`, `TreeClosed`, `OwnBytes`, `OneBeginning`, `TranslatedErrors`, `ImplementsContract` | two tasks on a name and a name below it, with callers that serialise their calls and with others, three calls, two failures, and two cancellations while a thread works for the call (1,854,000 states) |
| `local_late` | `SaveLasts`, violated | finding 4 |
| `azure` | `TypeOK`, `OwnBlocks`, `TranslatedErrors`, `ImplementsContract` | uploads, downloads and deletes overlap and fail: a save that is alone commits the blocks it staged, a stream is of one version, SDK errors have three known causes, and the contract is implemented but for overlapped commits (2,010,000 states) |
| `azure_sdk` | `NoSdkErrors`, violated | finding 5 |
| `manager` | `TypeOK`, `OneMeaning`, `ClosesAll`, `SameStorage` | registrations between the awaits of `aclose_all`: it closes every storage or raises; names keep their class and their storage (48,000 states) |
| `upload` | `TypeOK`, `StoresUpload`, `LinkLeadsBack`, `YieldsStored`, `SaveEnds` | 8,500 requests on three backends: what is stored, reported, linked and read back is the upload, with the exceptions the properties name (304,000 states) |

For each property of a passing run `PROJECT.json` names a mutant, a plausible bug
written beside the definition it replaces, under which TLC finds the property
violated.

### Bounds

- `MaxCalls`. Each hazard of `PgStore` involves at most a call that waits, a call
  it waits for, one that changes the name again, and one that made the file first:
  four calls, of which three are in progress at once (`pg_safety`).
- `Contents`. No chunk at all, and two different chunks: a save can be caught
  before, between and after its writes, and a mixture differs from each content.
- `Oids`. One per call that could be a save (`EnoughOids`), so `lo_create` never
  runs out.
- `MaxFaults`. One fault may come at any step of any call. More of them are
  covered by the proofs, which bound neither calls nor faults.
- `MaxSize` and `Threads`. Two: enough for two copies to hold every connection, for
  a copy with the row and a writer to do so, and for two statements to hold every
  thread, small enough that both run out. `pool_threads` has three tasks, one more
  than threads. `MaxPools` has one more than the number of times a pool can be
  replaced (`EnoughPools`). There is one closer, as an application closes its
  storages once; in `pool_live` it may come back, to close a pool opened since or
  one whose first `aclose` raised. Calls of `Kinds` may end anywhere, so each stands
  for the shorter ones. There are two of them: two at once, or one after the other
  and after an `aclose`.
- `LocalStore`: two tasks on two nested names, since its hazards are between two
  handles, and three calls, so that one comes after the trouble. The contents of the
  upper name differ in length and at each position they have; `EnoughInodes` keeps
  inodes from running out. Two failures, so that a save may follow two broken ones;
  two cancellations, so that two late threads may meet.
- `AzureStore`: two clients and four calls, of which one may leave staged blocks,
  one overlap, one replace the blob, and one read across both; two faults.
- `UploadRoute`: names of up to three characters of seven, with five prefixes: enough
  for a separator before, between and after, `..` below a prefix, an escape, and a
  name that is nothing but separators. The one escape of the run stands for `/`, the
  character that matters most to a path. Contents of up to three bytes and chunk sizes from -2
  (-1 for the reader) to 2: a size that divides the content, one that does not, one
  larger than it, zero and the negative ones. One failed save.
- `StorageManager`: three names and three storages, so that an iteration meets one
  that was closed, one that is being closed and one that is added; five calls.
- Symmetry is used for safety only.

### Fairness

`PgStore!FairSpec` asks weak fairness of every client's own steps: the event loop,
the executor and the server keep running what can run, and callers consume the
streams and produce the contents they gave. Weak fairness would not be enough
against a stream of other calls that take a lock again and again. Calls are
bounded here, and PostgreSQL's lock queues are first-in first-out, so the model
leaves that starvation out and the server excludes it. A new call (`Call`) and a
fault are never forced.

`PgPool!FairSpec` asks the same of tasks, of orphaned `getconn` threads and of a
closer that has begun, and nothing of `Collect`: whoever refers to a stream decides
when it is garbage. That psycopg's `getconn` gives up after its 30 seconds is what
`GetconnFails` stands for, and `CallReturns` depends on it.

`UploadRoute!FairSpec` asks it of the request that the event loop runs, but for
failures; `SaveEnds` excepts the loop over slices that are empty for ever
(`Endless`).

The other modules have safety properties only, and nothing is asked of late threads.

Deadlock is checked in all runs: a behaviour may end only in `Finished`, with all
calls made and returned (in `PgPool` also when calls are stuck).

## Findings

1. *Orphaned large object* (`pg_orphan`). Two saves of a new name both find no
   row; the second `INSERT ... ON CONFLICT` replaces the first one's `loid`
   without unlinking it. `postgresql.py:561` says: "If the file already exists,
   unlink the old Large Object."
2. *Delete that raises on an absent name* (`pg_idempotent`). A delete reads the
   oid, waits in `lo_unlink` for another delete, and raises `StorageError`,
   although the name is gone. The repository's `README.md:345` says: "Idempotent -
   no error if it doesn't exist."
3. *Statements that wait take every thread* (`pool_threads`). With psycopg every
   statement is a job of the default executor, and one that waits for the row of
   another transaction keeps its thread. When such statements have all threads, the
   next statement of the transaction that holds the row is never run, and nobody
   goes on. The executor has 5 to 32 threads, `pool_max_size` is 10 by default, and
   `postgresql.py:59` advises to increase it. `base.py:23` says that a backend may
   wrap calls in an executor, "but callers never need to know that."
4. *A cancelled call that goes on* (`local_late`). Cancelling a delete in
   `aiofiles.os.remove` (167) does not stop its thread, which may remove the file
   after a later save of the name has returned; a save cancelled in
   `aiofiles.open(path, "wb")` (127) may truncate it in the same way. The callers of
   the run serialise their calls. `base.py:120` says: "Write `content` to `name`,
   overwriting any existing object at that path."
5. *SDK errors that reach the caller* (`azure_sdk`). With every request answered,
   the commit of a streaming save whose blocks an overlapping call has discarded
   fails with status 400, which `azure.py:258` raises again as it is; a blob
   replaced under a stream fails inside the generator (302), outside of any
   `except`. The repository's `README.md:408` says that "your application code never
   needs to catch SDK-specific exceptions", and `exceptions.py:4` that backends
   must translate them.

Findings 1 and 2 are within the contract as `StorageContract` states it (a call
may raise, and an orphan is invisible to callers), which is why
`ImplementsContract` holds beside them.

Other behaviours met while modelling, which no run is spent on:

- `postgresql.py:628-629` promises to report a missing file eagerly, but a file
  deleted or overwritten between the probe and the first iteration makes that
  iteration raise a plain `StorageError` (650).
- `postgresql.py:515-519`: when `CREATE TABLE` fails the pool stays open and
  `_pool_opened` unset, so `aclose` skips it and the next call opens another.
- A `getconn` whose task was cancelled takes a connection that nobody gives back.
- `postgresql.py:293`: `acquire` reads `self._pool` again in its `finally`. After an
  `aclose` and a reopening during the call that is a new pool, which refuses the
  connection, and it stays open. (`NoLostConnection` speaks of the current pool.)
- `postgresql.py:753`: an `aclose` that raises or is cancelled leaves `_pool_opened`
  set on a pool that may be closed, and every call fails until `aclose` is called
  again. (`NoForgottenPool` counts this.)
- `postgresql.py:589`: a save that fails while it reads a stream of the same backend
  leaves that stream its connection until it is garbage; asyncpg's `close` waits for
  it. The same goes for a consumer of `open` that stops early.
- `postgresql.py:754`: of two concurrent `aclose` calls, the second clears the flag
  of a pool opened since the first, and nothing closes that pool.
- `postgresql.py:648`: saves whose content is a stream of the same backend take two
  connections each; with asyncpg, enough of them wait for each other for ever, and so
  do one that overwrites a name and writers that wait for its row (`Stuck`).
- `postgresql.py:656`: with a negative `chunk_size`, `loread` returns nothing and the
  stream ends without an error; `local.py:155` does the same with zero.
- `postgresql.py:623`: `open` reads with its own default and ignores the configured
  `chunk_size`, which the repository's `README.md:251` calls the "Read/write chunk
  size". A configured size of zero or less makes `save` of bytes loop for ever (581).
- `local.py:153`: a file deleted between `open` and the first iteration surfaces
  as `FileNotFoundError`, which no `except` translates; the same goes for the
  errors of `mkdir` (123), `is_file` (148) and `stat` (181), for the
  `NotADirectoryError` of a delete below a file (168), and for a full disk (135).
- `local.py:127`: of two overlapping saves of a name, the second truncates the file
  under the first, whose next write leaves a hole of zeros; both return, and the file
  holds neither content. The commit of one of two overlapping streamed saves to Azure
  may mix their contents too.
- `local.py:181`: `size` of a directory returns a number, where `exists` says that
  nothing is stored under the name and `base.py:211` promises
  `StorageFileNotFoundError`. (`SizeOfDirectory` is the exception of
  `ImplementsContract`.)
- `manager.py:81`: one `aclose` that raises ends the loop, and the storages after it
  stay open. (`ClosesAll` speaks of an `aclose_all` that returns.)
- `azure.py:402` and `410`: `expires_in=0` is replaced by the default.
- `azure.py:396`, `postgresql.py:747`: `url` turns backslashes into slashes and drops
  leading ones, and does not quote; `save` does neither, so the link of such a name,
  or of one with `?` or with what looks like an escape, leads elsewhere.
  `LinkLeadsBack` excepts these names.
- `files.py:66`: a reader whose first save failed gives the rest of the upload to
  the second, which succeeds.
- `examples/app.py:110-127`: the exception handlers raise `HTTPException`, which is
  no longer handled at that point, instead of returning a response.

## Proofs

Every invariant and action property that a passing run checks, and each of the
three refinements of `StorageContract`, is a theorem: for any number of clients,
names, contents, calls, faults, connections and threads, where the runs have a few.

| Module | Theorem | States |
|---|---|---|
| `PgStoreProofs` | `TypeCorrect`, `StoreCorrect` | `TypeOK`, and the inductive invariant `StoreInv` |
| | `NoDanglingRow`, `NoTornFile`, `NoDeadlock` | `RowHasObject`, `RowDescribesObject`, `NoWaitCycle` |
| `PgStoreImplements` | `PgImplements` | `ImplementsContract` |
| `PgPoolProofs` | `TypeCorrect`, `NoConnectionLost` | `TypeOK`, `NoLostConnection` |
| | `PoolRemembered` | `NoForgottenPool`, with one task at a time in `aclose` |
| `LocalStoreProofs` | `TypeCorrect`, `TreeStaysClosed`, `BytesStayOwn`, `NeverMixed` | `TypeOK`, `TreeClosed`, `OwnBytes`, `OneBeginning` |
| | `ErrorsTranslated` | `TranslatedErrors`, an action property |
| `LocalStoreImplements` | `LocalImplements` | `ImplementsContract` |
| `AzureStoreProofs` | `TypeCorrect`, `BlocksStayOwn` | `TypeOK`, `OwnBlocks` |
| | `ErrorsTranslated`, `AzureImplements` | `TranslatedErrors`, `ImplementsContract` |
| `StorageManagerProofs` | `ManagerTyped`, `NamesKeepMeaning` | `TypeOK`, `OneMeaning` |
| | `StorageKept`, `AllClosed` | the action properties `SameStorage`, `ClosesAll` |
| `UploadRouteProofs` | `TypeCorrect`, `UploadStored`, `LinksLeadBack`, `StreamYields` | `TypeOK`, `StoresUpload`, `LinkLeadsBack`, `YieldsStored` |

`LocalCorrect`, `AzureCorrect` and `ManagerCorrect` state the inductive invariants.

### Assumptions

Each module that a run instantiates declares one `ASSUME` or more, which TLC
evaluates in its runs. Bounds are natural numbers, contents are sequences of chunks, and sets that stand for
different things have no member in common: `None` is no identifier, content, class
or task. That a content is not `None` matters: `Held` in the refinement mappings
uses `None` for a name that holds nothing. `LocalAssumption` says that `Above`
is an order, as "is a directory above" is, and `RouteAssumption` which fields a
request has and that names consist of `Characters`, among them the `/` that
`upload_to` adds. `EscapesAssumption` says that the two digits of an escape are digits:
no separator, dot, `?` or `%`.

`PoolRemembered` assumes `OneCloser` besides. It is not true without: a second
`aclose` that was under way clears the flag of a pool opened since
(`postgresql.py:754`, among the behaviours listed above). An application closes its
storages once, in its lifespan handler. No other theorem about the pool assumes it.

### PgStore

`TypeOK` alone is not inductive: `lo_open` and `lo_write` use an identifier that
must have been read or created, which `TypeInv` adds.

`RowHasObject` is not inductive either. A commit removes from `live` what the
transaction unlinked and from `rows` what it deleted, and nothing in the two sets
says that these correspond. `StoreInv` does:

- `UnlinksOwnRow`: a row whose object a transaction has unlinked, or is about to,
  is the row of its own name; while the transaction waits to delete it is the row
  it waits for; and once past the `DELETE`, the transaction has touched it, so the
  commit removes it;
- `PutIsOwn`, `FreshObject`: the row a commit adds is the only one of its name
  and names an object that no row and no other transaction knows;
- `WrittenSoFar`: that object holds a prefix of the content, all of it once the
  loop has ended, which gives `RowDescribesObject`;
- `LocksHeld`, `OneToucher`, `Bound`: which statements can follow which.

Most steps change the variables of one client only; `LocalStep` proves once that
such a step preserves the invariant of the others, and a lemma for each kind of
statement (`StepSelect` to `StepCall`) then looks at the acting client. Only
`LoCreate`, `LoWrite` and `Commit` change what is shared, and have proofs of
their own. `NoDeadlock` follows from `RowHolderNeverWaits`: a transaction that
holds a row is past `lo_unlink` and never waits again, so in a set of waiting
clients some client waits for nobody in it.

`PgImplements` needs to know more of rows and streams. `RidInv` says that rows are
told apart by their `rid`, that a waiting `DELETE` waits for a row of its name
or one that is gone for good, that the `rid` of a new row has been nobody's, and
that a save which commits has a row to put. `Reading` says that a stream has
yielded a beginning of an object that no save writes any more, so that what it
answers in the end is what the name held at its first statement. With these:

- a statement that only reads, waits or locks maps to a stutter (`ImplSaving`,
  `ImplDeleting`); one that decides an answer (a `SELECT` that finds no row, the
  probe of `open`) is the instant at which the call takes effect (`FormRead`); an
  exception maps to `RaiseError`;
- a commit is the instant of its own call (`CommitHeld`) and of every delete that
  waits for the row it removes (`Overtaken`, `CommitOthers`): those find nothing to
  delete, as if each had come just before it. This is the reason for `Overtakable`
  in the contract; no commit touches anybody else.

### PgPool

`NoForgottenPool` counts pools, and a count is inductive only with what makes it
move: `LockInv` (who holds `_pool_lock` opens a pool, and only while the flag is
unset), and `PoolInv` (a closer closes the pool in use, and `CREATE TABLE` has an
open one). `Spoiled` puts the forgotten pools and a stale flag in one set. It grows
only in a step that fails or is cancelled, and by one (`FewSpoiled`): an opening that
is given up forgets its pool (`GiveUpForgets`), and an `aclose` that raises leaves the
flag (`RaisesSpoils`). A step that opens a pool after a stale flag is not possible, because the
flag is set.

`NoLostConnection` says that each lent connection is in exactly one call's hands, or
in none's if it is `Gone`: dropped, or abandoned. `HeldInv` has it that nobody holds
a connection twice and that what is held is lent and not gone; `Back` that a
connection goes back to the pool that lent it, or to a later one of psycopg's that
refuses it; and `Counted` that a failure or a cancellation accounts for one
connection at most, by counting those that are gone together with the orphaned
`getconn` jobs that will yet lose one. `Tight` adds that asyncpg has neither.

### LocalStore

`OwnBytes` needs `Owned` (no inode belongs to two names, where the name in the tree,
a handle and a close that a cancelled call has left to a thread all make it belong:
`Refers`) and `AllBytes` (what such an inode holds has its place under that name),
since a late thread, an early flush and a deleted file all write through a handle.
`JobsOk` says that a late close writes chunks of its own content.
`OneBeginning` is about callers that serialise their calls, so `Serial` says that
the calls in progress are compatible and `NoLate` that without a cancellation no
late thread exists; then a file that is being written is still under its name and
holds what its handle has flushed (`Whole`), and what `open` has found is still
there (`StillThere`). The latter also gives `ErrorsTranslated`: for such callers, and
without late threads, a stream never meets a missing file.

For `LocalImplements`, `HeldKnown` tells what the mapping `Held` gives, file by file
(a name under a save holds the new content from `Create` on), and `Streaming` that
a stream reads the inode of its name. `Elsewhere` then leaves only the acting call
to look at.

### AzureStore

Two versions may have the same content, so what a stream reads is told by its
etag: `Numbered` and `Fresh` say that the etag of a save in progress is nobody's
yet, which makes a blob with the etag of a stream the version it began with
(`SameEtag`). `OwnBlocks` holds because two calls of one name of which one changes
it are not both `alone` (`Apart`); `BlocksStayOwn` needs no more, since whatever
another save stages then is under another name. `AzureImplements` takes
`Beginning` in addition: a stream has yielded a beginning of its version.

### StorageManager

`OneMeaning` compares storages with each other; `ClassKept` compares each with the
registry instead, which a step can be checked against. `ClosedSoFar` says that
`aclose_all` has closed everything before the index it is at, which with the check
that the dict has not grown gives `ClosesAll`. `SameStorage` follows from `OneEntry`:
`add` and `register_instance` refuse a name that is there.

### UploadRoute

`RouteInv` says what holds before the end of each loop: `save` has written the slice
of the content from where it began to what it has counted, and a reader stands
right after it (`Written`); a stream has yielded the beginning of the object
(`Yielded`). Lemmas about slices carry the induction: `SliceFacts` (what a slice
that may be empty or negative holds), `SlicesJoin` (a slice after the one that
precedes it is a longer slice), `FileReadFacts` (a `read` is empty only at the end or
for a size of zero). `LinksLeadBack` rests on `CleanedPlain` and `ParsedWhole`:
cleaning a name brings in no character that ends a path and no escape, and a path
without either comes through a URL as it is.

### What stays with TLC

- Liveness, which is out of the prover's reach: `CallReturns` of `PgStore` and
  `PgPool`, `AcloseReturns`, `SaveEnds`. So do the five findings, which are
  counterexamples.
- What `Resolved` computes: it folds over a name, and what a fold computes for every
  sequence needs an induction that the provers cannot instantiate. `LinksLeadBack`
  does not depend on it (the link and the key are resolved by the same function),
  and `TypeCorrect` of `UploadRoute` takes `Refused` as the code has it. That paths
  stay below the root is part of `Refused`, and which names are refused is what
  the run `upload` enumerates.

## Plan

Done, in this order: `StorageContract`, `PgStore`, `PgStoreProofs`, `PgPool`,
`LocalStore`, `AzureStore`, `StorageManager`, `PathNames`, `UploadRoute`, then the
proofs about `StorageManager`, `LocalStore`, `AzureStore`, `PgPool`, the refinement
by `PgStore`, and the proofs about `UploadRoute`.

Next:

1. What `NoForgottenPool` becomes with several closers: which pools each late
   `aclose` can forget, so that `PoolRemembered` needs no `OneCloser`.
2. Lemmas about `PathNames` that need no induction, such as that cleaning a name
   twice is cleaning it once, so that `LinksLeadBack` can say what a second link is.

## Not modelled

- `backends/s3.py`: every operation raises `NotImplementedError`.
- `backends/postgresql_schema.py`, `config.py`, `exceptions.py`: declarations.
  `PgStore` takes from the schema that `name` is the primary key; the exception
  classes appear as kinds of answers.
- The regular expression that checks `table_name`, and the parsing of Azure
  connection strings: functions of strings that run once, when a storage is made.
- The signature and expiry of SAS URLs. That `blob_client.url` of an Azure storage
  without `custom_url` leads to the blob is taken from the SDK.
- `read_all` and `guess_content_type`: no state, and no other part of the library
  calls them.
- `content_type` and the timestamps of the table: no operation reads them back.
- A callable `upload_to`: it may return any name, which is what a name without
  `upload_to` is.
- Symbolic links below `media_root`, and names with white space only.
- Reuse of large object identifiers after 2^32 allocations.
- The permissions of the database user, and the sizes of buffers: no control
  depends on them.
- The routes of the example that delete (the backends' `delete`), its exception
  handlers, and the packaging.
