-------------------------------- MODULE PgPool --------------------------------
(***************************************************************************)
(* The connection pool of the PostgreSQL backend, driven by psycopg or by  *)
(* asyncpg (fast_storages/backends/postgresql.py): _ensure_pool opens it   *)
(* on the first call, acquire takes a connection and gives it back, aclose *)
(* closes it.  A step runs the event loop from one await to the next, or   *)
(* one job of the executor behind asyncio.to_thread (psycopg only).        *)
(*                                                                         *)
(* A job keeps its thread while getconn waits for a connection and while a *)
(* statement waits for a row; other jobs are one step that needs a free    *)
(* thread.  What a call does with its connection is one step too, Use,     *)
(* except where it must wait: for the row another transaction holds        *)
(* ("lock"), or for the second connection of a save whose content is a     *)
(* stream of this backend ("stream").  A stream of open that a consumer    *)
(* iterates is a call of its own ("read").  PgStore is about the           *)
(* statements.                                                             *)
(***************************************************************************)
EXTENDS Naturals, FiniteSets, Sequences

CONSTANTS Tasks,        \* the tasks that call save, delete, exists, size or iterate a stream
          Closers,      \* the tasks that call aclose
          Drivers,      \* the drivers _create_driver may choose
          Kinds,        \* what calls do: what they wait for on the way, in order
          None,         \* Python's None
          MaxPools,     \* the pools that can be made
          MaxSize,      \* pool_max_size
          Threads,      \* threads of the default executor
          CreateTable,  \* create_table
          MaxCalls,     \* bound: calls made in a behaviour
          MaxCloses,    \* bound: aclose calls that find the pool open
          MaxFailures,  \* bound: failures to open or close the pool, to create the table,
                        \*        and of those who iterate a stream
          MaxCancels    \* bound: cancelled calls and streams

Pools       == 1 .. MaxPools
Connections == Pools \X (1 .. MaxSize)

ASSUME PoolAssumption ==
    /\ None \notin Nat \union Tasks
    /\ Drivers \subseteq {"psycopg", "asyncpg"} /\ Drivers # {}
    /\ Kinds \subseteq {<<>>, <<"lock">>, <<"stream">>, <<"read">>,
                        <<"lock", "stream">>, <<"stream", "lock">>}
    /\ {MaxPools, MaxSize, Threads} \subseteq Nat \ {0}
    /\ CreateTable \in BOOLEAN
    /\ {MaxCalls, MaxCloses, MaxFailures, MaxCancels} \subseteq Nat

VARIABLES
    driver,    \* the class of self._driver
    opened,    \* self._pool_opened
    pool,      \* self._driver._pool
    lock,      \* the task that holds self._pool_lock
    state,     \* of each pool: not made yet, open, closing (asyncpg) or closed
    lent,      \* connections taken from a pool and not given back
    dropped,   \* those of them that a cancelled call will not give back
    abandoned, \* those of them that a stream nobody iterates any more still has
    orphans,   \* of each pool: getconn jobs whose task was cancelled
    row,       \* the task whose transaction holds the row calls compete for
    pc,        \* where a task is
    todo,      \* what its call still has to wait for
    held,      \* the connections its call has
    from,      \* the pool it asks for a connection
    to,        \* the pool it gives its last connection back to
    closing,   \* where a closer is
    target,    \* the pool it closes
    draining,  \* connections asyncpg waits for before it closes that pool
    calls, closes, failures, cancels

storage == <<driver, opened, pool, lock>>
pools   == <<state, lent, dropped, abandoned, orphans, row>>
locals  == <<todo, held, from, to>>
closer  == <<closing, target, draining>>
budget  == <<calls, closes, failures, cancels>>
vars    == <<storage, pools, pc, locals, closer, budget>>

Go(t, label) == pc' = [pc EXCEPT ![t] = label]

\* Where an exception or a cancellation takes a call: through the exit of the
\* transaction it is in, if it is in one.
Leave(t) == Go(t, IF held[t] = <<>> THEN "idle" ELSE "use")

\* The rest of what it had to do is not done then.
GiveUp(t) == todo' = [todo EXCEPT ![t] = <<>>]

Ahead(t) == IF todo[t] = <<>> THEN "end" ELSE Head(todo[t])

Idle(p) == ({p} \X (1 .. MaxSize)) \ lent

At(labels) == {t \in Tasks : pc[t] \in labels}

(***************************************************************************)
(* Jobs that keep a thread: getconn, a statement that waits for the row,   *)
(* and a ROLLBACK that waits for the statement of its own connection.      *)
(***************************************************************************)
Jobs ==
    Cardinality(At({"getting", "waiting", "aborted", "rolling"}))
      + Cardinality(At({"rolling"}))
      + Cardinality({w \in Pools \X (1 .. MaxCancels) : w[2] <= orphans[w[1]]})

ThreadFree == driver = "asyncpg" \/ Jobs < Threads

-----------------------------------------------------------------------------
(* _ensure_pool.  Once the pool is open the task goes on to acquire, which *)
(* submits getconn of the current pool, without an await in between.       *)

Call(t) ==
    /\ pc[t] = "idle"
    /\ calls < MaxCalls
    /\ calls' = calls + 1
    /\ \E kind \in Kinds : todo' = [todo EXCEPT ![t] = kind]
    /\ Go(t, "ensure")
    /\ UNCHANGED <<storage, pools, held, from, to, closer, closes, failures, cancels>>

Acquire(t, p) ==
    /\ from' = [from EXCEPT ![t] = p]
    /\ Go(t, "getconn")

FastPath(t) ==
    /\ pc[t] = "ensure"
    /\ opened
    /\ Acquire(t, pool)
    /\ UNCHANGED <<storage, pools, todo, held, to, closer, budget>>

\* Mutant of TakeLock: _pool_opened is set before the pool is opened.
TakeLockEarlyFlag(t) ==
    /\ pc[t] = "ensure"
    /\ ~opened
    /\ IF lock = None /\ At({"lockWait"}) = {}
       THEN lock' = t /\ opened' = TRUE /\ Go(t, "opening")
       ELSE lock' = lock /\ opened' = opened /\ Go(t, "lockWait")
    /\ UNCHANGED <<driver, pool, pools, locals, closer, budget>>

(***************************************************************************)
(* asyncio.Lock hands the lock on in order: it is free for the taking only *)
(* if nobody waits for it.                                                 *)
(***************************************************************************)
TakeLock(t) ==
    /\ pc[t] = "ensure"
    /\ ~opened
    /\ IF lock = None /\ At({"lockWait"}) = {}
       THEN lock' = t /\ Go(t, "opening")
       ELSE lock' = lock /\ Go(t, "lockWait")
    /\ UNCHANGED <<driver, opened, pool, pools, locals, closer, budget>>

\* Mutant of GetLock: no second look at _pool_opened.
GetLockUnchecked(t) ==
    /\ pc[t] = "lockWait"
    /\ lock = None
    /\ lock' = t
    /\ Go(t, "opening")
    /\ UNCHANGED <<driver, opened, pool, pools, locals, closer, budget>>

(***************************************************************************)
(* The double check: a task that had to wait for the lock looks again.     *)
(***************************************************************************)
GetLock(t) ==
    /\ pc[t] = "lockWait"
    /\ lock = None
    /\ IF opened
       THEN Acquire(t, pool) /\ lock' = lock
       ELSE lock' = t /\ Go(t, "opening") /\ UNCHANGED from
    /\ UNCHANGED <<driver, opened, pool, pools, todo, held, to, closer, budget>>

\* The pool that is made next.
MakePool(p) ==
    /\ state[p] = "new"
    /\ \A q \in Pools : q < p => state[q] # "new"
    /\ state' = [state EXCEPT ![p] = "open"]

OpenPool(t) ==
    /\ pc[t] = "opening"
    /\ ThreadFree
    /\ \E p \in Pools :
          /\ MakePool(p)
          /\ pool' = p
          /\ IF CreateTable
             THEN opened' = opened /\ lock' = lock /\ Go(t, "ddl") /\ UNCHANGED from
             ELSE opened' = TRUE /\ lock' = None /\ Acquire(t, p)
    /\ UNCHANGED <<driver, lent, dropped, abandoned, orphans, row, todo, held, to, closer, budget>>

(***************************************************************************)
(* CREATE TABLE takes a connection of the new pool, of which there is one, *)
(* and gives it back.                                                      *)
(***************************************************************************)
CreateTableDone(t) ==
    /\ pc[t] = "ddl"
    /\ ThreadFree
    /\ opened' = TRUE
    /\ lock' = None
    /\ Acquire(t, pool)
    /\ UNCHANGED <<driver, pool, pools, todo, held, to, closer, budget>>

\* Mutant of EnsureFails: the lock is not released by an exception.
EnsureFailsLocked(t) ==
    /\ pc[t] \in {"opening", "ddl"}
    /\ failures < MaxFailures
    /\ failures' = failures + 1
    /\ Go(t, "idle")
    /\ UNCHANGED <<storage, pools, locals, closer, calls, closes, cancels>>

(***************************************************************************)
(* An exception leaves the lock and the call.  When it is CREATE TABLE     *)
(* that fails, the pool that was opened for it stays in self._driver.      *)
(***************************************************************************)
EnsureFails(t) ==
    /\ pc[t] \in {"opening", "ddl"}
    /\ failures < MaxFailures
    /\ failures' = failures + 1
    /\ lock' = None
    /\ Go(t, "idle")
    /\ UNCHANGED <<driver, opened, pool, pools, locals, closer, calls, closes, cancels>>

-----------------------------------------------------------------------------
(* acquire.                                                                *)

(***************************************************************************)
(* getconn finds a thread; asyncpg refuses at once when it is closing.     *)
(***************************************************************************)
StartGetconn(t) ==
    /\ pc[t] = "getconn"
    /\ ThreadFree
    /\ IF driver = "asyncpg" /\ state[from[t]] # "open"
       THEN Leave(t) /\ GiveUp(t)
       ELSE Go(t, "getting") /\ UNCHANGED todo
    /\ UNCHANGED <<storage, pools, held, from, to, closer, budget>>

Getconn(t) ==
    /\ pc[t] = "getting"
    /\ state[from[t]] \in {"open", "closing"}
    /\ Idle(from[t]) # {}
    /\ LET c == CHOOSE c \in Idle(from[t]) : TRUE
       IN  lent' = lent \union {c} /\ held' = [held EXCEPT ![t] = Append(@, c)]
    /\ Go(t, "use")
    /\ UNCHANGED <<storage, state, dropped, abandoned, orphans, row, todo, from, to, closer, budget>>

\* Mutant of GetconnFails: psycopg waits for a connection without a timeout.
GetconnUntimed(t) ==
    /\ pc[t] = "getting"
    /\ state[from[t]] = "closed"
    /\ Leave(t) /\ GiveUp(t)
    /\ UNCHANGED <<storage, pools, held, from, to, closer, budget>>

(***************************************************************************)
(* PoolClosed; or PoolTimeout of psycopg after 30 seconds without a free   *)
(* connection.  asyncpg waits without a timeout, and only the end of close *)
(* ends the wait.                                                          *)
(***************************************************************************)
GetconnFails(t) ==
    /\ pc[t] = "getting"
    /\ \/ state[from[t]] = "closed"
       \/ driver = "psycopg" /\ Idle(from[t]) = {}
    /\ Leave(t) /\ GiveUp(t)
    /\ UNCHANGED <<storage, pools, held, from, to, closer, budget>>

(***************************************************************************)
(* A save or a delete of the contended name comes to the statement that    *)
(* locks what another transaction may have locked: lo_unlink and DELETE of *)
(* a name that exists, before the first chunk of the content, or INSERT of *)
(* a new one after the last.                                               *)
(***************************************************************************)
StartLock(t) ==
    /\ pc[t] = "use"
    /\ Ahead(t) = "lock" /\ Len(held[t]) = 1
    /\ ThreadFree
    /\ todo' = [todo EXCEPT ![t] = Tail(@)]
    /\ Go(t, "waiting")
    /\ UNCHANGED <<storage, pools, held, from, to, closer, budget>>

\* Also when the task was cancelled meanwhile: its ROLLBACK is the next statement.
TakeRow(t) ==
    /\ pc[t] \in {"waiting", "aborted"}
    /\ row = None
    /\ row' = t
    /\ Go(t, "use")
    /\ UNCHANGED <<storage, state, lent, dropped, abandoned, orphans, locals, closer, budget>>

\* The connection the call has taken last.
Top(t) == held[t][Len(held[t])]

\* A pool of asyncpg that is closed has closed the connections it had lent.
Broken(t) == driver = "asyncpg" /\ state[Top(t)[1]] = "closed"

LockFails(t) ==
    /\ pc[t] = "waiting"
    /\ Broken(t)
    /\ Go(t, "use") /\ GiveUp(t)
    /\ UNCHANGED <<storage, pools, held, from, to, closer, budget>>

(***************************************************************************)
(* The save of a stream of this backend comes to the first chunk, for      *)
(* which the stream takes a connection of the pool self._pool is by now.   *)
(***************************************************************************)
StartStream(t) ==
    /\ pc[t] = "use"
    /\ Ahead(t) = "stream" /\ Len(held[t]) = 1
    /\ todo' = [todo EXCEPT ![t] = Tail(@)]
    /\ Acquire(t, pool)
    /\ UNCHANGED <<storage, pools, held, to, closer, budget>>

Pop(t) == held' = [held EXCEPT ![t] = SubSeq(@, 1, Len(@) - 1)]

\* Where a call goes on when its last connection is back.
AfterPut(t) == Go(t, IF Len(held[t]) = 1 THEN "idle" ELSE "use")

\* The row is free when the transaction of the save ends, not that of its stream.
Unlock(t) == row' = IF row = t /\ Len(held[t]) = 1 THEN None ELSE row

\* Mutant of Use: putconn is not in a finally clause.
UseWithoutFinally(t) ==
    /\ pc[t] = "use"
    /\ ThreadFree
    /\ Unlock(t)
    /\ \/ /\ to' = [to EXCEPT ![t] = IF driver = "psycopg" THEN pool ELSE Top(t)[1]]
          /\ Go(t, "put")
          /\ UNCHANGED held
       \/ Pop(t) /\ AfterPut(t) /\ UNCHANGED to
    /\ UNCHANGED <<storage, state, lent, dropped, abandoned, orphans, todo, from, closer, budget>>

(***************************************************************************)
(* The other statements, to the end, an exception or a cancellation, and   *)
(* COMMIT or ROLLBACK.  A stream that comes to its end, or fails in one of *)
(* its own statements, gives its connection back before the save goes on.  *)
(* Then the finally clause of _PsycopgDriver submits putconn of the pool   *)
(* self._pool is by now; asyncpg gives a connection back to the pool that  *)
(* lent it.                                                                *)
(***************************************************************************)
Use(t) ==
    /\ pc[t] = "use"
    /\ ThreadFree
    /\ Unlock(t)
    /\ to' = [to EXCEPT ![t] = IF driver = "psycopg" THEN pool ELSE Top(t)[1]]
    /\ Go(t, "put")
    /\ UNCHANGED <<storage, state, lent, dropped, abandoned, orphans, todo, held, from, closer,
                   budget>>

(***************************************************************************)
(* A pool takes back its own connections only (a closed one closes them);  *)
(* another's is a ValueError and stays where it is.                        *)
(***************************************************************************)
Putconn(t) ==
    /\ pc[t] = "put"
    /\ ThreadFree
    /\ IF to[t] = Top(t)[1]
       THEN /\ lent' = lent \ {Top(t)}
            /\ draining' = [k \in Closers |-> draining[k] \ {Top(t)}]
       ELSE UNCHANGED <<lent, draining>>
    /\ Pop(t)
    /\ AfterPut(t)
    /\ UNCHANGED <<storage, state, dropped, abandoned, orphans, row, todo, from, to, closing, target,
                   budget>>

(***************************************************************************)
(* Whoever iterates a stream fails or is cancelled between two chunks: a   *)
(* save in lowrite, or a consumer of open.  async for does not close the   *)
(* stream, so it keeps its connection; the save goes on to its ROLLBACK.   *)
(***************************************************************************)
Abandon(t) ==
    /\ pc[t] = "use"
    /\ Len(held[t]) = 2 \/ todo[t] = <<"read">>
    /\ \/ failures < MaxFailures /\ failures' = failures + 1 /\ UNCHANGED cancels
       \/ cancels < MaxCancels /\ cancels' = cancels + 1 /\ UNCHANGED failures
    /\ abandoned' = abandoned \union {Top(t)}
    /\ Pop(t)
    /\ AfterPut(t)
    /\ GiveUp(t)
    /\ UNCHANGED <<storage, state, lent, dropped, orphans, row, from, to, closer, calls, closes>>

(***************************************************************************)
(* The garbage collector finds the stream, the event loop closes it, and   *)
(* the finally clause of acquire gives the connection back.  When that is, *)
(* and whether it is at all, is up to whoever still refers to the stream.  *)
(***************************************************************************)
Collect(c) ==
    /\ c \in abandoned
    /\ ThreadFree
    /\ abandoned' = abandoned \ {c}
    /\ IF driver = "asyncpg" \/ c[1] = pool
       THEN /\ lent' = lent \ {c}
            /\ draining' = [k \in Closers |-> draining[k] \ {c}]
       ELSE UNCHANGED <<lent, draining>>
    /\ UNCHANGED <<storage, state, dropped, orphans, row, pc, locals, closing, target, budget>>

-----------------------------------------------------------------------------
(* Cancellation (a client that disconnects, a timeout) makes the await     *)
(* raise.  A job still waiting for a thread is dropped; one that runs goes *)
(* on and its result is lost.  asyncpg undoes what it had begun, and does  *)
(* give a connection back.  In the step Use it is one way to end.          *)

CancelOpening(t) ==
    /\ pc[t] \in {"opening", "ddl"}
    /\ lock' = None
    /\ Go(t, "idle")
    /\ \/ UNCHANGED state
       \/ driver = "psycopg" /\ pc[t] = "opening" /\ \E p \in Pools : MakePool(p)
    /\ UNCHANGED <<driver, opened, pool, lent, dropped, orphans, held>>

CancelWaiting(t) ==
    /\ pc[t] \in {"lockWait", "getconn"}
    /\ Leave(t)
    /\ UNCHANGED <<storage, state, lent, dropped, orphans, held>>

CancelGetting(t) ==
    /\ pc[t] = "getting"
    /\ orphans' = IF driver = "psycopg" THEN [orphans EXCEPT ![from[t]] = @ + 1] ELSE orphans
    /\ Leave(t)
    /\ UNCHANGED <<storage, state, lent, dropped, held>>

CancelLock(t) ==
    /\ pc[t] = "waiting"
    /\ Go(t, IF driver = "psycopg" THEN "aborted" ELSE "use")
    /\ UNCHANGED <<storage, state, lent, dropped, orphans, held>>

CancelPut(t) ==
    /\ pc[t] = "put"
    /\ driver = "psycopg"
    /\ dropped' = dropped \union {Top(t)}
    /\ Pop(t)
    /\ AfterPut(t)
    /\ UNCHANGED <<storage, state, lent, orphans>>

Cancel(t) ==
    /\ cancels < MaxCancels
    /\ cancels' = cancels + 1
    /\ CancelOpening(t) \/ CancelWaiting(t) \/ CancelGetting(t) \/ CancelLock(t) \/ CancelPut(t)
    /\ GiveUp(t)
    /\ UNCHANGED <<abandoned, row, from, to, closer, calls, closes, failures>>

(***************************************************************************)
(* ROLLBACK of a cancelled call whose statement still waits for the row:   *)
(* both run when the row is free.                                          *)
(***************************************************************************)
StartRollback(t) ==
    /\ pc[t] = "aborted"
    /\ ThreadFree
    /\ Go(t, "rolling")
    /\ UNCHANGED <<storage, pools, locals, closer, budget>>

Rollback(t) ==
    /\ pc[t] = "rolling"
    /\ row = None
    /\ to' = [to EXCEPT ![t] = pool]
    /\ Go(t, "put")
    /\ UNCHANGED <<storage, pools, todo, held, from, closer, budget>>

(***************************************************************************)
(* A getconn nobody waits for still takes the connection, or gives up.     *)
(***************************************************************************)
OrphanGets(p) ==
    /\ orphans[p] > 0
    /\ state[p] = "open"
    /\ Idle(p) # {}
    /\ orphans' = [orphans EXCEPT ![p] = @ - 1]
    /\ LET c == CHOOSE c \in Idle(p) : TRUE
       IN  lent' = lent \union {c} /\ dropped' = dropped \union {c}
    /\ UNCHANGED <<storage, state, abandoned, row, pc, locals, closer, budget>>

OrphanEnds(p) ==
    /\ orphans[p] > 0
    /\ state[p] = "closed" \/ Idle(p) = {}
    /\ orphans' = [orphans EXCEPT ![p] = @ - 1]
    /\ UNCHANGED <<storage, state, lent, dropped, abandoned, row, pc, locals, closer, budget>>

-----------------------------------------------------------------------------
(* aclose takes no lock.  If it does not find the pool opened it returns   *)
(* at once and changes nothing.                                            *)

(***************************************************************************)
(* asyncpg lends nothing from now on, except to those that wait already,   *)
(* and waits for the connections that are out.                             *)
(***************************************************************************)
CloseStart(k) ==
    /\ closing[k] = "idle"
    /\ opened
    /\ closes < MaxCloses
    /\ closes' = closes + 1
    /\ target' = [target EXCEPT ![k] = pool]
    /\ closing' = [closing EXCEPT ![k] = "closing"]
    /\ IF driver = "asyncpg" /\ pool # None /\ state[pool] # "closed"
       THEN /\ state' = [state EXCEPT ![pool] = "closing"]
            /\ draining' = [draining EXCEPT ![k] = {c \in lent : c[1] = pool}]
       ELSE UNCHANGED <<state, draining>>
    /\ UNCHANGED <<storage, lent, dropped, abandoned, orphans, row, pc, locals, calls, failures,
                   cancels>>

(***************************************************************************)
(* psycopg leaves a connection that is out to the one that gives it back.  *)
(* asyncpg closes it, and the server undoes its transaction.               *)
(***************************************************************************)
Shut(p) ==
    /\ state' = [state EXCEPT ![p] = "closed"]
    /\ row' = IF driver = "asyncpg" /\ row # None /\ held[row] # <<>> /\ held[row][1][1] = p
              THEN None
              ELSE row

ClosePool(k) ==
    /\ closing[k] = "closing"
    /\ ThreadFree
    /\ draining[k] = {}
    /\ Shut(target[k])
    /\ closing' = [closing EXCEPT ![k] = "closed"]
    /\ UNCHANGED <<storage, lent, dropped, abandoned, orphans, pc, locals, target, draining, budget>>

CloseEnd(k) ==
    /\ closing[k] = "closed"
    /\ opened' = FALSE
    /\ closing' = [closing EXCEPT ![k] = "idle"]
    /\ UNCHANGED <<driver, pool, lock, pools, pc, locals, target, draining, budget>>

(***************************************************************************)
(* The await of close raises, or is cancelled, and the flag stays set.  A  *)
(* job of psycopg that had no thread yet is dropped, one that had closes   *)
(* the pool all the same; asyncpg stops waiting and terminates the pool.   *)
(***************************************************************************)
CloseRaises(k) ==
    /\ closing[k] \in {"closing", "closed"}
    /\ \/ failures < MaxFailures /\ failures' = failures + 1 /\ UNCHANGED cancels
       \/ cancels < MaxCancels /\ cancels' = cancels + 1 /\ UNCHANGED failures
    /\ closing' = [closing EXCEPT ![k] = "idle"]
    /\ IF driver = "asyncpg" /\ closing[k] = "closing"
       THEN /\ Shut(target[k])
            /\ draining' = [j \in Closers |-> {c \in draining[j] : c[1] # target[k]}]
       ELSE UNCHANGED <<state, row, draining>>
    /\ UNCHANGED <<storage, lent, dropped, abandoned, orphans, pc, locals, target, calls, closes>>

-----------------------------------------------------------------------------
\* _create_driver chooses once.
Init ==
    /\ driver \in Drivers
    /\ opened = FALSE
    /\ pool = None
    /\ lock = None
    /\ state = [p \in Pools |-> "new"]
    /\ lent = {}
    /\ dropped = {}
    /\ abandoned = {}
    /\ orphans = [p \in Pools |-> 0]
    /\ row = None
    /\ pc = [t \in Tasks |-> "idle"]
    /\ todo = [t \in Tasks |-> <<>>]
    /\ held = [t \in Tasks |-> <<>>]
    /\ from = [t \in Tasks |-> None]
    /\ to = [t \in Tasks |-> None]
    /\ closing = [k \in Closers |-> "idle"]
    /\ target = [k \in Closers |-> None]
    /\ draining = [k \in Closers |-> {}]
    /\ calls = 0 /\ closes = 0 /\ failures = 0 /\ cancels = 0

Run(t) ==
    \/ FastPath(t) \/ TakeLock(t) \/ GetLock(t) \/ OpenPool(t) \/ CreateTableDone(t)
    \/ StartGetconn(t) \/ Getconn(t) \/ GetconnFails(t)
    \/ StartLock(t) \/ TakeRow(t) \/ LockFails(t) \/ StartStream(t) \/ Use(t) \/ Putconn(t)
    \/ StartRollback(t) \/ Rollback(t)

Orphan(p) == OrphanGets(p) \/ OrphanEnds(p)

Close(k) == ClosePool(k) \/ CloseEnd(k)

\* A connection that calls of S have, or nobody.
HeldBack(c, S) ==
    \/ c \in abandoned
    \/ \E t \in S : \E i \in 1 .. Len(held[t]) : held[t][i] = c

\* Jobs that wait for a row, of calls of S, keep every thread.
ThreadsHeld(S) ==
    /\ ~ThreadFree
    /\ At({"getting"}) = {} /\ \A p \in Pools : orphans[p] = 0
    /\ At({"waiting", "aborted", "rolling"}) \subseteq S

(***************************************************************************)
(* A call waits for calls of S: for the row, which one of them has locked, *)
(* for _pool_lock, for a thread, or for a connection of asyncpg, which has *)
(* no timeout.                                                             *)
(***************************************************************************)
WaitsFor(t, S) ==
    \/ pc[t] \in {"waiting", "aborted", "rolling"} /\ row \in S /\ ~Broken(t)
    \/ pc[t] = "lockWait" /\ lock \in S
    \/ pc[t] \in {"opening", "ddl", "getconn", "use", "put"} /\ ThreadsHeld(S)
    \/ /\ pc[t] = "getting" /\ driver = "asyncpg"
       /\ state[from[t]] # "closed" /\ Idle(from[t]) = {}
       /\ \A c \in lent : c[1] = from[t] => HeldBack(c, S)

Deadlocked(S) == \A t \in S : WaitsFor(t, S)

(***************************************************************************)
(* The calls that wait for one another and for abandoned streams so that   *)
(* none can go on, until one is cancelled, a stream is collected or aclose *)
(* takes the connections away.                                             *)
(***************************************************************************)
Stuck(t) == \E S \in SUBSET Tasks : t \in S /\ Deadlocked(S)

\* aclose waits for a thread or a connection that stuck calls keep.
AcloseStuck(k) ==
    /\ closing[k] = "closing"
    /\ \E S \in SUBSET Tasks :
          /\ Deadlocked(S)
          /\ ThreadsHeld(S) \/ \E c \in draining[k] : HeldBack(c, S)

Finished ==
    /\ \/ calls = MaxCalls /\ \A t \in Tasks : pc[t] = "idle"
       \/ \E t \in Tasks : Stuck(t)
    /\ UNCHANGED vars

Next ==
    \/ \E t \in Tasks : Call(t) \/ Run(t) \/ EnsureFails(t) \/ Cancel(t) \/ Abandon(t)
    \/ \E c \in abandoned : Collect(c)
    \/ \E p \in Pools : Orphan(p)
    \/ \E k \in Closers : CloseStart(k) \/ Close(k) \/ CloseRaises(k)
    \/ Finished

Spec == Init /\ [][Next]_vars

(***************************************************************************)
(* The event loop runs what is ready and the executor runs its jobs.       *)
(***************************************************************************)
FairSpec ==
    /\ Spec
    /\ \A t \in Tasks : WF_vars(Run(t))
    /\ \A p \in Pools : WF_vars(Orphan(p))
    /\ \A k \in Closers : WF_vars(Close(k))

-----------------------------------------------------------------------------
(* The variables have their types.  A call asks a pool for a connection,   *)
(* never None, and has one whenever it executes statements.                *)
TypeOK ==
    /\ driver \in Drivers
    /\ opened \in BOOLEAN
    /\ pool \in Pools \union {None}
    /\ lock \in Tasks \union {None}
    /\ state \in [Pools -> {"new", "open", "closing", "closed"}]
    /\ dropped \subseteq Connections
    /\ lent \subseteq Connections
    /\ abandoned \subseteq Connections
    /\ orphans \in [Pools -> 0 .. MaxCancels]
    /\ row \in Tasks \union {None}
    /\ pc \in [Tasks -> {"idle", "ensure", "lockWait", "opening", "ddl", "getconn", "getting",
                         "use", "waiting", "aborted", "rolling", "put"}]
    /\ todo \in [Tasks -> Seq({"lock", "stream", "read"})]
    /\ held \in [Tasks -> Seq(Connections)]
    /\ from \in [Tasks -> Pools \union {None}]
    /\ \A t \in At({"getconn", "getting"}) : from[t] \in Pools
    /\ \A t \in At({"use", "waiting", "aborted", "rolling", "put"}) : held[t] # <<>>
    /\ to \in [Tasks -> Pools \union {None}]
    /\ closing \in [Closers -> {"idle", "closing", "closed"}]
    /\ target \in [Closers -> Pools \union {None}]
    /\ draining \in [Closers -> SUBSET Connections]
    /\ calls \in 0 .. MaxCalls
    /\ closes \in 0 .. MaxCloses
    /\ failures \in 0 .. MaxFailures
    /\ cancels \in 0 .. MaxCancels

\* The pools that neither a call nor aclose can find, because the flag is not
\* set or the driver refers to another one.
Forgotten ==
    {p \in Pools : state[p] \in {"open", "closing"}
                      /\ ~(p = pool /\ (opened \/ At({"ddl"}) # {}))}

\* The flag is set but, with no aclose going on, the pool is not usable.
StaleFlag ==
    opened /\ (\A k \in Closers : closing[k] = "idle") /\ state[pool] # "open"

(***************************************************************************)
(* The double-checked lock opens one pool at a time, aclose finds it, and  *)
(* the flag, once set, means that it may be used until aclose closes it.   *)
(* Only a failure or a cancellation spoils that, and for one pool at most: *)
(* one while the pool is opened or its table created leaves a pool nobody  *)
(* finds, one of aclose leaves the flag on a pool that is closed.          *)
(***************************************************************************)
NoForgottenPool ==
    Cardinality(Forgotten) + (IF StaleFlag THEN 1 ELSE 0) <= failures + cancels

Holders(c) == {t \in Tasks : \E i \in 1 .. Len(held[t]) : held[t][i] = c}

(***************************************************************************)
(* A connection that the driver's pool has lent is in the hands of exactly *)
(* one call, however calls end and whatever aclose does meanwhile, unless  *)
(* a cancelled call lost it or a stream that was abandoned has it.  Each   *)
(* failure or cancellation accounts for one of those; asyncpg loses none,  *)
(* of any pool.                                                            *)
(***************************************************************************)
NoLostConnection ==
    /\ \A c \in lent : state[c[1]] # "closed" /\ (c[1] = pool \/ driver = "asyncpg") =>
          Cardinality(Holders(c)) = IF c \in dropped \union abandoned THEN 0 ELSE 1
    /\ Cardinality(dropped) + Cardinality(abandoned) <= failures + cancels
    /\ driver = "asyncpg" => dropped = {}

(***************************************************************************)
(* Every call comes back, also when every thread is blocked in getconn or  *)
(* the pool is closed meanwhile, unless calls are stuck on one another.    *)
(***************************************************************************)
CallReturns == \A t \in Tasks : pc[t] # "idle" ~> pc[t] = "idle" \/ Stuck(t)

(***************************************************************************)
(* aclose comes back, though asyncpg waits for the connections that calls  *)
(* have, unless stuck calls or an abandoned stream keep what it waits for. *)
(***************************************************************************)
AcloseReturns ==
    \A k \in Closers : closing[k] # "idle" ~> closing[k] = "idle" \/ AcloseStuck(k)

(***************************************************************************)
(* base.py, line 23: a backend with a blocking SDK can wrap calls in an    *)
(* executor, "but callers never need to know that".  So calls that only    *)
(* wait for each other's transactions would all come back.                 *)
(***************************************************************************)
NeverHangs == \A t \in Tasks : pc[t] # "idle" ~> pc[t] = "idle"
=============================================================================
