------------------------------- MODULE PgStore -------------------------------
(***************************************************************************)
(* The PostgreSQL backend (fast_storages/backends/postgresql.py): several  *)
(* tasks call save, delete, open, size and exists on one database, and     *)
(* their SQL statements interleave.  One step is one statement.            *)
(*                                                                         *)
(* The metadata table is the set rows of records; a row is identified by   *)
(* rid, because a DELETE followed by an INSERT makes a new row where       *)
(* ON CONFLICT DO UPDATE changes the old one, and a statement that waited  *)
(* for a row tells them apart.  Large objects are live once committed.     *)
(* What an open transaction has done stays in unlinked, touched and put    *)
(* until its COMMIT.  The transactions run at READ COMMITTED, the default  *)
(* both drivers leave in place: every statement sees what is committed     *)
(* when it starts, and waits for a row or large object that an open        *)
(* transaction has changed.                                                *)
(*                                                                         *)
(* Large object identifiers are never reused here (the server's counter    *)
(* wraps after 2^32 allocations).  Names pass the check of save (552-553). *)
(***************************************************************************)
EXTENDS Naturals, Sequences, FiniteSets

CONSTANTS Clients,    \* the tasks that call the backend
          Names,      \* names of files
          Oids,       \* identifiers lo_create can hand out
          Chunks,     \* the pieces a content is written and read in
          Contents,   \* the contents callers save, sequences of chunks
          None,       \* Python's None
          MaxCalls,   \* bound: calls made in a behaviour
          MaxFaults   \* bound: faults in a behaviour

ASSUME PgAssumption ==
    /\ None \notin Oids \union Contents
    /\ \A s \in Contents : s \in Seq(Chunks)
    /\ MaxCalls \in Nat
    /\ MaxFaults \in Nat

VARIABLES
    rows,      \* the committed rows of the metadata table
    live,      \* the committed large objects
    data,      \* what has been written to each large object
    used,      \* the identifiers handed out so far
    unlinked,  \* large objects the client's open transaction has unlinked
    touched,   \* whether it has deleted, inserted or updated the row of its name
    put,       \* the row it has inserted or updated, as a set of at most one
    pc,        \* the statement the client executes next
    call,      \* its call
    old,       \* old_oid in save, oid in delete and open
    oid,       \* the large object save creates
    total,     \* total_size in save
    seen,      \* rid of the row its blocked DELETE waits for
    got,       \* chunks the stream has yielded
    answer,    \* what the call returned
    calls,     \* calls made so far
    faults     \* faults so far

table   == <<rows, live>>
objects == <<data, used>>
txn     == <<unlinked, touched, put>>
locals  == <<old, oid, total, seen, got>>
budget  == <<calls, faults>>
vars    == <<table, objects, txn, pc, call, locals, answer, budget>>

CallSet ==
    [op : {"save"}, name : Names, content : Contents]
        \union [op : {"delete", "open", "size", "exists"}, name : Names, content : {<<>>}]

RowSet == [name : Names, rid : Oids, loid : Oids, size : Nat]

Plain(k) == [kind |-> k, size |-> 0, content |-> <<>>]

Go(c, label) == pc' = [pc EXCEPT ![c] = label]

RowsOf(n) == {r \in rows : r.name = n}

(***************************************************************************)
(* Locks.  A transaction that has unlinked an object or touched a row      *)
(* excludes every other from doing the same until it ends.                 *)
(***************************************************************************)
ObjectHolders(c) == {d \in Clients \ {c} : old[c] \in unlinked[d]}

RowHolders(c) == {d \in Clients \ {c} : touched[d] /\ call[d].name = call[c].name}

SeenGone(c) == \A r \in rows : r.rid # seen[c]

Blocked(c) ==
    CASE pc[c] = "unlink"     -> ObjectHolders(c)
      [] pc[c] = "deleteWait" -> IF SeenGone(c) THEN {} ELSE RowHolders(c)
      [] pc[c] = "insert"     -> RowHolders(c)
      [] OTHER                -> {}

(***************************************************************************)
(* The end of a transaction.  EndTxn forgets what it did, which is all     *)
(* ROLLBACK does; COMMIT makes it permanent first.                         *)
(***************************************************************************)
EndTxn(c) ==
    /\ unlinked' = [unlinked EXCEPT ![c] = {}]
    /\ touched' = [touched EXCEPT ![c] = FALSE]
    /\ put' = [put EXCEPT ![c] = {}]

\* Mutant of Rollback: the connection goes back with its transaction open.
RollbackForgotten(c) == UNCHANGED txn

Rollback(c) == EndTxn(c)

(***************************************************************************)
(* The call ends with an exception: ROLLBACK, putconn, raise.              *)
(***************************************************************************)
Raise(c, kind) ==
    /\ Rollback(c)
    /\ answer' = [answer EXCEPT ![c] = Plain(kind)]
    /\ Go(c, "idle")
    /\ UNCHANGED <<table, objects, call, locals>>

-----------------------------------------------------------------------------
(* Statements shared by the operations; next is the one that follows.      *)

SelectLoid(c, from, found, missing) ==
    /\ pc[c] = from
    /\ \/ /\ RowsOf(call[c].name) = {}
          /\ old' = [old EXCEPT ![c] = None]
          /\ Go(c, missing)
       \/ \E r \in RowsOf(call[c].name) :
             /\ old' = [old EXCEPT ![c] = r.loid]
             /\ Go(c, found)

LoUnlink(c, next) ==
    /\ pc[c] = "unlink"
    /\ Blocked(c) = {}
    /\ old[c] \in live
    /\ unlinked' = [unlinked EXCEPT ![c] = @ \union {old[c]}]
    /\ Go(c, next)
    /\ UNCHANGED <<table, objects, touched, put, call, locals, answer, budget>>

(***************************************************************************)
(* "large object ... does not exist": the object went between the SELECT   *)
(* and this statement.  _wrap_pg_exception makes it a plain StorageError.  *)
(***************************************************************************)
LoUnlinkFails(c) ==
    /\ pc[c] = "unlink"
    /\ Blocked(c) = {}
    /\ old[c] \notin live
    /\ Raise(c, "error")
    /\ UNCHANGED budget

(***************************************************************************)
(* DELETE ... WHERE name = $1.  It acts on the row committed when it       *)
(* starts.  If another transaction holds that row it waits; afterwards it  *)
(* deletes the row as that transaction left it, or nothing if the row has  *)
(* been deleted, even if a new row of the name was inserted meanwhile.     *)
(***************************************************************************)
DeleteRow(c, next) ==
    /\ pc[c] = "delete"
    /\ RowsOf(call[c].name) = {} \/ RowHolders(c) = {}
    /\ touched' = [touched EXCEPT ![c] = RowsOf(call[c].name) # {}]
    /\ Go(c, next)
    /\ UNCHANGED <<table, objects, unlinked, put, call, locals, answer, budget>>

DeleteRowBlocks(c) ==
    /\ pc[c] = "delete"
    /\ RowHolders(c) # {}
    /\ \E r \in RowsOf(call[c].name) : seen' = [seen EXCEPT ![c] = r.rid]
    /\ Go(c, "deleteWait")
    /\ UNCHANGED <<table, objects, txn, call, old, oid, total, got, answer, budget>>

DeleteRowWakes(c, next) ==
    /\ pc[c] = "deleteWait"
    /\ Blocked(c) = {}
    /\ touched' = [touched EXCEPT ![c] = ~SeenGone(c)]
    /\ Go(c, next)
    /\ UNCHANGED <<table, objects, unlinked, put, call, locals, answer, budget>>

(***************************************************************************)
(* COMMIT.  touched says the row of the name was deleted or replaced; a    *)
(* save makes the object it created permanent with it.                     *)
(***************************************************************************)
Commit(c, reply) ==
    /\ pc[c] = "commit"
    /\ rows' = IF touched[c] THEN (rows \ RowsOf(call[c].name)) \union put[c] ELSE rows
    /\ live' = (live \ unlinked[c]) \union {r.loid : r \in put[c]}
    /\ EndTxn(c)
    /\ answer' = [answer EXCEPT ![c] = reply]
    /\ Go(c, "reply")
    /\ UNCHANGED <<objects, call, locals, budget>>

-----------------------------------------------------------------------------
(* save                                                                    *)

LoCreate(c) ==
    /\ pc[c] = "create"
    /\ \E o \in Oids \ used :
          /\ used' = used \union {o}
          /\ oid' = [oid EXCEPT ![c] = o]
          /\ data' = [data EXCEPT ![o] = <<>>]
    /\ Go(c, "write")
    /\ UNCHANGED <<table, txn, call, old, total, seen, got, answer, budget>>

(***************************************************************************)
(* One turn of the write loop: the next chunk of the content, a lowrite,   *)
(* and total_size; or the end of the content and lo_close.                 *)
(***************************************************************************)
LoWrite(c) ==
    /\ pc[c] = "write"
    /\ total[c] < Len(call[c].content)
    /\ data' = [data EXCEPT ![oid[c]] = Append(@, call[c].content[total[c] + 1])]
    /\ total' = [total EXCEPT ![c] = @ + 1]
    /\ UNCHANGED <<table, used, txn, pc, call, old, oid, seen, got, answer, budget>>

LoClose(c) ==
    /\ pc[c] = "write"
    /\ total[c] = Len(call[c].content)
    /\ Go(c, "insert")
    /\ UNCHANGED <<table, objects, txn, call, locals, answer, budget>>

\* Mutant of InsertRow: the row refers to the object that was there before.
InsertRowOldOid(c) ==
    /\ pc[c] = "insert"
    /\ Blocked(c) = {}
    /\ put' = [put EXCEPT ![c] =
                {[name |-> call[c].name, rid |-> oid[c], loid |-> old[c], size |-> total[c]]}]
    /\ touched' = [touched EXCEPT ![c] = TRUE]
    /\ Go(c, "commit")
    /\ UNCHANGED <<table, objects, unlinked, call, locals, answer, budget>>

\* Mutant of InsertRow: ON CONFLICT (name) DO NOTHING.
InsertRowDoNothing(c) ==
    /\ pc[c] = "insert"
    /\ Blocked(c) = {}
    /\ LET new == [name |-> call[c].name, rid |-> oid[c], loid |-> oid[c], size |-> total[c]]
           fresh == touched[c] \/ RowsOf(call[c].name) = {}
       IN /\ put' = [put EXCEPT ![c] = IF fresh THEN {new} ELSE {}]
          /\ touched' = [touched EXCEPT ![c] = fresh]
    /\ Go(c, "commit")
    /\ UNCHANGED <<table, objects, unlinked, call, locals, answer, budget>>

(***************************************************************************)
(* INSERT ... ON CONFLICT (name) DO UPDATE: a new row if the name has none *)
(* (or the transaction has deleted it), else the old one is updated, after *)
(* every other transaction that changes the row of the name has ended.     *)
(***************************************************************************)
InsertRow(c) ==
    /\ pc[c] = "insert"
    /\ Blocked(c) = {}
    /\ LET new == [name |-> call[c].name, rid |-> oid[c], loid |-> oid[c], size |-> total[c]]
           conflicting == IF touched[c] THEN {} ELSE RowsOf(call[c].name)
       IN put' = [put EXCEPT ![c] = IF conflicting = {}
                                    THEN {new}
                                    ELSE {[new EXCEPT !.rid = r.rid] : r \in conflicting}]
    /\ touched' = [touched EXCEPT ![c] = TRUE]
    /\ Go(c, "commit")
    /\ UNCHANGED <<table, objects, unlinked, call, locals, answer, budget>>

SaveSelect(c) ==
    /\ SelectLoid(c, "select", "unlink", "create")
    /\ UNCHANGED <<table, objects, txn, call, oid, total, seen, got, answer, budget>>

Save(c) ==
    /\ call[c].op = "save"
    /\ \/ SaveSelect(c)
       \/ LoUnlink(c, "delete")
       \/ LoUnlinkFails(c)
       \/ DeleteRow(c, "create")
       \/ DeleteRowBlocks(c)
       \/ DeleteRowWakes(c, "create")
       \/ LoCreate(c)
       \/ LoWrite(c)
       \/ LoClose(c)
       \/ InsertRow(c)
       \/ Commit(c, [kind |-> "saved", size |-> total[c], content |-> <<>>])

-----------------------------------------------------------------------------
(* delete: without a row the transaction commits having done nothing.      *)

DeleteSelect(c) ==
    /\ SelectLoid(c, "select", "unlink", "commit")
    /\ UNCHANGED <<table, objects, txn, call, oid, total, seen, got, answer, budget>>

\* Mutant of Delete: the row is left in the table.
DeleteKeepsRow(c) ==
    /\ call[c].op = "delete"
    /\ DeleteSelect(c) \/ LoUnlink(c, "commit") \/ LoUnlinkFails(c) \/ Commit(c, Plain("deleted"))

\* Mutant of Delete: DELETE comes before lo_unlink.
DeleteRowFirst(c) ==
    /\ call[c].op = "delete"
    /\ \/ /\ SelectLoid(c, "select", "delete", "commit")
          /\ UNCHANGED <<table, objects, txn, call, oid, total, seen, got, answer, budget>>
       \/ DeleteRow(c, "unlink")
       \/ DeleteRowBlocks(c)
       \/ DeleteRowWakes(c, "unlink")
       \/ LoUnlink(c, "commit")
       \/ LoUnlinkFails(c)
       \/ Commit(c, Plain("deleted"))

Delete(c) ==
    /\ call[c].op = "delete"
    /\ \/ DeleteSelect(c)
       \/ LoUnlink(c, "delete")
       \/ LoUnlinkFails(c)
       \/ DeleteRow(c, "commit")
       \/ DeleteRowBlocks(c)
       \/ DeleteRowWakes(c, "commit")
       \/ Commit(c, Plain("deleted"))

-----------------------------------------------------------------------------
(* open: the probe runs on a connection of its own, outside a transaction; *)
(* the stream it returns starts a transaction at its first iteration.      *)

Probe(c) ==
    /\ SelectLoid(c, "probe", "opened", "reply")
    /\ answer' = [answer EXCEPT ![c] = IF RowsOf(call[c].name) = {} THEN Plain("notfound") ELSE @]
    /\ UNCHANGED <<table, objects, txn, call, oid, total, seen, got, budget>>

LoOpen(c) ==
    /\ pc[c] = "opened"
    /\ old[c] \in live
    /\ Go(c, "stream")
    /\ UNCHANGED <<table, objects, txn, call, locals, answer, budget>>

(***************************************************************************)
(* lo_open of an object that went since the probe: a StorageError out of   *)
(* the first iteration.                                                    *)
(***************************************************************************)
LoOpenFails(c) ==
    /\ pc[c] = "opened"
    /\ old[c] \notin live
    /\ Raise(c, "error")
    /\ UNCHANGED budget

(***************************************************************************)
(* loread returns what the object held when it was opened for reading,     *)
(* whatever is unlinked later: data keeps the bytes of dead objects.       *)
(***************************************************************************)
LoRead(c) ==
    /\ pc[c] = "stream"
    /\ Len(got[c]) < Len(data[old[c]])
    /\ got' = [got EXCEPT ![c] = Append(@, data[old[c]][Len(@) + 1])]
    /\ UNCHANGED <<table, objects, txn, pc, call, old, oid, total, seen, answer, budget>>

StreamEnd(c) ==
    /\ pc[c] = "stream"
    /\ Len(got[c]) = Len(data[old[c]])
    /\ answer' = [answer EXCEPT ![c] = [kind |-> "content", size |-> 0, content |-> got[c]]]
    /\ Go(c, "reply")
    /\ UNCHANGED <<table, objects, txn, call, locals, budget>>

Open(c) ==
    /\ call[c].op = "open"
    /\ Probe(c) \/ LoOpen(c) \/ LoOpenFails(c) \/ LoRead(c) \/ StreamEnd(c)

-----------------------------------------------------------------------------
Exists(c) ==
    /\ call[c].op = "exists"
    /\ pc[c] = "query"
    /\ answer' = [answer EXCEPT ![c] =
                    Plain(IF RowsOf(call[c].name) = {} THEN "absent" ELSE "present")]
    /\ Go(c, "reply")
    /\ UNCHANGED <<table, objects, txn, call, locals, budget>>

Size(c) ==
    /\ call[c].op = "size"
    /\ pc[c] = "query"
    /\ \/ /\ RowsOf(call[c].name) = {}
          /\ answer' = [answer EXCEPT ![c] = Plain("notfound")]
       \/ \E r \in RowsOf(call[c].name) :
             answer' = [answer EXCEPT ![c] = [kind |-> "size", size |-> r.size, content |-> <<>>]]
    /\ Go(c, "reply")
    /\ UNCHANGED <<table, objects, txn, call, locals, budget>>

-----------------------------------------------------------------------------
FirstStatement(op) ==
    CASE op \in {"save", "delete"}  -> "select"
      [] op = "open"                -> "probe"
      [] op \in {"size", "exists"}  -> "query"

Call(c) ==
    /\ pc[c] = "idle"
    /\ calls < MaxCalls
    /\ calls' = calls + 1
    /\ \E k \in CallSet :
          /\ call' = [call EXCEPT ![c] = k]
          /\ Go(c, FirstStatement(k.op))
    /\ old' = [old EXCEPT ![c] = None]
    /\ oid' = [oid EXCEPT ![c] = None]
    /\ seen' = [seen EXCEPT ![c] = None]
    /\ total' = [total EXCEPT ![c] = 0]
    /\ got' = [got EXCEPT ![c] = <<>>]
    /\ answer' = [answer EXCEPT ![c] = Plain("none")]
    /\ UNCHANGED <<table, objects, txn, faults>>

(***************************************************************************)
(* putconn, and the value goes to the caller.                              *)
(***************************************************************************)
Return(c) ==
    /\ pc[c] = "reply"
    /\ Go(c, "idle")
    /\ UNCHANGED <<table, objects, txn, call, locals, answer, budget>>

\* Mutant of Fault: an exception of the content iterable passes for its end.
FaultEndsContent(c) ==
    /\ pc[c] = "write"
    /\ faults < MaxFaults
    /\ faults' = faults + 1
    /\ Go(c, "insert")
    /\ UNCHANGED <<table, objects, txn, call, locals, answer, calls>>

(***************************************************************************)
(* A fault ends the call: the content iterable raises, the task is         *)
(* cancelled, the connection breaks, the process dies, or the consumer of  *)
(* a stream closes it early.  In a transaction it means ROLLBACK, by the   *)
(* code or by the server.  In reply the server has already committed.      *)
(***************************************************************************)
Fault(c) ==
    /\ pc[c] # "idle"
    /\ faults < MaxFaults
    /\ faults' = faults + 1
    /\ Raise(c, "error")
    /\ UNCHANGED calls

Finished ==
    /\ calls = MaxCalls
    /\ \A c \in Clients : pc[c] = "idle"
    /\ UNCHANGED vars

-----------------------------------------------------------------------------
Init ==
    /\ rows = {}
    /\ live = {}
    /\ data = [o \in Oids |-> <<>>]
    /\ used = {}
    /\ unlinked = [c \in Clients |-> {}]
    /\ touched = [c \in Clients |-> FALSE]
    /\ put = [c \in Clients |-> {}]
    /\ pc = [c \in Clients |-> "idle"]
    /\ \E n \in Names : call = [c \in Clients |-> [op |-> "exists", name |-> n, content |-> <<>>]]
    /\ old = [c \in Clients |-> None]
    /\ oid = [c \in Clients |-> None]
    /\ total = [c \in Clients |-> 0]
    /\ seen = [c \in Clients |-> None]
    /\ got = [c \in Clients |-> <<>>]
    /\ answer = [c \in Clients |-> Plain("none")]
    /\ calls = 0
    /\ faults = 0

Run(c) == Save(c) \/ Delete(c) \/ Open(c) \/ Exists(c) \/ Size(c) \/ Return(c)

Next == (\E c \in Clients : Call(c) \/ Run(c) \/ Fault(c)) \/ Finished

Spec == Init /\ [][Next]_vars

(***************************************************************************)
(* The event loop, the worker threads and the server keep running what can *)
(* run, and a caller drains the content and the streams it was given.      *)
(***************************************************************************)
FairSpec == Spec /\ \A c \in Clients : WF_vars(Run(c))
-----------------------------------------------------------------------------
(* The variables have the types the code gives them.                       *)
Labels == {"idle", "select", "unlink", "delete", "deleteWait", "create", "write", "insert",
           "commit", "probe", "opened", "stream", "query", "reply"}

AnswerSet ==
    [kind : {"none", "saved", "deleted", "present", "absent", "size", "content", "notfound",
             "error"},
     size : Nat, content : Seq(Chunks)]

TypeOK ==
    /\ rows \subseteq RowSet
    /\ live \subseteq Oids
    /\ data \in [Oids -> Seq(Chunks)]
    /\ used \subseteq Oids
    /\ unlinked \in [Clients -> SUBSET Oids]
    /\ touched \in [Clients -> BOOLEAN]
    /\ put \in [Clients -> SUBSET RowSet]
    /\ pc \in [Clients -> Labels]
    /\ call \in [Clients -> CallSet]
    /\ old \in [Clients -> Oids \union {None}]
    /\ oid \in [Clients -> Oids \union {None}]
    /\ total \in [Clients -> Nat]
    /\ seen \in [Clients -> Oids \union {None}]
    /\ got \in [Clients -> Seq(Chunks)]
    /\ answer \in [Clients -> AnswerSet]
    /\ calls \in Nat
    /\ faults \in Nat

(***************************************************************************)
(* No dangling row: the large object of every committed row exists, and no *)
(* other row shares it.  save and delete keep it so with two statements    *)
(* each, lo_unlink and DELETE or lo_create and INSERT, from an oid read by *)
(* an earlier one.                                                         *)
(***************************************************************************)
RowHasObject ==
    /\ \A r \in rows : r.loid \in live
    /\ \A r, s \in rows : r.name = s.name \/ r.loid = s.loid => r = s

(***************************************************************************)
(* No torn file: what a committed row names is exactly some content that   *)
(* was saved, and size is its length, whoever overwrote it and wherever a  *)
(* save before or beside it failed.                                        *)
(***************************************************************************)
RowDescribesObject ==
    \A r \in rows : data[r.loid] \in Contents /\ r.size = Len(data[r.loid])

(***************************************************************************)
(* No deadlock among transactions: no set of clients waits for locks that  *)
(* only its members hold.  It rests on the order of the statements,        *)
(* lo_unlink before DELETE before INSERT, in save and in delete alike.     *)
(***************************************************************************)
NoWaitCycle ==
    \A S \in SUBSET Clients :
        S # {} => \E c \in S : \A d \in S : d \notin Blocked(c)

(***************************************************************************)
(* The backend implements the contract of Storage.  A save takes effect    *)
(* when it commits; a delete when it commits, or when it finds the row     *)
(* gone, which for one that waits is the instant another's commit takes    *)
(* the row away; open, when it probes; size and exists when they read.     *)
(***************************************************************************)
Effective(c) ==
    \/ pc[c] = "reply"
    \/ call[c].op = "open" /\ pc[c] \in {"opened", "stream"}
    \/ /\ call[c].op = "delete"
       /\ \/ pc[c] = "commit" /\ ~touched[c]
          \/ pc[c] = "deleteWait" /\ SeenGone(c)

PromisedAnswer(c) ==
    CASE pc[c] \in {"opened", "stream"} -> [kind |-> "content", size |-> 0, content |-> data[old[c]]]
      [] pc[c] \in {"commit", "deleteWait"} /\ Effective(c) -> Plain("deleted")
      [] OTHER -> answer[c]

Contract == INSTANCE StorageContract WITH
    Absent <- None,
    store  <- [n \in Names |-> IF RowsOf(n) = {} THEN None
                               ELSE data[(CHOOSE r \in rows : r.name = n).loid]],
    phase  <- [c \in Clients |-> CASE pc[c] = "idle"                  -> "idle"
                                   [] pc[c] # "idle" /\ Effective(c)  -> "effective"
                                   [] OTHER                           -> "pending"],
    answer <- [c \in Clients |-> PromisedAnswer(c)]

ImplementsContract == Contract!ContractSpec

(***************************************************************************)
(* Every call comes back: no statement waits for ever for a lock, and no   *)
(* failure leaves one behind.                                              *)
(***************************************************************************)
CallReturns == \A c \in Clients : pc[c] # "idle" ~> pc[c] = "idle"

-----------------------------------------------------------------------------
(* The inductive invariant behind RowHasObject, RowDescribesObject and     *)
(* NoWaitCycle.                                                            *)

(***************************************************************************)
(* Creating(c): save has an object of its own that no row names yet.       *)
(* Handles(c): the objects a transaction has unlinked or is about to.      *)
(***************************************************************************)
Creating(c) == call[c].op = "save" /\ pc[c] \in {"write", "insert", "commit"}

Handles(c) == IF pc[c] = "unlink" THEN {old[c]} ELSE unlinked[c]

\* A local variable is bound before a statement uses it.
Bound(c) ==
    /\ pc[c] \in {"unlink", "opened", "stream"} => old[c] \in used
    /\ pc[c] \in {"write", "insert"} \/ Creating(c) => oid[c] \in used

\* Only a transaction past its first change holds a lock, and only one past
\* DELETE or INSERT holds the row.
LocksHeld(c) ==
    /\ pc[c] \in {"idle", "select", "unlink", "probe", "opened", "stream", "query", "reply"}
       => unlinked[c] = {}
    /\ touched[c] => pc[c] \in {"create", "write", "insert", "commit"}

\* The row a save will commit is the only one, and names its own object.
PutIsOwn(c) ==
    /\ put[c] # {} => Creating(c) /\ pc[c] = "commit"
    /\ \A r \in put[c] : r.name = call[c].name /\ r.loid = oid[c] /\ r.size = total[c]
    /\ \A r, s \in put[c] : r = s

\* A transaction that unlinks an object also removes the row that names it.
UnlinksOwnRow(c) ==
    \A r \in rows : r.loid \in Handles(c) =>
        /\ r.name = call[c].name
        /\ pc[c] = "deleteWait" => r.rid = seen[c]
        /\ pc[c] \in {"create", "write", "insert", "commit"} => touched[c]

\* An object being written holds the chunks taken so far, none to begin with
\* and all of them once the loop is over.
WrittenSoFar(c) ==
    /\ pc[c] \in {"select", "unlink", "delete", "deleteWait", "create"} => total[c] = 0
    /\ Creating(c) =>
          /\ total[c] <= Len(call[c].content)
          /\ pc[c] # "write" => total[c] = Len(call[c].content)
          /\ Len(data[oid[c]]) = total[c]
          /\ \A i \in 1 .. total[c] : data[oid[c]][i] = call[c].content[i]

\* An object being written is known to no row and to no other transaction.
FreshObject(c) ==
    Creating(c) =>
        /\ oid[c] \notin live
        /\ \A d \in Clients : oid[c] \notin Handles(d)
        /\ \A d \in Clients : Creating(d) /\ oid[d] = oid[c] => d = c

\* Two transactions never change the row of one name at a time.
OneToucher ==
    \A c, d \in Clients :
        touched[c] /\ touched[d] /\ call[c].name = call[d].name => c = d

ClientInv(c) ==
    Bound(c) /\ LocksHeld(c) /\ PutIsOwn(c) /\ UnlinksOwnRow(c) /\ WrittenSoFar(c)

StoreInv ==
    /\ TypeOK
    /\ live \subseteq used
    /\ \A c \in Clients : ClientInv(c) /\ FreshObject(c) /\ Handles(c) \subseteq used
    /\ OneToucher
    /\ RowHasObject
    /\ RowDescribesObject

-----------------------------------------------------------------------------
(* What the repository says and the code does not keep.                    *)

(***************************************************************************)
(* save, line 561: "If the file already exists, unlink the old Large       *)
(* Object."  So when no call is in progress every committed large object   *)
(* is the content of some row.                                             *)
(***************************************************************************)
NoOrphanObject ==
    (\A c \in Clients : pc[c] = "idle") => live = {r.loid : r \in rows}

(***************************************************************************)
(* delete (README: "Idempotent"): a delete does not raise when the name    *)
(* does not exist any more.                                                *)
(***************************************************************************)
IdempotentDelete ==
    [][\A c \in Clients :
          /\ call[c].op = "delete"
          /\ RowsOf(call[c].name) = {}
          /\ pc[c] # "idle"
          /\ pc'[c] = "idle"
          => answer'[c].kind # "error"]_vars
=============================================================================
