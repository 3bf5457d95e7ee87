-------------------------- MODULE PgStoreImplements --------------------------
(***************************************************************************)
(* The PostgreSQL backend implements the contract of Storage, for any      *)
(* number of clients, names, identifiers, contents, calls and faults.  Its *)
(* statements interleave; each call takes effect at one of them, and a     *)
(* delete that waits for a row takes effect when another's COMMIT removes  *)
(* the row.                                                                *)
(***************************************************************************)
EXTENDS PgStoreProofs

-----------------------------------------------------------------------------
(* Rows and streams.  What StoreInv has to be strengthened with.           *)

\* A row's rid is its own.
RidsOwn ==
    /\ \A r \in rows : r.rid \in used
    /\ \A r, s \in rows : r.rid = s.rid => r = s

\* A DELETE that waits, waits for a row of its name.
WaitsForOwn(c) ==
    pc[c] = "deleteWait" =>
        seen[c] \in used /\ \A r \in rows : r.rid = seen[c] => r.name = call[c].name

\* The object a save has made is no row's rid yet.
RidFresh(c) ==
    Creating(c) =>
        /\ \A r \in rows : r.rid # oid[c]
        /\ \A d \in Clients : pc[d] = "deleteWait" => seen[d] # oid[c]

\* The row to be committed is new, or is the old one of its name; and there is
\* one.
PutReady(c) ==
    /\ \A r \in put[c] :
          r.rid = oid[c] \/ \E s \in rows : s.name = call[c].name /\ s.rid = r.rid
    /\ Creating(c) /\ pc[c] = "commit" => touched[c] /\ put[c] # {}

RidInv == RidsOwn /\ \A c \in Clients : WaitsForOwn(c) /\ RidFresh(c) /\ PutReady(c)

\* A stream has yielded a beginning of its object, which no save writes.
Streams(c) ==
    /\ pc[c] \in {"probe", "opened"} => got[c] = <<>>
    /\ pc[c] = "stream" =>
          /\ Len(got[c]) <= Len(data[old[c]])
          /\ \A i \in 1 .. Len(got[c]) : got[c][i] = data[old[c]][i]
    /\ pc[c] \in {"opened", "stream"} => \A d \in Clients : Creating(d) => oid[d] # old[c]

Reading == \A c \in Clients : Streams(c)

ImplInv == TypeInv /\ StoreInv /\ RidInv /\ Reading

Step(c) ==
    Call(c) \/ Save(c) \/ Delete(c) \/ Open(c) \/ Exists(c) \/ Size(c) \/ Return(c) \/ Fault(c)

Others(c) ==
    \A d \in Clients \ {c} :
        /\ pc'[d] = pc[d] /\ call'[d] = call[d] /\ answer'[d] = answer[d] /\ got'[d] = got[d]
        /\ old'[d] = old[d] /\ oid'[d] = oid[d] /\ seen'[d] = seen[d]
        /\ touched'[d] = touched[d] /\ put'[d] = put[d]

Commits(c) ==
    \/ call[c].op = "save" /\ Commit(c, [kind |-> "saved", size |-> total[c], content |-> <<>>])
    \/ call[c].op = "delete" /\ Commit(c, Plain("deleted"))

(***************************************************************************)
(* The statements of a step.                                               *)
(***************************************************************************)
LEMMA Statements ==
    ASSUME NEW c \in Clients, Step(c)
    PROVE  \/ Call(c) \/ Return(c)
           \/ pc[c] # "idle" /\ Raise(c, "error")
           \/ call[c].op \in {"save", "delete"} /\
                 \/ SaveSelect(c) /\ call[c].op = "save"
                 \/ DeleteSelect(c) /\ call[c].op = "delete"
                 \/ LoUnlink(c, "delete")
                 \/ DeleteRow(c, IF call[c].op = "save" THEN "create" ELSE "commit")
                 \/ DeleteRowBlocks(c)
                 \/ DeleteRowWakes(c, IF call[c].op = "save" THEN "create" ELSE "commit")
                 \/ Commits(c)
           \/ call[c].op = "save" /\ (LoCreate(c) \/ LoWrite(c) \/ LoClose(c) \/ InsertRow(c))
           \/ call[c].op = "open" /\ (Probe(c) \/ LoOpen(c) \/ LoRead(c) \/ StreamEnd(c))
           \/ Exists(c) \/ Size(c)
  BY DEF Step, Save, Delete, Open, Commits, Fault, LoUnlinkFails, LoOpenFails

(***************************************************************************)
(* A step of c leaves the other calls alone.                               *)
(***************************************************************************)
LEMMA OthersSame ==
    ASSUME TypeOK, NEW c \in Clients, Step(c)
    PROVE  Others(c)
  <1> USE DEF Others, Go, table, objects, txn, locals, budget, EndTxn
  <1>0. /\ pc \in [Clients -> Labels] /\ call \in [Clients -> CallSet]
        /\ old \in [Clients -> Oids \union {None}] /\ oid \in [Clients -> Oids \union {None}]
        /\ seen \in [Clients -> Oids \union {None}] /\ got \in [Clients -> Seq(Chunks)]
        /\ answer \in [Clients -> AnswerSet] /\ touched \in [Clients -> BOOLEAN]
        /\ put \in [Clients -> SUBSET RowSet]
    BY DEF TypeOK
  <1>1. CASE Call(c) \/ Return(c)
    BY <1>0, <1>1 DEF Call, Return
  <1>2. CASE Raise(c, "error")
    BY <1>0, <1>2 DEF Raise, Rollback
  <1>3. CASE SaveSelect(c) \/ DeleteSelect(c)
    BY <1>0, <1>3 DEF SaveSelect, DeleteSelect, SelectLoid
  <1>4. ASSUME NEW next, LoUnlink(c, next) \/ DeleteRow(c, next) \/ DeleteRowWakes(c, next)
        PROVE  Others(c)
    BY <1>0, <1>4 DEF LoUnlink, DeleteRow, DeleteRowWakes
  <1>5. CASE DeleteRowBlocks(c)
    BY <1>0, <1>5 DEF DeleteRowBlocks
  <1>6. ASSUME NEW reply, Commit(c, reply) PROVE Others(c)
    BY <1>0, <1>6 DEF Commit
  <1>7. CASE LoCreate(c) \/ LoWrite(c) \/ LoClose(c)
    BY <1>0, <1>7 DEF LoCreate, LoWrite, LoClose
  <1>8. CASE InsertRow(c)
    BY <1>0, <1>8 DEF InsertRow
  <1>9. CASE Probe(c)
    BY <1>0, <1>9 DEF Probe, SelectLoid
  <1>10. CASE LoOpen(c) \/ LoRead(c) \/ StreamEnd(c)
    BY <1>0, <1>10 DEF LoOpen, LoRead, StreamEnd
  <1>11. CASE Exists(c) \/ Size(c)
    BY <1>0, <1>11 DEF Exists, Size
  <1> HIDE DEF Others, Go, table, objects, txn, locals, budget, EndTxn
  <1> QED
    BY <1>1, <1>2, <1>3, <1>4, <1>5, <1>6, <1>7, <1>8, <1>9, <1>10, <1>11, Statements DEF Commits

(***************************************************************************)
(* Only COMMIT changes the tables, and only the save that makes an object  *)
(* changes its bytes.                                                      *)
(***************************************************************************)
LEMMA TablesKept ==
    ASSUME TypeOK, NEW c \in Clients, Step(c)
    PROVE  /\ Commits(c) \/ UNCHANGED <<rows, live>>
           /\ \/ UNCHANGED <<data, used>>
              \/ call[c].op = "save" /\ (LoCreate(c) \/ LoWrite(c))
  <1> USE DEF table, objects, txn, locals, budget
  <1>1. CASE Call(c) \/ Return(c) \/ Raise(c, "error")
    BY <1>1 DEF Call, Return, Raise
  <1>2. CASE SaveSelect(c) \/ DeleteSelect(c)
    BY <1>2 DEF SaveSelect, DeleteSelect
  <1>3. ASSUME NEW next, LoUnlink(c, next) \/ DeleteRow(c, next) \/ DeleteRowWakes(c, next)
        PROVE  UNCHANGED <<rows, live, data, used>>
    BY <1>3 DEF LoUnlink, DeleteRow, DeleteRowWakes
  <1>4. CASE DeleteRowBlocks(c)
    BY <1>4 DEF DeleteRowBlocks
  <1>5. CASE Commits(c)
    BY <1>5 DEF Commits, Commit
  <1>6. CASE LoClose(c) \/ InsertRow(c)
    BY <1>6 DEF LoClose, InsertRow
  <1>7. CASE call[c].op = "save" /\ (LoCreate(c) \/ LoWrite(c))
    BY <1>7 DEF LoCreate, LoWrite
  <1>8. CASE Probe(c) \/ LoOpen(c) \/ LoRead(c) \/ StreamEnd(c) \/ Exists(c) \/ Size(c)
    BY <1>8 DEF Probe, LoOpen, LoRead, StreamEnd, Exists, Size
  <1> HIDE DEF table, objects, txn, locals, budget
  <1> QED
    BY <1>1, <1>2, <1>3, <1>4, <1>5, <1>6, <1>7, <1>8, Statements

(***************************************************************************)
(* The bytes of an object do not change, once the save that makes it has   *)
(* written them.                                                           *)
(***************************************************************************)
LEMMA BytesKept ==
    ASSUME TypeInv, NEW c \in Clients, Step(c)
    PROVE  /\ used \subseteq used'
           /\ \A o \in used : ~(Creating(c) /\ o = oid[c]) => data'[o] = data[o]
  <1>0. TypeOK /\ data \in [Oids -> Seq(Chunks)] /\ used \subseteq Oids
    BY DEF TypeInv, TypeOK
  <1>1. CASE UNCHANGED <<data, used>>
    BY <1>1
  <1>2. CASE LoCreate(c)
    BY <1>0, <1>2 DEF LoCreate
  <1>3. CASE call[c].op = "save" /\ LoWrite(c)
    <2>1. /\ Creating(c) /\ used' = used
          /\ \E x : data' = [data EXCEPT ![oid[c]] = x]
      BY <1>3 DEF LoWrite, Creating
    <2> QED
      BY <1>0, <2>1
  <1> QED
    BY <1>0, <1>1, <1>2, <1>3, TablesKept

(***************************************************************************)
(* A save has an object of its own from lo_create to COMMIT.               *)
(***************************************************************************)
LEMMA CreatingKept ==
    ASSUME TypeOK, NEW c \in Clients, Step(c), NEW d \in Clients, Creating(d)'
    PROVE  \/ Creating(d) /\ oid'[d] = oid[d]
           \/ d = c /\ LoCreate(c) /\ oid'[c] \in Oids \ used
  <1>0. /\ pc \in [Clients -> Labels] /\ call \in [Clients -> CallSet]
        /\ oid \in [Clients -> Oids \union {None}] /\ Others(c)
    BY OthersSame DEF TypeOK
  <1>1. CASE d # c
    BY <1>0, <1>1 DEF Others, Creating
  <1>2. CASE d = c
    <2> USE DEF Creating, Go, table, objects, txn, locals, budget, EndTxn
    <2>0. call'[c].op = "save" /\ pc'[c] \in {"write", "insert", "commit"}
      BY <1>2
    <2>1. CASE Call(c)
      <3>1. PICK k \in CallSet : /\ call' = [call EXCEPT ![c] = k]
                                 /\ pc' = [pc EXCEPT ![c] = FirstStatement(k.op)]
        BY <2>1 DEF Call
      <3>2. FirstStatement(k.op) \in {"select", "probe", "query"}
        BY <3>1, CallFacts DEF FirstStatement
      <3> QED
        BY <1>0, <2>0, <3>1, <3>2
    <2>2. CASE Return(c) \/ Raise(c, "error")
      BY <1>0, <2>0, <2>2 DEF Return, Raise
    <2>3. CASE SaveSelect(c) \/ (DeleteSelect(c) /\ call[c].op = "delete")
      BY <1>0, <2>0, <2>3 DEF SaveSelect, DeleteSelect, SelectLoid
    <2>4. CASE LoUnlink(c, "delete") \/ DeleteRowBlocks(c)
      BY <1>0, <2>0, <2>4 DEF LoUnlink, DeleteRowBlocks
    <2>5. CASE \/ DeleteRow(c, IF call[c].op = "save" THEN "create" ELSE "commit")
               \/ DeleteRowWakes(c, IF call[c].op = "save" THEN "create" ELSE "commit")
      BY <1>0, <2>0, <2>5 DEF DeleteRow, DeleteRowWakes
    <2>6. CASE Commits(c)
      BY <1>0, <2>0, <2>6 DEF Commits, Commit
    <2>7. CASE LoCreate(c)
      BY <1>0, <1>2, <2>7 DEF LoCreate
    <2>8. CASE LoWrite(c) \/ LoClose(c) \/ InsertRow(c)
      BY <1>0, <1>2, <2>0, <2>8 DEF LoWrite, LoClose, InsertRow
    <2>9. CASE call[c].op = "open" /\ (Probe(c) \/ LoOpen(c) \/ LoRead(c) \/ StreamEnd(c))
      BY <1>0, <2>0, <2>9 DEF Probe, SelectLoid, LoOpen, LoRead, StreamEnd
    <2>10. CASE Exists(c) \/ Size(c)
      BY <1>0, <2>0, <2>10 DEF Exists, Size
    <2> HIDE DEF Creating, Go, table, objects, txn, locals, budget, EndTxn
    <2> QED
      BY <2>1, <2>2, <2>3, <2>4, <2>5, <2>6, <2>7, <2>8, <2>9, <2>10, Statements
  <1> QED
    BY <1>1, <1>2

-----------------------------------------------------------------------------
(* Row identifiers.                                                        *)

\* A step that neither waits for a row nor has one to commit.
Calm(c) ==
    /\ put'[c] = {} /\ pc'[c] # "deleteWait"
    /\ ~(Creating(c)' /\ pc'[c] = "commit")

(***************************************************************************)
(* Most steps are such.                                                    *)
(***************************************************************************)
LEMMA CalmSteps ==
    ASSUME TypeInv, StoreInv, NEW c \in Clients, Step(c)
    PROVE  Calm(c) \/ DeleteRowBlocks(c) \/ InsertRow(c) \/ Commits(c)
  <1>0. /\ pc \in [Clients -> Labels] /\ call \in [Clients -> CallSet]
        /\ put \in [Clients -> SUBSET RowSet] /\ (pc[c] # "commit" => put[c] = {})
    BY DEF TypeInv, TypeOK, StoreInv, ClientInv, PutIsOwn
  <1> USE DEF Calm, Creating, Go, table, objects, txn, locals, budget, EndTxn
  <1>1. ASSUME Call(c) PROVE Calm(c)
    <2>1. PICK k \in CallSet : /\ call' = [call EXCEPT ![c] = k]
                               /\ pc' = [pc EXCEPT ![c] = FirstStatement(k.op)]
      BY <1>1 DEF Call
    <2>2. FirstStatement(k.op) \in {"select", "probe", "query"}
      BY <2>1, CallFacts DEF FirstStatement
    <2>3. put' = put /\ pc[c] = "idle"
      BY <1>1 DEF Call
    <2> QED
      BY <1>0, <2>1, <2>2, <2>3
  <1>2. ASSUME Return(c) PROVE Calm(c)
    BY <1>0, <1>2 DEF Return
  <1>3. ASSUME Raise(c, "error") PROVE Calm(c)
    BY <1>0, <1>3 DEF Raise, Rollback
  <1>4. ASSUME \/ SaveSelect(c)
               \/ DeleteSelect(c) /\ call[c].op = "delete"
        PROVE  Calm(c)
    BY <1>0, <1>4 DEF SaveSelect, DeleteSelect, SelectLoid
  <1>5. ASSUME LoUnlink(c, "delete") PROVE Calm(c)
    BY <1>0, <1>5 DEF LoUnlink
  <1>6. ASSUME \/ DeleteRow(c, IF call[c].op = "save" THEN "create" ELSE "commit")
               \/ DeleteRowWakes(c, IF call[c].op = "save" THEN "create" ELSE "commit")
        PROVE  Calm(c)
    BY <1>0, <1>6 DEF DeleteRow, DeleteRowWakes
  <1>7. ASSUME LoCreate(c) \/ LoWrite(c) \/ LoClose(c) PROVE Calm(c)
    BY <1>0, <1>7 DEF LoCreate, LoWrite, LoClose
  <1>8. ASSUME call[c].op = "open", Probe(c) \/ LoOpen(c) \/ LoRead(c) \/ StreamEnd(c)
        PROVE  Calm(c)
    BY <1>0, <1>8 DEF Probe, SelectLoid, LoOpen, LoRead, StreamEnd
  <1>9. ASSUME Exists(c) \/ Size(c) PROVE Calm(c)
    BY <1>0, <1>9 DEF Exists, Size
  <1> HIDE DEF Calm, Creating, Go, table, objects, txn, locals, budget, EndTxn
  <1> QED
    BY <1>1, <1>2, <1>3, <1>4, <1>5, <1>6, <1>7, <1>8, <1>9, Statements

(***************************************************************************)
(* A step that leaves the tables alone keeps RidInv, if the call waits for *)
(* a row of its name and has a row to commit where it has to.              *)
(***************************************************************************)
LEMMA RidLocal ==
    ASSUME TypeInv, StoreInv, RidInv, NEW c \in Clients, Step(c), UNCHANGED rows,
           WaitsForOwn(c)', PutReady(c)',
           pc'[c] = "deleteWait" => \E r \in rows : seen'[c] = r.rid
    PROVE  RidInv'
  <1>0. TypeOK /\ Others(c) /\ used \subseteq used'
    BY OthersSame, BytesKept DEF TypeInv
  <1>1. RidsOwn'
    BY <1>0 DEF RidInv, RidsOwn
  <1>2. ASSUME NEW d \in Clients PROVE WaitsForOwn(d)' /\ PutReady(d)'
    <2>1. CASE d # c
      <3>1. WaitsForOwn(d) /\ PutReady(d)
        BY DEF RidInv
      <3>2. Creating(d)' <=> Creating(d)
        BY <1>0, <2>1 DEF Others, Creating
      <3> QED
        BY <1>0, <2>1, <3>1, <3>2 DEF Others, WaitsForOwn, PutReady
    <2> QED
      BY <2>1
  <1>3. ASSUME NEW d \in Clients PROVE RidFresh(d)'
    <2> SUFFICES ASSUME Creating(d)'
                 PROVE  /\ \A r \in rows : r.rid # oid'[d]
                        /\ \A e \in Clients : pc'[e] = "deleteWait" => seen'[e] # oid'[d]
      BY DEF RidFresh
    <2>1. \A r \in rows : r.rid # oid'[d]
      <3>1. CASE Creating(d) /\ oid'[d] = oid[d]
        BY <3>1 DEF RidInv, RidFresh
      <3>2. CASE oid'[d] \notin used
        BY <3>2 DEF RidInv, RidsOwn
      <3> QED
        BY <1>0, <3>1, <3>2, CreatingKept
    <2>2. ASSUME NEW e \in Clients, pc'[e] = "deleteWait" PROVE seen'[e] # oid'[d]
      <3>1. CASE e = c
        BY <2>1, <2>2, <3>1
      <3>2. CASE e # c
        <4>1. pc[e] = "deleteWait" /\ seen'[e] = seen[e]
          BY <1>0, <2>2, <3>2 DEF Others
        <4>2. seen[e] \in used
          BY <4>1 DEF RidInv, WaitsForOwn
        <4>3. CASE Creating(d) /\ oid'[d] = oid[d]
          BY <4>1, <4>3 DEF RidInv, RidFresh
        <4>4. CASE oid'[d] \notin used
          BY <4>1, <4>2, <4>4
        <4> QED
          BY <1>0, <4>3, <4>4, CreatingKept
      <3> QED
        BY <3>1, <3>2
    <2> QED
      BY <2>1, <2>2
  <1> QED
    BY <1>1, <1>2, <1>3 DEF RidInv

(***************************************************************************)
(* The rows after a COMMIT: those of the name are replaced by what was     *)
(* put, which takes over the identifier of an old one or has a new one.    *)
(***************************************************************************)
LEMMA CommitRows ==
    ASSUME TypeInv, StoreInv, RidInv, NEW c \in Clients, Commits(c)
    PROVE  /\ rows' = IF touched[c] THEN (rows \ RowsOf(call[c].name)) \union put[c] ELSE rows
           /\ \A r, s \in put[c] : r = s
           /\ \A r \in put[c] :
                 /\ r.name = call[c].name /\ r.loid = oid[c] /\ touched[c] /\ Creating(c)
                 /\ \/ r.rid = oid[c]
                    \/ \E s \in rows : s.name = call[c].name /\ s.rid = r.rid
           /\ pc[c] = "commit" /\ pc'[c] = "reply" /\ put'[c] = {}
           /\ UNCHANGED <<used, data, call, oid, old, seen, got>>
  <1>1. /\ pc[c] = "commit" /\ UNCHANGED <<used, data, call, oid, old, seen, got>>
        /\ pc' = [pc EXCEPT ![c] = "reply"] /\ put' = [put EXCEPT ![c] = {}]
        /\ rows' = IF touched[c] THEN (rows \ RowsOf(call[c].name)) \union put[c] ELSE rows
    BY DEF Commits, Commit, Go, EndTxn, objects, locals
  <1>2. PutIsOwn(c) /\ PutReady(c)
    BY DEF StoreInv, ClientInv, RidInv
  <1>3. pc'[c] = "reply" /\ put'[c] = {}
    BY <1>1 DEF TypeInv, TypeOK
  <1> QED
    BY <1>1, <1>2, <1>3 DEF PutIsOwn, PutReady

(***************************************************************************)
(* COMMIT keeps RidInv.                                                    *)
(***************************************************************************)
LEMMA RidCommit ==
    ASSUME TypeInv, StoreInv, RidInv, NEW c \in Clients, Step(c), Commits(c)
    PROVE  RidInv'
  <1>0. TypeOK /\ Others(c)
    BY OthersSame DEF TypeInv
  <1>1. /\ rows' = IF touched[c] THEN (rows \ RowsOf(call[c].name)) \union put[c] ELSE rows
        /\ \A r, s \in put[c] : r = s
        /\ \A r \in put[c] :
              /\ r.name = call[c].name /\ touched[c] /\ Creating(c)
              /\ \/ r.rid = oid[c]
                 \/ \E s \in rows : s.name = call[c].name /\ s.rid = r.rid
        /\ pc[c] = "commit" /\ pc'[c] = "reply" /\ put'[c] = {}
        /\ UNCHANGED <<used, call, oid, seen>>
    BY CommitRows
  <1>2. \A r \in rows' : \/ r \in rows /\ (touched[c] => r.name # call[c].name)
                         \/ r \in put[c]
    BY <1>1 DEF RowsOf
  <1>3. Creating(c) => oid[c] \in used
    BY DEF StoreInv, ClientInv, Bound
  <1>4. RidsOwn'
    <2>1. \A r \in rows' : r.rid \in used'
      BY <1>1, <1>2, <1>3 DEF RidInv, RidsOwn
    <2>2. ASSUME NEW r \in rows, NEW s \in put[c], r.rid = s.rid PROVE r.name = call[c].name
      <3>1. r.rid # oid[c]
        BY <1>1, <2>2 DEF RidInv, RidFresh
      <3>2. PICK q \in rows : q.name = call[c].name /\ q.rid = s.rid
        BY <1>1, <2>2, <3>1
      <3> QED
        BY <2>2, <3>2 DEF RidInv, RidsOwn
    <2>3. ASSUME NEW r \in rows', NEW s \in rows', r.rid = s.rid PROVE r = s
      BY <1>1, <1>2, <2>2, <2>3 DEF RidInv, RidsOwn
    <2> QED
      BY <2>1, <2>3 DEF RidsOwn
  <1>5. ASSUME NEW d \in Clients PROVE WaitsForOwn(d)'
    <2> SUFFICES ASSUME pc'[d] = "deleteWait"
                 PROVE  seen'[d] \in used' /\ \A r \in rows' : r.rid = seen'[d] => r.name = call'[d].name
      BY DEF WaitsForOwn
    <2>1. d # c /\ pc[d] = "deleteWait" /\ WaitsForOwn(d)
      BY <1>0, <1>1 DEF Others, RidInv
    <2>2. ASSUME NEW r \in put[c], r.rid = seen[d] PROVE r.name = call[d].name
      <3>1. r.rid # oid[c]
        BY <1>1, <2>1, <2>2 DEF RidInv, RidFresh
      <3>2. PICK q \in rows : q.name = call[c].name /\ q.rid = r.rid
        BY <1>1, <3>1
      <3> QED
        BY <1>1, <2>1, <2>2, <3>2 DEF WaitsForOwn
    <2> QED
      BY <1>1, <1>2, <2>1, <2>2 DEF WaitsForOwn
  <1>6. ASSUME NEW d \in Clients PROVE RidFresh(d)'
    <2> SUFFICES ASSUME Creating(d)'
                 PROVE  /\ \A r \in rows' : r.rid # oid'[d]
                        /\ \A e \in Clients : pc'[e] = "deleteWait" => seen'[e] # oid'[d]
      BY DEF RidFresh
    <2>1. d # c /\ Creating(d) /\ RidFresh(d)
      BY <1>0, <1>1 DEF Others, Creating, RidInv
    <2>2. \A r \in put[c] : r.rid # oid[d]
      <3>1. Creating(c) => oid[c] # oid[d]
        BY <2>1 DEF StoreInv, FreshObject
      <3> QED
        BY <1>1, <2>1, <3>1 DEF RidFresh
    <2>3. \A e \in Clients : pc'[e] = "deleteWait" => pc[e] = "deleteWait"
      BY <1>0, <1>1 DEF Others
    <2> QED
      BY <1>1, <1>2, <2>1, <2>2, <2>3 DEF RidFresh
  <1>7. ASSUME NEW d \in Clients PROVE PutReady(d)'
    <2>1. CASE d = c
      BY <1>1, <2>1 DEF PutReady
    <2>2. CASE d # c
      <3>1. PutReady(d) /\ PutIsOwn(d) /\ (Creating(d)' <=> Creating(d))
        BY <1>0, <2>2 DEF Others, Creating, RidInv, StoreInv, ClientInv
      <3>2. put'[d] = put[d] /\ touched'[d] = touched[d] /\ pc'[d] = pc[d]
        BY <1>0, <2>2 DEF Others
      <3>3. ASSUME NEW r \in put[d], NEW s \in rows, s.name = call[d].name PROVE s \in rows'
        <4>1. Creating(d) /\ pc[d] = "commit"
          BY <3>1, <3>3 DEF PutIsOwn
        <4>2. touched[d]
          BY <3>1, <4>1 DEF PutReady
        <4>3. touched[c] => s.name # call[c].name
          BY <2>2, <3>3, <4>2 DEF StoreInv, OneToucher
        <4> QED
          BY <1>1, <4>3 DEF RowsOf
      <3> QED
        BY <1>1, <3>1, <3>2, <3>3 DEF PutReady
    <2> QED
      BY <2>1, <2>2
  <1> QED
    BY <1>4, <1>5, <1>6, <1>7 DEF RidInv

(***************************************************************************)
(* Every step keeps RidInv.                                                *)
(***************************************************************************)
LEMMA RidStep ==
    ASSUME TypeInv, StoreInv, RidInv, NEW c \in Clients, Step(c)
    PROVE  RidInv'
  <1>0. TypeOK /\ pc \in [Clients -> Labels] /\ seen \in [Clients -> Oids \union {None}]
        /\ call \in [Clients -> CallSet]
    BY DEF TypeInv, TypeOK
  <1>1. CASE Commits(c)
    BY <1>1, RidCommit
  <1>2. CASE ~Commits(c) /\ Calm(c)
    <2>1. UNCHANGED rows
      BY <1>0, <1>2, TablesKept
    <2>2. WaitsForOwn(c)' /\ PutReady(c)'
      BY <1>2 DEF Calm, WaitsForOwn, PutReady
    <2> QED
      BY <1>2, <2>1, <2>2, RidLocal DEF Calm
  <1>3. CASE ~Commits(c) /\ DeleteRowBlocks(c)
    <2>1. PICK r \in rows : r.name = call[c].name /\ seen' = [seen EXCEPT ![c] = r.rid]
      BY <1>3 DEF DeleteRowBlocks, RowsOf
    <2>2. /\ pc[c] = "delete" /\ pc'[c] = "deleteWait" /\ UNCHANGED <<rows, used, put, call>>
      BY <1>0, <1>3 DEF DeleteRowBlocks, Go, table, objects, txn
    <2>3. put[c] = {} /\ seen'[c] = r.rid
      BY <1>0, <2>1, <2>2 DEF StoreInv, ClientInv, PutIsOwn
    <2>4. WaitsForOwn(c)'
      BY <2>1, <2>2, <2>3 DEF WaitsForOwn, RidInv, RidsOwn
    <2>5. PutReady(c)'
      BY <2>2, <2>3 DEF PutReady
    <2> QED
      BY <2>1, <2>2, <2>3, <2>4, <2>5, RidLocal
  <1>4. CASE ~Commits(c) /\ InsertRow(c)
    <2> DEFINE new == [name |-> call[c].name, rid |-> oid[c], loid |-> oid[c], size |-> total[c]]
               conflicting == IF touched[c] THEN {} ELSE RowsOf(call[c].name)
               updated == {[new EXCEPT !.rid = r.rid] : r \in conflicting}
    <2>1. /\ pc'[c] = "commit" /\ UNCHANGED <<rows, call, oid>> /\ touched'[c]
          /\ put'[c] = IF conflicting = {} THEN {new} ELSE updated
      BY <1>0, <1>4 DEF InsertRow, Go, table, locals, TypeOK
    <2>2. \A x \in updated : \E s \in rows : s.name = call[c].name /\ s.rid = x.rid
      BY DEF RowsOf
    <2>3. \A x \in put'[c] : x.rid = oid[c] \/ \E s \in rows : s.name = call[c].name /\ s.rid = x.rid
      BY <2>1, <2>2
    <2>4. put'[c] # {}
      BY <2>1
    <2>5. WaitsForOwn(c)' /\ PutReady(c)'
      BY <2>1, <2>3, <2>4 DEF WaitsForOwn, PutReady
    <2> QED
      BY <2>1, <2>5, RidLocal
  <1> QED
    BY <1>1, <1>2, <1>3, <1>4, CalmSteps

-----------------------------------------------------------------------------
(* Streams.                                                                *)

(***************************************************************************)
(* A stream keeps its place while another client takes a step.             *)
(***************************************************************************)
LEMMA StreamElsewhere ==
    ASSUME TypeInv, StoreInv, Reading, NEW c \in Clients, Step(c), NEW d \in Clients, d # c
    PROVE  Streams(d)'
  <1>0. TypeOK /\ pc'[d] = pc[d] /\ got'[d] = got[d] /\ old'[d] = old[d] /\ Streams(d)
    BY OthersSame DEF TypeInv, Others, Reading
  <1>1. pc[d] \in {"opened", "stream"} => old[d] \in used
    BY DEF StoreInv, ClientInv, Bound
  <1>2. pc[d] = "stream" => data'[old[d]] = data[old[d]]
    BY <1>0, <1>1, BytesKept DEF Streams
  <1>3. ASSUME NEW e \in Clients, Creating(e)', pc[d] \in {"opened", "stream"}
        PROVE  oid'[e] # old[d]
    <2>1. CASE Creating(e) /\ oid'[e] = oid[e]
      BY <1>0, <1>3, <2>1 DEF Streams
    <2>2. CASE e = c /\ oid'[c] \in Oids \ used
      BY <1>1, <1>3, <2>2
    <2> QED
      BY <1>0, <1>3, <2>1, <2>2, CreatingKept
  <1> QED
    BY <1>0, <1>2, <1>3 DEF Streams

\* The statement that runs is one of the stream's.
Streaming(c) == call[c].op = "open" /\ (Probe(c) \/ LoOpen(c) \/ LoRead(c))

(***************************************************************************)
(* After every other statement the client is not within a stream, and has  *)
(* taken nothing if it is to probe.                                        *)
(***************************************************************************)
LEMMA StreamsOnly ==
    ASSUME TypeInv, NEW c \in Clients, Step(c)
    PROVE  \/ Streaming(c)
           \/ pc'[c] \notin {"probe", "opened", "stream"}
           \/ pc'[c] = "probe" /\ got'[c] = <<>>
  <1>0. /\ pc \in [Clients -> Labels] /\ call \in [Clients -> CallSet]
        /\ got \in [Clients -> Seq(Chunks)]
    BY DEF TypeInv, TypeOK
  <1> DEFINE Away == pc'[c] \notin {"probe", "opened", "stream"}
  <1> USE DEF Go
  <1>1. ASSUME Call(c) PROVE Away \/ (pc'[c] = "probe" /\ got'[c] = <<>>)
    <2>1. PICK k \in CallSet : pc' = [pc EXCEPT ![c] = FirstStatement(k.op)]
      BY <1>1 DEF Call
    <2>2. FirstStatement(k.op) \in {"select", "probe", "query"}
      BY <2>1, CallFacts DEF FirstStatement
    <2>3. got' = [got EXCEPT ![c] = <<>>]
      BY <1>1 DEF Call
    <2> QED
      BY <1>0, <2>1, <2>2, <2>3
  <1>2. ASSUME Return(c) \/ Raise(c, "error") PROVE Away
    BY <1>0, <1>2 DEF Return, Raise
  <1>3. ASSUME SaveSelect(c) \/ DeleteSelect(c) PROVE Away
    BY <1>0, <1>3 DEF SaveSelect, DeleteSelect, SelectLoid
  <1>4. ASSUME NEW next \in {"create", "delete", "commit"},
               LoUnlink(c, next) \/ DeleteRow(c, next) \/ DeleteRowWakes(c, next)
        PROVE  Away
    BY <1>0, <1>4 DEF LoUnlink, DeleteRow, DeleteRowWakes
  <1>5. ASSUME DeleteRowBlocks(c) \/ LoCreate(c) \/ LoClose(c) \/ InsertRow(c) PROVE Away
    BY <1>0, <1>5 DEF DeleteRowBlocks, LoCreate, LoClose, InsertRow
  <1>6. ASSUME LoWrite(c) PROVE Away
    BY <1>0, <1>6 DEF LoWrite
  <1>7. ASSUME Commits(c) PROVE Away
    BY <1>0, <1>7 DEF Commits, Commit
  <1>8. ASSUME StreamEnd(c) \/ Exists(c) \/ Size(c) PROVE Away
    BY <1>0, <1>8 DEF StreamEnd, Exists, Size
  <1>9. (IF call[c].op = "save" THEN "create" ELSE "commit") \in {"create", "delete", "commit"}
    OBVIOUS
  <1> HIDE DEF Go, Away
  <1>10. Away \/ Streaming(c) \/ (pc'[c] = "probe" /\ got'[c] = <<>>)
    BY <1>1, <1>2, <1>3, <1>4, <1>5, <1>6, <1>7, <1>8, <1>9, Statements DEF Streaming
  <1> QED
    BY <1>10 DEF Away

(***************************************************************************)
(* A stream begins at an object that no save writes, and yields its chunks *)
(* in their order.                                                         *)
(***************************************************************************)
LEMMA StreamOwn ==
    ASSUME TypeInv, StoreInv, Reading, NEW c \in Clients, Step(c), Streaming(c)
    PROVE  Streams(c)'
  <1>0. /\ TypeOK /\ pc \in [Clients -> Labels] /\ old \in [Clients -> Oids \union {None}]
        /\ got \in [Clients -> Seq(Chunks)] /\ data \in [Oids -> Seq(Chunks)]
        /\ call[c].op = "open" /\ Streams(c)
    BY DEF TypeInv, TypeOK, Reading, Streaming
  <1> USE DEF Go, table, objects, txn, locals, budget
  <1>1. \A d \in Clients : Creating(d)' => Creating(d) /\ oid'[d] = oid[d]
    <2>1. UNCHANGED oid
      BY DEF Streaming, Probe, LoOpen, LoRead
    <2>2. ~LoCreate(c)
      BY DEF Streaming, Probe, SelectLoid, LoOpen, LoRead, LoCreate
    <2> QED
      BY <1>0, <2>1, <2>2, CreatingKept
  <1>2. CASE Probe(c)
    <2>1. UNCHANGED <<got, data>> /\ got[c] = <<>> /\ pc'[c] \in {"opened", "reply"}
      BY <1>0, <1>2 DEF Probe, SelectLoid, Streams
    <2>2. ASSUME pc'[c] = "opened", NEW d \in Clients, Creating(d)' PROVE oid'[d] # old'[c]
      <3>1. PICK r \in rows : old'[c] = r.loid
        BY <1>0, <1>2, <2>2 DEF Probe, SelectLoid, RowsOf
      <3>2. r.loid \in live
        BY DEF StoreInv, RowHasObject
      <3> QED
        BY <1>1, <2>2, <3>1, <3>2 DEF StoreInv, FreshObject
    <2> QED
      BY <2>1, <2>2 DEF Streams
  <1>3. CASE LoOpen(c)
    <2>1. UNCHANGED <<got, data, old>> /\ got[c] = <<>> /\ pc[c] = "opened" /\ pc'[c] = "stream"
      BY <1>0, <1>3 DEF LoOpen, Streams
    <2>2. old[c] \in Oids
      BY <2>1 DEF TypeInv
    <2>3. Len(got[c]) = 0 /\ Len(data[old[c]]) \in Nat
      BY <1>0, <2>1, <2>2
    <2>4. /\ Len(got'[c]) <= Len(data'[old'[c]])
          /\ \A i \in 1 .. Len(got'[c]) : got'[c][i] = data'[old'[c]][i]
      <3>1. Len(got'[c]) = 0 /\ Len(data'[old'[c]]) \in Nat
        BY <2>1, <2>3
      <3> QED
        BY <3>1
    <2>5. \A d \in Clients : Creating(d)' => oid'[d] # old'[c]
      BY <1>0, <1>1, <2>1 DEF Streams
    <2> QED
      BY <2>1, <2>4, <2>5 DEF Streams
  <1>4. CASE LoRead(c)
    <2> DEFINE g == got[c]
               s == data[old[c]]
    <2>1. /\ UNCHANGED <<pc, data, old>> /\ pc[c] = "stream" /\ Len(g) < Len(s)
          /\ got'[c] = Append(g, s[Len(g) + 1])
      BY <1>0, <1>4 DEF LoRead
    <2>2. old[c] \in Oids
      BY <2>1 DEF TypeInv
    <2>3. g \in Seq(Chunks) /\ s \in Seq(Chunks)
      BY <1>0, <2>2
    <2>4. s[Len(g) + 1] \in Chunks /\ Len(g) \in Nat /\ Len(s) \in Nat
      BY <2>1, <2>3, ElementOfSeq
    <2>5. /\ Len(got'[c]) = Len(g) + 1
          /\ \A i \in 1 .. Len(g) : got'[c][i] = g[i]
          /\ got'[c][Len(g) + 1] = s[Len(g) + 1]
      BY <2>1, <2>3, <2>4, AppendProperties
    <2>6. \A i \in 1 .. Len(g) : g[i] = s[i]
      BY <1>0, <2>1 DEF Streams
    <2>7. \A i \in 1 .. Len(got'[c]) : got'[c][i] = s[i]
      BY <2>4, <2>5, <2>6
    <2>8. Len(got'[c]) <= Len(s)
      BY <2>1, <2>4, <2>5
    <2> QED
      BY <1>0, <1>1, <2>1, <2>7, <2>8 DEF Streams
  <1> QED
    BY <1>2, <1>3, <1>4 DEF Streaming

(***************************************************************************)
(* Every step keeps Reading.                                               *)
(***************************************************************************)
LEMMA ReadingStep ==
    ASSUME TypeInv, StoreInv, Reading, NEW c \in Clients, Step(c)
    PROVE  Reading'
  <1>1. Streams(c)'
    <2>1. CASE Streaming(c)
      BY <2>1, StreamOwn
    <2>2. CASE pc'[c] \notin {"probe", "opened", "stream"} \/ (pc'[c] = "probe" /\ got'[c] = <<>>)
      BY <2>2 DEF Streams
    <2> QED
      BY <2>1, <2>2, StreamsOnly
  <1> QED
    BY <1>1, StreamElsewhere DEF Reading

(***************************************************************************)
(* ImplInv holds at first, with no row and no call.                        *)
(***************************************************************************)
LEMMA InvInit == Init => ImplInv
  <1> SUFFICES ASSUME Init PROVE ImplInv
    OBVIOUS
  <1>1. TypeInv /\ StoreInv
    BY TypeInit, StoreInit
  <1>2. RidInv
    BY DEF Init, RidInv, RidsOwn, WaitsForOwn, RidFresh, PutReady, Creating
  <1>3. Reading
    BY DEF Init, Reading, Streams
  <1> QED
    BY <1>1, <1>2, <1>3 DEF ImplInv

(***************************************************************************)
(* Every step keeps ImplInv.                                               *)
(***************************************************************************)
LEMMA InvNext == ImplInv /\ [Next]_vars => ImplInv'
  <1> SUFFICES ASSUME ImplInv, [Next]_vars PROVE ImplInv'
    OBVIOUS
  <1>1. TypeInv /\ StoreInv /\ RidInv /\ Reading
    BY DEF ImplInv
  <1>2. TypeInv' /\ StoreInv'
    BY <1>1, TypeNext, StoreStep
  <1>3. CASE UNCHANGED vars
    <2>1. /\ UNCHANGED <<rows, data, used, touched, put, pc, call, old, oid, seen, got>>
      BY <1>3 DEF vars, table, objects, txn, locals
    <2>2. \A c \in Clients : Creating(c)' <=> Creating(c)
      BY <2>1 DEF Creating
    <2>3. RidInv'
      BY <1>1, <2>1, <2>2 DEF RidInv, RidsOwn, WaitsForOwn, RidFresh, PutReady
    <2>4. Reading'
      BY <1>1, <2>1, <2>2 DEF Reading, Streams
    <2> QED
      BY <1>2, <2>3, <2>4 DEF ImplInv
  <1>4. ASSUME NEW c \in Clients, Step(c) PROVE ImplInv'
    BY <1>1, <1>2, <1>4, RidStep, ReadingStep DEF ImplInv
  <1> QED
    BY <1>3, <1>4 DEF Next, Run, Step, Finished

-----------------------------------------------------------------------------
(* The refinement mapping: what a name holds, and how far a call is.       *)

Held(n) == IF RowsOf(n) = {} THEN None ELSE data[(CHOOSE r \in rows : r.name = n).loid]

Phase(c) ==
    CASE pc[c] = "idle"                 -> "idle"
      [] pc[c] # "idle" /\ Effective(c) -> "effective"
      [] OTHER                          -> "pending"

\* The contract sees nothing of the other calls change.
Elsewhere(c) ==
    \A d \in Clients : d # c => Phase(d)' = Phase(d) /\ PromisedAnswer(d)' = PromisedAnswer(d)

HeldSame == \A n \in Names : Held(n)' = Held(n)

(***************************************************************************)
(* The row of a name, where there is one.                                  *)
(***************************************************************************)
LEMMA TheRow ==
    ASSUME NEW R, NEW r \in R, \A s \in R : s.name = r.name => s = r
    PROVE  (CHOOSE s \in R : s.name = r.name) = r
  OBVIOUS

(***************************************************************************)
(* A name holds the object that its row names, a content that was saved.   *)
(***************************************************************************)
LEMMA HeldRow ==
    ASSUME StoreInv, NEW r \in rows
    PROVE  /\ Held(r.name) = data[r.loid] /\ r.size = Len(data[r.loid])
           /\ data[r.loid] \in Contents /\ data[r.loid] # None
  <1>1. (CHOOSE s \in rows : s.name = r.name) = r
    BY TheRow DEF StoreInv, RowHasObject
  <1>2. RowsOf(r.name) # {}
    BY DEF RowsOf
  <1> QED
    BY <1>1, <1>2, PgAssumption DEF Held, StoreInv, RowDescribesObject

(***************************************************************************)
(* The bytes of a row's object and of an object that is streamed stay as   *)
(* they are, whatever is written beside them.                              *)
(***************************************************************************)
LEMMA ReadBytesKept ==
    ASSUME ImplInv, NEW c \in Clients, Step(c)
    PROVE  /\ \A r \in rows : data'[r.loid] = data[r.loid]
           /\ \A d \in Clients : pc[d] \in {"opened", "stream"} => data'[old[d]] = data[old[d]]
  <1>1. TypeInv /\ StoreInv /\ Reading
    BY DEF ImplInv
  <1>2. ASSUME NEW r \in rows PROVE data'[r.loid] = data[r.loid]
    <2>1. r.loid \in live /\ r.loid \in used
      BY <1>1 DEF StoreInv, RowHasObject
    <2>2. ~(Creating(c) /\ r.loid = oid[c])
      BY <1>1, <2>1 DEF StoreInv, FreshObject
    <2> QED
      BY <1>1, <2>1, <2>2, BytesKept
  <1>3. ASSUME NEW d \in Clients, pc[d] \in {"opened", "stream"} PROVE data'[old[d]] = data[old[d]]
    <2>1. old[d] \in used
      BY <1>1, <1>3 DEF StoreInv, ClientInv, Bound
    <2>2. ~(Creating(c) /\ old[d] = oid[c])
      BY <1>1, <1>3 DEF Reading, Streams
    <2> QED
      BY <1>1, <2>1, <2>2, BytesKept
  <1> QED
    BY <1>2, <1>3

(***************************************************************************)
(* A step that leaves the table alone shows the contract nothing of the    *)
(* names nor of the other calls.                                           *)
(***************************************************************************)
LEMMA QuietStep ==
    ASSUME ImplInv, NEW c \in Clients, Step(c), UNCHANGED rows
    PROVE  Elsewhere(c) /\ HeldSame
  <1>1. TypeInv /\ TypeOK
    BY DEF ImplInv, TypeInv
  <1>2. ASSUME NEW d \in Clients, d # c
        PROVE  Phase(d)' = Phase(d) /\ PromisedAnswer(d)' = PromisedAnswer(d)
    <2>1. /\ pc'[d] = pc[d] /\ call'[d] = call[d] /\ answer'[d] = answer[d]
          /\ old'[d] = old[d] /\ touched'[d] = touched[d] /\ seen'[d] = seen[d]
      BY <1>1, <1>2, OthersSame DEF Others
    <2>2. SeenGone(d)' <=> SeenGone(d)
      BY <2>1 DEF SeenGone
    <2>3. Effective(d)' <=> Effective(d)
      BY <2>1, <2>2 DEF Effective
    <2>4. pc[d] \in {"opened", "stream"} => data'[old'[d]] = data[old[d]]
      BY <2>1, ReadBytesKept
    <2>5. Phase(d)' = Phase(d)
      BY <2>1, <2>3 DEF Phase
    <2>6. PromisedAnswer(d)' = PromisedAnswer(d)
      <3>1. CASE pc[d] \in {"opened", "stream"}
        BY <2>1, <2>4, <3>1 DEF PromisedAnswer
      <3>2. CASE pc[d] \notin {"opened", "stream"}
        BY <2>1, <2>3, <3>2 DEF PromisedAnswer
      <3> QED
        BY <3>1, <3>2
    <2> QED
      BY <2>5, <2>6
  <1>3. ASSUME NEW n \in Names PROVE Held(n)' = Held(n)
    <2>1. CASE RowsOf(n) = {}
      BY <2>1 DEF Held, RowsOf
    <2>2. CASE RowsOf(n) # {}
      <3> DEFINE r == CHOOSE s \in rows : s.name = n
      <3>1. r \in rows
        BY <2>2 DEF RowsOf
      <3>2. data'[r.loid] = data[r.loid]
        BY <3>1, ReadBytesKept
      <3> QED
        BY <3>2 DEF Held, RowsOf
    <2> QED
      BY <2>1, <2>2
  <1> QED
    BY <1>2, <1>3 DEF Elsewhere, HeldSame

-----------------------------------------------------------------------------
(* The forms that a step takes under the refinement mapping.               *)

(***************************************************************************)
(* Nothing that the contract speaks of changes.                            *)
(***************************************************************************)
LEMMA FormStutter ==
    ASSUME NEW c \in Clients, Elsewhere(c), HeldSame, UNCHANGED call,
           Phase(c)' = Phase(c), PromisedAnswer(c)' = PromisedAnswer(c)
    PROVE  UNCHANGED Contract!contractVars
  <1>1. [n \in Names |-> Held(n)]' = [n \in Names |-> Held(n)]
    BY DEF HeldSame
  <1>2. [d \in Clients |-> PromisedAnswer(d)]' = [d \in Clients |-> PromisedAnswer(d)]
    BY DEF Elsewhere
  <1>3. [d \in Clients |-> Phase(d)]' = [d \in Clients |-> Phase(d)]
    BY DEF Elsewhere
  <1> QED
    BY <1>1, <1>2, <1>3 DEF Contract!contractVars, Phase, Held

(***************************************************************************)
(* A client calls.                                                         *)
(***************************************************************************)
LEMMA FormInvoke ==
    ASSUME NEW c \in Clients, Elsewhere(c), HeldSame, Phase(c) = "idle", Phase(c)' = "pending",
           PromisedAnswer(c)' = Plain("none"),
           NEW k \in CallSet, call' = [call EXCEPT ![c] = k]
    PROVE  Contract!Invoke(c)
  <1>1. [n \in Names |-> Held(n)]' = [n \in Names |-> Held(n)]
    BY DEF HeldSame
  <1>2. \E x \in Contract!Calls : call' = [call EXCEPT ![c] = x]
    BY DEF Contract!Calls, CallSet
  <1>3. [d \in Clients |-> PromisedAnswer(d)]'
           = [[d \in Clients |-> PromisedAnswer(d)] EXCEPT ![c] = Plain("none")]
    BY DEF Elsewhere
  <1>4. [d \in Clients |-> Phase(d)]' = [[d \in Clients |-> Phase(d)] EXCEPT ![c] = "pending"]
    BY DEF Elsewhere
  <1>5. [d \in Clients |-> Phase(d)][c] = "idle"
    OBVIOUS
  <1> QED
    BY <1>1, <1>2, <1>3, <1>4, <1>5 DEF Contract!Invoke, Contract!Plain, Plain, Phase, Held

(***************************************************************************)
(* The call of a client takes effect, and so do those deletes of the name  *)
(* that it overtakes.                                                      *)
(***************************************************************************)
LEMMA FormEffect ==
    ASSUME NEW c \in Clients, NEW D \in SUBSET Clients, call[c].name \in Names, UNCHANGED call,
           D # {} => call[c].op \in {"save", "delete"},
           \A d \in D : /\ d # c /\ Phase(d) = "pending" /\ Phase(d)' = "effective"
                        /\ call[d].op = "delete" /\ call[d].name = call[c].name
                        /\ PromisedAnswer(d)' = Plain("deleted"),
           \A d \in Clients : d # c /\ d \notin D =>
              Phase(d)' = Phase(d) /\ PromisedAnswer(d)' = PromisedAnswer(d),
           Phase(c) = "pending", Phase(c)' = "effective",
           PromisedAnswer(c)' = Contract!ReplyTo(call[c], Held(call[c].name)),
           Held(call[c].name)' = Contract!After(call[c], Held(call[c].name)),
           \A n \in Names : n # call[c].name => Held(n)' = Held(n)
    PROVE  Contract!TakeEffect(c)
  <1> DEFINE store == [n \in Names |-> Held(n)]
             phase == [d \in Clients |-> Phase(d)]
             n == call[c].name
  <1>1. store' = [store EXCEPT ![n] = Contract!After(call[c], store[n])]
    <2>1. \A m \in Names : m = n => Held(m)' = Contract!After(call[c], Held(n))
      OBVIOUS
    <2> QED
      BY <2>1
  <1>2. [d \in Clients |-> PromisedAnswer(d)]'
           = [d \in Clients |-> CASE d = c -> Contract!ReplyTo(call[c], store[n])
                                  [] d \in D -> Plain("deleted")
                                  [] OTHER -> [e \in Clients |-> PromisedAnswer(e)][d]]
    <2>1. ASSUME NEW d \in Clients
          PROVE  PromisedAnswer(d)' = CASE d = c -> Contract!ReplyTo(call[c], store[n])
                                        [] d \in D -> Plain("deleted")
                                        [] OTHER -> [e \in Clients |-> PromisedAnswer(e)][d]
      <3>1. store[n] = Held(n)
        OBVIOUS
      <3>2. CASE d = c
        BY <3>1, <3>2
      <3>3. CASE d \in D
        BY <3>3
      <3>4. CASE d # c /\ d \notin D
        BY <3>4
      <3> QED
        BY <3>2, <3>3, <3>4
    <2> QED
      BY <2>1
  <1>3. phase' = [d \in Clients |-> IF d \in D \union {c} THEN "effective" ELSE phase[d]]
    OBVIOUS
  <1>4. phase[c] = "pending"
    OBVIOUS
  <1>5. D \in SUBSET Contract!Overtakable(c)
    <2>1. \A d \in D : phase[d] = "pending"
      OBVIOUS
    <2> QED
      BY <2>1 DEF Contract!Overtakable, Phase
  <1> QED
    BY <1>1, <1>2, <1>3, <1>4, <1>5 DEF Contract!TakeEffect, Contract!Plain, Plain, Phase, Held

(***************************************************************************)
(* The same, where no call is overtaken and the names keep what they hold. *)
(***************************************************************************)
LEMMA FormRead ==
    ASSUME NEW c \in Clients, Elsewhere(c), HeldSame, call[c].name \in Names, UNCHANGED call,
           Phase(c) = "pending", Phase(c)' = "effective",
           PromisedAnswer(c)' = Contract!ReplyTo(call[c], Held(call[c].name)),
           Held(call[c].name) = Contract!After(call[c], Held(call[c].name))
    PROVE  Contract!TakeEffect(c)
  <1>1. \A d \in Clients : d # c /\ d \notin {} =>
           Phase(d)' = Phase(d) /\ PromisedAnswer(d)' = PromisedAnswer(d)
    BY DEF Elsewhere
  <1>2. \A n \in Names : n = call[c].name => Held(n)' = Contract!After(call[c], Held(call[c].name))
    BY DEF HeldSame
  <1>3. Held(call[c].name)' = Contract!After(call[c], Held(call[c].name))
    BY <1>2
  <1>4. {} \in SUBSET Clients
    OBVIOUS
  <1> QED
    BY <1>1, <1>3, <1>4, FormEffect DEF HeldSame

(***************************************************************************)
(* A client gets its answer.                                               *)
(***************************************************************************)
LEMMA FormAnswer ==
    ASSUME NEW c \in Clients, Elsewhere(c), HeldSame, Phase(c) = "effective", Phase(c)' = "idle",
           PromisedAnswer(c)' = PromisedAnswer(c), UNCHANGED call
    PROVE  Contract!Answer(c)
  <1>1. [n \in Names |-> Held(n)]' = [n \in Names |-> Held(n)]
    BY DEF HeldSame
  <1>2. [d \in Clients |-> PromisedAnswer(d)]' = [d \in Clients |-> PromisedAnswer(d)]
    BY DEF Elsewhere
  <1>3. [d \in Clients |-> Phase(d)]' = [[d \in Clients |-> Phase(d)] EXCEPT ![c] = "idle"]
    BY DEF Elsewhere
  <1>4. [d \in Clients |-> Phase(d)][c] = "effective"
    OBVIOUS
  <1> QED
    BY <1>1, <1>2, <1>3, <1>4 DEF Contract!Answer, Phase, Held

(***************************************************************************)
(* A call ends with an error.                                              *)
(***************************************************************************)
LEMMA FormError ==
    ASSUME NEW c \in Clients, Elsewhere(c), HeldSame, Phase(c) # "idle", Phase(c)' = "idle",
           PromisedAnswer(c)' = Plain("error"), UNCHANGED call
    PROVE  Contract!RaiseError(c)
  <1>1. [n \in Names |-> Held(n)]' = [n \in Names |-> Held(n)]
    BY DEF HeldSame
  <1>2. [d \in Clients |-> PromisedAnswer(d)]'
           = [[d \in Clients |-> PromisedAnswer(d)] EXCEPT ![c] = Plain("error")]
    BY DEF Elsewhere
  <1>3. [d \in Clients |-> Phase(d)]' = [[d \in Clients |-> Phase(d)] EXCEPT ![c] = "idle"]
    BY DEF Elsewhere
  <1>4. [d \in Clients |-> Phase(d)][c] # "idle"
    OBVIOUS
  <1> QED
    BY <1>1, <1>2, <1>3, <1>4 DEF Contract!RaiseError, Contract!Plain, Plain, Phase, Held

-----------------------------------------------------------------------------
(* The steps.                                                              *)

(***************************************************************************)
(* What a step needs to know of the call that takes it.                    *)
(***************************************************************************)
LEMMA CallerFacts ==
    ASSUME ImplInv, NEW c \in Clients
    PROVE  /\ TypeInv /\ StoreInv /\ TypeOK
           /\ call[c].name \in Names /\ call[c].content \in Seq(Chunks)
           /\ pc \in [Clients -> Labels] /\ answer \in [Clients -> AnswerSet]
           /\ old \in [Clients -> Oids \union {None}] /\ seen \in [Clients -> Oids \union {None}]
           /\ touched \in [Clients -> BOOLEAN]
  BY CallFacts DEF ImplInv, TypeInv, TypeOK

(***************************************************************************)
(* A call ends with an exception.                                          *)
(***************************************************************************)
LEMMA ImplRaise ==
    ASSUME ImplInv, NEW c \in Clients, Step(c), pc[c] # "idle", Raise(c, "error")
    PROVE  Contract!RaiseError(c)
  <1>1. /\ UNCHANGED <<rows, call>> /\ pc'[c] = "idle" /\ answer'[c] = Plain("error")
    BY CallerFacts DEF Raise, Go, table
  <1>2. Elsewhere(c) /\ HeldSame
    BY <1>1, QuietStep
  <1>3. Phase(c) # "idle" /\ Phase(c)' = "idle"
    BY <1>1 DEF Phase
  <1>4. PromisedAnswer(c)' = Plain("error")
    BY <1>1 DEF PromisedAnswer
  <1> QED
    BY <1>1, <1>2, <1>3, <1>4, FormError

(***************************************************************************)
(* A call begins.                                                          *)
(***************************************************************************)
LEMMA ImplCall ==
    ASSUME ImplInv, NEW c \in Clients, Call(c)
    PROVE  Contract!Invoke(c)
  <1>1. PICK k \in CallSet : /\ call' = [call EXCEPT ![c] = k]
                             /\ pc' = [pc EXCEPT ![c] = FirstStatement(k.op)]
    BY DEF Call, Go
  <1>2. FirstStatement(k.op) \in {"select", "probe", "query"}
    BY <1>1, CallFacts DEF FirstStatement
  <1>3. /\ UNCHANGED rows /\ pc[c] = "idle" /\ answer'[c] = Plain("none")
        /\ pc'[c] \in {"select", "probe", "query"}
    BY <1>1, <1>2, CallerFacts DEF Call, table
  <1>4. Elsewhere(c) /\ HeldSame
    BY <1>3, QuietStep DEF Step
  <1>5. Phase(c) = "idle" /\ Phase(c)' = "pending"
    BY <1>3 DEF Phase, Effective
  <1>6. PromisedAnswer(c)' = Plain("none")
    BY <1>3 DEF PromisedAnswer
  <1> QED
    BY <1>1, <1>4, <1>5, <1>6, FormInvoke

(***************************************************************************)
(* A call returns.                                                         *)
(***************************************************************************)
LEMMA ImplReturn ==
    ASSUME ImplInv, NEW c \in Clients, Return(c)
    PROVE  Contract!Answer(c)
  <1>1. /\ UNCHANGED <<rows, call, answer>> /\ pc[c] = "reply" /\ pc'[c] = "idle"
    BY CallerFacts DEF Return, Go, table
  <1>2. Elsewhere(c) /\ HeldSame
    BY <1>1, QuietStep DEF Step
  <1>3. Phase(c) = "effective" /\ Phase(c)' = "idle"
    BY <1>1 DEF Phase, Effective
  <1>4. PromisedAnswer(c)' = PromisedAnswer(c)
    BY <1>1 DEF PromisedAnswer
  <1> QED
    BY <1>1, <1>2, <1>3, <1>4, FormAnswer

(***************************************************************************)
(* save shows nothing before its COMMIT.                                   *)
(***************************************************************************)
LEMMA ImplSaving ==
    ASSUME ImplInv, NEW c \in Clients, Step(c), call[c].op = "save",
           \/ SaveSelect(c) \/ LoUnlink(c, "delete") \/ DeleteRow(c, "create")
           \/ DeleteRowBlocks(c) \/ DeleteRowWakes(c, "create")
           \/ LoCreate(c) \/ LoWrite(c) \/ LoClose(c) \/ InsertRow(c)
    PROVE  UNCHANGED Contract!contractVars
  <1> DEFINE Writing == {"select", "unlink", "delete", "deleteWait", "create", "write", "insert",
                         "commit"}
  <1>1. UNCHANGED <<rows, call, answer>> /\ pc[c] \in Writing /\ pc'[c] \in Writing
    <2> USE DEF Go, table
    <2>1. CASE SaveSelect(c)
      BY <2>1, CallerFacts DEF SaveSelect, SelectLoid
    <2>2. CASE LoUnlink(c, "delete") \/ DeleteRow(c, "create") \/ DeleteRowWakes(c, "create")
      BY <2>2, CallerFacts DEF LoUnlink, DeleteRow, DeleteRowWakes
    <2>3. CASE DeleteRowBlocks(c)
      BY <2>3, CallerFacts DEF DeleteRowBlocks
    <2>4. CASE LoCreate(c) \/ LoWrite(c) \/ LoClose(c)
      BY <2>4, CallerFacts DEF LoCreate, LoWrite, LoClose
    <2>5. CASE InsertRow(c)
      BY <2>5, CallerFacts DEF InsertRow
    <2> QED
      BY <2>1, <2>2, <2>3, <2>4, <2>5
  <1>2. Elsewhere(c) /\ HeldSame
    BY <1>1, QuietStep
  <1>3. ~Effective(c) /\ ~Effective(c)'
    BY <1>1 DEF Effective
  <1>4. Phase(c)' = Phase(c)
    BY <1>1, <1>3 DEF Phase
  <1>5. PromisedAnswer(c)' = PromisedAnswer(c)
    BY <1>1, <1>3 DEF PromisedAnswer
  <1> QED
    BY <1>1, <1>2, <1>4, <1>5, FormStutter

(***************************************************************************)
(* A delete that finds no row takes effect there: by its SELECT, or by its *)
(* DELETE if the row went in between.                                      *)
(***************************************************************************)
LEMMA ImplFindsNone ==
    ASSUME ImplInv, NEW c \in Clients, Step(c), call[c].op = "delete",
           pc[c] \in {"select", "delete"}, RowsOf(call[c].name) = {},
           UNCHANGED <<rows, call>>, pc'[c] = "commit", ~touched'[c]
    PROVE  Contract!TakeEffect(c)
  <1>1. Elsewhere(c) /\ HeldSame /\ call[c].name \in Names
    BY QuietStep, CallerFacts
  <1>2. Phase(c) = "pending" /\ Phase(c)' = "effective"
    BY DEF Phase, Effective
  <1>3. PromisedAnswer(c)' = Plain("deleted")
    BY DEF PromisedAnswer, Effective
  <1>4. Held(call[c].name) = None
    BY DEF Held
  <1>5. Contract!ReplyTo(call[c], None) = Plain("deleted") /\ Contract!After(call[c], None) = None
    BY DEF Contract!ReplyTo, Contract!After, Contract!Plain, Plain
  <1> QED
    BY <1>1, <1>2, <1>3, <1>4, <1>5, FormRead

(***************************************************************************)
(* A delete before its COMMIT takes effect or shows nothing.               *)
(***************************************************************************)
LEMMA ImplDeleting ==
    ASSUME ImplInv, NEW c \in Clients, Step(c), call[c].op = "delete",
           \/ DeleteSelect(c) \/ LoUnlink(c, "delete") \/ DeleteRow(c, "commit")
           \/ DeleteRowBlocks(c) \/ DeleteRowWakes(c, "commit")
    PROVE  Contract!TakeEffect(c) \/ UNCHANGED Contract!contractVars
  <1>1. /\ UNCHANGED <<rows, call, answer>>
        /\ pc[c] \in {"select", "unlink", "delete", "deleteWait"}
        /\ pc'[c] \in {"unlink", "delete", "deleteWait", "commit"}
    <2> USE DEF Go, table
    <2>1. CASE DeleteSelect(c)
      BY <2>1, CallerFacts DEF DeleteSelect, SelectLoid
    <2>2. CASE LoUnlink(c, "delete") \/ DeleteRow(c, "commit") \/ DeleteRowWakes(c, "commit")
      BY <2>2, CallerFacts DEF LoUnlink, DeleteRow, DeleteRowWakes
    <2>3. CASE DeleteRowBlocks(c)
      BY <2>3, CallerFacts DEF DeleteRowBlocks
    <2> QED
      BY <2>1, <2>2, <2>3
  <1>2. Elsewhere(c) /\ HeldSame
    BY <1>1, QuietStep
  <1>3. ASSUME Effective(c)' <=> Effective(c) PROVE UNCHANGED Contract!contractVars
    <2>1. Phase(c)' = Phase(c)
      BY <1>1, <1>3 DEF Phase
    <2>2. PromisedAnswer(c)' = PromisedAnswer(c)
      <3>1. CASE Effective(c)
        <4>1. pc[c] \in {"commit", "deleteWait"} /\ pc'[c] \in {"commit", "deleteWait"}
          BY <1>1, <1>3, <3>1 DEF Effective
        <4> QED
          BY <1>3, <3>1, <4>1 DEF PromisedAnswer
      <3>2. CASE ~Effective(c)
        BY <1>1, <1>3, <3>2 DEF PromisedAnswer
      <3> QED
        BY <3>1, <3>2
    <2> QED
      BY <1>1, <1>2, <2>1, <2>2, FormStutter
  <1>4. CASE DeleteSelect(c)
    <2>1. /\ pc[c] = "select" /\ touched' = touched
          /\ pc'[c] = "unlink" \/ (pc'[c] = "commit" /\ RowsOf(call[c].name) = {})
      BY <1>4, CallerFacts DEF DeleteSelect, SelectLoid, Go, txn
    <2>2. ~touched[c]
      BY <2>1, CallerFacts DEF StoreInv, ClientInv, LocksHeld
    <2>3. CASE pc'[c] = "unlink"
      BY <1>1, <1>3, <2>1, <2>3 DEF Effective
    <2>4. CASE pc'[c] = "commit" /\ RowsOf(call[c].name) = {}
      BY <1>1, <2>1, <2>2, <2>4, ImplFindsNone
    <2> QED
      BY <2>1, <2>3, <2>4
  <1>5. CASE LoUnlink(c, "delete")
    <2>1. pc[c] = "unlink" /\ pc'[c] = "delete"
      BY <1>5, CallerFacts DEF LoUnlink, Go
    <2> QED
      BY <1>3, <2>1 DEF Effective
  <1>6. CASE DeleteRow(c, "commit")
    <2>1. pc[c] = "delete" /\ pc'[c] = "commit" /\ touched'[c] = (RowsOf(call[c].name) # {})
      BY <1>6, CallerFacts DEF DeleteRow, Go
    <2>2. CASE RowsOf(call[c].name) = {}
      BY <1>1, <2>1, <2>2, ImplFindsNone
    <2>3. CASE RowsOf(call[c].name) # {}
      BY <1>3, <2>1, <2>3 DEF Effective
    <2> QED
      BY <2>2, <2>3
  <1>7. CASE DeleteRowBlocks(c)
    <2>1. pc[c] = "delete" /\ pc'[c] = "deleteWait"
      BY <1>7, CallerFacts DEF DeleteRowBlocks, Go
    <2>2. \E r \in rows : seen'[c] = r.rid
      BY <1>7, CallerFacts DEF DeleteRowBlocks, RowsOf
    <2>3. ~SeenGone(c)'
      BY <1>1, <2>2 DEF SeenGone
    <2> QED
      BY <1>3, <2>1, <2>3 DEF Effective
  <1>8. CASE DeleteRowWakes(c, "commit")
    <2>1. pc[c] = "deleteWait" /\ pc'[c] = "commit" /\ touched'[c] = ~SeenGone(c)
      BY <1>8, CallerFacts DEF DeleteRowWakes, Go
    <2> QED
      BY <1>1, <1>3, <2>1 DEF Effective
  <1> QED
    BY <1>4, <1>5, <1>6, <1>7, <1>8

(***************************************************************************)
(* open takes effect by its probe: the stream it promises is of the object *)
(* that the row names then.                                                *)
(***************************************************************************)
LEMMA ImplProbe ==
    ASSUME ImplInv, NEW c \in Clients, Probe(c), call[c].op = "open"
    PROVE  Contract!TakeEffect(c)
  <1> DEFINE n == call[c].name
  <1>0. /\ UNCHANGED <<rows, data, call>> /\ pc[c] = "probe" /\ Step(c) /\ n \in Names
    BY CallerFacts DEF Probe, SelectLoid, table, objects, Step, Open
  <1>1. Elsewhere(c) /\ HeldSame
    BY <1>0, QuietStep
  <1>2. Phase(c) = "pending"
    BY <1>0 DEF Phase, Effective
  <1>3. Contract!After(call[c], Held(n)) = Held(n)
    BY DEF Contract!After
  <1>4. CASE RowsOf(n) = {}
    <2>1. pc'[c] = "reply" /\ answer'[c] = Plain("notfound")
      BY <1>4, CallerFacts DEF Probe, SelectLoid, Go
    <2>2. Phase(c)' = "effective" /\ PromisedAnswer(c)' = Plain("notfound")
      BY <2>1 DEF Phase, Effective, PromisedAnswer
    <2>3. Held(n) = None
      BY <1>4 DEF Held
    <2>4. Contract!ReplyTo(call[c], None) = Plain("notfound")
      BY DEF Contract!ReplyTo, Contract!Plain, Plain
    <2> QED
      BY <1>0, <1>1, <1>2, <1>3, <2>2, <2>3, <2>4, FormRead
  <1>5. CASE RowsOf(n) # {}
    <2>1. PICK r \in RowsOf(n) : old'[c] = r.loid /\ pc'[c] = "opened"
      BY <1>5, CallerFacts DEF Probe, SelectLoid, Go
    <2>2. r \in rows /\ r.name = n
      BY <2>1 DEF RowsOf
    <2>3. Held(n) = data[r.loid] /\ Held(n) # None
      BY <2>2, HeldRow, CallerFacts
    <2> DEFINE reply == [kind |-> "content", size |-> 0, content |-> Held(n)]
    <2>4. Phase(c)' = "effective"
      BY <1>0, <2>1 DEF Phase, Effective
    <2>5. PromisedAnswer(c)' = reply
      BY <1>0, <2>1, <2>3 DEF PromisedAnswer
    <2>6. Contract!ReplyTo(call[c], Held(n)) = reply
      BY <2>3 DEF Contract!ReplyTo
    <2> QED
      BY <1>0, <1>1, <1>2, <1>3, <2>4, <2>5, <2>6, FormRead
  <1> QED
    BY <1>4, <1>5

(***************************************************************************)
(* The stream that follows shows nothing more, and yields that object.     *)
(***************************************************************************)
LEMMA ImplStream ==
    ASSUME ImplInv, NEW c \in Clients, LoOpen(c) \/ LoRead(c) \/ StreamEnd(c), call[c].op = "open"
    PROVE  UNCHANGED Contract!contractVars
  <1>0. /\ UNCHANGED <<rows, data, call, old>> /\ pc[c] \in {"opened", "stream"} /\ Step(c)
    BY DEF LoOpen, LoRead, StreamEnd, table, objects, locals, Step, Open
  <1>1. Elsewhere(c) /\ HeldSame
    BY <1>0, QuietStep
  <1> DEFINE reply == [kind |-> "content", size |-> 0, content |-> data[old[c]]]
  <1>2. PromisedAnswer(c) = reply
    BY <1>0 DEF PromisedAnswer
  <1>3. CASE LoOpen(c) \/ LoRead(c)
    <2>1. pc'[c] = "stream"
      BY <1>3, CallerFacts DEF LoOpen, LoRead, Go
    <2>2. PromisedAnswer(c)' = reply
      BY <1>0, <2>1 DEF PromisedAnswer
    <2>3. Phase(c)' = Phase(c)
      BY <1>0, <2>1 DEF Phase, Effective
    <2> QED
      BY <1>0, <1>1, <1>2, <2>2, <2>3, FormStutter
  <1>4. CASE StreamEnd(c)
    <2>1. /\ pc[c] = "stream" /\ Len(got[c]) = Len(data[old[c]]) /\ pc'[c] = "reply"
          /\ answer'[c] = [kind |-> "content", size |-> 0, content |-> got[c]]
      BY <1>4, CallerFacts DEF StreamEnd, Go
    <2>2. got[c] = data[old[c]]
      <3>1. got[c] \in Seq(Chunks) /\ data[old[c]] \in Seq(Chunks)
        BY <2>1, CallerFacts DEF TypeInv, TypeOK
      <3>2. \A i \in 1 .. Len(got[c]) : got[c][i] = data[old[c]][i]
        BY <2>1 DEF ImplInv, Reading, Streams
      <3> QED
        BY <2>1, <3>1, <3>2, SeqEqual
    <2>3. PromisedAnswer(c)' = reply
      BY <2>1, <2>2 DEF PromisedAnswer
    <2>4. Phase(c)' = Phase(c)
      BY <1>0, <2>1 DEF Phase, Effective
    <2> QED
      BY <1>0, <1>1, <1>2, <2>3, <2>4, FormStutter
  <1> QED
    BY <1>3, <1>4

(***************************************************************************)
(* exists and size take effect where they read.                            *)
(***************************************************************************)
LEMMA ImplQuery ==
    ASSUME ImplInv, NEW c \in Clients, Exists(c) \/ Size(c)
    PROVE  Contract!TakeEffect(c)
  <1> DEFINE n == call[c].name
  <1>0. /\ UNCHANGED <<rows, data, call>> /\ pc[c] = "query" /\ pc'[c] = "reply" /\ Step(c)
        /\ n \in Names /\ call[c].op \in {"exists", "size"}
    BY CallerFacts DEF Exists, Size, Go, table, objects, Step
  <1>1. Elsewhere(c) /\ HeldSame
    BY <1>0, QuietStep
  <1>2. Phase(c) = "pending" /\ Phase(c)' = "effective"
    BY <1>0 DEF Phase, Effective
  <1>3. Contract!After(call[c], Held(n)) = Held(n)
    BY <1>0 DEF Contract!After
  <1>4. PromisedAnswer(c)' = answer'[c]
    BY <1>0 DEF PromisedAnswer
  <1>5. RowsOf(n) = {} => Held(n) = None
    BY DEF Held
  <1>6. ASSUME NEW r \in RowsOf(n)
        PROVE  Held(n) # None /\ r.size = Len(Held(n))
    <2>1. r \in rows /\ r.name = n
      BY <1>6 DEF RowsOf
    <2> QED
      BY <2>1, HeldRow, CallerFacts
  <1>7. answer'[c] = Contract!ReplyTo(call[c], Held(n))
    <2>1. CASE Exists(c) /\ RowsOf(n) = {}
      <3>1. call[c].op = "exists" /\ answer'[c] = Plain("absent")
        BY <2>1, CallerFacts DEF Exists
      <3>2. Contract!ReplyTo(call[c], None) = Plain("absent")
        BY <3>1 DEF Contract!ReplyTo, Contract!Plain, Plain
      <3> QED
        BY <1>5, <2>1, <3>1, <3>2
    <2>2. CASE Exists(c) /\ RowsOf(n) # {}
      <3>1. call[c].op = "exists" /\ answer'[c] = Plain("present")
        BY <2>2, CallerFacts DEF Exists
      <3>2. Held(n) # None
        BY <1>6, <2>2
      <3>3. Contract!ReplyTo(call[c], Held(n)) = Plain("present")
        BY <3>1, <3>2 DEF Contract!ReplyTo, Contract!Plain, Plain
      <3> QED
        BY <3>1, <3>3
    <2>3. CASE Size(c) /\ RowsOf(n) = {}
      <3>1. call[c].op = "size" /\ answer'[c] = Plain("notfound")
        BY <2>3, CallerFacts DEF Size
      <3>2. Contract!ReplyTo(call[c], None) = Plain("notfound")
        BY <3>1 DEF Contract!ReplyTo, Contract!Plain, Plain
      <3> QED
        BY <1>5, <2>3, <3>1, <3>2
    <2>4. CASE Size(c) /\ RowsOf(n) # {}
      <3>1. call[c].op = "size"
        BY <2>4 DEF Size
      <3>2. PICK r \in RowsOf(n) : answer'[c] = [kind |-> "size", size |-> r.size, content |-> <<>>]
        BY <2>4, CallerFacts DEF Size
      <3>3. Held(n) # None /\ r.size = Len(Held(n))
        BY <1>6, <3>2
      <3>4. Contract!ReplyTo(call[c], Held(n))
               = [kind |-> "size", size |-> Len(Held(n)), content |-> <<>>]
        BY <3>1, <3>3 DEF Contract!ReplyTo
      <3> QED
        BY <3>2, <3>3, <3>4
    <2> QED
      BY <2>1, <2>2, <2>3, <2>4
  <1> QED
    BY <1>0, <1>1, <1>2, <1>3, <1>4, <1>7, FormRead

(***************************************************************************)
(* The COMMIT of a delete that found no row shows nothing: its call has    *)
(* taken effect before.                                                    *)
(***************************************************************************)
LEMMA ImplCommitNothing ==
    ASSUME ImplInv, NEW c \in Clients, call[c].op = "delete", ~touched[c],
           Commit(c, Plain("deleted"))
    PROVE  UNCHANGED Contract!contractVars
  <1>1. /\ UNCHANGED <<rows, call>> /\ pc[c] = "commit" /\ pc'[c] = "reply" /\ Step(c)
        /\ answer'[c] = Plain("deleted")
    BY CallerFacts DEF Commit, Go, locals, Step, Delete
  <1>2. Elsewhere(c) /\ HeldSame
    BY <1>1, QuietStep
  <1>3. Phase(c)' = Phase(c)
    BY <1>1 DEF Phase, Effective
  <1>4. PromisedAnswer(c)' = PromisedAnswer(c)
    BY <1>1 DEF PromisedAnswer, Effective
  <1> QED
    BY <1>1, <1>2, <1>3, <1>4, FormStutter

(***************************************************************************)
(* What a COMMIT of a changed row does to what the names hold.             *)
(***************************************************************************)
LEMMA CommitHeld ==
    ASSUME ImplInv, StoreInv', NEW c \in Clients, Commits(c), touched[c]
    PROVE  /\ \A m \in Names : m # call[c].name => Held(m)' = Held(m)
           /\ \A m \in Names : m = call[c].name =>
                 /\ put[c] = {} => Held(m)' = None
                 /\ put[c] # {} => Held(m)' = data[oid[c]]
  <1>1. /\ rows' = (rows \ RowsOf(call[c].name)) \union put[c] /\ UNCHANGED data
        /\ \A r \in put[c] : r.name = call[c].name /\ r.loid = oid[c]
    BY CommitRows DEF ImplInv
  <1>2. \A r, s \in rows : r.name = s.name => r = s
    BY DEF ImplInv, StoreInv, RowHasObject
  <1>3. \A r, s \in rows' : r.name = s.name => r = s
    BY DEF StoreInv, RowHasObject
  <1>4. ASSUME NEW m \in Names, NEW r \in rows', r.name = m PROVE Held(m)' = data[r.loid]
    <2>1. (CHOOSE s \in rows' : s.name = r.name) = r
      BY <1>3, TheRow
    <2>2. RowsOf(m)' # {}
      BY <1>4 DEF RowsOf
    <2> QED
      BY <1>1, <1>4, <2>1, <2>2 DEF Held
  <1>5. ASSUME NEW m \in Names, m # call[c].name PROVE Held(m)' = Held(m)
    <2>1. CASE RowsOf(m) = {}
      <3>1. RowsOf(m)' = {}
        BY <1>1, <1>5, <2>1 DEF RowsOf
      <3> QED
        BY <2>1, <3>1 DEF Held
    <2>2. CASE RowsOf(m) # {}
      <3>1. PICK r \in rows : r.name = m
        BY <2>2 DEF RowsOf
      <3>2. r \in rows'
        BY <1>1, <1>5, <3>1 DEF RowsOf
      <3>3. Held(m) = data[r.loid]
        BY <3>1, HeldRow DEF ImplInv
      <3> QED
        BY <1>4, <3>1, <3>2, <3>3
    <2> QED
      BY <2>1, <2>2
  <1>6. ASSUME NEW m \in Names, m = call[c].name, put[c] = {} PROVE Held(m)' = None
    <2>1. RowsOf(m)' = {}
      BY <1>1, <1>6 DEF RowsOf
    <2> QED
      BY <2>1 DEF Held
  <1>7. ASSUME NEW m \in Names, m = call[c].name, put[c] # {} PROVE Held(m)' = data[oid[c]]
    <2>1. PICK r \in put[c] : r.name = m /\ r.loid = oid[c]
      BY <1>1, <1>7
    <2> QED
      BY <1>1, <1>4, <2>1
  <1> QED
    BY <1>5, <1>6, <1>7

\* The deletes that wait for a row which the step takes away.
Overtaken(c) ==
    {d \in Clients \ {c} :
        call[d].op = "delete" /\ pc[d] = "deleteWait" /\ ~SeenGone(d) /\ SeenGone(d)'}

(***************************************************************************)
(* What a COMMIT does to the other calls: the deletes that it overtakes    *)
(* have taken effect, and no other call notices.                           *)
(***************************************************************************)
LEMMA CommitOthers ==
    ASSUME ImplInv, NEW c \in Clients, Step(c), Commits(c), touched[c]
    PROVE  /\ \A d \in Overtaken(c) :
                 /\ d # c /\ Phase(d) = "pending" /\ Phase(d)' = "effective"
                 /\ call[d].op = "delete" /\ call[d].name = call[c].name
                 /\ PromisedAnswer(d)' = Plain("deleted")
           /\ \A d \in Clients : d # c /\ d \notin Overtaken(c) =>
                 Phase(d)' = Phase(d) /\ PromisedAnswer(d)' = PromisedAnswer(d)
  <1>0. TypeInv /\ TypeOK /\ StoreInv /\ RidInv /\ Others(c)
    BY OthersSame DEF ImplInv, TypeInv
  <1>1. /\ rows' = (rows \ RowsOf(call[c].name)) \union put[c] /\ UNCHANGED <<data, call>>
        /\ \A r \in put[c] : /\ Creating(c)
                             /\ r.rid = oid[c] \/ \E s \in rows : s.rid = r.rid
    BY <1>0, CommitRows
  <1>2. ASSUME NEW d \in Clients, d # c
        PROVE  /\ pc'[d] = pc[d] /\ call'[d] = call[d] /\ answer'[d] = answer[d]
               /\ old'[d] = old[d] /\ touched'[d] = touched[d] /\ seen'[d] = seen[d]
    BY <1>0, <1>2 DEF Others
  <1>3. ASSUME NEW d \in Overtaken(c)
        PROVE  /\ d # c /\ Phase(d) = "pending" /\ Phase(d)' = "effective"
               /\ call[d].op = "delete" /\ call[d].name = call[c].name
               /\ PromisedAnswer(d)' = Plain("deleted")
    <2>1. /\ d \in Clients /\ d # c /\ call[d].op = "delete" /\ pc[d] = "deleteWait"
          /\ ~SeenGone(d) /\ SeenGone(d)'
      BY DEF Overtaken
    <2>2. Phase(d) = "pending" /\ Phase(d)' = "effective"
      BY <1>2, <2>1 DEF Phase, Effective
    <2>3. PromisedAnswer(d)' = Plain("deleted")
      BY <1>2, <2>1 DEF PromisedAnswer, Effective
    <2>4. call[d].name = call[c].name
      <3>1. PICK r \in rows : r.rid = seen[d]
        BY <2>1 DEF SeenGone
      <3>2. r.name = call[d].name
        BY <1>0, <2>1, <3>1 DEF RidInv, WaitsForOwn
      <3>3. r \notin rows'
        BY <1>2, <2>1, <3>1 DEF SeenGone
      <3> QED
        BY <1>1, <3>2, <3>3 DEF RowsOf
    <2> QED
      BY <2>1, <2>2, <2>3, <2>4
  <1>4. ASSUME NEW d \in Clients, d # c, d \notin Overtaken(c)
        PROVE  Phase(d)' = Phase(d) /\ PromisedAnswer(d)' = PromisedAnswer(d)
    <2>1. ASSUME call[d].op = "delete", pc[d] = "deleteWait" PROVE SeenGone(d)' <=> SeenGone(d)
      <3>1. SeenGone(d)' => SeenGone(d)
        BY <1>4, <2>1 DEF Overtaken
      <3>2. ASSUME SeenGone(d) PROVE SeenGone(d)'
        <4>1. Creating(c) => seen[d] # oid[c]
          BY <1>0, <2>1 DEF RidInv, RidFresh
        <4>2. \A r \in rows' : r.rid # seen[d]
          BY <1>1, <3>2, <4>1 DEF SeenGone
        <4> QED
          BY <1>2, <1>4, <4>2 DEF SeenGone
      <3> QED
        BY <3>1, <3>2
    <2>2. Effective(d)' <=> Effective(d)
      BY <1>2, <1>4, <2>1 DEF Effective
    <2>3. Phase(d)' = Phase(d)
      BY <1>2, <1>4, <2>2 DEF Phase
    <2>4. PromisedAnswer(d)' = PromisedAnswer(d)
      BY <1>1, <1>2, <1>4, <2>2 DEF PromisedAnswer
    <2> QED
      BY <2>3, <2>4
  <1> QED
    BY <1>3, <1>4

(***************************************************************************)
(* The COMMIT of a save, or of a delete that has removed a row, is where   *)
(* the call takes effect.                                                  *)
(***************************************************************************)
LEMMA ImplCommit ==
    ASSUME ImplInv, StoreInv', NEW c \in Clients, Step(c), Commits(c), touched[c]
    PROVE  Contract!TakeEffect(c)
  <1> DEFINE n == call[c].name
  <1>0. /\ TypeInv /\ StoreInv /\ RidInv /\ n \in Names /\ call[c].op \in {"save", "delete"}
    BY CallerFacts DEF ImplInv, Commits
  <1>1. UNCHANGED call /\ pc[c] = "commit" /\ pc'[c] = "reply"
    BY <1>0, CommitRows
  <1>2. Phase(c) = "pending" /\ Phase(c)' = "effective"
    BY <1>0, <1>1 DEF Phase, Effective
  <1>3. PromisedAnswer(c)' = answer'[c]
    BY <1>1 DEF PromisedAnswer
  <1>4. Held(n)' = Contract!After(call[c], Held(n)) /\ answer'[c] = Contract!ReplyTo(call[c], Held(n))
    <2>1. CASE call[c].op = "delete"
      <3>1. put[c] = {}
        BY <1>0, <2>1 DEF StoreInv, ClientInv, PutIsOwn, Creating
      <3>2. Held(n)' = None
        BY <1>0, <1>1, <3>1, CommitHeld
      <3>3. answer'[c] = Plain("deleted")
        BY <2>1, CallerFacts DEF Commits, Commit
      <3>4. Contract!ReplyTo(call[c], Held(n)) = Plain("deleted") /\ Contract!After(call[c], Held(n)) = None
        BY <2>1 DEF Contract!ReplyTo, Contract!After, Contract!Plain, Plain
      <3> QED
        BY <3>2, <3>3, <3>4
    <2>2. CASE call[c].op = "save"
      <3> DEFINE s == call[c].content
                 reply == [kind |-> "saved", size |-> Len(s), content |-> <<>>]
      <3>1. Creating(c) /\ put[c] # {}
        BY <1>0, <1>1, <2>2 DEF Creating, RidInv, PutReady
      <3>2. /\ total[c] = Len(s) /\ Len(data[oid[c]]) = total[c]
            /\ \A i \in 1 .. total[c] : data[oid[c]][i] = s[i]
        BY <1>0, <1>1, <3>1 DEF StoreInv, ClientInv, WrittenSoFar
      <3>3. data[oid[c]] \in Seq(Chunks) /\ s \in Seq(Chunks)
        <4>1. oid[c] \in Oids
          BY <1>0, <3>1, CallerFacts DEF StoreInv, ClientInv, Bound, TypeOK
        <4> QED
          BY <4>1, CallerFacts DEF TypeOK
      <3>4. data[oid[c]] = s
        BY <3>2, <3>3, SeqEqual
      <3>5. Held(n)' = s
        BY <1>0, <1>1, <3>1, <3>4, CommitHeld
      <3>6. answer'[c] = reply
        BY <2>2, <3>2, CallerFacts DEF Commits, Commit
      <3>7. Contract!ReplyTo(call[c], Held(n)) = reply /\ Contract!After(call[c], Held(n)) = s
        BY <2>2 DEF Contract!ReplyTo, Contract!After
      <3> QED
        BY <3>5, <3>6, <3>7
    <2> QED
      BY <1>0, <2>1, <2>2
  <1>5. \A m \in Names : m # n => Held(m)' = Held(m)
    BY CommitHeld
  <1>6. Overtaken(c) \in SUBSET Clients
    BY DEF Overtaken
  <1> QED
    BY <1>0, <1>1, <1>2, <1>3, <1>4, <1>5, <1>6, CommitOthers, FormEffect

(***************************************************************************)
(* The initial states are initial states of the contract.                  *)
(***************************************************************************)
LEMMA ImplInit == Init => Contract!ContractInit
  <1> SUFFICES ASSUME Init PROVE Contract!ContractInit
    OBVIOUS
  <1>1. call \in [Clients -> Contract!Calls]
    <2>1. PICK n \in Names : call = [c \in Clients |-> [op |-> "exists", name |-> n, content |-> <<>>]]
      BY DEF Init
    <2>2. [op |-> "exists", name |-> n, content |-> <<>>] \in Contract!Calls
      BY DEF Contract!Calls
    <2> QED
      BY <2>1, <2>2
  <1>2. [c \in Clients |-> Phase(c)] = [c \in Clients |-> "idle"]
    BY DEF Init, Phase
  <1>3. [c \in Clients |-> PromisedAnswer(c)] = [c \in Clients |-> Plain("none")]
    BY DEF Init, PromisedAnswer
  <1>4. [n \in Names |-> Held(n)] = [n \in Names |-> None]
    BY DEF Init, Held, RowsOf
  <1> QED
    BY <1>1, <1>2, <1>3, <1>4 DEF Contract!ContractInit, Contract!Plain, Plain, Phase, Held

(***************************************************************************)
(* A step of the backend is one of the contract's or shows nothing.        *)
(***************************************************************************)
LEMMA ImplStep ==
    ASSUME ImplInv, ImplInv', [Next]_vars
    PROVE  [Contract!ContractNext]_(Contract!contractVars)
  <1>1. StoreInv'
    BY DEF ImplInv
  <1>2. CASE UNCHANGED vars
    <2>1. [n \in Names |-> Held(n)]' = [n \in Names |-> Held(n)]
      BY <1>2 DEF vars, table, objects, Held, RowsOf
    <2>2. \A d \in Clients : Effective(d)' <=> Effective(d)
      BY <1>2 DEF vars, table, txn, locals, Effective, SeenGone
    <2>3. [d \in Clients |-> PromisedAnswer(d)]' = [d \in Clients |-> PromisedAnswer(d)]
      BY <1>2, <2>2 DEF vars, objects, locals, PromisedAnswer
    <2>4. [d \in Clients |-> Phase(d)]' = [d \in Clients |-> Phase(d)]
      BY <1>2, <2>2 DEF vars, Phase
    <2> QED
      BY <1>2, <2>1, <2>3, <2>4 DEF vars, Contract!contractVars, Phase, Held
  <1>3. ASSUME NEW c \in Clients, Step(c)
        PROVE  Contract!ContractNext \/ UNCHANGED Contract!contractVars
    <2>1. CASE Contract!TakeEffect(c) \/ Contract!RaiseError(c) \/ Contract!Invoke(c) \/ Contract!Answer(c)
      BY <2>1 DEF Contract!ContractNext
    <2>2. CASE Call(c) \/ Return(c) \/ Exists(c) \/ Size(c)
      BY <2>1, <2>2, ImplCall, ImplReturn, ImplQuery
    <2>3. CASE pc[c] # "idle" /\ Raise(c, "error")
      BY <1>3, <2>1, <2>3, ImplRaise
    <2>4. CASE Commits(c)
      <3>1. CASE touched[c]
        BY <1>1, <1>3, <2>1, <2>4, <3>1, ImplCommit
      <3>2. CASE ~touched[c] /\ call[c].op = "delete"
        BY <2>4, <3>2, ImplCommitNothing DEF Commits
      <3>3. CASE ~touched[c] /\ call[c].op = "save"
        <4>1. pc[c] = "commit"
          BY <2>4, CommitRows DEF ImplInv
        <4> QED
          BY <3>3, <4>1 DEF ImplInv, RidInv, PutReady, Creating
      <3> QED
        BY <2>4, <3>1, <3>2, <3>3 DEF Commits
    <2>5. CASE Save(c)
      BY <1>3, <2>3, <2>4, <2>5, ImplSaving DEF Save, LoUnlinkFails, Commits
    <2>6. CASE Delete(c)
      BY <1>3, <2>1, <2>3, <2>4, <2>6, ImplDeleting DEF Delete, LoUnlinkFails, Commits
    <2>7. CASE Open(c)
      BY <1>3, <2>1, <2>3, <2>7, ImplProbe, ImplStream DEF Open, LoOpenFails
    <2> QED
      BY <1>3, <2>2, <2>3, <2>5, <2>6, <2>7 DEF Step, Fault
  <1> QED
    BY <1>2, <1>3 DEF Next, Run, Step, Finished

(***************************************************************************)
(* The PostgreSQL backend implements the contract of Storage: however the  *)
(* statements of its calls interleave and wherever a call fails, each      *)
(* takes effect at one instant, at most once, and answers what the name    *)
(* held then.                                                              *)
(***************************************************************************)
THEOREM PgImplements == Spec => ImplementsContract
  <1>1. Spec => []ImplInv
    BY InvInit, InvNext, PTL DEF Spec
  <1>2. ImplInv /\ ImplInv' /\ [Next]_vars => [Contract!ContractNext]_(Contract!contractVars)
    BY ImplStep
  <1> QED
    BY <1>1, <1>2, ImplInit, PTL DEF Spec, ImplementsContract, Contract!ContractSpec
=============================================================================
