---------------------------- MODULE PgStoreProofs ----------------------------
(***************************************************************************)
(* Proofs about PgStore, for any number of clients, names, identifiers,    *)
(* calls and faults.                                                       *)
(***************************************************************************)
EXTENDS PgStore, SequenceTheorems, TLAPS

-----------------------------------------------------------------------------
(* Types.  TypeOK is inductive once it says that the identifier a          *)
(* statement uses has been read or created.                                *)

TypeInv ==
    /\ TypeOK
    /\ \A c \in Clients :
          /\ pc[c] \in {"opened", "stream"} => old[c] \in Oids
          /\ pc[c] \in {"write", "insert"} => oid[c] \in Oids

(***************************************************************************)
(* What a caller can pass to save, delete, open, size or exists.           *)
(***************************************************************************)
LEMMA CallFacts ==
    ASSUME NEW k \in CallSet
    PROVE  /\ k.op \in {"save", "delete", "open", "size", "exists"}
           /\ k.name \in Names
           /\ k.content \in Seq(Chunks)
           /\ k.op = "save" => k.content \in Contents
  <1>1. <<>> \in Seq(Chunks)
    OBVIOUS
  <1> QED
    BY <1>1, PgAssumption DEF CallSet

(***************************************************************************)
(* The answers of the operations are answers.                              *)
(***************************************************************************)
LEMMA PlainTyped ==
    ASSUME NEW k \in {"none", "saved", "deleted", "present", "absent", "size", "content",
                      "notfound", "error"}
    PROVE  Plain(k) \in AnswerSet
  <1>1. <<>> \in Seq(Chunks)
    OBVIOUS
  <1> QED
    BY <1>1 DEF Plain, AnswerSet

(***************************************************************************)
(* The initial state is well typed.                                        *)
(***************************************************************************)
LEMMA TypeInit == Init => TypeInv
  <1> SUFFICES ASSUME Init PROVE TypeInv
    OBVIOUS
  <1>1. <<>> \in Seq(Chunks)
    OBVIOUS
  <1>2. call \in [Clients -> CallSet]
    BY DEF Init, CallSet
  <1>3. Plain("none") \in AnswerSet
    BY PlainTyped
  <1> QED
    BY <1>1, <1>2, <1>3 DEF Init, TypeInv, TypeOK, Labels

(***************************************************************************)
(* Ending a call with an exception keeps the types.                        *)
(***************************************************************************)
LEMMA TypeRaise ==
    ASSUME TypeInv, NEW c \in Clients, Raise(c, "error"), calls' = calls, faults' \in Nat
    PROVE  TypeInv'
  <1>1. Plain("error") \in AnswerSet
    BY PlainTyped
  <1>2. /\ answer' \in [Clients -> AnswerSet]
        /\ pc' = [pc EXCEPT ![c] = "idle"]
        /\ unlinked' = [unlinked EXCEPT ![c] = {}]
        /\ touched' = [touched EXCEPT ![c] = FALSE]
        /\ put' = [put EXCEPT ![c] = {}]
        /\ UNCHANGED <<rows, live, data, used, call, old, oid, total, seen, got>>
    BY <1>1 DEF Raise, Rollback, EndTxn, Go, TypeInv, TypeOK, table, objects, locals
  <1> QED
    BY <1>2 DEF TypeInv, TypeOK, Labels

(***************************************************************************)
(* What INSERT ... ON CONFLICT leaves to be committed: rows of the call's  *)
(* name for the object it wrote, at most one if the table has at most one  *)
(* of the name.                                                            *)
(***************************************************************************)
LEMMA InsertedRows ==
    ASSUME TypeInv, NEW c \in Clients, InsertRow(c)
    PROVE  \E R \in SUBSET RowSet :
              /\ put' = [put EXCEPT ![c] = R]
              /\ \A r \in R : r.name = call[c].name /\ r.loid = oid[c] /\ r.size = total[c]
              /\ (\A r, s \in rows : r.name = s.name => r = s) => \A r, s \in R : r = s
  <1> DEFINE new == [name |-> call[c].name, rid |-> oid[c], loid |-> oid[c], size |-> total[c]]
             conflicting == IF touched[c] THEN {} ELSE RowsOf(call[c].name)
             updated == {[new EXCEPT !.rid = r.rid] : r \in conflicting}
             R == IF conflicting = {} THEN {new} ELSE updated
  <1>1. put' = [put EXCEPT ![c] = R]
    BY DEF InsertRow
  <1>2. new \in RowSet
    <2>1. call[c] \in CallSet /\ oid[c] \in Oids /\ total[c] \in Nat
      BY DEF InsertRow, TypeInv, TypeOK
    <2> QED
      BY <2>1, CallFacts DEF RowSet
  <1>3. \A r \in rows : r.rid \in Oids
    BY DEF TypeInv, TypeOK, RowSet
  <1>4. \A x \in updated : /\ x \in RowSet
                          /\ x.name = new.name /\ x.loid = new.loid /\ x.size = new.size
    BY <1>2, <1>3 DEF RowSet, RowsOf
  <1>5. R \in SUBSET RowSet
    BY <1>2, <1>4
  <1>6. \A r \in R : r.name = call[c].name /\ r.loid = oid[c] /\ r.size = total[c]
    BY <1>4
  <1>7. (\A r, s \in rows : r.name = s.name => r = s) => \A r, s \in R : r = s
    BY DEF RowsOf
  <1> HIDE DEF R
  <1> QED
    BY <1>1, <1>5, <1>6, <1>7

(***************************************************************************)
(* COMMIT keeps the types, whatever is answered.                           *)
(***************************************************************************)
LEMMA TypeCommit ==
    ASSUME TypeInv, NEW c \in Clients, NEW reply \in AnswerSet, Commit(c, reply)
    PROVE  TypeInv'
  <1>1. rows' \in SUBSET RowSet /\ live' \in SUBSET Oids
    BY DEF Commit, TypeInv, TypeOK, RowSet
  <1>2. answer' \in [Clients -> AnswerSet]
    BY DEF Commit, TypeInv, TypeOK
  <1> QED
    BY <1>1, <1>2 DEF Commit, EndTxn, Go, objects, locals, budget, TypeInv, TypeOK, Labels

(***************************************************************************)
(* The steps of save keep the types.                                       *)
(***************************************************************************)
LEMMA TypeSave ==
    ASSUME TypeInv, NEW c \in Clients, Save(c)
    PROVE  TypeInv'
  <1> USE DEF Go, table, objects, txn, locals, budget
  <1>1. CASE SaveSelect(c)
    BY <1>1 DEF SaveSelect, SelectLoid, RowsOf, RowSet, TypeInv, TypeOK, Labels
  <1>2. CASE LoUnlink(c, "delete")
    BY <1>2 DEF LoUnlink, TypeInv, TypeOK, Labels
  <1>3. CASE LoUnlinkFails(c)
    BY <1>3, TypeRaise DEF LoUnlinkFails, TypeInv, TypeOK
  <1>4. CASE DeleteRow(c, "create")
    BY <1>4 DEF DeleteRow, TypeInv, TypeOK, Labels
  <1>5. CASE DeleteRowBlocks(c)
    BY <1>5 DEF DeleteRowBlocks, RowsOf, RowSet, TypeInv, TypeOK, Labels
  <1>6. CASE DeleteRowWakes(c, "create")
    BY <1>6 DEF DeleteRowWakes, SeenGone, TypeInv, TypeOK, Labels
  <1>7. CASE LoCreate(c)
    BY <1>7 DEF LoCreate, TypeInv, TypeOK, Labels
  <1>8. CASE LoWrite(c)
    BY <1>8, CallFacts DEF LoWrite, TypeInv, TypeOK, Labels
  <1>9. CASE LoClose(c)
    BY <1>9 DEF LoClose, TypeInv, TypeOK, Labels
  <1>10. CASE InsertRow(c)
    <2>1. PICK R \in SUBSET RowSet : put' = [put EXCEPT ![c] = R]
      BY <1>10, InsertedRows
    <2>2. put' \in [Clients -> SUBSET RowSet]
      BY <2>1 DEF TypeInv, TypeOK
    <2> QED
      BY <1>10, <2>2 DEF InsertRow, TypeInv, TypeOK, Labels
  <1>11. CASE Commit(c, [kind |-> "saved", size |-> total[c], content |-> <<>>])
    <2>1. [kind |-> "saved", size |-> total[c], content |-> <<>>] \in AnswerSet
      BY DEF AnswerSet, TypeInv, TypeOK
    <2> QED
      BY <1>11, <2>1, TypeCommit
  <1> QED
    BY <1>1, <1>2, <1>3, <1>4, <1>5, <1>6, <1>7, <1>8, <1>9, <1>10, <1>11 DEF Save

(***************************************************************************)
(* The steps of delete keep the types.                                     *)
(***************************************************************************)
LEMMA TypeDelete ==
    ASSUME TypeInv, NEW c \in Clients, Delete(c)
    PROVE  TypeInv'
  <1> USE DEF Go, table, objects, txn, locals, budget
  <1>1. CASE DeleteSelect(c)
    BY <1>1 DEF DeleteSelect, SelectLoid, RowsOf, RowSet, TypeInv, TypeOK, Labels
  <1>2. CASE LoUnlink(c, "delete")
    BY <1>2 DEF LoUnlink, TypeInv, TypeOK, Labels
  <1>3. CASE LoUnlinkFails(c)
    BY <1>3, TypeRaise DEF LoUnlinkFails, TypeInv, TypeOK
  <1>4. CASE DeleteRow(c, "commit")
    BY <1>4 DEF DeleteRow, TypeInv, TypeOK, Labels
  <1>5. CASE DeleteRowBlocks(c)
    BY <1>5 DEF DeleteRowBlocks, RowsOf, RowSet, TypeInv, TypeOK, Labels
  <1>6. CASE DeleteRowWakes(c, "commit")
    BY <1>6 DEF DeleteRowWakes, SeenGone, TypeInv, TypeOK, Labels
  <1>7. CASE Commit(c, Plain("deleted"))
    <2>1. Plain("deleted") \in AnswerSet
      BY PlainTyped
    <2> QED
      BY <1>7, <2>1, TypeCommit
  <1> QED
    BY <1>1, <1>2, <1>3, <1>4, <1>5, <1>6, <1>7 DEF Delete

(***************************************************************************)
(* The steps of open, exists and size keep the types.                      *)
(***************************************************************************)
LEMMA TypeRead ==
    ASSUME TypeInv, NEW c \in Clients, Open(c) \/ Exists(c) \/ Size(c)
    PROVE  TypeInv'
  <1> USE DEF Go, table, objects, txn, locals, budget
  <1>1. CASE Probe(c)
    <2>1. answer' \in [Clients -> AnswerSet]
      BY <1>1, PlainTyped DEF Probe, TypeInv, TypeOK
    <2> QED
      BY <1>1, <2>1 DEF Probe, SelectLoid, RowsOf, RowSet, TypeInv, TypeOK, Labels
  <1>2. CASE LoOpen(c)
    BY <1>2 DEF LoOpen, TypeInv, TypeOK, Labels
  <1>3. CASE LoOpenFails(c)
    BY <1>3, TypeRaise DEF LoOpenFails, TypeInv, TypeOK
  <1>4. CASE LoRead(c)
    BY <1>4 DEF LoRead, TypeInv, TypeOK, Labels
  <1>5. CASE StreamEnd(c)
    BY <1>5 DEF StreamEnd, AnswerSet, TypeInv, TypeOK, Labels
  <1>6. CASE Exists(c)
    <2>1. answer' \in [Clients -> AnswerSet]
      BY <1>6, PlainTyped DEF Exists, TypeInv, TypeOK
    <2> QED
      BY <1>6, <2>1 DEF Exists, TypeInv, TypeOK, Labels
  <1>7. CASE Size(c)
    <2>1. answer' \in [Clients -> AnswerSet]
      <3>1. \A r \in rows : [kind |-> "size", size |-> r.size, content |-> <<>>] \in AnswerSet
        BY DEF TypeInv, TypeOK, RowSet, AnswerSet
      <3> QED
        BY <1>7, <3>1, PlainTyped DEF Size, RowsOf, TypeInv, TypeOK
    <2> QED
      BY <1>7, <2>1 DEF Size, TypeInv, TypeOK, Labels
  <1> QED
    BY <1>1, <1>2, <1>3, <1>4, <1>5, <1>6, <1>7 DEF Open

(***************************************************************************)
(* The steps that belong to no operation keep the types.                   *)
(***************************************************************************)
LEMMA TypeOther ==
    ASSUME TypeInv, NEW c \in Clients, Call(c) \/ Return(c) \/ Fault(c)
    PROVE  TypeInv'
  <1> USE DEF Go, table, objects, txn, locals, budget
  <1>1. CASE Call(c)
    <2>1. <<>> \in Seq(Chunks) /\ Plain("none") \in AnswerSet
      BY PlainTyped
    <2>2. PICK k \in CallSet : /\ call' = [call EXCEPT ![c] = k]
                               /\ pc' = [pc EXCEPT ![c] = FirstStatement(k.op)]
      BY <1>1 DEF Call
    <2>3. FirstStatement(k.op) \in {"select", "probe", "query"}
      BY <2>2, CallFacts DEF FirstStatement
    <2> QED
      BY <1>1, <2>1, <2>2, <2>3 DEF Call, TypeInv, TypeOK, Labels
  <1>2. CASE Return(c)
    BY <1>2 DEF Return, TypeInv, TypeOK, Labels
  <1>3. CASE Fault(c)
    BY <1>3, TypeRaise DEF Fault, TypeInv, TypeOK
  <1> QED
    BY <1>1, <1>2, <1>3

(***************************************************************************)
(* Every step keeps the types, and so does stuttering.                     *)
(***************************************************************************)
LEMMA TypeNext == TypeInv /\ [Next]_vars => TypeInv'
  <1> SUFFICES ASSUME TypeInv, [Next]_vars PROVE TypeInv'
    OBVIOUS
  <1>1. CASE UNCHANGED vars
    BY <1>1 DEF vars, table, objects, txn, locals, budget, TypeInv, TypeOK
  <1>2. CASE Next
    BY <1>1, <1>2, TypeSave, TypeDelete, TypeRead, TypeOther DEF Next, Run, Finished
  <1> QED
    BY <1>1, <1>2

(***************************************************************************)
(* So TypeInv is an invariant.                                             *)
(***************************************************************************)
LEMMA TypeInvariant == Spec => []TypeInv
  <1> QED
    BY TypeInit, TypeNext, PTL DEF Spec

(***************************************************************************)
(* Every variable of the backend and of its calls keeps its type.          *)
(***************************************************************************)
THEOREM TypeCorrect == Spec => []TypeOK
  <1>1. TypeInv => TypeOK
    BY DEF TypeInv
  <1> QED
    BY <1>1, TypeInvariant, PTL

-----------------------------------------------------------------------------
(* Rows and objects.  A step of c leaves the state of the other clients    *)
(* alone; what is left to prove of most steps is about c.                  *)

Frame(c) ==
    \A d \in Clients \ {c} :
        /\ pc'[d] = pc[d] /\ call'[d] = call[d]
        /\ old'[d] = old[d] /\ oid'[d] = oid[d] /\ total'[d] = total[d] /\ seen'[d] = seen[d]
        /\ unlinked'[d] = unlinked[d] /\ touched'[d] = touched[d] /\ put'[d] = put[d]

(***************************************************************************)
(* A step of c that changes neither the tables nor the objects keeps       *)
(* StoreInv if it keeps the part about c, takes a row lock only when no    *)
(* other transaction has it, and learns only of committed objects.         *)
(***************************************************************************)
LEMMA LocalStep ==
    ASSUME StoreInv, TypeOK', NEW c \in Clients, Frame(c),
           UNCHANGED <<rows, live, used, data>>,
           ClientInv(c)',
           touched'[c] => call'[c].name = call[c].name /\ (touched[c] \/ RowHolders(c) = {}),
           Creating(c)' => Creating(c) /\ oid'[c] = oid[c],
           Handles(c)' \subseteq Handles(c) \union live
    PROVE  StoreInv'
  <1>1. \A d \in Clients \ {c} : /\ Handles(d)' = Handles(d)
                                 /\ Creating(d)' <=> Creating(d)
    BY DEF Frame, Handles, Creating
  <1>2. \A d \in Clients : Handles(d)' \subseteq used'
    BY <1>1 DEF StoreInv
  <1>3. \A d \in Clients \ {c} : ClientInv(d)'
    <2> SUFFICES ASSUME NEW d \in Clients \ {c} PROVE ClientInv(d)'
      OBVIOUS
    <2>1. ClientInv(d)
      BY DEF StoreInv
    <2> QED
      BY <1>1, <2>1 DEF Frame, ClientInv, Bound, LocksHeld, PutIsOwn, UnlinksOwnRow, WrittenSoFar
  <1>4. \A d \in Clients : FreshObject(d)'
    <2> SUFFICES ASSUME NEW d \in Clients, Creating(d)' PROVE FreshObject(d)'
      BY DEF FreshObject
    <2>1. Creating(d) /\ oid'[d] = oid[d]
      BY <1>1 DEF Frame
    <2>2. FreshObject(d)
      BY DEF StoreInv
    <2>3. \A e \in Clients : oid[d] \notin Handles(e)'
      BY <1>1, <2>1, <2>2 DEF FreshObject
    <2>4. \A e \in Clients : Creating(e)' => Creating(e) /\ oid'[e] = oid[e]
      BY <1>1 DEF Frame
    <2> QED
      BY <2>1, <2>2, <2>3, <2>4 DEF FreshObject
  <1>5. OneToucher'
    BY DEF StoreInv, OneToucher, Frame, RowHolders
  <1> QED
    BY <1>2, <1>3, <1>4, <1>5 DEF StoreInv, RowHasObject, RowDescribesObject

(***************************************************************************)
(* The statements that find the row, lock it, or fail, one by one.         *)
(***************************************************************************)
LEMMA StepSelect ==
    ASSUME StoreInv, TypeOK', NEW c \in Clients,
           \/ SaveSelect(c) /\ call[c].op = "save"
           \/ DeleteSelect(c) /\ call[c].op = "delete"
    PROVE  StoreInv'
  <1>1. /\ UNCHANGED <<rows, live, data, used, unlinked, touched, put, call, oid, total, seen>>
        /\ pc[c] = "select"
        /\ \/ /\ pc' = [pc EXCEPT ![c] = "unlink"]
              /\ \E r \in rows : r.name = call[c].name /\ old' = [old EXCEPT ![c] = r.loid]
           \/ /\ pc' = [pc EXCEPT ![c] = "create"]
              /\ old' = [old EXCEPT ![c] = None]
           \/ /\ pc' = [pc EXCEPT ![c] = "commit"]
              /\ old' = [old EXCEPT ![c] = None]
              /\ call[c].op = "delete"
    BY DEF SaveSelect, DeleteSelect, SelectLoid, RowsOf, Go, table, objects, txn
  <1>2. pc \in [Clients -> Labels] /\ old \in [Clients -> Oids \union {None}]
    BY DEF StoreInv, TypeOK
  <1>3. ClientInv(c) /\ unlinked[c] = {} /\ put[c] = {} /\ ~touched[c]
    BY <1>1 DEF StoreInv, ClientInv, LocksHeld, PutIsOwn
  <1>4. Frame(c)
    BY <1>1, <1>2 DEF Frame
  <1>5. ~Creating(c)'
    BY <1>1, <1>2 DEF Creating
  <1>6. CASE pc' = [pc EXCEPT ![c] = "unlink"]
    <2>1. PICK r \in rows : r.name = call[c].name /\ old' = [old EXCEPT ![c] = r.loid]
      BY <1>1, <1>2, <1>6
    <2>2. pc'[c] = "unlink" /\ old'[c] = r.loid
      BY <1>2, <1>6, <2>1
    <2>3. Handles(c)' = {r.loid} /\ r.loid \in live
      BY <2>2 DEF Handles, StoreInv, RowHasObject
    <2>4. UnlinksOwnRow(c)'
      BY <1>1, <2>1, <2>2, <2>3 DEF UnlinksOwnRow, StoreInv, RowHasObject
    <2>5. ClientInv(c)'
      BY <1>1, <1>3, <1>5, <2>2, <2>3, <2>4
         DEF ClientInv, Bound, LocksHeld, PutIsOwn, WrittenSoFar, StoreInv
    <2> QED
      BY <1>1, <1>3, <1>4, <1>5, <2>3, <2>5, LocalStep
  <1>7. CASE pc' # [pc EXCEPT ![c] = "unlink"]
    <2>1. pc'[c] \in {"create", "commit"}
      BY <1>1, <1>2, <1>7
    <2>2. Handles(c)' = {}
      BY <1>1, <1>3, <2>1 DEF Handles
    <2>3. ClientInv(c)'
      BY <1>1, <1>3, <1>5, <2>1, <2>2
         DEF ClientInv, Bound, LocksHeld, PutIsOwn, UnlinksOwnRow, WrittenSoFar
    <2> QED
      BY <1>1, <1>3, <1>4, <1>5, <2>2, <2>3, LocalStep
  <1> QED
    BY <1>6, <1>7

(***************************************************************************)
(* lo_unlink: the object is that of the row the transaction is about to    *)
(* delete.                                                                 *)
(***************************************************************************)
LEMMA StepLoUnlink ==
    ASSUME StoreInv, TypeOK', NEW c \in Clients, LoUnlink(c, "delete")
    PROVE  StoreInv'
  <1>1. /\ UNCHANGED <<rows, live, data, used, touched, put, call, old, oid, total, seen>>
        /\ pc[c] = "unlink"
        /\ old[c] \in live
        /\ pc' = [pc EXCEPT ![c] = "delete"]
        /\ unlinked' = [unlinked EXCEPT ![c] = @ \union {old[c]}]
    BY DEF LoUnlink, Go, table, objects, locals
  <1>2. pc \in [Clients -> Labels] /\ unlinked \in [Clients -> SUBSET Oids]
    BY DEF StoreInv, TypeOK
  <1>3. ClientInv(c) /\ put[c] = {} /\ ~touched[c] /\ unlinked[c] = {}
    BY <1>1 DEF StoreInv, ClientInv, LocksHeld, PutIsOwn
  <1>4. pc'[c] = "delete" /\ Handles(c)' = Handles(c)
    BY <1>1, <1>2, <1>3 DEF Handles
  <1>5. Frame(c) /\ ~Creating(c)'
    BY <1>1, <1>2, <1>4 DEF Frame, Creating
  <1>6. ClientInv(c)'
    BY <1>1, <1>3, <1>4, <1>5 DEF ClientInv, Bound, LocksHeld, PutIsOwn, UnlinksOwnRow, WrittenSoFar
  <1> QED
    BY <1>1, <1>3, <1>4, <1>5, <1>6, LocalStep

(***************************************************************************)
(* DELETE takes the lock of the row of its name, or finds none.            *)
(***************************************************************************)
LEMMA StepDeleteRow ==
    ASSUME StoreInv, TypeOK', NEW c \in Clients,
           \/ DeleteRow(c, "create") /\ call[c].op = "save"
           \/ DeleteRow(c, "commit") /\ call[c].op = "delete"
    PROVE  StoreInv'
  <1>1. /\ UNCHANGED <<rows, live, data, used, unlinked, put, call, old, oid, total, seen>>
        /\ pc[c] = "delete"
        /\ RowsOf(call[c].name) = {} \/ RowHolders(c) = {}
        /\ touched' = [touched EXCEPT ![c] = RowsOf(call[c].name) # {}]
        /\ \/ pc' = [pc EXCEPT ![c] = "create"]
           \/ pc' = [pc EXCEPT ![c] = "commit"] /\ call[c].op = "delete"
    BY DEF DeleteRow, Go, table, objects, locals
  <1>2. pc \in [Clients -> Labels] /\ touched \in [Clients -> BOOLEAN]
    BY DEF StoreInv, TypeOK
  <1>3. ClientInv(c) /\ put[c] = {}
    BY <1>1 DEF StoreInv, ClientInv, PutIsOwn
  <1>4. /\ pc'[c] \in {"create", "commit"}
        /\ touched'[c] <=> RowsOf(call[c].name) # {}
        /\ Handles(c)' = Handles(c)
    BY <1>1, <1>2 DEF Handles
  <1>5. Frame(c) /\ ~Creating(c)'
    BY <1>1, <1>2 DEF Frame, Creating
  <1>6. UnlinksOwnRow(c)'
    BY <1>1, <1>3, <1>4 DEF ClientInv, UnlinksOwnRow, RowsOf
  <1>7. ClientInv(c)'
    BY <1>1, <1>3, <1>4, <1>5, <1>6 DEF ClientInv, Bound, LocksHeld, PutIsOwn, WrittenSoFar
  <1> QED
    BY <1>1, <1>4, <1>5, <1>7, LocalStep

(***************************************************************************)
(* DELETE waits for the row that another transaction holds.                *)
(***************************************************************************)
LEMMA StepDeleteRowBlocks ==
    ASSUME StoreInv, TypeOK', NEW c \in Clients, DeleteRowBlocks(c)
    PROVE  StoreInv'
  <1>1. /\ UNCHANGED <<rows, live, data, used, unlinked, touched, put, call, old, oid, total>>
        /\ pc[c] = "delete"
        /\ pc' = [pc EXCEPT ![c] = "deleteWait"]
    BY DEF DeleteRowBlocks, Go, table, objects, txn
  <1>2. PICK r \in rows : r.name = call[c].name /\ seen' = [seen EXCEPT ![c] = r.rid]
    BY DEF DeleteRowBlocks, RowsOf
  <1>3. pc \in [Clients -> Labels] /\ seen \in [Clients -> Oids \union {None}]
    BY DEF StoreInv, TypeOK
  <1>4. ClientInv(c) /\ put[c] = {} /\ ~touched[c]
    BY <1>1 DEF StoreInv, ClientInv, PutIsOwn, LocksHeld
  <1>5. pc'[c] = "deleteWait" /\ seen'[c] = r.rid /\ Handles(c)' = Handles(c)
    BY <1>1, <1>2, <1>3 DEF Handles
  <1>6. Frame(c) /\ ~Creating(c)'
    BY <1>1, <1>2, <1>3 DEF Frame, Creating
  <1>7. UnlinksOwnRow(c)'
    BY <1>1, <1>2, <1>4, <1>5 DEF ClientInv, UnlinksOwnRow, StoreInv, RowHasObject
  <1>8. ClientInv(c)'
    BY <1>1, <1>4, <1>5, <1>6, <1>7 DEF ClientInv, Bound, LocksHeld, PutIsOwn, WrittenSoFar
  <1> QED
    BY <1>1, <1>4, <1>5, <1>6, <1>8, LocalStep

(***************************************************************************)
(* DELETE goes on with the row it has waited for, or without it.           *)
(***************************************************************************)
LEMMA StepDeleteRowWakes ==
    ASSUME StoreInv, TypeOK', NEW c \in Clients,
           \/ DeleteRowWakes(c, "create") /\ call[c].op = "save"
           \/ DeleteRowWakes(c, "commit") /\ call[c].op = "delete"
    PROVE  StoreInv'
  <1>1. /\ UNCHANGED <<rows, live, data, used, unlinked, put, call, old, oid, total, seen>>
        /\ pc[c] = "deleteWait"
        /\ SeenGone(c) \/ RowHolders(c) = {}
        /\ touched' = [touched EXCEPT ![c] = ~SeenGone(c)]
        /\ \/ pc' = [pc EXCEPT ![c] = "create"]
           \/ pc' = [pc EXCEPT ![c] = "commit"] /\ call[c].op = "delete"
    BY DEF DeleteRowWakes, Blocked, Go, table, objects, locals
  <1>2. pc \in [Clients -> Labels] /\ touched \in [Clients -> BOOLEAN]
    BY DEF StoreInv, TypeOK
  <1>3. ClientInv(c) /\ put[c] = {}
    BY <1>1 DEF StoreInv, ClientInv, PutIsOwn
  <1>4. /\ pc'[c] \in {"create", "commit"}
        /\ touched'[c] <=> ~SeenGone(c)
        /\ Handles(c)' = Handles(c)
    BY <1>1, <1>2 DEF Handles
  <1>5. Frame(c) /\ ~Creating(c)'
    BY <1>1, <1>2 DEF Frame, Creating
  <1>6. UnlinksOwnRow(c)'
    BY <1>1, <1>3, <1>4 DEF ClientInv, UnlinksOwnRow, SeenGone
  <1>7. ClientInv(c)'
    BY <1>1, <1>3, <1>4, <1>5, <1>6 DEF ClientInv, Bound, LocksHeld, PutIsOwn, WrittenSoFar
  <1> QED
    BY <1>1, <1>4, <1>5, <1>7, LocalStep

(***************************************************************************)
(* The end of the write loop: all chunks of the content are written.       *)
(***************************************************************************)
LEMMA StepLoClose ==
    ASSUME StoreInv, TypeOK', NEW c \in Clients, LoClose(c), call[c].op = "save"
    PROVE  StoreInv'
  <1>1. /\ UNCHANGED <<rows, live, data, used, unlinked, touched, put, call, old, oid, total, seen>>
        /\ pc[c] = "write" /\ total[c] = Len(call[c].content)
        /\ pc' = [pc EXCEPT ![c] = "insert"]
    BY DEF LoClose, Go, table, objects, txn, locals
  <1>2. pc \in [Clients -> Labels] /\ ClientInv(c)
    BY DEF StoreInv, TypeOK
  <1>3. /\ pc'[c] = "insert" /\ Frame(c) /\ Handles(c)' = Handles(c)
        /\ Creating(c) /\ Creating(c)'
    BY <1>1, <1>2 DEF Frame, Handles, Creating
  <1>4. ClientInv(c)'
    BY <1>1, <1>2, <1>3 DEF ClientInv, Bound, LocksHeld, PutIsOwn, UnlinksOwnRow, WrittenSoFar
  <1> QED
    BY <1>1, <1>2, <1>3, <1>4, LocalStep

(***************************************************************************)
(* INSERT leaves one row to commit, for the object just written.           *)
(***************************************************************************)
LEMMA StepInsertRow ==
    ASSUME StoreInv, TypeInv, TypeOK', NEW c \in Clients, InsertRow(c), call[c].op = "save"
    PROVE  StoreInv'
  <1>1. /\ UNCHANGED <<rows, live, data, used, unlinked, call, old, oid, total, seen>>
        /\ pc[c] = "insert" /\ RowHolders(c) = {}
        /\ pc' = [pc EXCEPT ![c] = "commit"]
        /\ touched' = [touched EXCEPT ![c] = TRUE]
    BY DEF InsertRow, Blocked, Go, table, objects, locals
  <1>2. /\ pc \in [Clients -> Labels] /\ put \in [Clients -> SUBSET RowSet]
        /\ touched \in [Clients -> BOOLEAN] /\ ClientInv(c)
    BY DEF StoreInv, TypeOK
  <1>3. PICK R : /\ put' = [put EXCEPT ![c] = R]
                 /\ \A r \in R : r.name = call[c].name /\ r.loid = oid[c] /\ r.size = total[c]
                 /\ \A r, s \in R : r = s
    BY InsertedRows DEF StoreInv, RowHasObject
  <1>4. /\ pc'[c] = "commit" /\ put'[c] = R /\ touched'[c]
        /\ Frame(c) /\ Handles(c)' = Handles(c)
        /\ Creating(c) /\ Creating(c)'
    BY <1>1, <1>2, <1>3 DEF Frame, Handles, Creating
  <1>5. PutIsOwn(c)'
    BY <1>1, <1>3, <1>4 DEF PutIsOwn
  <1>6. ClientInv(c)'
    BY <1>1, <1>2, <1>4, <1>5 DEF ClientInv, Bound, LocksHeld, UnlinksOwnRow, WrittenSoFar
  <1> QED
    BY <1>1, <1>4, <1>6, LocalStep

(***************************************************************************)
(* A step into a state of c that holds nothing.                            *)
(***************************************************************************)
LEMMA StepQuiet ==
    ASSUME StoreInv, TypeOK', NEW c \in Clients, Frame(c),
           UNCHANGED <<rows, live, used, data>>,
           pc'[c] \in {"idle", "select", "probe", "query", "opened", "stream", "reply"},
           pc'[c] \in {"opened", "stream"} => old'[c] \in used,
           pc'[c] = "select" => total'[c] = 0,
           unlinked'[c] = {}, put'[c] = {}, ~touched'[c]
    PROVE  StoreInv'
  <1>1. ~Creating(c)' /\ Handles(c)' = {}
    BY DEF Creating, Handles
  <1>2. ClientInv(c)'
    BY <1>1 DEF ClientInv, Bound, LocksHeld, PutIsOwn, UnlinksOwnRow, WrittenSoFar
  <1> QED
    BY <1>1, <1>2, LocalStep

(***************************************************************************)
(* A call that ends with an exception releases what it has locked.         *)
(***************************************************************************)
LEMMA StepRaise ==
    ASSUME StoreInv, TypeOK', NEW c \in Clients, Raise(c, "error")
    PROVE  StoreInv'
  <1>1. /\ UNCHANGED <<rows, live, data, used, call, old, oid, total, seen>>
        /\ pc' = [pc EXCEPT ![c] = "idle"]
        /\ unlinked' = [unlinked EXCEPT ![c] = {}]
        /\ touched' = [touched EXCEPT ![c] = FALSE]
        /\ put' = [put EXCEPT ![c] = {}]
    BY DEF Raise, Rollback, EndTxn, Go, table, objects, locals
  <1>2. /\ pc \in [Clients -> Labels] /\ unlinked \in [Clients -> SUBSET Oids]
        /\ touched \in [Clients -> BOOLEAN] /\ put \in [Clients -> SUBSET RowSet]
    BY DEF StoreInv, TypeOK
  <1>3. /\ pc'[c] = "idle" /\ unlinked'[c] = {} /\ put'[c] = {} /\ ~touched'[c] /\ Frame(c)
    BY <1>1, <1>2 DEF Frame
  <1> QED
    BY <1>1, <1>3, StepQuiet

(***************************************************************************)
(* The steps that write: lo_create, lowrite and COMMIT.                    *)
(***************************************************************************)
LEMMA StepLoCreate ==
    ASSUME StoreInv, TypeOK', NEW c \in Clients, LoCreate(c), call[c].op = "save"
    PROVE  StoreInv'
  <1>1. PICK o \in Oids \ used : /\ used' = used \union {o}
                                 /\ oid' = [oid EXCEPT ![c] = o]
                                 /\ data' = [data EXCEPT ![o] = <<>>]
    BY DEF LoCreate
  <1>2. /\ UNCHANGED <<rows, live, unlinked, touched, put, call, old, total, seen>>
        /\ pc[c] = "create"
        /\ pc' = [pc EXCEPT ![c] = "write"]
    BY DEF LoCreate, Go, table, txn
  <1>3. /\ pc \in [Clients -> Labels] /\ oid \in [Clients -> Oids \union {None}]
        /\ data \in [Oids -> Seq(Chunks)]
        /\ call[c] \in CallSet
        /\ \A d \in Clients : ClientInv(d) /\ FreshObject(d) /\ Handles(d) \subseteq used
        /\ live \subseteq used
    BY DEF StoreInv, TypeOK
  <1>4. /\ pc'[c] = "write" /\ oid'[c] = o /\ data'[o] = <<>> /\ Frame(c)
        /\ \A d \in Clients : Handles(d)' = Handles(d)
        /\ Creating(c)' /\ ~Creating(c)
        /\ \A d \in Clients \ {c} : Creating(d)' <=> Creating(d)
    BY <1>1, <1>2, <1>3 DEF Frame, Handles, Creating
  <1>5. \A d \in Clients \ {c} : Creating(d) => oid'[d] = oid[d] /\ oid[d] \in used
    BY <1>3, <1>4 DEF Frame, ClientInv, Bound
  <1>6. ClientInv(c)'
    <2>1. call[c].content \in Seq(Chunks)
      BY <1>3, CallFacts
    <2>2. WrittenSoFar(c)'
      BY <1>2, <1>3, <1>4, <2>1 DEF ClientInv, WrittenSoFar
    <2>3. put[c] = {}
      BY <1>2, <1>3 DEF ClientInv, PutIsOwn
    <2> QED
      BY <1>1, <1>2, <1>3, <1>4, <2>2, <2>3 DEF ClientInv, Bound, LocksHeld, PutIsOwn, UnlinksOwnRow
  <1>7. \A d \in Clients \ {c} : ClientInv(d)'
    <2> SUFFICES ASSUME NEW d \in Clients \ {c} PROVE ClientInv(d)'
      OBVIOUS
    <2>1. Creating(d) => data'[oid'[d]] = data[oid[d]]
      BY <1>1, <1>3, <1>5
    <2>3. /\ Creating(d)' <=> Creating(d)
          /\ pc'[d] = pc[d] /\ total'[d] = total[d] /\ call'[d] = call[d]
          /\ WrittenSoFar(d)
      BY <1>3, <1>4 DEF Frame, ClientInv
    <2>2. WrittenSoFar(d)'
      BY <2>1, <2>3 DEF WrittenSoFar
    <2>4. Bound(d)'
      BY <1>1, <1>3, <1>4, <1>5, <2>3 DEF Frame, ClientInv, Bound
    <2>5. LocksHeld(d)' /\ PutIsOwn(d)'
      BY <1>3, <1>4, <1>5, <2>3 DEF Frame, ClientInv, LocksHeld, PutIsOwn
    <2>6. UnlinksOwnRow(d)'
      BY <1>2, <1>3, <1>4 DEF Frame, ClientInv, UnlinksOwnRow
    <2> QED
      BY <2>2, <2>4, <2>5, <2>6 DEF ClientInv
  <1>8. \A d \in Clients : FreshObject(d)'
    <2>1. FreshObject(c)'
      BY <1>1, <1>2, <1>3, <1>4, <1>5 DEF FreshObject
    <2>2. \A d \in Clients \ {c} : FreshObject(d)'
      BY <1>1, <1>2, <1>3, <1>4, <1>5 DEF FreshObject
    <2> QED
      BY <2>1, <2>2
  <1>9. RowDescribesObject'
    BY <1>1, <1>2, <1>3 DEF StoreInv, RowDescribesObject, RowHasObject
  <1> QED
    BY <1>1, <1>2, <1>3, <1>4, <1>6, <1>7, <1>8, <1>9 DEF StoreInv, OneToucher, RowHasObject

(***************************************************************************)
(* lowrite: the object holds one more chunk of the content.                *)
(***************************************************************************)
LEMMA StepLoWrite ==
    ASSUME StoreInv, TypeOK', NEW c \in Clients, LoWrite(c), call[c].op = "save"
    PROVE  StoreInv'
  <1> DEFINE s == call[c].content
             o == oid[c]
  <1>1. /\ UNCHANGED <<rows, live, used, unlinked, touched, put, pc, call, old, oid, seen>>
        /\ pc[c] = "write" /\ total[c] < Len(s)
        /\ data' = [data EXCEPT ![o] = Append(@, s[total[c] + 1])]
        /\ total' = [total EXCEPT ![c] = @ + 1]
    BY DEF LoWrite, table, txn
  <1>2. /\ data \in [Oids -> Seq(Chunks)] /\ total \in [Clients -> Nat]
        /\ call[c] \in CallSet /\ used \subseteq Oids
        /\ \A d \in Clients : ClientInv(d) /\ FreshObject(d)
    BY DEF StoreInv, TypeOK
  <1>3. /\ Frame(c) /\ Creating(c)
        /\ \A d \in Clients : (Handles(d)' = Handles(d)) /\ (Creating(d)' <=> Creating(d))
    BY <1>1, <1>2 DEF Frame, Handles, Creating
  <1>4. o \in Oids /\ s \in Seq(Chunks) /\ data[o] \in Seq(Chunks)
    BY <1>2, <1>3, CallFacts DEF ClientInv, Bound
  <1>5. WrittenSoFar(c)'
    <2>1. /\ Len(data[o]) = total[c]
          /\ \A i \in 1 .. total[c] : data[o][i] = s[i]
      BY <1>2, <1>3 DEF ClientInv, WrittenSoFar
    <2>2. data'[o] = Append(data[o], s[total[c] + 1]) /\ total'[c] = total[c] + 1
      BY <1>1, <1>2, <1>4
    <2>3. s[total[c] + 1] \in Chunks
      BY <1>1, <1>2, <1>4
    <2>4. /\ Len(data'[o]) = total'[c]
          /\ \A i \in 1 .. total'[c] : data'[o][i] = s[i]
      BY <1>2, <1>4, <2>1, <2>2, <2>3
    <2>5. Len(s) \in Nat /\ total'[c] <= Len(s)
      BY <1>1, <1>2, <1>4, <2>2
    <2> QED
      BY <1>1, <2>4, <2>5 DEF WrittenSoFar
  <1>6. \A d \in Clients \ {c} : WrittenSoFar(d)'
    <2> SUFFICES ASSUME NEW d \in Clients \ {c} PROVE WrittenSoFar(d)'
      OBVIOUS
    <2>1. Creating(d) => oid[d] # o /\ oid[d] \in Oids
      BY <1>2, <1>3 DEF FreshObject, ClientInv, Bound
    <2>2. Creating(d) => data'[oid[d]] = data[oid[d]]
      BY <1>1, <1>2, <2>1
    <2>3. WrittenSoFar(d) /\ (Creating(d)' => Creating(d))
      BY <1>2, <1>3 DEF ClientInv
    <2> QED
      BY <1>3, <2>2, <2>3 DEF Frame, WrittenSoFar
  <1>7. \A d \in Clients : ClientInv(d)'
    <2>1. put[c] = {}
      BY <1>1, <1>2 DEF ClientInv, PutIsOwn
    <2>2. \A d \in Clients : Bound(d)' /\ LocksHeld(d)' /\ UnlinksOwnRow(d)'
      BY <1>1, <1>2, <1>3 DEF ClientInv, Bound, LocksHeld, UnlinksOwnRow
    <2>3. \A d \in Clients : PutIsOwn(d)'
      BY <1>1, <1>2, <1>3, <2>1 DEF Frame, ClientInv, PutIsOwn
    <2> QED
      BY <1>5, <1>6, <2>2, <2>3 DEF ClientInv
  <1>8. \A d \in Clients : FreshObject(d)'
    BY <1>1, <1>2, <1>3 DEF FreshObject
  <1>9. RowDescribesObject'
    <2>1. \A r \in rows : r.loid # o
      BY <1>2, <1>3 DEF FreshObject, StoreInv, RowHasObject
    <2> QED
      BY <1>1, <1>2, <2>1 DEF StoreInv, RowDescribesObject
  <1> QED
    BY <1>1, <1>3, <1>7, <1>8, <1>9 DEF StoreInv, OneToucher, RowHasObject

(***************************************************************************)
(* COMMIT takes the old row with its object away and brings the new ones,  *)
(* in one step.                                                            *)
(***************************************************************************)
LEMMA StepCommit ==
    ASSUME StoreInv, TypeOK', NEW c \in Clients, NEW reply, Commit(c, reply)
    PROVE  StoreInv'
  <1>1. /\ UNCHANGED <<data, used, call, old, oid, total, seen>>
        /\ pc[c] = "commit"
        /\ rows' = IF touched[c] THEN (rows \ RowsOf(call[c].name)) \union put[c] ELSE rows
        /\ live' = (live \ unlinked[c]) \union {r.loid : r \in put[c]}
        /\ pc' = [pc EXCEPT ![c] = "reply"]
        /\ unlinked' = [unlinked EXCEPT ![c] = {}]
        /\ touched' = [touched EXCEPT ![c] = FALSE]
        /\ put' = [put EXCEPT ![c] = {}]
    BY DEF Commit, EndTxn, Go, objects, locals
  <1>2. /\ pc \in [Clients -> Labels] /\ unlinked \in [Clients -> SUBSET Oids]
        /\ touched \in [Clients -> BOOLEAN] /\ put \in [Clients -> SUBSET RowSet]
        /\ data \in [Oids -> Seq(Chunks)] /\ call[c] \in CallSet
        /\ \A d \in Clients : ClientInv(d) /\ FreshObject(d) /\ Handles(d) \subseteq used
        /\ live \subseteq used /\ used \subseteq Oids
    BY DEF StoreInv, TypeOK
  <1>3. /\ pc'[c] = "reply" /\ unlinked'[c] = {} /\ put'[c] = {} /\ ~touched'[c] /\ Frame(c)
        /\ Handles(c) = unlinked[c] /\ Handles(c)' = {} /\ ~Creating(c)'
        /\ \A d \in Clients \ {c} : (Handles(d)' = Handles(d)) /\ (Creating(d)' <=> Creating(d))
    BY <1>1, <1>2 DEF Frame, Handles, Creating
  <1>4. \A r \in put[c] : /\ Creating(c) /\ r.name = call[c].name /\ r.loid = oid[c]
                          /\ r.size = total[c]
                          /\ r.loid \in used
    BY <1>1, <1>2 DEF ClientInv, PutIsOwn, Bound
  <1>5. \A r \in rows' : \/ /\ r \in rows
                            /\ r.loid \notin unlinked[c]
                            /\ touched[c] => r.name # call[c].name
                         \/ r \in put[c]
    BY <1>1, <1>2, <1>3 DEF RowsOf, ClientInv, UnlinksOwnRow
  <1>6. live' \subseteq used'
    BY <1>1, <1>2, <1>4
  <1>7. RowHasObject'
    <2>1. \A r \in rows' : r.loid \in live'
      <3>1. \A r \in put[c] : r.loid \in live'
        BY <1>1
      <3>2. \A r \in rows : r.loid \in live
        BY DEF StoreInv, RowHasObject
      <3>3. live \ unlinked[c] \subseteq live'
        BY <1>1
      <3> QED
        BY <1>5, <3>1, <3>2, <3>3
    <2>2. \A r \in rows, s \in put[c] : r.loid # s.loid
      BY <1>2, <1>4 DEF FreshObject, StoreInv, RowHasObject
    <2>3. \A r, s \in put[c] : r = s
      BY <1>2 DEF ClientInv, PutIsOwn
    <2>4. put[c] # {} /\ ~touched[c] => rows' = rows
      BY <1>1
    <2> QED
      BY <1>1, <1>4, <1>5, <2>1, <2>2, <2>3, <2>4 DEF StoreInv, RowHasObject
  <1>8. RowDescribesObject'
    <2>1. \A r \in put[c] : data[r.loid] \in Contents /\ r.size = Len(data[r.loid])
      <3> SUFFICES ASSUME NEW r \in put[c]
                   PROVE  data[r.loid] \in Contents /\ r.size = Len(data[r.loid])
        OBVIOUS
      <3>1. Creating(c) /\ r.loid = oid[c] /\ r.size = total[c] /\ oid[c] \in Oids
        BY <1>2, <1>4
      <3>2. call[c].content \in Contents /\ call[c].content \in Seq(Chunks)
        BY <1>2, <3>1, CallFacts DEF Creating
      <3>3. /\ Len(data[oid[c]]) = Len(call[c].content) /\ total[c] = Len(call[c].content)
            /\ \A i \in 1 .. Len(call[c].content) : data[oid[c]][i] = call[c].content[i]
        BY <1>1, <1>2, <3>1 DEF ClientInv, WrittenSoFar
      <3>4. data[oid[c]] \in Seq(Chunks)
        BY <1>2, <3>1
      <3>5. call[c].content = data[oid[c]]
        BY <3>2, <3>3, <3>4, SeqEqual
      <3> QED
        BY <3>1, <3>2, <3>3, <3>5
    <2> QED
      BY <1>1, <1>5, <2>1 DEF StoreInv, RowDescribesObject
  <1>9. ClientInv(c)'
    BY <1>3 DEF ClientInv, Bound, LocksHeld, PutIsOwn, UnlinksOwnRow, WrittenSoFar
  <1>10. \A d \in Clients \ {c} : ClientInv(d)'
    <2> SUFFICES ASSUME NEW d \in Clients \ {c} PROVE ClientInv(d)'
      OBVIOUS
    <2>1. \A r \in put[c] : r.loid \notin Handles(d)
      BY <1>2, <1>4 DEF FreshObject
    <2>2. UnlinksOwnRow(d)'
      <3> SUFFICES ASSUME NEW r \in rows', r.loid \in Handles(d)'
                   PROVE  (/\ r.name = call[d].name
                           /\ pc[d] = "deleteWait" => r.rid = seen[d]
                           /\ pc[d] \in {"create", "write", "insert", "commit"} => touched[d])'
        BY DEF UnlinksOwnRow
      <3>1. Handles(d)' = Handles(d)
        BY <1>3
      <3>2. r \in rows
        BY <1>5, <2>1, <3>1
      <3> QED
        BY <1>2, <1>3, <3>1, <3>2 DEF Frame, ClientInv, UnlinksOwnRow
    <2> QED
      BY <1>1, <1>2, <1>3, <2>2 DEF Frame, ClientInv, Bound, LocksHeld, PutIsOwn, WrittenSoFar
  <1>11. \A d \in Clients : FreshObject(d)'
    <2> SUFFICES ASSUME NEW d \in Clients, Creating(d)' PROVE FreshObject(d)'
      BY DEF FreshObject
    <2>1. d # c /\ Creating(d) /\ FreshObject(d)
      BY <1>2, <1>3
    <2>2. oid[d] \notin live'
      BY <1>1, <1>4, <2>1 DEF FreshObject
    <2> QED
      BY <1>1, <1>3, <2>1, <2>2 DEF FreshObject
  <1>12. OneToucher'
    BY <1>1, <1>3 DEF Frame, StoreInv, OneToucher
  <1>13. \A d \in Clients : Handles(d)' \subseteq used'
    BY <1>1, <1>2, <1>3
  <1> QED
    BY <1>6, <1>7, <1>8, <1>9, <1>10, <1>11, <1>12, <1>13 DEF StoreInv

(***************************************************************************)
(* The steps of open, exists and size, and the calls and returns, change   *)
(* only what a client that holds nothing remembers.                        *)
(***************************************************************************)
LEMMA StepReads ==
    ASSUME StoreInv, TypeInv, TypeOK', NEW c \in Clients,
           Open(c) \/ Exists(c) \/ Size(c) \/ Return(c)
    PROVE  StoreInv'
  <1>1. CASE LoOpenFails(c)
    BY <1>1, StepRaise DEF LoOpenFails
  <1>2. CASE Probe(c) \/ LoOpen(c) \/ LoRead(c) \/ StreamEnd(c) \/ Exists(c) \/ Size(c) \/ Return(c)
    <2>1. /\ UNCHANGED <<rows, live, data, used, unlinked, touched, put, call, oid, total, seen>>
          /\ pc[c] \in {"probe", "opened", "stream", "query", "reply"}
      BY <1>2 DEF Probe, SelectLoid, LoOpen, LoRead, StreamEnd, Exists, Size, Return, Go,
                  table, objects, txn, locals
    <2>2. ClientInv(c) /\ unlinked[c] = {} /\ put[c] = {} /\ ~touched[c]
      BY <2>1 DEF StoreInv, ClientInv, LocksHeld, PutIsOwn
    <2>3. pc \in [Clients -> Labels] /\ old \in [Clients -> Oids \union {None}]
      BY DEF StoreInv, TypeOK
    <2>4. CASE Probe(c)
      <3>1. \/ /\ pc' = [pc EXCEPT ![c] = "reply"]
               /\ old' = [old EXCEPT ![c] = None]
            \/ /\ pc' = [pc EXCEPT ![c] = "opened"]
               /\ \E r \in rows : old' = [old EXCEPT ![c] = r.loid]
        BY <2>4 DEF Probe, SelectLoid, RowsOf, Go
      <3>2. \A r \in rows : r.loid \in used
        BY DEF StoreInv, RowHasObject
      <3> QED
        BY <2>1, <2>2, <2>3, <3>1, <3>2, StepQuiet DEF Frame
    <2>5. CASE LoOpen(c) \/ LoRead(c) \/ StreamEnd(c) \/ Exists(c) \/ Size(c) \/ Return(c)
      <3>1. old' = old /\ \/ pc' = [pc EXCEPT ![c] = "reply"]
                          \/ pc' = [pc EXCEPT ![c] = "idle"]
                          \/ pc' = [pc EXCEPT ![c] = "stream"] /\ pc[c] = "opened"
                          \/ pc' = pc /\ pc[c] = "stream"
        BY <2>5 DEF LoOpen, LoRead, StreamEnd, Exists, Size, Return, Go, locals
      <3> QED
        BY <2>1, <2>2, <2>3, <3>1, StepQuiet DEF Frame, ClientInv, Bound
    <2> QED
      BY <1>2, <2>4, <2>5
  <1> QED
    BY <1>1, <1>2 DEF Open

(***************************************************************************)
(* A call begins with nothing locked and nothing created.                  *)
(***************************************************************************)
LEMMA StepCall ==
    ASSUME StoreInv, TypeOK', NEW c \in Clients, Call(c)
    PROVE  StoreInv'
  <1>1. PICK k \in CallSet : /\ call' = [call EXCEPT ![c] = k]
                             /\ pc' = [pc EXCEPT ![c] = FirstStatement(k.op)]
    BY DEF Call, Go
  <1>2. FirstStatement(k.op) \in {"select", "probe", "query"}
    BY <1>1, CallFacts DEF FirstStatement
  <1>3. /\ UNCHANGED <<rows, live, data, used, unlinked, touched, put>>
        /\ pc[c] = "idle"
        /\ old' = [old EXCEPT ![c] = None] /\ oid' = [oid EXCEPT ![c] = None]
        /\ seen' = [seen EXCEPT ![c] = None] /\ total' = [total EXCEPT ![c] = 0]
    BY DEF Call, table, objects, txn
  <1>4. unlinked[c] = {} /\ put[c] = {} /\ ~touched[c]
    BY <1>3 DEF StoreInv, ClientInv, LocksHeld, PutIsOwn
  <1>5. /\ pc \in [Clients -> Labels] /\ call \in [Clients -> CallSet]
        /\ old \in [Clients -> Oids \union {None}] /\ oid \in [Clients -> Oids \union {None}]
        /\ seen \in [Clients -> Oids \union {None}] /\ total \in [Clients -> Nat]
    BY DEF StoreInv, TypeOK
  <1>6. Frame(c) /\ pc'[c] \in {"select", "probe", "query"} /\ total'[c] = 0
    BY <1>1, <1>2, <1>3, <1>5 DEF Frame
  <1> QED
    BY <1>3, <1>4, <1>6, StepQuiet

(***************************************************************************)
(* StoreInv holds initially and every step keeps it.                       *)
(***************************************************************************)
LEMMA StoreInit == Init => StoreInv
  <1> SUFFICES ASSUME Init PROVE StoreInv
    OBVIOUS
  <1>1. TypeOK
    BY TypeInit DEF TypeInv
  <1>2. \A c \in Clients : pc[c] = "idle" /\ unlinked[c] = {} /\ put[c] = {} /\ ~touched[c]
    BY DEF Init
  <1>3. rows = {} /\ live = {}
    BY DEF Init
  <1>4. \A c \in Clients : ~Creating(c) /\ Handles(c) = {}
    BY <1>2 DEF Creating, Handles
  <1>5. \A c \in Clients : ClientInv(c) /\ FreshObject(c)
    BY <1>2, <1>3, <1>4
       DEF ClientInv, FreshObject, Bound, LocksHeld, PutIsOwn, UnlinksOwnRow, WrittenSoFar
  <1> QED
    BY <1>1, <1>2, <1>3, <1>4, <1>5 DEF StoreInv, OneToucher, RowHasObject, RowDescribesObject

(***************************************************************************)
(* Every step keeps StoreInv.                                              *)
(***************************************************************************)
LEMMA StoreStep == StoreInv /\ TypeInv /\ TypeInv' /\ [Next]_vars => StoreInv'
  <1> SUFFICES ASSUME StoreInv, TypeInv, TypeInv', [Next]_vars PROVE StoreInv'
    OBVIOUS
  <1>1. TypeOK'
    BY DEF TypeInv
  <1>2. CASE UNCHANGED vars
    <2>1. UNCHANGED <<rows, live, data, used, unlinked, touched, put, pc, call, old, oid, total, seen>>
      BY <1>2 DEF vars, table, objects, txn, locals
    <2>2. \A c \in Clients : Handles(c)' = Handles(c) /\ (Creating(c)' <=> Creating(c))
      BY <2>1 DEF Handles, Creating
    <2> QED
      BY <1>1, <2>1, <2>2
         DEF StoreInv, ClientInv, FreshObject, Bound, LocksHeld, PutIsOwn, UnlinksOwnRow,
             WrittenSoFar, OneToucher, RowHasObject, RowDescribesObject
  <1>3. ASSUME NEW c \in Clients, Save(c) PROVE StoreInv'
    BY <1>1, <1>3, StepSelect, StepLoUnlink, StepRaise, StepDeleteRow, StepDeleteRowBlocks,
       StepDeleteRowWakes, StepLoCreate, StepLoWrite, StepLoClose, StepInsertRow, StepCommit
       DEF Save, LoUnlinkFails
  <1>4. ASSUME NEW c \in Clients, Delete(c) PROVE StoreInv'
    BY <1>1, <1>4, StepSelect, StepLoUnlink, StepRaise, StepDeleteRow, StepDeleteRowBlocks,
       StepDeleteRowWakes, StepCommit DEF Delete, LoUnlinkFails
  <1>5. ASSUME NEW c \in Clients, Fault(c) PROVE StoreInv'
    BY <1>1, <1>5, StepRaise DEF Fault
  <1>6. CASE Next
    BY <1>1, <1>2, <1>3, <1>4, <1>5, <1>6, StepReads, StepCall DEF Next, Run, Finished
  <1> QED
    BY <1>2, <1>6

(***************************************************************************)
(* StoreInv is an invariant.  It is TypeOK, RowHasObject and               *)
(* RowDescribesObject together with what makes them inductive.             *)
(***************************************************************************)
THEOREM StoreCorrect == Spec => []StoreInv
  <1> QED
    BY TypeInvariant, StoreInit, StoreStep, PTL DEF Spec

(***************************************************************************)
(* No committed row dangles, and no two share an object or a name: the     *)
(* two statements with which save and delete change the table and the      *)
(* objects act as one.                                                     *)
(***************************************************************************)
THEOREM NoDanglingRow == Spec => []RowHasObject
  <1>1. StoreInv => RowHasObject
    BY DEF StoreInv
  <1> QED
    BY <1>1, StoreCorrect, PTL

(***************************************************************************)
(* No row describes a torn or partly written object: what is committed is  *)
(* the whole content of one save, and size is its length.                  *)
(***************************************************************************)
THEOREM NoTornFile == Spec => []RowDescribesObject
  <1>1. StoreInv => RowDescribesObject
    BY DEF StoreInv
  <1> QED
    BY <1>1, StoreCorrect, PTL

(***************************************************************************)
(* A transaction that holds a row waits for nothing.                       *)
(***************************************************************************)
LEMMA RowHolderNeverWaits ==
    ASSUME StoreInv, NEW c \in Clients, touched[c]
    PROVE  Blocked(c) = {}
  <1>1. pc[c] \in {"create", "write", "insert", "commit"}
    BY DEF StoreInv, ClientInv, LocksHeld
  <1>2. RowHolders(c) = {}
    BY DEF RowHolders, StoreInv, OneToucher
  <1> QED
    BY <1>1, <1>2 DEF Blocked

(***************************************************************************)
(* The order lo_unlink, DELETE, INSERT leaves no cycle of waits: a         *)
(* transaction that holds a row waits for nothing, and one that waits for  *)
(* an object holds none.                                                   *)
(***************************************************************************)
THEOREM NoDeadlock == Spec => []NoWaitCycle
  <1>1. StoreInv => NoWaitCycle
    <2> SUFFICES ASSUME StoreInv,
                        NEW S \in SUBSET Clients, S # {},
                        \A c \in S : \E d \in S : d \in Blocked(c)
                 PROVE  FALSE
      BY DEF NoWaitCycle
    <2>1. \A c \in S : ~touched[c]
      BY RowHolderNeverWaits
    <2>2. \A c \in S : pc[c] = "unlink"
      BY <2>1 DEF Blocked, RowHolders
    <2>3. \A c \in S : unlinked[c] = {}
      BY <2>2 DEF StoreInv, ClientInv, LocksHeld
    <2> QED
      BY <2>2, <2>3 DEF Blocked, ObjectHolders
  <1> QED
    BY <1>1, StoreCorrect, PTL

=============================================================================
