------------------------- MODULE StorageManagerProofs -------------------------
(***************************************************************************)
(* Proofs about StorageManager, for any number of tasks, names, backends,  *)
(* classes, storages, calls and faults.                                    *)
(***************************************************************************)
EXTENDS StorageManager, SequenceTheorems, TLAPS

-----------------------------------------------------------------------------
(* The inductive invariant.                                                *)

(***************************************************************************)
(* A storage built from a short name has the class its name still has.     *)
(***************************************************************************)
ClassKept ==
    \A m \in made : Import[m.backend] = None => registry[m.backend] = m.class

(***************************************************************************)
(* aclose_all has closed the storages it has passed.                       *)
(***************************************************************************)
ClosedSoFar ==
    \A t \in Tasks : pc[t] = "closing" =>
        \A j \in 1 .. Len(storages) : j < index[t] => storages[j].storage \in closed

(***************************************************************************)
(* A call of aclose_all has not answered while it awaits.                  *)
(***************************************************************************)
Awaiting == \A t \in Tasks : pc[t] = "closing" => answer[t] = "none"

ManagerInv == TypeOK /\ ClassKept /\ ClosedSoFar /\ Awaiting

-----------------------------------------------------------------------------
(* The dict of storages.                                                   *)

\* A registered name is known, and leads to the storage of its entry.
OneEntry ==
    \A i \in 1 .. Len(storages) :
        Known(storages[i].name) /\ Lookup(storages[i].name) = storages[i].storage

(***************************************************************************)
(* What a known name leads to is the storage of its one entry.             *)
(***************************************************************************)
LEMMA LookupEntry == TypeOK => OneEntry
  <1> SUFFICES ASSUME TypeOK, NEW i \in 1 .. Len(storages)
               PROVE  Known(storages[i].name) /\ Lookup(storages[i].name) = storages[i].storage
    BY DEF OneEntry
  <1> DEFINE e == storages[i]
  <1>1. e \in Entries
    BY DEF Entries
  <1>2. Known(e.name)
    BY <1>1 DEF Known
  <1>3. \A d \in Entries : d.name = e.name => d = e
    BY DEF Entries, TypeOK
  <1>4. (CHOOSE d \in Entries : d.name = e.name) = e
    BY <1>1, <1>3
  <1> QED
    BY <1>2, <1>4 DEF Lookup

(***************************************************************************)
(* A known name has an entry.                                              *)
(***************************************************************************)
LEMMA KnownEntry ==
    ASSUME TypeOK, NEW n, Known(n)
    PROVE  \E i \in 1 .. Len(storages) : storages[i].name = n
  BY DEF Known, Entries

(***************************************************************************)
(* An entry leads to a storage.                                            *)
(***************************************************************************)
LEMMA EntryTyped ==
    ASSUME TypeOK, NEW i \in 1 .. Len(storages)
    PROVE  storages[i].storage \in Instances
  <1>1. storages \in Seq([name : Names, storage : Instances])
    BY DEF TypeOK
  <1>2. storages[i] \in [name : Names, storage : Instances]
    BY <1>1, ElementOfSeq
  <1> QED
    BY <1>2

(***************************************************************************)
(* A lookup of a known name answers a storage.                             *)
(***************************************************************************)
LEMMA LookupTyped ==
    ASSUME TypeOK, NEW n, Known(n)
    PROVE  Lookup(n) \in Instances
  <1>1. PICK i \in 1 .. Len(storages) : storages[i].name = n
    BY KnownEntry
  <1>2. storages[i].storage \in Instances
    BY <1>1, EntryTyped
  <1> QED
    BY <1>1, <1>2, LookupEntry DEF OneEntry

(***************************************************************************)
(* Inserting a name that is not known appends an entry and keeps the names *)
(* distinct and all earlier entries where they are.                        *)
(***************************************************************************)
LEMMA InsertNew ==
    ASSUME TypeOK, NEW n \in Names, NEW i \in Instances, ~Known(n), Insert(n, i)
    PROVE  /\ storages' \in Seq([name : Names, storage : Instances])
           /\ Len(storages') = Len(storages) + 1
           /\ \A j \in 1 .. Len(storages) : storages'[j] = storages[j]
           /\ \A j, k \in 1 .. Len(storages') :
                 storages'[j].name = storages'[k].name => j = k
  <1> DEFINE new == [name |-> n, storage |-> i]
  <1>1. storages \in Seq([name : Names, storage : Instances]) /\ Len(storages) \in Nat
    BY DEF TypeOK
  <1>2. storages' = Append(storages, new) /\ new \in [name : Names, storage : Instances]
    BY DEF Insert
  <1>3. /\ storages' \in Seq([name : Names, storage : Instances])
        /\ Len(storages') = Len(storages) + 1
        /\ \A j \in 1 .. Len(storages) : storages'[j] = storages[j]
        /\ storages'[Len(storages) + 1] = new
    BY <1>1, <1>2
  <1>4. \A j \in 1 .. Len(storages) : storages[j].name # n
    BY DEF Known, Entries
  <1>5. ASSUME NEW j \in 1 .. Len(storages'), NEW k \in 1 .. Len(storages'),
               storages'[j].name = storages'[k].name
        PROVE  j = k
    <2>1. j \in 1 .. Len(storages) \/ j = Len(storages) + 1
      BY <1>1, <1>3
    <2>2. k \in 1 .. Len(storages) \/ k = Len(storages) + 1
      BY <1>1, <1>3
    <2>3. new.name = n
      OBVIOUS
    <2> QED
      BY <1>3, <1>4, <1>5, <2>1, <2>2, <2>3 DEF TypeOK
  <1> QED
    BY <1>3, <1>5

-----------------------------------------------------------------------------
(* The invariant is inductive.                                             *)

(***************************************************************************)
(* It holds at the start.                                                  *)
(***************************************************************************)
LEMMA ManagerInit == Init => ManagerInv
  <1> SUFFICES ASSUME Init PROVE ManagerInv
    OBVIOUS
  <1>1. <<>> \in Seq([name : Names, storage : Instances]) /\ Len(<<>>) = 0
    OBVIOUS
  <1>2. storages = <<>> /\ Len(storages) = 0
    BY <1>1 DEF Init
  <1>3. TypeOK
    <2>1. /\ storages \in Seq([name : Names, storage : Instances])
          /\ \A i, j \in 1 .. Len(storages) : storages[i].name = storages[j].name => i = j
      BY <1>1, <1>2
    <2>2. registry \in [Backends -> Classes \union {None}]
      BY ManagerAssumption DEF Init
    <2>3. /\ made \subseteq [storage : Instances, backend : Backends, class : Classes]
          /\ closed \subseteq Instances
          /\ attached \in BOOLEAN
          /\ pc \in [Tasks -> {"idle", "closing"}]
          /\ index \in [Tasks -> Nat]
          /\ size \in [Tasks -> Nat]
          /\ answer \in [Tasks -> Instances \union {"none", "done", "closed", "error"}]
          /\ calls \in Nat /\ faults \in Nat
      BY DEF Init
    <2>4. \A t \in Tasks : pc[t] # "closing"
      BY DEF Init
    <2> QED
      BY <2>1, <2>2, <2>3, <2>4 DEF TypeOK
  <1>4. ClassKept /\ ClosedSoFar /\ Awaiting
    BY DEF Init, ClassKept, ClosedSoFar, Awaiting
  <1> QED
    BY <1>3, <1>4 DEF ManagerInv

(***************************************************************************)
(* A registration changes the class of a name only if it had none.         *)
(***************************************************************************)
LEMMA StepRegister ==
    ASSUME ManagerInv, NEW t \in Tasks, NEW b \in Backends, NEW class \in Classes,
           RegisterBackend(t, b, class)
    PROVE  ManagerInv'
  <1> USE DEF ManagerInv, RegisterBackend, Called, Reply, iteration
  <1>1. TypeOK'
    <2>1. /\ registry' \in [Backends -> Classes \union {None}]
      BY DEF TypeOK
    <2>2. answer' \in [Tasks -> Instances \union {"none", "done", "closed", "error"}]
      BY DEF TypeOK
    <2>3. calls' \in Nat
      BY DEF TypeOK
    <2> QED
      BY <2>1, <2>2, <2>3 DEF TypeOK
  <1>2. ASSUME NEW a \in Backends, registry[a] # None
        PROVE  registry'[a] = registry[a]
    BY <1>2 DEF TypeOK
  <1>3. ClassKept'
    <2> SUFFICES ASSUME NEW m \in made, Import[m.backend] = None
                 PROVE  registry'[m.backend] = m.class
      BY DEF ClassKept
    <2>1. m.backend \in Backends /\ m.class # None
      BY ManagerAssumption DEF TypeOK
    <2> QED
      BY <1>2, <2>1 DEF ClassKept
  <1>4. ClosedSoFar' /\ Awaiting'
    BY DEF ClosedSoFar, Awaiting, TypeOK
  <1> QED
    BY <1>1, <1>3, <1>4

(***************************************************************************)
(* A loop of aclose_all has not come to an entry that is appended.         *)
(***************************************************************************)
LEMMA StillClosed ==
    ASSUME ManagerInv, UNCHANGED <<closed, pc, index, size>>,
           Len(storages') = Len(storages) + 1,
           \A j \in 1 .. Len(storages) : storages'[j] = storages[j]
    PROVE  ClosedSoFar'
  <1> SUFFICES ASSUME NEW u \in Tasks, pc[u] = "closing",
                      NEW j \in 1 .. Len(storages'), j < index[u]
               PROVE  storages'[j].storage \in closed
    BY DEF ClosedSoFar
  <1>1. Len(storages) \in Nat
    BY DEF ManagerInv, TypeOK
  <1>2. index[u] \in 1 .. size[u] /\ size[u] <= Len(storages) /\ size[u] \in Nat
    BY DEF ManagerInv, TypeOK
  <1>3. j \in 1 .. Len(storages)
    BY <1>1, <1>2
  <1> QED
    BY <1>3 DEF ManagerInv, ClosedSoFar

(***************************************************************************)
(* A new storage has the class its name resolves to.                       *)
(***************************************************************************)
LEMMA StepAdd ==
    ASSUME ManagerInv, NEW t \in Tasks, NEW n \in Names, NEW b \in Backends, Add(t, n, b)
    PROVE  ManagerInv'
  <1> USE DEF ManagerInv, Called, Reply, iteration
  <1>1. PICK i \in Instances :
           /\ made' = made \union {[storage |-> i, backend |-> b, class |-> Resolve(b)]}
           /\ Insert(n, i)
    BY DEF Add
  <1>2. Resolve(b) \in Classes
    BY ManagerAssumption DEF Add, Resolve, TypeOK
  <1>3. /\ storages' \in Seq([name : Names, storage : Instances])
        /\ Len(storages') = Len(storages) + 1
        /\ \A j \in 1 .. Len(storages) : storages'[j] = storages[j]
        /\ \A j, k \in 1 .. Len(storages') :
              storages'[j].name = storages'[k].name => j = k
    BY <1>1, InsertNew DEF Add
  <1>4. Len(storages) \in Nat
    BY DEF TypeOK
  <1>5. TypeOK'
    <2>1. made' \subseteq [storage : Instances, backend : Backends, class : Classes]
      BY <1>1, <1>2 DEF TypeOK
    <2>2. /\ answer' \in [Tasks -> Instances \union {"none", "done", "closed", "error"}]
          /\ calls' \in Nat
      BY DEF Add, TypeOK
    <2> QED
      BY <1>3, <1>4, <2>1, <2>2 DEF Add, TypeOK
  <1>6. ClassKept'
    BY <1>1 DEF Add, ClassKept, Resolve
  <1>7. ClosedSoFar'
    BY <1>3, <1>4, StillClosed DEF Add
  <1>8. Awaiting'
    BY DEF Add, Awaiting, TypeOK
  <1> QED
    BY <1>5, <1>6, <1>7, <1>8

(***************************************************************************)
(* A step that only answers keeps the invariant, whatever it answers.      *)
(***************************************************************************)
LEMMA Answered ==
    ASSUME ManagerInv, NEW t \in Tasks, NEW reply \in Instances \union {"done", "error"},
           Called(t), Reply(t, reply), attached' \in BOOLEAN, faults' \in Nat,
           UNCHANGED <<registry, storages, made, closed, iteration>>
    PROVE  ManagerInv'
  <1> USE DEF ManagerInv, Called, Reply, iteration
  <1>1. /\ answer' \in [Tasks -> Instances \union {"none", "done", "closed", "error"}]
        /\ calls' \in Nat
    BY DEF TypeOK
  <1>2. TypeOK'
    BY <1>1 DEF TypeOK
  <1>3. ClassKept'
    BY DEF ClassKept
  <1>4. ClosedSoFar'
    BY DEF ClosedSoFar
  <1>5. Awaiting'
    BY DEF Awaiting, TypeOK
  <1> QED
    BY <1>2, <1>3, <1>4, <1>5

(***************************************************************************)
(* A storage that is registered under a further name keeps it too.         *)
(***************************************************************************)
LEMMA StepRegisterInstance ==
    ASSUME ManagerInv, NEW t \in Tasks, NEW n \in Names, NEW i \in Instances,
           RegisterInstance(t, n, i)
    PROVE  ManagerInv'
  <1>1. /\ Called(t) /\ (Reply(t, "done") \/ Reply(t, "error"))
        /\ IF Known(n) THEN UNCHANGED storages /\ Reply(t, "error") ELSE Insert(n, i)
        /\ UNCHANGED <<registry, made, closed, attached, pc, index, size, faults>>
    BY DEF RegisterInstance, iteration
  <1> USE DEF ManagerInv, Called, Reply
  <1>0. Len(storages) \in Nat
    BY DEF TypeOK
  <1>2. /\ answer' \in [Tasks -> Instances \union {"none", "done", "closed", "error"}]
        /\ calls' \in Nat
    <2>1. /\ answer \in [Tasks -> Instances \union {"none", "done", "closed", "error"}]
          /\ calls \in Nat
      BY DEF TypeOK
    <2> QED
      BY <1>1, <2>1
  <1>5. Awaiting'
    BY <1>1 DEF TypeOK, Awaiting
  <1>3. CASE Known(n)
    <2>1. attached' \in BOOLEAN /\ faults' \in Nat
      BY <1>1 DEF TypeOK
    <2> HIDE DEF ManagerInv, Called, Reply
    <2> QED
      BY <1>1, <1>3, <2>1, Answered DEF iteration
  <1>4. CASE ~Known(n)
    <2>1. /\ storages' \in Seq([name : Names, storage : Instances])
          /\ Len(storages') = Len(storages) + 1
          /\ \A j \in 1 .. Len(storages) : storages'[j] = storages[j]
          /\ \A j, k \in 1 .. Len(storages') :
                storages'[j].name = storages'[k].name => j = k
      BY <1>1, <1>4, InsertNew
    <2>2. TypeOK'
      BY <1>0, <1>1, <1>2, <2>1 DEF TypeOK
    <2>3. ClassKept'
      BY <1>1 DEF ClassKept
    <2>4. ClosedSoFar'
      BY <1>1, <2>1, StillClosed
    <2> QED
      BY <1>5, <2>2, <2>3, <2>4
  <1> QED
    BY <1>3, <1>4

(***************************************************************************)
(* The loop of aclose_all stands at an entry of the dict, which has not    *)
(* changed since, or ends.                                                 *)
(***************************************************************************)
LEMMA StepAdvance ==
    ASSUME ManagerInv, NEW t \in Tasks, NEW done \in Nat, NEW n \in Nat, done <= n,
           Advance(t, done, n),
           closed \subseteq closed', closed' \subseteq Instances,
           \A j \in 1 .. done : j <= Len(storages) => storages[j].storage \in closed',
           calls' \in Nat,
           UNCHANGED <<registry, storages, made, attached, faults>>
    PROVE  ManagerInv'
  <1> USE DEF ManagerInv
  <1>1. Len(storages) \in Nat
    BY DEF TypeOK
  <1>2. /\ pc' \in [Tasks -> {"idle", "closing"}]
        /\ index' = [index EXCEPT ![t] = done + 1]
        /\ size' = [size EXCEPT ![t] = n]
        /\ answer' \in [Tasks -> Instances \union {"none", "done", "closed", "error"}]
        /\ \A u \in Tasks : u # t => pc'[u] = pc[u]
        /\ pc'[t] = "closing" => Len(storages) = n /\ done # n
    BY DEF Advance, Reply, TypeOK
  <1>3. ASSUME NEW u \in Tasks, pc'[u] = "closing"
        PROVE  index'[u] \in 1 .. size'[u] /\ size'[u] <= Len(storages)
    BY <1>1, <1>2, <1>3 DEF TypeOK
  <1>4. TypeOK'
    BY <1>2, <1>3 DEF TypeOK
  <1>5. ClassKept'
    BY DEF ClassKept
  <1>6. ASSUME NEW u \in Tasks, pc'[u] = "closing",
               NEW j \in 1 .. Len(storages), j < index'[u]
        PROVE  storages[j].storage \in closed'
    BY <1>1, <1>2, <1>6 DEF TypeOK, ClosedSoFar
  <1>7. ClosedSoFar'
    BY <1>6 DEF ClosedSoFar
  <1>8. Awaiting'
    BY DEF Advance, Reply, Awaiting, TypeOK
  <1> QED
    BY <1>4, <1>5, <1>7, <1>8

(***************************************************************************)
(* The steps of aclose_all.                                                *)
(***************************************************************************)
LEMMA StepClose ==
    ASSUME ManagerInv, NEW t \in Tasks, CloseAll(t) \/ CloseDone(t) \/ CloseRaises(t)
    PROVE  ManagerInv'
  <1> USE DEF ManagerInv, Called, Reply, budget
  <1>1. Len(storages) \in Nat
    BY DEF TypeOK
  <1>2. CASE CloseAll(t)
    <2>1. /\ closed' = closed /\ calls' \in Nat
          /\ Advance(t, 0, Len(storages))
          /\ UNCHANGED <<registry, storages, made, attached, faults>>
      BY <1>2 DEF CloseAll, TypeOK
    <2>2. closed' \subseteq Instances
      BY <2>1 DEF TypeOK
    <2> QED
      BY <1>1, <2>1, <2>2, StepAdvance
  <1>3. CASE CloseDone(t)
    <2>1. /\ pc[t] = "closing"
          /\ closed' = closed \union {storages[index[t]].storage}
          /\ Advance(t, index[t], size[t])
          /\ UNCHANGED <<registry, storages, made, attached, calls, faults>>
      BY <1>3 DEF CloseDone
    <2>2. /\ index[t] \in Nat /\ size[t] \in Nat
          /\ index[t] \in 1 .. size[t] /\ size[t] <= Len(storages)
      BY <2>1 DEF TypeOK
    <2>3. storages[index[t]].storage \in Instances
      BY <1>1, <2>2, EntryTyped
    <2>4. closed' \subseteq Instances /\ closed \subseteq closed' /\ calls' \in Nat
      BY <2>1, <2>3 DEF TypeOK
    <2>5. \A j \in 1 .. index[t] : j <= Len(storages) => storages[j].storage \in closed'
      BY <1>1, <2>1, <2>2 DEF ClosedSoFar
    <2> QED
      BY <2>1, <2>2, <2>4, <2>5, StepAdvance
  <1>4. CASE CloseRaises(t)
    <2>1. /\ pc' \in [Tasks -> {"idle", "closing"}]
          /\ answer' \in [Tasks -> Instances \union {"none", "done", "closed", "error"}]
          /\ faults' \in Nat
          /\ \A u \in Tasks : pc'[u] = "closing" => pc[u] = "closing" /\ answer'[u] = answer[u]
      BY <1>4 DEF CloseRaises, TypeOK
    <2>2. TypeOK'
      BY <1>4, <2>1 DEF CloseRaises, TypeOK
    <2> QED
      BY <1>4, <2>1, <2>2 DEF CloseRaises, ClassKept, ClosedSoFar, Awaiting
  <1> QED
    BY <1>2, <1>3, <1>4

(***************************************************************************)
(* The steps that only answer.                                             *)
(***************************************************************************)
LEMMA StepAnswer ==
    ASSUME ManagerInv, NEW t \in Tasks,
           \/ Attach(t)
           \/ \E n \in Names : Get(t, n)
           \/ \E n \in Names, b \in Backends : AddFails(t, n, b)
    PROVE  ManagerInv'
  <1>0. attached \in BOOLEAN /\ faults \in Nat
    BY DEF ManagerInv, TypeOK
  <1>4. \A n \in Names : Known(n) => Lookup(n) \in Instances
    BY LookupTyped DEF ManagerInv
  <1>1. CASE Attach(t)
    BY <1>1, <1>0, Answered DEF Attach
  <1>2. CASE \E n \in Names : Get(t, n)
    <2>1. PICK n \in Names : Get(t, n)
      BY <1>2
    <2>2. (IF attached /\ Known(n) THEN Lookup(n) ELSE "error") \in Instances \union {"error"}
      BY <1>4
    <2> QED
      BY <1>0, <2>1, <2>2, Answered DEF Get
  <1>3. CASE \E n \in Names, b \in Backends : AddFails(t, n, b)
    <2>1. faults' \in Nat
      BY <1>0, <1>3 DEF AddFails
    <2> QED
      BY <1>0, <1>3, <2>1, Answered DEF AddFails
  <1> QED
    BY <1>1, <1>2, <1>3

(***************************************************************************)
(* Every step keeps the invariant, and so does stuttering.                 *)
(***************************************************************************)
LEMMA ManagerNext == ManagerInv /\ [Next]_vars => ManagerInv'
  <1> SUFFICES ASSUME ManagerInv, [Next]_vars PROVE ManagerInv'
    OBVIOUS
  <1>1. CASE UNCHANGED vars
    BY <1>1 DEF ManagerInv, TypeOK, ClassKept, ClosedSoFar, Awaiting, vars, iteration, budget
  <1>2. CASE Next
    <2>1. CASE \E t \in Tasks, n \in Names, m \in made : RegisterInstance(t, n, m.storage)
      <3>1. \A m \in made : m.storage \in Instances
        BY DEF ManagerInv, TypeOK
      <3> QED
        BY <2>1, <3>1, StepRegisterInstance
    <2>2. CASE Finished
      BY <1>1, <2>2 DEF Finished
    <2> QED
      BY <1>2, <2>1, <2>2, StepRegister, StepAdd, StepClose, StepAnswer DEF Next
  <1> QED
    BY <1>1, <1>2

-----------------------------------------------------------------------------
(* The theorems.                                                           *)

(***************************************************************************)
(* The invariant holds of every reachable state.                           *)
(***************************************************************************)
THEOREM ManagerCorrect == Spec => []ManagerInv
  BY ManagerInit, ManagerNext, PTL DEF Spec

(***************************************************************************)
(* The variables of the manager have their types, no name is in the dict   *)
(* twice, and aclose_all awaits the aclose of a storage in it.             *)
(***************************************************************************)
THEOREM ManagerTyped == Spec => []TypeOK
  <1>1. ManagerInv => TypeOK
    BY DEF ManagerInv
  <1> QED
    BY <1>1, ManagerCorrect, PTL

(***************************************************************************)
(* All storages built from one short backend name are of one class.        *)
(***************************************************************************)
THEOREM NamesKeepMeaning == Spec => []OneMeaning
  <1>1. ManagerInv => OneMeaning
    BY DEF ManagerInv, ClassKept, OneMeaning
  <1> QED
    BY <1>1, ManagerCorrect, PTL

(***************************************************************************)
(* A step leaves the entries of the dict where they are.                   *)
(***************************************************************************)
LEMMA EntriesStay ==
    ASSUME ManagerInv, [Next]_vars
    PROVE  /\ Len(storages) <= Len(storages')
           /\ \A i \in 1 .. Len(storages) : storages'[i] = storages[i]
  <1>1. Len(storages) \in Nat
    BY DEF ManagerInv, TypeOK
  <1>2. CASE UNCHANGED storages
    BY <1>1, <1>2
  <1>3. ASSUME NEW n \in Names, NEW i \in Instances, ~Known(n), Insert(n, i)
        PROVE  /\ Len(storages) <= Len(storages')
               /\ \A j \in 1 .. Len(storages) : storages'[j] = storages[j]
    BY <1>1, <1>3, InsertNew DEF ManagerInv
  <1>4. \A m \in made : m.storage \in Instances
    BY DEF ManagerInv, TypeOK
  <1>5. \/ UNCHANGED storages
        \/ \E n \in Names, i \in Instances : ~Known(n) /\ Insert(n, i)
    BY <1>4 DEF Next, vars, RegisterBackend, Add, AddFails, RegisterInstance, Attach, CloseAll,
              CloseDone, CloseRaises, Get, Finished
  <1> QED
    BY <1>2, <1>3, <1>5

(***************************************************************************)
(* A named storage is the same one for ever.                               *)
(***************************************************************************)
THEOREM StorageKept == Spec => SameStorage
  <1>1. ManagerInv /\ ManagerInv' /\ [Next]_vars
          => [\A n \in Names : Known(n) => Lookup(n)' = Lookup(n)]_vars
    <2> SUFFICES ASSUME ManagerInv, ManagerInv', [Next]_vars, NEW n \in Names, Known(n)
                 PROVE  Lookup(n)' = Lookup(n)
      OBVIOUS
    <2>1. TypeOK /\ TypeOK' /\ Len(storages) \in Nat /\ Len(storages') \in Nat
      BY DEF ManagerInv, TypeOK
    <2>2. PICK i \in 1 .. Len(storages) : storages[i].name = n
      BY <2>1, KnownEntry
    <2>3. i \in 1 .. Len(storages') /\ storages'[i] = storages[i]
      BY <2>1, <2>2, EntriesStay
    <2>4. Lookup(n) = storages[i].storage
      BY <2>1, <2>2, LookupEntry DEF OneEntry
    <2>5. OneEntry'
      BY <2>1, LookupEntry, PTL
    <2>6. Lookup(n)' = storages'[i].storage
      BY <2>1, <2>2, <2>3, <2>5 DEF OneEntry
    <2> QED
      BY <2>3, <2>4, <2>6
  <1> QED
    BY <1>1, ManagerCorrect, PTL DEF Spec, SameStorage

(***************************************************************************)
(* aclose_all that returns has closed every storage of the dict.           *)
(***************************************************************************)
THEOREM AllClosed == Spec => ClosesAll
  <1>1. ManagerInv /\ [Next]_vars
          => [\A t \in Tasks : pc[t] = "closing" /\ answer'[t] = "closed"
                => \A e \in Entries : e.storage \in closed']_vars
    <2> SUFFICES ASSUME ManagerInv, Next, NEW t \in Tasks,
                        pc[t] = "closing", answer'[t] = "closed",
                        NEW e \in Entries
                 PROVE  e.storage \in closed'
      BY DEF vars
    <2>1. answer[t] = "none" /\ Len(storages) \in Nat
      BY DEF ManagerInv, Awaiting, TypeOK
    <2>2. index[t] \in 1 .. size[t] /\ size[t] \in Nat
      BY DEF ManagerInv, TypeOK
    <2>3. CloseDone(t)
      <3>1. answer \in [Tasks -> Instances \union {"none", "done", "closed", "error"}]
        BY DEF ManagerInv, TypeOK
      <3>2. ASSUME NEW u \in Tasks, NEW reply, Reply(u, reply), u # t \/ reply # "closed"
            PROVE  FALSE
        BY <2>1, <3>1, <3>2 DEF Reply
      <3>3. ~Finished
        BY <2>1 DEF Finished, vars
      <3>4. ~CloseRaises(t)
        BY <3>2 DEF CloseRaises
      <3>5. ASSUME NEW u \in Tasks, NEW done, NEW n, Advance(u, done, n)
            PROVE  \E reply : Reply(u, reply)
        BY <3>5 DEF Advance
      <3>6. ASSUME NEW u \in Tasks, u # t
            PROVE  ~CloseDone(u) /\ ~CloseRaises(u)
        BY <3>2, <3>5, <3>6 DEF CloseDone, CloseRaises
      <3>7. ASSUME NEW u \in Tasks, Called(u), \E reply : Reply(u, reply)
            PROVE  FALSE
        BY <3>2, <3>7 DEF Called
      <3> QED
        BY <3>3, <3>4, <3>5, <3>6, <3>7
           DEF Next, RegisterBackend, Add, AddFails, RegisterInstance, Attach, CloseAll, Get
    <2>4. Len(storages) = size[t] /\ index[t] = size[t]
      BY <2>3 DEF CloseDone, Advance, Reply, ManagerInv, TypeOK
    <2>5. PICK j \in 1 .. Len(storages) : e = storages[j]
      BY DEF Entries
    <2>6. CASE j = index[t]
      BY <2>3, <2>5, <2>6 DEF CloseDone
    <2>7. CASE j < index[t]
      BY <2>3, <2>5, <2>7 DEF CloseDone, ManagerInv, ClosedSoFar
    <2> QED
      BY <2>1, <2>2, <2>4, <2>5, <2>6, <2>7
  <1> QED
    BY <1>1, ManagerCorrect, PTL DEF Spec, ClosesAll
=============================================================================
