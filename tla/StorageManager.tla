---------------------------- MODULE StorageManager ----------------------------
(***************************************************************************)
(* Backends and storages by name: the registry of backend classes          *)
(* (fast_storages/registry.py), the StorageManager of an application       *)
(* (manager.py) and the dependency that finds it (dependencies.py).        *)
(*                                                                         *)
(* Everything but aclose_all runs to its end without an await, and is one  *)
(* step.  aclose_all awaits the aclose of each storage in turn; a step of  *)
(* it runs from one await to the next, and other tasks run in between.     *)
(***************************************************************************)
EXTENDS Naturals, Sequences

CONSTANTS Tasks,      \* the tasks of the application
          Names,      \* names of storages
          Backends,   \* identifiers of backends, short or dotted
          Classes,    \* subclasses of Storage
          Instances,  \* Storage objects
          None,       \* Python's None
          Builtin,    \* what backends/__init__.py registers
          Import,     \* the class a dotted path leads to, or None
          MaxCalls,   \* bound: calls made in a behaviour
          MaxFaults   \* bound: constructors and acloses that raise

ASSUME ManagerAssumption ==
    /\ None \notin Classes \union Instances
    /\ Builtin \in [Backends -> Classes \union {None}]
    /\ Import \in [Backends -> Classes \union {None}]
    /\ {MaxCalls, MaxFaults} \subseteq Nat

VARIABLES
    registry,  \* _REGISTRY: the class of each backend name, or None
    storages,  \* self._storages, in the order of insertion
    made,      \* the Storage objects constructed so far
    closed,    \* those whose aclose has returned
    attached,  \* whether app.state.storage_manager is set
    pc,        \* "idle", or "closing" while aclose_all awaits
    index,     \* how many storages aclose_all has come to
    size,      \* how many there were when it began
    answer,    \* what the last call of a task returned
    calls, faults

iteration == <<pc, index, size>>
budget    == <<calls, faults>>
vars      == <<registry, storages, made, closed, attached, iteration, answer, budget>>

Entries == {storages[i] : i \in 1 .. Len(storages)}

Known(n) == \E e \in Entries : e.name = n

Lookup(n) == IF Known(n) THEN (CHOOSE e \in Entries : e.name = n).storage ELSE None

Reply(t, reply) == answer' = [answer EXCEPT ![t] = reply]

Called(t) ==
    /\ pc[t] = "idle"
    /\ calls < MaxCalls
    /\ calls' = calls + 1

-----------------------------------------------------------------------------
(* The registry.                                                           *)

\* Mutant of RegisterBackend: the last registration wins.
RegisterBackendLast(t, b, class) ==
    /\ Called(t)
    /\ registry' = [registry EXCEPT ![b] = class]
    /\ Reply(t, "done")
    /\ UNCHANGED <<storages, made, closed, attached, iteration, faults>>

(***************************************************************************)
(* A name keeps its class; registering the same one again is allowed.      *)
(***************************************************************************)
RegisterBackend(t, b, class) ==
    /\ Called(t)
    /\ IF registry[b] \in {None, class}
       THEN registry' = [registry EXCEPT ![b] = class] /\ Reply(t, "done")
       ELSE registry' = registry /\ Reply(t, "error")
    /\ UNCHANGED <<storages, made, closed, attached, iteration, faults>>

(***************************************************************************)
(* Registered names come before dotted paths.                              *)
(***************************************************************************)
Resolve(b) == IF registry[b] # None THEN registry[b] ELSE Import[b]

-----------------------------------------------------------------------------
(* The manager.                                                            *)

Insert(n, i) == storages' = Append(storages, [name |-> n, storage |-> i])

(***************************************************************************)
(* add: the name is taken, the backend is unknown, the constructor refuses *)
(* its arguments, or a new storage is built and inserted.                  *)
(***************************************************************************)
AddFails(t, n, b) ==
    /\ Called(t)
    /\ Known(n) \/ Resolve(b) = None \/ faults < MaxFaults
    /\ faults' = IF Known(n) \/ Resolve(b) = None THEN faults ELSE faults + 1
    /\ Reply(t, "error")
    /\ UNCHANGED <<registry, storages, made, closed, attached, iteration>>

Add(t, n, b) ==
    /\ Called(t)
    /\ ~Known(n)
    /\ Resolve(b) # None
    /\ \E i \in Instances :
          /\ \A m \in made : m.storage # i
          /\ made' = made \union {[storage |-> i, backend |-> b, class |-> Resolve(b)]}
          /\ Insert(n, i)
    /\ Reply(t, "done")
    /\ UNCHANGED <<registry, closed, attached, iteration, faults>>

\* Mutant of RegisterInstance: a name can be registered again.
RegisterInstanceAgain(t, n, i) ==
    /\ Called(t)
    /\ IF Known(n)
       THEN storages' = [k \in 1 .. Len(storages) |->
                           IF storages[k].name = n THEN [storages[k] EXCEPT !.storage = i]
                           ELSE storages[k]]
       ELSE Insert(n, i)
    /\ Reply(t, "done")
    /\ UNCHANGED <<registry, made, closed, attached, iteration, faults>>

(***************************************************************************)
(* register_instance: the storage may have another name already.           *)
(***************************************************************************)
RegisterInstance(t, n, i) ==
    /\ Called(t)
    /\ IF Known(n)
       THEN storages' = storages /\ Reply(t, "error")
       ELSE Insert(n, i) /\ Reply(t, "done")
    /\ UNCHANGED <<registry, made, closed, attached, iteration, faults>>

(***************************************************************************)
(* The application's lifespan handler sets app.state.storage_manager.      *)
(***************************************************************************)
Attach(t) ==
    /\ Called(t)
    /\ ~attached
    /\ attached' = TRUE
    /\ Reply(t, "done")
    /\ UNCHANGED <<registry, storages, made, closed, iteration, faults>>

(***************************************************************************)
(* The dependency get_storage(name): RuntimeError without a manager,       *)
(* StorageConfigError for a name that is not configured.                   *)
(***************************************************************************)
Get(t, n) ==
    /\ Called(t)
    /\ Reply(t, IF attached /\ Known(n) THEN Lookup(n) ELSE "error")
    /\ UNCHANGED <<registry, storages, made, closed, attached, iteration, faults>>

-----------------------------------------------------------------------------
(* aclose_all.                                                             *)

\* Mutant of Advance: it iterates over a copy of the values.
AdvanceCopy(t, done, n) ==
    /\ IF done = n
       THEN pc' = [pc EXCEPT ![t] = "idle"] /\ Reply(t, "closed")
       ELSE pc' = [pc EXCEPT ![t] = "closing"] /\ Reply(t, "none")
    /\ index' = [index EXCEPT ![t] = done + 1]
    /\ size' = [size EXCEPT ![t] = n]

\* Mutant of Advance: the loop counts the storages and goes one too far.
AdvancePast(t, done, n) ==
    /\ IF done > n
       THEN pc' = [pc EXCEPT ![t] = "idle"] /\ Reply(t, "closed")
       ELSE pc' = [pc EXCEPT ![t] = "closing"] /\ Reply(t, "none")
    /\ index' = [index EXCEPT ![t] = done + 1]
    /\ size' = [size EXCEPT ![t] = n]

(***************************************************************************)
(* The for statement asks the iterator for the next of n storages, after   *)
(* done of them.  The iterator of a dict raises RuntimeError if the dict   *)
(* has grown since it was made.                                            *)
(***************************************************************************)
Advance(t, done, n) ==
    /\ CASE Len(storages) # n ->
              pc' = [pc EXCEPT ![t] = "idle"] /\ Reply(t, "error")
         [] Len(storages) = n /\ done = n ->
              pc' = [pc EXCEPT ![t] = "idle"] /\ Reply(t, "closed")
         [] OTHER ->
              pc' = [pc EXCEPT ![t] = "closing"] /\ Reply(t, "none")
    /\ index' = [index EXCEPT ![t] = done + 1]
    /\ size' = [size EXCEPT ![t] = n]

CloseAll(t) ==
    /\ Called(t)
    /\ Advance(t, 0, Len(storages))
    /\ UNCHANGED <<registry, storages, made, closed, attached, faults>>

CloseDone(t) ==
    /\ pc[t] = "closing"
    /\ closed' = closed \union {storages[index[t]].storage}
    /\ Advance(t, index[t], size[t])
    /\ UNCHANGED <<registry, storages, made, attached, budget>>

(***************************************************************************)
(* An aclose that raises ends the loop.                                    *)
(***************************************************************************)
CloseRaises(t) ==
    /\ pc[t] = "closing"
    /\ faults < MaxFaults
    /\ faults' = faults + 1
    /\ pc' = [pc EXCEPT ![t] = "idle"]
    /\ Reply(t, "error")
    /\ UNCHANGED <<registry, storages, made, closed, attached, index, size, calls>>

Finished ==
    /\ calls = MaxCalls
    /\ \A t \in Tasks : pc[t] = "idle"
    /\ UNCHANGED vars

-----------------------------------------------------------------------------
Init ==
    /\ registry = Builtin
    /\ storages = <<>>
    /\ made = {}
    /\ closed = {}
    /\ attached = FALSE
    /\ pc = [t \in Tasks |-> "idle"]
    /\ index = [t \in Tasks |-> 0]
    /\ size = [t \in Tasks |-> 0]
    /\ answer = [t \in Tasks |-> "none"]
    /\ calls = 0 /\ faults = 0

Next ==
    \/ \E t \in Tasks, b \in Backends, class \in Classes : RegisterBackend(t, b, class)
    \/ \E t \in Tasks, n \in Names, b \in Backends : Add(t, n, b) \/ AddFails(t, n, b)
    \/ \E t \in Tasks, n \in Names, m \in made : RegisterInstance(t, n, m.storage)
    \/ \E t \in Tasks : Attach(t) \/ CloseAll(t) \/ CloseDone(t) \/ CloseRaises(t)
    \/ \E t \in Tasks, n \in Names : Get(t, n)
    \/ Finished

Spec == Init /\ [][Next]_vars

-----------------------------------------------------------------------------
(* The variables have their types, no name is in the dict twice, and who   *)
(* awaits an aclose awaits that of a storage in it.                        *)
TypeOK ==
    /\ registry \in [Backends -> Classes \union {None}]
    /\ storages \in Seq([name : Names, storage : Instances])
    /\ \A i, j \in 1 .. Len(storages) : storages[i].name = storages[j].name => i = j
    /\ made \subseteq [storage : Instances, backend : Backends, class : Classes]
    /\ closed \subseteq Instances
    /\ attached \in BOOLEAN
    /\ pc \in [Tasks -> {"idle", "closing"}]
    /\ index \in [Tasks -> Nat]
    /\ size \in [Tasks -> Nat]
    /\ \A t \in Tasks : pc[t] = "closing" => index[t] \in 1 .. size[t] /\ size[t] <= Len(storages)
    /\ answer \in [Tasks -> Instances \union {"none", "done", "closed", "error"}]
    /\ calls \in Nat /\ faults \in Nat

(***************************************************************************)
(* aclose_all that returns has closed every storage, those that other      *)
(* tasks registered while it was at work included: it would have raised.   *)
(***************************************************************************)
ClosesAll ==
    [][\A t \in Tasks : pc[t] = "closing" /\ answer'[t] = "closed"
          => \A e \in Entries : e.storage \in closed']_vars

(***************************************************************************)
(* All storages built from one short backend name are of one class,        *)
(* whatever is registered before, between and after.                       *)
(***************************************************************************)
OneMeaning ==
    \A l, m \in made :
        l.backend = m.backend /\ Import[l.backend] = None => l.class = m.class

(***************************************************************************)
(* A route that depends on a named storage gets the same one for ever.     *)
(***************************************************************************)
SameStorage ==
    [][\A n \in Names : Known(n) => Lookup(n)' = Lookup(n)]_vars
=============================================================================
