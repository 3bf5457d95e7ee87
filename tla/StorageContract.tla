--------------------------- MODULE StorageContract ---------------------------
(***************************************************************************)
(* What the Storage interface (fast_storages/base.py) promises the route   *)
(* handlers that call it: a map from names to contents in which every      *)
(* save, delete, open, size and exists takes effect at one instant between *)
(* its call and its answer, at most once, and answers what the map held at *)
(* that instant.  Any call may instead raise a StorageError; a call that   *)
(* raises may or may not have taken effect (its COMMIT may have been lost  *)
(* on the way back), but never takes effect afterwards.                    *)
(*                                                                         *)
(* The module says nothing of transactions, large objects or connections:  *)
(* a backend implements it under a refinement mapping.                     *)
(***************************************************************************)
EXTENDS Naturals, Sequences

CONSTANTS Clients,   \* the tasks that call one Storage instance
          Names,     \* storage-relative names
          Chunks,    \* the pieces a content is streamed in
          Contents,  \* the contents callers save, sequences of chunks
          Absent     \* what a name that holds no object maps to

VARIABLES store,     \* [Names -> Contents or Absent]
          phase,     \* how far the current call of a client has come
          call,      \* the current (or last) call of a client
          answer     \* what that call returned, or will return

contractVars == <<store, phase, call, answer>>

Calls ==
    [op : {"save"}, name : Names, content : Contents]
        \union [op : {"delete", "open", "size", "exists"}, name : Names, content : {<<>>}]

Plain(k) == [kind |-> k, size |-> 0, content |-> <<>>]

(***************************************************************************)
(* The answer owed to call k when the name holds s.                        *)
(***************************************************************************)
ReplyTo(k, s) ==
    CASE k.op = "save"   -> [kind |-> "saved", size |-> Len(k.content), content |-> <<>>]
      [] k.op = "delete" -> Plain("deleted")
      [] k.op = "exists" -> Plain(IF s = Absent THEN "absent" ELSE "present")
      [] k.op \in {"open", "size"} /\ s = Absent -> Plain("notfound")
      [] k.op = "size" /\ s # Absent -> [kind |-> "size", size |-> Len(s), content |-> <<>>]
      [] k.op = "open" /\ s # Absent -> [kind |-> "content", size |-> 0, content |-> s]

(***************************************************************************)
(* What the name holds once call k has taken effect on a name holding s.   *)
(***************************************************************************)
After(k, s) ==
    CASE k.op = "save"   -> k.content
      [] k.op = "delete" -> Absent
      [] OTHER           -> s

-----------------------------------------------------------------------------
ContractInit ==
    /\ store = [n \in Names |-> Absent]
    /\ phase = [c \in Clients |-> "idle"]
    /\ call \in [Clients -> Calls]
    /\ answer = [c \in Clients |-> Plain("none")]

Invoke(c) ==
    /\ phase[c] = "idle"
    /\ \E k \in Calls : call' = [call EXCEPT ![c] = k]
    /\ phase' = [phase EXCEPT ![c] = "pending"]
    /\ answer' = [answer EXCEPT ![c] = Plain("none")]
    /\ UNCHANGED store

(***************************************************************************)
(* The pending deletes of a name that a write of the same name overtakes:  *)
(* they take effect in the same instant, just before the write.            *)
(***************************************************************************)
Overtakable(c) ==
    IF call[c].op \in {"save", "delete"}
    THEN {d \in Clients \ {c} : /\ phase[d] = "pending"
                                /\ call[d].op = "delete"
                                /\ call[d].name = call[c].name}
    ELSE {}

TakeEffect(c) ==
    /\ phase[c] = "pending"
    /\ \E D \in SUBSET Overtakable(c) :
          /\ phase' = [d \in Clients |-> IF d \in D \union {c} THEN "effective" ELSE phase[d]]
          /\ answer' = [d \in Clients |->
                          CASE d = c    -> ReplyTo(call[c], store[call[c].name])
                            [] d \in D  -> Plain("deleted")
                            [] OTHER    -> answer[d]]
    /\ store' = [store EXCEPT ![call[c].name] = After(call[c], @)]
    /\ UNCHANGED call

Answer(c) ==
    /\ phase[c] = "effective"
    /\ phase' = [phase EXCEPT ![c] = "idle"]
    /\ UNCHANGED <<store, call, answer>>

RaiseError(c) ==
    /\ phase[c] # "idle"
    /\ phase' = [phase EXCEPT ![c] = "idle"]
    /\ answer' = [answer EXCEPT ![c] = Plain("error")]
    /\ UNCHANGED <<store, call>>

ContractNext ==
    \E c \in Clients : Invoke(c) \/ TakeEffect(c) \/ Answer(c) \/ RaiseError(c)

ContractSpec == ContractInit /\ [][ContractNext]_contractVars
=============================================================================
