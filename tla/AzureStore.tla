------------------------------ MODULE AzureStore ------------------------------
(***************************************************************************)
(* The Azure backend (fast_storages/backends/azure.py): several tasks call *)
(* save, delete, open, size and exists on one container.  A step is one    *)
(* request to the service, which the service executes at one instant.      *)
(*                                                                         *)
(* upload_blob sends bytes in a single Put Blob.  It stages a stream       *)
(* block by block under identifiers made from the offsets, so all saves of *)
(* a name share them, and commits the list of them at the end.  A download *)
(* whose first response was partial asks for the rest on condition that    *)
(* the blob's etag is still the same.                                      *)
(*                                                                         *)
(* Any calls may overlap, streaming saves of one name included.  A request *)
(* that failed for its caller has been executed by then, or never is.      *)
(***************************************************************************)
EXTENDS Naturals, Sequences

CONSTANTS Clients,    \* the tasks that call the backend
          Names,      \* names of blobs
          Chunks,     \* blocks of content
          Contents,   \* the contents callers save, sequences of chunks
          None,       \* no blob; Python's None
          MaxCalls,   \* bound: calls made in a behaviour
          MaxFaults   \* bound: calls that fail

Versions == [etag : Nat, content : Seq(Chunks), blocks : BOOLEAN]

ASSUME AzureAssumption ==
    /\ Contents \subseteq Seq(Chunks)
    /\ None \notin Seq(Chunks) \union Versions
    /\ {MaxCalls, MaxFaults} \subseteq Nat

VARIABLES
    blob,    \* what each name holds: a version, or None
    staged,  \* the uncommitted blocks of each name
    pc,      \* the request the client sends next
    call,    \* its call
    num,     \* the number of its call, from which etags are made
    total,   \* chunks that have gone through _counting_iter (size_acc)
    seen,    \* the version whose download has begun, or None
    got,     \* chunks the stream has yielded
    answer,  \* what the call returned
    alone,   \* whether no save or delete of the name has overlapped the call
    calls, faults

service == <<blob, staged>>
locals  == <<call, num, total, seen, got, alone>>
budget  == <<calls, faults>>
vars    == <<service, pc, locals, answer, budget>>

CallSet ==
    [op : {"save"}, name : Names, content : Contents]
        \union [op : {"delete", "open", "size", "exists"}, name : Names, content : {<<>>}]

Plain(k) == [kind |-> k, size |-> 0, content |-> <<>>]

Go(c, label) == pc' = [pc EXCEPT ![c] = label]

Blob(c) == blob[call[c].name]

Reply(c, reply) ==
    /\ answer' = [answer EXCEPT ![c] = reply]
    /\ Go(c, "reply")

Raise(c, kind) ==
    /\ answer' = [answer EXCEPT ![c] = Plain(kind)]
    /\ Go(c, "idle")

(***************************************************************************)
(* What a caller gets to see of an error: StoragePermissionError or        *)
(* StorageConnectionError, its own error, or an error of the SDK that no   *)
(* except clause names: ServiceRequestError is caught by save alone, other *)
(* status codes than 403 nowhere, and nothing at all while a stream is     *)
(* iterated.                                                               *)
(***************************************************************************)
Causes == {"authentication", "forbidden", "request", "timeout", "status", "caller"}

Errors == {"permission", "connection", "caller", "sdk"}

Translated(c, cause) ==
    CASE cause = "caller" -> "caller"
      [] pc[c] = "stream" /\ cause # "caller" -> "sdk"
      [] pc[c] # "stream" /\ cause \in {"authentication", "forbidden"} -> "permission"
      [] pc[c] # "stream" /\ cause = "timeout" -> "connection"
      [] pc[c] # "stream" /\ cause = "request" ->
             IF call[c].op = "save" THEN "connection" ELSE "sdk"
      [] OTHER -> "sdk"

Saved(size) == [kind |-> "saved", size |-> size, content |-> <<>>]

-----------------------------------------------------------------------------
(* save                                                                    *)

(***************************************************************************)
(* A new version of the blob, made of blocks or not.  It discards the      *)
(* blocks that are staged, whoever has staged them.                        *)
(***************************************************************************)
Replace(c, content, blocks) ==
    /\ blob' = [blob EXCEPT ![call[c].name] =
                  [etag |-> num[c], content |-> content, blocks |-> blocks]]
    /\ staged' = [staged EXCEPT ![call[c].name] = {}]

PutBlob(c) ==
    /\ pc[c] = "start"
    /\ Replace(c, call[c].content, FALSE)
    /\ Reply(c, Saved(Len(call[c].content)))
    /\ UNCHANGED <<locals, budget>>

BeginUpload(c) ==
    /\ pc[c] = "start"
    /\ Go(c, "stage")
    /\ UNCHANGED <<service, locals, answer, budget>>

\* Mutant of StageBlock: identifiers are not replaced.
StageBesides(c) ==
    /\ pc[c] = "stage"
    /\ total[c] < Len(call[c].content)
    /\ LET block == [at |-> total[c] + 1, chunk |-> call[c].content[total[c] + 1]]
       IN staged' = [staged EXCEPT ![call[c].name] = @ \union {block}]
    /\ total' = [total EXCEPT ![c] = @ + 1]
    /\ UNCHANGED <<blob, pc, call, num, seen, got, alone, answer, budget>>

(***************************************************************************)
(* Put Block: the next chunk of the content, under the identifier of its   *)
(* offset.  It replaces a block staged there by a save that failed.        *)
(***************************************************************************)
StageBlock(c) ==
    /\ pc[c] = "stage"
    /\ total[c] < Len(call[c].content)
    /\ LET block == [at |-> total[c] + 1, chunk |-> call[c].content[total[c] + 1]]
       IN staged' = [staged EXCEPT ![call[c].name] =
                       {b \in @ : b.at # block.at} \union {block}]
    /\ total' = [total EXCEPT ![c] = @ + 1]
    /\ UNCHANGED <<blob, pc, call, num, seen, got, alone, answer, budget>>

(***************************************************************************)
(* The block the service takes for offset i: the uncommitted one if there  *)
(* is one, else that of the blob.  Both may be another save's.             *)
(***************************************************************************)
Staged(c, i) == {b \in staged[call[c].name] : b.at = i}

Found(c, i) ==
    \/ Staged(c, i) # {}
    \/ Blob(c) # None /\ Blob(c).blocks /\ i <= Len(Blob(c).content)

Block(c, i) ==
    IF Staged(c, i) # {}
    THEN (CHOOSE b \in Staged(c, i) : TRUE).chunk
    ELSE Blob(c).content[i]

\* Mutant of CommitBlocks: the number of bytes is read before the upload.
CommitUncounted(c) ==
    /\ pc[c] = "stage"
    /\ total[c] = Len(call[c].content)
    /\ IF \A i \in 1 .. total[c] : Found(c, i)
       THEN /\ Replace(c, [i \in 1 .. total[c] |-> Block(c, i)], TRUE)
            /\ Reply(c, Saved(0))
       ELSE Raise(c, "sdk") /\ UNCHANGED service
    /\ UNCHANGED <<locals, budget>>

(***************************************************************************)
(* Put Block List of the identifiers of this upload.  Blocks of a longer   *)
(* save that failed are not in the list; a block that is neither staged    *)
(* nor in the blob makes the request fail with a status code of its own.   *)
(***************************************************************************)
CommitBlocks(c) ==
    /\ pc[c] = "stage"
    /\ total[c] = Len(call[c].content)
    /\ IF \A i \in 1 .. total[c] : Found(c, i)
       THEN /\ Replace(c, [i \in 1 .. total[c] |-> Block(c, i)], TRUE)
            /\ Reply(c, Saved(total[c]))
       ELSE Raise(c, "sdk") /\ UNCHANGED service
    /\ UNCHANGED <<locals, budget>>

Save(c) ==
    /\ call[c].op = "save"
    /\ PutBlob(c) \/ BeginUpload(c) \/ StageBlock(c) \/ CommitBlocks(c)

-----------------------------------------------------------------------------
(* delete: ResourceNotFoundError counts as success.  The service may drop  *)
(* the staged blocks with the blob or keep them.                           *)

\* Mutant of Delete: HttpResponseError is caught before ResourceNotFoundError.
DeleteMissingRaises(c) ==
    /\ call[c].op = "delete"
    /\ pc[c] = "start"
    /\ IF Blob(c) = None
       THEN Raise(c, "sdk") /\ UNCHANGED service
       ELSE /\ blob' = [blob EXCEPT ![call[c].name] = None]
            /\ staged' = [staged EXCEPT ![call[c].name] = {}]
            /\ Reply(c, Plain("deleted"))
    /\ UNCHANGED <<locals, budget>>

Delete(c) ==
    /\ call[c].op = "delete"
    /\ pc[c] = "start"
    /\ blob' = [blob EXCEPT ![call[c].name] = None]
    /\ \/ UNCHANGED staged
       \/ Blob(c) # None /\ staged' = [staged EXCEPT ![call[c].name] = {}]
    /\ Reply(c, Plain("deleted"))
    /\ UNCHANGED <<locals, budget>>

-----------------------------------------------------------------------------
(* open                                                                    *)

\* Mutant of Download: ResourceNotFoundError is not caught before the stream.
DownloadUnchecked(c) ==
    /\ pc[c] = "start"
    /\ seen' = [seen EXCEPT ![c] = Blob(c)]
    /\ Go(c, "stream")
    /\ UNCHANGED <<service, call, num, total, got, alone, answer, budget>>

(***************************************************************************)
(* download_blob: the first response says whether there is a blob, its     *)
(* version and length, and brings its first chunks.                        *)
(***************************************************************************)
Download(c) ==
    /\ pc[c] = "start"
    /\ IF Blob(c) = None
       THEN Reply(c, Plain("notfound")) /\ UNCHANGED <<seen, got>>
       ELSE /\ seen' = [seen EXCEPT ![c] = Blob(c)]
            /\ \E k \in 0 .. Len(Blob(c).content) :
                  got' = [got EXCEPT ![c] = SubSeq(Blob(c).content, 1, k)]
            /\ Go(c, "stream")
            /\ UNCHANGED answer
    /\ UNCHANGED <<service, call, num, total, alone, budget>>

SameVersion(c) == Blob(c) # None /\ Blob(c).etag = seen[c].etag

(***************************************************************************)
(* chunks(): the rest of the blob, range by range, if it still has the     *)
(* same version; otherwise an error of the SDK that _generator passes on.  *)
(***************************************************************************)
NextRange(c) ==
    /\ pc[c] = "stream"
    /\ Len(got[c]) < Len(seen[c].content)
    /\ SameVersion(c)
    /\ got' = [got EXCEPT ![c] = Append(@, Blob(c).content[Len(@) + 1])]
    /\ UNCHANGED <<service, pc, call, num, total, seen, alone, answer, budget>>

RangeChanged(c) ==
    /\ pc[c] = "stream"
    /\ Len(got[c]) < Len(seen[c].content)
    /\ ~SameVersion(c)
    /\ Raise(c, "sdk")
    /\ UNCHANGED <<service, locals, budget>>

EndOfBlob(c) ==
    /\ pc[c] = "stream"
    /\ Len(got[c]) = Len(seen[c].content)
    /\ Reply(c, [kind |-> "content", size |-> 0, content |-> got[c]])
    /\ UNCHANGED <<service, locals, budget>>

Open(c) ==
    /\ call[c].op = "open"
    /\ Download(c) \/ NextRange(c) \/ RangeChanged(c) \/ EndOfBlob(c)

-----------------------------------------------------------------------------
Exists(c) ==
    /\ call[c].op = "exists"
    /\ pc[c] = "start"
    /\ Reply(c, Plain(IF Blob(c) = None THEN "absent" ELSE "present"))
    /\ UNCHANGED <<service, locals, budget>>

Size(c) ==
    /\ call[c].op = "size"
    /\ pc[c] = "start"
    /\ Reply(c, IF Blob(c) = None
                THEN Plain("notfound")
                ELSE [kind |-> "size", size |-> Len(Blob(c).content), content |-> <<>>])
    /\ UNCHANGED <<service, locals, budget>>

-----------------------------------------------------------------------------
Changes(k) == k.op \in {"save", "delete"}

Rivals(c, k) == {d \in Clients \ {c} : /\ pc[d] # "idle" /\ call[d].name = k.name
                                       /\ Changes(call[d]) /\ Changes(k)}

Call(c) ==
    /\ pc[c] = "idle"
    /\ calls < MaxCalls
    /\ calls' = calls + 1
    /\ \E k \in CallSet :
          /\ call' = [call EXCEPT ![c] = k]
          /\ alone' = [d \in Clients |-> CASE d = c -> Rivals(c, k) = {}
                                          [] d \in Rivals(c, k) -> FALSE
                                          [] OTHER -> alone[d]]
    /\ num' = [num EXCEPT ![c] = calls + 1]
    /\ total' = [total EXCEPT ![c] = 0]
    /\ seen' = [seen EXCEPT ![c] = None]
    /\ got' = [got EXCEPT ![c] = <<>>]
    /\ answer' = [answer EXCEPT ![c] = Plain("none")]
    /\ Go(c, "start")
    /\ UNCHANGED <<service, faults>>

Return(c) ==
    /\ pc[c] = "reply"
    /\ Go(c, "idle")
    /\ UNCHANGED <<service, locals, answer, budget>>

(***************************************************************************)
(* The content raises, the task is cancelled, or a request is refused or   *)
(* times out; in reply the request was executed and its answer is lost.    *)
(* The blocks staged so far stay with the service.                         *)
(***************************************************************************)
Fault(c) ==
    /\ pc[c] # "idle"
    /\ faults < MaxFaults
    /\ faults' = faults + 1
    /\ \E cause \in Causes : Raise(c, Translated(c, cause))
    /\ UNCHANGED <<service, locals, calls>>

Finished ==
    /\ calls = MaxCalls
    /\ \A c \in Clients : pc[c] = "idle"
    /\ UNCHANGED vars

-----------------------------------------------------------------------------
Init ==
    /\ blob = [n \in Names |-> None]
    /\ staged = [n \in Names |-> {}]
    /\ pc = [c \in Clients |-> "idle"]
    /\ \E n \in Names : call = [c \in Clients |-> [op |-> "exists", name |-> n, content |-> <<>>]]
    /\ num = [c \in Clients |-> 0]
    /\ total = [c \in Clients |-> 0]
    /\ seen = [c \in Clients |-> None]
    /\ got = [c \in Clients |-> <<>>]
    /\ answer = [c \in Clients |-> Plain("none")]
    /\ alone = [c \in Clients |-> TRUE]
    /\ calls = 0 /\ faults = 0

Run(c) == Save(c) \/ Delete(c) \/ Open(c) \/ Exists(c) \/ Size(c) \/ Return(c)

Next == (\E c \in Clients : Call(c) \/ Run(c) \/ Fault(c)) \/ Finished

Spec == Init /\ [][Next]_vars

-----------------------------------------------------------------------------
AnswerSet ==
    [kind : {"none", "saved", "deleted", "present", "absent", "size", "content", "notfound"}
              \union Errors,
     size : Nat, content : Seq(Chunks)]

(* The variables have their types, and a stream has a version.             *)
TypeOK ==
    /\ blob \in [Names -> Versions \union {None}]
    /\ staged \in [Names -> SUBSET [at : Nat, chunk : Chunks]]
    /\ pc \in [Clients -> {"idle", "start", "stage", "stream", "reply"}]
    /\ call \in [Clients -> CallSet]
    /\ num \in [Clients -> Nat]
    /\ total \in [Clients -> Nat]
    /\ seen \in [Clients -> Versions \union {None}]
    /\ got \in [Clients -> Seq(Chunks)]
    /\ \A c \in Clients : pc[c] = "stream" => seen[c] \in Versions
    /\ answer \in [Clients -> AnswerSet]
    /\ alone \in [Clients -> BOOLEAN]
    /\ calls \in Nat /\ faults \in Nat

(***************************************************************************)
(* What a save has sent is what it will commit, whatever blocks earlier    *)
(* saves of the name left behind when they failed, unless another save or  *)
(* delete of the name overlaps it.                                         *)
(***************************************************************************)
OwnBlocks ==
    \A c \in Clients : pc[c] = "stage" /\ alone[c] =>
        \A i \in 1 .. total[c] : Staged(c, i) = {[at |-> i, chunk |-> call[c].content[i]]}

(***************************************************************************)
(* An error of the SDK reaches a caller only if a request fails, a blob is *)
(* replaced or deleted under a stream, or a save commits blocks that an    *)
(* overlapping call has discarded.  A blob that does not exist is never    *)
(* the reason.                                                             *)
(***************************************************************************)
TranslatedErrors ==
    [][\A c \in Clients : answer[c].kind # "sdk" /\ answer'[c].kind = "sdk" =>
          \/ faults' > faults
          \/ pc[c] = "stream" /\ Blob(c) # seen[c]
          \/ pc[c] = "stage" /\ ~alone[c]]_vars

(***************************************************************************)
(* No error of the SDK reaches a caller while every request is answered.   *)
(* The README says that callers never need to catch one                    *)
(* (README.md:408), and exceptions.py:4 that backends must translate them. *)
(* Refuted: the commit of a save whose blocks an overlapping call has      *)
(* discarded fails with a status code that save raises again, and a blob   *)
(* replaced under a stream fails a range outside of any except clause.     *)
(***************************************************************************)
NoSdkErrors == \A c \in Clients : answer[c].kind # "sdk"

PromisedAnswer(c) ==
    CASE pc[c] = "stream" -> [kind |-> "content", size |-> 0, content |-> seen[c].content]
      [] OTHER -> IF answer[c].kind \in Errors THEN Plain("error") ELSE answer[c]

(***************************************************************************)
(* The backend implements the contract of Storage, but for the commit of a *)
(* streaming save that another save or delete of the name has overlapped:  *)
(* it may store blocks of the other save among its own.  A save takes      *)
(* effect by its only or last request, open by its first.                  *)
(***************************************************************************)
Contract == INSTANCE StorageContract WITH
    Absent <- None,
    store  <- [n \in Names |-> IF blob[n] = None THEN None ELSE blob[n].content],
    phase  <- [c \in Clients |-> CASE pc[c] = "idle" -> "idle"
                                   [] pc[c] \in {"stream", "reply"} -> "effective"
                                   [] OTHER -> "pending"],
    answer <- [c \in Clients |-> PromisedAnswer(c)]

OverlappedCommit(c) == pc[c] = "stage" /\ ~alone[c] /\ pc'[c] = "reply"

ImplementsContract ==
    Contract!ContractInit
      /\ [][Contract!ContractNext \/ \E c \in Clients : OverlappedCommit(c)]_(Contract!contractVars)
=============================================================================
