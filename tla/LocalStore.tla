------------------------------ MODULE LocalStore ------------------------------
(***************************************************************************)
(* The local backend (fast_storages/backends/local.py): several tasks call *)
(* save, delete, open, size and exists on one directory tree.  A step is   *)
(* one file operation, which aiofiles runs in a thread, so the operations  *)
(* of different calls interleave.                                          *)
(*                                                                         *)
(* The tree maps a name to a file, a directory or nothing.  Files are      *)
(* inodes: a handle keeps its inode when the name is removed, and two      *)
(* handles on one inode each have a position of their own.  Chunks stand   *)
(* for the bytes of one position.                                          *)
(***************************************************************************)
EXTENDS Naturals, Sequences

CONSTANTS Clients,     \* the tasks that call the backend
          Names,       \* names of files, safe ones: _resolve_safe_path returns
          Above,       \* the names that are directories on the path of a name
          Inodes,      \* files
          Chunks,      \* pieces of content
          Contents,    \* the contents saved under a name, sequences of chunks
          Hole,        \* what a file holds where nothing was written: zeros
          Dir,         \* a directory
          None,        \* no file; Python's None
          DirSize,     \* st_size of a directory
          Callers,     \* how callers may behave: values of serialised
          MaxCalls,    \* bound: calls made in a behaviour
          MaxFaults,   \* bound: calls that fail
          MaxCancels   \* bound: calls cancelled while a thread works for them

ASSUME LocalAssumption ==
    /\ Above \in [Names -> SUBSET Names]
    /\ \A n \in Names : n \notin Above[n] /\ \A p \in Above[n] : Above[p] \subseteq Above[n]
    /\ {None, Dir} \intersect Inodes = {} /\ None # Dir
    /\ Contents \in [Names -> SUBSET Seq(Chunks)]
    /\ DirSize \in Nat
    /\ None \notin Seq(Chunks \union {Hole})
    /\ Callers \subseteq BOOLEAN /\ Callers # {}
    /\ {MaxCalls, MaxFaults, MaxCancels} \subseteq Nat

VARIABLES
    tree,    \* what each name is: an inode, Dir or None
    data,    \* the bytes of each inode
    late,    \* file operations in threads whose task has been cancelled
    pc,      \* the file operation the client executes next
    call,    \* its call
    file,    \* the inode it has open
    total,   \* chunks save has taken from its content (total_size)
    done,    \* those of them that have left the buffer
    got,     \* chunks the stream has yielded
    answer,  \* what the call returned
    serialised,  \* callers let no save or delete of a name overlap another call of it
    calls, faults, cancels

disk   == <<tree, data, late>>
locals == <<call, file, total, done, got>>
budget == <<serialised, calls, faults, cancels>>
vars   == <<disk, pc, locals, answer, budget>>

CallSet ==
    (UNION {[op : {"save"}, name : {n}, content : Contents[n]] : n \in Names})
        \union [op : {"delete", "open", "size", "exists"}, name : Names, content : {<<>>}]

Plain(k) == [kind |-> k, size |-> 0, content |-> <<>>]

Go(c, label) == pc' = [pc EXCEPT ![c] = label]

Node(c) == tree[call[c].name]

IsFile(n) == tree[n] \in Inodes

BelowFile(n) == \E p \in Above[n] : IsFile(p)

Reply(c, reply) ==
    /\ answer' = [answer EXCEPT ![c] = reply]
    /\ Go(c, "reply")

\* Mutant of Raise: the file is not closed when an exception leaves.
RaiseLeavesOpen(c, kind) ==
    /\ answer' = [answer EXCEPT ![c] = Plain(kind)]
    /\ file' = file
    /\ Go(c, "idle")

Raise(c, kind) ==
    /\ answer' = [answer EXCEPT ![c] = Plain(kind)]
    /\ file' = [file EXCEPT ![c] = None]
    /\ Go(c, "idle")

-----------------------------------------------------------------------------
(* save                                                                    *)

(***************************************************************************)
(* path.parent.mkdir(parents=True, exist_ok=True); the error of a file in  *)
(* the way is not translated.                                              *)
(***************************************************************************)
MakeDirs(c) ==
    /\ pc[c] = "start"
    /\ IF BelowFile(call[c].name)
       THEN Raise(c, "oserror") /\ UNCHANGED tree
       ELSE /\ tree' = [n \in Names |-> IF n \in Above[call[c].name] THEN Dir ELSE tree[n]]
            /\ Go(c, "create")
            /\ UNCHANGED <<answer, file>>
    /\ UNCHANGED <<data, late, call, total, done, got, budget>>

\* No name and no handle refers to the inode.
Free(i) ==
    /\ \A m \in Names : tree[m] # i
    /\ \A d \in Clients : file[d] # i
    /\ \A j \in late : j.file # i

\* Mutant of OpenForWriting: an existing file is not truncated.
OpenNoTruncate(n, i) ==
    /\ IF IsFile(n)
       THEN i = tree[n] /\ data' = data
       ELSE /\ tree[n] = None
            /\ i \in Inodes
            /\ Free(i)
            /\ data' = [data EXCEPT ![i] = <<>>]
    /\ tree' = [tree EXCEPT ![n] = i]

(***************************************************************************)
(* The open system call with mode "wb": an existing file is truncated      *)
(* where it is, and whoever reads or writes it goes on doing so.           *)
(***************************************************************************)
OpenForWriting(n, i) ==
    /\ IF IsFile(n)
       THEN i = tree[n]
       ELSE /\ tree[n] = None
            /\ i \in Inodes
            /\ Free(i)
    /\ tree' = [tree EXCEPT ![n] = i]
    /\ data' = [data EXCEPT ![i] = <<>>]

Create(c) ==
    /\ pc[c] = "create"
    /\ \/ /\ \E i \in Inodes : OpenForWriting(call[c].name, i) /\ file' = [file EXCEPT ![c] = i]
          /\ Go(c, "write")
          /\ UNCHANGED answer
       \/ Node(c) = Dir /\ Raise(c, "oserror") /\ UNCHANGED <<tree, data>>
    /\ UNCHANGED <<late, call, total, done, got, budget>>

(***************************************************************************)
(* A write puts pieces from + 1 to to of x at these positions, leaving a   *)
(* hole if the file has been truncated since and is shorter.               *)
(***************************************************************************)
Overwrite(s, x, from, to) ==
    [j \in 1 .. (IF from < to /\ to > Len(s) THEN to ELSE Len(s)) |->
        CASE j \in from + 1 .. to -> x[j]
          [] j \notin from + 1 .. to /\ j <= Len(s) -> s[j]
          [] OTHER -> Hole]

(***************************************************************************)
(* The buffer goes to the file, up to the k-th chunk of the content.       *)
(***************************************************************************)
Flush(c, k) ==
    /\ data' = [data EXCEPT ![file[c]] = Overwrite(@, call[c].content, done[c], k)]
    /\ done' = [done EXCEPT ![c] = k]

(***************************************************************************)
(* f.write: when the buffer is full a part of what was written reaches the *)
(* file.                                                                   *)
(***************************************************************************)
Write(c) ==
    /\ pc[c] = "write"
    /\ total[c] < Len(call[c].content)
    /\ total' = [total EXCEPT ![c] = @ + 1]
    /\ \E k \in done[c] .. total[c] + 1 : Flush(c, k)
    /\ UNCHANGED <<tree, late, pc, call, file, got, answer, budget>>

\* Mutant of CloseFile: save returns before the buffer is flushed.
CloseUnflushed(c) ==
    /\ pc[c] = "write"
    /\ total[c] = Len(call[c].content)
    /\ file' = [file EXCEPT ![c] = None]
    /\ Reply(c, [kind |-> "saved", size |-> total[c], content |-> <<>>])
    /\ UNCHANGED <<tree, data, late, call, total, done, got, budget>>

CloseFile(c) ==
    /\ pc[c] = "write"
    /\ total[c] = Len(call[c].content)
    /\ Flush(c, total[c])
    /\ file' = [file EXCEPT ![c] = None]
    /\ Reply(c, [kind |-> "saved", size |-> total[c], content |-> <<>>])
    /\ UNCHANGED <<tree, late, call, total, got, budget>>

Save(c) ==
    /\ call[c].op = "save"
    /\ MakeDirs(c) \/ Create(c) \/ Write(c) \/ CloseFile(c)

-----------------------------------------------------------------------------
(* delete: FileNotFoundError is success; NotADirectoryError, when a name   *)
(* above is a file, and IsADirectoryError are not translated.              *)

\* Mutant of Delete: directories that become empty are removed.
DeletePrunes(c) ==
    /\ call[c].op = "delete"
    /\ pc[c] = "start"
    /\ IF Node(c) = Dir \/ BelowFile(call[c].name)
       THEN Raise(c, "oserror") /\ UNCHANGED tree
       ELSE /\ tree' = [n \in Names |->
                          IF /\ n = call[c].name \/ n \in Above[call[c].name]
                             /\ \A m \in Names \ {call[c].name} : n \in Above[m] => tree[m] = None
                          THEN None ELSE tree[n]]
            /\ Reply(c, Plain("deleted"))
            /\ UNCHANGED file
    /\ UNCHANGED <<data, late, call, total, done, got, budget>>

\* Mutant of Delete: a missing file is an error that nothing translates.
DeleteMissingRaises(c) ==
    /\ call[c].op = "delete"
    /\ pc[c] = "start"
    /\ IF ~IsFile(call[c].name)
       THEN Raise(c, "oserror") /\ UNCHANGED tree
       ELSE /\ tree' = [tree EXCEPT ![call[c].name] = None]
            /\ Reply(c, Plain("deleted"))
            /\ UNCHANGED file
    /\ UNCHANGED <<data, late, call, total, done, got, budget>>

Delete(c) ==
    /\ call[c].op = "delete"
    /\ pc[c] = "start"
    /\ IF Node(c) = Dir \/ BelowFile(call[c].name)
       THEN Raise(c, "oserror") /\ UNCHANGED tree
       ELSE /\ tree' = [tree EXCEPT ![call[c].name] = None]
            /\ Reply(c, Plain("deleted"))
            /\ UNCHANGED file
    /\ UNCHANGED <<data, late, call, total, done, got, budget>>

-----------------------------------------------------------------------------
(* open: is_file at the call, the file itself at the first iteration.      *)

Check(c) ==
    /\ pc[c] = "start"
    /\ IF IsFile(call[c].name)
       THEN Go(c, "opened") /\ UNCHANGED answer
       ELSE Reply(c, Plain("notfound"))
    /\ UNCHANGED <<disk, locals, budget>>

StartStream(c) ==
    /\ pc[c] = "opened"
    /\ IF IsFile(call[c].name)
       THEN file' = [file EXCEPT ![c] = Node(c)] /\ Go(c, "stream") /\ UNCHANGED answer
       ELSE Raise(c, "oserror")
    /\ UNCHANGED <<disk, call, total, done, got, budget>>

Read(c) ==
    /\ pc[c] = "stream"
    /\ Len(got[c]) < Len(data[file[c]])
    /\ got' = [got EXCEPT ![c] = Append(@, data[file[c]][Len(@) + 1])]
    /\ UNCHANGED <<disk, pc, call, file, total, done, answer, budget>>

EndOfFile(c) ==
    /\ pc[c] = "stream"
    /\ Len(got[c]) >= Len(data[file[c]])
    /\ file' = [file EXCEPT ![c] = None]
    /\ Reply(c, [kind |-> "content", size |-> 0, content |-> got[c]])
    /\ UNCHANGED <<disk, call, total, done, got, budget>>

Open(c) ==
    /\ call[c].op = "open"
    /\ Check(c) \/ StartStream(c) \/ Read(c) \/ EndOfFile(c)

-----------------------------------------------------------------------------
Exists(c) ==
    /\ call[c].op = "exists"
    /\ pc[c] = "start"
    /\ Reply(c, Plain(IF IsFile(call[c].name) THEN "present" ELSE "absent"))
    /\ UNCHANGED <<disk, locals, budget>>

(***************************************************************************)
(* size: os.stat answers for directories too.                              *)
(***************************************************************************)
StatSize(n) == IF tree[n] = Dir THEN DirSize ELSE Len(data[tree[n]])

Size(c) ==
    /\ call[c].op = "size"
    /\ pc[c] = "start"
    /\ CASE BelowFile(call[c].name) -> Raise(c, "oserror")
         [] ~BelowFile(call[c].name) /\ Node(c) = None ->
                Reply(c, Plain("notfound")) /\ UNCHANGED file
         [] OTHER ->
                /\ Reply(c, [kind |-> "size", size |-> StatSize(call[c].name), content |-> <<>>])
                /\ UNCHANGED file
    /\ UNCHANGED <<disk, call, total, done, got, budget>>

-----------------------------------------------------------------------------
Changes(k) == k.op \in {"save", "delete"}

Compatible(k, l) == k.name = l.name => ~Changes(k) /\ ~Changes(l)

Call(c) ==
    /\ pc[c] = "idle"
    /\ calls < MaxCalls
    /\ calls' = calls + 1
    /\ \E k \in CallSet :
          /\ serialised => \A d \in Clients : pc[d] # "idle" => Compatible(k, call[d])
          /\ call' = [call EXCEPT ![c] = k]
    /\ Go(c, "start")
    /\ total' = [total EXCEPT ![c] = 0]
    /\ done' = [done EXCEPT ![c] = 0]
    /\ got' = [got EXCEPT ![c] = <<>>]
    /\ answer' = [answer EXCEPT ![c] = Plain("none")]
    /\ UNCHANGED <<disk, file, serialised, faults, cancels>>

Return(c) ==
    /\ pc[c] = "reply"
    /\ Go(c, "idle")
    /\ UNCHANGED <<disk, locals, answer, budget>>

(***************************************************************************)
(* What the file of a save has been given: a chunk more than the loop has  *)
(* counted, if a write of it is under way.                                 *)
(***************************************************************************)
Given(c) == IF total[c] < Len(call[c].content) THEN total[c] + 1 ELSE total[c]

(***************************************************************************)
(* How a call may end early.  The exception is the caller's own: the       *)
(* content raises, the task is cancelled, the consumer of a stream stops,  *)
(* the process dies.  Or the operating system fails an operation: a full   *)
(* disk, a denied permission.  Only PermissionError is translated, and not *)
(* that of mkdir (line 123), is_file (148) and stat (181); isfile (176)    *)
(* swallows every OSError.                                                 *)
(***************************************************************************)
Covered(c) == pc[c] \in {"create", "write", "opened", "stream"} \/ call[c].op = "delete"

Outcomes(c) ==
    {"caller", IF call[c].op = "exists" THEN "absent" ELSE "oserror"}
        \union {k \in {"error"} : Covered(c)}

(***************************************************************************)
(* What save has written stays in the file, and of the rest what could be  *)
(* flushed while its file was closed.                                      *)
(***************************************************************************)
Fault(c) ==
    /\ pc[c] \notin {"idle", "reply"}
    /\ faults < MaxFaults
    /\ faults' = faults + 1
    /\ IF pc[c] = "write"
       THEN \E k \in done[c] .. Given(c) : Flush(c, k)
       ELSE UNCHANGED <<data, done>>
    /\ \E kind \in Outcomes(c) : Raise(c, kind)
    /\ UNCHANGED <<tree, late, call, total, got, serialised, calls, cancels>>

-----------------------------------------------------------------------------
(***************************************************************************)
(* Cancelling a task does not stop the thread that works for it: the open  *)
(* of line 127, the remove of 167, and the close with which save leaves    *)
(* its file, in success or by an exception, goes on when the call is over. *)
(***************************************************************************)
Leave(c, op, k) ==
    late' = late \union {[id |-> cancels + 1, op |-> op, call |-> call[c], file |-> file[c],
                          from |-> done[c], to |-> k]}

Cancel(c) ==
    /\ cancels < MaxCancels
    /\ cancels' = cancels + 1
    /\ \/ pc[c] = "create" /\ Leave(c, "open", 0)
       \/ pc[c] = "start" /\ call[c].op = "delete" /\ Leave(c, "remove", 0)
       \/ pc[c] = "write" /\ \E k \in total[c] .. Given(c) : Leave(c, "close", k)
    /\ Raise(c, "caller")
    /\ UNCHANGED <<tree, data, call, total, done, got, serialised, calls, faults>>

(***************************************************************************)
(* Nobody looks at how the operation ends, and the file that a late open   *)
(* has opened is closed again with nothing in its buffer.                  *)
(***************************************************************************)
LateOpen(j) ==
    /\ j.op = "open"
    /\ \/ \E i \in Inodes : OpenForWriting(j.call.name, i)
       \/ tree[j.call.name] = Dir /\ UNCHANGED <<tree, data>>

LateRemove(j) ==
    /\ j.op = "remove"
    /\ tree' = [n \in Names |-> IF n = j.call.name /\ IsFile(n) THEN None ELSE tree[n]]
    /\ UNCHANGED data

\* Mutant of LateClose: the file is opened with mode "ab".
LateCloseAppends(j) ==
    /\ j.op = "close"
    /\ data' = [data EXCEPT ![j.file] = @ \o SubSeq(j.call.content, j.from + 1, j.to)]
    /\ UNCHANGED tree

LateClose(j) ==
    /\ j.op = "close"
    /\ data' = [data EXCEPT ![j.file] = Overwrite(@, j.call.content, j.from, j.to)]
    /\ UNCHANGED tree

Late(j) ==
    /\ LateOpen(j) \/ LateRemove(j) \/ LateClose(j)
    /\ late' = late \ {j}
    /\ UNCHANGED <<pc, locals, answer, budget>>

Finished ==
    /\ calls = MaxCalls
    /\ \A c \in Clients : pc[c] = "idle"
    /\ UNCHANGED vars

-----------------------------------------------------------------------------
Init ==
    /\ tree = [n \in Names |-> None]
    /\ data = [i \in Inodes |-> <<>>]
    /\ late = {}
    /\ pc = [c \in Clients |-> "idle"]
    /\ \E n \in Names : call = [c \in Clients |-> [op |-> "exists", name |-> n, content |-> <<>>]]
    /\ file = [c \in Clients |-> None]
    /\ total = [c \in Clients |-> 0]
    /\ done = [c \in Clients |-> 0]
    /\ got = [c \in Clients |-> <<>>]
    /\ answer = [c \in Clients |-> Plain("none")]
    /\ serialised \in Callers
    /\ calls = 0 /\ faults = 0 /\ cancels = 0

Run(c) == Save(c) \/ Delete(c) \/ Open(c) \/ Exists(c) \/ Size(c) \/ Return(c)

Next ==
    \/ \E c \in Clients : Call(c) \/ Run(c) \/ Fault(c) \/ Cancel(c)
    \/ \E j \in late : Late(j)
    \/ Finished

Spec == Init /\ [][Next]_vars

-----------------------------------------------------------------------------
(* The variables have the types the code gives them, and who reads or      *)
(* writes has a file open.                                                 *)
Labels == {"idle", "start", "create", "write", "opened", "stream", "reply"}

AnswerSet ==
    [kind : {"none", "saved", "deleted", "present", "absent", "size", "content", "notfound",
             "error", "oserror", "caller"},
     size : Nat, content : Seq(Chunks \union {Hole})]

JobSet ==
    [id : Nat, op : {"open", "remove", "close"}, call : CallSet, file : Inodes \union {None},
     from : Nat, to : Nat]

TypeOK ==
    /\ tree \in [Names -> Inodes \union {Dir, None}]
    /\ data \in [Inodes -> Seq(Chunks \union {Hole})]
    /\ late \subseteq JobSet
    /\ \A j \in late : (j.file # None) <=> (j.op = "close")
    /\ pc \in [Clients -> Labels]
    /\ call \in [Clients -> CallSet]
    /\ file \in [Clients -> Inodes \union {None}]
    /\ \A c \in Clients : (file[c] # None) <=> pc[c] \in {"write", "stream"}
    /\ total \in [Clients -> Nat]
    /\ done \in [Clients -> Nat]
    /\ got \in [Clients -> Seq(Chunks \union {Hole})]
    /\ answer \in [Clients -> AnswerSet]
    /\ serialised \in Callers
    /\ calls \in Nat /\ faults \in Nat /\ cancels \in Nat

(***************************************************************************)
(* A file or directory is always below directories, and so is one that is  *)
(* about to be created: save makes the directories in one step and the     *)
(* file in another, which a thread may run long after its task has been    *)
(* cancelled, and open does not look for them again.                       *)
(***************************************************************************)
InDirs(n) == \A p \in Above[n] : tree[p] = Dir

TreeClosed ==
    /\ \A n \in Names : tree[n] # None => InDirs(n)
    /\ \A j \in late : j.op = "open" => InDirs(j.call.name)
    /\ \A c \in Clients : call[c].op = "save" /\ pc[c] = "create" => InDirs(call[c].name)

(***************************************************************************)
(* However saves, deletes and streams of all names overlap and fail, what  *)
(* a file holds at a position, or a stream has read there, was saved under *)
(* this name at this position, or is a hole.  Names share no bytes, not    *)
(* even through a handle on a file deleted since.                          *)
(***************************************************************************)
SavedUnder(n, s) ==
    \A i \in 1 .. Len(s) : s[i] = Hole \/ \E x \in Contents[n] : i <= Len(x) /\ s[i] = x[i]

OwnBytes ==
    /\ \A n \in Names : IsFile(n) => SavedUnder(n, data[tree[n]])
    /\ \A c \in Clients : SavedUnder(call[c].name, got[c])

(***************************************************************************)
(* With callers that serialise their calls, no file is ever a mixture: it  *)
(* is the beginning of one content, whichever saves failed before, and a   *)
(* save in progress has written what it has flushed and nothing else.      *)
(* This is of calls that end with their last file operation: a thread that *)
(* goes on when its call has been cancelled may truncate, remove or fill   *)
(* the file of a later save (SaveLasts).                                   *)
(***************************************************************************)
BeginningOf(s, x) == Len(s) <= Len(x) /\ s = SubSeq(x, 1, Len(s))

OneBeginning ==
    serialised /\ cancels = 0 =>
    /\ \A n \in Names : IsFile(n) => \E x \in Contents[n] : BeginningOf(data[tree[n]], x)
    /\ \A c \in Clients : call[c].op = "save" /\ pc[c] = "write" =>
          /\ Node(c) = file[c]
          /\ data[file[c]] = SubSeq(call[c].content, 1, done[c])

(***************************************************************************)
(* An OSError reaches the caller untranslated for one of three causes: a   *)
(* name that is a directory, or has a file above it; a delete, by an       *)
(* overlapping call or the thread of a cancelled one, between open's check *)
(* and its first read; or a failure of the operating system that no clause *)
(* covers.  A missing file is never one.                                   *)
(***************************************************************************)
TranslatedErrors ==
    [][\A c \in Clients : answer[c].kind # "oserror" /\ answer'[c].kind = "oserror" =>
          \/ Node(c) = Dir \/ BelowFile(call[c].name)
          \/ pc[c] = "opened" /\ Node(c) = None /\ (~serialised \/ cancels > 0)
          \/ faults' > faults]_vars

(***************************************************************************)
(* With callers that serialise their calls the backend implements the      *)
(* contract of Storage until a call fails, but for the size of a           *)
(* directory.  A save takes effect when it truncates the file, open when   *)
(* it has checked that there is one.                                       *)
(***************************************************************************)
Writers(n) == {c \in Clients : call[c].op = "save" /\ pc[c] = "write" /\ call[c].name = n}

Held(n) ==
    IF Writers(n) # {}
    THEN call[CHOOSE c \in Writers(n) : TRUE].content
    ELSE IF IsFile(n) THEN data[tree[n]] ELSE None

PromisedAnswer(c) ==
    CASE pc[c] \in {"opened", "stream"} ->
           [kind |-> "content", size |-> 0, content |-> Held(call[c].name)]
      [] pc[c] = "write" -> [kind |-> "saved", size |-> Len(call[c].content), content |-> <<>>]
      [] OTHER -> IF answer[c].kind \in {"oserror", "caller"} THEN Plain("error") ELSE answer[c]

Contract == INSTANCE StorageContract WITH
    Contents <- UNION {Contents[n] : n \in Names},
    Absent <- None,
    store  <- [n \in Names |-> Held(n)],
    phase  <- [c \in Clients |->
                 CASE pc[c] = "idle" -> "idle"
                   [] pc[c] \in {"write", "opened", "stream", "reply"} -> "effective"
                   [] OTHER -> "pending"],
    answer <- [c \in Clients |-> PromisedAnswer(c)]

SizeOfDirectory(c) == call[c].op = "size" /\ pc[c] = "start" /\ Node(c) = Dir

ImplementsContract ==
    Contract!ContractInit
      /\ [][\/ Contract!ContractNext
            \/ ~serialised
            \/ faults' + cancels' > 0
            \/ \E c \in Clients : SizeOfDirectory(c) /\ pc'[c] = "reply"]_(Contract!contractVars)

-----------------------------------------------------------------------------
(* What the repository says and the code does not keep.                    *)

(***************************************************************************)
(* save (base.py, line 120): "Write `content` to `name`, overwriting any   *)
(* existing object at that path."  So a file holds what the last save of   *)
(* its name wrote, when that has returned, no call is in progress and      *)
(* callers serialise their calls: no other client's last call was a save   *)
(* or delete of the name.                                                  *)
(***************************************************************************)
SaveLasts ==
    (\A c \in Clients : pc[c] = "idle")
        => \A c \in Clients :
              /\ call[c].op = "save" /\ answer[c].kind = "saved"
              /\ \A d \in Clients \ {c} : call[d].name = call[c].name => ~Changes(call[d])
              => IsFile(call[c].name) /\ data[Node(c)] = call[c].content
=============================================================================
