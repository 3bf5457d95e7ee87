--------------------------- MODULE LocalStoreProofs ---------------------------
(***************************************************************************)
(* Proofs about LocalStore, for any directory tree and any number of       *)
(* clients, inodes, contents, calls, faults and cancelled calls.           *)
(***************************************************************************)
EXTENDS LocalStore, SequenceTheorems, TLAPS

Bytes == Seq(Chunks \union {Hole})

-----------------------------------------------------------------------------
(* Types.  TypeOK is inductive once it says which operation a label        *)
(* belongs to and that save, and a close it has left to a thread, takes no *)
(* more chunks than its content has: what it writes are chunks of it.      *)

Progress ==
    \A c \in Clients :
        /\ pc[c] \in {"create", "write"} => call[c].op = "save"
        /\ pc[c] \in {"opened", "stream"} => call[c].op = "open"
        /\ pc[c] \in {"start", "create"} => done[c] = 0 /\ total[c] = 0
        /\ pc[c] # "idle" => done[c] <= total[c]
        /\ total[c] <= Len(call[c].content)

JobOk(j) ==
    j.op = "close" => /\ j.call.op = "save"
                      /\ j.to <= Len(j.call.content)

JobsOk == \A j \in late : JobOk(j)

TypeInv == TypeOK /\ Progress /\ JobsOk

(***************************************************************************)
(* What a caller can pass to the operations.                               *)
(***************************************************************************)
LEMMA CallFacts ==
    ASSUME NEW k \in CallSet
    PROVE  /\ k.op \in {"save", "delete", "open", "size", "exists"}
           /\ k.name \in Names
           /\ k.content \in Seq(Chunks)
           /\ Len(k.content) \in Nat
           /\ k.op = "save" => k.content \in Contents[k.name]
  <1>1. <<>> \in Seq(Chunks)
    OBVIOUS
  <1>2. CASE k \in [op : {"delete", "open", "size", "exists"}, name : Names, content : {<<>>}]
    BY <1>1, <1>2
  <1>3. ASSUME NEW n \in Names, k \in [op : {"save"}, name : {n}, content : Contents[n]]
        PROVE  /\ k.op = "save" /\ k.name = n
               /\ k.content \in Contents[n] /\ k.content \in Seq(Chunks)
    <2>1. Contents[n] \subseteq Seq(Chunks)
      BY LocalAssumption
    <2> QED
      BY <1>3, <2>1
  <1>4. CASE \E n \in Names : k \in [op : {"save"}, name : {n}, content : Contents[n]]
    BY <1>3, <1>4
  <1>5. \/ k \in [op : {"delete", "open", "size", "exists"}, name : Names, content : {<<>>}]
        \/ \E n \in Names : k \in [op : {"save"}, name : {n}, content : Contents[n]]
    BY DEF CallSet
  <1>6. k.content \in Seq(Chunks)
    BY <1>2, <1>4, <1>5
  <1> QED
    BY <1>2, <1>4, <1>5, <1>6

(***************************************************************************)
(* The answers of the operations are answers.                              *)
(***************************************************************************)
LEMMA AnswerTyped ==
    ASSUME NEW k \in {"none", "saved", "deleted", "present", "absent", "size", "content",
                      "notfound", "error", "oserror", "caller"},
           NEW s \in Nat, NEW x \in Bytes
    PROVE  /\ [kind |-> k, size |-> s, content |-> x] \in AnswerSet
           /\ [kind |-> k, size |-> s, content |-> <<>>] \in AnswerSet
           /\ Plain(k) \in AnswerSet
  <1>1. <<>> \in Bytes
    BY DEF Bytes
  <1> QED
    BY <1>1 DEF Plain, AnswerSet, Bytes

(***************************************************************************)
(* A write leaves a sequence of bytes.                                     *)
(***************************************************************************)
LEMMA OverwriteTyped ==
    ASSUME NEW s \in Bytes, NEW x \in Seq(Chunks),
           NEW from \in Nat, NEW to \in Nat, to <= Len(x)
    PROVE  /\ Overwrite(s, x, from, to) \in Bytes
           /\ Len(Overwrite(s, x, from, to)) = IF from < to /\ to > Len(s) THEN to ELSE Len(s)
           /\ \A j \in 1 .. Len(Overwrite(s, x, from, to)) :
                 Overwrite(s, x, from, to)[j] =
                    CASE j \in from + 1 .. to -> x[j]
                      [] j \notin from + 1 .. to /\ j <= Len(s) -> s[j]
                      [] OTHER -> Hole
  <1> DEFINE n == IF from < to /\ to > Len(s) THEN to ELSE Len(s)
             at(j) == CASE j \in from + 1 .. to -> x[j]
                        [] j \notin from + 1 .. to /\ j <= Len(s) -> s[j]
                        [] OTHER -> Hole
             o == Overwrite(s, x, from, to)
  <1>1. n \in Nat /\ Len(s) \in Nat /\ Len(x) \in Nat
    BY DEF Bytes
  <1>2. o = [j \in 1 .. n |-> at(j)]
    BY DEF Overwrite
  <1>3. \A j \in 1 .. n : at(j) \in Chunks \union {Hole}
    <2> SUFFICES ASSUME NEW j \in 1 .. n PROVE at(j) \in Chunks \union {Hole}
      OBVIOUS
    <2>1. CASE j \in from + 1 .. to
      <3>1. j \in 1 .. Len(x)
        BY <1>1, <2>1
      <3>2. x[j] \in Chunks
        BY <3>1, ElementOfSeq
      <3> QED
        BY <2>1, <3>2
    <2>2. CASE j \notin from + 1 .. to /\ j <= Len(s)
      <3>1. s[j] \in Chunks \union {Hole}
        BY <1>1, <2>2, ElementOfSeq DEF Bytes
      <3> QED
        BY <2>2, <3>1
    <2>3. CASE j \notin from + 1 .. to /\ ~(j <= Len(s))
      BY <2>3
    <2> QED
      BY <2>1, <2>2, <2>3
  <1> HIDE DEF n, at, o
  <1>4. o \in [1 .. n -> Chunks \union {Hole}]
    BY <1>2, <1>3
  <1>5. o \in Bytes
    BY <1>1, <1>4, SeqDef DEF Bytes
  <1>6. Len(o) = n
    BY <1>1, <1>4, <1>5, LenProperties DEF Bytes
  <1>7. \A j \in 1 .. Len(o) : o[j] = at(j)
    BY <1>2, <1>6
  <1> QED
    BY <1>5, <1>6, <1>7 DEF n, at, o

(***************************************************************************)
(* What flushing the buffer changes.                                       *)
(***************************************************************************)
LEMMA FlushEffect ==
    ASSUME TypeInv, NEW c \in Clients, pc[c] = "write",
           NEW k \in Nat, k <= Len(call[c].content), Flush(c, k)
    PROVE  /\ data' \in [Inodes -> Bytes]
           /\ done' = [done EXCEPT ![c] = k]
           /\ file[c] \in Inodes
           /\ data'[file[c]] = Overwrite(data[file[c]], call[c].content, done[c], k)
           /\ \A i \in Inodes : i # file[c] => data'[i] = data[i]
  <1>1. data \in [Inodes -> Bytes] /\ done[c] \in Nat /\ call[c] \in CallSet
    BY DEF TypeInv, TypeOK, Bytes
  <1>2. file[c] \in Inodes /\ data[file[c]] \in Bytes
    BY <1>1 DEF TypeInv, TypeOK
  <1>3. Overwrite(data[file[c]], call[c].content, done[c], k) \in Bytes
    BY <1>1, <1>2, CallFacts, OverwriteTyped
  <1> QED
    BY <1>1, <1>2, <1>3 DEF Flush

(***************************************************************************)
(* What opening a file for writing changes.                                *)
(***************************************************************************)
LEMMA OpenEffect ==
    ASSUME TypeInv, NEW n \in Names, NEW i \in Inodes, OpenForWriting(n, i)
    PROVE  /\ tree' \in [Names -> Inodes \union {Dir, None}]
           /\ tree'[n] = i /\ tree[n] # Dir
           /\ \A m \in Names : m # n => tree'[m] = tree[m]
           /\ data' \in [Inodes -> Bytes]
           /\ data'[i] = <<>>
           /\ \A j \in Inodes : j # i => data'[j] = data[j]
  <1>1. <<>> \in Bytes
    BY DEF Bytes
  <1> QED
    BY <1>1, LocalAssumption DEF OpenForWriting, IsFile, TypeInv, TypeOK, Bytes

(***************************************************************************)
(* The initial state is well typed.                                        *)
(***************************************************************************)
LEMMA TypeInit == Init => TypeInv
  <1> SUFFICES ASSUME Init PROVE TypeInv
    OBVIOUS
  <1>1. <<>> \in Bytes /\ Len(<<>>) = 0
    BY DEF Bytes
  <1>2. PICK n \in Names :
           call = [c \in Clients |-> [op |-> "exists", name |-> n, content |-> <<>>]]
    BY DEF Init
  <1>3. [op |-> "exists", name |-> n, content |-> <<>>] \in CallSet
    BY DEF CallSet
  <1>4. call \in [Clients -> CallSet]
    BY <1>2, <1>3
  <1>5. Plain("none") \in AnswerSet
    BY <1>1, AnswerTyped
  <1>6. TypeOK
    BY <1>1, <1>4, <1>5 DEF Init, TypeOK, Labels, Bytes
  <1>7. \A c \in Clients : /\ pc[c] = "idle" /\ done[c] = 0 /\ total[c] = 0
                           /\ call[c].content = <<>>
    BY <1>2 DEF Init
  <1>8. Progress
    <2>1. \A c \in Clients : Len(call[c].content) = 0
      BY <1>1, <1>7
    <2>2. \A c \in Clients : pc[c] = "idle" /\ done[c] = 0 /\ total[c] = 0
      BY <1>7
    <2>3. \A c \in Clients : done[c] <= total[c] /\ total[c] <= Len(call[c].content)
      <3> SUFFICES ASSUME NEW c \in Clients
                   PROVE  done[c] <= total[c] /\ total[c] <= Len(call[c].content)
        OBVIOUS
      <3>1. done[c] = 0 /\ total[c] = 0 /\ Len(call[c].content) = 0
        BY <2>1, <2>2
      <3> QED
        BY <3>1
    <2> QED
      BY <2>2, <2>3 DEF Progress
  <1>9. JobsOk
    BY DEF Init, JobsOk
  <1> QED
    BY <1>6, <1>8, <1>9 DEF TypeInv

(***************************************************************************)
(* What is known of the threads that cancelled calls have left.            *)
(***************************************************************************)
JobTyped(j) == j \in JobSet /\ ((j.file # None) <=> (j.op = "close")) /\ JobOk(j)

(***************************************************************************)
(* It is part of the types.                                                *)
(***************************************************************************)
LEMMA JobFacts == TypeInv => \A j \in late : JobTyped(j)
  BY DEF TypeInv, TypeOK, JobsOk, JobTyped

(***************************************************************************)
(* A call that ends with an exception keeps the types.                     *)
(***************************************************************************)
LEMMA TypeRaise ==
    ASSUME TypeInv, NEW c \in Clients,
           NEW kind \in {"error", "oserror", "caller", "absent"}, Raise(c, kind),
           tree' \in [Names -> Inodes \union {Dir, None}],
           data' \in [Inodes -> Bytes], \A j \in late' : j \in late \/ JobTyped(j),
           done' \in [Clients -> Nat],
           \A d \in Clients : d # c => done'[d] = done[d],
           UNCHANGED <<call, total, got, serialised>>,
           calls' \in Nat, faults' \in Nat, cancels' \in Nat
    PROVE  TypeInv'
  <1>1. <<>> \in Bytes
    BY DEF Bytes
  <1>2. answer' \in [Clients -> AnswerSet]
    BY <1>1, AnswerTyped DEF Raise, TypeInv, TypeOK
  <1>3. /\ pc' = [pc EXCEPT ![c] = "idle"]
        /\ file' = [file EXCEPT ![c] = None]
    BY DEF Raise, Go
  <1>6. \A j \in late' : JobTyped(j)
    BY JobFacts
  <1>4. TypeOK'
    <2>1. /\ late' \subseteq JobSet
          /\ \A j \in late' : (j.file # None) <=> (j.op = "close")
      BY <1>6 DEF JobTyped
    <2> QED
      BY <1>2, <1>3, <2>1 DEF TypeInv, TypeOK, Labels, Bytes
  <1>5. Progress'
    BY <1>3 DEF TypeInv, TypeOK, Progress
  <1>7. JobsOk'
    BY <1>6 DEF JobsOk, JobTyped
  <1> QED
    BY <1>4, <1>5, <1>7 DEF TypeInv

(***************************************************************************)
(* The steps of save keep the types.                                       *)
(***************************************************************************)
LEMMA TypeSave ==
    ASSUME TypeInv, NEW c \in Clients, Save(c)
    PROVE  TypeInv'
  <1> USE DEF Go, Reply
  <1>1. /\ data \in [Inodes -> Bytes] /\ call[c] \in CallSet
        /\ total[c] \in Nat /\ done[c] \in Nat /\ done[c] <= total[c]
        /\ Len(call[c].content) \in Nat /\ call[c].op = "save" /\ call[c].name \in Names
    BY CallFacts DEF Save, MakeDirs, Create, Write, CloseFile, TypeInv, TypeOK, Progress, Bytes
  <1>2. <<>> \in Bytes
    BY DEF Bytes
  <1>3. CASE MakeDirs(c)
    <2>1. CASE BelowFile(call[c].name)
      BY <1>1, <1>3, <2>1, TypeRaise DEF MakeDirs, TypeInv, TypeOK, Progress, budget
    <2>2. CASE ~BelowFile(call[c].name)
      <3>1. /\ tree' \in [Names -> Inodes \union {Dir, None}]
            /\ pc[c] = "start" /\ pc' = [pc EXCEPT ![c] = "create"]
            /\ UNCHANGED <<data, late, call, file, total, done, got, answer, budget>>
        BY <1>3, <2>2 DEF MakeDirs, TypeInv, TypeOK
      <3>2. TypeOK'
        BY <3>1 DEF TypeInv, TypeOK, Labels, budget
      <3>3. Progress'
        BY <1>1, <3>1 DEF TypeInv, TypeOK, Progress
      <3>4. JobsOk'
        BY <3>1 DEF TypeInv, JobsOk
      <3> QED
        BY <3>2, <3>3, <3>4 DEF TypeInv
    <2> QED
      BY <2>1, <2>2
  <1>4. CASE Create(c)
    <2>1. CASE Raise(c, "oserror") /\ UNCHANGED <<tree, data>>
      BY <1>1, <1>4, <2>1, TypeRaise DEF Create, TypeInv, TypeOK, Progress, budget
    <2>2. ASSUME NEW i \in Inodes, OpenForWriting(call[c].name, i),
                 file' = [file EXCEPT ![c] = i], Go(c, "write"), UNCHANGED answer
          PROVE  TypeInv'
      <3>1. i # None
        BY LocalAssumption
      <3>2. /\ tree' \in [Names -> Inodes \union {Dir, None}]
            /\ data' \in [Inodes -> Bytes]
            /\ pc[c] = "create" /\ pc' = [pc EXCEPT ![c] = "write"]
            /\ UNCHANGED <<late, call, total, done, got, answer, budget>>
        BY <1>1, <1>4, <2>2, OpenEffect DEF Create
      <3>3. TypeOK'
        BY <2>2, <3>1, <3>2 DEF TypeInv, TypeOK, Labels, budget, Bytes
      <3>4. Progress'
        BY <1>1, <3>2 DEF TypeInv, TypeOK, Progress
      <3>5. JobsOk'
        BY <3>2 DEF TypeInv, JobsOk
      <3> QED
        BY <3>3, <3>4, <3>5 DEF TypeInv
    <2> QED
      BY <1>4, <2>1, <2>2 DEF Create
  <1>5. CASE Write(c)
    <2>1. PICK k \in done[c] .. total[c] + 1 : Flush(c, k)
      BY <1>5 DEF Write
    <2>2. /\ k \in Nat /\ k <= total[c] + 1
          /\ total[c] + 1 <= Len(call[c].content) /\ k <= Len(call[c].content)
      BY <1>1, <1>5, <2>1 DEF Write
    <2>3. /\ data' \in [Inodes -> Bytes] /\ done' = [done EXCEPT ![c] = k]
      BY <1>5, <2>1, <2>2, FlushEffect DEF Write
    <2>6. done' \in [Clients -> Nat] /\ total' \in [Clients -> Nat]
      <3>1. /\ total' = [total EXCEPT ![c] = total[c] + 1]
            /\ total[c] + 1 \in Nat
            /\ done \in [Clients -> Nat] /\ total \in [Clients -> Nat]
        BY <1>1, <1>5 DEF Write, TypeInv, TypeOK
      <3> QED
        BY <2>2, <2>3, <3>1
    <2>7. UNCHANGED <<tree, late, pc, call, file, got, answer, budget>>
      BY <1>5 DEF Write
    <2>4. TypeOK'
      BY <2>3, <2>6, <2>7 DEF TypeInv, TypeOK, Bytes, budget
    <2>5. Progress'
      BY <1>1, <1>5, <2>2, <2>3 DEF Write, TypeInv, TypeOK, Progress
    <2>8. JobsOk'
      BY <2>7 DEF TypeInv, JobsOk
    <2> QED
      BY <2>4, <2>5, <2>8 DEF TypeInv
  <1>6. CASE CloseFile(c)
    <2>1. data' \in [Inodes -> Bytes] /\ done' = [done EXCEPT ![c] = total[c]]
      BY <1>1, <1>6, FlushEffect DEF CloseFile
    <2>2. answer' \in [Clients -> AnswerSet]
      BY <1>1, <1>2, <1>6, AnswerTyped DEF CloseFile, TypeInv, TypeOK
    <2>3. TypeOK'
      BY <1>6, <2>1, <2>2 DEF CloseFile, TypeInv, TypeOK, Labels, budget, Bytes
    <2>4. Progress'
      BY <1>1, <1>6, <2>1 DEF CloseFile, TypeInv, TypeOK, Progress
    <2>5. JobsOk'
      BY <1>6 DEF CloseFile, TypeInv, JobsOk
    <2> QED
      BY <2>3, <2>4, <2>5 DEF TypeInv
  <1> QED
    BY <1>3, <1>4, <1>5, <1>6 DEF Save

(***************************************************************************)
(* A call that answers without touching bytes or counters keeps the types. *)
(***************************************************************************)
LEMMA TypeReply ==
    ASSUME TypeInv, NEW c \in Clients, pc[c] # "idle",
           NEW reply \in AnswerSet, Reply(c, reply),
           tree' \in [Names -> Inodes \union {Dir, None}],
           \/ UNCHANGED file /\ pc[c] = "start"
           \/ file' = [file EXCEPT ![c] = None],
           UNCHANGED <<data, late, call, total, done, got, budget>>
    PROVE  TypeInv'
  <1>1. /\ answer' \in [Clients -> AnswerSet]
        /\ pc' = [pc EXCEPT ![c] = "reply"]
    BY DEF Reply, Go, TypeInv, TypeOK
  <1>2. TypeOK'
    BY <1>1 DEF TypeInv, TypeOK, Labels, budget
  <1>3. Progress'
    BY <1>1 DEF TypeInv, TypeOK, Progress
  <1>4. JobsOk'
    BY DEF TypeInv, JobsOk
  <1> QED
    BY <1>2, <1>3, <1>4 DEF TypeInv

(***************************************************************************)
(* The steps of delete, open, exists and size keep the types.              *)
(***************************************************************************)
LEMMA TypeOthers ==
    ASSUME TypeInv, NEW c \in Clients, Delete(c) \/ Open(c) \/ Exists(c) \/ Size(c)
    PROVE  TypeInv'
  <1>1. /\ call[c] \in CallSet /\ call[c].name \in Names
        /\ tree[call[c].name] \in Inodes \union {Dir, None}
        /\ data \in [Inodes -> Bytes] /\ got \in [Clients -> Bytes]
    BY CallFacts DEF TypeInv, TypeOK, Progress, Bytes
  <1>2. <<>> \in Bytes
    BY DEF Bytes
  <1>3. \A k \in {"deleted", "present", "absent", "notfound"} : Plain(k) \in AnswerSet
    BY <1>2, AnswerTyped
  <1>4. ASSUME Raise(c, "oserror"), UNCHANGED <<tree, data, late, call, total, done, got, budget>>
        PROVE  TypeInv'
    BY <1>1, <1>4, TypeRaise DEF TypeInv, TypeOK, Progress, budget
  <1>5. CASE Delete(c)
    <2>1. CASE Raise(c, "oserror") /\ UNCHANGED tree
      BY <1>4, <1>5, <2>1 DEF Delete
    <2>2. CASE Reply(c, Plain("deleted")) /\ UNCHANGED file /\ tree' = [tree EXCEPT ![call[c].name] = None]
      <3>1. tree' \in [Names -> Inodes \union {Dir, None}]
        BY <2>2 DEF TypeInv, TypeOK
      <3> QED
        BY <1>3, <1>5, <2>2, <3>1, TypeReply DEF Delete
    <2> QED
      BY <1>5, <2>1, <2>2 DEF Delete
  <1>6. CASE Open(c)
    <2>1. CASE Check(c)
      <3>1. CASE Reply(c, Plain("notfound"))
        BY <1>3, <2>1, <3>1, TypeReply DEF Check, disk, locals, TypeInv, TypeOK
      <3>2. CASE Go(c, "opened") /\ UNCHANGED answer
        BY <1>6, <2>1, <3>2 DEF Check, Open, Go, disk, locals, budget, TypeInv, TypeOK, Labels, Progress, JobsOk
      <3> QED
        BY <2>1, <3>1, <3>2 DEF Check
    <2>2. CASE StartStream(c)
      <3>1. CASE Raise(c, "oserror")
        BY <1>4, <2>2, <3>1 DEF StartStream, disk
      <3>2. CASE IsFile(call[c].name) /\ file' = [file EXCEPT ![c] = Node(c)]
                   /\ Go(c, "stream") /\ UNCHANGED answer
        <4>1. Node(c) \in Inodes /\ Node(c) # None
          BY <3>2, LocalAssumption DEF IsFile, Node
        <4> QED
          BY <1>6, <2>2, <3>2, <4>1 DEF StartStream, Open, Go, disk, budget, TypeInv, TypeOK,
                                        Labels, Progress, JobsOk
      <3> QED
        BY <2>2, <3>1, <3>2 DEF StartStream
    <2>3. CASE Read(c)
      <3>1. file[c] \in Inodes /\ data[file[c]] \in Bytes /\ got[c] \in Bytes
        BY <1>1, <2>3 DEF Read, TypeInv, TypeOK
      <3>2. Len(got[c]) + 1 \in 1 .. Len(data[file[c]])
        BY <2>3, <3>1 DEF Read, Bytes
      <3>3. data[file[c]][Len(got[c]) + 1] \in Chunks \union {Hole}
        BY <3>1, <3>2, ElementOfSeq DEF Bytes
      <3>4. Append(got[c], data[file[c]][Len(got[c]) + 1]) \in Bytes
        BY <3>1, <3>3 DEF Bytes
      <3>5. got' \in [Clients -> Bytes]
        BY <1>1, <2>3, <3>4 DEF Read
      <3> QED
        BY <2>3, <3>5 DEF Read, disk, budget, TypeInv, TypeOK, Progress, JobsOk, Bytes
    <2>4. CASE EndOfFile(c)
      <3>1. [kind |-> "content", size |-> 0, content |-> got[c]] \in AnswerSet
        BY <1>1, AnswerTyped
      <3> QED
        BY <2>4, <3>1, TypeReply DEF EndOfFile, disk, TypeInv, TypeOK
    <2> QED
      BY <1>6, <2>1, <2>2, <2>3, <2>4 DEF Open
  <1>7. CASE Exists(c)
    <2>1. Plain(IF IsFile(call[c].name) THEN "present" ELSE "absent") \in AnswerSet
      BY <1>3
    <2> QED
      BY <1>7, <2>1, TypeReply DEF Exists, disk, locals, TypeInv, TypeOK
  <1>8. CASE Size(c)
    <2>1. CASE Raise(c, "oserror")
      BY <1>4, <1>8, <2>1 DEF Size, disk
    <2>2. CASE Reply(c, Plain("notfound")) /\ UNCHANGED file
      BY <1>3, <1>8, <2>2, TypeReply DEF Size, disk, TypeInv, TypeOK
    <2>3. CASE /\ Node(c) # None
               /\ Reply(c, [kind |-> "size", size |-> StatSize(call[c].name), content |-> <<>>])
               /\ UNCHANGED file
      <3>1. ASSUME Node(c) = Dir PROVE StatSize(call[c].name) \in Nat
        BY <3>1, LocalAssumption DEF StatSize, Node
      <3>2. ASSUME Node(c) \in Inodes PROVE StatSize(call[c].name) \in Nat
        <4>1. data[Node(c)] \in Bytes /\ Node(c) # Dir
          BY <1>1, <3>2, LocalAssumption
        <4> QED
          BY <4>1 DEF StatSize, Node, Bytes
      <3>3. StatSize(call[c].name) \in Nat
        BY <1>1, <2>3, <3>1, <3>2 DEF Node
      <3>4. [kind |-> "size", size |-> StatSize(call[c].name), content |-> <<>>] \in AnswerSet
        BY <1>2, <3>3, AnswerTyped
      <3> QED
        BY <1>8, <2>3, <3>4, TypeReply DEF Size, disk, TypeInv, TypeOK
    <2> QED
      BY <1>8, <2>1, <2>2, <2>3 DEF Size
  <1> QED
    BY <1>5, <1>6, <1>7, <1>8

(***************************************************************************)
(* What the file of a save has been given are chunks of its content.       *)
(***************************************************************************)
LEMMA GivenFacts ==
    ASSUME TypeInv, NEW c \in Clients
    PROVE  Given(c) \in Nat /\ total[c] <= Given(c) /\ Given(c) <= Len(call[c].content)
  <1>1. /\ total[c] \in Nat /\ Len(call[c].content) \in Nat
        /\ total[c] <= Len(call[c].content)
    BY CallFacts DEF TypeInv, TypeOK, Progress
  <1> QED
    BY <1>1 DEF Given

(***************************************************************************)
(* What a cancelled call leaves to its thread.                             *)
(***************************************************************************)
LEMMA LeaveTyped ==
    ASSUME TypeInv, NEW c \in Clients, Cancel(c)
    PROVE  \A j \in late' : j \in late \/ JobTyped(j)
  <1>1. /\ call[c] \in CallSet /\ done[c] \in Nat /\ cancels + 1 \in Nat
        /\ file[c] \in Inodes \union {None}
        /\ (file[c] # None) <=> pc[c] \in {"write", "stream"}
        /\ pc[c] = "write" => call[c].op = "save"
    BY DEF TypeInv, TypeOK, Progress
  <1> DEFINE Job(op, k) ==
               [id |-> cancels + 1, op |-> op, call |-> call[c], file |-> file[c],
                from |-> done[c], to |-> k]
  <1>2. ASSUME NEW op \in {"open", "remove"}, Leave(c, op, 0), pc[c] \in {"start", "create"}
        PROVE  \A j \in late' : j \in late \/ JobTyped(j)
    <2>1. JobTyped(Job(op, 0))
      BY <1>1, <1>2 DEF JobTyped, JobSet, JobOk
    <2> QED
      BY <1>2, <2>1 DEF Leave
  <1>3. ASSUME NEW k \in total[c] .. Given(c), Leave(c, "close", k), pc[c] = "write"
        PROVE  \A j \in late' : j \in late \/ JobTyped(j)
    <2>1. k \in Nat /\ k <= Len(call[c].content)
      <3>1. /\ total[c] \in Nat /\ Given(c) \in Nat /\ Len(call[c].content) \in Nat
            /\ Given(c) <= Len(call[c].content)
        BY <1>1, GivenFacts, CallFacts DEF TypeInv, TypeOK
      <3> QED
        BY <3>1
    <2>2. JobTyped(Job("close", k))
      BY <1>1, <1>3, <2>1 DEF JobTyped, JobSet, JobOk
    <2> QED
      BY <1>3, <2>2 DEF Leave
  <1> QED
    BY <1>2, <1>3 DEF Cancel

(***************************************************************************)
(* A new call and a call that ends keep the types.                         *)
(***************************************************************************)
LEMMA TypeCalls ==
    ASSUME TypeInv, NEW c \in Clients, Call(c) \/ Return(c) \/ Fault(c) \/ Cancel(c)
    PROVE  TypeInv'
  <1>1. /\ data \in [Inodes -> Bytes] /\ call[c] \in CallSet /\ Len(call[c].content) \in Nat
        /\ total[c] \in Nat /\ done[c] \in Nat
        /\ total[c] <= Len(call[c].content) /\ call[c].name \in Names
        /\ Given(c) \in Nat /\ Given(c) <= Len(call[c].content)
    BY CallFacts, GivenFacts DEF TypeInv, TypeOK, Progress, Bytes
  <1>2. <<>> \in Bytes
    BY DEF Bytes
  <1>3. CASE Call(c)
    <2>1. PICK k \in CallSet : call' = [call EXCEPT ![c] = k]
      BY <1>3 DEF Call
    <2>2. Len(k.content) \in Nat /\ Plain("none") \in AnswerSet
      BY <1>2, CallFacts, AnswerTyped
    <2>3. TypeOK'
      <3>1. got' \in [Clients -> Bytes] /\ answer' \in [Clients -> AnswerSet]
        BY <1>2, <1>3, <2>2 DEF Call, TypeInv, TypeOK, Bytes
      <3>2. /\ call' \in [Clients -> CallSet] /\ pc' \in [Clients -> Labels]
            /\ total' \in [Clients -> Nat] /\ done' \in [Clients -> Nat]
            /\ calls' \in Nat
            /\ \A d \in Clients : (file'[d] # None) <=> pc'[d] \in {"write", "stream"}
        BY <1>3, <2>1 DEF Call, Go, TypeInv, TypeOK, Labels
      <3> QED
        BY <1>3, <3>1, <3>2 DEF Call, disk, TypeInv, TypeOK, Bytes
    <2>4. Progress'
      BY <1>3, <2>1, <2>2 DEF Call, Go, TypeInv, TypeOK, Progress
    <2>5. JobsOk'
      BY <1>3 DEF Call, disk, TypeInv, JobsOk
    <2> QED
      BY <2>3, <2>4, <2>5 DEF TypeInv
  <1>4. CASE Return(c)
    BY <1>4 DEF Return, Go, disk, locals, budget, TypeInv, TypeOK, Labels, Progress, JobsOk
  <1>5. CASE Fault(c)
    <2>0. PICK kind \in Outcomes(c) : Raise(c, kind)
      BY <1>5 DEF Fault
    <2>3. kind \in {"error", "oserror", "caller", "absent"}
      BY DEF Outcomes
    <2>4. /\ UNCHANGED <<late, call, total, got, serialised>>
          /\ tree' \in [Names -> Inodes \union {Dir, None}]
          /\ calls' \in Nat /\ faults' \in Nat /\ cancels' \in Nat
      BY <1>5 DEF Fault, TypeInv, TypeOK
    <2>1. CASE pc[c] = "write"
      <3>1. PICK k \in done[c] .. Given(c) : Flush(c, k)
        BY <1>5, <2>1 DEF Fault
      <3>2. k \in Nat /\ k <= Len(call[c].content)
        BY <1>1, <3>1
      <3>3. data' \in [Inodes -> Bytes] /\ done' = [done EXCEPT ![c] = k]
        BY <2>1, <3>1, <3>2, FlushEffect
      <3>4. /\ done' \in [Clients -> Nat]
            /\ \A d \in Clients : d # c => done'[d] = done[d]
        BY <3>2, <3>3 DEF TypeInv, TypeOK
      <3> QED
        BY <2>0, <2>3, <2>4, <3>3, <3>4, TypeRaise
    <2>2. CASE pc[c] # "write"
      <3>1. UNCHANGED <<data, done>>
        BY <1>5, <2>2 DEF Fault
      <3>2. /\ data' \in [Inodes -> Bytes] /\ done' \in [Clients -> Nat]
            /\ \A d \in Clients : done'[d] = done[d]
        BY <1>1, <3>1 DEF TypeInv, TypeOK
      <3> QED
        BY <2>0, <2>3, <2>4, <3>2, TypeRaise
    <2> QED
      BY <2>1, <2>2
  <1>6. CASE Cancel(c)
    <2>1. /\ Raise(c, "caller") /\ UNCHANGED <<tree, data, call, total, done, got, serialised>>
          /\ cancels \in Nat /\ tree' \in [Names -> Inodes \union {Dir, None}]
          /\ data' \in [Inodes -> Bytes] /\ done' \in [Clients -> Nat]
          /\ calls' \in Nat /\ faults' \in Nat /\ cancels' \in Nat
      BY <1>1, <1>6 DEF Cancel, TypeInv, TypeOK
    <2>2. \A j \in late' : j \in late \/ JobTyped(j)
      BY <1>6, LeaveTyped
    <2> QED
      BY <2>1, <2>2, TypeRaise
  <1> QED
    BY <1>3, <1>4, <1>5, <1>6

(***************************************************************************)
(* What a write of a thread changes.                                       *)
(***************************************************************************)
LEMMA LateEffect ==
    ASSUME TypeInv, NEW j \in late, LateClose(j)
    PROVE  /\ data' \in [Inodes -> Bytes]
           /\ j.file \in Inodes
           /\ data'[j.file] = Overwrite(data[j.file], j.call.content, j.from, j.to)
           /\ \A i \in Inodes : i # j.file => data'[i] = data[i]
  <1>1. JobTyped(j) /\ j.op = "close" /\ data \in [Inodes -> Bytes]
    BY JobFacts DEF LateClose, TypeInv, TypeOK, Bytes
  <1>2. /\ j.file \in Inodes /\ j.call \in CallSet
        /\ j.from \in Nat /\ j.to \in Nat /\ j.to <= Len(j.call.content)
    BY <1>1 DEF JobTyped, JobSet, JobOk
  <1>3. Overwrite(data[j.file], j.call.content, j.from, j.to) \in Bytes
    BY <1>1, <1>2, CallFacts, OverwriteTyped
  <1> QED
    BY <1>1, <1>2, <1>3 DEF LateClose

(***************************************************************************)
(* The threads of cancelled calls keep the types too.                      *)
(***************************************************************************)
LEMMA TypeLate ==
    ASSUME TypeInv, NEW j \in late, Late(j)
    PROVE  TypeInv'
  <1>1. late' \subseteq late /\ UNCHANGED <<pc, locals, answer, budget>>
    BY DEF Late
  <1>2. j.call.name \in Names
    BY JobFacts, CallFacts DEF JobTyped, JobSet
  <1>3. /\ tree' \in [Names -> Inodes \union {Dir, None}]
        /\ data' \in [Inodes -> Bytes]
    <2>0. tree \in [Names -> Inodes \union {Dir, None}] /\ data \in [Inodes -> Bytes]
      BY DEF TypeInv, TypeOK, Bytes
    <2>1. CASE LateOpen(j)
      BY <1>2, <2>0, <2>1, OpenEffect DEF LateOpen
    <2>2. CASE LateRemove(j)
      BY <2>0, <2>2 DEF LateRemove
    <2>3. CASE LateClose(j)
      BY <2>0, <2>3, LateEffect DEF LateClose
    <2> QED
      BY <2>1, <2>2, <2>3 DEF Late
  <1>4. TypeOK'
    BY <1>1, <1>3 DEF locals, budget, TypeInv, TypeOK, Bytes
  <1>5. Progress'
    BY <1>1 DEF locals, TypeInv, Progress
  <1>6. JobsOk'
    BY <1>1 DEF TypeInv, JobsOk
  <1> QED
    BY <1>4, <1>5, <1>6 DEF TypeInv

(***************************************************************************)
(* So every step keeps them.                                               *)
(***************************************************************************)
LEMMA TypeNext == TypeInv /\ [Next]_vars => TypeInv'
  <1> SUFFICES ASSUME TypeInv, [Next]_vars PROVE TypeInv'
    OBVIOUS
  <1>1. CASE UNCHANGED vars
    BY <1>1 DEF vars, disk, locals, budget, TypeInv, TypeOK, Progress, JobsOk
  <1>2. CASE Next
    <2>1. CASE Finished
      BY <1>1, <2>1 DEF Finished
    <2> QED
      BY <1>2, <2>1, TypeSave, TypeOthers, TypeCalls, TypeLate DEF Next, Run
  <1> QED
    BY <1>1, <1>2

(***************************************************************************)
(* The types hold of every reachable state.                                *)
(***************************************************************************)
LEMMA TypeHolds == Spec => []TypeInv
  BY TypeInit, TypeNext, PTL DEF Spec

(***************************************************************************)
(* The variables of the local backend have their types, and who reads or   *)
(* writes has a file open.                                                 *)
(***************************************************************************)
THEOREM TypeCorrect == Spec => []TypeOK
  <1>1. TypeInv => TypeOK
    BY DEF TypeInv
  <1> QED
    BY <1>1, TypeHolds, PTL

-----------------------------------------------------------------------------
(* The tree.  TreeClosed is inductive as it stands.                        *)

(***************************************************************************)
(* Directories stay, and no step adds to what waits to be created.         *)
(***************************************************************************)
NothingNew ==
    /\ \A n \in Names : tree[n] = Dir => tree'[n] = Dir
    /\ \A j \in late' : j.op = "open" => j \in late
    /\ \A c \in Clients : call'[c].op = "save" /\ pc'[c] = "create"
                             => pc[c] = "create" /\ call'[c] = call[c]

(***************************************************************************)
(* Then the tree stays closed if what the step creates is in directories.  *)
(***************************************************************************)
LEMMA TreeKept ==
    ASSUME TypeInv, TypeInv', TreeClosed, NothingNew,
           \A n \in Names : tree'[n] # None => tree[n] # None \/ InDirs(n)
    PROVE  TreeClosed'
  <1>1. \A n \in Names : InDirs(n) => InDirs(n)'
    BY LocalAssumption DEF InDirs, NothingNew
  <1>2. \A c \in Clients : call[c].name \in Names
    BY CallFacts DEF TypeInv, TypeOK
  <1>3. \A n \in Names : tree'[n] # None => InDirs(n)'
    BY <1>1 DEF TreeClosed
  <1>5. \A j \in late : j.call.name \in Names
    BY JobFacts, CallFacts DEF JobTyped, JobSet
  <1>6. \A j \in late' : j.op = "open" => InDirs(j.call.name)'
    BY <1>1, <1>5 DEF NothingNew, TreeClosed
  <1>4. \A c \in Clients : call'[c].op = "save" /\ pc'[c] = "create" => InDirs(call[c].name)'
    BY <1>1, <1>2 DEF NothingNew, TreeClosed
  <1> QED
    BY <1>3, <1>4, <1>6 DEF TreeClosed

(***************************************************************************)
(* save makes all directories above its name, whose own are above the name *)
(* too.                                                                    *)
(***************************************************************************)
LEMMA TreeMakeDirs ==
    ASSUME TypeInv, TypeInv', TreeClosed, NEW c \in Clients, MakeDirs(c)
    PROVE  TreeClosed'
  <1> DEFINE m == call[c].name
  <1>1. m \in Names /\ Above[m] \subseteq Names /\ \A p \in Above[m] : Above[p] \subseteq Above[m]
    BY CallFacts, LocalAssumption DEF TypeInv, TypeOK
  <1>2. CASE BelowFile(m)
    <2>1. NothingNew /\ UNCHANGED tree
      BY <1>2 DEF MakeDirs, Raise, Go, NothingNew, TypeInv, TypeOK
    <2> QED
      BY <2>1, TreeKept
  <1>3. CASE ~BelowFile(m)
    <2>1. /\ tree' = [n \in Names |-> IF n \in Above[m] THEN Dir ELSE tree[n]]
          /\ pc' = [pc EXCEPT ![c] = "create"]
          /\ UNCHANGED <<late, call>>
      BY <1>3 DEF MakeDirs, Go
    <2>2. \A n \in Names : InDirs(n) => InDirs(n)'
      BY <2>1, LocalAssumption DEF InDirs
    <2>3. InDirs(m)' /\ \A n \in Above[m] : InDirs(n)'
      BY <1>1, <2>1, LocalAssumption DEF InDirs
    <2>4. \A n \in Names : tree'[n] # None => InDirs(n)'
      BY <2>1, <2>2, <2>3 DEF TreeClosed
    <2>7. \A j \in late : j.call.name \in Names
      BY JobFacts, CallFacts DEF JobTyped, JobSet
    <2>8. \A j \in late' : j.op = "open" => InDirs(j.call.name)'
      BY <2>1, <2>2, <2>7 DEF TreeClosed
    <2>5. \A d \in Clients : call[d].name \in Names
      BY CallFacts DEF TypeInv, TypeOK
    <2>6. \A d \in Clients : call'[d].op = "save" /\ pc'[d] = "create" => InDirs(call[d].name)'
      BY <2>1, <2>2, <2>3, <2>5 DEF TreeClosed, TypeInv, TypeOK
    <2> QED
      BY <2>4, <2>6, <2>8 DEF TreeClosed
  <1> QED
    BY <1>2, <1>3

(***************************************************************************)
(* Opening a file for writing creates it in the directories made before.   *)
(***************************************************************************)
LEMMA TreeOpen ==
    ASSUME TypeInv, TypeInv', TreeClosed, NEW n \in Names, InDirs(n),
           NEW i \in Inodes, OpenForWriting(n, i),
           late' \subseteq late,
           UNCHANGED call, \A c \in Clients : pc'[c] = "create" => pc[c] = "create"
    PROVE  TreeClosed'
  <1>1. /\ tree[n] # Dir
        /\ \A m \in Names : m # n => tree'[m] = tree[m]
    BY OpenEffect
  <1>2. NothingNew
    BY <1>1 DEF NothingNew
  <1> QED
    BY <1>1, <1>2, TreeKept

(***************************************************************************)
(* The steps of one client.                                                *)
(***************************************************************************)
LEMMA TreeClient ==
    ASSUME TypeInv, TypeInv', TreeClosed, NEW c \in Clients,
           Call(c) \/ Run(c) \/ Fault(c) \/ Cancel(c)
    PROVE  TreeClosed'
  <1> USE DEF Go, Reply, Raise, disk, locals, budget
  <1>1. call[c].name \in Names /\ pc \in [Clients -> Labels]
    BY CallFacts DEF TypeInv, TypeOK
  <1>2. CASE Save(c)
    <2>1. CASE Create(c)
      <3>1. InDirs(call[c].name)
        BY <1>2, <2>1 DEF Save, Create, TreeClosed
      <3>2. UNCHANGED <<late, call>> /\ \A d \in Clients : pc'[d] = "create" => pc[d] = "create"
        BY <1>1, <2>1 DEF Create
      <3>3. CASE \E i \in Inodes : OpenForWriting(call[c].name, i)
        BY <1>1, <3>1, <3>2, <3>3, TreeOpen
      <3>4. CASE UNCHANGED tree
        BY <3>2, <3>4, TreeKept DEF NothingNew
      <3> QED
        BY <2>1, <3>3, <3>4 DEF Create
    <2>2. CASE Write(c) \/ CloseFile(c)
      <3>1. UNCHANGED <<tree, late, call>> /\ \A d \in Clients : pc'[d] = "create" => pc[d] = "create"
        BY <1>1, <2>2 DEF Write, CloseFile
      <3> QED
        BY <3>1, TreeKept DEF NothingNew
    <2> QED
      BY <1>2, <2>1, <2>2, TreeMakeDirs DEF Save
  <1>3. CASE Delete(c)
    <2>1. UNCHANGED <<late, call>> /\ \A d \in Clients : pc'[d] = "create" => pc[d] = "create"
      BY <1>1, <1>3 DEF Delete
    <2>2. /\ \A n \in Names : tree[n] = Dir => tree'[n] = Dir
          /\ \A n \in Names : tree'[n] # None => tree[n] # None
      BY <1>1, <1>3 DEF Delete, Node, TypeInv, TypeOK
    <2> QED
      BY <2>1, <2>2, TreeKept DEF NothingNew
  <1>4. CASE Open(c) \/ Exists(c) \/ Size(c) \/ Return(c) \/ Fault(c)
    <2>1. UNCHANGED <<tree, late, call>> /\ \A d \in Clients : pc'[d] = "create" => pc[d] = "create"
      BY <1>1, <1>4 DEF Open, Check, StartStream, Read, EndOfFile, Exists, Size, Return, Fault
    <2> QED
      BY <2>1, TreeKept DEF NothingNew
  <1>5. CASE Call(c)
    <2>1. UNCHANGED <<tree, late>>
      BY <1>5 DEF Call
    <2>2. \A d \in Clients : pc'[d] = "create" => pc[d] = "create" /\ call'[d] = call[d]
      BY <1>1, <1>5 DEF Call
    <2> QED
      BY <2>1, <2>2, TreeKept DEF NothingNew
  <1>6. CASE Cancel(c)
    <2>1. /\ UNCHANGED <<tree, call>>
          /\ \A d \in Clients : pc'[d] = "create" => pc[d] = "create"
      BY <1>1, <1>6 DEF Cancel, TypeInv, TypeOK
    <2>2. \A j \in late' : j \in late
                             \/ (j.op = "open" => j.call = call[c] /\ pc[c] = "create")
      BY <1>6 DEF Cancel, Leave
    <2>3. pc[c] = "create" => InDirs(call[c].name)
      BY DEF TreeClosed, TypeInv, Progress
    <2>4. \A j \in late' : j.op = "open" => InDirs(j.call.name)
      BY <2>2, <2>3 DEF TreeClosed
    <2> QED
      BY <2>1, <2>4 DEF TreeClosed, InDirs
  <1> QED
    BY <1>2, <1>3, <1>4, <1>5, <1>6 DEF Run

(***************************************************************************)
(* So every step keeps the tree closed.                                    *)
(***************************************************************************)
LEMMA TreeNext == TypeInv /\ TypeInv' /\ TreeClosed /\ [Next]_vars => TreeClosed'
  <1> SUFFICES ASSUME TypeInv, TypeInv', TreeClosed, [Next]_vars PROVE TreeClosed'
    OBVIOUS
  <1>1. CASE UNCHANGED vars
    BY <1>1 DEF vars, disk, locals, TreeClosed, InDirs
  <1>2. ASSUME NEW j \in late, Late(j)
        PROVE  TreeClosed'
    <2>1. late' \subseteq late /\ UNCHANGED <<pc, call>>
      BY <1>2 DEF Late, locals
    <2>2. j.call.name \in Names
      BY JobFacts, CallFacts DEF JobTyped, JobSet
    <2>3. ASSUME NEW i \in Inodes, OpenForWriting(j.call.name, i), j.op = "open"
          PROVE  TreeClosed'
      <3>1. InDirs(j.call.name)
        BY <2>3 DEF TreeClosed
      <3> QED
        BY <2>1, <2>2, <2>3, <3>1, TreeOpen
    <2>4. CASE LateRemove(j)
      <3>1. /\ \A n \in Names : tree[n] = Dir => tree'[n] = Dir
            /\ \A n \in Names : tree'[n] # None => tree[n] # None
        BY <2>4, LocalAssumption DEF LateRemove, IsFile, TypeInv, TypeOK
      <3> QED
        BY <2>1, <3>1, TreeKept DEF NothingNew
    <2>5. CASE UNCHANGED tree
      BY <2>1, <2>5, TreeKept DEF NothingNew
    <2> QED
      BY <1>2, <2>3, <2>4, <2>5 DEF Late, LateOpen, LateClose
  <1> QED
    BY <1>1, <1>2, TreeClient DEF Next, Finished

(***************************************************************************)
(* A file or directory is always below directories, whatever thread        *)
(* creates it and however late.                                            *)
(***************************************************************************)
THEOREM TreeStaysClosed == Spec => []TreeClosed
  <1>1. Init => TreeClosed
    BY DEF Init, TreeClosed
  <1> QED
    BY <1>1, TypeHolds, TreeNext, PTL DEF Spec

-----------------------------------------------------------------------------
(* The bytes.  OwnBytes is inductive once it is known of the handles too,  *)
(* and that an inode belongs to one name: that of its entry in the tree,   *)
(* of the calls that have it open and of the threads that are to close it. *)

Refers(i, n) ==
    \/ tree[n] = i
    \/ \E c \in Clients : file[c] = i /\ call[c].name = n
    \/ \E j \in late : j.file = i /\ j.call.name = n

Owned == \A i \in Inodes : \A m, n \in Names : Refers(i, m) /\ Refers(i, n) => m = n

AllBytes == \A i \in Inodes, n \in Names : Refers(i, n) => SavedUnder(n, data[i])

GotBytes == \A c \in Clients : SavedUnder(call[c].name, got[c])

BytesInv == Owned /\ AllBytes /\ GotBytes

(***************************************************************************)
(* Who refers to which inode.                                              *)
(***************************************************************************)
LEMMA References ==
    ASSUME TypeInv
    PROVE  /\ \A n \in Names : Refers(tree[n], n)
           /\ \A c \in Clients : Refers(file[c], call[c].name) /\ call[c].name \in Names
           /\ \A j \in late : Refers(j.file, j.call.name) /\ j.call.name \in Names
  BY JobFacts, CallFacts DEF Refers, TypeInv, TypeOK, JobTyped, JobSet

(***************************************************************************)
(* A step after which an inode is referred to by no new name, and which    *)
(* changes bytes to bytes saved under its name, keeps the invariant.       *)
(***************************************************************************)
LEMMA BytesKept ==
    ASSUME BytesInv,
           \A i \in Inodes, n \in Names : Refers(i, n)' =>
              Refers(i, n) /\ (data'[i] = data[i] \/ SavedUnder(n, data'[i])),
           \A c \in Clients : (got'[c] = got[c] /\ call'[c] = call[c]) \/ got'[c] = <<>>
    PROVE  BytesInv'
  <1>1. Owned'
    BY DEF BytesInv, Owned
  <1>2. AllBytes'
    <2> SUFFICES ASSUME NEW i \in Inodes, NEW n \in Names, Refers(i, n)'
                 PROVE  SavedUnder(n, data'[i])
      BY DEF AllBytes, SavedUnder
    <2> QED
      BY DEF BytesInv, AllBytes
  <1>3. ASSUME NEW c \in Clients
        PROVE  SavedUnder(call[c].name, got[c])'
    <2>1. CASE got'[c] = got[c] /\ call'[c] = call[c]
      BY <2>1 DEF BytesInv, GotBytes, SavedUnder
    <2>2. CASE got'[c] = <<>>
      BY <2>2 DEF SavedUnder
    <2> QED
      BY <2>1, <2>2
  <1>4. GotBytes'
    BY <1>3 DEF GotBytes
  <1> QED
    BY <1>1, <1>2, <1>4 DEF BytesInv

(***************************************************************************)
(* No name comes to refer to an inode when entries of the tree and handles *)
(* only go, or go from a call to its thread.                               *)
(***************************************************************************)
LEMMA NoNewReference ==
    ASSUME \A n \in Names : tree'[n] \in Inodes => tree'[n] = tree[n],
           \A c \in Clients : file'[c] # None =>
              file'[c] = file[c] /\ call'[c].name = call[c].name,
           \A j \in late' : \/ j \in late
                            \/ \E c \in Clients : j.file = file[c] /\ j.call = call[c]
    PROVE  \A i \in Inodes, n \in Names : Refers(i, n)' => Refers(i, n)
  <1> SUFFICES ASSUME NEW i \in Inodes, NEW n \in Names, Refers(i, n)'
               PROVE  Refers(i, n)
    OBVIOUS
  <1>1. i # None
    BY LocalAssumption
  <1>2. \/ tree'[n] = i
        \/ \E c \in Clients : file'[c] = i /\ call'[c].name = n
        \/ \E j \in late' : j.file = i /\ j.call.name = n
    BY DEF Refers
  <1> QED
    BY <1>1, <1>2 DEF Refers

(***************************************************************************)
(* A file opened for writing is the file of its name, or one that no name  *)
(* and no handle refers to.                                                *)
(***************************************************************************)
LEMMA OpenedAlone ==
    ASSUME TypeInv, BytesInv, NEW n \in Names, NEW i \in Inodes, OpenForWriting(n, i)
    PROVE  \A m \in Names : Refers(i, m) => m = n
  <1>1. CASE IsFile(n)
    <2>1. Refers(i, n)
      BY <1>1 DEF OpenForWriting, Refers
    <2> QED
      BY <2>1 DEF BytesInv, Owned
  <1>2. CASE ~IsFile(n)
    BY <1>2 DEF OpenForWriting, Free, Refers
  <1> QED
    BY <1>1, <1>2

(***************************************************************************)
(* It is empty.                                                            *)
(***************************************************************************)
LEMMA BytesOpen ==
    ASSUME TypeInv, TypeInv', BytesInv,
           NEW n \in Names, NEW i \in Inodes, OpenForWriting(n, i), UNCHANGED <<call, got>>,
           late' \subseteq late,
           \A c \in Clients : file'[c] # None =>
              file'[c] = file[c] \/ (file'[c] = i /\ call[c].name = n)
    PROVE  BytesInv'
  <1>1. /\ tree'[n] = i
        /\ \A m \in Names : m # n => tree'[m] = tree[m]
        /\ data'[i] = <<>>
        /\ \A j \in Inodes : j # i => data'[j] = data[j]
    BY OpenEffect
  <1>2. \A m \in Names : Refers(i, m) => m = n
    BY OpenedAlone
  <1>3. \A j \in Inodes, m \in Names : Refers(j, m)' => Refers(j, m) \/ (j = i /\ m = n)
    <2> SUFFICES ASSUME NEW j \in Inodes, NEW m \in Names, Refers(j, m)'
                 PROVE  Refers(j, m) \/ (j = i /\ m = n)
      OBVIOUS
    <2>1. j # None
      BY LocalAssumption
    <2>2. \/ tree'[m] = j
          \/ \E c \in Clients : file'[c] = j /\ call[c].name = m
          \/ \E l \in late' : l.file = j /\ l.call.name = m
      BY DEF Refers
    <2> QED
      BY <1>1, <2>1, <2>2 DEF Refers
  <1>4. Owned'
    <2> SUFFICES ASSUME NEW j \in Inodes, NEW l \in Names, NEW m \in Names,
                        Refers(j, l)', Refers(j, m)'
                 PROVE  l = m
      BY DEF Owned
    <2>1. CASE j = i
      BY <1>2, <1>3, <2>1
    <2>2. CASE j # i
      BY <1>3, <2>2 DEF BytesInv, Owned
    <2> QED
      BY <2>1, <2>2
  <1>5. \A m : SavedUnder(m, <<>>)
    BY DEF SavedUnder
  <1>6. AllBytes'
    <2> SUFFICES ASSUME NEW j \in Inodes, NEW m \in Names, Refers(j, m)'
                 PROVE  SavedUnder(m, data'[j])
      BY DEF AllBytes, SavedUnder
    <2>1. CASE j = i
      BY <1>1, <1>5, <2>1
    <2>2. CASE j # i
      BY <1>1, <1>3, <2>2 DEF BytesInv, AllBytes
    <2> QED
      BY <2>1, <2>2
  <1>7. GotBytes'
    BY DEF BytesInv, GotBytes, SavedUnder
  <1> QED
    BY <1>4, <1>6, <1>7 DEF BytesInv

(***************************************************************************)
(* A write puts chunks of a content where the content has them.            *)
(***************************************************************************)
LEMMA OverwriteSaved ==
    ASSUME NEW n \in Names, NEW s \in Bytes, SavedUnder(n, s),
           NEW x \in Contents[n], x \in Seq(Chunks),
           NEW from \in Nat, NEW to \in Nat, to <= Len(x)
    PROVE  SavedUnder(n, Overwrite(s, x, from, to))
  <1> DEFINE o == Overwrite(s, x, from, to)
  <1>1. Len(o) \in Nat /\ Len(s) \in Nat /\ Len(x) \in Nat
    BY OverwriteTyped DEF Bytes
  <1> SUFFICES ASSUME NEW j \in 1 .. Len(o)
               PROVE  o[j] = Hole \/ \E y \in Contents[n] : j <= Len(y) /\ o[j] = y[j]
    BY DEF SavedUnder
  <1>2. o[j] = CASE j \in from + 1 .. to -> x[j]
                 [] j \notin from + 1 .. to /\ j <= Len(s) -> s[j]
                 [] OTHER -> Hole
    BY OverwriteTyped
  <1>3. CASE j \in from + 1 .. to
    BY <1>1, <1>2, <1>3
  <1>4. CASE j \notin from + 1 .. to /\ j <= Len(s)
    <2>1. j \in 1 .. Len(s) /\ o[j] = s[j]
      BY <1>1, <1>2, <1>4
    <2> QED
      BY <2>1 DEF SavedUnder
  <1>5. CASE j \notin from + 1 .. to /\ ~(j <= Len(s))
    BY <1>2, <1>5
  <1> QED
    BY <1>3, <1>4, <1>5

(***************************************************************************)
(* So writing chunks of a content to a file of its name keeps the          *)
(* invariant.                                                              *)
(***************************************************************************)
LEMMA BytesWritten ==
    ASSUME TypeInv, BytesInv,
           NEW n \in Names, NEW f \in Inodes, Refers(f, n),
           NEW x \in Contents[n], x \in Seq(Chunks),
           NEW from \in Nat, NEW to \in Nat, to <= Len(x),
           data'[f] = Overwrite(data[f], x, from, to),
           \A i \in Inodes : i # f => data'[i] = data[i],
           UNCHANGED <<call, got>>,
           \A i \in Inodes, m \in Names : Refers(i, m)' => Refers(i, m)
    PROVE  BytesInv'
  <1>1. SavedUnder(n, data[f]) /\ data[f] \in Bytes
    BY DEF BytesInv, AllBytes, TypeInv, TypeOK, Bytes
  <1>2. SavedUnder(n, data'[f])
    BY <1>1, OverwriteSaved
  <1>3. \A m \in Names : Refers(f, m) => m = n
    BY DEF BytesInv, Owned
  <1> QED
    BY <1>2, <1>3, BytesKept

(***************************************************************************)
(* Flushing the buffer of save does.                                       *)
(***************************************************************************)
LEMMA BytesFlush ==
    ASSUME TypeInv, BytesInv, NEW c \in Clients, pc[c] = "write",
           NEW k \in Nat, k <= Len(call[c].content), Flush(c, k),
           UNCHANGED <<tree, late, call, got>>,
           \A d \in Clients : file'[d] # None => file'[d] = file[d]
    PROVE  BytesInv'
  <1>1. /\ file[c] \in Inodes /\ done[c] \in Nat
        /\ data'[file[c]] = Overwrite(data[file[c]], call[c].content, done[c], k)
        /\ \A i \in Inodes : i # file[c] => data'[i] = data[i]
    BY FlushEffect DEF TypeInv, TypeOK
  <1>2. /\ call[c].name \in Names
        /\ call[c].content \in Contents[call[c].name] /\ call[c].content \in Seq(Chunks)
    BY CallFacts DEF TypeInv, TypeOK, Progress
  <1>3. Refers(file[c], call[c].name)
    BY References
  <1>4. \A i \in Inodes, m \in Names : Refers(i, m)' => Refers(i, m)
    BY NoNewReference
  <1> QED
    BY <1>1, <1>2, <1>3, <1>4, BytesWritten

(***************************************************************************)
(* The steps of save.                                                      *)
(***************************************************************************)
LEMMA BytesSave ==
    ASSUME TypeInv, TypeInv', BytesInv, NEW c \in Clients, Save(c)
    PROVE  BytesInv'
  <1>1. /\ call[c].name \in Names /\ Len(call[c].content) \in Nat
        /\ done[c] \in Nat /\ total[c] \in Nat
        /\ file \in [Clients -> Inodes \union {None}]
    BY CallFacts DEF TypeInv, TypeOK, Progress
  <1>2. CASE MakeDirs(c)
    <2>1. /\ UNCHANGED <<data, late, call, got>>
          /\ \A n \in Names : tree'[n] \in Inodes => tree'[n] = tree[n]
          /\ \A d \in Clients : file'[d] # None => file'[d] = file[d]
      BY <1>1, <1>2, LocalAssumption DEF MakeDirs, Raise
    <2> QED
      BY <2>1, NoNewReference, BytesKept
  <1>3. CASE Create(c)
    <2>1. UNCHANGED <<late, call, got>>
      BY <1>3 DEF Create
    <2>2. ASSUME NEW i \in Inodes, OpenForWriting(call[c].name, i), file' = [file EXCEPT ![c] = i]
          PROVE  BytesInv'
      <3>1. \A d \in Clients : file'[d] # None =>
               file'[d] = file[d] \/ (file'[d] = i /\ call[d].name = call[c].name)
        BY <1>1, <2>2
      <3> QED
        BY <1>1, <2>1, <2>2, <3>1, BytesOpen
    <2>3. CASE Raise(c, "oserror") /\ UNCHANGED <<tree, data>>
      <3>1. \A d \in Clients : file'[d] # None => file'[d] = file[d]
        BY <1>1, <2>3 DEF Raise
      <3> QED
        BY <2>1, <2>3, <3>1, NoNewReference, BytesKept
    <2> QED
      BY <1>3, <2>2, <2>3 DEF Create
  <1>4. CASE Write(c)
    <2>1. PICK k \in done[c] .. total[c] + 1 : Flush(c, k)
      BY <1>4 DEF Write
    <2>2. k \in Nat /\ k <= Len(call[c].content)
      BY <1>1, <1>4, <2>1 DEF Write
    <2> QED
      BY <1>4, <2>1, <2>2, BytesFlush DEF Write
  <1>5. CASE CloseFile(c)
    <2>1. \A d \in Clients : file'[d] # None => file'[d] = file[d]
      BY <1>1, <1>5 DEF CloseFile
    <2>2. /\ pc[c] = "write" /\ total[c] <= Len(call[c].content) /\ Flush(c, total[c])
          /\ UNCHANGED <<tree, late, call, got>>
      BY <1>1, <1>5 DEF CloseFile
    <2> QED
      BY <1>1, <2>1, <2>2, BytesFlush
  <1> QED
    BY <1>2, <1>3, <1>4, <1>5 DEF Save

(***************************************************************************)
(* The steps of open: a stream starts on the file of its name.             *)
(***************************************************************************)
LEMMA BytesStart ==
    ASSUME TypeInv, TypeInv', BytesInv, NEW c \in Clients, StartStream(c)
    PROVE  BytesInv'
  <1>1. /\ UNCHANGED <<tree, data, late, call, got>>
        /\ file \in [Clients -> Inodes \union {None}]
    BY DEF StartStream, disk, TypeInv, TypeOK
  <1>2. CASE Raise(c, "oserror")
    <2>1. \A d \in Clients : file'[d] # None => file'[d] = file[d]
      BY <1>1, <1>2 DEF Raise
    <2> QED
      BY <1>1, <2>1, NoNewReference, BytesKept
  <1>3. CASE IsFile(call[c].name) /\ file' = [file EXCEPT ![c] = Node(c)]
    <2>1. \A d \in Clients : file'[d] = file[d] \/ (d = c /\ file'[d] = tree[call[c].name])
      BY <1>1, <1>3 DEF Node
    <2>2. \A i \in Inodes, n \in Names : Refers(i, n)' => Refers(i, n)
      BY <1>1, <2>1 DEF Refers
    <2> QED
      BY <1>1, <2>2, BytesKept
  <1> QED
    BY <1>2, <1>3 DEF StartStream

(***************************************************************************)
(* It keeps each chunk at the position the file has it.                    *)
(***************************************************************************)
LEMMA BytesRead ==
    ASSUME TypeInv, TypeInv', BytesInv, NEW c \in Clients, Read(c)
    PROVE  BytesInv'
  <1> DEFINE b == data[file[c]]
             p == Len(got[c]) + 1
             n == call[c].name
  <1>1. /\ UNCHANGED <<tree, data, late, call, file>>
        /\ got' = [got EXCEPT ![c] = Append(got[c], b[p])]
        /\ got \in [Clients -> Bytes] /\ got[c] \in Bytes
    BY DEF Read, disk, TypeInv, TypeOK, Bytes
  <1>2. file[c] \in Inodes /\ file[c] # None /\ b \in Bytes
    BY LocalAssumption DEF Read, TypeInv, TypeOK, Bytes
  <1>3. Len(got[c]) \in Nat /\ Len(b) \in Nat /\ p \in 1 .. Len(b)
    BY <1>1, <1>2 DEF Read, Bytes
  <1>4. SavedUnder(n, b) /\ SavedUnder(n, got[c])
    BY <1>2, References DEF BytesInv, AllBytes, GotBytes
  <1>5. b[p] \in Chunks \union {Hole}
    BY <1>2, <1>3, ElementOfSeq DEF Bytes
  <1>6. SavedUnder(n, Append(got[c], b[p]))
    <2>1. /\ Len(Append(got[c], b[p])) = p
          /\ Append(got[c], b[p])[p] = b[p]
          /\ \A i \in 1 .. Len(got[c]) : Append(got[c], b[p])[i] = got[c][i]
      BY <1>1, <1>3, <1>5 DEF Bytes
    <2>2. \A i \in 1 .. p : i \in 1 .. Len(got[c]) \/ i = p
      BY <1>3
    <2>3. \A i \in 1 .. Len(got[c]) : got[c][i] = Hole
             \/ \E x \in Contents[n] : i <= Len(x) /\ got[c][i] = x[i]
      BY <1>4 DEF SavedUnder
    <2>4. b[p] = Hole \/ \E x \in Contents[n] : p <= Len(x) /\ b[p] = x[p]
      BY <1>3, <1>4 DEF SavedUnder
    <2> QED
      BY <2>1, <2>2, <2>3, <2>4 DEF SavedUnder
  <1>7. \A d \in Clients : SavedUnder(call[d].name, got'[d])
    BY <1>1, <1>4, <1>6 DEF BytesInv, GotBytes
  <1>8. GotBytes'
    BY <1>1, <1>7 DEF GotBytes, SavedUnder
  <1>9. Owned' /\ AllBytes'
    BY <1>1 DEF BytesInv, Owned, AllBytes, SavedUnder, Refers
  <1> QED
    BY <1>8, <1>9 DEF BytesInv

(***************************************************************************)
(* The other steps of a client.                                            *)
(***************************************************************************)
LEMMA BytesClient ==
    ASSUME TypeInv, TypeInv', BytesInv, NEW c \in Clients,
           Call(c) \/ Run(c) \/ Fault(c) \/ Cancel(c)
    PROVE  BytesInv'
  <1> USE DEF Reply, disk, locals
  <1>1. file \in [Clients -> Inodes \union {None}] /\ call[c].name \in Names
    BY CallFacts DEF TypeInv, TypeOK
  <1>2. CASE Delete(c)
    <2>1. /\ UNCHANGED <<data, late, call, got>>
          /\ \A n \in Names : tree'[n] \in Inodes => tree'[n] = tree[n]
          /\ \A d \in Clients : file'[d] # None => file'[d] = file[d]
      BY <1>1, <1>2, LocalAssumption DEF Delete, Raise, TypeInv, TypeOK
    <2> QED
      BY <2>1, NoNewReference, BytesKept
  <1>3. CASE Open(c)
    <2>1. CASE Check(c) \/ EndOfFile(c)
      <3>1. /\ UNCHANGED <<tree, data, late, call, got>>
            /\ \A d \in Clients : file'[d] # None => file'[d] = file[d]
        BY <1>1, <2>1 DEF Check, EndOfFile
      <3> QED
        BY <3>1, NoNewReference, BytesKept
    <2> QED
      BY <1>3, <2>1, BytesStart, BytesRead DEF Open
  <1>4. CASE Exists(c) \/ Size(c) \/ Return(c)
    <2>1. /\ UNCHANGED <<tree, data, late, call, got>>
          /\ \A d \in Clients : file'[d] # None => file'[d] = file[d]
      BY <1>1, <1>4 DEF Exists, Size, Return, Raise
    <2> QED
      BY <2>1, NoNewReference, BytesKept
  <1>5. CASE Call(c)
    <2>1. UNCHANGED <<tree, data, late, file>> /\ file[c] = None
      BY <1>5 DEF Call, disk, TypeInv, TypeOK
    <2>2. /\ got'[c] = <<>>
          /\ \A d \in Clients : d # c => call'[d] = call[d] /\ got'[d] = got[d]
      BY <1>5 DEF Call, TypeInv, TypeOK
    <2> QED
      BY <2>1, <2>2, NoNewReference, BytesKept
  <1>6. CASE Fault(c)
    <2>1. /\ UNCHANGED <<tree, late, call, got>>
          /\ \A d \in Clients : file'[d] # None => file'[d] = file[d]
      BY <1>1, <1>6 DEF Fault, Raise
    <2>2. CASE pc[c] = "write"
      <3>1. PICK k \in done[c] .. Given(c) : Flush(c, k)
        BY <1>6, <2>2 DEF Fault
      <3>2. /\ done[c] \in Nat /\ Given(c) \in Nat /\ Len(call[c].content) \in Nat
            /\ Given(c) <= Len(call[c].content)
        BY GivenFacts, CallFacts DEF TypeInv, TypeOK
      <3>3. k \in Nat /\ k <= Len(call[c].content)
        BY <3>1, <3>2
      <3> QED
        BY <2>1, <2>2, <3>1, <3>3, BytesFlush
    <2>3. CASE pc[c] # "write"
      <3>1. UNCHANGED data
        BY <1>6, <2>3 DEF Fault
      <3> QED
        BY <2>1, <3>1, NoNewReference, BytesKept
    <2> QED
      BY <2>2, <2>3
  <1>7. CASE Cancel(c)
    <2>1. /\ UNCHANGED <<tree, data, call, got>>
          /\ \A d \in Clients : file'[d] # None => file'[d] = file[d]
      BY <1>1, <1>7 DEF Cancel, Raise
    <2>2. \A j \in late' : j \in late \/ (j.file = file[c] /\ j.call = call[c])
      BY <1>7 DEF Cancel, Leave
    <2> QED
      BY <2>1, <2>2, NoNewReference, BytesKept
  <1> QED
    BY <1>2, <1>3, <1>4, <1>5, <1>6, <1>7, BytesSave DEF Run

(***************************************************************************)
(* So every step keeps the invariant.                                      *)
(***************************************************************************)
LEMMA BytesNext == TypeInv /\ TypeInv' /\ BytesInv /\ [Next]_vars => BytesInv'
  <1> SUFFICES ASSUME TypeInv, TypeInv', BytesInv, [Next]_vars PROVE BytesInv'
    OBVIOUS
  <1>1. CASE UNCHANGED vars
    BY <1>1, NoNewReference, BytesKept DEF vars, disk, locals
  <1>2. ASSUME NEW j \in late, Late(j)
        PROVE  BytesInv'
    <2>1. late' \subseteq late /\ UNCHANGED <<call, file, got>>
      BY <1>2 DEF Late, locals
    <2>2. j.call.name \in Names /\ Refers(j.file, j.call.name)
      BY References
    <2>3. CASE \E i \in Inodes : OpenForWriting(j.call.name, i)
      BY <2>1, <2>2, <2>3, BytesOpen
    <2>4. CASE UNCHANGED <<tree, data>>
      BY <2>1, <2>4, NoNewReference, BytesKept
    <2>5. CASE LateRemove(j)
      <3>1. \A n \in Names : tree'[n] \in Inodes => tree'[n] = tree[n]
        BY <2>5, LocalAssumption DEF LateRemove
      <3> QED
        BY <2>1, <2>5, <3>1, NoNewReference, BytesKept DEF LateRemove
    <2>6. CASE LateClose(j)
      <3>1. /\ j.call \in CallSet /\ j.from \in Nat /\ j.to \in Nat
            /\ j.to <= Len(j.call.content) /\ j.call.op = "save"
        BY <2>6, JobFacts DEF LateClose, JobTyped, JobSet, JobOk
      <3>2. j.call.content \in Contents[j.call.name] /\ j.call.content \in Seq(Chunks)
        BY <3>1, CallFacts
      <3>3. /\ j.file \in Inodes
            /\ data'[j.file] = Overwrite(data[j.file], j.call.content, j.from, j.to)
            /\ \A i \in Inodes : i # j.file => data'[i] = data[i]
        BY <2>6, LateEffect
      <3>4. \A i \in Inodes, m \in Names : Refers(i, m)' => Refers(i, m)
        BY <2>1, <2>6, NoNewReference DEF LateClose
      <3> QED
        BY <2>1, <2>2, <3>1, <3>2, <3>3, <3>4, BytesWritten
    <2> QED
      BY <1>2, <2>3, <2>4, <2>5, <2>6 DEF Late, LateOpen
  <1> QED
    BY <1>1, <1>2, BytesClient DEF Next, Finished

(***************************************************************************)
(* At the start there are no bytes.                                        *)
(***************************************************************************)
LEMMA BytesInit == Init => BytesInv
  <1> SUFFICES ASSUME Init PROVE BytesInv
    OBVIOUS
  <1>1. \A i \in Inodes, n \in Names : ~Refers(i, n)
    BY LocalAssumption DEF Init, Refers
  <1>2. \A n : SavedUnder(n, <<>>)
    BY DEF SavedUnder
  <1> QED
    BY <1>1, <1>2 DEF Init, BytesInv, Owned, AllBytes, GotBytes

(***************************************************************************)
(* However saves, deletes and streams overlap and fail, names share no     *)
(* bytes, and bytes keep the position they were saved at.                  *)
(***************************************************************************)
THEOREM BytesStayOwn == Spec => []OwnBytes
  <1>1. TypeInv /\ BytesInv => OwnBytes
    BY References DEF BytesInv, AllBytes, GotBytes, OwnBytes, IsFile
  <1> QED
    BY <1>1, TypeHolds, BytesInit, BytesNext, PTL DEF Spec

-----------------------------------------------------------------------------
(* Callers that serialise their calls.                                     *)

(***************************************************************************)
(* No save or delete of a name is in progress with another call of it, and *)
(* without cancelled calls nothing runs late.                              *)
(***************************************************************************)
Serial ==
    serialised => \A c, d \in Clients :
        c # d /\ pc[c] # "idle" /\ pc[d] # "idle" => Compatible(call[c], call[d])

NoLate == cancels = 0 => late = {}

SerialInv == Serial /\ NoLate

(***************************************************************************)
(* A step that begins no call and cancels none keeps this.                 *)
(***************************************************************************)
LEMMA SerialKept ==
    ASSUME TypeInv, SerialInv, serialised' = serialised,
           cancels' = 0 => cancels = 0 /\ late' \subseteq late,
           \A c \in Clients : pc'[c] # "idle" => pc[c] # "idle" /\ call'[c] = call[c]
    PROVE  SerialInv'
  BY DEF SerialInv, Serial, NoLate, Compatible, Changes

(***************************************************************************)
(* So every step keeps it.                                                 *)
(***************************************************************************)
LEMMA SerialNext == TypeInv /\ TypeInv' /\ SerialInv /\ [Next]_vars => SerialInv'
  <1> SUFFICES ASSUME TypeInv, TypeInv', SerialInv, [Next]_vars PROVE SerialInv'
    OBVIOUS
  <1>1. CASE UNCHANGED vars
    BY <1>1, SerialKept DEF vars, disk, locals, budget
  <1>2. ASSUME NEW j \in late, Late(j)
        PROVE  SerialInv'
    BY <1>2, SerialKept DEF Late, locals, budget
  <1>3. ASSUME NEW c \in Clients, Run(c) \/ Fault(c)
        PROVE  SerialInv'
    <2>1. UNCHANGED <<late, call, serialised, cancels>>
      BY <1>3 DEF Run, Save, MakeDirs, Create, Write, CloseFile, Delete, Open, Check, StartStream,
                  Read, EndOfFile, Exists, Size, Return, Fault, disk, locals, budget
    <2>2. pc[c] # "idle"
      BY <1>3 DEF Run, Save, MakeDirs, Create, Write, CloseFile, Delete, Open, Check, StartStream,
                  Read, EndOfFile, Exists, Size, Return, Fault
    <2>3. \A d \in Clients : d # c => pc'[d] = pc[d]
      BY <1>3 DEF Run, Save, MakeDirs, Create, Write, CloseFile, Delete, Open, Check,
                  StartStream, Read, EndOfFile, Exists, Size, Return, Fault, Raise, Reply, Go, TypeInv, TypeOK
    <2>4. \A d \in Clients : pc'[d] # "idle" => pc[d] # "idle"
      BY <2>2, <2>3 DEF TypeInv, TypeOK
    <2> QED
      BY <2>1, <2>4, SerialKept
  <1>4. ASSUME NEW c \in Clients, Cancel(c)
        PROVE  SerialInv'
    <2>1. /\ cancels' # 0 /\ serialised' = serialised /\ call' = call
          /\ \A d \in Clients : pc'[d] # "idle" => pc[d] # "idle"
      BY <1>4 DEF Cancel, Raise, Go, TypeInv, TypeOK
    <2> QED
      BY <2>1, SerialKept
  <1>5. ASSUME NEW c \in Clients, Call(c)
        PROVE  SerialInv'
    <2>1. PICK k \in CallSet :
             /\ serialised => \A d \in Clients : pc[d] # "idle" => Compatible(k, call[d])
             /\ call' = [call EXCEPT ![c] = k]
      BY <1>5 DEF Call
    <2>2. /\ pc[c] = "idle" /\ UNCHANGED <<late, serialised, cancels>>
          /\ call'[c] = k
          /\ \A d \in Clients : d # c => pc'[d] = pc[d] /\ call'[d] = call[d]
      BY <1>5, <2>1 DEF Call, Go, disk, TypeInv, TypeOK
    <2>3. \A l, m : Compatible(l, m) => Compatible(m, l)
      BY DEF Compatible
    <2>4. Serial'
      <3> SUFFICES ASSUME serialised, NEW d \in Clients, NEW e \in Clients, d # e,
                          pc'[d] # "idle", pc'[e] # "idle"
                   PROVE  Compatible(call'[d], call'[e])
        BY <2>2 DEF Serial, Compatible, Changes
      <3>1. CASE d = c
        BY <2>1, <2>2, <3>1
      <3>2. CASE e = c
        BY <2>1, <2>2, <2>3, <3>2
      <3>3. CASE d # c /\ e # c
        BY <2>2, <3>3 DEF SerialInv, Serial
      <3> QED
        BY <3>1, <3>2, <3>3
    <2> QED
      BY <2>2, <2>4 DEF SerialInv, NoLate
  <1> QED
    BY <1>1, <1>2, <1>3, <1>4, <1>5 DEF Next, Finished

(***************************************************************************)
(* No file is a mixture, a save in progress writes the file of its name,   *)
(* and what open has checked stays until it is read.                       *)
(***************************************************************************)
Writing(c) == pc[c] = "write"

Whole ==
    /\ \A n \in Names : IsFile(n) => \E x \in Contents[n] : BeginningOf(data[tree[n]], x)
    /\ \A c \in Clients : Writing(c) =>
          /\ Node(c) = file[c]
          /\ data[file[c]] = SubSeq(call[c].content, 1, done[c])

StillThere == \A c \in Clients : pc[c] = "opened" => IsFile(call[c].name)

WholeInv == serialised /\ cancels = 0 => StillThere /\ Whole

(***************************************************************************)
(* A file stays one unless it is deleted, when no thread works late.       *)
(***************************************************************************)
LEMMA FilesStay ==
    ASSUME TypeInv, [Next]_vars, late = {}, NEW n \in Names, IsFile(n)
    PROVE  IsFile(n)' \/ \E c \in Clients : Delete(c) /\ call[c].name = n
  <1> USE DEF IsFile
  <1>1. CASE UNCHANGED tree
    BY <1>1
  <1>2. ASSUME NEW m \in Names, NEW i \in Inodes, OpenForWriting(m, i)
        PROVE  IsFile(n)'
    BY <1>2, OpenEffect
  <1>3. ASSUME NEW c \in Clients, MakeDirs(c)
        PROVE  IsFile(n)'
    BY <1>3, LocalAssumption DEF MakeDirs, BelowFile, TypeInv, TypeOK
  <1>4. ASSUME NEW c \in Clients, Delete(c), call[c].name # n
        PROVE  IsFile(n)'
    BY <1>4 DEF Delete, TypeInv, TypeOK
  <1>5. \/ UNCHANGED tree
        \/ \E m \in Names, i \in Inodes : OpenForWriting(m, i)
        \/ \E c \in Clients : MakeDirs(c) \/ Delete(c)
    <2>1. \A c \in Clients : call[c].name \in Names
      BY CallFacts DEF TypeInv, TypeOK
    <2> QED
      BY <2>1 DEF Next, Run, Save, Create, Write, CloseFile, Open, Check, StartStream, Read, EndOfFile,
                  Exists, Size, Call, Return, Fault, Cancel, Finished, vars, disk
  <1> QED
    BY <1>1, <1>2, <1>3, <1>4, <1>5

(***************************************************************************)
(* Only open's check leads to the first read.                              *)
(***************************************************************************)
LEMMA OpenedBefore ==
    ASSUME TypeInv, [Next]_vars, NEW d \in Clients, pc'[d] = "opened"
    PROVE  /\ call'[d] = call[d]
           /\ pc[d] # "idle"
           /\ ~Delete(d)
           /\ pc[d] = "opened" \/ (IsFile(call[d].name) /\ UNCHANGED tree)
  <1> USE DEF Go, Reply, Raise
  <1>1. CASE UNCHANGED <<pc, call>>
    BY <1>1 DEF Delete, TypeInv, TypeOK
  <1>2. ASSUME NEW c \in Clients, Run(c) \/ Fault(c) \/ Cancel(c) \/ Call(c), c # d
        PROVE  pc'[d] = pc[d] /\ call'[d] = call[d]
    BY <1>2 DEF Run, Save, MakeDirs, Create, Write, CloseFile, Delete, Open, Check, StartStream, Read,
                EndOfFile, Exists, Size, Return, Fault, Cancel, Call, disk, locals,
                TypeInv, TypeOK
  <1>3. ~Delete(d)
    BY DEF Delete, TypeInv, TypeOK
  <1>4. ASSUME Run(d) \/ Fault(d) \/ Cancel(d) \/ Call(d)
        PROVE  Check(d) \/ (pc[d] = "opened" /\ call'[d] = call[d])
    BY <1>4 DEF Run, Save, MakeDirs, Create, Write, CloseFile, Delete, Open, StartStream, Read,
                EndOfFile, Exists, Size, Return, Fault, Cancel, Call, disk, locals,
                TypeInv, TypeOK
  <1>5. ASSUME Check(d)
        PROVE  IsFile(call[d].name) /\ UNCHANGED <<tree, call>> /\ pc[d] # "idle"
    BY <1>5 DEF Check, disk, locals, TypeInv, TypeOK
  <1>6. \/ UNCHANGED <<pc, call>>
        \/ \E c \in Clients : Run(c) \/ Fault(c) \/ Cancel(c) \/ Call(c)
    BY DEF Next, Late, locals, Finished, vars
  <1> QED
    BY <1>1, <1>2, <1>3, <1>4, <1>5, <1>6

(***************************************************************************)
(* So what open has checked is there when it is read.                      *)
(***************************************************************************)
LEMMA StillThereNext ==
    ASSUME TypeInv, SerialInv, serialised, late = {}, StillThere, [Next]_vars
    PROVE  StillThere'
  <1> SUFFICES ASSUME NEW d \in Clients, pc'[d] = "opened"
               PROVE  IsFile(call[d].name)'
    BY DEF StillThere
  <1> DEFINE n == call[d].name
  <1>1. n \in Names
    BY CallFacts DEF TypeInv, TypeOK
  <1>2. /\ call'[d] = call[d] /\ pc[d] # "idle" /\ ~Delete(d)
        /\ pc[d] = "opened" \/ (IsFile(n) /\ UNCHANGED tree)
    BY OpenedBefore
  <1>3. CASE IsFile(n) /\ UNCHANGED tree
    BY <1>2, <1>3 DEF IsFile
  <1>4. CASE pc[d] = "opened"
    <2>1. IsFile(n)
      BY <1>4 DEF StillThere
    <2>2. ASSUME NEW c \in Clients, Delete(c), call[c].name = n
          PROVE  FALSE
      <3>1. c # d /\ pc[c] # "idle" /\ Changes(call[c])
        BY <1>2, <2>2 DEF Delete, Changes
      <3> QED
        BY <1>2, <2>2, <3>1 DEF SerialInv, Serial, Compatible
    <2>3. tree'[n] \in Inodes
      BY <1>1, <2>1, <2>2, FilesStay DEF IsFile
    <2> QED
      BY <1>2, <2>3 DEF IsFile
  <1> QED
    BY <1>2, <1>3, <1>4

(***************************************************************************)
(* An error that nothing translates comes from a directory or from a file  *)
(* in the way, from a remove that overtook a stream, or from the operating *)
(* system.                                                                 *)
(***************************************************************************)
LEMMA ErrorCauses ==
    ASSUME TypeInv, serialised /\ cancels = 0 => StillThere, [Next]_vars, NEW c \in Clients,
           answer[c].kind # "oserror", answer'[c].kind = "oserror"
    PROVE  \/ Node(c) = Dir \/ BelowFile(call[c].name)
           \/ pc[c] = "opened" /\ Node(c) = None /\ (~serialised \/ cancels > 0)
           \/ faults' > faults
  <1> USE DEF Go, Reply, Raise, Plain
  <1>1. answer'[c] # answer[c]
    OBVIOUS
  <1>2. Call(c) \/ Run(c) \/ Fault(c) \/ Cancel(c)
    <2>1. ASSUME NEW d \in Clients, d # c, Call(d) \/ Run(d) \/ Fault(d) \/ Cancel(d)
          PROVE  answer'[c] = answer[c]
      BY <2>1 DEF Run, Save, MakeDirs, Create, Write, CloseFile, Delete, Open, Check, StartStream,
                  Read, EndOfFile, Exists, Size, Return, Fault, Cancel, Call, TypeInv, TypeOK
    <2> QED
      BY <1>1, <2>1 DEF Next, Late, Finished, vars
  <1>3. CASE MakeDirs(c) \/ Create(c) \/ Delete(c) \/ Size(c)
    BY <1>1, <1>3 DEF MakeDirs, Create, Delete, Size, TypeInv, TypeOK
  <1>4. CASE StartStream(c)
    <2>1. pc[c] = "opened" /\ ~IsFile(call[c].name)
      BY <1>1, <1>4 DEF StartStream, TypeInv, TypeOK
    <2>2. Node(c) \in {Dir, None} /\ (~serialised \/ cancels # 0) /\ cancels \in Nat
      BY <2>1, CallFacts DEF StillThere, IsFile, Node, TypeInv, TypeOK
    <2> QED
      BY <2>1, <2>2
  <1>5. ~Write(c) /\ ~CloseFile(c) /\ ~Check(c) /\ ~Read(c) /\ ~EndOfFile(c) /\ ~Exists(c)
          /\ ~Return(c) /\ ~Call(c) /\ ~Cancel(c)
    BY <1>1 DEF Write, CloseFile, Check, Read, EndOfFile, Exists, Return, Call, Cancel,
                TypeInv, TypeOK
  <1>6. CASE Fault(c)
    BY <1>6 DEF Fault, TypeInv, TypeOK
  <1> QED
    BY <1>2, <1>3, <1>4, <1>5, <1>6 DEF Run, Save, Open

(***************************************************************************)
(* The beginning of a content.                                             *)
(***************************************************************************)
LEMMA BeginningTyped ==
    ASSUME NEW x \in Seq(Chunks), NEW k \in 0 .. Len(x)
    PROVE  /\ SubSeq(x, 1, k) \in Seq(Chunks)
           /\ SubSeq(x, 1, k) \in Bytes
           /\ Len(SubSeq(x, 1, k)) = k
           /\ \A j \in 1 .. k : SubSeq(x, 1, k)[j] = x[j]
           /\ BeginningOf(SubSeq(x, 1, k), x)
  <1>1. \A j \in 1 .. k : x[j] \in Chunks
    BY ElementOfSeq
  <1>2. /\ SubSeq(x, 1, k) \in Seq(Chunks)
        /\ Len(SubSeq(x, 1, k)) = k
        /\ \A j \in 1 .. k : SubSeq(x, 1, k)[j] = x[j]
    BY <1>1, SubSeqProperties
  <1>3. SubSeq(x, 1, k) \in Bytes
    BY <1>2, SeqMonotonic DEF Bytes
  <1> QED
    BY <1>2, <1>3 DEF BeginningOf

(***************************************************************************)
(* A write that continues it leaves a longer one.                          *)
(***************************************************************************)
LEMMA OverwriteExtends ==
    ASSUME NEW x \in Seq(Chunks), NEW from \in Nat, NEW to \in from .. Len(x)
    PROVE  Overwrite(SubSeq(x, 1, from), x, from, to) = SubSeq(x, 1, to)
  <1> DEFINE s == SubSeq(x, 1, from)
             o == Overwrite(s, x, from, to)
             b == SubSeq(x, 1, to)
  <1>1. Len(x) \in Nat /\ from \in 0 .. Len(x) /\ to \in 0 .. Len(x)
    OBVIOUS
  <1>2. /\ s \in Bytes /\ Len(s) = from /\ \A j \in 1 .. from : s[j] = x[j]
        /\ b \in Bytes /\ Len(b) = to /\ \A j \in 1 .. to : b[j] = x[j]
    BY <1>1, BeginningTyped
  <1> HIDE DEF s, b
  <1>3. /\ o \in Bytes
        /\ Len(o) = IF from < to /\ to > Len(s) THEN to ELSE Len(s)
        /\ \A j \in 1 .. Len(o) :
              o[j] = CASE j \in from + 1 .. to -> x[j]
                       [] j \notin from + 1 .. to /\ j <= Len(s) -> s[j]
                       [] OTHER -> Hole
    BY <1>1, <1>2, OverwriteTyped
  <1> HIDE DEF o
  <1>4. Len(o) = to
    BY <1>1, <1>2, <1>3
  <1>5. ASSUME NEW j \in 1 .. to
        PROVE  o[j] = b[j]
    <2>1. CASE j \in from + 1 .. to
      BY <1>2, <1>3, <1>4, <2>1
    <2>2. CASE j \notin from + 1 .. to
      <3>1. j \in 1 .. from /\ j <= Len(s)
        BY <1>1, <1>2, <2>2
      <3> QED
        BY <1>2, <1>3, <1>4, <2>2, <3>1
    <2> QED
      BY <2>1, <2>2
  <1>6. o = b
    BY <1>2, <1>3, <1>4, <1>5, SeqEqual DEF Bytes
  <1> QED
    BY <1>6 DEF o, b, s

(***************************************************************************)
(* A step that writes no file and disturbs no writer keeps all files       *)
(* whole.                                                                  *)
(***************************************************************************)
LEMMA WholeKept ==
    ASSUME TypeInv, TypeInv', Whole, UNCHANGED data,
           \A n \in Names : tree'[n] \in Inodes => tree'[n] = tree[n],
           \A d \in Clients : Writing(d)' =>
              /\ Writing(d)
              /\ call'[d] = call[d] /\ file'[d] = file[d] /\ done'[d] = done[d]
              /\ tree'[call[d].name] = tree[call[d].name]
    PROVE  Whole'
  <1>1. ASSUME NEW n \in Names, IsFile(n)'
        PROVE  \E x \in Contents[n] : BeginningOf(data[tree[n]], x)'
    <2>1. IsFile(n) /\ tree'[n] = tree[n]
      BY <1>1 DEF IsFile
    <2> QED
      BY <2>1 DEF Whole
  <1>2. ASSUME NEW d \in Clients, Writing(d)'
        PROVE  /\ Node(d)' = file'[d]
               /\ data'[file'[d]] = SubSeq(call'[d].content, 1, done'[d])
    BY <1>2 DEF Whole, Node
  <1> QED
    BY <1>1, <1>2 DEF Whole

(***************************************************************************)
(* A save that opens its file is the only writer of its name.              *)
(***************************************************************************)
LEMMA WholeCreate ==
    ASSUME TypeInv, TypeInv', BytesInv, SerialInv, serialised, Whole,
           NEW c \in Clients, Save(c), Create(c)
    PROVE  Whole'
  <1> DEFINE n == call[c].name
  <1>1. /\ UNCHANGED <<call, done>> /\ n \in Names /\ pc \in [Clients -> Labels]
        /\ file \in [Clients -> Inodes \union {None}]
        /\ pc[c] = "create" /\ done[c] = 0 /\ call[c].op = "save"
        /\ call[c].content \in Contents[n] /\ call[c].content \in Seq(Chunks)
    BY CallFacts DEF Create, Save, TypeInv, TypeOK, Progress
  <1>2. CASE Raise(c, "oserror") /\ UNCHANGED <<tree, data>>
    <2>1. \A d \in Clients : Writing(d)' => Writing(d) /\ file'[d] = file[d]
      BY <1>1, <1>2 DEF Raise, Go, Writing
    <2> QED
      BY <1>1, <1>2, <2>1, WholeKept
  <1>3. ASSUME NEW i \in Inodes, OpenForWriting(n, i), file' = [file EXCEPT ![c] = i], Go(c, "write")
        PROVE  Whole'
    <2>1. /\ tree'[n] = i
          /\ \A m \in Names : m # n => tree'[m] = tree[m]
          /\ data'[i] = <<>>
          /\ \A j \in Inodes : j # i => data'[j] = data[j]
      BY <1>1, <1>3, OpenEffect
    <2>2. \A m \in Names : tree[m] = i => m = n
      BY <1>1, <1>3, OpenedAlone, References
    <2>3. SubSeq(call[c].content, 1, 0) = <<>> /\ BeginningOf(<<>>, call[c].content)
      BY <1>1 DEF BeginningOf
    <2>4. ASSUME NEW m \in Names, IsFile(m)'
          PROVE  \E x \in Contents[m] : BeginningOf(data[tree[m]], x)'
      <3>1. CASE m = n
        BY <1>1, <2>1, <2>3, <3>1 DEF BeginningOf
      <3>2. CASE m # n
        BY <2>1, <2>2, <2>4, <3>2 DEF Whole, IsFile, BeginningOf
      <3> QED
        BY <3>1, <3>2
    <2>5. ASSUME NEW d \in Clients, Writing(d)'
          PROVE  /\ Node(d)' = file'[d]
                 /\ data'[file'[d]] = SubSeq(call'[d].content, 1, done'[d])
      <3>1. CASE d = c
        BY <1>1, <1>3, <2>1, <2>3, <3>1 DEF Node
      <3>2. CASE d # c
        <4>1. Writing(d) /\ file'[d] = file[d] /\ call[d].name \in Names
          BY <1>1, <1>3, <2>5, <3>2, CallFacts DEF Go, Writing, TypeInv, TypeOK
        <4>2. call[d].name # n
          BY <1>1, <3>2, <4>1 DEF Writing, SerialInv, Serial, Compatible, Changes
        <4>3. file[d] = tree[call[d].name] /\ file[d] \in Inodes /\ file[d] # i
          BY <2>2, <4>1, <4>2 DEF Whole, Node, Writing, TypeInv, TypeOK
        <4> QED
          BY <1>1, <2>1, <4>1, <4>2, <4>3 DEF Whole, Node
      <3> QED
        BY <3>1, <3>2
    <2> QED
      BY <2>4, <2>5 DEF Whole
  <1> QED
    BY <1>2, <1>3 DEF Create

(***************************************************************************)
(* Flushing the buffer continues the beginning that is in the file.        *)
(***************************************************************************)
LEMMA WholeFlush ==
    ASSUME TypeInv, TypeInv', BytesInv, SerialInv, serialised, Whole,
           NEW c \in Clients, pc[c] = "write",
           NEW k \in Nat, done[c] <= k, k <= Len(call[c].content), Flush(c, k),
           UNCHANGED <<tree, call>>,
           \A d \in Clients : Writing(d)' => Writing(d) /\ file'[d] = file[d]
    PROVE  Whole'
  <1> DEFINE f == file[c]
             n == call[c].name
             x == call[c].content
  <1>1. /\ f \in Inodes /\ n \in Names /\ done[c] \in Nat /\ done \in [Clients -> Nat]
        /\ x \in Contents[n] /\ x \in Seq(Chunks) /\ Len(x) \in Nat /\ call[c].op = "save"
        /\ data'[f] = Overwrite(data[f], x, done[c], k)
        /\ \A i \in Inodes : i # f => data'[i] = data[i]
        /\ done' = [done EXCEPT ![c] = k]
    <2>1. call[c] \in CallSet /\ call[c].op = "save" /\ done \in [Clients -> Nat]
      BY DEF TypeInv, TypeOK, Progress
    <2> QED
      BY <2>1, FlushEffect, CallFacts
  <1>2. tree[n] = f /\ data[f] = SubSeq(x, 1, done[c])
    BY DEF Whole, Writing, Node
  <1>3. k \in done[c] .. Len(x) /\ k \in 0 .. Len(x)
    BY <1>1
  <1>4. data'[f] = SubSeq(x, 1, k)
    BY <1>1, <1>2, <1>3, OverwriteExtends
  <1>5. \A m \in Names : tree[m] = f => m = n
    BY <1>1, <1>2, References DEF BytesInv, Owned
  <1>6. ASSUME NEW m \in Names, IsFile(m)'
        PROVE  \E y \in Contents[m] : BeginningOf(data[tree[m]], y)'
    <2>1. CASE m = n
      <3>1. BeginningOf(SubSeq(x, 1, k), x)
        BY <1>1, <1>3, BeginningTyped
      <3> QED
        BY <1>1, <1>2, <1>4, <2>1, <3>1 DEF BeginningOf
    <2>2. CASE m # n
      <3>1. IsFile(m) /\ tree'[m] = tree[m] /\ data'[tree[m]] = data[tree[m]]
        BY <1>1, <1>5, <1>6, <2>2 DEF IsFile
      <3> QED
        BY <3>1 DEF Whole, BeginningOf
    <2> QED
      BY <2>1, <2>2
  <1>7. ASSUME NEW d \in Clients, Writing(d)'
        PROVE  /\ Node(d)' = file'[d]
               /\ data'[file'[d]] = SubSeq(call'[d].content, 1, done'[d])
    <2>1. Writing(d) /\ file'[d] = file[d] /\ Node(d)' = Node(d) /\ Node(d) = file[d]
      BY <1>7 DEF Whole, Node
    <2>2. CASE d = c
      BY <1>1, <1>4, <2>1, <2>2
    <2>3. CASE d # c
      <3>1. call[d].name # n /\ call[d].name \in Names
        BY <1>1, <2>1, <2>3, CallFacts DEF Writing, SerialInv, Serial, Compatible, Changes,
                                           TypeInv, TypeOK
      <3>2. file[d] \in Inodes /\ file[d] # f
        BY <1>5, <2>1, <3>1 DEF Node, Writing, TypeInv, TypeOK
      <3> QED
        BY <1>1, <2>1, <2>3, <3>2 DEF Whole
    <2> QED
      BY <2>2, <2>3
  <1> QED
    BY <1>6, <1>7 DEF Whole

(***************************************************************************)
(* The other steps of a client.                                            *)
(***************************************************************************)
LEMMA WholeClient ==
    ASSUME TypeInv, TypeInv', BytesInv, SerialInv, serialised, Whole, NEW c \in Clients,
           Call(c) \/ Run(c) \/ Fault(c)
    PROVE  Whole'
  <1> USE DEF Reply, Go, disk, locals, Writing
  <1>1. /\ file \in [Clients -> Inodes \union {None}] /\ pc \in [Clients -> Labels]
        /\ call[c] \in CallSet /\ call[c].name \in Names /\ Len(call[c].content) \in Nat
        /\ done[c] \in Nat /\ total[c] \in Nat
        /\ pc[c] # "idle" => done[c] <= total[c]
        /\ total[c] <= Len(call[c].content)
    BY CallFacts DEF TypeInv, TypeOK, Progress
  <1>2. ASSUME NEW d \in Clients, Writing(d)
        PROVE  /\ tree[call[d].name] \in Inodes /\ call[d].name \in Names
               /\ d # c /\ pc[c] # "idle" /\ Changes(call[c]) => call[d].name # call[c].name
    <2>1. call[d].op = "save" /\ call[d].name \in Names
      BY <1>2, CallFacts DEF TypeInv, TypeOK, Progress
    <2>2. tree[call[d].name] \in Inodes
      BY <1>2 DEF Whole, Node, TypeInv, TypeOK
    <2> QED
      BY <1>2, <2>1, <2>2 DEF SerialInv, Serial, Compatible
  <1>3. CASE MakeDirs(c)
    <2>1. /\ UNCHANGED <<data, call, done>>
          /\ \A n \in Names : tree'[n] \in Inodes => tree'[n] = tree[n]
          /\ \A n \in Names : tree[n] \in Inodes => tree'[n] = tree[n]
      BY <1>3, LocalAssumption DEF MakeDirs, BelowFile, IsFile
    <2>2. \A d \in Clients : Writing(d)' => Writing(d) /\ file'[d] = file[d]
      BY <1>1, <1>3 DEF MakeDirs, Raise
    <2> QED
      BY <1>2, <2>1, <2>2, WholeKept
  <1>4. CASE Write(c)
    <2>1. PICK k \in done[c] .. total[c] + 1 : Flush(c, k)
      BY <1>4 DEF Write
    <2>2. k \in Nat /\ done[c] <= k /\ k <= Len(call[c].content)
      BY <1>1, <1>4, <2>1 DEF Write
    <2>3. /\ pc[c] = "write" /\ UNCHANGED <<tree, call>>
          /\ \A d \in Clients : Writing(d)' => Writing(d) /\ file'[d] = file[d]
      BY <1>4 DEF Write
    <2> QED
      BY <2>1, <2>2, <2>3, WholeFlush
  <1>5. CASE CloseFile(c)
    <2>1. /\ pc[c] = "write" /\ UNCHANGED <<tree, call>> /\ Flush(c, total[c])
          /\ \A d \in Clients : Writing(d)' => Writing(d) /\ file'[d] = file[d]
      BY <1>1, <1>5 DEF CloseFile
    <2> QED
      BY <1>1, <2>1, WholeFlush
  <1>6. CASE Fault(c) /\ pc[c] = "write"
    <2>1. PICK k \in done[c] .. Given(c) : Flush(c, k)
      BY <1>6 DEF Fault
    <2>2. k \in Nat /\ done[c] <= k /\ k <= Len(call[c].content)
      BY <1>1, <2>1, GivenFacts
    <2>3. /\ UNCHANGED <<tree, call>>
          /\ \A d \in Clients : Writing(d)' => Writing(d) /\ file'[d] = file[d]
      BY <1>1, <1>6 DEF Fault, Raise
    <2> QED
      BY <1>6, <2>1, <2>2, <2>3, WholeFlush
  <1>7. CASE Delete(c)
    <2>1. /\ UNCHANGED <<data, call, done>> /\ pc[c] # "idle" /\ pc[c] # "write" /\ Changes(call[c])
          /\ \A d \in Clients : Writing(d)' => Writing(d) /\ file'[d] = file[d]
      BY <1>1, <1>7 DEF Delete, Raise, Changes
    <2>2. /\ \A n \in Names : tree'[n] \in Inodes => tree'[n] = tree[n]
          /\ \A n \in Names : n # call[c].name => tree'[n] = tree[n]
      BY <1>1, <1>7, LocalAssumption DEF Delete, TypeInv, TypeOK
    <2>3. \A d \in Clients : Writing(d) => tree'[call[d].name] = tree[call[d].name]
      BY <1>2, <2>1, <2>2
    <2> QED
      BY <2>1, <2>2, <2>3, WholeKept
  <1>8. CASE Open(c) \/ Exists(c) \/ Size(c) \/ Return(c) \/ (Fault(c) /\ pc[c] # "write")
    <2>1. pc[c] # "write"
      BY <1>8 DEF Open, Check, StartStream, Read, EndOfFile, Exists, Size, Return
    <2>2. /\ UNCHANGED <<tree, data, call, done>>
          /\ \A d \in Clients : d # c => pc'[d] = pc[d] /\ file'[d] = file[d]
      BY <1>1, <1>8 DEF Open, Check, StartStream, Read, EndOfFile, Exists, Size, Return, Fault, Raise
    <2>3. pc'[c] # "write"
      BY <1>1, <1>8 DEF Open, Check, StartStream, Read, EndOfFile, Exists, Size, Return, Fault, Raise
    <2> QED
      BY <2>1, <2>2, <2>3, WholeKept
  <1>9. CASE Call(c)
    <2>1. /\ UNCHANGED <<tree, data, file>> /\ pc[c] # "write" /\ pc'[c] # "write"
          /\ \A d \in Clients : d # c => pc'[d] = pc[d] /\ call'[d] = call[d] /\ done'[d] = done[d]
      BY <1>1, <1>9 DEF Call, TypeInv, TypeOK
    <2> QED
      BY <2>1, WholeKept
  <1> QED
    BY <1>3, <1>4, <1>5, <1>6, <1>7, <1>8, <1>9, WholeCreate DEF Run, Save

(***************************************************************************)
(* Callers do not change their ways, and a cancelled call stays counted.   *)
(***************************************************************************)
LEMMA CancelsKept ==
    ASSUME TypeInv, [Next]_vars
    PROVE  serialised' = serialised /\ (cancels' = 0 => cancels = 0)
  <1>1. ASSUME NEW c \in Clients, Cancel(c)
        PROVE  serialised' = serialised /\ cancels' # 0
    BY <1>1 DEF Cancel, TypeInv, TypeOK
  <1>2. UNCHANGED <<serialised, cancels>> \/ \E c \in Clients : Cancel(c)
    BY DEF Next, Run, Save, MakeDirs, Create, Write, CloseFile, Delete, Open, Check, StartStream,
           Read, EndOfFile, Exists, Size, Return, Fault, Call, Late, Finished, vars, budget
  <1> QED
    BY <1>1, <1>2

(***************************************************************************)
(* So every step keeps the invariant.                                      *)
(***************************************************************************)
LEMMA WholeNext ==
    TypeInv /\ TypeInv' /\ BytesInv /\ SerialInv /\ WholeInv /\ [Next]_vars => WholeInv'
  <1> SUFFICES ASSUME TypeInv, TypeInv', BytesInv, SerialInv, WholeInv, [Next]_vars
               PROVE  WholeInv'
    OBVIOUS
  <1>1. serialised' = serialised /\ (cancels' = 0 => cancels = 0)
    BY CancelsKept
  <1>2. SUFFICES ASSUME serialised, cancels' = 0
                 PROVE  StillThere' /\ Whole'
    BY <1>1 DEF WholeInv
  <1>3. StillThere /\ Whole /\ late = {}
    BY <1>1, <1>2 DEF WholeInv, SerialInv, NoLate
  <1>4. StillThere'
    BY <1>2, <1>3, StillThereNext
  <1>5. Whole'
    <2>1. CASE UNCHANGED vars
      BY <1>3, <2>1, WholeKept DEF vars, disk, locals, Writing
    <2>2. ASSUME NEW c \in Clients, Cancel(c)
          PROVE  FALSE
      BY <1>2, <2>2 DEF Cancel, TypeInv, TypeOK
    <2> QED
      BY <1>2, <1>3, <2>1, <2>2, WholeClient DEF Next, Finished
  <1> QED
    BY <1>4, <1>5

(***************************************************************************)
(* All that is known of reachable states, together.                        *)
(***************************************************************************)
LocalInv == TypeInv /\ TreeClosed /\ BytesInv /\ SerialInv /\ WholeInv

(***************************************************************************)
(* They hold of the initial states.                                        *)
(***************************************************************************)
LEMMA LocalInit == Init => LocalInv
  <1>1. Init => SerialInv
    BY DEF Init, SerialInv, Serial, NoLate
  <1>2. Init => WholeInv
    BY LocalAssumption DEF Init, WholeInv, StillThere, Whole, Writing, IsFile
  <1>3. Init => TreeClosed
    BY DEF Init, TreeClosed
  <1> QED
    BY <1>1, <1>2, <1>3, TypeInit, BytesInit DEF LocalInv

(***************************************************************************)
(* They are inductive together.                                            *)
(***************************************************************************)
LEMMA LocalNext == LocalInv /\ [Next]_vars => LocalInv'
  BY TypeNext, TreeNext, BytesNext, SerialNext, WholeNext DEF LocalInv

(***************************************************************************)
(* The invariants of the local backend hold of every reachable state.      *)
(***************************************************************************)
THEOREM LocalCorrect == Spec => []LocalInv
  BY LocalInit, LocalNext, PTL DEF Spec

(***************************************************************************)
(* With callers that serialise their calls no file is ever a mixture, as   *)
(* long as no call is cancelled while a thread works for it.               *)
(***************************************************************************)
THEOREM NeverMixed == Spec => []OneBeginning
  <1>1. LocalInv => OneBeginning
    BY DEF LocalInv, WholeInv, Whole, Writing, OneBeginning
  <1> QED
    BY <1>1, LocalCorrect, PTL

(***************************************************************************)
(* An OSError that is not translated has one of three causes, and a        *)
(* missing file is never one.                                              *)
(***************************************************************************)
THEOREM ErrorsTranslated == Spec => TranslatedErrors
  <1>1. LocalInv /\ [Next]_vars
          => [\A c \in Clients : answer[c].kind # "oserror" /\ answer'[c].kind = "oserror" =>
                \/ Node(c) = Dir \/ BelowFile(call[c].name)
                \/ pc[c] = "opened" /\ Node(c) = None /\ (~serialised \/ cancels > 0)
                \/ faults' > faults]_vars
    BY ErrorCauses DEF LocalInv, WholeInv
  <1> QED
    BY <1>1, LocalCorrect, PTL DEF Spec, TranslatedErrors

=============================================================================
