------------------------- MODULE LocalStoreImplements -------------------------
(***************************************************************************)
(* LocalStore implements StorageContract: with callers that serialise      *)
(* their calls, and until a call fails, every step of the local backend is *)
(* a step of the contract or leaves what the contract speaks of alone.     *)
(***************************************************************************)
EXTENDS LocalStoreProofs

-----------------------------------------------------------------------------
(* What a stream has read is the beginning of the file of its name.        *)

Streaming ==
    /\ \A c \in Clients : pc[c] \in {"start", "opened"} => got[c] = <<>>
    /\ serialised /\ cancels = 0 =>
          \A c \in Clients : pc[c] = "stream" =>
             Node(c) = file[c] /\ BeginningOf(got[c], data[file[c]])

ImplInv == LocalInv /\ Streaming

(***************************************************************************)
(* A stream of callers that serialise reads the file of its name, and no   *)
(* save or delete of the name is in progress.                              *)
(***************************************************************************)
LEMMA StreamAlone ==
    ASSUME ImplInv, serialised, cancels = 0, NEW c \in Clients, pc[c] \in {"opened", "stream"},
           NEW d \in Clients, pc[d] # "idle", Changes(call[d])
    PROVE  call[d].name # call[c].name
  <1>1. c # d
    BY DEF ImplInv, LocalInv, TypeInv, Progress, Changes
  <1>2. pc[c] # "idle"
    OBVIOUS
  <1> QED
    BY <1>1, <1>2 DEF ImplInv, LocalInv, SerialInv, Serial, Compatible

(***************************************************************************)
(* The file of a stream stays the file of its name, and its bytes stay.    *)
(***************************************************************************)
LEMMA StreamUndisturbed ==
    ASSUME ImplInv, TypeInv', Next, serialised, cancels' = 0, cancels = 0,
           NEW c \in Clients, pc[c] = "stream"
    PROVE  tree'[call[c].name] = tree[call[c].name] /\ data'[file[c]] = data[file[c]]
  <1> DEFINE n == call[c].name
             f == file[c]
  <1>1. /\ TypeInv /\ BytesInv /\ n \in Names /\ f \in Inodes /\ f # None /\ tree[n] = f
        /\ \A d \in Clients : call[d].name \in Names /\ file[d] \in Inodes \union {None}
    BY CallFacts, LocalAssumption DEF ImplInv, LocalInv, TypeInv, TypeOK, Streaming, Node
  <1>2. CASE UNCHANGED <<tree, data>>
    BY <1>2
  <1>3. ASSUME NEW d \in Clients, pc[d] # "idle", Changes(call[d])
        PROVE  call[d].name # n
    BY <1>3, StreamAlone
  <1>4. ASSUME NEW d \in Clients, Save(d)
        PROVE  tree'[n] = tree[n] /\ data'[f] = data[f]
    <2>1. call[d].name # n
      BY <1>3, <1>4 DEF Save, MakeDirs, Create, Write, CloseFile, Changes
    <2>2. CASE MakeDirs(d)
      BY <1>1, <2>2, LocalAssumption DEF MakeDirs, BelowFile, IsFile
    <2>3. ASSUME NEW i \in Inodes, OpenForWriting(call[d].name, i)
          PROVE  tree'[n] = tree[n] /\ data'[f] = data[f]
      <3>1. /\ \A m \in Names : m # call[d].name => tree'[m] = tree[m]
            /\ \A j \in Inodes : j # i => data'[j] = data[j]
        BY <1>1, <2>3, OpenEffect
      <3>2. f # i
        BY <1>1, <2>1, <2>3, OpenedAlone, References
      <3> QED
        BY <1>1, <2>1, <3>1, <3>2
    <2>4. CASE Create(d)
      BY <1>2, <2>3, <2>4 DEF Create
    <2>5. CASE Write(d) \/ CloseFile(d)
      <3>1. UNCHANGED tree /\ \E k : Flush(d, k)
        BY <2>5 DEF Write, CloseFile
      <3>2. f # file[d]
        BY <1>1, <2>1, References DEF BytesInv, Owned
      <3> QED
        BY <1>1, <3>1, <3>2 DEF Flush, TypeInv, TypeOK
    <2> QED
      BY <1>4, <2>2, <2>4, <2>5 DEF Save
  <1>5. ASSUME NEW d \in Clients, Delete(d)
        PROVE  tree'[n] = tree[n] /\ data'[f] = data[f]
    <2>1. call[d].name # n
      BY <1>3, <1>5 DEF Delete, Changes
    <2> QED
      BY <1>1, <1>5, <2>1 DEF Delete, TypeInv, TypeOK
  <1>6. ASSUME NEW d \in Clients, Fault(d)
        PROVE  tree'[n] = tree[n] /\ data'[f] = data[f]
    <2>1. CASE pc[d] # "write"
      BY <1>6, <2>1 DEF Fault
    <2>2. CASE pc[d] = "write"
      <3>1. call[d].name # n
        BY <1>1, <1>3, <2>2 DEF TypeInv, Progress, Changes
      <3>2. UNCHANGED tree /\ \E k : Flush(d, k)
        BY <1>6, <2>2 DEF Fault
      <3>3. f # file[d]
        BY <1>1, <3>1, References DEF BytesInv, Owned
      <3> QED
        BY <1>1, <3>2, <3>3 DEF Flush, TypeInv, TypeOK
    <2> QED
      BY <2>1, <2>2
  <1>7. late = {}
    BY DEF ImplInv, LocalInv, SerialInv, NoLate
  <1>8. ASSUME NEW d \in Clients, \/ Open(d) \/ Exists(d) \/ Size(d) \/ Return(d)
                                  \/ Call(d) \/ Cancel(d)
        PROVE  UNCHANGED <<tree, data>>
    BY <1>8 DEF Open, Check, StartStream, Read, EndOfFile, Exists, Size, Return, Call, Cancel,
                disk
  <1> QED
    BY <1>2, <1>4, <1>5, <1>6, <1>7, <1>8 DEF Next, Run, Finished, vars, disk

(***************************************************************************)
(* Where a step finds a client that it leaves in a stream or before one.   *)
(***************************************************************************)
LEMMA StreamBefore ==
    ASSUME TypeInv, Next, NEW c \in Clients
    PROVE  /\ pc'[c] = "stream" =>
                 \/ /\ pc[c] = "stream" /\ UNCHANGED <<call[c], file[c]>>
                    /\ UNCHANGED got[c] \/ (Read(c) /\ UNCHANGED <<tree, data>>)
                 \/ /\ StartStream(c) /\ IsFile(call[c].name) /\ file'[c] = Node(c)
                    /\ UNCHANGED <<tree, data, call, got>>
           /\ pc'[c] \in {"start", "opened"} =>
                 got'[c] = <<>> \/ (pc[c] \in {"start", "opened"} /\ UNCHANGED got[c])
  <1> USE DEF Go, Reply, Raise, disk, locals
  <1>1. ASSUME NEW d \in Clients, d # c, Call(d) \/ Run(d) \/ Fault(d) \/ Cancel(d)
        PROVE  UNCHANGED <<pc[c], call[c], file[c], got[c]>>
    BY <1>1 DEF Run, Save, MakeDirs, Create, Write, CloseFile, Delete, Open, Check, StartStream, Read,
                EndOfFile, Exists, Size, Return, Fault, Cancel, Call, TypeInv, TypeOK
  <1>2. CASE Save(c) \/ Delete(c) \/ Exists(c) \/ Size(c) \/ Return(c) \/ Fault(c) \/ Cancel(c)
    <2>1. pc'[c] \notin {"start", "opened", "stream"}
      BY <1>2 DEF Save, MakeDirs, Create, Write, CloseFile, Delete, Exists, Size, Return, Fault,
                  Cancel, TypeInv, TypeOK
    <2> QED
      BY <2>1
  <1>3. CASE Call(c)
    BY <1>3 DEF Call, TypeInv, TypeOK
  <1>4. CASE Check(c) \/ EndOfFile(c)
    BY <1>4 DEF Check, EndOfFile, TypeInv, TypeOK
  <1>5. CASE StartStream(c)
    BY <1>5 DEF StartStream, TypeInv, TypeOK
  <1>6. CASE Read(c)
    BY <1>6 DEF Read, TypeInv, TypeOK
  <1>7. CASE UNCHANGED <<pc, call, file, got>>
    BY <1>7
  <1> QED
    BY <1>1, <1>2, <1>3, <1>4, <1>5, <1>6, <1>7 DEF Next, Run, Open, Late, locals, Finished, vars

(***************************************************************************)
(* The next piece of a sequence makes its beginning longer.                *)
(***************************************************************************)
LEMMA BeginningLonger ==
    ASSUME NEW s \in Bytes, NEW b \in Bytes, BeginningOf(s, b), Len(s) < Len(b)
    PROVE  BeginningOf(Append(s, b[Len(s) + 1]), b)
  <1> DEFINE k == Len(s)
             e == b[k + 1]
             t == SubSeq(b, 1, k + 1)
  <1>1. k \in Nat /\ Len(b) \in Nat /\ k + 1 \in 1 .. Len(b) /\ k \in 0 .. Len(b)
    BY DEF Bytes
  <1>2. e \in Chunks \union {Hole} /\ \A j \in 1 .. k + 1 : b[j] \in Chunks \union {Hole}
    BY <1>1, ElementOfSeq DEF Bytes
  <1>3. t \in Bytes /\ Len(t) = k + 1 /\ \A j \in 1 .. k + 1 : t[j] = b[j]
    BY <1>1, <1>2, SubSeqProperties DEF Bytes
  <1>4. \A j \in 1 .. k : s[j] = b[j]
    BY <1>1, <1>2, SubSeqProperties DEF BeginningOf
  <1>5. /\ Append(s, e) \in Bytes /\ Len(Append(s, e)) = k + 1
        /\ Append(s, e)[k + 1] = e
        /\ \A j \in 1 .. k : Append(s, e)[j] = s[j]
    BY <1>1, <1>2 DEF Bytes
  <1>6. \A j \in 1 .. k + 1 : j \in 1 .. k \/ j = k + 1
    BY <1>1
  <1>7. Append(s, e) = t
    BY <1>1, <1>3, <1>4, <1>5, <1>6, SeqEqual DEF Bytes
  <1> QED
    BY <1>1, <1>5, <1>7 DEF BeginningOf

(***************************************************************************)
(* So every step keeps what is known of streams.                           *)
(***************************************************************************)
LEMMA StreamingNext == ImplInv /\ LocalInv' /\ [Next]_vars => Streaming'
  <1> SUFFICES ASSUME ImplInv, LocalInv', [Next]_vars PROVE Streaming'
    OBVIOUS
  <1>1. CASE UNCHANGED vars
    BY <1>1 DEF ImplInv, Streaming, Node, BeginningOf, vars, disk, locals, budget
  <1>2. CASE Next
    <2>1. serialised' = serialised /\ (cancels' = 0 => cancels = 0) /\ TypeInv
      BY <1>2, CancelsKept DEF ImplInv, LocalInv
    <2>2. ASSUME NEW c \in Clients, pc'[c] \in {"start", "opened"}
          PROVE  got'[c] = <<>>
      BY <1>2, <2>1, <2>2, StreamBefore DEF ImplInv, Streaming
    <2>3. ASSUME serialised, cancels' = 0, NEW c \in Clients, pc'[c] = "stream"
          PROVE  Node(c)' = file'[c] /\ BeginningOf(got'[c], data'[file'[c]])
      <3> DEFINE b == data[file[c]]
      <3>1. CASE StartStream(c) /\ IsFile(call[c].name) /\ file'[c] = Node(c)
                   /\ UNCHANGED <<tree, data, call, got>>
        <4>1. got'[c] = <<>> /\ Node(c)' = file'[c] /\ Node(c) \in Inodes
          BY <2>1, <3>1 DEF StartStream, ImplInv, Streaming, Node, IsFile
        <4>2. data'[file'[c]] \in Bytes
          BY <2>1, <3>1, <4>1 DEF TypeInv, TypeOK, Bytes
        <4>3. \A s \in Bytes : BeginningOf(<<>>, s)
          BY SubSeqEmpty DEF BeginningOf, Bytes
        <4> QED
          BY <4>1, <4>2, <4>3
      <3>2. CASE pc[c] = "stream" /\ UNCHANGED <<call[c], file[c]>>
        <4>1. Node(c) = file[c] /\ BeginningOf(got[c], b) /\ Node(c)' = file'[c] /\ data'[file'[c]] = b
          BY <1>2, <2>1, <2>3, <3>2, StreamUndisturbed DEF ImplInv, LocalInv, Streaming, Node
        <4>2. CASE UNCHANGED got[c]
          BY <4>1, <4>2
        <4>3. CASE Read(c)
          <5>1. file[c] \in Inodes /\ b \in Bytes /\ got[c] \in Bytes
            BY <2>1, <3>2 DEF TypeInv, TypeOK, Bytes
          <5>2. Len(got[c]) < Len(b) /\ got'[c] = Append(got[c], b[Len(got[c]) + 1])
            BY <2>1, <4>3 DEF Read, TypeInv, TypeOK
          <5> QED
            BY <4>1, <5>1, <5>2, BeginningLonger
        <4> QED
          BY <1>2, <2>1, <2>3, <3>2, <4>2, <4>3, StreamBefore DEF StartStream
      <3> QED
        BY <1>2, <2>1, <2>3, <3>1, <3>2, StreamBefore
    <2> QED
      BY <2>1, <2>2, <2>3 DEF Streaming
  <1> QED
    BY <1>1, <1>2

-----------------------------------------------------------------------------
(* The forms a step of the contract takes under the refinement mapping.    *)

Phase(c) ==
    CASE pc[c] = "idle" -> "idle"
      [] pc[c] \in {"write", "opened", "stream", "reply"} -> "effective"
      [] OTHER -> "pending"

(***************************************************************************)
(* Nothing that the contract speaks of changes.                            *)
(***************************************************************************)
LEMMA FormStutter ==
    ASSUME UNCHANGED call, \A n \in Names : Held(n)' = Held(n),
           \A d \in Clients : Phase(d)' = Phase(d) /\ PromisedAnswer(d)' = PromisedAnswer(d)
    PROVE  UNCHANGED Contract!contractVars
  <1>1. [n \in Names |-> Held(n)]' = [n \in Names |-> Held(n)]
    OBVIOUS
  <1>2. [d \in Clients |-> PromisedAnswer(d)]' = [d \in Clients |-> PromisedAnswer(d)]
    OBVIOUS
  <1>3. [d \in Clients |-> Phase(d)]' = [d \in Clients |-> Phase(d)]
    OBVIOUS
  <1> QED
    BY <1>1, <1>2, <1>3 DEF Contract!contractVars, Phase

(***************************************************************************)
(* A client calls an operation.                                            *)
(***************************************************************************)
LEMMA FormInvoke ==
    ASSUME NEW c \in Clients, Phase(c) = "idle",
           NEW k \in CallSet, call' = [call EXCEPT ![c] = k],
           \A d \in Clients : Phase(d)' = IF d = c THEN "pending" ELSE Phase(d),
           \A d \in Clients :
              PromisedAnswer(d)' = IF d = c THEN Plain("none") ELSE PromisedAnswer(d),
           \A n \in Names : Held(n)' = Held(n)
    PROVE  Contract!Invoke(c)
  <1>1. k \in Contract!Calls
    <2>1. /\ k.op \in {"delete", "open", "size", "exists"} => k.content = <<>>
          /\ k = [op |-> k.op, name |-> k.name, content |-> k.content]
      BY DEF CallSet
    <2>2. k.op = "save" => k.content \in UNION {Contents[n] : n \in Names}
      BY CallFacts
    <2> QED
      BY <2>1, <2>2, CallFacts DEF Contract!Calls
  <1>2. [n \in Names |-> Held(n)]' = [n \in Names |-> Held(n)]
    OBVIOUS
  <1>3. [d \in Clients |-> PromisedAnswer(d)]'
           = [[d \in Clients |-> PromisedAnswer(d)] EXCEPT ![c] = Plain("none")]
    OBVIOUS
  <1>4. [d \in Clients |-> Phase(d)]' = [[d \in Clients |-> Phase(d)] EXCEPT ![c] = "pending"]
    OBVIOUS
  <1>5. [d \in Clients |-> Phase(d)][c] = "idle"
    OBVIOUS
  <1> QED
    BY <1>1, <1>2, <1>3, <1>4, <1>5 DEF Contract!Invoke, Contract!Plain, Plain, Phase

(***************************************************************************)
(* The call of a client takes effect.                                      *)
(***************************************************************************)
LEMMA FormEffect ==
    ASSUME NEW c \in Clients, call[c].name \in Names, Phase(c) = "pending", UNCHANGED call,
           \A d \in Clients : Phase(d)' = IF d = c THEN "effective" ELSE Phase(d),
           PromisedAnswer(c)' = Contract!ReplyTo(call[c], Held(call[c].name)),
           \A d \in Clients : d # c => PromisedAnswer(d)' = PromisedAnswer(d),
           \A n \in Names :
              Held(n)' = IF n = call[c].name THEN Contract!After(call[c], Held(n)) ELSE Held(n)
    PROVE  Contract!TakeEffect(c)
  <1> DEFINE store == [n \in Names |-> Held(n)]
             n == call[c].name
  <1>1. store' = [store EXCEPT ![n] = Contract!After(call[c], store[n])]
    OBVIOUS
  <1>2. [d \in Clients |-> PromisedAnswer(d)]'
           = [d \in Clients |-> CASE d = c -> Contract!ReplyTo(call[c], store[n])
                                  [] d \in {} -> Plain("deleted")
                                  [] OTHER -> [e \in Clients |-> PromisedAnswer(e)][d]]
    OBVIOUS
  <1>3. [d \in Clients |-> Phase(d)]'
           = [d \in Clients |-> IF d \in {} \union {c} THEN "effective"
                                ELSE [e \in Clients |-> Phase(e)][d]]
    OBVIOUS
  <1>4. [d \in Clients |-> Phase(d)][c] = "pending"
    OBVIOUS
  <1>5. {} \in SUBSET Contract!Overtakable(c)
    OBVIOUS
  <1> QED
    BY <1>1, <1>2, <1>3, <1>4, <1>5 DEF Contract!TakeEffect, Contract!Plain, Plain, Phase

(***************************************************************************)
(* A client gets its answer.                                               *)
(***************************************************************************)
LEMMA FormAnswer ==
    ASSUME NEW c \in Clients, Phase(c) = "effective", UNCHANGED call,
           \A d \in Clients : Phase(d)' = IF d = c THEN "idle" ELSE Phase(d),
           \A d \in Clients : PromisedAnswer(d)' = PromisedAnswer(d),
           \A n \in Names : Held(n)' = Held(n)
    PROVE  Contract!Answer(c)
  <1>1. [n \in Names |-> Held(n)]' = [n \in Names |-> Held(n)]
    OBVIOUS
  <1>2. [d \in Clients |-> PromisedAnswer(d)]' = [d \in Clients |-> PromisedAnswer(d)]
    OBVIOUS
  <1>3. [d \in Clients |-> Phase(d)]' = [[d \in Clients |-> Phase(d)] EXCEPT ![c] = "idle"]
    OBVIOUS
  <1>4. [d \in Clients |-> Phase(d)][c] = "effective"
    OBVIOUS
  <1> QED
    BY <1>1, <1>2, <1>3, <1>4 DEF Contract!Answer, Phase

(***************************************************************************)
(* A call ends with an error.                                              *)
(***************************************************************************)
LEMMA FormError ==
    ASSUME NEW c \in Clients, Phase(c) # "idle", UNCHANGED call,
           \A d \in Clients : Phase(d)' = IF d = c THEN "idle" ELSE Phase(d),
           \A d \in Clients :
              PromisedAnswer(d)' = IF d = c THEN Plain("error") ELSE PromisedAnswer(d),
           \A n \in Names : Held(n)' = Held(n)
    PROVE  Contract!RaiseError(c)
  <1>1. [n \in Names |-> Held(n)]' = [n \in Names |-> Held(n)]
    OBVIOUS
  <1>2. [d \in Clients |-> PromisedAnswer(d)]'
           = [[d \in Clients |-> PromisedAnswer(d)] EXCEPT ![c] = Plain("error")]
    OBVIOUS
  <1>3. [d \in Clients |-> Phase(d)]' = [[d \in Clients |-> Phase(d)] EXCEPT ![c] = "idle"]
    OBVIOUS
  <1>4. [d \in Clients |-> Phase(d)][c] # "idle"
    OBVIOUS
  <1> QED
    BY <1>1, <1>2, <1>3, <1>4 DEF Contract!RaiseError, Contract!Plain, Plain, Phase

-----------------------------------------------------------------------------
(* What a name holds under the mapping.                                    *)

(***************************************************************************)
(* The content being written; else the bytes of the file; else nothing.    *)
(***************************************************************************)
HeldKnown ==
    serialised /\ cancels = 0 =>
    /\ \A c \in Clients : Writing(c) => Held(call[c].name) = call[c].content
    /\ \A n \in Names : IsFile(n) /\ (\A c \in Clients : Writing(c) => call[c].name # n)
                            => Held(n) = data[tree[n]]
    /\ \A n \in Names : ~IsFile(n) =>
          Held(n) = None /\ \A c \in Clients : Writing(c) => call[c].name # n

(***************************************************************************)
(* The mapping's content of a name, in every state of the invariant.       *)
(***************************************************************************)
LEMMA HeldIs == LocalInv => HeldKnown
  <1> SUFFICES ASSUME LocalInv, serialised, cancels = 0
               PROVE  /\ \A c \in Clients : Writing(c) => Held(call[c].name) = call[c].content
                      /\ \A n \in Names :
                            IsFile(n) /\ (\A c \in Clients : Writing(c) => call[c].name # n)
                               => Held(n) = data[tree[n]]
                      /\ \A n \in Names : ~IsFile(n) =>
                            Held(n) = None /\ \A c \in Clients : Writing(c) => call[c].name # n
    BY DEF HeldKnown
  <1>1. \A c \in Clients : Writing(c) => call[c].op = "save" /\ call[c].name \in Names
    BY CallFacts DEF LocalInv, TypeInv, TypeOK, Progress, Writing
  <1>2. \A c, d \in Clients : Writing(c) /\ Writing(d) /\ call[c].name = call[d].name => c = d
    BY <1>1 DEF LocalInv, SerialInv, Serial, Compatible, Changes, Writing
  <1>3. ASSUME NEW c \in Clients, Writing(c)
        PROVE  Held(call[c].name) = call[c].content
    <2>1. c \in Writers(call[c].name) /\ \A d \in Writers(call[c].name) : d = c
      BY <1>1, <1>2, <1>3 DEF Writers, Writing
    <2>2. (CHOOSE d \in Writers(call[c].name) : TRUE) = c
      BY <2>1
    <2> QED
      BY <2>1, <2>2 DEF Held
  <1>4. ASSUME NEW n \in Names, \A c \in Clients : Writing(c) => call[c].name # n
        PROVE  Held(n) = IF IsFile(n) THEN data[tree[n]] ELSE None
    <2>1. Writers(n) = {}
      BY <1>4 DEF Writers, Writing
    <2> QED
      BY <2>1 DEF Held
  <1>5. ASSUME NEW n \in Names, ~IsFile(n), NEW c \in Clients, Writing(c), call[c].name = n
        PROVE  FALSE
    <2>1. file[c] \in Inodes
      BY <1>5 DEF LocalInv, TypeInv, TypeOK, Writing
    <2> QED
      BY <1>5, <2>1 DEF LocalInv, WholeInv, Whole, Node, IsFile
  <1> QED
    BY <1>3, <1>4, <1>5

(***************************************************************************)
(* A name holds the same if its writer and, without one, its bytes stay.   *)
(***************************************************************************)
LEMMA HeldSame ==
    ASSUME HeldKnown, HeldKnown', serialised, cancels = 0, serialised', cancels' = 0,
           NEW n \in Names,
           \A d \in Clients : Writing(d)' /\ call'[d].name = n <=> Writing(d) /\ call[d].name = n,
           \A d \in Clients : Writing(d)' /\ call'[d].name = n => call'[d] = call[d],
           IsFile(n)' <=> IsFile(n),
           IsFile(n) /\ (\A d \in Clients : Writing(d) => call[d].name # n)
              => tree'[n] = tree[n] /\ data'[tree[n]] = data[tree[n]]
    PROVE  Held(n)' = Held(n)
  <1>1. CASE \E d \in Clients : Writing(d) /\ call[d].name = n
    BY <1>1 DEF HeldKnown
  <1>2. CASE \A d \in Clients : Writing(d) => call[d].name # n
    BY <1>2 DEF HeldKnown
  <1> QED
    BY <1>1, <1>2

(***************************************************************************)
(* What a step of one client leaves alone of the others.                   *)
(***************************************************************************)
Elsewhere(c) == \A d \in Clients : d # c => UNCHANGED <<pc[d], call[d], answer[d]>>

(***************************************************************************)
(* What the contract sees of the others stays: a stream promises what its  *)
(* name holds, and no step that changes a name overlaps a stream of it.    *)
(***************************************************************************)
LEMMA ElsewhereSame ==
    ASSUME ImplInv, serialised, cancels = 0, NEW c \in Clients, Elsewhere(c),
           \A n \in Names : n # call[c].name => Held(n)' = Held(n),
           \/ Changes(call[c]) /\ pc[c] # "idle"
           \/ \A n \in Names : Held(n)' = Held(n)
    PROVE  \A d \in Clients : d # c =>
              Phase(d)' = Phase(d) /\ PromisedAnswer(d)' = PromisedAnswer(d)
  <1> SUFFICES ASSUME NEW d \in Clients, d # c
               PROVE  Phase(d)' = Phase(d) /\ PromisedAnswer(d)' = PromisedAnswer(d)
    OBVIOUS
  <1>1. UNCHANGED <<pc[d], call[d], answer[d]>> /\ call[d].name \in Names
    BY CallFacts DEF Elsewhere, ImplInv, LocalInv, TypeInv, TypeOK
  <1>2. ASSUME pc[d] \in {"opened", "stream"}
        PROVE  Held(call[d].name)' = Held(call[d].name)
    <2>1. \A n \in Names : n = call[d].name => Held(n)' = Held(n)
      BY <1>2, StreamAlone
    <2> QED
      BY <1>1, <2>1
  <1>3. Phase(d)' = Phase(d)
    BY <1>1 DEF Phase
  <1>4. PromisedAnswer(d)' = PromisedAnswer(d)
    BY <1>1, <1>2 DEF PromisedAnswer
  <1> QED
    BY <1>3, <1>4

-----------------------------------------------------------------------------
(* The steps, while callers serialise and no save has been cancelled.      *)

Calm == ImplInv /\ HeldKnown /\ serialised /\ cancels = 0

(***************************************************************************)
(* The variables of a client that are used below, and who is elsewhere.    *)
(***************************************************************************)
LEMMA ClientFacts ==
    ASSUME Calm, NEW c \in Clients
    PROVE  /\ TypeInv /\ BytesInv /\ call[c] \in CallSet /\ call[c].name \in Names
           /\ call[c].op \in {"save", "delete", "open", "size", "exists"}
           /\ call[c].op = "save" => call[c].content \in Contents[call[c].name]
           /\ call[c].content \in Seq(Chunks) /\ Len(call[c].content) \in Nat
           /\ pc \in [Clients -> Labels] /\ answer \in [Clients -> AnswerSet]
           /\ tree \in [Names -> Inodes \union {Dir, None}]
           /\ data \in [Inodes -> Bytes]
           /\ \A d \in Clients : Writing(d) => call[d].op = "save" /\ pc[d] # "idle"
  BY CallFacts DEF Calm, ImplInv, LocalInv, TypeInv, TypeOK, Progress, Bytes, Writing

(***************************************************************************)
(* While a client is at work on a name, nobody else is if either of them   *)
(* changes it.                                                             *)
(***************************************************************************)
LEMMA NobodyElse ==
    ASSUME Calm, NEW c \in Clients, pc[c] # "idle"
    PROVE  /\ \A d \in Clients : Writing(d) /\ d # c => call[d].name # call[c].name
           /\ pc[c] # "write" => \A d \in Clients : Writing(d) => call[d].name # call[c].name
  BY ClientFacts
     DEF Calm, ImplInv, LocalInv, SerialInv, Serial, Compatible, Changes, Writing

(***************************************************************************)
(* Without a write, files that stay leave every name what it holds.        *)
(***************************************************************************)
LEMMA HeldCalm ==
    ASSUME Calm, Calm',
           \A d \in Clients : Writing(d)' <=> Writing(d),
           \A d \in Clients : Writing(d) => call'[d] = call[d],
           UNCHANGED data,
           \A n \in Names : tree[n] \in Inodes \/ tree'[n] \in Inodes => tree'[n] = tree[n]
    PROVE  \A n \in Names : Held(n)' = Held(n)
  BY HeldSame DEF Calm, IsFile

(***************************************************************************)
(* A call begins.                                                          *)
(***************************************************************************)
LEMMA ImplCall ==
    ASSUME Calm, Calm', NEW c \in Clients, Call(c)
    PROVE  Contract!Invoke(c)
  <1>1. PICK k \in CallSet : call' = [call EXCEPT ![c] = k]
    BY DEF Call
  <1>2. /\ pc[c] = "idle" /\ pc'[c] = "start" /\ answer'[c] = Plain("none")
        /\ Elsewhere(c) /\ UNCHANGED <<tree, data>>
    BY <1>1, ClientFacts DEF Call, Go, Elsewhere, disk, TypeInv, TypeOK
  <1>3. \A n \in Names : Held(n)' = Held(n)
    BY <1>2, HeldCalm DEF Elsewhere, Writing
  <1>4. \A d \in Clients : d # c => Phase(d)' = Phase(d) /\ PromisedAnswer(d)' = PromisedAnswer(d)
    BY <1>2, <1>3, ElsewhereSame DEF Calm
  <1>5. Phase(c) = "idle" /\ Phase(c)' = "pending"
    BY <1>2 DEF Phase
  <1>6. PromisedAnswer(c)' = Plain("none")
    BY <1>2 DEF PromisedAnswer, Plain
  <1> QED
    BY <1>1, <1>3, <1>4, <1>5, <1>6, FormInvoke

(***************************************************************************)
(* A call returns.                                                         *)
(***************************************************************************)
LEMMA ImplReturn ==
    ASSUME Calm, Calm', NEW c \in Clients, Return(c)
    PROVE  Contract!Answer(c)
  <1>1. /\ pc[c] = "reply" /\ pc'[c] = "idle" /\ Elsewhere(c)
        /\ UNCHANGED <<tree, data, call, answer>>
    BY ClientFacts DEF Return, Go, Elsewhere, disk, locals
  <1>2. \A n \in Names : Held(n)' = Held(n)
    BY <1>1, HeldCalm DEF Elsewhere, Writing
  <1>3. \A d \in Clients : d # c => Phase(d)' = Phase(d) /\ PromisedAnswer(d)' = PromisedAnswer(d)
    BY <1>1, <1>2, ElsewhereSame DEF Calm
  <1>4. Phase(c) = "effective" /\ Phase(c)' = "idle"
    BY <1>1 DEF Phase
  <1>5. PromisedAnswer(c)' = PromisedAnswer(c)
    BY <1>1 DEF PromisedAnswer
  <1> QED
    BY <1>1, <1>2, <1>3, <1>4, <1>5, FormAnswer

(***************************************************************************)
(* A call meets a directory or a file in the way.                          *)
(***************************************************************************)
LEMMA ImplRaise ==
    ASSUME Calm, Calm', NEW c \in Clients, pc[c] \notin {"idle", "write"}, Raise(c, "oserror"),
           UNCHANGED <<tree, data, call>>
    PROVE  Contract!RaiseError(c)
  <1>1. /\ pc'[c] = "idle" /\ Elsewhere(c) /\ answer'[c] = Plain("oserror")
    BY ClientFacts DEF Raise, Go, Elsewhere
  <1>2. \A n \in Names : Held(n)' = Held(n)
    BY <1>1, HeldCalm DEF Elsewhere, Writing
  <1>3. \A d \in Clients : d # c => Phase(d)' = Phase(d) /\ PromisedAnswer(d)' = PromisedAnswer(d)
    BY <1>1, <1>2, ElsewhereSame DEF Calm
  <1>4. Phase(c) # "idle" /\ Phase(c)' = "idle"
    BY <1>1 DEF Phase
  <1>5. PromisedAnswer(c)' = Plain("error")
    BY <1>1 DEF PromisedAnswer, Plain
  <1> QED
    BY <1>2, <1>3, <1>4, <1>5, FormError

(***************************************************************************)
(* The steps of save: making directories and writing show nothing, and     *)
(* opening the file is where the save takes effect.                        *)
(***************************************************************************)
LEMMA ImplMakeDirs ==
    ASSUME Calm, Calm', NEW c \in Clients, MakeDirs(c)
    PROVE  Contract!RaiseError(c) \/ UNCHANGED Contract!contractVars
  <1>1. CASE Raise(c, "oserror") /\ UNCHANGED tree
    BY <1>1, ImplRaise DEF MakeDirs
  <1>2. CASE ~BelowFile(call[c].name)
    <2>1. /\ pc[c] = "start" /\ pc'[c] = "create" /\ Elsewhere(c) /\ UNCHANGED <<call, answer, data>>
          /\ \A n \in Names : tree[n] \in Inodes \/ tree'[n] \in Inodes => tree'[n] = tree[n]
      BY <1>2, ClientFacts, LocalAssumption DEF MakeDirs, BelowFile, IsFile, Go, Elsewhere
    <2>2. \A n \in Names : Held(n)' = Held(n)
      BY <2>1, HeldCalm DEF Elsewhere, Writing
    <2>3. \A d \in Clients : d # c => Phase(d)' = Phase(d) /\ PromisedAnswer(d)' = PromisedAnswer(d)
      BY <2>1, <2>2, ElsewhereSame DEF Calm
    <2>4. Phase(c)' = Phase(c) /\ PromisedAnswer(c)' = PromisedAnswer(c)
      BY <2>1 DEF Phase, PromisedAnswer
    <2> QED
      BY <2>1, <2>2, <2>3, <2>4, FormStutter
  <1> QED
    BY <1>1, <1>2 DEF MakeDirs

(***************************************************************************)
(* Opening the file for writing is where a save takes effect, or raises.   *)
(***************************************************************************)
LEMMA ImplCreate ==
    ASSUME Calm, Calm', NEW c \in Clients, Save(c), Create(c)
    PROVE  Contract!RaiseError(c) \/ Contract!TakeEffect(c)
  <1>1. CASE Raise(c, "oserror") /\ UNCHANGED <<tree, data>>
    BY <1>1, ImplRaise DEF Create
  <1>2. ASSUME NEW i \in Inodes, OpenForWriting(call[c].name, i), file' = [file EXCEPT ![c] = i],
               Go(c, "write"), UNCHANGED answer
        PROVE  Contract!TakeEffect(c)
    <2> DEFINE n == call[c].name
    <2>1. /\ pc[c] = "create" /\ pc'[c] = "write" /\ Elsewhere(c) /\ UNCHANGED <<call, answer>>
          /\ call[c].op = "save" /\ n \in Names /\ TypeInv /\ BytesInv
      BY <1>2, ClientFacts DEF Save, Create, Go, Elsewhere
    <2>2. /\ tree'[n] = i
          /\ \A m \in Names : m # n => tree'[m] = tree[m]
          /\ \A j \in Inodes : j # i => data'[j] = data[j]
          /\ TypeInv
      BY <1>2, <2>1, OpenEffect
    <2>10. \A m \in Names : tree[m] = i => m = n
      BY <1>2, <2>1, OpenedAlone, References
    <2>3. /\ Writing(c)'
          /\ \A d \in Clients : d # c => (Writing(d)' <=> Writing(d))
      BY <2>1 DEF Elsewhere, Writing
    <2>4. Held(n)' = call[c].content
      <3>1. Held(call[c].name)' = call'[c].content
        BY <2>3 DEF Calm, HeldKnown
      <3> QED
        BY <2>1, <3>1
    <2>5. ASSUME NEW m \in Names, m # n
          PROVE  Held(m)' = Held(m)
      BY <2>1, <2>2, <2>3, <2>5, <2>10, HeldSame DEF Calm, IsFile
    <2>6. \A d \in Clients : d # c => Phase(d)' = Phase(d) /\ PromisedAnswer(d)' = PromisedAnswer(d)
      BY <2>1, <2>5, ElsewhereSame DEF Calm, Changes
    <2>7. Phase(c) = "pending" /\ Phase(c)' = "effective"
      BY <2>1 DEF Phase
    <2>8. PromisedAnswer(c)' = Contract!ReplyTo(call[c], Held(n))
      <3> DEFINE saved == [kind |-> "saved", size |-> Len(call[c].content), content |-> <<>>]
      <3>1. PromisedAnswer(c)' = saved
        BY <2>1 DEF PromisedAnswer
      <3>2. Contract!ReplyTo(call[c], Held(n)) = saved
        BY <2>1 DEF Contract!ReplyTo
      <3> QED
        BY <3>1, <3>2
    <2>9. Contract!After(call[c], Held(n)) = call[c].content
      BY <2>1 DEF Contract!After
    <2> QED
      BY <2>1, <2>4, <2>5, <2>6, <2>7, <2>8, <2>9, FormEffect
  <1> QED
    BY <1>1, <1>2 DEF Create

(***************************************************************************)
(* A piece that is written leaves what the contract sees: the mapping      *)
(* takes the content of a save in progress from its call.                  *)
(***************************************************************************)
LEMMA ImplWrite ==
    ASSUME Calm, Calm', NEW c \in Clients, Write(c)
    PROVE  UNCHANGED Contract!contractVars
  <1> DEFINE f == file[c]
  <1>1. /\ UNCHANGED <<tree, pc, call, answer>> /\ Elsewhere(c) /\ \E k : Flush(c, k)
        /\ TypeInv /\ BytesInv /\ Writing(c)
    BY ClientFacts DEF Write, Elsewhere, Writing
  <1>2. f \in Inodes /\ \A i \in Inodes : i # f => data'[i] = data[i]
    BY <1>1, LocalAssumption DEF Flush, TypeInv, TypeOK, Writing
  <1>3. \A n \in Names : tree[n] = f => call[c].name = n
    BY <1>1, <1>2, References DEF Calm, ImplInv, LocalInv, BytesInv, Owned
  <1>4. ASSUME NEW n \in Names
        PROVE  Held(n)' = Held(n)
    <2>1. IsFile(n)' <=> IsFile(n)
      BY <1>1 DEF IsFile
    <2>2. IsFile(n) /\ (\A d \in Clients : Writing(d) => call[d].name # n)
             => tree'[n] = tree[n] /\ data'[tree[n]] = data[tree[n]]
      BY <1>1, <1>2, <1>3 DEF IsFile
    <2> QED
      BY <1>1, <2>1, <2>2, HeldSame DEF Calm, Writing
  <1>5. \A d \in Clients : Phase(d)' = Phase(d)
    BY <1>1 DEF Phase
  <1>6. \A d \in Clients : PromisedAnswer(d)' = PromisedAnswer(d)
    <2>1. PromisedAnswer(c)' = PromisedAnswer(c)
      BY <1>1 DEF PromisedAnswer, Writing
    <2> QED
      BY <1>1, <1>4, <2>1, ElsewhereSame DEF Calm
  <1> QED
    BY <1>1, <1>4, <1>5, <1>6, FormStutter

(***************************************************************************)
(* When the file is closed it holds what the save was called with.         *)
(***************************************************************************)
LEMMA ImplClose ==
    ASSUME Calm, Calm', NEW c \in Clients, CloseFile(c)
    PROVE  UNCHANGED Contract!contractVars
  <1> DEFINE f == file[c]
             n == call[c].name
             x == call[c].content
  <1>1. /\ UNCHANGED <<tree, call>> /\ Elsewhere(c) /\ Flush(c, Len(x))
        /\ pc[c] = "write" /\ pc'[c] = "reply" /\ Writing(c)
        /\ answer'[c] = [kind |-> "saved", size |-> Len(x), content |-> <<>>]
        /\ TypeInv /\ BytesInv /\ n \in Names /\ x \in Seq(Chunks) /\ Len(x) \in Nat
    BY ClientFacts DEF CloseFile, Reply, Go, Elsewhere, Writing
  <1>2. /\ f \in Inodes /\ \A i \in Inodes : i # f => data'[i] = data[i]
        /\ data'[f] = Overwrite(data[f], x, done[c], Len(x))
    BY <1>1, LocalAssumption DEF Flush, TypeInv, TypeOK
  <1>3. tree[n] = f /\ data[f] = SubSeq(x, 1, done[c]) /\ done[c] \in Nat /\ Len(x) \in done[c] .. Len(x)
    <2>1. done[c] \in Nat /\ done[c] <= Len(x)
      BY <1>1 DEF TypeInv, TypeOK, Progress
    <2>2. tree[n] = f /\ data[f] = SubSeq(x, 1, done[c])
      BY <1>1 DEF Calm, ImplInv, LocalInv, WholeInv, Whole, Node
    <2> QED
      BY <1>1, <2>1, <2>2
  <1>4. data'[f] = x
    BY <1>1, <1>2, <1>3, OverwriteExtends, SubSeqFull
  <1>5. \A m \in Names : tree[m] = f => m = n
    BY <1>1, <1>2, References DEF Calm, ImplInv, LocalInv, BytesInv, Owned
  <1>6. ~Writing(c)' /\ \A d \in Clients : d # c => (Writing(d)' <=> Writing(d))
    BY <1>1 DEF Elsewhere, Writing
  <1>7. Held(n) = x /\ Held(n)' = x
    <2>1. Held(n) = x
      BY <1>1 DEF Calm, HeldKnown
    <2>2. \A d \in Clients : Writing(d)' => call'[d].name # n
      BY <1>1, <1>6, NobodyElse
    <2>3. \A m \in Names : m = n => Held(m)' = x
      BY <1>1, <1>2, <1>3, <1>4, <2>2 DEF Calm, HeldKnown, IsFile
    <2> QED
      BY <1>1, <2>1, <2>3
  <1>8. ASSUME NEW m \in Names, m # n
        PROVE  Held(m)' = Held(m)
    <2>1. IsFile(m)' <=> IsFile(m)
      BY <1>1 DEF IsFile
    <2>2. IsFile(m) => tree'[m] = tree[m] /\ data'[tree[m]] = data[tree[m]]
      BY <1>1, <1>2, <1>5, <1>8 DEF IsFile
    <2> QED
      BY <1>1, <1>6, <1>8, <2>1, <2>2, HeldSame DEF Calm
  <1>9. \A m \in Names : Held(m)' = Held(m)
    BY <1>1, <1>7, <1>8
  <1>10. \A d \in Clients : d # c => Phase(d)' = Phase(d) /\ PromisedAnswer(d)' = PromisedAnswer(d)
    BY <1>1, <1>9, ElsewhereSame DEF Calm
  <1>11. Phase(c)' = Phase(c) /\ PromisedAnswer(c)' = PromisedAnswer(c)
    <2> DEFINE saved == [kind |-> "saved", size |-> Len(x), content |-> <<>>]
    <2>1. Phase(c)' = Phase(c)
      BY <1>1 DEF Phase
    <2>2. PromisedAnswer(c) = saved
      BY <1>1 DEF PromisedAnswer
    <2>3. PromisedAnswer(c)' = answer'[c]
      BY <1>1 DEF PromisedAnswer
    <2> QED
      BY <1>1, <2>1, <2>2, <2>3
  <1> QED
    BY <1>1, <1>9, <1>10, <1>11, FormStutter

(***************************************************************************)
(* A call that takes effect and replies in one step, changing no file.     *)
(***************************************************************************)
LEMMA ImplReply ==
    ASSUME Calm, Calm', NEW c \in Clients, pc[c] = "start", NEW reply, Reply(c, reply),
           reply.kind \notin {"oserror", "caller"}, UNCHANGED <<tree, data, call>>,
           reply = Contract!ReplyTo(call[c], Held(call[c].name)),
           call[c].op \in {"open", "size", "exists"}
    PROVE  Contract!TakeEffect(c)
  <1>1. /\ pc'[c] = "reply" /\ answer'[c] = reply /\ Elsewhere(c)
        /\ call[c].name \in Names
    BY ClientFacts DEF Reply, Go, Elsewhere
  <1>2. \A n \in Names : Held(n)' = Held(n)
    BY <1>1, HeldCalm DEF Elsewhere, Writing
  <1>3. \A d \in Clients : d # c => Phase(d)' = Phase(d) /\ PromisedAnswer(d)' = PromisedAnswer(d)
    BY <1>1, <1>2, ElsewhereSame DEF Calm
  <1>4. Phase(c) = "pending" /\ Phase(c)' = "effective"
    BY <1>1 DEF Phase
  <1>5. PromisedAnswer(c)' = reply
    BY <1>1 DEF PromisedAnswer
  <1>6. \A s : Contract!After(call[c], s) = s
    BY DEF Contract!After
  <1> QED
    BY <1>1, <1>2, <1>3, <1>4, <1>5, <1>6, FormEffect

(***************************************************************************)
(* What a name holds that somebody opens, measures or looks for.           *)
(***************************************************************************)
LEMMA HeldRead ==
    ASSUME Calm, NEW c \in Clients, pc[c] \notin {"idle", "write"}
    PROVE  IF IsFile(call[c].name)
           THEN /\ Held(call[c].name) = data[Node(c)]
                /\ Node(c) \in Inodes /\ Held(call[c].name) \in Bytes
                /\ Held(call[c].name) # None
           ELSE Held(call[c].name) = None
  <1>1. \A d \in Clients : Writing(d) => call[d].name # call[c].name
    BY NobodyElse
  <1>2. CASE IsFile(call[c].name)
    <2>1. Held(call[c].name) = data[Node(c)] /\ Node(c) \in Inodes
      BY <1>1, <1>2, ClientFacts DEF Calm, HeldKnown, Node, IsFile
    <2>2. data[Node(c)] \in Bytes /\ None \notin Bytes
      BY <2>1, ClientFacts, LocalAssumption DEF Bytes
    <2> QED
      BY <1>2, <2>1, <2>2
  <1>3. CASE ~IsFile(call[c].name)
    BY <1>3, ClientFacts DEF Calm, HeldKnown
  <1> QED
    BY <1>2, <1>3

(***************************************************************************)
(* exists and size.                                                        *)
(***************************************************************************)
LEMMA ImplExists ==
    ASSUME Calm, Calm', NEW c \in Clients, Exists(c)
    PROVE  Contract!TakeEffect(c)
  <1> DEFINE n == call[c].name
             reply == Plain(IF IsFile(n) THEN "present" ELSE "absent")
  <1>1. /\ pc[c] = "start" /\ call[c].op = "exists" /\ Reply(c, reply) /\ UNCHANGED <<tree, data, call>>
    BY DEF Exists, disk, locals
  <1>2. Contract!ReplyTo(call[c], Held(n)) = Plain(IF Held(n) = None THEN "absent" ELSE "present")
    BY <1>1 DEF Contract!ReplyTo, Contract!Plain, Plain
  <1>3. (Held(n) = None) <=> ~IsFile(n)
    BY <1>1, HeldRead
  <1>4. reply = Contract!ReplyTo(call[c], Held(n)) /\ reply.kind \notin {"oserror", "caller"}
    BY <1>2, <1>3 DEF Plain
  <1> QED
    BY <1>1, <1>4, ImplReply

(***************************************************************************)
(* size takes effect when it asks, but of a directory.                     *)
(***************************************************************************)
LEMMA ImplSize ==
    ASSUME Calm, Calm', NEW c \in Clients, Size(c), ~(SizeOfDirectory(c) /\ pc'[c] = "reply")
    PROVE  Contract!TakeEffect(c) \/ Contract!RaiseError(c)
  <1> DEFINE n == call[c].name
  <1>1. pc[c] = "start" /\ call[c].op = "size" /\ UNCHANGED <<tree, data, call>>
    BY DEF Size, disk
  <1>2. CASE Raise(c, "oserror")
    BY <1>1, <1>2, ImplRaise
  <1>3. CASE Node(c) = None /\ Reply(c, Plain("notfound"))
    <2>1. Held(n) = None
      BY <1>1, <1>3, HeldRead, LocalAssumption DEF Node, IsFile
    <2>2. /\ Plain("notfound") = Contract!ReplyTo(call[c], Held(n))
          /\ Plain("notfound").kind \notin {"oserror", "caller"}
      BY <1>1, <2>1 DEF Contract!ReplyTo, Contract!Plain, Plain
    <2> QED
      BY <1>1, <1>3, <2>2, ImplReply
  <1>4. CASE /\ Node(c) # None
             /\ Reply(c, [kind |-> "size", size |-> StatSize(n), content |-> <<>>])
    <2> DEFINE reply == [kind |-> "size", size |-> StatSize(n), content |-> <<>>]
    <2>1. pc'[c] = "reply"
      BY <1>4, ClientFacts DEF Reply, Go
    <2>2. IsFile(n) /\ Node(c) # Dir
      BY <1>1, <1>4, <2>1, ClientFacts DEF SizeOfDirectory, Node, IsFile
    <2>3. Held(n) = data[Node(c)] /\ Held(n) # None
      BY <1>1, <2>2, HeldRead
    <2>4. StatSize(n) = Len(Held(n))
      BY <2>2, <2>3 DEF StatSize, Node
    <2>5. reply = Contract!ReplyTo(call[c], Held(n)) /\ reply.kind \notin {"oserror", "caller"}
      BY <1>1, <2>3, <2>4 DEF Contract!ReplyTo
    <2> QED
      BY <1>1, <1>4, <2>5, ImplReply
  <1> QED
    BY <1>2, <1>3, <1>4 DEF Size

(***************************************************************************)
(* delete takes effect when it removes the file.                           *)
(***************************************************************************)
LEMMA ImplDelete ==
    ASSUME Calm, Calm', NEW c \in Clients, Delete(c)
    PROVE  Contract!TakeEffect(c) \/ Contract!RaiseError(c)
  <1> DEFINE n == call[c].name
  <1>1. /\ pc[c] = "start" /\ call[c].op = "delete" /\ UNCHANGED <<data, call>>
        /\ n \in Names /\ tree \in [Names -> Inodes \union {Dir, None}]
    BY ClientFacts DEF Delete
  <1>2. CASE Raise(c, "oserror") /\ UNCHANGED tree
    BY <1>1, <1>2, ImplRaise
  <1>3. CASE tree' = [tree EXCEPT ![n] = None] /\ Reply(c, Plain("deleted"))
    <2>1. pc'[c] = "reply" /\ answer'[c] = Plain("deleted") /\ Elsewhere(c)
      BY <1>1, <1>3, ClientFacts DEF Reply, Go, Elsewhere
    <2>2. /\ \A d \in Clients : Writing(d)' <=> Writing(d)
          /\ \A d \in Clients : Writing(d) => call[d].name # n
      BY <1>1, <2>1, NobodyElse DEF Elsewhere, Writing
    <2>3. tree'[n] = None /\ \A m \in Names : m # n => tree'[m] = tree[m]
      BY <1>1, <1>3
    <2>4. Held(n)' = None
      <3>1. \A m \in Names : m = n => Held(m)' = None
        BY <2>3, LocalAssumption DEF Calm, HeldKnown, IsFile
      <3> QED
        BY <1>1, <3>1
    <2>5. ASSUME NEW m \in Names, m # n
          PROVE  Held(m)' = Held(m)
      BY <1>1, <2>2, <2>3, <2>5, HeldSame DEF Calm, IsFile
    <2>6. \A d \in Clients : d # c => Phase(d)' = Phase(d) /\ PromisedAnswer(d)' = PromisedAnswer(d)
      BY <1>1, <2>1, <2>5, ElsewhereSame DEF Calm, Changes
    <2>7. Phase(c) = "pending" /\ Phase(c)' = "effective"
      BY <1>1, <2>1 DEF Phase
    <2>8. PromisedAnswer(c)' = Contract!ReplyTo(call[c], Held(n))
      <3>1. PromisedAnswer(c)' = Plain("deleted")
        BY <2>1 DEF PromisedAnswer, Plain
      <3>2. Contract!ReplyTo(call[c], Held(n)) = Plain("deleted")
        BY <1>1 DEF Contract!ReplyTo, Contract!Plain, Plain
      <3> QED
        BY <3>1, <3>2
    <2>9. Contract!After(call[c], Held(n)) = None
      BY <1>1 DEF Contract!After
    <2> QED
      BY <1>1, <2>4, <2>5, <2>6, <2>7, <2>8, <2>9, FormEffect
  <1> QED
    BY <1>2, <1>3 DEF Delete

(***************************************************************************)
(* open takes effect when it finds the file, and answers what the file     *)
(* holds when the stream ends.                                             *)
(***************************************************************************)
LEMMA ImplCheck ==
    ASSUME Calm, Calm', NEW c \in Clients, Open(c), Check(c)
    PROVE  Contract!TakeEffect(c)
  <1> DEFINE n == call[c].name
  <1>1. pc[c] = "start" /\ call[c].op = "open" /\ UNCHANGED <<tree, data, call>> /\ n \in Names
    BY ClientFacts DEF Open, Check, disk, locals
  <1>2. CASE ~IsFile(n) /\ Reply(c, Plain("notfound"))
    <2>1. Held(n) = None
      BY <1>1, <1>2, HeldRead
    <2>2. /\ Plain("notfound") = Contract!ReplyTo(call[c], Held(n))
          /\ Plain("notfound").kind \notin {"oserror", "caller"}
      BY <1>1, <2>1 DEF Contract!ReplyTo, Contract!Plain, Plain
    <2> QED
      BY <1>1, <1>2, <2>2, ImplReply
  <1>3. CASE IsFile(n) /\ Go(c, "opened") /\ UNCHANGED answer
    <2>1. pc'[c] = "opened" /\ Elsewhere(c)
      BY <1>1, <1>3, ClientFacts DEF Go, Elsewhere
    <2>2. \A m \in Names : Held(m)' = Held(m)
      BY <1>1, <2>1, HeldCalm DEF Elsewhere, Writing
    <2>3. \A d \in Clients : d # c => Phase(d)' = Phase(d) /\ PromisedAnswer(d)' = PromisedAnswer(d)
      BY <2>1, <2>2, ElsewhereSame DEF Calm
    <2>4. Phase(c) = "pending" /\ Phase(c)' = "effective"
      BY <1>1, <2>1 DEF Phase
    <2>5. PromisedAnswer(c)' = Contract!ReplyTo(call[c], Held(n))
      <3> DEFINE content == [kind |-> "content", size |-> 0, content |-> Held(n)]
      <3>1. Held(call[c].name)' = Held(n)
        BY <1>1, <2>2
      <3>2. PromisedAnswer(c)' = content
        BY <2>1, <3>1 DEF PromisedAnswer
      <3>3. Held(n) # None
        BY <1>1, <1>3, HeldRead
      <3>4. Contract!ReplyTo(call[c], Held(n)) = content
        BY <1>1, <3>3 DEF Contract!ReplyTo
      <3> QED
        BY <3>2, <3>4
    <2>6. \A s : Contract!After(call[c], s) = s
      BY <1>1 DEF Contract!After
    <2> QED
      BY <1>1, <2>2, <2>3, <2>4, <2>5, <2>6, FormEffect
  <1> QED
    BY <1>2, <1>3 DEF Check

(***************************************************************************)
(* A stream that is read to its end answers what its name held when open   *)
(* found the file.                                                         *)
(***************************************************************************)
LEMMA ImplStream ==
    ASSUME Calm, Calm', NEW c \in Clients, Open(c), StartStream(c) \/ Read(c) \/ EndOfFile(c)
    PROVE  UNCHANGED Contract!contractVars
  <1> DEFINE n == call[c].name
  <1>1. /\ UNCHANGED <<tree, data, call>> /\ n \in Names
        /\ pc[c] \in {"opened", "stream"} /\ Elsewhere(c)
    BY ClientFacts DEF StartStream, Read, EndOfFile, Raise, Reply, Go, Elsewhere, disk
  <1>2. ~Raise(c, "oserror") \/ ~StartStream(c)
    BY ClientFacts DEF StartStream, Raise, Reply, Go, Calm, ImplInv, LocalInv, WholeInv, StillThere
  <1>3. pc'[c] \in {"stream", "reply"} /\ ~Writing(c) /\ ~Writing(c)'
    BY <1>1, <1>2, ClientFacts DEF StartStream, Read, EndOfFile, Reply, Go, Writing
  <1>4. \A m \in Names : Held(m)' = Held(m)
    BY <1>1, <1>3, HeldCalm DEF Elsewhere, Writing
  <1>5. \A d \in Clients : d # c => Phase(d)' = Phase(d) /\ PromisedAnswer(d)' = PromisedAnswer(d)
    BY <1>1, <1>4, ElsewhereSame DEF Calm
  <1>6. Phase(c)' = Phase(c)
    BY <1>1, <1>3 DEF Phase
  <1>7. PromisedAnswer(c)' = PromisedAnswer(c)
    <2> DEFINE content == [kind |-> "content", size |-> 0, content |-> Held(n)]
    <2>1. PromisedAnswer(c) = content
      BY <1>1 DEF PromisedAnswer
    <2>2. CASE pc'[c] = "stream"
      <3>1. Held(call[c].name)' = Held(n)
        BY <1>1, <1>4
      <3>2. PromisedAnswer(c)' = content
        BY <2>2, <3>1 DEF PromisedAnswer
      <3> QED
        BY <2>1, <3>2
    <2>3. CASE pc'[c] = "reply"
      <3>1. EndOfFile(c)
        BY <1>2, <2>3, ClientFacts DEF StartStream, Read, Go
      <3>2. /\ pc[c] = "stream" /\ Len(got[c]) >= Len(data[file[c]])
            /\ answer'[c] = [kind |-> "content", size |-> 0, content |-> got[c]]
        BY <3>1, ClientFacts DEF EndOfFile, Reply
      <3>3. Node(c) = file[c] /\ BeginningOf(got[c], data[file[c]]) /\ file[c] \in Inodes
        BY <3>2, LocalAssumption DEF Calm, ImplInv, LocalInv, TypeInv, TypeOK, Streaming
      <3>4. data[file[c]] \in Bytes /\ got[c] \in Bytes
        BY <3>3 DEF Calm, ImplInv, LocalInv, TypeInv, TypeOK, Bytes
      <3>5. Len(got[c]) = Len(data[file[c]])
        BY <3>2, <3>3, <3>4 DEF BeginningOf, Bytes
      <3>6. got[c] = data[file[c]]
        BY <3>3, <3>4, <3>5, SubSeqFull DEF BeginningOf, Bytes
      <3>7. Held(n) = data[file[c]]
        BY <1>1, <3>2, <3>3, HeldRead DEF Node, IsFile
      <3>8. PromisedAnswer(c)' = answer'[c]
        BY <2>3, <3>2 DEF PromisedAnswer
      <3> QED
        BY <2>1, <3>2, <3>6, <3>7, <3>8
    <2> QED
      BY <1>3, <2>2, <2>3
  <1> QED
    BY <1>1, <1>4, <1>5, <1>6, <1>7, FormStutter

-----------------------------------------------------------------------------
(* The theorem.                                                            *)

(***************************************************************************)
(* The initial states are initial states of the contract.                  *)
(***************************************************************************)
LEMMA ImplInit == Init => ImplInv /\ Contract!ContractInit
  <1> SUFFICES ASSUME Init PROVE ImplInv /\ Contract!ContractInit
    OBVIOUS
  <1>1. LocalInv
    BY LocalInit
  <1>2. Streaming
    BY DEF Init, Streaming
  <1>3. \A n \in Names : Held(n) = None
    BY LocalAssumption DEF Init, Held, Writers, IsFile
  <1>4. call \in [Clients -> Contract!Calls]
    <2>1. PICK n \in Names : call = [c \in Clients |-> [op |-> "exists", name |-> n, content |-> <<>>]]
      BY DEF Init
    <2>2. [op |-> "exists", name |-> n, content |-> <<>>] \in Contract!Calls
      BY DEF Contract!Calls
    <2> QED
      BY <2>1, <2>2
  <1>5. [c \in Clients |-> Phase(c)] = [c \in Clients |-> "idle"]
    BY DEF Init, Phase
  <1>6. [c \in Clients |-> PromisedAnswer(c)] = [c \in Clients |-> Plain("none")]
    BY DEF Init, PromisedAnswer, Plain
  <1> QED
    BY <1>1, <1>2, <1>3, <1>4, <1>5, <1>6
       DEF ImplInv, Contract!ContractInit, Contract!Plain, Plain, Phase

(***************************************************************************)
(* A step of a client is one of the contract's, or shows nothing.          *)
(***************************************************************************)
LEMMA ImplClient ==
    ASSUME Calm, Calm', NEW c \in Clients, Call(c) \/ Run(c),
           ~(SizeOfDirectory(c) /\ pc'[c] = "reply")
    PROVE  Contract!ContractNext \/ UNCHANGED Contract!contractVars
  <1>1. CASE Call(c)
    BY <1>1, ImplCall DEF Contract!ContractNext
  <1>2. CASE Save(c)
    BY <1>2, ImplMakeDirs, ImplCreate, ImplWrite, ImplClose DEF Save, Contract!ContractNext
  <1>3. CASE Delete(c)
    BY <1>3, ImplDelete DEF Contract!ContractNext
  <1>4. CASE Open(c)
    BY <1>4, ImplCheck, ImplStream DEF Open, Contract!ContractNext
  <1>5. CASE Exists(c)
    BY <1>5, ImplExists DEF Contract!ContractNext
  <1>6. CASE Size(c)
    BY <1>6, ImplSize DEF Contract!ContractNext
  <1>7. CASE Return(c)
    BY <1>7, ImplReturn DEF Contract!ContractNext
  <1> QED
    BY <1>1, <1>2, <1>3, <1>4, <1>5, <1>6, <1>7 DEF Run

(***************************************************************************)
(* So is every step while no call fails.                                   *)
(***************************************************************************)
LEMMA ImplCalm ==
    ASSUME Calm, Calm', faults' = 0, [Next]_vars,
           \A c \in Clients : ~(SizeOfDirectory(c) /\ pc'[c] = "reply")
    PROVE  Contract!ContractNext \/ UNCHANGED Contract!contractVars
  <1>1. CASE UNCHANGED vars
    <2>1. UNCHANGED <<tree, data, pc, call, answer>>
      BY <1>1 DEF vars, disk, locals
    <2>2. \A n \in Names : Held(n)' = Held(n)
      BY <2>1, HeldCalm DEF Writing
    <2>3. \A d \in Clients : Phase(d)' = Phase(d)
      BY <2>1 DEF Phase
    <2>4. ASSUME NEW d \in Clients
          PROVE  PromisedAnswer(d)' = PromisedAnswer(d)
      <3>1. Held(call[d].name)' = Held(call[d].name)
        BY <2>1, <2>2, ClientFacts
      <3> QED
        BY <2>1, <3>1 DEF PromisedAnswer
    <2> QED
      BY <2>1, <2>2, <2>3, <2>4, FormStutter
  <1>2. ASSUME NEW c \in Clients, Fault(c)
        PROVE  FALSE
    <2>1. faults \in Nat
      BY DEF Calm, ImplInv, LocalInv, TypeInv, TypeOK
    <2> QED
      BY <1>2, <2>1 DEF Fault
  <1>3. ASSUME NEW c \in Clients, Cancel(c)
        PROVE  FALSE
    BY <1>3 DEF Cancel, Calm
  <1>4. late = {}
    BY DEF Calm, ImplInv, LocalInv, SerialInv, NoLate
  <1> QED
    BY <1>1, <1>2, <1>3, <1>4, ImplClient DEF Next, Finished

(***************************************************************************)
(* A step of the backend is one of the contract's or shows nothing, unless *)
(* the callers do not serialise, a call has failed, or size is asked of a  *)
(* directory.                                                              *)
(***************************************************************************)
LEMMA ImplStep ==
    ASSUME ImplInv, ImplInv', HeldKnown, HeldKnown', [Next]_vars
    PROVE  [\/ Contract!ContractNext
            \/ ~serialised
            \/ faults' + cancels' > 0
            \/ \E c \in Clients : SizeOfDirectory(c) /\ pc'[c] = "reply"]_(Contract!contractVars)
  <1> DEFINE measured == \E c \in Clients : SizeOfDirectory(c) /\ pc'[c] = "reply"
  <1>1. faults' \in Nat /\ cancels' \in Nat
    BY DEF ImplInv, LocalInv, TypeInv, TypeOK
  <1>2. faults' + cancels' > 0 \/ (faults' = 0 /\ cancels' = 0)
    <2>1. \A i, j \in Nat : i + j > 0 \/ (i = 0 /\ j = 0)
      OBVIOUS
    <2> QED
      BY <1>1, <2>1
  <1>3. ASSUME serialised, faults' = 0, cancels' = 0, ~measured
        PROVE  Contract!ContractNext \/ UNCHANGED Contract!contractVars
    <2>1. Calm /\ Calm'
      BY <1>3, CancelsKept DEF Calm, ImplInv, LocalInv
    <2> QED
      BY <1>3, <2>1, ImplCalm
  <1> QED
    BY <1>2, <1>3

(***************************************************************************)
(* With callers that serialise their calls, the local backend implements   *)
(* the contract of Storage until a call fails, but for the size of a       *)
(* directory.                                                              *)
(***************************************************************************)
THEOREM LocalImplements == Spec => ImplementsContract
  <1>1. Init => ImplInv /\ Contract!ContractInit
    BY ImplInit
  <1>2. ImplInv /\ [Next]_vars => ImplInv'
    <2>1. LocalInv /\ [Next]_vars => LocalInv'
      BY LocalNext
    <2> QED
      BY <2>1, StreamingNext DEF ImplInv
  <1>3. ImplInv => HeldKnown
    BY HeldIs DEF ImplInv
  <1>4. ImplInv /\ HeldKnown /\ ImplInv' /\ HeldKnown' /\ [Next]_vars
          => [\/ Contract!ContractNext
              \/ ~serialised
              \/ faults' + cancels' > 0
              \/ \E c \in Clients : SizeOfDirectory(c) /\ pc'[c] = "reply"]_(Contract!contractVars)
    BY ImplStep
  <1> QED
    BY <1>1, <1>2, <1>3, <1>4, PTL DEF Spec, ImplementsContract

=============================================================================
