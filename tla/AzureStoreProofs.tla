--------------------------- MODULE AzureStoreProofs ---------------------------
(***************************************************************************)
(* Proofs about AzureStore, for any number of clients, names, contents,    *)
(* calls and faults: which blocks a commit finds, why the parts of a       *)
(* download belong together, and that the backend implements the contract  *)
(* of Storage.                                                             *)
(***************************************************************************)
EXTENDS AzureStore, SequenceTheorems, TLAPS

-----------------------------------------------------------------------------
(* Types.  TypeOK is inductive once it says which operation a label        *)
(* belongs to, that save has sent no more chunks than its content has, for *)
(* what it stages are chunks of the content, and what an etag says.        *)

Progress ==
    \A c \in Clients :
        /\ pc[c] = "stage" => call[c].op = "save"
        /\ pc[c] = "stream" => call[c].op = "open"
        /\ pc[c] = "start" => total[c] = 0
        /\ total[c] <= Len(call[c].content)

TypeInv == TypeOK /\ Progress

(***************************************************************************)
(* An etag is the number of a call, and a call makes one version at most:  *)
(* while it still may, nothing bears its number.  So the blob under a      *)
(* stream is the version that the stream has seen if it has its etag.      *)
(***************************************************************************)
Numbered ==
    /\ \A c \in Clients : num[c] <= calls
    /\ \A n \in Names : blob[n] # None => blob[n].etag <= calls
    /\ \A c \in Clients : seen[c] # None => seen[c].etag <= calls

Fresh ==
    \A c \in Clients : pc[c] \in {"start", "stage"} =>
        /\ \A n \in Names : blob[n] # None => blob[n].etag # num[c]
        /\ \A d \in Clients : seen[d] # None => seen[d].etag # num[c]
        /\ \A d \in Clients : d # c => num[d] # num[c]

SameEtag == \A c \in Clients : pc[c] = "stream" /\ SameVersion(c) => Blob(c) = seen[c]

EtagInv == Numbered /\ Fresh /\ SameEtag

(***************************************************************************)
(* What a caller can pass to the operations.                               *)
(***************************************************************************)
LEMMA CallFacts ==
    ASSUME NEW k \in CallSet
    PROVE  /\ k.op \in {"save", "delete", "open", "size", "exists"}
           /\ k.name \in Names
           /\ k.content \in Seq(Chunks)
           /\ Len(k.content) \in Nat
           /\ k.op = "save" => k.content \in Contents
           /\ k.op # "save" => k.content = <<>>
           /\ k = [op |-> k.op, name |-> k.name, content |-> k.content]
  <1>1. <<>> \in Seq(Chunks)
    OBVIOUS
  <1>2. CASE k \in [op : {"delete", "open", "size", "exists"}, name : Names, content : {<<>>}]
    BY <1>1, <1>2
  <1>3. CASE k \in [op : {"save"}, name : Names, content : Contents]
    BY <1>3, AzureAssumption
  <1> QED
    BY <1>2, <1>3 DEF CallSet

(***************************************************************************)
(* The variables of a client, typed.                                       *)
(***************************************************************************)
LEMMA ClientFacts ==
    ASSUME TypeInv, NEW c \in Clients
    PROVE  /\ call[c] \in CallSet /\ call[c].name \in Names
           /\ call[c].op \in {"save", "delete", "open", "size", "exists"}
           /\ call[c].content \in Seq(Chunks) /\ Len(call[c].content) \in Nat
           /\ total[c] \in 0 .. Len(call[c].content)
           /\ Blob(c) \in Versions \union {None}
           /\ num[c] \in Nat /\ got[c] \in Seq(Chunks)
           /\ pc \in [Clients -> {"idle", "start", "stage", "stream", "reply"}]
           /\ answer \in [Clients -> AnswerSet]
  BY CallFacts DEF TypeInv, TypeOK, Progress, Blob

(***************************************************************************)
(* A version is made of its three fields.                                  *)
(***************************************************************************)
LEMMA VersionFacts ==
    ASSUME NEW v \in Versions
    PROVE  /\ v.etag \in Nat /\ v.content \in Seq(Chunks) /\ Len(v.content) \in Nat
           /\ v # None /\ v.content # None
  BY AzureAssumption DEF Versions

(***************************************************************************)
(* A reply that is typed keeps the answers typed.                          *)
(***************************************************************************)
LEMMA AnswerTyped ==
    ASSUME TypeInv, NEW c \in Clients, NEW reply, answer' = [answer EXCEPT ![c] = reply],
           reply \in AnswerSet
    PROVE  answer' \in [Clients -> AnswerSet]
  BY DEF TypeInv, TypeOK

(***************************************************************************)
(* The replies without content or size.                                    *)
(***************************************************************************)
LEMMA PlainTyped ==
    ASSUME NEW k \in {"none", "deleted", "present", "absent", "notfound"} \union Errors
    PROVE  Plain(k) \in AnswerSet
  <1>1. <<>> \in Seq(Chunks)
    OBVIOUS
  <1> QED
    BY <1>1 DEF Plain, AnswerSet

(***************************************************************************)
(* Every error that a caller can get.                                      *)
(***************************************************************************)
LEMMA ErrorKinds ==
    ASSUME NEW c, NEW cause \in Causes
    PROVE  Translated(c, cause) \in Errors
  <1>1. CASE cause = "caller"
    BY <1>1 DEF Translated, Errors
  <1>2. CASE cause # "caller" /\ pc[c] = "stream"
    BY <1>2 DEF Translated, Errors
  <1>3. CASE cause # "caller" /\ pc[c] # "stream"
    BY <1>3 DEF Translated, Errors, Causes
  <1> QED
    BY <1>1, <1>2, <1>3

(***************************************************************************)
(* The block that a commit finds is a chunk.                               *)
(***************************************************************************)
LEMMA BlockTyped ==
    ASSUME TypeInv, NEW c \in Clients, \A i \in 1 .. total[c] : Found(c, i)
    PROVE  /\ [i \in 1 .. total[c] |-> Block(c, i)] \in Seq(Chunks)
           /\ Len([i \in 1 .. total[c] |-> Block(c, i)]) = total[c]
  <1>1. total[c] \in Nat
    BY DEF TypeInv, TypeOK
  <1>2. ASSUME NEW i \in 1 .. total[c]
        PROVE  Block(c, i) \in Chunks
    <2>1. CASE Staged(c, i) # {}
      <3>1. (CHOOSE b \in Staged(c, i) : TRUE) \in [at : Nat, chunk : Chunks]
        BY <2>1, ClientFacts DEF Staged, TypeInv, TypeOK
      <3> QED
        BY <2>1, <3>1 DEF Block
    <2>2. CASE Staged(c, i) = {}
      <3>1. Found(c, i)
        BY <1>2
      <3>2. Blob(c) \in Versions /\ i <= Len(Blob(c).content)
        BY <2>2, <3>1, ClientFacts DEF Found
      <3>3. Blob(c).content[i] \in Chunks
        BY <1>1, <1>2, <3>2, VersionFacts, ElementOfSeq
      <3> QED
        BY <2>2, <3>3 DEF Block
    <2> QED
      BY <2>1, <2>2
  <1>3. [i \in 1 .. total[c] |-> Block(c, i)] \in [1 .. total[c] -> Chunks]
    BY <1>2
  <1> QED
    BY <1>1, <1>3, SeqDef

-----------------------------------------------------------------------------
(* Every step keeps the types.                                             *)

(***************************************************************************)
(* The initial states are typed.                                           *)
(***************************************************************************)
LEMMA TypeInit == Init => TypeInv
  <1> SUFFICES ASSUME Init PROVE TypeInv
    OBVIOUS
  <1>1. PICK n \in Names : call = [c \in Clients |-> [op |-> "exists", name |-> n, content |-> <<>>]]
    BY DEF Init
  <1>2. call \in [Clients -> CallSet] /\ \A c \in Clients : call[c].content = <<>>
    BY <1>1 DEF CallSet
  <1>3. <<>> \in Seq(Chunks) /\ Len(<<>>) = 0
    OBVIOUS
  <1>4. Plain("none") \in AnswerSet
    BY PlainTyped
  <1>5. answer \in [Clients -> AnswerSet]
    BY <1>4 DEF Init
  <1> QED
    BY <1>2, <1>3, <1>5 DEF Init, TypeInv, TypeOK, Progress

(***************************************************************************)
(* The steps of save.                                                      *)
(***************************************************************************)
LEMMA TypeReplace ==
    ASSUME TypeInv, NEW c \in Clients, NEW x \in Seq(Chunks), NEW b \in BOOLEAN, Replace(c, x, b),
           Reply(c, Saved(Len(x))), UNCHANGED <<locals, budget>>
    PROVE  TypeInv'
  <1>1. [etag |-> num[c], content |-> x, blocks |-> b] \in Versions
    BY ClientFacts DEF Versions
  <1>2. /\ blob' \in [Names -> Versions \union {None}]
        /\ staged' \in [Names -> SUBSET [at : Nat, chunk : Chunks]]
    BY <1>1 DEF Replace, TypeInv, TypeOK
  <1>3. Saved(Len(x)) \in AnswerSet
    <2>1. <<>> \in Seq(Chunks) /\ Len(x) \in Nat
      OBVIOUS
    <2> QED
      BY <2>1 DEF Saved, AnswerSet
  <1>4. answer' \in [Clients -> AnswerSet]
    BY <1>3, AnswerTyped DEF Reply
  <1> QED
    BY <1>2, <1>4 DEF Reply, Go, locals, budget, TypeInv, TypeOK, Progress

(***************************************************************************)
(* A step that only ends a call with an error.                             *)
(***************************************************************************)
LEMMA TypeRaise ==
    ASSUME TypeInv, NEW c \in Clients, NEW k \in Errors, Raise(c, k),
           UNCHANGED <<service, locals, calls>>, faults' \in Nat
    PROVE  TypeInv'
  <1>1. answer' \in [Clients -> AnswerSet]
    BY PlainTyped, AnswerTyped DEF Raise
  <1> QED
    BY <1>1 DEF Raise, Go, service, locals, TypeInv, TypeOK, Progress

(***************************************************************************)
(* A step that only replies.                                               *)
(***************************************************************************)
LEMMA TypeReply ==
    ASSUME TypeInv, NEW c \in Clients, NEW reply \in AnswerSet, Reply(c, reply),
           UNCHANGED <<service, locals, budget>>
    PROVE  TypeInv'
  <1>1. answer' \in [Clients -> AnswerSet]
    BY AnswerTyped DEF Reply
  <1> QED
    BY <1>1 DEF Reply, Go, service, locals, budget, TypeInv, TypeOK, Progress

(***************************************************************************)
(* save keeps the types.                                                   *)
(***************************************************************************)
LEMMA TypeSave ==
    ASSUME TypeInv, NEW c \in Clients, Save(c)
    PROVE  TypeInv'
  <1>1. CASE PutBlob(c)
    BY <1>1, TypeReplace, ClientFacts DEF PutBlob
  <1>2. CASE BeginUpload(c)
    BY <1>2 DEF Save, BeginUpload, Go, service, locals, budget, TypeInv, TypeOK, Progress
  <1>3. CASE StageBlock(c)
    <2> DEFINE i == total[c] + 1
               n == call[c].name
               block == [at |-> i, chunk |-> call[c].content[i]]
    <2>1. /\ total' = [total EXCEPT ![c] = i] /\ i \in 1 .. Len(call[c].content) /\ n \in Names
          /\ staged' = [staged EXCEPT ![n] = {b \in staged[n] : b.at # i} \union {block}]
      BY <1>3, ClientFacts DEF StageBlock
    <2>2. block \in [at : Nat, chunk : Chunks]
      BY <2>1, ClientFacts, ElementOfSeq
    <2>3. staged' \in [Names -> SUBSET [at : Nat, chunk : Chunks]]
      BY <2>1, <2>2 DEF TypeInv, TypeOK
    <2>4. total' \in [Clients -> Nat] /\ Progress'
      BY <1>3, <2>1, ClientFacts DEF StageBlock, TypeInv, TypeOK, Progress
    <2> QED
      BY <1>3, <2>3, <2>4 DEF StageBlock, budget, TypeInv, TypeOK
  <1>4. CASE CommitBlocks(c)
    <2>1. CASE \A i \in 1 .. total[c] : Found(c, i)
      BY <1>4, <2>1, BlockTyped, TypeReplace DEF CommitBlocks
    <2>2. CASE ~\A i \in 1 .. total[c] : Found(c, i)
      <3>1. Raise(c, "sdk") /\ UNCHANGED <<service, locals, calls>> /\ faults' \in Nat
        BY <1>4, <2>2 DEF CommitBlocks, budget, TypeInv, TypeOK
      <3> QED
        BY <3>1, TypeRaise DEF Errors
    <2> QED
      BY <2>1, <2>2
  <1> QED
    BY <1>1, <1>2, <1>3, <1>4 DEF Save

(***************************************************************************)
(* delete keeps them.                                                      *)
(***************************************************************************)
LEMMA TypeDelete ==
    ASSUME TypeInv, NEW c \in Clients, Delete(c)
    PROVE  TypeInv'
  <1>1. /\ blob' \in [Names -> Versions \union {None}]
        /\ staged' \in [Names -> SUBSET [at : Nat, chunk : Chunks]]
    BY DEF Delete, TypeInv, TypeOK
  <1>2. answer' \in [Clients -> AnswerSet]
    BY PlainTyped, AnswerTyped DEF Delete, Reply
  <1> QED
    BY <1>1, <1>2 DEF Delete, Reply, Go, locals, budget, TypeInv, TypeOK, Progress

(***************************************************************************)
(* open keeps them: what it yields are chunks of the version it has seen.  *)
(***************************************************************************)
LEMMA TypeOpen ==
    ASSUME TypeInv, EtagInv, NEW c \in Clients, Open(c)
    PROVE  TypeInv'
  <1>1. CASE Download(c)
    <2>1. CASE Blob(c) = None
      <3>1. Reply(c, Plain("notfound")) /\ UNCHANGED <<service, locals, budget>>
        BY <1>1, <2>1 DEF Download, locals
      <3> QED
        BY <3>1, PlainTyped, TypeReply
    <2>2. CASE Blob(c) # None
      <3>1. Blob(c) \in Versions
        BY <2>2, ClientFacts
      <3>2. \A k \in 0 .. Len(Blob(c).content) : SubSeq(Blob(c).content, 1, k) \in Seq(Chunks)
        <4> SUFFICES ASSUME NEW k \in 0 .. Len(Blob(c).content)
                     PROVE  SubSeq(Blob(c).content, 1, k) \in Seq(Chunks)
          OBVIOUS
        <4>1. k \in Int /\ \A i \in 1 .. k : i \in 1 .. Len(Blob(c).content)
          BY <3>1, VersionFacts
        <4>2. \A i \in 1 .. k : Blob(c).content[i] \in Chunks
          BY <3>1, <4>1, VersionFacts, ElementOfSeq
        <4> QED
          BY <4>1, <4>2, SubSeqProperties
      <3>3. got' \in [Clients -> Seq(Chunks)]
        <4>1. PICK k \in 0 .. Len(Blob(c).content) :
                 got' = [got EXCEPT ![c] = SubSeq(Blob(c).content, 1, k)]
          BY <1>1, <2>2 DEF Download
        <4>2. got \in [Clients -> Seq(Chunks)]
          BY DEF TypeInv, TypeOK
        <4> QED
          BY <3>2, <4>1, <4>2
      <3> QED
        BY <1>1, <2>2, <3>1, <3>3
           DEF Open, Download, Go, service, budget, TypeInv, TypeOK, Progress
    <2> QED
      BY <2>1, <2>2
  <1>2. CASE NextRange(c)
    <2> DEFINE k == Len(got[c]) + 1
    <2>1. seen[c] \in Versions /\ got[c] \in Seq(Chunks) /\ Blob(c) = seen[c]
      BY <1>2, ClientFacts DEF NextRange, EtagInv, SameEtag, TypeInv, TypeOK
    <2>2. k \in 1 .. Len(Blob(c).content)
      BY <1>2, <2>1, VersionFacts DEF NextRange
    <2>3. Blob(c).content[k] \in Chunks
      BY <2>1, <2>2, VersionFacts, ElementOfSeq
    <2>4. got' \in [Clients -> Seq(Chunks)]
      BY <1>2, <2>1, <2>3 DEF NextRange, TypeInv, TypeOK
    <2> QED
      BY <1>2, <2>4 DEF NextRange, service, budget, TypeInv, TypeOK, Progress
  <1>3. CASE RangeChanged(c)
    <2>1. Raise(c, "sdk") /\ UNCHANGED <<service, locals, calls>> /\ faults' \in Nat
      BY <1>3 DEF RangeChanged, budget, TypeInv, TypeOK
    <2> QED
      BY <2>1, TypeRaise DEF Errors
  <1>4. CASE EndOfBlob(c)
    <2>1. [kind |-> "content", size |-> 0, content |-> got[c]] \in AnswerSet
      BY ClientFacts DEF AnswerSet
    <2> QED
      BY <1>4, <2>1, TypeReply DEF EndOfBlob
  <1> QED
    BY <1>1, <1>2, <1>3, <1>4 DEF Open

(***************************************************************************)
(* exists and size keep them.                                              *)
(***************************************************************************)
LEMMA TypeAsk ==
    ASSUME TypeInv, NEW c \in Clients, Exists(c) \/ Size(c)
    PROVE  TypeInv'
  <1>1. CASE Exists(c)
    BY <1>1, PlainTyped, TypeReply DEF Exists
  <1>2. CASE Size(c)
    <2> DEFINE reply == IF Blob(c) = None
                        THEN Plain("notfound")
                        ELSE [kind |-> "size", size |-> Len(Blob(c).content), content |-> <<>>]
    <2>1. CASE Blob(c) = None
      BY <1>2, <2>1, PlainTyped, TypeReply DEF Size
    <2>2. CASE Blob(c) # None
      <3>1. Len(Blob(c).content) \in Nat /\ <<>> \in Seq(Chunks)
        BY <2>2, ClientFacts, VersionFacts
      <3>2. [kind |-> "size", size |-> Len(Blob(c).content), content |-> <<>>] \in AnswerSet
        BY <3>1 DEF AnswerSet
      <3> QED
        BY <1>2, <2>2, <3>2, TypeReply DEF Size
    <2> QED
      BY <2>1, <2>2
  <1> QED
    BY <1>1, <1>2

(***************************************************************************)
(* A call begins, returns or fails.                                        *)
(***************************************************************************)
LEMMA TypeAround ==
    ASSUME TypeInv, NEW c \in Clients, Call(c) \/ Return(c) \/ Fault(c)
    PROVE  TypeInv'
  <1>1. CASE Call(c)
    <2>1. PICK k \in CallSet :
             /\ call' = [call EXCEPT ![c] = k]
             /\ alone' = [d \in Clients |-> CASE d = c -> Rivals(c, k) = {}
                                             [] d \in Rivals(c, k) -> FALSE
                                             [] OTHER -> alone[d]]
      BY <1>1 DEF Call
    <2>2. alone' \in [Clients -> BOOLEAN]
      <3>1. c \notin Rivals(c, k)
        BY DEF Rivals
      <3>2. \A d \in Clients : (CASE d = c -> Rivals(c, k) = {}
                                 [] d \in Rivals(c, k) -> FALSE
                                 [] OTHER -> alone[d]) \in BOOLEAN
        BY <3>1 DEF TypeInv, TypeOK
      <3> QED
        BY <2>1, <3>2
    <2>3. call' \in [Clients -> CallSet]
      BY <2>1 DEF TypeInv, TypeOK
    <2>4. answer' \in [Clients -> AnswerSet]
      BY <1>1, PlainTyped, AnswerTyped DEF Call
    <2>5. calls' \in Nat /\ num' \in [Clients -> Nat]
      BY <1>1 DEF Call, TypeInv, TypeOK
    <2>6. got' \in [Clients -> Seq(Chunks)]
      <3>1. <<>> \in Seq(Chunks)
        OBVIOUS
      <3> QED
        BY <1>1, <3>1 DEF Call, TypeInv, TypeOK
    <2>7. TypeOK'
      BY <1>1, <2>2, <2>3, <2>4, <2>5, <2>6 DEF Call, Go, service, TypeInv, TypeOK
    <2>8. Progress'
      BY <1>1, <2>1, CallFacts DEF Call, Go, TypeInv, TypeOK, Progress
    <2> QED
      BY <2>7, <2>8 DEF TypeInv
  <1>2. CASE Return(c)
    BY <1>2 DEF Return, Go, service, locals, budget, TypeInv, TypeOK, Progress
  <1>3. CASE Fault(c)
    <2>1. PICK cause \in Causes : Raise(c, Translated(c, cause))
      BY <1>3 DEF Fault
    <2>2. faults' \in Nat /\ UNCHANGED <<service, locals, calls>>
      BY <1>3 DEF Fault, TypeInv, TypeOK
    <2> QED
      BY <2>1, <2>2, ErrorKinds, TypeRaise
  <1> QED
    BY <1>1, <1>2, <1>3

(***************************************************************************)
(* So every step keeps the types.                                          *)
(***************************************************************************)
LEMMA TypeNext == TypeInv /\ EtagInv /\ [Next]_vars => TypeInv'
  <1> SUFFICES ASSUME TypeInv, EtagInv, [Next]_vars PROVE TypeInv'
    OBVIOUS
  <1>1. CASE UNCHANGED vars
    BY <1>1 DEF vars, service, locals, budget, TypeInv, TypeOK, Progress
  <1> QED
    BY <1>1, TypeSave, TypeDelete, TypeOpen, TypeAsk, TypeAround DEF Next, Run, Finished

-----------------------------------------------------------------------------
(* Every step keeps what is known of etags.                                *)

(***************************************************************************)
(* A step that makes no version keeps it: streams see the versions there   *)
(* are, and no call gets a number.                                         *)
(***************************************************************************)
LEMMA EtagKept ==
    ASSUME TypeInv, EtagInv, UNCHANGED <<num, calls>>,
           \A n \in Names : blob'[n] = blob[n] \/ blob'[n] = None,
           \A d \in Clients : seen'[d] = seen[d] \/ (seen'[d] = blob'[call'[d].name]),
           \A d \in Clients : call'[d].name \in Names,
           \A d \in Clients : pc'[d] \in {"start", "stage"} => pc[d] \in {"start", "stage"},
           \A d \in Clients : pc'[d] = "stream" /\ seen'[d] = seen[d] =>
              \/ seen'[d] = blob'[call'[d].name]
              \/ pc[d] = "stream" /\ call'[d] = call[d]
    PROVE  EtagInv'
  <1>1. Numbered'
    <2>1. \A n \in Names : blob'[n] # None => blob'[n].etag <= calls'
      BY DEF EtagInv, Numbered
    <2> QED
      BY <2>1 DEF EtagInv, Numbered
  <1>2. Fresh'
    BY DEF EtagInv, Fresh
  <1>3. SameEtag'
    BY DEF EtagInv, SameEtag, SameVersion, Blob
  <1> QED
    BY <1>1, <1>2, <1>3 DEF EtagInv

(***************************************************************************)
(* A new version bears a number that nothing has had.                      *)
(***************************************************************************)
LEMMA EtagReplace ==
    ASSUME TypeInv, EtagInv, NEW c \in Clients, pc[c] \in {"start", "stage"},
           NEW x, NEW b, Replace(c, x, b), Go(c, "reply"), UNCHANGED <<locals, budget>>
    PROVE  EtagInv'
  <1> DEFINE n == call[c].name
             v == [etag |-> num[c], content |-> x, blocks |-> b]
  <1>1. /\ blob' = [blob EXCEPT ![n] = v] /\ n \in Names /\ v.etag = num[c]
        /\ \A m \in Names : blob'[m] = IF m = n THEN v ELSE blob[m]
        /\ \A d \in Clients : pc'[d] = IF d = c THEN "reply" ELSE pc[d]
        /\ \A d \in Clients : call[d].name \in Names
        /\ UNCHANGED <<num, calls, seen, call>>
    BY ClientFacts DEF Replace, Go, locals, budget, TypeInv, TypeOK
  <1>2. Numbered'
    BY <1>1 DEF EtagInv, Numbered
  <1>3. Fresh'
    BY <1>1 DEF EtagInv, Fresh
  <1>4. ASSUME NEW d \in Clients, pc'[d] = "stream", SameVersion(d)'
        PROVE  Blob(d)' = seen'[d]
    <2>1. /\ pc[d] = "stream" /\ seen[d] # None /\ seen[d].etag # num[c]
          /\ blob'[call[d].name].etag = seen[d].etag /\ blob'[call[d].name] # None
      BY <1>1, <1>4, VersionFacts
         DEF EtagInv, Fresh, SameVersion, Blob, TypeInv, TypeOK
    <2>2. call[d].name # n
      BY <1>1, <2>1
    <2> QED
      BY <1>1, <2>1, <2>2 DEF EtagInv, SameEtag, SameVersion, Blob
  <1> QED
    BY <1>2, <1>3, <1>4 DEF EtagInv, SameEtag

(***************************************************************************)
(* A call that begins gets a number above all others.                      *)
(***************************************************************************)
LEMMA EtagCall ==
    ASSUME TypeInv, EtagInv, NEW c \in Clients, Call(c)
    PROVE  EtagInv'
  <1>1. /\ calls' = calls + 1 /\ calls \in Nat /\ blob' = blob
        /\ \A d \in Clients : num'[d] = IF d = c THEN calls + 1 ELSE num[d]
        /\ \A d \in Clients : seen'[d] = IF d = c THEN None ELSE seen[d]
        /\ \A d \in Clients : pc'[d] = IF d = c THEN "start" ELSE pc[d]
        /\ \A d \in Clients : d # c => call'[d] = call[d]
        /\ \A d \in Clients : num[d] \in Nat
    BY DEF Call, Go, service, TypeInv, TypeOK
  <1>2. /\ \A n \in Names : blob[n] # None => blob[n].etag \in Nat
        /\ \A d \in Clients : seen[d] # None => seen[d].etag \in Nat
    BY VersionFacts DEF TypeInv, TypeOK
  <1>3. Numbered'
    BY <1>1, <1>2 DEF EtagInv, Numbered
  <1>4. Fresh'
    BY <1>1, <1>2 DEF EtagInv, Numbered, Fresh
  <1>5. SameEtag'
    BY <1>1 DEF EtagInv, SameEtag, SameVersion, Blob
  <1> QED
    BY <1>3, <1>4, <1>5 DEF EtagInv

(***************************************************************************)
(* So every step keeps it.                                                 *)
(***************************************************************************)
LEMMA EtagNext == TypeInv /\ TypeInv' /\ EtagInv /\ [Next]_vars => EtagInv'
  <1> SUFFICES ASSUME TypeInv, TypeInv', EtagInv, [Next]_vars PROVE EtagInv'
    OBVIOUS
  <1>0. \A d \in Clients : call[d].name \in Names /\ call'[d].name \in Names
    BY CallFacts DEF TypeInv, TypeOK
  <1>1. CASE UNCHANGED vars
    BY <1>0, <1>1, EtagKept DEF vars, service, locals, budget
  <1>2. ASSUME NEW c \in Clients, Save(c)
        PROVE  EtagInv'
    <2>1. CASE PutBlob(c)
      BY <2>1, EtagReplace DEF PutBlob, Reply
    <2>2. CASE BeginUpload(c) \/ StageBlock(c)
      BY <1>0, <2>2, EtagKept DEF BeginUpload, StageBlock, Go, service, locals, budget, TypeInv, TypeOK
    <2>3. CASE CommitBlocks(c)
      <3>1. CASE \A i \in 1 .. total[c] : Found(c, i)
        BY <2>3, <3>1, EtagReplace DEF CommitBlocks, Reply
      <3>2. CASE ~\A i \in 1 .. total[c] : Found(c, i)
        BY <1>0, <2>3, <3>2, EtagKept
           DEF CommitBlocks, Raise, Go, service, locals, budget, TypeInv, TypeOK
      <3> QED
        BY <3>1, <3>2
    <2> QED
      BY <1>2, <2>1, <2>2, <2>3 DEF Save
  <1>3. ASSUME NEW c \in Clients, Delete(c)
        PROVE  EtagInv'
    <2>1. \A n \in Names : blob'[n] = blob[n] \/ blob'[n] = None
      BY <1>3 DEF Delete, TypeInv, TypeOK
    <2> QED
      BY <1>0, <1>3, <2>1, EtagKept DEF Delete, Reply, Go, locals, budget, TypeInv, TypeOK
  <1>4. ASSUME NEW c \in Clients, Open(c)
        PROVE  EtagInv'
    <2>1. CASE Download(c)
      BY <1>0, <2>1, EtagKept DEF Download, Reply, Go, Blob, service, budget, TypeInv, TypeOK
    <2>2. CASE NextRange(c) \/ RangeChanged(c) \/ EndOfBlob(c)
      BY <1>0, <2>2, EtagKept
         DEF NextRange, RangeChanged, EndOfBlob, Raise, Reply, Go, service, locals, budget,
             TypeInv, TypeOK
    <2> QED
      BY <1>4, <2>1, <2>2 DEF Open
  <1>5. ASSUME NEW c \in Clients, Exists(c) \/ Size(c) \/ Return(c) \/ Fault(c)
        PROVE  EtagInv'
    BY <1>0, <1>5, EtagKept
       DEF Exists, Size, Return, Fault, Raise, Reply, Go, service, locals, budget, TypeInv, TypeOK
  <1> QED
    BY <1>1, <1>2, <1>3, <1>4, <1>5, EtagCall DEF Next, Run, Finished

-----------------------------------------------------------------------------
(* A stream has yielded the beginning of the version it has seen.          *)

BeginningOf(s, x) == Len(s) <= Len(x) /\ s = SubSeq(x, 1, Len(s))

Beginning == \A c \in Clients : pc[c] = "stream" => BeginningOf(got[c], seen[c].content)

(***************************************************************************)
(* The pieces from one to some number of a sequence are its beginning.     *)
(***************************************************************************)
LEMMA BeginningTaken ==
    ASSUME NEW x \in Seq(Chunks), NEW k \in 0 .. Len(x)
    PROVE  SubSeq(x, 1, k) \in Seq(Chunks) /\ BeginningOf(SubSeq(x, 1, k), x)
  <1>1. k \in Int /\ Len(x) \in Nat /\ \A i \in 1 .. k : i \in 1 .. Len(x)
    OBVIOUS
  <1>2. \A i \in 1 .. k : x[i] \in Chunks
    BY <1>1, ElementOfSeq
  <1>3. SubSeq(x, 1, k) \in Seq(Chunks) /\ Len(SubSeq(x, 1, k)) = IF 1 <= k THEN k - 1 + 1 ELSE 0
    BY <1>1, <1>2, SubSeqProperties
  <1>4. Len(SubSeq(x, 1, k)) = k
    BY <1>1, <1>3
  <1> QED
    BY <1>1, <1>3, <1>4 DEF BeginningOf

(***************************************************************************)
(* The next piece makes a beginning longer.                                *)
(***************************************************************************)
LEMMA BeginningLonger ==
    ASSUME NEW s \in Seq(Chunks), NEW x \in Seq(Chunks), BeginningOf(s, x), Len(s) < Len(x)
    PROVE  BeginningOf(Append(s, x[Len(s) + 1]), x)
  <1> DEFINE k == Len(s)
             e == x[k + 1]
             t == SubSeq(x, 1, k + 1)
  <1>1. k \in Nat /\ Len(x) \in Nat /\ k + 1 \in 1 .. Len(x) /\ k \in 0 .. Len(x)
    OBVIOUS
  <1>2. e \in Chunks /\ \A j \in 1 .. k + 1 : x[j] \in Chunks
    BY <1>1, ElementOfSeq
  <1>3. t \in Seq(Chunks) /\ Len(t) = k + 1 /\ \A j \in 1 .. k + 1 : t[j] = x[j]
    BY <1>1, <1>2, SubSeqProperties
  <1>4. \A j \in 1 .. k : s[j] = x[j]
    BY <1>1, <1>2, SubSeqProperties DEF BeginningOf
  <1>5. /\ Append(s, e) \in Seq(Chunks) /\ Len(Append(s, e)) = k + 1
        /\ Append(s, e)[k + 1] = e
        /\ \A j \in 1 .. k : Append(s, e)[j] = s[j]
    BY <1>1, <1>2, AppendProperties
  <1>6. \A j \in 1 .. k + 1 : j \in 1 .. k \/ j = k + 1
    BY <1>1
  <1>7. Append(s, e) = t
    BY <1>1, <1>3, <1>4, <1>5, <1>6, SeqEqual
  <1> QED
    BY <1>1, <1>5, <1>7 DEF BeginningOf

(***************************************************************************)
(* So every step keeps it.                                                 *)
(***************************************************************************)
LEMMA BeginningNext == TypeInv /\ EtagInv /\ Beginning /\ [Next]_vars => Beginning'
  <1> SUFFICES ASSUME TypeInv, EtagInv, Beginning, [Next]_vars PROVE Beginning'
    OBVIOUS
  <1>1. ASSUME \A d \in Clients : pc'[d] = "stream" =>
                  pc[d] = "stream" /\ got'[d] = got[d] /\ seen'[d] = seen[d]
        PROVE  Beginning'
    BY <1>1 DEF Beginning, BeginningOf
  <1>2. CASE UNCHANGED vars
    BY <1>1, <1>2 DEF vars, locals
  <1>3. ASSUME NEW c \in Clients, Download(c)
        PROVE  Beginning'
    <2>1. \A d \in Clients : d # c => UNCHANGED <<pc[d], got[d], seen[d]>>
      BY <1>3 DEF Download, Reply, Go, TypeInv, TypeOK
    <2>2. CASE Blob(c) = None
      BY <1>1, <1>3, <2>1, <2>2 DEF Download, Reply, Go, TypeInv, TypeOK
    <2>3. CASE Blob(c) # None
      <3>1. Blob(c) \in Versions /\ seen'[c] = Blob(c)
        BY <1>3, <2>3, ClientFacts DEF Download, TypeInv, TypeOK
      <3>2. \E k \in 0 .. Len(Blob(c).content) : got'[c] = SubSeq(Blob(c).content, 1, k)
        BY <1>3, <2>3 DEF Download, TypeInv, TypeOK
      <3>3. BeginningOf(got'[c], seen'[c].content)
        BY <3>1, <3>2, VersionFacts, BeginningTaken
      <3> QED
        BY <2>1, <3>3 DEF Beginning
    <2> QED
      BY <2>2, <2>3
  <1>4. ASSUME NEW c \in Clients, NextRange(c)
        PROVE  Beginning'
    <2>1. seen[c] \in Versions /\ got[c] \in Seq(Chunks) /\ Blob(c) = seen[c] /\ pc[c] = "stream"
      BY <1>4, ClientFacts DEF NextRange, EtagInv, SameEtag, TypeInv, TypeOK
    <2>2. /\ Len(got[c]) < Len(seen[c].content)
          /\ got'[c] = Append(got[c], seen[c].content[Len(got[c]) + 1])
      BY <1>4, <2>1 DEF NextRange, TypeInv, TypeOK
    <2>3. BeginningOf(got'[c], seen[c].content)
      BY <2>1, <2>2, VersionFacts, BeginningLonger DEF Beginning
    <2>4. UNCHANGED <<pc, seen>> /\ \A d \in Clients : d # c => got'[d] = got[d]
      BY <1>4 DEF NextRange, TypeInv, TypeOK
    <2> QED
      BY <2>3, <2>4 DEF Beginning
  <1>5. ASSUME NEW c \in Clients, RangeChanged(c) \/ EndOfBlob(c) \/ Save(c) \/ Delete(c)
                                   \/ Exists(c) \/ Size(c) \/ Return(c) \/ Fault(c) \/ Call(c)
        PROVE  Beginning'
    <2>1. \A d \in Clients : pc'[d] = "stream" =>
             pc[d] = "stream" /\ got'[d] = got[d] /\ seen'[d] = seen[d]
      BY <1>5 DEF RangeChanged, EndOfBlob, Save, PutBlob, BeginUpload, StageBlock, CommitBlocks,
                  Delete, Exists, Size, Return, Fault, Call, Raise, Reply, Go, locals, TypeInv, TypeOK
    <2> QED
      BY <1>1, <2>1
  <1> QED
    BY <1>2, <1>3, <1>4, <1>5 DEF Next, Run, Open, Finished

-----------------------------------------------------------------------------
(* Of calls that nothing overlaps, and the blocks they have staged.        *)

Apart ==
    \A c, d \in Clients :
        c # d /\ alone[c] /\ pc[c] # "idle" /\ pc[d] # "idle" /\ call[c].name = call[d].name
            => ~Changes(call[c]) \/ ~Changes(call[d])

(***************************************************************************)
(* A call that begins beside others makes them no longer alone, nor is it. *)
(***************************************************************************)
LEMMA ApartNext == TypeInv /\ Apart /\ [Next]_vars => Apart'
  <1> SUFFICES ASSUME TypeInv, Apart, [Next]_vars PROVE Apart'
    OBVIOUS
  <1>1. ASSUME UNCHANGED <<call, alone>>, \A d \in Clients : pc'[d] # "idle" => pc[d] # "idle"
        PROVE  Apart'
    BY <1>1 DEF Apart, Changes
  <1>2. CASE UNCHANGED vars
    BY <1>1, <1>2 DEF vars, locals
  <1>3. ASSUME NEW c \in Clients, Call(c)
        PROVE  Apart'
    <2>1. PICK k \in CallSet :
             /\ call' = [call EXCEPT ![c] = k]
             /\ alone' = [d \in Clients |-> CASE d = c -> Rivals(c, k) = {}
                                             [] d \in Rivals(c, k) -> FALSE
                                             [] OTHER -> alone[d]]
      BY <1>3 DEF Call
    <2>2. /\ call'[c] = k /\ \A d \in Clients : d # c => UNCHANGED <<call[d], pc[d]>>
      BY <1>3, <2>1 DEF Call, Go, TypeInv, TypeOK
    <2>3. alone'[c] = (Rivals(c, k) = {})
      BY <2>1
    <2>4. \A d \in Clients : d # c => alone'[d] = (d \notin Rivals(c, k) /\ alone[d])
      <3> SUFFICES ASSUME NEW d \in Clients, d # c
                   PROVE  alone'[d] = (d \notin Rivals(c, k) /\ alone[d])
        OBVIOUS
      <3>1. alone[d] \in BOOLEAN
        BY DEF TypeInv, TypeOK
      <3>2. CASE d \in Rivals(c, k)
        BY <2>1, <3>2
      <3>3. CASE d \notin Rivals(c, k)
        BY <2>1, <3>1, <3>3
      <3> QED
        BY <3>2, <3>3
    <2>5. ASSUME NEW d \in Clients, d # c, pc[d] # "idle", k.name = call[d].name,
                 Changes(k), Changes(call[d])
          PROVE  d \in Rivals(c, k)
      BY <2>5 DEF Rivals
    <2> SUFFICES ASSUME NEW d \in Clients, NEW e \in Clients, d # e, alone'[d],
                        pc'[d] # "idle", pc'[e] # "idle", call'[d].name = call'[e].name,
                        Changes(call[d])', Changes(call[e])'
                 PROVE  FALSE
      BY DEF Apart
    <2>6. CASE d = c
      BY <2>2, <2>3, <2>5, <2>6 DEF Changes
    <2>7. CASE e = c
      BY <2>2, <2>4, <2>5, <2>7 DEF Changes
    <2>8. CASE d # c /\ e # c
      BY <2>2, <2>4, <2>8 DEF Apart, Changes
    <2> QED
      BY <2>6, <2>7, <2>8
  <1>4. ASSUME NEW c \in Clients, Run(c) \/ Fault(c)
        PROVE  Apart'
    BY <1>1, <1>4
       DEF Run, Save, PutBlob, BeginUpload, StageBlock, CommitBlocks, Delete, Open, Download,
           NextRange, RangeChanged, EndOfBlob, Exists, Size, Return, Fault, Raise, Reply, Go, locals,
           TypeInv, TypeOK
  <1> QED
    BY <1>2, <1>3, <1>4 DEF Next, Finished

\* The blocks staged for a save are those of its content, each at its place.
StagedOwn(c) == \A i \in 1 .. total[c] : Staged(c, i) = {[at |-> i, chunk |-> call[c].content[i]]}

(***************************************************************************)
(* What a client has staged stays if it stays alone, its call stays, and   *)
(* nobody touches what is staged under its name.                           *)
(***************************************************************************)
LEMMA OwnKept ==
    ASSUME NEW c \in Clients, StagedOwn(c), UNCHANGED <<call[c], total[c], staged[call[c].name]>>
    PROVE  StagedOwn(c)'
  BY DEF StagedOwn, Staged

(***************************************************************************)
(* The block that is staged next is its own, and the others stay.          *)
(***************************************************************************)
LEMMA OwnStage ==
    ASSUME TypeInv, NEW c \in Clients, StagedOwn(c), StageBlock(c)
    PROVE  StagedOwn(c)'
  <1> DEFINE n == call[c].name
             j == total[c] + 1
             block == [at |-> j, chunk |-> call[c].content[j]]
  <1>1. /\ n \in Names /\ total'[c] = j /\ total[c] \in Nat /\ call' = call
        /\ staged'[n] = {b \in staged[n] : b.at # j} \union {block}
    BY ClientFacts DEF StageBlock, TypeInv, TypeOK
  <1> SUFFICES ASSUME NEW i \in 1 .. j
               PROVE  Staged(c, i)' = {[at |-> i, chunk |-> call[c].content[i]]}
    BY <1>1 DEF StagedOwn
  <1>2. Staged(c, i)' = {b \in staged'[n] : b.at = i}
    BY <1>1 DEF Staged
  <1>3. CASE i = j
    BY <1>1, <1>2, <1>3
  <1>4. CASE i # j
    <2>1. i \in 1 .. total[c]
      BY <1>1, <1>4
    <2>2. {b \in staged'[n] : b.at = i} = Staged(c, i)
      BY <1>1, <1>4 DEF Staged
    <2> QED
      BY <1>2, <2>1, <2>2 DEF StagedOwn
  <1> QED
    BY <1>3, <1>4

(***************************************************************************)
(* Who else touches what is staged under a name changes the name, and then *)
(* no save of the name is alone.                                           *)
(***************************************************************************)
LEMMA OwnElsewhere ==
    ASSUME TypeInv, Apart, NEW c \in Clients, pc[c] = "stage", alone[c],
           NEW d \in Clients, d # c, Call(d) \/ Run(d) \/ Fault(d)
    PROVE  staged'[call[c].name] = staged[call[c].name]
  <1>1. /\ call[c].op = "save" /\ call[c].name \in Names
        /\ pc[d] # "idle" /\ Changes(call[d]) => call[d].name # call[c].name
    BY ClientFacts DEF TypeInv, Progress, Apart, Changes
  <1>2. CASE Save(d)
    <2>1. call[d].name # call[c].name
      BY <1>1, <1>2 DEF Save, PutBlob, BeginUpload, StageBlock, CommitBlocks, Changes
    <2> QED
      BY <1>1, <1>2, <2>1
         DEF Save, PutBlob, BeginUpload, StageBlock, CommitBlocks, Replace, service, TypeInv, TypeOK
  <1>3. CASE Delete(d)
    <2>1. call[d].name # call[c].name
      BY <1>1, <1>3 DEF Delete, Changes
    <2> QED
      BY <1>1, <1>3, <2>1 DEF Delete, TypeInv, TypeOK
  <1>4. CASE Open(d) \/ Exists(d) \/ Size(d) \/ Return(d) \/ Call(d) \/ Fault(d)
    BY <1>4 DEF Open, Download, NextRange, RangeChanged, EndOfBlob, Exists, Size, Return, Call, Fault,
                service
  <1> QED
    BY <1>2, <1>3, <1>4 DEF Run

(***************************************************************************)
(* A save that is staging blocks after a step was staging them before, or  *)
(* has just begun; and it is alone only if it was.                         *)
(***************************************************************************)
LEMMA StageBefore ==
    ASSUME TypeInv, Next, NEW c \in Clients, pc'[c] = "stage", alone'[c]
    PROVE  /\ alone[c] /\ call'[c] = call[c]
           /\ \/ BeginUpload(c) /\ pc[c] = "start" /\ total'[c] = 0
              \/ pc[c] = "stage" /\ StageBlock(c)
              \/ pc[c] = "stage" /\ total'[c] = total[c] /\ ~(Call(c) \/ Run(c) \/ Fault(c))
  <1>1. CASE Finished
    <2>1. pc[c] = "idle" /\ pc' = pc
      BY <1>1 DEF Finished, vars
    <2> QED
      BY <2>1
  <1>2. ASSUME Call(c) \/ Fault(c) \/ Delete(c) \/ Open(c) \/ Exists(c) \/ Size(c) \/ Return(c)
               \/ PutBlob(c) \/ CommitBlocks(c)
        PROVE  FALSE
    BY <1>2 DEF Call, Fault, Delete, Open, Download, NextRange, RangeChanged, EndOfBlob, Exists, Size,
                Return, PutBlob, CommitBlocks, Raise, Reply, Go, TypeInv, TypeOK
  <1>3. CASE BeginUpload(c) \/ StageBlock(c)
    BY <1>3 DEF BeginUpload, StageBlock, locals, TypeInv, TypeOK, Progress
  <1>4. ASSUME NEW d \in Clients, d # c, Call(d) \/ Run(d) \/ Fault(d),
               ~(Call(c) \/ Run(c) \/ Fault(c))
        PROVE  /\ alone[c] /\ UNCHANGED <<call[c], pc[c], total[c]>>
    <2>1. UNCHANGED <<call[c], pc[c], total[c]>>
      BY <1>4 DEF Call, Run, Fault, Save, PutBlob, BeginUpload, StageBlock, CommitBlocks, Delete, Open,
                  Download, NextRange, RangeChanged, EndOfBlob, Exists, Size, Return, Raise, Reply, Go,
                  locals, TypeInv, TypeOK
    <2>2. CASE ~Call(d)
      BY <1>4, <2>1, <2>2
         DEF Run, Fault, Save, PutBlob, BeginUpload, StageBlock, CommitBlocks, Delete, Open, Download,
             NextRange, RangeChanged, EndOfBlob, Exists, Size, Return, locals
    <2>3. CASE Call(d)
      <3>1. PICK k \in CallSet :
               alone' = [e \in Clients |-> CASE e = d -> Rivals(d, k) = {}
                                             [] e \in Rivals(d, k) -> FALSE
                                             [] OTHER -> alone[e]]
        BY <2>3 DEF Call
      <3>2. CASE c \in Rivals(d, k)
        <4>1. alone'[c] = FALSE
          BY <1>4, <3>1, <3>2
        <4> QED
          BY <4>1
      <3>3. CASE c \notin Rivals(d, k)
        <4>1. alone'[c] = alone[c]
          BY <1>4, <3>1, <3>3
        <4> QED
          BY <2>1, <4>1
      <3> QED
        BY <3>2, <3>3
    <2> QED
      BY <2>1, <2>2, <2>3
  <1> QED
    BY <1>1, <1>2, <1>3, <1>4 DEF Next, Run, Save

(***************************************************************************)
(* So a save that nothing overlaps keeps the blocks it has staged.         *)
(***************************************************************************)
LEMMA OwnNext == TypeInv /\ Apart /\ OwnBlocks /\ [Next]_vars => OwnBlocks'
  <1> SUFFICES ASSUME TypeInv, Apart, OwnBlocks, [Next]_vars,
                      NEW c \in Clients, pc'[c] = "stage", alone'[c]
               PROVE  StagedOwn(c)'
    BY DEF OwnBlocks, StagedOwn
  <1>1. pc[c] = "stage" /\ alone[c] => StagedOwn(c)
    BY DEF OwnBlocks, StagedOwn
  <1>2. CASE UNCHANGED vars
    BY <1>1, <1>2, OwnKept DEF vars, service, locals
  <1>3. CASE BeginUpload(c) /\ total'[c] = 0
    BY <1>3 DEF StagedOwn
  <1>4. CASE pc[c] = "stage" /\ alone[c] /\ StageBlock(c)
    BY <1>1, <1>4, OwnStage
  <1>5. CASE /\ pc[c] = "stage" /\ alone[c] /\ call'[c] = call[c] /\ total'[c] = total[c]
             /\ Next /\ ~(Call(c) \/ Run(c) \/ Fault(c))
    <2>1. staged'[call[c].name] = staged[call[c].name]
      BY <1>5, OwnElsewhere DEF Next, Finished, vars, service
    <2> QED
      BY <1>1, <1>5, <2>1, OwnKept
  <1> QED
    BY <1>2, <1>3, <1>4, <1>5, StageBefore

-----------------------------------------------------------------------------
(***************************************************************************)
(* All that is known of reachable states, together.                        *)
(***************************************************************************)
AzureInv == TypeInv /\ EtagInv /\ Beginning /\ Apart /\ OwnBlocks

(***************************************************************************)
(* It holds of the initial states.                                         *)
(***************************************************************************)
LEMMA AzureInit == Init => AzureInv
  <1> SUFFICES ASSUME Init PROVE AzureInv
    OBVIOUS
  <1>1. EtagInv
    BY DEF Init, EtagInv, Numbered, Fresh, SameEtag
  <1>2. Beginning /\ Apart /\ OwnBlocks
    BY DEF Init, Beginning, Apart, OwnBlocks
  <1> QED
    BY <1>1, <1>2, TypeInit DEF AzureInv

(***************************************************************************)
(* It is inductive.                                                        *)
(***************************************************************************)
LEMMA AzureNext == AzureInv /\ [Next]_vars => AzureInv'
  BY TypeNext, EtagNext, BeginningNext, ApartNext, OwnNext DEF AzureInv

(***************************************************************************)
(* The invariants of the Azure backend hold of every reachable state.      *)
(***************************************************************************)
THEOREM AzureCorrect == Spec => []AzureInv
  BY AzureInit, AzureNext, PTL DEF Spec

(***************************************************************************)
(* The variables have their types.                                         *)
(***************************************************************************)
THEOREM TypeCorrect == Spec => []TypeOK
  <1>1. AzureInv => TypeOK
    BY DEF AzureInv, TypeInv
  <1> QED
    BY <1>1, AzureCorrect, PTL

(***************************************************************************)
(* A save that nothing overlaps finds the blocks it has sent.              *)
(***************************************************************************)
THEOREM BlocksStayOwn == Spec => []OwnBlocks
  <1>1. AzureInv => OwnBlocks
    BY DEF AzureInv
  <1> QED
    BY <1>1, AzureCorrect, PTL

-----------------------------------------------------------------------------
(* Which errors callers get.                                               *)

(***************************************************************************)
(* A save that nothing overlaps finds every block it commits.              *)
(***************************************************************************)
LEMMA OwnFound ==
    ASSUME NEW c \in Clients, StagedOwn(c), NEW i \in 1 .. total[c]
    PROVE  Found(c, i) /\ Block(c, i) = call[c].content[i]
  <1> DEFINE block == [at |-> i, chunk |-> call[c].content[i]]
  <1>1. Staged(c, i) = {block}
    BY DEF StagedOwn
  <1>2. (CHOOSE b \in Staged(c, i) : TRUE) = block
    BY <1>1
  <1> QED
    BY <1>1, <1>2 DEF Found, Block

(***************************************************************************)
(* The steps after which a client has an error of the SDK that it did not  *)
(* have before.                                                            *)
(***************************************************************************)
LEMMA ErrorCauses ==
    ASSUME AzureInv, Next, NEW c \in Clients, answer[c].kind # "sdk", answer'[c].kind = "sdk"
    PROVE  \/ faults' > faults
           \/ pc[c] = "stream" /\ Blob(c) # seen[c]
           \/ pc[c] = "stage" /\ ~alone[c]
  <1>1. TypeInv /\ answer \in [Clients -> AnswerSet] /\ faults \in Nat
    BY DEF AzureInv, TypeInv, TypeOK
  <1>2. ASSUME NEW d \in Clients, d # c, Call(d) \/ Run(d)
        PROVE  answer'[c] = answer[c]
    BY <1>1, <1>2 DEF Call, Run, Save, PutBlob, BeginUpload, StageBlock, CommitBlocks, Delete, Open,
                      Download, NextRange, RangeChanged, EndOfBlob, Exists, Size, Return, Raise, Reply
  <1>3. ASSUME NEW d \in Clients, Fault(d)
        PROVE  faults' > faults
    BY <1>1, <1>3 DEF Fault
  <1>4. ASSUME NEW reply, Reply(c, reply), reply.kind # "sdk"
        PROVE  FALSE
    BY <1>1, <1>4 DEF Reply
  <1>5. /\ \A k : Plain(k).kind = k
        /\ \A i : Saved(i).kind = "saved"
    BY DEF Plain, Saved
  <1>6. CASE PutBlob(c) \/ Delete(c) \/ Download(c) \/ EndOfBlob(c) \/ Exists(c) \/ Size(c)
    <2>1. CASE PutBlob(c)
      <3>1. Reply(c, Saved(Len(call[c].content)))
        BY <2>1 DEF PutBlob
      <3> QED
        BY <1>4, <1>5, <3>1
    <2>5. CASE Delete(c)
      <3>1. Reply(c, Plain("deleted"))
        BY <2>5 DEF Delete
      <3> QED
        BY <1>4, <1>5, <3>1
    <2>6. CASE Exists(c)
      <3>1. Reply(c, Plain("absent")) \/ Reply(c, Plain("present"))
        BY <2>6 DEF Exists
      <3> QED
        BY <1>4, <1>5, <3>1
    <2>2. CASE Download(c)
      BY <1>4, <1>5, <2>2 DEF Download
    <2>3. CASE EndOfBlob(c)
      <3>1. [kind |-> "content", size |-> 0, content |-> got[c]].kind # "sdk"
        OBVIOUS
      <3> QED
        BY <1>4, <2>3, <3>1 DEF EndOfBlob
    <2>4. CASE Size(c)
      <3>1. [kind |-> "size", size |-> Len(Blob(c).content), content |-> <<>>].kind # "sdk"
        OBVIOUS
      <3> QED
        BY <1>4, <1>5, <2>4, <3>1 DEF Size
    <2> QED
      BY <1>6, <2>1, <2>2, <2>3, <2>4, <2>5, <2>6
  <1>7. CASE BeginUpload(c) \/ StageBlock(c) \/ NextRange(c) \/ Return(c) \/ Finished
    BY <1>7 DEF BeginUpload, StageBlock, NextRange, Return, Finished, vars
  <1>8. CASE Call(c)
    BY <1>1, <1>5, <1>8 DEF Call
  <1>9. CASE RangeChanged(c)
    <2>1. pc[c] = "stream" /\ ~SameVersion(c) /\ seen[c] \in Versions
      BY <1>1, <1>9 DEF RangeChanged, TypeInv, TypeOK
    <2>2. Blob(c) # seen[c]
      BY <2>1, VersionFacts DEF SameVersion
    <2> QED
      BY <2>1, <2>2
  <1>10. CASE CommitBlocks(c)
    <2>1. CASE \A i \in 1 .. total[c] : Found(c, i)
      BY <1>4, <1>5, <1>10, <2>1 DEF CommitBlocks
    <2>2. CASE ~\A i \in 1 .. total[c] : Found(c, i)
      <3>1. pc[c] = "stage" /\ ~StagedOwn(c)
        BY <1>10, <2>2, OwnFound DEF CommitBlocks
      <3> QED
        BY <3>1 DEF AzureInv, OwnBlocks, StagedOwn
    <2> QED
      BY <2>1, <2>2
  <1> QED
    BY <1>2, <1>3, <1>6, <1>7, <1>8, <1>9, <1>10 DEF Next, Run, Save, Open

(***************************************************************************)
(* An error of the SDK reaches a caller for three causes only: a request   *)
(* that fails, a blob replaced under a stream, or the commit of a save     *)
(* that another call has overlapped.                                       *)
(***************************************************************************)
THEOREM ErrorsTranslated == Spec => TranslatedErrors
  <1>1. AzureInv /\ [Next]_vars
          => [\A c \in Clients : answer[c].kind # "sdk" /\ answer'[c].kind = "sdk" =>
                \/ faults' > faults
                \/ pc[c] = "stream" /\ Blob(c) # seen[c]
                \/ pc[c] = "stage" /\ ~alone[c]]_vars
    BY ErrorCauses
  <1> QED
    BY <1>1, AzureCorrect, PTL DEF Spec, TranslatedErrors

-----------------------------------------------------------------------------
(* The backend implements the contract of Storage.  First the forms that   *)
(* a step takes under the refinement mapping.                              *)

Phase(c) ==
    CASE pc[c] = "idle" -> "idle"
      [] pc[c] \in {"stream", "reply"} -> "effective"
      [] OTHER -> "pending"

Held(n) == IF blob[n] = None THEN None ELSE blob[n].content

\* A step of c leaves what the contract speaks of alone elsewhere.
Elsewhere(c) == \A d \in Clients : d # c => UNCHANGED <<pc[d], answer[d], seen[d]>>

(***************************************************************************)
(* A client that a step leaves alone keeps its phase and its answer.       *)
(***************************************************************************)
LEMMA ElsewhereSame ==
    ASSUME NEW c, Elsewhere(c)
    PROVE  \A d \in Clients : d # c =>
              Phase(d)' = Phase(d) /\ PromisedAnswer(d)' = PromisedAnswer(d)
  <1> SUFFICES ASSUME NEW d \in Clients, d # c
               PROVE  Phase(d)' = Phase(d) /\ PromisedAnswer(d)' = PromisedAnswer(d)
    OBVIOUS
  <1>1. UNCHANGED <<pc[d], answer[d], seen[d]>>
    BY DEF Elsewhere
  <1> QED
    BY <1>1 DEF Phase, PromisedAnswer

(***************************************************************************)
(* Nothing that the contract speaks of changes.                            *)
(***************************************************************************)
LEMMA FormStutter ==
    ASSUME NEW c \in Clients, Elsewhere(c), UNCHANGED <<call, blob>>,
           Phase(c)' = Phase(c), PromisedAnswer(c)' = PromisedAnswer(c)
    PROVE  UNCHANGED Contract!contractVars
  <1>1. [n \in Names |-> Held(n)]' = [n \in Names |-> Held(n)]
    BY DEF Held
  <1>2. [d \in Clients |-> PromisedAnswer(d)]' = [d \in Clients |-> PromisedAnswer(d)]
    BY ElsewhereSame
  <1>3. [d \in Clients |-> Phase(d)]' = [d \in Clients |-> Phase(d)]
    BY ElsewhereSame
  <1> QED
    BY <1>1, <1>2, <1>3 DEF Contract!contractVars, Phase, Held

(***************************************************************************)
(* A client calls an operation.                                            *)
(***************************************************************************)
LEMMA FormInvoke ==
    ASSUME NEW c \in Clients, Elsewhere(c), Phase(c) = "idle", Phase(c)' = "pending",
           NEW k \in CallSet, call' = [call EXCEPT ![c] = k],
           PromisedAnswer(c)' = Plain("none"), UNCHANGED blob
    PROVE  Contract!Invoke(c)
  <1>1. k \in Contract!Calls
    BY CallFacts DEF CallSet, Contract!Calls
  <1>2. [n \in Names |-> Held(n)]' = [n \in Names |-> Held(n)]
    BY DEF Held
  <1>3. [d \in Clients |-> PromisedAnswer(d)]'
           = [[d \in Clients |-> PromisedAnswer(d)] EXCEPT ![c] = Plain("none")]
    BY ElsewhereSame
  <1>4. [d \in Clients |-> Phase(d)]' = [[d \in Clients |-> Phase(d)] EXCEPT ![c] = "pending"]
    BY ElsewhereSame
  <1>5. [d \in Clients |-> Phase(d)][c] = "idle"
    OBVIOUS
  <1> QED
    BY <1>1, <1>2, <1>3, <1>4, <1>5 DEF Contract!Invoke, Contract!Plain, Plain, Phase, Held

(***************************************************************************)
(* The call of a client takes effect.                                      *)
(***************************************************************************)
LEMMA FormEffect ==
    ASSUME NEW c \in Clients, Elsewhere(c), call[c].name \in Names, UNCHANGED call,
           Phase(c) = "pending", Phase(c)' = "effective",
           PromisedAnswer(c)' = Contract!ReplyTo(call[c], Held(call[c].name)),
           Held(call[c].name)' = Contract!After(call[c], Held(call[c].name)),
           \A n \in Names : n # call[c].name => blob'[n] = blob[n]
    PROVE  Contract!TakeEffect(c)
  <1> DEFINE store == [n \in Names |-> Held(n)]
             n == call[c].name
  <1>1. store' = [store EXCEPT ![n] = Contract!After(call[c], store[n])]
    <2>1. \A m \in Names : m # n => Held(m)' = Held(m)
      BY DEF Held
    <2>2. \A m \in Names : m = n => Held(m)' = Contract!After(call[c], Held(n))
      BY DEF Held
    <2> QED
      BY <2>1, <2>2
  <1>2. [d \in Clients |-> PromisedAnswer(d)]'
           = [d \in Clients |-> CASE d = c -> Contract!ReplyTo(call[c], store[n])
                                  [] d \in {} -> Plain("deleted")
                                  [] OTHER -> [e \in Clients |-> PromisedAnswer(e)][d]]
    BY ElsewhereSame
  <1>3. [d \in Clients |-> Phase(d)]'
           = [d \in Clients |-> IF d \in {} \union {c} THEN "effective"
                                ELSE [e \in Clients |-> Phase(e)][d]]
    BY ElsewhereSame
  <1>4. [d \in Clients |-> Phase(d)][c] = "pending"
    OBVIOUS
  <1>5. {} \in SUBSET Contract!Overtakable(c)
    OBVIOUS
  <1> QED
    BY <1>1, <1>2, <1>3, <1>4, <1>5 DEF Contract!TakeEffect, Contract!Plain, Plain, Phase, Held

(***************************************************************************)
(* A client gets its answer.                                               *)
(***************************************************************************)
LEMMA FormAnswer ==
    ASSUME NEW c \in Clients, Elsewhere(c), Phase(c) = "effective", Phase(c)' = "idle",
           PromisedAnswer(c)' = PromisedAnswer(c), UNCHANGED <<call, blob>>
    PROVE  Contract!Answer(c)
  <1>1. [n \in Names |-> Held(n)]' = [n \in Names |-> Held(n)]
    BY DEF Held
  <1>2. [d \in Clients |-> PromisedAnswer(d)]' = [d \in Clients |-> PromisedAnswer(d)]
    BY ElsewhereSame
  <1>3. [d \in Clients |-> Phase(d)]' = [[d \in Clients |-> Phase(d)] EXCEPT ![c] = "idle"]
    BY ElsewhereSame
  <1>4. [d \in Clients |-> Phase(d)][c] = "effective"
    OBVIOUS
  <1> QED
    BY <1>1, <1>2, <1>3, <1>4 DEF Contract!Answer, Phase, Held

(***************************************************************************)
(* A call ends with an error.                                              *)
(***************************************************************************)
LEMMA FormError ==
    ASSUME NEW c \in Clients, Elsewhere(c), Phase(c) # "idle", Phase(c)' = "idle",
           PromisedAnswer(c)' = Plain("error"), UNCHANGED <<call, blob>>
    PROVE  Contract!RaiseError(c)
  <1>1. [n \in Names |-> Held(n)]' = [n \in Names |-> Held(n)]
    BY DEF Held
  <1>2. [d \in Clients |-> PromisedAnswer(d)]'
           = [[d \in Clients |-> PromisedAnswer(d)] EXCEPT ![c] = Plain("error")]
    BY ElsewhereSame
  <1>3. [d \in Clients |-> Phase(d)]' = [[d \in Clients |-> Phase(d)] EXCEPT ![c] = "idle"]
    BY ElsewhereSame
  <1>4. [d \in Clients |-> Phase(d)][c] # "idle"
    OBVIOUS
  <1> QED
    BY <1>1, <1>2, <1>3, <1>4 DEF Contract!RaiseError, Contract!Plain, Plain, Phase, Held

-----------------------------------------------------------------------------
(* The steps.                                                              *)

(***************************************************************************)
(* What a name holds is never None where there is a blob.                  *)
(***************************************************************************)
LEMMA HeldFacts ==
    ASSUME TypeInv, NEW c \in Clients
    PROVE  /\ Blob(c) = None => Held(call[c].name) = None
           /\ Blob(c) # None => /\ Held(call[c].name) = Blob(c).content
                               /\ Held(call[c].name) # None /\ Blob(c) \in Versions
  BY ClientFacts, VersionFacts DEF Held, Blob

(***************************************************************************)
(* A call that takes effect and replies in one step without changing a     *)
(* blob.                                                                   *)
(***************************************************************************)
LEMMA ImplReply ==
    ASSUME TypeInv, NEW c \in Clients, pc[c] = "start", NEW reply, Reply(c, reply),
           reply.kind \notin Errors, UNCHANGED <<call, blob, seen>>,
           call[c].op \in {"open", "size", "exists"},
           reply = Contract!ReplyTo(call[c], Held(call[c].name))
    PROVE  Contract!TakeEffect(c)
  <1>1. /\ pc'[c] = "reply" /\ answer'[c] = reply /\ Elsewhere(c) /\ call[c].name \in Names
    BY ClientFacts DEF Reply, Go, Elsewhere
  <1>2. Phase(c) = "pending" /\ Phase(c)' = "effective"
    BY <1>1 DEF Phase
  <1>3. PromisedAnswer(c)' = reply
    BY <1>1 DEF PromisedAnswer
  <1>4. Contract!After(call[c], Held(call[c].name)) = Held(call[c].name)
    BY DEF Contract!After
  <1>5. Held(call[c].name)' = Held(call[c].name)
    BY DEF Held
  <1> QED
    BY <1>1, <1>2, <1>3, <1>4, <1>5, FormEffect

(***************************************************************************)
(* A call that ends with an error.                                         *)
(***************************************************************************)
LEMMA ImplRaise ==
    ASSUME TypeInv, NEW c \in Clients, pc[c] # "idle", NEW k \in Errors, Raise(c, k),
           UNCHANGED <<call, blob, seen>>
    PROVE  Contract!RaiseError(c)
  <1>1. pc'[c] = "idle" /\ answer'[c] = Plain(k) /\ Elsewhere(c)
    BY ClientFacts DEF Raise, Go, Elsewhere
  <1>2. Phase(c) # "idle" /\ Phase(c)' = "idle"
    BY <1>1 DEF Phase
  <1>3. PromisedAnswer(c)' = Plain("error")
    BY <1>1 DEF PromisedAnswer, Plain
  <1> QED
    BY <1>1, <1>2, <1>3, FormError

(***************************************************************************)
(* The request that makes a new version is where a save takes effect, if   *)
(* the version has the content that the save was called with.              *)
(***************************************************************************)
LEMMA ImplReplace ==
    ASSUME TypeInv, NEW c \in Clients, pc[c] \in {"start", "stage"}, call[c].op = "save",
           NEW x, x = call[c].content, NEW b \in BOOLEAN, Replace(c, x, b), Reply(c, Saved(Len(x))),
           UNCHANGED <<locals, budget>>
    PROVE  Contract!TakeEffect(c)
  <1> DEFINE n == call[c].name
             v == [etag |-> num[c], content |-> x, blocks |-> b]
             saved == [kind |-> "saved", size |-> Len(x), content |-> <<>>]
  <1>1. /\ pc'[c] = "reply" /\ answer'[c] = saved /\ Elsewhere(c) /\ n \in Names
        /\ UNCHANGED call
    BY ClientFacts DEF Reply, Go, Elsewhere, Saved, locals
  <1>2. v \in Versions
    BY ClientFacts DEF Versions
  <1>3. blob'[n] = v /\ \A m \in Names : m # n => blob'[m] = blob[m]
    BY <1>1 DEF Replace, TypeInv, TypeOK
  <1>4. \A m \in Names : m = n => Held(m)' = x
    BY <1>2, <1>3, VersionFacts DEF Held
  <1>5. Held(call[c].name)' = x
    BY <1>1, <1>4
  <1>6. Phase(c) = "pending" /\ Phase(c)' = "effective"
    BY <1>1 DEF Phase
  <1>7. PromisedAnswer(c)' = Contract!ReplyTo(call[c], Held(n))
    <2>1. PromisedAnswer(c)' = saved
      BY <1>1 DEF PromisedAnswer, Errors
    <2>2. Contract!ReplyTo(call[c], Held(n)) = saved
      BY DEF Contract!ReplyTo
    <2> QED
      BY <2>1, <2>2
  <1>8. Contract!After(call[c], Held(n)) = x
    BY DEF Contract!After
  <1> QED
    BY <1>1, <1>3, <1>5, <1>6, <1>7, <1>8, FormEffect

(***************************************************************************)
(* A step that only brings a save or a stream on its way.                  *)
(***************************************************************************)
LEMMA ImplStutter ==
    ASSUME TypeInv, NEW c \in Clients, UNCHANGED <<call, blob, answer, seen>>,
           \/ pc' = pc
           \/ pc[c] = "start" /\ Go(c, "stage")
    PROVE  UNCHANGED Contract!contractVars
  <1>1. Elsewhere(c) /\ (pc'[c] = pc[c] \/ (pc[c] = "start" /\ pc'[c] = "stage"))
    BY ClientFacts DEF Elsewhere, Go
  <1>2. Phase(c)' = Phase(c)
    BY <1>1 DEF Phase
  <1>3. PromisedAnswer(c)' = PromisedAnswer(c)
    BY <1>1 DEF PromisedAnswer
  <1> QED
    BY <1>1, <1>2, <1>3, FormStutter

(***************************************************************************)
(* save: a commit that no call has overlapped stores what was sent.        *)
(***************************************************************************)
LEMMA ImplSave ==
    ASSUME AzureInv, NEW c \in Clients, Save(c), ~OverlappedCommit(c)
    PROVE  Contract!ContractNext \/ UNCHANGED Contract!contractVars
  <1>1. TypeInv
    BY DEF AzureInv
  <1>2. CASE PutBlob(c)
    <2>1. Contract!TakeEffect(c)
      BY <1>1, <1>2, ImplReplace DEF Save, PutBlob
    <2> QED
      BY <2>1 DEF Contract!ContractNext
  <1>3. CASE BeginUpload(c) \/ StageBlock(c)
    BY <1>1, <1>3, ImplStutter DEF BeginUpload, StageBlock, service, locals
  <1>4. CASE CommitBlocks(c)
    <2>1. CASE \A i \in 1 .. total[c] : Found(c, i)
      <3> DEFINE x == [i \in 1 .. total[c] |-> Block(c, i)]
      <3>1. /\ pc[c] = "stage" /\ Replace(c, x, TRUE) /\ Reply(c, Saved(total[c]))
            /\ total[c] = Len(call[c].content) /\ UNCHANGED <<locals, budget>>
        BY <1>4, <2>1 DEF CommitBlocks
      <3>2. pc'[c] = "reply"
        BY <1>1, <3>1, ClientFacts DEF Reply, Go
      <3>3. StagedOwn(c)
        BY <3>1, <3>2 DEF OverlappedCommit, AzureInv, OwnBlocks, StagedOwn
      <3>4. x = call[c].content
        <4>1. x \in Seq(Chunks) /\ Len(x) = total[c] /\ call[c].content \in Seq(Chunks)
          BY <1>1, <2>1, BlockTyped, ClientFacts
        <4>2. \A i \in 1 .. total[c] : x[i] = call[c].content[i]
          BY <3>3, OwnFound
        <4> QED
          BY <3>1, <4>1, <4>2, SeqEqual
      <3>5. Reply(c, Saved(Len(x)))
        BY <3>1, <3>4
      <3>6. Contract!TakeEffect(c)
        BY <1>1, <3>1, <3>4, <3>5, ImplReplace DEF Save
      <3> QED
        BY <3>6 DEF Contract!ContractNext
    <2>2. CASE ~\A i \in 1 .. total[c] : Found(c, i)
      <3>1. pc[c] # "idle" /\ Raise(c, "sdk") /\ UNCHANGED <<call, blob, seen>>
        BY <1>4, <2>2 DEF CommitBlocks, service, locals
      <3>2. Contract!RaiseError(c)
        BY <1>1, <3>1, ImplRaise DEF Errors
      <3> QED
        BY <3>2 DEF Contract!ContractNext
    <2> QED
      BY <2>1, <2>2
  <1> QED
    BY <1>2, <1>3, <1>4 DEF Save

(***************************************************************************)
(* delete takes effect by its request, whether or not there is a blob.     *)
(***************************************************************************)
LEMMA ImplDelete ==
    ASSUME TypeInv, NEW c \in Clients, Delete(c)
    PROVE  Contract!TakeEffect(c)
  <1> DEFINE n == call[c].name
  <1>1. /\ pc[c] = "start" /\ pc'[c] = "reply" /\ answer'[c] = Plain("deleted") /\ Elsewhere(c)
        /\ n \in Names /\ UNCHANGED call /\ call[c].op = "delete"
    BY ClientFacts DEF Delete, Reply, Go, Elsewhere, locals
  <1>2. blob'[n] = None /\ \A m \in Names : m # n => blob'[m] = blob[m]
    BY <1>1 DEF Delete, TypeInv, TypeOK
  <1>3. Held(call[c].name)' = None
    BY <1>1, <1>2 DEF Held
  <1>4. Phase(c) = "pending" /\ Phase(c)' = "effective"
    BY <1>1 DEF Phase
  <1>5. PromisedAnswer(c)' = Plain("deleted")
    BY <1>1 DEF PromisedAnswer, Plain, Errors
  <1>6. Contract!ReplyTo(call[c], Held(n)) = Plain("deleted")
    BY <1>1 DEF Contract!ReplyTo, Contract!Plain, Plain
  <1>7. Contract!After(call[c], Held(n)) = None
    BY <1>1 DEF Contract!After
  <1> QED
    BY <1>1, <1>2, <1>3, <1>4, <1>5, <1>6, <1>7, FormEffect

(***************************************************************************)
(* open takes effect by its first request, and its stream yields what the  *)
(* blob held then, or fails.                                               *)
(***************************************************************************)
LEMMA ImplOpen ==
    ASSUME AzureInv, NEW c \in Clients, Open(c)
    PROVE  Contract!ContractNext \/ UNCHANGED Contract!contractVars
  <1>1. TypeInv /\ call[c].op = "open" /\ call[c].name \in Names
    BY ClientFacts DEF AzureInv, Open
  <1>2. CASE Download(c)
    <2> DEFINE n == call[c].name
    <2>1. CASE Blob(c) = None
      <3>1. Plain("notfound") = Contract!ReplyTo(call[c], Held(n))
        BY <1>1, <2>1, HeldFacts DEF Contract!ReplyTo, Contract!Plain, Plain
      <3>2. Plain("notfound").kind \notin Errors
        BY DEF Plain, Errors
      <3>3. Contract!TakeEffect(c)
        BY <1>1, <1>2, <2>1, <3>1, <3>2, ImplReply DEF Download, service
      <3> QED
        BY <3>3 DEF Contract!ContractNext
    <2>2. CASE Blob(c) # None
      <3> DEFINE reply == [kind |-> "content", size |-> 0, content |-> Held(n)]
      <3>1. /\ pc[c] = "start" /\ pc'[c] = "stream" /\ seen'[c] = Blob(c) /\ Elsewhere(c)
            /\ UNCHANGED <<call, blob, answer>>
        BY <1>1, <1>2, <2>2, ClientFacts DEF Download, Go, Elsewhere, service, TypeInv, TypeOK
      <3>2. Phase(c) = "pending" /\ Phase(c)' = "effective"
        BY <3>1 DEF Phase
      <3>3. PromisedAnswer(c)' = reply
        BY <1>1, <2>2, <3>1, HeldFacts DEF PromisedAnswer
      <3>4. Contract!ReplyTo(call[c], Held(n)) = reply
        <4>1. Held(n) # None
          BY <1>1, <2>2, HeldFacts
        <4> QED
          BY <1>1, <4>1 DEF Contract!ReplyTo
      <3>5. Contract!After(call[c], Held(n)) = Held(n)
        BY <1>1 DEF Contract!After
      <3>6. Held(call[c].name)' = Held(n)
        BY <3>1 DEF Held
      <3>7. Contract!TakeEffect(c)
        BY <1>1, <3>1, <3>2, <3>3, <3>4, <3>5, <3>6, FormEffect
      <3> QED
        BY <3>7 DEF Contract!ContractNext
    <2> QED
      BY <2>1, <2>2
  <1>3. CASE NextRange(c)
    BY <1>1, <1>3, ImplStutter DEF NextRange, service
  <1>4. CASE RangeChanged(c)
    <2>1. Contract!RaiseError(c)
      BY <1>1, <1>4, ImplRaise DEF RangeChanged, service, locals, Errors
    <2> QED
      BY <2>1 DEF Contract!ContractNext
  <1>5. CASE EndOfBlob(c)
    <2> DEFINE reply == [kind |-> "content", size |-> 0, content |-> seen[c].content]
    <2>1. /\ pc[c] = "stream" /\ pc'[c] = "reply" /\ Elsewhere(c) /\ UNCHANGED <<call, blob, seen>>
          /\ answer'[c] = [kind |-> "content", size |-> 0, content |-> got[c]]
          /\ Len(got[c]) = Len(seen[c].content)
      BY <1>1, <1>5, ClientFacts DEF EndOfBlob, Reply, Go, Elsewhere, service, locals
    <2>2. got[c] = seen[c].content
      <3>1. seen[c] \in Versions /\ got[c] = SubSeq(seen[c].content, 1, Len(got[c]))
        BY <1>1, <2>1 DEF AzureInv, Beginning, BeginningOf, TypeInv, TypeOK
      <3> QED
        BY <2>1, <3>1, VersionFacts, SubSeqFull
    <2>3. Phase(c)' = Phase(c)
      BY <2>1 DEF Phase
    <2>4. PromisedAnswer(c) = reply
      BY <2>1 DEF PromisedAnswer
    <2>5. PromisedAnswer(c)' = reply
      BY <2>1, <2>2 DEF PromisedAnswer, Errors
    <2> QED
      BY <2>1, <2>3, <2>4, <2>5, FormStutter
  <1> QED
    BY <1>2, <1>3, <1>4, <1>5 DEF Open

(***************************************************************************)
(* exists and size take effect by their request.                           *)
(***************************************************************************)
LEMMA ImplAsk ==
    ASSUME TypeInv, NEW c \in Clients, Exists(c) \/ Size(c)
    PROVE  Contract!TakeEffect(c)
  <1> DEFINE n == call[c].name
  <1>1. pc[c] = "start" /\ UNCHANGED <<call, blob, seen>>
    BY DEF Exists, Size, service, locals
  <1>2. CASE Exists(c)
    <2> DEFINE reply == Plain(IF Blob(c) = None THEN "absent" ELSE "present")
    <2>1. call[c].op = "exists" /\ Reply(c, reply)
      BY <1>2 DEF Exists
    <2>2. Contract!ReplyTo(call[c], Held(n)) = Plain(IF Held(n) = None THEN "absent" ELSE "present")
      BY <2>1 DEF Contract!ReplyTo, Contract!Plain, Plain
    <2>3. (Held(n) = None) <=> (Blob(c) = None)
      BY HeldFacts
    <2>4. reply = Contract!ReplyTo(call[c], Held(n)) /\ reply.kind \notin Errors
      BY <2>2, <2>3 DEF Plain, Errors
    <2> QED
      BY <1>1, <2>1, <2>4, ImplReply
  <1>3. CASE Size(c) /\ Blob(c) = None
    <2>1. call[c].op = "size" /\ Reply(c, Plain("notfound"))
      BY <1>3 DEF Size
    <2>2. Plain("notfound") = Contract!ReplyTo(call[c], Held(n))
      BY <1>3, <2>1, HeldFacts DEF Contract!ReplyTo, Contract!Plain, Plain
    <2>3. Plain("notfound").kind \notin Errors
      BY DEF Plain, Errors
    <2> QED
      BY <1>1, <2>1, <2>2, <2>3, ImplReply
  <1>4. CASE Size(c) /\ Blob(c) # None
    <2> DEFINE reply == [kind |-> "size", size |-> Len(Blob(c).content), content |-> <<>>]
    <2>1. call[c].op = "size" /\ Reply(c, reply)
      BY <1>4 DEF Size
    <2>2. Held(n) = Blob(c).content /\ Held(n) # None
      BY <1>4, HeldFacts
    <2>3. reply = Contract!ReplyTo(call[c], Held(n))
      BY <2>1, <2>2 DEF Contract!ReplyTo
    <2>4. reply.kind \notin Errors
      BY DEF Errors
    <2> QED
      BY <1>1, <2>1, <2>3, <2>4, ImplReply
  <1> QED
    BY <1>2, <1>3, <1>4

(***************************************************************************)
(* A call begins, returns or fails.                                        *)
(***************************************************************************)
LEMMA ImplAround ==
    ASSUME TypeInv, NEW c \in Clients, Call(c) \/ Return(c) \/ Fault(c)
    PROVE  Contract!ContractNext
  <1>1. CASE Call(c)
    <2>1. PICK k \in CallSet : call' = [call EXCEPT ![c] = k]
      BY <1>1 DEF Call
    <2>2. /\ pc[c] = "idle" /\ pc'[c] = "start" /\ answer'[c] = Plain("none") /\ Elsewhere(c)
          /\ UNCHANGED blob
      BY <1>1, ClientFacts DEF Call, Go, Elsewhere, service, TypeInv, TypeOK
    <2>3. Phase(c) = "idle" /\ Phase(c)' = "pending"
      BY <2>2 DEF Phase
    <2>4. PromisedAnswer(c)' = Plain("none")
      BY <2>2 DEF PromisedAnswer, Plain, Errors
    <2>5. Contract!Invoke(c)
      BY <2>1, <2>2, <2>3, <2>4, FormInvoke
    <2> QED
      BY <2>5 DEF Contract!ContractNext
  <1>2. CASE Return(c)
    <2>1. /\ pc[c] = "reply" /\ pc'[c] = "idle" /\ Elsewhere(c) /\ UNCHANGED <<call, blob, answer>>
      BY <1>2, ClientFacts DEF Return, Go, Elsewhere, service, locals
    <2>2. Phase(c) = "effective" /\ Phase(c)' = "idle"
      BY <2>1 DEF Phase
    <2>3. PromisedAnswer(c)' = PromisedAnswer(c)
      BY <2>1 DEF PromisedAnswer
    <2>4. Contract!Answer(c)
      BY <2>1, <2>2, <2>3, FormAnswer
    <2> QED
      BY <2>4 DEF Contract!ContractNext
  <1>3. CASE Fault(c)
    <2>1. PICK cause \in Causes : Raise(c, Translated(c, cause))
      BY <1>3 DEF Fault
    <2>2. Contract!RaiseError(c)
      BY <1>3, <2>1, ErrorKinds, ImplRaise DEF Fault, service, locals
    <2> QED
      BY <2>2 DEF Contract!ContractNext
  <1> QED
    BY <1>1, <1>2, <1>3

(***************************************************************************)
(* The initial states are initial states of the contract.                  *)
(***************************************************************************)
LEMMA ImplInit == Init => Contract!ContractInit
  <1> SUFFICES ASSUME Init PROVE Contract!ContractInit
    OBVIOUS
  <1>1. call \in [Clients -> Contract!Calls]
    <2>1. PICK n \in Names : call = [c \in Clients |-> [op |-> "exists", name |-> n, content |-> <<>>]]
      BY DEF Init
    <2>2. [op |-> "exists", name |-> n, content |-> <<>>] \in Contract!Calls
      BY DEF Contract!Calls
    <2> QED
      BY <2>1, <2>2
  <1>2. [c \in Clients |-> Phase(c)] = [c \in Clients |-> "idle"]
    BY DEF Init, Phase
  <1>3. [c \in Clients |-> PromisedAnswer(c)] = [c \in Clients |-> Plain("none")]
    BY DEF Init, PromisedAnswer, Plain, Errors
  <1>4. [n \in Names |-> Held(n)] = [n \in Names |-> None]
    BY DEF Init, Held
  <1> QED
    BY <1>1, <1>2, <1>3, <1>4 DEF Contract!ContractInit, Contract!Plain, Plain, Phase, Held

(***************************************************************************)
(* A step of the backend is one of the contract's or shows nothing, unless *)
(* it commits the blocks of a save that another call has overlapped.       *)
(***************************************************************************)
LEMMA ImplStep ==
    ASSUME AzureInv, [Next]_vars
    PROVE  [Contract!ContractNext
              \/ \E c \in Clients : OverlappedCommit(c)]_(Contract!contractVars)
  <1>1. TypeInv
    BY DEF AzureInv
  <1>2. CASE UNCHANGED vars
    <2>1. [n \in Names |-> Held(n)]' = [n \in Names |-> Held(n)]
      BY <1>2 DEF vars, service, Held
    <2>2. [d \in Clients |-> PromisedAnswer(d)]' = [d \in Clients |-> PromisedAnswer(d)]
      BY <1>2 DEF vars, locals, PromisedAnswer
    <2>3. [d \in Clients |-> Phase(d)]' = [d \in Clients |-> Phase(d)]
      BY <1>2 DEF vars, Phase
    <2> QED
      BY <1>2, <2>1, <2>2, <2>3 DEF vars, locals, Contract!contractVars, Phase, Held
  <1>3. ASSUME NEW c \in Clients, Call(c) \/ Run(c) \/ Fault(c), ~OverlappedCommit(c)
        PROVE  Contract!ContractNext \/ UNCHANGED Contract!contractVars
    <2>1. CASE Delete(c) \/ Exists(c) \/ Size(c)
      BY <1>1, <2>1, ImplDelete, ImplAsk DEF Contract!ContractNext
    <2> QED
      BY <1>1, <1>3, <2>1, ImplSave, ImplOpen, ImplAround DEF Run
  <1> QED
    BY <1>2, <1>3 DEF Next, Finished

(***************************************************************************)
(* The Azure backend implements the contract of Storage, but for the       *)
(* commit of a save that another save or delete of the name has            *)
(* overlapped.                                                             *)
(***************************************************************************)
THEOREM AzureImplements == Spec => ImplementsContract
  <1>1. AzureInv /\ [Next]_vars
          => [Contract!ContractNext
                \/ \E c \in Clients : OverlappedCommit(c)]_(Contract!contractVars)
    BY ImplStep
  <1> QED
    BY <1>1, ImplInit, AzureCorrect, PTL DEF Spec, ImplementsContract
=============================================================================
