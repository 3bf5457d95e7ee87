----------------------------- MODULE PgPoolProofs -----------------------------
(***************************************************************************)
(* Proofs about PgPool, for any number of tasks, pools, connections,       *)
(* threads, calls, failures and cancellations: what the double-checked     *)
(* lock of _ensure_pool keeps, and that no connection is lost.             *)
(***************************************************************************)
EXTENDS PgPool, FiniteSetTheorems, SequenceTheorems, TLAPS

-----------------------------------------------------------------------------
(* Types.  TypeOK is inductive once it says that a call which has a        *)
(* connection, or is told that the pool is open, finds a pool, and that    *)
(* each getconn without a task is the work of a cancellation.              *)

PoolKnown ==
    /\ opened \/ At({"ddl"}) # {} \/ (\E t \in Tasks : held[t] # <<>>) => pool # None
    /\ At({"getconn", "getting"}) # {} => pool # None
    /\ \A p \in Pools : orphans[p] <= cancels

TypeInv == TypeOK /\ PoolKnown

(***************************************************************************)
(* A connection belongs to a pool.                                         *)
(***************************************************************************)
LEMMA ConnectionFacts ==
    /\ \A c \in Connections : c[1] \in Pools
    /\ \A p \in Pools : Idle(p) \subseteq Connections /\ \A c \in Idle(p) : c[1] = p /\ c \notin lent
    /\ Pools \subseteq Nat /\ None \notin Pools
  BY PoolAssumption DEF Connections, Idle, Pools

(***************************************************************************)
(* The last connection of a call, and what is left without it.             *)
(***************************************************************************)
LEMMA PopFacts ==
    ASSUME NEW s \in Seq(Connections), s # <<>>
    PROVE  /\ Len(s) \in Nat \ {0} /\ s[Len(s)] \in Connections
           /\ SubSeq(s, 1, Len(s) - 1) \in Seq(Connections)
           /\ Len(SubSeq(s, 1, Len(s) - 1)) = Len(s) - 1
           /\ \A i \in 1 .. Len(s) - 1 : SubSeq(s, 1, Len(s) - 1)[i] = s[i]
           /\ SubSeq(s, 1, Len(s) - 1) = <<>> <=> Len(s) = 1
  <1>1. Len(s) \in Nat \ {0} /\ Len(s) - 1 \in Int
    BY EmptySeq
  <1>2. \A i \in 1 .. Len(s) : s[i] \in Connections
    BY ElementOfSeq
  <1>3. \A i \in 1 .. Len(s) - 1 : s[i] \in Connections
    BY <1>1, <1>2
  <1>4. /\ SubSeq(s, 1, Len(s) - 1) \in Seq(Connections)
        /\ Len(SubSeq(s, 1, Len(s) - 1)) = Len(s) - 1
        /\ \A i \in 1 .. Len(s) - 1 : SubSeq(s, 1, Len(s) - 1)[i] = s[i]
    <2> DEFINE m == Len(s) - 1
    <2>1. /\ SubSeq(s, 1, m) \in Seq(Connections)
          /\ Len(SubSeq(s, 1, m)) = IF 1 <= m THEN m - 1 + 1 ELSE 0
          /\ \A i \in 1 .. m - 1 + 1 : SubSeq(s, 1, m)[i] = s[1 + i - 1]
      BY <1>1, <1>3, SubSeqProperties
    <2>2. m \in Nat /\ m - 1 + 1 = m /\ \A i \in 1 .. m : 1 + i - 1 = i
      BY <1>1
    <2> QED
      BY <2>1, <2>2
  <1>5. SubSeq(s, 1, Len(s) - 1) = <<>> <=> Len(s) = 1
    <2> DEFINE r == SubSeq(s, 1, Len(s) - 1)
    <2>1. r \in Seq(Connections) /\ Len(r) = Len(s) - 1
      BY <1>4
    <2>2. r = <<>> <=> Len(r) = 0
      BY <2>1, EmptySeq
    <2> HIDE DEF r
    <2>3. r = <<>> <=> Len(s) = 1
      BY <1>1, <2>1, <2>2
    <2> QED
      BY <2>3 DEF r
  <1> QED
    BY <1>1, <1>2, <1>4, <1>5

(***************************************************************************)
(* A call's connections when it has taken one more.                        *)
(***************************************************************************)
LEMMA AppendFacts ==
    ASSUME NEW s \in Seq(Connections), NEW c \in Connections
    PROVE  /\ Append(s, c) \in Seq(Connections) /\ Append(s, c) # <<>>
           /\ Len(s) \in Nat /\ Len(Append(s, c)) = Len(s) + 1
           /\ Append(s, c)[Len(s) + 1] = c
           /\ \A i \in 1 .. Len(s) : Append(s, c)[i] = s[i]
  <1>1. Len(s) \in Nat
    OBVIOUS
  <1>2. /\ Append(s, c) \in Seq(Connections) /\ Len(Append(s, c)) = Len(s) + 1
        /\ Append(s, c)[Len(s) + 1] = c
        /\ \A i \in 1 .. Len(s) : Append(s, c)[i] = s[i]
    BY AppendProperties
  <1>3. Append(s, c) # <<>>
    BY <1>1, <1>2, EmptySeq
  <1> QED
    BY <1>1, <1>2, <1>3

(***************************************************************************)
(* What a call still has to wait for, when it begins and when it goes on.  *)
(***************************************************************************)
LEMMA TodoFacts ==
    /\ Kinds \subseteq Seq({"lock", "stream", "read"}) /\ <<>> \in Seq({"lock", "stream", "read"})
    /\ \A t \in Tasks : todo[t] \in Seq({"lock", "stream", "read"}) /\ Ahead(t) # "end"
                         => Tail(todo[t]) \in Seq({"lock", "stream", "read"})
  <1>1. {<<>>, <<"lock">>, <<"stream">>, <<"read">>, <<"lock", "stream">>, <<"stream", "lock">>}
           \subseteq Seq({"lock", "stream", "read"})
    OBVIOUS
  <1> DEFINE W == {"lock", "stream", "read"}
  <1> HIDE DEF W
  <1>2. \A s \in Seq(W) : s # <<>> => Tail(s) \in Seq(W)
    BY HeadTailProperties
  <1>3. \A t \in Tasks : Ahead(t) # "end" => todo[t] # <<>>
    BY DEF Ahead
  <1>4. \A t \in Tasks : todo[t] \in Seq(W) /\ Ahead(t) # "end" => Tail(todo[t]) \in Seq(W)
    BY <1>2, <1>3
  <1> QED
    BY <1>1, <1>4, PoolAssumption DEF W

(***************************************************************************)
(* The initial states are typed.                                           *)
(***************************************************************************)
LEMMA TypeInit == Init => TypeInv
  <1> SUFFICES ASSUME Init PROVE TypeInv
    OBVIOUS
  <1>1. <<>> \in Seq(Connections)
    OBVIOUS
  <1>2. /\ driver \in Drivers /\ opened \in BOOLEAN /\ pool = None /\ lock = None /\ row = None
        /\ state \in [Pools -> {"new", "open", "closing", "closed"}]
        /\ lent = {} /\ dropped = {} /\ abandoned = {} /\ orphans = [p \in Pools |-> 0]
    BY DEF Init
  <1>3. orphans \in [Pools -> 0 .. MaxCancels] /\ \A p \in Pools : orphans[p] <= 0
    BY <1>2, PoolAssumption
  <1>4. /\ todo \in [Tasks -> Seq({"lock", "stream", "read"})]
        /\ held \in [Tasks -> Seq(Connections)]
        /\ from \in [Tasks -> Pools \union {None}]
        /\ to \in [Tasks -> Pools \union {None}]
        /\ closing \in [Closers -> {"idle", "closing", "closed"}]
        /\ target \in [Closers -> Pools \union {None}]
        /\ draining \in [Closers -> SUBSET Connections]
    BY <1>1, TodoFacts DEF Init
  <1>5. /\ calls \in 0 .. MaxCalls /\ closes \in 0 .. MaxCloses
        /\ failures \in 0 .. MaxFailures /\ cancels = 0 /\ cancels \in 0 .. MaxCancels
    BY PoolAssumption DEF Init
  <1>6. /\ \A t \in Tasks : pc[t] = "idle" /\ held[t] = <<>>
        /\ pc \in [Tasks -> {"idle", "ensure", "lockWait", "opening", "ddl", "getconn", "getting",
                             "use", "waiting", "aborted", "rolling", "put"}]
    BY DEF Init
  <1>7. TypeOK
    BY <1>2, <1>3, <1>4, <1>5, <1>6 DEF TypeOK, At
  <1>8. PoolKnown
    <2>1. ~opened
      BY DEF Init
    <2>2. At({"ddl"}) = {} /\ At({"getconn", "getting"}) = {}
      BY <1>6 DEF At
    <2>3. \A p \in Pools : orphans[p] <= cancels
      BY <1>3, <1>5
    <2> QED
      BY <1>6, <2>1, <2>2, <2>3, Zenon DEF PoolKnown
  <1> QED
    BY <1>7, <1>8 DEF TypeInv

(***************************************************************************)
(* A step of a task that takes no connection and gives none back keeps the *)
(* types if the task asks only a pool that is there.                       *)
(***************************************************************************)
LEMMA TypeTask ==
    ASSUME TypeInv, NEW t \in Tasks, NEW l, pc' = [pc EXCEPT ![t] = l],
           l \in {"idle", "ensure", "lockWait", "opening", "ddl", "getconn", "getting",
                  "use", "waiting", "aborted", "rolling", "put"},
           l = "ddl" => pool' # None,
           l \in {"getconn", "getting"} => from'[t] \in Pools /\ pool' # None,
           l \in {"use", "waiting", "aborted", "rolling", "put"} => held[t] # <<>>,
           opened' \in BOOLEAN, opened' => pool' # None, pool' \in Pools \union {None},
           pool # None => pool' # None,
           lock' \in Tasks \union {None}, row' \in Tasks \union {None},
           state' \in [Pools -> {"new", "open", "closing", "closed"}],
           todo' \in [Tasks -> Seq({"lock", "stream", "read"})],
           from' \in [Tasks -> Pools \union {None}], \A u \in Tasks : u # t => from'[u] = from[u],
           to' \in [Tasks -> Pools \union {None}],
           UNCHANGED <<driver, lent, dropped, abandoned, orphans, held, closer, closes>>,
           calls' \in 0 .. MaxCalls, failures' \in 0 .. MaxFailures, cancels' \in 0 .. MaxCancels,
           \A p \in Pools : orphans[p] <= cancels'
    PROVE  TypeInv'
  <1>1. TypeOK /\ PoolKnown
    BY DEF TypeInv
  <1>2. /\ pc' \in [Tasks -> {"idle", "ensure", "lockWait", "opening", "ddl", "getconn", "getting",
                              "use", "waiting", "aborted", "rolling", "put"}]
        /\ \A u \in Tasks : u # t => pc'[u] = pc[u]
        /\ pc'[t] = l
    BY <1>1 DEF TypeOK
  <1>3. \A u \in Tasks : pc'[u] \in {"getconn", "getting"} => from'[u] \in Pools
    BY <1>1, <1>2 DEF TypeOK, At
  <1>4. \A u \in Tasks : pc'[u] \in {"use", "waiting", "aborted", "rolling", "put"} => held'[u] # <<>>
    BY <1>1, <1>2 DEF TypeOK, At
  <1>5. TypeOK'
    BY <1>1, <1>2, <1>3, <1>4 DEF TypeOK, At, closer
  <1>6. PoolKnown'
    BY <1>1, <1>2, Zenon DEF PoolKnown, At
  <1> QED
    BY <1>5, <1>6 DEF TypeInv

(***************************************************************************)
(* What the steps below need of the types.                                 *)
(***************************************************************************)
LEMMA TaskFacts ==
    ASSUME TypeInv, NEW t \in Tasks
    PROVE  /\ opened \in BOOLEAN /\ (opened => pool # None) /\ pool \in Pools \union {None}
           /\ lock \in Tasks \union {None} /\ row \in Tasks \union {None}
           /\ state \in [Pools -> {"new", "open", "closing", "closed"}]
           /\ todo \in [Tasks -> Seq({"lock", "stream", "read"})]
           /\ [todo EXCEPT ![t] = <<>>] \in [Tasks -> Seq({"lock", "stream", "read"})]
           /\ from \in [Tasks -> Pools \union {None}] /\ to \in [Tasks -> Pools \union {None}]
           /\ held[t] \in Seq(Connections) /\ (held[t] # <<>> => pool # None)
           /\ (pc[t] = "ddl" => pool # None)
           /\ (pc[t] \in {"getconn", "getting"} => from[t] \in Pools /\ pool # None)
           /\ (pc[t] \in {"use", "waiting", "aborted", "rolling", "put"} => held[t] # <<>>)
           /\ calls \in 0 .. MaxCalls /\ failures \in 0 .. MaxFailures /\ cancels \in 0 .. MaxCancels
           /\ \A p \in Pools : orphans[p] <= cancels
  <1>1. TypeOK /\ PoolKnown
    BY DEF TypeInv
  <1>2. /\ opened => pool # None
        /\ held[t] # <<>> => pool # None
        /\ pc[t] = "ddl" => pool # None
        /\ pc[t] \in {"getconn", "getting"} => pool # None
    BY <1>1, Zenon DEF PoolKnown, At
  <1>3. \A p \in Pools : orphans[p] <= cancels
    BY <1>1 DEF PoolKnown
  <1>4. [todo EXCEPT ![t] = <<>>] \in [Tasks -> Seq({"lock", "stream", "read"})]
    BY <1>1, TodoFacts DEF TypeOK
  <1> QED
    BY <1>1, <1>2, <1>3, <1>4 DEF TypeOK, At

(***************************************************************************)
(* One more within a bound.                                                *)
(***************************************************************************)
LEMMA OneMore ==
    ASSUME NEW max \in Nat, NEW n \in 0 .. max, n < max
    PROVE  n + 1 \in 0 .. max
  OBVIOUS

(***************************************************************************)
(* A call begins, and _ensure_pool.                                        *)
(***************************************************************************)
LEMMA TypeEnsure ==
    ASSUME TypeInv, NEW t \in Tasks,
           \/ Call(t) \/ FastPath(t) \/ TakeLock(t) \/ GetLock(t) \/ OpenPool(t)
           \/ CreateTableDone(t) \/ EnsureFails(t)
    PROVE  TypeInv'
  <1> USE TaskFacts DEF Go
  <1>1. CASE Call(t)
    <2>1. calls' \in 0 .. MaxCalls
      BY <1>1, OneMore, PoolAssumption DEF Call
    <2>2. todo' \in [Tasks -> Seq({"lock", "stream", "read"})]
      BY <1>1, TodoFacts DEF Call
    <2> QED
      BY <1>1, <2>1, <2>2, TypeTask DEF Call, storage, pools
  <1>2. CASE FastPath(t)
    <2>1. opened /\ from' = [from EXCEPT ![t] = pool] /\ pc' = [pc EXCEPT ![t] = "getconn"]
          /\ UNCHANGED <<storage, pools, todo, held, to, closer, budget>>
      BY <1>2 DEF FastPath, Acquire
    <2> QED
      BY <2>1, TypeTask DEF storage, pools, budget
  <1>3. CASE TakeLock(t)
    <2>1. /\ lock' \in Tasks \union {None}
          /\ pc' = [pc EXCEPT ![t] = "opening"] \/ pc' = [pc EXCEPT ![t] = "lockWait"]
          /\ UNCHANGED <<driver, opened, pool, pools, locals, closer, budget>>
      BY <1>3 DEF TakeLock
    <2> QED
      BY <2>1, TypeTask DEF pools, locals, budget
  <1>4. CASE GetLock(t)
    <2>1. UNCHANGED <<driver, opened, pool, pools, todo, held, to, closer, budget>>
      BY <1>4 DEF GetLock
    <2>2. CASE opened
      <3>1. from' = [from EXCEPT ![t] = pool] /\ pc' = [pc EXCEPT ![t] = "getconn"] /\ lock' = lock
        BY <1>4, <2>2 DEF GetLock, Acquire
      <3> QED
        BY <2>1, <2>2, <3>1, TypeTask DEF pools, budget
    <2>3. CASE ~opened
      <3>1. from' = from /\ pc' = [pc EXCEPT ![t] = "opening"] /\ lock' = t
        BY <1>4, <2>3 DEF GetLock
      <3> QED
        BY <2>1, <2>3, <3>1, TypeTask DEF pools, budget
    <2> QED
      BY <2>2, <2>3
  <1>5. CASE OpenPool(t)
    <2>1. PICK p \in Pools :
             /\ MakePool(p)
             /\ pool' = p
             /\ IF CreateTable
                THEN opened' = opened /\ lock' = lock /\ Go(t, "ddl") /\ UNCHANGED from
                ELSE opened' = TRUE /\ lock' = None /\ Acquire(t, p)
      BY <1>5 DEF OpenPool
    <2>2. p # None
      BY ConnectionFacts
    <2>3. state' \in [Pools -> {"new", "open", "closing", "closed"}]
      BY <2>1 DEF MakePool
    <2>4. UNCHANGED <<driver, lent, dropped, abandoned, orphans, row, todo, held, to, closer, budget>>
      BY <1>5 DEF OpenPool
    <2>5. CASE CreateTable
      <3>1. opened' = opened /\ lock' = lock /\ pc' = [pc EXCEPT ![t] = "ddl"] /\ from' = from
        BY <2>1, <2>5
      <3> QED
        BY <2>1, <2>2, <2>3, <2>4, <3>1, TypeTask DEF budget
    <2>6. CASE ~CreateTable
      <3>1. opened' = TRUE /\ lock' = None /\ pc' = [pc EXCEPT ![t] = "getconn"]
            /\ from' = [from EXCEPT ![t] = p]
        BY <2>1, <2>6 DEF Acquire
      <3> QED
        BY <2>1, <2>2, <2>3, <2>4, <3>1, TypeTask DEF budget
    <2> QED
      BY <2>5, <2>6
  <1>6. CASE CreateTableDone(t)
    <2>1. /\ pc[t] = "ddl" /\ opened' = TRUE /\ lock' = None
          /\ from' = [from EXCEPT ![t] = pool] /\ pc' = [pc EXCEPT ![t] = "getconn"]
          /\ UNCHANGED <<driver, pool, pools, todo, held, to, closer, budget>>
      BY <1>6 DEF CreateTableDone, Acquire
    <2> QED
      BY <2>1, TypeTask DEF pools, budget
  <1>7. CASE EnsureFails(t)
    <2>1. failures' \in 0 .. MaxFailures
      BY <1>7, OneMore, PoolAssumption DEF EnsureFails
    <2>2. lock' = None /\ pc' = [pc EXCEPT ![t] = "idle"]
          /\ UNCHANGED <<driver, opened, pool, pools, locals, closer, calls, closes, cancels>>
      BY <1>7 DEF EnsureFails
    <2> QED
      BY <2>1, <2>2, TypeTask DEF pools, locals
  <1> QED
    BY <1>1, <1>2, <1>3, <1>4, <1>5, <1>6, <1>7

(***************************************************************************)
(* acquire, and what a call does with its connections.                     *)
(***************************************************************************)
LEMMA TypeAcquire ==
    ASSUME TypeInv, NEW t \in Tasks,
           \/ StartGetconn(t) \/ Getconn(t) \/ GetconnFails(t)
           \/ StartLock(t) \/ TakeRow(t) \/ LockFails(t) \/ StartStream(t) \/ Use(t) \/ Putconn(t)
           \/ StartRollback(t) \/ Rollback(t)
    PROVE  TypeInv'
  <1> USE TaskFacts DEF Go
  <1>1. CASE StartGetconn(t) \/ GetconnFails(t)
    <2>1. /\ pc[t] \in {"getconn", "getting"}
          /\ \/ pc' = [pc EXCEPT ![t] = "getting"]
             \/ pc' = [pc EXCEPT ![t] = IF held[t] = <<>> THEN "idle" ELSE "use"]
          /\ todo' = todo \/ todo' = [todo EXCEPT ![t] = <<>>]
          /\ UNCHANGED <<storage, pools, held, from, to, closer, budget>>
      BY <1>1 DEF StartGetconn, GetconnFails, Leave, GiveUp
    <2>2. \E l \in {"getting", "idle", "use"} :
             pc' = [pc EXCEPT ![t] = l] /\ (l = "use" => held[t] # <<>>)
      BY <2>1
    <2>3. todo' \in [Tasks -> Seq({"lock", "stream", "read"})]
      BY <2>1
    <2> QED
      BY <2>1, <2>2, <2>3, TypeTask DEF storage, pools, budget
  <1>2. CASE Getconn(t)
    <2> DEFINE c == CHOOSE c \in Idle(from[t]) : TRUE
    <2>1. /\ from[t] \in Pools /\ Idle(from[t]) # {} /\ pool # None
          /\ lent' = lent \union {c} /\ held' = [held EXCEPT ![t] = Append(held[t], c)]
          /\ pc' = [pc EXCEPT ![t] = "use"]
          /\ UNCHANGED <<storage, state, dropped, abandoned, orphans, row, todo, from, to, closer,
                         budget>>
      BY <1>2 DEF Getconn
    <2>2. c \in Connections
      BY <2>1, ConnectionFacts
    <2>3. Append(held[t], c) \in Seq(Connections) /\ Append(held[t], c) # <<>>
      BY <2>2, AppendFacts
    <2> HIDE DEF c
    <2>4. /\ lent' \subseteq Connections /\ held' \in [Tasks -> Seq(Connections)]
          /\ \A u \in Tasks : u # t => held'[u] = held[u] /\ pc'[u] = pc[u]
          /\ held'[t] # <<>> /\ pc'[t] = "use"
          /\ pc' \in [Tasks -> {"idle", "ensure", "lockWait", "opening", "ddl", "getconn", "getting",
                                "use", "waiting", "aborted", "rolling", "put"}]
      BY <2>1, <2>2, <2>3 DEF TypeInv, TypeOK
    <2>5. TypeOK'
      BY <2>1, <2>4 DEF TypeInv, TypeOK, At, storage, closer, budget
    <2>6. PoolKnown'
      BY <2>1 DEF TypeInv, PoolKnown, storage, budget
    <2> QED
      BY <2>5, <2>6 DEF TypeInv
  <1>3. CASE StartLock(t)
    <2>1. /\ pc[t] = "use" /\ todo' = [todo EXCEPT ![t] = Tail(todo[t])] /\ Ahead(t) # "end"
          /\ pc' = [pc EXCEPT ![t] = "waiting"]
          /\ UNCHANGED <<storage, pools, held, from, to, closer, budget>>
      BY <1>3 DEF StartLock
    <2>2. todo' \in [Tasks -> Seq({"lock", "stream", "read"})]
      BY <2>1, TodoFacts
    <2> QED
      BY <2>1, <2>2, TypeTask DEF storage, pools, budget
  <1>4. CASE TakeRow(t)
    <2>1. /\ pc[t] \in {"waiting", "aborted"} /\ row' = t /\ pc' = [pc EXCEPT ![t] = "use"]
          /\ UNCHANGED <<storage, state, lent, dropped, abandoned, orphans, locals, closer, budget>>
      BY <1>4 DEF TakeRow
    <2> QED
      BY <2>1, TypeTask DEF storage, locals, budget
  <1>5. CASE StartStream(t)
    <2>1. /\ pc[t] = "use" /\ todo' = [todo EXCEPT ![t] = Tail(todo[t])] /\ Ahead(t) # "end"
          /\ from' = [from EXCEPT ![t] = pool] /\ pc' = [pc EXCEPT ![t] = "getconn"]
          /\ UNCHANGED <<storage, pools, held, to, closer, budget>>
      BY <1>5 DEF StartStream, Acquire
    <2>2. todo' \in [Tasks -> Seq({"lock", "stream", "read"})]
      BY <2>1, TodoFacts
    <2> QED
      BY <2>1, <2>2, TypeTask DEF storage, pools, budget
  <1>6. CASE Use(t)
    <2>1. pc[t] = "use" /\ pc' = [pc EXCEPT ![t] = "put"]
          /\ UNCHANGED <<storage, state, lent, dropped, abandoned, orphans, todo, held, from, closer,
                         budget>>
      BY <1>6 DEF Use
    <2>2. Top(t)[1] \in Pools
      BY <2>1, PopFacts, ConnectionFacts DEF Top
    <2>3. to' \in [Tasks -> Pools \union {None}] /\ row' \in Tasks \union {None}
      BY <1>6, <2>2 DEF Use, Unlock
    <2> QED
      BY <2>1, <2>3, TypeTask DEF storage, budget
  <1>7. CASE Putconn(t)
    <2> DEFINE s == held[t]
               r == SubSeq(s, 1, Len(s) - 1)
    <2>1. /\ s # <<>> /\ r \in Seq(Connections) /\ (r = <<>> <=> Len(s) = 1)
          /\ held' = [held EXCEPT ![t] = r] /\ AfterPut(t)
      BY <1>7, PopFacts DEF Putconn, Pop
    <2>2. lent' \subseteq lent /\ draining' \in [Closers -> SUBSET Connections]
      <3>1. draining \in [Closers -> SUBSET Connections]
        BY DEF TypeInv, TypeOK
      <3>2. \/ /\ lent' = lent \ {Top(t)}
               /\ draining' = [k \in Closers |-> draining[k] \ {Top(t)}]
            \/ UNCHANGED <<lent, draining>>
        BY <1>7 DEF Putconn
      <3> QED
        BY <3>1, <3>2
    <2>3. UNCHANGED <<storage, state, dropped, abandoned, orphans, row, todo, from, to, closing,
                      target, budget>>
      BY <1>7 DEF Putconn
    <2>4. pool # None
      BY <2>1
    <2> QED
      BY <2>1, <2>2, <2>3, <2>4 DEF TypeInv, TypeOK, PoolKnown, At, AfterPut, storage, budget
  <1>8. CASE StartRollback(t)
    <2>1. pc[t] = "aborted" /\ pc' = [pc EXCEPT ![t] = "rolling"]
          /\ UNCHANGED <<storage, pools, locals, closer, budget>>
      BY <1>8 DEF StartRollback
    <2> QED
      BY <2>1, TypeTask DEF storage, pools, locals, budget
  <1>9. CASE Rollback(t)
    <2>1. pc[t] = "rolling" /\ pc' = [pc EXCEPT ![t] = "put"] /\ to' = [to EXCEPT ![t] = pool]
          /\ UNCHANGED <<storage, pools, todo, held, from, closer, budget>>
      BY <1>9 DEF Rollback
    <2> QED
      BY <2>1, TypeTask DEF storage, pools, budget
  <1>10. CASE LockFails(t)
    <2>1. /\ pc[t] = "waiting" /\ pc' = [pc EXCEPT ![t] = "use"] /\ todo' = [todo EXCEPT ![t] = <<>>]
          /\ UNCHANGED <<storage, pools, held, from, to, closer, budget>>
      BY <1>10 DEF LockFails, GiveUp
    <2> QED
      BY <2>1, TypeTask DEF storage, pools, budget
  <1> QED
    BY <1>1, <1>2, <1>3, <1>4, <1>5, <1>6, <1>7, <1>8, <1>9, <1>10

(***************************************************************************)
(* A cancellation may leave one getconn more without a task.               *)
(***************************************************************************)
LEMMA OrphanMore ==
    ASSUME TypeInv, cancels < MaxCancels, NEW p \in Pools
    PROVE  orphans[p] + 1 \in 0 .. MaxCancels /\ orphans[p] \in 0 .. MaxCancels
  <1>1. /\ MaxCancels \in Nat /\ cancels \in 0 .. MaxCancels
        /\ orphans[p] \in 0 .. MaxCancels /\ orphans[p] <= cancels
    BY PoolAssumption DEF TypeInv, TypeOK, PoolKnown
  <1> QED
    BY <1>1

(***************************************************************************)
(* A getconn without a task comes to its end.                              *)
(***************************************************************************)
LEMMA OrphanLess ==
    ASSUME TypeInv, NEW p \in Pools, orphans[p] > 0, orphans' = [orphans EXCEPT ![p] = @ - 1]
    PROVE  orphans' \in [Pools -> 0 .. MaxCancels] /\ \A q \in Pools : orphans'[q] <= cancels
  <1>1. /\ MaxCancels \in Nat /\ cancels \in 0 .. MaxCancels
        /\ orphans \in [Pools -> 0 .. MaxCancels] /\ \A q \in Pools : orphans[q] <= cancels
    BY PoolAssumption DEF TypeInv, TypeOK, PoolKnown
  <1>2. orphans[p] - 1 \in 0 .. MaxCancels /\ orphans[p] - 1 <= cancels
    BY <1>1
  <1> QED
    BY <1>1, <1>2

(***************************************************************************)
(* A cancelled call.                                                       *)
(***************************************************************************)
LEMMA TypeCancel ==
    ASSUME TypeInv, NEW t \in Tasks, Cancel(t)
    PROVE  TypeInv'
  <1>0. todo' \in [Tasks -> Seq({"lock", "stream", "read"})]
    BY TaskFacts DEF Cancel, GiveUp
  <1> USE <1>0 DEF Go, TypeInv, TypeOK, PoolKnown, At
  <1>1. /\ cancels \in Nat /\ cancels' = cancels + 1 /\ cancels' \in 0 .. MaxCancels
        /\ UNCHANGED <<abandoned, row, from, to, closer, calls, closes, failures>>
    BY PoolAssumption DEF Cancel
  <1>2. \A p \in Pools : orphans[p] \in Nat /\ orphans[p] + 1 <= cancels' /\ orphans[p] <= cancels'
    BY <1>1
  <1>3. CASE CancelOpening(t)
    <2>1. state' \in [Pools -> {"new", "open", "closing", "closed"}]
      BY <1>3 DEF CancelOpening, MakePool
    <2>2. UNCHANGED <<driver, opened, pool, lent, dropped, orphans, held>> /\ lock' = None
      BY <1>3 DEF CancelOpening
    <2>3. pc' = [pc EXCEPT ![t] = "idle"]
      BY <1>3 DEF CancelOpening
    <2> QED
      BY <1>1, <1>2, <2>1, <2>2, <2>3 DEF closer
  <1>4. CASE CancelWaiting(t)
    BY <1>1, <1>2, <1>4 DEF CancelWaiting, Leave, storage, pools, closer
  <1>5. CASE CancelGetting(t)
    <2>1. from[t] \in Pools /\ pc[t] = "getting"
      BY <1>5 DEF CancelGetting
    <2>2. /\ orphans' \in [Pools -> 0 .. MaxCancels]
          /\ \A p \in Pools : orphans'[p] <= cancels'
      <3>1. \A p \in Pools : orphans[p] + 1 \in 0 .. MaxCancels /\ orphans[p] \in 0 .. MaxCancels
        BY OrphanMore DEF Cancel
      <3>2. orphans' = [orphans EXCEPT ![from[t]] = orphans[from[t]] + 1] \/ orphans' = orphans
        BY <1>5 DEF CancelGetting
      <3> QED
        BY <1>2, <2>1, <3>1, <3>2
    <2> QED
      BY <1>1, <1>5, <2>1, <2>2 DEF CancelGetting, Leave, storage, closer
  <1>6. CASE CancelLock(t)
    BY <1>1, <1>2, <1>6 DEF CancelLock, storage, closer
  <1>7. CASE CancelPut(t)
    <2> DEFINE r == SubSeq(held[t], 1, Len(held[t]) - 1)
    <2>1. /\ Top(t) \in Connections /\ r \in Seq(Connections) /\ (r = <<>> <=> Len(held[t]) = 1)
          /\ held[t] # <<>>
      BY <1>7, PopFacts DEF CancelPut, Top
    <2>2. /\ dropped' = dropped \union {Top(t)} /\ held' = [held EXCEPT ![t] = r]
          /\ AfterPut(t) /\ UNCHANGED <<storage, state, lent, orphans>>
      BY <1>7 DEF CancelPut, Pop
    <2> HIDE DEF r
    <2> QED
      BY <1>1, <1>2, <1>7, <2>1, <2>2 DEF AfterPut, storage, closer
  <1> QED
    BY <1>3, <1>4, <1>5, <1>6, <1>7 DEF Cancel

(***************************************************************************)
(* The budget of a step that a failure or a cancellation causes.           *)
(***************************************************************************)
LEMMA Spent ==
    ASSUME TypeInv,
           \/ failures < MaxFailures /\ failures' = failures + 1 /\ UNCHANGED cancels
           \/ cancels < MaxCancels /\ cancels' = cancels + 1 /\ UNCHANGED failures
    PROVE  /\ failures' \in 0 .. MaxFailures /\ cancels' \in 0 .. MaxCancels
           /\ \A p \in Pools : orphans[p] <= cancels'
  <1>1. /\ {MaxFailures, MaxCancels} \subseteq Nat
        /\ failures \in 0 .. MaxFailures /\ cancels \in 0 .. MaxCancels
        /\ \A p \in Pools : orphans[p] \in Nat /\ orphans[p] <= cancels
    BY PoolAssumption DEF TypeInv, TypeOK, PoolKnown
  <1> QED
    BY <1>1

(***************************************************************************)
(* A save that leaves the stream it was reading, or a consumer that does.  *)
(***************************************************************************)
LEMMA TypeAbandon ==
    ASSUME TypeInv, NEW t \in Tasks, Abandon(t)
    PROVE  TypeInv'
  <1> DEFINE r == SubSeq(held[t], 1, Len(held[t]) - 1)
  <1>1. /\ pc[t] = "use" /\ abandoned' = abandoned \union {Top(t)}
        /\ held' = [held EXCEPT ![t] = r] /\ AfterPut(t)
        /\ UNCHANGED <<storage, state, lent, dropped, orphans, row, from, to, closer, calls, closes>>
    BY DEF Abandon, Pop
  <1>2. held[t] \in Seq(Connections) /\ held[t] # <<>> /\ pool # None
    BY <1>1, TaskFacts
  <1>3. Top(t) \in Connections /\ r \in Seq(Connections) /\ (r = <<>> <=> Len(held[t]) = 1)
    BY <1>2, PopFacts DEF Top
  <1>4. todo' \in [Tasks -> Seq({"lock", "stream", "read"})]
    BY TaskFacts DEF Abandon, GiveUp
  <1>5. /\ failures' \in 0 .. MaxFailures /\ cancels' \in 0 .. MaxCancels
        /\ \A p \in Pools : orphans[p] <= cancels'
    BY Spent DEF Abandon
  <1> HIDE DEF r
  <1> QED
    BY <1>1, <1>2, <1>3, <1>4, <1>5 DEF TypeInv, TypeOK, PoolKnown, At, AfterPut, Go, storage, closer

(***************************************************************************)
(* A stream that is collected, jobs without a task, and aclose.            *)
(***************************************************************************)
LEMMA TypeRest ==
    ASSUME TypeInv,
           \/ \E c \in abandoned : Collect(c)
           \/ \E p \in Pools : OrphanGets(p) \/ OrphanEnds(p)
           \/ \E k \in Closers : CloseStart(k) \/ ClosePool(k) \/ CloseEnd(k) \/ CloseRaises(k)
           \/ UNCHANGED vars
    PROVE  TypeInv'
  <1>0. ASSUME NEW k \in Closers, CloseRaises(k) PROVE TypeInv'
    <2>1. /\ failures' \in 0 .. MaxFailures /\ cancels' \in 0 .. MaxCancels
          /\ \A p \in Pools : orphans[p] <= cancels'
      BY <1>0, Spent DEF CloseRaises
    <2>2. /\ state' \in [Pools -> {"new", "open", "closing", "closed"}]
          /\ row' \in Tasks \union {None} /\ draining' \in [Closers -> SUBSET Connections]
      <3>1. /\ state \in [Pools -> {"new", "open", "closing", "closed"}]
            /\ row \in Tasks \union {None} /\ draining \in [Closers -> SUBSET Connections]
        BY DEF TypeInv, TypeOK
      <3>2. \/ Shut(target[k]) /\ draining' = [j \in Closers |-> {c \in draining[j] : c[1] # target[k]}]
            \/ UNCHANGED <<state, row, draining>>
        BY <1>0 DEF CloseRaises
      <3> QED
        BY <3>1, <3>2 DEF Shut
    <2>3. /\ closing' = [closing EXCEPT ![k] = "idle"]
          /\ UNCHANGED <<storage, lent, dropped, abandoned, orphans, pc, locals, target, calls, closes>>
      BY <1>0 DEF CloseRaises
    <2> QED
      BY <2>1, <2>2, <2>3 DEF TypeInv, TypeOK, PoolKnown, At, storage, locals
  <1> USE DEF TypeInv, TypeOK, PoolKnown, At
  <1>1. ASSUME NEW p \in Pools, OrphanGets(p) PROVE TypeInv'
    <2>1. (CHOOSE c \in Idle(p) : TRUE) \in Connections
      BY <1>1, ConnectionFacts DEF OrphanGets
    <2>2. orphans' \in [Pools -> 0 .. MaxCancels] /\ \A q \in Pools : orphans'[q] <= cancels
      BY <1>1, OrphanLess DEF OrphanGets
    <2> QED
      BY <1>1, <2>1, <2>2 DEF OrphanGets, storage, locals, closer, budget
  <1>2. ASSUME NEW p \in Pools, OrphanEnds(p) PROVE TypeInv'
    <2>1. orphans' \in [Pools -> 0 .. MaxCancels] /\ \A q \in Pools : orphans'[q] <= cancels
      BY <1>2, OrphanLess DEF OrphanEnds
    <2> QED
      BY <1>2, <2>1 DEF OrphanEnds, storage, locals, closer, budget
  <1>3. ASSUME NEW k \in Closers, CloseStart(k) PROVE TypeInv'
    <2>1. closes' \in 0 .. MaxCloses
      BY <1>3, PoolAssumption DEF CloseStart
    <2>2. /\ state' \in [Pools -> {"new", "open", "closing", "closed"}]
          /\ draining' \in [Closers -> SUBSET Connections]
      <3> DEFINE out == {c \in lent : c[1] = pool}
      <3>1. out \in SUBSET Connections
        OBVIOUS
      <3>2. \/ /\ state' = [state EXCEPT ![pool] = "closing"]
               /\ draining' = [draining EXCEPT ![k] = out]
            \/ UNCHANGED <<state, draining>>
        BY <1>3 DEF CloseStart
      <3> HIDE DEF out
      <3> QED
        BY <3>1, <3>2
    <2> QED
      BY <1>3, <2>1, <2>2 DEF CloseStart, storage, locals
  <1>4. ASSUME NEW k \in Closers, ClosePool(k) PROVE TypeInv'
    BY <1>4 DEF ClosePool, Shut, storage, locals, budget
  <1>5. ASSUME NEW k \in Closers, CloseEnd(k) PROVE TypeInv'
    BY <1>5 DEF CloseEnd, pools, locals, budget
  <1>6. ASSUME UNCHANGED vars PROVE TypeInv'
    BY <1>6 DEF vars, storage, pools, locals, closer, budget
  <1>7. ASSUME NEW c \in abandoned, Collect(c) PROVE TypeInv'
    <2>1. lent' \subseteq lent /\ draining' \in [Closers -> SUBSET Connections]
      BY <1>7 DEF Collect
    <2> QED
      BY <1>7, <2>1 DEF Collect, storage, locals, budget
  <1> QED
    BY <1>0, <1>1, <1>2, <1>3, <1>4, <1>5, <1>6, <1>7

(***************************************************************************)
(* The steps of the module, one by one.                                    *)
(***************************************************************************)
LEMMA Steps ==
    ASSUME [Next]_vars
    PROVE  \/ \E t \in Tasks :
                 \/ Call(t) \/ FastPath(t) \/ TakeLock(t) \/ GetLock(t) \/ OpenPool(t)
                 \/ CreateTableDone(t) \/ EnsureFails(t)
           \/ \E t \in Tasks :
                 \/ StartGetconn(t) \/ Getconn(t) \/ GetconnFails(t)
                 \/ StartLock(t) \/ TakeRow(t) \/ LockFails(t) \/ StartStream(t) \/ Use(t) \/ Putconn(t)
                 \/ StartRollback(t) \/ Rollback(t)
           \/ \E t \in Tasks : Cancel(t)
           \/ \E t \in Tasks : Abandon(t)
           \/ \E c \in abandoned : Collect(c)
           \/ \E p \in Pools : OrphanGets(p) \/ OrphanEnds(p)
           \/ \E k \in Closers : CloseStart(k) \/ ClosePool(k) \/ CloseEnd(k) \/ CloseRaises(k)
           \/ UNCHANGED vars
  BY Zenon DEF Next, Run, Orphan, Close, Finished

(***************************************************************************)
(* No step spoils the types.                                               *)
(***************************************************************************)
LEMMA TypeNext == TypeInv /\ [Next]_vars => TypeInv'
  <1> SUFFICES ASSUME TypeInv, [Next]_vars PROVE TypeInv'
    OBVIOUS
  <1> QED
    BY Steps, TypeEnsure, TypeAcquire, TypeCancel, TypeAbandon, TypeRest

(***************************************************************************)
(* Every variable keeps its type; no call asks for a connection before a   *)
(* pool is there, or executes a statement without a connection.            *)
(***************************************************************************)
THEOREM TypeCorrect == Spec => []TypeOK
  <1>1. TypeInv => TypeOK
    BY DEF TypeInv
  <1> QED
    BY <1>1, TypeInit, TypeNext, PTL DEF Spec

-----------------------------------------------------------------------------
(* No forgotten pool, and no stale flag.  With one task at a time in       *)
(* aclose: a second one that comes late takes the flag from a pool that is *)
(* in use.                                                                 *)

OneCloser == \A k, l \in Closers : k = l

Opening == {"opening", "ddl"}

\* The lock is held by the task that opens the pool, and it opens one only
\* while there is none.
LockInv ==
    \A t \in Tasks :
        /\ lock = t <=> pc[t] \in Opening
        /\ pc[t] \in Opening => ~opened

\* What a closer closes is the pool in use, and CREATE TABLE has an open one.
PoolInv ==
    /\ \A k \in Closers : closing[k] # "idle" => opened /\ target[k] = pool
    /\ \A k \in Closers : closing[k] = "closed" => state[pool] = "closed"
    /\ \A t \in Tasks : pc[t] = "ddl" => state[pool] = "open"

\* The forgotten pools, and None for a flag that is stale.
Spoiled == Forgotten \union (IF StaleFlag THEN {None} ELSE {})

FewSpoiled == Cardinality(Spoiled) <= failures + cancels

FlagInv == TypeInv /\ LockInv /\ PoolInv

\* A step that is neither of _ensure_pool nor of aclose.
Quiet ==
    /\ UNCHANGED <<opened, pool, lock, state, closing, target>>
    /\ \A u \in Tasks : pc'[u] = pc[u] \/ (pc[u] \notin Opening /\ pc'[u] \notin Opening)
    /\ \/ UNCHANGED <<failures, cancels>>
       \/ failures' = failures + 1 /\ cancels' = cancels
       \/ failures' = failures /\ cancels' = cancels + 1

(***************************************************************************)
(* acquire, the statements, streams, the jobs without a task, and the      *)
(* cancellation of a call that has a pool leave the flag, the lock and the *)
(* pools alone.                                                            *)
(***************************************************************************)
LEMMA QuietSteps ==
    ASSUME TypeOK,
           \/ \E t \in Tasks : Call(t) \/ FastPath(t)
           \/ \E t \in Tasks :
                 \/ StartGetconn(t) \/ Getconn(t) \/ GetconnFails(t)
                 \/ StartLock(t) \/ TakeRow(t) \/ LockFails(t) \/ StartStream(t) \/ Use(t) \/ Putconn(t)
                 \/ StartRollback(t) \/ Rollback(t)
           \/ \E t \in Tasks : Cancel(t) /\ ~CancelOpening(t)
           \/ \E t \in Tasks : Abandon(t)
           \/ \E c \in abandoned : Collect(c)
           \/ \E p \in Pools : OrphanGets(p) \/ OrphanEnds(p)
           \/ UNCHANGED vars
    PROVE  Quiet
  <1> USE DEF Quiet, Opening, Go
  <1>0. pc \in [Tasks -> {"idle", "ensure", "lockWait", "opening", "ddl", "getconn", "getting",
                          "use", "waiting", "aborted", "rolling", "put"}]
    BY DEF TypeOK
  <1>1. ASSUME NEW t \in Tasks, Call(t) \/ FastPath(t) PROVE Quiet
    BY <1>0, <1>1 DEF Call, FastPath, Acquire, storage, pools, closer, budget
  <1>2. ASSUME NEW t \in Tasks, StartGetconn(t) \/ Getconn(t) \/ GetconnFails(t) PROVE Quiet
    BY <1>0, <1>2 DEF StartGetconn, Getconn, GetconnFails, Leave, storage, pools, closer, budget
  <1>3. ASSUME NEW t \in Tasks, StartLock(t) \/ TakeRow(t) \/ LockFails(t) \/ StartStream(t)
        PROVE  Quiet
    BY <1>0, <1>3 DEF StartLock, TakeRow, LockFails, StartStream, Acquire, storage, pools, closer,
                      budget
  <1>4. ASSUME NEW t \in Tasks, Use(t) \/ Putconn(t) PROVE Quiet
    BY <1>0, <1>4 DEF Use, Putconn, AfterPut, storage, closer, budget
  <1>5. ASSUME NEW t \in Tasks, StartRollback(t) \/ Rollback(t) PROVE Quiet
    BY <1>0, <1>5 DEF StartRollback, Rollback, storage, pools, closer, budget
  <1>6. ASSUME NEW t \in Tasks, Cancel(t), ~CancelOpening(t) PROVE Quiet
    <2>1. /\ cancels' = cancels + 1 /\ failures' = failures /\ UNCHANGED <<closing, target>>
          /\ CancelWaiting(t) \/ CancelGetting(t) \/ CancelLock(t) \/ CancelPut(t)
      BY <1>6 DEF Cancel, closer
    <2>2. CASE CancelWaiting(t) \/ CancelGetting(t)
      BY <1>0, <2>1, <2>2 DEF CancelWaiting, CancelGetting, Leave, storage, pools
    <2>3. CASE CancelLock(t) \/ CancelPut(t)
      BY <1>0, <2>1, <2>3 DEF CancelLock, CancelPut, AfterPut, storage
    <2> QED
      BY <2>1, <2>2, <2>3
  <1>7. ASSUME NEW p \in Pools, OrphanGets(p) \/ OrphanEnds(p) PROVE Quiet
    BY <1>7 DEF OrphanGets, OrphanEnds, storage, closer, budget
  <1>8. ASSUME UNCHANGED vars PROVE Quiet
    BY <1>8 DEF vars, storage, pools, closer, budget
  <1>9. ASSUME NEW t \in Tasks, Abandon(t) PROVE Quiet
    BY <1>0, <1>9 DEF Abandon, AfterPut, storage, closer
  <1>10. ASSUME NEW c \in abandoned, Collect(c) PROVE Quiet
    BY <1>10 DEF Collect, storage, budget
  <1> QED
    BY <1>1, <1>2, <1>3, <1>4, <1>5, <1>6, <1>7, <1>8, <1>9, <1>10

(***************************************************************************)
(* Such a step keeps the invariant.                                        *)
(***************************************************************************)
LEMMA QuietFlag ==
    ASSUME LockInv, PoolInv, Quiet
    PROVE  LockInv' /\ PoolInv'
  <1>1. LockInv'
    BY DEF LockInv, Quiet, Opening
  <1>2. PoolInv'
    BY DEF PoolInv, Quiet, Opening
  <1> QED
    BY <1>1, <1>2

(***************************************************************************)
(* The double-checked lock keeps it.                                       *)
(***************************************************************************)
LEMMA EnsureFlag ==
    ASSUME FlagInv, NEW t \in Tasks,
           \/ TakeLock(t) \/ GetLock(t) \/ OpenPool(t) \/ CreateTableDone(t) \/ EnsureFails(t)
           \/ Cancel(t) /\ CancelOpening(t)
    PROVE  LockInv' /\ PoolInv'
  <1> USE DEF Go, FlagInv, LockInv, Opening
  <1>0. /\ pc \in [Tasks -> {"idle", "ensure", "lockWait", "opening", "ddl", "getconn", "getting",
                          "use", "waiting", "aborted", "rolling", "put"}]
        /\ state \in [Pools -> {"new", "open", "closing", "closed"}]
        /\ lock \in Tasks \union {None} /\ None \notin Tasks
    BY PoolAssumption DEF TypeInv, TypeOK
  <1>1. CASE TakeLock(t) \/ GetLock(t)
    <2>1. /\ UNCHANGED <<opened, pool, state, closing, target>>
          /\ \/ opened = FALSE /\ lock = None /\ lock' = t /\ pc' = [pc EXCEPT ![t] = "opening"]
             \/ lock' = lock /\ pc[t] \notin Opening
                   /\ (pc' = [pc EXCEPT ![t] = "lockWait"] \/ pc' = [pc EXCEPT ![t] = "getconn"])
      BY <1>0, <1>1 DEF TakeLock, GetLock, Acquire, pools, closer, TypeInv, TypeOK
    <2>2. LockInv'
      BY <1>0, <2>1
    <2>3. PoolInv'
      BY <1>0, <2>1 DEF PoolInv
    <2> QED
      BY <2>2, <2>3
  <1>2. CASE OpenPool(t)
    <2>1. PICK p \in Pools :
             /\ MakePool(p)
             /\ pool' = p
             /\ IF CreateTable
                THEN opened' = opened /\ lock' = lock /\ Go(t, "ddl") /\ UNCHANGED from
                ELSE opened' = TRUE /\ lock' = None /\ Acquire(t, p)
      BY <1>2 DEF OpenPool
    <2>2. /\ pc[t] = "opening" /\ UNCHANGED <<closing, target>> /\ lock = t /\ ~opened
          /\ state' = [state EXCEPT ![p] = "open"] /\ pool' = p
          /\ \/ opened' = opened /\ lock' = lock /\ pc' = [pc EXCEPT ![t] = "ddl"]
             \/ opened' = TRUE /\ lock' = None /\ pc' = [pc EXCEPT ![t] = "getconn"]
      BY <1>2, <2>1 DEF OpenPool, MakePool, Acquire, closer
    <2>3. LockInv'
      BY <1>0, <2>2
    <2>4. PoolInv'
      BY <1>0, <2>2 DEF PoolInv
    <2> QED
      BY <2>3, <2>4
  <1>3. CASE CreateTableDone(t)
    <2>1. /\ pc[t] = "ddl" /\ UNCHANGED <<pool, state, closing, target>> /\ lock = t /\ ~opened
          /\ opened' = TRUE /\ lock' = None /\ pc' = [pc EXCEPT ![t] = "getconn"]
      BY <1>3 DEF CreateTableDone, Acquire, pools, closer
    <2>2. LockInv'
      BY <1>0, <2>1
    <2>3. PoolInv'
      BY <1>0, <2>1 DEF PoolInv
    <2> QED
      BY <2>2, <2>3
  <1>4. CASE EnsureFails(t) \/ (Cancel(t) /\ CancelOpening(t))
    <2>1. /\ pc[t] \in Opening /\ UNCHANGED <<opened, pool, closing, target>> /\ lock = t /\ ~opened
          /\ lock' = None /\ pc' = [pc EXCEPT ![t] = "idle"]
      BY <1>4 DEF EnsureFails, Cancel, CancelOpening, locals, closer, pools
    <2>2. LockInv'
      BY <1>0, <2>1
    <2>3. \A u \in Tasks : pc'[u] # "ddl"
      BY <1>0, <2>1
    <2>4. PoolInv'
      BY <2>1, <2>3 DEF PoolInv
    <2> QED
      BY <2>2, <2>4
  <1> QED
    BY <1>1, <1>2, <1>3, <1>4

(***************************************************************************)
(* aclose keeps it.                                                        *)
(***************************************************************************)
LEMMA CloseFlag ==
    ASSUME OneCloser, FlagInv, NEW k \in Closers,
           CloseStart(k) \/ ClosePool(k) \/ CloseEnd(k) \/ CloseRaises(k)
    PROVE  LockInv' /\ PoolInv'
  <1> USE DEF FlagInv, LockInv, PoolInv, Opening, OneCloser
  <1>0. /\ state \in [Pools -> {"new", "open", "closing", "closed"}]
        /\ opened => pool \in Pools
        /\ closing \in [Closers -> {"idle", "closing", "closed"}]
        /\ target \in [Closers -> Pools \union {None}]
    BY DEF TypeInv, TypeOK, PoolKnown
  <1>1. UNCHANGED <<pool, lock, pc>>
    BY DEF CloseStart, ClosePool, CloseEnd, CloseRaises, storage
  <1>2. CASE CloseStart(k)
    <2>1. /\ opened /\ opened' = opened /\ closing[k] = "idle"
          /\ target' = [target EXCEPT ![k] = pool] /\ closing' = [closing EXCEPT ![k] = "closing"]
      BY <1>2 DEF CloseStart, storage
    <2> QED
      BY <1>0, <1>1, <2>1
  <1>3. CASE ClosePool(k)
    <2>1. /\ opened' = opened /\ closing[k] = "closing" /\ target' = target
          /\ state' = [state EXCEPT ![target[k]] = "closed"] /\ closing' = [closing EXCEPT ![k] = "closed"]
      BY <1>3 DEF ClosePool, Shut, storage
    <2> QED
      BY <1>0, <1>1, <2>1
  <1>4. CASE CloseEnd(k)
    <2>1. /\ opened' = FALSE /\ closing[k] = "closed" /\ target' = target /\ state' = state
          /\ closing' = [closing EXCEPT ![k] = "idle"]
      BY <1>4 DEF CloseEnd, pools
    <2> QED
      BY <1>0, <1>1, <2>1
  <1>5. CASE CloseRaises(k)
    <2>1. /\ opened' = opened /\ closing[k] # "idle" /\ target' = target
          /\ closing' = [closing EXCEPT ![k] = "idle"]
      BY <1>5 DEF CloseRaises, storage
    <2>2. opened /\ \A t \in Tasks : pc'[t] \notin {"opening", "ddl"}
      BY <1>1, <2>1
    <2> QED
      BY <1>0, <1>1, <2>1, <2>2
  <1> QED
    BY <1>2, <1>3, <1>4, <1>5

(***************************************************************************)
(* There are as many pools as were allowed.                                *)
(***************************************************************************)
LEMMA PoolsFinite == IsFiniteSet(Pools)
  <1>1. 1 \in Int /\ MaxPools \in Int
    BY PoolAssumption
  <1>2. IsFiniteSet(1 .. MaxPools)
    BY ONLY <1>1, FS_Interval
  <1> QED
    BY <1>2 DEF Pools

(***************************************************************************)
(* A step spoils no pool, or one, by a failure or a cancellation.          *)
(***************************************************************************)
LEMMA SpoiledCount ==
    ASSUME TypeOK, FewSpoiled, NEW p,
           \/ /\ Spoiled' \subseteq Spoiled
              /\ failures' + cancels' \in {failures + cancels, failures + cancels + 1}
           \/ /\ Spoiled' \subseteq Spoiled \union {p}
              /\ failures' + cancels' = failures + cancels + 1
    PROVE  FewSpoiled'
  <1>1. IsFiniteSet(Pools)
    BY PoolsFinite
  <1>2. /\ IsFiniteSet(Spoiled) /\ IsFiniteSet(Spoiled \union {p})
        /\ Cardinality(Spoiled) \in Nat
    <2>1. IsFiniteSet(Pools \union {None}) /\ Spoiled \subseteq Pools \union {None}
      BY <1>1, FS_AddElement DEF Spoiled, Forgotten
    <2> QED
      BY <2>1, FS_Subset, FS_AddElement, FS_CardinalityType
  <1>3. /\ Cardinality(Spoiled \union {p}) \in {Cardinality(Spoiled), Cardinality(Spoiled) + 1}
    BY <1>2, FS_AddElement
  <1>4. failures + cancels \in Nat
    BY PoolAssumption DEF TypeOK
  <1>5. CASE /\ Spoiled' \subseteq Spoiled
             /\ failures' + cancels' \in {failures + cancels, failures + cancels + 1}
    <2>1. Cardinality(Spoiled') \in Nat /\ Cardinality(Spoiled') <= Cardinality(Spoiled)
      BY <1>2, <1>5, FS_Subset, FS_CardinalityType
    <2> QED
      BY <1>2, <1>4, <1>5, <2>1 DEF FewSpoiled
  <1>6. CASE /\ Spoiled' \subseteq Spoiled \union {p}
             /\ failures' + cancels' = failures + cancels + 1
    <2>1. /\ Cardinality(Spoiled') \in Nat
          /\ Cardinality(Spoiled') <= Cardinality(Spoiled \union {p})
      BY <1>2, <1>6, FS_Subset, FS_CardinalityType
    <2> QED
      BY <1>2, <1>3, <1>4, <1>6, <2>1 DEF FewSpoiled
  <1> QED
    BY <1>5, <1>6

(***************************************************************************)
(* A step of a call that is cancelled or fails while it opens the pool, or *)
(* creates the table, forgets that pool only.                              *)
(***************************************************************************)
LEMMA GiveUpForgets ==
    ASSUME FlagInv, FewSpoiled, NEW t \in Tasks,
           EnsureFails(t) \/ (Cancel(t) /\ CancelOpening(t))
    PROVE  FewSpoiled'
  <1>1. /\ pc[t] \in Opening /\ UNCHANGED <<opened, pool>> /\ ~opened
        /\ pc' = [pc EXCEPT ![t] = "idle"] /\ lock = t
        /\ state' # state => pc[t] = "opening" /\ \E p \in Pools : MakePool(p)
    BY DEF EnsureFails, Cancel, CancelOpening, Go, pools, FlagInv, LockInv, Opening
  <1>2. failures' + cancels' = failures + cancels + 1
    <2>1. failures \in Nat /\ cancels \in Nat
      BY PoolAssumption DEF FlagInv, TypeInv, TypeOK
    <2>2. \/ failures' = failures + 1 /\ cancels' = cancels
          \/ failures' = failures /\ cancels' = cancels + 1
      BY DEF EnsureFails, Cancel
    <2> QED
      BY <2>1, <2>2
  <1>3. state \in [Pools -> {"new", "open", "closing", "closed"}]
    BY DEF FlagInv, TypeInv, TypeOK
  <1>4. TypeOK /\ ~StaleFlag'
    BY <1>1 DEF FlagInv, TypeInv, StaleFlag
  <1>5. CASE state' = state
    <2>1. Forgotten' \subseteq Forgotten \union {pool}
      BY <1>1, <1>5 DEF Forgotten
    <2>2. Spoiled' \subseteq Spoiled \union {pool}
      BY <1>4, <2>1 DEF Spoiled
    <2> QED
      BY <1>2, <1>4, <2>2, SpoiledCount
  <1>6. CASE state' # state
    <2>1. PICK p \in Pools : state' = [state EXCEPT ![p] = "open"]
      BY <1>1, <1>6 DEF MakePool
    <2>2. pc[t] = "opening" /\ \A u \in Tasks : pc[u] \in Opening => u = t
      BY <1>1, <1>6, PoolAssumption DEF FlagInv, LockInv
    <2>3. At({"ddl"}) = {} /\ At({"ddl"})' = {}
      BY <1>1, <2>2 DEF At, Opening
    <2>4. Forgotten' \subseteq Forgotten \union {p}
      BY <1>1, <1>3, <2>1, <2>3 DEF Forgotten
    <2>5. Spoiled' \subseteq Spoiled \union {p}
      BY <1>4, <2>4 DEF Spoiled
    <2> QED
      BY <1>2, <1>4, <2>5, SpoiledCount
  <1> QED
    BY <1>5, <1>6

(***************************************************************************)
(* Nothing else that opens the pool forgets one.                           *)
(***************************************************************************)
LEMMA EnsureRemembers ==
    ASSUME FlagInv, NEW t \in Tasks,
           TakeLock(t) \/ GetLock(t) \/ OpenPool(t) \/ CreateTableDone(t)
    PROVE  Spoiled' \subseteq Spoiled /\ UNCHANGED <<failures, cancels>>
  <1>0. /\ pc \in [Tasks -> {"idle", "ensure", "lockWait", "opening", "ddl", "getconn", "getting",
                          "use", "waiting", "aborted", "rolling", "put"}]
        /\ state \in [Pools -> {"new", "open", "closing", "closed"}]
        /\ UNCHANGED <<failures, cancels, closing>>
    BY DEF FlagInv, TypeInv, TypeOK, TakeLock, GetLock, OpenPool, CreateTableDone, closer, budget
  <1>1. CASE TakeLock(t) \/ GetLock(t)
    <2>1. /\ UNCHANGED <<opened, pool, state>> /\ pc[t] # "ddl"
          /\ \E l \in {"opening", "lockWait", "getconn"} : pc' = [pc EXCEPT ![t] = l]
      BY <1>1 DEF TakeLock, GetLock, Acquire, Go, pools
    <2>2. At({"ddl"})' = At({"ddl"})
      BY <1>0, <2>1 DEF At
    <2> QED
      BY <1>0, <2>1, <2>2 DEF Spoiled, Forgotten, StaleFlag
  <1>2. CASE OpenPool(t)
    <2>1. PICK p \in Pools :
             /\ MakePool(p)
             /\ pool' = p
             /\ IF CreateTable
                THEN opened' = opened /\ lock' = lock /\ Go(t, "ddl") /\ UNCHANGED from
                ELSE opened' = TRUE /\ lock' = None /\ Acquire(t, p)
      BY <1>2 DEF OpenPool
    <2>2. /\ pc[t] = "opening" /\ ~opened /\ lock = t
          /\ state' = [state EXCEPT ![p] = "open"] /\ pool' = p
          /\ opened' = TRUE \/ pc' = [pc EXCEPT ![t] = "ddl"]
      BY <1>2, <2>1 DEF OpenPool, MakePool, Go, FlagInv, LockInv, Opening
    <2>3. \A u \in Tasks : pc[u] # "ddl"
      BY <2>2, PoolAssumption DEF FlagInv, LockInv, Opening
    <2>4. opened' \/ t \in At({"ddl"})'
      BY <1>0, <2>2 DEF At
    <2>5. p \notin Forgotten'
      BY <2>2, <2>4 DEF Forgotten
    <2>6. \A q \in Pools : q # p /\ state[q] \in {"open", "closing"} => q \in Forgotten
      BY <2>2, <2>3 DEF Forgotten, At
    <2>7. Forgotten' \subseteq Forgotten
      BY <1>0, <2>2, <2>5, <2>6 DEF Forgotten
    <2>8. ~StaleFlag'
      BY <1>0, <2>2 DEF StaleFlag
    <2> QED
      BY <1>0, <2>7, <2>8 DEF Spoiled
  <1>3. CASE CreateTableDone(t)
    <2>1. Forgotten' \subseteq Forgotten
      BY <1>0, <1>3 DEF CreateTableDone, pools, Forgotten
    <2>2. ~StaleFlag'
      BY <1>3 DEF CreateTableDone, pools, StaleFlag, FlagInv, PoolInv
    <2> QED
      BY <1>0, <2>1, <2>2 DEF Spoiled
  <1> QED
    BY <1>0, <1>1, <1>2, <1>3

(***************************************************************************)
(* Nor does aclose, when it comes to its end: as it takes the flag away,   *)
(* the pool is closed.                                                     *)
(***************************************************************************)
LEMMA CloseRemembers ==
    ASSUME FlagInv, NEW k \in Closers,
           CloseStart(k) \/ ClosePool(k) \/ CloseEnd(k)
    PROVE  Spoiled' \subseteq Spoiled /\ UNCHANGED <<failures, cancels>>
  <1>0. /\ state \in [Pools -> {"new", "open", "closing", "closed"}]
        /\ closing \in [Closers -> {"idle", "closing", "closed"}]
        /\ opened => pool \in Pools
        /\ UNCHANGED <<failures, cancels, pool, pc>>
    BY DEF FlagInv, TypeInv, TypeOK, PoolKnown, CloseStart, ClosePool, CloseEnd, storage, budget
  <1>1. At({"ddl"})' = At({"ddl"})
    BY <1>0 DEF At
  <1>2. CASE CloseStart(k)
    <2>1. opened' = opened /\ opened
      BY <1>2 DEF CloseStart, storage
    <2>2. \A p \in Pools : p # pool => state'[p] = state[p]
      BY <1>0, <1>2, <2>1 DEF CloseStart
    <2>3. closing'[k] = "closing"
      BY <1>0, <1>2 DEF CloseStart
    <2> QED
      BY <1>0, <2>1, <2>2, <2>3 DEF Spoiled, Forgotten, StaleFlag
  <1>3. CASE ClosePool(k)
    <2>1. /\ opened' = opened /\ closing'[k] = "closed"
          /\ \A p \in Pools : state'[p] \in {state[p], "closed"}
      BY <1>0, <1>3 DEF ClosePool, Shut, storage
    <2> QED
      BY <1>0, <1>1, <2>1 DEF Spoiled, Forgotten, StaleFlag
  <1>4. CASE CloseEnd(k)
    <2>1. state' = state /\ closing[k] = "closed" /\ ~opened'
      BY <1>4 DEF CloseEnd, pools
    <2>2. state[pool] = "closed"
      BY <2>1 DEF FlagInv, PoolInv
    <2> QED
      BY <1>0, <2>1, <2>2 DEF Spoiled, Forgotten, StaleFlag
  <1> QED
    BY <1>0, <1>2, <1>3, <1>4

(***************************************************************************)
(* An aclose that does not forgets no pool either, but may leave the flag. *)
(***************************************************************************)
LEMMA RaisesSpoils ==
    ASSUME FlagInv, FewSpoiled, NEW k \in Closers, CloseRaises(k)
    PROVE  FewSpoiled'
  <1>1. /\ state \in [Pools -> {"new", "open", "closing", "closed"}]
        /\ failures \in Nat /\ cancels \in Nat /\ TypeOK
    <2>1. TypeOK
      BY DEF FlagInv, TypeInv
    <2>2. state \in [Pools -> {"new", "open", "closing", "closed"}]
      BY <2>1 DEF TypeOK
    <2>3. failures \in Nat /\ cancels \in Nat
      BY <2>1, PoolAssumption DEF TypeOK
    <2> QED
      BY <2>1, <2>2, <2>3
  <1>2. failures' + cancels' = failures + cancels + 1
    <2>1. \/ failures' = failures + 1 /\ cancels' = cancels
          \/ failures' = failures /\ cancels' = cancels + 1
      BY DEF CloseRaises
    <2> QED
      BY <1>1, <2>1
  <1>3. /\ UNCHANGED <<opened, pool, pc>>
        /\ \A p \in Pools : state'[p] \in {state[p], "closed"}
    BY <1>1 DEF CloseRaises, Shut, storage
  <1>4. Forgotten' \subseteq Forgotten
    BY <1>3 DEF Forgotten, At
  <1>5. Spoiled' \subseteq Spoiled \union {None}
    BY <1>4 DEF Spoiled
  <1> QED
    BY <1>1, <1>2, <1>5, SpoiledCount

(***************************************************************************)
(* And a quiet step changes nothing of the sort.                           *)
(***************************************************************************)
LEMMA QuietRemembers ==
    ASSUME TypeOK, Quiet
    PROVE  /\ Spoiled' \subseteq Spoiled
           /\ failures' + cancels' \in {failures + cancels, failures + cancels + 1}
  <1>1. At({"ddl"})' = At({"ddl"})
    BY DEF Quiet, At, Opening
  <1>2. failures \in Nat /\ cancels \in Nat
    BY PoolAssumption DEF TypeOK
  <1>3. failures' + cancels' \in {failures + cancels, failures + cancels + 1}
    BY <1>2 DEF Quiet
  <1> QED
    BY <1>1, <1>3 DEF Quiet, Spoiled, Forgotten, StaleFlag

ForgetInv == FlagInv /\ FewSpoiled

(***************************************************************************)
(* No step spoils the invariant.                                           *)
(***************************************************************************)
LEMMA ForgetNext ==
    ASSUME OneCloser, ForgetInv, [Next]_vars
    PROVE  ForgetInv'
  <1>1. FlagInv /\ TypeInv /\ TypeOK /\ LockInv /\ PoolInv /\ FewSpoiled
    BY DEF ForgetInv, FlagInv, TypeInv
  <1>2. TypeInv'
    BY <1>1, TypeNext
  <1>3. ASSUME Quiet PROVE LockInv' /\ PoolInv' /\ FewSpoiled'
    <2>1. LockInv' /\ PoolInv'
      BY <1>1, <1>3, QuietFlag
    <2>2. FewSpoiled'
      BY <1>1, <1>3, QuietRemembers, SpoiledCount
    <2> QED
      BY <2>1, <2>2
  <1>4. ASSUME Spoiled' \subseteq Spoiled, UNCHANGED <<failures, cancels>>
        PROVE  FewSpoiled'
    <2>1. failures' + cancels' = failures + cancels
      BY <1>4
    <2> QED
      BY <1>1, <1>4, <2>1, SpoiledCount
  <1>5. ASSUME NEW t \in Tasks, TakeLock(t) \/ GetLock(t) \/ OpenPool(t) \/ CreateTableDone(t)
        PROVE  LockInv' /\ PoolInv' /\ FewSpoiled'
    BY <1>1, <1>4, <1>5, EnsureFlag, EnsureRemembers
  <1>6. ASSUME NEW t \in Tasks, EnsureFails(t) \/ (Cancel(t) /\ CancelOpening(t))
        PROVE  LockInv' /\ PoolInv' /\ FewSpoiled'
    BY <1>1, <1>6, EnsureFlag, GiveUpForgets
  <1>7. ASSUME NEW k \in Closers, CloseStart(k) \/ ClosePool(k) \/ CloseEnd(k)
        PROVE  LockInv' /\ PoolInv' /\ FewSpoiled'
    BY <1>1, <1>4, <1>7, CloseFlag, CloseRemembers
  <1>8. ASSUME NEW k \in Closers, CloseRaises(k)
        PROVE  LockInv' /\ PoolInv' /\ FewSpoiled'
    BY <1>1, <1>8, CloseFlag, RaisesSpoils
  <1>9. \/ Quiet
        \/ \E t \in Tasks : TakeLock(t) \/ GetLock(t) \/ OpenPool(t) \/ CreateTableDone(t)
        \/ \E t \in Tasks : EnsureFails(t) \/ (Cancel(t) /\ CancelOpening(t))
        \/ \E k \in Closers : CloseStart(k) \/ ClosePool(k) \/ CloseEnd(k)
        \/ \E k \in Closers : CloseRaises(k)
    BY <1>1, Steps, QuietSteps
  <1> QED
    BY <1>2, <1>3, <1>5, <1>6, <1>7, <1>8, <1>9 DEF ForgetInv, FlagInv

(***************************************************************************)
(* With one task at a time in aclose: each failure or cancellation spoils  *)
(* one pool at most, which is forgotten as its opening was given up, or    *)
(* closed with the flag left on by an aclose that was; nothing else does.  *)
(***************************************************************************)
THEOREM PoolRemembered ==
    ASSUME OneCloser
    PROVE  Spec => []NoForgottenPool
  <1>1. Init => ForgetInv
    <2> SUFFICES ASSUME Init PROVE ForgetInv
      OBVIOUS
    <2>1. TypeInv
      BY TypeInit
    <2>2. LockInv /\ PoolInv
      BY PoolAssumption DEF Init, LockInv, PoolInv, Opening
    <2>3. Spoiled = {} /\ failures = 0 /\ cancels = 0
      BY DEF Init, Spoiled, Forgotten, StaleFlag
    <2>4. FewSpoiled
      BY <2>3, FS_EmptySet DEF FewSpoiled
    <2> QED
      BY <2>1, <2>2, <2>4 DEF ForgetInv, FlagInv
  <1>2. ForgetInv /\ [Next]_vars => ForgetInv'
    BY ForgetNext
  <1>3. ForgetInv => NoForgottenPool
    <2> SUFFICES ASSUME FewSpoiled PROVE NoForgottenPool
      BY DEF ForgetInv
    <2>1. IsFiniteSet(Forgotten) /\ None \notin Forgotten
      BY PoolsFinite, FS_Subset, ConnectionFacts DEF Forgotten
    <2>2. Cardinality(Spoiled) = Cardinality(Forgotten) + (IF StaleFlag THEN 1 ELSE 0)
      <3>1. Cardinality(Forgotten) \in Nat
        BY <2>1, FS_CardinalityType
      <3>2. CASE StaleFlag
        BY <2>1, <3>2, FS_AddElement DEF Spoiled
      <3>3. CASE ~StaleFlag
        BY <3>1, <3>3 DEF Spoiled
      <3> QED
        BY <3>2, <3>3
    <2> QED
      BY <2>2 DEF FewSpoiled, NoForgottenPool
  <1> QED
    BY <1>1, <1>2, <1>3, PTL DEF Spec

-----------------------------------------------------------------------------
(* No lost connection.                                                     *)

Holds(t, c) == \E i \in 1 .. Len(held[t]) : held[t][i] = c

\* No two calls have the same connection, and no call has one twice.
HeldApart ==
    \A t, u \in Tasks : \A i \in 1 .. Len(held[t]), j \in 1 .. Len(held[u]) :
        held[t][i] = held[u][j] => t = u /\ i = j

\* The connections that are lent and that no call will give back.
Gone == dropped \union abandoned

GoneLent == Gone \subseteq lent /\ dropped \intersect abandoned = {}

HeldLent == \A t \in Tasks : \A i \in 1 .. Len(held[t]) : held[t][i] \in lent \ Gone

LentMade == \A c \in lent : state[c[1]] # "new"

\* The pool a connection goes back to is the one that lent it, unless psycopg
\* has another one by now, which then does not need it.
BackAt(t) ==
    /\ pc[t] = "put" => to[t] = Top(t)[1] \/ (driver = "psycopg" /\ Top(t)[1] # pool)
    /\ pc[t] \in {"aborted", "rolling"} => driver = "psycopg"

Back == \A t \in Tasks : BackAt(t)

Accounted ==
    \A c \in lent : c[1] = pool \/ driver = "asyncpg" =>
        c \in Gone \/ \E t \in Tasks : Holds(t, c)

\* One for each getconn job whose task was cancelled.
Orphans == {w \in Pools \X (1 .. MaxCancels) : w[2] <= orphans[w[1]]}

\* A failure or a cancellation costs one connection at most: it is gone already,
\* or a job is going to lose it.
Counted == Cardinality(Gone) + Cardinality(Orphans) <= failures + cancels

\* asyncpg has no such jobs, and its cancelled calls give their connection back.
Tight == driver = "asyncpg" => dropped = {} /\ \A p \in Pools : orphans[p] = 0

HeldInv == HeldApart /\ GoneLent /\ HeldLent /\ LentMade /\ Accounted

(***************************************************************************)
(* The ways in which a step changes who has a connection.                  *)
(***************************************************************************)
Nothing == UNCHANGED <<lent, held, dropped, abandoned>>

Free(c) == c \in Connections /\ c \notin lent /\ state[c[1]] # "new"

Takes(t, c) ==
    /\ Free(c) /\ lent' = lent \union {c}
    /\ held' = [held EXCEPT ![t] = Append(held[t], c)] /\ UNCHANGED <<dropped, abandoned>>

OrphanTakes(c) ==
    /\ Free(c) /\ lent' = lent \union {c}
    /\ dropped' = dropped \union {c} /\ UNCHANGED <<held, abandoned>>

Pops(t) ==
    /\ held[t] # <<>>
    /\ held' = [held EXCEPT ![t] = SubSeq(held[t], 1, Len(held[t]) - 1)]

Returns(t) == Pops(t) /\ lent' = lent \ {Top(t)} /\ UNCHANGED <<dropped, abandoned>>

Keeps(t) ==
    /\ Pops(t) /\ driver = "psycopg" /\ Top(t)[1] # pool
    /\ UNCHANGED <<pool, lent, dropped, abandoned>>

Loses(t) == Pops(t) /\ dropped' = dropped \union {Top(t)} /\ UNCHANGED <<lent, abandoned>>

Abandons(t) == Pops(t) /\ abandoned' = abandoned \union {Top(t)} /\ UNCHANGED <<lent, dropped>>

Collects(c) ==
    /\ c \in abandoned /\ abandoned' = abandoned \ {c} /\ UNCHANGED <<held, dropped, pool>>
    /\ lent' = lent \ {c} \/ (driver = "psycopg" /\ c[1] # pool /\ lent' = lent)

\* The driver is the same for ever, and goes on to new pools only.
PoolMoves ==
    /\ driver' = driver
    /\ pool' = pool \/ (pool' \in Pools /\ state[pool'] = "new")
    /\ \A p \in Pools : state'[p] = "new" => state[p] = "new"

(***************************************************************************)
(* No step goes back to an old pool.                                       *)
(***************************************************************************)
LEMMA PoolsMove ==
    ASSUME TypeOK, [Next]_vars
    PROVE  PoolMoves
  <1> USE DEF PoolMoves
  <1>0. state \in [Pools -> {"new", "open", "closing", "closed"}]
    BY DEF TypeOK
  <1>1. ASSUME Quiet PROVE UNCHANGED <<state, pool>>
    BY <1>1 DEF Quiet
  <1>2. ASSUME NEW t \in Tasks, TakeLock(t) \/ GetLock(t) \/ CreateTableDone(t) \/ EnsureFails(t)
        PROVE  UNCHANGED <<state, pool>>
    BY <1>2 DEF TakeLock, GetLock, CreateTableDone, EnsureFails, pools
  <1>3. ASSUME NEW t \in Tasks, OpenPool(t)
        PROVE  /\ pool' \in Pools /\ state[pool'] = "new"
               /\ \A p \in Pools : state'[p] = "new" => state[p] = "new"
    BY <1>0, <1>3 DEF OpenPool, MakePool
  <1>4. ASSUME NEW t \in Tasks, Cancel(t), CancelOpening(t)
        PROVE  pool' = pool /\ \A p \in Pools : state'[p] = "new" => state[p] = "new"
    BY <1>0, <1>4 DEF CancelOpening, MakePool
  <1>5. ASSUME NEW k \in Closers, CloseStart(k) \/ ClosePool(k) \/ CloseEnd(k) \/ CloseRaises(k)
        PROVE  pool' = pool /\ \A p \in Pools : state'[p] = "new" => state[p] = "new"
    BY <1>0, <1>5 DEF CloseStart, ClosePool, CloseEnd, CloseRaises, Shut, storage, pools
  <1>6. driver' = driver
    <2>1. ASSUME NEW t \in Tasks,
                 \/ Call(t) \/ FastPath(t) \/ TakeLock(t) \/ GetLock(t) \/ OpenPool(t)
                 \/ CreateTableDone(t) \/ EnsureFails(t)
          PROVE  driver' = driver
      BY <2>1 DEF Call, FastPath, TakeLock, GetLock, OpenPool, CreateTableDone, EnsureFails, storage
    <2>2. ASSUME NEW t \in Tasks,
                 \/ StartGetconn(t) \/ Getconn(t) \/ GetconnFails(t)
                 \/ StartLock(t) \/ TakeRow(t) \/ LockFails(t) \/ StartStream(t) \/ Use(t) \/ Putconn(t)
                 \/ StartRollback(t) \/ Rollback(t)
          PROVE  driver' = driver
      BY <2>2 DEF StartGetconn, Getconn, GetconnFails, StartLock, TakeRow, LockFails, StartStream, Use,
                  Putconn, StartRollback, Rollback, storage
    <2>3. ASSUME NEW t \in Tasks, Cancel(t) PROVE driver' = driver
      BY <2>3 DEF Cancel, CancelOpening, CancelWaiting, CancelGetting, CancelLock, CancelPut, storage
    <2>4. ASSUME NEW p \in Pools, OrphanGets(p) \/ OrphanEnds(p) PROVE driver' = driver
      BY <2>4 DEF OrphanGets, OrphanEnds, storage
    <2>5. ASSUME NEW k \in Closers, CloseStart(k) \/ ClosePool(k) \/ CloseEnd(k) \/ CloseRaises(k)
          PROVE  driver' = driver
      BY <2>5 DEF CloseStart, ClosePool, CloseEnd, CloseRaises, storage
    <2>6. ASSUME UNCHANGED vars PROVE driver' = driver
      BY <2>6 DEF vars, storage
    <2>7. ASSUME NEW t \in Tasks, Abandon(t) PROVE driver' = driver
      BY <2>7 DEF Abandon, storage
    <2>8. ASSUME NEW c \in abandoned, Collect(c) PROVE driver' = driver
      BY <2>8 DEF Collect, storage
    <2> QED
      BY <2>1, <2>2, <2>3, <2>4, <2>5, <2>6, <2>7, <2>8, Steps
  <1>7. \/ Quiet
        \/ \E t \in Tasks : TakeLock(t) \/ GetLock(t) \/ CreateTableDone(t) \/ EnsureFails(t)
        \/ \E t \in Tasks : OpenPool(t)
        \/ \E t \in Tasks : Cancel(t) /\ CancelOpening(t)
        \/ \E k \in Closers : CloseStart(k) \/ ClosePool(k) \/ CloseEnd(k) \/ CloseRaises(k)
    BY Steps, QuietSteps
  <1> QED
    BY <1>1, <1>2, <1>3, <1>4, <1>5, <1>6, <1>7

(***************************************************************************)
(* What a step does to the connections that are out.                       *)
(***************************************************************************)
LEMMA HandSteps ==
    ASSUME TypeInv, Back, [Next]_vars
    PROVE  \/ Nothing
           \/ \E t \in Tasks : Returns(t) \/ Keeps(t) \/ Loses(t) \/ Abandons(t)
           \/ \E c \in Connections : Collects(c)
           \/ \E c \in Connections : OrphanTakes(c) \/ \E t \in Tasks : Takes(t, c)
  <1> USE DEF Nothing
  <1>0. /\ \A p \in Pools : \A c \in Idle(p) : c \in Connections /\ c[1] = p /\ c \notin lent
        /\ \A t \in Tasks : pc[t] \in {"getting", "put"} =>
               (pc[t] = "getting" => from[t] \in Pools) /\ (pc[t] = "put" => held[t] # <<>>)
    BY ConnectionFacts DEF TypeInv, TypeOK, At
  <1>1. ASSUME NEW t \in Tasks,
               \/ Call(t) \/ FastPath(t) \/ TakeLock(t) \/ GetLock(t) \/ OpenPool(t)
               \/ CreateTableDone(t) \/ EnsureFails(t)
        PROVE  Nothing
    BY <1>1 DEF Call, FastPath, TakeLock, GetLock, OpenPool, CreateTableDone, EnsureFails, pools, locals
  <1>2. ASSUME NEW t \in Tasks,
               \/ StartGetconn(t) \/ GetconnFails(t) \/ StartLock(t) \/ TakeRow(t) \/ LockFails(t)
               \/ StartStream(t) \/ Use(t) \/ StartRollback(t) \/ Rollback(t)
        PROVE  Nothing
    BY <1>2 DEF StartGetconn, GetconnFails, StartLock, TakeRow, LockFails, StartStream, Use,
                StartRollback, Rollback, pools, locals
  <1>3. ASSUME NEW t \in Tasks, Getconn(t) PROVE \E c \in Connections : Takes(t, c)
    <2> DEFINE c == CHOOSE c \in Idle(from[t]) : TRUE
    <2>1. /\ from[t] \in Pools /\ Idle(from[t]) # {} /\ state[from[t]] \in {"open", "closing"}
          /\ lent' = lent \union {c} /\ UNCHANGED <<dropped, abandoned>>
          /\ held' = [held EXCEPT ![t] = Append(held[t], c)]
      BY <1>0, <1>3 DEF Getconn
    <2>2. c \in Idle(from[t])
      BY <2>1
    <2>3. Free(c)
      BY <1>0, <2>1, <2>2 DEF Free
    <2> QED
      BY <2>1, <2>3 DEF Takes, Free
  <1>4. ASSUME NEW t \in Tasks, Putconn(t) PROVE Returns(t) \/ Keeps(t)
    <2>1. pc[t] = "put" /\ Pops(t) /\ pool' = pool /\ UNCHANGED <<dropped, abandoned>>
      BY <1>0, <1>4 DEF Putconn, Pop, Pops, storage
    <2>2. CASE to[t] = Top(t)[1]
      BY <1>4, <2>1, <2>2 DEF Putconn, Returns
    <2>3. CASE to[t] # Top(t)[1]
      BY <1>4, <2>1, <2>3 DEF Putconn, Keeps, Back, BackAt
    <2> QED
      BY <2>2, <2>3
  <1>5. ASSUME NEW t \in Tasks, Cancel(t) PROVE Nothing \/ Loses(t)
    <2>0. abandoned' = abandoned
      BY <1>5 DEF Cancel
    <2>1. CASE CancelOpening(t) \/ CancelWaiting(t) \/ CancelGetting(t) \/ CancelLock(t)
      BY <2>0, <2>1 DEF CancelOpening, CancelWaiting, CancelGetting, CancelLock, pools
    <2>2. CASE CancelPut(t)
      BY <1>0, <2>0, <2>2 DEF CancelPut, Pop, Pops, Loses
    <2> QED
      BY <1>5, <2>1, <2>2 DEF Cancel
  <1>6. ASSUME NEW p \in Pools, OrphanGets(p) PROVE \E c \in Connections : OrphanTakes(c)
    <2> DEFINE c == CHOOSE c \in Idle(p) : TRUE
    <2>1. /\ Idle(p) # {} /\ state[p] = "open" /\ UNCHANGED <<held, abandoned>>
          /\ lent' = lent \union {c} /\ dropped' = dropped \union {c}
      BY <1>6 DEF OrphanGets, locals
    <2>2. c \in Idle(p)
      BY <2>1
    <2>3. Free(c)
      BY <1>0, <2>1, <2>2 DEF Free
    <2> QED
      BY <2>1, <2>3 DEF OrphanTakes, Free
  <1>7. ASSUME NEW p \in Pools, OrphanEnds(p) PROVE Nothing
    BY <1>7 DEF OrphanEnds, locals
  <1>8. ASSUME NEW k \in Closers, CloseStart(k) \/ ClosePool(k) \/ CloseEnd(k) \/ CloseRaises(k)
        PROVE  Nothing
    BY <1>8 DEF CloseStart, ClosePool, CloseEnd, CloseRaises, pools, locals
  <1>9. ASSUME UNCHANGED vars PROVE Nothing
    BY <1>9 DEF vars, pools, locals
  <1>10. ASSUME NEW t \in Tasks, Abandon(t) PROVE Abandons(t)
    <2>1. held[t] # <<>>
      BY <1>10 DEF Abandon, TypeInv, TypeOK, At
    <2> QED
      BY <1>10, <2>1 DEF Abandon, Pop, Pops, Abandons
  <1>11. ASSUME NEW c \in abandoned, Collect(c) PROVE c \in Connections /\ Collects(c)
    <2>1. driver \in {"psycopg", "asyncpg"} /\ c \in Connections
      BY PoolAssumption DEF TypeInv, TypeOK
    <2> QED
      BY <1>11, <2>1 DEF Collect, Collects, storage, locals
  <1> HIDE DEF Nothing
  <1> QED
    BY <1>1, <1>2, <1>3, <1>4, <1>5, <1>6, <1>7, <1>8, <1>9, <1>10, <1>11, Steps

(***************************************************************************)
(* What is left of a call's connections when it parts with the last.       *)
(***************************************************************************)
LEMMA Popped ==
    ASSUME TypeOK, NEW t \in Tasks, Pops(t)
    PROVE  /\ Len(held[t]) \in Nat \ {0} /\ Len(held'[t]) = Len(held[t]) - 1
           /\ \A i \in 1 .. Len(held[t]) - 1 : held'[t][i] = held[t][i]
           /\ \A u \in Tasks : u # t => held'[u] = held[u]
           /\ \A u \in Tasks : \A i \in 1 .. Len(held'[u]) :
                  i \in 1 .. Len(held[u]) /\ held'[u][i] = held[u][i] /\ ~(u = t /\ i = Len(held[t]))
           /\ \A u \in Tasks : \A c : Holds(u, c) => c = Top(t) \/ Holds(u, c)'
  <1> DEFINE s == held[t]
             r == SubSeq(held[t], 1, Len(held[t]) - 1)
  <1>1. held \in [Tasks -> Seq(Connections)] /\ s \in Seq(Connections) /\ s # <<>>
    BY DEF TypeOK, Pops
  <1>2. /\ Len(s) \in Nat \ {0} /\ Len(r) = Len(s) - 1
        /\ \A i \in 1 .. Len(s) - 1 : r[i] = s[i]
    BY <1>1, PopFacts
  <1>3. held' = [held EXCEPT ![t] = r]
    BY DEF Pops
  <1> HIDE DEF r
  <1>4. /\ Len(held'[t]) = Len(held[t]) - 1
        /\ \A i \in 1 .. Len(held[t]) - 1 : held'[t][i] = held[t][i]
        /\ \A u \in Tasks : u # t => held'[u] = held[u]
    BY <1>1, <1>2, <1>3
  <1>5. ASSUME NEW u \in Tasks, NEW i \in 1 .. Len(held'[u])
        PROVE  i \in 1 .. Len(held[u]) /\ held'[u][i] = held[u][i] /\ ~(u = t /\ i = Len(held[t]))
    <2>1. CASE u = t
      BY <1>2, <1>4, <1>5, <2>1
    <2>2. CASE u # t
      BY <1>4, <1>5, <2>2
    <2> QED
      BY <2>1, <2>2
  <1>6. ASSUME NEW u \in Tasks, NEW c, Holds(u, c), c # Top(t)
        PROVE  Holds(u, c)'
    <2>1. PICK i \in 1 .. Len(held[u]) : held[u][i] = c
      BY <1>6 DEF Holds
    <2>2. i \in 1 .. Len(held'[u]) /\ held'[u][i] = c
      <3>1. CASE u = t
        <4>1. i # Len(held[t])
          BY <1>6, <2>1, <3>1 DEF Top
        <4>2. i \in 1 .. Len(held[t]) - 1
          BY <1>2, <2>1, <3>1, <4>1
        <4> QED
          BY <1>4, <2>1, <3>1, <4>2
      <3>2. CASE u # t
        BY <1>4, <2>1, <3>2
      <3> QED
        BY <3>1, <3>2
    <2> QED
      BY <2>2 DEF Holds
  <1> QED
    BY <1>2, <1>4, <1>5, <1>6

(***************************************************************************)
(* A call that gives a connection back, keeps it or loses it, or leaves it *)
(* to a stream.                                                            *)
(***************************************************************************)
LEMMA PartKept ==
    ASSUME TypeInv, TypeInv', HeldInv, PoolMoves, NEW t \in Tasks,
           Returns(t) \/ Keeps(t) \/ Loses(t) \/ Abandons(t)
    PROVE  HeldInv'
  <1>1. TypeOK /\ TypeOK' /\ Pops(t)
    BY DEF TypeInv, Returns, Keeps, Loses, Abandons
  <1>2. /\ \A u \in Tasks : \A i \in 1 .. Len(held'[u]) :
               i \in 1 .. Len(held[u]) /\ held'[u][i] = held[u][i] /\ ~(u = t /\ i = Len(held[t]))
        /\ \A u \in Tasks : \A c : Holds(u, c) => c = Top(t) \/ Holds(u, c)'
        /\ Len(held[t]) \in Nat \ {0}
    BY <1>1, Popped
  <1>3. Top(t) = held[t][Len(held[t])] /\ Len(held[t]) \in 1 .. Len(held[t])
    BY <1>2 DEF Top
  <1>4. HeldApart'
    BY <1>2 DEF HeldApart, HeldInv
  <1>5. lent' \subseteq lent /\ \A c \in lent : c \notin lent' => c = Top(t) /\ Returns(t)
    BY DEF Returns, Keeps, Loses, Abandons
  <1>12. Gone \subseteq Gone' /\ Gone' \subseteq Gone \union {Top(t)}
    BY DEF Returns, Keeps, Loses, Abandons, Gone
  <1>13. Top(t) \in lent /\ Top(t) \notin Gone
    BY <1>3 DEF HeldLent, HeldInv
  <1>14. GoneLent'
    <2>1. CASE Returns(t)
      BY <1>13, <2>1 DEF Returns, GoneLent, Gone, HeldInv
    <2>2. CASE Keeps(t) \/ Loses(t) \/ Abandons(t)
      BY <1>13, <2>2 DEF Keeps, Loses, Abandons, GoneLent, Gone, HeldInv
    <2> QED
      BY <2>1, <2>2
  <1>6. \A u \in Tasks : \A i \in 1 .. Len(held'[u]) : held'[u][i] # Top(t)
    BY <1>2, <1>3 DEF HeldApart, HeldInv
  <1>7. HeldLent'
    BY <1>2, <1>5, <1>6, <1>12 DEF HeldLent, HeldInv
  <1>8. \A c \in lent : c[1] \in Pools
    BY <1>1, ConnectionFacts DEF TypeOK
  <1>9. LentMade'
    BY <1>5, <1>8 DEF LentMade, HeldInv, PoolMoves
  <1>10. ASSUME NEW c \in lent', c[1] = pool' \/ driver' = "asyncpg"
         PROVE  c \in Gone' \/ \E u \in Tasks : Holds(u, c)'
    <2>1. c \in lent /\ state[c[1]] # "new" /\ driver' = driver
      BY <1>5, <1>10 DEF LentMade, HeldInv, PoolMoves
    <2>2. c[1] = pool \/ driver = "asyncpg"
      BY <1>10, <2>1 DEF PoolMoves
    <2>3. c \in Gone \/ \E u \in Tasks : Holds(u, c)
      BY <2>1, <2>2 DEF Accounted, HeldInv
    <2>5. CASE c # Top(t)
      BY <1>2, <1>12, <2>3, <2>5
    <2>6. CASE c = Top(t)
      <3>1. ~Returns(t)
        BY <1>10, <2>6 DEF Returns
      <3>2. ~Keeps(t)
        BY <2>2, <2>6 DEF Keeps
      <3> QED
        BY <2>6, <3>1, <3>2 DEF Loses, Abandons, Gone
    <2> QED
      BY <2>5, <2>6
  <1>11. Accounted'
    BY <1>10 DEF Accounted
  <1> QED
    BY <1>4, <1>7, <1>9, <1>11, <1>14 DEF HeldInv

(***************************************************************************)
(* A call that takes a connection.                                         *)
(***************************************************************************)
LEMMA TakeKept ==
    ASSUME TypeInv, TypeInv', HeldInv, PoolMoves, NEW t \in Tasks, NEW c \in Connections, Takes(t, c)
    PROVE  HeldInv'
  <1>1. TypeOK
    BY DEF TypeInv
  <1>2. /\ held \in [Tasks -> Seq(Connections)] /\ lent' = lent \union {c} /\ Gone' = Gone
        /\ c \notin lent /\ state[c[1]] # "new" /\ lent \subseteq Connections
        /\ held' = [held EXCEPT ![t] = Append(held[t], c)]
    BY <1>1 DEF TypeOK, Takes, Free, Gone
  <1>3. /\ Len(held[t]) \in Nat /\ Len(held'[t]) = Len(held[t]) + 1
        /\ held'[t][Len(held[t]) + 1] = c
        /\ \A i \in 1 .. Len(held[t]) : held'[t][i] = held[t][i]
        /\ \A u \in Tasks : u # t => held'[u] = held[u]
    BY <1>2, AppendFacts
  <1>4. ASSUME NEW u \in Tasks, NEW i \in 1 .. Len(held'[u])
        PROVE  \/ i \in 1 .. Len(held[u]) /\ held'[u][i] = held[u][i] /\ held'[u][i] \in lent \ Gone
               \/ u = t /\ i = Len(held[t]) + 1 /\ held'[u][i] = c
    <2>1. CASE u = t
      <3>1. i \in 1 .. Len(held[t]) \/ i = Len(held[t]) + 1
        BY <1>3, <1>4, <2>1
      <3> QED
        BY <1>3, <2>1, <3>1 DEF HeldLent, HeldInv
    <2>2. CASE u # t
      BY <1>3, <1>4, <2>2 DEF HeldLent, HeldInv
    <2> QED
      BY <2>1, <2>2
  <1>5. HeldApart'
    <2> SUFFICES ASSUME NEW u \in Tasks, NEW v \in Tasks,
                        NEW i \in 1 .. Len(held'[u]), NEW j \in 1 .. Len(held'[v]),
                        held'[u][i] = held'[v][j]
                 PROVE  u = v /\ i = j
      BY DEF HeldApart
    <2>1. CASE held'[u][i] = c
      <3>1. held'[u][i] \notin lent /\ held'[v][j] \notin lent
        BY <1>2, <2>1
      <3>2. u = t /\ i = Len(held[t]) + 1
        BY <1>4, <3>1
      <3>3. v = t /\ j = Len(held[t]) + 1
        BY <1>4, <3>1
      <3> QED
        BY <3>2, <3>3
    <2>2. CASE held'[u][i] # c
      <3>1. i \in 1 .. Len(held[u]) /\ held'[u][i] = held[u][i]
        BY <1>4, <2>2
      <3>2. j \in 1 .. Len(held[v]) /\ held'[v][j] = held[v][j]
        BY <1>4, <2>2
      <3>3. held[u][i] = held[v][j]
        BY <3>1, <3>2
      <3> QED
        BY <3>1, <3>2, <3>3 DEF HeldApart, HeldInv
    <2> QED
      BY <2>1, <2>2
  <1>6. GoneLent' /\ HeldLent'
    <2>1. Gone \subseteq lent /\ dropped \intersect abandoned = {}
      BY DEF GoneLent, HeldInv
    <2>2. GoneLent'
      BY <1>2, <2>1 DEF GoneLent, Takes
    <2>3. HeldLent'
      BY <1>2, <1>4, <2>1 DEF HeldLent
    <2> QED
      BY <2>2, <2>3
  <1>7. \A d \in lent' : d[1] \in Pools /\ state[d[1]] # "new"
    BY <1>2, ConnectionFacts DEF LentMade, HeldInv
  <1>8. LentMade'
    BY <1>7 DEF LentMade, PoolMoves
  <1>9. \A u \in Tasks : \A d : Holds(u, d) => Holds(u, d)'
    <2> SUFFICES ASSUME NEW u \in Tasks, NEW d, NEW i \in 1 .. Len(held[u]), held[u][i] = d
                 PROVE  \E j \in 1 .. Len(held'[u]) : held'[u][j] = d
      BY DEF Holds
    <2>1. i \in 1 .. Len(held'[u]) /\ held'[u][i] = d
      BY <1>3
    <2> QED
      BY <2>1
  <1>10. Holds(t, c)'
    <2>1. Len(held[t]) + 1 \in 1 .. Len(held'[t])
      BY <1>3
    <2> QED
      BY <1>3, <2>1 DEF Holds
  <1>11. Accounted'
    <2> SUFFICES ASSUME NEW d \in lent', d[1] = pool' \/ driver' = "asyncpg"
                 PROVE  d \in Gone' \/ \E u \in Tasks : Holds(u, d)'
      BY DEF Accounted
    <2>1. d[1] = pool \/ driver = "asyncpg"
      BY <1>7 DEF PoolMoves
    <2>2. CASE d = c
      BY <1>10, <2>2
    <2>3. CASE d \in lent
      <3>1. d \in Gone \/ \E u \in Tasks : Holds(u, d)
        BY <2>1, <2>3 DEF Accounted, HeldInv
      <3> QED
        BY <1>2, <1>9, <3>1
    <2> QED
      BY <1>2, <2>2, <2>3
  <1> QED
    BY <1>5, <1>6, <1>8, <1>11 DEF HeldInv

(***************************************************************************)
(* A job that takes one for a call that is gone, a stream that gives one   *)
(* back, and any other step.                                               *)
(***************************************************************************)
LEMMA RestKept ==
    ASSUME TypeInv, HeldInv, PoolMoves,
           Nothing \/ \E c \in Connections : OrphanTakes(c) \/ Collects(c)
    PROVE  HeldInv'
  <1>1. /\ held' = held
        /\ \A c \in lent' : \/ c \in lent
                            \/ c \in Gone' /\ c \in Connections /\ state[c[1]] # "new"
    BY DEF Nothing, OrphanTakes, Collects, Free, Gone
  <1>7. \A c \in lent \ Gone : c \in lent' \ Gone'
    <2>1. ASSUME NEW c \in Connections, OrphanTakes(c) PROVE c \notin lent /\ Gone' = Gone \union {c}
      BY <2>1 DEF OrphanTakes, Free, Gone
    <2>2. ASSUME NEW c \in Connections, Collects(c)
          PROVE  c \in Gone /\ Gone' \subseteq Gone /\ lent \ {c} \subseteq lent'
      BY <2>2 DEF Collects, Gone
    <2>3. CASE Nothing
      BY <2>3 DEF Nothing, Gone
    <2>4. CASE \E c \in Connections : OrphanTakes(c)
      BY <2>1, <2>4 DEF OrphanTakes
    <2>5. CASE \E c \in Connections : Collects(c)
      BY <2>2, <2>5
    <2> QED
      BY <2>3, <2>4, <2>5
  <1>8. GoneLent'
    <2>1. CASE Nothing
      BY <2>1 DEF Nothing, GoneLent, Gone, HeldInv
    <2>2. CASE \E c \in Connections : OrphanTakes(c)
      BY <2>2 DEF OrphanTakes, Free, GoneLent, Gone, HeldInv
    <2>3. CASE \E c \in Connections : Collects(c)
      BY <2>3 DEF Collects, GoneLent, Gone, HeldInv
    <2> QED
      BY <2>1, <2>2, <2>3
  <1>9. \A c \in Gone \intersect lent' : c \in Gone' \/ (driver = "psycopg" /\ c[1] # pool')
    BY DEF Nothing, OrphanTakes, Collects, Gone, GoneLent, HeldInv
  <1>2. \A c \in lent' : c[1] \in Pools /\ state[c[1]] # "new"
    BY <1>1, ConnectionFacts DEF TypeInv, TypeOK, HeldInv, LentMade
  <1>3. HeldApart' /\ HeldLent'
    BY <1>1, <1>7 DEF HeldApart, HeldLent, HeldInv
  <1>4. LentMade'
    BY <1>2 DEF LentMade, PoolMoves
  <1>5. \A c \in lent' : c[1] = pool' \/ driver' = "asyncpg" => c[1] = pool \/ driver = "asyncpg"
    BY <1>2 DEF PoolMoves
  <1>6. Accounted'
    <2> SUFFICES ASSUME NEW c \in lent', c[1] = pool' \/ driver' = "asyncpg", c \notin Gone'
                 PROVE  \E t \in Tasks : Holds(t, c)'
      BY DEF Accounted
    <2>1. c \in lent /\ (c[1] = pool \/ driver = "asyncpg")
      BY <1>1, <1>5
    <2>2. c \notin Gone
      BY <1>9 DEF PoolMoves
    <2> QED
      BY <1>1, <2>1, <2>2 DEF Accounted, HeldInv, Holds
  <1> QED
    BY <1>3, <1>4, <1>6, <1>8 DEF HeldInv

\* A step that does not bring this call to putconn, or to its ROLLBACK.
Settled(t) ==
    /\ pc'[t] = "put" => pc[t] = "put" /\ held'[t] = held[t] /\ to'[t] = to[t]
    /\ pc'[t] \in {"aborted", "rolling"} => pc[t] \in {"aborted", "rolling"}

(***************************************************************************)
(* A call that is not at the step keeps its way back: a new pool is not    *)
(* the one its connection is from.                                         *)
(***************************************************************************)
LEMMA BackSettled ==
    ASSUME TypeInv, HeldInv, PoolMoves, NEW t \in Tasks, BackAt(t), Settled(t)
    PROVE  BackAt(t)'
  <1>1. driver' = driver
    BY DEF PoolMoves
  <1>2. ASSUME pc'[t] = "put"
        PROVE  to'[t] = Top(t)'[1] \/ (driver = "psycopg" /\ Top(t)'[1] # pool')
    <2>1. pc[t] = "put" /\ held'[t] = held[t] /\ to'[t] = to[t]
      BY <1>2 DEF Settled
    <2>2. Top(t)' = Top(t)
      BY <2>1 DEF Top
    <2>3. held[t] \in Seq(Connections) /\ held[t] # <<>>
      BY <2>1 DEF TypeInv, TypeOK, At
    <2>4. Len(held[t]) \in 1 .. Len(held[t]) /\ Top(t) \in lent
      BY <2>3, PopFacts DEF Top, HeldInv, HeldLent
    <2>5. state[Top(t)[1]] # "new"
      BY <2>4 DEF HeldInv, LentMade
    <2> QED
      BY <2>1, <2>2, <2>5 DEF BackAt, PoolMoves
  <1> QED
    BY <1>1, <1>2 DEF BackAt, Settled

(***************************************************************************)
(* The steps that bring a call to putconn, or to its ROLLBACK, are three.  *)
(***************************************************************************)
LEMMA SettledSteps ==
    ASSUME TypeOK, [Next]_vars
    PROVE  \A u \in Tasks : Settled(u) \/ Use(u) \/ Rollback(u) \/ CancelLock(u)
  <1> SUFFICES ASSUME NEW u \in Tasks, ~Use(u), ~Rollback(u), ~CancelLock(u)
               PROVE  Settled(u)
    OBVIOUS
  <1> USE DEF Settled, Go
  <1>0. /\ pc \in [Tasks -> {"idle", "ensure", "lockWait", "opening", "ddl", "getconn", "getting",
                             "use", "waiting", "aborted", "rolling", "put"}]
        /\ held \in [Tasks -> Seq(Connections)] /\ to \in [Tasks -> Pools \union {None}]
    BY DEF TypeOK
  <1>1. ASSUME NEW t \in Tasks,
               \/ Call(t) \/ FastPath(t) \/ TakeLock(t) \/ GetLock(t) \/ CreateTableDone(t)
               \/ EnsureFails(t)
        PROVE  Settled(u)
    BY <1>0, <1>1 DEF Call, FastPath, TakeLock, GetLock, CreateTableDone, EnsureFails, Acquire, locals
  <1>2. ASSUME NEW t \in Tasks, OpenPool(t) PROVE Settled(u)
    <2>1. /\ UNCHANGED <<held, to>>
          /\ pc' = [pc EXCEPT ![t] = "ddl"] \/ pc' = [pc EXCEPT ![t] = "getconn"]
      BY <1>2 DEF OpenPool, Acquire
    <2> QED
      BY <1>0, <2>1
  <1>3. ASSUME NEW t \in Tasks,
               \/ StartGetconn(t) \/ Getconn(t) \/ GetconnFails(t) \/ StartLock(t) \/ TakeRow(t)
               \/ LockFails(t) \/ StartStream(t)
        PROVE  Settled(u)
    BY <1>0, <1>3 DEF StartGetconn, Getconn, GetconnFails, StartLock, TakeRow, LockFails, StartStream,
                      Leave, Acquire, locals
  <1>4. ASSUME NEW t \in Tasks, Use(t) \/ Rollback(t) PROVE Settled(u)
    <2>1. t # u
      BY <1>4
    <2>2. /\ held' = held /\ pc' = [pc EXCEPT ![t] = "put"]
          /\ \E p : to' = [to EXCEPT ![t] = p]
      BY <1>4 DEF Use, Rollback
    <2> QED
      BY <1>0, <2>1, <2>2
  <1>5. ASSUME NEW t \in Tasks, Putconn(t) \/ Abandon(t) PROVE Settled(u)
    <2>1. /\ pc' = [pc EXCEPT ![t] = "idle"] \/ pc' = [pc EXCEPT ![t] = "use"]
          /\ to' = to /\ \E r : held' = [held EXCEPT ![t] = r]
      BY <1>5 DEF Putconn, Abandon, Pop, AfterPut
    <2> QED
      BY <1>0, <2>1
  <1>6. ASSUME NEW t \in Tasks, StartRollback(t) PROVE Settled(u)
    BY <1>0, <1>6 DEF StartRollback, locals
  <1>7. ASSUME NEW t \in Tasks, Cancel(t) PROVE Settled(u)
    <2>1. to' = to
      BY <1>7 DEF Cancel
    <2>2. CASE CancelOpening(t) \/ CancelWaiting(t) \/ CancelGetting(t)
      BY <1>0, <2>1, <2>2 DEF CancelOpening, CancelWaiting, CancelGetting, Leave
    <2>3. CASE CancelLock(t)
      <3>1. /\ t # u /\ held' = held
            /\ pc' = [pc EXCEPT ![t] = "aborted"] \/ pc' = [pc EXCEPT ![t] = "use"]
        BY <2>3 DEF CancelLock
      <3> QED
        BY <1>0, <2>1, <3>1
    <2>4. CASE CancelPut(t)
      <3>1. /\ pc' = [pc EXCEPT ![t] = "idle"] \/ pc' = [pc EXCEPT ![t] = "use"]
            /\ \E r : held' = [held EXCEPT ![t] = r]
        BY <2>4 DEF CancelPut, Pop, AfterPut
      <3> QED
        BY <1>0, <2>1, <3>1
    <2> QED
      BY <1>7, <2>2, <2>3, <2>4 DEF Cancel
  <1>8. ASSUME \/ \E p \in Pools : OrphanGets(p) \/ OrphanEnds(p)
               \/ \E c \in abandoned : Collect(c)
               \/ \E k \in Closers : CloseStart(k) \/ ClosePool(k) \/ CloseEnd(k) \/ CloseRaises(k)
               \/ UNCHANGED vars
        PROVE  Settled(u)
    BY <1>8 DEF OrphanGets, OrphanEnds, Collect, CloseStart, ClosePool, CloseEnd, CloseRaises, locals,
                vars
  <1> HIDE DEF Settled, Go
  <1> QED
    BY <1>1, <1>2, <1>3, <1>4, <1>5, <1>6, <1>7, <1>8, Steps

(***************************************************************************)
(* A connection goes back to the pool that lent it, unless that pool is    *)
(* not the driver's any more.                                              *)
(***************************************************************************)
LEMMA BackKept ==
    ASSUME TypeInv, HeldInv, Back, [Next]_vars
    PROVE  Back'
  <1>1. TypeOK /\ PoolMoves
    BY PoolsMove DEF TypeInv
  <1>2. pc \in [Tasks -> {"idle", "ensure", "lockWait", "opening", "ddl", "getconn", "getting",
                          "use", "waiting", "aborted", "rolling", "put"}]
        /\ to \in [Tasks -> Pools \union {None}] /\ driver' = driver
    BY <1>1 DEF TypeOK, PoolMoves
  <1> SUFFICES ASSUME NEW t \in Tasks PROVE BackAt(t)'
    BY DEF Back
  <1>3. CASE Settled(t)
    BY <1>1, <1>3, BackSettled DEF Back
  <1>4. CASE Use(t)
    <2>1. /\ Top(t)' = Top(t) /\ pool' = pool /\ pc'[t] = "put"
          /\ to'[t] = IF driver = "psycopg" THEN pool ELSE Top(t)[1]
      BY <1>2, <1>4 DEF Use, Top, Go, storage
    <2> QED
      BY <1>2, <2>1 DEF BackAt
  <1>5. CASE Rollback(t)
    <2>1. Top(t)' = Top(t) /\ pool' = pool /\ pc'[t] = "put" /\ to'[t] = pool /\ driver = "psycopg"
      BY <1>2, <1>5 DEF Rollback, Top, Go, storage, Back, BackAt
    <2> QED
      BY <1>2, <2>1 DEF BackAt
  <1>6. CASE CancelLock(t)
    <2>1. pc'[t] = "use" \/ (pc'[t] = "aborted" /\ driver = "psycopg")
      BY <1>2, <1>6 DEF CancelLock, Go
    <2> QED
      BY <1>2, <2>1 DEF BackAt
  <1> QED
    BY <1>1, <1>3, <1>4, <1>5, <1>6, SettledSteps

(***************************************************************************)
(* Two finite sets of which one grows by an element at most.               *)
(***************************************************************************)
LEMMA SumGrows ==
    ASSUME NEW D, NEW E, NEW F, NEW G, NEW x, IsFiniteSet(D), IsFiniteSet(E),
           F \subseteq D \union {x}, G \subseteq E
    PROVE  /\ {Cardinality(D), Cardinality(E), Cardinality(F), Cardinality(G)} \subseteq Nat
           /\ Cardinality(F) <= Cardinality(D) + 1
           /\ Cardinality(G) <= Cardinality(E)
           /\ F \subseteq D => Cardinality(F) <= Cardinality(D)
           /\ \A y \in E : G \subseteq E \ {y} => Cardinality(G) <= Cardinality(E) - 1
  <1>1. /\ IsFiniteSet(D \union {x})
        /\ Cardinality(D \union {x}) = IF x \in D THEN Cardinality(D) ELSE Cardinality(D) + 1
    BY FS_AddElement
  <1>2. /\ IsFiniteSet(F) /\ Cardinality(F) <= Cardinality(D \union {x})
        /\ IsFiniteSet(G) /\ Cardinality(G) <= Cardinality(E)
    BY <1>1, FS_Subset
  <1>3. {Cardinality(D), Cardinality(E), Cardinality(F), Cardinality(G)} \subseteq Nat
    BY <1>2, FS_CardinalityType
  <1>4. Cardinality(F) <= Cardinality(D) + 1
    <2>1. Cardinality(D \union {x}) <= Cardinality(D) + 1 /\ Cardinality(D \union {x}) \in Nat
      BY <1>1, <1>3
    <2> QED
      BY <1>2, <1>3, <2>1
  <1>5. F \subseteq D => Cardinality(F) <= Cardinality(D)
    BY FS_Subset
  <1>6. ASSUME NEW y \in E, G \subseteq E \ {y}
        PROVE  Cardinality(G) <= Cardinality(E) - 1
    <2>1. IsFiniteSet(E \ {y}) /\ Cardinality(E \ {y}) = Cardinality(E) - 1
      BY FS_RemoveElement
    <2> QED
      BY <1>6, <2>1, FS_Subset
  <1> QED
    BY <1>2, <1>3, <1>4, <1>5, <1>6

Spends == failures' + cancels' = failures + cancels + 1

(***************************************************************************)
(* What a step does to the connections that are gone, or will be.          *)
(***************************************************************************)
LEMMA CountSteps ==
    ASSUME TypeInv, [Next]_vars
    PROVE  \/ /\ UNCHANGED orphans /\ dropped' = dropped /\ Gone' \subseteq Gone
              /\ Spends \/ failures' + cancels' = failures + cancels
           \/ /\ Spends /\ orphans' = orphans
              /\ driver = "asyncpg" => dropped' = dropped
              /\ \E c : Gone' \subseteq Gone \union {c}
           \/ /\ driver = "psycopg" /\ Spends /\ Gone' \subseteq Gone
              /\ \E p \in Pools : orphans' = [orphans EXCEPT ![p] = orphans[p] + 1]
           \/ /\ failures' + cancels' = failures + cancels
              /\ \E p \in Pools : orphans[p] > 0 /\ orphans' = [orphans EXCEPT ![p] = orphans[p] - 1]
              /\ \E c : Gone' \subseteq Gone \union {c}
  <1>0. failures \in Nat /\ cancels \in Nat
    BY PoolAssumption DEF TypeInv, TypeOK
  <1>1. ASSUME \/ \E t \in Tasks :
                     \/ Call(t) \/ FastPath(t) \/ TakeLock(t) \/ GetLock(t) \/ OpenPool(t)
                     \/ CreateTableDone(t) \/ EnsureFails(t)
               \/ \E t \in Tasks :
                     \/ StartGetconn(t) \/ Getconn(t) \/ GetconnFails(t)
                     \/ StartLock(t) \/ TakeRow(t) \/ LockFails(t) \/ StartStream(t) \/ Use(t)
                     \/ Putconn(t) \/ StartRollback(t) \/ Rollback(t)
               \/ \E c \in abandoned : Collect(c)
               \/ \E k \in Closers : CloseStart(k) \/ ClosePool(k) \/ CloseEnd(k) \/ CloseRaises(k)
               \/ UNCHANGED vars
        PROVE  /\ UNCHANGED <<dropped, orphans>> /\ Gone' \subseteq Gone
               /\ Spends \/ failures' + cancels' = failures + cancels
    <2> DEFINE Free0 == UNCHANGED <<dropped, orphans, abandoned, failures, cancels>>
               Costs == /\ UNCHANGED <<dropped, orphans, abandoned>>
                        /\ \/ failures' = failures + 1 /\ cancels' = cancels
                           \/ failures' = failures /\ cancels' = cancels + 1
               Less == /\ UNCHANGED <<dropped, orphans, failures, cancels>>
                       /\ abandoned' \subseteq abandoned
    <2>1. ASSUME NEW t \in Tasks,
                 \/ Call(t) \/ FastPath(t) \/ TakeLock(t) \/ GetLock(t) \/ OpenPool(t)
                 \/ CreateTableDone(t)
          PROVE  Free0
      BY <2>1 DEF Call, FastPath, TakeLock, GetLock, OpenPool, CreateTableDone, pools, budget
    <2>2. ASSUME NEW t \in Tasks,
                 \/ StartGetconn(t) \/ Getconn(t) \/ GetconnFails(t)
                 \/ StartLock(t) \/ TakeRow(t) \/ LockFails(t) \/ StartStream(t) \/ Use(t) \/ Putconn(t)
                 \/ StartRollback(t) \/ Rollback(t)
          PROVE  Free0
      BY <2>2 DEF StartGetconn, Getconn, GetconnFails, StartLock, TakeRow, LockFails, StartStream, Use,
                  Putconn, StartRollback, Rollback, pools, budget
    <2>3. ASSUME NEW k \in Closers, CloseStart(k) \/ ClosePool(k) \/ CloseEnd(k)
          PROVE  Free0
      BY <2>3 DEF CloseStart, ClosePool, CloseEnd, pools, budget
    <2>4. ASSUME UNCHANGED vars PROVE Free0
      BY <2>4 DEF vars, pools, budget
    <2>5. ASSUME NEW t \in Tasks, EnsureFails(t) PROVE Costs
      BY <2>5 DEF EnsureFails, pools
    <2>6. ASSUME NEW k \in Closers, CloseRaises(k) PROVE Costs
      BY <2>6 DEF CloseRaises
    <2>7. ASSUME NEW c \in abandoned, Collect(c) PROVE Less
      BY <2>7 DEF Collect, budget
    <2>8. Free0 \/ Costs \/ Less
      <3> HIDE DEF Free0, Costs, Less
      <3> QED
        BY <1>1, <2>1, <2>2, <2>3, <2>4, <2>5, <2>6, <2>7
    <2> QED
      BY <1>0, <2>8 DEF Gone, Spends
  <1>2. ASSUME NEW t \in Tasks, Cancel(t)
        PROVE  /\ Spends
               /\ \/ UNCHANGED <<dropped, orphans, abandoned>>
                  \/ /\ driver = "psycopg" /\ orphans' = orphans
                     /\ \E c : Gone' = Gone \union {c}
                  \/ /\ driver = "psycopg" /\ Gone' = Gone
                     /\ \E p \in Pools : orphans' = [orphans EXCEPT ![p] = orphans[p] + 1]
    <2>0. abandoned' = abandoned /\ Spends
      BY <1>0, <1>2 DEF Cancel, Spends
    <2>1. CASE CancelOpening(t) \/ CancelWaiting(t) \/ CancelLock(t)
      BY <2>0, <2>1 DEF CancelOpening, CancelWaiting, CancelLock, pools
    <2>2. CASE CancelGetting(t)
      <3>1. from[t] \in Pools /\ dropped' = dropped
        BY <2>2 DEF CancelGetting, TypeInv, TypeOK, At
      <3>2. orphans' = IF driver = "psycopg"
                       THEN [orphans EXCEPT ![from[t]] = orphans[from[t]] + 1] ELSE orphans
        BY <2>2 DEF CancelGetting
      <3> QED
        BY <2>0, <3>1, <3>2 DEF Gone
    <2>3. CASE CancelPut(t)
      <3>1. driver = "psycopg" /\ orphans' = orphans /\ dropped' = dropped \union {Top(t)}
        BY <2>3 DEF CancelPut
      <3>2. Gone' = Gone \union {Top(t)}
        BY <2>0, <3>1 DEF Gone
      <3> QED
        BY <2>0, <3>1, <3>2
    <2> QED
      BY <1>2, <2>1, <2>2, <2>3 DEF Cancel
  <1>3. ASSUME NEW t \in Tasks, Abandon(t)
        PROVE  /\ Spends /\ UNCHANGED <<orphans, dropped>>
               /\ \E c : Gone' = Gone \union {c}
    <2>1. /\ abandoned' = abandoned \union {Top(t)} /\ UNCHANGED <<orphans, dropped>>
          /\ \/ failures' = failures + 1 /\ cancels' = cancels
             \/ failures' = failures /\ cancels' = cancels + 1
      BY <1>3 DEF Abandon
    <2>2. Gone' = Gone \union {Top(t)}
      BY <2>1 DEF Gone
    <2> QED
      BY <1>0, <2>1, <2>2 DEF Spends
  <1>4. ASSUME NEW p \in Pools, OrphanGets(p) \/ OrphanEnds(p)
        PROVE  /\ UNCHANGED <<failures, cancels>> /\ orphans[p] > 0
               /\ orphans' = [orphans EXCEPT ![p] = orphans[p] - 1]
               /\ \E c : Gone' \subseteq Gone \union {c}
    BY <1>4 DEF OrphanGets, OrphanEnds, Gone, budget
  <1>5. driver \in {"psycopg", "asyncpg"}
    BY PoolAssumption DEF TypeInv, TypeOK
  <1> QED
    <2>1. CASE \E t \in Tasks : Cancel(t)
      BY <1>2, <2>1 DEF Gone
    <2>2. CASE \E t \in Tasks : Abandon(t)
      BY <1>3, <2>2
    <2>3. CASE \E p \in Pools : OrphanGets(p) \/ OrphanEnds(p)
      BY <1>4, <2>3
    <2> QED
      BY <1>1, <2>1, <2>2, <2>3, Steps

(***************************************************************************)
(* The connections that are gone, or will be, can be counted.              *)
(***************************************************************************)
LEMMA LostFinite ==
    ASSUME TypeInv
    PROVE  IsFiniteSet(Gone) /\ IsFiniteSet(Orphans)
  <1>1. IsFiniteSet(1 .. MaxSize) /\ IsFiniteSet(1 .. MaxCancels)
    <2>1. 1 \in Int /\ MaxSize \in Int /\ MaxCancels \in Int
      BY PoolAssumption
    <2> QED
      BY ONLY <2>1, FS_Interval
  <1>2. IsFiniteSet(Pools \X (1 .. MaxSize)) /\ IsFiniteSet(Pools \X (1 .. MaxCancels))
    BY ONLY <1>1, PoolsFinite, FS_Product
  <1>3. Gone \subseteq Pools \X (1 .. MaxSize) /\ Orphans \subseteq Pools \X (1 .. MaxCancels)
    BY DEF TypeInv, TypeOK, Connections, Orphans, Gone
  <1> QED
    BY <1>2, <1>3, FS_Subset

(***************************************************************************)
(* Each of them costs a failure or a cancellation.                         *)
(***************************************************************************)
LEMMA CountKept ==
    ASSUME TypeInv, Counted, [Next]_vars
    PROVE  Counted'
  <1> DEFINE g == Cardinality(Gone)
             o == Cardinality(Orphans)
             h == Cardinality(Gone')
             q == Cardinality(Orphans')
             n == failures + cancels
             m == failures' + cancels'
  <1>1. IsFiniteSet(Gone) /\ IsFiniteSet(Orphans) /\ {g, o} \subseteq Nat
    BY LostFinite, FS_CardinalityType
  <1>2. /\ n \in Nat /\ orphans \in [Pools -> 0 .. MaxCancels] /\ MaxCancels \in Nat
        /\ g + o <= n
    BY PoolAssumption DEF TypeInv, TypeOK, Counted
  <1>3. \/ Orphans' = Orphans /\ Gone' \subseteq Gone /\ m \in {n, n + 1}
        \/ m = n + 1 /\ Orphans' = Orphans /\ \E c : Gone' \subseteq Gone \union {c}
        \/ m = n + 1 /\ Gone' \subseteq Gone /\ \E w : Orphans' \subseteq Orphans \union {w}
        \/ /\ m = n /\ \E c : Gone' \subseteq Gone \union {c}
           /\ \E y \in Orphans : Orphans' \subseteq Orphans \ {y}
    <2>1. orphans' = orphans => Orphans' = Orphans
      BY DEF Orphans
    <2>2. ASSUME NEW p \in Pools, orphans' = [orphans EXCEPT ![p] = orphans[p] + 1]
          PROVE  Orphans' \subseteq Orphans \union {<<p, orphans[p] + 1>>}
      <3> SUFFICES ASSUME NEW w \in Orphans' PROVE w \in Orphans \/ w = <<p, orphans[p] + 1>>
        OBVIOUS
      <3>1. /\ w \in Pools \X (1 .. MaxCancels) /\ w = <<w[1], w[2]>> /\ w[2] <= orphans'[w[1]]
            /\ w[1] \in Pools /\ w[2] \in Nat
        BY DEF Orphans
      <3>2. CASE w[1] = p
        <4>1. orphans'[p] = orphans[p] + 1 /\ orphans[p] \in Nat
          BY <1>2, <2>2
        <4>2. w[2] <= orphans[w[1]] \/ w[2] = orphans[p] + 1
          BY <3>1, <3>2, <4>1
        <4> QED
          BY <3>1, <3>2, <4>2 DEF Orphans
      <3>3. CASE w[1] # p
        BY <1>2, <2>2, <3>1, <3>3 DEF Orphans
      <3> QED
        BY <3>2, <3>3
    <2>3. ASSUME NEW p \in Pools, orphans[p] > 0, orphans' = [orphans EXCEPT ![p] = orphans[p] - 1]
          PROVE  \E y \in Orphans : Orphans' \subseteq Orphans \ {y}
      <3> DEFINE y == <<p, orphans[p]>>
      <3>1. y \in Orphans
        BY <1>2, <2>3 DEF Orphans
      <3>2. Orphans' \subseteq Orphans \ {y}
        <4> SUFFICES ASSUME NEW w \in Orphans' PROVE w \in Orphans /\ w # y
          OBVIOUS
        <4>1. /\ w \in Pools \X (1 .. MaxCancels) /\ w[2] <= orphans'[w[1]]
              /\ w[1] \in Pools /\ w[2] \in Nat
          BY DEF Orphans
        <4>2. CASE w[1] = p
          <5>1. orphans'[p] = orphans[p] - 1 /\ orphans[p] \in Nat
            BY <1>2, <2>3
          <5>2. w[2] <= orphans[p] /\ w[2] # orphans[p]
            BY <2>3, <4>1, <4>2, <5>1
          <5> QED
            BY <4>1, <4>2, <5>2 DEF Orphans
        <4>3. CASE w[1] # p
          BY <1>2, <2>3, <4>1, <4>3 DEF Orphans
        <4> QED
          BY <4>2, <4>3
      <3> QED
        BY <3>1, <3>2
    <2> HIDE DEF n, m
    <2>4. \/ UNCHANGED orphans /\ Gone' \subseteq Gone /\ m \in {n, n + 1}
          \/ m = n + 1 /\ orphans' = orphans /\ \E c : Gone' \subseteq Gone \union {c}
          \/ /\ m = n + 1 /\ Gone' \subseteq Gone
             /\ \E p \in Pools : orphans' = [orphans EXCEPT ![p] = orphans[p] + 1]
          \/ /\ m = n /\ \E c : Gone' \subseteq Gone \union {c}
             /\ \E p \in Pools : orphans[p] > 0 /\ orphans' = [orphans EXCEPT ![p] = orphans[p] - 1]
      BY CountSteps DEF Spends, n, m
    <2> QED
      BY <2>1, <2>2, <2>3, <2>4
  <1>4. CASE Orphans' = Orphans /\ Gone' \subseteq Gone /\ m \in {n, n + 1}
    <2>1. h \in Nat /\ h <= g /\ q = o
      BY <1>1, <1>4, FS_Subset, FS_CardinalityType
    <2> HIDE DEF g, o, h, q, n, m
    <2>2. h + q <= m
      BY <1>1, <1>2, <1>4, <2>1
    <2> QED
      BY <2>2 DEF Counted, h, q, m
  <1>5. CASE m = n + 1 /\ Orphans' = Orphans /\ \E c : Gone' \subseteq Gone \union {c}
    <2>1. PICK c : Gone' \subseteq Gone \union {c}
      BY <1>5
    <2>2. h \in Nat /\ h <= g + 1 /\ q = o
      BY <1>1, <1>5, <2>1, SumGrows
    <2> HIDE DEF g, o, h, q, n, m
    <2>3. h + q <= m
      BY <1>1, <1>2, <1>5, <2>2
    <2> QED
      BY <2>3 DEF Counted, h, q, m
  <1>6. CASE m = n + 1 /\ Gone' \subseteq Gone /\ \E w : Orphans' \subseteq Orphans \union {w}
    <2>1. PICK w : Orphans' \subseteq Orphans \union {w}
      BY <1>6
    <2>2. q \in Nat /\ q <= o + 1
      BY <1>1, <2>1, SumGrows
    <2>4. h \in Nat /\ h <= g
      BY <1>1, <1>6, FS_Subset, FS_CardinalityType
    <2> HIDE DEF g, o, h, q, n, m
    <2>3. h + q <= m
      BY <1>1, <1>2, <1>6, <2>2, <2>4
    <2> QED
      BY <2>3 DEF Counted, h, q, m
  <1>7. CASE /\ m = n /\ \E c : Gone' \subseteq Gone \union {c}
             /\ \E y \in Orphans : Orphans' \subseteq Orphans \ {y}
    <2>1. PICK c : Gone' \subseteq Gone \union {c}
      BY <1>7
    <2>2. PICK y \in Orphans : Orphans' \subseteq Orphans \ {y}
      BY <1>7
    <2>3. {h, q} \subseteq Nat /\ h <= g + 1 /\ q <= o - 1
      <3>1. Orphans' \subseteq Orphans
        BY <2>2
      <3> QED
        BY <1>1, <2>1, <2>2, <3>1, SumGrows
    <2> HIDE DEF g, o, h, q, n, m
    <2>4. h + q <= m
      BY <1>1, <1>2, <1>7, <2>3
    <2> QED
      BY <2>4 DEF Counted, h, q, m
  <1> HIDE DEF g, o, h, q, n, m
  <1> QED
    BY <1>3, <1>4, <1>5, <1>6, <1>7

(***************************************************************************)
(* asyncpg goes on to lose none.                                           *)
(***************************************************************************)
LEMMA TightKept ==
    ASSUME TypeInv, Tight, [Next]_vars
    PROVE  Tight'
  <1>1. driver' = driver /\ orphans \in [Pools -> 0 .. MaxCancels]
    BY PoolsMove DEF PoolMoves, TypeInv, TypeOK
  <1> SUFFICES ASSUME driver = "asyncpg"
               PROVE  dropped' = dropped /\ orphans' = orphans
    BY <1>1 DEF Tight
  <1>2. \A p \in Pools : ~(orphans[p] > 0)
    BY DEF Tight
  <1> QED
    BY <1>2, CountSteps

ConnInv == TypeInv /\ HeldInv /\ Back /\ Counted /\ Tight

(***************************************************************************)
(* Nothing is out in an initial state.                                     *)
(***************************************************************************)
LEMMA ConnInit == Init => ConnInv
  <1> SUFFICES ASSUME Init PROVE ConnInv
    OBVIOUS
  <1>1. /\ lent = {} /\ dropped = {} /\ Gone = {} /\ failures = 0 /\ cancels = 0
        /\ \A t \in Tasks : held[t] = <<>> /\ pc[t] = "idle"
        /\ \A p \in Pools : orphans[p] = 0
    BY DEF Init, Gone
  <1>2. HeldInv
    <2>1. HeldApart /\ HeldLent /\ GoneLent
      BY <1>1 DEF HeldApart, HeldLent, GoneLent
    <2>2. LentMade /\ Accounted
      BY <1>1 DEF LentMade, Accounted
    <2> QED
      BY <2>1, <2>2 DEF HeldInv
  <1>3. Back
    BY <1>1 DEF Back, BackAt
  <1>4. Orphans = {}
    BY <1>1, PoolAssumption DEF Orphans
  <1>5. Counted /\ Tight
    BY <1>1, <1>4, FS_EmptySet DEF Counted, Tight
  <1> QED
    BY <1>2, <1>3, <1>5, TypeInit DEF ConnInv

(***************************************************************************)
(* No step spoils the invariant.                                           *)
(***************************************************************************)
LEMMA ConnNext == ConnInv /\ [Next]_vars => ConnInv'
  <1> SUFFICES ASSUME ConnInv, [Next]_vars PROVE ConnInv'
    OBVIOUS
  <1>1. TypeInv /\ HeldInv /\ Back /\ Counted /\ Tight /\ TypeOK
    BY DEF ConnInv, TypeInv
  <1>2. TypeInv' /\ PoolMoves
    BY <1>1, TypeNext, PoolsMove
  <1>3. HeldInv'
    BY <1>1, <1>2, HandSteps, PartKept, TakeKept, RestKept
  <1>4. Back' /\ Counted' /\ Tight'
    BY <1>1, BackKept, CountKept, TightKept
  <1> QED
    BY <1>2, <1>3, <1>4 DEF ConnInv

(***************************************************************************)
(* A connection that the driver's pool has lent is in the hands of exactly *)
(* one call, or a cancelled call has lost it or an abandoned stream has    *)
(* it, and then no call has it; failures and cancellations account for     *)
(* those one by one, and asyncpg loses none.  This holds for any number of *)
(* tasks in aclose.                                                        *)
(***************************************************************************)
THEOREM NoConnectionLost == Spec => []NoLostConnection
  <1>1. ConnInv => NoLostConnection
    <2> SUFFICES ASSUME ConnInv PROVE NoLostConnection
      OBVIOUS
    <2>1. TypeInv /\ HeldInv /\ Counted /\ Tight
      BY DEF ConnInv
    <2>2. ASSUME NEW c \in lent, c[1] = pool \/ driver = "asyncpg", c \notin Gone
          PROVE  Cardinality(Holders(c)) = 1
      <3>1. PICK t \in Tasks : Holds(t, c)
        BY <2>1, <2>2 DEF HeldInv, Accounted
      <3>2. \A u \in Tasks : Holds(u, c) => u = t
        BY <2>1, <3>1 DEF Holds, HeldInv, HeldApart
      <3>3. Holders(c) = {t}
        BY <3>1, <3>2 DEF Holds, Holders
      <3> QED
        BY <3>3, FS_Singleton
    <2>3. ASSUME NEW c \in Gone PROVE Cardinality(Holders(c)) = 0
      <3>1. Holders(c) = {}
        BY <2>1, <2>3 DEF Holders, HeldInv, HeldLent
      <3> QED
        BY <3>1, FS_EmptySet
    <2>4. Cardinality(dropped) + Cardinality(abandoned) <= failures + cancels
      <3>1. IsFiniteSet(Gone) /\ IsFiniteSet(Orphans)
        BY <2>1, LostFinite
      <3>2. IsFiniteSet(dropped) /\ IsFiniteSet(abandoned)
        BY <3>1, FS_Subset DEF Gone
      <3>3. /\ dropped \intersect abandoned = {}
            /\ Cardinality(Gone) = Cardinality(dropped) + Cardinality(abandoned)
                                     - Cardinality(dropped \intersect abandoned)
        BY <2>1, <3>2, FS_Union DEF Gone, GoneLent, HeldInv
      <3>4. {Cardinality(Gone), Cardinality(Orphans), Cardinality(dropped), Cardinality(abandoned)}
               \subseteq Nat /\ Cardinality(dropped \intersect abandoned) = 0
        BY <3>1, <3>2, <3>3, FS_CardinalityType, FS_EmptySet
      <3>5. failures + cancels \in Nat /\ Cardinality(Gone) + Cardinality(Orphans) <= failures + cancels
        BY <2>1, PoolAssumption DEF TypeInv, TypeOK, Counted
      <3> QED
        BY <3>3, <3>4, <3>5
    <2>5. driver = "asyncpg" => dropped = {}
      BY <2>1 DEF Tight
    <2> QED
      BY <2>2, <2>3, <2>4, <2>5 DEF NoLostConnection, Gone
  <1> QED
    BY <1>1, ConnInit, ConnNext, PTL DEF Spec
=============================================================================
