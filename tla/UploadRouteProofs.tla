--------------------------- MODULE UploadRouteProofs ---------------------------
(***************************************************************************)
(* Proofs about UploadRoute, for every request: any names, contents and    *)
(* chunk sizes.                                                            *)
(***************************************************************************)
EXTENDS UploadRoute, SequenceTheorems, WellFoundedInduction, TLAPS

-----------------------------------------------------------------------------
(* Parts of sequences.                                                     *)

(***************************************************************************)
(* A set of natural numbers has a least element.                           *)
(***************************************************************************)
LEMMA LeastElement ==
    ASSUME NEW I \in SUBSET Nat, I # {}
    PROVE  Min(I) \in I /\ \A i \in I : Min(I) <= i
  <1>1. \E m \in I : \A i \in I : ~(<<i, m>> \in OpToRel(<, Nat))
    BY NatLessThanWellFounded, WFMin
  <1>2. PICK m \in I : \A i \in I : ~(<<i, m>> \in OpToRel(<, Nat))
    BY <1>1
  <1>3. \A i \in I : m <= i
    <2> SUFFICES ASSUME NEW i \in I, ~(m <= i) PROVE FALSE
      OBVIOUS
    <2>1. <<i, m>> \in Nat \X Nat /\ i < m
      OBVIOUS
    <2> QED
      BY <1>2, <2>1 DEF OpToRel
  <1> QED
    BY <1>3 DEF Min

(***************************************************************************)
(* A set of natural numbers up to some number has a greatest element.      *)
(***************************************************************************)
LEMMA GreatestElement ==
    ASSUME NEW n \in Nat, NEW I \in SUBSET (1 .. n), I # {}
    PROVE  Max(I) \in I
  <1> DEFINE J == {n - i : i \in I}
  <1>1. J \in SUBSET Nat /\ J # {}
    <2>1. \A i \in I : i \in Int /\ i <= n /\ n - i \in Nat
      OBVIOUS
    <2> QED
      BY <2>1
  <1>2. Min(J) \in J /\ \A j \in J : Min(J) <= j
    BY <1>1, LeastElement
  <1>3. PICK m \in I : Min(J) = n - m
    BY <1>2
  <1>4. \A i \in I : n - m <= n - i
    BY <1>2, <1>3
  <1>5. \A i \in I : m >= i
    BY <1>4
  <1> QED
    BY <1>5 DEF Max

(***************************************************************************)
(* What a slice that begins at p and ends at e, or before p, holds.        *)
(***************************************************************************)
LEMMA SliceFacts ==
    ASSUME NEW S, NEW s \in Seq(S), NEW p \in 0 .. Len(s), NEW e \in Int, e <= Len(s)
    PROVE  /\ SubSeq(s, p + 1, e) \in Seq(S)
           /\ Len(SubSeq(s, p + 1, e)) = IF p <= e THEN e - p ELSE 0
           /\ p + Len(SubSeq(s, p + 1, e)) \in p .. Len(s)
  <1>1. Len(s) \in Nat /\ \A i \in p + 1 .. e : s[i] \in S
    BY ElementOfSeq
  <1>2. /\ SubSeq(s, p + 1, e) \in Seq(S)
        /\ Len(SubSeq(s, p + 1, e)) = IF p + 1 <= e THEN e - (p + 1) + 1 ELSE 0
    BY <1>1, SubSeqProperties
  <1> QED
    BY <1>1, <1>2

(***************************************************************************)
(* A slice put after what precedes it is a longer slice.                   *)
(***************************************************************************)
LEMMA SlicesJoin ==
    ASSUME NEW S, NEW s \in Seq(S), NEW b \in 0 .. Len(s), NEW p \in b .. Len(s),
           NEW e \in Int, e <= Len(s)
    PROVE  SubSeq(s, b + 1, p) \o SubSeq(s, p + 1, e)
              = SubSeq(s, b + 1, p + Len(SubSeq(s, p + 1, e)))
  <1>1. Len(s) \in Nat /\ b + 1 \in 1 .. Len(s) + 1 /\ p \in b + 1 - 1 .. Len(s) /\ p \in 0 .. Len(s)
    OBVIOUS
  <1>2. CASE p <= e
    <2>1. e \in p .. Len(s)
      BY <1>1, <1>2
    <2>2. Len(SubSeq(s, p + 1, e)) = e - p
      BY <1>1, <1>2, SliceFacts
    <2>3. SubSeq(s, b + 1, p) \o SubSeq(s, p + 1, e) = SubSeq(s, b + 1, e)
      BY <1>1, <2>1, ConcatAdjacentSubSeq
    <2>4. p + Len(SubSeq(s, p + 1, e)) = e
      BY <1>1, <2>1, <2>2
    <2> QED
      BY <2>3, <2>4
  <1>3. CASE e < p
    <2>1. SubSeq(s, p + 1, e) = <<>>
      BY <1>1, <1>3, SubSeqEmpty
    <2>2. SubSeq(s, b + 1, p) \in Seq(S)
      BY <1>1, SliceFacts
    <2>3. SubSeq(s, b + 1, p) \o <<>> = SubSeq(s, b + 1, p)
      BY <2>2, ConcatEmptySeq
    <2>4. p + Len(SubSeq(s, p + 1, e)) = p
      BY <2>1
    <2> QED
      BY <2>1, <2>3, <2>4
  <1> QED
    BY <1>1, <1>2, <1>3

(***************************************************************************)
(* read: the chunk comes from where the file is; it is empty only at the   *)
(* end or for a size of zero.                                              *)
(***************************************************************************)
LEMMA FileReadFacts ==
    ASSUME NEW S, NEW s \in Seq(S), NEW p \in 0 .. Len(s), NEW n \in Int
    PROVE  /\ \E e \in Int : e <= Len(s) /\ FileRead(s, p, n) = SubSeq(s, p + 1, e)
           /\ FileRead(s, p, n) = <<>> <=> p = Len(s) \/ n = 0
  <1> DEFINE e == IF n < 0 \/ p + n > Len(s) THEN Len(s) ELSE p + n
  <1>1. Len(s) \in Nat
    OBVIOUS
  <1>2. e \in p .. Len(s) /\ FileRead(s, p, n) = SubSeq(s, p + 1, e)
    BY <1>1 DEF FileRead
  <1>3. e = p <=> p = Len(s) \/ n = 0
    BY <1>1
  <1> HIDE DEF e
  <1>4. e \in Int /\ p <= e /\ e <= Len(s)
    BY <1>1, <1>2
  <1>5. Len(SubSeq(s, p + 1, e)) = e - p /\ SubSeq(s, p + 1, e) \in Seq(S)
    BY <1>4, SliceFacts
  <1>6. SubSeq(s, p + 1, e) = <<>> <=> e = p
    <2>1. SubSeq(s, p + 1, e) = <<>> => e - p = 0
      BY <1>5, EmptySeq
    <2>2. e = p => SubSeq(s, p + 1, e) = <<>>
      <3>1. e = p => e < p + 1
        BY <1>4
      <3> QED
        BY <1>4, <3>1, SubSeqEmpty
    <2> QED
      BY <1>4, <2>1, <2>2
  <1> QED
    BY <1>2, <1>3, <1>4, <1>6

(***************************************************************************)
(* A Python slice from p on comes from there.                              *)
(***************************************************************************)
LEMMA PySliceFacts ==
    ASSUME NEW S, NEW s \in Seq(S), NEW p \in 0 .. Len(s), NEW j \in Int
    PROVE  \E e \in Int : e <= Len(s) /\ PySlice(s, p, j) = SubSeq(s, p + 1, e)
  <1> DEFINE end == IF j < 0 THEN Len(s) + j ELSE j
             e == IF end < Len(s) THEN end ELSE Len(s)
  <1>1. Len(s) \in Nat
    OBVIOUS
  <1>2. e \in Int /\ e <= Len(s)
    BY <1>1
  <1> QED
    BY <1>2 DEF PySlice

-----------------------------------------------------------------------------
(* Names.                                                                  *)

(***************************************************************************)
(* The fields of a request.                                                *)
(***************************************************************************)
LEMMA RequestTyped ==
    ASSUME NEW r \in Requests
    PROVE  /\ r.backend \in {"local", "azure", "postgresql"} /\ r.given \in {"bytes", "reader"}
           /\ r.name \in Seq(Characters) /\ r.uploadTo \in Seq(Characters) \union {None}
           /\ r.content \in Seq(0 .. 255) /\ Len(r.content) \in Nat
           /\ r.saveChunk \in Int /\ r.openChunk \in Int /\ r.readerChunk \in Int
  BY RouteAssumption

(***************************************************************************)
(* upload_to makes a name of a name.                                       *)
(***************************************************************************)
LEMMA UploadNameTyped ==
    ASSUME NEW name \in Seq(Characters), NEW uploadTo \in Seq(Characters) \union {None}
    PROVE  ResolveUploadName(name, uploadTo) \in Seq(Characters)
  <1>1. CASE uploadTo = None
    BY <1>1 DEF ResolveUploadName
  <1>2. CASE uploadTo # None
    <2> DEFINE I == {i \in 1 .. Len(uploadTo) : ~IsSlash(uploadTo[i])}
               last == IF I # {} THEN Max(I) ELSE 0
    <2>1. uploadTo \in Seq(Characters) /\ Len(uploadTo) \in Nat
      BY <1>2
    <2>2. last \in 0 .. Len(uploadTo)
      <3>1. I # {} => Max(I) \in I
        BY <2>1, GreatestElement
      <3>2. \A i \in I : i \in 0 .. Len(uploadTo)
        BY <2>1
      <3>3. 0 \in 0 .. Len(uploadTo)
        BY <2>1
      <3> QED
        BY <3>1, <3>2, <3>3
    <2>3. StripRight(uploadTo) = SubSeq(uploadTo, 1, last)
      BY DEF StripRight, SelectLastInSeq
    <2> HIDE DEF last
    <2>4. 0 \in 0 .. Len(uploadTo) /\ last \in Int /\ last <= Len(uploadTo)
      BY <2>1, <2>2
    <2>5. StripRight(uploadTo) \in Seq(Characters)
      BY <2>1, <2>3, <2>4, SliceFacts
    <2>6. <<Slash>> \in Seq(Characters)
      BY RouteAssumption
    <2>7. (StripRight(uploadTo) \o <<Slash>>) \o name \in Seq(Characters)
      BY <2>5, <2>6, ConcatProperties
    <2> QED
      BY <1>2, <2>7 DEF ResolveUploadName
  <1> QED
    BY <1>1, <1>2

(***************************************************************************)
(* A cleaned name is the end of the name, but for its slashes.             *)
(***************************************************************************)
LEMMA CleanedEnd ==
    ASSUME NEW name \in Seq(Characters)
    PROVE  /\ Len(Cleaned(name)) \in Nat
           /\ \E m \in Nat : \A j \in 1 .. Len(Cleaned(name)) :
                 /\ m + j \in 1 .. Len(name)
                 /\ Cleaned(name)[j] # Slash => Cleaned(name)[j] = name[m + j]
  <1> DEFINE s == ReplaceAll(name, Backslash, Slash)
             I == {i \in 1 .. Len(s) : ~IsSlash(s[i])}
  <1>1. Len(name) \in Nat /\ s = [i \in 1 .. Len(name) |-> IF name[i] = Backslash THEN Slash ELSE name[i]]
    BY DEF ReplaceAll
  <1>2. s \in Seq(Characters) /\ Len(s) = Len(name)
    <2>1. \A i \in 1 .. Len(name) : name[i] \in Characters
      BY ElementOfSeq
    <2>2. \A i \in 1 .. Len(name) : s[i] \in Characters
      BY <1>1, <2>1, RouteAssumption
    <2>3. s \in [1 .. Len(name) -> Characters]
      BY <1>1, <2>2
    <2> QED
      BY <1>1, <2>3, SeqDef
  <1>3. Cleaned(name) = IF I # {} THEN SubSeq(s, Min(I), Len(s)) ELSE <<>>
    <2>1. Cleaned(name) = IF (IF I # {} THEN Min(I) ELSE 0) = 0
                          THEN <<>> ELSE SubSeq(s, IF I # {} THEN Min(I) ELSE 0, Len(s))
      BY DEF Cleaned, StripLeft, SelectInSeq
    <2>2. I # {} => Min(I) \in 1 .. Len(s)
      <3>1. I \in SUBSET Nat
        OBVIOUS
      <3> QED
        BY <3>1, LeastElement
    <2> HIDE DEF I, s
    <2> QED
      BY <2>1, <2>2
  <1>4. CASE I # {}
    <2>1. Min(I) \in 1 .. Len(s)
      <3>1. I \in SUBSET Nat
        OBVIOUS
      <3> QED
        BY <1>4, <3>1, LeastElement
    <2> DEFINE m == Min(I)
    <2> HIDE DEF I, s, m
    <2>2. m \in 1 .. Len(s) /\ Cleaned(name) = SubSeq(s, m, Len(s))
      BY <1>3, <1>4, <2>1 DEF m
    <2>3. \A i \in m .. Len(s) : s[i] \in Characters
      BY <1>2, <2>2, ElementOfSeq
    <2>4. m \in Int /\ Len(s) \in Int /\ Len(s) = Len(name)
      BY <1>1, <1>2, <2>2
    <2>5. /\ Len(SubSeq(s, m, Len(s))) = IF m <= Len(s) THEN Len(s) - m + 1 ELSE 0
          /\ \A i \in 1 .. Len(s) - m + 1 : SubSeq(s, m, Len(s))[i] = s[m + i - 1]
      BY <2>3, <2>4, SubSeqProperties
    <2>6. Len(Cleaned(name)) = Len(s) - m + 1
      BY <2>2, <2>4, <2>5
    <2>7. ASSUME NEW j \in 1 .. Len(Cleaned(name))
          PROVE  /\ (m - 1) + j \in 1 .. Len(name)
                 /\ Cleaned(name)[j] # Slash => Cleaned(name)[j] = name[(m - 1) + j]
      <3>1. j \in 1 .. Len(s) - m + 1 /\ (m - 1) + j = m + j - 1 /\ m + j - 1 \in 1 .. Len(name)
        BY <2>2, <2>4, <2>6
      <3>2. Cleaned(name)[j] = s[m + j - 1]
        BY <2>2, <2>5, <3>1
      <3>3. s[m + j - 1] # Slash => s[m + j - 1] = name[m + j - 1]
        BY <1>1, <3>1 DEF s
      <3> QED
        BY <3>1, <3>2, <3>3
    <2>8. m - 1 \in Nat /\ Len(s) - m + 1 \in Nat
      BY <2>2, <2>4
    <2> QED
      BY <2>6, <2>7, <2>8
  <1>5. CASE I = {}
    <2>1. Cleaned(name) = <<>>
      BY <1>3, <1>5
    <2>2. 1 .. Len(<<>>) = {} /\ Len(<<>>) = 0
      OBVIOUS
    <2> QED
      BY <2>1, <2>2
  <1> QED
    BY <1>4, <1>5

(***************************************************************************)
(* Cleaning a name brings in no character that ends the path of a URL and  *)
(* no escape.                                                              *)
(***************************************************************************)
LEMMA CleanedPlain ==
    ASSUME NEW name \in Seq(Characters)
    PROVE  /\ (\E j \in 1 .. Len(Cleaned(name)) : Cleaned(name)[j] = Query)
                 => \E i \in 1 .. Len(name) : name[i] = Query
           /\ HasEscape(Cleaned(name)) => HasEscape(name)
  <1> DEFINE c == Cleaned(name)
  <1>1. PICK m \in Nat : \A j \in 1 .. Len(c) :
            m + j \in 1 .. Len(name) /\ (c[j] # Slash => c[j] = name[m + j])
    BY CleanedEnd
  <1>2. Len(c) \in Nat /\ Len(name) \in Nat
    BY CleanedEnd
  <1> HIDE DEF c
  <1>3. ASSUME NEW j \in 1 .. Len(c), c[j] = Query
        PROVE  \E i \in 1 .. Len(name) : name[i] = Query
    BY <1>1, <1>3 DEF Query, Slash
  <1>4. ASSUME NEW j \in 1 .. Len(c), EscapeAt(c, j)
        PROVE  HasEscape(name)
    <2> DEFINE digits == <<c[j + 1], c[j + 2]>>
    <2>1. c[j] = Percent /\ j + 2 <= Len(c) /\ digits \in DOMAIN Escapes
      BY <1>4 DEF EscapeAt
    <2>2. c[j + 1] # Slash /\ c[j + 2] # Slash
      <3>1. digits[1] # Slash /\ digits[2] # Slash
        BY <2>1, EscapesAssumption
      <3> QED
        BY <3>1
    <2>3. j + 1 \in 1 .. Len(c) /\ j + 2 \in 1 .. Len(c)
      BY <1>2, <2>1
    <2>4. name[m + j] = Percent
      BY <1>1, <2>1 DEF Percent, Slash
    <2>5. name[m + (j + 1)] = c[j + 1] /\ name[m + (j + 2)] = c[j + 2]
      BY <1>1, <2>2, <2>3
    <2>6. m + (j + 1) = (m + j) + 1 /\ m + (j + 2) = (m + j) + 2
      OBVIOUS
    <2>7. m + j \in 1 .. Len(name) /\ (m + j) + 2 <= Len(name)
      BY <1>1, <1>2, <2>3, <2>6
    <2>8. EscapeAt(name, m + j)
      BY <2>1, <2>4, <2>5, <2>6, <2>7 DEF EscapeAt
    <2> QED
      BY <2>7, <2>8 DEF HasEscape
  <1> QED
    BY <1>3, <1>4 DEF HasEscape, c

(***************************************************************************)
(* A path without such a character comes through a URL as it is.           *)
(***************************************************************************)
LEMMA ParsedWhole ==
    ASSUME NEW s, \A i \in 1 .. Len(s) : s[i] # Query, ~HasEscape(s)
    PROVE  ParsedPath(s) = s
  <1>1. Unquoted(s) = s
    BY Zenon DEF Unquoted
  <1> QED
    BY <1>1 DEF ParsedPath, SelectInSeq

-----------------------------------------------------------------------------
(* The inductive invariant.  Saving says what the loop of save has written *)
(* before it ends; Linking which link was made; Reading what a stream has  *)
(* yielded before it ends.                                                 *)

Bytes == Seq(0 .. 255)

Typed ==
    /\ req \in Requests
    /\ pc \in {"resolve", "refused", "save", "saved", "linked", "unsupported", "missing",
               "stream", "error", "done"}
    /\ pc # "resolve" => key \in Seq(Characters)
    /\ pc \notin {"resolve", "refused"} => ~Refused(key)
    /\ {at, begun, total} \subseteq 0 .. Len(req.content)
    /\ fails \in Nat
    /\ object # None => object \in Bytes /\ Len(object) <= Len(req.content)
    /\ pc \in {"saved", "linked", "stream"} => object # None
    /\ got \in Bytes

\* save has written what it has taken, in order, and a reader stands after it.
Written ==
    /\ written = SubSeq(req.content, begun + 1, begun + total)
    /\ begun + total <= Len(req.content)
    /\ req.given = "reader" => at = begun + total /\ (req.readerChunk = 0 => total = 0)
    /\ req.given = "bytes" => at = 0
    /\ fails = 0 \/ req.given = "bytes" => begun = 0

Saving ==
    /\ pc = "resolve" /\ (fails = 0 \/ req.given = "bytes") => at = 0
    /\ pc = "save" => Written
    /\ StoresUpload

Linking ==
    /\ pc = "linked" => link = UrlPath(key)
    /\ LinkLeadsBack

\* A stream has yielded a beginning of the object.
Yielded ==
    /\ Len(got) <= Len(object) /\ got = SubSeq(object, 1, Len(got))
    /\ EndsAtOnce => got = <<>>

Reading ==
    /\ pc \in {"resolve", "save", "saved", "linked"} => got = <<>>
    /\ pc = "stream" => Yielded
    /\ YieldsStored

RouteInv == Typed /\ Saving /\ Linking /\ Reading

(***************************************************************************)
(* The request of a state, with its fields.                                *)
(***************************************************************************)
LEMMA TheRequest ==
    ASSUME Typed
    PROVE  /\ req.backend \in {"local", "azure", "postgresql"} /\ req.given \in {"bytes", "reader"}
           /\ req.content \in Bytes /\ Len(req.content) \in Nat
           /\ req.saveChunk \in Int /\ req.openChunk \in Int /\ req.readerChunk \in Int
           /\ at \in 0 .. Len(req.content) /\ begun \in 0 .. Len(req.content)
           /\ total \in 0 .. Len(req.content)
  BY RequestTyped DEF Typed, Bytes

(***************************************************************************)
(* The initial state.                                                      *)
(***************************************************************************)
LEMMA RouteInit == Init => RouteInv
  <1> SUFFICES ASSUME Init PROVE RouteInv
    OBVIOUS
  <1>1. Len(req.content) \in Nat /\ <<>> \in Seq(0 .. 255)
    BY RequestTyped, EmptySeq DEF Init
  <1>2. Typed
    BY <1>1 DEF Init, Typed, Bytes
  <1>3. Saving /\ Linking /\ Reading
    BY DEF Init, Saving, StoresUpload, Linking, LinkLeadsBack, Reading, YieldsStored
  <1> QED
    BY <1>2, <1>3 DEF RouteInv

(***************************************************************************)
(* The name is resolved, and refused or not.                               *)
(***************************************************************************)
LEMMA StepResolve ==
    ASSUME RouteInv, Resolve
    PROVE  RouteInv'
  <1>0. Typed /\ Saving /\ Linking /\ Reading
    BY DEF RouteInv
  <1>1. /\ pc = "resolve" /\ pc' = (IF Refused(key') THEN "refused" ELSE "save")
        /\ key' = ResolveUploadName(req.name, req.uploadTo)
        /\ begun' = at /\ written' = <<>> /\ total' = 0
        /\ UNCHANGED <<req, at, object, link, via, got, fails>>
    BY DEF Resolve
  <1>2. key' \in Seq(Characters)
    BY <1>0, <1>1, RequestTyped, UploadNameTyped DEF Typed
  <1>3. Refused(key)' <=> Refused(key')
    BY <1>1 DEF Refused, Backend
  <1>4. Typed'
    BY <1>0, <1>1, <1>2, <1>3, TheRequest DEF Typed
  <1>5. Written'
    <2>1. SubSeq(req.content, at + 1, at + 0) = <<>>
      BY <1>0, TheRequest, SubSeqEmpty
    <2>2. at + 0 = at /\ at <= Len(req.content)
      BY <1>0, TheRequest
    <2>3. fails = 0 \/ req.given = "bytes" => at = 0
      BY <1>0, <1>1 DEF Saving
    <2> QED
      BY <1>1, <2>1, <2>2, <2>3 DEF Written
  <1>6. Saving' /\ Linking' /\ Reading'
    BY <1>0, <1>1, <1>5 DEF Saving, StoresUpload, Linking, LinkLeadsBack, Reading, YieldsStored
  <1> QED
    BY <1>4, <1>6 DEF RouteInv

(***************************************************************************)
(* A step within the loop of save keeps RouteInv if it keeps Written.      *)
(***************************************************************************)
LEMMA StepLoop ==
    ASSUME RouteInv, pc = "save", Written', {at', total'} \subseteq 0 .. Len(req.content),
           UNCHANGED <<req, pc, key, begun, object, link, via, got, fails>>
    PROVE  RouteInv'
  <1>0. Typed /\ Saving /\ Linking /\ Reading
    BY DEF RouteInv
  <1>1. Refused(key)' <=> Refused(key)
    BY DEF Refused, Backend
  <1>2. Typed'
    BY <1>0, <1>1, TheRequest DEF Typed
  <1>3. Saving' /\ Linking' /\ Reading'
    BY <1>0 DEF Saving, StoresUpload, Linking, LinkLeadsBack, Reading, YieldsStored
  <1> QED
    BY <1>2, <1>3 DEF RouteInv

(***************************************************************************)
(* A chunk that follows what save has taken keeps it in order.             *)
(***************************************************************************)
LEMMA TakesNext ==
    ASSUME Typed, Written, NEW e \in Int, e <= Len(req.content),
           NEW chunk, chunk = SubSeq(req.content, begun + total + 1, e)
    PROVE  /\ Len(chunk) \in Nat
           /\ written \o chunk = SubSeq(req.content, begun + 1, begun + (total + Len(chunk)))
           /\ begun + (total + Len(chunk)) <= Len(req.content)
  <1> DEFINE s == req.content
             p == begun + total
  <1>1. s \in Seq(0 .. 255) /\ Len(s) \in Nat /\ begun \in Nat /\ total \in Nat
    BY TheRequest DEF Bytes
  <1>2. begun \in 0 .. Len(s) /\ p \in begun .. Len(s) /\ p \in 0 .. Len(s)
    BY <1>1 DEF Written
  <1>3. p + Len(chunk) \in p .. Len(s) /\ chunk \in Seq(0 .. 255)
    BY <1>1, <1>2, SliceFacts
  <1>4. SubSeq(s, begun + 1, p) \o chunk = SubSeq(s, begun + 1, p + Len(chunk))
    BY <1>1, <1>2, SlicesJoin
  <1>5. Len(chunk) \in Nat
    BY <1>3
  <1>6. p + Len(chunk) = begun + (total + Len(chunk))
    BY <1>1, <1>5
  <1>7. begun + (total + Len(chunk)) <= Len(s)
    BY <1>1, <1>3, <1>5, <1>6
  <1> QED
    BY <1>4, <1>5, <1>6, <1>7 DEF Written

(***************************************************************************)
(* One turn of the loop of save, over bytes or over a reader.              *)
(***************************************************************************)
LEMMA StepWriteSlice ==
    ASSUME RouteInv, WriteSlice
    PROVE  RouteInv'
  <1> DEFINE s == req.content
             chunk == PySlice(s, total, total + req.saveChunk)
  <1>0. Typed /\ Saving /\ Written
    BY DEF RouteInv, Saving, WriteSlice
  <1>1. /\ pc = "save" /\ req.given = "bytes" /\ written' = written \o chunk
        /\ total' = total + Len(chunk)
        /\ UNCHANGED <<req, pc, key, at, begun, object, link, via, got, fails>>
    BY DEF WriteSlice
  <1>2. /\ s \in Seq(0 .. 255) /\ total \in 0 .. Len(s) /\ total + req.saveChunk \in Int
        /\ begun = 0 /\ at \in 0 .. Len(s)
    BY <1>0, <1>1, TheRequest DEF Bytes, Written
  <1>3. PICK e \in Int : e <= Len(s) /\ chunk = SubSeq(s, total + 1, e)
    BY <1>2, PySliceFacts
  <1> HIDE DEF chunk
  <1>4. chunk = SubSeq(s, begun + total + 1, e)
    BY <1>2, <1>3
  <1>5. /\ Len(chunk) \in Nat
        /\ written \o chunk = SubSeq(s, begun + 1, begun + (total + Len(chunk)))
        /\ begun + (total + Len(chunk)) <= Len(s)
    BY <1>0, <1>3, <1>4, TakesNext
  <1>6. Written'
    BY <1>0, <1>1, <1>5 DEF Written
  <1>7. {at', total'} \subseteq 0 .. Len(s)
    BY <1>1, <1>2, <1>5
  <1> QED
    BY <1>1, <1>6, <1>7, StepLoop

(***************************************************************************)
(* The reader hands over its next chunk.                                   *)
(***************************************************************************)
LEMMA StepWriteChunk ==
    ASSUME RouteInv, WriteChunk
    PROVE  RouteInv'
  <1> DEFINE s == req.content
             chunk == NextChunk
  <1>0. Typed /\ Saving /\ Written
    BY DEF RouteInv, Saving, WriteChunk
  <1>1. /\ pc = "save" /\ req.given = "reader" /\ chunk # <<>> /\ written' = written \o chunk
        /\ at' = at + Len(chunk) /\ total' = total + Len(chunk)
        /\ UNCHANGED <<req, pc, key, begun, object, link, via, got, fails>>
    BY DEF WriteChunk
  <1>2. /\ s \in Seq(0 .. 255) /\ total \in 0 .. Len(s) /\ begun \in 0 .. Len(s)
        /\ at = begun + total /\ at \in 0 .. Len(s) /\ req.readerChunk \in Int
    BY <1>0, <1>1, TheRequest DEF Bytes, Written
  <1>3. chunk = FileRead(s, at, req.readerChunk)
    BY DEF NextChunk
  <1>4. /\ \E e \in Int : e <= Len(s) /\ chunk = SubSeq(s, at + 1, e)
        /\ req.readerChunk # 0
    BY <1>1, <1>2, <1>3, FileReadFacts
  <1>5. PICK e \in Int : e <= Len(s) /\ chunk = SubSeq(s, begun + total + 1, e)
    BY <1>2, <1>4
  <1> HIDE DEF chunk
  <1>6. /\ Len(chunk) \in Nat
        /\ written \o chunk = SubSeq(s, begun + 1, begun + (total + Len(chunk)))
        /\ begun + (total + Len(chunk)) <= Len(s)
    BY <1>0, <1>5, TakesNext
  <1>7. at + Len(chunk) = begun + (total + Len(chunk))
    BY <1>2, <1>6
  <1>8. Written'
    BY <1>0, <1>1, <1>4, <1>6, <1>7 DEF Written
  <1>9. {at', total'} \subseteq 0 .. Len(s)
    BY <1>1, <1>2, <1>6, <1>7
  <1> QED
    BY <1>1, <1>8, <1>9, StepLoop

(***************************************************************************)
(* A save that returns has stored all that it was to store.                *)
(***************************************************************************)
LEMMA StepStores ==
    ASSUME RouteInv, pc = "save", pc' = "saved", object' = written',
           written' = SubSeq(req.content, begun + 1, begun + total'),
           total' \in 0 .. Len(req.content),
           IF req.given = "reader" /\ req.readerChunk = 0
              THEN total' = 0
              ELSE begun + total' = Len(req.content),
           UNCHANGED <<req, key, at, begun, link, via, got, fails>>
    PROVE  RouteInv'
  <1> DEFINE s == req.content
  <1>0. Typed /\ Saving /\ Linking /\ Reading /\ Written
    BY DEF RouteInv, Saving
  <1>1. s \in Seq(0 .. 255) /\ Len(s) \in Nat /\ begun \in 0 .. Len(s)
    BY <1>0, TheRequest DEF Bytes
  <1>2. PICK t \in 0 .. Len(s) : total' = t
    OBVIOUS
  <1> DEFINE e == begun + t
  <1>3. /\ written' = SubSeq(s, begun + 1, e)
        /\ IF req.given = "reader" /\ req.readerChunk = 0 THEN t = 0 ELSE e = Len(s)
    BY <1>2
  <1>4. e \in Int /\ e <= Len(s) /\ begun <= e /\ e - begun = t
    BY <1>1, <1>3
  <1>5. SubSeq(s, begun + 1, e) \in Seq(0 .. 255) /\ Len(SubSeq(s, begun + 1, e)) = t
    BY <1>1, <1>4, SliceFacts
  <1>6. object' \in Bytes /\ Len(object') = t
    BY <1>3, <1>5 DEF Bytes
  <1>7. object' # None
    BY <1>6, RouteAssumption DEF Bytes
  <1>8. Refused(key)' <=> Refused(key)
    BY DEF Refused, Backend
  <1>9. Typed'
    <2>1. {at', begun', total'} \subseteq 0 .. Len(req'.content)
      BY <1>0, <1>2 DEF Typed
    <2>2. Len(object') <= Len(s)
      BY <1>1, <1>2, <1>6
    <2> QED
      BY <1>0, <1>6, <1>7, <1>8, <2>1, <2>2 DEF Typed
  <1>10. t = 0 => SubSeq(s, begun + 1, e) = <<>>
    <2>1. t = 0 => e < begun + 1
      BY <1>1
    <2>2. begun + 1 \in Int
      BY <1>1
    <2> QED
      BY <1>4, <2>1, <2>2, SubSeqEmpty
  <1>11. StoresUpload'
    <2>1. object' = IF req.given = "reader" /\ req.readerChunk = 0
                    THEN <<>> ELSE SubSeq(s, begun + 1, Len(s))
      BY <1>3, <1>10
    <2> QED
      BY <1>0, <1>2, <1>6, <2>1 DEF StoresUpload, Written
  <1>12. Saving' /\ Linking' /\ Reading'
    BY <1>0, <1>11 DEF Saving, Linking, LinkLeadsBack, Reading, YieldsStored
  <1> QED
    BY <1>9, <1>12 DEF RouteInv

(***************************************************************************)
(* save of bytes in one piece.                                             *)
(***************************************************************************)
LEMMA StepWriteBytes ==
    ASSUME RouteInv, WriteBytes
    PROVE  RouteInv'
  <1> DEFINE s == req.content
  <1>0. Typed /\ Written
    BY DEF RouteInv, Saving, WriteBytes
  <1>1. /\ pc = "save" /\ pc' = "saved" /\ req.given = "bytes" /\ written' = s /\ object' = written'
        /\ total' = Len(s) /\ UNCHANGED <<req, key, at, begun, link, via, got, fails>>
    BY DEF WriteBytes
  <1>2. s \in Seq(0 .. 255) /\ Len(s) \in Nat /\ begun = 0
    BY <1>0, <1>1, TheRequest DEF Bytes, Written
  <1>3. begun + total' = Len(s) /\ begun + 1 = 1
    BY <1>1, <1>2
  <1>4. written' = SubSeq(s, begun + 1, begun + total')
    BY <1>1, <1>2, <1>3, SubSeqFull
  <1>5. total' \in 0 .. Len(s)
    BY <1>1, <1>2
  <1> QED
    BY <1>1, <1>3, <1>4, <1>5, StepStores

(***************************************************************************)
(* The loop of save ends at the end of the content, or for a reader whose  *)
(* chunks are empty.                                                       *)
(***************************************************************************)
LEMMA StepSaveReturns ==
    ASSUME RouteInv, SaveReturns
    PROVE  RouteInv'
  <1> DEFINE s == req.content
  <1>0. Typed /\ Written
    BY DEF RouteInv, Saving, SaveReturns
  <1>1. /\ pc = "save" /\ pc' = "saved" /\ object' = written'
        /\ UNCHANGED <<req, key, at, begun, written, total, link, via, got, fails>>
    BY DEF SaveReturns
  <1>2. /\ s \in Seq(0 .. 255) /\ Len(s) \in Nat /\ begun \in 0 .. Len(s) /\ total \in 0 .. Len(s)
        /\ at \in 0 .. Len(s) /\ req.readerChunk \in Int /\ req.given \in {"bytes", "reader"}
    BY <1>0, TheRequest DEF Bytes
  <1>3. CASE req.given = "reader"
    <2>1. NextChunk = <<>>
      BY <1>3 DEF SaveReturns
    <2>2. at = Len(s) \/ req.readerChunk = 0
      BY <1>2, <2>1, FileReadFacts DEF NextChunk
    <2>3. at = begun + total /\ (req.readerChunk = 0 => total = 0)
      BY <1>0, <1>3 DEF Written
    <2> QED
      BY <1>0, <1>1, <1>2, <1>3, <2>2, <2>3, StepStores DEF Written
  <1>4. CASE req.given = "bytes"
    <2>1. total = Len(s)
      BY <1>4 DEF SaveReturns
    <2>2. begun = 0 /\ begun + total = Len(s)
      BY <1>0, <1>2, <1>4, <2>1 DEF Written
    <2> QED
      BY <1>0, <1>1, <1>2, <1>4, <2>2, StepStores DEF Written
  <1> QED
    BY <1>2, <1>3, <1>4

(***************************************************************************)
(* A save that fails leaves the reader within its content.                 *)
(***************************************************************************)
LEMMA StepSaveFails ==
    ASSUME RouteInv, SaveFails
    PROVE  RouteInv'
  <1> DEFINE s == req.content
             chunk == NextChunk
  <1>0. Typed /\ Saving /\ Linking /\ Reading /\ Written
    BY DEF RouteInv, Saving, SaveFails
  <1>1. /\ pc = "save" /\ pc' = "resolve" /\ fails' = fails + 1
        /\ object' = (IF Backend = "local" THEN written ELSE object)
        /\ at' \in {at, at + (IF req.given = "reader" THEN Len(chunk) ELSE 0)}
        /\ UNCHANGED <<req, key, begun, written, total, link, via, got>>
    BY DEF SaveFails
  <1>2. /\ s \in Seq(0 .. 255) /\ Len(s) \in Nat /\ begun \in 0 .. Len(s) /\ total \in 0 .. Len(s)
        /\ at \in 0 .. Len(s) /\ req.readerChunk \in Int /\ req.given \in {"bytes", "reader"}
    BY <1>0, TheRequest DEF Bytes
  <1>3. at + Len(chunk) \in 0 .. Len(s)
    <2>1. PICK e \in Int : e <= Len(s) /\ chunk = SubSeq(s, at + 1, e)
      BY <1>2, FileReadFacts DEF NextChunk
    <2> HIDE DEF chunk
    <2>2. at + Len(chunk) \in at .. Len(s)
      BY <1>2, <2>1, SliceFacts
    <2> QED
      BY <1>2, <2>2
  <1> HIDE DEF chunk
  <1>4. at' \in 0 .. Len(s) /\ (req.given = "bytes" => at' = 0)
    BY <1>0, <1>1, <1>2, <1>3 DEF Written
  <1>5. written \in Bytes /\ Len(written) <= Len(s)
    <2>1. begun + total \in Int /\ begun + total <= Len(s) /\ begun <= begun + total
      BY <1>0, <1>2 DEF Written
    <2>2. PICK e \in Int : e = begun + total
      BY <2>1
    <2>3. /\ SubSeq(s, begun + 1, e) \in Seq(0 .. 255)
          /\ begun + Len(SubSeq(s, begun + 1, e)) \in begun .. Len(s)
      BY <1>2, <2>1, <2>2, SliceFacts
    <2>4. written = SubSeq(s, begun + 1, e)
      BY <1>0, <2>2 DEF Written
    <2>5. written \in Bytes /\ Len(written) \in Nat
      BY <2>3, <2>4 DEF Bytes
    <2>6. begun + Len(written) \in begun .. Len(s)
      BY <2>3, <2>4
    <2> QED
      BY <1>2, <2>5, <2>6
  <1>6. fails' \in Nat /\ fails' # 0
    BY <1>0, <1>1 DEF Typed
  <1>7. Typed'
    BY <1>0, <1>1, <1>4, <1>5, <1>6 DEF Typed
  <1>8. Saving' /\ Linking' /\ Reading'
    BY <1>0, <1>1, <1>4, <1>6
       DEF Saving, StoresUpload, Linking, LinkLeadsBack, Reading, YieldsStored
  <1> QED
    BY <1>7, <1>8 DEF RouteInv

(***************************************************************************)
(* A step after save: a link is made, a stream begins, or it ends early.   *)
(***************************************************************************)
LEMMA StepAfter ==
    ASSUME RouteInv, pc' \in {"linked", "unsupported", "missing", "stream", "error"},
           pc \in {"saved", "linked", "stream"}, LinkLeadsBack',
           pc' = "linked" => link' = UrlPath(key) /\ pc = "saved",
           pc' = "stream" => pc # "stream",
           UNCHANGED <<req, key, at, begun, written, total, object, got, fails>>
    PROVE  RouteInv'
  <1>0. Typed /\ Saving /\ Linking /\ Reading
    BY DEF RouteInv
  <1>1. /\ (Refused(key)' <=> Refused(key)) /\ Backend' = Backend
        /\ EndsAtOnce' <=> EndsAtOnce
    BY DEF Refused, Backend, EndsAtOnce
  <1>2. Typed'
    BY <1>0, <1>1, TheRequest DEF Typed
  <1>3. Saving' /\ Linking'
    BY <1>0 DEF Saving, StoresUpload, Linking
  <1>4. pc' = "stream" => Yielded'
    <2> SUFFICES ASSUME pc' = "stream" PROVE Yielded'
      OBVIOUS
    <2>1. got' = <<>> /\ object' = object /\ object \in Bytes
      BY <1>0 DEF Typed, Reading
    <2>2. SubSeq(object, 1, 0) = <<>> /\ Len(object) \in Nat
      BY <2>1, SubSeqEmpty DEF Bytes
    <2> QED
      BY <2>1, <2>2 DEF Yielded
  <1>5. Reading'
    BY <1>0, <1>4 DEF Reading, YieldsStored
  <1> QED
    BY <1>2, <1>3, <1>5 DEF RouteInv

(***************************************************************************)
(* url, the request that follows the link, and the one that has the key.   *)
(***************************************************************************)
LEMMA StepLink ==
    ASSUME RouteInv, Url \/ UrlUnsupported \/ BlobUrl \/ OpenKey
    PROVE  RouteInv'
  <1>1. CASE Url
    BY <1>1, StepAfter DEF Url, LinkLeadsBack
  <1>2. CASE UrlUnsupported
    BY <1>2, StepAfter DEF UrlUnsupported, LinkLeadsBack
  <1>3. CASE BlobUrl \/ OpenKey
    BY <1>3, StepAfter DEF BlobUrl, OpenKey, LinkLeadsBack
  <1> QED
    BY <1>1, <1>2, <1>3

(***************************************************************************)
(* A link that leads nowhere is one of those that LinkLeadsBack allows.    *)
(***************************************************************************)
LEMMA StepFollow ==
    ASSUME RouteInv, FollowLink
    PROVE  RouteInv'
  <1>1. /\ pc = "linked" /\ link = Cleaned(key) /\ key \in Seq(Characters)
        /\ pc' = (IF LinkLeads THEN "stream" ELSE "missing")
        /\ UNCHANGED <<req, key, at, begun, written, total, object, link, got, fails>>
    BY DEF FollowLink, RouteInv, Typed, Linking, UrlPath
  <1>2. ASSUME \A i \in 1 .. Len(Cleaned(key)) : Cleaned(key)[i] # Query,
               ~HasEscape(Cleaned(key)), ~LinkLeads
        PROVE  Backend # "local" /\ Cleaned(key) # key
    <2>1. ParsedPath(link) = Cleaned(key)
      BY <1>1, <1>2, ParsedWhole
    <2> QED
      BY <1>2, <2>1 DEF LinkLeads, SafePath
  <1>3. ~LinkLeads => \/ \E i \in 1 .. Len(key) : key[i] = Query
                      \/ HasEscape(key)
                      \/ Backend # "local" /\ Cleaned(key) # key
    BY <1>1, <1>2, CleanedPlain
  <1>4. LinkLeadsBack'
    BY <1>1, <1>3 DEF LinkLeadsBack, Backend
  <1> QED
    BY <1>1, <1>4, StepAfter

(***************************************************************************)
(* A turn of the generator of open yields the next part of the object, and *)
(* the last one only at its end or for a chunk size that ends it at once.  *)
(***************************************************************************)
LEMMA StepRead ==
    ASSUME RouteInv, Read
    PROVE  RouteInv'
  <1> DEFINE n == ChunkLength
             p == Len(got)
             chunk == OpenChunk
  <1>0. Typed /\ Saving /\ Linking /\ Reading /\ Yielded
    BY DEF RouteInv, Reading, Read
  <1>1. /\ pc = "stream"
        /\ IF chunk = <<>> THEN pc' = "done" /\ got' = got ELSE pc' = pc /\ got' = got \o chunk
        /\ UNCHANGED <<req, key, at, begun, written, total, object, link, via, fails>>
    BY DEF Read
  <1>2. object \in Seq(0 .. 255) /\ got \in Seq(0 .. 255)
    BY <1>0, <1>1, TheRequest DEF Typed, Bytes
  <1>3. p \in 0 .. Len(object) /\ Len(object) \in Nat /\ got = SubSeq(object, 1, p)
    BY <1>0, <1>2 DEF Yielded
  <1>4. chunk = FileRead(object, p, n)
    BY DEF OpenChunk
  <1>5. n \in Int /\ (n = 0 <=> EndsAtOnce)
    BY <1>0, TheRequest DEF ChunkLength, EndsAtOnce, Backend
  <1> HIDE DEF n, p, chunk
  <1>6. /\ \E e \in Int : e <= Len(object) /\ chunk = SubSeq(object, p + 1, e)
        /\ chunk = <<>> <=> p = Len(object) \/ n = 0
    BY <1>2, <1>3, <1>4, <1>5, FileReadFacts
  <1>7. /\ (Refused(key)' <=> Refused(key)) /\ Backend' = Backend
        /\ EndsAtOnce' <=> EndsAtOnce
    BY <1>1 DEF Refused, Backend, EndsAtOnce
  <1>8. got' \in Seq(0 .. 255)
    <2>1. PICK e \in Int : e <= Len(object) /\ chunk = SubSeq(object, p + 1, e)
      BY <1>6
    <2>2. chunk \in Seq(0 .. 255)
      BY <1>2, <1>3, <2>1, SliceFacts
    <2>3. got \o chunk \in Seq(0 .. 255)
      BY <1>2, <2>2, ConcatProperties
    <2> QED
      BY <1>1, <1>2, <2>3
  <1>9. Typed'
    BY <1>0, <1>1, <1>7, <1>8, TheRequest DEF Typed, Bytes
  <1>10. Saving' /\ Linking'
    BY <1>0, <1>1, <1>7 DEF Saving, StoresUpload, Linking, LinkLeadsBack
  <1>11. CASE chunk = <<>>
    <2>1. pc' = "done" /\ got' = got /\ object' = object
      BY <1>1, <1>11
    <2>2. n # 0 => got = object
      <3> SUFFICES ASSUME n # 0 PROVE got = object
        OBVIOUS
      <3>1. p = Len(object)
        BY <1>6, <1>11
      <3> QED
        BY <1>2, <1>3, <3>1, SubSeqFull
    <2>3. n = 0 => got = <<>>
      BY <1>0, <1>5 DEF Yielded
    <2>4. YieldsStored'
      BY <1>1, <1>5, <1>7, <2>1, <2>2, <2>3 DEF YieldsStored
    <2>5. Reading'
      BY <2>1, <2>4 DEF Reading
    <2> QED
      BY <1>9, <1>10, <2>5 DEF RouteInv
  <1>12. CASE chunk # <<>>
    <2>1. pc' = "stream" /\ got' = got \o chunk /\ object' = object /\ n # 0
      BY <1>1, <1>6, <1>12
    <2>2. PICK e \in Int : e <= Len(object) /\ chunk = SubSeq(object, p + 1, e)
      BY <1>6
    <2>3. p + Len(chunk) \in p .. Len(object) /\ chunk \in Seq(0 .. 255)
      BY <1>2, <1>3, <2>2, SliceFacts
    <2>4. 0 \in 0 .. Len(object) /\ p \in 0 .. Len(object) /\ 0 + 1 = 1
      BY <1>3
    <2>5. SubSeq(object, 1, p) \o SubSeq(object, p + 1, e)
             = SubSeq(object, 1, p + Len(SubSeq(object, p + 1, e)))
      BY <1>2, <2>2, <2>4, SlicesJoin
    <2>6. got \o chunk = SubSeq(object, 1, p + Len(chunk))
      BY <1>3, <2>2, <2>5
    <2>7. Len(got \o chunk) = p + Len(chunk)
      BY <1>2, <2>3, ConcatProperties DEF p
    <2>8. Len(got') <= Len(object')
      BY <1>3, <2>1, <2>3, <2>7
    <2>9. Yielded'
      BY <1>1, <1>5, <1>7, <2>1, <2>6, <2>7, <2>8 DEF Yielded
    <2> QED
      BY <1>9, <1>10, <2>1, <2>9 DEF RouteInv, Reading, YieldsStored
  <1> QED
    BY <1>11, <1>12

(***************************************************************************)
(* Every step keeps RouteInv.                                              *)
(***************************************************************************)
LEMMA RouteNext == RouteInv /\ [Next]_vars => RouteInv'
  <1> SUFFICES ASSUME RouteInv, [Next]_vars PROVE RouteInv'
    OBVIOUS
  <1>1. CASE Resolve
    BY <1>1, StepResolve
  <1>2. CASE WriteBytes
    BY <1>2, StepWriteBytes
  <1>3. CASE WriteSlice
    BY <1>3, StepWriteSlice
  <1>4. CASE WriteChunk
    BY <1>4, StepWriteChunk
  <1>5. CASE SaveReturns
    BY <1>5, StepSaveReturns
  <1>6. CASE SaveFails
    BY <1>6, StepSaveFails
  <1>7. CASE Url \/ UrlUnsupported \/ BlobUrl \/ OpenKey
    BY <1>7, StepLink
  <1>8. CASE FollowLink
    BY <1>8, StepFollow
  <1>9. CASE Read
    BY <1>9, StepRead
  <1>10. CASE ReadFails
    BY <1>10, StepAfter DEF ReadFails, LinkLeadsBack
  <1>11. CASE UNCHANGED vars
    <2>1. UNCHANGED <<Refused(key), Backend, EndsAtOnce>> /\ UNCHANGED vars
      BY <1>11 DEF vars, Refused, Backend, EndsAtOnce
    <2>2. Typed'
      BY <2>1 DEF vars, RouteInv, Typed
    <2>3. Saving'
      BY <2>1 DEF vars, RouteInv, Saving, Written, StoresUpload
    <2>4. Linking'
      BY <2>1 DEF vars, RouteInv, Linking, LinkLeadsBack
    <2>5. Reading'
      BY <2>1 DEF vars, RouteInv, Reading, Yielded, YieldsStored
    <2> QED
      BY <2>2, <2>3, <2>4, <2>5 DEF RouteInv
  <1> QED
    BY <1>1, <1>2, <1>3, <1>4, <1>5, <1>6, <1>7, <1>8, <1>9, <1>10, <1>11
       DEF Next, Run, Finished

-----------------------------------------------------------------------------
(* The theorems.                                                           *)

(***************************************************************************)
(* RouteInv holds for every request.                                       *)
(***************************************************************************)
LEMMA RouteCorrect == Spec => []RouteInv
  <1> QED
    BY RouteInit, RouteNext, PTL DEF Spec

(***************************************************************************)
(* The variables have their types, and a save only writes under a name     *)
(* that its backend accepts (the checks of save and of _resolve_safe_path  *)
(* come after upload_to).                                                  *)
(***************************************************************************)
THEOREM TypeCorrect == Spec => []TypeOK
  <1>1. RouteInv => TypeOK
    BY DEF RouteInv, Typed, TypeOK
  <1> QED
    BY <1>1, RouteCorrect, PTL

(***************************************************************************)
(* A save that returns has stored the upload from where its reader stood   *)
(* to its end, however it was cut into chunks and however often it failed  *)
(* before, and reports its size (the loops of save).                       *)
(***************************************************************************)
THEOREM UploadStored == Spec => []StoresUpload
  <1>1. RouteInv => StoresUpload
    BY DEF RouteInv, Saving
  <1> QED
    BY <1>1, RouteCorrect, PTL

(***************************************************************************)
(* The link that url makes of any key leads back to the file but for a     *)
(* character that ends the path, for an escape that the server decodes     *)
(* and, with the backends that keep keys as they are, for a key that url   *)
(* cleans.                                                                 *)
(***************************************************************************)
THEOREM LinksLeadBack == Spec => []LinkLeadsBack
  <1>1. RouteInv => LinkLeadsBack
    BY DEF RouteInv, Linking
  <1> QED
    BY <1>1, RouteCorrect, PTL

(***************************************************************************)
(* A stream that ends has yielded what is stored, for every content and    *)
(* every chunk size but those that end it at once (the generators of       *)
(* open): zero, and with postgresql also the negative ones.                *)
(***************************************************************************)
THEOREM StreamYields == Spec => []YieldsStored
  <1>1. RouteInv => YieldsStored
    BY DEF RouteInv, Reading
  <1> QED
    BY <1>1, RouteCorrect, PTL
=============================================================================
