------------------------------ MODULE UploadRoute ------------------------------
(***************************************************************************)
(* One file on its way through the library, as the routes of the example   *)
(* application take it (examples/app.py): an upload is wrapped in an       *)
(* UploadFileReader (fast_storages/files.py) or read into bytes, saved     *)
(* under the name that upload_to makes of its file name, answered with its *)
(* key, size and link, and read again by whoever follows the link or has   *)
(* the key.  The save may fail and be tried again with the same content.   *)
(*                                                                         *)
(* The backends differ in the names they accept, in how they cut content   *)
(* into chunks and in what a chunk size of zero or less does.  There is    *)
(* one request at a time: PgStore, LocalStore and AzureStore are about     *)
(* calls that overlap.                                                     *)
(***************************************************************************)
EXTENDS PathNames, Integers

CONSTANTS Characters, \* what names consist of
          Requests,   \* uploads: backend, name, upload_to, content, how it is given, chunk sizes
          MaxFails    \* bound: saves that fail

RequestFields == {"backend", "name", "uploadTo", "content", "given", "readerChunk",
                  "saveChunk", "openChunk", "linkable"}

ASSUME RouteAssumption ==
    /\ \A r \in Requests : /\ DOMAIN r = RequestFields
                           /\ r.backend \in {"local", "azure", "postgresql"}
                           /\ r.name \in Seq(Characters)
                           /\ r.uploadTo \in Seq(Characters) \union {None}
                           /\ r.content \in Seq(0 .. 255)
                           /\ r.given \in {"bytes", "reader"}
                           /\ {r.saveChunk, r.openChunk} \subseteq Int
                           /\ r.readerChunk \in Nat \union {-1}
                           /\ r.linkable \in BOOLEAN
    /\ Slash \in Characters
    /\ None \notin Seq(0 .. 255)
    /\ MaxFails \in Nat

VARIABLES
    req,      \* the request
    pc,       \* where it is
    key,      \* the resolved name
    at,       \* how much of the upload file has been read
    begun,    \* how much of it had been read when save was called
    written,  \* what save has written so far
    total,    \* total_size
    object,   \* what the backend holds under the key, or None
    link,     \* the path of the link, or None
    via,      \* the name the reader asks for
    got,      \* what the reader has been given
    fails

vars == <<req, pc, key, at, begun, written, total, object, link, via, got, fails>>

Backend == req.backend

\* Python's s[i:j], for 0 <= i <= Len(s).
PySlice(s, i, j) ==
    LET end == IF j < 0 THEN Len(s) + j ELSE j
    IN  SubSeq(s, i + 1, IF end < Len(s) THEN end ELSE Len(s))

\* What read(n) of a file returns at position p: all the rest if n is negative.
FileRead(s, p, n) == SubSeq(s, p + 1, IF n < 0 \/ p + n > Len(s) THEN Len(s) ELSE p + n)

-----------------------------------------------------------------------------
(* save                                                                    *)

(***************************************************************************)
(* Names that are refused.  local: invalid ones, and paths outside the     *)
(* root or the root itself, which open cannot write; postgresql: invalid   *)
(* ones; azure: the SDK has no blob without a name.                        *)
(***************************************************************************)
Refused(name) ==
    CASE Backend = "local" ->
           InvalidName(name) \/ ~Inside(SafePath(name)) \/ SafePath(name) = Root
      [] Backend = "postgresql" -> InvalidName(name)
      [] Backend = "azure" -> name = <<>>

\* Mutant of Resolve: the name is checked before upload_to is applied.
ResolveUnchecked ==
    /\ pc = "resolve"
    /\ key' = ResolveUploadName(req.name, req.uploadTo)
    /\ pc' = IF Refused(req.name) THEN "refused" ELSE "save"
    /\ begun' = at
    /\ written' = <<>>
    /\ total' = 0
    /\ UNCHANGED <<req, at, object, link, via, got, fails>>

Resolve ==
    /\ pc = "resolve"
    /\ key' = ResolveUploadName(req.name, req.uploadTo)
    /\ pc' = IF Refused(key') THEN "refused" ELSE "save"
    /\ begun' = at
    /\ written' = <<>>
    /\ total' = 0
    /\ UNCHANGED <<req, at, object, link, via, got, fails>>

\* local and azure hand bytes on in one piece.
WriteBytes ==
    /\ pc = "save"
    /\ req.given = "bytes" /\ Backend # "postgresql"
    /\ written' = req.content
    /\ total' = Len(req.content)
    /\ object' = written'
    /\ pc' = "saved"
    /\ UNCHANGED <<req, key, at, begun, link, via, got, fails>>

\* Mutant of WriteSlice: the offset is not advanced.
WriteSliceAgain ==
    /\ pc = "save"
    /\ req.given = "bytes" /\ Backend = "postgresql"
    /\ total < Len(req.content)
    /\ written' = PySlice(req.content, 0, req.saveChunk)
    /\ UNCHANGED <<req, pc, key, at, begun, total, object, link, via, got, fails>>

(***************************************************************************)
(* One turn of postgresql's loop over bytes; the offset equals total_size. *)
(* A slice can be empty, and then the turn changes nothing.                *)
(***************************************************************************)
WriteSlice ==
    /\ pc = "save"
    /\ req.given = "bytes" /\ Backend = "postgresql"
    /\ total < Len(req.content)
    /\ LET chunk == PySlice(req.content, total, total + req.saveChunk)
       IN  /\ written' = written \o chunk
           /\ total' = total + Len(chunk)
    /\ UNCHANGED <<req, pc, key, at, begun, object, link, via, got, fails>>

\* The chunk UploadFileReader gives next; an empty one ends it.
NextChunk == FileRead(req.content, at, req.readerChunk)

\* Mutant of WriteChunk: the chunk size is counted, not the chunk.
WriteChunkCountsSize ==
    /\ pc = "save"
    /\ req.given = "reader"
    /\ NextChunk # <<>>
    /\ at' = at + Len(NextChunk)
    /\ written' = written \o NextChunk
    /\ total' = total + (IF req.readerChunk < 0 THEN Len(NextChunk) ELSE req.readerChunk)
    /\ UNCHANGED <<req, pc, key, begun, object, link, via, got, fails>>

WriteChunk ==
    /\ pc = "save"
    /\ req.given = "reader"
    /\ NextChunk # <<>>
    /\ at' = at + Len(NextChunk)
    /\ written' = written \o NextChunk
    /\ total' = total + Len(NextChunk)
    /\ UNCHANGED <<req, pc, key, begun, object, link, via, got, fails>>

\* The content has come to its end.
SaveReturns ==
    /\ pc = "save"
    /\ CASE req.given = "reader" -> NextChunk = <<>>
         [] req.given = "bytes"  -> Backend = "postgresql" /\ total = Len(req.content)
    /\ object' = written
    /\ pc' = "saved"
    /\ UNCHANGED <<req, key, at, begun, written, total, link, via, got, fails>>

(***************************************************************************)
(* A connection breaks or the disk is full.  local leaves what it has      *)
(* written, the others nothing; the reader stays where it is, which may be *)
(* after a chunk that was never written.                                   *)
(***************************************************************************)
SaveFails ==
    /\ pc = "save"
    /\ fails < MaxFails
    /\ fails' = fails + 1
    /\ object' = IF Backend = "local" THEN written ELSE object
    /\ at' \in {at, at + (IF req.given = "reader" THEN Len(NextChunk) ELSE 0)}
    /\ pc' = "resolve"
    /\ UNCHANGED <<req, key, begun, written, total, link, via, got>>

-----------------------------------------------------------------------------
(* url and the request that follows the link                               *)

\* Mutant of Url: the backslashes are left as they are.
UrlUncleaned ==
    /\ pc = "saved"
    /\ req.linkable
    /\ link' = StripLeft(key)
    /\ pc' = "linked"
    /\ UNCHANGED <<req, key, at, begun, written, total, object, via, got, fails>>

Url ==
    /\ pc = "saved"
    /\ req.linkable
    /\ link' = UrlPath(key)
    /\ pc' = "linked"
    /\ UNCHANGED <<req, key, at, begun, written, total, object, via, got, fails>>

\* StorageUnsupportedOperationError: no media_url or serve_url.
UrlUnsupported ==
    /\ pc = "saved"
    /\ ~req.linkable /\ Backend # "azure"
    /\ pc' = "unsupported"
    /\ UNCHANGED <<req, key, at, begun, written, total, object, link, via, got, fails>>

\* azure without custom_url: the URL of the SDK, which quotes the key.
BlobUrl ==
    /\ pc = "saved"
    /\ ~req.linkable /\ Backend = "azure"
    /\ via' = key
    /\ pc' = "stream"
    /\ UNCHANGED <<req, key, at, begun, written, total, object, link, got, fails>>

(***************************************************************************)
(* A name leads to the object if it is its key, or for the local backend   *)
(* another name of its path.  StaticFiles, which serves local files, takes *)
(* a backslash for a character like any other.                             *)
(***************************************************************************)
LinkLeads ==
    IF Backend = "local"
    THEN Resolved(ParsedPath(link)) = SafePath(key)
    ELSE ParsedPath(link) = key

FollowLink ==
    /\ pc = "linked"
    /\ via' = ParsedPath(link)
    /\ pc' = IF LinkLeads THEN "stream" ELSE "missing"
    /\ UNCHANGED <<req, key, at, begun, written, total, object, link, got, fails>>

OpenKey ==
    /\ pc = "saved"
    /\ via' = key
    /\ pc' = "stream"
    /\ UNCHANGED <<req, key, at, begun, written, total, object, link, got, fails>>

-----------------------------------------------------------------------------
(* The generator of open.                                                  *)

\* A Python file refuses a length below -1.
Unreadable == Backend = "local" /\ req.openChunk < -1

\* azure cuts a blob as it likes, loread takes a negative length for zero.
ChunkLength ==
    CASE Backend = "azure" -> 1
      [] Backend = "local" -> req.openChunk
      [] Backend = "postgresql" -> IF req.openChunk < 0 THEN 0 ELSE req.openChunk

\* What one turn reads.
OpenChunk == FileRead(object, Len(got), ChunkLength)

\* Mutant of Read: a chunk that is not full is taken for the end.
ReadFullChunks ==
    /\ pc = "stream"
    /\ ~Unreadable
    /\ IF OpenChunk = <<>> \/ Len(OpenChunk) < req.openChunk
       THEN pc' = "done" /\ got' = got
       ELSE pc' = pc /\ got' = got \o OpenChunk
    /\ UNCHANGED <<req, key, at, begun, written, total, object, link, via, fails>>

Read ==
    /\ pc = "stream"
    /\ ~Unreadable
    /\ IF OpenChunk = <<>>
       THEN pc' = "done" /\ got' = got
       ELSE pc' = pc /\ got' = got \o OpenChunk
    /\ UNCHANGED <<req, key, at, begun, written, total, object, link, via, fails>>

ReadFails ==
    /\ pc = "stream"
    /\ Unreadable
    /\ pc' = "error"
    /\ UNCHANGED <<req, key, at, begun, written, total, object, link, via, got, fails>>

Finished ==
    /\ pc \in {"refused", "unsupported", "missing", "error", "done"}
    /\ UNCHANGED vars

-----------------------------------------------------------------------------
Init ==
    /\ req \in Requests
    /\ pc = "resolve"
    /\ key = None /\ object = None /\ link = None /\ via = None
    /\ at = 0 /\ begun = 0 /\ total = 0
    /\ written = <<>> /\ got = <<>>
    /\ fails = 0

Run ==
    \/ Resolve \/ WriteBytes \/ WriteSlice \/ WriteChunk \/ SaveReturns
    \/ Url \/ UrlUnsupported \/ BlobUrl \/ FollowLink \/ OpenKey \/ Read \/ ReadFails

Next == Run \/ SaveFails \/ Finished

Spec == Init /\ [][Next]_vars

\* The event loop runs the request.
FairSpec == Spec /\ WF_vars(Run)

-----------------------------------------------------------------------------
(* The variables have their types, and a save only ever writes under a     *)
(* name that its backend accepts.                                          *)
TypeOK ==
    /\ req \in Requests
    /\ pc \in {"resolve", "refused", "save", "saved", "linked", "unsupported", "missing",
               "stream", "error", "done"}
    /\ pc \notin {"resolve", "refused"} => ~Refused(key)
    /\ {at, begun, total} \subseteq 0 .. Len(req.content)
    /\ object # None => Len(object) <= Len(req.content)
    /\ pc \in {"saved", "stream"} => object # None

(***************************************************************************)
(* A save that returns has stored the upload from where the reader was     *)
(* when it was called, to its end, and reports that many bytes.  That is   *)
(* the whole upload unless an earlier save with this reader failed, or the *)
(* reader's chunk size is zero, which makes every upload empty.            *)
(***************************************************************************)
StoresUpload ==
    pc \in {"saved", "linked", "stream", "done"} =>
        /\ total = Len(object)
        /\ object = IF req.given = "reader" /\ req.readerChunk = 0
                    THEN <<>>
                    ELSE SubSeq(req.content, begun + 1, Len(req.content))
        /\ fails = 0 \/ req.given = "bytes" => begun = 0

(***************************************************************************)
(* The link of a stored file leads back to it, with three exceptions: a    *)
(* key with a character that ends the path of a URL; one that holds what   *)
(* looks like an escape; and, of the backends that store a file under its  *)
(* key as it is, a key that url cleans.                                    *)
(***************************************************************************)
LinkLeadsBack ==
    pc = "missing" =>
        \/ \E i \in 1 .. Len(key) : key[i] = Query
        \/ HasEscape(key)
        \/ Backend # "local" /\ Cleaned(key) # key

(***************************************************************************)
(* A stream that comes to its end has yielded what is stored, in chunks of *)
(* whatever size, but for the chunk sizes that make it end at once, with   *)
(* no error: zero, and with postgresql also every negative one.            *)
(***************************************************************************)
EndsAtOnce ==
    \/ Backend = "local" /\ req.openChunk = 0
    \/ Backend = "postgresql" /\ req.openChunk <= 0

YieldsStored == pc = "done" => got = IF EndsAtOnce THEN <<>> ELSE object

(***************************************************************************)
(* A save ends, but for one of bytes that postgresql has to cut into       *)
(* chunks of a size that is not positive: that one goes on for ever.       *)
(***************************************************************************)
Endless ==
    /\ Backend = "postgresql"
    /\ req.given = "bytes" /\ req.content # <<>> /\ req.saveChunk <= 0

SaveEnds == pc = "save" ~> pc # "save" \/ Endless
=============================================================================
