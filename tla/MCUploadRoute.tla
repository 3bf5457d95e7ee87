----------------------------- MODULE MCUploadRoute -----------------------------
(***************************************************************************)
(* An instance of UploadRoute for TLC: every short name with a content of  *)
(* two bytes, and one name with every content and chunk size.              *)
(***************************************************************************)
EXTENDS UploadRoute

CONSTANTS MaxName,    \* bound: characters of a name
          MaxContent, \* bound: bytes of a content
          MaxChunk    \* bound: chunk sizes

MCCharacters == {"f", "2", Slash, Backslash, Dot, Query, Percent}

MCEscapes == [digits \in {<<"2", "f">>} |-> Slash]

Backends == {"local", "azure", "postgresql"}

UploadTos == {None, <<Slash>>, <<"f">>, <<"f", Slash>>, <<Dot, Dot>>}

ByName ==
    [backend : Backends, name : SeqOf(Characters, MaxName), uploadTo : UploadTos,
     content : {<<1, 2>>}, given : {"reader"}, readerChunk : {1}, saveChunk : {1},
     openChunk : {1}, linkable : {TRUE}]

Unlinkable ==
    [backend : Backends, name : SeqOf(Characters, 1), uploadTo : UploadTos,
     content : {<<1, 2>>}, given : {"reader"}, readerChunk : {1}, saveChunk : {1},
     openChunk : {1}, linkable : {FALSE}]

ChunkSizes == -MaxChunk .. MaxChunk

BySize ==
    [backend : Backends, name : {<<"f">>}, uploadTo : {None},
     content : {[i \in 1 .. n |-> i] : n \in 0 .. MaxContent}, given : {"bytes", "reader"},
     readerChunk : -1 .. MaxChunk, saveChunk : ChunkSizes, openChunk : ChunkSizes,
     linkable : {TRUE}]

MCRequests == ByName \union Unlinkable \union BySize
=============================================================================
