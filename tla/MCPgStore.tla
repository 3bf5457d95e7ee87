------------------------------ MODULE MCPgStore ------------------------------
(***************************************************************************)
(* Instances of PgStore for TLC.                                           *)
(***************************************************************************)
EXTENDS PgStore, TLC

CONSTANTS a, b  \* two chunks

(***************************************************************************)
(* A content of no chunk at all and one that takes two writes and reads.   *)
(***************************************************************************)
MCContents == {<<>>, <<a, b>>}

MCOneContent == {<<a, b>>}

(***************************************************************************)
(* Every save that is made can have an identifier of its own.              *)
(***************************************************************************)
ASSUME EnoughOids == Cardinality(Oids) >= MaxCalls

(***************************************************************************)
(* Clients, names and identifiers are interchangeable; used for safety     *)
(* only.                                                                   *)
(***************************************************************************)
Symmetry == Permutations(Clients) \union Permutations(Names) \union Permutations(Oids)
=============================================================================
