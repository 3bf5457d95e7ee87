----------------------------- MODULE MCLocalStore -----------------------------
(***************************************************************************)
(* Instances of LocalStore for TLC.                                        *)
(***************************************************************************)
EXTENDS LocalStore, FiniteSets, TLC

CONSTANTS top, sub, a, b, d, e  \* two names and four chunks

(***************************************************************************)
(* sub is a name in the directory top, as in "avatars" and                 *)
(* "avatars/photo.png"; or no name is above another.                       *)
(***************************************************************************)
MCNested == [n \in Names |-> IF n = sub THEN {top} ELSE {}]

MCFlat == [n \in Names |-> {}]

(***************************************************************************)
(* No name shares a chunk with another.                                    *)
(***************************************************************************)
MCContents == [n \in Names |-> IF n = sub THEN {<<d, e>>} ELSE {<<>>, <<a>>, <<b, a>>}]

(***************************************************************************)
(* An inode for every name that can be a file at a time (only one of top   *)
(* and sub in it can), and every handle on a file without a name, that of  *)
(* a call or of a close that a cancelled call has left; or one for every   *)
(* call, which creates at most one file.                                   *)
(***************************************************************************)
ASSUME EnoughInodes ==
    \/ Cardinality(Inodes) >=
           Cardinality({n \in Names : Above[n] = {}}) + Cardinality(Clients) + MaxCancels
    \/ Cardinality(Inodes) >= MaxCalls

Symmetry == Permutations(Clients) \union Permutations(Inodes)
=============================================================================
