--------------------------- MODULE MCStorageManager ---------------------------
(***************************************************************************)
(* An instance of StorageManager for TLC.                                  *)
(***************************************************************************)
EXTENDS StorageManager, FiniteSets, TLC

CONSTANTS builtin, short, dotted, LocalStorage, Custom

(***************************************************************************)
(* A backend that is registered from the start, a short name, and a dotted *)
(* path to a class of its own.                                             *)
(***************************************************************************)
MCBuiltin == [b \in Backends |-> IF b = builtin THEN LocalStorage ELSE None]

MCImport == [b \in Backends |-> IF b = dotted THEN Custom ELSE None]

ASSUME EnoughInstances == Cardinality(Instances) >= Cardinality(Names)

Symmetry == Permutations(Tasks) \union Permutations(Names) \union Permutations(Instances)
=============================================================================
