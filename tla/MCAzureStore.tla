----------------------------- MODULE MCAzureStore -----------------------------
(***************************************************************************)
(* An instance of AzureStore for TLC.                                      *)
(***************************************************************************)
EXTENDS AzureStore, TLC

CONSTANTS a, b  \* two chunks

(***************************************************************************)
(* No block, one, and two whose first differs from it.                     *)
(***************************************************************************)
MCContents == {<<>>, <<a>>, <<b, a>>}

Symmetry == Permutations(Clients)
=============================================================================
