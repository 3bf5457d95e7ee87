------------------------------- MODULE MCPgPool -------------------------------
(***************************************************************************)
(* Instances of PgPool for TLC.                                            *)
(***************************************************************************)
EXTENDS PgPool

(***************************************************************************)
(* A call may fail or end on the way, so each stands for the shorter ones  *)
(* that begin like it.                                                     *)
(***************************************************************************)
Calls == {<<"lock", "stream">>, <<"stream", "lock">>, <<"read">>}

Writes == {<<"lock">>}

(***************************************************************************)
(* There is a fresh pool for every opening: the first, and one after each  *)
(* aclose, failure or cancellation.                                        *)
(***************************************************************************)
ASSUME EnoughPools == MaxPools > MaxCloses + MaxFailures + MaxCancels
=============================================================================
