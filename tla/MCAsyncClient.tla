--------------------------- MODULE MCAsyncClient ---------------------------
(* Instances of AsyncClient for TLC. *)
EXTENDS AsyncClient, TLC

CONSTANTS r1, r2

MCRequests == {r1, r2}
=============================================================================
