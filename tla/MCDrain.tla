-------------------------------- MODULE MCDrain --------------------------------
(***************************************************************************)
(* Small sets of ledgers to model-check Drain with.                        *)
(***************************************************************************)
EXTENDS Drain, TLC

CONSTANTS j1, j2, r1, r2, r3

\* Rows 1 and 2 are in one ledger, row 3 in another.
MCJobOf == [r \in Rows |-> IF r = r3 THEN j2 ELSE j1]

\* The clients do the same things, and no property tells them apart.
ClientSymmetry == Permutations(Clients)
=============================================================================
