------------------------------ MODULE MCDaemon ------------------------------
(***************************************************************************)
(* Specs by number: the second has its nodes wired otherwise than the      *)
(* first, which does not show in the fingerprint, the third has another    *)
(* signature, which does.                                                  *)
(***************************************************************************)
EXTENDS Daemon

MCGraphFingerprint == [s \in Specs |-> IF s = 3 THEN "other" ELSE "same"]
=============================================================================
