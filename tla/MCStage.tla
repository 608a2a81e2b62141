------------------------------ MODULE MCStage ------------------------------
(***************************************************************************)
(* Versions of a document, one of them malformed, and one resource.        *)
(***************************************************************************)
EXTENDS Stage

MCVersions == {1, 2, 3}
MCMalformed == {3}
MCSegments == <<1, 2, 1>>
MCWidths == <<1, 2, 0>>
=============================================================================
