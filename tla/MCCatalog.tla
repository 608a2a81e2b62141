------------------------------ MODULE MCCatalog ------------------------------
(***************************************************************************)
(* Two versions, two contents and a malformed one, for TLC: two contents   *)
(* compete for version 1, version 2 shares one of them.                    *)
(***************************************************************************)
EXTENDS Catalog

CONSTANTS x, y, z

Add(v, a) == [do |-> "add", version |-> v, artifact |-> a]
Rm(v) == [do |-> "rm", version |-> v]
Load(v, durable) == [do |-> "load", version |-> v, durable |-> durable]

MCRequests ==
  {Add(1, x), Add(1, y), Add(2, y), Add(2, z), Rm(1), Load(1, TRUE),
   Load(Latest, FALSE), Load(Latest, TRUE)}
=============================================================================
