------------------------------ MODULE MCReplay ------------------------------
(***************************************************************************)
(* Scripts of up to MaxLines lines, for TLC.  A line calls the host with a *)
(* fixed argument or with the last answer, inside a try/catch or not, ends *)
(* the script if the last answer was `no`, throws, or returns a value that *)
(* has no JSON form.  At its end a script returns everything it saw.       *)
(***************************************************************************)
EXTENDS Replay, FiniteSets

CONSTANTS MaxLines, yes, no, closure

Line ==
  [do : {"call"}, fn : {"infer", "open"}, arg : {"input", "last"}, caught : BOOLEAN]
    \cup [do : {"stop", "throw", "opaque"}]

Of(n) == [1..n -> Line]
Behaviours == UNION {Of(n) : n \in 0..MaxLines}

\* `stop` lines depend on an answer already given and are passed in silence;
\* the line a history has reached is the first that is not.
Last(h) == IF h = <<>> THEN no ELSE h[Len(h)]

RECURSIVE Reached(_, _, _)
Reached(b, i, h) ==
  IF i > Len(b) THEN [do |-> "return", value |-> h]
  ELSE CASE b[i].do = "throw" -> [do |-> "throw"]
         [] b[i].do = "opaque" -> [do |-> "return", value |-> closure]
         [] b[i].do = "stop" -> IF Last(h) = no THEN [do |-> "return", value |-> h]
                                ELSE Reached(b, i + 1, h)
         [] OTHER -> [b[i] EXCEPT !.arg = IF @ = "last" THEN Last(h) ELSE @]

RECURSIVE LineAfter(_, _, _)
LineAfter(b, i, n) ==
  IF n = 0 THEN i
  ELSE IF i > Len(b) THEN i
  ELSE LineAfter(b, i + 1, IF b[i].do = "call" THEN n - 1 ELSE n)

MCAct(b, h) == Reached(b, LineAfter(b, 1, Len(h)), h)

MCCatching == {b \in Behaviours : \E i \in DOMAIN b : b[i].do = "call" /\ b[i].caught}

\* One behaviour of any length, or two of which one is short.
MCScripts ==
  {{b} : b \in Behaviours}
    \cup {{b1, b2} : b1 \in Of(0) \cup Of(1), b2 \in Of(1) \cup Of(2)}
=============================================================================
