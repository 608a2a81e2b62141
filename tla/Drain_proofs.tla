------------------------------ MODULE Drain_proofs ------------------------------
(***************************************************************************)
(* Proofs about Drain, for every set of ledgers, rows and clients, however *)
(* often the daemon dies and whatever fails.                               *)
(***************************************************************************)
EXTENDS Drain, TLAPS

\* Client c holds the current escalation of row r, read but not yet written.
Holds(c, r) == <<r, serial[r]>> \in found[c]

(***************************************************************************)
(* What is in flight: nothing at an idle client, nothing to mark but in    *)
(* the marking stage, no row without an input among what is marked.        *)
(***************************************************************************)
StageInv ==
  \A c \in Clients :
    /\ stage[c] = "idle" => found[c] = {}
    /\ stage[c] # "marking" => toMark[c] = {}
    /\ stage[c] \in {"marking", "answered"} => \A l \in found[c] : l[1] \notin Legacy

(***************************************************************************)
(* A line that was read is an escalation of its row, and still the current *)
(* one if the row is not run again.  The current ones that are to be       *)
(* marked are in an answer.                                                *)
(***************************************************************************)
LineInv ==
  \A c \in Clients : \A l \in found[c] :
    /\ status[l[1]] # "none"
    /\ l[2] <= serial[l[1]]
    /\ l[1] \notin WholeNode => l[2] = serial[l[1]]

OfferInv ==
  \A c \in Clients : \A l \in toMark[c] : l[2] = serial[l[1]] => l[1] \in offered

\* Nobody can read row r again: it is stamped, or completed since.
Settled(r) == r \in drained \/ status[r] # "escalated"

(***************************************************************************)
(* A row whose marks succeeded and that no two drains read is in one place *)
(* at a time: the ledger's queue, one client, or one manifest.             *)
(***************************************************************************)
OnePlace(r) ==
  /\ handed[r] <= 1
  /\ \A b, c \in Clients : Holds(b, r) /\ Holds(c, r) => b = c
  /\ handed[r] = 1 => \A c \in Clients : ~Holds(c, r)
  /\ handed[r] = 1 => Settled(r)
  /\ \A c \in Clients :
       Holds(c, r) /\ ~Pending(c, <<r, serial[r]>>) => Settled(r)

PlaceInv == \A r \in Rows : r \notin unmarked \cup contested => OnePlace(r)

Inv == TypeOK /\ StageInv /\ LineInv /\ OfferInv /\ MarksAccountedFor /\ PlaceInv
-----------------------------------------------------------------------------

USE DrainAssumption

(***************************************************************************)
(* What a query returns are current escalations of rows, not yet stamped.  *)
(***************************************************************************)
LEMMA EscalationsRead ==
  ASSUME TypeOK, NEW j \in Jobs
  PROVE  /\ Escalations(j) \subseteq Line
         /\ \A l \in Escalations(j) : /\ l[1] \in Rows
                                      /\ l[2] = serial[l[1]]
                                      /\ status[l[1]] = "escalated"
                                      /\ l[1] \notin drained
  BY DEF Escalations, Line, TypeOK

LEMMA LineParts ==
  ASSUME NEW l \in Line
  PROVE  l[1] \in Rows /\ l[2] \in Serial /\ l = <<l[1], l[2]>>
  BY DEF Line

LEMMA InitInv == Init => Inv
<1> SUFFICES ASSUME Init PROVE Inv
  OBVIOUS
<1> USE DEF Init
<1>1. TypeOK
  BY DEF TypeOK, Serial
<1>2. StageInv /\ LineInv /\ OfferInv
  BY DEF StageInv, LineInv, OfferInv
<1>3. MarksAccountedFor
  BY DEF MarksAccountedFor, DrainedWasOffered, UnrecoverableStays
<1>4. PlaceInv
  BY DEF PlaceInv, OnePlace, Holds
<1> QED BY <1>1, <1>2, <1>3, <1>4 DEF Inv

(***************************************************************************)
(* Types are kept by every step.                                           *)
(***************************************************************************)
LEMMA TypeStep ==
  ASSUME TypeOK, StageInv, OfferInv, [Next]_vars
  PROVE  TypeOK'
<1> USE DEF TypeOK, ledgers, drains, history
<1>1. CASE UNCHANGED vars
  BY <1>1 DEF vars
<1>2. ASSUME NEW r \in Rows, Escalate(r)
      PROVE  TypeOK'
  BY <1>2 DEF Escalate, Serial
<1>3. ASSUME NEW r \in Rows, Complete(r)
      PROVE  TypeOK'
  BY <1>3 DEF Complete
<1>4. CASE Die
  BY <1>4 DEF Die
<1>5. ASSUME NEW c \in Clients, Request(c)
      PROVE  TypeOK'
  BY <1>5 DEF Request
<1>6. ASSUME NEW c \in Clients, NEW j \in Jobs, ReadLedger(c, j)
      PROVE  TypeOK'
  <2>1. Escalations(j) \subseteq Line
    BY EscalationsRead
  <2> QED BY <1>6, <2>1 DEF ReadLedger, Current
<1>7. ASSUME NEW c \in Clients, NEW j \in Jobs, SkipLedger(c, j)
      PROVE  TypeOK'
  BY <1>7 DEF SkipLedger
<1>8. ASSUME NEW c \in Clients, BuildAnswer(c)
      PROVE  TypeOK'
  <2>1. Drainable(found[c]) \subseteq found[c] /\ Current(Drainable(found[c])) \subseteq Rows
    BY DEF Drainable, Current
  <2> QED BY <1>8, <2>1 DEF BuildAnswer
<1>9. ASSUME NEW c \in Clients, NEW l \in Line, MarkDrained(c, l)
      PROVE  TypeOK'
  <2>1. Marked(l[1]) \subseteq Rows
    BY LineParts DEF Marked
  <2> QED BY <1>9, <2>1 DEF MarkDrained
<1>10. ASSUME NEW c \in Clients, NEW l \in Line, MarkFails(c, l)
       PROVE  TypeOK'
  <2>1. Current({l}) \subseteq offered
    BY <1>10 DEF MarkFails, Current, OfferInv
  <2> QED BY <1>10, <2>1 DEF MarkFails
<1>11. ASSUME NEW c \in Clients, Answer(c)
       PROVE  TypeOK'
  BY <1>11 DEF Answer
<1>12. ASSUME NEW c \in Clients, WriteManifest(c)
       PROVE  TypeOK'
  <2>1. \A r \in Rows : handed[r] + HandedBy(c, r) \in 0..2
    BY DEF HandedBy
  <2>2. toMark[c] = {}
    BY <1>12 DEF WriteManifest, StageInv
  <2> QED BY <1>12, <2>1, <2>2 DEF WriteManifest, Close
<1>13. ASSUME NEW c \in Clients, ManifestLost(c)
       PROVE  TypeOK'
  <2>1. toMark[c] = {}
    BY <1>13 DEF ManifestLost, StageInv
  <2> QED BY <1>13, <2>1 DEF ManifestLost, Close
<1> QED BY <1>1, <1>2, <1>3, <1>4, <1>5, <1>6, <1>7, <1>8, <1>9, <1>10, <1>11, <1>12, <1>13 DEF Next

(***************************************************************************)
(* What is in flight is kept by every step: first what lines there are,    *)
(* then what the ledger says of them.                                      *)
(***************************************************************************)
LEMMA StageStep ==
  ASSUME TypeOK, StageInv, [Next]_vars
  PROVE  StageInv'
<1> USE DEF TypeOK, StageInv, ledgers, drains, history
<1>1. CASE UNCHANGED vars
  BY <1>1 DEF vars
<1>2. ASSUME NEW r \in Rows, Escalate(r) \/ Complete(r)
      PROVE  StageInv'
  BY <1>2 DEF Escalate, Complete
<1>3. CASE Die
  BY <1>3 DEF Die
<1>4. ASSUME NEW c \in Clients, Request(c) \/ Answer(c)
      PROVE  StageInv'
  BY <1>4 DEF Request, Answer
<1>5. ASSUME NEW c \in Clients, NEW j \in Jobs, ReadLedger(c, j) \/ SkipLedger(c, j)
      PROVE  StageInv'
  BY <1>5 DEF ReadLedger, SkipLedger
<1>6. ASSUME NEW c \in Clients, BuildAnswer(c)
      PROVE  StageInv'
  BY <1>6 DEF BuildAnswer, Drainable
<1>7. ASSUME NEW c \in Clients, NEW l \in Line, MarkDrained(c, l) \/ MarkFails(c, l)
      PROVE  StageInv'
  BY <1>7 DEF MarkDrained, MarkFails
<1>8. ASSUME NEW c \in Clients, WriteManifest(c) \/ ManifestLost(c)
      PROVE  StageInv'
  BY <1>8 DEF WriteManifest, ManifestLost, Close
<1> QED BY <1>1, <1>2, <1>3, <1>4, <1>5, <1>6, <1>7, <1>8 DEF Next

LEMMA LineStep ==
  ASSUME TypeOK, LineInv, [Next]_vars
  PROVE  LineInv'
<1> USE DEF TypeOK, LineInv, ledgers, drains, history
<1>1. CASE UNCHANGED vars
  BY <1>1 DEF vars
<1>2. ASSUME NEW r \in Rows, Escalate(r)
      PROVE  LineInv'
  BY <1>2, LineParts DEF Escalate, Reaches, Serial
<1>3. ASSUME NEW r \in Rows, Complete(r)
      PROVE  LineInv'
  BY <1>3 DEF Complete
<1>4. CASE Die
  BY <1>4 DEF Die
<1>5. ASSUME NEW c \in Clients, Request(c) \/ Answer(c)
      PROVE  LineInv'
  BY <1>5 DEF Request, Answer
<1>6. ASSUME NEW c \in Clients, NEW j \in Jobs, ReadLedger(c, j)
      PROVE  LineInv'
  <2>1. \A l \in Escalations(j) : status[l[1]] # "none" /\ l[2] = serial[l[1]] /\ l[2] \in Serial
    BY EscalationsRead
  <2> QED BY <1>6, <2>1 DEF ReadLedger, Serial
<1>7. ASSUME NEW c \in Clients, NEW j \in Jobs, SkipLedger(c, j)
      PROVE  LineInv'
  BY <1>7 DEF SkipLedger
<1>8. ASSUME NEW c \in Clients, BuildAnswer(c)
      PROVE  LineInv'
  BY <1>8 DEF BuildAnswer, Drainable
<1>9. ASSUME NEW c \in Clients, NEW l \in Line, MarkDrained(c, l) \/ MarkFails(c, l)
      PROVE  LineInv'
  BY <1>9 DEF MarkDrained, MarkFails
<1>10. ASSUME NEW c \in Clients, WriteManifest(c) \/ ManifestLost(c)
       PROVE  LineInv'
  BY <1>10 DEF WriteManifest, ManifestLost, Close
<1> QED BY <1>1, <1>2, <1>3, <1>4, <1>5, <1>6, <1>7, <1>8, <1>9, <1>10 DEF Next

LEMMA OfferStep ==
  ASSUME TypeOK, StageInv, LineInv, OfferInv, [Next]_vars
  PROVE  OfferInv'
<1> USE DEF TypeOK, OfferInv, ledgers, drains, history
<1>1. CASE UNCHANGED vars
  BY <1>1 DEF vars
<1>2. ASSUME NEW r \in Rows, Escalate(r)
      PROVE  OfferInv'
  BY <1>2, LineParts DEF Escalate, LineInv, Serial
<1>3. ASSUME NEW r \in Rows, Complete(r)
      PROVE  OfferInv'
  BY <1>3 DEF Complete
<1>4. CASE Die
  BY <1>4 DEF Die
<1>5. ASSUME NEW c \in Clients, Request(c) \/ Answer(c)
      PROVE  OfferInv'
  BY <1>5 DEF Request, Answer
<1>6. ASSUME NEW c \in Clients, NEW j \in Jobs, ReadLedger(c, j) \/ SkipLedger(c, j)
      PROVE  OfferInv'
  BY <1>6 DEF ReadLedger, SkipLedger
<1>7. ASSUME NEW c \in Clients, BuildAnswer(c)
      PROVE  OfferInv'
  BY <1>7, LineParts DEF BuildAnswer, Drainable, Current
<1>8. ASSUME NEW c \in Clients, NEW l \in Line, MarkDrained(c, l) \/ MarkFails(c, l)
      PROVE  OfferInv'
  BY <1>8 DEF MarkDrained, MarkFails
<1>9. ASSUME NEW c \in Clients, WriteManifest(c) \/ ManifestLost(c)
      PROVE  OfferInv'
  BY <1>9 DEF WriteManifest, ManifestLost, Close
<1> QED BY <1>1, <1>2, <1>3, <1>4, <1>5, <1>6, <1>7, <1>8, <1>9 DEF Next

(***************************************************************************)
(* A mark is the trace of an offer: by a drain's own lines alone.          *)
(***************************************************************************)
LEMMA MarksStep ==
  ASSUME TypeOK, StageInv, LineInv, OfferInv, MarksAccountedFor, [Next]_vars
  PROVE  MarksAccountedFor'
<1> USE DEF TypeOK, MarksAccountedFor, DrainedWasOffered, UnrecoverableStays, ledgers, drains,
            history
<1>1. CASE UNCHANGED vars
  BY <1>1 DEF vars
<1>2. ASSUME NEW r \in Rows, Escalate(r) \/ Complete(r)
      PROVE  MarksAccountedFor'
  BY <1>2 DEF Escalate, Complete
<1>3. CASE Die
  BY <1>3 DEF Die
<1>4. ASSUME NEW c \in Clients, Request(c) \/ Answer(c) \/ WriteManifest(c) \/ ManifestLost(c)
      PROVE  MarksAccountedFor'
  BY <1>4 DEF Request, Answer, WriteManifest, ManifestLost
<1>5. ASSUME NEW c \in Clients, NEW j \in Jobs, ReadLedger(c, j) \/ SkipLedger(c, j)
      PROVE  MarksAccountedFor'
  BY <1>5 DEF ReadLedger, SkipLedger
<1>6. ASSUME NEW c \in Clients, BuildAnswer(c)
      PROVE  MarksAccountedFor'
  BY <1>6 DEF BuildAnswer
<1>7. ASSUME NEW c \in Clients, NEW l \in Line, MarkDrained(c, l)
      PROVE  MarksAccountedFor'
  <2>1. l \in toMark[c] /\ l \in found[c] /\ l[1] \notin Legacy
    BY <1>7 DEF MarkDrained, StageInv
  <2>2. l[1] \in WholeNode \/ l[1] \in offered
    BY <2>1 DEF LineInv, OfferInv
  <2> QED BY <1>7, <2>1, <2>2 DEF MarkDrained, Marked
<1>8. ASSUME NEW c \in Clients, NEW l \in Line, MarkFails(c, l)
      PROVE  MarksAccountedFor'
  BY <1>8 DEF MarkFails
<1> QED BY <1>1, <1>2, <1>3, <1>4, <1>5, <1>6, <1>7, <1>8 DEF Next

(***************************************************************************)
(* A row is moved from one place to the next: out of the queue by one      *)
(* read, out of the client by one manifest, and back only if its mark      *)
(* failed or was not made, which a death or a second reader can cause.     *)
(***************************************************************************)
LEMMA PlaceStep ==
  ASSUME TypeOK, StageInv, LineInv, PlaceInv, [Next]_vars
  PROVE  PlaceInv'
<1> SUFFICES ASSUME NEW q \in Rows, q \notin (unmarked \cup contested)'
             PROVE  OnePlace(q)'
  BY DEF PlaceInv
<1> USE DEF TypeOK, OnePlace, Holds, Pending, Settled, ledgers, drains, history
<1>1. ASSUME q \notin unmarked \cup contested
      PROVE  OnePlace(q)
  BY <1>1 DEF PlaceInv
<1>2. CASE UNCHANGED vars
  BY <1>1, <1>2 DEF vars
<1>3. ASSUME NEW r \in Rows, Escalate(r)
      PROVE  OnePlace(q)'
  <2>1. CASE q = r
    <3>1. handed'[q] = 0 /\ serial'[q] = serial[q] + 1 /\ found' = found
      BY <1>3, <2>1 DEF Escalate
    <3>2. ASSUME NEW c \in Clients
          PROVE  <<q, serial'[q]>> \notin found'[c]
      BY <3>1 DEF LineInv, Serial
    <3> QED BY <3>1, <3>2
  <2>2. CASE q # r
    <3>1. q \notin unmarked \cup contested
      BY <1>3, <2>2 DEF Escalate
    <3> QED BY <1>1, <1>3, <2>2, <3>1 DEF Escalate
  <2> QED BY <2>1, <2>2
<1>4. ASSUME NEW r \in Rows, Complete(r)
      PROVE  OnePlace(q)'
  BY <1>1, <1>4 DEF Complete
<1>5. CASE Die
  <2>1. \A c \in Clients : Holds(c, q)' => /\ Holds(c, q)
                                           /\ ~Pending(c, <<q, serial[q]>>)
    BY <1>5 DEF Die, StageInv
  <2> QED BY <1>1, <1>5, <2>1 DEF Die
<1>6. ASSUME NEW c \in Clients, Request(c)
      PROVE  OnePlace(q)'
  BY <1>1, <1>6 DEF Request, StageInv
<1>7. ASSUME NEW c \in Clients, NEW j \in Jobs, ReadLedger(c, j)
      PROVE  OnePlace(q)'
  <2> USE <1>7 DEF ReadLedger
  <2>1. q \notin unmarked \cup contested /\ OnePlace(q)
    BY <1>1
  <2>2. CASE <<q, serial[q]>> \in Escalations(j)
    <3>1. ~Settled(q)
      BY <2>2, EscalationsRead
    <3>2. ASSUME NEW b \in Clients
          PROVE  ~Holds(b, q)
      <4>1. ~Pending(b, <<q, serial[q]>>)
        BY <2>2 DEF Current
      <4> QED BY <2>1, <3>1, <4>1
    <3>3. handed[q] = 0
      BY <2>1, <3>1
    <3> QED BY <3>1, <3>2, <3>3
  <2>3. CASE <<q, serial[q]>> \notin Escalations(j)
    BY <2>1, <2>3
  <2> QED BY <2>2, <2>3
<1>8. ASSUME NEW c \in Clients, NEW j \in Jobs, SkipLedger(c, j)
      PROVE  OnePlace(q)'
  BY <1>1, <1>8 DEF SkipLedger
<1>9. ASSUME NEW c \in Clients, BuildAnswer(c)
      PROVE  OnePlace(q)'
  BY <1>1, <1>9 DEF BuildAnswer, Drainable
<1>10. ASSUME NEW c \in Clients, NEW l \in Line, MarkDrained(c, l)
       PROVE  OnePlace(q)'
  BY <1>1, <1>10 DEF MarkDrained, Marked
<1>11. ASSUME NEW c \in Clients, NEW l \in Line, MarkFails(c, l)
       PROVE  OnePlace(q)'
  BY <1>1, <1>11 DEF MarkFails, Current
<1>12. ASSUME NEW c \in Clients, Answer(c)
       PROVE  OnePlace(q)'
  BY <1>1, <1>12 DEF Answer
<1>13. ASSUME NEW c \in Clients, WriteManifest(c)
       PROVE  OnePlace(q)'
  BY <1>1, <1>13 DEF WriteManifest, Close, HandedBy, Current, StageInv
<1>14. ASSUME NEW c \in Clients, ManifestLost(c)
       PROVE  OnePlace(q)'
  BY <1>1, <1>14 DEF ManifestLost, Close, StageInv
<1> QED BY <1>2, <1>3, <1>4, <1>5, <1>6, <1>7, <1>8, <1>9, <1>10, <1>11, <1>12, <1>13, <1>14
        DEF Next

LEMMA InvStep == Inv /\ [Next]_vars => Inv'
BY TypeStep, StageStep, LineStep, OfferStep, MarksStep, PlaceStep DEF Inv

LEMMA SpecInv == Spec => []Inv
BY InitInv, InvStep, PTL DEF Spec

-----------------------------------------------------------------------------

(***************************************************************************)
(* Types, and no line to mark that the client does not hold.               *)
(***************************************************************************)
THEOREM TypeCorrect == Spec => []TypeOK
BY SpecInv, PTL DEF Inv

(***************************************************************************)
(* A row is marked only after it was put in an answer, and never when it   *)
(* is one without an input: whatever drains overlap, ledgers cannot be     *)
(* read or marked, manifests are lost, and however often the daemon dies.  *)
(***************************************************************************)
THEOREM MarksAreTraces == Spec => []MarksAccountedFor
BY SpecInv, PTL DEF Inv

(***************************************************************************)
(* An escalation gets into a second manifest only if an answer reported    *)
(* that its mark failed, or two drains read it before either had marked    *)
(* it: the two ways, and no third, in which the queue hands work out twice.*)
(***************************************************************************)
THEOREM RepeatsAreExplained == Spec => []RepeatsExplained
<1>1. ASSUME Inv, NEW r \in Rows, handed[r] > 1
      PROVE  r \in unmarked \cup contested
  <2>1. handed[r] \in 0..2
    BY <1>1 DEF Inv, TypeOK
  <2>2. ~OnePlace(r)
    BY <1>1, <2>1 DEF OnePlace
  <2> QED BY <1>1, <2>2 DEF Inv, PlaceInv
<1>2. Inv => RepeatsExplained
  BY <1>1 DEF RepeatsExplained
<1> QED BY <1>2, SpecInv, PTL
=================================================================================
