---------------------------- MODULE JobRun_proofs ----------------------------
(***************************************************************************)
(* Proofs about JobRun, for every graph, every set of outputs and every    *)
(* manifest, with storage faults and crashes: its types, what one run or   *)
(* any number of crashed and resumed ones may leave in the ledger, and     *)
(* that they implement the crash-free DagExecution.                        *)
(***************************************************************************)
EXTENDS JobRun, FiniteSetTheorems, TLAPS

FanPhases == {"items", "inflight", "results", "files"}

(***************************************************************************)
(* What run_fanout_node's locals are while it runs: it is at a fan-out     *)
(* node not yet decided, it reads the manifest that node is pinned to, and *)
(* every item before fan.next has been counted once.                       *)
(***************************************************************************)
FanConsistent ==
  /\ phase \in FanPhases =>
       /\ at \in Fanout
       /\ Pending(at)
       /\ fan.from \in Manifests
       /\ pin[at] = fan.from
       /\ fan.next <= ManifestLen[fan.from]
       /\ fan.succeeded + fan.failed = fan.next
  /\ phase = "inflight" =>
       /\ fan.next < ManifestLen[fan.from]
       /\ ~Concluded(at, fan.next)
  /\ phase \in {"results", "files"} =>
       /\ fan.next = ManifestLen[fan.from]
       /\ fan.succeeded > 0
       /\ files[at] \in FilePair
  /\ phase \in {"finishing", "finished", "done"} => verdict \in Verdicts

TypeInv == TypeOK /\ FanConsistent

USE GraphAssumption, ValueAssumption, OutputAssumption
USE DEF Resumable, IsSkipped, RouteReused, Checkpoint, PinAccepts, RecordedCount

LEMMA InitType == Init => TypeInv
<1> SUFFICES ASSUME Init PROVE TypeInv
  OBVIOUS
<1>1. LedgerType
  <2>1. NoRow \in WholeRow
    BY DEF NoRow, WholeRow
  <2>2. NoItemRow \in ItemRow
    BY DEF NoItemRow, ItemRow
  <2>3. item \in ItemTable
    BY <2>2 DEF Init, ItemTable
  <2>4. \A n \in Node : whole[n].out = NoOutput /\ whole[n].status = "none"
    BY DEF Init, NoRow
  <2> QED BY <2>1, <2>3, <2>4 DEF Init, LedgerType
<1>2. DiskType
  BY DEF Init, DiskType
<1>3. MemoryType
  <2>1. at \in 1..(N + 1)
    BY DEF Init
  <2>2. fan \in FanLocals
    BY DEF Init, NoFan, FanLocals
  <2> QED BY <2>1, <2>2 DEF Init, MemoryType, Phases
<1>4. FanConsistent
  BY DEF Init, FanConsistent, FanPhases
<1> QED BY <1>1, <1>2, <1>3, <1>4 DEF TypeInv, TypeOK

LEMMA LedgerFrame == LedgerType /\ UNCHANGED ledger => LedgerType'
BY DEF LedgerType, ledger

LEMMA DiskFrame == DiskType /\ UNCHANGED disk => DiskType'
BY DEF DiskType, disk

LEMMA BreakRunType ==
  ASSUME TypeInv, NEW s \in {"failed", "cancelled"}, BreakRun(s)
  PROVE  MemoryType' /\ FanConsistent'
<1>1. verdict' \in Verdicts
  BY DEF BreakRun, Envelope, Verdicts
<1>2. MemoryType'
  BY <1>1 DEF BreakRun, TypeInv, TypeOK, MemoryType, Phases
<1>3. FanConsistent'
  BY <1>1 DEF BreakRun, FanConsistent, FanPhases
<1> QED BY <1>2, <1>3

LEMMA CountItemType ==
  ASSUME TypeInv,
         phase \in {"items", "inflight"},
         fan.next < ManifestLen[fan.from],
         NEW field \in {"succeeded", "failed"},
         CountItem(field),
         UNCHANGED <<whole, pin>>
  PROVE  MemoryType' /\ FanConsistent'
<1> USE DEF TypeInv, TypeOK
<1>1. fan \in FanLocals /\ fan.next \in Nat /\ fan.from \in Manifests
  BY DEF MemoryType, FanLocals, FanConsistent, FanPhases
<1>2. ManifestLen[fan.from] \in 0..MaxItems
  BY <1>1
<1>3. /\ fan'.from = fan.from
      /\ fan'.next = fan.next + 1
      /\ fan'.succeeded \in Nat
      /\ fan'.failed \in Nat
      /\ fan'.succeeded + fan'.failed = fan.succeeded + fan.failed + 1
  BY <1>1 DEF CountItem, FanLocals
<1>4. fan' \in FanLocals
  <2>1. fan.next + 1 \in 0..MaxItems
    BY <1>1, <1>2
  <2> QED BY <1>1, <1>3, <2>1 DEF CountItem, FanLocals
<1>5. MemoryType'
  BY <1>4 DEF CountItem, MemoryType, Phases
<1>6. FanConsistent'
  BY <1>1, <1>2, <1>3 DEF CountItem, FanConsistent, FanPhases, Pending
<1> QED BY <1>5, <1>6

LEMMA RecordType ==
  ASSUME TypeInv, NEW n \in Node,
         NEW s \in {"completed", "skipped", "escalated"}, NEW out \in OutputValue \cup {NoOutput},
         s = "completed" <=> out # NoOutput,
         whole' = [whole EXCEPT ![n] = [status |-> s, out |-> out]],
         UNCHANGED <<jobStatus, item, pin>>
  PROVE  LedgerType'
<1>1. [status |-> s, out |-> out] \in WholeRow
  BY DEF WholeRow
<1> QED BY <1>1 DEF TypeInv, TypeOK, LedgerType

LEMMA RecordSkipType ==
  ASSUME TypeInv, NEW n \in Node, AtNode(n), RecordSkip(n)
  PROVE  TypeInv'
<1> USE DEF TypeInv, TypeOK
<1>1. LedgerType'
  BY RecordType DEF RecordSkip
<1>2. MemoryType'
  BY DEF RecordSkip, AtNode, NextNode, MemoryType, Phases, Node
<1>3. FanConsistent'
  BY DEF RecordSkip, NextNode, FanConsistent, FanPhases
<1> QED BY <1>1, <1>2, <1>3, DiskFrame DEF RecordSkip

LEMMA NodeStepType ==
  ASSUME TypeInv, NEW n \in Node, NodeStep(n)
  PROVE  TypeInv'
<1> USE DEF TypeInv, TypeOK
<1>1. CASE VisitSkipped(n)
  <2>1. MemoryType'
    <3>1. at' \in 1..(N + 1) /\ skipped' \subseteq Node
      BY <1>1 DEF VisitSkipped, AtNode, NextNode, MemoryType, Node
    <3> QED BY <1>1, <3>1 DEF VisitSkipped, NextNode, MemoryType, Phases
  <2>2. FanConsistent'
    BY <1>1 DEF VisitSkipped, NextNode, FanConsistent, FanPhases
  <2> QED BY <1>1, <2>1, <2>2, LedgerFrame, DiskFrame DEF VisitSkipped
<1>2. CASE VisitCompleted(n)
  <2>1. MemoryType'
    <3>1. RouteOf(whole[n].out) \in Labels \cup {NoRoute}
      BY DEF RouteOf
    <3>2. whole[n].out \in OutputValue \cup {NoOutput}
      BY DEF LedgerType, WholeRow
    <3> QED BY <1>2, <3>1, <3>2 DEF VisitCompleted, AtNode, NextNode, MemoryType, Phases, Node
  <2>2. FanConsistent'
    BY <1>2 DEF VisitCompleted, NextNode, FanConsistent, FanPhases
  <2> QED BY <1>2, <2>1, <2>2, LedgerFrame, DiskFrame DEF VisitCompleted
<1>3. CASE SkipByBranch(n)
  BY <1>3, RecordSkipType DEF SkipByBranch
<1>4. CASE SkipTransitively(n)
  BY <1>4, RecordSkipType DEF SkipTransitively
<1>5. CASE \E v \in Values : RunNode(n, v)
  <2> PICK v \in Values : RunNode(n, v)
    BY <1>5
  <2>1. v \in OutputValue /\ v # NoOutput
    BY DEF OutputValue
  <2>2. LedgerType'
    BY <2>1, RecordType DEF RunNode
  <2>3. MemoryType'
    <3>1. RouteOf(v) \in Labels \cup {NoRoute}
      BY DEF RouteOf
    <3> QED BY <2>1, <3>1 DEF RunNode, ToRun, AtNode, NextNode, MemoryType, Phases, Node
  <2>4. FanConsistent'
    BY DEF RunNode, NextNode, FanConsistent, FanPhases
  <2> QED BY <2>2, <2>3, <2>4, DiskFrame DEF RunNode
<1>6. CASE \E v \in Values : RejectRoute(n, v)
  BY <1>6, BreakRunType, LedgerFrame, DiskFrame DEF RejectRoute
<1>7. CASE ExhaustNode(n)
  <2>1. LedgerType'
    BY <1>7, RecordType, LedgerFrame DEF ExhaustNode, ledger
  <2> QED BY <1>7, <2>1, BreakRunType, DiskFrame DEF ExhaustNode
<1>8. CASE InterruptNode(n)
  BY <1>8, BreakRunType, LedgerFrame, DiskFrame DEF InterruptNode
<1>9. CASE OpenManifest(n)
  <2>1. manifest[n] \in Manifests
    BY <1>9 DEF OpenManifest, DiskType
  <2>2. LedgerType'
    BY <1>9, <2>1 DEF OpenManifest, LedgerType
  <2>3. MemoryType'
    BY <1>9, <2>1 DEF OpenManifest, MemoryType, Phases, FanLocals
  <2>4. FanConsistent'
    BY <1>9, <2>1 DEF OpenManifest, ToRun, AtNode, Pending, FanConsistent, FanPhases, LedgerType
  <2> QED BY <1>9, <2>2, <2>3, <2>4, DiskFrame DEF OpenManifest
<1>10. CASE RejectManifest(n)
  BY <1>10, BreakRunType, LedgerFrame, DiskFrame DEF RejectManifest
<1> QED
  BY <1>1, <1>2, <1>3, <1>4, <1>5, <1>6, <1>7, <1>8, <1>9, <1>10 DEF NodeStep

LEMMA ConcludeItemType ==
  ASSUME TypeInv, at \in Fanout, fan.next \in ItemIndex,
         NEW s \in {"completed", "failed", "escalated"}, NEW out \in Values \cup {NoOutput},
         ConcludeItem(s, out), UNCHANGED <<jobStatus, whole, pin>>
  PROVE  LedgerType'
<1>1. [status |-> s, out |-> out, from |-> fan.from] \in ItemRow
  BY DEF TypeInv, TypeOK, MemoryType, FanLocals, ItemRow
<1>2. item' \in ItemTable
  BY <1>1 DEF TypeInv, TypeOK, LedgerType, ConcludeItem, ItemTable
<1> QED BY <1>2 DEF TypeInv, TypeOK, LedgerType

LEMMA FilesType ==
  ASSUME TypeInv, at \in Fanout,
         \/ \E lines \in SUBSET ResultLines(at) : SetResults(lines)
         \/ \E lines \in SUBSET FailureLines(at) : SetFailures(lines) /\ files[at] \in FilePair
         \/ files' = files
  PROVE  files' \in [Fanout -> FilePair \cup {NoFiles}]
<1> USE DEF TypeInv, TypeOK, DiskType
<1>1. CASE \E lines \in SUBSET ResultLines(at) : SetResults(lines)
  <2> PICK lines \in SUBSET ResultLines(at) : SetResults(lines)
    BY <1>1
  <2>1. ResultLines(at) \subseteq ItemIndex \X (Values \cup {NoOutput})
    BY DEF ResultLines, ItemsOf, LedgerType, ItemTable, ItemRow
  <2>2. [results |-> lines,
         failures |-> IF files[at] = NoFiles THEN {} ELSE files[at].failures] \in FilePair
    BY <2>1 DEF FilePair
  <2> QED BY <2>2 DEF SetResults
<1>2. CASE \E lines \in SUBSET FailureLines(at) : SetFailures(lines) /\ files[at] \in FilePair
  <2> PICK lines \in SUBSET FailureLines(at) : SetFailures(lines) /\ files[at] \in FilePair
    BY <1>2
  <2>1. FailureLines(at) \subseteq ItemIndex
    BY DEF FailureLines, ItemsOf
  <2>2. [files[at] EXCEPT !.failures = lines] \in FilePair
    BY <2>1 DEF FilePair
  <2> QED BY <2>2 DEF SetFailures
<1> QED BY <1>1, <1>2

LEMMA TearType ==
  ASSUME TypeInv, MayTearFile
  PROVE  files' \in [Fanout -> FilePair \cup {NoFiles}]
<1> USE DEF TypeInv, TypeOK
<1>1. CASE files' = files
  BY <1>1 DEF DiskType
<1>2. CASE phase \in FanPhases
  BY <1>2, FilesType DEF MayTearFile, FanConsistent, FanPhases
<1> QED BY <1>1, <1>2 DEF MayTearFile, ItemsDone, FanPhases

LEMMA ItemStepType ==
  ASSUME TypeInv, ItemStep
  PROVE  TypeInv'
<1> USE DEF TypeInv, TypeOK
<1>0. phase \in {"items", "inflight"} /\ fan.next < ManifestLen[fan.from] =>
        at \in Fanout /\ fan.next \in ItemIndex
  BY DEF FanConsistent, FanPhases, MemoryType, FanLocals, ItemIndex
<1>1. CASE CancelBetweenItems
  BY <1>1, BreakRunType, LedgerFrame, DiskFrame DEF CancelBetweenItems
<1>2. CASE CountConcluded
  BY <1>2, CountItemType, LedgerFrame, DiskFrame DEF CountConcluded, AtItem, ledger
<1>3. CASE MiscountConcluded
  BY <1>3, CountItemType, LedgerFrame, DiskFrame DEF MiscountConcluded, AtItem, ledger
<1>4. CASE MismatchItem
  <2>1. MemoryType' /\ FanConsistent'
    BY <1>4, CountItemType DEF MismatchItem, AtItem
  <2>2. LedgerType'
    BY <1>4, <1>0, ConcludeItemType DEF MismatchItem, AtItem
  <2> QED BY <1>4, <2>1, <2>2, DiskFrame DEF MismatchItem
<1>5. CASE StartItem
  <2>1. MemoryType'
    BY <1>5 DEF StartItem, MemoryType, Phases
  <2>2. FanConsistent'
    BY <1>5 DEF StartItem, AtItem, ledger, FanConsistent, FanPhases, Pending, Concluded
  <2> QED BY <1>5, <2>1, <2>2, LedgerFrame, DiskFrame DEF StartItem
<1>6. CASE \E v \in Values : CompleteItem(v)
  <2> PICK v \in Values : CompleteItem(v)
    BY <1>6
  <2>1. fan.next < ManifestLen[fan.from]
    BY DEF CompleteItem, FanConsistent
  <2>2. MemoryType' /\ FanConsistent'
    BY <2>1, CountItemType DEF CompleteItem
  <2>3. LedgerType'
    BY <2>1, <1>0, ConcludeItemType DEF CompleteItem
  <2> QED BY <2>2, <2>3, DiskFrame DEF CompleteItem
<1>7. CASE ExhaustItem
  <2>1. fan.next < ManifestLen[fan.from]
    BY <1>7 DEF ExhaustItem, FanConsistent
  <2>2. MemoryType' /\ FanConsistent'
    BY <1>7, <2>1, CountItemType DEF ExhaustItem
  <2>3. LedgerType'
    BY <1>7, <2>1, <1>0, ConcludeItemType DEF ExhaustItem
  <2> QED BY <1>7, <2>2, <2>3, DiskFrame DEF ExhaustItem
<1>8. CASE InterruptItem
  BY <1>8, BreakRunType, LedgerFrame, DiskFrame DEF InterruptItem
<1>9. CASE AllItemsFailed
  BY <1>9, BreakRunType, LedgerFrame, DiskFrame DEF AllItemsFailed
<1>10. CASE WriteResults
  <2>1. at \in Fanout
    BY <1>10 DEF WriteResults, ItemsDone, FanConsistent, FanPhases
  <2>2. DiskType' /\ files'[at] \in FilePair
    <3>1. ResultLines(at) \subseteq ItemIndex \X (Values \cup {NoOutput})
      BY <2>1 DEF ResultLines, ItemsOf, LedgerType, ItemTable, ItemRow
    <3>2. files'[at] \in FilePair
      BY <1>10, <2>1, <3>1 DEF WriteResults, SetResults, FilePair, DiskType
    <3> QED BY <1>10, <2>1, <3>2, FilesType DEF WriteResults, DiskType
  <2>3. MemoryType'
    BY <1>10 DEF WriteResults, MemoryType, Phases
  <2>4. FanConsistent'
    BY <1>10, <2>2 DEF WriteResults, ItemsDone, ledger, FanConsistent, FanPhases, Pending
  <2> QED BY <1>10, <2>2, <2>3, <2>4, LedgerFrame DEF WriteResults
<1>11. CASE WriteFailures
  <2>1. at \in Fanout /\ files[at] \in FilePair
    BY <1>11 DEF WriteFailures, FanConsistent, FanPhases
  <2>2. DiskType' /\ files'[at] \in FilePair
    <3>1. FailureLines(at) \subseteq ItemIndex
      BY DEF FailureLines, ItemsOf
    <3>2. files'[at] \in FilePair
      BY <1>11, <2>1, <3>1 DEF WriteFailures, SetFailures, FilePair, DiskType
    <3> QED BY <1>11, <2>1, <3>2, FilesType DEF WriteFailures, DiskType
  <2>3. MemoryType'
    BY <1>11 DEF WriteFailures, MemoryType, Phases
  <2>4. FanConsistent'
    BY <1>11, <2>2 DEF WriteFailures, ledger, FanConsistent, FanPhases, Pending
  <2> QED BY <1>11, <2>2, <2>3, <2>4, LedgerFrame DEF WriteFailures
<1>12. CASE RecordCollection
  <2>1. at \in Node
    BY <1>12 DEF RecordCollection, FanConsistent, FanPhases
  <2>2. Collected \in OutputValue /\ Collected # NoOutput
    BY DEF Collected, MemoryType, FanLocals, Collection, OutputValue
  <2>3. LedgerType'
    BY <1>12, <2>1, <2>2, RecordType DEF RecordCollection
  <2>4. MemoryType'
    BY <1>12, <2>1, <2>2 DEF RecordCollection, NextNode, MemoryType, Phases, Node
  <2>5. FanConsistent'
    BY <1>12 DEF RecordCollection, NextNode, FanConsistent, FanPhases
  <2> QED BY <1>12, <2>3, <2>4, <2>5, DiskFrame DEF RecordCollection
<1> QED
  BY <1>1, <1>2, <1>3, <1>4, <1>5, <1>6, <1>7, <1>8, <1>9, <1>10, <1>11, <1>12 DEF ItemStep

LEMMA NextType == TypeInv /\ [Next]_vars => TypeInv'
<1> SUFFICES ASSUME TypeInv, [Next]_vars PROVE TypeInv'
  OBVIOUS
<1> USE DEF TypeInv, TypeOK
<1>1. CASE StartLoop
  <2>1. MemoryType'
    BY <1>1 DEF StartLoop, MemoryType, Phases
  <2>2. FanConsistent'
    BY <1>1 DEF StartLoop, FanConsistent, FanPhases
  <2> QED BY <1>1, <2>1, <2>2, LedgerFrame, DiskFrame DEF StartLoop
<1>2. CASE RejectChecks
  BY <1>2, BreakRunType, LedgerFrame, DiskFrame DEF RejectChecks
<1>3. CASE \E n \in Node : NodeStep(n)
  BY <1>3, NodeStepType
<1>4. CASE ItemStep
  BY <1>4, ItemStepType
<1>5. CASE Conclude
  <2>1. verdict' \in Verdicts
    BY <1>5 DEF Conclude, Envelope, Verdicts, MemoryType
  <2>2. MemoryType'
    BY <1>5, <2>1 DEF Conclude, MemoryType, Phases
  <2>3. FanConsistent'
    BY <1>5, <2>1 DEF Conclude, FanConsistent, FanPhases
  <2> QED BY <1>5, <2>2, <2>3, LedgerFrame, DiskFrame DEF Conclude
<1>6. CASE StorageFault
  <2>1. DiskType'
    BY <1>6, TearType DEF StorageFault, DiskType
  <2> QED BY <1>6, <2>1, BreakRunType, LedgerFrame DEF StorageFault
<1>7. CASE Finish
  <2>1. verdict \in Verdicts
    BY <1>7 DEF Finish, FanConsistent
  <2>2. LedgerType'
    BY <1>7, <2>1 DEF Finish, LedgerType, Verdicts
  <2>3. MemoryType'
    BY <1>7 DEF Finish, AfterFinish, MemoryType, Phases
  <2>4. FanConsistent'
    BY <1>7, <2>1 DEF Finish, AfterFinish, FanConsistent, FanPhases
  <2> QED BY <1>7, <2>2, <2>3, <2>4, DiskFrame DEF Finish
<1>8. CASE WriteWarehouse
  <2>1. verdict \in Verdicts
    BY <1>8 DEF WriteWarehouse, FanConsistent
  <2>2. DiskType'
    BY <1>8, <2>1 DEF WriteWarehouse, DiskType, LedgerType, Verdicts
  <2>3. MemoryType'
    BY <1>8 DEF WriteWarehouse, MemoryType, Phases
  <2>4. FanConsistent'
    BY <1>8, <2>1 DEF WriteWarehouse, FanConsistent, FanPhases
  <2> QED BY <1>8, <2>2, <2>3, <2>4, LedgerFrame DEF WriteWarehouse
<1>9. CASE Begin
  <2>1. MemoryType'
    BY <1>9 DEF Begin, MemoryType, Phases
  <2>2. FanConsistent'
    BY <1>9 DEF Begin, FanConsistent, FanPhases
  <2> QED BY <1>9, <2>1, <2>2, LedgerFrame, DiskFrame DEF Begin
<1>10. CASE RequestCancel
  <2>1. MemoryType'
    BY <1>10 DEF RequestCancel, MemoryType
  <2>2. FanConsistent'
    BY <1>10 DEF RequestCancel, ledger, disk, FanConsistent, FanPhases, Pending, Concluded
  <2> QED BY <1>10, <2>1, <2>2, LedgerFrame, DiskFrame DEF RequestCancel
<1>11. CASE CancelInterrupted
  <2>1. LedgerType'
    BY <1>11 DEF CancelInterrupted, LedgerType
  <2>2. MemoryType'
    BY <1>11 DEF CancelInterrupted, memory, MemoryType
  <2>3. FanConsistent'
    BY <1>11 DEF CancelInterrupted, memory, FanConsistent, FanPhases
  <2> QED BY <1>11, <2>1, <2>2, <2>3, DiskFrame DEF CancelInterrupted
<1>12. CASE Crash
  <2>1. DiskType'
    BY <1>12, TearType DEF Crash, DiskType
  <2>2. MemoryType'
    <3>1. NoFan \in FanLocals
      BY DEF NoFan, FanLocals
    <3>2. 1 \in 1..(N + 1)
      OBVIOUS
    <3> QED BY <1>12, <3>1, <3>2 DEF Crash, MemoryType, Phases
  <2>3. FanConsistent'
    BY <1>12 DEF Crash, FanConsistent, FanPhases
  <2> QED BY <1>12, <2>1, <2>2, <2>3, LedgerFrame DEF Crash
<1>13. CASE \E n \in Fanout, m \in Manifests : EditManifest(n, m)
  <2>1. DiskType'
    BY <1>13 DEF EditManifest, DiskType
  <2>2. MemoryType'
    BY <1>13 DEF EditManifest, memory, MemoryType
  <2>3. FanConsistent'
    BY <1>13 DEF EditManifest, memory, ledger, FanConsistent, FanPhases, Pending, Concluded
  <2> QED BY <1>13, <2>1, <2>2, <2>3, LedgerFrame DEF EditManifest
<1>14. CASE UNCHANGED vars
  <2>1. MemoryType' /\ FanConsistent'
    BY <1>14 DEF vars, memory, ledger, disk, MemoryType, FanConsistent, FanPhases, Pending,
       Concluded
  <2> QED BY <1>14, <2>1, LedgerFrame, DiskFrame DEF vars
<1>15. CASE AwaitRoom
  <2>1. MemoryType'
    BY <1>15 DEF AwaitRoom, MemoryType, Phases
  <2>2. FanConsistent'
    BY <1>15 DEF AwaitRoom, FanConsistent, FanPhases
  <2> QED BY <1>15, <2>1, <2>2, LedgerFrame, DiskFrame DEF AwaitRoom
<1> QED
  BY <1>1, <1>2, <1>3, <1>4, <1>5, <1>6, <1>7, <1>8, <1>9, <1>10, <1>11, <1>12, <1>13, <1>14,
     <1>15
  DEF Next, RunStep, Surroundings

THEOREM TypeCorrect == Spec => []TypeOK
<1>1. Init => TypeInv
  BY InitType
<1>2. TypeInv /\ [Next]_vars => TypeInv'
  BY NextType
<1>3. TypeInv => TypeOK
  BY DEF TypeInv
<1> QED BY <1>1, <1>2, <1>3, PTL DEF Spec

-----------------------------------------------------------------------------
(***************************************************************************)
(* Safety.  The argument rests on three facts kept by every step, on top   *)
(* of the types: the walk's memory is what the ledger says of the nodes it *)
(* has passed, nodes are decided in topological order, and the node being  *)
(* run is one that may run.                                                *)
(***************************************************************************)

\* The walk decided, or will decide, to skip n.
Skips(n) == BranchExcludes(n) \/ NeedsSkipped(n)

\* Nothing is remembered before the first node.
MemoryEmpty ==
  /\ at = 1
  /\ outputs = [n \in Node |-> NoOutput]
  /\ skipped = {}
  /\ routeTaken = [n \in Node |-> NoRoute]

WalkInv ==
  /\ MemoryMatchesLedger
  /\ phase \in {"down", "start"} => MemoryEmpty
  /\ \A n \in Node : Decided(n) => \A m \in 1..(n - 1) : Decided(m)
  /\ phase \in FanPhases => ~Skips(at)
  /\ phase \notin {"down", "finished", "done"} => jobStatus = "running"

Inv == TypeInv /\ WalkInv

(***************************************************************************)
(* The only ways a step touches a node's row.                              *)
(***************************************************************************)
Skip(n) == Skips(n) /\ whole' = [whole EXCEPT ![n] = [status |-> "skipped", out |-> NoOutput]]

Complete(n) ==
  /\ ~Skips(n)
  /\ \E v \in NodeOutputs(n) :
       whole' = [whole EXCEPT ![n] = [status |-> "completed", out |-> v]]

Escalate(n) == whole' = [whole EXCEPT ![n] = [status |-> "escalated", out |-> NoOutput]]

Touch(n) ==
  /\ n = at
  /\ Walking
  /\ Pending(n)
  /\ \/ Skip(n)
     \/ Complete(n)
     \/ Escalate(n)

LEMMA WholeStep ==
  ASSUME Inv, [Next]_vars
  PROVE  UNCHANGED whole \/ \E n \in Node : Touch(n)
<1> USE DEF Inv, TypeInv, TypeOK
<1>1. ASSUME NEW n \in Node, NodeStep(n)
      PROVE  UNCHANGED whole \/ \E k \in Node : Touch(k)
  <2>1. CASE SkipByBranch(n) \/ SkipTransitively(n)
    <3>1. Touch(n)
      BY <2>1 DEF SkipByBranch, SkipTransitively, RecordSkip, Touch, Skip, Skips, AtNode, Walking
    <3> QED BY <3>1
  <2>2. CASE \E v \in Values : RunNode(n, v)
    <3>1. Touch(n)
      BY <2>2 DEF RunNode, ToRun, Touch, Complete, Skips, NodeOutputs, AtNode, Walking
    <3> QED BY <3>1
  <2>3. CASE ExhaustNode(n)
    BY <2>3 DEF ExhaustNode, ToRun, Touch, Escalate, AtNode, Walking
  <2> QED
    BY <1>1, <2>1, <2>2, <2>3 DEF NodeStep, VisitSkipped, VisitCompleted, RejectRoute,
       InterruptNode, OpenManifest, RejectManifest, ledger
<1>2. ASSUME ItemStep
      PROVE  UNCHANGED whole \/ \E k \in Node : Touch(k)
  <2>1. CASE RecordCollection
    <3>1. at \in Node /\ at \in Fanout /\ Pending(at) /\ ~Skips(at)
      BY <2>1 DEF RecordCollection, WalkInv, FanConsistent, FanPhases
    <3>2. Collected \in NodeOutputs(at)
      <4>1. /\ fan.from \in Manifests
            /\ fan.succeeded \in Nat /\ fan.failed \in Nat
            /\ fan.succeeded > 0
            /\ fan.succeeded + fan.failed = ManifestLen[fan.from]
        BY <2>1 DEF RecordCollection, FanConsistent, FanPhases, MemoryType, FanLocals
      <4>2. ManifestLen[fan.from] \in 0..MaxItems
        BY <4>1
      <4>3. fan.succeeded \in 1..MaxItems /\ fan.failed \in 0..MaxItems
        BY <4>1, <4>2
      <4> QED BY <3>1, <4>1, <4>3 DEF NodeOutputs, Collected
    <3>3. Touch(at)
      BY <2>1, <3>1, <3>2 DEF RecordCollection, Touch, Complete, Walking
    <3> QED BY <3>1, <3>3
  <2> QED
    BY <1>2, <2>1 DEF ItemStep, CancelBetweenItems, CountConcluded, MiscountConcluded,
       MismatchItem, StartItem, CompleteItem, ExhaustItem, InterruptItem, AllItemsFailed,
       WriteResults, WriteFailures, ledger
<1> QED
  BY <1>1, <1>2 DEF Next, RunStep, AwaitRoom, Surroundings, StartLoop, RejectChecks, Conclude,
     StorageFault,
     Finish, WriteWarehouse, Begin, RequestCancel, CancelInterrupted, Crash, EditManifest,
     vars, ledger

-----------------------------------------------------------------------------
(***************************************************************************)
(* The walk's memory                                                       *)
(***************************************************************************)

LEMMA MemoryFrame ==
  ASSUME MemoryMatchesLedger, Walking, UNCHANGED <<whole, at, outputs, skipped, routeTaken>>
  PROVE  MemoryMatchesLedger'
BY DEF MemoryMatchesLedger, Walking, Decided, RecordedOutput, RecordedSkips, RouteOf

\* The walk moves past node n, remembering what the ledger now says of it.
LEMMA MemoryAdvance ==
  ASSUME Inv, NEW n \in Node, Walking, at = n, at' = n + 1,
         Decided(n)',
         \A m \in Node \ {n} : /\ whole'[m] = whole[m]
                               /\ outputs'[m] = outputs[m]
                               /\ routeTaken'[m] = routeTaken[m]
                               /\ m \in skipped' <=> m \in skipped,
         outputs'[n] = whole'[n].out,
         routeTaken'[n] = RouteOf(whole'[n].out),
         n \in skipped' <=> whole'[n].status = "skipped"
  PROVE  MemoryMatchesLedger'
<1>1. ASSUME NEW m \in 1..n
      PROVE  /\ Decided(m)'
             /\ outputs'[m] = RecordedOutput(m)'
             /\ m \in skipped' <=> m \in RecordedSkips'
             /\ routeTaken'[m] = RouteOf(RecordedOutput(m))'
  <2>1. CASE m = n
    BY <2>1 DEF RecordedOutput, RecordedSkips, RouteOf
  <2>2. CASE m # n
    <3>1. m \in 1..(at - 1) /\ m \in Node
      BY <2>2 DEF Node
    <3>2. /\ Decided(m)
          /\ outputs[m] = RecordedOutput(m)
          /\ m \in skipped <=> m \in RecordedSkips
          /\ routeTaken[m] = RouteOf(RecordedOutput(m))
      BY <3>1 DEF Inv, WalkInv, MemoryMatchesLedger
    <3>3. /\ whole'[m] = whole[m]
          /\ outputs'[m] = outputs[m]
          /\ routeTaken'[m] = routeTaken[m]
          /\ m \in skipped' <=> m \in skipped
      BY <2>2, <3>1
    <3> QED BY <3>1, <3>2, <3>3 DEF Decided, RecordedOutput, RecordedSkips, RouteOf
  <2> QED BY <2>1, <2>2
<1>2. ASSUME NEW m \in (n + 1)..N
      PROVE  outputs'[m] = NoOutput /\ m \notin skipped' /\ routeTaken'[m] = NoRoute
  <2>1. m \in at..N /\ m \in Node \ {n}
    BY DEF Node
  <2> QED BY <2>1 DEF Inv, WalkInv, MemoryMatchesLedger
<1>3. (1..(at - 1))' = 1..n /\ (at..N)' = (n + 1)..N
  BY DEF Node
<1> QED BY <1>1, <1>2, <1>3 DEF MemoryMatchesLedger

LEMMA MemoryStep ==
  ASSUME Inv, [Next]_vars
  PROVE  MemoryMatchesLedger'
<1> USE DEF Inv, TypeInv, TypeOK
<1>0. MemoryMatchesLedger
  BY DEF WalkInv
<1>1. ASSUME NEW n \in Node, NodeStep(n)
      PROVE  MemoryMatchesLedger'
  <2>0. Walking /\ at = n /\ n \notin skipped /\ outputs[n] = NoOutput /\ routeTaken[n] = NoRoute
    <3>1. Walking /\ at = n
      BY <1>1 DEF NodeStep, VisitSkipped, VisitCompleted, SkipByBranch, SkipTransitively, RunNode,
         RejectRoute, ExhaustNode, InterruptNode, OpenManifest, RejectManifest, ToRun, AtNode,
         Walking
    <3>2. n \in at..N
      BY <3>1 DEF Node
    <3> QED BY <3>1, <3>2, <1>0 DEF MemoryMatchesLedger
  <2>1. CASE VisitSkipped(n)
    <3>1. whole[n].out = NoOutput /\ RouteOf(whole[n].out) = NoRoute
      BY <2>1 DEF VisitSkipped, LedgerType, RouteOf, OutputValue
    <3> QED BY <2>0, <2>1, <3>1, MemoryAdvance DEF VisitSkipped, NextNode, Decided, ledger, RouteOf
  <2>2. CASE VisitCompleted(n)
    BY <2>0, <2>2, MemoryAdvance DEF VisitCompleted, NextNode, Decided, ledger, MemoryType, RouteOf
  <2>3. CASE SkipByBranch(n) \/ SkipTransitively(n)
    <3>1. whole'[n] = [status |-> "skipped", out |-> NoOutput]
      BY <2>3 DEF SkipByBranch, SkipTransitively, RecordSkip, LedgerType
    <3>2. RouteOf(whole'[n].out) = NoRoute
      BY <3>1 DEF RouteOf, OutputValue
    <3> QED BY <2>0, <2>3, <3>1, <3>2, MemoryAdvance
            DEF SkipByBranch, SkipTransitively, RecordSkip, NextNode, Decided, LedgerType
  <2>4. CASE \E v \in Values : RunNode(n, v)
    <3> PICK v \in Values : RunNode(n, v)
      BY <2>4
    <3>1. whole'[n] = [status |-> "completed", out |-> v]
      BY DEF RunNode, LedgerType
    <3>2. RouteOf(whole'[n].out) = RouteOf(v)
      BY <3>1 DEF RouteOf
    <3> QED BY <2>0, <3>1, <3>2, MemoryAdvance
            DEF RunNode, NextNode, Decided, LedgerType, MemoryType
  <2>5. CASE OpenManifest(n)
    BY <2>0, <2>5, <1>0, MemoryFrame DEF OpenManifest
  <2>6. CASE (\E v \in Values : RejectRoute(n, v)) \/ ExhaustNode(n) \/ InterruptNode(n)
             \/ RejectManifest(n)
    BY <2>6 DEF RejectRoute, ExhaustNode, InterruptNode, RejectManifest, BreakRun,
       MemoryMatchesLedger, Walking
  <2> QED BY <1>1, <2>1, <2>2, <2>3, <2>4, <2>5, <2>6 DEF NodeStep
<1>2. ASSUME ItemStep
      PROVE  MemoryMatchesLedger'
  <2>1. CASE RecordCollection
    <3>1. at \in Node /\ at \in Fanout /\ Pending(at)
      BY <2>1 DEF RecordCollection, FanConsistent, FanPhases
    <3>2. at \in at..N /\ Walking
      BY <2>1, <3>1 DEF Node, RecordCollection, Walking
    <3>3. at \notin skipped /\ outputs[at] = NoOutput /\ routeTaken[at] = NoRoute
      BY <3>2, <1>0 DEF MemoryMatchesLedger
    <3>4. whole'[at] = [status |-> "completed", out |-> Collected]
      BY <2>1, <3>1 DEF RecordCollection, LedgerType
    <3>5. Collected \in Collection
      BY DEF Collected, Collection, MemoryType, FanLocals
    <3>6. RouteOf(whole'[at].out) = NoRoute
      BY <3>4, <3>5 DEF RouteOf
    <3> QED BY <2>1, <3>1, <3>2, <3>3, <3>4, <3>6, MemoryAdvance
            DEF RecordCollection, NextNode, Decided, LedgerType, MemoryType
  <2>2. CASE UNCHANGED <<whole, at, outputs, skipped, routeTaken>> /\ Walking
    BY <2>2, <1>0, MemoryFrame
  <2>3. CASE CancelBetweenItems \/ InterruptItem \/ AllItemsFailed
    BY <2>3 DEF CancelBetweenItems, InterruptItem, AllItemsFailed, BreakRun,
       MemoryMatchesLedger, Walking
  <2> QED
    BY <1>2, <2>1, <2>2, <2>3 DEF ItemStep, CountConcluded, MiscountConcluded, MismatchItem,
       StartItem, CompleteItem, ExhaustItem, WriteResults, WriteFailures, CountItem, AtItem,
       ItemsDone, ledger, Walking
<1>3. CASE StartLoop
  <2>1. MemoryEmpty
    BY <1>3 DEF StartLoop, WalkInv
  <2>2. at' = 1 /\ outputs' = outputs /\ skipped' = skipped /\ routeTaken' = routeTaken
    BY <1>3, <2>1 DEF StartLoop, MemoryEmpty
  <2> QED BY <2>1, <2>2 DEF MemoryEmpty, MemoryMatchesLedger, Node
<1>4. CASE \/ RejectChecks \/ Conclude \/ StorageFault \/ Finish \/ WriteWarehouse \/ Begin
           \/ Crash \/ AwaitRoom
  BY <1>4 DEF AwaitRoom, RejectChecks, Conclude, StorageFault, Finish, AfterFinish, WriteWarehouse,
     Begin, Crash, BreakRun, MemoryMatchesLedger, Walking
<1>5. CASE RequestCancel \/ CancelInterrupted \/ UNCHANGED vars
           \/ \E n \in Fanout, m \in Manifests : EditManifest(n, m)
  <2>1. UNCHANGED <<whole, at, outputs, skipped, routeTaken, phase>>
    BY <1>5 DEF RequestCancel, CancelInterrupted, EditManifest, vars, memory, ledger
  <2> QED BY <2>1, <1>0, MemoryFrame DEF MemoryMatchesLedger, Walking
<1> QED BY <1>1, <1>2, <1>3, <1>4, <1>5 DEF Next, RunStep, Surroundings

\* No row of a decided node changes, and at most one node becomes decided.
LEMMA RowsFinal ==
  ASSUME Inv, [Next]_vars, NEW n \in Node, Decided(n)
  PROVE  whole'[n] = whole[n]
<1>1. CASE UNCHANGED whole
  BY <1>1
<1>2. ASSUME NEW k \in Node, Touch(k)
      PROVE  whole'[n] = whole[n]
  <2>1. k # n
    BY <1>2 DEF Touch, Pending, Decided
  <2> QED BY <1>2, <2>1 DEF Touch, Skip, Complete, Escalate, Inv, TypeInv, TypeOK, LedgerType
<1> QED BY <1>1, <1>2, WholeStep

\* The nodes before the one the walk is at are decided.
LEMMA EarlierDecided ==
  ASSUME Inv, NEW n \in Node, Touch(n), NEW m \in 1..(n - 1)
  PROVE  m \in Node /\ m # n /\ Decided(m)
BY DEF Inv, WalkInv, Touch, MemoryMatchesLedger, Node

LEMMA OrderStep ==
  ASSUME Inv, [Next]_vars
  PROVE  (\A n \in Node : Decided(n) => \A m \in 1..(n - 1) : Decided(m))'
<1> SUFFICES ASSUME NEW n \in Node, Decided(n)', NEW m \in 1..(n - 1)
             PROVE  Decided(m)'
  OBVIOUS
<1>1. m \in Node
  BY DEF Node
<1>2. Decided(m)
  <2>1. CASE Decided(n)
    BY <2>1 DEF Inv, WalkInv
  <2>2. CASE ~Decided(n)
    <3>1. PICK k \in Node : Touch(k)
      BY <2>2, WholeStep DEF Decided
    <3>2. k = n
      BY <2>2, <3>1 DEF Touch, Skip, Complete, Escalate, Decided, Inv, TypeInv, TypeOK, LedgerType
    <3> QED BY <3>1, <3>2, EarlierDecided
  <2> QED BY <2>1, <2>2
<1>3. whole'[m] = whole[m]
  BY <1>1, <1>2, RowsFinal
<1> QED BY <1>2, <1>3 DEF Decided

\* Nodes and items are run in the walk only, and leave the job's status alone.
LEMMA WalkOnly ==
  ASSUME (\E n \in Node : NodeStep(n)) \/ ItemStep
  PROVE  phase \in {"nodes", "items", "inflight", "results", "files"} /\ UNCHANGED jobStatus
<1>1. ASSUME NEW n \in Node, NodeStep(n)
      PROVE  phase = "nodes" /\ UNCHANGED jobStatus
  BY <1>1 DEF NodeStep, VisitSkipped, VisitCompleted, SkipByBranch, SkipTransitively, RecordSkip,
     RunNode, RejectRoute, ExhaustNode, InterruptNode, OpenManifest, RejectManifest, ToRun, AtNode,
     ledger
<1>2. CASE ItemStep
  BY <1>2 DEF ItemStep, CancelBetweenItems, CountConcluded, MiscountConcluded, MismatchItem,
     StartItem, CompleteItem, ExhaustItem, InterruptItem, AllItemsFailed, WriteResults,
     WriteFailures, RecordCollection, AtItem, ItemsDone, ledger
<1> QED BY <1>1, <1>2

LEMMA WalkStep ==
  ASSUME Inv, [Next]_vars
  PROVE  Inv'
<1> USE DEF Inv
<1>1. TypeInv'
  BY NextType
<1>2. MemoryMatchesLedger'
  BY MemoryStep
<1>3. (\A n \in Node : Decided(n) => \A m \in 1..(n - 1) : Decided(m))'
  BY OrderStep
<1>4. (phase \in {"down", "start"} => MemoryEmpty)'
  <2>1. CASE Begin \/ RequestCancel \/ CancelInterrupted \/ UNCHANGED vars
             \/ \E n \in Fanout, m \in Manifests : EditManifest(n, m)
    BY <2>1 DEF Begin, RequestCancel, CancelInterrupted, EditManifest, vars, memory,
       WalkInv, MemoryEmpty
  <2>2. CASE Crash
    BY <2>2 DEF Crash, MemoryEmpty
  <2>3. CASE RunStep
    <3>1. phase' \notin {"down", "start"}
      BY <2>3 DEF RunStep, AwaitRoom, Sends, NodeStep, ItemStep, StartLoop, RejectChecks,
         VisitSkipped,
         VisitCompleted, SkipByBranch, SkipTransitively, RecordSkip, RunNode, RejectRoute,
         ExhaustNode, InterruptNode, OpenManifest, RejectManifest, CancelBetweenItems,
         CountConcluded, MiscountConcluded, MismatchItem, StartItem, CompleteItem, ExhaustItem,
         InterruptItem, AllItemsFailed, WriteResults, WriteFailures, RecordCollection,
         Conclude, StorageFault, Finish, AfterFinish, WriteWarehouse, BreakRun, NextNode, CountItem
    <3> QED BY <3>1
  <2> QED BY <2>1, <2>2, <2>3 DEF Next, Surroundings
<1>5. (phase \in FanPhases => ~Skips(at))'
  <2> SUFFICES ASSUME phase' \in FanPhases PROVE ~Skips(at)'
    OBVIOUS
  <2>1. ~Skips(at) /\ UNCHANGED <<at, skipped, routeTaken>>
    <3>1. CASE \E n \in Node : NodeStep(n)
      <4> PICK n \in Node : NodeStep(n)
        BY <3>1
      <4>1. OpenManifest(n)
        BY DEF NodeStep, VisitSkipped, VisitCompleted, SkipByBranch, SkipTransitively, RecordSkip,
           RunNode, RejectRoute, ExhaustNode, InterruptNode, RejectManifest, BreakRun, NextNode,
           FanPhases
      <4> QED BY <4>1 DEF OpenManifest, ToRun, AtNode, Skips
    <3>2. CASE ItemStep
      <4>1. CASE CancelBetweenItems \/ InterruptItem \/ AllItemsFailed \/ RecordCollection
        BY <4>1 DEF CancelBetweenItems, InterruptItem, AllItemsFailed, RecordCollection, AtItem,
           ItemsDone, BreakRun, NextNode, FanPhases, WalkInv
      <4>2. CASE CountConcluded \/ MiscountConcluded \/ MismatchItem \/ StartItem
        BY <4>2 DEF CountConcluded, MiscountConcluded, MismatchItem, StartItem, AtItem, CountItem,
           FanPhases, WalkInv
      <4>3. CASE ExhaustItem \/ \E v \in Values : CompleteItem(v)
        BY <4>3 DEF ExhaustItem, CompleteItem, CountItem, FanPhases, WalkInv
      <4>4. CASE WriteResults \/ WriteFailures
        BY <4>4 DEF WriteResults, WriteFailures, ItemsDone, FanPhases, WalkInv
      <4> QED
        BY <3>2, <4>1, <4>2, <4>3, <4>4 DEF ItemStep
    <3>3. CASE RequestCancel \/ CancelInterrupted \/ UNCHANGED vars
               \/ \E n \in Fanout, m \in Manifests : EditManifest(n, m)
      BY <3>3 DEF RequestCancel, CancelInterrupted, EditManifest, vars, memory, FanPhases, WalkInv
    <3> QED
      BY <3>1, <3>2, <3>3 DEF Next, RunStep, AwaitRoom, Surroundings, StartLoop, RejectChecks,
         Conclude,
         StorageFault, Finish, AfterFinish, WriteWarehouse, Begin, Crash, BreakRun, FanPhases
  <2> QED BY <2>1 DEF Skips, BranchExcludes, NeedsSkipped
<1>6. (phase \notin {"down", "finished", "done"} => jobStatus = "running")'
  <2>0. CASE AwaitRoom
    BY <2>0 DEF AwaitRoom, Sends, AtNode, AtItem, ledger, WalkInv
  <2>1. CASE UNCHANGED jobStatus /\ ~AwaitRoom
    <3>1. CASE (\E n \in Node : NodeStep(n)) \/ ItemStep
      BY <2>1, <3>1, WalkOnly DEF WalkInv
    <3> QED
      BY <2>1, <3>1 DEF Next, RunStep, Surroundings, StartLoop, RejectChecks, AtNode, Conclude,
         StorageFault, Finish, AfterFinish, WriteWarehouse, Begin, RequestCancel,
         CancelInterrupted, Crash, EditManifest, vars, memory, WalkInv, Resumable
  <2>2. CASE Finish
    BY <2>2 DEF Finish, AfterFinish
  <2>3. CASE CancelInterrupted
    BY <2>3 DEF CancelInterrupted, memory
  <2> QED
    BY <2>0, <2>1, <2>2, <2>3 DEF Next, RunStep, NodeStep, ItemStep, Surroundings, StartLoop,
       RejectChecks, VisitSkipped,
       VisitCompleted, SkipByBranch, SkipTransitively, RecordSkip, RunNode, RejectRoute,
       ExhaustNode, InterruptNode, OpenManifest, RejectManifest, CancelBetweenItems,
       CountConcluded, MiscountConcluded, MismatchItem, StartItem, CompleteItem, ExhaustItem,
       InterruptItem, AllItemsFailed, WriteResults, WriteFailures, RecordCollection,
       Conclude, StorageFault, WriteWarehouse, Begin, RequestCancel,
       Crash, EditManifest, vars, ledger
<1> QED BY <1>1, <1>2, <1>3, <1>4, <1>5, <1>6 DEF WalkInv

LEMMA InitWalk == Init => Inv
<1> SUFFICES ASSUME Init PROVE Inv
  OBVIOUS
<1>1. TypeInv
  BY InitType
<1>2. WalkInv
  <2>1. \A n \in Node : ~Decided(n)
    BY DEF Init, NoRow, Decided
  <2> QED BY <2>1 DEF Init, WalkInv, MemoryMatchesLedger, MemoryEmpty, Walking, FanPhases
<1> QED BY <1>1, <1>2 DEF Inv

LEMMA Invariance == Spec => []Inv
<1>1. Init => Inv
  BY InitWalk
<1>2. Inv /\ [Next]_vars => Inv'
  BY WalkStep
<1> QED BY <1>1, <1>2, PTL DEF Spec

(***************************************************************************)
(* After any number of crashes the walk's memory is what the ledger says   *)
(* of the nodes it has passed (run_job's resume).                          *)
(***************************************************************************)
THEOREM ResumeRebuildsMemory == Spec => []MemoryMatchesLedger
<1>1. Inv => MemoryMatchesLedger
  BY DEF Inv, WalkInv
<1> QED BY <1>1, Invariance, PTL

-----------------------------------------------------------------------------
(***************************************************************************)
(* Conditional dispatch                                                    *)
(***************************************************************************)

\* A decision with a route has an output, so it is completed.
LEMMA RoutedIsCompleted ==
  ASSUME TypeInv, NEW n \in Node, RouteOf(whole[n].out) # NoRoute
  PROVE  whole[n].status = "completed" /\ Decided(n)
BY DEF TypeInv, TypeOK, LedgerType, RouteOf, OutputValue, Decided

\* What Touch does to the rows.
LEMMA TouchedRows ==
  ASSUME Inv, NEW n \in Node, Touch(n)
  PROVE  /\ \A m \in Node \ {n} : whole'[m] = whole[m]
         /\ whole'[n].status \in {"completed", "skipped", "escalated"}
         /\ whole'[n].status = "completed" => ~Skips(n)
         /\ whole'[n].status = "skipped" => Skips(n)
BY DEF Inv, TypeInv, TypeOK, LedgerType, Touch, Skip, Complete, Escalate

LEMMA InputsStep ==
  ASSUME Inv, [Next]_vars, CompletedInputsCompleted
  PROVE  CompletedInputsCompleted'
<1> SUFFICES ASSUME NEW n \in Node, whole'[n].status = "completed", NEW m \in Inputs[n] \ {n}
             PROVE  whole'[m].status = "completed"
  BY DEF CompletedInputsCompleted
<1>1. m \in Node /\ m \in 1..(n - 1)
  BY DEF Node
<1>2. CASE whole[n].status = "completed"
  <2>1. whole[m].status = "completed"
    BY <1>2 DEF CompletedInputsCompleted
  <2> QED BY <2>1, <1>1, RowsFinal DEF Decided
<1>3. CASE whole[n].status # "completed"
  <2>1. PICK k \in Node : Touch(k)
    BY <1>3, WholeStep
  <2>2. k = n /\ ~Skips(n)
    BY <2>1, <1>3, TouchedRows
  <2>3. Decided(m) /\ whole'[m] = whole[m]
    BY <1>1, <2>1, <2>2, EarlierDecided, TouchedRows
  <2>4. m \notin skipped /\ (m \in skipped <=> m \in RecordedSkips)
    BY <1>1, <2>1, <2>2 DEF Skips, NeedsSkipped, Touch, Inv, WalkInv, MemoryMatchesLedger
  <2> QED BY <1>1, <2>3, <2>4 DEF Decided, RecordedSkips
<1> QED BY <1>2, <1>3

LEMMA BranchStep ==
  ASSUME Inv, [Next]_vars, BranchRespected
  PROVE  BranchRespected'
<1> SUFFICES ASSUME NEW n \in Node, Exclusive[n] # NoBranch, Exclusive[n].decision < n,
                    whole'[n].status = "completed"
             PROVE  RouteOf(whole'[Exclusive[n].decision].out) \in {NoRoute, Exclusive[n].label}
  BY DEF BranchRespected, RouteOf
<1> DEFINE d == Exclusive[n].decision
<1>1. d \in Node /\ d \in 1..(n - 1)
  BY DEF Node
<1>2. CASE whole[n].status = "completed"
  <2>1. Decided(d)
    BY <1>1, <1>2 DEF Inv, WalkInv, Decided
  <2>2. whole'[d] = whole[d]
    BY <1>1, <2>1, RowsFinal
  <2> QED BY <1>2, <2>2 DEF BranchRespected
<1>3. CASE whole[n].status # "completed"
  <2>1. PICK k \in Node : Touch(k)
    BY <1>3, WholeStep
  <2>2. k = n /\ ~Skips(n)
    BY <2>1, <1>3, TouchedRows
  <2>3. whole'[d] = whole[d]
    BY <1>1, <2>1, <2>2, TouchedRows
  <2>4. routeTaken[d] = RouteOf(whole[d].out)
    BY <1>1, <2>1, <2>2 DEF Touch, Inv, WalkInv, MemoryMatchesLedger, RecordedOutput
  <2>5. routeTaken[d] \in {NoRoute, Exclusive[n].label}
    BY <2>2 DEF Skips, BranchExcludes
  <2> QED BY <2>3, <2>4, <2>5
<1> QED BY <1>2, <1>3

LEMMA SkipStep ==
  ASSUME Inv, [Next]_vars, SkipJustified
  PROVE  SkipJustified'
<1> SUFFICES ASSUME NEW n \in Node, whole'[n].status = "skipped"
             PROVE  \/ /\ Exclusive[n] # NoBranch
                       /\ RouteOf(whole'[Exclusive[n].decision].out)
                            \notin {NoRoute, Exclusive[n].label}
                    \/ \E m \in Inputs[n] \ {n} : whole'[m].status = "skipped"
  BY DEF SkipJustified, RecordedSkips, RouteOf
<1>1. \/ /\ Exclusive[n] # NoBranch
         /\ RouteOf(whole[Exclusive[n].decision].out) \notin {NoRoute, Exclusive[n].label}
      \/ \E m \in Inputs[n] \ {n} : whole[m].status = "skipped"
  <2>1. CASE whole[n].status = "skipped"
    BY <2>1 DEF SkipJustified, RecordedSkips
  <2>2. CASE whole[n].status # "skipped"
    <3>1. PICK k \in Node : Touch(k)
      BY <2>2, WholeStep
    <3>2. k = n /\ Skips(n) /\ Walking /\ at = n
      BY <3>1, <2>2, TouchedRows DEF Touch
    <3>3. CASE BranchExcludes(n)
      <4> DEFINE d == Exclusive[n].decision
      <4>1. d \in Node /\ routeTaken[d] \notin {NoRoute, Exclusive[n].label}
        BY <3>3 DEF BranchExcludes
      <4>2. d \in 1..(at - 1) \/ d \in at..N
        BY <3>2, <4>1 DEF Node
      <4>3. routeTaken[d] = RouteOf(whole[d].out)
        BY <3>2, <4>1, <4>2 DEF Inv, WalkInv, MemoryMatchesLedger, RecordedOutput
      <4> QED BY <3>3, <4>1, <4>3 DEF BranchExcludes
    <3>4. CASE NeedsSkipped(n)
      <4>1. PICK m \in Inputs[n] : m \in skipped
        BY <3>4 DEF NeedsSkipped
      <4>2. m \in Node /\ (m \in 1..(at - 1) \/ m \in at..N)
        BY <3>2 DEF Node
      <4>3. m \in RecordedSkips /\ m \in 1..(at - 1)
        BY <3>2, <4>1, <4>2 DEF Inv, WalkInv, MemoryMatchesLedger
      <4> QED BY <3>2, <4>1, <4>3 DEF RecordedSkips, Node
    <3> QED BY <3>2, <3>3, <3>4 DEF Skips
  <2> QED BY <2>1, <2>2
<1>2. CASE /\ Exclusive[n] # NoBranch
           /\ RouteOf(whole[Exclusive[n].decision].out) \notin {NoRoute, Exclusive[n].label}
  <2>1. Exclusive[n].decision \in Node
    BY <1>2
  <2>2. whole'[Exclusive[n].decision] = whole[Exclusive[n].decision]
    BY <1>2, <2>1, RoutedIsCompleted, RowsFinal DEF Inv
  <2> QED BY <1>2, <2>2
<1>3. ASSUME NEW m \in Inputs[n] \ {n}, whole[m].status = "skipped"
      PROVE  whole'[m].status = "skipped"
  BY <1>3, RowsFinal DEF Decided, Node
<1> QED BY <1>1, <1>2, <1>3

(***************************************************************************)
(* A node ran only on inputs that exist, exactly one side of a decision    *)
(* ran, and every skip has its cause on record, whatever the crashes       *)
(* (run_job's branch skip and transitive skip).                            *)
(***************************************************************************)
THEOREM DispatchCorrect ==
  Spec => []DispatchRespected
<1>1. Init => DispatchRespected
  <2> SUFFICES ASSUME Init PROVE DispatchRespected
    OBVIOUS
  <2>1. \A n \in Node : whole[n].status = "none"
    BY DEF Init, NoRow
  <2> QED BY <2>1 DEF DispatchRespected, CompletedInputsCompleted, BranchRespected,
                      SkipJustified, RecordedSkips
<1>2. Inv /\ DispatchRespected /\ [Next]_vars => DispatchRespected'
  BY InputsStep, BranchStep, SkipStep DEF DispatchRespected
<1> QED BY <1>1, <1>2, Invariance, PTL DEF Spec

-----------------------------------------------------------------------------
(***************************************************************************)
(* Conclusions are final                                                   *)
(***************************************************************************)

\* The only ways a step touches the item rows and the pins.
ConcludeOne ==
  /\ at \in Fanout
  /\ fan.next \in ItemIndex
  /\ fan.next < ManifestLen[fan.from]
  /\ fan.from = pin[at] /\ fan.from \in Manifests
  /\ ~Concluded(at, fan.next)
  /\ \E s, out : ConcludeItem(s, out)
  /\ UNCHANGED pin

PinOne ==
  /\ \E n \in Fanout : /\ pin[n] \in {NoManifest, manifest[n]}
                       /\ pin' = [pin EXCEPT ![n] = manifest[n]]
  /\ UNCHANGED item

LEMMA ItemsTouched ==
  ASSUME Inv, [Next]_vars
  PROVE  UNCHANGED <<item, pin>> \/ ConcludeOne \/ PinOne
<1> USE DEF Inv, TypeInv, TypeOK
<1>1. ASSUME NEW n \in Node, NodeStep(n)
      PROVE  UNCHANGED <<item, pin>> \/ PinOne
  BY <1>1 DEF NodeStep, VisitSkipped, VisitCompleted, SkipByBranch, SkipTransitively, RecordSkip,
     RunNode, RejectRoute, ExhaustNode, InterruptNode, OpenManifest, RejectManifest, PinOne, ledger
<1>2. ASSUME ItemStep
      PROVE  UNCHANGED <<item, pin>> \/ ConcludeOne
  <2>1. CASE MismatchItem \/ ExhaustItem \/ \E v \in Values : CompleteItem(v)
    <3>1. phase \in {"items", "inflight"} /\ fan.next < ManifestLen[fan.from]
          /\ ~Concluded(at, fan.next)
      BY <2>1 DEF MismatchItem, ExhaustItem, CompleteItem, AtItem, FanConsistent
    <3>2. at \in Fanout /\ fan.next \in ItemIndex /\ fan.from = pin[at] /\ fan.from \in Manifests
      BY <3>1 DEF FanConsistent, FanPhases, MemoryType, FanLocals, ItemIndex
    <3>3. (\E s, out : ConcludeItem(s, out)) /\ UNCHANGED pin
      BY <2>1 DEF MismatchItem, ExhaustItem, CompleteItem
    <3> QED BY <3>1, <3>2, <3>3 DEF ConcludeOne
  <2> QED
    BY <1>2, <2>1 DEF ItemStep, CancelBetweenItems, CountConcluded, MiscountConcluded,
       StartItem, InterruptItem, AllItemsFailed, WriteResults, WriteFailures, RecordCollection,
       ledger
<1> QED
  BY <1>1, <1>2 DEF Next, RunStep, AwaitRoom, Surroundings, StartLoop, RejectChecks, Conclude,
     StorageFault,
     Finish, WriteWarehouse, Begin, RequestCancel, CancelInterrupted, Crash, EditManifest,
     vars, ledger

LEMMA ItemRowsFinal ==
  ASSUME Inv, [Next]_vars, NEW n \in Fanout, NEW i \in ItemIndex, Concluded(n, i)
  PROVE  item'[n][i] = item[n][i]
<1>1. CASE ConcludeOne
  <2>1. PICK s, out : ConcludeItem(s, out)
    BY <1>1 DEF ConcludeOne
  <2>2. n # at \/ i # fan.next
    BY <1>1 DEF ConcludeOne
  <2> QED BY <1>1, <2>1, <2>2
          DEF ConcludeOne, ConcludeItem, Inv, TypeInv, TypeOK, LedgerType, ItemTable
<1> QED BY <1>1, ItemsTouched DEF PinOne

LEMMA PinsFinal ==
  ASSUME Inv, [Next]_vars, NEW n \in Fanout, pin[n] # NoManifest
  PROVE  pin'[n] = pin[n]
<1>1. CASE PinOne
  BY <1>1 DEF PinOne, Inv, TypeInv, TypeOK, LedgerType
<1> QED BY <1>1, ItemsTouched DEF ConcludeOne

LEMMA StatusFinal ==
  ASSUME Inv, [Next]_vars, jobStatus # "running"
  PROVE  jobStatus' = jobStatus
<1>1. ~Finish
  BY DEF Finish, Inv, WalkInv
<1>2. ~CancelInterrupted
  BY DEF CancelInterrupted
<1> QED
  BY <1>1, <1>2 DEF Next, RunStep, AwaitRoom, Sends, NodeStep, ItemStep, Surroundings, StartLoop,
     RejectChecks,
     VisitSkipped, VisitCompleted, SkipByBranch, SkipTransitively, RecordSkip, RunNode, RejectRoute,
     ExhaustNode, InterruptNode, OpenManifest, RejectManifest, CancelBetweenItems,
     CountConcluded, MiscountConcluded, MismatchItem, StartItem, CompleteItem, ExhaustItem,
     InterruptItem, AllItemsFailed, WriteResults, WriteFailures, RecordCollection,
     Conclude, StorageFault, WriteWarehouse, Begin, RequestCancel, Crash, EditManifest,
     vars, ledger

(***************************************************************************)
(* No step, in any run over the ledger, changes the row of a decided node  *)
(* or a concluded item, a recorded pin or a finished job's status          *)
(* (ledger.rs's INSERT OR REPLACE never replaces a conclusion).            *)
(***************************************************************************)
THEOREM LedgerFinal == Spec => ConclusionsFinal
<1> DEFINE Final == /\ \A n \in Node : Decided(n) => whole'[n] = whole[n]
                    /\ \A n \in Fanout : \A i \in ItemIndex :
                         Concluded(n, i) => item'[n][i] = item[n][i]
                    /\ \A n \in Fanout : pin[n] # NoManifest => pin'[n] = pin[n]
                    /\ jobStatus # "running" => jobStatus' = jobStatus
<1>1. Inv /\ [Next]_vars => [Final]_vars
  BY RowsFinal, ItemRowsFinal, PinsFinal, StatusFinal
<1> QED BY <1>1, Invariance, PTL DEF Spec, ConclusionsFinal

(***************************************************************************)
(* Every item row came from the manifest its node is pinned to, however    *)
(* often the file was edited (check_or_record_manifest).                   *)
(***************************************************************************)
THEOREM ItemsFromOneManifest == Spec => []ItemsMatchPin
<1>1. Init => ItemsMatchPin
  BY DEF Init, NoItemRow, ItemsMatchPin, Concluded
<1>2. ASSUME Inv, ItemsMatchPin, [Next]_vars
      PROVE  ItemsMatchPin'
  <2> SUFFICES ASSUME NEW n \in Fanout, NEW i \in ItemIndex, Concluded(n, i)'
               PROVE  /\ pin'[n] # NoManifest
                      /\ item'[n][i].from = pin'[n]
                      /\ i < ManifestLen[pin'[n]]
    BY DEF ItemsMatchPin
  <2>1. CASE Concluded(n, i)
    BY <2>1, <1>2, ItemRowsFinal, PinsFinal DEF ItemsMatchPin
  <2>2. CASE ~Concluded(n, i)
    <3>1. ConcludeOne
      BY <1>2, <2>2, ItemsTouched DEF PinOne, Concluded
    <3>2. PICK s, out : ConcludeItem(s, out)
      BY <3>1 DEF ConcludeOne
    <3>3. n = at /\ i = fan.next
      BY <1>2, <2>2, <3>2, <3>1 DEF ConcludeItem, Concluded, ConcludeOne, Inv, TypeInv, TypeOK,
         LedgerType, ItemTable
    <3>4. item'[n][i].from = fan.from
      BY <1>2, <3>1, <3>2, <3>3 DEF ConcludeItem, ConcludeOne, Inv, TypeInv, TypeOK, LedgerType,
         ItemTable
    <3> QED BY <3>1, <3>3, <3>4 DEF ConcludeOne
  <2> QED BY <2>1, <2>2
<1> QED BY <1>1, <1>2, Invariance, PTL DEF Spec

-----------------------------------------------------------------------------
(***************************************************************************)
(* What a fan-out hands on                                                 *)
(***************************************************************************)

\* Of a node's rows, those before the k-th with one of these statuses.
DoneBefore(rows, k, statuses) == {i \in 0..(k - 1) : rows[i].status \in statuses}

Failures == {"failed", "escalated"}

\* The item loop has concluded what it has passed and, unless rows could not
\* be read, counted it by its status.
Counted ==
  phase \in FanPhases =>
    /\ \A i \in 0..(fan.next - 1) : Concluded(at, i)
    /\ ~StorageFaults =>
         /\ fan.succeeded = Cardinality(DoneBefore(item[at], fan.next, {"completed"}))
         /\ fan.failed = Cardinality(DoneBefore(item[at], fan.next, Failures))

\* A file once written is the projection of the rows until the node is recorded.
Projected ==
  /\ phase \in {"results", "files"} => files[at].results = ResultLines(at)
  /\ phase = "files" => files[at].failures = FailureLines(at)

CollectInv == Inv /\ ItemsMatchPin /\ Counted /\ Projected

LEMMA DoneType ==
  ASSUME NEW rows, NEW k \in Nat, NEW statuses
  PROVE  /\ IsFiniteSet(DoneBefore(rows, k, statuses))
         /\ k \notin DoneBefore(rows, k, statuses)
<1>1. IsFiniteSet(0..(k - 1))
  BY FS_Interval
<1>2. DoneBefore(rows, k, statuses) \subseteq 0..(k - 1) /\ k \notin 0..(k - 1)
  BY DEF DoneBefore
<1> QED BY <1>1, <1>2, FS_Subset

\* One more item passed, its row written now or earlier.
LEMMA DoneGrows ==
  ASSUME NEW rows, NEW new, NEW k \in Nat, NEW statuses,
         \A i \in 0..(k - 1) : new[i] = rows[i]
  PROVE  Cardinality(DoneBefore(new, k + 1, statuses))
           = IF new[k].status \in statuses
             THEN Cardinality(DoneBefore(rows, k, statuses)) + 1
             ELSE Cardinality(DoneBefore(rows, k, statuses))
<1> DEFINE before == DoneBefore(rows, k, statuses)
           after == DoneBefore(new, k + 1, statuses)
<1>1. 0..((k + 1) - 1) = (0..(k - 1)) \cup {k}
  OBVIOUS
<1>2. after = {i \in (0..(k - 1)) \cup {k} : new[i].status \in statuses}
  BY <1>1 DEF DoneBefore
<1>3. after = before \cup (IF new[k].status \in statuses THEN {k} ELSE {})
  BY <1>2 DEF DoneBefore
<1>4. IsFiniteSet(before) /\ k \notin before
  BY DoneType
<1> HIDE DEF before, after
<1>5. Cardinality(before \cup {k}) = Cardinality(before) + 1
  BY <1>4, FS_AddElement
<1>6. Cardinality(after) = IF new[k].status \in statuses THEN Cardinality(before) + 1
                                                         ELSE Cardinality(before)
  BY <1>3, <1>5
<1> QED BY <1>6 DEF before, after

\* The loop leaves its counts and the rows alone.
LEMMA CountedRests ==
  ASSUME Counted, UNCHANGED <<at, fan, item>>, phase' \in FanPhases => phase \in FanPhases
  PROVE  Counted'
BY DEF Counted, Concluded, DoneBefore

\* One item concluded by its row, new or on record, and counted by it.
LEMMA CountedGrows ==
  ASSUME Inv, Counted, phase \in FanPhases, fan.next < ManifestLen[fan.from],
         NEW field \in {"succeeded", "failed"}, CountItem(field),
         UNCHANGED item \/ \E s, out : ConcludeItem(s, out),
         item'[at][fan.next].status \in {"completed", "failed", "escalated"},
         ~StorageFaults =>
           (field = "succeeded" <=> item'[at][fan.next].status = "completed")
  PROVE  Counted'
<1>1. PICK n, k : n = at /\ k = fan.next
  OBVIOUS
<1>2. /\ k \in Nat /\ k \in ItemIndex /\ n \in Fanout
      /\ fan \in FanLocals /\ item \in ItemTable
  <2>1. fan \in FanLocals /\ item \in ItemTable
    BY DEF Inv, TypeInv, TypeOK, MemoryType, LedgerType
  <2>2. at \in Fanout /\ fan.from \in Manifests
    BY DEF Inv, TypeInv, FanConsistent
  <2> QED BY <1>1, <2>1, <2>2 DEF FanLocals, ItemIndex
<1>3. \A i \in 0..(k - 1) : item'[n][i] = item[n][i]
  <2>1. CASE \E s, out : ConcludeItem(s, out)
    <3>1. \A i \in 0..(k - 1) : i \in ItemIndex /\ i # k
      BY <1>2 DEF ItemIndex
    <3> QED BY <1>1, <1>2, <2>1, <3>1 DEF ConcludeItem, ItemTable
  <2> QED BY <2>1
<1>4. at' = n /\ fan'.next = k + 1 /\ phase' = "items"
  BY <1>1, <1>2 DEF CountItem, FanLocals
<1>5. \A i \in 0..((k + 1) - 1) : item'[n][i].status # "none"
  <2>1. \A i \in 0..(k - 1) : item'[n][i].status # "none"
    BY <1>1, <1>3 DEF Counted, Concluded
  <2>2. item'[n][k].status # "none"
    BY <1>1
  <2>3. 0..((k + 1) - 1) = (0..(k - 1)) \cup {k}
    BY <1>2
  <2> QED BY <2>1, <2>2, <2>3
<1>6. ASSUME ~StorageFaults
      PROVE  /\ fan'.succeeded = Cardinality(DoneBefore(item'[n], k + 1, {"completed"}))
             /\ fan'.failed = Cardinality(DoneBefore(item'[n], k + 1, Failures))
  <2>1. /\ fan.succeeded = Cardinality(DoneBefore(item[n], k, {"completed"}))
        /\ fan.failed = Cardinality(DoneBefore(item[n], k, Failures))
    BY <1>1, <1>6 DEF Counted
  <2>2. /\ fan'.succeeded = IF field = "succeeded" THEN fan.succeeded + 1 ELSE fan.succeeded
        /\ fan'.failed = IF field = "failed" THEN fan.failed + 1 ELSE fan.failed
    BY <1>2 DEF CountItem, FanLocals
  <2>3. /\ item'[n][k].status \in {"completed"} <=> field = "succeeded"
        /\ item'[n][k].status \in Failures <=> field = "failed"
    BY <1>1, <1>6 DEF Failures
  <2>4. ASSUME NEW rows, NEW new, rows = item[n], new = item'[n], NEW statuses
        PROVE  Cardinality(DoneBefore(new, k + 1, statuses))
                 = IF new[k].status \in statuses
                   THEN Cardinality(DoneBefore(rows, k, statuses)) + 1
                   ELSE Cardinality(DoneBefore(rows, k, statuses))
    <3>1. k \in Nat /\ \A i \in 0..(k - 1) : new[i] = rows[i]
      BY <1>2, <1>3, <2>4
    <3> QED BY <3>1, DoneGrows
  <2> QED BY <2>1, <2>2, <2>3, <2>4
<1> QED BY <1>4, <1>5, <1>6 DEF Counted, Concluded

LEMMA CountedStep ==
  ASSUME Inv, Counted, [Next]_vars
  PROVE  Counted'
<1> USE DEF ledger, disk, memory
<1>1. CASE UNCHANGED vars
  BY <1>1, CountedRests DEF vars
<1>2. CASE phase' \notin FanPhases
  BY <1>2 DEF Counted
<1>3. ASSUME NEW n \in Node, OpenManifest(n)
      PROVE  Counted'
  <2>1. fan'.next = 0 /\ fan'.succeeded = 0 /\ fan'.failed = 0
    BY <1>3 DEF OpenManifest
  <2>2. \A rows, statuses : DoneBefore(rows, 0, statuses) = {}
    BY DEF DoneBefore
  <2>3. 0..(0 - 1) = {} /\ Cardinality({}) = 0
    BY FS_EmptySet
  <2> QED BY <2>1, <2>2, <2>3 DEF Counted
<1>4. CASE StartItem \/ WriteResults \/ WriteFailures \/ RequestCancel
           \/ \E n \in Fanout, m \in Manifests : EditManifest(n, m)
  <2>1. UNCHANGED <<at, fan, item>>
    BY <1>4 DEF StartItem, WriteResults, WriteFailures, RequestCancel, EditManifest
  <2>2. phase' \in FanPhases => phase \in FanPhases
    BY <1>4 DEF StartItem, WriteResults, WriteFailures, RequestCancel, EditManifest, AtItem,
       ItemsDone, FanPhases
  <2> QED BY <2>1, <2>2, CountedRests
<1>5. CASE CountConcluded \/ MiscountConcluded
  <2>1. phase \in FanPhases /\ fan.next < ManifestLen[fan.from] /\ Concluded(at, fan.next)
        /\ UNCHANGED item
    BY <1>5 DEF CountConcluded, MiscountConcluded, AtItem, FanPhases
  <2>2. item'[at][fan.next].status \in {"completed", "failed", "escalated"}
    <3>1. at \in Fanout /\ fan.next \in ItemIndex /\ item \in ItemTable
      BY <2>1 DEF Inv, TypeInv, TypeOK, FanConsistent, MemoryType, FanLocals, ItemIndex,
         LedgerType
    <3> QED BY <2>1, <3>1 DEF Concluded, ItemTable, ItemRow
  <2>3. CASE CountConcluded
    <3>1. CountItem(RecordedCount) /\ RecordedCount \in {"succeeded", "failed"}
      BY <2>3 DEF CountConcluded
    <3>2. RecordedCount = "succeeded" <=> item'[at][fan.next].status = "completed"
      BY <2>1
    <3> QED BY <2>1, <2>2, <3>1, <3>2, CountedGrows
  <2>4. CASE MiscountConcluded
    <3>1. CountItem("failed") /\ StorageFaults
      BY <2>4 DEF MiscountConcluded
    <3> QED BY <2>1, <2>2, <3>1, CountedGrows
  <2> QED BY <1>5, <2>3, <2>4
<1>6. CASE MismatchItem \/ ExhaustItem \/ \E v \in Values : CompleteItem(v)
  <2>1. phase \in FanPhases /\ fan.next < ManifestLen[fan.from]
    BY <1>6 DEF MismatchItem, ExhaustItem, CompleteItem, AtItem, FanPhases, Inv, TypeInv,
       FanConsistent
  <2>2. at \in Fanout /\ fan.next \in ItemIndex /\ item \in ItemTable
    BY <2>1 DEF Inv, TypeInv, TypeOK, FanConsistent, MemoryType, FanLocals, ItemIndex, LedgerType
  <2>3. ASSUME NEW s, NEW out, ConcludeItem(s, out)
        PROVE  item'[at][fan.next].status = s
    BY <2>2, <2>3 DEF ConcludeItem, ItemTable
  <2>4. CASE \E v \in Values : CompleteItem(v)
    <3>1. PICK v \in Values : CompleteItem(v)
      BY <2>4
    <3>2. ConcludeItem("completed", v) /\ CountItem("succeeded")
      BY <3>1 DEF CompleteItem
    <3>3. item'[at][fan.next].status = "completed"
      BY <2>3, <3>2
    <3> QED BY <2>1, <3>2, <3>3, CountedGrows
  <2>5. CASE MismatchItem \/ ExhaustItem
    <3>1. PICK s \in {"failed", "escalated"} : ConcludeItem(s, NoOutput)
      BY <2>5 DEF MismatchItem, ExhaustItem
    <3>2. CountItem("failed")
      BY <2>5 DEF MismatchItem, ExhaustItem
    <3>3. item'[at][fan.next].status = s
      BY <2>3, <3>1
    <3> QED BY <2>1, <3>1, <3>2, <3>3, CountedGrows
  <2> QED BY <1>6, <2>4, <2>5
<1> QED
  <2>1. [Next]_vars => \/ UNCHANGED vars \/ phase' \notin FanPhases
                       \/ \E n \in Node : OpenManifest(n)
                       \/ StartItem \/ WriteResults \/ WriteFailures \/ RequestCancel
                       \/ \E n \in Fanout, m \in Manifests : EditManifest(n, m)
                       \/ CountConcluded \/ MiscountConcluded
                       \/ MismatchItem \/ ExhaustItem \/ \E v \in Values : CompleteItem(v)
    <3>1. ASSUME NEW n \in Node, NodeStep(n)
          PROVE  phase' \notin FanPhases \/ OpenManifest(n)
      BY <3>1 DEF NodeStep, VisitSkipped, VisitCompleted, SkipByBranch, SkipTransitively,
         RecordSkip, RunNode, RejectRoute, ExhaustNode, InterruptNode, RejectManifest, BreakRun,
         NextNode, FanPhases
    <3>2. ASSUME CancelBetweenItems \/ InterruptItem \/ AllItemsFailed \/ RecordCollection
          PROVE  phase' \notin FanPhases
      BY <3>2 DEF CancelBetweenItems, InterruptItem, AllItemsFailed, RecordCollection, BreakRun,
         NextNode, FanPhases
    <3>3. ASSUME \/ StartLoop \/ RejectChecks \/ Conclude \/ StorageFault \/ Finish
                 \/ WriteWarehouse \/ Begin \/ Crash \/ AwaitRoom
          PROVE  phase' \notin FanPhases
      BY <3>3 DEF AwaitRoom, StartLoop, RejectChecks, Conclude, StorageFault, Finish, AfterFinish,
         WriteWarehouse, Begin, Crash, BreakRun, NextNode, FanPhases
    <3>4. CancelInterrupted => phase' \notin FanPhases
      BY DEF CancelInterrupted, FanPhases
    <3> QED
      BY <3>1, <3>2, <3>3, <3>4 DEF Next, RunStep, ItemStep, Surroundings
  <2> QED BY <1>1, <1>2, <1>3, <1>4, <1>5, <1>6, <2>1

LEMMA ProjectedStep ==
  ASSUME Inv, Projected, [Next]_vars
  PROVE  Projected'
<1> USE DEF ledger, disk, memory
<1>1. CASE phase' \notin {"results", "files"}
  BY <1>1 DEF Projected
<1>2. CASE UNCHANGED vars \/ RequestCancel \/ \E n \in Fanout, m \in Manifests : EditManifest(n, m)
  <2>1. UNCHANGED <<phase, at, item, files>>
    BY <1>2 DEF vars, RequestCancel, EditManifest
  <2> QED BY <2>1 DEF Projected, ResultLines, FailureLines, ItemsOf
<1>3. CASE WriteResults \/ WriteFailures
  <2>1. at \in Fanout /\ files \in [Fanout -> FilePair \cup {NoFiles}]
    BY <1>3 DEF WriteResults, WriteFailures, ItemsDone, Inv, TypeInv, TypeOK, DiskType,
       FanConsistent, FanPhases
  <2>2. UNCHANGED <<item, at>>
    BY <1>3 DEF WriteResults, WriteFailures
  <2>3. CASE WriteResults
    <3>1. files'[at].results = ResultLines(at) /\ phase' = "results"
      BY <2>1, <2>3 DEF WriteResults, SetResults
    <3> QED BY <2>2, <3>1 DEF Projected, ResultLines, ItemsOf
  <2>4. CASE WriteFailures
    <3>1. files[at] \in FilePair
      BY <2>4 DEF WriteFailures, Inv, TypeInv, FanConsistent
    <3>2. files'[at].failures = FailureLines(at) /\ files'[at].results = files[at].results
      BY <2>1, <2>4, <3>1 DEF WriteFailures, SetFailures, FilePair
    <3>3. files[at].results = ResultLines(at)
      BY <2>4 DEF WriteFailures, Projected
    <3> QED BY <2>2, <3>2, <3>3 DEF Projected, ResultLines, FailureLines, ItemsOf
  <2> QED BY <1>3, <2>3, <2>4
<1> QED
  <2>1. [Next]_vars => \/ UNCHANGED vars \/ phase' \notin {"results", "files"}
                       \/ RequestCancel
                       \/ \E n \in Fanout, m \in Manifests : EditManifest(n, m)
                       \/ WriteResults \/ WriteFailures
    BY DEF Next, RunStep, AwaitRoom, Sends, NodeStep, ItemStep, Surroundings, StartLoop,
       RejectChecks,
       VisitSkipped, VisitCompleted, SkipByBranch, SkipTransitively, RecordSkip, RunNode,
       RejectRoute, ExhaustNode, InterruptNode, OpenManifest, RejectManifest,
       CancelBetweenItems, CountConcluded, MiscountConcluded, MismatchItem, StartItem,
       CompleteItem, ExhaustItem, CountItem, InterruptItem, AllItemsFailed, RecordCollection,
       Conclude, StorageFault, Finish, AfterFinish, WriteWarehouse, Begin, CancelInterrupted,
       Crash, BreakRun, NextNode
  <2> QED BY <1>1, <1>2, <1>3, <2>1

\* Only the node being run has its rows, its files or its pin written.
LEMMA DecidedRests ==
  ASSUME Inv, [Next]_vars, NEW n \in Fanout, Decided(n)
  PROVE  item'[n] = item[n] /\ files'[n] = files[n] /\ pin'[n] = pin[n]
<1> USE DEF Inv, TypeInv, TypeOK
<1>0. /\ item \in ItemTable /\ pin \in [Fanout -> Manifests \cup {NoManifest}]
      /\ files \in [Fanout -> FilePair \cup {NoFiles}]
  BY DEF LedgerType, DiskType
<1>1. phase \in FanPhases => at \in Fanout /\ at # n
  BY DEF FanConsistent, Pending, Decided
<1>2. MayTearFile => files'[n] = files[n]
  BY <1>0, <1>1 DEF MayTearFile, ItemsDone, SetResults, SetFailures, FanPhases
<1>3. UNCHANGED <<item, files, pin>> =>
        item'[n] = item[n] /\ files'[n] = files[n] /\ pin'[n] = pin[n]
  OBVIOUS
<1>4. ASSUME NEW m \in Node, NodeStep(m)
      PROVE  item'[n] = item[n] /\ files'[n] = files[n] /\ pin'[n] = pin[n]
  <2>1. CASE OpenManifest(m)
    BY <1>0, <2>1 DEF OpenManifest, ToRun, Pending, Decided, disk
  <2> QED BY <1>3, <1>4, <2>1 DEF NodeStep, VisitSkipped, VisitCompleted, SkipByBranch,
       SkipTransitively, RecordSkip, RunNode, RejectRoute, ExhaustNode, InterruptNode,
       RejectManifest, ledger, disk
<1>5. CASE ItemStep
  <2>1. CASE MismatchItem \/ ExhaustItem \/ \E v \in Values : CompleteItem(v)
    <3>1. phase \in FanPhases
      BY <2>1 DEF MismatchItem, ExhaustItem, CompleteItem, AtItem, FanPhases
    <3>2. (\E s, out : ConcludeItem(s, out)) /\ UNCHANGED <<pin, files>>
      BY <2>1 DEF MismatchItem, ExhaustItem, CompleteItem, disk
    <3> QED BY <1>0, <1>1, <3>1, <3>2 DEF ConcludeItem, ItemTable
  <2>2. CASE WriteResults \/ WriteFailures
    <3>1. phase \in FanPhases /\ UNCHANGED <<pin, item>>
      BY <2>2 DEF WriteResults, WriteFailures, ItemsDone, FanPhases, ledger
    <3>2. (\E lines : SetResults(lines)) \/ (\E lines : SetFailures(lines))
      BY <2>2 DEF WriteResults, WriteFailures
    <3> QED BY <1>0, <1>1, <3>1, <3>2 DEF SetResults, SetFailures
  <2> QED BY <1>3, <1>5, <2>1, <2>2 DEF ItemStep, CancelBetweenItems, CountConcluded,
       MiscountConcluded, StartItem, InterruptItem, AllItemsFailed, RecordCollection, ledger, disk
<1>6. CASE StorageFault \/ Crash
  BY <1>2, <1>6 DEF StorageFault, Crash, ledger
<1> QED
  BY <1>3, <1>4, <1>5, <1>6 DEF Next, RunStep, AwaitRoom, Surroundings, StartLoop, RejectChecks,
     Conclude,
     Finish, WriteWarehouse, Begin, RequestCancel, CancelInterrupted, EditManifest, vars, ledger,
     disk

\* A fan-out becomes completed by its own record and in no other way.
LEMMA FanoutCompletes ==
  ASSUME Inv, [Next]_vars, NEW n \in Fanout,
         whole[n].status # "completed", whole'[n].status = "completed"
  PROVE  RecordCollection /\ n = at
<1> USE DEF Inv, TypeInv, TypeOK, LedgerType
<1>1. whole' # whole
  OBVIOUS
<1>2. n \in Node
  OBVIOUS
<1>3. ASSUME NEW m \in Node, NodeStep(m)
      PROVE  FALSE
  <2>2. ASSUME NEW v \in Values, RunNode(m, v)
        PROVE  FALSE
    BY <1>2, <2>2 DEF RunNode
  <2>3. CASE SkipByBranch(m) \/ SkipTransitively(m)
    BY <1>2, <2>3 DEF SkipByBranch, SkipTransitively, RecordSkip
  <2>4. CASE ExhaustNode(m)
    BY <1>2, <2>4 DEF ExhaustNode
  <2> QED BY <1>1, <1>3, <2>2, <2>3, <2>4 DEF NodeStep, VisitSkipped, VisitCompleted,
       RejectRoute, InterruptNode, OpenManifest, RejectManifest, ledger
<1>4. CASE ItemStep
  <2>1. RecordCollection
    BY <1>1, <1>4 DEF ItemStep, CancelBetweenItems, CountConcluded, MiscountConcluded,
       MismatchItem, StartItem, CompleteItem, ExhaustItem, InterruptItem, AllItemsFailed,
       WriteResults, WriteFailures, ledger
  <2> QED BY <1>2, <2>1 DEF RecordCollection
<1> QED
  BY <1>1, <1>3, <1>4 DEF Next, RunStep, AwaitRoom, Surroundings, StartLoop, RejectChecks, Conclude,
     StorageFault, Finish, WriteWarehouse, Begin, RequestCancel, CancelInterrupted, Crash,
     EditManifest, vars, ledger

\* When the node is recorded its rows are exactly the manifest's items, each
\* concluded, and its counts and files are of these.
LEMMA ReadyToRecord ==
  ASSUME CollectInv, RecordCollection
  PROVE  /\ at \in Fanout /\ fan.next \in Nat /\ fan.next = ManifestLen[pin[at]]
         /\ \A S : ItemsOf(at, S \ {"none"}) = DoneBefore(item[at], fan.next, S \ {"none"})
         /\ \A i \in 0..(fan.next - 1) :
              i \in ItemIndex /\ item[at][i].status \in {"completed", "failed", "escalated"}
<1> USE DEF CollectInv, Inv, TypeInv, TypeOK
<1>1. /\ phase = "files" /\ at \in Fanout /\ pin[at] = fan.from
      /\ fan.from \in Manifests /\ fan.next = ManifestLen[fan.from]
      /\ item \in ItemTable /\ fan.next \in Nat /\ fan.next <= MaxItems
  BY DEF RecordCollection, FanConsistent, FanPhases, LedgerType, MemoryType, FanLocals
<1>2. \A i \in 0..(fan.next - 1) : i \in ItemIndex
  BY <1>1 DEF ItemIndex
<1>3. \A i \in ItemIndex : item[at][i].status # "none" => i \in 0..(fan.next - 1)
  BY <1>1 DEF ItemsMatchPin, Concluded, ItemIndex
<1>4. \A i \in 0..(fan.next - 1) : item[at][i].status # "none"
  BY <1>1 DEF Counted, FanPhases, Concluded
<1>5. \A i \in ItemIndex : item[at][i].status \in {"none", "completed", "failed", "escalated"}
  BY <1>1 DEF ItemTable, ItemRow
<1>6. \A S : ItemsOf(at, S \ {"none"}) = DoneBefore(item[at], fan.next, S \ {"none"})
  BY <1>2, <1>3 DEF ItemsOf, DoneBefore
<1> QED BY <1>1, <1>2, <1>4, <1>5, <1>6

LEMMA CountsRecorded ==
  ASSUME CollectInv, RecordCollection, ~StorageFaults
  PROVE  LET out == Collected IN
         /\ out.succeeded = Cardinality(ItemsOf(at, {"completed"}))
         /\ out.failed = Cardinality(ItemsOf(at, {"failed", "escalated"}))
         /\ out.succeeded + out.failed = ManifestLen[pin[at]]
         /\ out.succeeded > 0
<1>1. {"completed"} \ {"none"} = {"completed"} /\ Failures \ {"none"} = Failures
  BY DEF Failures
<1>2. /\ ItemsOf(at, {"completed"}) = DoneBefore(item[at], fan.next, {"completed"})
      /\ ItemsOf(at, Failures) = DoneBefore(item[at], fan.next, Failures)
  BY <1>1, ReadyToRecord, Zenon
<1>3. /\ fan.succeeded = Cardinality(DoneBefore(item[at], fan.next, {"completed"}))
      /\ fan.failed = Cardinality(DoneBefore(item[at], fan.next, Failures))
  BY DEF CollectInv, Counted, RecordCollection, FanPhases
<1>4. fan.succeeded + fan.failed = ManifestLen[pin[at]] /\ fan.succeeded > 0
  BY ReadyToRecord DEF CollectInv, Inv, TypeInv, FanConsistent, RecordCollection, FanPhases
<1> QED BY <1>2, <1>3, <1>4 DEF Collected, Failures

LEMMA FilesRecorded ==
  ASSUME CollectInv, RecordCollection
  PROVE  LET lines == files[at] IN
         /\ lines # NoFiles
         /\ {l[1] : l \in lines.results} \cup lines.failures = 0..(ManifestLen[pin[at]] - 1)
         /\ \A l \in lines.results : /\ item[at][l[1]].status = "completed"
                                     /\ item[at][l[1]].out = l[2]
         /\ \A i \in lines.failures : item[at][i].status \in {"failed", "escalated"}
<1>1. files[at].results = ResultLines(at) /\ files[at].failures = FailureLines(at)
  BY DEF CollectInv, Projected, RecordCollection
<1>2. files[at] # NoFiles
  BY FilesAssumption DEF CollectInv, Inv, TypeInv, FanConsistent, RecordCollection
<1>3. \A l \in ResultLines(at) : /\ l[1] \in ItemsOf(at, {"completed"})
                                 /\ item[at][l[1]].status = "completed"
                                 /\ item[at][l[1]].out = l[2]
  BY DEF ResultLines, ItemsOf
<1>4. \A i \in FailureLines(at) : item[at][i].status \in {"failed", "escalated"}
  BY DEF FailureLines, ItemsOf
<1>5. {l[1] : l \in ResultLines(at)} = ItemsOf(at, {"completed"})
  <2>1. ASSUME NEW i \in ItemsOf(at, {"completed"})
        PROVE  \E l \in ResultLines(at) : l[1] = i
    <3>1. <<i, item[at][i].out>> \in ResultLines(at)
      BY DEF ResultLines
    <3> QED BY <3>1
  <2> QED BY <1>3, <2>1
<1>6. ItemsOf(at, {"completed"}) \cup FailureLines(at) = 0..(ManifestLen[pin[at]] - 1)
  <2>1. \A i \in 0..(fan.next - 1) :
          i \in ItemsOf(at, {"completed"}) \cup FailureLines(at)
    BY ReadyToRecord DEF ItemsOf, FailureLines
  <2>2. \A i \in ItemIndex : item[at][i].status # "none" => i \in 0..(fan.next - 1)
    <3>1. at \in Fanout /\ fan.next = ManifestLen[pin[at]] /\ fan.next \in Nat
      BY ReadyToRecord
    <3> QED BY <3>1 DEF CollectInv, ItemsMatchPin, Concluded, ItemIndex
  <2>3. ItemsOf(at, {"completed"}) \cup FailureLines(at) \subseteq 0..(fan.next - 1)
    BY <2>2 DEF ItemsOf, FailureLines
  <2> QED BY <2>1, <2>3, ReadyToRecord
<1> QED BY <1>1, <1>2, <1>3, <1>4, <1>5, <1>6

LEMMA CollectKept == Spec => [](Inv /\ ItemsMatchPin /\ Counted /\ Projected)
<1>1. Init => Counted /\ Projected
  BY DEF Init, Counted, Projected, FanPhases
<1>2. Inv /\ Counted /\ Projected /\ [Next]_vars => Counted' /\ Projected'
  BY CountedStep, ProjectedStep
<1> QED BY <1>1, <1>2, Invariance, ItemsFromOneManifest, PTL DEF Spec

(***************************************************************************)
(* Once a fan-out node is completed its two files have one line per item   *)
(* of its manifest, each on the side its row says, whatever crash or       *)
(* write error cut an earlier version of them (run_fanout_node's files are *)
(* projections of the ledger, written before the node's record).           *)
(***************************************************************************)
THEOREM FilesAreProjections == Spec => []FilesMatchLedger
<1>1. Init => FilesMatchLedger
  BY DEF Init, NoRow, FilesMatchLedger, Node
<1>2. ASSUME CollectInv, FilesMatchLedger, [Next]_vars
      PROVE  FilesMatchLedger'
  <2> DEFINE Match(n) ==
        LET lines == files[n] IN
        /\ lines # NoFiles
        /\ {l[1] : l \in lines.results} \cup lines.failures = 0..(ManifestLen[pin[n]] - 1)
        /\ \A l \in lines.results : /\ item[n][l[1]].status = "completed"
                                    /\ item[n][l[1]].out = l[2]
        /\ \A i \in lines.failures : item[n][i].status \in {"failed", "escalated"}
  <2>1. ASSUME NEW n \in Fanout, whole'[n].status = "completed"
        PROVE  Match(n)'
    <3>1. CASE whole[n].status = "completed"
      <4>1. item'[n] = item[n] /\ files'[n] = files[n] /\ pin'[n] = pin[n]
        BY <1>2, <3>1, DecidedRests DEF CollectInv, Decided
      <4>2. Match(n)
        BY <1>2, <3>1 DEF FilesMatchLedger
      <4> QED BY <4>1, <4>2
    <3>2. CASE whole[n].status # "completed"
      <4>1. RecordCollection /\ n = at
        BY <1>2, <2>1, <3>2, FanoutCompletes DEF CollectInv
      <4>2. Match(n)
        BY <1>2, <4>1, FilesRecorded
      <4>3. UNCHANGED <<item, files, pin>>
        BY <4>1 DEF RecordCollection, disk
      <4> QED BY <4>2, <4>3
    <3> QED BY <3>1, <3>2
  <2> QED BY <2>1 DEF FilesMatchLedger
<1>3. CollectInv /\ FilesMatchLedger /\ [Next]_vars => FilesMatchLedger'
  BY <1>2
<1> QED BY <1>1, <1>3, CollectKept, PTL DEF Spec, CollectInv

(***************************************************************************)
(* What a completed fan-out hands on, its counts and its files, is what    *)
(* its item rows say, whichever of its runs concluded them, as long as     *)
(* reads of the ledger do not fail (get_item_completed's unwrap_or(None)   *)
(* counts a row it could not read as failed).                              *)
(***************************************************************************)
THEOREM CollectionIsLedger ==
  ASSUME ~StorageFaults
  PROVE  Spec => []CollectionMatchesLedger
<1>1. Init => CountsMatchLedger
  BY DEF Init, NoRow, CountsMatchLedger, Node
<1>2. ASSUME CollectInv, CountsMatchLedger, [Next]_vars
      PROVE  CountsMatchLedger'
  <2> DEFINE Match(n, out) ==
        /\ out.succeeded = Cardinality(ItemsOf(n, {"completed"}))
        /\ out.failed = Cardinality(ItemsOf(n, {"failed", "escalated"}))
        /\ out.succeeded + out.failed = ManifestLen[pin[n]]
        /\ out.succeeded > 0
  <2>1. ASSUME NEW n \in Fanout, whole'[n].status = "completed"
        PROVE  Match(n, whole[n].out)'
    <3>1. CASE whole[n].status = "completed"
      <4>1. item'[n] = item[n] /\ pin'[n] = pin[n]
        BY <1>2, <3>1, DecidedRests DEF CollectInv, Decided
      <4>2. whole'[n] = whole[n]
        BY <1>2, <3>1, RowsFinal DEF CollectInv, Decided
      <4>3. Match(n, whole[n].out)
        BY <1>2, <3>1 DEF CountsMatchLedger
      <4> QED BY <4>1, <4>2, <4>3 DEF ItemsOf
    <3>2. CASE whole[n].status # "completed"
      <4>1. RecordCollection /\ n = at
        BY <1>2, <2>1, <3>2, FanoutCompletes DEF CollectInv
      <4>2. Match(n, Collected)
        BY <1>2, <4>1, CountsRecorded
      <4>3. UNCHANGED <<item, pin>> /\ whole'[n].out = Collected
        BY <1>2, <4>1 DEF RecordCollection, CollectInv, Inv, TypeInv, TypeOK, LedgerType
      <4> QED BY <4>2, <4>3 DEF ItemsOf
    <3> QED BY <3>1, <3>2
  <2> QED BY <2>1 DEF CountsMatchLedger
<1>3. CollectInv /\ CountsMatchLedger /\ [Next]_vars => CountsMatchLedger'
  BY <1>2
<1> QED
  BY <1>1, <1>3, CollectKept, FilesAreProjections, PTL
  DEF Spec, CollectInv, CollectionMatchesLedger

-----------------------------------------------------------------------------
(***************************************************************************)
(* The end of the run                                                      *)
(***************************************************************************)

EndPhases == {"finishing", "finished", "done"}

\* A completed verdict was reached by walking past every node.
VerdictDecided ==
  phase \in EndPhases /\ verdict.status = "completed" => \A n \in Node : Decided(n)

LEMMA ConcludeResult ==
  ASSUME Inv, Conclude
  PROVE  /\ VerdictDecided'
         /\ CompletedMeansDecided'
<1>1. \A n \in Node : Decided(n) /\ outputs[n] = whole[n].out
  BY DEF Conclude, AtNode, Inv, WalkInv, MemoryMatchesLedger, Walking, RecordedOutput, Node
<1>2. \A n \in Node : whole[n].out # NoOutput <=> whole[n].status = "completed"
  BY DEF Inv, TypeInv, TypeOK, LedgerType
<1>3. UNCHANGED whole /\ phase' = "finishing" /\ jobStatus' = "running"
  BY DEF Conclude, AtNode, ledger, Inv, WalkInv
<1>4. CASE \E n \in Node : LastRan(n) /\ verdict' = Envelope("completed", outputs[n])
  <2> PICK n \in Node : LastRan(n) /\ verdict' = Envelope("completed", outputs[n])
    BY <1>4
  <2>1. \A m \in (n + 1)..N : m \in Node /\ whole[m].status = "skipped"
    BY <1>1, <1>2 DEF LastRan, Node, Decided
  <2>2. verdict'.result = whole[n].out /\ whole[n].status = "completed"
    BY <1>1, <1>2 DEF LastRan, Envelope
  <2> QED BY <1>1, <1>3, <2>1, <2>2 DEF VerdictDecided, CompletedMeansDecided, Decided
<1>5. CASE verdict' = Envelope("failed", NoOutput)
  BY <1>3, <1>5 DEF Envelope, VerdictDecided, CompletedMeansDecided
<1> QED BY <1>4, <1>5 DEF Conclude

LEMMA EndStep ==
  ASSUME Inv, VerdictDecided, CompletedMeansDecided, [Next]_vars
  PROVE  VerdictDecided' /\ CompletedMeansDecided'
<1>1. CASE Conclude
  BY <1>1, ConcludeResult
<1>2. ASSUME NEW s \in {"failed", "cancelled"}, BreakRun(s), UNCHANGED jobStatus,
             phase \notin EndPhases, jobStatus = "running"
      PROVE  VerdictDecided' /\ CompletedMeansDecided'
  BY <1>2 DEF BreakRun, Envelope, VerdictDecided, CompletedMeansDecided
<1>3. CASE phase \notin EndPhases /\ ~Conclude
  <2>1. CASE phase' \in EndPhases
    <3>1. ASSUME NEW n \in Node, NodeStep(n)
          PROVE  BreakRun("failed") \/ BreakRun("cancelled")
      BY <2>1, <3>1 DEF NodeStep, VisitSkipped, VisitCompleted, SkipByBranch, SkipTransitively,
         RecordSkip, RunNode, RejectRoute, ExhaustNode, InterruptNode, OpenManifest,
         RejectManifest, NextNode, EndPhases
    <3>2. ItemStep => BreakRun("failed") \/ BreakRun("cancelled")
      BY <2>1 DEF ItemStep, CancelBetweenItems, CountConcluded, MiscountConcluded, MismatchItem,
         StartItem, CompleteItem, ExhaustItem, InterruptItem, AllItemsFailed, WriteResults,
         WriteFailures, RecordCollection, CountItem, NextNode, EndPhases
    <3>3. (\E n \in Node : NodeStep(n)) \/ ItemStep =>
            UNCHANGED jobStatus /\ jobStatus = "running"
      BY WalkOnly DEF Inv, WalkInv
    <3>4. CASE (\E n \in Node : NodeStep(n)) \/ ItemStep
      BY <1>2, <1>3, <3>1, <3>2, <3>3, <3>4
    <3>5. CASE RejectChecks \/ StorageFault
      BY <1>2, <1>3, <3>5 DEF RejectChecks, StorageFault, ledger, Inv, WalkInv
    <3> QED
      BY <1>3, <2>1, <3>4, <3>5 DEF Next, RunStep, AwaitRoom, Surroundings, StartLoop, Finish,
         WriteWarehouse, Begin, RequestCancel, CancelInterrupted, Crash, EditManifest, vars,
         memory, EndPhases
  <2>2. CASE phase' \notin EndPhases
    <3>1. VerdictDecided'
      BY <2>2 DEF VerdictDecided
    <3>2. jobStatus' = "completed" => jobStatus = "completed"
      BY <1>3 DEF Next, RunStep, AwaitRoom, Sends, NodeStep, ItemStep, Surroundings, StartLoop,
         RejectChecks,
         VisitSkipped, VisitCompleted, SkipByBranch, SkipTransitively, RecordSkip, RunNode,
         RejectRoute, ExhaustNode, InterruptNode, OpenManifest, RejectManifest,
         CancelBetweenItems, CountConcluded, MiscountConcluded, MismatchItem, StartItem,
         CompleteItem, ExhaustItem, InterruptItem, AllItemsFailed, WriteResults, WriteFailures,
         RecordCollection, StorageFault, Finish, WriteWarehouse, Begin, RequestCancel,
         CancelInterrupted, Crash, EditManifest, vars, ledger, EndPhases
    <3>3. ASSUME jobStatus' = "completed"
          PROVE  /\ \A n \in Node : Decided(n)'
                 /\ \E n \in Node : whole'[n].status = "completed"
      BY <3>2, <3>3, RowsFinal DEF CompletedMeansDecided, Decided
    <3> QED BY <2>2, <3>1, <3>3 DEF CompletedMeansDecided, EndPhases
  <2> QED BY <2>1, <2>2
<1>4. CASE phase \in EndPhases
  <2>1. UNCHANGED whole
    BY <1>4, WholeStep DEF Touch, Walking, EndPhases
  <2>2. CASE Finish
    <3>1. verdict' = verdict /\ phase' \in EndPhases
      BY <2>2 DEF Finish, AfterFinish, EndPhases
    <3>2. jobStatus' = "completed" => jobStatus = "completed" \/ verdict.status = "completed"
      BY <2>2 DEF Finish
    <3>3. verdict.status = "completed" =>
            \E n \in Node : /\ verdict.result = whole[n].out
                            /\ whole[n].status = "completed"
                            /\ \A m \in (n + 1)..N : whole[m].status = "skipped"
      BY <1>4 DEF EndPhases, CompletedMeansDecided
    <3> QED BY <1>4, <2>1, <3>1, <3>2, <3>3 DEF VerdictDecided, CompletedMeansDecided, Decided
  <2>3. CASE Crash
    BY <2>1, <2>3 DEF Crash, ledger, VerdictDecided, CompletedMeansDecided, EndPhases, Decided
  <2>4. CASE UNCHANGED <<jobStatus, verdict>> /\ phase' \in EndPhases
    BY <1>4, <2>1, <2>4 DEF VerdictDecided, CompletedMeansDecided, Decided, EndPhases
  <2> QED
    BY <1>4, <2>2, <2>3, <2>4 DEF Next, RunStep, AwaitRoom, Sends, NodeStep, ItemStep,
       Surroundings, StartLoop,
       RejectChecks, VisitSkipped, VisitCompleted, SkipByBranch, SkipTransitively, RecordSkip,
       RunNode, RejectRoute, ExhaustNode, InterruptNode, OpenManifest, RejectManifest,
       CancelBetweenItems, CountConcluded, MiscountConcluded, MismatchItem, StartItem,
       CompleteItem, ExhaustItem, InterruptItem, AllItemsFailed, WriteResults, WriteFailures,
       RecordCollection, Conclude, StorageFault, WriteWarehouse, Begin, RequestCancel,
       CancelInterrupted, EditManifest, AtNode, ToRun, AtItem, ItemsDone, vars, memory,
       ledger, EndPhases
<1> QED BY <1>1, <1>3, <1>4

(***************************************************************************)
(* A job is recorded as completed only when every node is decided and the  *)
(* result is the last output of the graph (run_job's final envelope).      *)
(***************************************************************************)
THEOREM CompletionDecided == Spec => []CompletedMeansDecided
<1>1. Init => VerdictDecided /\ CompletedMeansDecided
  BY DEF Init, VerdictDecided, CompletedMeansDecided, EndPhases
<1>2. Inv /\ VerdictDecided /\ CompletedMeansDecided /\ [Next]_vars
        => VerdictDecided' /\ CompletedMeansDecided'
  BY EndStep
<1> QED BY <1>1, <1>2, Invariance, PTL DEF Spec

-----------------------------------------------------------------------------
(***************************************************************************)
(* Refinement: a job crashed and resumed any number of times is, in its    *)
(* ledger, an uninterrupted execution of its graph.                        *)
(***************************************************************************)

(***************************************************************************)
(* Every decision comes before the nodes exclusive to its labels.  The     *)
(* comment in run_job's branch skip takes this for granted; check_graph    *)
(* does not enforce it, so it is a hypothesis here.                        *)
(***************************************************************************)
DecisionsFirst ==
  \A n \in Node : Exclusive[n] # NoBranch => Exclusive[n].decision < n

\* The abstract variables, as CrashTransparent reads them off the ledger.
decidedNodes == {n \in Node : Decided(n)}
nodeOutput   == [n \in Node |-> RecordedOutput(n)]

LEMMA DecideRefined ==
  ASSUME DecisionsFirst, Inv, NEW n \in Node, Touch(n), Skip(n) \/ Complete(n),
         UNCHANGED jobStatus
  PROVE  Execution!Decide(n)
<1> USE DEF Inv, TypeInv, TypeOK
<1>1. jobStatus = "running" /\ ~Decided(n) /\ at = n
  BY DEF Touch, Walking, WalkInv, Pending, Decided
<1>2. \A m \in 1..(n - 1) : m \in Node /\ Decided(m) /\ whole'[m] = whole[m]
  BY EarlierDecided, TouchedRows
<1>3. Execution!Ready(n)
  <2>1. \A m \in Inputs[n] \ {n} : m \in 1..(n - 1)
    BY DEF Node
  <2>2. Exclusive[n] # NoBranch => Exclusive[n].decision \in 1..(n - 1)
    BY DEF DecisionsFirst, Node
  <2> QED BY <1>2, <2>1, <2>2 DEF Execution!Ready
<1>4. whole'[n].status \in {"completed", "skipped"}
  BY DEF Skip, Complete, LedgerType
<1>5. decidedNodes' = decidedNodes \cup {n}
  <2>1. \A m \in Node : Decided(m)' <=> Decided(m) \/ m = n
    BY <1>4, TouchedRows DEF Decided
  <2> QED BY <2>1 DEF decidedNodes
<1>6. Execution!Excluded(n) <=> Skips(n)
  <2>1. ASSUME Exclusive[n] # NoBranch
        PROVE  routeTaken[Exclusive[n].decision] = RouteOf(nodeOutput[Exclusive[n].decision])
    <3>1. Exclusive[n].decision \in 1..(n - 1)
      BY <2>1 DEF DecisionsFirst, Node
    <3> QED BY <1>1, <1>2, <3>1 DEF Touch, WalkInv, MemoryMatchesLedger, nodeOutput
  <2>2. ASSUME NEW m \in Inputs[n] \ {n}
        PROVE  m \in Node /\ (m \in skipped <=> nodeOutput[m] = NoOutput)
    <3>1. m \in 1..(n - 1) /\ m \in Node
      BY DEF Node
    <3>2. m \in skipped <=> m \in RecordedSkips
      BY <1>1, <3>1 DEF Touch, WalkInv, MemoryMatchesLedger
    <3> QED BY <1>2, <3>1, <3>2 DEF RecordedSkips, nodeOutput, RecordedOutput, Decided, LedgerType
  <2>3. n \notin skipped
    BY <1>1 DEF Touch, WalkInv, MemoryMatchesLedger, Node
  <2>4. BranchExcludes(n) <=>
          /\ Exclusive[n] # NoBranch
          /\ RouteOf(nodeOutput[Exclusive[n].decision]) \notin {NoRoute, Exclusive[n].label}
    BY <2>1 DEF BranchExcludes
  <2>5. NeedsSkipped(n) <=> \E m \in Inputs[n] \ {n} : nodeOutput[m] = NoOutput
    BY <2>2, <2>3 DEF NeedsSkipped
  <2> QED BY <2>4, <2>5 DEF Execution!Excluded, Skips, nodeOutput
<1>7. CASE Skip(n)
  <2>1. nodeOutput' = nodeOutput
    BY <1>7 DEF Skip, nodeOutput, RecordedOutput, LedgerType, Touch, Pending
  <2> QED BY <1>1, <1>3, <1>5, <1>6, <1>7, <2>1
          DEF Execution!Decide, Skip, decidedNodes, nodeOutput
<1>8. CASE Complete(n)
  <2> PICK v \in NodeOutputs(n) :
        whole' = [whole EXCEPT ![n] = [status |-> "completed", out |-> v]]
    BY <1>8 DEF Complete
  <2>1. nodeOutput' = [nodeOutput EXCEPT ![n] = v]
    BY DEF nodeOutput, RecordedOutput, LedgerType
  <2> QED BY <1>1, <1>3, <1>5, <1>6, <1>8, <2>1
          DEF Execution!Decide, Complete, decidedNodes, nodeOutput
<1> QED BY <1>7, <1>8

LEMMA StatusStep ==
  ASSUME [Next]_vars
  PROVE  UNCHANGED jobStatus \/ Finish \/ CancelInterrupted
BY DEF Next, RunStep, AwaitRoom, Sends, NodeStep, ItemStep, Surroundings, StartLoop, RejectChecks,
   VisitSkipped, VisitCompleted, SkipByBranch, SkipTransitively, RecordSkip, RunNode, RejectRoute,
   ExhaustNode, InterruptNode, OpenManifest, RejectManifest, CancelBetweenItems,
   CountConcluded, MiscountConcluded, MismatchItem, StartItem, CompleteItem, ExhaustItem,
   InterruptItem, AllItemsFailed, WriteResults, WriteFailures, RecordCollection,
   Conclude, StorageFault, WriteWarehouse, Begin, RequestCancel, Crash, EditManifest, vars, ledger

LEMMA EndRefined ==
  ASSUME Inv, VerdictDecided, CompletedMeansDecided, Finish \/ CancelInterrupted,
         jobStatus' # jobStatus
  PROVE  Execution!Next
<1> USE DEF Inv, TypeInv, TypeOK
<1>1. UNCHANGED <<decidedNodes, nodeOutput>>
  BY DEF Finish, CancelInterrupted, decidedNodes, nodeOutput, Decided, RecordedOutput
<1>2. CASE CancelInterrupted
  <2>1. Execution!End("cancelled")
    BY <1>1, <1>2 DEF CancelInterrupted, Execution!End, decidedNodes, nodeOutput
  <2> QED BY <2>1 DEF Execution!Next
<1>3. CASE Finish
  <2>1. verdict \in Verdicts /\ jobStatus = "running" /\ jobStatus' = verdict.status
    BY <1>3 DEF Finish, FanConsistent, WalkInv
  <2>2. verdict.status = "completed" =>
          decidedNodes = Node /\ \E n \in Node : nodeOutput[n] # NoOutput
    BY <1>3 DEF Finish, EndPhases, VerdictDecided, CompletedMeansDecided, decidedNodes, nodeOutput,
       RecordedOutput, LedgerType
  <2>3. Execution!End(verdict.status)
    BY <1>1, <2>1, <2>2 DEF Execution!End, Execution!Node, Node, decidedNodes, nodeOutput
  <2> QED BY <2>1, <2>3 DEF Execution!Next, Verdicts
<1> QED BY <1>2, <1>3

LEMMA StepRefined ==
  ASSUME DecisionsFirst, Inv, VerdictDecided, CompletedMeansDecided, [Next]_vars
  PROVE  [Execution!Next]_<<decidedNodes, nodeOutput, jobStatus>>
<1>1. CASE jobStatus' # jobStatus
  BY <1>1, StatusStep, EndRefined
<1>2. CASE UNCHANGED <<whole, jobStatus>>
  BY <1>2 DEF decidedNodes, nodeOutput, Decided, RecordedOutput
<1>3. ASSUME NEW n \in Node, Touch(n), UNCHANGED jobStatus
      PROVE  Execution!Next \/ UNCHANGED <<decidedNodes, nodeOutput, jobStatus>>
  <2>1. CASE Skip(n) \/ Complete(n)
    BY <1>3, <2>1, DecideRefined DEF Execution!Next, Execution!Node, Node
  <2>2. CASE Escalate(n)
    <3>1. whole[n].out = NoOutput /\ ~Decided(n)
      BY <1>3 DEF Touch, Pending, Decided, Inv, TypeInv, TypeOK, LedgerType
    <3>2. whole'[n].out = NoOutput /\ ~Decided(n)'
      BY <2>2 DEF Escalate, Decided, Inv, TypeInv, TypeOK, LedgerType
    <3>3. \A m \in Node : whole'[m].out = whole[m].out /\ (Decided(m)' <=> Decided(m))
      BY <1>3, <3>1, <3>2, TouchedRows DEF Decided
    <3>4. decidedNodes' = decidedNodes
      BY <3>3 DEF decidedNodes
    <3>5. nodeOutput' = nodeOutput
      BY <3>3 DEF nodeOutput, RecordedOutput
    <3> QED BY <1>3, <3>4, <3>5
  <2> QED BY <1>3, <2>1, <2>2 DEF Touch
<1> QED BY <1>1, <1>2, <1>3, WholeStep

LEMMA InitRefined == Init => Execution!Init
<1> SUFFICES ASSUME Init PROVE Execution!Init
  OBVIOUS
<1>1. \A n \in Node : ~Decided(n) /\ RecordedOutput(n) = NoOutput
  BY DEF Init, NoRow, Decided, RecordedOutput
<1>2. jobStatus = "running"
  BY DEF Init
<1> QED BY <1>1, <1>2 DEF Execution!Init, Execution!Node, Node

(***************************************************************************)
(* Crash and resume are invisible in the ledger of a job whose decisions   *)
(* come first: every behaviour of run_job is, row by row, one of the       *)
(* crash-free execution of its graph.                                      *)
(***************************************************************************)
THEOREM CrashesInvisible ==
  ASSUME DecisionsFirst
  PROVE  Spec => CrashTransparent
<1>1. Init => Execution!Init /\ VerdictDecided /\ CompletedMeansDecided
  BY InitRefined DEF Init, VerdictDecided, CompletedMeansDecided, EndPhases
<1>2. Inv /\ VerdictDecided /\ CompletedMeansDecided /\ [Next]_vars
        => VerdictDecided' /\ CompletedMeansDecided'
  BY EndStep
<1>3. Inv /\ VerdictDecided /\ CompletedMeansDecided /\ [Next]_vars
        => [Execution!Next]_<<decidedNodes, nodeOutput, jobStatus>>
  BY StepRefined
<1> QED
  BY <1>1, <1>2, <1>3, Invariance, PTL
  DEF Spec, CrashTransparent, Execution!Spec, decidedNodes, nodeOutput
=============================================================================
