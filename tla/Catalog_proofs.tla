--------------------------- MODULE Catalog_proofs ---------------------------
(***************************************************************************)
(* Proofs about the block catalog, for every set of clients, versions and  *)
(* contents: the types, that the index file is never torn, that it         *)
(* implements the registry, that a version stands for one content, and     *)
(* what an unqualified name resolves to.                                   *)
(***************************************************************************)
EXTENDS Catalog, TLAPS

\* The maps from some of the versions into a set.
Maps(S) == UNION {[vs -> S] : vs \in SUBSET Versions}

LEMMA MapInsert ==
  ASSUME NEW S, NEW m \in Maps(S), NEW v \in Versions, NEW e \in S
  PROVE Insert(m, v, e) \in Maps(S)
<1>1. PICK vs \in SUBSET Versions : m \in [vs -> S]
  BY DEF Maps
<1>2. Insert(m, v, e) \in [vs \cup {v} -> S]
  BY <1>1 DEF Insert
<1> QED
  BY <1>2 DEF Maps

LEMMA MapRemove ==
  ASSUME NEW S, NEW m \in Maps(S), NEW v \in Versions
  PROVE Remove(m, v) \in Maps(S)
<1>1. PICK vs \in SUBSET Versions : m \in [vs -> S]
  BY DEF Maps
<1>2. Remove(m, v) \in [vs \ {v} -> S]
  BY <1>1 DEF Remove
<1> QED
  BY <1>2 DEF Maps

LEMMA IndexMaps ==
  Index = [entries : Maps(Entry), retired : Maps(Artifacts)]
BY DEF Index, Maps

LEMMA EmptyIsIndex ==
  EmptyIndex \in Index /\ Torn \in File
<1>1. EmptyMap \in [{} -> Entry] /\ EmptyMap \in [{} -> Artifacts]
  BY DEF EmptyMap
<1>2. EmptyIndex \in Index
  BY <1>1 DEF Index, EmptyIndex
<1> QED
  BY <1>2 DEF Torn, File

LEMMA EntryHasHash ==
  ASSUME NEW index \in Index, NEW v \in DOMAIN index.entries
  PROVE v \in Versions /\ index.entries[v] \in Entry /\ index.entries[v].hash \in Artifacts
BY DEF Index, Entry

-----------------------------------------------------------------------------
\* The places each kind of call passes, and what it has found.
Placed ==
  \A c \in Clients :
    /\ pc[c] \in {"inspect", "blob", "fill_blob", "place_blob", "stamp"} => op[c].do = "add"
    /\ pc[c] \in {"lock"} \cup Locked => op[c].do \in {"add", "rm"}
    /\ pc[c] \in {"resolve", "read_blob"} => op[c].do = "load"
    /\ pc[c] # "idle" => op[c] \in Calls
    /\ pc[c] = "read_blob" => found[c] \in Versions \X Artifacts

LEMMA CallFields ==
  ASSUME NEW r \in Calls
  PROVE /\ r.do \in {"add", "rm", "load"}
        /\ r.do \in {"add", "rm"} => r.version \in Versions
        /\ r.do = "add" => r.artifact \in Artifacts
        /\ r.do = "load" => r.version \in Versions \cup {Latest}
BY DEF Calls
-----------------------------------------------------------------------------
\* The initial state.
LEMMA InitTyped == Init => TypeOK /\ Placed
<1> SUFFICES ASSUME Init PROVE TypeOK /\ Placed
  OBVIOUS
<1>1. EmptyIndex \in Index /\ Torn \in File /\ Whole(EmptyIndex) \in File
  BY EmptyIsIndex DEF File, Whole
<1>2. TypeOK
  BY <1>1, BoundsAreNatural DEF Init, TypeOK, States, Places, Answers
<1> QED
  BY <1>2 DEF Init, Placed, Locked

\* A call that returns leaves the client idle.
LEMMA ReturnTyped ==
  ASSUME TypeOK, Placed, NEW c \in Clients, NEW result \in Answers, Return(c, result),
         faults < MaxFaults \/ result \notin {"io_error", "died"}
  PROVE /\ pc' \in [Clients -> Places]
        /\ op' \in [Clients -> Calls \cup {NoCall}]
        /\ began' \in [Clients -> Nat] /\ stamp' \in [Clients -> Nat]
        /\ mem' \in [Clients -> Index]
        /\ found' \in [Clients -> (Versions \X Artifacts) \cup {NotFound}]
        /\ answer' \in [Clients -> Answers]
        /\ calls' \in 0..MaxCalls /\ faults' \in 0..MaxFaults
        /\ lock' \in Clients \cup {Nobody} /\ clock' \in Nat
        /\ Placed'
<1>1. EmptyIndex \in Index
  BY EmptyIsIndex
<1>2. Placed'
  BY DEF TypeOK, Placed, Return, Goto, Locked
<1> QED
  BY <1>1, <1>2, BoundsAreNatural DEF TypeOK, Return, Goto, Places, Released

LEMMA BeginTyped ==
  ASSUME TypeOK, Placed, NEW c \in Clients, NEW r \in Requests, Begin(c, r)
  PROVE TypeOK' /\ Placed'
<1>1. r \in Calls /\ r.do \in {"add", "rm", "load"}
  BY RequestsAreCalls, CallFields
<1>2. pc' = [pc EXCEPT ![c] = CASE r.do = "add" -> "inspect"
                              [] r.do = "rm" -> "lock"
                              [] r.do = "load" -> "resolve"]
  BY DEF Begin, Goto
<1>3. pc' \in [Clients -> Places]
  BY <1>1, <1>2 DEF TypeOK, Places
<1>4. TypeOK'
  <2>1. op' \in [Clients -> Calls \cup {NoCall}] /\ began' \in [Clients -> Nat]
    BY <1>1 DEF TypeOK, Begin
  <2>2. answer' \in [Clients -> Answers] /\ calls' \in 0..MaxCalls
    BY BoundsAreNatural DEF TypeOK, Begin, Answers
  <2>3. UNCHANGED <<indexFile, indexTmp, blobs, blobTmp, lock, clock, mem, stamp, found,
                    faults, seen, span>>
    BY DEF Begin, blobFiles, indexFiles, history
  <2> QED
    BY <1>3, <2>1, <2>2, <2>3 DEF TypeOK
<1>5. Placed'
  BY <1>1, <1>2 DEF TypeOK, Placed, Begin, Locked
<1> QED
  BY <1>4, <1>5

LEMMA TickTyped ==
  ASSUME TypeOK, Placed, Tick
  PROVE TypeOK' /\ Placed'
<1>1. TypeOK'
  BY BoundsAreNatural DEF TypeOK, Tick, blobFiles, indexFiles, call, counts, history
<1>2. Placed'
  BY DEF Placed, Tick, call
<1> QED
  BY <1>1, <1>2

LEMMA StopTyped ==
  ASSUME TypeOK, Placed, NEW c \in Clients, Fails(c) \/ Dies(c) \/ MisreadFree(c)
  PROVE TypeOK' /\ Placed'
<1>1. PICK result \in {"io_error", "died", "refused", "not_found"} :
        /\ Return(c, result) /\ UNCHANGED <<blobFiles, indexFiles, history>>
        /\ faults < MaxFaults \/ result \notin {"io_error", "died"}
  BY DEF Fails, Dies, MisreadFree
<1>2. result \in Answers
  BY DEF Answers
<1> QED
  BY <1>1, <1>2, ReturnTyped DEF TypeOK, blobFiles, indexFiles, history

LEMMA BlobTyped ==
  ASSUME TypeOK, Placed, NEW c \in Clients,
         Inspect(c) \/ CreateBlob(c) \/ FillBlob(c) \/ PlaceBlob(c) \/ Stamp(c)
  PROVE TypeOK' /\ Placed'
<1>1. CASE Inspect(c)
  <2>1. CASE op[c].artifact \in Malformed
    <3>1. Return(c, "refused") /\ UNCHANGED <<blobFiles, indexFiles, history>>
      BY <1>1, <2>1 DEF Inspect
    <3>2. "refused" \in Answers \ {"io_error", "died"}
      BY DEF Answers
    <3> QED
      BY <3>1, <3>2, ReturnTyped DEF TypeOK, blobFiles, indexFiles, history
  <2>2. CASE op[c].artifact \notin Malformed
    <3>1. /\ pc' = [pc EXCEPT ![c] = "blob"]
          /\ UNCHANGED <<blobFiles, indexFiles, lock, clock, call, answer, counts, history>>
      BY <1>1, <2>2 DEF Inspect, Goto
    <3>2. pc[c] = "inspect"
      BY <1>1 DEF Inspect
    <3>3. TypeOK'
      BY <3>1 DEF TypeOK, Places, blobFiles, indexFiles, history, call, counts
    <3>4. Placed'
      BY <3>1, <3>2 DEF TypeOK, Placed, Locked, call
    <3> QED
      BY <3>3, <3>4
  <2> QED
    BY <2>1, <2>2
<1>2. CASE CreateBlob(c)
  <2>1. /\ pc[c] = "blob"
        /\ pc' = [pc EXCEPT ![c] = "stamp"] \/ pc' = [pc EXCEPT ![c] = "fill_blob"]
        /\ UNCHANGED blobTmp \/ blobTmp' = [blobTmp EXCEPT ![Mine(c)] = "torn"]
        /\ UNCHANGED <<blobs, indexFiles, lock, clock, call, answer, counts, history>>
    BY <1>2 DEF CreateBlob, Goto
  <2>2. TypeOK'
    BY <2>1 DEF TypeOK, Places, States, indexFiles, history, call, counts
  <2>3. Placed'
    BY <2>1 DEF TypeOK, Placed, Locked, call
  <2> QED
    BY <2>2, <2>3
<1>3. CASE FillBlob(c)
  BY <1>3, CallFields DEF FillBlob, TypeOK, Placed, Goto, Places, Locked, States, Mine,
     TmpName, blobFiles, indexFiles, history, call, counts
<1>4. CASE PlaceBlob(c)
  <2>1. op[c].artifact \in Artifacts /\ Mine(c) \in Clients \X Artifacts
    BY <1>4, CallFields DEF PlaceBlob, Placed, Mine, TmpName
  <2>2. blobTmp[Mine(c)] \in States
    BY <2>1 DEF TypeOK
  <2> QED
    BY <1>4, <2>1, <2>2 DEF PlaceBlob, TypeOK, Placed, Goto, Places, Locked, States,
       indexFiles, history, call, counts
<1>5. CASE Stamp(c)
  BY <1>5 DEF Stamp, TypeOK, Placed, Goto, Places, Locked,
     blobFiles, indexFiles, history, counts
<1> QED
  BY <1>1, <1>2, <1>3, <1>4, <1>5

\* A step inside the lock that changes the local copy only.
LEMMA EditTyped ==
  ASSUME TypeOK, Placed, NEW c \in Clients, NEW index \in Index, EditTo(c, index),
         pc[c] \in Locked, UNCHANGED <<blobFiles, indexFiles, history>>
  PROVE TypeOK' /\ Placed'
BY DEF EditTo, TypeOK, Placed, Goto, Places, Locked, blobFiles, indexFiles, history, counts

\* The index an add writes, and the index an rm writes.
Added(index, v, a, s) ==
  [entries |-> Insert(index.entries, v, [hash |-> a, at |-> s]),
   retired |-> Remove(index.retired, v)]
Removed(index, v) ==
  [entries |-> Remove(index.entries, v),
   retired |-> Insert(index.retired, v, index.entries[v].hash)]

LEMMA EditedIndexes ==
  ASSUME NEW index \in Index, NEW v \in Versions, NEW a \in Artifacts, NEW s \in Nat
  PROVE /\ Added(index, v, a, s) \in Index
        /\ v \in DOMAIN index.entries => Removed(index, v) \in Index
<1>1. index.entries \in Maps(Entry) /\ index.retired \in Maps(Artifacts)
  BY IndexMaps
<1>2. [hash |-> a, at |-> s] \in Entry
  BY DEF Entry
<1>3. v \in DOMAIN index.entries => index.entries[v].hash \in Artifacts
  BY EntryHasHash
<1> QED
  BY <1>1, <1>2, <1>3, IndexMaps, MapInsert, MapRemove DEF Added, Removed

LEMMA LockTyped ==
  ASSUME TypeOK, Placed, NEW c \in Clients,
         Lock(c) \/ ReadLocked(c) \/ MisreadLocked(c) \/ AddEntry(c) \/ RemoveEntry(c)
  PROVE TypeOK' /\ Placed'
<1>0. {"corrupt_index", "exists", "retired", "not_found"} \subseteq Answers \ {"io_error", "died"}
  BY DEF Answers
<1>1. ASSUME NEW result \in {"corrupt_index", "exists", "retired", "not_found"},
             Return(c, result), UNCHANGED <<blobFiles, indexFiles, history>>
      PROVE TypeOK' /\ Placed'
  BY <1>0, <1>1, ReturnTyped DEF TypeOK, blobFiles, indexFiles, history
<1>2. CASE Lock(c)
  BY <1>2 DEF Lock, TypeOK, Placed, Goto, Places, Locked, blobFiles, indexFiles, history,
     call, counts
<1>3. CASE ReadLocked(c)
  <2>1. CASE ~indexFile.whole
    BY <1>1, <1>3, <2>1 DEF ReadLocked
  <2>2. CASE indexFile.whole
    <3>1. /\ pc' = [pc EXCEPT ![c] = "edit"] /\ mem' = [mem EXCEPT ![c] = indexFile.body]
          /\ UNCHANGED <<blobFiles, indexFiles, history, lock, clock>>
          /\ UNCHANGED <<op, began, stamp, found, answer, counts>>
      BY <1>3, <2>2 DEF ReadLocked, Goto
    <3>2. indexFile.body \in Index
      BY <2>2 DEF TypeOK, File
    <3>3. TypeOK'
      BY <3>1, <3>2 DEF TypeOK, Places, Locked, blobFiles, indexFiles, history, counts
    <3>4. Placed'
      BY <1>3, <3>1 DEF ReadLocked, TypeOK, Placed, Places, Locked
    <3> QED
      BY <3>3, <3>4
  <2> QED
    BY <2>1, <2>2
<1>4. CASE AddEntry(c)
  <2>1. /\ op[c].version \in Versions /\ op[c].artifact \in Artifacts
        /\ mem[c] \in Index /\ stamp[c] \in Nat
    BY <1>4, CallFields DEF AddEntry, Placed, TypeOK
  <2>2. CASE EditTo(c, Added(mem[c], op[c].version, op[c].artifact, stamp[c]))
    BY <1>4, <2>1, <2>2, EditedIndexes, EditTyped DEF AddEntry, Locked
  <2> QED
    BY <1>1, <1>4, <2>2 DEF AddEntry, Added
<1>5. CASE RemoveEntry(c)
  <2>1. op[c].version \in Versions /\ mem[c] \in Index
    BY <1>5, CallFields DEF RemoveEntry, Placed, TypeOK
  <2>2. CASE EditTo(c, Removed(mem[c], op[c].version))
             /\ op[c].version \in DOMAIN mem[c].entries
    <3>1. mem[c].entries[op[c].version].hash \in Artifacts
      BY <2>1, <2>2, EntryHasHash
    <3>2. Removed(mem[c], op[c].version) \in Index
      BY <2>1, <2>2, <3>1, EditedIndexes
    <3> QED
      BY <1>5, <2>2, <3>2, EditTyped DEF RemoveEntry, Locked
  <2> QED
    BY <1>1, <1>5, <2>2 DEF RemoveEntry, Removed
<1>6. CASE MisreadLocked(c)
  <2>1. /\ pc[c] = "read" /\ pc' = [pc EXCEPT ![c] = "edit"]
        /\ mem' = [mem EXCEPT ![c] = EmptyIndex]
        /\ faults < MaxFaults /\ faults' = faults + 1
        /\ UNCHANGED <<blobFiles, indexFiles, history, lock, clock>>
        /\ UNCHANGED <<op, began, stamp, found, answer, calls>>
    BY <1>6 DEF MisreadLocked, Goto
  <2>2. TypeOK'
    BY <2>1, EmptyIsIndex, BoundsAreNatural
    DEF TypeOK, Places, blobFiles, indexFiles, history
  <2>3. Placed'
    BY <2>1 DEF TypeOK, Placed, Places, Locked
  <2> QED
    BY <2>2, <2>3
<1> QED
  BY <1>2, <1>3, <1>4, <1>5, <1>6

LEMMA WriteTyped ==
  ASSUME TypeOK, Placed, NEW c \in Clients, CreateTmp(c) \/ FillTmp(c) \/ RenameTmp(c)
  PROVE TypeOK' /\ Placed'
<1>1. CASE CreateTmp(c)
  BY <1>1, EmptyIsIndex DEF CreateTmp, TypeOK, Placed, Goto, Places, Locked, blobFiles,
     history, call, counts
<1>2. CASE FillTmp(c)
  BY <1>2 DEF FillTmp, Whole, File, TypeOK, Placed, Goto, Places, Locked, blobFiles,
     history, call, counts
<1>3. CASE RenameTmp(c)
  <2>1. "added" \in Answers \ {"io_error", "died"} /\ "removed" \in Answers \ {"io_error", "died"}
    BY DEF Answers
  <2>2. PICK result \in {"added", "removed"} : Return(c, result)
    BY <1>3 DEF RenameTmp
  <2>3. seen' \in [Versions -> SUBSET Artifacts]
    BY <1>3, CallFields DEF RenameTmp, Acknowledge, TypeOK, Placed, Locked, history
  <2>4. span' \in [Versions -> Nat \X Nat]
    BY <1>3, CallFields DEF RenameTmp, Acknowledge, TypeOK, Placed, Locked, history
  <2>5. indexFile' \in File /\ indexTmp' \in File /\ UNCHANGED blobFiles
    BY <1>3, EmptyIsIndex DEF RenameTmp, TypeOK
  <2> QED
    BY <2>1, <2>2, <2>3, <2>4, <2>5, ReturnTyped DEF TypeOK, blobFiles
<1> QED
  BY <1>1, <1>2, <1>3

LEMMA LoadTyped ==
  ASSUME TypeOK, Placed, NEW c \in Clients, Resolve(c) \/ ReadBlob(c)
  PROVE TypeOK' /\ Placed'
<1>0. {"corrupt_index", "refused", "not_found", "no_blob", "loaded"}
        \subseteq Answers \ {"io_error", "died"}
  BY DEF Answers
<1>1. CASE Resolve(c)
  <2>1. UNCHANGED <<blobFiles, indexFiles, history>> /\ pc[c] = "resolve"
    BY <1>1 DEF Resolve
  <2>2. ASSUME NEW result \in {"corrupt_index", "refused", "not_found"}, Return(c, result)
        PROVE TypeOK' /\ Placed'
    BY <1>0, <2>1, <2>2, ReturnTyped DEF TypeOK, blobFiles, indexFiles, history
  <2>3. ASSUME NEW v \in Matches(c),
               found' = [found EXCEPT ![c] = <<v, Entries[v].hash>>],
               Goto(c, "read_blob"),
               UNCHANGED <<lock, clock, op, began, mem, stamp, answer, counts>>
        PROVE TypeOK' /\ Placed'
    <3>1. indexFile.body \in Index /\ v \in DOMAIN Entries
      BY DEF TypeOK, File, Matches, Newest
    <3>2. <<v, Entries[v].hash>> \in Versions \X Artifacts
      BY <3>1, EntryHasHash DEF Entries
    <3>3. TypeOK'
      BY <2>1, <2>3, <3>2 DEF TypeOK, Goto, Places, blobFiles, indexFiles, history, counts
    <3>4. Placed'
      BY <2>1, <2>3, <3>2 DEF TypeOK, Placed, Goto, Locked
    <3> QED
      BY <3>3, <3>4
  <2>4. \/ \E result \in {"corrupt_index", "refused", "not_found"} : Return(c, result)
        \/ \E v \in Matches(c) :
             /\ found' = [found EXCEPT ![c] = <<v, Entries[v].hash>>]
             /\ Goto(c, "read_blob")
             /\ UNCHANGED <<lock, clock, op, began, mem, stamp, answer, counts>>
    <3> HIDE DEF Matches
    <3> QED
      BY <1>1, Zenon DEF Resolve
  <2>5. CASE \E result \in {"corrupt_index", "refused", "not_found"} : Return(c, result)
    BY <2>2, <2>5
  <2>6. CASE \E v \in Matches(c) :
               /\ found' = [found EXCEPT ![c] = <<v, Entries[v].hash>>]
               /\ Goto(c, "read_blob")
               /\ UNCHANGED <<lock, clock, op, began, mem, stamp, answer, counts>>
    BY <2>3, <2>6
  <2> QED
    BY <2>4, <2>5, <2>6
<1>2. CASE ReadBlob(c)
  <2>1. UNCHANGED <<blobFiles, indexFiles, span>>
    BY <1>2 DEF ReadBlob
  <2>2. PICK result \in {"no_blob", "loaded"} : Return(c, result)
    BY <1>2 DEF ReadBlob
  <2>3. seen' \in [Versions -> SUBSET Artifacts]
    BY <1>2 DEF ReadBlob, TypeOK, Placed
  <2> QED
    BY <1>0, <2>1, <2>2, <2>3, ReturnTyped DEF TypeOK, blobFiles, indexFiles
<1> QED
  BY <1>1, <1>2

\* A client's steps, with the index read as it is; and those with it missed.
Advance(c) ==
  \/ Inspect(c) \/ CreateBlob(c) \/ FillBlob(c) \/ PlaceBlob(c) \/ Stamp(c)
  \/ Lock(c) \/ ReadLocked(c) \/ AddEntry(c) \/ RemoveEntry(c)
  \/ CreateTmp(c) \/ FillTmp(c) \/ RenameTmp(c)
  \/ Resolve(c) \/ ReadBlob(c)

ClientStep(c) ==
  \/ Advance(c) \/ Fails(c) \/ Dies(c) \/ MisreadLocked(c) \/ MisreadFree(c)
  \/ \E r \in Requests : Begin(c, r)

LEMMA NextSteps == Next => Tick \/ \E c \in Clients : ClientStep(c)
BY DEF Next, Proceed, ReadIndex, LookUp, ClientStep, Advance

LEMMA NextTyped ==
  ASSUME TypeOK, Placed, [Next]_vars
  PROVE TypeOK' /\ Placed'
<1>1. CASE Tick
  BY <1>1, TickTyped
<1>2. ASSUME NEW c \in Clients, Advance(c)
      PROVE TypeOK' /\ Placed'
  BY <1>2, BlobTyped, LockTyped, WriteTyped, LoadTyped DEF Advance
<1>3. ASSUME NEW c \in Clients,
             Fails(c) \/ Dies(c) \/ MisreadLocked(c) \/ MisreadFree(c)
      PROVE TypeOK' /\ Placed'
  BY <1>3, StopTyped, LockTyped
<1>4. ASSUME NEW c \in Clients, NEW r \in Requests, Begin(c, r)
      PROVE TypeOK' /\ Placed'
  BY <1>4, BeginTyped
<1>5. CASE UNCHANGED vars
  BY <1>5 DEF vars, TypeOK, Placed, blobFiles, indexFiles, call, counts, history
<1> QED
  BY <1>1, <1>2, <1>3, <1>4, <1>5, NextSteps DEF ClientStep

\* The variables keep their types, and a call is where its kind takes it, in
\* every reachable state of the catalog.
THEOREM TypeCorrect == Spec => [](TypeOK /\ Placed)
<1>1. Init => TypeOK /\ Placed
  BY InitTyped
<1>2. TypeOK /\ Placed /\ [Next]_vars => TypeOK' /\ Placed'
  BY NextTyped
<1> QED
  BY <1>1, <1>2, PTL DEF Spec

-----------------------------------------------------------------------------
\* At most one client is inside the lock, and it holds it.
Exclusive == \A c \in Clients : pc[c] \in Locked <=> lock = c

\* A client's local copy, once edited, is the index file with its change.
Edited(c) ==
  \/ /\ op[c].do = "add"
     /\ op[c].version \notin DOMAIN Entries
     /\ op[c].version \in DOMAIN indexFile.body.retired =>
          indexFile.body.retired[op[c].version] = op[c].artifact
     /\ mem[c] = Added(indexFile.body, op[c].version, op[c].artifact, stamp[c])
  \/ /\ op[c].do = "rm"
     /\ op[c].version \in DOMAIN Entries
     /\ mem[c] = Removed(indexFile.body, op[c].version)

\* The index file is whole, and what is about to be renamed over it is, if no
\* stat fails, the file with one change.
Edits ==
  /\ indexFile.whole
  /\ \A c \in Clients :
       /\ ~StatFails /\ pc[c] = "edit" => mem[c] = indexFile.body
       /\ ~StatFails /\ pc[c] \in {"create", "fill", "rename"} => Edited(c)
       /\ pc[c] = "rename" => indexTmp = Whole(mem[c])

Inv == TypeOK /\ Placed /\ Exclusive /\ Edits

\* A client's step leaves the other clients' calls alone.
LEMMA OthersStay ==
  ASSUME NEW c \in Clients, ClientStep(c), TypeOK
  PROVE \A d \in Clients \ {c} : /\ pc'[d] = pc[d] /\ op'[d] = op[d]
                                 /\ mem'[d] = mem[d] /\ stamp'[d] = stamp[d]
                                 /\ found'[d] = found[d] /\ began'[d] = began[d]
<1>1. ASSUME NEW result, Return(c, result)
      PROVE \A d \in Clients \ {c} : /\ pc'[d] = pc[d] /\ op'[d] = op[d]
                                     /\ mem'[d] = mem[d] /\ stamp'[d] = stamp[d]
                                     /\ found'[d] = found[d] /\ began'[d] = began[d]
  BY <1>1 DEF Return, Goto, TypeOK
<1>2. ASSUME NEW index, EditTo(c, index)
      PROVE \A d \in Clients \ {c} : /\ pc'[d] = pc[d] /\ op'[d] = op[d]
                                     /\ mem'[d] = mem[d] /\ stamp'[d] = stamp[d]
                                     /\ found'[d] = found[d] /\ began'[d] = began[d]
  BY <1>2 DEF EditTo, Goto, TypeOK
<1>3. CASE Fails(c) \/ Dies(c) \/ MisreadFree(c)
  BY <1>1, <1>3 DEF Fails, Dies, MisreadFree
<1>4. CASE \E r \in Requests : Begin(c, r)
  BY <1>4 DEF Begin, Goto, TypeOK
<1>5. CASE Inspect(c) \/ CreateBlob(c) \/ FillBlob(c) \/ PlaceBlob(c) \/ Stamp(c) \/ Lock(c)
  BY <1>1, <1>5 DEF Inspect, CreateBlob, FillBlob, PlaceBlob, Stamp, Lock, Goto, TypeOK, call
<1>6. CASE ReadLocked(c) \/ MisreadLocked(c) \/ AddEntry(c) \/ RemoveEntry(c)
  BY <1>1, <1>2, <1>6 DEF ReadLocked, MisreadLocked, AddEntry, RemoveEntry, Goto, TypeOK
<1>7. CASE CreateTmp(c) \/ FillTmp(c) \/ RenameTmp(c)
  BY <1>1, <1>7 DEF CreateTmp, FillTmp, RenameTmp, Goto, TypeOK, call
<1>8. CASE Resolve(c)
  BY <1>1, <1>8 DEF Resolve, Goto, TypeOK
<1>9. CASE ReadBlob(c)
  BY <1>1, <1>9 DEF ReadBlob
<1> QED
  BY <1>3, <1>4, <1>5, <1>6, <1>7, <1>8, <1>9 DEF ClientStep, Advance

\* A client's step keeps the lock with the client that is inside it.
LEMMA StepExclusive ==
  ASSUME Inv, NEW c \in Clients, ClientStep(c)
  PROVE Exclusive'
<1>0. TypeOK /\ Exclusive /\ pc \in [Clients -> Places]
  BY DEF Inv, TypeOK
<1>1. SUFFICES /\ pc'[c] \in Locked <=> lock' = c
               /\ \A d \in Clients \ {c} : lock' = d <=> lock = d
  BY <1>0, OthersStay DEF Exclusive
<1>2. ASSUME NEW result, Return(c, result)
      PROVE /\ pc'[c] \in Locked <=> lock' = c
            /\ \A d \in Clients \ {c} : lock' = d <=> lock = d
  BY <1>0, <1>2, NobodyIsNoClient DEF Return, Goto, Released, Locked
<1>3. ASSUME UNCHANGED lock, pc'[c] \in Locked <=> pc[c] \in Locked
      PROVE /\ pc'[c] \in Locked <=> lock' = c
            /\ \A d \in Clients \ {c} : lock' = d <=> lock = d
  BY <1>0, <1>3 DEF Exclusive
<1>4. CASE Fails(c) \/ Dies(c) \/ MisreadFree(c)
  BY <1>2, <1>4 DEF Fails, Dies, MisreadFree
<1>5. CASE \E r \in Requests : Begin(c, r)
  BY <1>0, <1>3, <1>5, CallFields, RequestsAreCalls DEF Begin, Goto, Locked
<1>6. CASE Inspect(c) \/ CreateBlob(c) \/ FillBlob(c) \/ PlaceBlob(c) \/ Stamp(c)
  BY <1>0, <1>2, <1>3, <1>6
  DEF Inspect, CreateBlob, FillBlob, PlaceBlob, Stamp, Goto, Locked
<1>7. CASE Lock(c)
  BY <1>0, <1>7, NobodyIsNoClient DEF Lock, Goto, Locked
<1>8. CASE ReadLocked(c) \/ MisreadLocked(c) \/ AddEntry(c) \/ RemoveEntry(c)
  BY <1>0, <1>2, <1>3, <1>8 DEF ReadLocked, MisreadLocked, AddEntry, RemoveEntry, EditTo, Goto,
Locked
<1>9. CASE CreateTmp(c) \/ FillTmp(c) \/ RenameTmp(c)
  BY <1>0, <1>2, <1>3, <1>9 DEF CreateTmp, FillTmp, RenameTmp, Goto, Locked
<1>10. CASE Resolve(c) \/ ReadBlob(c)
  BY <1>0, <1>2, <1>3, <1>10 DEF Resolve, ReadBlob, Goto, Locked
<1> QED
  BY <1>4, <1>5, <1>6, <1>7, <1>8, <1>9, <1>10 DEF ClientStep, Advance

\* Only the client that holds the lock writes the index files.
LEMMA FilesLocked ==
  ASSUME NEW c \in Clients, ClientStep(c)
  PROVE UNCHANGED indexFiles \/ pc[c] \in {"create", "fill", "rename"}
BY DEF ClientStep, Advance, Begin, Fails, Dies, MisreadFree, Inspect, CreateBlob, FillBlob,
   PlaceBlob,
   Stamp, Lock, ReadLocked, MisreadLocked, AddEntry, RemoveEntry, CreateTmp, FillTmp, RenameTmp,
   Resolve, ReadBlob

\* What the other clients are about to write stays as it was.
LEMMA OthersEdits ==
  ASSUME Inv, NEW c \in Clients, ClientStep(c), NEW d \in Clients \ {c}
  PROVE /\ ~StatFails /\ pc'[d] = "edit" => mem'[d] = indexFile'.body
        /\ ~StatFails /\ pc'[d] \in {"create", "fill", "rename"} => Edited(d)'
        /\ pc'[d] = "rename" => indexTmp' = Whole(mem'[d])
<1>1. TypeOK /\ Exclusive /\ Edits
  BY DEF Inv
<1>2. /\ pc'[d] = pc[d] /\ op'[d] = op[d] /\ mem'[d] = mem[d] /\ stamp'[d] = stamp[d]
  BY <1>1, OthersStay
<1>3. CASE UNCHANGED indexFiles
  BY <1>1, <1>2, <1>3 DEF Edits, Edited, Entries, indexFiles
<1>4. CASE pc[c] \in {"create", "fill", "rename"}
  <2>1. pc[d] \notin Locked
    BY <1>1, <1>4 DEF Exclusive, Locked
  <2> QED
    BY <1>2, <2>1 DEF Locked
<1> QED
  BY <1>3, <1>4, FilesLocked

\* What a client edits it has just read, and no one has changed it since.
LEMMA OwnEdits ==
  ASSUME Inv, NEW c \in Clients, ClientStep(c)
  PROVE /\ ~StatFails /\ pc'[c] = "edit" => mem'[c] = indexFile'.body
        /\ ~StatFails /\ pc'[c] \in {"create", "fill", "rename"} => Edited(c)'
        /\ pc'[c] = "rename" => indexTmp' = Whole(mem'[c])
<1>0. TypeOK /\ Placed /\ Edits /\ pc \in [Clients -> Places] /\ mem \in [Clients -> Index]
  BY DEF Inv, TypeOK
<1>1. SUFFICES ASSUME pc'[c] \in {"edit", "create", "fill", "rename"}
               PROVE /\ ~StatFails /\ pc'[c] = "edit" => mem'[c] = indexFile'.body
                     /\ ~StatFails /\ pc'[c] \in {"create", "fill", "rename"} => Edited(c)'
                     /\ pc'[c] = "rename" => indexTmp' = Whole(mem'[c])
  OBVIOUS
<1>2. ASSUME NEW result, Return(c, result) PROVE FALSE
  BY <1>0, <1>1, <1>2 DEF Return, Goto
<1>3. ASSUME NEW r \in Requests, Begin(c, r) PROVE FALSE
  BY <1>0, <1>1, <1>3, CallFields, RequestsAreCalls DEF Begin, Goto
<1>4. CASE Fails(c) \/ Dies(c) \/ MisreadFree(c)
  BY <1>2, <1>4 DEF Fails, Dies, MisreadFree
<1>5. CASE Inspect(c) \/ CreateBlob(c) \/ FillBlob(c) \/ PlaceBlob(c) \/ Stamp(c) \/ Lock(c)
  BY <1>0, <1>1, <1>2, <1>5
  DEF Inspect, CreateBlob, FillBlob, PlaceBlob, Stamp, Lock, Goto
<1>6. CASE ReadLocked(c) \/ MisreadLocked(c)
  BY <1>0, <1>2, <1>6 DEF ReadLocked, MisreadLocked, Goto, indexFiles
<1>7. CASE AddEntry(c)
  <2>1. /\ ~StatFails => mem[c] = indexFile.body
        /\ pc'[c] = "create" /\ op[c].do = "add"
        /\ op[c].version \notin DOMAIN mem[c].entries /\ ~Claimed(c)
        /\ mem'[c] = Added(mem[c], op[c].version, op[c].artifact, stamp[c])
        /\ UNCHANGED <<op, stamp, indexFile>>
    BY <1>0, <1>2, <1>7 DEF AddEntry, EditTo, Goto, Edits, Added, indexFiles
  <2> QED
    BY <2>1 DEF Edited, Claimed, Entries
<1>8. CASE RemoveEntry(c)
  <2>1. /\ ~StatFails => mem[c] = indexFile.body
        /\ pc'[c] = "create" /\ op[c].do = "rm"
        /\ op[c].version \in DOMAIN mem[c].entries
        /\ mem'[c] = Removed(mem[c], op[c].version)
        /\ UNCHANGED <<op, indexFile>>
    BY <1>0, <1>2, <1>8 DEF RemoveEntry, EditTo, Goto, Edits, Removed, indexFiles
  <2> QED
    BY <2>1 DEF Edited, Entries
<1>9. CASE CreateTmp(c)
  <2>1. /\ pc'[c] = "fill" /\ (~StatFails => Edited(c))
        /\ UNCHANGED <<call, indexFile>>
    BY <1>0, <1>9 DEF CreateTmp, Goto, Edits
  <2> QED
    BY <2>1 DEF Edited, Entries, call
<1>10. CASE FillTmp(c)
  <2>1. /\ pc'[c] = "rename" /\ (~StatFails => Edited(c))
        /\ UNCHANGED <<call, indexFile>>
        /\ indexTmp' = Whole(mem[c])
    BY <1>0, <1>10 DEF FillTmp, Goto, Edits
  <2> QED
    BY <2>1 DEF Edited, Entries, call
<1>11. CASE RenameTmp(c)
  BY <1>2, <1>11 DEF RenameTmp
<1>12. CASE Resolve(c) \/ ReadBlob(c)
  BY <1>0, <1>1, <1>2, <1>12 DEF Resolve, ReadBlob, Goto
<1> QED
  BY <1>3, <1>4, <1>5, <1>6, <1>7, <1>8, <1>9, <1>10, <1>11, <1>12 DEF ClientStep, Advance

LEMMA StepEdits ==
  ASSUME Inv, NEW c \in Clients, ClientStep(c)
  PROVE Edits'
<1>1. TypeOK /\ Edits
  BY DEF Inv
<1>2. indexFile'.whole
  <2>1. CASE RenameTmp(c)
    <3>1. indexFile' = Whole(mem[c])
      BY <1>1, <2>1 DEF RenameTmp, Edits
    <3> QED
      BY <3>1 DEF Whole
  <2>2. CASE ~RenameTmp(c)
    <3>1. UNCHANGED indexFile
      BY <2>2 DEF ClientStep, Advance, Begin, Fails, Dies, MisreadFree, Inspect, CreateBlob,
         FillBlob,
         PlaceBlob, Stamp, Lock, ReadLocked, MisreadLocked, AddEntry, RemoveEntry, CreateTmp,
         FillTmp, Resolve, ReadBlob, indexFiles
    <3> QED
      BY <1>1, <3>1 DEF Edits
  <2> QED
    BY <2>1, <2>2
<1> QED
  BY <1>2, OwnEdits, OthersEdits DEF Edits

LEMMA InitInv == Init => Inv
<1> SUFFICES ASSUME Init PROVE Inv
  OBVIOUS
<1>1. TypeOK /\ Placed
  BY InitTyped
<1>2. Exclusive
  BY NobodyIsNoClient DEF Init, Exclusive, Locked
<1>3. Edits
  BY DEF Init, Edits, Whole
<1> QED
  BY <1>1, <1>2, <1>3 DEF Inv

LEMMA NextInv == Inv /\ [Next]_vars => Inv'
<1> SUFFICES ASSUME Inv, [Next]_vars PROVE Inv'
  OBVIOUS
<1>1. TypeOK' /\ Placed'
  BY NextTyped DEF Inv
<1>2. CASE Tick \/ UNCHANGED vars
  BY <1>1, <1>2 DEF Inv, Exclusive, Edits, Edited, Entries, Tick, vars, indexFiles, call
<1>3. ASSUME NEW c \in Clients, ClientStep(c) PROVE Inv'
  BY <1>1, <1>3, StepExclusive, StepEdits DEF Inv
<1> QED
  BY <1>2, <1>3, NextSteps

\* No reader and no writer is ever told CorruptIndex: the index file is whole
\* at every moment, whoever writes, fails or dies.
THEOREM NeverCorrupt == Spec => []IndexWhole
<1>1. Init => Inv /\ IndexWhole
  BY InitInv DEF Init, IndexWhole
<1>2. Inv /\ IndexWhole /\ [Next]_vars => IndexWhole'
  <2> SUFFICES ASSUME Inv, IndexWhole, [Next]_vars PROVE IndexWhole'
    OBVIOUS
  <2>0. TypeOK /\ indexFile.whole
    BY DEF Inv, Edits
  <2>1. ASSUME NEW c \in Clients, NEW result, Return(c, result), result # "corrupt_index"
        PROVE IndexWhole'
    BY <2>0, <2>1 DEF Return, IndexWhole, TypeOK
  <2>2. ASSUME UNCHANGED answer PROVE IndexWhole'
    BY <2>2 DEF IndexWhole
  <2>3. CASE Tick \/ UNCHANGED vars
    BY <2>2, <2>3 DEF Tick, vars
  <2>4. ASSUME NEW c \in Clients, Advance(c) \/ MisreadLocked(c) PROVE IndexWhole'
    BY <2>0, <2>1, <2>2, <2>4
    DEF Advance, Inspect, CreateBlob, FillBlob, PlaceBlob, Stamp, Lock, ReadLocked, MisreadLocked,
        AddEntry, RemoveEntry, EditTo, CreateTmp, FillTmp, RenameTmp, Resolve, ReadBlob
  <2>5. ASSUME NEW c \in Clients, Fails(c) \/ Dies(c) \/ MisreadFree(c)
        PROVE IndexWhole'
    BY <2>1, <2>5 DEF Fails, Dies, MisreadFree
  <2>6. ASSUME NEW c \in Clients, NEW r \in Requests, Begin(c, r) PROVE IndexWhole'
    BY <2>0, <2>6 DEF Begin, IndexWhole, TypeOK
  <2> QED
    BY <2>3, <2>4, <2>5, <2>6, NextSteps DEF ClientStep
<1> QED
  BY <1>1, <1>2, NextInv, PTL DEF Spec

-----------------------------------------------------------------------------
\* The content a version is claimed by, in an index: at most one.
ClaimIn(index, v) ==
  IF v \in DOMAIN index.entries THEN {index.entries[v].hash}
  ELSE IF v \in DOMAIN index.retired THEN {index.retired[v]} ELSE {}

\* Removing leaves every claim.
LEMMA RemovedClaims ==
  ASSUME NEW index, NEW v \in DOMAIN index.entries
  PROVE /\ DOMAIN Removed(index, v).entries = DOMAIN index.entries \ {v}
        /\ \A w : ClaimIn(Removed(index, v), w) = ClaimIn(index, w)
BY DEF ClaimIn, Removed, Insert, Remove

\* The index file changes only when a client renames what it holds over it.
LEMMA IndexRenames ==
  ASSUME Inv, [Next]_vars
  PROVE \/ UNCHANGED indexFile
        \/ \E c \in Clients :
             RenameTmp(c) /\ indexFile'.body = mem[c] /\ op[c] \in Calls
<1>1. CASE Tick \/ UNCHANGED vars
  BY <1>1 DEF Tick, vars, indexFiles
<1>2. ASSUME NEW c \in Clients, ClientStep(c), ~RenameTmp(c)
      PROVE UNCHANGED indexFile
  BY <1>2 DEF ClientStep, Advance, Begin, Fails, Dies, MisreadFree, Inspect, CreateBlob, FillBlob,
     PlaceBlob, Stamp, Lock, ReadLocked, MisreadLocked, AddEntry, RemoveEntry, CreateTmp, FillTmp,
     Resolve, ReadBlob, indexFiles
<1>3. ASSUME NEW c \in Clients, RenameTmp(c)
      PROVE indexFile'.body = mem[c] /\ op[c] \in Calls
  BY <1>3 DEF Inv, Edits, Placed, RenameTmp, Whole
<1> QED
  BY <1>1, <1>2, <1>3, NextSteps

\* If no stat fails, that is the file with the one change its client made.
LEMMA IndexSteps ==
  ASSUME Inv, [Next]_vars, ~StatFails
  PROVE \/ UNCHANGED indexFile
        \/ \E c \in Clients :
             /\ RenameTmp(c) /\ Edited(c) /\ indexFile'.body = mem[c]
             /\ op[c] \in Calls
<1>1. ASSUME NEW c \in Clients, RenameTmp(c) PROVE Edited(c)
  BY <1>1 DEF Inv, Edits, RenameTmp
<1> QED
  BY <1>1, IndexRenames

\* Every step of the catalog is one of the registry or leaves it alone.
LEMMA StepKeepsPromise ==
  ASSUME Inv, [Next]_vars, ~StatFails
  PROVE [Promise!Next]_<<DOMAIN Entries,
           [v \in Versions |-> IF v \in DOMAIN Entries THEN {Entries[v].hash}
                               ELSE IF v \in DOMAIN indexFile.body.retired
                                    THEN {indexFile.body.retired[v]} ELSE {}]>>
<1> DEFINE claim == [v \in Versions |-> IF v \in DOMAIN Entries THEN {Entries[v].hash}
                                        ELSE IF v \in DOMAIN indexFile.body.retired
                                             THEN {indexFile.body.retired[v]} ELSE {}]
<1>1. /\ claim = [v \in Versions |-> ClaimIn(indexFile.body, v)]
      /\ claim' = [v \in Versions |-> ClaimIn(indexFile'.body, v)]
  BY DEF ClaimIn, Entries
<1>2. CASE UNCHANGED indexFile
  BY <1>2 DEF Entries
<1>3. ASSUME NEW c \in Clients, Edited(c), indexFile'.body = mem[c], op[c] \in Calls
      PROVE Promise!Next
  <2> DEFINE v == op[c].version
             a == op[c].artifact
  <2>1. v \in Versions /\ (op[c].do = "add" => a \in Artifacts)
    BY <1>3, CallFields DEF Edited
  <2>2. CASE op[c].do = "add"
    <3>1. /\ v \notin DOMAIN Entries
          /\ mem[c] = Added(indexFile.body, v, a, stamp[c])
          /\ ClaimIn(indexFile.body, v) \subseteq {a}
      BY <1>3, <2>2 DEF Edited, ClaimIn, Entries
    <3>2. /\ DOMAIN Entries' = DOMAIN Entries \cup {v}
          /\ \A w : ClaimIn(indexFile'.body, w) = IF w = v THEN {a}
                                                  ELSE ClaimIn(indexFile.body, w)
      <4>1. indexFile'.body = Added(indexFile.body, v, a, stamp[c])
        BY <1>3, <3>1
      <4> DEFINE after == Added(indexFile.body, v, a, stamp[c])
      <4>2. /\ DOMAIN after.entries = DOMAIN indexFile.body.entries \cup {v}
            /\ \A w : ClaimIn(after, w) = IF w = v THEN {a} ELSE ClaimIn(indexFile.body, w)
        BY DEF ClaimIn, Added, Insert, Remove
      <4> HIDE DEF after
      <4> QED
        BY <4>1, <4>2 DEF Entries, after
    <3>3. claim[v] \subseteq {a}
      BY <1>1, <2>1, <3>1
    <3>4. claim' = [claim EXCEPT ![v] = {a}]
      <4> HIDE DEF claim
      <4> QED
        BY <1>1, <2>1, <3>2
    <3> QED
      BY <2>1, <2>2, <3>1, <3>2, <3>3, <3>4 DEF Promise!Next, Promise!Publish
  <2>3. CASE op[c].do # "add"
    <3>1. v \in DOMAIN Entries /\ mem[c] = Removed(indexFile.body, v)
      BY <1>3, <2>3 DEF Edited
    <3>2. /\ DOMAIN Entries' = DOMAIN Entries \ {v}
          /\ \A w : ClaimIn(indexFile'.body, w) = ClaimIn(indexFile.body, w)
      BY <1>3, <3>1, RemovedClaims DEF Entries
    <3>3. claim' = claim
      <4> HIDE DEF claim
      <4> QED
        BY <1>1, <3>2
    <3>4. Promise!Retire(v)
      <4> HIDE DEF claim, v
      <4> QED
        BY <3>1, <3>2, <3>3, Zenon DEF Promise!Retire, claim
    <3> QED
      BY <2>1, <3>4 DEF Promise!Next
  <2> QED
    BY <2>2, <2>3
<1> QED
  BY <1>2, <1>3, IndexSteps

\* The catalog on disk implements the registry when every index.json there is
\* is found: whoever writes, fails or dies, every change of it publishes or
\* retires one version, and none changes what a version was published with.
THEOREM CatalogKeepsPromise == ASSUME ~StatFails PROVE Spec => KeepsPromise
<1>1. Init => Promise!Init
  BY DEF Init, Promise!Init, Entries, Whole, EmptyIndex, EmptyMap
<1>2. Inv /\ [Next]_vars =>
        [Promise!Next]_<<DOMAIN Entries,
           [v \in Versions |-> IF v \in DOMAIN Entries THEN {Entries[v].hash}
                               ELSE IF v \in DOMAIN indexFile.body.retired
                                    THEN {indexFile.body.retired[v]} ELSE {}]>>
  BY StepKeepsPromise
<1> QED
  BY <1>1, <1>2, InitInv, NextInv, PTL DEF Spec, KeepsPromise, Promise!Spec

-----------------------------------------------------------------------------
\* What was ever acknowledged or found under a version is what claims it now.
Remembered ==
  /\ \A v \in Versions : seen[v] \subseteq ClaimIn(indexFile.body, v)
  /\ \A c \in Clients : pc[c] = "read_blob" =>
       found[c][2] \in ClaimIn(indexFile.body, found[c][1])

\* A claim, once made, stays.
LEMMA ClaimsStay ==
  ASSUME Inv, [Next]_vars, ~StatFails, NEW v
  PROVE ClaimIn(indexFile.body, v) \subseteq ClaimIn(indexFile'.body, v)
<1>1. CASE UNCHANGED indexFile
  BY <1>1
<1>2. ASSUME NEW c \in Clients, Edited(c), indexFile'.body = mem[c]
      PROVE ClaimIn(indexFile.body, v) \subseteq ClaimIn(indexFile'.body, v)
  <2>1. CASE op[c].do = "add"
    <3>1. /\ op[c].version \notin DOMAIN indexFile.body.entries
          /\ op[c].version \in DOMAIN indexFile.body.retired =>
               indexFile.body.retired[op[c].version] = op[c].artifact
          /\ indexFile'.body = Added(indexFile.body, op[c].version, op[c].artifact, stamp[c])
      BY <1>2, <2>1 DEF Edited, Entries
    <3> QED
      BY <3>1, SMTT(30) DEF ClaimIn, Added, Insert, Remove
  <2>2. CASE op[c].do # "add"
    <3>1. /\ op[c].version \in DOMAIN indexFile.body.entries
          /\ indexFile'.body = Removed(indexFile.body, op[c].version)
      BY <1>2, <2>2 DEF Edited, Entries
    <3> QED
      BY <3>1, RemovedClaims
  <2> QED
    BY <2>1, <2>2
<1> QED
  BY <1>1, <1>2, IndexSteps

LEMMA StepRemembers ==
  ASSUME Inv, Remembered, NEW c \in Clients, ClientStep(c), [Next]_vars, ~StatFails
  PROVE Remembered'
<1>0. /\ TypeOK /\ Placed /\ Edits
      /\ pc \in [Clients -> Places] /\ seen \in [Versions -> SUBSET Artifacts]
      /\ found \in [Clients -> (Versions \X Artifacts) \cup {NotFound}]
  BY DEF Inv, TypeOK
<1>1. \A d \in Clients \ {c} : pc'[d] = "read_blob" =>
        found'[d][2] \in ClaimIn(indexFile'.body, found'[d][1])
  BY <1>0, OthersStay, ClaimsStay DEF Remembered
<1>2. ASSUME UNCHANGED seen
      PROVE \A v \in Versions : seen'[v] \subseteq ClaimIn(indexFile'.body, v)
  BY <1>2, ClaimsStay DEF Remembered
<1>3. CASE pc'[c] # "read_blob" /\ UNCHANGED seen
  BY <1>1, <1>2, <1>3 DEF Remembered
<1>4. ASSUME NEW result, Return(c, result)
      PROVE pc'[c] # "read_blob"
  BY <1>0, <1>4 DEF Return, Goto
<1>5. CASE Fails(c) \/ Dies(c) \/ MisreadFree(c)
  BY <1>3, <1>4, <1>5 DEF Fails, Dies, MisreadFree, history
<1>6. CASE \E r \in Requests : Begin(c, r)
  BY <1>0, <1>3, <1>6, CallFields, RequestsAreCalls DEF Begin, Goto, history
<1>7. CASE Inspect(c) \/ CreateBlob(c) \/ FillBlob(c) \/ PlaceBlob(c) \/ Stamp(c) \/ Lock(c)
  BY <1>0, <1>3, <1>4, <1>7
  DEF Inspect, CreateBlob, FillBlob, PlaceBlob, Stamp, Lock, Goto, history
<1>8. CASE \/ ReadLocked(c) \/ MisreadLocked(c) \/ AddEntry(c) \/ RemoveEntry(c)
           \/ CreateTmp(c) \/ FillTmp(c)
  BY <1>0, <1>3, <1>4, <1>8
  DEF ReadLocked, MisreadLocked, AddEntry, RemoveEntry, EditTo, CreateTmp, FillTmp, Goto, history
<1>9. CASE RenameTmp(c)
  <2>1. pc'[c] # "read_blob"
    BY <1>4, <1>9 DEF RenameTmp
  <2>2. CASE op[c].do # "add"
    BY <1>3, <1>9, <2>1, <2>2 DEF RenameTmp, Acknowledge, history
  <2>3. CASE op[c].do = "add"
    <3>1. /\ seen' = [seen EXCEPT ![op[c].version] = @ \cup {op[c].artifact}]
          /\ op[c] \in Calls /\ op[c].version \in Versions
      BY <1>0, <1>9, <2>3, CallFields DEF RenameTmp, Acknowledge, Placed
    <3>2. /\ Edited(c) /\ indexFile' = Whole(mem[c])
      BY <1>0, <1>9 DEF RenameTmp, Edits
    <3>3. mem[c] = Added(indexFile.body, op[c].version, op[c].artifact, stamp[c])
      BY <2>3, <3>2 DEF Edited
    <3>4. ClaimIn(mem[c], op[c].version) = {op[c].artifact}
      BY <3>3 DEF Added, Insert, ClaimIn
    <3>5. ClaimIn(indexFile.body, op[c].version) \subseteq {op[c].artifact}
      BY <2>3, <3>2 DEF Edited, ClaimIn, Entries
    <3>6. indexFile'.body = mem[c]
      BY <3>2 DEF Whole
    <3>7. \A v \in Versions : ClaimIn(indexFile'.body, v) = ClaimIn(mem[c], v)
      BY <3>6
    <3>8. \A v \in Versions : seen'[v] \subseteq ClaimIn(indexFile'.body, v)
      <4> TAKE v \in Versions
      <4>1. CASE v = op[c].version
        BY <1>0, <3>1, <3>4, <3>5, <3>7, <4>1 DEF Remembered
      <4>2. CASE v # op[c].version
        BY <1>0, <3>1, <4>2, ClaimsStay DEF Remembered
      <4> QED
        BY <4>1, <4>2
    <3> QED
      BY <1>1, <2>1, <3>8 DEF Remembered
  <2> QED
    BY <2>2, <2>3
<1>10. CASE Resolve(c)
  <2>1. UNCHANGED <<indexFile, seen>>
    BY <1>10 DEF Resolve, indexFiles, history
  <2>2. CASE pc'[c] = "read_blob"
    <3>1. PICK v \in Matches(c) : found' = [found EXCEPT ![c] = <<v, Entries[v].hash>>]
      BY <1>4, <1>10, <2>2 DEF Resolve
    <3>2. v \in DOMAIN Entries
      BY DEF Matches, Newest
    <3>3. found'[c][2] \in ClaimIn(indexFile'.body, found'[c][1])
      <4>1. found'[c] = <<v, Entries[v].hash>>
        BY <1>0, <3>1
      <4>2. Entries[v].hash \in ClaimIn(indexFile'.body, v)
        BY <2>1, <3>2 DEF ClaimIn, Entries
      <4> QED
        BY <4>1, <4>2
    <3> QED
      BY <1>1, <1>2, <2>1, <3>3 DEF Remembered
  <2> QED
    BY <1>3, <2>1, <2>2
<1>11. CASE ReadBlob(c)
  <2>1. /\ pc[c] = "read_blob" /\ pc'[c] # "read_blob"
        /\ seen' = [seen EXCEPT ![found[c][1]] = @ \cup {found[c][2]}]
        /\ found[c][1] \in Versions
    BY <1>0, <1>4, <1>11 DEF ReadBlob, Placed
  <2>2. \A v \in Versions : seen'[v] \subseteq ClaimIn(indexFile.body, v)
    BY <1>0, <2>1 DEF Remembered
  <2>3. \A v \in Versions : seen'[v] \subseteq ClaimIn(indexFile'.body, v)
    BY <2>2, ClaimsStay
  <2> QED
    BY <1>1, <2>1, <2>3 DEF Remembered
<1> QED
  BY <1>5, <1>6, <1>7, <1>8, <1>9, <1>10, <1>11 DEF ClientStep, Advance

\* A version stands for one content for ever when every index.json there is is
\* found: whatever was acknowledged or loaded under it, by any process, over
\* any removals, failures and deaths, is the same content.
THEOREM VersionsAreImmutable == ASSUME ~StatFails PROVE Spec => []OneContent
<1>1. Init => Remembered
  BY DEF Init, Remembered
<1>2. Inv /\ Remembered /\ [Next]_vars => Remembered'
  <2> SUFFICES ASSUME Inv, Remembered, [Next]_vars PROVE Remembered'
    OBVIOUS
  <2>1. CASE Tick \/ UNCHANGED vars
    BY <2>1 DEF Remembered, Tick, vars, indexFiles, history, call, ClaimIn
  <2>2. ASSUME NEW c \in Clients, ClientStep(c) PROVE Remembered'
    BY <2>2, StepRemembers
  <2> QED
    BY <2>1, <2>2, NextSteps
<1>3. Remembered => OneContent
  BY DEF Remembered, OneContent, ClaimIn
<1> QED
  BY <1>1, <1>2, <1>3, InitInv, NextInv, PTL DEF Spec

-----------------------------------------------------------------------------
\* Whatever an index that a client is about to write names stands.
CopyWhole(c) ==
  pc[c] \in {"edit", "create", "fill", "rename"} =>
    \A v \in DOMAIN mem[c].entries : blobs[mem[c].entries[v].hash] = "whole"

\* No blob is torn, a temporary name is whole once its one writer has filled
\* it, and from then on the content of an add under way stands.
Written ==
  /\ \A a \in Artifacts : blobs[a] # "torn"
  /\ \A c \in Clients : pc[c] = "place_blob" => blobTmp[Mine(c)] = "whole"
  /\ \A c \in Clients : pc[c] \in {"stamp", "lock"} \cup Locked /\ op[c].do = "add" =>
       blobs[op[c].artifact] = "whole"
  /\ \A c \in Clients : CopyWhole(c)
  /\ BlobsWhole

\* Content that stands whole stays whole.
LEMMA WholeStays ==
  ASSUME Inv, Written, [Next]_vars, NEW a \in Artifacts, blobs[a] = "whole"
  PROVE blobs'[a] = "whole"
<1>0. TypeOK
  BY DEF Inv
<1>1. ASSUME NEW c \in Clients, PlaceBlob(c) PROVE blobs'[a] = "whole"
  BY <1>0, <1>1 DEF PlaceBlob, Written, TypeOK
<1>2. ASSUME NEW c \in Clients, ClientStep(c), ~PlaceBlob(c) PROVE UNCHANGED blobs
  BY <1>2 DEF ClientStep, Advance, Begin, Fails, Dies, MisreadFree, Inspect, CreateBlob, FillBlob,
     Stamp, Lock, ReadLocked, MisreadLocked, AddEntry, RemoveEntry, CreateTmp, FillTmp, RenameTmp,
     Resolve, ReadBlob, blobFiles
<1>3. CASE Tick \/ UNCHANGED vars
  BY <1>3 DEF Tick, vars, blobFiles
<1> QED
  BY <1>1, <1>2, <1>3, NextSteps

\* No blob comes to be torn.
LEMMA NoneTorn ==
  ASSUME Inv, Written, NEW c \in Clients, ClientStep(c)
  PROVE \A a \in Artifacts : blobs'[a] # "torn"
<1>0. TypeOK
  BY DEF Inv
<1>1. CASE PlaceBlob(c)
  BY <1>0, <1>1 DEF PlaceBlob, Written, TypeOK
<1>2. CASE ~PlaceBlob(c)
  <2>1. UNCHANGED blobs
    BY <1>2 DEF ClientStep, Advance, Begin, Fails, Dies, MisreadFree, Inspect, CreateBlob, FillBlob,
       Stamp, Lock, ReadLocked, MisreadLocked, AddEntry, RemoveEntry, CreateTmp, FillTmp, RenameTmp,
       Resolve, ReadBlob, blobFiles
  <2> QED
    BY <2>1 DEF Written
<1> QED
  BY <1>1, <1>2

\* No client writes under the temporary name of another.
LEMMA OthersTmp ==
  ASSUME Inv, NEW c \in Clients, ClientStep(c), NEW d \in Clients \ {c}, NEW a \in Artifacts
  PROVE blobTmp'[<<d, a>>] = blobTmp[<<d, a>>]
<1>0. TypeOK /\ Placed
  BY DEF Inv
<1>1. CASE CreateBlob(c) \/ FillBlob(c) \/ PlaceBlob(c)
  BY <1>0, <1>1, CallFields DEF CreateBlob, FillBlob, PlaceBlob, Mine, TmpName, TypeOK
<1>2. CASE ~(CreateBlob(c) \/ FillBlob(c) \/ PlaceBlob(c))
  BY <1>2 DEF ClientStep, Advance, Begin, Fails, Dies, MisreadFree, Inspect, Stamp, Lock,
     ReadLocked, MisreadLocked,
     AddEntry, RemoveEntry, CreateTmp, FillTmp, RenameTmp, Resolve, ReadBlob, blobFiles
<1> QED
  BY <1>1, <1>2

\* What the client's own place asks of the blob store.
LEMMA OwnBlobs ==
  ASSUME Inv, Written, NEW c \in Clients, ClientStep(c), [Next]_vars
  PROVE /\ pc'[c] = "place_blob" => (blobTmp[Mine(c)] = "whole")'
        /\ pc'[c] \in {"stamp", "lock"} \cup Locked /\ op'[c].do = "add" =>
             blobs'[op'[c].artifact] = "whole"
        /\ pc'[c] = "read_blob" => blobs'[found'[c][2]] = "whole"
<1> DEFINE Goal == /\ pc'[c] = "place_blob" => (blobTmp[Mine(c)] = "whole")'
                   /\ pc'[c] \in {"stamp", "lock"} \cup Locked /\ op'[c].do = "add" =>
                        blobs'[op'[c].artifact] = "whole"
                   /\ pc'[c] = "read_blob" => blobs'[found'[c][2]] = "whole"
<1>0. /\ TypeOK /\ Placed /\ pc \in [Clients -> Places]
      /\ op \in [Clients -> Calls \cup {NoCall}]
      /\ found \in [Clients -> (Versions \X Artifacts) \cup {NotFound}]
  BY DEF Inv, TypeOK
<1>1. ASSUME NEW result, Return(c, result) PROVE Goal
  BY <1>0, <1>1 DEF Return, Goto, Locked
<1>2. ASSUME pc[c] \in {"stamp", "lock"} \cup Locked,
             pc'[c] \in {"stamp", "lock"} \cup Locked, op' = op
      PROVE Goal
  <2>1. op[c].do = "add" => op[c].artifact \in Artifacts /\ blobs[op[c].artifact] = "whole"
    BY <1>0, <1>2, CallFields DEF Written, Placed, Locked
  <2> QED
    BY <1>2, <2>1, WholeStays DEF Locked
<1>3. CASE Fails(c) \/ Dies(c) \/ MisreadFree(c)
  BY <1>1, <1>3 DEF Fails, Dies, MisreadFree
<1>4. CASE \E r \in Requests : Begin(c, r)
  <2>1. PICK r \in Requests : Begin(c, r)
    BY <1>4
  <2>2. r \in Calls /\ r.do \in {"add", "rm", "load"}
    BY CallFields, RequestsAreCalls
  <2>3. /\ op'[c] = r
        /\ pc'[c] = IF r.do = "add" THEN "inspect" ELSE IF r.do = "rm" THEN "lock" ELSE "resolve"
    BY <1>0, <2>1, <2>2 DEF Begin, Goto
  <2> QED
    BY <2>2, <2>3 DEF Locked
<1>5. CASE Inspect(c)
  <2>1. CASE pc'[c] = "blob"
    BY <2>1 DEF Locked
  <2> QED
    BY <1>0, <1>1, <1>5, <2>1 DEF Inspect, Goto
<1>6. CASE CreateBlob(c)
  <2>1. CASE blobs[op[c].artifact] # "absent" /\ pc'[c] = "stamp"
    <3>1. op[c].artifact \in Artifacts /\ pc'[c] = "stamp" /\ op' = op
      BY <1>0, <1>6, <2>1, CallFields DEF CreateBlob, Placed, Goto, call
    <3>2. blobs[op[c].artifact] = "whole"
      BY <2>1, <3>1 DEF Written, Inv, TypeOK, States
    <3> QED
      BY <3>1, <3>2, WholeStays
  <2>2. CASE pc'[c] = "fill_blob"
    BY <2>2 DEF Locked
  <2> QED
    BY <1>0, <1>6, <2>1, <2>2 DEF CreateBlob, Exists, Goto
<1>7. CASE FillBlob(c)
  <2>1. op[c].artifact \in Artifacts /\ pc'[c] = "place_blob" /\ op' = op
    BY <1>0, <1>7, CallFields DEF FillBlob, Placed, Goto, call
  <2>2. blobTmp' = [blobTmp EXCEPT ![<<c, op[c].artifact>>] = "whole"]
    BY <1>7 DEF FillBlob, Mine, TmpName
  <2>3. <<c, op[c].artifact>> \in DOMAIN blobTmp
    BY <1>0, <2>1 DEF TypeOK
  <2>4. (blobTmp[Mine(c)] = "whole")'
    BY <2>1, <2>2, <2>3 DEF Mine, TmpName
  <2> QED
    BY <2>1, <2>4 DEF Locked
<1>8. CASE PlaceBlob(c)
  <2>1. op[c].artifact \in Artifacts /\ pc'[c] = "stamp" /\ op' = op
    BY <1>0, <1>8, CallFields DEF PlaceBlob, Placed, Goto, call
  <2>2. blobs'[op[c].artifact] = "whole"
    BY <1>0, <1>8, <2>1 DEF PlaceBlob, Written, TypeOK
  <2> QED
    BY <2>1, <2>2
<1>9. CASE Stamp(c) \/ Lock(c)
  BY <1>0, <1>2, <1>9 DEF Stamp, Lock, Goto, Locked, call
<1>10. CASE ReadLocked(c) \/ MisreadLocked(c) \/ AddEntry(c) \/ RemoveEntry(c)
  BY <1>0, <1>1, <1>2, <1>10 DEF ReadLocked, MisreadLocked, AddEntry, RemoveEntry, EditTo, Goto,
Locked
<1>11. CASE CreateTmp(c) \/ FillTmp(c)
  BY <1>0, <1>2, <1>11 DEF CreateTmp, FillTmp, Goto, Locked, call
<1>12. CASE RenameTmp(c) \/ ReadBlob(c)
  BY <1>1, <1>12 DEF RenameTmp, ReadBlob
<1>13. CASE Resolve(c)
  <2>1. CASE pc'[c] = "read_blob"
    <3>1. PICK v \in Matches(c) : found' = [found EXCEPT ![c] = <<v, Entries[v].hash>>]
      BY <1>0, <1>13, <2>1 DEF Resolve, Return, Goto
    <3>2. v \in DOMAIN Entries
      BY DEF Matches, Newest
    <3>3. blobs[Entries[v].hash] = "whole" /\ found'[c] = <<v, Entries[v].hash>>
      BY <1>0, <3>1, <3>2 DEF Written, BlobsWhole
    <3>4. UNCHANGED blobs
      BY <1>13 DEF Resolve, blobFiles
    <3> QED
      BY <2>1, <3>3, <3>4 DEF Locked
  <2> QED
    BY <1>0, <1>1, <1>13, <2>1 DEF Resolve, Goto
<1> QED
  BY <1>3, <1>4, <1>5, <1>6, <1>7, <1>8, <1>9, <1>10, <1>11, <1>12, <1>13
  DEF ClientStep, Advance

\* What a client reads, and what it adds, names content that stands.
LEMMA OwnCopy ==
  ASSUME Inv, Written, NEW c \in Clients, ClientStep(c)
  PROVE CopyWhole(c)'
<1>0. /\ TypeOK /\ Placed /\ pc \in [Clients -> Places] /\ mem \in [Clients -> Index]
      /\ CopyWhole(c)
  BY DEF Inv, TypeOK, Written
<1> SUFFICES ASSUME pc'[c] \in {"edit", "create", "fill", "rename"}
             PROVE  \A v \in DOMAIN mem'[c].entries : blobs'[mem'[c].entries[v].hash] = "whole"
  BY DEF CopyWhole
<1>1. ASSUME NEW result, Return(c, result) PROVE FALSE
  BY <1>0, <1>1 DEF Return, Goto
<1>2. ASSUME NEW r \in Requests, Begin(c, r) PROVE FALSE
  BY <1>0, <1>2, CallFields, RequestsAreCalls DEF Begin, Goto
<1>3. CASE Fails(c) \/ Dies(c) \/ MisreadFree(c) \/ RenameTmp(c)
  BY <1>1, <1>3 DEF Fails, Dies, MisreadFree, RenameTmp
<1>4. CASE Inspect(c) \/ CreateBlob(c) \/ FillBlob(c) \/ PlaceBlob(c) \/ Stamp(c) \/ Lock(c)
  BY <1>0, <1>1, <1>4
  DEF Inspect, CreateBlob, FillBlob, PlaceBlob, Stamp, Lock, Goto
<1>5. CASE ReadLocked(c)
  <2>1. mem'[c] = indexFile.body /\ UNCHANGED blobs
    BY <1>0, <1>1, <1>5 DEF ReadLocked, blobFiles
  <2> QED
    BY <2>1 DEF Written, BlobsWhole, Entries
<1>6. CASE MisreadLocked(c)
  BY <1>0, <1>6 DEF MisreadLocked, EmptyIndex, EmptyMap
<1>7. CASE AddEntry(c)
  <2>1. /\ mem'[c] = Added(mem[c], op[c].version, op[c].artifact, stamp[c])
        /\ pc[c] = "edit" /\ op[c].do = "add" /\ UNCHANGED blobs
    BY <1>0, <1>1, <1>7 DEF AddEntry, EditTo, Added, blobFiles
  <2>2. blobs[op[c].artifact] = "whole"
    BY <2>1 DEF Written, Locked
  <2> QED
    BY <1>0, <2>1, <2>2 DEF CopyWhole, Added, Insert
<1>8. CASE RemoveEntry(c)
  <2>1. /\ mem'[c] = Removed(mem[c], op[c].version)
        /\ pc[c] = "edit" /\ UNCHANGED blobs
    BY <1>0, <1>1, <1>8 DEF RemoveEntry, EditTo, Removed, blobFiles
  <2> QED
    BY <1>0, <2>1 DEF CopyWhole, Removed, Remove
<1>9. CASE CreateTmp(c) \/ FillTmp(c)
  BY <1>0, <1>9 DEF CreateTmp, FillTmp, CopyWhole, blobFiles, call
<1>10. CASE Resolve(c) \/ ReadBlob(c)
  BY <1>0, <1>1, <1>10 DEF Resolve, ReadBlob, Goto
<1> QED
  BY <1>2, <1>3, <1>4, <1>5, <1>6, <1>7, <1>8, <1>9, <1>10 DEF ClientStep, Advance

LEMMA StepWritten ==
  ASSUME Inv, Written, NEW c \in Clients, ClientStep(c), [Next]_vars
  PROVE Written'
<1>0. /\ TypeOK /\ Placed /\ indexFile.body \in Index
  BY DEF Inv, TypeOK, File
<1>1. ASSUME NEW d \in Clients \ {c}
      PROVE /\ pc'[d] = "place_blob" => (blobTmp[Mine(d)] = "whole")'
            /\ pc'[d] \in {"stamp", "lock"} \cup Locked /\ op'[d].do = "add" =>
                 blobs'[op'[d].artifact] = "whole"
            /\ pc'[d] = "read_blob" => blobs'[found'[d][2]] = "whole"
            /\ CopyWhole(d)'
  <2>1. pc'[d] = pc[d] /\ op'[d] = op[d] /\ found'[d] = found[d] /\ mem'[d] = mem[d]
    BY <1>0, OthersStay
  <2>2. pc[d] = "place_blob" => (blobTmp[Mine(d)] = "whole")'
    <3> SUFFICES ASSUME pc[d] = "place_blob" PROVE (blobTmp[Mine(d)] = "whole")'
      OBVIOUS
    <3>1. op[d].artifact \in Artifacts
      BY <1>0, CallFields DEF Placed
    <3>2. blobTmp[<<d, op[d].artifact>>] = "whole"
      BY DEF Written, Mine, TmpName
    <3>3. blobTmp'[<<d, op[d].artifact>>] = "whole"
      BY <3>1, <3>2, OthersTmp
    <3> QED
      BY <2>1, <3>3 DEF Mine, TmpName
  <2>3. pc[d] \in {"stamp", "lock"} \cup Locked /\ op[d].do = "add" =>
          blobs'[op[d].artifact] = "whole"
    BY <1>0, WholeStays, CallFields DEF Written, Placed, Locked
  <2>4. pc[d] = "read_blob" => blobs'[found[d][2]] = "whole"
    BY <1>0, WholeStays DEF Written, BlobsWhole, Placed
  <2>5. ASSUME pc[d] \in {"edit", "create", "fill", "rename"}, NEW v \in DOMAIN mem[d].entries
        PROVE blobs'[mem[d].entries[v].hash] = "whole"
    <3>1. mem[d].entries[v].hash \in Artifacts
      BY <1>0, EntryHasHash DEF TypeOK
    <3> QED
      BY <2>5, <3>1, WholeStays DEF Written, CopyWhole
  <2> QED
    BY <2>1, <2>2, <2>3, <2>4, <2>5 DEF CopyWhole
<1>2. \A v \in DOMAIN Entries' : blobs'[Entries'[v].hash] = "whole"
  <2>1. CASE UNCHANGED indexFile
    BY <1>0, <2>1, WholeStays, EntryHasHash DEF Written, BlobsWhole, Entries
  <2>2. ASSUME NEW d \in Clients, RenameTmp(d), indexFile'.body = mem[d]
        PROVE \A v \in DOMAIN Entries' : blobs'[Entries'[v].hash] = "whole"
    <3> SUFFICES ASSUME NEW v \in DOMAIN mem[d].entries
                 PROVE  blobs'[mem[d].entries[v].hash] = "whole"
      BY <2>2 DEF Entries
    <3>1. mem[d].entries[v].hash \in Artifacts
      BY <1>0, EntryHasHash DEF TypeOK
    <3>2. blobs[mem[d].entries[v].hash] = "whole"
      BY <2>2 DEF RenameTmp, Written, CopyWhole
    <3> QED
      BY <3>1, <3>2, WholeStays
  <2> QED
    BY <2>1, <2>2, IndexRenames
<1>3. BlobsWhole'
  BY <1>1, <1>2, OwnBlobs DEF BlobsWhole
<1>4. \A d \in Clients : CopyWhole(d)'
  BY <1>1, OwnCopy
<1> QED
  BY <1>1, <1>3, <1>4, OwnBlobs, NoneTorn DEF Written

\* Every content that an entry, or a client about to load one, refers to
\* stands whole in the blob store, whoever dies and whatever is removed.
THEOREM EntriesHaveBlobs == Spec => []BlobsWhole
<1>1. Init => Written
  BY DEF Init, Written, BlobsWhole, CopyWhole, Locked, Entries, Whole, EmptyIndex, EmptyMap
<1>2. Inv /\ Written /\ [Next]_vars => Written'
  <2> SUFFICES ASSUME Inv, Written, [Next]_vars PROVE Written'
    OBVIOUS
  <2>1. CASE Tick \/ UNCHANGED vars
    BY <2>1 DEF Written, BlobsWhole, CopyWhole, Mine, TmpName, Entries, Tick, vars, blobFiles,
       indexFiles, call
  <2>2. ASSUME NEW c \in Clients, ClientStep(c) PROVE Written'
    BY <2>2, StepWritten
  <2> QED
    BY <2>1, <2>2, NextSteps
<1>3. Written => BlobsWhole
  BY DEF Written
<1> QED
  BY <1>1, <1>2, <1>3, InitInv, NextInv, PTL DEF Spec

(***************************************************************************)
(* Nothing torn is ever read: the index by no reader and no writer, a blob *)
(* by no client that an entry sent there.                                  *)
(***************************************************************************)
THEOREM NothingTorn == Spec => []FilesWhole
<1>1. IndexWhole /\ BlobsWhole => FilesWhole
  BY DEF FilesWhole
<1> QED
  BY <1>1, NeverCorrupt, EntriesHaveBlobs, PTL

-----------------------------------------------------------------------------
(***************************************************************************)
(* An entry bears a second between the one its publication was begun in    *)
(* and the one it was answered in: the stamp of an add is taken during the *)
(* call and goes into the file with it, under the lock.                    *)
(***************************************************************************)
Stamped(c) == pc[c] \in {"lock"} \cup Locked /\ op[c].do = "add"

Timed ==
  /\ \A c \in Clients : began[c] <= clock
  /\ \A c \in Clients : Stamped(c) => began[c] <= stamp[c] /\ stamp[c] <= clock
  /\ \A v \in DOMAIN Entries : span[v][1] <= Entries[v].at /\ Entries[v].at <= span[v][2]

LEMMA ClockStays ==
  ASSUME NEW c \in Clients, ClientStep(c)
  PROVE clock' = clock
BY DEF ClientStep, Advance, Begin, Fails, Dies, MisreadFree, Inspect, CreateBlob, FillBlob,
   PlaceBlob,
   Stamp, Lock, ReadLocked, MisreadLocked, AddEntry, RemoveEntry, EditTo, CreateTmp, FillTmp,
   RenameTmp, Resolve, ReadBlob, Return

\* A client's own step keeps its stamp within its call.
LEMMA OwnTimes ==
  ASSUME Inv, Timed, NEW c \in Clients, ClientStep(c)
  PROVE began'[c] <= clock /\ (Stamped(c)' => began'[c] <= stamp'[c] /\ stamp'[c] <= clock)
<1> DEFINE Goal == /\ began'[c] <= clock
                   /\ Stamped(c)' => began'[c] <= stamp'[c] /\ stamp'[c] <= clock
<1>0. /\ TypeOK /\ Placed /\ pc \in [Clients -> Places] /\ clock \in Nat
      /\ op \in [Clients -> Calls \cup {NoCall}]
      /\ began \in [Clients -> Nat] /\ stamp \in [Clients -> Nat]
  BY DEF Inv, TypeOK
<1>1. began[c] <= clock /\ (Stamped(c) => began[c] <= stamp[c] /\ stamp[c] <= clock)
  BY DEF Timed
<1>2. ASSUME NEW result, Return(c, result) PROVE Goal
  BY <1>0, <1>2 DEF Return, Goto, Stamped, Locked
<1>3. ASSUME UNCHANGED <<op, began, stamp>>, Stamped(c)' => Stamped(c) PROVE Goal
  BY <1>1, <1>3
<1>4. CASE Fails(c) \/ Dies(c) \/ MisreadFree(c)
  BY <1>2, <1>4 DEF Fails, Dies, MisreadFree
<1>5. CASE \E r \in Requests : Begin(c, r)
  <2>1. PICK r \in Requests : Begin(c, r)
    BY <1>5
  <2>2. r \in Calls /\ r.do \in {"add", "rm", "load"}
    BY CallFields, RequestsAreCalls
  <2>3. /\ op'[c] = r /\ began'[c] = clock
        /\ pc'[c] = IF r.do = "add" THEN "inspect" ELSE IF r.do = "rm" THEN "lock" ELSE "resolve"
    BY <1>0, <2>1, <2>2 DEF Begin, Goto
  <2>4. ~Stamped(c)'
    BY <2>2, <2>3 DEF Stamped, Locked
  <2> QED
    BY <1>0, <2>3, <2>4
<1>6. CASE Inspect(c) \/ CreateBlob(c) \/ FillBlob(c) \/ PlaceBlob(c)
  <2>1. CASE UNCHANGED call /\ pc'[c] \in {"blob", "fill_blob", "place_blob", "stamp"}
    BY <1>3, <2>1 DEF Stamped, Locked, call
  <2> QED
    BY <1>0, <1>2, <1>6, <2>1 DEF Inspect, CreateBlob, FillBlob, PlaceBlob, Goto
<1>7. CASE Stamp(c)
  <2>1. stamp'[c] = clock /\ UNCHANGED <<op, began>>
    BY <1>0, <1>7 DEF Stamp
  <2> QED
    BY <1>0, <1>1, <2>1
<1>8. CASE Lock(c)
  BY <1>0, <1>3, <1>8 DEF Lock, Stamped, Locked, call
<1>9. CASE ReadLocked(c) \/ MisreadLocked(c) \/ AddEntry(c) \/ RemoveEntry(c)
  <2>1. CASE UNCHANGED <<op, began, stamp>> /\ pc[c] \in Locked
    BY <1>3, <2>1 DEF Stamped
  <2> QED
    BY <1>2, <1>9, <2>1 DEF ReadLocked, MisreadLocked, AddEntry, RemoveEntry, EditTo, Locked
<1>10. CASE CreateTmp(c) \/ FillTmp(c)
  BY <1>3, <1>10 DEF CreateTmp, FillTmp, Stamped, Locked, call
<1>11. CASE RenameTmp(c) \/ ReadBlob(c)
  BY <1>2, <1>11 DEF RenameTmp, ReadBlob
<1>12. CASE Resolve(c)
  <2>1. CASE UNCHANGED <<op, began, stamp>> /\ pc'[c] = "read_blob"
    BY <1>3, <2>1 DEF Stamped, Locked
  <2> QED
    BY <1>0, <1>2, <1>12, <2>1 DEF Resolve, Goto
<1> QED
  BY <1>4, <1>5, <1>6, <1>7, <1>8, <1>9, <1>10, <1>11, <1>12 DEF ClientStep, Advance

\* A rename puts the stamp and the times of the call in place together.
LEMMA EntriesTimed ==
  ASSUME Inv, Timed, [Next]_vars, ~StatFails
  PROVE \A v \in DOMAIN Entries' :
          span'[v][1] <= Entries'[v].at /\ Entries'[v].at <= span'[v][2]
<1>0. TypeOK /\ Placed /\ Edits
  BY DEF Inv
<1>1. ASSUME NEW c \in Clients, RenameTmp(c)
      PROVE \A v \in DOMAIN Entries' :
              span'[v][1] <= Entries'[v].at /\ Entries'[v].at <= span'[v][2]
  <2>1. /\ Edited(c) /\ indexFile' = Whole(mem[c]) /\ op[c].do \in {"add", "rm"}
        /\ op[c].version \in Versions
    BY <1>0, <1>1, CallFields DEF RenameTmp, Edits, Placed, Locked
  <2>2. Entries' = mem[c].entries
    BY <2>1 DEF Entries, Whole
  <2>3. CASE op[c].do = "add"
    <3>1. span' = [span EXCEPT ![op[c].version] = <<began[c], clock>>]
      BY <1>1, <2>3 DEF RenameTmp, Acknowledge
    <3>2. span'[op[c].version] = <<began[c], clock>>
          /\ \A v \in Versions : v # op[c].version => span'[v] = span[v]
      BY <1>0, <2>1, <3>1 DEF TypeOK
    <3>3. Entries' = Insert(Entries, op[c].version, [hash |-> op[c].artifact, at |-> stamp[c]])
      BY <2>1, <2>2, <2>3 DEF Edited, Added, Entries
    <3>4. began[c] <= stamp[c] /\ stamp[c] <= clock
      BY <1>1, <2>3 DEF Timed, Stamped, RenameTmp, Locked
    <3>5. DOMAIN Entries \subseteq Versions
      BY <1>0, EntryHasHash DEF TypeOK, File, Entries
    <3> QED
      BY <3>2, <3>3, <3>4, <3>5 DEF Timed, Insert
  <2>4. CASE op[c].do = "rm"
    <3>1. span' = span
      BY <1>1, <2>4 DEF RenameTmp, Acknowledge, history
    <3>2. Entries' = Remove(Entries, op[c].version)
      BY <2>1, <2>2, <2>4 DEF Edited, Removed, Entries
    <3> QED
      BY <3>1, <3>2 DEF Timed, Remove
  <2> QED
    BY <2>1, <2>3, <2>4
<1>2. ASSUME NEW c \in Clients, ClientStep(c), ~RenameTmp(c)
      PROVE UNCHANGED <<indexFile, span>>
  BY <1>2 DEF ClientStep, Advance, Begin, Fails, Dies, MisreadFree, Inspect, CreateBlob, FillBlob,
     PlaceBlob, Stamp, Lock, ReadLocked, MisreadLocked, AddEntry, RemoveEntry, CreateTmp, FillTmp,
     Resolve, ReadBlob, indexFiles, history
<1>3. CASE Tick \/ UNCHANGED vars
  BY <1>3 DEF Tick, vars, indexFiles, history, Timed, Entries
<1>4. UNCHANGED <<indexFile, span>> => \A v \in DOMAIN Entries' :
        span'[v][1] <= Entries'[v].at /\ Entries'[v].at <= span'[v][2]
  BY DEF Timed, Entries
<1> QED
  BY <1>1, <1>2, <1>3, <1>4, NextSteps

LEMMA StepTimed ==
  ASSUME Inv, Timed, [Next]_vars, ~StatFails, SteadyClock
  PROVE Timed'
<1>0. TypeOK /\ clock \in Nat /\ began \in [Clients -> Nat] /\ stamp \in [Clients -> Nat]
  BY DEF Inv, TypeOK
<1>1. CASE Tick \/ UNCHANGED vars
  <2>1. UNCHANGED <<pc, op, began, stamp>> /\ (clock' = clock \/ clock' = clock + 1)
    BY <1>1 DEF Tick, vars, call
  <2>2. \A c \in Clients : began'[c] <= clock'
    BY <1>0, <2>1 DEF Timed
  <2>3. \A c \in Clients : Stamped(c)' => began'[c] <= stamp'[c] /\ stamp'[c] <= clock'
    BY <1>0, <2>1 DEF Timed, Stamped
  <2> QED
    BY <2>2, <2>3, EntriesTimed DEF Timed
<1>2. ASSUME NEW c \in Clients, ClientStep(c) PROVE Timed'
  <2>1. clock' = clock
    BY <1>2, ClockStays
  <2>2. ASSUME NEW d \in Clients \ {c}
        PROVE began'[d] <= clock' /\ (Stamped(d)' => began'[d] <= stamp'[d] /\ stamp'[d] <= clock')
    <3>1. pc'[d] = pc[d] /\ op'[d] = op[d] /\ began'[d] = began[d] /\ stamp'[d] = stamp[d]
      BY <1>0, <1>2, OthersStay
    <3> QED
      BY <2>1, <3>1 DEF Timed, Stamped
  <2>3. began'[c] <= clock' /\ (Stamped(c)' => began'[c] <= stamp'[c] /\ stamp'[c] <= clock')
    BY <1>2, <2>1, OwnTimes
  <2> QED
    BY <2>2, <2>3, EntriesTimed DEF Timed
<1> QED
  BY <1>1, <1>2, NextSteps

\* Whoever resolves an unqualified name finds an entry with the last stamp.
LEMMA ResolvedNewest ==
  ASSUME Inv, Timed, [Next]_vars, NEW c \in Clients,
         pc[c] = "resolve", op[c].version = Latest, pc'[c] = "read_blob"
  PROVE \A w \in DOMAIN Entries : span[w][1] <= span[found'[c][1]][2]
<1>0. /\ TypeOK /\ pc \in [Clients -> Places]
      /\ found \in [Clients -> (Versions \X Artifacts) \cup {NotFound}]
      /\ indexFile.body \in Index /\ span \in [Versions -> Nat \X Nat]
  BY DEF Inv, TypeOK, File
<1>1. Resolve(c)
  <2>1. ASSUME NEW d \in Clients, ClientStep(d), d # c PROVE FALSE
    BY <1>0, <2>1, OthersStay
  <2>2. CASE Tick \/ UNCHANGED vars
    BY <2>2 DEF Tick, vars
  <2>3. CASE ClientStep(c)
    <3>1. ASSUME NEW result, Return(c, result) PROVE FALSE
      BY <1>0, <3>1 DEF Return, Goto
    <3> QED
      BY <2>3, <3>1 DEF ClientStep, Advance, Begin, Fails, Dies, MisreadFree, Inspect, CreateBlob,
        FillBlob,
        PlaceBlob, Stamp, Lock, ReadLocked, MisreadLocked, AddEntry, RemoveEntry, CreateTmp,
        FillTmp, RenameTmp, ReadBlob
  <2> QED
    BY <2>1, <2>2, <2>3, NextSteps
<1>2. PICK v \in Newest : found' = [found EXCEPT ![c] = <<v, Entries[v].hash>>]
  BY <1>0, <1>1 DEF Resolve, Return, Goto, Matches
<1>3. found'[c][1] = v
  BY <1>0, <1>2
<1>4. v \in DOMAIN Entries /\ \A w \in DOMAIN Entries : Entries[w].at <= Entries[v].at
  <2>1. v \in DOMAIN Entries /\ \A w \in DOMAIN Entries : Entries[w].at \in Nat
    BY <1>0, EntryHasHash DEF Newest, Entries, Entry
  <2> QED
    BY <2>1 DEF Newest
<1>5. ASSUME NEW w \in DOMAIN Entries PROVE span[w][1] <= span[v][2]
  <2>1. span[w][1] <= Entries[w].at /\ Entries[w].at <= Entries[v].at /\ Entries[v].at <= span[v][2]
    BY <1>4 DEF Timed
  <2>2. w \in Versions /\ v \in Versions /\ Entries[w] \in Entry /\ Entries[v] \in Entry
    BY <1>0, <1>4, EntryHasHash DEF Entries
  <2>3. /\ span[w][1] \in Nat /\ span[v][2] \in Nat
        /\ Entries[w].at \in Nat /\ Entries[v].at \in Nat
    BY <1>0, <2>2 DEF Entry
  <2> QED
    BY <2>1, <2>3
<1> QED
  BY <1>3, <1>5

(***************************************************************************)
(* When the clock never steps back and every index.json there is is found, *)
(* an unqualified name never resolves to a version answered in an earlier  *)
(* second than the one another visible version was begun in, whatever      *)
(* races and fails: created_at is read once per add, within the call.      *)
(***************************************************************************)
THEOREM LatestResolvesRecent ==
  ASSUME SteadyClock, ~StatFails
  PROVE Spec => LatestIsRecent
<1>1. Init => Timed
  BY DEF Init, Timed, Stamped, Locked, Entries, Whole, EmptyIndex, EmptyMap
<1>2. Inv /\ Timed /\ [Next]_vars =>
        [\A c \in Clients :
           (pc[c] = "resolve" /\ op[c].version = Latest /\ pc'[c] = "read_blob") =>
             \A w \in DOMAIN Entries : span[w][1] <= span[found'[c][1]][2]]_vars
  BY ResolvedNewest
<1>3. Inv /\ Timed /\ [Next]_vars => Timed'
  BY StepTimed
<1> QED
  BY <1>1, <1>2, <1>3, InitInv, NextInv, PTL DEF Spec, LatestIsRecent
=============================================================================
