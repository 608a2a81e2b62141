------------------------------- MODULE Catalog -------------------------------
(***************************************************************************)
(* The block catalog on disk, shared by every `cuttlefish` process and by  *)
(* the daemon: `index.json`, changed under an advisory lock by writing     *)
(* `index.json.tmp` and renaming it, and read without the lock; and        *)
(* `blobs/`, one file per content hash, written beside its place and       *)
(* renamed.  A step is one file operation; a process may fail at any of    *)
(* them or die between two.  The hash of a content is the content itself.  *)
(* The versions are those of one name, in the order of their strings.      *)
(***************************************************************************)
EXTENDS Naturals

CONSTANTS
  Clients,      \* processes that use the catalog
  Versions,     \* name@version strings, numbered in their order
  Artifacts,    \* contents of artifact files
  Malformed,    \* those that are no artifact or whose signature is unreadable
  Nobody,       \* no client
  Requests,     \* the calls clients make
  MaxCalls,     \* bound: calls made in all
  MaxFaults,    \* bound: failures and deaths
  MaxClock,     \* bound: seconds that pass
  StatFails,    \* whether a stat may fail
  SteadyClock   \* whether the wall clock never steps back

ASSUME VersionsAreNumbers == Versions \subseteq Nat \ {0}
ASSUME NobodyIsNoClient == Nobody \notin Clients
ASSUME SettingsAreBooleans == StatFails \in BOOLEAN /\ SteadyClock \in BOOLEAN
ASSUME MalformedAreArtifacts == Malformed \subseteq Artifacts

VARIABLES
  indexFile,   \* index.json
  indexTmp,    \* index.json.tmp
  blobs,       \* what stands under each hash in blobs/
  blobTmp,     \* and under each temporary name
  lock,        \* who holds index.json.lock
  clock,       \* now_rfc3339, in whole seconds
  pc,          \* where each client is
  op,          \* the call it is making
  began,       \* when that call began
  mem,         \* the index it has read, and changed
  stamp,       \* created_at of the entry it adds
  found,       \* the version and content its name resolved to
  answer,      \* what its last call returned
  calls,       \* how many calls have been made
  faults,      \* how many failed or died
  seen,        \* history: contents acknowledged or loaded under each version
  span         \* history: when its last publication began and was answered

blobFiles == <<blobs, blobTmp>>
indexFiles == <<indexFile, indexTmp>>
call == <<op, began, mem, stamp, found>>
counts == <<calls, faults>>
history == <<seen, span>>
vars == <<blobFiles, indexFiles, lock, clock, pc, call, answer, counts, history>>

Entry == [hash : Artifacts, at : Nat]

\* IndexFile: the entries, and the content each removed version had.
Index ==
  [entries : UNION {[vs -> Entry] : vs \in SUBSET Versions},
   retired : UNION {[vs -> Artifacts] : vs \in SUBSET Versions}]

EmptyMap == [v \in {} |-> v]
EmptyIndex == [entries |-> EmptyMap, retired |-> EmptyMap]

\* A file cut short does not parse.  A missing index.json reads as empty.
File == [whole : BOOLEAN, body : Index]
Whole(index) == [whole |-> TRUE, body |-> index]
Torn == [whole |-> FALSE, body |-> EmptyIndex]

Insert(map, k, value) ==
  [x \in DOMAIN map \cup {k} |-> IF x = k THEN value ELSE map[x]]
Remove(map, k) == [x \in DOMAIN map \ {k} |-> map[x]]

\* An unqualified name is version 0; Durable forbids it.
Latest == 0

NoCall == [do |-> "none"]
Calls ==
  [do : {"add"}, version : Versions, artifact : Artifacts]
    \cup [do : {"rm"}, version : Versions]
    \cup [do : {"load"}, version : Versions \cup {Latest}, durable : BOOLEAN]

ASSUME BoundsAreNatural == MaxCalls \in Nat /\ MaxFaults \in Nat /\ MaxClock \in Nat
ASSUME RequestsAreCalls == Requests \subseteq Calls

Places == {"idle", "inspect", "blob", "fill_blob", "place_blob", "stamp", "lock",
           "read", "edit", "create", "fill", "rename", "resolve", "read_blob"}

\* Inside with_locked_index, past the lock.
Locked == {"read", "edit", "create", "fill", "rename"}

Answers == {"none", "added", "removed", "loaded", "exists", "retired", "refused",
            "not_found", "corrupt_index", "no_blob", "io_error", "died"}

NotFound == <<>>
States == {"absent", "torn", "whole"}

TypeOK ==
  /\ indexFile \in File /\ indexTmp \in File
  /\ blobs \in [Artifacts -> States]
  /\ blobTmp \in [Clients \X Artifacts -> States]
  /\ lock \in Clients \cup {Nobody}
  /\ clock \in Nat
  /\ pc \in [Clients -> Places]
  /\ op \in [Clients -> Calls \cup {NoCall}]
  /\ began \in [Clients -> Nat]
  /\ mem \in [Clients -> Index]
  /\ stamp \in [Clients -> Nat]
  /\ found \in [Clients -> (Versions \X Artifacts) \cup {NotFound}]
  /\ answer \in [Clients -> Answers]
  /\ calls \in 0..MaxCalls
  /\ faults \in 0..MaxFaults
  /\ seen \in [Versions -> SUBSET Artifacts]
  /\ span \in [Versions -> Nat \X Nat]

-----------------------------------------------------------------------------
Init ==
  /\ indexFile = Whole(EmptyIndex) /\ indexTmp = Torn
  /\ blobs = [a \in Artifacts |-> "absent"]
  /\ blobTmp = [t \in Clients \X Artifacts |-> "absent"]
  /\ lock = Nobody
  /\ clock = 0
  /\ pc = [c \in Clients |-> "idle"]
  /\ op = [c \in Clients |-> NoCall]
  /\ began = [c \in Clients |-> 0]
  /\ mem = [c \in Clients |-> EmptyIndex]
  /\ stamp = [c \in Clients |-> 0]
  /\ found = [c \in Clients |-> NotFound]
  /\ answer = [c \in Clients |-> "none"]
  /\ calls = 0
  /\ faults = 0
  /\ seen = [v \in Versions |-> {}]
  /\ span = [v \in Versions |-> <<0, 0>>]

Goto(c, place) == pc' = [pc EXCEPT ![c] = place]

\* A mutant of Released: an unlock that an early return passes by.
ReleasedAtEnd(c) == IF lock = c /\ pc[c] = "rename" THEN Nobody ELSE lock

\* The lock is tied to the open file: it goes on every path.
Released(c) == IF lock = c THEN Nobody ELSE lock

\* The call returns, or its process dies.
Return(c, result) ==
  /\ Goto(c, "idle")
  /\ op' = [op EXCEPT ![c] = NoCall]
  /\ began' = [began EXCEPT ![c] = 0]
  /\ mem' = [mem EXCEPT ![c] = EmptyIndex]
  /\ stamp' = [stamp EXCEPT ![c] = 0]
  /\ found' = [found EXCEPT ![c] = NotFound]
  /\ answer' = [answer EXCEPT ![c] = result]
  /\ lock' = Released(c)
  /\ faults' = IF result \in {"io_error", "died"} THEN faults + 1 ELSE faults
  /\ UNCHANGED <<clock, calls>>

Begin(c, request) ==
  /\ pc[c] = "idle" /\ calls < MaxCalls
  /\ op' = [op EXCEPT ![c] = request]
  /\ began' = [began EXCEPT ![c] = clock]
  /\ calls' = calls + 1
  /\ answer' = [answer EXCEPT ![c] = "none"]
  /\ Goto(c, CASE request.do = "add" -> "inspect"
               [] request.do = "rm" -> "lock"
               [] request.do = "load" -> "resolve")
  /\ UNCHANGED <<blobFiles, indexFiles, lock, clock, mem, stamp, found, faults, history>>

-----------------------------------------------------------------------------
\* add, before the lock: the artifact is recognised by its magic bytes and
\* its signature is read, or the call is refused with nothing written.
Inspect(c) ==
  /\ pc[c] = "inspect"
  /\ IF op[c].artifact \in Malformed
     THEN Return(c, "refused")
     ELSE Goto(c, "blob") /\ UNCHANGED <<lock, clock, call, answer, counts>>
  /\ UNCHANGED <<blobFiles, indexFiles, history>>

\* A mutant of TmpName: the temporary name is derived from the hash alone.
TmpShared(c, a) == <<CHOOSE first \in Clients : TRUE, a>>

\* {hex}.tmp.{process}.{counter}: a name no other call uses.
TmpName(c, a) == <<c, a>>

Mine(c) == TmpName(c, op[c].artifact)

\* Path::exists: a stat that fails finds nothing.
Exists(there) == IF StatFails THEN {there, FALSE} ELSE {there}

\* write_blob: content found in its place is not written again.
CreateBlob(c) ==
  /\ pc[c] = "blob"
  /\ \E exists \in Exists(blobs[op[c].artifact] # "absent") :
       IF exists
       THEN Goto(c, "stamp") /\ UNCHANGED blobTmp
       ELSE /\ Goto(c, "fill_blob")
            /\ blobTmp' = [blobTmp EXCEPT ![Mine(c)] = "torn"]
  /\ UNCHANGED <<blobs, indexFiles, lock, clock, call, answer, counts, history>>

FillBlob(c) ==
  /\ pc[c] = "fill_blob"
  /\ Goto(c, "place_blob")
  /\ blobTmp' = [blobTmp EXCEPT ![Mine(c)] = "whole"]
  /\ UNCHANGED <<blobs, indexFiles, lock, clock, call, answer, counts, history>>

PlaceBlob(c) ==
  /\ pc[c] = "place_blob" /\ blobTmp[Mine(c)] # "absent"
  /\ Goto(c, "stamp")
  /\ blobs' = [blobs EXCEPT ![op[c].artifact] = blobTmp[Mine(c)]]
  /\ blobTmp' = [blobTmp EXCEPT ![Mine(c)] = "absent"]
  /\ UNCHANGED <<indexFiles, lock, clock, call, answer, counts, history>>

\* created_at is taken before the lock is asked for.
Stamp(c) ==
  /\ pc[c] = "stamp"
  /\ Goto(c, "lock")
  /\ stamp' = [stamp EXCEPT ![c] = clock]
  /\ UNCHANGED <<blobFiles, indexFiles, lock, clock, op, began, mem, found, answer,
                 counts, history>>

-----------------------------------------------------------------------------
\* with_locked_index, used by add and rm.
Lock(c) ==
  /\ pc[c] = "lock" /\ lock = Nobody
  /\ lock' = c
  /\ Goto(c, "read")
  /\ UNCHANGED <<blobFiles, indexFiles, clock, call, answer, counts, history>>

ReadLocked(c) ==
  /\ pc[c] = "read"
  /\ IF indexFile.whole
     THEN /\ mem' = [mem EXCEPT ![c] = indexFile.body]
          /\ Goto(c, "edit")
          /\ UNCHANGED <<lock, clock, op, began, stamp, found, answer, counts>>
     ELSE Return(c, "corrupt_index")
  /\ UNCHANGED <<blobFiles, indexFiles, history>>

\* read_index: an index.json that is not found is an empty index.
MisreadLocked(c) ==
  /\ pc[c] = "read" /\ StatFails /\ faults < MaxFaults
  /\ mem' = [mem EXCEPT ![c] = EmptyIndex]
  /\ Goto(c, "edit")
  /\ faults' = faults + 1
  /\ UNCHANGED <<blobFiles, indexFiles, lock, clock, op, began, stamp, found, answer,
                 calls, history>>

\* read_index, under the lock.
ReadIndex(c) ==
  \E exists \in Exists(TRUE) : IF exists THEN ReadLocked(c) ELSE MisreadLocked(c)

EditTo(c, index) ==
  /\ mem' = [mem EXCEPT ![c] = index]
  /\ Goto(c, "create")
  /\ UNCHANGED <<lock, clock, op, began, stamp, found, answer, counts>>

\* A mutant of Claimed: a removed version is free again.
ClaimForgotten(c) == FALSE

\* A removed version keeps its claim on the identity.
Claimed(c) ==
  /\ op[c].version \in DOMAIN mem[c].retired
  /\ mem[c].retired[op[c].version] # op[c].artifact

\* A mutant of AddEntry: no look at the entries already there.
AddOver(c) ==
  /\ pc[c] = "edit" /\ op[c].do = "add"
  /\ EditTo(c, [entries |-> Insert(mem[c].entries, op[c].version,
                                    [hash |-> op[c].artifact, at |-> stamp[c]]),
                 retired |-> Remove(mem[c].retired, op[c].version)])
  /\ UNCHANGED <<blobFiles, indexFiles, history>>

AddEntry(c) ==
  /\ pc[c] = "edit" /\ op[c].do = "add"
  /\ IF op[c].version \in DOMAIN mem[c].entries THEN Return(c, "exists")
     ELSE IF Claimed(c) THEN Return(c, "retired")
     ELSE EditTo(c, [entries |-> Insert(mem[c].entries, op[c].version,
                                        [hash |-> op[c].artifact, at |-> stamp[c]]),
                     retired |-> Remove(mem[c].retired, op[c].version)])
  /\ UNCHANGED <<blobFiles, indexFiles, history>>

\* A mutant of RemoveEntry: the removed version is not recorded as retired.
RemoveOnly(c) ==
  /\ pc[c] = "edit" /\ op[c].do = "rm"
  /\ IF op[c].version \notin DOMAIN mem[c].entries THEN Return(c, "not_found")
     ELSE EditTo(c, [mem[c] EXCEPT !.entries = Remove(@, op[c].version)])
  /\ UNCHANGED <<blobFiles, indexFiles, history>>

RemoveEntry(c) ==
  /\ pc[c] = "edit" /\ op[c].do = "rm"
  /\ IF op[c].version \notin DOMAIN mem[c].entries THEN Return(c, "not_found")
     ELSE EditTo(c, [entries |-> Remove(mem[c].entries, op[c].version),
                     retired |-> Insert(mem[c].retired, op[c].version,
                                        mem[c].entries[op[c].version].hash)])
  /\ UNCHANGED <<blobFiles, indexFiles, history>>

\* A mutant of CreateTmp: the index is written in place.
CreateInPlace(c) ==
  /\ pc[c] = "create"
  /\ Goto(c, "fill")
  /\ indexFile' = Torn
  /\ UNCHANGED <<blobFiles, indexTmp, lock, clock, call, answer, counts, history>>

CreateTmp(c) ==
  /\ pc[c] = "create"
  /\ Goto(c, "fill")
  /\ indexTmp' = Torn
  /\ UNCHANGED <<blobFiles, indexFile, lock, clock, call, answer, counts, history>>

FillTmp(c) ==
  /\ pc[c] = "fill"
  /\ Goto(c, "rename")
  /\ indexTmp' = Whole(mem[c])
  /\ UNCHANGED <<blobFiles, indexFile, lock, clock, call, answer, counts, history>>

Acknowledge(c) ==
  IF op[c].do = "add"
  THEN /\ seen' = [seen EXCEPT ![op[c].version] = @ \cup {op[c].artifact}]
       /\ span' = [span EXCEPT ![op[c].version] = <<began[c], clock>>]
  ELSE UNCHANGED history

RenameTmp(c) ==
  /\ pc[c] = "rename"
  /\ indexFile' = indexTmp
  /\ indexTmp' = Torn
  /\ Return(c, IF op[c].do = "add" THEN "added" ELSE "removed")
  /\ Acknowledge(c)
  /\ UNCHANGED blobFiles

-----------------------------------------------------------------------------
Entries == indexFile.body.entries

\* A mutant of Newest: the first of the sorted versions.
Oldest ==
  {v \in DOMAIN Entries :
     \A w \in DOMAIN Entries \ {v} :
       \/ Entries[v].at < Entries[w].at
       \/ Entries[w].at = Entries[v].at /\ v < w}

\* The last version of a stable sort by created_at, if there is any.
Newest ==
  {v \in DOMAIN Entries :
     \A w \in DOMAIN Entries \ {v} :
       \/ Entries[w].at < Entries[v].at
       \/ Entries[w].at = Entries[v].at /\ w < v}

Matches(c) ==
  IF op[c].version = Latest THEN Newest ELSE {op[c].version} \cap DOMAIN Entries

\* resolve: the index is read without the lock.
Resolve(c) ==
  /\ pc[c] = "resolve"
  /\ IF ~indexFile.whole THEN Return(c, "corrupt_index")
     ELSE IF op[c].version = Latest /\ op[c].durable THEN Return(c, "refused")
     ELSE IF Matches(c) = {} THEN Return(c, "not_found")
     ELSE \E v \in Matches(c) :
            /\ found' = [found EXCEPT ![c] = <<v, Entries[v].hash>>]
            /\ Goto(c, "read_blob")
            /\ UNCHANGED <<lock, clock, op, began, mem, stamp, answer, counts>>
  /\ UNCHANGED <<blobFiles, indexFiles, history>>

\* The same without the lock: no name resolves in an empty index.
MisreadFree(c) ==
  /\ pc[c] = "resolve" /\ StatFails
  /\ Return(c, IF op[c].version = Latest /\ op[c].durable THEN "refused" ELSE "not_found")
  /\ UNCHANGED <<blobFiles, indexFiles, history>>

\* resolve reads the index without the lock.
LookUp(c) ==
  \E exists \in Exists(TRUE) : IF exists THEN Resolve(c) ELSE MisreadFree(c)

\* read_blob: what the resolved entry names, whatever the index says by now.
ReadBlob(c) ==
  /\ pc[c] = "read_blob"
  /\ seen' = [seen EXCEPT ![found[c][1]] = @ \cup {found[c][2]}]
  /\ Return(c, IF blobs[found[c][2]] = "absent" THEN "no_blob" ELSE "loaded")
  /\ UNCHANGED <<blobFiles, indexFiles, span>>

-----------------------------------------------------------------------------
\* A file operation fails, or the process dies: the same files are left.
Fails(c) ==
  /\ pc[c] \notin {"idle", "stamp", "edit"} /\ faults < MaxFaults
  /\ Return(c, "io_error")
  /\ UNCHANGED <<blobFiles, indexFiles, history>>

Dies(c) ==
  /\ pc[c] # "idle" /\ faults < MaxFaults
  /\ Return(c, "died")
  /\ UNCHANGED <<blobFiles, indexFiles, history>>

\* A second passes, or the wall clock is set.
Tick ==
  /\ clock' \in 0..MaxClock
  /\ SteadyClock => clock' = clock + 1
  /\ UNCHANGED <<blobFiles, indexFiles, lock, pc, call, answer, counts, history>>

Proceed(c) ==
  \/ Inspect(c) \/ CreateBlob(c) \/ FillBlob(c) \/ PlaceBlob(c) \/ Stamp(c)
  \/ Lock(c) \/ ReadIndex(c) \/ AddEntry(c) \/ RemoveEntry(c)
  \/ CreateTmp(c) \/ FillTmp(c) \/ RenameTmp(c)
  \/ LookUp(c) \/ ReadBlob(c)

Next ==
  \/ Tick
  \/ \E c \in Clients :
       \/ Proceed(c) \/ Fails(c) \/ Dies(c)
       \/ \E request \in Requests : Begin(c, request)

Spec == Init /\ [][Next]_vars

\* A call under way goes on until it returns.
FairSpec == Spec /\ \A c \in Clients : WF_vars(Proceed(c))

-----------------------------------------------------------------------------
\* A version stands for one content for ever: all that was ever acknowledged
\* or loaded under it, by any process and over any removals, is the same
\* (entries and retired, catalog.rs 73-80 and 817-832).
OneContent ==
  \A v \in Versions : \A a, b \in seen[v] : a = b

\* The index on disk is always whole: no reader and no writer is ever told
\* CorruptIndex, wherever a process died (with_locked_index, catalog.rs 457-495).
IndexWhole ==
  \A c \in Clients : answer[c] # "corrupt_index"

\* Every content that an entry, or a client that has resolved one, refers to
\* stands whole in the blob store, though entries are removed meanwhile
\* (write_blob before the index; rm keeps the blob).
BlobsWhole ==
  /\ \A v \in DOMAIN Entries : blobs[Entries[v].hash] = "whole"
  /\ \A c \in Clients : pc[c] = "read_blob" => blobs[found[c][2]] = "whole"

\* Whatever may be read from the catalog's directory is there and whole,
\* wherever a writer died.
FilesWhole == IndexWhole /\ BlobsWhole

\* An unqualified name never resolves to a version that was answered in an
\* earlier second than the one another visible version was begun in.
LatestIsRecent ==
  [][\A c \in Clients :
       (pc[c] = "resolve" /\ op[c].version = Latest /\ pc'[c] = "read_blob") =>
         \A w \in DOMAIN Entries : span[w][1] <= span[found'[c][1]][2]]_vars

\* Every call returns, or its process dies: no path leaves the lock held.
Answered ==
  \A c \in Clients : pc[c] # "idle" ~> pc[c] = "idle"

\* The index file implements the registry: every change of it, whoever makes
\* it and whatever fails, publishes or retires one version at once.
Promise == INSTANCE Registry WITH
  live <- DOMAIN Entries,
  claim <- [v \in Versions |->
              IF v \in DOMAIN Entries THEN {Entries[v].hash}
              ELSE IF v \in DOMAIN indexFile.body.retired
                   THEN {indexFile.body.retired[v]} ELSE {}]

KeepsPromise == Promise!Spec
=============================================================================
