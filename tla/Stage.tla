-------------------------------- MODULE Stage --------------------------------
(***************************************************************************)
(* The stages of one run of a job (run_stage): a block issues commands and *)
(* the host carries them out, one at a time, on files that others may      *)
(* replace meanwhile.  Handles live as long as the run of the job, what is *)
(* known of documents as long as the stage, and downloads as long as the   *)
(* job's directory, which a death of the daemon leaves behind.             *)
(***************************************************************************)
EXTENDS Naturals, Sequences, FiniteSetsExt, SequencesExt, Protocol

CONSTANTS
  Files,        \* local paths under a read root
  Urls,         \* resources under a granted prefix
  Elsewhere,    \* a path and a resource the job may not reach
  Versions,     \* what a file may hold: a number, zero for no file
  Malformed,    \* the versions no text can be extracted from
  Segments,     \* the text segments of each version
  Widths,       \* the characters of a file, as their widths in bytes; zero
                \* is a byte that starts no character
  Lengths,      \* the lengths of windows a block asks for
  Embeds,       \* the spec declares an embedding model
  Sees,         \* the backend takes images
  MaxHandles    \* bound: handles of one run

ASSUME StageAssumption ==
  /\ Files \cap (Urls \cup {"memory"}) = {}
  /\ 0 \notin Versions /\ Malformed \subseteq Versions
  /\ Segments \in [Versions -> Nat \ {0}]
  /\ Widths \in Seq(0..4)
  /\ Lengths \subseteq Nat
  /\ MaxHandles \in Nat

VARIABLES
  disk,       \* the version of each file
  fetched,    \* the job directory's copy of each resource
  faulted,    \* a download was cut where no code could remove its file
  handles,    \* what each handle names: a handle is its index
  docPaths,   \* the paths of the handles opened in this stage
  docTexts,   \* the version whose text was extracted, per handle
  cancelled,  \* the job's cancellation token
  resumed,    \* resume_job entered this run: nobody reads its events
  pc,         \* "starting", "guest", "sending", "fetching", "waiting" or "ended"
  command,    \* the command waited for, or the one refused at the end
  code,       \* how the stage ended
  told,       \* the texts the guest was given: pairs of handle and version
  walk        \* per handle, where the guest's windows have come to

files == <<disk, fetched, faulted>>
tables == <<handles, docPaths, docTexts>>
guest == <<told, walk>>
run == <<cancelled, resumed>>
stageVars == <<files, tables, run, pc, command, code, guest>>

Nothing == [kind |-> "none"]

\* The size of a character, its bytes, and where it starts: past the bytes of
\* those before it.
Size(k) == IF Widths[k] = 0 THEN 1 ELSE Widths[k]
Bytes(k) == {k} \X (1..Size(k))
Start ==
  [k \in 1..(Len(Widths) + 1) |-> Cardinality(UNION {Bytes(i) : i \in 1..(k - 1)})]
Length == Start[Len(Widths) + 1]

\* The commands of a block; those without an effect on what is modelled carry
\* no more than their kind.
Commands ==
  LET named == 1..(Len(handles) + 1) IN   \* the last one names nothing
    [kind : {"Done", "Fail", "Emit", "Embed"}]
      \cup [kind : {"Fetch"}, url : Urls \cup {Elsewhere}]
      \cup [kind : {"Open"}, path : Files \cup {Elsewhere}]
      \cup [kind : {"Slice"}, handle : named, from : {"next", "past"}, len : Lengths]
      \cup [kind : {"SliceBytes"}, handle : named, from : {"next", "past"}]
      \cup [kind : {"PageText", "PageTextOpt"}, handle : named, page : {0, 1}]
      \cup [kind : {"DocumentText", "PageImage", "ImageOp"}, handle : named]
      \cup [kind : {"Infer"}, images : {{}} \cup {{h} : h \in named}]

StageTypeOK ==
  /\ disk \in [Files -> Versions \cup {0}]
  /\ fetched \in [Urls -> {"absent", "partial", "whole"}]
  /\ Len(handles) <= MaxHandles
  /\ DOMAIN docPaths \subseteq DOMAIN handles
  /\ DOMAIN docTexts \subseteq DOMAIN docPaths
  /\ DOMAIN walk = DOMAIN handles

EmptyMap == [x \in {} |-> x]

StageInit ==
  /\ disk \in [Files -> Versions]
  /\ fetched = [u \in Urls |-> "absent"]
  /\ faulted = FALSE
  /\ handles = <<>> /\ docPaths = EmptyMap /\ docTexts = EmptyMap
  /\ cancelled = FALSE /\ resumed = FALSE
  /\ pc = "starting" /\ command = Nothing /\ code = "none"
  /\ told = {} /\ walk = <<>>
-----------------------------------------------------------------------------

\* The stage ends, and the tables of documents are dropped with it; or the
\* guest is given an answer.
EndStage(c, how) ==
  /\ pc' = "ended"
  /\ code' = how
  /\ command' = c
  /\ docPaths' = EmptyMap /\ docTexts' = EmptyMap
  /\ told' = {}

Fails(how) == EndStage(Nothing, how) /\ UNCHANGED <<files, handles, walk>>

Answer == UNCHANGED <<pc, command, code>>
Resumes == pc' = "guest" /\ command' = Nothing /\ UNCHANGED code

\* A mutant of Issued: the cancellation is not looked at.
IssuedUnchecked(c, kinds) ==
  /\ pc = "guest"
  /\ c.kind \in kinds
  /\ UNCHANGED run

\* The guest computes and returns a command, and the host carries it out if
\* the job is not cancelled: the top of the loop looks at that first.
Issued(c, kinds) ==
  /\ pc = "guest"
  /\ ~cancelled
  /\ c.kind \in kinds
  /\ UNCHANGED run

\* The module is compiled and instantiated, if it exports what a guest must.
Instantiate ==
  /\ pc = "starting"
  /\ \/ Resumes /\ UNCHANGED <<files, tables, guest>>
     \/ Fails("wasm_trap")
  /\ UNCHANGED run

HostCancelled ==
  /\ pc = "guest"
  /\ cancelled
  /\ Fails("cancelled")
  /\ UNCHANGED run

\* The guest may trap instead, or point at what is no command.
Trap ==
  /\ pc = "guest"
  /\ Fails("wasm_trap")
  /\ UNCHANGED run

DoneOrFail(c) ==
  /\ Issued(c, {"Done", "Fail"})
  /\ Fails(IF c.kind = "Done" THEN "done" ELSE "guest_failure")

\* Progress is sent and acknowledged, if the event channel has room.
Emit(c) == Issued(c, {"Emit"}) /\ Answer /\ UNCHANGED <<files, tables, guest>>

\* The send of a progress message, or of a token, into a full channel waits for
\* room, and looks at nothing else meanwhile: for good in a resumed run, whose
\* receiver is held and not read.  Events are not counted: any of them may be the
\* one too many.
AwaitRoom ==
  /\ resumed
  /\ \/ pc = "guest" /\ ~cancelled
     \/ pc = "waiting" /\ command.kind = "Infer"
  /\ pc' = "sending" /\ command' = Nothing
  /\ UNCHANGED <<files, tables, run, code, guest>>

\* A new handle, and where the guest's walk of it starts.
Opens(from, content) ==
  /\ Len(handles) < MaxHandles
  /\ handles' = Append(handles, [from |-> from, content |-> content])
  /\ walk' = Append(walk, [at |-> 0, chars |-> 0])
  /\ UNCHANGED <<told, docTexts>>

\* The read roots are compared with where a path leads: to nothing, if it is absent.
AllowsRead(p) == p \in Files /\ disk[p] # 0

\* That it is absent is said only of a path in a directory the job may read.
ReadDenial(p) == IF p \in Files THEN "not_found" ELSE "capability_denied"

\* Open: the read roots, then the file, whose path is remembered.  A file that
\* vanishes in between fails the stage as well.
Open(c) ==
  /\ Issued(c, {"Open"})
  /\ \/ ~AllowsRead(c.path) /\ Fails(ReadDenial(c.path))
     \/ AllowsRead(c.path) /\ Fails("capability_denied")
     \/ /\ AllowsRead(c.path)
        /\ Opens(c.path, disk[c.path])
        /\ docPaths' = [h \in DOMAIN docPaths \cup {Len(handles) + 1} |->
                          IF h \in DOMAIN docPaths THEN docPaths[h] ELSE c.path]
        /\ Answer
        /\ UNCHANGED files

\* Where a run of whole characters from `o` can end.
Boundaries(o) ==
  { Start[k] : k \in {k \in 1..(Len(Widths) + 1) :
      \E j \in 1..k : Start[j] = o /\ \A i \in j..(k - 1) : Widths[i] # 0 } }

\* A mutant of Cut: the window is cut at its last byte.
CutBytes(o, n) == Min({o + n, Length})

\* slice: the end of the last character that lies whole in the window.
Cut(o, n) == Max({o} \cup {b \in Boundaries(o) : b <= o + n})

\* A window starts in the file or at its end.
InFile(c) == c.handle \in DOMAIN handles /\ c.from = "next"

\* The bytes a window reads: those asked for, as far as the file has them.
Wanted(o, len) == Min({len, Length - o})

\* Slice, with the guest going on where its last window ended, or past the end:
\* text and the next offset, or an error when bytes were read and not one
\* character fits.
Slice(c) ==
  /\ Issued(c, {"Slice"})
  /\ \/ ~InFile(c) /\ Fails("capability_denied")
     \/ /\ InFile(c)
        /\ LET o == walk[c.handle].at
               want == Wanted(o, c.len)
               next == Cut(o, want)
               whole == {k \in DOMAIN Widths : o <= Start[k] /\ Start[k + 1] <= next}
           IN IF next = o /\ want # 0
                THEN EndStage(c, "window_too_small") /\ UNCHANGED <<files, handles, walk>>
                ELSE /\ walk' = [walk EXCEPT ![c.handle] =
                                   [at |-> next, chars |-> @.chars + Cardinality(whole)]]
                     /\ Answer
                     /\ UNCHANGED <<files, tables, told>>

\* SliceBytes has nothing to cut.
SliceBytes(c) ==
  /\ Issued(c, {"SliceBytes"})
  /\ IF InFile(c) THEN Answer /\ UNCHANGED <<files, tables, guest>>
                  ELSE Fails("capability_denied")

\* document_text on the path as it is now.
Extractable(h) == disk[docPaths[h]] # 0 /\ disk[docPaths[h]] \notin Malformed

\* A mutant of TextOf: extracted on every call.
TextOfNow(h) == IF Extractable(h) THEN disk[docPaths[h]] ELSE 0

\* doc_text: the text of the first extraction that succeeded in this stage, or
\* zero if the document has none.
TextOf(h) ==
  IF h \in DOMAIN docTexts THEN docTexts[h]
  ELSE IF Extractable(h) THEN disk[docPaths[h]]
  ELSE 0

Remember(h, text) ==
  docTexts' = IF text = 0 THEN docTexts
              ELSE [g \in DOMAIN docTexts \cup {h} |-> IF g = h THEN text ELSE docTexts[g]]

\* page_text_from: the segments between form feeds are what a page number names.
PageTextFrom(text, page) == page = 0 \/ page < Segments[text]

\* PageText, PageTextOpt and DocumentText: the optional one turns what is
\* wrong with the document, though not with the handle, into an answer.
ReadText(c) ==
  /\ Issued(c, {"PageText", "PageTextOpt", "DocumentText"})
  /\ \/ c.handle \notin DOMAIN docPaths /\ Fails("capability_denied")
     \/ /\ c.handle \in DOMAIN docPaths
        /\ LET text == TextOf(c.handle)
               found == text # 0 /\ (c.kind = "DocumentText" \/ PageTextFrom(text, c.page))
           IN IF found \/ c.kind = "PageTextOpt"
                THEN /\ Remember(c.handle, text)
                     /\ told' = IF found THEN told \cup {<<c.handle, text>>} ELSE told
                     /\ Answer
                     /\ UNCHANGED <<files, handles, docPaths, walk>>
                ELSE Fails("unsupported")

\* What becomes of rendering a page of a path as it is now: the library reads what
\* it can, refuses, or takes its process down.
RenderInProcess(path) ==
  {"refused", "crashed"}
    \cup IF disk[path] # 0 /\ disk[path] \notin Malformed THEN {"rendered"} ELSE {}

\* What a render worker then leaves: what it wrote, and its exit.
Worker(rendering) ==
  CASE rendering = "rendered" -> {[wrote |-> "whole", exit |-> "success"],
                                  [wrote |-> "partial", exit |-> "failure"],
                                  [wrote |-> "partial", exit |-> "signal"]}
    [] rendering = "refused" -> {[wrote |-> "nothing", exit |-> "failure"]}
    [] rendering = "crashed" -> {[wrote |-> "nothing", exit |-> "signal"]}

\* render_page: the exit decides whether what was written is the page.
RenderPage(worker) == IF worker.exit = "success" THEN worker.wrote ELSE "nothing"

\* PageImage renders from the path, in a process of its own.
PageImage(c) ==
  /\ Issued(c, {"PageImage"})
  /\ \/ c.handle \notin DOMAIN docPaths /\ Fails("capability_denied")
     \/ /\ c.handle \in DOMAIN docPaths
        /\ \E r \in RenderInProcess(docPaths[c.handle]) : \E w \in Worker(r) :
             IF RenderPage(w) = "nothing" THEN Fails("unsupported")
             ELSE /\ Opens("memory", RenderPage(w))
                  /\ Answer
                  /\ UNCHANGED <<files, docPaths>>

\* The bytes of all these handles can be had.
ReadAll(hs) == hs \subseteq DOMAIN handles

\* images::apply: an operation on bytes that must be an image, which its bounds or
\* region must suit; of half an image it makes less than the whole.
Apply(h) ==
  {"refused", IF handles[h].from \in Urls \cup {"memory"} /\ handles[h].content = "partial"
                THEN "partial" ELSE "whole"}

\* ImageOp: a new handle made of the bytes of another.
ImageOp(c) ==
  /\ Issued(c, {"ImageOp"})
  /\ \/ ~ReadAll({c.handle}) /\ Fails("capability_denied")
     \/ /\ ReadAll({c.handle})
        /\ \E image \in Apply(c.handle) :
             IF image = "refused" THEN Fails("unsupported")
             ELSE /\ Opens("memory", image)
                  /\ Answer
                  /\ UNCHANGED <<files, docPaths>>
-----------------------------------------------------------------------------

\* Embed and Infer: refused at once, or handed to a backend.
Refused(c) ==
  CASE c.kind = "Embed" -> IF Embeds THEN "no" ELSE "unsupported"
    [] c.kind = "Infer" -> IF c.images # {} /\ ~Sees THEN "unsupported"
                           ELSE IF ReadAll(c.images) THEN "no"
                           ELSE "capability_denied"

CallBackend(c) ==
  /\ Issued(c, {"Embed", "Infer"})
  /\ IF Refused(c) = "no"
       THEN pc' = "waiting" /\ command' = c /\ UNCHANGED <<files, tables, code, guest>>
       ELSE Fails(Refused(c))

\* It answers, or fails; a guest that judges tokens may trap.
BackendEnds ==
  /\ pc = "waiting"
  /\ \/ Resumes /\ UNCHANGED <<files, tables, guest>>
     \/ Fails("backend_failure")
     \/ command.kind = "Infer" /\ Fails("wasm_trap")
  /\ UNCHANGED run

\* Only an inference is given up when the job is cancelled.
InferCancelled ==
  /\ pc = "waiting"
  /\ command.kind = "Infer"
  /\ cancelled
  /\ Fails("cancelled")
  /\ UNCHANGED run
-----------------------------------------------------------------------------

Copy(url, state) == fetched' = [fetched EXCEPT ![url] = state]

\* A granted prefix, as written.
AllowsFetch(url) == url \in Urls

\* Fetch, refused or not answered with a success.
FetchRefused(c) ==
  /\ Issued(c, {"Fetch"})
  /\ \/ ~AllowsFetch(c.url) /\ Fails("capability_denied")
     \/ AllowsFetch(c.url) /\ fetched[c.url] = "absent" /\ Fails("unsupported")

\* A file of that name in the job's directory is what is opened.
FetchCached(c) ==
  /\ Issued(c, {"Fetch"})
  /\ AllowsFetch(c.url)
  /\ fetched[c.url] # "absent"
  /\ Opens(c.url, fetched[c.url])
  /\ Answer
  /\ UNCHANGED <<files, docPaths>>

\* The server answers: the file is created and filled chunk by chunk.
FetchStarts(c) ==
  /\ Issued(c, {"Fetch"})
  /\ AllowsFetch(c.url)
  /\ fetched[c.url] = "absent"
  /\ Copy(c.url, "partial")
  /\ pc' = "fetching"
  /\ command' = c
  /\ UNCHANGED <<disk, faulted, tables, code, guest>>

FetchEnds ==
  /\ pc = "fetching"
  /\ Copy(command.url, "whole")
  /\ Opens(command.url, "whole")
  /\ Resumes
  /\ UNCHANGED <<disk, faulted, docPaths, run>>

\* A mutant of FetchBreaks: the partial file stays.
FetchBreaksOff ==
  /\ pc = "fetching"
  /\ Fails("unsupported")
  /\ UNCHANGED run

\* A chunk cannot be read, or is one too many: the file is removed.
FetchBreaks ==
  /\ pc = "fetching"
  /\ Copy(command.url, "absent")
  /\ EndStage(Nothing, "unsupported")
  /\ UNCHANGED <<disk, faulted, handles, run, walk>>

\* A chunk cannot be written, or the file not removed: it stays.
FetchSticks ==
  /\ pc = "fetching"
  /\ faulted' = TRUE
  /\ EndStage(Nothing, "unsupported")
  /\ UNCHANGED <<disk, fetched, handles, run, walk>>
-----------------------------------------------------------------------------

\* The job goes on: the next block, the next item, or the same one again.
NextStage ==
  /\ pc = "ended"
  /\ code # "cancelled"
  /\ pc' = "starting" /\ command' = Nothing /\ code' = "none"
  /\ UNCHANGED <<files, tables, run, guest>>

\* The daemon dies, and with it handles and tables; a resume runs the stage it
\* was in again, in the directory the job left behind.
DieAndResume ==
  /\ pc # "ended"
  /\ faulted' = (faulted \/ pc = "fetching")
  /\ handles' = <<>> /\ docPaths' = EmptyMap /\ docTexts' = EmptyMap
  /\ told' = {} /\ walk' = <<>>
  /\ cancelled' = FALSE /\ resumed' = TRUE
  /\ pc' = "starting" /\ command' = Nothing /\ code' = "none"
  /\ UNCHANGED <<disk, fetched>>

\* Someone replaces, creates or removes a file; an open descriptor keeps what
\* it had.
Edit ==
  /\ \E f \in Files, v \in Versions \cup {0} : disk' = [disk EXCEPT ![f] = v]
  /\ UNCHANGED <<fetched, faulted, tables, run, pc, command, code, guest>>

Cancel ==
  /\ ~cancelled
  /\ cancelled' = TRUE
  /\ UNCHANGED <<files, tables, resumed, pc, command, code, guest>>

\* The guest and the host, in turns.
Turn ==
  \/ Instantiate \/ HostCancelled \/ Trap
  \/ \E c \in Commands :
       \/ DoneOrFail(c) \/ Emit(c) \/ Open(c) \/ Slice(c) \/ SliceBytes(c) \/ ReadText(c)
       \/ PageImage(c) \/ ImageOp(c) \/ CallBackend(c)
       \/ FetchRefused(c) \/ FetchCached(c) \/ FetchStarts(c)

\* What the world decides: how long it takes is not the host's.
WorldStep == BackendEnds \/ FetchEnds \/ FetchBreaks \/ FetchSticks

StageNext ==
  \/ Turn \/ AwaitRoom \/ WorldStep \/ InferCancelled
  \/ NextStage \/ DieAndResume \/ Edit \/ Cancel

StageSpec == StageInit /\ [][StageNext]_stageVars

\* A guest starts and returns, upon which the host looks at the cancellation, and
\* a download or an embedding ends; an inference need not, nor a send that waits
\* for room.
FairStageSpec ==
  /\ StageSpec
  /\ WF_stageVars(Instantiate)
  /\ WF_stageVars(HostCancelled)
  /\ WF_stageVars(InferCancelled)
  /\ WF_stageVars(WorldStep /\ command.kind # "Infer")
-----------------------------------------------------------------------------

\* Every text a stage reads of one handle is of one version of the file,
\* whoever replaces it meanwhile (doc_text keeps the first extraction).
PagesConsistent == \A t1, t2 \in told : t1[1] = t2[1] => t1[2] = t2[2]

\* A handle on a fetched resource or a rendered page names all of it, unless an
\* earlier download was cut by a death of the daemon or by the disk: fetch_to_file
\* takes any file of that name for a finished one, but removes those it gives up,
\* and render_page believes no worker that did not exit well.
HandlesWhole ==
  \A h \in DOMAIN handles :
    handles[h].from \in Urls \cup {"memory"} /\ handles[h].content = "partial" => faulted

\* A guest that follows the offsets it is told reads whole characters, each
\* once, and is refused only a window that the next character does not fit
\* in, or bytes that are none (Handles::slice).
WindowsTile ==
  /\ \A h \in DOMAIN walk : walk[h].at = Start[walk[h].chars + 1]
  /\ code = "window_too_small" =>
       LET width == Widths[walk[command.handle].chars + 1] IN
         width = 0 \/ command.len < width

\* A cancelled job that was submitted to this daemon leaves its stage, whatever
\* the block does and though the model answers nothing (run_stage looks before
\* every command and during an inference).  One that was resumed need not.
CancelEnds == (cancelled /\ ~resumed) ~> (pc = "ended" \/ ~cancelled)
=============================================================================
