------------------------------- MODULE Script -------------------------------
(***************************************************************************)
(* What a scripted block promises: the script is executed once, from its   *)
(* first line to its last, and each host call in it waits for its answer.  *)
(* A script is the set of the behaviours it may show: one for a script     *)
(* that is a function of its input and the answers, several for one that   *)
(* also depends on something else.  Act(b, h) is what behaviour b does     *)
(* having received the answers h: a call, a return or an uncaught error.   *)
(***************************************************************************)
EXTENDS Naturals, Sequences, Protocol

CONSTANTS
  Scripts,     \* the scripts a stage may run, each a set of behaviours
  Act(_, _),   \* the next act of a behaviour after a history
  Catching,    \* the behaviours that wrap a host call in try/catch
  NotJson,     \* the values of the language that have no JSON form
  Answers      \* what a host may answer

VARIABLES
  script,      \* the script of this stage
  log,         \* the calls answered so far, with their answers
  asked,       \* the call in flight
  outcome      \* how the script ended

directVars == <<script, log, asked, outcome>>

NoCommand == [kind |-> "none"]
NoOutcome == [how |-> "none"]

\* The host call each script function stands for: `embed` is a batch of one,
\* `infer_with_images` an Infer that names handles.
CallOf ==
  [ infer |-> "Infer", infer_with_images |-> "Infer",
    embed |-> "Embed", embed_many |-> "Embed",
    open |-> "Open", fetch |-> "Fetch",
    slice |-> "Slice", slice_bytes |-> "SliceBytes",
    page_text |-> "PageText", page_text_opt |-> "PageTextOpt",
    document_text |-> "DocumentText", page_image |-> "PageImage",
    image_resize |-> "ImageOp", image_crop |-> "ImageOp" ]

\* The command an act puts to the host.
Command(act) == [kind |-> CallOf[act.fn], arg |-> act.arg]

IsCall(act) == act.do = "call" /\ act.fn \in DOMAIN CallOf
Calls(b, h, c) == IsCall(Act(b, h)) /\ Command(Act(b, h)) = c

\* The answers of the first n entries of a log.
Seen(l, n) == [i \in 1..n |-> l[i].answer]

\* Behaviour b, executed with the answers of the log, makes its first n calls.
Makes(b, l, n) == \A i \in 1..n : Calls(b, Seen(l, i - 1), l[i].command)

\* ... and makes all of them.
Follows(b, l) == Makes(b, l, Len(l))

\* What the end of a script is to the host.
OutcomeOf(act) ==
  IF act.do = "throw" THEN [how |-> "script_error"]
  ELSE IF act.value \in NotJson THEN [how |-> "schema_validation_failed"]
  ELSE [how |-> "done", result |-> act.value]

\* A script whose control flow depends on its input and the answers alone,
\* and that leaves the host's suspension alone.
Repeatable(s) == \A b1, b2 \in s : b1 = b2
Uncaught(s) == s \cap Catching = {}
Tame(s) == Repeatable(s) /\ Uncaught(s)
-----------------------------------------------------------------------------

DirectInit ==
  /\ script \in Scripts
  /\ log = <<>>
  /\ asked = NoCommand
  /\ outcome = NoOutcome

\* Which call comes next is known of scripts that do not swallow suspensions.
AskDirectly ==
  /\ outcome = NoOutcome
  /\ asked = NoCommand
  /\ asked' # NoCommand
  /\ Uncaught(script) =>
       \E b \in script : Follows(b, log) /\ Calls(b, Seen(log, Len(log)), asked')
  /\ UNCHANGED <<script, log, outcome>>

AnswerDirectly ==
  /\ outcome = NoOutcome
  /\ asked # NoCommand
  /\ \E a \in Answers : log' = Append(log, [command |-> asked, answer |-> a])
  /\ asked' = NoCommand
  /\ UNCHANGED <<script, outcome>>

\* The host ends the stage instead of answering.
DropDirectly ==
  /\ outcome = NoOutcome
  /\ asked # NoCommand
  /\ outcome' = [how |-> "dropped"]
  /\ asked' = NoCommand
  /\ UNCHANGED <<script, log>>

\* What the script ends with is the end of one execution that made exactly the
\* answered calls.
FinishDirectly ==
  /\ outcome = NoOutcome
  /\ asked = NoCommand
  /\ \E b \in script :
       /\ Follows(b, log)
       /\ LET act == Act(b, Seen(log, Len(log))) IN
            act.do \in {"return", "throw"} /\ outcome' = OutcomeOf(act)
  /\ UNCHANGED <<script, log, asked>>

\* Only a script that is not tame may be given up.
GiveUpDirectly ==
  /\ outcome = NoOutcome
  /\ asked = NoCommand
  /\ ~Tame(script)
  /\ outcome' = [how |-> "nondeterministic_replay"]
  /\ UNCHANGED <<script, log, asked>>

DirectNext ==
  AskDirectly \/ AnswerDirectly \/ DropDirectly \/ FinishDirectly \/ GiveUpDirectly

Directly == DirectInit /\ [][DirectNext]_directVars
=============================================================================
