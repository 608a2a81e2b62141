------------------------------- MODULE Replay -------------------------------
(***************************************************************************)
(* The interpreter block that runs scripts (RhaiBlock).  Its language      *)
(* cannot suspend, so every time the host answers, the whole script is run *)
(* again from the top: host calls already in the log are answered from it, *)
(* and the first that is not sets `pending` and aborts the run.  A script  *)
(* that catches errors goes on after such an abort; a script that depends  *)
(* on more than its input may run differently each time.                   *)
(***************************************************************************)
EXTENDS Script

CONSTANT Suspended   \* what a script that catches an abort sees of it

ASSUME ScriptsBehave == \A s \in Scripts : s # {}

VARIABLES
  phase,       \* "eval", "judge", "asked" or "ended"
  behaviour,   \* what the script does in this run
  hist,        \* the answers this run has received
  callIndex,   \* host calls of this run answered from the log
  pending,     \* the command or failure this run leaves to the host
  ending       \* how the evaluation of this run ended

runVars == <<phase, behaviour, hist, callIndex, pending, ending>>
vars == <<directVars, runVars>>

\* The Fail a divergence leaves in `pending`, and the outcome it becomes.
Diverged == [kind |-> "Fail"]
GivenUp == [how |-> "nondeterministic_replay"]
Aborted == [do |-> "abort"]

TypeOK ==
  /\ phase \in {"eval", "judge", "asked", "ended"}
  /\ behaviour \in script
  /\ callIndex \in 0..Len(log)
  /\ (phase = "asked") <=> (asked # NoCommand)
  /\ (phase = "ended") <=> (outcome # NoOutcome)

\* A mutant of FreshRun: the call index of the last run is kept.
StaleRun ==
  /\ phase' = "eval"
  /\ behaviour' \in script
  /\ hist' = <<>>
  /\ pending' = NoCommand
  /\ ending' = Aborted
  /\ UNCHANGED callIndex

\* run: a fresh engine, a fresh call index, nothing pending.
FreshRun ==
  /\ phase' = "eval"
  /\ behaviour' \in script
  /\ hist' = <<>>
  /\ callIndex' = 0
  /\ pending' = NoCommand
  /\ ending' = Aborted

\* start: the script and the input are taken, the log is cleared.
Init ==
  /\ DirectInit
  /\ phase = "eval"
  /\ behaviour \in script
  /\ hist = <<>>
  /\ callIndex = 0
  /\ pending = NoCommand
  /\ ending = Aborted
-----------------------------------------------------------------------------

Current == Act(behaviour, hist)
AtCall == phase = "eval" /\ IsCall(Current)
Logged == callIndex < Len(log)

\* issue_or_replay returns an error: it ends the evaluation, unless the script
\* catches it.
Raise ==
  IF behaviour \in Catching /\ Current.caught
    THEN /\ hist' = Append(hist, Suspended)
         /\ UNCHANGED <<phase, ending>>
    ELSE /\ phase' = "judge"
         /\ ending' = Aborted
         /\ UNCHANGED hist

\* A call in the log that is the recorded one: its answer is returned.
ReplayCall ==
  /\ AtCall
  /\ Logged
  /\ log[callIndex + 1].command = Command(Current)
  /\ hist' = Append(hist, log[callIndex + 1].answer)
  /\ callIndex' = callIndex + 1
  /\ UNCHANGED <<directVars, phase, behaviour, pending, ending>>

\* A call in the log that is not the recorded one.
RefuseCall ==
  /\ AtCall
  /\ Logged
  /\ log[callIndex + 1].command # Command(Current)
  /\ pending' = Diverged
  /\ Raise
  /\ UNCHANGED <<directVars, behaviour, callIndex>>

\* A call beyond the log becomes the pending command.
SuspendCall ==
  /\ AtCall
  /\ ~Logged
  /\ pending' = Command(Current)
  /\ Raise
  /\ UNCHANGED <<directVars, behaviour, callIndex>>

\* The script returns, or fails by itself.
EndEval ==
  /\ phase = "eval"
  /\ Current.do \in {"return", "throw"}
  /\ phase' = "judge"
  /\ ending' = Current
  /\ UNCHANGED <<directVars, behaviour, hist, callIndex, pending>>

End(how) ==
  /\ outcome' = how
  /\ phase' = "ended"
  /\ UNCHANGED <<script, log, asked, behaviour, hist, callIndex, pending, ending>>

\* run: a pending command goes to the host and is remembered by
\* run_and_track_pending.
Ask ==
  /\ phase = "judge"
  /\ pending \notin {NoCommand, Diverged}
  /\ asked' = pending
  /\ phase' = "asked"
  /\ UNCHANGED <<script, log, outcome, behaviour, hist, callIndex, pending, ending>>

\* A pending failure is returned, whatever the script made of it.
FailDiverged == phase = "judge" /\ pending = Diverged /\ End(GivenUp)

\* A mutant of Unconsumed: a run may end early without anyone noticing.
NeverUnconsumed == FALSE

Unconsumed == callIndex < Len(log)

\* A run that ended without the answers of an earlier one is a divergence too.
FailUnconsumed ==
  /\ phase = "judge"
  /\ pending = NoCommand
  /\ Unconsumed
  /\ End(GivenUp)

\* Done, a result that is no JSON, or the script's own error.
Finish ==
  /\ phase = "judge"
  /\ pending = NoCommand
  /\ ~Unconsumed
  /\ End(OutcomeOf(ending))

\* The events step turns into an answer for the script.
Understood ==
  { "InferDone", "Opened", "Sliced", "SlicedBytes", "Embedded",
    "PageTextAttempted", "PageTexted", "PageImaged" }

\* A mutant of Step: the answer reaches the rerun but not the log.
StepUnlogged ==
  /\ phase = "asked"
  /\ asked' = NoCommand
  /\ FreshRun
  /\ UNCHANGED <<script, log, outcome>>

\* step: the answer is logged with the command in flight and the script is
\* run again; an event that answers no script function fails the block.
Step ==
  /\ phase = "asked"
  /\ asked' = NoCommand
  /\ IF Reply[asked.kind] \in Understood
       THEN /\ \E a \in Answers : log' = Append(log, [command |-> asked, answer |-> a])
            /\ FreshRun
            /\ UNCHANGED <<script, outcome>>
       ELSE /\ phase' = "ended"
            /\ outcome' = [how |-> "unexpected_event"]
            /\ UNCHANGED <<script, log, behaviour, hist, callIndex, pending, ending>>

\* The host ends the stage: the command failed or the job was cancelled.
HostDrops ==
  /\ phase = "asked"
  /\ asked' = NoCommand
  /\ outcome' = [how |-> "dropped"]
  /\ phase' = "ended"
  /\ UNCHANGED <<script, log, behaviour, hist, callIndex, pending, ending>>
-----------------------------------------------------------------------------

\* Everything the block does between two answers.
RunStep ==
  \/ ReplayCall \/ RefuseCall \/ SuspendCall \/ EndEval
  \/ Ask \/ FailDiverged \/ FailUnconsumed \/ Finish

Next == RunStep \/ Step \/ HostDrops

Spec == Init /\ [][Next]_vars

\* The block computes, and the host answers a command or ends the stage.
FairSpec == Spec /\ WF_vars(RunStep) /\ WF_vars(Step)
-----------------------------------------------------------------------------

\* A result, or an error the script raised, is that of one execution of one of
\* the script's behaviours, from its first line to its end, that made exactly
\* the answered calls in their order and saw exactly their answers - whatever
\* reruns, swallowed suspensions and changes of mind came before (run:
\* pending first, then the unconsumed answers, then the value).
EndsLikeOneRun ==
  outcome.how \in {"done", "schema_validation_failed", "script_error"} =>
    \E b \in script :
      /\ Follows(b, log)
      /\ LET act == Act(b, Seen(log, Len(log))) IN
           act.do \in {"return", "throw"} /\ outcome = OutcomeOf(act)

\* The block implements a single execution of its script: a tame script never
\* diverges and asks for what that execution asks for, and no answer the host
\* gives is one the interpreter cannot take (run and step against Script).
RunsOnce == Directly

\* A script whose behaviours are finite ends, if the host answers (run: each
\* answer is logged and consumed, so no call is put to the host twice).
ScriptEnds == <>(phase = "ended")
=============================================================================
