---------------------------- MODULE Protocol_proofs ----------------------------
(***************************************************************************)
(* Proofs about both sides of the protocol between a block and its host.   *)
(* For every set of scripts, the interpreter block gives the result of one *)
(* execution (EndsCorrectly) and implements the abstract specification     *)
(* Directly (ImplementsDirectly).  For all files, resources and texts, a   *)
(* stage of the host reads one version of a document (ReadsOneVersion),    *)
(* hands out whole contents (HandlesAreWhole), and cuts a text into        *)
(* windows without loss (WindowsAreTiled).                                 *)
(***************************************************************************)
EXTENDS Replay, Stage, SequenceTheorems, FiniteSetTheorems, WellFoundedInduction, TLAPS

\* The commands a script function can put to the host.
Kinds == {"Infer", "Embed", "Open", "Fetch", "Slice", "SliceBytes", "PageText",
          "PageTextOpt", "DocumentText", "PageImage", "ImageOp"}

\* The types.
Typed ==
  /\ phase \in {"eval", "judge", "asked", "ended"}
  /\ behaviour \in script
  /\ \E S : log \in Seq(S)
  /\ \E S : hist \in Seq(S)
  /\ callIndex \in 0..Len(log)

\* The phase and the two variables of the abstract specification agree.
Phased ==
  /\ phase = "asked" => asked = pending /\ pending # NoCommand /\ pending # Diverged
  /\ phase # "asked" => asked = NoCommand
  /\ phase # "ended" => outcome = NoOutcome

\* Whatever is pending and not a failure is a command the host answers.
Pending == pending = NoCommand \/ pending = Diverged \/ pending.kind \in Kinds

\* A run with nothing pending has received exactly the answers it consumed,
\* to exactly the calls it made.
Clean ==
  phase \in {"eval", "judge"} /\ pending = NoCommand =>
    hist = Seen(log, callIndex) /\ Makes(behaviour, log, callIndex)

\* ... and if it ended, its end is what the behaviour does next.
Ended ==
  phase = "judge" /\ pending = NoCommand =>
    ending = Act(behaviour, hist) /\ ending.do \in {"return", "throw"}

\* A script without try/catch stops at the first call it cannot replay.
Stops == phase = "eval" /\ Uncaught(script) => pending = NoCommand

\* What such a script puts to the host is its next call.
Puts ==
  phase \in {"judge", "asked"} /\ Uncaught(script)
      /\ pending # NoCommand /\ pending # Diverged =>
    Follows(behaviour, log) /\ Calls(behaviour, Seen(log, Len(log)), pending)

\* A tame script repeats the calls of its log, so it never diverges.
Repeats == Tame(script) => Follows(behaviour, log) /\ pending # Diverged

IInv ==
  /\ Typed /\ Phased /\ Pending /\ Clean /\ Ended /\ Stops /\ Puts /\ Repeats
  /\ EndsLikeOneRun
-----------------------------------------------------------------------------

\* Every script function has a command of the table.
LEMMA CommandKind ==
  ASSUME NEW act, IsCall(act)
  PROVE /\ Command(act).kind \in Kinds
        /\ Command(act) # NoCommand
        /\ Command(act) # Diverged
<1>1. CallOf[act.fn] \in Kinds
  BY DEF IsCall, CallOf, Kinds
<1>2. Command(act).kind = CallOf[act.fn]
  BY DEF Command
<1>3. NoCommand.kind = "none" /\ Diverged.kind = "Fail"
  BY DEF NoCommand, Diverged
<1> QED
  BY <1>1, <1>2, <1>3 DEF Kinds

\* The host answers each of them with an event the interpreter understands.
LEMMA KindsUnderstood ==
  ASSUME NEW k \in Kinds
  PROVE Reply[k] \in Understood
BY DEF Kinds, Reply, Understood

\* What was seen of a log does not change when it grows.
LEMMA SeenGrows ==
  ASSUME NEW S, NEW l \in Seq(S), NEW e, NEW n \in 0..Len(l)
  PROVE Seen(Append(l, e), n) = Seen(l, n)
<1>1. \A i \in 1..n : Append(l, e)[i] = l[i]
  OBVIOUS
<1> QED
  BY <1>1 DEF Seen

\* One more answer of the log.
LEMMA SeenNext ==
  ASSUME NEW S, NEW l \in Seq(S), NEW n \in 0..(Len(l) - 1)
  PROVE Append(Seen(l, n), l[n + 1].answer) = Seen(l, n + 1)
<1>1. Seen(l, n) \in Seq({l[i].answer : i \in 1..n})
  BY DEF Seen
<1>2. Len(Seen(l, n)) = n
  BY DEF Seen
<1>3. Append(Seen(l, n), l[n + 1].answer)
        = [i \in 1..(n + 1) |-> IF i \in 1..n THEN Seen(l, n)[i] ELSE l[n + 1].answer]
  BY <1>1, <1>2
<1>4. \A i \in 1..(n + 1) : (IF i \in 1..n THEN Seen(l, n)[i] ELSE l[n + 1].answer)
                              = l[i].answer
  BY DEF Seen
<1> QED
  BY <1>3, <1>4 DEF Seen

\* A behaviour that makes the calls of a log and then one more makes those of
\* the longer log.
LEMMA FollowsGrows ==
  ASSUME NEW S, NEW l \in Seq(S), NEW b, NEW c, NEW a,
         Follows(b, l), Calls(b, Seen(l, Len(l)), c)
  PROVE Follows(b, Append(l, [command |-> c, answer |-> a]))
<1> DEFINE l2 == Append(l, [command |-> c, answer |-> a])
<1>1. /\ Len(l) \in Nat
      /\ Len(l2) = Len(l) + 1
      /\ l2[Len(l) + 1] = [command |-> c, answer |-> a]
      /\ \A i \in 1..Len(l) : l2[i] = l[i]
  OBVIOUS
<1>2. ASSUME NEW i \in 1..Len(l2)
      PROVE Calls(b, Seen(l2, i - 1), l2[i].command)
  <2>1. i - 1 \in 0..Len(l)
    BY <1>1
  <2>2. Seen(l2, i - 1) = Seen(l, i - 1)
    BY <2>1, SeenGrows
  <2>3. CASE i \in 1..Len(l)
    BY <1>1, <2>2, <2>3 DEF Follows, Makes
  <2>4. CASE i = Len(l) + 1
    BY <1>1, <2>2, <2>4
  <2> QED
    BY <1>1, <2>3, <2>4
<1> QED
  BY <1>2 DEF Follows, Makes

\* One more call made.
LEMMA MakesNext ==
  ASSUME NEW l, NEW b, NEW n \in Nat,
         Makes(b, l, n), Calls(b, Seen(l, n), l[n + 1].command)
  PROVE Makes(b, l, n + 1)
<1>1. ASSUME NEW i \in 1..(n + 1) PROVE Calls(b, Seen(l, i - 1), l[i].command)
  <2>1. CASE i \in 1..n
    BY <2>1 DEF Makes
  <2>2. CASE i = n + 1
    <3>1. i - 1 = n
      BY <2>2
    <3> QED
      BY <2>2, <3>1
  <2> QED
    BY <2>1, <2>2
<1> QED
  BY <1>1 DEF Makes

\* Distinct kinds of act and of outcome.
LEMMA Distinct ==
  /\ NoCommand # Diverged
  /\ NoOutcome.how = "none"
  /\ GivenUp.how = "nondeterministic_replay"
  /\ NoCommand.kind = "none"
BY DEF NoCommand, Diverged, NoOutcome, GivenUp
-----------------------------------------------------------------------------

\* The initial states.
LEMMA InitIInv == Init => IInv
<1> SUFFICES ASSUME Init PROVE IInv
  OBVIOUS
<1>1. /\ log = <<>> /\ hist = <<>> /\ callIndex = 0 /\ phase = "eval"
      /\ pending = NoCommand /\ asked = NoCommand /\ outcome = NoOutcome
      /\ behaviour \in script
  BY DEF Init, DirectInit
<1>2. Len(log) = 0 /\ log \in Seq({}) /\ hist \in Seq({})
  BY <1>1
<1>3. Typed
  BY <1>1, <1>2 DEF Typed
<1>4. Makes(behaviour, log, 0) /\ Follows(behaviour, log)
  BY <1>2 DEF Makes, Follows
<1>5. hist = Seen(log, 0)
  BY <1>1 DEF Seen
<1> QED
  BY <1>1, <1>3, <1>4, <1>5, Distinct
     DEF IInv, Phased, Pending, Clean, Ended, Stops, Puts, Repeats, EndsLikeOneRun

\* A run replays a call.
LEMMA ReplayStep == IInv /\ ReplayCall => IInv'
<1> SUFFICES ASSUME IInv, ReplayCall PROVE IInv'
  OBVIOUS
<1> USE DEF IInv
<1>1. /\ phase = "eval" /\ phase' = "eval" /\ script' = script /\ log' = log
      /\ asked' = asked /\ outcome' = outcome /\ behaviour' = behaviour
      /\ pending' = pending /\ callIndex' = callIndex + 1 /\ callIndex < Len(log)
      /\ IsCall(Current) /\ log[callIndex + 1].command = Command(Current)
      /\ hist' = Append(hist, log[callIndex + 1].answer)
  BY DEF ReplayCall, AtCall, Logged, directVars
<1>2. PICK S, H : log \in Seq(S) /\ hist \in Seq(H)
  BY DEF Typed
<1>3. Len(log) \in Nat /\ callIndex \in 0..(Len(log) - 1) /\ callIndex + 1 \in 0..Len(log)
  BY <1>1, <1>2 DEF Typed
<1>4. hist' \in Seq(H \cup {log[callIndex + 1].answer})
  BY <1>1, <1>2
<1>5. Typed'
  BY <1>1, <1>2, <1>3, <1>4 DEF Typed
<1>6. Clean'
  <2> SUFFICES ASSUME pending = NoCommand
               PROVE /\ hist' = Seen(log, callIndex + 1)
                     /\ Makes(behaviour, log, callIndex + 1)
    BY <1>1 DEF Clean
  <2>1. hist = Seen(log, callIndex) /\ Makes(behaviour, log, callIndex)
    BY <1>1 DEF Clean
  <2>2. Calls(behaviour, Seen(log, callIndex), log[callIndex + 1].command)
    BY <1>1, <2>1 DEF Calls, Current
  <2> QED
    BY <1>1, <1>2, <1>3, <2>1, <2>2, SeenNext, MakesNext
<1>7. Phased' /\ Pending' /\ Ended' /\ Stops' /\ Puts' /\ Repeats' /\ EndsLikeOneRun'
  BY <1>1 DEF Phased, Pending, Ended, Stops, Puts, Repeats, EndsLikeOneRun
<1> QED
  BY <1>5, <1>6, <1>7

\* A call outside the log, or not the recorded one, leaves something pending;
\* `p` is what.
LEMMA RaiseStep ==
  ASSUME IInv, AtCall, Raise, UNCHANGED <<directVars, behaviour, callIndex>>,
         pending' # NoCommand,
         pending' = Diverged \/ pending'.kind \in Kinds,
         Tame(script) => pending' # Diverged,
         pending' # Diverged /\ Uncaught(script) =>
           Follows(behaviour, log) /\ Calls(behaviour, Seen(log, Len(log)), pending')
  PROVE IInv'
<1> USE DEF IInv
<1>1. /\ phase = "eval" /\ script' = script /\ log' = log
      /\ asked' = asked /\ outcome' = outcome /\ behaviour' = behaviour
      /\ callIndex' = callIndex
  BY DEF AtCall, directVars
<1>2. PICK H : hist \in Seq(H)
  BY DEF Typed
<1>3. \/ phase' = "judge" /\ hist' = hist
      \/ phase' = "eval" /\ hist' = Append(hist, Suspended) /\ ~Uncaught(script)
  BY <1>1 DEF Raise, Uncaught, Typed
<1>4. hist' \in Seq(H \cup {Suspended})
  BY <1>2, <1>3
<1>5. Typed'
  BY <1>1, <1>3, <1>4 DEF Typed
<1>6. Phased' /\ Pending' /\ Clean' /\ Ended' /\ Stops' /\ Puts' /\ Repeats' /\ EndsLikeOneRun'
  BY <1>1, <1>3 DEF Phased, Pending, Clean, Ended, Stops, Puts, Repeats, EndsLikeOneRun
<1> QED
  BY <1>5, <1>6

\* A run meets a call that is not the recorded one: no tame script does.
LEMMA RefuseStep == IInv /\ RefuseCall => IInv'
<1> SUFFICES ASSUME IInv, RefuseCall PROVE IInv'
  OBVIOUS
<1>1. /\ AtCall /\ Raise /\ UNCHANGED <<directVars, behaviour, callIndex>>
      /\ pending' = Diverged /\ callIndex < Len(log)
      /\ log[callIndex + 1].command # Command(Current)
  BY DEF RefuseCall, Logged
<1>2. ASSUME Tame(script) PROVE FALSE
  <2>1. phase = "eval" /\ pending = NoCommand
    BY <1>1, <1>2 DEF IInv, Stops, Tame, AtCall
  <2>2. hist = Seen(log, callIndex)
    BY <2>1 DEF IInv, Clean
  <2>3. Follows(behaviour, log)
    BY <1>2 DEF IInv, Repeats
  <2>4. Len(log) \in Nat /\ callIndex + 1 \in 1..Len(log) /\ (callIndex + 1) - 1 = callIndex
    BY <1>1 DEF IInv, Typed
  <2>5. Calls(behaviour, Seen(log, callIndex), log[callIndex + 1].command)
    BY <2>3, <2>4 DEF Follows, Makes
  <2> QED
    BY <1>1, <2>2, <2>5 DEF Calls, Current
<1> QED
  BY <1>1, <1>2, Distinct, RaiseStep

\* A run meets a call beyond the log.
LEMMA SuspendStep == IInv /\ SuspendCall => IInv'
<1> SUFFICES ASSUME IInv, SuspendCall PROVE IInv'
  OBVIOUS
<1>1. /\ AtCall /\ Raise /\ UNCHANGED <<directVars, behaviour, callIndex>>
      /\ pending' = Command(Current) /\ ~(callIndex < Len(log))
      /\ IsCall(Current)
  BY DEF SuspendCall, Logged, AtCall
<1>2. pending'.kind \in Kinds /\ pending' # NoCommand /\ pending' # Diverged
  BY <1>1, CommandKind
<1>3. ASSUME Uncaught(script)
      PROVE Follows(behaviour, log) /\ Calls(behaviour, Seen(log, Len(log)), pending')
  <2>1. phase = "eval" /\ pending = NoCommand
    BY <1>1, <1>3 DEF IInv, Stops, AtCall
  <2>2. callIndex = Len(log)
    BY <1>1 DEF IInv, Typed
  <2>3. hist = Seen(log, Len(log)) /\ Makes(behaviour, log, Len(log))
    BY <2>1, <2>2 DEF IInv, Clean
  <2> QED
    BY <1>1, <2>3 DEF Follows, Calls, Current
<1> QED
  BY <1>1, <1>2, <1>3, RaiseStep

\* A run comes to its end.
LEMMA EndStep == IInv /\ EndEval => IInv'
<1> SUFFICES ASSUME IInv, EndEval PROVE IInv'
  OBVIOUS
<1>1. /\ phase = "eval" /\ phase' = "judge" /\ script' = script /\ log' = log
      /\ asked' = asked /\ outcome' = outcome /\ behaviour' = behaviour
      /\ pending' = pending /\ callIndex' = callIndex /\ hist' = hist
      /\ ending' = Act(behaviour, hist) /\ ending'.do \in {"return", "throw"}
  BY DEF EndEval, directVars, Current
<1>2. Typed' /\ Phased' /\ Pending' /\ Clean' /\ Ended' /\ Stops' /\ Repeats' /\ EndsLikeOneRun'
  BY <1>1 DEF IInv, Typed, Phased, Pending, Clean, Ended, Stops, Repeats, EndsLikeOneRun
<1>3. Puts'
  BY <1>1 DEF IInv, Puts, Stops
<1> QED
  BY <1>2, <1>3 DEF IInv

\* What a run leaves pending is put to the host.
LEMMA AskStep == IInv /\ Ask => IInv'
<1> SUFFICES ASSUME IInv, Ask PROVE IInv'
  OBVIOUS
<1>1. /\ phase = "judge" /\ phase' = "asked" /\ script' = script /\ log' = log
      /\ asked' = pending /\ outcome' = outcome /\ behaviour' = behaviour
      /\ pending' = pending /\ callIndex' = callIndex /\ hist' = hist
      /\ pending # NoCommand /\ pending # Diverged
  BY DEF Ask
<1> QED
  BY <1>1 DEF IInv, Typed, Phased, Pending, Clean, Ended, Stops, Puts, Repeats, EndsLikeOneRun

\* The block gives the script up.
LEMMA GiveUpStep == IInv /\ (FailDiverged \/ FailUnconsumed) => IInv'
<1> SUFFICES ASSUME IInv, FailDiverged \/ FailUnconsumed PROVE IInv'
  OBVIOUS
<1>1. /\ phase = "judge" /\ phase' = "ended" /\ script' = script /\ log' = log
      /\ asked' = asked /\ outcome' = GivenUp /\ behaviour' = behaviour
      /\ pending' = pending /\ callIndex' = callIndex /\ hist' = hist
  BY DEF FailDiverged, FailUnconsumed, End
<1> QED
  BY <1>1, Distinct
     DEF IInv, Typed, Phased, Pending, Clean, Ended, Stops, Puts, Repeats, EndsLikeOneRun

\* What the end of a clean run that consumed the log is.
LEMMA FinishFacts ==
  ASSUME IInv, Finish
  PROVE /\ behaviour \in script
        /\ Follows(behaviour, log)
        /\ ending = Act(behaviour, Seen(log, Len(log)))
        /\ ending.do \in {"return", "throw"}
        /\ phase = "judge" /\ asked = NoCommand /\ outcome = NoOutcome
        /\ phase' = "ended"
        /\ outcome' = OutcomeOf(ending)
        /\ UNCHANGED <<script, log, asked, behaviour, hist, callIndex, pending, ending>>
<1>1. /\ phase = "judge" /\ pending = NoCommand /\ ~(callIndex < Len(log))
  BY DEF Finish, Unconsumed
<1>2. callIndex = Len(log)
  BY <1>1 DEF IInv, Typed
<1>3. hist = Seen(log, Len(log)) /\ Makes(behaviour, log, Len(log))
  BY <1>1, <1>2 DEF IInv, Clean
<1>4. ending = Act(behaviour, hist) /\ ending.do \in {"return", "throw"}
  BY <1>1 DEF IInv, Ended
<1>5. asked = NoCommand /\ outcome = NoOutcome /\ behaviour \in script
  BY <1>1 DEF IInv, Phased, Typed
<1>6. Follows(behaviour, log)
  BY <1>3 DEF Follows
<1>7. ending = Act(behaviour, Seen(log, Len(log)))
  BY <1>3, <1>4
<1> QED
  BY <1>1, <1>4, <1>5, <1>6, <1>7 DEF Finish, End

\* The block returns a result, or the script's own error.
LEMMA FinishStep == IInv /\ Finish => IInv'
<1> SUFFICES ASSUME IInv, Finish PROVE IInv'
  OBVIOUS
<1>1. /\ behaviour \in script
      /\ Follows(behaviour, log)
      /\ ending = Act(behaviour, Seen(log, Len(log)))
      /\ ending.do \in {"return", "throw"}
      /\ phase' = "ended" /\ asked = NoCommand
      /\ outcome' = OutcomeOf(ending)
      /\ script' = script /\ log' = log /\ asked' = asked /\ behaviour' = behaviour
      /\ hist' = hist /\ callIndex' = callIndex /\ pending' = pending /\ ending' = ending
  BY FinishFacts
<1>2. EndsLikeOneRun'
  BY <1>1 DEF EndsLikeOneRun
<1>3. Typed' /\ Phased' /\ Pending' /\ Clean' /\ Ended' /\ Stops' /\ Puts' /\ Repeats'
  BY <1>1 DEF IInv, Typed, Phased, Pending, Clean, Ended, Stops, Puts, Repeats
<1> QED
  BY <1>2, <1>3 DEF IInv

\* An answer is logged and the script runs again.
LEMMA AnswerStep == IInv /\ Step => IInv'
<1> SUFFICES ASSUME IInv, Step PROVE IInv'
  OBVIOUS
<1>1. /\ phase = "asked" /\ asked = pending /\ pending # NoCommand /\ pending # Diverged
      /\ pending.kind \in Kinds /\ outcome = NoOutcome
  BY DEF IInv, Phased, Pending, Step
<1>2. Reply[asked.kind] \in Understood
  BY <1>1, KindsUnderstood
<1>3. PICK a \in Answers : log' = Append(log, [command |-> asked, answer |-> a])
  BY <1>2 DEF Step
<1>4. /\ asked' = NoCommand /\ script' = script /\ outcome' = outcome
      /\ phase' = "eval" /\ behaviour' \in script /\ hist' = <<>>
      /\ callIndex' = 0 /\ pending' = NoCommand
  BY <1>2 DEF Step, FreshRun
<1>5. PICK S : log \in Seq(S)
  BY DEF IInv, Typed
<1>6. log' \in Seq(S \cup {[command |-> asked, answer |-> a]})
  BY <1>3, <1>5
<1>7. Typed'
  <2>1. Len(log') \in Nat /\ hist' \in Seq({})
    BY <1>4, <1>6
  <2> QED
    BY <1>4, <1>6, <2>1 DEF Typed
<1>8. Clean'
  <2>1. hist' = Seen(log', 0) /\ Makes(behaviour', log', 0)
    BY <1>4 DEF Seen, Makes
  <2> QED
    BY <1>4, <2>1 DEF Clean
<1>9. Repeats'
  <2> SUFFICES ASSUME Tame(script) PROVE Follows(behaviour', log')
    BY <1>4, Distinct DEF Repeats
  <2>1. behaviour' = behaviour
    BY <1>4 DEF Tame, Repeatable, IInv, Typed
  <2>2. Follows(behaviour, log) /\ Calls(behaviour, Seen(log, Len(log)), asked)
    BY <1>1 DEF IInv, Puts, Tame
  <2>3. Follows(behaviour, Append(log, [command |-> asked, answer |-> a]))
    BY <1>5, <2>2, FollowsGrows
  <2> QED
    BY <1>3, <2>1, <2>3
<1>10. Phased' /\ Pending' /\ Ended' /\ Stops' /\ Puts' /\ EndsLikeOneRun'
  BY <1>1, <1>4, Distinct DEF IInv, Phased, Pending, Ended, Stops, Puts, EndsLikeOneRun
<1> QED
  BY <1>7, <1>8, <1>9, <1>10 DEF IInv

\* The host ends the stage.
LEMMA DropStep == IInv /\ HostDrops => IInv'
<1> SUFFICES ASSUME IInv, HostDrops PROVE IInv'
  OBVIOUS
<1>1. /\ phase' = "ended" /\ script' = script /\ log' = log
      /\ asked' = NoCommand /\ outcome'.how = "dropped" /\ behaviour' = behaviour
      /\ pending' = pending /\ callIndex' = callIndex /\ hist' = hist
  BY DEF HostDrops
<1> QED
  BY <1>1 DEF IInv, Typed, Phased, Pending, Clean, Ended, Stops, Puts, Repeats, EndsLikeOneRun

\* The invariant holds in every reachable state.
LEMMA Invariance == Spec => []IInv
<1>1. IInv /\ UNCHANGED vars => IInv'
  BY DEF IInv, Typed, Phased, Pending, Clean, Ended, Stops, Puts, Repeats, EndsLikeOneRun,
         vars, directVars, runVars
<1>2. IInv /\ [Next]_vars => IInv'
  BY <1>1, ReplayStep, RefuseStep, SuspendStep, EndStep, AskStep, GiveUpStep, FinishStep,
     AnswerStep, DropStep DEF Next, RunStep
<1> QED
  BY <1>2, InitIInv, PTL DEF Spec

\* A result, or an error the script raised, is that of one execution of one of
\* its behaviours (RhaiBlock::run and step), for all scripts and answers.
THEOREM EndsCorrectly == Spec => []EndsLikeOneRun
<1>1. IInv => EndsLikeOneRun
  BY DEF IInv
<1> QED
  BY <1>1, Invariance, PTL
-----------------------------------------------------------------------------

\* Every step of the block is a step of a single execution, or none.
LEMMA StepDirectly == IInv /\ [Next]_vars => [DirectNext]_directVars
<1> SUFFICES ASSUME IInv, [Next]_vars PROVE [DirectNext]_directVars
  OBVIOUS
<1>1. CASE ReplayCall \/ RefuseCall \/ SuspendCall \/ EndEval \/ UNCHANGED vars
  BY <1>1 DEF ReplayCall, RefuseCall, SuspendCall, EndEval, vars
<1>2. CASE Ask
  <2>1. /\ phase = "judge" /\ pending # NoCommand /\ pending # Diverged
        /\ asked' = pending /\ UNCHANGED <<script, log, outcome>>
    BY <1>2 DEF Ask
  <2>2. outcome = NoOutcome /\ asked = NoCommand /\ behaviour \in script
    BY <2>1 DEF IInv, Phased, Typed
  <2>3. Uncaught(script) =>
          Follows(behaviour, log) /\ Calls(behaviour, Seen(log, Len(log)), asked')
    BY <2>1 DEF IInv, Puts
  <2> QED
    BY <2>1, <2>2, <2>3 DEF DirectNext, AskDirectly
<1>3. CASE FailDiverged
  <2>1. /\ phase = "judge" /\ pending = Diverged /\ outcome' = GivenUp
        /\ UNCHANGED <<script, log, asked>>
    BY <1>3 DEF FailDiverged, End
  <2>2. outcome = NoOutcome /\ asked = NoCommand /\ ~Tame(script)
    BY <2>1 DEF IInv, Phased, Repeats
  <2> QED
    BY <2>1, <2>2 DEF DirectNext, GiveUpDirectly, GivenUp
<1>4. CASE FailUnconsumed
  <2>1. /\ phase = "judge" /\ pending = NoCommand /\ callIndex < Len(log)
        /\ outcome' = GivenUp /\ UNCHANGED <<script, log, asked>>
    BY <1>4 DEF FailUnconsumed, Unconsumed, End
  <2>2. outcome = NoOutcome /\ asked = NoCommand
    BY <2>1 DEF IInv, Phased
  <2>3. ASSUME Tame(script) PROVE FALSE
    <3>1. hist = Seen(log, callIndex) /\ ending = Act(behaviour, hist)
          /\ ending.do \in {"return", "throw"}
      BY <2>1 DEF IInv, Clean, Ended
    <3>2. Follows(behaviour, log)
      BY <2>3 DEF IInv, Repeats
    <3>3. Len(log) \in Nat /\ callIndex + 1 \in 1..Len(log) /\ (callIndex + 1) - 1 = callIndex
      BY <2>1 DEF IInv, Typed
    <3>4. IsCall(Act(behaviour, Seen(log, callIndex)))
      BY <3>2, <3>3 DEF Follows, Makes, Calls
    <3> QED
      BY <3>1, <3>4 DEF IsCall
  <2> QED
    BY <2>1, <2>2, <2>3 DEF DirectNext, GiveUpDirectly, GivenUp
<1>5. CASE Finish
  <2>1. /\ behaviour \in script
        /\ Follows(behaviour, log)
        /\ ending = Act(behaviour, Seen(log, Len(log)))
        /\ ending.do \in {"return", "throw"}
        /\ asked = NoCommand /\ outcome = NoOutcome
        /\ outcome' = OutcomeOf(ending)
        /\ UNCHANGED <<script, log, asked>>
    BY <1>5, FinishFacts
  <2>2. FinishDirectly
    BY <2>1 DEF FinishDirectly
  <2> QED
    BY <2>2 DEF DirectNext
<1>6. CASE Step
  <2>1. phase = "asked" /\ asked # NoCommand /\ asked.kind \in Kinds /\ outcome = NoOutcome
    BY <1>6 DEF IInv, Phased, Pending, Step
  <2>2. Reply[asked.kind] \in Understood
    BY <2>1, KindsUnderstood
  <2> QED
    BY <1>6, <2>1, <2>2 DEF Step, DirectNext, AnswerDirectly
<1>7. CASE HostDrops
  <2>1. phase = "asked" /\ asked # NoCommand /\ outcome = NoOutcome
    BY <1>7 DEF IInv, Phased, HostDrops
  <2> QED
    BY <1>7, <2>1 DEF HostDrops, DirectNext, DropDirectly
<1> QED
  BY <1>1, <1>2, <1>3, <1>4, <1>5, <1>6, <1>7 DEF Next, RunStep

\* The block implements one execution of its script, for all scripts and
\* answers: a tame script never diverges and every answer is understood.
THEOREM ImplementsDirectly == Spec => RunsOnce
<1>1. Init => DirectInit
  BY DEF Init
<1> QED
  BY <1>1, StepDirectly, Invariance, PTL DEF Spec, RunsOnce, Directly

-----------------------------------------------------------------------------
(***************************************************************************)
(* The stage: where characters start, the one text of a document, copies   *)
(* and handles, windows, types                                             *)
(***************************************************************************)

\* The bytes of the characters before the k-th.
Before(k) == UNION {Bytes(i) : i \in 1..(k - 1)}

\* A text has finitely many characters.
LEMMA WidthsLength == StageAssumption => Len(Widths) \in Nat
BY LenProperties DEF StageAssumption

\* A character has one to four bytes.
LEMMA CharacterBytes ==
  ASSUME StageAssumption, NEW k \in 1..Len(Widths)
  PROVE  /\ Size(k) \in 1..4
         /\ IsFiniteSet(Bytes(k))
         /\ Cardinality(Bytes(k)) = Size(k)
<1>1. Widths[k] \in 0..4
  <2>1. Widths \in Seq(0..4)
    BY DEF StageAssumption
  <2> QED
    BY <2>1
<1>2. Size(k) \in 1..4
  BY <1>1 DEF Size
<1>3. /\ IsFiniteSet(1..Size(k))
      /\ Cardinality(1..Size(k)) = Size(k)
  <2>1. Size(k) \in Int /\ 1 \in Int /\ Size(k) >= 1
    BY <1>2
  <2> HIDE DEF Size
  <2>2. /\ IsFiniteSet(1..Size(k))
        /\ Cardinality(1..Size(k)) = IF 1 > Size(k) THEN 0 ELSE Size(k) - 1 + 1
    BY <2>1, FS_Interval
  <2> QED
    BY <2>1, <2>2
<1>4. IsFiniteSet({k}) /\ Cardinality({k}) = 1
  BY FS_Singleton
<1>5. /\ IsFiniteSet({k} \X (1..Size(k)))
      /\ Cardinality({k} \X (1..Size(k))) = Cardinality({k}) * Cardinality(1..Size(k))
  BY <1>3, <1>4, FS_Product
<1> QED
  BY <1>2, <1>3, <1>4, <1>5 DEF Bytes

\* An offset is a number of bytes.
LEMMA BeforeFinite ==
  ASSUME StageAssumption, NEW k \in 1..(Len(Widths) + 1)
  PROVE  /\ IsFiniteSet(Before(k))
         /\ Start[k] = Cardinality(Before(k))
         /\ Start[k] \in Nat
<1>1. Len(Widths) \in Nat
  BY WidthsLength
<1>2. Before(k) \subseteq (1..Len(Widths)) \X (1..4)
  <2>1. ASSUME NEW i \in 1..(k - 1) PROVE Bytes(i) \subseteq (1..Len(Widths)) \X (1..4)
    <3>1. i \in 1..Len(Widths)
      BY <1>1, <2>1
    <3>2. Size(i) \in 1..4
      BY <3>1, CharacterBytes
    <3> QED
      BY <3>1, <3>2 DEF Bytes
  <2> QED
    BY <2>1 DEF Before
<1>3. IsFiniteSet(1..Len(Widths)) /\ IsFiniteSet(1..4)
  <2>1. 1 \in Int /\ 4 \in Int /\ Len(Widths) \in Int
    BY <1>1
  <2> QED
    BY <2>1, FS_Interval, Zenon
<1>4. IsFiniteSet((1..Len(Widths)) \X (1..4))
  BY <1>3, FS_Product
<1>5. IsFiniteSet(Before(k))
  BY <1>2, <1>4, FS_Subset
<1>6. Start[k] = Cardinality(Before(k))
  BY DEF Start, Before
<1> QED
  BY <1>5, <1>6, FS_CardinalityType

\* A character starts where the one before it ends.
LEMMA NextStart ==
  ASSUME StageAssumption, NEW k \in 1..Len(Widths)
  PROVE  Start[k + 1] = Start[k] + Size(k)
<1>1. Len(Widths) \in Nat
  BY WidthsLength
<1>2. k \in 1..(Len(Widths) + 1) /\ k + 1 \in 1..(Len(Widths) + 1)
  BY <1>1
<1>3. Cardinality(Before(k + 1)) = Cardinality(Before(k) \cup Bytes(k))
  <2>1. \A i : i \in 1..(k + 1 - 1) <=> i \in 1..(k - 1) \/ i = k
    BY <1>1
  <2>2. Before(k + 1) = Before(k) \cup Bytes(k)
    BY <2>1 DEF Before
  <2> QED
    BY <2>2
<1>4. Before(k) \cap Bytes(k) = {}
  <2>1. \A i \in 1..(k - 1) : i # k
    BY <1>1
  <2> QED
    BY <2>1 DEF Before, Bytes
<1>5. Cardinality(Before(k) \cup Bytes(k))
        = Cardinality(Before(k)) + Cardinality(Bytes(k)) - Cardinality(Before(k) \cap Bytes(k))
  BY <1>2, BeforeFinite, CharacterBytes, FS_Union
<1>6. Cardinality(Before(k) \cap Bytes(k)) = 0
  BY <1>4, FS_EmptySet
<1>7. /\ Start[k] \in Nat /\ Start[k] = Cardinality(Before(k))
      /\ Start[k + 1] = Cardinality(Before(k + 1))
  BY <1>2, BeforeFinite
<1>8. Size(k) \in Nat /\ Cardinality(Bytes(k)) = Size(k)
  BY CharacterBytes
<1> QED
  BY <1>3, <1>5, <1>6, <1>7, <1>8

\* A later character starts later.
LEMMA StartIncreases ==
  ASSUME StageAssumption, NEW k \in 1..(Len(Widths) + 1), NEW j \in 1..(Len(Widths) + 1), j < k
  PROVE  Start[j] < Start[k]
<1>1. Len(Widths) \in Nat
  BY WidthsLength
<1>2. \A i \in 1..(j - 1) : i \in 1..(k - 1)
  BY <1>1
<1>3. Before(j) \subseteq Before(k)
  BY <1>2 DEF Before
<1>4. j \in 1..Len(Widths) /\ j \in 1..(k - 1) /\ \A i \in 1..(j - 1) : i # j
  BY <1>1
<1>5. <<j, 1>> \in Before(k)
  <2>1. <<j, 1>> \in Bytes(j)
    <3>1. 1 \in 1..Size(j)
      BY <1>4, CharacterBytes
    <3> QED
      BY <3>1 DEF Bytes
  <2> QED
    BY <1>4, <2>1 DEF Before
<1>6. <<j, 1>> \notin Before(j)
  BY <1>4 DEF Before, Bytes
<1>7. /\ Cardinality(Before(j)) <= Cardinality(Before(k))
      /\ Cardinality(Before(k)) # Cardinality(Before(j))
  <2>1. IsFiniteSet(Before(k))
    BY BeforeFinite
  <2> QED
    BY <1>3, <1>5, <1>6, <2>1, FS_Subset
<1>8. /\ Start[j] = Cardinality(Before(j)) /\ Start[j] \in Nat
      /\ Start[k] = Cardinality(Before(k)) /\ Start[k] \in Nat
  BY BeforeFinite
<1> QED
  BY <1>7, <1>8

\* The order of the natural numbers has no infinite descent.
LEMMA NaturalOrder == IsWellFoundedOn({p \in Nat \X Nat : p[1] < p[2]}, Nat)
BY NatLessThanWellFounded, Zenon DEF OpToRel

\* A bounded set of numbers has a greatest one.
LEMMA Greatest ==
  ASSUME NEW S \in SUBSET Nat, S # {}, NEW n \in Nat, \A i \in S : i <= n
  PROVE  Max(S) \in S /\ \A i \in S : i <= Max(S)
<1> DEFINE R == {p \in Nat \X Nat : p[1] < p[2]}
           Bounds == {b \in Nat : \A i \in S : i <= b}
<1>1. IsWellFoundedOn(R, Nat)
  BY NaturalOrder
<1>2. n \in Bounds /\ Bounds \subseteq Nat
  OBVIOUS
<1>3. \A i, j \in Bounds : i < j => <<i, j>> \in R
  OBVIOUS
<1>4. PICK b \in Bounds : \A c \in Bounds : ~(<<c, b>> \in R)
  <2> HIDE DEF R, Bounds
  <2> QED
    BY <1>1, <1>2, WFMin
<1>5. \A c \in Bounds : ~(c < b)
  BY <1>3, <1>4
<1>6. b \in S
  <2> SUFFICES ASSUME b \notin S PROVE FALSE
    OBVIOUS
  <2>1. PICK i \in S : TRUE
    OBVIOUS
  <2>2. b \in Nat /\ \A j \in S : j \in Nat /\ j <= b /\ j # b
    OBVIOUS
  <2>3. b - 1 \in Nat /\ \A j \in S : j <= b - 1
    BY <2>1, <2>2
  <2> QED
    BY <1>5, <2>2, <2>3
<1>7. \A i \in S : b >= i /\ i <= b
  OBVIOUS
<1>8. \E x \in S : \A y \in S : x >= y
  BY <1>6, <1>7
<1>9. Max(S) \in S /\ \A y \in S : Max(S) >= y
  BY <1>8, Zenon DEF Max
<1>10. Max(S) \in Nat /\ \A y \in S : y \in Nat
  BY <1>9
<1> QED
  BY <1>9, <1>10

-----------------------------------------------------------------------------
\* Every text told is the one kept for its handle.
KnownInv == \A t \in told : t[1] \in DOMAIN docTexts /\ docTexts[t[1]] = t[2]

\* Whatever becomes of the files, a stage is told one version of each handle it has
\* opened: the first text extracted is the one kept (doc_text).
THEOREM ReadsOneVersion == StageSpec => []PagesConsistent
<1>1. StageInit => KnownInv
  BY DEF StageInit, KnownInv
<1>2. ASSUME KnownInv, [StageNext]_stageVars PROVE KnownInv'
  <2> USE <1>2
  <2>1. CASE told' = {}
    BY <2>1 DEF KnownInv
  <2>2. CASE UNCHANGED <<told, docTexts>>
    BY <2>2 DEF KnownInv
  <2>3. ASSUME NEW c \in Commands, ReadText(c), told' # {} PROVE KnownInv'
    <3> DEFINE text == TextOf(c.handle)
               found == text # 0 /\ (c.kind = "DocumentText" \/ PageTextFrom(text, c.page))
    <3>1. /\ Remember(c.handle, text)
          /\ told' = IF found THEN told \cup {<<c.handle, text>>} ELSE told
      BY <2>3 DEF ReadText, Fails, EndStage
    <3>2. c.handle \in DOMAIN docTexts => text = docTexts[c.handle]
      BY DEF TextOf
    <3> HIDE DEF text
    <3>3. \A g \in DOMAIN docTexts : g \in DOMAIN docTexts' /\ docTexts'[g] = docTexts[g]
      BY <3>1, <3>2 DEF Remember
    <3>4. text # 0 => c.handle \in DOMAIN docTexts' /\ docTexts'[c.handle] = text
      BY <3>1 DEF Remember
    <3> QED
      BY <3>1, <3>3, <3>4 DEF KnownInv
  <2>4. told' = {} \/ UNCHANGED <<told, docTexts>>
          \/ \E c \in Commands : ReadText(c) /\ told' # {}
    <3>1. ASSUME NEW c \in Commands,
                 Open(c) \/ PageImage(c) \/ ImageOp(c)
          PROVE  told' = {} \/ UNCHANGED <<told, docTexts>>
      BY <3>1 DEF Open, PageImage, ImageOp, Opens, Fails, EndStage
    <3>2. ASSUME NEW c \in Commands,
                 DoneOrFail(c) \/ Emit(c) \/ Slice(c) \/ SliceBytes(c) \/ CallBackend(c)
          PROVE  told' = {} \/ UNCHANGED <<told, docTexts>>
      BY <3>2 DEF DoneOrFail, Emit, Slice, SliceBytes, CallBackend, Fails, EndStage, guest, tables
    <3>3. ASSUME NEW c \in Commands, FetchRefused(c) \/ FetchCached(c) \/ FetchStarts(c)
          PROVE  told' = {} \/ UNCHANGED <<told, docTexts>>
      BY <3>3 DEF FetchRefused, FetchCached, FetchStarts, Opens, Fails, EndStage, guest, tables
    <3>4. CASE Instantiate \/ HostCancelled \/ Trap \/ WorldStep \/ InferCancelled \/ AwaitRoom
      BY <3>4 DEF AwaitRoom, Instantiate, HostCancelled, Trap, WorldStep, InferCancelled,
         BackendEnds, FetchEnds, FetchBreaks, FetchSticks, Opens, Fails, EndStage, guest, tables
    <3>5. CASE NextStage \/ DieAndResume \/ Edit \/ Cancel \/ UNCHANGED stageVars
      BY <3>5 DEF NextStage, DieAndResume, Edit, Cancel, stageVars, guest, tables
    <3> QED
      BY <3>1, <3>2, <3>3, <3>4, <3>5 DEF StageNext, Turn
  <2> QED
    BY <2>1, <2>2, <2>3, <2>4
<1>3. KnownInv => PagesConsistent
  BY DEF KnownInv, PagesConsistent
<1> QED
  BY <1>1, <1>2, <1>3, PTL DEF StageSpec

-----------------------------------------------------------------------------
\* A copy is partial while it is being filled, or after a fault; and how a stage
\* ended is said when it did.
ControlInv ==
  /\ disk \in [Files -> Versions \cup {0}]
  /\ fetched \in [Urls -> {"absent", "partial", "whole"}]
  /\ pc = "fetching" => command.url \in Urls
  /\ \A u \in Urls : fetched[u] = "partial" => faulted \/ (pc = "fetching" /\ command.url = u)
  /\ pc # "ended" => code = "none"

\* One copy changes at a time.
LEMMA CopyState ==
  ASSUME fetched \in [Urls -> {"absent", "partial", "whole"}], NEW u \in Urls,
         NEW state \in {"absent", "partial", "whole"}, Copy(u, state)
  PROVE  /\ fetched' \in [Urls -> {"absent", "partial", "whole"}]
         /\ \A v \in Urls : fetched'[v] = IF v = u THEN state ELSE fetched[v]
BY DEF Copy

\* Every step keeps that: a download that is given up removes its file, or is a fault.
LEMMA ControlStep ==
  ASSUME ControlInv, [StageNext]_stageVars
  PROVE  ControlInv'
<1>1. ASSUME UNCHANGED files, pc' # "fetching", pc # "fetching", pc' = "ended" \/ UNCHANGED code,
             pc # "ended" \/ pc' = "ended"
      PROVE  ControlInv'
  BY <1>1 DEF ControlInv, files
<1>2. ASSUME UNCHANGED <<pc, command, code, fetched, faulted>>,
             disk' \in [Files -> Versions \cup {0}]
      PROVE  ControlInv'
  BY <1>2 DEF ControlInv
<1>3. ASSUME NEW c \in Commands,
             DoneOrFail(c) \/ Emit(c) \/ Open(c) \/ Slice(c) \/ SliceBytes(c)
      PROVE  ControlInv'
  BY <1>1, <1>3 DEF DoneOrFail, Emit, Open, Slice, SliceBytes, Issued, Fails, EndStage,
     Answer, files
<1>4. ASSUME NEW c \in Commands,
             ReadText(c) \/ PageImage(c) \/ ImageOp(c) \/ CallBackend(c)
      PROVE  ControlInv'
  BY <1>1, <1>4 DEF ReadText, PageImage, ImageOp, CallBackend, Issued, Fails, EndStage,
     Answer, files
<1>5. ASSUME NEW c \in Commands, FetchRefused(c) \/ FetchCached(c)
      PROVE  ControlInv'
  BY <1>1, <1>5 DEF FetchRefused, FetchCached, Issued, Fails, EndStage, Answer, files
<1>6. ASSUME NEW c \in Commands, FetchStarts(c)
      PROVE  ControlInv'
  <2>1. /\ Copy(c.url, "partial") /\ c.url \in Urls
        /\ pc = "guest" /\ pc' = "fetching" /\ command' = c
        /\ UNCHANGED <<disk, faulted, code>>
    BY <1>6 DEF FetchStarts, Issued, AllowsFetch
  <2> QED
    BY <2>1, CopyState DEF ControlInv
<1>7. CASE Instantiate \/ HostCancelled \/ Trap \/ BackendEnds \/ InferCancelled
  BY <1>1, <1>7 DEF Instantiate, HostCancelled, Trap, BackendEnds, InferCancelled, Resumes, Fails,
     EndStage, files
<1>8. CASE FetchEnds
  <2>1. /\ Copy(command.url, "whole") /\ pc = "fetching" /\ pc' = "guest"
        /\ UNCHANGED <<disk, faulted, code>>
    BY <1>8 DEF FetchEnds, Resumes
  <2> QED
    BY <2>1, CopyState DEF ControlInv
<1>9. CASE FetchBreaks
  <2>1. /\ Copy(command.url, "absent") /\ pc = "fetching" /\ pc' = "ended"
        /\ UNCHANGED <<disk, faulted>>
    BY <1>9 DEF FetchBreaks, EndStage
  <2> QED
    BY <2>1, CopyState DEF ControlInv
<1>10. CASE FetchSticks
  BY <1>10 DEF FetchSticks, EndStage, ControlInv
<1>11. CASE NextStage
  BY <1>11 DEF NextStage, ControlInv, files
<1>12. CASE DieAndResume
  BY <1>12 DEF DieAndResume, ControlInv
<1>13. CASE Edit
  <2>1. disk' \in [Files -> Versions \cup {0}]
    BY <1>13 DEF Edit, ControlInv
  <2> QED
    BY <1>2, <1>13, <2>1 DEF Edit
<1>14. CASE Cancel \/ UNCHANGED stageVars
  BY <1>2, <1>14 DEF Cancel, stageVars, files, ControlInv
<1>15. CASE AwaitRoom
  BY <1>1, <1>15 DEF AwaitRoom, files, ControlInv
<1> QED
  BY <1>3, <1>4, <1>5, <1>6, <1>7, <1>8, <1>9, <1>10, <1>11, <1>12, <1>13, <1>14, <1>15
     DEF StageNext, Turn, WorldStep

\* It holds of every stage.
LEMMA ControlInvariant == StageSpec => []ControlInv
<1>1. StageInit => ControlInv
  BY DEF StageInit, ControlInv
<1>2. ControlInv /\ [StageNext]_stageVars => ControlInv'
  BY ControlStep
<1> QED
  BY <1>1, <1>2, PTL DEF StageSpec

\* What a handle may be made of, so that it names a whole.
Handle == [from : Files \cup Urls \cup {"memory"}, content : Versions \cup {"partial", "whole"}]

Sound(handle) == handle.from \in Urls \cup {"memory"} /\ handle.content = "partial" => faulted

\* How the tables of handles and walks may change: not at all, with the process, by a
\* new handle, sound if the others are, or by a window.
LEMMA HandlesChange ==
  ASSUME StageAssumption, ControlInv, [StageNext]_stageVars
  PROVE  \/ UNCHANGED <<handles, walk>>
         \/ handles' = <<>> /\ walk' = <<>>
         \/ \E handle \in Handle :
              /\ Opens(handle.from, handle.content)
              /\ HandlesWhole => Sound(handle)
              /\ UNCHANGED faulted
         \/ \E c \in Commands : Slice(c) /\ UNCHANGED handles
<1> DEFINE Goal == \/ UNCHANGED <<handles, walk>>
                   \/ handles' = <<>> /\ walk' = <<>>
                   \/ \E handle \in Handle :
                        /\ Opens(handle.from, handle.content)
                        /\ HandlesWhole => Sound(handle)
                        /\ UNCHANGED faulted
                   \/ \E c \in Commands : Slice(c) /\ UNCHANGED handles
<1>1. ASSUME NEW from \in Files \cup Urls \cup {"memory"},
             NEW content \in Versions \cup {"partial", "whole"},
             Opens(from, content), UNCHANGED faulted,
             HandlesWhole /\ from \in Urls \cup {"memory"} /\ content = "partial" => faulted
      PROVE  Goal
  <2> DEFINE handle == [from |-> from, content |-> content]
  <2>1. handle \in Handle /\ handle.from = from /\ handle.content = content
    BY DEF Handle
  <2> HIDE DEF handle
  <2> QED
    BY <1>1, <2>1 DEF Sound
<1>2. ASSUME NEW c \in Commands, Open(c) PROVE Goal
  <2>1. CASE UNCHANGED <<handles, walk>>
    BY <2>1
  <2>2. CASE AllowsRead(c.path) /\ Opens(c.path, disk[c.path]) /\ UNCHANGED files
    <3>1. c.path \in Files /\ disk[c.path] \in Versions /\ c.path \notin Urls \cup {"memory"}
      BY <2>2 DEF AllowsRead, ControlInv, StageAssumption
    <3> QED
      BY <1>1, <2>2, <3>1 DEF files
  <2> QED
    BY <1>2, <2>1, <2>2 DEF Open, Fails
<1>3. ASSUME NEW c \in Commands, PageImage(c) PROVE Goal
  <2>1. CASE UNCHANGED <<handles, walk>>
    BY <2>1
  <2>2. ASSUME NEW r \in RenderInProcess(docPaths[c.handle]), NEW w \in Worker(r),
               RenderPage(w) # "nothing", Opens("memory", RenderPage(w)), UNCHANGED faulted
        PROVE  Goal
    <3>1. RenderPage(w) = "whole"
      BY <2>2 DEF RenderPage, Worker, RenderInProcess
    <3> QED
      BY <1>1, <2>2, <3>1
  <2> QED
    BY <1>3, <2>1, <2>2 DEF PageImage, Fails, files
<1>4. ASSUME NEW c \in Commands, ImageOp(c) PROVE Goal
  <2>1. CASE UNCHANGED <<handles, walk>>
    BY <2>1
  <2>2. ASSUME NEW image \in Apply(c.handle), image # "refused", Opens("memory", image),
               ReadAll({c.handle}), UNCHANGED faulted
        PROVE  Goal
    <3>1. image \in {"whole", "partial"} /\ c.handle \in DOMAIN handles
      BY <2>2 DEF Apply, ReadAll
    <3>2. HandlesWhole /\ image = "partial" => faulted
      BY <2>2, <3>1 DEF Apply, HandlesWhole
    <3> QED
      BY <1>1, <2>2, <3>1, <3>2
  <2> QED
    BY <1>4, <2>1, <2>2 DEF ImageOp, Fails, files
<1>5. ASSUME NEW c \in Commands, FetchCached(c) PROVE Goal
  <2>1. /\ c.url \in Urls /\ fetched[c.url] \in {"partial", "whole"}
        /\ fetched[c.url] = "partial" => faulted
        /\ Opens(c.url, fetched[c.url]) /\ UNCHANGED faulted
    BY <1>5 DEF FetchCached, AllowsFetch, Issued, ControlInv, files
  <2> QED
    BY <1>1, <2>1
<1>6. ASSUME FetchEnds PROVE Goal
  <2>1. command.url \in Urls /\ Opens(command.url, "whole") /\ UNCHANGED faulted
    BY <1>6 DEF FetchEnds, ControlInv
  <2> QED
    BY <1>1, <2>1
<1>7. ASSUME NEW c \in Commands, Slice(c) PROVE Goal
  BY <1>7 DEF Slice, Fails, tables
<1>8. ASSUME NEW c \in Commands,
             \/ DoneOrFail(c) \/ Emit(c) \/ SliceBytes(c) \/ ReadText(c) \/ CallBackend(c)
             \/ FetchRefused(c) \/ FetchStarts(c)
      PROVE  UNCHANGED <<handles, walk>>
  BY <1>8 DEF DoneOrFail, Emit, SliceBytes, ReadText, CallBackend, FetchRefused, FetchStarts,
     Fails, tables, guest
<1>9. ASSUME \/ Instantiate \/ HostCancelled \/ Trap \/ BackendEnds \/ InferCancelled
             \/ FetchBreaks \/ FetchSticks \/ AwaitRoom
      PROVE  UNCHANGED <<handles, walk>>
  BY <1>9 DEF AwaitRoom, Instantiate, HostCancelled, Trap, BackendEnds, InferCancelled, FetchBreaks,
     FetchSticks, Fails, tables, guest
<1>10. ASSUME NextStage \/ DieAndResume \/ Edit \/ Cancel \/ UNCHANGED stageVars PROVE Goal
  BY <1>10 DEF NextStage, DieAndResume, Edit, Cancel, stageVars, tables, guest
<1> HIDE DEF Goal
<1>11. Goal
  <2>1. UNCHANGED <<handles, walk>> => Goal
    BY DEF Goal
  <2>2. handles' = <<>> /\ walk' = <<>> => Goal
    BY DEF Goal
  <2> QED
    BY <1>2, <1>3, <1>4, <1>5, <1>6, <1>7, <1>8, <1>9, <1>10, <2>1, <2>2
       DEF StageNext, Turn, WorldStep
<1> QED
  BY <1>11 DEF Goal


\* Where a walk can stand: where a character starts, or at the end.
Place == {[at |-> Start[k + 1], chars |-> k] : k \in 0..Len(Widths)}

\* Where the window ends that starts after k characters; and that it can be empty
\* for want of room for the next one only.
LEMMA WindowEnd ==
  ASSUME StageAssumption, NEW k \in 0..Len(Widths), NEW n \in Nat
  PROVE  LET o == Start[k + 1] IN
           /\ \E m \in k..Len(Widths) : Cut(o, n) = Start[m + 1]
           /\ Cut(o, n) = o /\ o < Length =>
                k + 1 \in DOMAIN Widths /\ (Widths[k + 1] = 0 \/ n < Widths[k + 1])
<1> DEFINE o == Start[k + 1]
           S == {o} \cup {b \in Boundaries(o) : b <= o + n}
<1>1. Len(Widths) \in Nat
  BY WidthsLength
<1>2. k \in Nat /\ k + 1 \in 1..(Len(Widths) + 1)
  BY <1>1
<1>3. \A i \in 1..(Len(Widths) + 1) : Start[i] \in Nat
  BY BeforeFinite
<1>4. o \in Nat
  BY <1>2, <1>3
<1>5. S \in SUBSET Nat
  BY <1>3, <1>4 DEF Boundaries
<1>6. S # {} /\ o + n \in Nat /\ \A b \in S : b <= o + n
  BY <1>4
<1>7. Max(S) \in S /\ \A b \in S : b <= Max(S)
  <2> HIDE DEF S, o
  <2> QED
    BY <1>5, <1>6, Greatest
<1>8. Cut(o, n) = Max(S)
  BY DEF Cut
<1>9. \E m \in k..Len(Widths) : Cut(o, n) = Start[m + 1]
  <2>1. CASE Cut(o, n) = o
    <3>1. k \in k..Len(Widths)
      BY <1>1
    <3> QED
      BY <2>1, <3>1
  <2>2. CASE Cut(o, n) \in Boundaries(o)
    <3>1. PICK i \in 1..(Len(Widths) + 1) :
            Cut(o, n) = Start[i] /\ \E j \in 1..i : Start[j] = o
      BY <2>2 DEF Boundaries
    <3>2. PICK j \in 1..i : Start[j] = o
      BY <3>1
    <3>3. j \in 1..(Len(Widths) + 1) /\ j <= i /\ i \in Nat /\ j \in Nat
      BY <1>1
    <3>4. j = k + 1
      <4>1. Start[j] = Start[k + 1]
        BY <3>2
      <4>2. ~(j < k + 1)
        BY <1>2, <1>3, <3>3, <4>1, StartIncreases, SMTT(30)
      <4>3. ~(k + 1 < j)
        BY <1>2, <1>3, <3>3, <4>1, StartIncreases
      <4> QED
        BY <1>2, <3>3, <4>2, <4>3
    <3>5. i - 1 \in k..Len(Widths) /\ (i - 1) + 1 = i
      BY <1>1, <1>2, <3>3, <3>4
    <3> QED
      BY <3>1, <3>5
  <2> QED
    BY <1>7, <1>8, <2>1, <2>2
<1>10. ASSUME Cut(o, n) = o, o < Length
       PROVE  k + 1 \in DOMAIN Widths /\ (Widths[k + 1] = 0 \/ n < Widths[k + 1])
  <2>1. k + 1 # Len(Widths) + 1
    BY <1>3, <1>4, <1>10 DEF Length
  <2>2. k + 1 \in 1..Len(Widths)
    BY <1>1, <1>2, <2>1
  <2>3. Widths \in Seq(0..4)
    BY DEF StageAssumption
  <2>4. k + 1 \in DOMAIN Widths /\ Widths[k + 1] \in 0..4
    BY <2>2, <2>3
  <2>5. ASSUME Widths[k + 1] # 0, n >= Widths[k + 1] PROVE FALSE
    <3>1. Size(k + 1) = Widths[k + 1]
      BY <2>5 DEF Size
    <3>2. Start[(k + 1) + 1] = o + Widths[k + 1]
      BY <2>2, <3>1, NextStart
    <3>3. (k + 1) + 1 \in 1..(Len(Widths) + 1) /\ k + 1 \in 1..((k + 1) + 1)
      BY <1>1, <2>2
    <3>4. \A i \in (k + 1)..(((k + 1) + 1) - 1) : Widths[i] # 0
      <4>1. \A i \in (k + 1)..(((k + 1) + 1) - 1) : i = k + 1
        BY <1>2
      <4> QED
        BY <2>5, <4>1
    <3>5. Start[(k + 1) + 1] \in Boundaries(o)
      BY <3>3, <3>4 DEF Boundaries
    <3>6. o + Widths[k + 1] <= o + n /\ o + Widths[k + 1] > o
      BY <1>4, <2>4, <2>5
    <3>7. o + Widths[k + 1] \in S
      BY <3>2, <3>5, <3>6
    <3>8. o + Widths[k + 1] <= o
      BY <1>7, <1>8, <1>10, <3>7
    <3> QED
      BY <1>4, <2>4, <3>6, <3>8
  <2> QED
    BY <2>4, <2>5
<1> QED
  BY <1>9, <1>10

\* What a window wants to read: nothing only at the end or if nothing is asked for,
\* and less than the next character only if less than that is asked for.
LEMMA WantedBytes ==
  ASSUME StageAssumption, NEW k \in 0..Len(Widths), NEW n \in Nat
  PROVE  LET o == Start[k + 1]
             want == Wanted(o, n)
         IN /\ want \in Nat
            /\ want # 0 => o < Length
            /\ k + 1 \in DOMAIN Widths /\ want < Widths[k + 1] => n < Widths[k + 1]
<1> DEFINE o == Start[k + 1]
           want == Wanted(o, n)
<1>1. Len(Widths) \in Nat
  BY WidthsLength
<1>2. k + 1 \in 1..(Len(Widths) + 1) /\ Len(Widths) + 1 \in 1..(Len(Widths) + 1)
  BY <1>1
<1>3. o \in Nat /\ Length \in Nat
  BY <1>2, BeforeFinite DEF Length
<1>4. o <= Length
  <2>1. CASE k = Len(Widths)
    BY <1>3, <2>1 DEF Length
  <2>2. CASE k # Len(Widths)
    <3>1. k + 1 < Len(Widths) + 1
      BY <1>1, <2>2
    <3> QED
      BY <1>2, <1>3, <3>1, StartIncreases DEF Length
  <2> QED
    BY <2>1, <2>2
<1>5. want = IF n <= Length - o THEN n ELSE Length - o
  <2> DEFINE rest == Length - o
  <2>1. rest \in Int /\ n \in Int
    BY <1>3
  <2>2. Wanted(o, n) = Min({n, rest})
    BY DEF Wanted
  <2> HIDE DEF rest, o
  <2>3. Min({n, rest}) = IF n <= rest THEN n ELSE rest
    BY <2>1 DEF Min
  <2> QED
    BY <2>2, <2>3 DEF rest
<1>6. k + 1 \in DOMAIN Widths /\ want < Widths[k + 1] => n < Widths[k + 1]
  <2> SUFFICES ASSUME k + 1 \in DOMAIN Widths, want < Widths[k + 1] PROVE n < Widths[k + 1]
    OBVIOUS
  <2>1. Widths \in Seq(0..4)
    BY DEF StageAssumption
  <2>2. k + 1 \in 1..Len(Widths) /\ Widths[k + 1] \in 0..4
    BY <2>1
  <2>3. want \in Nat
    BY <1>3, <1>4, <1>5
  <2>4. Size(k + 1) = Widths[k + 1]
    BY <2>2, <2>3 DEF Size
  <2>5. Start[(k + 1) + 1] = o + Widths[k + 1]
    BY <2>2, <2>4, NextStart
  <2>6. o + Widths[k + 1] <= Length
    <3>1. CASE (k + 1) + 1 = Len(Widths) + 1
      BY <1>3, <2>2, <2>5, <3>1 DEF Length
    <3>2. CASE (k + 1) + 1 # Len(Widths) + 1
      <4>1. /\ (k + 1) + 1 < Len(Widths) + 1
            /\ (k + 1) + 1 \in 1..(Len(Widths) + 1)
        BY <1>1, <2>2, <3>2
      <4>2. Start[(k + 1) + 1] < Start[Len(Widths) + 1]
        BY <1>2, <4>1, StartIncreases
      <4> QED
        BY <1>3, <2>2, <2>5, <4>2 DEF Length
    <3> QED
      BY <3>1, <3>2
  <2> QED
    BY <1>3, <1>5, <2>2, <2>6
<1> QED
  BY <1>3, <1>4, <1>5, <1>6

\* The characters that lie whole between two places.
LEMMA WholeBetween ==
  ASSUME StageAssumption, NEW k \in 0..Len(Widths), NEW m \in k..Len(Widths)
  PROVE  Cardinality({i \in DOMAIN Widths :
                        Start[k + 1] <= Start[i] /\ Start[i + 1] <= Start[m + 1]}) = m - k
<1>1. Len(Widths) \in Nat /\ DOMAIN Widths = 1..Len(Widths)
  <2>1. Widths \in Seq(0..4)
    BY DEF StageAssumption
  <2> QED
    BY <2>1, WidthsLength
<1>2. k \in Nat /\ m \in Nat /\ k <= m /\ m <= Len(Widths)
  BY <1>1
<1>3. \A i, j \in 1..(Len(Widths) + 1) : Start[i] <= Start[j] <=> i <= j
  <2> SUFFICES ASSUME NEW i \in 1..(Len(Widths) + 1), NEW j \in 1..(Len(Widths) + 1)
               PROVE  Start[i] <= Start[j] <=> i <= j
    OBVIOUS
  <2>1. Start[i] \in Nat /\ Start[j] \in Nat
    BY BeforeFinite
  <2>2. i < j => Start[i] < Start[j]
    BY StartIncreases
  <2>3. j < i => Start[j] < Start[i]
    BY StartIncreases
  <2>4. i \in Nat /\ j \in Nat
    BY <1>1
  <2> QED
    BY <2>1, <2>2, <2>3, <2>4
<1>4. ASSUME NEW i \in DOMAIN Widths
      PROVE  Start[k + 1] <= Start[i] /\ Start[i + 1] <= Start[m + 1] <=> i \in (k + 1)..m
  <2>1. /\ i \in 1..(Len(Widths) + 1) /\ i + 1 \in 1..(Len(Widths) + 1)
        /\ k + 1 \in 1..(Len(Widths) + 1) /\ m + 1 \in 1..(Len(Widths) + 1)
    BY <1>1, <1>2
  <2>2. /\ Start[k + 1] <= Start[i] <=> k + 1 <= i
        /\ Start[i + 1] <= Start[m + 1] <=> i + 1 <= m + 1
    BY <1>3, <2>1
  <2> QED
    BY <1>2, <2>1, <2>2
<1>5. {i \in DOMAIN Widths : Start[k + 1] <= Start[i] /\ Start[i + 1] <= Start[m + 1]} = (k + 1)..m
  <2>1. \A i \in (k + 1)..m : i \in DOMAIN Widths
    BY <1>1, <1>2
  <2> QED
    BY <1>4, <2>1
<1>6. Cardinality((k + 1)..m) = m - k
  <2>1. Cardinality((k + 1)..m) = IF k + 1 > m THEN 0 ELSE m - (k + 1) + 1
    <3>1. k + 1 \in Int /\ m \in Int
      BY <1>2
    <3> QED
      BY <3>1, FS_Interval
  <2> QED
    BY <1>2, <2>1
<1> QED
  BY <1>5, <1>6

\* Handles and walks are one each.
TablesInv ==
  /\ handles \in Seq(Handle)
  /\ walk \in Seq(Place)
  /\ Len(walk) = Len(handles)

\* The window refused as too small is one that the next character does not fit in.
TooSmall(c) ==
  /\ c.handle \in DOMAIN walk
  /\ LET width == Widths[walk[c.handle].chars + 1] IN width = 0 \/ c.len < width

\* The fields of a place.
LEMMA PlaceFields ==
  ASSUME NEW p \in Place
  PROVE  p.chars \in 0..Len(Widths) /\ p.at = Start[p.chars + 1]
BY DEF Place

\* A window leads from place to place, or is refused with reason.
LEMMA SliceStep ==
  ASSUME StageAssumption, ControlInv, TablesInv, NEW c \in Commands, Slice(c)
  PROVE  /\ walk' \in Seq(Place) /\ Len(walk') = Len(walk)
         /\ code' = "window_too_small" => command' = c /\ TooSmall(c) /\ UNCHANGED walk
<1>1. CASE ~InFile(c)
  BY <1>1 DEF Slice, Fails, EndStage, TablesInv
<1>2. CASE InFile(c)
  <2> DEFINE h == c.handle
             o == walk[h].at
             k == walk[h].chars
             want == Wanted(o, c.len)
             next == Cut(o, want)
             whole == {i \in DOMAIN Widths : o <= Start[i] /\ Start[i + 1] <= next}
  <2>1. h \in DOMAIN walk /\ walk[h] \in Place
    <3>1. DOMAIN walk = 1..Len(walk) /\ DOMAIN handles = 1..Len(handles)
      BY DEF TablesInv
    <3> QED
      BY <1>2, <3>1 DEF InFile, TablesInv
  <2>2. k \in 0..Len(Widths) /\ o = Start[k + 1]
    BY <2>1, PlaceFields
  <2>3. c.len \in Nat
    BY DEF Slice, Issued, Commands, StageAssumption
  <2>0. /\ want \in Nat
        /\ want # 0 => o < Length
        /\ k + 1 \in DOMAIN Widths /\ want < Widths[k + 1] => c.len < Widths[k + 1]
    <3> HIDE DEF k
    <3>1. LET p == Start[k + 1]
              w == Wanted(p, c.len)
          IN /\ w \in Nat
             /\ w # 0 => p < Length
             /\ k + 1 \in DOMAIN Widths /\ w < Widths[k + 1] => c.len < Widths[k + 1]
      BY <2>2, <2>3, WantedBytes, Zenon
    <3> HIDE DEF o
    <3>2. want = Wanted(Start[k + 1], c.len)
      BY <2>2
    <3> QED
      BY <2>2, <3>1, <3>2, Zenon
  <2> HIDE DEF want
  <2>4. PICK m \in k..Len(Widths) : next = Start[m + 1]
    <3> HIDE DEF k
    <3>1. \E m \in k..Len(Widths) : Cut(Start[k + 1], want) = Start[m + 1]
      BY <2>2, <2>0, WindowEnd, Zenon
    <3> HIDE DEF o
    <3>2. next = Cut(Start[k + 1], want)
      BY <2>2
    <3> QED
      BY <3>1, <3>2, Zenon
  <2>5. next = o /\ want # 0 =>
          k + 1 \in DOMAIN Widths /\ (Widths[k + 1] = 0 \/ c.len < Widths[k + 1])
    <3> HIDE DEF k
    <3>1. next = o /\ o < Length =>
            k + 1 \in DOMAIN Widths /\ (Widths[k + 1] = 0 \/ want < Widths[k + 1])
      BY <2>2, <2>0, WindowEnd
    <3> HIDE DEF next, o
    <3> QED
      BY <2>0, <3>1
  <2>6. Cardinality(whole) = m - k
    <3> HIDE DEF k
    <3> QED
      BY <2>2, <2>4, WholeBetween
  <2>7. CASE next = o /\ want # 0
    <3>1. /\ code' = "window_too_small" /\ command' = c
          /\ UNCHANGED <<handles, walk>>
      BY <1>2, <2>7 DEF Slice, EndStage, want
    <3> QED
      BY <2>1, <2>5, <2>7, <3>1 DEF TooSmall, TablesInv
  <2>8. CASE ~(next = o /\ want # 0)
    <3>1. /\ walk' = [walk EXCEPT ![h] = [at |-> next, chars |-> k + Cardinality(whole)]]
          /\ UNCHANGED <<pc, code>> /\ pc = "guest"
      BY <1>2, <2>8 DEF Slice, Answer, Issued, want
    <3>2. k + Cardinality(whole) = m /\ m \in 0..Len(Widths)
      <4>1. Len(Widths) \in Nat
        BY WidthsLength
      <4> HIDE DEF k, whole
      <4> QED
        BY <2>2, <2>4, <2>6, <4>1
    <3>3. [at |-> next, chars |-> m] \in Place
      BY <2>4, <3>2 DEF Place
    <3>4. walk' = [walk EXCEPT ![h] = [at |-> next, chars |-> m]]
      BY <3>1, <3>2
    <3> HIDE DEF next, k, whole, o, h
    <3>5. walk' \in Seq(Place) /\ Len(walk') = Len(walk)
      BY <2>1, <3>3, <3>4 DEF TablesInv
    <3>6. code' # "window_too_small"
      BY <3>1 DEF ControlInv
    <3> QED
      BY <3>5, <3>6
  <2> QED
    BY <2>7, <2>8
<1> QED
  BY <1>1, <1>2

\* A new handle has its walk, which begins at the first character.
LEMMA OpenedTables ==
  ASSUME StageAssumption, TablesInv, NEW handle \in Handle, Opens(handle.from, handle.content)
  PROVE  /\ handles' = Append(handles, handle)
         /\ TablesInv'
<1>1. handle = [from |-> handle.from, content |-> handle.content]
  BY DEF Handle
<1>2. handles' = Append(handles, handle)
  BY <1>1 DEF Opens
<1>3. walk' = Append(walk, [at |-> 0, chars |-> 0])
  BY DEF Opens
<1>4. [at |-> 0, chars |-> 0] \in Place
  <2>1. Len(Widths) \in Nat
    BY WidthsLength
  <2>2. 0 \in 0..Len(Widths) /\ 1 \in 1..(Len(Widths) + 1)
    BY <2>1
  <2>3. Before(1) = {}
    BY DEF Before
  <2>4. Start[0 + 1] = 0
    BY <2>2, <2>3, BeforeFinite, FS_EmptySet
  <2> QED
    BY <2>2, <2>4 DEF Place
<1> HIDE DEF Place, Handle
<1>5. handles' \in Seq(Handle) /\ Len(handles') = Len(handles) + 1
  BY <1>2 DEF TablesInv
<1>6. walk' \in Seq(Place) /\ Len(walk') = Len(walk) + 1
  BY <1>3, <1>4 DEF TablesInv
<1>7. Place' = Place /\ Handle' = Handle
  BY DEF Place, Handle, Start, Bytes, Size
<1> QED
  BY <1>2, <1>5, <1>6, <1>7 DEF TablesInv

\* Every step keeps the tables in line.
LEMMA TablesStep ==
  ASSUME StageAssumption, ControlInv, TablesInv, [StageNext]_stageVars
  PROVE  TablesInv'
<1>1. CASE UNCHANGED <<handles, walk>>
  BY <1>1 DEF TablesInv
<1>2. CASE handles' = <<>> /\ walk' = <<>>
  BY <1>2 DEF TablesInv
<1>3. ASSUME NEW handle \in Handle, Opens(handle.from, handle.content) PROVE TablesInv'
  BY <1>3, OpenedTables
<1>4. ASSUME NEW c \in Commands, Slice(c), UNCHANGED handles PROVE TablesInv'
  <2>1. walk' \in Seq(Place) /\ Len(walk') = Len(walk)
    BY <1>4, SliceStep
  <2> QED
    BY <1>4, <2>1 DEF TablesInv
<1> QED
  BY <1>1, <1>2, <1>3, <1>4, HandlesChange

\* They are in line in every stage.
LEMMA TablesInvariant == StageSpec => []TablesInv
<1>1. StageInit => TablesInv
  BY DEF StageInit, TablesInv
<1>2. ControlInv /\ TablesInv /\ [StageNext]_stageVars => TablesInv'
  BY TablesStep, StageAssumption
<1> QED
  BY <1>1, <1>2, ControlInvariant, PTL DEF StageSpec

\* A fault is not forgotten.
LEMMA FaultStays == [StageNext]_stageVars /\ faulted => faulted'
<1> SUFFICES ASSUME [StageNext]_stageVars, faulted PROVE faulted'
  OBVIOUS
<1>1. ASSUME NEW c \in Commands,
             \/ DoneOrFail(c) \/ Emit(c) \/ Open(c) \/ Slice(c) \/ SliceBytes(c) \/ ReadText(c)
      PROVE  faulted'
  BY <1>1 DEF DoneOrFail, Emit, Open, Slice, SliceBytes, ReadText, Fails, files
<1>2. ASSUME NEW c \in Commands,
             \/ PageImage(c) \/ ImageOp(c) \/ CallBackend(c)
             \/ FetchRefused(c) \/ FetchCached(c) \/ FetchStarts(c)
      PROVE  faulted'
  BY <1>2 DEF PageImage, ImageOp, CallBackend, FetchRefused, FetchCached, FetchStarts, Fails, files
<1>3. CASE Instantiate \/ HostCancelled \/ Trap \/ InferCancelled \/ WorldStep \/ AwaitRoom
  BY <1>3 DEF AwaitRoom, Instantiate, HostCancelled, Trap, InferCancelled, WorldStep, BackendEnds,
     FetchEnds, FetchBreaks, FetchSticks, Fails, files
<1>4. CASE NextStage \/ DieAndResume \/ Edit \/ Cancel \/ UNCHANGED stageVars
  BY <1>4 DEF NextStage, DieAndResume, Edit, Cancel, stageVars, files
<1> QED
  BY <1>1, <1>2, <1>3, <1>4 DEF StageNext, Turn

\* Nothing but a window is refused as too small, and that is how the stage ended then.
LEMMA RefusalStays ==
  ASSUME ControlInv, [StageNext]_stageVars
  PROVE  \/ code' # "window_too_small"
         \/ UNCHANGED <<code, command, walk>>
         \/ \E c \in Commands : Slice(c)
<1>1. ASSUME NEW c \in Commands,
             \/ DoneOrFail(c) \/ Emit(c) \/ Open(c) \/ SliceBytes(c) \/ ReadText(c)
      PROVE  code' # "window_too_small"
  BY <1>1 DEF DoneOrFail, Emit, Open, SliceBytes, ReadText, Issued, ReadDenial, Answer, Fails,
     EndStage, ControlInv
<1>2. ASSUME NEW c \in Commands,
             \/ PageImage(c) \/ ImageOp(c) \/ FetchRefused(c) \/ FetchCached(c) \/ FetchStarts(c)
      PROVE  code' # "window_too_small"
  BY <1>2 DEF PageImage, ImageOp, FetchRefused, FetchCached, FetchStarts, Issued, Answer, Fails,
     EndStage, ControlInv
<1>3. ASSUME NEW c \in Commands, CallBackend(c) PROVE code' # "window_too_small"
  <2>1. Refused(c) # "no" => Refused(c) \in {"unsupported", "capability_denied"}
    BY <1>3 DEF CallBackend, Issued, Refused
  <2> QED
    BY <1>3, <2>1 DEF CallBackend, Issued, Fails, EndStage, ControlInv
<1>4. CASE Instantiate \/ HostCancelled \/ Trap \/ InferCancelled \/ WorldStep \/ AwaitRoom
  BY <1>4 DEF AwaitRoom, guest, Instantiate, HostCancelled, Trap, InferCancelled, WorldStep,
     BackendEnds, FetchEnds, FetchBreaks, FetchSticks, Resumes, Fails, EndStage, ControlInv
<1>5. CASE NextStage \/ DieAndResume \/ Edit \/ Cancel \/ UNCHANGED stageVars
  BY <1>5 DEF NextStage, DieAndResume, Edit, Cancel, stageVars, guest
<1> QED
  BY <1>1, <1>2, <1>3, <1>4, <1>5 DEF StageNext, Turn

\* A handle on a fetched resource or a rendered page names all of it, unless a
\* download was cut where no code could remove its file (fetch_to_file, render_page).
THEOREM HandlesAreWhole == StageSpec => []HandlesWhole
<1>1. StageInit => HandlesWhole
  BY DEF StageInit, HandlesWhole
<1>2. ASSUME ControlInv, TablesInv, HandlesWhole, [StageNext]_stageVars
      PROVE  HandlesWhole'
  <2>1. faulted => faulted'
    BY <1>2, FaultStays
  <2>2. CASE handles' = handles
    BY <1>2, <2>1, <2>2 DEF HandlesWhole
  <2>3. CASE handles' = <<>>
    BY <2>3 DEF HandlesWhole
  <2>4. ASSUME NEW handle \in Handle, Opens(handle.from, handle.content),
               HandlesWhole => Sound(handle), UNCHANGED faulted
        PROVE  HandlesWhole'
    <3>1. handles' = Append(handles, handle)
      BY <1>2, <2>4, OpenedTables, StageAssumption
    <3>2. /\ DOMAIN handles' = 1..(Len(handles) + 1)
          /\ \A h \in 1..Len(handles) : handles'[h] = handles[h]
          /\ handles'[Len(handles) + 1] = handle
      BY <1>2, <3>1 DEF TablesInv
    <3>3. DOMAIN handles = 1..Len(handles) /\ Len(handles) \in Nat
      BY <1>2 DEF TablesInv
    <3>4. \A h \in DOMAIN handles' : h \in DOMAIN handles \/ handles'[h] = handle
      BY <3>2, <3>3
    <3> QED
      BY <1>2, <2>4, <3>2, <3>3, <3>4 DEF HandlesWhole, Sound
  <2> QED
    BY <1>2, <2>2, <2>3, <2>4, HandlesChange, StageAssumption
<1> QED
  BY <1>1, <1>2, ControlInvariant, TablesInvariant, PTL DEF StageSpec

\* A walk of windows stands at the start of a character, having read all before it,
\* whatever the text and the lengths asked for; and a window is refused only if the
\* next character does not fit in it, or is none (Handles::slice).
THEOREM WindowsAreTiled == StageSpec => []WindowsTile
<1> DEFINE Inv == code = "window_too_small" => TooSmall(command)
<1>1. StageInit => Inv
  BY DEF StageInit
<1>2. ASSUME ControlInv, TablesInv, Inv, [StageNext]_stageVars
      PROVE  Inv'
  <2>1. CASE code' # "window_too_small"
    BY <2>1
  <2>2. CASE UNCHANGED <<code, command, walk>>
    BY <1>2, <2>2 DEF TooSmall
  <2>3. ASSUME NEW c \in Commands, Slice(c) PROVE Inv'
    <3>1. code' = "window_too_small" => command' = c /\ TooSmall(c) /\ walk' = walk
      BY <1>2, <2>3, SliceStep, StageAssumption
    <3> QED
      BY <3>1 DEF TooSmall
  <2> QED
    BY <1>2, <2>1, <2>2, <2>3, RefusalStays
<1>3. TablesInv /\ Inv => WindowsTile
  <2> SUFFICES ASSUME TablesInv, Inv PROVE WindowsTile
    OBVIOUS
  <2>1. \A h \in DOMAIN walk : walk[h] \in Place
    BY DEF TablesInv
  <2>2. \A h \in DOMAIN walk : walk[h].at = Start[walk[h].chars + 1]
    BY <2>1, PlaceFields
  <2> QED
    BY <2>2 DEF WindowsTile, TooSmall
<1> QED
  BY <1>1, <1>2, <1>3, TablesInvariant, ControlInvariant, PTL DEF StageSpec

\* Every step keeps the types.
LEMMA TypeStep ==
  ASSUME StageAssumption, ControlInv, TablesInv, StageTypeOK, [StageNext]_stageVars
  PROVE  StageTypeOK'
<1> DEFINE Docs == /\ Len(handles) <= MaxHandles
                   /\ DOMAIN docPaths \subseteq DOMAIN handles
                   /\ DOMAIN docTexts \subseteq DOMAIN docPaths
<1>1. ControlInv' /\ TablesInv'
  BY ControlStep, TablesStep
<1>2. DOMAIN EmptyMap = {}
  BY DEF EmptyMap
<1>3. ASSUME docPaths' = EmptyMap, docTexts' = EmptyMap, UNCHANGED handles PROVE Docs'
  BY <1>2, <1>3 DEF StageTypeOK
<1>4. ASSUME UNCHANGED tables PROVE Docs'
  BY <1>4 DEF tables, StageTypeOK
<1>5. ASSUME NEW from, NEW content, Opens(from, content) PROVE
        /\ Len(handles') <= MaxHandles
        /\ DOMAIN handles' = DOMAIN handles \cup {Len(handles) + 1}
        /\ UNCHANGED docTexts
  <2>1. /\ handles' = Append(handles, [from |-> from, content |-> content])
        /\ Len(handles) < MaxHandles
    BY <1>5 DEF Opens
  <2>2. Len(handles') = Len(handles) + 1 /\ Len(handles) \in Nat /\ MaxHandles \in Nat
    BY <2>1 DEF TablesInv, StageAssumption
  <2>3. DOMAIN handles' = 1..Len(handles') /\ DOMAIN handles = 1..Len(handles)
    BY <1>1 DEF TablesInv
  <2>4. 1..(Len(handles) + 1) = 1..Len(handles) \cup {Len(handles) + 1}
    BY <2>2
  <2> QED
    BY <1>5, <2>1, <2>2, <2>3, <2>4 DEF Opens
<1>6. ASSUME NEW from, NEW content, Opens(from, content), UNCHANGED docPaths PROVE Docs'
  BY <1>5, <1>6 DEF StageTypeOK
<1>7. ASSUME NEW c \in Commands, Open(c) PROVE Docs'
  <2>1. CASE Opens(c.path, disk[c.path])
             /\ docPaths' = [h \in DOMAIN docPaths \cup {Len(handles) + 1} |->
                               IF h \in DOMAIN docPaths THEN docPaths[h] ELSE c.path]
    <3>1. DOMAIN docPaths' = DOMAIN docPaths \cup {Len(handles) + 1}
      BY <2>1
    <3> QED
      BY <1>5, <2>1, <3>1 DEF StageTypeOK
  <2> QED
    BY <1>3, <1>7, <2>1 DEF Open, Fails, EndStage
<1>8. ASSUME NEW c \in Commands, ReadText(c) PROVE Docs'
  <2>1. CASE Remember(c.handle, TextOf(c.handle)) /\ c.handle \in DOMAIN docPaths
             /\ UNCHANGED <<handles, docPaths>>
    <3>1. DOMAIN docTexts' \subseteq DOMAIN docTexts \cup {c.handle}
      BY <2>1 DEF Remember
    <3> QED
      BY <2>1, <3>1 DEF StageTypeOK
  <2> QED
    BY <1>3, <1>8, <2>1 DEF ReadText, Fails, EndStage
<1>9. ASSUME NEW c \in Commands,
             DoneOrFail(c) \/ Emit(c) \/ Slice(c) \/ SliceBytes(c) \/ CallBackend(c)
      PROVE  Docs'
  <2> HIDE DEF Docs
  <2> QED
    BY <1>3, <1>4, <1>9 DEF DoneOrFail, Emit, Slice, SliceBytes, CallBackend, Fails, EndStage
<1>10. ASSUME NEW c \in Commands, PageImage(c) \/ ImageOp(c) PROVE Docs'
  <2> HIDE DEF Docs
  <2> QED
    BY <1>3, <1>6, <1>10 DEF PageImage, ImageOp, Fails, EndStage
<1>11. ASSUME NEW c \in Commands, FetchRefused(c) \/ FetchCached(c) \/ FetchStarts(c) PROVE Docs'
  <2> HIDE DEF Docs
  <2> QED
    BY <1>3, <1>4, <1>6, <1>11 DEF FetchRefused, FetchCached, FetchStarts, Fails, EndStage
<1>12. ASSUME \/ Instantiate \/ HostCancelled \/ Trap \/ InferCancelled \/ WorldStep
              \/ AwaitRoom
       PROVE  Docs'
  <2> HIDE DEF Docs
  <2> QED
    BY <1>3, <1>4, <1>6, <1>12 DEF AwaitRoom, Instantiate, HostCancelled, Trap, InferCancelled,
       WorldStep, BackendEnds, FetchEnds, FetchBreaks, FetchSticks, Fails, EndStage
<1>13. ASSUME DieAndResume PROVE Docs'
  <2>1. handles' = <<>> /\ docPaths' = EmptyMap /\ docTexts' = EmptyMap
    BY <1>13 DEF DieAndResume
  <2>2. Len(<<>>) = 0 /\ MaxHandles \in Nat
    BY DEF StageAssumption
  <2> QED
    BY <1>2, <2>1, <2>2
<1>14. ASSUME NextStage \/ Edit \/ Cancel \/ UNCHANGED stageVars PROVE Docs'
  <2> HIDE DEF Docs
  <2> QED
    BY <1>4, <1>14 DEF NextStage, Edit, Cancel, stageVars
<1>15. Docs'
  <2> HIDE DEF Docs
  <2> QED
    BY <1>7, <1>8, <1>9, <1>10, <1>11, <1>12, <1>13, <1>14 DEF StageNext, Turn
<1>16. (DOMAIN walk = DOMAIN handles)'
  BY <1>1 DEF TablesInv
<1> QED
  BY <1>1, <1>15, <1>16 DEF StageTypeOK, ControlInv

\* The types of a stage: what is known of documents is known of open handles, and
\* every handle has its walk (run_stage, Handles).
THEOREM StageTypeCorrect == StageSpec => []StageTypeOK
<1>1. StageInit => StageTypeOK
  <2> SUFFICES ASSUME StageInit PROVE StageTypeOK
    OBVIOUS
  <2>1. Len(handles) = 0 /\ MaxHandles \in Nat /\ DOMAIN docPaths = {} /\ DOMAIN docTexts = {}
    BY StageAssumption DEF StageInit, EmptyMap, StageAssumption
  <2> QED
    BY <2>1 DEF StageInit, StageTypeOK
<1>2. ControlInv /\ TablesInv /\ StageTypeOK /\ [StageNext]_stageVars => StageTypeOK'
  BY TypeStep, StageAssumption
<1> QED
  BY <1>1, <1>2, ControlInvariant, TablesInvariant, PTL DEF StageSpec
=============================================================================
