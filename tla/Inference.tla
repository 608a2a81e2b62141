------------------------------ MODULE Inference ------------------------------
(***************************************************************************)
(* One inference of a stage.  The embedded backend generates on a blocking *)
(* thread; its tokens cross to the backend's future over one channel and   *)
(* from it to the runner over another, and the guest's verdict on them     *)
(* comes back through two flags.  An Ollama server generates by itself and *)
(* `inner` is its connection; the future stops it by dropping that.  The   *)
(* runner selects, in this order, a cancellation, a token, the end of the  *)
(* inference.  A token is the number of its generation.                    *)
(***************************************************************************)
EXTENDS Naturals, Sequences, SequencesExt

CONSTANTS
  Budget,         \* max_tokens of the request
  EventCapacity   \* what the job's event channel holds

ASSUME InferenceAssumption == Budget \in Nat /\ EventCapacity \in Nat \ {0}

VARIABLES
  backend,     \* "embedded" or "ollama"
  thread,      \* what generates: "priming", "generating", "checking", "ended" or "failed"
  generated,   \* tokens generated
  inner,       \* the backend's channel, or the lines of the connection
  innerStop,   \* the backend's stop flag
  outer,       \* the runner's channel
  stop,        \* the runner's stop flag
  cancelled,   \* the job's cancellation token
  pc,          \* where the runner is
  current,     \* the token its select took
  break,       \* what ended its select
  mail,        \* the job's event channel
  forwarded,   \* the tokens sent as events
  atDrop,      \* tokens generated when the inference was dropped
  outcome      \* how the inference ended for the stage

threadVars == <<backend, thread, generated>>
channelVars == <<inner, innerStop, outer, stop>>
runnerVars == <<pc, current, break, mail, forwarded, atDrop, outcome>>
inferenceVars == <<threadVars, channelVars, cancelled, runnerVars>>

InferenceInit ==
  /\ backend \in {"embedded", "ollama"}
  /\ thread = "priming" /\ generated = 0
  /\ inner = <<>> /\ innerStop = FALSE
  /\ outer = <<>> /\ stop = FALSE
  /\ cancelled = FALSE
  /\ pc = "select" /\ current = 0 /\ break = "none"
  /\ mail = <<>> /\ forwarded = <<>>
  /\ atDrop = 0 /\ outcome = "none"

\* The backend's future is alive, and with it the receiver of `inner`.
Listening == pc \in {"select", "send", "poll", "join"}
-----------------------------------------------------------------------------

\* The prompt and the images are read into the context, if they fit in it, their
\* template applies and there is a projector for them.
Prime ==
  /\ backend = "embedded"
  /\ thread = "priming"
  /\ thread' \in {"generating", "failed"}
  /\ UNCHANGED <<backend, generated, channelVars, cancelled, runnerVars>>

\* The request reaches the server and is not refused.
Request ==
  /\ backend = "ollama"
  /\ thread = "priming"
  /\ thread' \in {"generating", "failed"}
  /\ UNCHANGED <<backend, generated, channelVars, cancelled, runnerVars>>

\* A mutant of Generate: a send that finds no receiver is not noticed.
GenerateOn ==
  /\ thread = "generating"
  /\ generated < Budget
  /\ generated' = generated + 1
  /\ thread' = "checking"
  /\ inner' = IF Listening THEN Append(inner, generated + 1) ELSE inner
  /\ UNCHANGED <<backend, innerStop, outer, stop, cancelled, runnerVars>>

\* generate: a token is sampled and sent.  A send that finds no receiver ends
\* the loop, as a closed connection does a server's; otherwise the stop flag,
\* which no server has, is looked at next.
Generate ==
  /\ thread = "generating"
  /\ generated < Budget
  /\ generated' = generated + 1
  /\ IF Listening
       THEN inner' = Append(inner, generated + 1) /\ thread' = "checking"
       ELSE thread' = "ended" /\ UNCHANGED inner
  /\ UNCHANGED <<backend, innerStop, outer, stop, cancelled, runnerVars>>

CheckStop ==
  /\ thread = "checking"
  /\ thread' = IF innerStop THEN "ended" ELSE "generating"
  /\ UNCHANGED <<backend, generated, channelVars, cancelled, runnerVars>>

\* The model ends its text, the budget is used up, or decoding fails; or the
\* connection closes, which to infer is an end, or breaks or reports an error.
EndGeneration ==
  /\ thread = "generating"
  /\ thread' \in {"ended", "failed"}
  /\ UNCHANGED <<backend, generated, channelVars, cancelled, runnerVars>>

ThreadStep == Prime \/ Request \/ Generate \/ CheckStop \/ EndGeneration
-----------------------------------------------------------------------------

\* The client cancels the job.
Cancel ==
  /\ ~cancelled
  /\ cancelled' = TRUE
  /\ UNCHANGED <<threadVars, channelVars, runnerVars>>

\* The select's first branch; leaving the block drops the future.
SelectCancelled ==
  /\ pc = "select"
  /\ cancelled
  /\ pc' = "drain"
  /\ break' = "cancelled"
  /\ atDrop' = generated
  /\ UNCHANGED <<threadVars, channelVars, cancelled, current, mail, forwarded, outcome>>

\* Its second branch: from here on, neither a cancellation nor the inference
\* is looked at before the token is sent.
SelectToken ==
  /\ pc = "select"
  /\ ~cancelled
  /\ outer # <<>>
  /\ current' = Head(outer)
  /\ outer' = Tail(outer)
  /\ pc' = "send"
  /\ UNCHANGED <<threadVars, inner, innerStop, stop, cancelled, break, mail, forwarded,
                 atDrop, outcome>>

\* A mutant of Room: an unbounded channel.
RoomAlways == TRUE

\* Sending waits while the channel is full.
Room == Len(mail) < EventCapacity

Send(token) ==
  /\ Room
  /\ mail' = Append(mail, token)
  /\ forwarded' = Append(forwarded, token)

\* call_on_token: the guest lets the generation go on, as does one that does
\* not export it, asks for its end, or traps.
OnToken(verdict) ==
  \/ verdict = "go_on" /\ pc' = "select" /\ UNCHANGED <<stop, outcome, atDrop>>
  \/ verdict = "stop" /\ pc' = "select" /\ stop' = TRUE /\ UNCHANGED <<outcome, atDrop>>
  \/ /\ verdict = "trap"
     /\ pc' = "left"
     /\ outcome' = "trap"
     /\ atDrop' = generated
     /\ UNCHANGED stop

\* The token becomes an event, then the guest judges it.
SendToken ==
  /\ pc = "send"
  /\ Send(current)
  /\ \E verdict \in {"go_on", "stop", "trap"} : OnToken(verdict)
  /\ UNCHANGED <<threadVars, inner, innerStop, outer, cancelled, current, break>>

\* Its third branch: the inference is polled ...
PollInfer ==
  /\ pc = "select"
  /\ ~cancelled
  /\ outer = <<>>
  /\ pc' = "poll"
  /\ UNCHANGED <<threadVars, channelVars, cancelled, current, break, mail, forwarded, atDrop,
                 outcome>>

\* ... and first hands on every piece it finds, learning of a stop by it,
PollPiece ==
  /\ pc = "poll"
  /\ backend = "embedded"
  /\ inner # <<>>
  /\ outer' = Append(outer, Head(inner))
  /\ inner' = Tail(inner)
  /\ innerStop' = (innerStop \/ stop)
  /\ UNCHANGED <<threadVars, stop, cancelled, runnerVars>>

\* The inference has returned, and its future is gone.
Returned(how) ==
  /\ pc' = "drain"
  /\ break' = how
  /\ atDrop' = generated

\* of a server, every line; a stop it learns of ends the inference there, as an
\* answer, and what else the connection holds is dropped with it,
PollLine ==
  /\ pc = "poll"
  /\ backend = "ollama"
  /\ inner # <<>>
  /\ outer' = Append(outer, Head(inner))
  /\ inner' = Tail(inner)
  /\ IF stop THEN Returned("ended") ELSE UNCHANGED <<pc, break, atDrop>>
  /\ UNCHANGED <<threadVars, innerStop, stop, cancelled, current, mail, forwarded, outcome>>

\* whose last line, or whose error, comes after all the others;
EndOfLines ==
  /\ pc = "poll"
  /\ backend = "ollama"
  /\ inner = <<>>
  /\ IF thread \in {"ended", "failed"}
       THEN Returned(thread)
       ELSE pc' = "select" /\ UNCHANGED <<break, atDrop>>
  /\ UNCHANGED <<threadVars, channelVars, cancelled, current, mail, forwarded, outcome>>

\* of a thread, having found none, how it is,
PollEmpty ==
  /\ pc = "poll"
  /\ backend = "embedded"
  /\ inner = <<>>
  /\ pc' = "join"
  /\ UNCHANGED <<threadVars, channelVars, cancelled, current, break, mail, forwarded, atDrop,
                 outcome>>

\* which still runs,
JoinPending ==
  /\ pc = "join"
  /\ thread \in {"priming", "generating", "checking"}
  /\ pc' = "select"
  /\ UNCHANGED <<threadVars, channelVars, cancelled, current, break, mail, forwarded, atDrop,
                 outcome>>

\* A mutant of Joined: what was sent between the two looks is left behind.
JoinedAtOnce ==
  /\ pc = "join"
  /\ thread \in {"ended", "failed"}
  /\ Returned(thread)
  /\ UNCHANGED <<threadVars, channelVars, cancelled, current, mail, forwarded, outcome>>

\* or has ended: what it sent since the last piece is handed on as well.
Joined ==
  /\ pc = "join"
  /\ thread \in {"ended", "failed"}
  /\ outer' = outer \o inner
  /\ inner' = <<>>
  /\ Returned(thread)
  /\ UNCHANGED <<threadVars, innerStop, stop, cancelled, current, mail, forwarded, outcome>>

\* What is still queued is forwarded, however the select ended.
DrainToken ==
  /\ pc = "drain"
  /\ outer # <<>>
  /\ Send(Head(outer))
  /\ outer' = Tail(outer)
  /\ UNCHANGED <<threadVars, inner, innerStop, stop, cancelled, pc, current, break, atDrop,
                 outcome>>

Conclude ==
  /\ pc = "drain"
  /\ outer = <<>>
  /\ pc' = "left"
  /\ outcome' = CASE break = "cancelled" -> "cancelled"
                  [] break = "failed" -> "error"
                  [] break = "ended" -> "answer"
  /\ UNCHANGED <<threadVars, channelVars, cancelled, current, break, mail, forwarded, atDrop>>

RunnerStep ==
  \/ SelectCancelled \/ SelectToken \/ SendToken \/ PollInfer \/ PollPiece \/ PollLine
  \/ EndOfLines \/ PollEmpty \/ JoinPending \/ Joined \/ DrainToken \/ Conclude
-----------------------------------------------------------------------------

\* An inference that answers, or fails, has forwarded every token generated,
\* in order; a cancelled or trapped one, or one that was told to stop a server,
\* a part of them from the first on (run_stage and LlamaCppBackend::infer each
\* drain a channel at the end; OllamaBackend::infer drops its connection).
StreamComplete ==
  /\ IsPrefix(forwarded, [i \in 1..generated |-> i])
  /\ outcome \in {"answer", "error"} =>
       Len(forwarded) = generated \/ (backend = "ollama" /\ stop)

\* A thread whose inference was dropped generates one more token at most
\* (generate: the send that finds no receiver ends its loop).
OrphanBound == ~Listening => generated <= atDrop + 1

\* No token is lost on the way and few are made for nobody: between the
\* thread, the backend and the runner each one generated is accounted for.
TokensAccounted == StreamComplete /\ OrphanBound
=============================================================================
