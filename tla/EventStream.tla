----------------------------- MODULE EventStream -----------------------------
(***************************************************************************)
(* The stream of one job's events: the job's task runs (here, one          *)
(* inference) and publishes its result, a forwarder task publishes what    *)
(* the runner sends, and clients attach to the log and the live channel.   *)
(* A resumed job has an event channel but no forwarder.                    *)
(***************************************************************************)
EXTENDS Inference

CONSTANTS
  LiveCapacity,   \* events a client may be behind
  Clients,        \* the clients that attach
  Forwarding      \* the job was submitted, not resumed

ASSUME StreamAssumption == LiveCapacity \in Nat \ {0} /\ Forwarding \in BOOLEAN

VARIABLES
  held,       \* the event the forwarder is about to publish, if any
  log,        \* everything published
  published,  \* the job's task has published the result
  status,     \* the job's status in the store
  cursor,     \* per client, how far in the log its receiver is
  got,        \* per client, what it was sent since it attached
  lagged      \* per client, whether it lost events since then

storeVars == <<held, log, published, status>>
clientVars == <<cursor, got, lagged>>
vars == <<inferenceVars, storeVars, clientVars>>

Result == 0              \* tokens are numbered from one
Detached == Budget + 2   \* no log is that long

TypeOK ==
  /\ generated \in 0..Budget
  /\ Len(mail) <= EventCapacity
  /\ status \in {"running", "answer", "error", "cancelled", "trap"}
  /\ cursor \in [Clients -> 0..Detached]

Init ==
  /\ InferenceInit
  /\ held = <<>> /\ log = <<>> /\ published = FALSE /\ status = "running"
  /\ cursor = [c \in Clients |-> Detached]
  /\ got = [c \in Clients |-> <<>>]
  /\ lagged = [c \in Clients |-> FALSE]

JobStep == (ThreadStep \/ RunnerStep) /\ UNCHANGED <<storeVars, clientVars>>

CancelJob == Cancel /\ UNCHANGED <<storeVars, clientVars>>
-----------------------------------------------------------------------------

\* A mutant of Publish: nothing is kept for those who attach later.
PublishLive(event) ==
  log' = IF \E c \in Clients : cursor[c] # Detached THEN Append(log, event) ELSE log

\* publish: the log and the live channel, under one lock.  A receiver reads
\* the log's positions, so the log alone says what it is sent.
Publish(event) == log' = Append(log, event)

\* A mutant of TakeEvent: the forwarder stops with the job.
TakeUncancelled ==
  /\ Forwarding
  /\ ~cancelled
  /\ held = <<>>
  /\ mail # <<>>
  /\ held' = <<Head(mail)>>
  /\ mail' = Tail(mail)
  /\ UNCHANGED <<threadVars, channelVars, cancelled, pc, current, break, forwarded, atDrop,
                 outcome, log, published, status, clientVars>>

\* The forwarder's loop: take an event, publish it.
TakeEvent ==
  /\ Forwarding
  /\ held = <<>>
  /\ mail # <<>>
  /\ held' = <<Head(mail)>>
  /\ mail' = Tail(mail)
  /\ UNCHANGED <<threadVars, channelVars, cancelled, pc, current, break, forwarded, atDrop,
                 outcome, log, published, status, clientVars>>

PublishEvent ==
  /\ held # <<>>
  /\ Publish(Head(held))
  /\ held' = <<>>
  /\ UNCHANGED <<inferenceVars, published, status, clientVars>>

\* The job's task: run_job returns, the result is published, then the status
\* is set.  A resumed job publishes nothing.
PublishResult ==
  /\ outcome # "none"
  /\ ~published
  /\ published' = TRUE
  /\ IF Forwarding THEN Publish(Result) ELSE UNCHANGED log
  /\ UNCHANGED <<inferenceVars, held, status, clientVars>>

FinishJob ==
  /\ published
  /\ status = "running"
  /\ status' = outcome
  /\ UNCHANGED <<inferenceVars, held, log, published, clientVars>>

\* A mutant of Attach: the snapshot and the subscription are not taken together
\* and the event between them is in neither.
AttachLate(c) ==
  /\ cursor[c] = Detached \/ lagged[c]
  /\ got' = [got EXCEPT ![c] = IF log = <<>> THEN <<>> ELSE Front(log)]
  /\ cursor' = [cursor EXCEPT ![c] = Len(log)]
  /\ lagged' = [lagged EXCEPT ![c] = FALSE]
  /\ UNCHANGED <<inferenceVars, storeVars>>

\* subscribe: the backlog and a receiver at its end, under one lock.  A client
\* that lost events does so again.
Attach(c) ==
  /\ cursor[c] = Detached \/ lagged[c]
  /\ got' = [got EXCEPT ![c] = log]
  /\ cursor' = [cursor EXCEPT ![c] = Len(log)]
  /\ lagged' = [lagged EXCEPT ![c] = FALSE]
  /\ UNCHANGED <<inferenceVars, storeVars>>

\* The next live event; a receiver too far behind skips to the oldest kept.
Receive(c) ==
  /\ cursor[c] < Len(log)
  /\ IF Len(log) - cursor[c] > LiveCapacity
       THEN /\ cursor' = [cursor EXCEPT ![c] = Len(log) - LiveCapacity]
            /\ lagged' = [lagged EXCEPT ![c] = TRUE]
            /\ UNCHANGED got
       ELSE /\ cursor' = [cursor EXCEPT ![c] = @ + 1]
            /\ got' = [got EXCEPT ![c] = Append(@, log[cursor[c] + 1])]
            /\ UNCHANGED lagged
  /\ UNCHANGED <<inferenceVars, storeVars>>
-----------------------------------------------------------------------------

Forward == TakeEvent \/ PublishEvent
Report == PublishResult \/ FinishJob

Next ==
  \/ JobStep \/ CancelJob \/ Forward \/ Report
  \/ \E c \in Clients : Attach(c) \/ Receive(c)

Spec == Init /\ [][Next]_vars

\* The daemon's tasks run and a client reads what it is sent.  Nothing is
\* assumed of the thread that generates, nor of a client that lost events.
FairSpec ==
  /\ Spec
  /\ WF_vars(RunnerStep /\ UNCHANGED <<storeVars, clientVars>>)
  /\ WF_vars(Forward)
  /\ WF_vars(Report)
  /\ \A c \in Clients : WF_vars(Receive(c))
-----------------------------------------------------------------------------

Tokens(events) == RemoveFirst(events, Result)

\* Whatever the runner sent is published, about to be, or queued, in that
\* order and once; and a client that has not fallen behind was sent the log
\* from its first event on, whenever it attached (publish and subscribe each
\* hold one lock; finish comes after the result).
ClientSeesLog ==
  /\ Forwarding => Tokens(log) \o held \o mail = forwarded
  /\ \A c \in Clients : cursor[c] # Detached /\ ~lagged[c] =>
       got[c] = SubSeq(log, 1, cursor[c])

\* The result may overtake tokens, since another task forwards those; but no
\* more of them than the channel holds and the one in the forwarder's hand.
LateBound ==
  \A i \in DOMAIN log : log[i] = Result =>
    (Len(log) - i) + Len(mail) + Len(held) <= EventCapacity + 1

\* A cancelled job, and one whose model has ended, gets its final status -
\* though nobody reads the stream and the thread never stops by itself.
Lands == (cancelled \/ thread \in {"ended", "failed"}) ~> (status # "running")

\* A client that stays attached is sent the result, or has lost events.
ResultReaches ==
  \A c \in Clients :
    (cursor[c] # Detached /\ status # "running")
      ~> (Result \in Range(got[c]) \/ lagged[c])
=============================================================================
