--------------------------- MODULE EventStream_proofs ---------------------------
(***************************************************************************)
(* Proofs about Inference and EventStream, for every budget, every         *)
(* capacity of the channels and every set of clients.                      *)
(***************************************************************************)
EXTENDS EventStream, SequenceTheorems, TLAPS

USE InferenceAssumption, StreamAssumption

-----------------------------------------------------------------------------
(***************************************************************************)
(* Runs of tokens                                                          *)
(***************************************************************************)

\* The tokens after the a-th up to the b-th, in order.
Run(a, b) == [i \in 1..(b - a) |-> a + i]

LEMMA RunShape ==
  ASSUME NEW a \in Nat, NEW b \in Nat, a <= b
  PROVE  /\ Run(a, b) \in Seq(Nat)
         /\ Len(Run(a, b)) = b - a
         /\ \A i \in 1..(b - a) : Run(a, b)[i] = a + i
         /\ Run(a, b) = <<>> <=> a = b
  BY DEF Run

LEMMA RunFromZero ==
  ASSUME NEW b \in Nat
  PROVE  /\ Run(0, b) \in Seq(Nat)
         /\ Len(Run(0, b)) = b
         /\ \A i \in 1..b : Run(0, b)[i] = i
<1>1. 0 <= b /\ b - 0 = b
  OBVIOUS
<1> QED BY <1>1 DEF Run

LEMMA RunAppend ==
  ASSUME NEW a \in Nat, NEW b \in Nat, a <= b
  PROVE  Append(Run(a, b), b + 1) = Run(a, b + 1)
  BY DEF Run

LEMMA RunTake ==
  ASSUME NEW a \in Nat, NEW b \in Nat, a < b
  PROVE  Head(Run(a, b)) = a + 1 /\ Tail(Run(a, b)) = Run(a + 1, b)
<1>1. Run(a, b) \in Seq(Nat) /\ Run(a, b) # <<>> /\ Len(Run(a, b)) = b - a
  BY RunShape
<1>2. Run(a + 1, b) \in Seq(Nat) /\ Len(Run(a + 1, b)) = b - a - 1
  BY RunShape
<1>3. /\ Tail(Run(a, b)) \in Seq(Nat)
      /\ Len(Tail(Run(a, b))) = b - a - 1
      /\ \A i \in 1..(b - a - 1) : Tail(Run(a, b))[i] = Run(a, b)[i + 1]
  BY <1>1, HeadTailProperties
<1>4. \A i \in 1..(b - a - 1) : Run(a, b)[i + 1] = Run(a + 1, b)[i]
  BY DEF Run
<1>5. Tail(Run(a, b)) = Run(a + 1, b)
  BY <1>2, <1>3, <1>4, SeqEqual
<1>6. Head(Run(a, b)) = a + 1
  BY <1>1 DEF Run
<1> QED BY <1>5, <1>6

LEMMA RunJoin ==
  ASSUME NEW a \in Nat, NEW b \in Nat, NEW c \in Nat, a <= b, b <= c
  PROVE  Run(a, b) \o Run(b, c) = Run(a, c)
  BY DEF Run

LEMMA RunPrefix ==
  ASSUME NEW a \in Nat, NEW b \in Nat, a <= b
  PROVE  IsPrefix(Run(0, a), Run(0, b))
  BY DEF Run, IsPrefix

\* Of s and u in a row, named w: what it is, element by element.
InARow(s, u, w) ==
  /\ w \in Seq(Nat) /\ Len(w) = Len(s) + Len(u)
  /\ \A i \in 1..(Len(s) + Len(u)) : w[i] = IF i <= Len(s) THEN s[i] ELSE u[i - Len(s)]

LEMMA ConcatIsARow ==
  ASSUME NEW s \in Seq(Nat), NEW u \in Seq(Nat)
  PROVE  InARow(s, u, s \o u)
  BY ConcatProperties, Zenon DEF InARow

LEMMA Places ==
  ASSUME NEW m \in Nat, NEW n \in Nat, NEW i \in 1..(m + n + 1)
  PROVE  /\ i <= m + n \/ i = m + n + 1
         /\ ~(i <= m) => i > m
  OBVIOUS

LEMMA RowGrows ==
  ASSUME NEW s \in Seq(Nat), NEW u \in Seq(Nat), NEW e \in Nat,
         NEW v \in Seq(Nat), NEW w \in Seq(Nat), NEW b \in Seq(Nat),
         v = Append(u, e), InARow(s, u, w), InARow(s, v, b)
  PROVE  Append(w, e) = b
<1> DEFINE a == Append(w, e)
<1>1. /\ Len(w) = Len(s) + Len(u)
      /\ Len(b) = Len(s) + Len(v)
      /\ Len(v) = Len(u) + 1
      /\ \A i \in 1..Len(u) : v[i] = u[i]
      /\ v[Len(u) + 1] = e
  BY AppendProperties DEF InARow
<1>2. /\ a \in Seq(Nat) /\ Len(a) = Len(w) + 1
      /\ \A i \in 1..Len(w) : a[i] = w[i]
      /\ a[Len(w) + 1] = e
  BY AppendProperties
<1>3. Len(s) \in Nat /\ Len(u) \in Nat
  BY LenProperties
<1> HIDE DEF a
<1>4. ASSUME NEW i \in 1..(Len(s) + Len(u) + 1)
      PROVE  a[i] = b[i]
  <2>1. b[i] = IF i <= Len(s) THEN s[i] ELSE v[i - Len(s)]
    <3>1. i \in 1..(Len(s) + Len(v))
      BY <1>1
    <3> QED BY <3>1 DEF InARow
  <2>2. CASE i <= Len(s) + Len(u)
    <3>0. i \in 1..(Len(s) + Len(u))
      BY <1>3, <2>2
    <3>1. w[i] = IF i <= Len(s) THEN s[i] ELSE u[i - Len(s)]
      BY <3>0, Zenon DEF InARow
    <3>2. i > Len(s) => v[i - Len(s)] = u[i - Len(s)]
      <4>1. i > Len(s) => i - Len(s) \in 1..Len(u)
        BY <1>3, <2>2
      <4> QED BY <1>1, <4>1
    <3>3. a[i] = w[i]
      BY <1>1, <1>2, <3>0
    <3>4. b[i] = w[i]
      <4>1. CASE i <= Len(s)
        BY <2>1, <3>1, <4>1, Zenon
      <4>2. CASE ~(i <= Len(s))
        <5>1. v[i - Len(s)] = u[i - Len(s)]
          BY <1>3, <3>2, <4>2, Places, Zenon
        <5> QED BY <2>1, <3>1, <4>2, <5>1, Zenon
      <4> QED BY <4>1, <4>2, Zenon
    <3> QED BY <3>3, <3>4, Zenon
  <2>3. CASE i = Len(s) + Len(u) + 1
    <3>1. i - Len(s) = Len(u) + 1 /\ ~(i <= Len(s))
      BY <1>3, <2>3
    <3>2. b[i] = e
      BY <1>1, <2>1, <3>1
    <3>3. a[i] = e
      BY <1>1, <1>2, <2>3
    <3> QED BY <3>2, <3>3
  <2>4. i <= Len(s) + Len(u) \/ i = Len(s) + Len(u) + 1
    BY <1>3, Places, Zenon
  <2> QED BY <2>2, <2>3, <2>4, Zenon
<1>5. a = b
  <2>1. Len(a) = Len(b) /\ Len(a) = Len(s) + Len(u) + 1
    BY <1>1, <1>2, <1>3
  <2> QED BY <1>2, <1>4, <2>1, SeqEqual
<1> QED BY <1>5 DEF a

LEMMA AppendOfConcat ==
  ASSUME NEW s \in Seq(Nat), NEW u \in Seq(Nat), NEW e \in Nat
  PROVE  Append(s \o u, e) = s \o Append(u, e)
<1>1. Append(u, e) \in Seq(Nat)
  BY AppendProperties
<1>2. InARow(s, u, s \o u) /\ InARow(s, Append(u, e), s \o Append(u, e))
  BY <1>1, ConcatIsARow
<1>3. s \o u \in Seq(Nat) /\ s \o Append(u, e) \in Seq(Nat)
  BY <1>2, Zenon DEF InARow
<1> QED BY <1>1, <1>2, <1>3, RowGrows, Zenon

(***************************************************************************)
(* A run with the result somewhere in it: without it, it is the run.       *)
(***************************************************************************)
LogWith(k, p) == Append(Run(0, k), Result) \o Run(k, p)

LEMMA LogShape ==
  ASSUME NEW k \in Nat, NEW p \in Nat, k <= p
  PROVE  /\ LogWith(k, p) \in Seq(Nat)
         /\ Len(LogWith(k, p)) = p + 1
         /\ \A i \in 1..(p + 1) : LogWith(k, p)[i] = Result <=> i = k + 1
         /\ \A i \in 1..k : LogWith(k, p)[i] = i
         /\ \A i \in (k + 2)..(p + 1) : LogWith(k, p)[i] = i - 1
<1>1. /\ Run(0, k) \in Seq(Nat) /\ Len(Run(0, k)) = k
      /\ \A i \in 1..k : Run(0, k)[i] = i
  BY RunFromZero
<1>2. /\ Run(k, p) \in Seq(Nat) /\ Len(Run(k, p)) = p - k
      /\ \A i \in 1..(p - k) : Run(k, p)[i] = k + i
  BY RunShape
<1> DEFINE first == Append(Run(0, k), Result)
<1>3. /\ first \in Seq(Nat) /\ Len(first) = k + 1
      /\ \A i \in 1..k : first[i] = i
      /\ first[k + 1] = Result
  BY <1>1, AppendProperties DEF Result
<1>4. LogWith(k, p) = first \o Run(k, p)
  BY DEF LogWith
<1> HIDE DEF first
<1>5. /\ LogWith(k, p) \in Seq(Nat)
      /\ Len(LogWith(k, p)) = Len(first) + Len(Run(k, p))
      /\ \A i \in 1..(Len(first) + Len(Run(k, p))) : LogWith(k, p)[i] =
            IF i <= Len(first) THEN first[i] ELSE Run(k, p)[i - Len(first)]
  <2>1. /\ first \o Run(k, p) \in Seq(Nat)
        /\ Len(first \o Run(k, p)) = Len(first) + Len(Run(k, p))
        /\ \A i \in 1..(Len(first) + Len(Run(k, p))) : (first \o Run(k, p))[i] =
              IF i <= Len(first) THEN first[i] ELSE Run(k, p)[i - Len(first)]
    BY <1>2, <1>3, ConcatProperties
  <2> QED BY <1>4, <2>1, Zenon
<1>6. /\ Len(LogWith(k, p)) = p + 1
      /\ \A i \in 1..(p + 1) : LogWith(k, p)[i] =
            IF i <= k + 1 THEN first[i] ELSE Run(k, p)[i - (k + 1)]
  BY <1>2, <1>3, <1>5
<1>7. \A i \in 1..k : LogWith(k, p)[i] = i
  BY <1>3, <1>6
<1>8. LogWith(k, p)[k + 1] = Result
  BY <1>3, <1>6
<1>9. ASSUME NEW i \in (k + 2)..(p + 1)
      PROVE  LogWith(k, p)[i] = i - 1
  <2>1. i - (k + 1) \in 1..(p - k) /\ i \in 1..(p + 1) /\ ~(i <= k + 1)
    OBVIOUS
  <2>2. Run(k, p)[i - (k + 1)] = k + (i - (k + 1))
    BY <1>2, <2>1
  <2> QED BY <1>6, <2>1, <2>2
<1>10. \A i \in 1..(p + 1) : LogWith(k, p)[i] = Result <=> i = k + 1
  <2> TAKE i \in 1..(p + 1)
  <2>1. i \in 1..k \/ i = k + 1 \/ i \in (k + 2)..(p + 1)
    OBVIOUS
  <2> QED BY <1>7, <1>8, <1>9, <2>1 DEF Result
<1> QED BY <1>5, <1>6, <1>7, <1>9, <1>10

LEMMA TokensOfRun ==
  ASSUME NEW p \in Nat
  PROVE  Tokens(Run(0, p)) = Run(0, p)
<1>1. \A i \in 1..p : Run(0, p)[i] = i
  BY RunFromZero
<1>2. \A i \in 1..p : Run(0, p)[i] # Result
  BY <1>1 DEF Result
<1>3. Len(Run(0, p)) = p
  BY RunFromZero
<1> QED BY <1>2, <1>3 DEF Tokens, RemoveFirst

LEMMA TokensOfLog ==
  ASSUME NEW k \in Nat, NEW p \in Nat, k <= p
  PROVE  Tokens(LogWith(k, p)) = Run(0, p)
<1> DEFINE log0 == LogWith(k, p)
<1>1. /\ log0 \in Seq(Nat) /\ Len(log0) = p + 1
      /\ \A i \in 1..(p + 1) : log0[i] = Result <=> i = k + 1
      /\ \A i \in 1..k : log0[i] = i
      /\ \A i \in (k + 2)..(p + 1) : log0[i] = i - 1
  BY LogShape
<1> HIDE DEF log0
<1>2. SelectInSeq(log0, LAMBDA v : v = Result) = k + 1
  <2>1. {i \in 1..Len(log0) : log0[i] = Result} = {k + 1}
    BY <1>1
  <2>2. Min({k + 1}) = k + 1
    BY DEF Min
  <2> QED BY <2>1, <2>2 DEF SelectInSeq
<1>3. RemoveFirst(log0, Result) = RemoveAt(log0, k + 1)
  BY <1>1, <1>2 DEF RemoveFirst
<1>4. SubSeq(log0, 1, k) = Run(0, k)
  <2>1. /\ SubSeq(log0, 1, k) \in Seq(Nat)
        /\ Len(SubSeq(log0, 1, k)) = k
        /\ \A i \in 1..k : SubSeq(log0, 1, k)[i] = log0[i]
    BY <1>1
  <2>2. \A i \in 1..k : SubSeq(log0, 1, k)[i] = Run(0, k)[i]
    BY <1>1, <2>1, RunFromZero
  <2> QED BY <2>1, <2>2, RunFromZero, SeqEqual
<1>5. SubSeq(log0, k + 2, p + 1) = Run(k, p)
  <2>1. /\ SubSeq(log0, k + 2, p + 1) \in Seq(Nat)
        /\ Len(SubSeq(log0, k + 2, p + 1)) = p - k
        /\ \A i \in 1..(p - k) : SubSeq(log0, k + 2, p + 1)[i] = log0[k + 1 + i]
    BY <1>1
  <2>2. \A i \in 1..(p - k) : SubSeq(log0, k + 2, p + 1)[i] = Run(k, p)[i]
    <3> TAKE i \in 1..(p - k)
    <3>1. k + 1 + i \in (k + 2)..(p + 1) /\ (k + 1 + i) - 1 = k + i
      OBVIOUS
    <3>2. log0[k + 1 + i] = k + i
      BY <1>1, <3>1
    <3> QED BY <2>1, <3>2, RunShape
  <2>3. Run(k, p) \in Seq(Nat) /\ Len(Run(k, p)) = p - k
    BY RunShape
  <2> QED BY <2>1, <2>2, <2>3, SeqEqual
<1>6. RemoveAt(log0, k + 1) = Run(0, k) \o Run(k, p)
  <2>1. (k + 1) - 1 = k /\ (k + 1) + 1 = k + 2
    OBVIOUS
  <2> QED BY <1>1, <1>4, <1>5, <2>1 DEF RemoveAt
<1>7. Tokens(log0) = Run(0, p)
  <2>1. Run(0, k) \o Run(k, p) = Run(0, p)
    <3>1. 0 \in Nat /\ 0 <= k
      OBVIOUS
    <3> QED BY <3>1, RunJoin
  <2> QED BY <1>3, <1>6, <2>1 DEF Tokens
<1> QED BY <1>7 DEF log0

-----------------------------------------------------------------------------
(***************************************************************************)
(* The inference                                                           *)
(***************************************************************************)

Threads == {"priming", "generating", "checking", "ended", "failed"}
Outcomes == {"none", "answer", "error", "cancelled", "trap"}

InferenceType ==
  /\ backend \in {"embedded", "ollama"}
  /\ thread \in Threads
  /\ generated \in 0..Budget
  /\ atDrop \in Nat
  /\ pc \in {"select", "send", "poll", "join", "drain", "left"}
  /\ break \in {"none", "ended", "failed", "cancelled"}
  /\ outcome \in Outcomes

\* Nothing is generated any more.
Silent == thread \in {"ended", "failed"}

\* The guest told a server to stop.
HungUp == backend = "ollama" /\ stop

(***************************************************************************)
(* The tokens on their way: the runner has forwarded f and taken t, the    *)
(* backend has handed on h and been sent n, each the next ones in order.   *)
(***************************************************************************)
OnTheWay(f, t, h, n) ==
  /\ f <= t /\ t <= h /\ h <= n /\ n <= generated
  /\ forwarded = Run(0, f) /\ outer = Run(t, h) /\ inner = Run(h, n)
  /\ t = IF pc = "send" THEN f + 1 ELSE f
  /\ pc = "send" => current = t
  /\ Listening => n = generated
  /\ pc = "drain" /\ break \in {"ended", "failed"} => h = generated \/ HungUp
  /\ outcome \in {"answer", "error"} => f = generated \/ HungUp

WayInv == \E f, t, h, n \in Nat : OnTheWay(f, t, h, n)

\* How the inference ended, and what generates after that.
EndInv ==
  /\ pc = "left" <=> outcome # "none"
  /\ pc = "drain" => break # "none"
  /\ pc = "drain" /\ break \in {"ended", "failed"} => Silent \/ HungUp
  /\ outcome \in {"answer", "error"} => Silent \/ HungUp
  /\ ~Listening => generated = atDrop \/ (generated = atDrop + 1 /\ Silent)

InferenceInv == InferenceType /\ WayInv /\ EndInv

LEMMA InferenceAccounted == InferenceInv => TokensAccounted
<1> SUFFICES ASSUME InferenceInv PROVE TokensAccounted
  OBVIOUS
<1>1. PICK f, t, h, n \in Nat : OnTheWay(f, t, h, n)
  BY DEF InferenceInv, WayInv
<1>2. f <= generated /\ generated \in Nat /\ forwarded = Run(0, f) /\ Len(forwarded) = f
  BY <1>1, RunFromZero DEF OnTheWay, InferenceInv, InferenceType
<1>3. Run(0, generated) = [i \in 1..generated |-> i]
  BY <1>2 DEF Run
<1>4. IsPrefix(forwarded, [i \in 1..generated |-> i])
  BY <1>2, <1>3, RunPrefix
<1>5. StreamComplete
  BY <1>1, <1>2, <1>4 DEF StreamComplete, OnTheWay, HungUp
<1>6. OrphanBound
  BY DEF OrphanBound, InferenceInv, EndInv, InferenceType
<1> QED BY <1>5, <1>6 DEF TokensAccounted

LEMMA InferenceStarts == InferenceInit => InferenceInv
<1> SUFFICES ASSUME InferenceInit PROVE InferenceInv
  OBVIOUS
<1> USE DEF InferenceInit
<1>1. InferenceType
  BY DEF InferenceType, Threads, Outcomes
<1>4. EndInv
  BY DEF EndInv, Listening
<1>2. Run(0, 0) = <<>>
  BY RunFromZero
<1>3. OnTheWay(0, 0, 0, 0)
  BY <1>2 DEF OnTheWay, Listening
<1> QED BY <1>1, <1>3, <1>4 DEF InferenceInv, WayInv

LEMMA InferenceTypeStep ==
  ASSUME InferenceType, EndInv, ThreadStep \/ RunnerStep \/ Cancel
  PROVE  InferenceType'
<1> USE DEF InferenceType, Threads, Outcomes, threadVars, channelVars, runnerVars
<1>1. CASE ThreadStep
  BY <1>1 DEF ThreadStep, Prime, Request, Generate, CheckStop, EndGeneration
<1>2. CASE Cancel
  BY <1>2 DEF Cancel
<1>3. CASE SelectCancelled
  BY <1>3 DEF SelectCancelled
<1>7. CASE SelectToken \/ PollInfer \/ PollEmpty \/ JoinPending \/ DrainToken
  BY <1>7 DEF SelectToken, PollInfer, PollEmpty, JoinPending, DrainToken
<1>4. CASE SendToken
  BY <1>4 DEF SendToken, OnToken
<1>5. CASE PollPiece \/ PollLine \/ EndOfLines \/ Joined
  BY <1>5 DEF PollPiece, PollLine, EndOfLines, Joined, Returned
<1>6. CASE Conclude
  BY <1>6 DEF Conclude, EndInv
<1> HIDE DEF InferenceType, Threads, Outcomes, threadVars, channelVars, runnerVars
<1> QED BY <1>1, <1>2, <1>3, <1>4, <1>5, <1>6, <1>7 DEF RunnerStep

LEMMA EndStep ==
  ASSUME InferenceType, EndInv, ThreadStep \/ RunnerStep \/ Cancel
  PROVE  EndInv'
<1> USE DEF InferenceType, Threads, Outcomes, EndInv, Listening, Silent, HungUp, threadVars,
            channelVars, runnerVars
<1>1. CASE Prime \/ Request \/ CheckStop \/ EndGeneration
  BY <1>1 DEF Prime, Request, CheckStop, EndGeneration
<1>2. CASE Generate
  BY <1>2 DEF Generate
<1>3. CASE Cancel
  BY <1>3 DEF Cancel
<1>4. CASE SelectCancelled \/ SelectToken \/ PollInfer \/ PollEmpty \/ JoinPending \/ DrainToken
  BY <1>4 DEF SelectCancelled, SelectToken, PollInfer, PollEmpty, JoinPending, DrainToken
<1>5. CASE SendToken
  BY <1>5 DEF SendToken, OnToken
<1>6. CASE PollPiece \/ PollLine
  BY <1>6 DEF PollPiece, PollLine, Returned
<1>7. CASE EndOfLines \/ Joined
  BY <1>7 DEF EndOfLines, Joined, Returned
<1>8. CASE Conclude
  BY <1>8 DEF Conclude
<1> QED BY <1>1, <1>2, <1>3, <1>4, <1>5, <1>6, <1>7, <1>8 DEF ThreadStep, RunnerStep

(***************************************************************************)
(* A step that moves no token, and under which the claims about them that  *)
(* the end makes stay true.                                                *)
(***************************************************************************)
LEMMA TokensRest ==
  ASSUME WayInv, InferenceType,
         UNCHANGED <<backend, generated, forwarded, outer, inner, current>>,
         pc' = "send" <=> pc = "send",
         Listening' => Listening,
         pc' = "drain" /\ break' \in {"ended", "failed"} =>
           \/ pc = "drain" /\ break = break' /\ stop' = stop
           \/ Listening /\ inner = <<>>,
         outcome' \in {"answer", "error"} =>
           \/ outcome' = outcome /\ stop' = stop
           \/ pc = "drain" /\ break \in {"ended", "failed"} /\ outer = <<>> /\ stop' = stop
  PROVE  WayInv'
<1>1. PICK f, t, h, n \in Nat : OnTheWay(f, t, h, n)
  BY DEF WayInv
<1>2. /\ outer = <<>> => h = t
      /\ inner = <<>> => h = n
  BY <1>1, RunShape DEF OnTheWay
<1>3. OnTheWay(f, t, h, n)'
  BY <1>1, <1>2 DEF OnTheWay, HungUp, Listening
<1> QED BY <1>3 DEF WayInv

LEMMA WayStep ==
  ASSUME InferenceInv, ThreadStep \/ RunnerStep \/ Cancel
  PROVE  WayInv'
<1> USE DEF InferenceInv, EndInv, threadVars, channelVars, runnerVars
<1>1. PICK f, t, h, n \in Nat : OnTheWay(f, t, h, n)
  BY DEF WayInv
<1>2. /\ forwarded = Run(0, f) /\ outer = Run(t, h) /\ inner = Run(h, n)
      /\ f <= t /\ t <= h /\ h <= n /\ n <= generated /\ generated \in Nat
      /\ outer = <<>> <=> t = h
      /\ inner = <<>> <=> h = n
  <2>1. /\ forwarded = Run(0, f) /\ outer = Run(t, h) /\ inner = Run(h, n)
        /\ f <= t /\ t <= h /\ h <= n /\ n <= generated /\ generated \in Nat
    BY <1>1 DEF OnTheWay, InferenceType
  <2>2. Run(t, h) = <<>> <=> t = h
    BY <2>1, RunShape
  <2>3. Run(h, n) = <<>> <=> h = n
    BY <2>1, RunShape
  <2> QED BY <2>1, <2>2, <2>3
<1>3. CASE Prime \/ Request \/ CheckStop \/ EndGeneration \/ Cancel
  BY <1>3, TokensRest DEF Prime, Request, CheckStop, EndGeneration, Cancel, Listening
<1>4. CASE Generate
  <2> USE DEF Generate
  <2>1. CASE Listening
    <3>1. inner' = Run(h, n + 1) /\ n = generated
      BY <1>1, <1>2, <1>4, <2>1, RunAppend DEF OnTheWay
    <3>2. OnTheWay(f, t, h, n + 1)'
      BY <1>1, <1>2, <1>4, <2>1, <3>1 DEF OnTheWay, Listening, HungUp, Outcomes, InferenceType
    <3> QED BY <3>2 DEF WayInv
  <2>2. CASE ~Listening
    <3>1. OnTheWay(f, t, h, n)'
      BY <1>1, <1>2, <1>4, <2>2 DEF OnTheWay, Listening, HungUp, Silent
    <3> QED BY <3>1 DEF WayInv
  <2> QED BY <2>1, <2>2
<1>5. CASE SelectCancelled \/ PollInfer \/ PollEmpty \/ JoinPending
  BY <1>5, TokensRest DEF SelectCancelled, PollInfer, PollEmpty, JoinPending, Listening
<1>6. CASE SelectToken
  <2>1. Head(outer) = t + 1 /\ Tail(outer) = Run(t + 1, h)
    BY <1>2, <1>6, RunTake DEF SelectToken
  <2>2. OnTheWay(f, t + 1, h, n)'
    BY <1>1, <1>2, <1>6, <2>1 DEF SelectToken, OnTheWay, Listening, HungUp
  <2> QED BY <2>2 DEF WayInv
<1>7. CASE SendToken
  <2>1. forwarded' = Run(0, f + 1) /\ t = f + 1
    <3>1. current = f + 1 /\ t = f + 1
      BY <1>1, <1>7 DEF SendToken, OnTheWay
    <3>2. 0 <= f
      OBVIOUS
    <3> QED BY <1>2, <1>7, <3>1, <3>2, RunAppend DEF SendToken, Send
  <2>2. OnTheWay(f + 1, t, h, n)'
    BY <1>1, <1>2, <1>7, <2>1 DEF SendToken, OnToken, OnTheWay, Listening, HungUp
  <2> QED BY <2>2 DEF WayInv
<1>8. CASE PollPiece
  <2>1. outer' = Run(t, h + 1) /\ inner' = Run(h + 1, n)
    <3>1. h < n
      BY <1>2, <1>8 DEF PollPiece
    <3>2. Head(inner) = h + 1 /\ Tail(inner) = Run(h + 1, n)
      BY <1>2, <3>1, RunTake
    <3>3. Append(Run(t, h), h + 1) = Run(t, h + 1)
      BY <1>2, RunAppend
    <3> QED BY <1>2, <1>8, <3>2, <3>3 DEF PollPiece
  <2>2. OnTheWay(f, t, h + 1, n)'
    BY <1>1, <1>2, <1>8, <2>1 DEF PollPiece, OnTheWay, Listening, HungUp
  <2> QED BY <2>2 DEF WayInv
<1>9. CASE PollLine
  <2>1. outer' = Run(t, h + 1) /\ inner' = Run(h + 1, n)
    <3>1. h < n
      BY <1>2, <1>9 DEF PollLine
    <3>2. Head(inner) = h + 1 /\ Tail(inner) = Run(h + 1, n)
      BY <1>2, <3>1, RunTake
    <3>3. Append(Run(t, h), h + 1) = Run(t, h + 1)
      BY <1>2, RunAppend
    <3> QED BY <1>2, <1>9, <3>2, <3>3 DEF PollLine
  <2>2. OnTheWay(f, t, h + 1, n)'
    BY <1>1, <1>2, <1>9, <2>1 DEF PollLine, Returned, OnTheWay, Listening, HungUp
  <2> QED BY <2>2 DEF WayInv
<1>10. CASE EndOfLines
  BY <1>10, TokensRest DEF EndOfLines, Returned, Listening
<1>11. CASE Joined
  <2>1. outer' = Run(t, n) /\ inner' = Run(n, n)
    <3>1. Run(n, n) = <<>>
      BY RunShape
    <3>2. Run(t, h) \o Run(h, n) = Run(t, n)
      <4>1. t <= h /\ h <= n
        BY <1>2
      <4> QED BY <4>1, RunJoin
    <3>3. outer' = Run(t, h) \o Run(h, n) /\ inner' = <<>>
      BY <1>2, <1>11 DEF Joined
    <3> QED BY <3>1, <3>2, <3>3, Zenon
  <2>2. OnTheWay(f, t, n, n)'
    BY <1>1, <1>2, <1>11, <2>1 DEF Joined, Returned, OnTheWay, Listening, HungUp
  <2> QED BY <2>2 DEF WayInv
<1>12. CASE DrainToken
  <2>1. /\ t = f /\ Head(outer) = f + 1
        /\ outer' = Run(t + 1, h) /\ forwarded' = Run(0, f + 1)
    <3>1. t = f /\ t < h /\ 0 <= f
      BY <1>1, <1>2, <1>12 DEF DrainToken, OnTheWay
    <3>2. Head(outer) = t + 1 /\ Tail(outer) = Run(t + 1, h)
      BY <1>2, <3>1, RunTake
    <3>3. Append(Run(0, f), f + 1) = Run(0, f + 1)
      BY <3>1, RunAppend
    <3> QED BY <1>2, <1>12, <3>1, <3>2, <3>3 DEF DrainToken, Send
  <2>2. OnTheWay(f + 1, t + 1, h, n)'
    BY <1>1, <1>2, <1>12, <2>1 DEF DrainToken, OnTheWay, Listening, HungUp
  <2> QED BY <2>2 DEF WayInv
<1>13. CASE Conclude
  <2>1. pc = "drain" /\ outer = <<>> /\ pc' = "left" /\ stop' = stop
    BY <1>13 DEF Conclude
  <2>2. outcome' \in {"answer", "error"} => break \in {"ended", "failed"}
    BY <1>13 DEF Conclude, InferenceType
  <2>3. UNCHANGED <<backend, generated, forwarded, outer, inner, current>>
    BY <1>13 DEF Conclude
  <2> HIDE DEF EndInv
  <2> QED BY <2>1, <2>2, <2>3, TokensRest DEF Listening
<1> HIDE DEF InferenceInv, EndInv, threadVars, channelVars, runnerVars
<1> QED BY <1>3, <1>4, <1>5, <1>6, <1>7, <1>8, <1>9, <1>10, <1>11, <1>12, <1>13
        DEF ThreadStep, RunnerStep

-----------------------------------------------------------------------------
(***************************************************************************)
(* The stream                                                              *)
(***************************************************************************)

StreamType ==
  /\ held \in Seq(Nat) /\ log \in Seq(Nat)
  /\ published \in BOOLEAN
  /\ status \in {"running", "answer", "error", "cancelled", "trap"}
  /\ cursor \in [Clients -> 0..Detached]
  /\ got \in [Clients -> Seq(Nat)]
  /\ lagged \in [Clients -> BOOLEAN]

(***************************************************************************)
(* The tokens forwarded: p of them are published, the forwarder has taken  *)
(* q, the channel holds the others.                                        *)
(***************************************************************************)
Queued(p, q) ==
  /\ p <= q /\ q <= p + 1 /\ q <= Len(forwarded)
  /\ held = Run(p, q) /\ mail = Run(q, Len(forwarded))
  /\ Len(mail) <= EventCapacity
  /\ ~Forwarding => q = 0

\* The result is in the log, after the first k tokens.
ResultAfter(k, p) ==
  /\ k <= p
  /\ log = LogWith(k, p)
  /\ Len(forwarded) <= k + EventCapacity + 1

Logged(p) ==
  IF Forwarding /\ published THEN \E k \in Nat : ResultAfter(k, p) ELSE log = Run(0, p)

QueueInv == \E p, q \in Nat : Queued(p, q) /\ Logged(p)

\* The result is published when there is one: nothing is forwarded after it.
ReportInv == published => outcome # "none"

\* A client that is attached is within the log, and unless it has lost events
\* was sent the log that far.
ClientInv ==
  \A c \in Clients : cursor[c] # Detached =>
    /\ cursor[c] <= Len(log)
    /\ ~lagged[c] => got[c] = SubSeq(log, 1, cursor[c])

StreamInv == InferenceInv /\ StreamType /\ QueueInv /\ ReportInv /\ ClientInv

\* What was sent of a sequence stays so when it grows.
LEMMA PrefixKept ==
  ASSUME NEW s \in Seq(Nat), NEW e \in Nat, NEW k \in 0..Len(s)
  PROVE  SubSeq(Append(s, e), 1, k) = SubSeq(s, 1, k)
  OBVIOUS

LEMMA PrefixGrows ==
  ASSUME NEW s \in Seq(Nat), NEW k \in Nat, k < Len(s)
  PROVE  SubSeq(s, 1, k + 1) = Append(SubSeq(s, 1, k), s[k + 1])
  OBVIOUS

LEMMA PrefixWhole ==
  ASSUME NEW s \in Seq(Nat)
  PROVE  SubSeq(s, 1, Len(s)) = s
  OBVIOUS

(***************************************************************************)
(* The forwarder, the job's task and the clients do not touch the          *)
(* inference, except that one takes from its channel.                      *)
(***************************************************************************)
LEMMA InferenceRests ==
  ASSUME InferenceInv,
         UNCHANGED <<threadVars, channelVars, cancelled, pc, current, break, forwarded,
                     atDrop, outcome>>
  PROVE  InferenceInv'
<1> USE DEF threadVars, channelVars
<1>1. InferenceType'
  BY DEF InferenceInv, InferenceType
<1>2. EndInv'
  BY DEF InferenceInv, EndInv, Listening, Silent, HungUp
<1>3. WayInv'
  <2>1. PICK f, t, h, n \in Nat : OnTheWay(f, t, h, n)
    BY DEF InferenceInv, WayInv
  <2>2. OnTheWay(f, t, h, n)'
    BY <2>1 DEF OnTheWay, Listening, HungUp
  <2> QED BY <2>2 DEF WayInv
<1> QED BY <1>1, <1>2, <1>3 DEF InferenceInv

LEMMA InferenceStep ==
  ASSUME InferenceInv, ThreadStep \/ RunnerStep \/ Cancel
  PROVE  InferenceInv'
<1>1. InferenceType' /\ EndInv'
  BY InferenceTypeStep, EndStep DEF InferenceInv
<1> QED BY <1>1, WayStep DEF InferenceInv

(***************************************************************************)
(* What an inference sends is the next token, while there is room, and     *)
(* nothing once it has ended.                                              *)
(***************************************************************************)
Sent ==
  /\ Room /\ pc # "left"
  /\ mail' = Append(mail, Len(forwarded) + 1)
  /\ forwarded' = Append(forwarded, Len(forwarded) + 1)

LEMMA InferenceSends ==
  ASSUME InferenceInv, ThreadStep \/ RunnerStep \/ Cancel
  PROVE  /\ UNCHANGED <<mail, forwarded>> \/ Sent
         /\ pc = "left" => UNCHANGED outcome
<1> USE DEF threadVars, channelVars, runnerVars
<1>1. PICK f, t, h, n \in Nat : OnTheWay(f, t, h, n)
  BY DEF InferenceInv, WayInv
<1>2. Len(forwarded) = f /\ forwarded = Run(0, f)
  BY <1>1, RunFromZero DEF OnTheWay
<1>3. CASE ThreadStep \/ Cancel
  BY <1>3 DEF ThreadStep, Prime, Request, Generate, CheckStop, EndGeneration, Cancel
<1>4. CASE SelectCancelled \/ SelectToken \/ PollInfer \/ PollPiece \/ PollEmpty
           \/ JoinPending
  BY <1>4 DEF SelectCancelled, SelectToken, PollInfer, PollPiece, PollEmpty, JoinPending
<1>5. CASE PollLine \/ EndOfLines \/ Joined \/ Conclude
  BY <1>5 DEF PollLine, EndOfLines, Joined, Conclude, Returned
<1>6. CASE SendToken
  <2>1. current = f + 1
    BY <1>1, <1>6 DEF SendToken, OnTheWay
  <2> QED BY <1>2, <1>6, <2>1 DEF SendToken, Send, Sent
<1>7. CASE DrainToken
  <2>1. t = f /\ outer = Run(t, h) /\ outer # <<>> /\ t <= h
    BY <1>1, <1>7 DEF DrainToken, OnTheWay
  <2>2. t < h
    BY <2>1, RunShape
  <2>3. Head(outer) = f + 1
    BY <2>1, <2>2, RunTake
  <2> QED BY <1>2, <1>7, <2>3 DEF DrainToken, Send, Sent
<1> QED BY <1>3, <1>4, <1>5, <1>6, <1>7 DEF RunnerStep

-----------------------------------------------------------------------------
(***************************************************************************)
(* The stream's invariant                                                  *)
(***************************************************************************)

\* How long the log is: never as long as Detached says.
LEMMA LogLength ==
  ASSUME StreamInv
  PROVE  Len(log) \in 0..(Budget + 1) /\ Len(forwarded) \in 0..Budget
<1>1. PICK f, t, h, n \in Nat : OnTheWay(f, t, h, n)
  BY DEF StreamInv, InferenceInv, WayInv
<1>2. Len(forwarded) \in 0..Budget
  <2>1. f <= generated /\ generated \in 0..Budget /\ forwarded = Run(0, f)
    BY <1>1 DEF StreamInv, InferenceInv, InferenceType, OnTheWay
  <2> QED BY <2>1, RunFromZero
<1>3. PICK p, q \in Nat : Queued(p, q) /\ Logged(p)
  BY DEF StreamInv, QueueInv
<1>4. p <= Len(forwarded)
  BY <1>2, <1>3 DEF Queued
<1>5. Len(log) = p \/ Len(log) = p + 1
  <2>1. CASE Forwarding /\ published
    BY <1>3, <2>1, LogShape DEF Logged, ResultAfter
  <2>2. CASE ~(Forwarding /\ published)
    BY <1>3, <2>2, RunFromZero DEF Logged
  <2> QED BY <2>1, <2>2
<1> QED BY <1>2, <1>4, <1>5

LEMMA StreamStarts == Init => StreamInv
<1> SUFFICES ASSUME Init PROVE StreamInv
  OBVIOUS
<1>1. InferenceInv
  BY InferenceStarts DEF Init
<1>2. StreamType
  <2>1. Detached \in 0..Detached
    BY DEF Detached
  <2>2. <<>> \in Seq(Nat)
    OBVIOUS
  <2>3. /\ cursor \in [Clients -> 0..Detached]
        /\ got \in [Clients -> Seq(Nat)]
        /\ lagged \in [Clients -> BOOLEAN]
    BY <2>1, <2>2 DEF Init
  <2> QED BY <2>2, <2>3 DEF Init, StreamType
<1>3. QueueInv
  <2>1. Run(0, 0) = <<>>
    BY RunFromZero
  <2>2. Queued(0, 0) /\ Logged(0)
    BY <2>1 DEF Init, InferenceInit, Queued, Logged
  <2> QED BY <2>2 DEF QueueInv
<1>4. ReportInv /\ ClientInv
  BY DEF Init, ReportInv, ClientInv
<1> QED BY <1>1, <1>2, <1>3, <1>4 DEF StreamInv

\* The job runs: what it sends is queued.
LEMMA JobKeepsStream ==
  ASSUME StreamInv, JobStep \/ CancelJob
  PROVE  StreamInv'
<1>1. ThreadStep \/ RunnerStep \/ Cancel
  BY DEF JobStep, CancelJob
<1>2. UNCHANGED <<held, log, published, status, cursor, got, lagged>>
  BY DEF JobStep, CancelJob, storeVars, clientVars
<1>3. InferenceInv /\ InferenceInv'
  BY <1>1, InferenceStep DEF StreamInv
<1>4. /\ UNCHANGED <<mail, forwarded>> \/ Sent
      /\ pc = "left" => UNCHANGED outcome
  BY <1>1, <1>3, InferenceSends
<1>5. StreamType'
  BY <1>2 DEF StreamInv, StreamType
<1>6. ClientInv'
  BY <1>2 DEF StreamInv, ClientInv
<1>7. published => pc = "left" /\ outcome # "none"
  BY <1>3 DEF StreamInv, ReportInv, InferenceInv, EndInv
<1>8. ReportInv'
  BY <1>2, <1>4, <1>7 DEF ReportInv
<1>9. QueueInv'
  <2>1. PICK p, q \in Nat : Queued(p, q) /\ Logged(p)
    BY DEF StreamInv, QueueInv
  <2>2. CASE UNCHANGED <<mail, forwarded>>
    <3>1. Queued(p, q)' /\ Logged(p)'
      BY <1>2, <2>1, <2>2 DEF Queued, Logged, ResultAfter
    <3> QED BY <3>1 DEF QueueInv
  <2>3. CASE Sent
    <3> DEFINE f == Len(forwarded)
    <3>1. f \in Nat /\ q <= f
      BY <2>1, LogLength DEF Queued
    <3>2. forwarded \in Seq(Nat)
      BY RunFromZero DEF StreamInv, InferenceInv, WayInv, OnTheWay
    <3>3. Len(forwarded') = f + 1
      BY <2>3, <3>2 DEF Sent
    <3>4. mail' = Run(q, f + 1)
      <4>1. Append(Run(q, f), f + 1) = Run(q, f + 1)
        BY <3>1, RunAppend
      <4> QED BY <2>1, <2>3, <4>1 DEF Queued, Sent
    <3>5. Len(mail) = f - q /\ Len(mail') = f + 1 - q
      <4>1. mail = Run(q, f) /\ q <= f + 1 /\ f + 1 \in Nat
        BY <2>1, <3>1 DEF Queued
      <4> HIDE DEF f
      <4>2. Len(Run(q, f)) = f - q
        BY <3>1, RunShape
      <4>3. Len(Run(q, f + 1)) = f + 1 - q
        BY <3>1, <4>1, RunShape
      <4> QED BY <3>4, <4>1, <4>2, <4>3
    <3>6. Len(mail') <= EventCapacity
      BY <2>3, <3>1, <3>5 DEF Sent, Room
    <3>7. Queued(p, q)'
      BY <1>2, <2>1, <3>1, <3>3, <3>4, <3>6 DEF Queued
    <3>8. Logged(p)'
      BY <1>2, <1>7, <2>1, <2>3 DEF Logged, Sent
    <3> QED BY <3>7, <3>8 DEF QueueInv
  <2> QED BY <1>4, <2>2, <2>3
<1> QED BY <1>3, <1>5, <1>6, <1>8, <1>9 DEF StreamInv

\* What clients were sent stays a part of the log when it grows.
LEMMA ClientsKeep ==
  ASSUME StreamInv, NEW event \in Nat, Publish(event), UNCHANGED clientVars
  PROVE  ClientInv' /\ log' \in Seq(Nat)
<1>1. log \in Seq(Nat) /\ log' = Append(log, event)
  BY DEF StreamInv, StreamType, Publish
<1>2. log' \in Seq(Nat) /\ Len(log') = Len(log) + 1
  BY <1>1
<1>3. ASSUME NEW c \in Clients, cursor'[c] # Detached
      PROVE  /\ cursor'[c] <= Len(log')
             /\ ~lagged'[c] => got'[c] = SubSeq(log', 1, cursor'[c])
  <2>1. /\ cursor[c] \in 0..Detached /\ cursor[c] <= Len(log)
        /\ ~lagged[c] => got[c] = SubSeq(log, 1, cursor[c])
        /\ cursor' = cursor /\ lagged' = lagged /\ got' = got
    BY <1>3 DEF StreamInv, StreamType, ClientInv, clientVars
  <2>2. cursor[c] \in 0..Len(log)
    BY <1>1, <2>1, LogLength
  <2>3. SubSeq(log', 1, cursor[c]) = SubSeq(log, 1, cursor[c])
    BY <1>1, <2>2, PrefixKept
  <2> QED BY <1>1, <1>2, <2>1, <2>2, <2>3
<1>4. ClientInv'
  BY <1>3 DEF ClientInv, Detached
<1> QED BY <1>2, <1>4

\* The forwarder takes an event into its hand, or publishes the one in it.
LEMMA ForwardKeepsStream ==
  ASSUME StreamInv, Forward
  PROVE  StreamInv'
<1>1. UNCHANGED <<threadVars, channelVars, cancelled, pc, current, break, forwarded, atDrop,
                  outcome, published, status, clientVars>>
  BY DEF Forward, TakeEvent, PublishEvent, inferenceVars, runnerVars, clientVars
<1>2. InferenceInv' /\ ReportInv'
  BY <1>1, InferenceRests DEF StreamInv, ReportInv
<1>3. PICK p, q \in Nat : Queued(p, q) /\ Logged(p)
  BY DEF StreamInv, QueueInv
<1> DEFINE f == Len(forwarded)
<1>4. /\ f \in Nat /\ p <= q /\ q <= p + 1 /\ q <= f
      /\ held = Run(p, q) /\ mail = Run(q, f)
  BY <1>3, LogLength DEF Queued
<1>5. /\ held = <<>> <=> p = q
      /\ mail = <<>> <=> q = f
  <2> HIDE DEF f
  <2>1. Run(p, q) = <<>> <=> p = q
    BY <1>4, RunShape
  <2>2. Run(q, f) = <<>> <=> q = f
    BY <1>4, RunShape
  <2> QED BY <1>4, <2>1, <2>2
<1>6. CASE TakeEvent
  <2>1. p = q /\ q < f
    BY <1>4, <1>5, <1>6 DEF TakeEvent
  <2>2. Head(mail) = q + 1 /\ mail' = Run(q + 1, f)
    BY <1>4, <1>6, <2>1, RunTake DEF TakeEvent
  <2>3. held' = Run(p, q + 1)
    <3>1. Run(q, q) = <<>> /\ Append(Run(q, q), q + 1) = Run(q, q + 1)
      <4>1. q <= q
        OBVIOUS
      <4>2. Run(q, q) = <<>>
        BY <4>1, RunShape
      <4> QED BY <4>1, <4>2, RunAppend
    <3>2. held' = <<q + 1>>
      BY <1>6, <2>2 DEF TakeEvent
    <3> QED BY <2>1, <3>1, <3>2
  <2>4. Len(mail) <= EventCapacity /\ Len(mail') <= EventCapacity
    <3> HIDE DEF f
    <3>1. Len(Run(q, f)) = f - q
      BY <1>4, RunShape
    <3>2. Len(Run(q + 1, f)) = f - (q + 1)
      BY <1>4, <2>1, RunShape
    <3> QED BY <1>3, <1>4, <2>2, <3>1, <3>2 DEF Queued
  <2>5. Queued(p, q + 1)'
    BY <1>1, <1>4, <1>6, <2>1, <2>2, <2>3, <2>4 DEF Queued, TakeEvent
  <2>6. log' = log
    BY <1>6 DEF TakeEvent
  <2>7. Logged(p)'
    BY <1>1, <1>3, <2>6 DEF Logged, ResultAfter
  <2>8. StreamType'
    <3>1. held' \in Seq(Nat)
      BY <1>6, <2>2 DEF TakeEvent
    <3> QED BY <1>1, <2>6, <3>1 DEF StreamInv, StreamType, clientVars
  <2>9. ClientInv'
    BY <1>1, <2>6 DEF StreamInv, ClientInv, clientVars
  <2> QED BY <1>2, <2>5, <2>7, <2>8, <2>9 DEF StreamInv, QueueInv
<1>7. CASE PublishEvent
  <2>1. q = p + 1 /\ Head(held) = p + 1
    <3>1. p < q
      BY <1>4, <1>5, <1>7 DEF PublishEvent
    <3>2. Head(Run(p, q)) = p + 1
      BY <3>1, RunTake
    <3> QED BY <1>4, <3>1, <3>2
  <2>2. Publish(p + 1) /\ held' = <<>> /\ mail' = mail
    BY <1>7, <2>1 DEF PublishEvent, inferenceVars, runnerVars
  <2>3. ClientInv' /\ log' \in Seq(Nat)
    BY <1>1, <2>2, ClientsKeep
  <2>4. Queued(q, q)'
    <3>1. Run(q, q) = <<>>
      BY RunShape
    <3> QED BY <1>1, <1>3, <1>4, <2>2, <3>1 DEF Queued
  <2>5. Logged(q)'
    <3>1. CASE Forwarding /\ published
      <4>1. PICK k \in Nat : ResultAfter(k, p)
        BY <1>3, <3>1 DEF Logged
      <4>2. log' = LogWith(k, p + 1)
        <5>1. /\ Append(Run(0, k), Result) \in Seq(Nat)
              /\ Run(k, p) \in Seq(Nat)
              /\ Append(Run(k, p), p + 1) = Run(k, p + 1)
          <6>1. k <= p
            BY <4>1 DEF ResultAfter
          <6>2. Run(0, k) \in Seq(Nat)
            BY RunFromZero
          <6>3. Append(Run(0, k), Result) \in Seq(Nat)
            BY <6>2, AppendProperties DEF Result
          <6>4. Run(k, p) \in Seq(Nat)
            BY <6>1, RunShape
          <6>5. Append(Run(k, p), p + 1) = Run(k, p + 1)
            BY <6>1, RunAppend
          <6> QED BY <6>3, <6>4, <6>5
        <5>2. log' = Append(Append(Run(0, k), Result) \o Run(k, p), p + 1)
          BY <2>2, <4>1 DEF Publish, ResultAfter, LogWith
        <5>3. Append(Append(Run(0, k), Result) \o Run(k, p), p + 1)
                = Append(Run(0, k), Result) \o Append(Run(k, p), p + 1)
          <6>1. p + 1 \in Nat
            OBVIOUS
          <6> DEFINE left == Append(Run(0, k), Result)
                     right == Run(k, p)
                     next == p + 1
          <6>2. left \in Seq(Nat) /\ right \in Seq(Nat) /\ next \in Nat
            BY <5>1, <6>1
          <6> HIDE DEF left, right, next
          <6>3. Append(left \o right, next) = left \o Append(right, next)
            BY <6>2, AppendOfConcat, SMTT(30)
          <6> QED BY <6>3 DEF left, right, next
        <5> QED BY <5>1, <5>2, <5>3, Zenon DEF LogWith
      <4>3. ResultAfter(k, q)'
        BY <1>1, <2>1, <4>1, <4>2 DEF ResultAfter
      <4> QED BY <1>1, <3>1, <4>3 DEF Logged
    <3>2. CASE ~(Forwarding /\ published)
      <4>1. Append(Run(0, p), p + 1) = Run(0, p + 1)
        <5>1. 0 \in Nat /\ 0 <= p
          OBVIOUS
        <5> QED BY <5>1, RunAppend
      <4>2. log' = Run(0, q)
        BY <1>3, <2>1, <2>2, <3>2, <4>1 DEF Logged, Publish
      <4> QED BY <1>1, <3>2, <4>2 DEF Logged
    <3> QED BY <3>1, <3>2
  <2>6. StreamType'
    BY <1>1, <2>2, <2>3 DEF StreamInv, StreamType, clientVars
  <2> QED BY <1>2, <2>3, <2>4, <2>5, <2>6 DEF StreamInv, QueueInv
<1> QED BY <1>6, <1>7 DEF Forward

\* The job's task publishes the result, or sets the status.
LEMMA ReportKeepsStream ==
  ASSUME StreamInv, Report
  PROVE  StreamInv'
<1>1. UNCHANGED <<inferenceVars, held, clientVars>>
  BY DEF Report, PublishResult, FinishJob
<1>2. InferenceInv'
  BY <1>1, InferenceRests DEF StreamInv, inferenceVars, runnerVars
<1>3. PICK p, q \in Nat : Queued(p, q) /\ Logged(p)
  BY DEF StreamInv, QueueInv
<1>4. UNCHANGED <<mail, forwarded, outcome, held, cursor, got, lagged>>
  BY <1>1 DEF inferenceVars, runnerVars, clientVars
<1>5. Queued(p, q)'
  BY <1>3, <1>4 DEF Queued
<1>6. CASE PublishResult
  <2>1. ReportInv' /\ published' = TRUE /\ ~published
    BY <1>4, <1>6 DEF PublishResult, ReportInv
  <2>2. CASE Forwarding
    <3>1. Publish(Result) /\ UNCHANGED status
      BY <1>6, <2>2 DEF PublishResult
    <3>2. ClientInv' /\ log' \in Seq(Nat)
      BY <1>1, <3>1, ClientsKeep DEF Result
    <3>3. log' = LogWith(p, p)
      <4>1. Run(p, p) = <<>>
        <5>1. p <= p
          OBVIOUS
        <5> QED BY <5>1, RunShape
      <4>2. Append(Run(0, p), Result) \in Seq(Nat)
        BY RunFromZero, AppendProperties DEF Result
      <4>3. LogWith(p, p) = Append(Run(0, p), Result)
        BY <4>1, <4>2 DEF LogWith
      <4>4. log = Run(0, p)
        BY <1>3, <2>1 DEF Logged
      <4> QED BY <3>1, <4>3, <4>4 DEF Publish
    <3>4. Len(forwarded) <= p + EventCapacity + 1
      <4> DEFINE f == Len(forwarded)
      <4>1. f \in Nat /\ q <= f /\ q <= p + 1 /\ mail = Run(q, f) /\ Len(mail) <= EventCapacity
        BY <1>3, LogLength DEF Queued
      <4> HIDE DEF f
      <4>2. Len(Run(q, f)) = f - q
        BY <4>1, RunShape
      <4>3. f <= p + EventCapacity + 1
        BY <4>1, <4>2
      <4> QED BY <4>3 DEF f
    <3>5. Logged(p)'
      <4>1. ResultAfter(p, p)'
        BY <1>4, <3>3, <3>4 DEF ResultAfter
      <4> QED BY <2>1, <2>2, <4>1 DEF Logged
    <3>6. StreamType'
      BY <1>4, <2>1, <3>1, <3>2 DEF StreamInv, StreamType
    <3> QED BY <1>2, <1>5, <2>1, <3>2, <3>5, <3>6 DEF StreamInv, QueueInv
  <2>3. CASE ~Forwarding
    <3>1. UNCHANGED <<log, status>>
      BY <1>6, <2>3 DEF PublishResult
    <3>2. Logged(p)' /\ StreamType' /\ ClientInv'
      BY <1>3, <1>4, <2>1, <2>3, <3>1 DEF Logged, StreamInv, StreamType, ClientInv
    <3> QED BY <1>2, <1>5, <2>1, <3>2 DEF StreamInv, QueueInv
  <2> QED BY <2>2, <2>3
<1>7. CASE FinishJob
  <2>1. UNCHANGED <<log, published>> /\ published /\ status' = outcome
    BY <1>7 DEF FinishJob
  <2>2. outcome \in Outcomes /\ outcome # "none"
    BY <2>1 DEF StreamInv, ReportInv, InferenceInv, InferenceType
  <2>3. StreamType'
    BY <1>4, <2>1, <2>2 DEF StreamInv, StreamType, Outcomes
  <2>4. Logged(p)' /\ ClientInv' /\ ReportInv'
    BY <1>3, <1>4, <2>1 DEF Logged, ResultAfter, StreamInv, ClientInv, ReportInv
  <2> QED BY <1>2, <1>5, <2>3, <2>4 DEF StreamInv, QueueInv
<1> QED BY <1>6, <1>7 DEF Report

\* A client attaches, or reads the next event.
LEMMA ClientKeepsStream ==
  ASSUME StreamInv, NEW d \in Clients, Attach(d) \/ Receive(d)
  PROVE  StreamInv'
<1>1. UNCHANGED <<inferenceVars, storeVars>>
  BY DEF Attach, Receive
<1>2. UNCHANGED <<mail, forwarded, outcome, held, log, published, status>>
  BY <1>1 DEF inferenceVars, runnerVars, storeVars
<1>3. InferenceInv'
  BY <1>1, InferenceRests DEF StreamInv, inferenceVars, runnerVars
<1>4. QueueInv' /\ ReportInv'
  BY <1>2 DEF StreamInv, QueueInv, ReportInv, Queued, Logged, ResultAfter
<1>5. /\ cursor \in [Clients -> 0..Detached] /\ got \in [Clients -> Seq(Nat)]
      /\ lagged \in [Clients -> BOOLEAN]
      /\ log \in Seq(Nat) /\ Len(log) \in 0..(Budget + 1)
      /\ Detached = Budget + 2
      /\ \A c \in Clients : cursor[c] # Detached =>
           /\ cursor[c] <= Len(log)
           /\ ~lagged[c] => got[c] = SubSeq(log, 1, cursor[c])
  BY LogLength DEF StreamInv, StreamType, ClientInv, Detached
<1>6. SUFFICES /\ cursor' \in [Clients -> 0..Detached] /\ got' \in [Clients -> Seq(Nat)]
               /\ lagged' \in [Clients -> BOOLEAN]
               /\ cursor'[d] # Detached =>
                    /\ cursor'[d] <= Len(log)
                    /\ ~lagged'[d] => got'[d] = SubSeq(log, 1, cursor'[d])
               /\ \A c \in Clients \ {d} :
                    cursor'[c] = cursor[c] /\ got'[c] = got[c] /\ lagged'[c] = lagged[c]
  <2>1. StreamType'
    BY <1>2, <1>6 DEF StreamInv, StreamType, Detached
  <2>2. ClientInv'
    BY <1>2, <1>5, <1>6 DEF ClientInv, Detached
  <2> QED BY <1>3, <1>4, <2>1, <2>2 DEF StreamInv
<1>7. CASE Attach(d)
  <2>1. /\ got' = [got EXCEPT ![d] = log]
        /\ cursor' = [cursor EXCEPT ![d] = Len(log)]
        /\ lagged' = [lagged EXCEPT ![d] = FALSE]
    BY <1>7 DEF Attach
  <2>2. SubSeq(log, 1, Len(log)) = log
    BY <1>5, PrefixWhole
  <2>3. Len(log) \in 0..Detached
    BY <1>5
  <2>4. /\ cursor' \in [Clients -> 0..Detached] /\ got' \in [Clients -> Seq(Nat)]
        /\ lagged' \in [Clients -> BOOLEAN]
    BY <1>5, <2>1, <2>3
  <2>5. cursor'[d] = Len(log) /\ got'[d] = log
    BY <1>5, <2>1
  <2>6. \A c \in Clients \ {d} :
          cursor'[c] = cursor[c] /\ got'[c] = got[c] /\ lagged'[c] = lagged[c]
    BY <1>5, <2>1
  <2>7. got'[d] = SubSeq(log, 1, cursor'[d])
    BY <2>2, <2>5, Zenon
  <2>8. cursor'[d] <= Len(log)
    BY <1>5, <2>5
  <2> QED BY <2>4, <2>6, <2>7, <2>8, Zenon
<1>8. CASE Receive(d)
  <2>1. cursor[d] \in Nat /\ cursor[d] < Len(log) /\ cursor[d] # Detached
    BY <1>5, <1>8 DEF Receive
  <2>2. CASE Len(log) - cursor[d] > LiveCapacity
    <3>1. /\ cursor' = [cursor EXCEPT ![d] = Len(log) - LiveCapacity]
          /\ lagged' = [lagged EXCEPT ![d] = TRUE]
          /\ got' = got
      BY <1>8, <2>2 DEF Receive
    <3>2. Len(log) - LiveCapacity \in 0..Detached /\ Len(log) - LiveCapacity <= Len(log)
      BY <1>5, <2>1, <2>2
    <3> QED BY <1>5, <3>1, <3>2
  <2>3. CASE ~(Len(log) - cursor[d] > LiveCapacity)
    <3>1. /\ cursor' = [cursor EXCEPT ![d] = cursor[d] + 1]
          /\ got' = [got EXCEPT ![d] = Append(got[d], log[cursor[d] + 1])]
          /\ lagged' = lagged
      BY <1>8, <2>3 DEF Receive
    <3>2. cursor[d] + 1 \in 0..Detached /\ cursor[d] + 1 <= Len(log)
      BY <1>5, <2>1
    <3>3. log[cursor[d] + 1] \in Nat
      BY <1>5, <2>1
    <3>4. Append(got[d], log[cursor[d] + 1]) \in Seq(Nat)
      BY <1>5, <3>3, AppendProperties
    <3>5. ~lagged[d] => Append(got[d], log[cursor[d] + 1]) = SubSeq(log, 1, cursor[d] + 1)
      BY <1>5, <2>1, PrefixGrows
    <3> QED BY <1>5, <3>1, <3>2, <3>4, <3>5
  <2> QED BY <2>2, <2>3
<1> QED BY <1>7, <1>8

-----------------------------------------------------------------------------
(***************************************************************************)
(* The theorems                                                            *)
(***************************************************************************)

LEMMA StreamKept ==
  ASSUME StreamInv, [Next]_vars
  PROVE  StreamInv'
<1>1. CASE JobStep \/ CancelJob
  BY <1>1, JobKeepsStream
<1>2. CASE Forward
  BY <1>2, ForwardKeepsStream
<1>3. CASE Report
  BY <1>3, ReportKeepsStream
<1>4. CASE \E c \in Clients : Attach(c) \/ Receive(c)
  BY <1>4, ClientKeepsStream
<1>5. CASE UNCHANGED vars
  <2>1. UNCHANGED <<inferenceVars, storeVars, clientVars>>
    BY <1>5 DEF vars
  <2>2. UNCHANGED <<mail, forwarded, outcome, held, log, published, status, cursor, got, lagged>>
    BY <2>1 DEF inferenceVars, runnerVars, storeVars, clientVars
  <2>3. InferenceInv'
    BY <2>1, InferenceRests DEF StreamInv, inferenceVars, runnerVars
  <2>4. StreamType' /\ ClientInv' /\ ReportInv'
    BY <2>2 DEF StreamInv, StreamType, ClientInv, ReportInv
  <2>5. QueueInv'
    BY <2>2 DEF StreamInv, QueueInv, Queued, Logged, ResultAfter
  <2> QED BY <2>3, <2>4, <2>5 DEF StreamInv
<1> QED BY <1>1, <1>2, <1>3, <1>4, <1>5 DEF Next

LEMMA StreamHolds == Spec => []StreamInv
<1>1. Init => StreamInv
  BY StreamStarts
<1>2. StreamInv /\ [Next]_vars => StreamInv'
  BY StreamKept
<1> QED BY <1>1, <1>2, PTL DEF Spec

\* The variables have their types, and the job's channel never holds more
\* events than it has room for (the bounded channel of run_job).
THEOREM TypeCorrect == Spec => []TypeOK
<1>1. StreamInv => TypeOK
  BY DEF StreamInv, InferenceInv, InferenceType, StreamType, QueueInv, Queued, TypeOK
<1> QED BY <1>1, StreamHolds, PTL

\* Every token a backend generates is accounted for, whatever the budget and
\* however small the channel: an inference that answers or fails has forwarded
\* all of them in order, and one whose receiver is gone makes one more at most
\* (run_stage's and the backends' draining, generate's send).
THEOREM NoTokenLost == Spec => []TokensAccounted
<1>1. StreamInv => TokensAccounted
  BY InferenceAccounted DEF StreamInv
<1> QED BY <1>1, StreamHolds, PTL

\* The log, the forwarder's hand and the channel hold what the runner sent,
\* once and in order, and a client that has not lagged was sent the log from
\* its start, for any number of clients attaching at any moment (publish and
\* subscribe).
THEOREM StreamWhole == Spec => []ClientSeesLog
<1>1. ASSUME StreamInv PROVE ClientSeesLog
  <2>1. ASSUME Forwarding PROVE Tokens(log) \o held \o mail = forwarded
    <3>1. PICK p, q \in Nat : Queued(p, q) /\ Logged(p)
      BY <1>1 DEF StreamInv, QueueInv
    <3>2. PICK f \in Nat : forwarded = Run(0, f)
      BY <1>1 DEF StreamInv, InferenceInv, WayInv, OnTheWay
    <3>3. Len(forwarded) = f
      BY <3>2, RunFromZero
    <3>4. 0 <= p /\ p <= q /\ q <= f /\ 0 <= q /\ 0 \in Nat
      BY <3>1, <3>3 DEF Queued
    <3>5. Tokens(log) = Run(0, p)
      <4>1. CASE published
        <5>1. PICK k \in Nat : k <= p /\ log = LogWith(k, p)
          BY <2>1, <3>1, <4>1 DEF Logged, ResultAfter
        <5> QED BY <5>1, TokensOfLog
      <4>2. CASE ~published
        <5>1. log = Run(0, p)
          BY <3>1, <4>2 DEF Logged
        <5> QED BY <5>1, TokensOfRun
      <4> QED BY <4>1, <4>2
    <3>6. held = Run(p, q) /\ mail = Run(q, f)
      BY <3>1, <3>3 DEF Queued
    <3>7. Run(0, p) \o Run(p, q) = Run(0, q)
      BY <3>4, RunJoin
    <3>8. Run(0, q) \o Run(q, f) = Run(0, f)
      BY <3>4, RunJoin
    <3> QED BY <3>2, <3>5, <3>6, <3>7, <3>8, Zenon
  <2>2. \A c \in Clients : cursor[c] # Detached /\ ~lagged[c] =>
          got[c] = SubSeq(log, 1, cursor[c])
    BY <1>1 DEF StreamInv, ClientInv
  <2> QED BY <2>1, <2>2 DEF ClientSeesLog
<1> QED BY <1>1, StreamHolds, PTL

\* The result overtakes no more tokens than the channel and the forwarder's
\* hand hold, for every capacity (the result is published by another task
\* than the tokens).
THEOREM ResultNearEnd == Spec => []LateBound
<1>1. ASSUME StreamInv PROVE LateBound
  <2> SUFFICES ASSUME NEW i \in DOMAIN log, log[i] = Result
               PROVE  (Len(log) - i) + Len(mail) + Len(held) <= EventCapacity + 1
    BY DEF LateBound
  <2>1. PICK p, q \in Nat : Queued(p, q) /\ Logged(p)
    BY <1>1 DEF StreamInv, QueueInv
  <2>2. PICK f \in Nat : f = Len(forwarded)
    BY <1>1, LogLength
  <2>3. p <= q /\ q <= f /\ Len(held) = q - p /\ Len(mail) = f - q
    <3>1. p <= q /\ q <= f /\ held = Run(p, q) /\ mail = Run(q, f)
      BY <2>1, <2>2 DEF Queued
    <3>2. Len(Run(p, q)) = q - p
      BY <3>1, RunShape
    <3>3. Len(Run(q, f)) = f - q
      BY <3>1, RunShape
    <3> QED BY <3>1, <3>2, <3>3
  <2>4. CASE Forwarding /\ published
    <3>1. PICK k \in Nat : k <= p /\ log = LogWith(k, p) /\ f <= k + EventCapacity + 1
      BY <2>1, <2>2, <2>4 DEF Logged, ResultAfter
    <3>2. /\ Len(log) = p + 1 /\ log \in Seq(Nat)
          /\ \A j \in 1..(p + 1) : log[j] = Result <=> j = k + 1
      <4>1. /\ Len(LogWith(k, p)) = p + 1 /\ LogWith(k, p) \in Seq(Nat)
            /\ \A j \in 1..(p + 1) : LogWith(k, p)[j] = Result <=> j = k + 1
        BY <3>1, LogShape
      <4> QED BY <3>1, <4>1, Zenon
    <3>3. i \in 1..(p + 1)
      BY <3>2
    <3>4. i = k + 1
      BY <3>2, <3>3
    <3> QED BY <2>3, <3>1, <3>2, <3>4
  <2>5. CASE ~(Forwarding /\ published)
    <3>1. log = Run(0, p)
      BY <2>1, <2>5 DEF Logged
    <3>2. i \in 1..p /\ log[i] = i
      <4>1. Run(0, p) \in Seq(Nat) /\ Len(Run(0, p)) = p /\ \A j \in 1..p : Run(0, p)[j] = j
        BY RunFromZero
      <4>2. DOMAIN Run(0, p) = 1..p
        BY <4>1
      <4> QED BY <3>1, <4>1, <4>2
    <3> QED BY <3>2 DEF Result
  <2> QED BY <2>4, <2>5
<1> QED BY <1>1, StreamHolds, PTL
=============================================================================
