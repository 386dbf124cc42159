------------------------ MODULE A2AExecutor_proofs ------------------------
(***************************************************************************)
(* Proofs about A2AExecutor, for any number of tasks, attempts and pool    *)
(* threads, any ttl and deadline: no result after a cancel, one attempt at *)
(* most that overtakes it, no attempt beside another when the ttl reaches  *)
(* the deadline, and an audit gate that refuses only what is left over.    *)
(***************************************************************************)
EXTENDS A2AExecutor, TLAPS

----------------------------------------------------------------------------
(* The inductive invariant. *)

\* Threads begin with the first attempt, and one that makes an attempt has one left.
AttemptInRange ==
    \A t \in Task : /\ run[t].n # 0
                    /\ run[t].at = "none" => run[t].n = 1
                    /\ run[t].at \in {"begin", "dispatch", "collect"} => run[t].n <= MaxAttempts

TypeInv == A2ATypeOK /\ AttemptInRange

\* Until its thread is through, a client has heard of cancels at most, and these are marked.
StreamInv ==
    \A t \in Task :
        /\ info[t].terminal <=> run[t].at = "done"
        /\ ~info[t].terminal =>
              /\ \A i \in DOMAIN stream[t] : stream[t][i] = "CANCELED"
              /\ stream[t] # <<>> => info[t].canceled

\* A thread that has overtaken a cancel does not get past the head of its loop again.
LateInv == \A a \in late : info[a[1]].canceled /\ run[a[1]].at \notin {"none", "begin"}

\* What has not been begun is untouched; what is dispatched next is begun.
FreshInv ==
    \A a \in Attempt :
        /\ a[2] > run[a[1]].n => work[a] = "none"
        /\ a[2] = run[a[1]].n /\ run[a[1]].at \in {"none", "check", "begin"} => work[a] = "none"
        /\ a[2] = run[a[1]].n /\ run[a[1]].at = "dispatch" => work[a] = "begun"

\* The queue holds the queued attempts, each once.
QueueInv ==
    /\ \A i \in 1..Len(queue) : work[queue[i]] = "queued"
    /\ \A i, j \in 1..Len(queue) : queue[i] = queue[j] => i = j

\* An attempt that may take until the deadline is given up at the deadline.
WaitInv ==
    \A t \in Task : /\ run[t].at = "dispatch" => run[t].due <= run[t].left
                    /\ run[t].at = "dispatch" => run[t].left <= Deadline
                    /\ run[t].due <= Deadline
                    /\ run[t].at = "collect" /\ ttl >= Deadline => run[t].due <= run[t].wait

\* An attempt in the pool is being waited for, or the deadline has passed.
PoolInv ==
    ttl >= Deadline => \A a \in Attempt : InPool(a) =>
        \/ run[a[1]].at = "collect" /\ a[2] = run[a[1]].n
        \/ run[a[1]].at \in {"check", "begin", "return", "done"} /\ run[a[1]].due = 0

\* Whatever is at the gate is recorded, or its task is over.
GateInv == \A a \in Attempt : work[a] = "gate" => a[1] \in seen \/ info[a[1]].terminal

----------------------------------------------------------------------------
(* What the actions do to the thread of a task, field by field. *)

OnlyRun(t) ==
    /\ run' \in [Task -> RunRecord]
    /\ \A u \in Task : u # t => run'[u] = run[u]

LEMMA RunTyped ==
    ASSUME TypeInv
    PROVE  /\ run \in [Task -> RunRecord] /\ info \in [Task -> InfoRecord]
           /\ work \in [Attempt -> Stage] /\ queue \in Seq(Attempt)
           /\ stream \in [Task -> Seq(Outcome)]
           /\ ttl \in Nat \ {0} /\ Deadline \in Nat
BY A2AAssumption DEF TypeInv, A2ATypeOK

LEMMA RetryEffect ==
    ASSUME TypeInv, NEW t \in Task, Retry(t)
    PROVE  /\ OnlyRun(t)
           /\ run'[t].at = "check" /\ run'[t].n = run[t].n + 1
           /\ run'[t].due = run[t].due
<1>1. run \in [Task -> RunRecord]
  BY RunTyped
<1>2. [run[t] EXCEPT !.at = "check", !.n = @ + 1] \in RunRecord
  <2>1. run[t] \in RunRecord /\ run[t].n + 1 \in Nat /\ "check" \in Place
    BY <1>1 DEF RunRecord, Place
  <2> QED BY <2>1 DEF RunRecord
<1>3. run' = [run EXCEPT ![t] = [run[t] EXCEPT !.at = "check", !.n = @ + 1]]
  BY <1>1 DEF Retry, RunRecord
<1> QED BY <1>1, <1>2, <1>3 DEF OnlyRun, RunRecord

LEMMA ReturnEffect ==
    ASSUME TypeInv, NEW t \in Task, NEW o \in Outcome, Return(t, o)
    PROVE  /\ OnlyRun(t)
           /\ run'[t].at = "return" /\ run'[t].n = run[t].n
           /\ run'[t].due = run[t].due
<1>1. run \in [Task -> RunRecord]
  BY RunTyped
<1>2. [run[t] EXCEPT !.at = "return", !.outcome = o] \in RunRecord
  BY <1>1 DEF RunRecord, Place
<1>3. run' = [run EXCEPT ![t] = [run[t] EXCEPT !.at = "return", !.outcome = o]]
  BY <1>1 DEF Return, RunRecord
<1> QED BY <1>1, <1>2, <1>3 DEF OnlyRun, RunRecord

LEMMA BeginLoopEffect ==
    ASSUME TypeInv, NEW t \in Task, run' = [run EXCEPT ![t].at = "begin"]
    PROVE  /\ OnlyRun(t)
           /\ run'[t].at = "begin" /\ run'[t].n = run[t].n
           /\ run'[t].due = run[t].due
<1>1. run \in [Task -> RunRecord]
  BY RunTyped
<1>2. [run[t] EXCEPT !.at = "begin"] \in RunRecord
  BY <1>1 DEF RunRecord, Place
<1> QED BY <1>1, <1>2 DEF OnlyRun, RunRecord

LEMMA DoneEffect ==
    ASSUME TypeInv, NEW t \in Task, run' = [run EXCEPT ![t].at = "done"]
    PROVE  /\ OnlyRun(t)
           /\ run'[t].at = "done" /\ run'[t].n = run[t].n
           /\ run'[t].due = run[t].due
<1>1. run \in [Task -> RunRecord]
  BY RunTyped
<1>2. [run[t] EXCEPT !.at = "done"] \in RunRecord
  BY <1>1 DEF RunRecord, Place
<1> QED BY <1>1, <1>2 DEF OnlyRun, RunRecord

LEMMA BegunEffect ==
    ASSUME TypeInv, NEW t \in Task,
           run' = [run EXCEPT ![t].at = "dispatch", ![t].left = run[t].due]
    PROVE  /\ OnlyRun(t)
           /\ run'[t].at = "dispatch" /\ run'[t].n = run[t].n
           /\ run'[t].due = run[t].due /\ run'[t].left = run[t].due
<1>1. run \in [Task -> RunRecord]
  BY RunTyped
<1>2. [run[t] EXCEPT !.at = "dispatch", !.left = run[t].due] \in RunRecord
  BY <1>1 DEF RunRecord, Place
<1>3. run' = [run EXCEPT ![t] = [run[t] EXCEPT !.at = "dispatch", !.left = run[t].due]]
  BY <1>1 DEF RunRecord
<1> QED BY <1>1, <1>2, <1>3 DEF OnlyRun, RunRecord

LEMMA DispatchedEffect ==
    ASSUME TypeInv, NEW t \in Task,
           run' = [run EXCEPT ![t].at = "collect", ![t].wait = WaitFor(t)]
    PROVE  /\ OnlyRun(t)
           /\ run'[t].at = "collect" /\ run'[t].n = run[t].n
           /\ run'[t].due = run[t].due /\ run'[t].wait = WaitFor(t)
<1>1. run \in [Task -> RunRecord]
  BY RunTyped
<1>2. WaitFor(t) \in Nat
  BY <1>1, RunTyped DEF WaitFor, RunRecord
<1>3. [run[t] EXCEPT !.at = "collect", !.wait = WaitFor(t)] \in RunRecord
  BY <1>1, <1>2 DEF RunRecord, Place
<1>4. run' = [run EXCEPT ![t] = [run[t] EXCEPT !.at = "collect", !.wait = WaitFor(t)]]
  BY <1>1 DEF RunRecord
<1> QED BY <1>1, <1>3, <1>4 DEF OnlyRun, RunRecord

LEMMA SubmitEffect ==
    ASSUME TypeInv, NEW t \in Task, Submit(t)
    PROVE  /\ OnlyRun(t)
           /\ run'[t].at = "check" /\ run'[t].n = 1 /\ run'[t].due = Deadline
<1>1. run \in [Task -> RunRecord] /\ Deadline \in Nat
  BY RunTyped
<1>2. [Resting EXCEPT !.at = "check", !.due = Deadline] \in RunRecord
  BY <1>1 DEF Resting, RunRecord, Place, Outcome
<1>3. /\ [Resting EXCEPT !.at = "check", !.due = Deadline].at = "check"
      /\ [Resting EXCEPT !.at = "check", !.due = Deadline].n = 1
      /\ [Resting EXCEPT !.at = "check", !.due = Deadline].due = Deadline
  BY DEF Resting
<1> QED BY <1>1, <1>2, <1>3 DEF Submit, OnlyRun

LEMMA TickEffect ==
    ASSUME TypeInv, Tick
    PROVE  /\ run' \in [Task -> RunRecord]
           /\ \A u \in Task : /\ run'[u].at = run[u].at /\ run'[u].n = run[u].n
                              /\ run'[u].left = run[u].left
                              /\ run'[u].due = Less(run[u].due)
                              /\ run'[u].wait = Less(run[u].wait)
<1>1. run \in [Task -> RunRecord]
  BY RunTyped
<1>2. ASSUME NEW u \in Task
      PROVE  [run[u] EXCEPT !.due = Less(@), !.wait = Less(@)] \in RunRecord
  <2>1. Less(run[u].due) \in Nat /\ Less(run[u].wait) \in Nat
    BY <1>1 DEF Less, RunRecord
  <2> QED BY <1>1, <2>1 DEF RunRecord
<1>3. run' = [u \in Task |-> [run[u] EXCEPT !.due = Less(@), !.wait = Less(@)]]
  BY DEF Tick
<1> QED BY <1>1, <1>2, <1>3 DEF RunRecord

----------------------------------------------------------------------------
(* What they do to _inflight. *)

OnlyInfo(t) ==
    /\ info' \in [Task -> InfoRecord]
    /\ \A u \in Task : u # t => info'[u] = info[u]

LEMMA FinishInfo ==
    ASSUME TypeInv, NEW t \in Task, info' = [info EXCEPT ![t].terminal = TRUE]
    PROVE  OnlyInfo(t) /\ info'[t].terminal /\ info'[t].canceled = info[t].canceled
<1>1. info \in [Task -> InfoRecord]
  BY RunTyped
<1>2. [info[t] EXCEPT !.terminal = TRUE] \in InfoRecord
  BY <1>1, Zenon DEF InfoRecord
<1> QED BY <1>1, <1>2, Zenon DEF OnlyInfo, InfoRecord

LEMMA CancelInfo ==
    ASSUME TypeInv, NEW t \in Task, info' = [info EXCEPT ![t].canceled = @ \/ ~info[t].terminal]
    PROVE  /\ OnlyInfo(t)
           /\ info'[t].terminal = info[t].terminal
           /\ info'[t].canceled <=> info[t].canceled \/ ~info[t].terminal
<1>1. info \in [Task -> InfoRecord]
  BY RunTyped
<1>2. (info[t].canceled \/ ~info[t].terminal) \in BOOLEAN
  BY Zenon
<1>3. [info[t] EXCEPT !.canceled = @ \/ ~info[t].terminal] \in InfoRecord
  BY <1>1, <1>2, Zenon DEF InfoRecord
<1> QED BY <1>1, <1>3, Zenon DEF OnlyInfo, InfoRecord

----------------------------------------------------------------------------
(* Types. *)

\* The attempt a thread is at.
LEMMA Current ==
    ASSUME TypeInv, NEW t \in Task, run[t].at \in {"begin", "dispatch", "collect"}
    PROVE  <<t, run[t].n>> \in Attempt
<1>1. run[t].n \in Nat
  BY RunTyped DEF RunRecord
<1> QED BY <1>1, A2AAssumption DEF TypeInv, AttemptInRange, Attempt

LEMMA TypeInit == A2AInit => TypeInv
<1> SUFFICES ASSUME A2AInit PROVE TypeInv
  OBVIOUS
<1>1. Resting \in RunRecord
  BY DEF Resting, RunRecord, Place, Outcome
<1>2. [canceled |-> FALSE, terminal |-> FALSE] \in InfoRecord
  BY Zenon DEF InfoRecord
<1>3. /\ run \in [Task -> RunRecord] /\ info \in [Task -> InfoRecord]
      /\ work \in [Attempt -> Stage] /\ queue \in Seq(Attempt)
      /\ stream \in [Task -> Seq(Outcome)]
  BY <1>1, <1>2 DEF A2AInit, Stage
<1>4. A2ATypeOK
  BY <1>3, 0 \in Nat DEF A2AInit, A2ATypeOK
<1>5. AttemptInRange
  BY A2AAssumption DEF A2AInit, AttemptInRange, Resting
<1> QED BY <1>4, <1>5 DEF TypeInv

LEMMA TypeStep == TypeInv /\ [A2ANext]_a2aVars => TypeInv'
<1> SUFFICES ASSUME TypeInv, [A2ANext]_a2aVars PROVE TypeInv'
  OBVIOUS
<1> USE RunTyped
<1>0. A2ATypeOK /\ AttemptInRange
  BY DEF TypeInv
<1>1. ASSUME NEW t \in Task, Submit(t) PROVE TypeInv'
  <2>1. A2ATypeOK'
    BY <1>1, <1>0, SubmitEffect DEF Submit, OnlyRun, A2ATypeOK
  <2>2. OnlyRun(t) /\ run'[t].at = "check" /\ run'[t].n = 1
    BY <1>1, SubmitEffect
  <2>3. AttemptInRange'
    <3> SUFFICES ASSUME NEW u \in Task
                 PROVE  /\ run'[u].n # 0
                        /\ run'[u].at = "none" => run'[u].n = 1
                        /\ run'[u].at \in {"begin", "dispatch", "collect"}
                              => run'[u].n <= MaxAttempts
      BY DEF AttemptInRange
    <3>1. CASE u = t
      BY <2>2, <3>1
    <3>2. CASE u # t
      BY <2>2, <3>2, <1>0 DEF OnlyRun, AttemptInRange
    <3> QED BY <3>1, <3>2
  <2> QED BY <2>1, <2>3 DEF TypeInv
<1>2. ASSUME NEW t \in Task, Cancel(t) PROVE TypeInv'
  <2>1. info' \in [Task -> InfoRecord]
    BY <1>2, CancelInfo DEF Cancel, OnlyInfo
  <2>2. stream' \in [Task -> Seq(Outcome)]
    BY <1>2 DEF Cancel, Outcome
  <2>3. A2ATypeOK'
    BY <1>2, <1>0, <2>1, <2>2 DEF Cancel, A2ATypeOK
  <2> QED BY <1>2, <1>0, <2>3 DEF Cancel, AttemptInRange, TypeInv
<1>3. ASSUME NEW t \in Task, Finish(t) PROVE TypeInv'
  <2>1. info' \in [Task -> InfoRecord] /\ run' \in [Task -> RunRecord]
    BY <1>3, FinishInfo, DoneEffect DEF Finish, OnlyInfo, OnlyRun
  <2>2. stream' \in [Task -> Seq(Outcome)]
    <3>1. run[t].outcome \in Outcome
      BY DEF RunRecord
    <3> QED BY <1>3, <3>1 DEF Finish
  <2>3. A2ATypeOK'
    BY <1>3, <1>0, <2>1, <2>2 DEF Finish, A2ATypeOK
  <2>4. AttemptInRange'
    BY <1>3, <1>0, DoneEffect DEF Finish, OnlyRun, AttemptInRange
  <2> QED BY <2>3, <2>4 DEF TypeInv
<1>4. ASSUME NEW t \in Task, Thread(t) PROVE TypeInv'
  <2> DEFINE Elsewhere == OnlyRun(t) /\ run'[t].n # 0
                          /\ run'[t].at # "none"
                          /\ (run'[t].at \in {"begin", "dispatch", "collect"}
                                  => run'[t].n <= MaxAttempts)
  <2>n. run[t].n \in Nat
    BY DEF RunRecord
  <2>o. "FAILED" \in Outcome /\ "CANCELED" \in Outcome /\ "COMPLETED" \in Outcome
    BY DEF Outcome
  <2>1. CASE Check(t)
    <3>1. Elsewhere
      BY <2>1, <2>n, <2>o, <1>0, A2AAssumption, ReturnEffect, BeginLoopEffect DEF Check, AttemptInRange
    <3>2. A2ATypeOK'
      BY <2>1, <3>1, <1>0 DEF Check, OnlyRun, A2ATypeOK
    <3> QED BY <3>1, <3>2, <1>0 DEF TypeInv, AttemptInRange, OnlyRun
  <2>2. CASE Begin(t)
    <3>1. Elsewhere
      BY <2>2, <2>n, <2>o, <1>0, A2AAssumption, ReturnEffect, BegunEffect DEF Begin, AttemptInRange
    <3>2. work' \in [Attempt -> Stage] /\ late' \subseteq Attempt
      BY <2>2, <1>0, Current DEF Begin, Stage, A2ATypeOK
    <3>3. A2ATypeOK'
      BY <2>2, <3>1, <3>2, <1>0 DEF Begin, OnlyRun, A2ATypeOK
    <3> QED BY <3>1, <3>3, <1>0 DEF TypeInv, AttemptInRange, OnlyRun
  <2>3. CASE Dispatch(t)
    <3>1. Elsewhere
      <4>1. CASE fresh
        BY <2>3, <4>1, <2>n, <1>0, DispatchedEffect DEF Dispatch, AttemptInRange
      <4>2. CASE ~fresh
        BY <2>3, <4>2, <2>n, <1>0, RetryEffect DEF Dispatch, AttemptInRange
      <4> QED BY <4>1, <4>2
    <3>2. work' \in [Attempt -> Stage] /\ queue' \in Seq(Attempt)
      <4>1. <<t, run[t].n>> \in Attempt
        BY <2>3, Current DEF Dispatch
      <4> DEFINE current == <<t, run[t].n>>
      <4>2. Append(queue, current) \in Seq(Attempt)
        <5> HIDE DEF current
        <5> QED BY <4>1 DEF current
      <4> QED BY <2>3, <4>1, <4>2 DEF Dispatch, Stage
    <3>3. A2ATypeOK'
      BY <2>3, <3>1, <3>2, <1>0 DEF Dispatch, OnlyRun, A2ATypeOK
    <3> QED BY <3>1, <3>3, <1>0 DEF TypeInv, AttemptInRange, OnlyRun
  <2>4. CASE Collect(t)
    <3>1. Elsewhere
      BY <2>4, <2>n, <2>o, <1>0, A2AAssumption, RetryEffect, ReturnEffect DEF Collect, AttemptInRange
    <3>2. A2ATypeOK'
      BY <2>4, <3>1, <1>0 DEF Collect, OnlyRun, A2ATypeOK
    <3> QED BY <3>1, <3>2, <1>0 DEF TypeInv, AttemptInRange, OnlyRun
  <2>5. CASE GiveUp(t)
    <3>1. Elsewhere
      BY <2>5, <2>n, <1>0, A2AAssumption, RetryEffect DEF GiveUp, AttemptInRange
    <3>2. A2ATypeOK'
      BY <2>5, <3>1, <1>0 DEF GiveUp, OnlyRun, A2ATypeOK
    <3> QED BY <3>1, <3>2, <1>0 DEF TypeInv, AttemptInRange, OnlyRun
  <2> QED BY <1>4, <2>1, <2>2, <2>3, <2>4, <2>5 DEF Thread
<1>5. ASSUME NEW a \in Attempt, Handler(a) PROVE TypeInv'
  <2>1. a[1] \in Task
    BY DEF Attempt
  <2>2. /\ UNCHANGED <<ttl, ledger, run, info, queue, stream, fresh, lapses, late>>
        /\ work' \in [Attempt -> Stage] /\ seen' \subseteq Task /\ refused' \subseteq Attempt
    BY <1>5, <1>0, <2>1 DEF Handler, SearchKb, PassGate, SearchWeb, Stage, A2ATypeOK
  <2>3. A2ATypeOK'
    BY <2>2, <1>0 DEF A2ATypeOK
  <2> QED BY <2>2, <2>3, <1>0 DEF TypeInv, AttemptInRange
<1>6. CASE Take
  <2>1. Head(queue) \in Attempt /\ Tail(queue) \in Seq(Attempt)
    BY <1>6 DEF Take
  <2>2. work' \in [Attempt -> Stage]
    BY <1>6, <2>1 DEF Take, Stage
  <2>3. A2ATypeOK'
    BY <1>6, <1>0, <2>1, <2>2 DEF Take, A2ATypeOK
  <2> QED BY <1>6, <2>3, <1>0 DEF Take, TypeInv, AttemptInRange
<1>7. CASE Lapse \/ Heartbeat
  <2>1. fresh' \in BOOLEAN /\ lapses' \in Nat
    <3>1. lapses \in Nat /\ (lapses' = lapses + 1 \/ lapses' = lapses)
      BY <1>7, <1>0 DEF Lapse, Heartbeat, A2ATypeOK
    <3>2. fresh' \in BOOLEAN
      BY <1>7, Zenon DEF Lapse, Heartbeat
    <3> QED BY <3>1, <3>2
  <2>2. A2ATypeOK'
    BY <1>7, <1>0, <2>1, Zenon DEF Lapse, Heartbeat, A2ATypeOK
  <2> QED BY <1>7, <2>2, <1>0 DEF Lapse, Heartbeat, TypeInv, AttemptInRange
<1>8. CASE Tick
  <2>1. A2ATypeOK'
    BY <1>8, <1>0, TickEffect DEF Tick, A2ATypeOK
  <2>2. AttemptInRange'
    BY <1>8, <1>0, TickEffect DEF AttemptInRange
  <2> QED BY <2>1, <2>2 DEF TypeInv
<1>9. CASE UNCHANGED a2aVars
  BY <1>9, <1>0 DEF a2aVars, TypeInv, A2ATypeOK, AttemptInRange
<1> QED BY <1>1, <1>2, <1>3, <1>4, <1>5, <1>6, <1>7, <1>8, <1>9 DEF A2ANext

\* The tables of the service stay well formed, and no thread makes more attempts than it has.
THEOREM TypeCorrect == A2ASpec => []A2ATypeOK
<1>1. TypeInv => A2ATypeOK
  BY DEF TypeInv
<1> QED BY TypeInit, TypeStep, <1>1, PTL DEF A2ASpec

----------------------------------------------------------------------------
(* What a client is told. *)

LEMMA AppendFacts ==
    ASSUME NEW S, NEW s \in Seq(S), NEW e \in S
    PROVE  /\ DOMAIN Append(s, e) = 1..(Len(s) + 1) /\ DOMAIN s = 1..Len(s) /\ Len(s) \in Nat
           /\ \A i \in 1..Len(s) : Append(s, e)[i] = s[i]
           /\ Append(s, e)[Len(s) + 1] = e
           /\ Append(s, e) # <<>>
OBVIOUS

\* A thread's step: what it may begin, and how it leaves the rest alone.
LEMMA ThreadFacts ==
    ASSUME TypeInv, NEW t \in Task, Thread(t)
    PROVE  /\ OnlyRun(t)
           /\ run[t].at \in {"check", "begin", "dispatch", "collect"}
           /\ run'[t].at \in {"check", "begin", "dispatch", "collect", "return"}
           /\ run'[t].at = "begin" => ~info[t].canceled
           /\ \/ late' = late
              \/ /\ run[t].at = "begin" /\ run'[t].at = "dispatch" /\ info[t].canceled
                 /\ late' = late \cup {<<t, run[t].n>>}
           /\ UNCHANGED <<ttl, info, stream, seen, refused>>
<1>o. "FAILED" \in Outcome /\ "CANCELED" \in Outcome /\ "COMPLETED" \in Outcome
  BY DEF Outcome
<1>1. CASE Check(t)
  <2>1. \/ Return(t, "FAILED") \/ Return(t, "CANCELED")
        \/ run' = [run EXCEPT ![t].at = "begin"] /\ ~info[t].canceled
    BY <1>1 DEF Check
  <2>2. OnlyRun(t) /\ (run'[t].at = "return" \/ (run'[t].at = "begin" /\ ~info[t].canceled))
    BY <2>1, <1>o, ReturnEffect, BeginLoopEffect
  <2> QED BY <1>1, <2>2 DEF Check
<1>2. CASE Begin(t)
  <2>1. CASE InTime(t)
    <3>1. OnlyRun(t) /\ run'[t].at = "dispatch"
      BY <1>2, <2>1, BegunEffect DEF Begin
    <3> QED BY <1>2, <2>1, <3>1 DEF Begin
  <2>2. CASE ~InTime(t)
    <3>1. OnlyRun(t) /\ run'[t].at = "return"
      BY <1>2, <2>2, <1>o, ReturnEffect DEF Begin
    <3> QED BY <1>2, <2>2, <3>1 DEF Begin
  <2> QED BY <2>1, <2>2
<1>3. CASE Dispatch(t)
  <2>1. CASE fresh
    <3>1. OnlyRun(t) /\ run'[t].at = "collect"
      BY <1>3, <2>1, DispatchedEffect DEF Dispatch
    <3> QED BY <1>3, <3>1 DEF Dispatch
  <2>2. CASE ~fresh
    <3>1. OnlyRun(t) /\ run'[t].at = "check"
      BY <1>3, <2>2, RetryEffect DEF Dispatch
    <3> QED BY <1>3, <3>1 DEF Dispatch
  <2> QED BY <2>1, <2>2
<1>4. CASE Collect(t)
  <2>1. Return(t, "CANCELED") \/ Return(t, "COMPLETED") \/ Retry(t)
    BY <1>4 DEF Collect
  <2>2. OnlyRun(t) /\ run'[t].at \in {"return", "check"}
    BY <2>1, <1>o, ReturnEffect, RetryEffect
  <2> QED BY <1>4, <2>2 DEF Collect
<1>5. CASE GiveUp(t)
  <2>1. OnlyRun(t) /\ run'[t].at = "check"
    BY <1>5, RetryEffect DEF GiveUp
  <2> QED BY <1>5, <2>1 DEF GiveUp
<1> QED BY <1>1, <1>2, <1>3, <1>4, <1>5 DEF Thread

ReportInv == StreamInv /\ CanceledStaysSilent

LEMMA ReportInit == A2AInit => ReportInv
BY DEF A2AInit, ReportInv, StreamInv, CanceledStaysSilent, Resting

LEMMA ReportStep == TypeInv /\ ReportInv /\ [A2ANext]_a2aVars => ReportInv'
<1> SUFFICES ASSUME TypeInv, ReportInv, [A2ANext]_a2aVars PROVE ReportInv'
  OBVIOUS
<1> USE DEF ReportInv
<1>r. stream \in [Task -> Seq(Outcome)] /\ "CANCELED" \in Outcome
  BY RunTyped DEF Outcome
<1>1. ASSUME NEW t \in Task, Submit(t) PROVE ReportInv'
  <2>1. OnlyRun(t) /\ run[t].at # "done" /\ run'[t].at # "done"
    BY <1>1, SubmitEffect DEF Submit
  <2> QED BY <1>1, <2>1 DEF Submit, OnlyRun, StreamInv, CanceledStaysSilent
<1>2. ASSUME NEW t \in Task, Cancel(t) PROVE ReportInv'
  <2>1. /\ OnlyInfo(t) /\ info'[t].terminal = info[t].terminal
        /\ info'[t].canceled <=> info[t].canceled \/ ~info[t].terminal
    BY <1>2, CancelInfo DEF Cancel
  <2>2. /\ stream'[t] = Append(stream[t], "CANCELED")
        /\ \A u \in Task : u # t => stream'[u] = stream[u]
        /\ run' = run
    BY <1>2, <1>r DEF Cancel
  <2>3. /\ \A i \in DOMAIN stream'[t] : i \in DOMAIN stream[t] \/ stream'[t][i] = "CANCELED"
        /\ \A i \in DOMAIN stream[t] : stream'[t][i] = stream[t][i]
    BY <2>2, <1>r, AppendFacts
  <2>4. \A i \in DOMAIN stream'[t], j \in DOMAIN stream[t] :
           i < j => i \in DOMAIN stream[t]
    BY <2>2, <1>r, AppendFacts
  <2>5. StreamInv'
    <3> SUFFICES ASSUME NEW u \in Task
                 PROVE  /\ info'[u].terminal <=> run'[u].at = "done"
                        /\ ~info'[u].terminal =>
                              /\ \A i \in DOMAIN stream'[u] : stream'[u][i] = "CANCELED"
                              /\ stream'[u] # <<>> => info'[u].canceled
      BY DEF StreamInv
    <3>1. CASE u = t
      BY <3>1, <2>1, <2>2, <2>3, Zenon DEF StreamInv
    <3>2. CASE u # t
      BY <3>2, <2>1, <2>2, Zenon DEF StreamInv, OnlyInfo
    <3> QED BY <3>1, <3>2
  <2>6. CanceledStaysSilent'
    <3> SUFFICES ASSUME NEW u \in Task, NEW i \in DOMAIN stream'[u], NEW j \in DOMAIN stream'[u],
                        i < j
                 PROVE  stream'[u][j] = "CANCELED"
      BY DEF CanceledStaysSilent
    <3>1. CASE u = t
      BY <3>1, <2>3, <2>4 DEF CanceledStaysSilent
    <3>2. CASE u # t
      BY <3>2, <2>2 DEF CanceledStaysSilent
    <3> QED BY <3>1, <3>2
  <2> QED BY <2>5, <2>6
<1>3. ASSUME NEW t \in Task, Finish(t) PROVE ReportInv'
  <2>1. /\ OnlyInfo(t) /\ info'[t].terminal /\ info'[t].canceled = info[t].canceled
        /\ OnlyRun(t) /\ run'[t].at = "done" /\ run[t].at = "return"
    BY <1>3, FinishInfo, DoneEffect DEF Finish
  <2>2. \A u \in Task : u # t => stream'[u] = stream[u]
    BY <1>3, <1>r DEF Finish
  <2>3. \/ stream'[t] = stream[t]
        \/ stream[t] = <<>> /\ stream'[t] = Append(stream[t], run[t].outcome)
    <3>1. ~info[t].terminal
      BY <2>1, Zenon DEF StreamInv
    <3>2. stream[t] # <<>> => info[t].canceled
      BY <3>1, Zenon DEF StreamInv
    <3> QED BY <1>3, <1>r, <3>2 DEF Finish
  <2>4. StreamInv'
    <3> SUFFICES ASSUME NEW u \in Task
                 PROVE  /\ info'[u].terminal <=> run'[u].at = "done"
                        /\ ~info'[u].terminal =>
                              /\ \A i \in DOMAIN stream'[u] : stream'[u][i] = "CANCELED"
                              /\ stream'[u] # <<>> => info'[u].canceled
      BY DEF StreamInv
    <3>1. CASE u = t
      <4>1. info'[u].terminal
        BY <3>1, <2>1, Zenon
      <4>2. run'[u].at = "done"
        BY <3>1, <2>1, Zenon
      <4> QED BY <4>1, <4>2, Zenon
    <3>2. CASE u # t
      <4>1. info'[u] = info[u] /\ run'[u] = run[u] /\ stream'[u] = stream[u]
        BY <3>2, <2>1, <2>2, Zenon DEF OnlyInfo, OnlyRun
      <4> QED BY <4>1 DEF StreamInv
    <3> QED BY <3>1, <3>2
  <2>5. CanceledStaysSilent'
    <3> SUFFICES ASSUME NEW u \in Task, NEW i \in DOMAIN stream'[u], NEW j \in DOMAIN stream'[u],
                        i < j
                 PROVE  stream'[u][j] = "CANCELED"
      BY DEF CanceledStaysSilent
    <3>1. CASE u = t /\ stream'[t] # stream[t]
      <4>1. run[t].outcome \in Outcome
        BY RunTyped DEF RunRecord
      <4>2. DOMAIN stream'[t] = 1..1
        BY <3>1, <2>3, <4>1, <1>r, AppendFacts
      <4> QED BY <3>1, <4>2
    <3>2. CASE stream'[u] = stream[u]
      BY <3>2 DEF CanceledStaysSilent
    <3> QED BY <3>1, <3>2, <2>2
  <2> QED BY <2>4, <2>5
<1>4. ASSUME NEW t \in Task, Thread(t) PROVE ReportInv'
  <2>1. OnlyRun(t) /\ run[t].at # "done" /\ run'[t].at # "done" /\ UNCHANGED <<info, stream>>
    BY <1>4, ThreadFacts
  <2> QED BY <2>1 DEF OnlyRun, StreamInv, CanceledStaysSilent
<1>5. CASE UNCHANGED <<run, info, stream>>
  BY <1>5 DEF StreamInv, CanceledStaysSilent
<1>6. CASE Tick
  <2>1. UNCHANGED <<info, stream>> /\ \A u \in Task : run'[u].at = run[u].at
    BY <1>6, TickEffect DEF Tick
  <2> QED BY <2>1 DEF StreamInv, CanceledStaysSilent
<1> QED BY <1>1, <1>2, <1>3, <1>4, <1>5, <1>6
        DEF A2ANext, a2aVars, Handler, SearchKb, PassGate, SearchWeb, Take, Lapse, Heartbeat

\* No result follows a cancel that the client was told of, whenever the cancel lands.
THEOREM AlwaysSilent == A2ASpec => []CanceledStaysSilent
<1>1. A2AInit => TypeInv /\ ReportInv
  BY TypeInit, ReportInit
<1>2. TypeInv /\ ReportInv /\ [A2ANext]_a2aVars => TypeInv' /\ ReportInv'
  BY TypeStep, ReportStep
<1>3. ReportInv => CanceledStaysSilent
  BY DEF ReportInv
<1> QED BY <1>1, <1>2, <1>3, PTL DEF A2ASpec

----------------------------------------------------------------------------
(* What overtakes a cancel. *)

OvertakeInv == LateInv /\ OneLateAttempt

LEMMA OvertakeStep == TypeInv /\ OvertakeInv /\ [A2ANext]_a2aVars => OvertakeInv'
<1> SUFFICES ASSUME TypeInv, OvertakeInv, [A2ANext]_a2aVars PROVE OvertakeInv'
  OBVIOUS
<1> USE DEF OvertakeInv
<1>t. \A a \in late : a \in Attempt /\ a[1] \in Task
  BY DEF TypeInv, A2ATypeOK, Attempt
<1>1. ASSUME NEW t \in Task, Submit(t) PROVE OvertakeInv'
  <2>1. OnlyRun(t) /\ run[t].at = "none" /\ run'[t].at = "check" /\ UNCHANGED <<info, late>>
    BY <1>1, SubmitEffect DEF Submit
  <2> QED BY <2>1, <1>t DEF OnlyRun, LateInv, OneLateAttempt
<1>2. ASSUME NEW t \in Task, Cancel(t) PROVE OvertakeInv'
  <2>1. UNCHANGED <<run, late>> /\ \A u \in Task : info[u].canceled => info'[u].canceled
    BY <1>2, CancelInfo, Zenon DEF Cancel, OnlyInfo
  <2> QED BY <2>1, <1>t DEF LateInv, OneLateAttempt
<1>3. ASSUME NEW t \in Task, Finish(t) PROVE OvertakeInv'
  <2>1. OnlyRun(t) /\ run'[t].at = "done" /\ UNCHANGED late
    BY <1>3, DoneEffect DEF Finish
  <2>2. \A u \in Task : info[u].canceled => info'[u].canceled
    BY <1>3, FinishInfo, Zenon DEF Finish, OnlyInfo
  <2> QED BY <2>1, <2>2, <1>t DEF OnlyRun, LateInv, OneLateAttempt
<1>4. ASSUME NEW t \in Task, Thread(t) PROVE OvertakeInv'
  <2>1. /\ OnlyRun(t) /\ run'[t].at # "none"
        /\ run'[t].at = "begin" => ~info[t].canceled
        /\ info' = info
    BY <1>4, ThreadFacts
  <2>2. CASE late' = late
    BY <2>1, <2>2, <1>t DEF OnlyRun, LateInv, OneLateAttempt
  <2>3. CASE /\ run[t].at = "begin" /\ run'[t].at = "dispatch" /\ info[t].canceled
             /\ late' = late \cup {<<t, run[t].n>>}
    <3>1. \A a \in late : a[1] # t
      BY <2>3 DEF LateInv
    <3>2. OneLateAttempt'
      BY <2>3, <3>1 DEF OneLateAttempt
    <3>3. LateInv'
      BY <2>1, <2>3, <3>1, <1>t DEF LateInv, OnlyRun
    <3> QED BY <3>2, <3>3
  <2> QED BY <1>4, <2>2, <2>3, ThreadFacts
<1>5. CASE UNCHANGED <<run, info, late>>
  BY <1>5 DEF LateInv, OneLateAttempt
<1>6. CASE Tick
  <2>1. UNCHANGED <<info, late>> /\ \A u \in Task : run'[u].at = run[u].at
    BY <1>6, TickEffect DEF Tick
  <2> QED BY <2>1, <1>t DEF LateInv, OneLateAttempt
<1> QED BY <1>1, <1>2, <1>3, <1>4, <1>5, <1>6
        DEF A2ANext, a2aVars, Handler, SearchKb, PassGate, SearchWeb, Take, Lapse, Heartbeat

\* However often a task is canceled and retried, one attempt at most begins after its cancel.
THEOREM AlwaysOneLate == A2ASpec => []OneLateAttempt
<1>1. A2AInit => TypeInv /\ OvertakeInv
  BY TypeInit DEF A2AInit, OvertakeInv, LateInv, OneLateAttempt
<1>2. TypeInv /\ OvertakeInv /\ [A2ANext]_a2aVars => TypeInv' /\ OvertakeInv'
  BY TypeStep, OvertakeStep
<1>3. OvertakeInv => OneLateAttempt
  BY DEF OvertakeInv
<1> QED BY <1>1, <1>2, <1>3, PTL DEF A2ASpec

----------------------------------------------------------------------------
(* The audit gate. *)

AuditInv == GateInv /\ RefusedOnlyWhenOver

\* A thread's step moves its current attempt to or from places outside the pool's threads.
LEMMA ThreadWork ==
    ASSUME TypeInv, NEW t \in Task, Thread(t)
    PROVE  \A a \in Attempt : work'[a] = work[a] \/ work'[a] \in {"begun", "queued"}
<1>1. work \in [Attempt -> Stage]
  BY RunTyped
<1> QED BY <1>1, Thread(t) DEF Thread, Check, Begin, Dispatch, Collect, GiveUp

LEMMA AuditStep == TypeInv /\ AuditInv /\ [A2ANext]_a2aVars => AuditInv'
<1> SUFFICES ASSUME TypeInv, AuditInv, [A2ANext]_a2aVars PROVE AuditInv'
  OBVIOUS
<1> USE DEF AuditInv
<1>t. /\ \A a \in Attempt : a[1] \in Task
      /\ refused \subseteq Attempt
      /\ work \in [Attempt -> Stage]
  BY RunTyped DEF TypeInv, A2ATypeOK, Attempt
<1>1. ASSUME NEW t \in Task, Submit(t) PROVE AuditInv'
  BY <1>1 DEF Submit, GateInv, RefusedOnlyWhenOver
<1>2. ASSUME NEW t \in Task, Cancel(t) PROVE AuditInv'
  <2>1. UNCHANGED <<work, seen, refused>> /\ \A u \in Task : info[u].terminal => info'[u].terminal
    BY <1>2, CancelInfo, Zenon DEF Cancel, OnlyInfo
  <2> QED BY <2>1, <1>t DEF GateInv, RefusedOnlyWhenOver
<1>3. ASSUME NEW t \in Task, Finish(t) PROVE AuditInv'
  <2>1. UNCHANGED <<work, refused>> /\ seen' = seen \ {t}
    BY <1>3 DEF Finish
  <2>2. info'[t].terminal /\ \A u \in Task : info[u].terminal => info'[u].terminal
    BY <1>3, FinishInfo, Zenon DEF Finish, OnlyInfo
  <2> QED BY <2>1, <2>2, <1>t DEF GateInv, RefusedOnlyWhenOver
<1>4. ASSUME NEW t \in Task, Thread(t) PROVE AuditInv'
  <2>1. UNCHANGED <<info, seen, refused>>
    BY <1>4, ThreadFacts
  <2> QED BY <1>4, <2>1, ThreadWork DEF GateInv, RefusedOnlyWhenOver
<1>5. ASSUME NEW a \in Attempt, SearchKb(a) PROVE AuditInv'
  <2>1. /\ UNCHANGED <<info, refused>> /\ seen \subseteq seen'
        /\ work'[a] = "gate" => a[1] \in seen'
        /\ \A b \in Attempt : b # a => work'[b] = work[b]
    BY <1>5, <1>t DEF SearchKb
  <2> QED BY <2>1 DEF GateInv, RefusedOnlyWhenOver
<1>6. ASSUME NEW a \in Attempt, PassGate(a) PROVE AuditInv'
  <2>1. /\ UNCHANGED <<info, seen>> /\ work'[a] # "gate"
        /\ \A b \in Attempt : b # a => work'[b] = work[b]
    BY <1>6, <1>t DEF PassGate
  <2>2. GateInv'
    BY <2>1 DEF GateInv
  <2>3. refused' = refused \/ (a[1] \notin seen /\ refused' = refused \cup {a})
    BY <1>6 DEF PassGate
  <2>4. a[1] \notin seen => info[a[1]].terminal
    BY <1>6 DEF PassGate, GateInv
  <2> QED BY <2>1, <2>2, <2>3, <2>4 DEF RefusedOnlyWhenOver
<1>7. ASSUME NEW a \in Attempt, SearchWeb(a) PROVE AuditInv'
  <2>1. UNCHANGED <<info, seen, refused>> /\ \A b \in Attempt : work'[b] = work[b] \/ work'[b] # "gate"
    BY <1>7, <1>t DEF SearchWeb
  <2> QED BY <2>1 DEF GateInv, RefusedOnlyWhenOver
<1>8. CASE Take
  <2>1. UNCHANGED <<info, seen, refused>> /\ \A b \in Attempt : work'[b] = work[b] \/ work'[b] # "gate"
    BY <1>8, <1>t DEF Take
  <2> QED BY <2>1 DEF GateInv, RefusedOnlyWhenOver
<1>9. CASE UNCHANGED <<info, work, seen, refused>>
  BY <1>9 DEF GateInv, RefusedOnlyWhenOver
<1> QED BY <1>1, <1>2, <1>3, <1>4, <1>5, <1>6, <1>7, <1>8, <1>9
        DEF A2ANext, a2aVars, Handler, Lapse, Heartbeat, Tick

\* The audit gate refuses nothing of a task that is still being answered, though attempts of it
\* run side by side and its record is dropped at the end.
THEOREM AlwaysAudited == A2ASpec => []RefusedOnlyWhenOver
<1>1. A2AInit => TypeInv /\ AuditInv
  BY TypeInit DEF A2AInit, AuditInv, GateInv, RefusedOnlyWhenOver
<1>2. TypeInv /\ AuditInv /\ [A2ANext]_a2aVars => TypeInv' /\ AuditInv'
  BY TypeStep, AuditStep
<1>3. AuditInv => RefusedOnlyWhenOver
  BY DEF AuditInv
<1> QED BY <1>1, <1>2, <1>3, PTL DEF A2ASpec

----------------------------------------------------------------------------
(* The pool. *)

SoloInv == FreshInv /\ QueueInv /\ WaitInv /\ PoolInv /\ SoleAttempt

LEMMA Pairs == \A a, b \in Attempt : a[1] = b[1] /\ a[2] = b[2] => a = b
BY DEF Attempt

LEMMA Indices == \A a \in Attempt : a[1] \in Task /\ a[2] \in Nat /\ a[2] >= 1
BY A2AAssumption DEF Attempt

\* What is in the queue is an attempt.
LEMMA Queued ==
    ASSUME TypeInv
    PROVE  Len(queue) \in Nat /\ \A i \in 1..Len(queue) : queue[i] \in Attempt
BY RunTyped

LEMMA SoloInit == A2AInit => SoloInv
<1> SUFFICES ASSUME A2AInit PROVE SoloInv
  OBVIOUS
<1>1. \A t \in Task : run[t] = Resting
  BY DEF A2AInit
<1>2. \A a \in Attempt : work[a] = "none"
  BY DEF A2AInit
<1>3. FreshInv
  BY <1>2, <1>1, Indices DEF FreshInv, Resting
<1>4. QueueInv
  BY DEF A2AInit, QueueInv
<1>5. WaitInv
  BY <1>1, A2AAssumption DEF WaitInv, Resting
<1>6. PoolInv /\ SoleAttempt
  BY <1>2 DEF PoolInv, SoleAttempt, InPool
<1> QED BY <1>3, <1>4, <1>5, <1>6 DEF SoloInv

\* A step that changes only where one thread is: the pool must hold nothing of it, or only what
\* its deadline has caught up with.
LEMMA ThreadMoves ==
    ASSUME TypeInv, SoloInv, NEW t \in Task, OnlyRun(t), UNCHANGED <<ttl, work, queue>>,
           run'[t].at \in {"check", "begin", "return", "done"},
           run'[t].due <= Deadline,
           \/ run'[t].n = run[t].n /\ run'[t].at \in {"return", "done"}
           \/ run'[t].n = run[t].n /\ run[t].at \in {"none", "check"}
           \/ run'[t].n = run[t].n + 1 /\ run'[t].at = "check",
           \/ ttl < Deadline
           \/ \A a \in Attempt : a[1] = t => ~InPool(a)
           \/ run'[t].due = 0
    PROVE  SoloInv'
<1> USE DEF SoloInv
<1>1. run \in [Task -> RunRecord] /\ run' \in [Task -> RunRecord]
  BY RunTyped DEF OnlyRun
<1>2. run[t].n \in Nat /\ ttl \in Nat /\ Deadline \in Nat
  BY <1>1, RunTyped DEF RunRecord
<1>3. FreshInv'
  BY <1>2, Indices DEF FreshInv, OnlyRun
<1>4. QueueInv'
  BY DEF QueueInv
<1>5. WaitInv'
  BY DEF WaitInv, OnlyRun
<1>6. PoolInv'
  <2> SUFFICES ASSUME ttl >= Deadline, NEW a \in Attempt, InPool(a)
               PROVE  \/ run'[a[1]].at = "collect" /\ a[2] = run'[a[1]].n
                      \/ run'[a[1]].at \in {"check", "begin", "return", "done"} /\ run'[a[1]].due = 0
    BY DEF PoolInv, InPool
  <2>1. CASE a[1] = t
    BY <2>1, <1>2
  <2>2. CASE a[1] # t
    BY <2>2, Indices DEF PoolInv, OnlyRun
  <2> QED BY <2>1, <2>2
<1>7. SoleAttempt'
  BY DEF SoleAttempt, InPool
<1> QED BY <1>3, <1>4, <1>5, <1>6, <1>7

\* A step of a handler, or of a thread of the pool that takes an attempt.
LEMMA HandlerWorks ==
    ASSUME TypeInv, SoloInv, NEW a \in Attempt, UNCHANGED <<ttl, run, queue>>,
           work[a] \in {"kb", "gate", "web"},
           work'[a] \in {"gate", "web", "completed", "failed"},
           \A b \in Attempt : b # a => work'[b] = work[b]
    PROVE  SoloInv'
<1> USE DEF SoloInv
<1>1. FreshInv'
  BY DEF FreshInv
<1>2. QueueInv'
  BY Queued DEF QueueInv
<1>3. WaitInv'
  BY DEF WaitInv
<1>4. \A b \in Attempt : InPool(b)' => InPool(b)
  BY DEF InPool
<1>5. PoolInv' /\ SoleAttempt'
  BY <1>4 DEF PoolInv, SoleAttempt
<1> QED BY <1>1, <1>2, <1>3, <1>5

LEMMA ThreadSolo ==
    ASSUME TypeInv, SoloInv, NEW t \in Task, Thread(t)
    PROVE  SoloInv'
<1> USE DEF SoloInv
<1>r. /\ run \in [Task -> RunRecord] /\ work \in [Attempt -> Stage] /\ queue \in Seq(Attempt)
      /\ ttl \in Nat /\ Deadline \in Nat
      /\ run[t].n \in Nat /\ run[t].due \in Nat /\ run[t].left \in Nat /\ run[t].wait \in Nat
  BY RunTyped DEF RunRecord
<1>o. "FAILED" \in Outcome /\ "CANCELED" \in Outcome /\ "COMPLETED" \in Outcome
  BY DEF Outcome
<1>d. run[t].due <= Deadline
  BY DEF WaitInv
<1>p. run[t].at \in {"check", "begin"} /\ ttl >= Deadline =>
         run[t].due = 0 \/ \A a \in Attempt : a[1] = t => ~InPool(a)
  BY DEF PoolInv
<1>q. run[t].at = "dispatch" /\ ttl >= Deadline => \A a \in Attempt : a[1] = t => ~InPool(a)
  BY DEF PoolInv
<1> DEFINE c == <<t, run[t].n>>
<1>1. CASE Check(t)
  <2>1. run[t].at = "check" /\ UNCHANGED <<ttl, work, queue>>
    BY <1>1 DEF Check
  <2>2. /\ OnlyRun(t) /\ run'[t].n = run[t].n /\ run'[t].due = run[t].due
        /\ run'[t].at \in {"begin", "return"}
    BY <1>1, <1>o, ReturnEffect, BeginLoopEffect DEF Check
  <2> QED BY <2>1, <2>2, <1>d, <1>p, <1>r, ThreadMoves
<1>2. CASE Begin(t) /\ ~InTime(t)
  <2>1. run[t].at = "begin" /\ UNCHANGED <<ttl, work, queue>>
    BY <1>2 DEF Begin
  <2>2. /\ OnlyRun(t) /\ run'[t].n = run[t].n /\ run'[t].due = run[t].due
        /\ run'[t].at = "return"
    BY <1>2, <1>o, ReturnEffect DEF Begin
  <2> QED BY <2>1, <2>2, <1>d, <1>p, <1>r, ThreadMoves
<1>3. CASE Begin(t) /\ InTime(t)
  <2>1. /\ run[t].at = "begin" /\ UNCHANGED <<ttl, queue>> /\ run[t].due # 0
        /\ work' = [work EXCEPT ![c] = "begun"]
    BY <1>3, <1>r DEF Begin, InTime
  <2>2. /\ OnlyRun(t) /\ run'[t].n = run[t].n /\ run'[t].due = run[t].due
        /\ run'[t].at = "dispatch" /\ run'[t].left = run[t].due
    BY <1>3, BegunEffect DEF Begin
  <2>3. c \in Attempt /\ c[1] = t /\ c[2] = run[t].n
    BY <2>1, Current
  <2>4. work'[c] = "begun" /\ work[c] = "none" /\ \A b \in Attempt : b # c => work'[b] = work[b]
    BY <2>1, <2>3, <1>r DEF FreshInv
  <2> HIDE DEF c
  <2>5. FreshInv'
    BY <2>1, <2>2, <2>3, <2>4, <1>r, Pairs, Indices DEF FreshInv, OnlyRun
  <2>6. QueueInv'
    BY <2>1, <2>4, Queued DEF QueueInv
  <2>7. WaitInv'
    BY <2>1, <2>2, <1>d, <1>r DEF WaitInv, OnlyRun
  <2>8. \A b \in Attempt : InPool(b)' => InPool(b) /\ b # c
    BY <2>4 DEF InPool
  <2>9. PoolInv'
    BY <2>1, <2>2, <2>8, <1>p, Indices DEF PoolInv, OnlyRun
  <2>10. SoleAttempt'
    BY <2>1, <2>8 DEF SoleAttempt
  <2> QED BY <2>5, <2>6, <2>7, <2>9, <2>10
<1>4. CASE Dispatch(t) /\ fresh
  <2>1. /\ run[t].at = "dispatch" /\ UNCHANGED ttl
        /\ work' = [work EXCEPT ![c] = "queued"] /\ queue' = Append(queue, c)
    BY <1>4 DEF Dispatch
  <2>2. /\ OnlyRun(t) /\ run'[t].n = run[t].n /\ run'[t].due = run[t].due
        /\ run'[t].at = "collect" /\ run'[t].wait = WaitFor(t)
    BY <1>4, DispatchedEffect DEF Dispatch
  <2>3. c \in Attempt /\ c[1] = t /\ c[2] = run[t].n
    BY <2>1, Current
  <2>4. work'[c] = "queued" /\ work[c] = "begun" /\ \A b \in Attempt : b # c => work'[b] = work[b]
    BY <2>1, <2>3, <1>r DEF FreshInv
  <2> HIDE DEF c
  <2>5. FreshInv'
    BY <2>1, <2>2, <2>3, <2>4, <1>r, Pairs, Indices DEF FreshInv, OnlyRun
  <2>6. QueueInv'
    <3>1. /\ Len(queue') = Len(queue) + 1 /\ queue'[Len(queue) + 1] = c
          /\ \A i \in 1..Len(queue) : queue'[i] = queue[i] /\ queue[i] # c
      BY <2>1, <2>3, <2>4, <1>r, AppendFacts, Queued DEF QueueInv
    <3> QED BY <3>1, <2>4, Queued DEF QueueInv
  <2>7. WaitInv'
    <3>1. ttl >= Deadline => run[t].due <= WaitFor(t)
      BY <2>1, <1>r DEF WaitInv, WaitFor
    <3> QED BY <2>1, <2>2, <3>1, <1>d DEF WaitInv, OnlyRun
  <2>8. \A b \in Attempt : InPool(b)' => InPool(b) \/ b = c
    BY <2>4 DEF InPool
  <2>9. PoolInv'
    BY <2>1, <2>2, <2>3, <2>8, <1>q, Indices DEF PoolInv, OnlyRun
  <2>10. SoleAttempt'
    BY <2>1, <2>3, <2>8, <1>q DEF SoleAttempt
  <2> QED BY <2>5, <2>6, <2>7, <2>9, <2>10
<1>5. CASE Dispatch(t) /\ ~fresh
  <2>1. run[t].at = "dispatch" /\ UNCHANGED <<ttl, work, queue>>
    BY <1>5 DEF Dispatch
  <2>2. /\ OnlyRun(t) /\ run'[t].n = run[t].n + 1 /\ run'[t].due = run[t].due
        /\ run'[t].at = "check"
    BY <1>5, RetryEffect DEF Dispatch
  <2> QED BY <2>1, <2>2, <1>d, <1>q, <1>r, ThreadMoves
<1>6. CASE Collect(t)
  <2>1. /\ run[t].at = "collect" /\ UNCHANGED <<ttl, work, queue>>
        /\ work[c] \in {"completed", "failed"}
    BY <1>6 DEF Collect
  <2>2. c \in Attempt /\ c[1] = t /\ c[2] = run[t].n
    BY <2>1, Current
  <2>3. ttl >= Deadline => \A a \in Attempt : a[1] = t => ~InPool(a)
    <3> HIDE DEF c
    <3> QED BY <2>1, <2>2, Pairs DEF PoolInv, InPool
  <2>4. /\ OnlyRun(t) /\ run'[t].due = run[t].due
        /\ \/ run'[t].n = run[t].n /\ run'[t].at = "return"
           \/ run'[t].n = run[t].n + 1 /\ run'[t].at = "check"
    BY <1>6, <1>o, ReturnEffect, RetryEffect DEF Collect
  <2> QED BY <2>1, <2>3, <2>4, <1>d, <1>r, ThreadMoves
<1>7. CASE GiveUp(t)
  <2>1. run[t].at = "collect" /\ UNCHANGED <<ttl, work, queue>> /\ run[t].wait = 0
    BY <1>7 DEF GiveUp
  <2>2. ttl >= Deadline => run[t].due = 0
    BY <2>1, <1>r DEF WaitInv
  <2>3. /\ OnlyRun(t) /\ run'[t].n = run[t].n + 1 /\ run'[t].due = run[t].due
        /\ run'[t].at = "check"
    BY <1>7, RetryEffect DEF GiveUp
  <2> QED BY <2>1, <2>2, <2>3, <1>d, <1>r, ThreadMoves
<1> QED BY <1>1, <1>2, <1>3, <1>4, <1>5, <1>6, <1>7 DEF Thread

LEMMA SoloStep == TypeInv /\ SoloInv /\ [A2ANext]_a2aVars => SoloInv'
<1> SUFFICES ASSUME TypeInv, SoloInv, [A2ANext]_a2aVars PROVE SoloInv'
  OBVIOUS
<1>r. run \in [Task -> RunRecord] /\ work \in [Attempt -> Stage] /\ queue \in Seq(Attempt)
      /\ Deadline \in Nat /\ ttl \in Nat
  BY RunTyped
<1>1. ASSUME NEW t \in Task, Submit(t) PROVE SoloInv'
  <2>1. /\ OnlyRun(t) /\ run[t].at = "none" /\ run[t].n = 1 /\ UNCHANGED <<ttl, work, queue>>
        /\ run'[t].at = "check" /\ run'[t].n = 1 /\ run'[t].due = Deadline
    BY <1>1, SubmitEffect DEF Submit, TypeInv, AttemptInRange
  <2>2. \A a \in Attempt : a[1] = t => ~InPool(a)
    BY <2>1, Indices DEF SoloInv, FreshInv, InPool
  <2> QED BY <2>1, <2>2, <1>r, ThreadMoves
<1>2. ASSUME NEW t \in Task, Finish(t) PROVE SoloInv'
  <2>1. /\ OnlyRun(t) /\ run[t].at = "return" /\ UNCHANGED <<ttl, work, queue>>
        /\ run'[t].at = "done" /\ run'[t].n = run[t].n /\ run'[t].due = run[t].due
    BY <1>2, DoneEffect DEF Finish
  <2>2. run[t].due <= Deadline /\ run[t].due \in Nat
    BY <1>r DEF SoloInv, WaitInv, RunRecord
  <2>3. ttl < Deadline \/ run[t].due = 0 \/ \A a \in Attempt : a[1] = t => ~InPool(a)
    BY <2>1, <1>r DEF SoloInv, PoolInv
  <2> QED BY <2>1, <2>2, <2>3, <1>r, ThreadMoves
<1>3. ASSUME NEW t \in Task, Thread(t) PROVE SoloInv'
  BY <1>3, ThreadSolo
<1>4. ASSUME NEW a \in Attempt, Handler(a) PROVE SoloInv'
  <2>1. /\ UNCHANGED <<ttl, run, queue>>
        /\ work[a] \in {"kb", "gate", "web"}
        /\ work'[a] \in {"gate", "web", "completed", "failed"}
        /\ \A b \in Attempt : b # a => work'[b] = work[b]
    BY <1>4, <1>r DEF Handler, SearchKb, PassGate, SearchWeb
  <2> QED BY <2>1, HandlerWorks
<1>5. CASE Take
  <2> USE DEF SoloInv
  <2> DEFINE h == Head(queue)
  <2>1. /\ UNCHANGED <<ttl, run>> /\ queue # <<>> /\ queue' = Tail(queue)
        /\ work' = [work EXCEPT ![h] = "kb"]
    BY <1>5 DEF Take
  <2>2. /\ h \in Attempt /\ h = queue[1] /\ Len(queue) >= 1 /\ Len(queue) \in Nat
        /\ Len(queue') = Len(queue) - 1
        /\ \A i \in 1..Len(queue') : queue'[i] = queue[i + 1]
    BY <2>1, <1>r
  <2> HIDE DEF h
  <2>3. work[h] = "queued" /\ work'[h] = "kb" /\ \A b \in Attempt : b # h => work'[b] = work[b]
    BY <2>1, <2>2, <1>r DEF QueueInv
  <2>4. FreshInv'
    BY <2>1, <2>3 DEF FreshInv
  <2>5. QueueInv'
    <3>1. ASSUME NEW i \in 1..Len(queue')
          PROVE  i + 1 \in 1..Len(queue) /\ queue'[i] = queue[i + 1] /\ queue'[i] # h
      BY <2>2 DEF QueueInv
    <3>2. \A i \in 1..Len(queue') : work'[queue'[i]] = "queued"
      BY <3>1, <2>3, Queued DEF QueueInv
    <3>3. \A i, j \in 1..Len(queue') : queue'[i] = queue'[j] => i = j
      BY <3>1, <2>2 DEF QueueInv
    <3> QED BY <3>2, <3>3 DEF QueueInv
  <2>6. WaitInv'
    BY <2>1 DEF WaitInv
  <2>7. \A b \in Attempt : InPool(b)' => InPool(b)
    BY <2>3 DEF InPool
  <2>8. PoolInv' /\ SoleAttempt'
    BY <2>1, <2>7 DEF PoolInv, SoleAttempt
  <2> QED BY <2>4, <2>5, <2>6, <2>8
<1>6. CASE Tick
  <2> USE DEF SoloInv
  <2>1. /\ UNCHANGED <<ttl, work, queue>>
        /\ \A u \in Task : /\ run'[u].at = run[u].at /\ run'[u].n = run[u].n
                           /\ run'[u].left = run[u].left
                           /\ run'[u].due = Less(run[u].due) /\ run'[u].wait = Less(run[u].wait)
    BY <1>6, TickEffect DEF Tick
  <2>2. \A u \in Task : run[u].due \in Nat /\ run[u].wait \in Nat /\ run[u].left \in Nat
    BY <1>r DEF RunRecord
  <2>3. FreshInv' /\ QueueInv' /\ SoleAttempt'
    BY <2>1, Indices DEF FreshInv, QueueInv, SoleAttempt, InPool
  <2>4. WaitInv'
    BY <2>1, <2>2, <1>r DEF WaitInv, Less
  <2>5. PoolInv'
    BY <2>1, <2>2, Indices DEF PoolInv, InPool, Less
  <2> QED BY <2>3, <2>4, <2>5
<1>7. CASE UNCHANGED <<ttl, run, work, queue>>
  BY <1>7 DEF SoloInv, FreshInv, QueueInv, WaitInv, PoolInv, SoleAttempt, InPool
<1> QED BY <1>1, <1>2, <1>3, <1>4, <1>5, <1>6, <1>7
        DEF A2ANext, a2aVars, Cancel, Lapse, Heartbeat

\* When the ttl reaches the deadline, as by default, no two attempts of a task are in the pool
\* at once, though attempts that were given up stay there.
THEOREM AlwaysSole == A2ASpec => []SoleAttempt
<1>1. A2AInit => TypeInv /\ SoloInv
  BY TypeInit, SoloInit
<1>2. TypeInv /\ SoloInv /\ [A2ANext]_a2aVars => TypeInv' /\ SoloInv'
  BY TypeStep, SoloStep
<1>3. SoloInv => SoleAttempt
  BY DEF SoloInv
<1> QED BY <1>1, <1>2, <1>3, PTL DEF A2ASpec
=============================================================================
