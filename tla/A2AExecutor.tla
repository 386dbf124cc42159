----------------------------- MODULE A2AExecutor -----------------------------
(***************************************************************************)
(* Tasks of the A2A service: GoetheResearcherExecutor of                   *)
(* src/tools/goethe_a2a.py over the local backend of                       *)
(* src/goethe_orchestrator/orchestrator.py.                                *)
(*                                                                         *)
(* Each task has a thread (_run) that makes attempts: an envelope is       *)
(* dispatched to a pool of threads and waited for, but never longer than   *)
(* the attempt's ttl and the task's deadline.  An attempt that is given up *)
(* stays in the pool.  Submitting, cancelling and reporting are coroutines *)
(* of one event loop, which do not interleave; threads and handlers do.    *)
(*                                                                         *)
(* A handler does research, which the audit gate makes begin with the      *)
(* knowledge base, or one call of the ledger.  Left out: the journal,      *)
(* which nothing reads back, texts, and the Ray backend.                   *)
(***************************************************************************)
EXTENDS Naturals, Sequences, FiniteSets

CONSTANTS
    Task,        \* tasks that clients submit
    MaxAttempts, \* GOETHE_A2A_MAX_ATTEMPTS
    Ttls,        \* values of GOETHE_A2A_ATTEMPT_TTL_S
    Deadline,    \* GOETHE_A2A_DEFAULT_DEADLINE_S
    PoolSize,    \* threads of the orchestrator
    MaxCancels,  \* bound: cancel requests for one task
    MaxLapses    \* bound: times the heartbeat is late

ASSUME A2AAssumption ==
    /\ MaxAttempts \in Nat \ {0} /\ PoolSize \in Nat \ {0}
    /\ Ttls \subseteq Nat \ {0} /\ Deadline \in Nat
    /\ MaxCancels \in Nat /\ MaxLapses \in Nat

Attempt == Task \X (1..MaxAttempts)

VARIABLES
    ttl,      \* the ttl the service was started with
    ledger,   \* the tasks whose message names a handler of the ledger
    run,      \* the thread of each task; due and wait are the times left to the deadline and to wait
    info,     \* _inflight
    work,     \* the envelope and the handler of each attempt
    queue,    \* attempts waiting for a thread of the pool
    seen,     \* tasks whose search_kb the audit gate has recorded
    stream,   \* the final states sent to each client
    fresh,    \* the worker's heartbeat is not too old
    lapses,
    late,     \* history: attempts begun after a cancel was accepted
    refused   \* history: attempts the audit gate has refused

a2aVars == <<ttl, ledger, run, info, work, queue, seen, stream, fresh, lapses, late, refused>>

Resting == [at |-> "none", n |-> 1, due |-> 0, left |-> 0, wait |-> 0, outcome |-> "FAILED"]

A2AInit ==
    /\ ttl \in Ttls
    /\ ledger \in SUBSET Task
    /\ run = [t \in Task |-> Resting]
    /\ info = [t \in Task |-> [canceled |-> FALSE, terminal |-> FALSE]]
    /\ work = [a \in Attempt |-> "none"]
    /\ queue = <<>>
    /\ seen = {}
    /\ stream = [t \in Task |-> <<>>]
    /\ fresh = TRUE
    /\ lapses = 0
    /\ late = {}
    /\ refused = {}

----------------------------------------------------------------------------
(* The event loop. *)

\* execute: the task is registered, announced, and its thread started.
Submit(t) ==
    /\ run[t].at = "none"
    /\ run' = [run EXCEPT ![t] = [Resting EXCEPT !.at = "check", !.due = Deadline]]
    /\ UNCHANGED <<ttl, ledger, info, work, queue, seen, stream, fresh, lapses, late, refused>>

\* Mutant: only what the thread saw of the cancel counts.
FinishByOutcome(t) ==
    /\ run[t].at = "return"
    /\ run' = [run EXCEPT ![t].at = "done"]
    /\ info' = [info EXCEPT ![t].terminal = TRUE]
    /\ seen' = seen \ {t}
    /\ stream' = IF run[t].outcome = "CANCELED" THEN stream
                 ELSE [stream EXCEPT ![t] = Append(@, run[t].outcome)]
    /\ UNCHANGED <<ttl, ledger, work, queue, fresh, lapses, late, refused>>

\* The rest of execute and _emit_final, once the thread is through: the result is reported
\* unless the task was canceled meanwhile.
Finish(t) ==
    /\ run[t].at = "return"
    /\ run' = [run EXCEPT ![t].at = "done"]
    /\ info' = [info EXCEPT ![t].terminal = TRUE]
    /\ seen' = seen \ {t}
    /\ stream' = IF info[t].canceled \/ run[t].outcome = "CANCELED" THEN stream
                 ELSE [stream EXCEPT ![t] = Append(@, run[t].outcome)]
    /\ UNCHANGED <<ttl, ledger, work, queue, fresh, lapses, late, refused>>

\* cancel: a task that is over is not marked, but its client is told all the same.
Cancel(t) ==
    /\ run[t].at # "none"
    /\ Cardinality({i \in DOMAIN stream[t] : stream[t][i] = "CANCELED"}) < MaxCancels
    /\ info' = [info EXCEPT ![t].canceled = @ \/ ~info[t].terminal]
    /\ stream' = [stream EXCEPT ![t] = Append(@, "CANCELED")]
    /\ UNCHANGED <<ttl, ledger, run, work, queue, seen, fresh, lapses, late, refused>>

----------------------------------------------------------------------------
(* The thread of a task: _run. *)

Return(t, outcome) == run' = [run EXCEPT ![t].at = "return", ![t].outcome = outcome]
Retry(t)           == run' = [run EXCEPT ![t].at = "check", ![t].n = @ + 1]

\* Mutant: a cancel is looked at only when an attempt is over.
CheckBudget(t) ==
    /\ run[t].at = "check"
    /\ IF run[t].n > MaxAttempts THEN Return(t, "FAILED")
       ELSE run' = [run EXCEPT ![t].at = "begin"]
    /\ UNCHANGED <<ttl, ledger, info, work, queue, seen, stream, fresh, lapses, late, refused>>

\* The head of the loop: attempts are left and the task is not canceled.
Check(t) ==
    /\ run[t].at = "check"
    /\ IF run[t].n > MaxAttempts THEN Return(t, "FAILED")
       ELSE IF info[t].canceled THEN Return(t, "CANCELED")
       ELSE run' = [run EXCEPT ![t].at = "begin"]
    /\ UNCHANGED <<ttl, ledger, info, work, queue, seen, stream, fresh, lapses, late, refused>>

\* Mutant: the attempt budget outranks the deadline.
InTimeAlways(t) == TRUE

InTime(t) == run[t].due > 0

\* Before the deadline an envelope is made, with the time that is left.
Begin(t) ==
    /\ run[t].at = "begin"
    /\ IF InTime(t)
       THEN /\ run' = [run EXCEPT ![t].at = "dispatch", ![t].left = run[t].due]
            /\ work' = [work EXCEPT ![<<t, run[t].n>>] = "begun"]
            /\ late' = IF info[t].canceled THEN late \cup {<<t, run[t].n>>} ELSE late
       ELSE Return(t, "FAILED") /\ UNCHANGED <<work, late>>
    /\ UNCHANGED <<ttl, ledger, info, queue, seen, stream, fresh, lapses, refused>>

\* Mutant: collect is called without a timeout: a wait below 0, where no tick brings it to 0.
WaitForever(t) == 0 - 1

\* collect waits for the shorter of the ttl and the time that was left.
WaitFor(t) == IF ttl < run[t].left THEN ttl ELSE run[t].left

\* dispatch: the only worker is picked if its heartbeat is recent, else NoEligibleWorkerError.
Dispatch(t) ==
    /\ run[t].at = "dispatch"
    /\ IF fresh
       THEN /\ run' = [run EXCEPT ![t].at = "collect", ![t].wait = WaitFor(t)]
            /\ work' = [work EXCEPT ![<<t, run[t].n>>] = "queued"]
            /\ queue' = Append(queue, <<t, run[t].n>>)
       ELSE Retry(t) /\ UNCHANGED <<work, queue>>
    /\ UNCHANGED <<ttl, ledger, info, seen, stream, fresh, lapses, late, refused>>

\* collect returns: a completed attempt is the result, a failed one is retried.
Collect(t) ==
    LET done == work[<<t, run[t].n>>] IN
    /\ run[t].at = "collect" /\ done \in {"completed", "failed"}
    /\ IF info[t].canceled THEN Return(t, "CANCELED")
       ELSE IF done = "completed" THEN Return(t, "COMPLETED")
       ELSE Retry(t)
    /\ UNCHANGED <<ttl, ledger, info, work, queue, seen, stream, fresh, lapses, late, refused>>

\* Mutant: the audit gate forgets a task whose attempt is given up.
GiveUpAndForget(t) ==
    /\ run[t].at = "collect" /\ work[<<t, run[t].n>>] \notin {"completed", "failed"}
    /\ run[t].wait = 0
    /\ Retry(t)
    /\ seen' = seen \ {t}
    /\ UNCHANGED <<ttl, ledger, info, work, queue, stream, fresh, lapses, late, refused>>

\* collect raises TimeoutError; the attempt stays in the pool.
GiveUp(t) ==
    /\ run[t].at = "collect" /\ work[<<t, run[t].n>>] \notin {"completed", "failed"}
    /\ run[t].wait = 0
    /\ Retry(t)
    /\ UNCHANGED <<ttl, ledger, info, work, queue, seen, stream, fresh, lapses, late, refused>>

----------------------------------------------------------------------------
(* The pool and the handlers. *)

Busy == {a \in Attempt : work[a] \in {"kb", "gate", "web"}}

Take ==
    /\ queue # <<>> /\ Cardinality(Busy) < PoolSize
    /\ work' = [work EXCEPT ![Head(queue)] = "kb"]
    /\ queue' = Tail(queue)
    /\ UNCHANGED <<ttl, ledger, run, info, seen, stream, fresh, lapses, late, refused>>

\* The call of the knowledge base, or of the ledger, returns or raises.
SearchKb(a) ==
    /\ work[a] = "kb"
    /\ \/ work' = [work EXCEPT ![a] = "failed"] /\ UNCHANGED seen
       \/ /\ a[1] \in ledger
          /\ work' = [work EXCEPT ![a] = "completed"] /\ UNCHANGED seen
       \/ /\ a[1] \notin ledger
          /\ seen' = seen \cup {a[1]}
          /\ \E next \in {"completed", "gate"} : work' = [work EXCEPT ![a] = next]
    /\ UNCHANGED <<ttl, ledger, run, info, queue, stream, fresh, lapses, late, refused>>

\* The knowledge base had nothing: assert_allowed lets the search go to the web.
PassGate(a) ==
    /\ work[a] = "gate"
    /\ IF a[1] \in seen
       THEN work' = [work EXCEPT ![a] = "web"] /\ UNCHANGED refused
       ELSE work' = [work EXCEPT ![a] = "failed"] /\ refused' = refused \cup {a}
    /\ UNCHANGED <<ttl, ledger, run, info, queue, seen, stream, fresh, lapses, late>>

SearchWeb(a) ==
    /\ work[a] = "web"
    /\ \E done \in {"completed", "failed"} : work' = [work EXCEPT ![a] = done]
    /\ UNCHANGED <<ttl, ledger, run, info, queue, seen, stream, fresh, lapses, late, refused>>

----------------------------------------------------------------------------
\* The heartbeat loop is late, by more than the worker's ttl, and catches up.
Lapse ==
    /\ fresh /\ lapses < MaxLapses
    /\ fresh' = FALSE /\ lapses' = lapses + 1
    /\ UNCHANGED <<ttl, ledger, run, info, work, queue, seen, stream, late, refused>>

Heartbeat ==
    /\ ~fresh /\ fresh' = TRUE
    /\ UNCHANGED <<ttl, ledger, run, info, work, queue, seen, stream, lapses, late, refused>>

Less(n) == IF n > 0 THEN n - 1 ELSE 0

\* Time passes for the threads that have something to wait for.
Tick ==
    /\ \E t \in Task : run[t].due > 0 \/ run[t].wait > 0
    /\ run' = [t \in Task |-> [run[t] EXCEPT !.due = Less(@), !.wait = Less(@)]]
    /\ UNCHANGED <<ttl, ledger, info, work, queue, seen, stream, fresh, lapses, late, refused>>

Thread(t)  == Check(t) \/ Begin(t) \/ Dispatch(t) \/ Collect(t) \/ GiveUp(t)
Handler(a) == SearchKb(a) \/ PassGate(a) \/ SearchWeb(a)

A2ANext ==
    \/ \E t \in Task : Submit(t) \/ Cancel(t) \/ Thread(t) \/ Finish(t)
    \/ \E a \in Attempt : Handler(a)
    \/ Take \/ Lapse \/ Heartbeat \/ Tick

A2ASpec == A2AInit /\ [][A2ANext]_a2aVars

\* Threads of tasks, the event loop and the clock go on; handlers may hang for ever.
A2AFairSpec ==
    /\ A2ASpec /\ WF_a2aVars(Tick)
    /\ \A t \in Task : WF_a2aVars(Thread(t)) /\ WF_a2aVars(Finish(t))

----------------------------------------------------------------------------
Place   == {"none", "check", "begin", "dispatch", "collect", "return", "done"}
Outcome == {"COMPLETED", "FAILED", "CANCELED"}
Stage   == {"none", "begun", "queued", "kb", "gate", "web", "completed", "failed"}
RunRecord  == [at : Place, n : Nat, due : Nat, left : Nat, wait : Nat, outcome : Outcome]
InfoRecord == [canceled : BOOLEAN, terminal : BOOLEAN]

\* Every variable keeps its type.
A2ATypeOK ==
    /\ ttl \in Ttls /\ ledger \subseteq Task
    /\ run \in [Task -> RunRecord] /\ info \in [Task -> InfoRecord]
    /\ work \in [Attempt -> Stage] /\ queue \in Seq(Attempt)
    /\ seen \subseteq Task
    /\ stream \in [Task -> Seq(Outcome)]
    /\ fresh \in BOOLEAN /\ lapses \in Nat
    /\ late \subseteq Attempt /\ refused \subseteq Attempt

\* A client that was told of its cancel hears of no result afterwards, though the attempt goes
\* on, and of at most one result in all.  (execute, _emit_final and cancel; D5, D5a.)
CanceledStaysSilent ==
    \A t \in Task : \A i, j \in DOMAIN stream[t] : i < j => stream[t][j] = "CANCELED"

\* A cancel that was accepted is overtaken by one attempt at most, the one whose thread had
\* looked at the flag before.  (_run, cancel: canceled is terminal, no automatic retry.)
OneLateAttempt == \A a, b \in late : a[1] = b[1] => a = b

InPool(a) == work[a] \in {"queued", "kb", "gate", "web"}

\* If an attempt may take as long as the task, as by default, no attempt is made beside one
\* that has been given up: the ledger is not written by two attempts at once.  (_run, collect.)
SoleAttempt ==
    ttl >= Deadline => \A a, b \in Attempt : a[1] = b[1] /\ InPool(a) /\ InPool(b) => a = b

\* The audit gate refuses only what is left of a task that is over: its record is dropped when
\* the task ends and not while an attempt relies on it.  (ToolBrokerGate, _research, execute.)
RefusedOnlyWhenOver == \A a \in refused : info[a[1]].terminal

\* A task that was submitted is answered, though handlers hang and fill the pool.  (_run: the
\* deadline bounds every wait.)
TaskIsAnswered ==
    \A t \in Task : run[t].at = "check" ~> stream[t] # <<>>
=============================================================================
