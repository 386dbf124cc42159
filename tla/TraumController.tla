--------------------------- MODULE TraumController ---------------------------
(***************************************************************************)
(* The TRAUM controller of a gateway (src/tools/traum_controller.py) over  *)
(* the store of TraumState.                                                *)
(*                                                                         *)
(* A gateway process runs at most one worker thread.  The worker takes a   *)
(* run through its passes: for each it starts an attempt, spawns a runner  *)
(* process, waits for it and records how it ended.  The runner reports to  *)
(* the store itself too.  Several gateways share one store; each may die,  *)
(* and a runner outlives its gateway.  Every store call is a step of its   *)
(* own; so is every decision taken on what an earlier call returned.       *)
(***************************************************************************)
EXTENDS TraumState, Sequences

CONSTANTS
    Gateway,
    Digest,        \* the last pass of a standard run, run by the gateway's digest script
    DreamPasses,   \* the five passes of a standard run, in order
    Lease,         \* the wall-clock budget of a run
    ChildVerdict,  \* the outcomes of runners, reported by themselves or told by their exit codes
    Timely,        \* whether a worker ends within the recovery grace after its deadline
    Crashes,       \* whether a gateway may die
    Errors,        \* whether a store or file operation of a worker may fail
    LastStart,     \* bound: no operation is requested after this instant
    MaxRetries     \* bound: no retry is requested once so many were started

ASSUME ControllerAssumption ==
    /\ Digest \in Pass /\ DreamPasses \in Seq(Pass \ {Digest}) /\ Len(DreamPasses) > 1
    /\ \A i, j \in 1..Len(DreamPasses) : DreamPasses[i] = DreamPasses[j] => i = j
    /\ Lease \in Nat \ {0} /\ {LastStart, MaxRetries} \subseteq Nat
    /\ {Timely, Crashes, Errors} \subseteq BOOLEAN
\* What a controller asks of the store is among what the store is asked.
ASSUME StoreAssumption ==
    /\ "gui" \in Source /\ (0..Lease) \cup {NoDeadline} \subseteq LeaseRequest
    /\ ChildVerdict \cup {"FAILED", "BLOCKED", "CANCELLED"} \subseteq Verdict

VARIABLES
    worker,    \* the worker thread of each gateway: its step and local variables
    runners,   \* the attempts that a live runner or digest process works on
    lost       \* the runs whose worker died with its gateway (a history variable)

gwVars == <<worker, runners, lost>>
allVars == <<vars, gwVars>>

NoRunId == "none"
Idle == [step |-> "idle", run |-> NoRunId, todo |-> <<>>, skip |-> {}, standard |-> FALSE,
         created |-> FALSE, attempt |-> NoAttempt, verdict |-> "none", deadline |-> 0,
         cancel |-> FALSE, failing |-> FALSE]

ControllerInit ==
    /\ Init
    /\ worker = [g \in Gateway |-> Idle]
    /\ runners = {}
    /\ lost = {}

Live(g) == worker[g].step # "idle"
Owned(g) == IF Live(g) THEN {worker[g].run} ELSE {}
Late(g) == now >= worker[g].deadline
Goto(g, step) == worker' = [worker EXCEPT ![g].step = step]
Elements(passes) == {passes[i] : i \in 1..Len(passes)}

-----------------------------------------------------------------------------
(* Requests of the operator. *)

Launched(r, passes, created) ==
    [Idle EXCEPT !.step = "loop", !.run = r, !.todo = passes, !.standard = Len(passes) > 1,
                 !.created = created, !.deadline = now + Lease]

\* start_run, under the gateway's lock; the idle check is repeated inside create_run.
StartRun(g, r, passes) ==
    /\ ~Live(g) /\ now <= LastStart
    /\ passes \in {DreamPasses, <<Head(DreamPasses)>>}
    /\ CreateRun(r, "gui",
                 Elements(passes) \cup (IF passes = DreamPasses THEN {Digest} ELSE {}), Lease)
    /\ worker' = [worker EXCEPT ![g] = Launched(r, passes, TRUE)]
    /\ UNCHANGED <<runners, lost>>

\* retry: the attempt and its run were read before the lock is taken, the run perhaps cancelled
\* or archived since.  The idle check recovers.
Retry(g, a) ==
    /\ ~Live(g) /\ now <= LastStart
    /\ attempts[a].state \in {"FAILED", "BLOCKED"}
    /\ attempts[<<RunOf(a), PassOf(a), MaxAttempts>>].state = "ABSENT"
    /\ Cardinality({b \in Attempt : NoOf(b) > 1 /\ attempts[b].state # "ABSENT"}) < MaxRetries
    /\ UnownedActive({}) = {}
    /\ IF Recovered({}) = {} THEN UNCHANGED vars ELSE RecoverOrphaned({})
    /\ worker' = [worker EXCEPT ![g] = Launched(RunOf(a), <<PassOf(a)>>, FALSE)]
    /\ UNCHANGED <<runners, lost>>

\* cancel: refused unless this gateway's worker runs the run; a child it has is terminated.
Cancel(g) ==
    /\ Live(g) /\ ~worker[g].cancel
    /\ IF runs[worker[g].run].cancel THEN UNCHANGED vars ELSE RequestCancel(worker[g].run)
    /\ worker' = [worker EXCEPT ![g].cancel = TRUE]
    /\ UNCHANGED <<runners, lost>>

\* Every list and status request recovers; the runs owned were read before the transaction.
Recover(g) ==
    /\ \E owned \in {{}, Owned(g)} : RecoverOrphaned(owned)
    /\ UNCHANGED gwVars

Archive(r) == ArchiveRun(r) /\ UNCHANGED gwVars

-----------------------------------------------------------------------------
(* _execute_run: the loop over the passes. *)

CancelSeen(g) == worker[g].cancel \/ runs[worker[g].run].cancel

\* Passes that get an attempt without a child, unless the run has one of them already.
Unstarted(g, passes, verdict, failing) ==
    worker' = [worker EXCEPT
        ![g].step = "unstarted", ![g].todo = passes, ![g].verdict = verdict, ![g].failing = failing,
        ![g].skip = {p \in Pass : \E a \in Attempt :
            RunOf(a) = worker[g].run /\ PassOf(a) = p /\ attempts[a].state # "ABSENT"}]

Loop(g) ==
    LET w == worker[g] IN
    /\ w.step = "loop"
    /\ CASE w.todo # <<>> /\ CancelSeen(g) -> Goto(g, "final")
         [] w.todo # <<>> /\ ~CancelSeen(g) /\ Late(g) -> Unstarted(g, w.todo, "BLOCKED", FALSE)
         [] w.todo # <<>> /\ ~CancelSeen(g) /\ ~Late(g) -> Goto(g, "start")
         [] w.todo = <<>> /\ (w.cancel \/ ~w.standard) -> Goto(g, "final")
         [] w.todo = <<>> /\ ~w.cancel /\ w.standard /\ Late(g) ->
                Unstarted(g, <<Digest>>, "BLOCKED", FALSE)
         [] w.todo = <<>> /\ ~w.cancel /\ w.standard /\ ~Late(g) ->
                worker' = [worker EXCEPT ![g].step = "start", ![g].todo = <<Digest>>,
                                         ![g].standard = FALSE]
    /\ UNCHANGED <<vars, runners, lost>>

\* The lease an attempt is started with: a pass asks for the rest of the worker's budget, the
\* digest and an attempt that only records a verdict for nothing.
LeaseFor(g, p) ==
    IF p = Digest \/ worker[g].step = "unstarted" THEN NoDeadline
    ELSE IF Late(g) THEN 0 ELSE worker[g].deadline - now

\* Why start_attempt raises.
Refused(g, p) ==
    LET r == worker[g].run IN
    \/ runs[r].archived \/ runs[r].cancel \/ runs[r].state = "CANCELLED"
    \/ UnownedActive({r}) # {} \/ RunHasActiveAttempt(r)
    \/ attempts[<<r, p, MaxAttempts>>].state # "ABSENT"

\* Start the attempt and its child; a child that cannot be spawned has exit code 127.
StartPass(g, spawned) ==
    LET w == worker[g] IN
    /\ w.step = "start"
    /\ \E a \in Attempt :
          /\ RunOf(a) = w.run /\ PassOf(a) = Head(w.todo)
          /\ StartAttempt(a, LeaseFor(g, PassOf(a)))
          /\ worker' = [worker EXCEPT ![g].attempt = a, ![g].todo = Tail(w.todo),
                                      ![g].step = IF spawned THEN "child" ELSE "record",
                                      ![g].verdict = IF spawned THEN "none" ELSE "FAILED"]
          /\ runners' = IF spawned THEN runners \cup {a} ELSE runners
    /\ UNCHANGED lost

\* _execute_digest looks at the cancellation once more.
SkipDigest(g) ==
    /\ worker[g].step = "start" /\ Head(worker[g].todo) = Digest /\ worker[g].cancel
    /\ Goto(g, "final")
    /\ UNCHANGED <<vars, runners, lost>>

StartRefused(g) ==
    /\ worker[g].step = "start" /\ Refused(g, Head(worker[g].todo))
    /\ Goto(g, "fail")
    /\ UNCHANGED <<vars, runners, lost>>

-----------------------------------------------------------------------------
(* The child. *)

\* The runner reports its own verdict to the store; the digest script does not.
RunnerFinish(a, verdict) ==
    /\ a \in runners /\ PassOf(a) # Digest
    /\ FinishAttempt(a, verdict, {})
    /\ UNCHANGED gwVars

\* A child ends, by itself or killed, with an exit code that means a verdict; "timeout" is the
\* watchdog's, whose timer starts with the budget the worker has left.
ChildExit(a, code) ==
    /\ a \in runners
    /\ runners' = runners \ {a}
    /\ worker' = [g \in Gateway |->
                     IF worker[g].step = "child" /\ worker[g].attempt = a
                     THEN [worker[g] EXCEPT !.step = "record", !.verdict = code] ELSE worker[g]]
    /\ \A g \in Gateway : worker[g].step = "child" /\ worker[g].attempt = a /\ code = "timeout"
                             => Late(g)
    /\ UNCHANGED <<vars, lost>>

\* How _execute_pass and _execute_digest read the exit code.
Outcome(g) == CASE worker[g].cancel -> "CANCELLED"
                 [] ~worker[g].cancel /\ worker[g].verdict = "timeout" -> "BLOCKED"
                 [] OTHER -> worker[g].verdict

\* The runner's own verdict stands; the digest's is not looked for.
Record(g) ==
    LET w == worker[g] IN
    /\ w.step = "record"
    /\ worker' = [worker EXCEPT
            ![g].step = IF PassOf(w.attempt) = Digest \/ IsActive(w.attempt) THEN "finish" ELSE "next",
            ![g].verdict = IF PassOf(w.attempt) = Digest \/ IsActive(w.attempt) THEN Outcome(g)
                           ELSE attempts[w.attempt].state]
    /\ UNCHANGED <<vars, runners, lost>>

\* finish_attempt, and what follows when it raises.
Finish(g) ==
    LET w == worker[g]
        a == w.attempt
        legal == \/ IsActive(a) /\ (w.verdict \in Consumable => ~Past(attempts[a].lease))
                 \/ attempts[a].state = w.verdict
    IN  /\ w.step = "finish"
        /\ IF legal /\ IsActive(a) THEN FinishAttempt(a, w.verdict, {}) ELSE UNCHANGED vars
        /\ Goto(g, IF legal THEN "next" ELSE "fail")
        /\ UNCHANGED <<runners, lost>>

\* After a pass: a BLOCKED one, with no time left, blocks all the others and the digest.
After(g) ==
    LET w == worker[g] IN
    /\ w.step = "next"
    /\ IF w.verdict = "BLOCKED" /\ Late(g) /\ PassOf(w.attempt) # Digest
       THEN Unstarted(g, IF w.standard THEN Append(w.todo, Digest) ELSE w.todo, "BLOCKED", FALSE)
       ELSE Goto(g, "loop")
    /\ UNCHANGED <<vars, runners, lost>>

-----------------------------------------------------------------------------
(* Attempts without a child, failures, and the end. *)

\* _finish_unstarted, the start and the finish of one pass, in the order of the list.
NextMissing(g, i) ==
    /\ i \in 1..Len(worker[g].todo) /\ worker[g].todo[i] \notin worker[g].skip
    /\ \A j \in 1..(i - 1) : worker[g].todo[j] \in worker[g].skip

StartUnstarted(g) ==
    LET w == worker[g] IN
    /\ w.step = "unstarted"
    /\ \E i \in 1..Len(w.todo), a \in Attempt :
          /\ NextMissing(g, i) /\ RunOf(a) = w.run /\ PassOf(a) = w.todo[i]
          /\ StartAttempt(a, LeaseFor(g, PassOf(a)))
          /\ worker' = [worker EXCEPT ![g].attempt = a, ![g].step = "unstartedFinish",
                                      ![g].skip = @ \cup {PassOf(a)}]
    /\ UNCHANGED <<runners, lost>>

FinishUnstarted(g) ==
    LET w == worker[g] IN
    /\ w.step = "unstartedFinish"
    /\ IF IsActive(w.attempt) THEN FinishAttempt(w.attempt, w.verdict, {}) ELSE UNCHANGED vars
    /\ Goto(g, IF IsActive(w.attempt) \/ attempts[w.attempt].state = w.verdict THEN "unstarted"
               ELSE IF w.failing THEN "final" ELSE "fail")
    /\ UNCHANGED <<runners, lost>>

\* An exception in _terminalize_controller_failure goes on to the finally block.
UnstartedRefused(g) ==
    LET w == worker[g] IN
    /\ w.step = "unstarted"
    /\ \E i \in 1..Len(w.todo) : NextMissing(g, i) /\ Refused(g, w.todo[i])
    /\ Goto(g, IF w.failing THEN "final" ELSE "fail")
    /\ UNCHANGED <<vars, runners, lost>>

UnstartedDone(g) ==
    /\ worker[g].step = "unstarted" /\ Elements(worker[g].todo) \subseteq worker[g].skip
    /\ Goto(g, IF worker[g].failing THEN "finalize" ELSE "final")
    /\ UNCHANGED <<vars, runners, lost>>

\* A store, file or process operation of the worker raises.
Error(g) ==
    /\ Errors /\ worker[g].step \in {"loop", "start", "child", "record", "finish", "next"}
    /\ Goto(g, "fail")
    /\ UNCHANGED <<vars, runners, lost>>

\* Mutant: whoever fails fails the whole run.
FailWholeRun(g) ==
    LET w == worker[g] IN
    /\ w.step = "fail"
    /\ IF w.attempt # NoAttempt /\ IsActive(w.attempt)
       THEN FinishAttempt(w.attempt, "FAILED", {}) ELSE UNCHANGED vars
    /\ Goto(g, "missing")
    /\ UNCHANGED <<runners, lost>>
\* _terminalize_controller_failure: fail the attempt this worker started, then, if this worker
\* created the run, its missing passes.
Fail(g) ==
    LET w == worker[g] IN
    /\ w.step = "fail"
    /\ IF w.attempt # NoAttempt /\ IsActive(w.attempt)
       THEN FinishAttempt(w.attempt, "FAILED", {}) ELSE UNCHANGED vars
    /\ Goto(g, IF w.created THEN "missing" ELSE "final")
    /\ UNCHANGED <<runners, lost>>

\* requested_passes of a run, in order.
Requested(r) == IF runs[r].passes = {Head(DreamPasses)} THEN <<Head(DreamPasses)>>
                ELSE Append(DreamPasses, Digest)

Missing(g) ==
    /\ worker[g].step = "missing"
    /\ Unstarted(g, Requested(worker[g].run), "FAILED", TRUE)
    /\ UNCHANGED <<vars, runners, lost>>

\* finalize_run, which does not look at the attempts.
Finalize(g) ==
    /\ worker[g].step = "finalize"
    /\ FinalizeRunFailed(worker[g].run)
    /\ Goto(g, "final")
    /\ UNCHANGED <<runners, lost>>

\* The finally block: a cancelled run is finalized, whatever it came to.
Final(g) ==
    /\ worker[g].step = "final"
    /\ IF CancelSeen(g) THEN FinalizeCancelledRun(worker[g].run) ELSE UNCHANGED vars
    /\ Goto(g, "pop")
    /\ UNCHANGED <<runners, lost>>

\* Only now does the gateway stop owning the run.
Pop(g) ==
    /\ worker[g].step = "pop"
    /\ worker' = [worker EXCEPT ![g] = Idle]
    /\ UNCHANGED <<vars, runners, lost>>

Crash(g) ==
    /\ Crashes /\ Live(g)
    /\ worker' = [worker EXCEPT ![g] = Idle]
    /\ lost' = lost \cup {worker[g].run}
    /\ UNCHANGED <<vars, runners>>

\* The clock.  A timely worker ends within the grace, because its watchdog kills the child at the
\* deadline and nothing else it does takes long; a gateway that is suspended is not timely.
Clock ==
    /\ Timely => \A g \in Gateway : Live(g) => now < worker[g].deadline + Grace
    /\ Tick
    /\ UNCHANGED gwVars

WorkerStep(g) ==
    \/ Loop(g)
    \/ \E spawned \in BOOLEAN : StartPass(g, spawned)
    \/ SkipDigest(g)
    \/ StartRefused(g)
    \/ Record(g)
    \/ Finish(g)
    \/ After(g)
    \/ StartUnstarted(g)
    \/ FinishUnstarted(g)
    \/ UnstartedRefused(g)
    \/ UnstartedDone(g)
    \/ Fail(g)
    \/ Missing(g)
    \/ Finalize(g)
    \/ Final(g)
    \/ Pop(g)

ControllerNext ==
    \/ \E g \in Gateway :
          \/ \E r \in Run, passes \in {DreamPasses, <<Head(DreamPasses)>>} : StartRun(g, r, passes)
          \/ \E a \in Attempt : Retry(g, a)
          \/ Cancel(g)
          \/ Recover(g)
          \/ WorkerStep(g)
          \/ Error(g)
          \/ Crash(g)
    \/ \E r \in Run : Archive(r)
    \/ \E a \in Attempt, verdict \in ChildVerdict : RunnerFinish(a, verdict)
    \/ \E a \in Attempt, code \in ChildVerdict \cup {"timeout"} : ChildExit(a, code)
    \/ Clock

ControllerSpec == ControllerInit /\ [][ControllerNext]_allVars

\* Threads run on, the watchdog ends every child in the end, the clock advances, and a gateway,
\* perhaps a restarted one, is polled.
ControllerFairSpec ==
    /\ ControllerSpec
    /\ \A g \in Gateway : WF_allVars(WorkerStep(g))
    /\ \A a \in Attempt : WF_allVars(\E code \in ChildVerdict \cup {"timeout"} : ChildExit(a, code))
    /\ WF_allVars(Clock)
    /\ WF_allVars(RecoverOrphaned({}) /\ UNCHANGED gwVars)

-----------------------------------------------------------------------------
(* What the controller promises. *)

Steps == {"idle", "loop", "start", "child", "record", "finish", "next", "unstarted",
          "unstartedFinish", "fail", "missing", "finalize", "final", "pop"}

\* The store's tables and the threads' local variables are well formed.
ControllerTypeOK ==
    /\ TypeOK
    /\ worker \in [Gateway -> [step : Steps, run : Run \cup {NoRunId}, todo : Seq(Pass),
                               skip : SUBSET Pass, standard : BOOLEAN, created : BOOLEAN, cancel : BOOLEAN,
                               failing : BOOLEAN, deadline : Nat,
                               attempt : Attempt \cup {NoAttempt},
                               verdict : AttemptTerminal \cup {"none", "timeout"}]]
    /\ runners \subseteq Attempt
    /\ lost \subseteq Run

\* "A competing gateway can lose the atomic start_attempt race for a retry.  In that case this
\* worker owns no canonical attempt and must not terminalize the winning gateway's active attempt
\* or whole run": unless the operator cancels the run or its lease expires, no gateway ends the
\* attempt another one works on, nor, unless it created it, the run.
Unfenced(a) == attempts'[a].error # "ControllerLeaseExpired"
LoserSparesWinner ==
    [][\A g, h \in Gateway :
          LET a == worker[g].attempt  r == worker[g].run IN
          /\ g # h /\ worker'[h] # worker[h]
          /\ Live(g) /\ a # NoAttempt /\ ~runs[r].cancel /\ Unfenced(a)
          => /\ attempts'[a] = attempts[a]
             /\ IsActive(a) /\ ~worker[h].created => runs'[r].state = runs[r].state]_allVars

\* Whatever a request, a failure, a crash or a timeout does, an active run becomes inactive.
RunEnds == \A r \in Run : RunActive(r) ~> ~RunActive(r)

=============================================================================
