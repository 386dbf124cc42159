----------------------------- MODULE PlanLedger -----------------------------
(***************************************************************************)
(* The planner and its ledger (src/tools/goethe_planner.py): the           *)
(* task_blocks table, the planner() call with its worker thread, and the   *)
(* calls of the agent that reads and strikes the steps of a plan.          *)
(*                                                                         *)
(* Every method reads a block in one transaction and writes it back in     *)
(* another, so that each is a step that copies and a step that writes.     *)
(* planner() hands the landing of a slow plan over to its worker, and the  *)
(* two then write the same block.  Every process that constructs Tools()   *)
(* sweeps the ledger as it starts, whether or not another one is alive.    *)
(*                                                                         *)
(* A block is known by the planner() call that created it.  The agent is a *)
(* language model: it makes one call at a time and keeps to the protocol   *)
(* of the docstrings (it strikes the step whose prompt it holds, has a     *)
(* plan revised when a step failed, and does not plan a task again that is *)
(* being planned).                                                         *)
(***************************************************************************)
EXTENDS Naturals, FiniteSets, FiniteSetsExt

CONSTANTS
    Call,         \* planner() calls
    NoCall,       \* not a call
    MaxStep,      \* bound: plans have steps 1..MaxStep
    MaxMishaps    \* bound: crashes of the gateway, helpers that start, writes and sweeps that fail

ASSUME LedgerAssumption ==
    /\ NoCall \notin Call
    /\ MaxStep \in Nat /\ MaxMishaps \in Nat

VARIABLES
    block,     \* the task_blocks table
    plan,      \* the planner() calls: closure state and worker thread
    agent,     \* the agent's session: the call it is in, and the text it was given last
    gateway,   \* "up", "down", or "booting" while Tools() sweeps
    sweep,     \* the startup sweeps: what each read and has still to write, or missed by failing
    mishaps,   \* crashes, helpers, failed writes and sweeps so far
    struck,    \* history: steps whose strike was acknowledged
    issued,    \* history: steps whose prompt task_resume has given out
    lost,      \* history: those of issued that were in flight when a gateway died
    torn       \* history: blocks over which an outdated copy, or half a plan, was written

ledgerVars == <<block, plan, agent, gateway, sweep, mishaps, struck, issued, lost, torn>>

StepNo  == 1..MaxStep
Sweeper == {"gateway", "helper"}
NoStep  == [state |-> "absent", stamp |-> "none"]
NoSteps == [n \in StepNo |-> NoStep]
NoView  == [task |-> NoCall, kind |-> "none", next |-> 0]
NoBlock == [status |-> "absent", kind |-> "none", next |-> 0, steps |-> NoSteps]
NoPlan  == [at |-> "unused", task |-> NoCall, prior |-> NoSteps, last |-> 0,
            detached |-> FALSE, copy |-> NoSteps]
Idle    == [at |-> "idle", call |-> NoCall, task |-> NoCall, next |-> 0, copy |-> NoSteps, view |-> NoView]
NoSweep == [copy |-> [t \in Call |-> NoSteps], todo |-> {}, missed |-> {}]

LedgerInit ==
    /\ block = [t \in Call |-> NoBlock]
    /\ plan = [c \in Call |-> NoPlan]
    /\ agent = Idle
    /\ gateway = "up"
    /\ sweep = [s \in Sweeper |-> NoSweep]
    /\ mishaps = 0
    /\ struck = {} /\ issued = {} /\ lost = {} /\ torn = {}

InState(steps, state) == {n \in StepNo : steps[n].state = state}
DoneSteps(steps) == [n \in StepNo |-> IF steps[n].state = "done" THEN steps[n] ELSE NoStep]
FirstPending(steps) == IF InState(steps, "pending") = {} THEN 0 ELSE Min(InState(steps, "pending"))
Highest(steps) == Max({n \in StepNo : steps[n].state # "absent"} \cup {0})
Stamped(steps) == {n \in StepNo : steps[n].stamp # "none"}

Mishap == mishaps < MaxMishaps /\ mishaps' = mishaps + 1
Tear(t, condition) == torn' = IF condition THEN torn \cup {t} ELSE torn

\* task_checkpoint: INSERT OR REPLACE with the steps it has read.
Replace(t, copy, status, kind, next) ==
    /\ block' = [block EXCEPT ![t] = [status |-> status, kind |-> kind, next |-> next,
                                      steps |-> copy]]
    /\ Tear(t, copy # block[t].steps)

-----------------------------------------------------------------------------
(* planner(): the call, the worker, and the hand-off between them. *)

Serving == gateway = "up"
AgentAt(place) == Serving /\ agent.at = place
Return(view) == agent' = [Idle EXCEPT !.view = view]
PlanAt(c, place) == Serving /\ plan[c].at = place
To(c, place) == plan' = [plan EXCEPT ![c].at = place]
Gone(p, place) == [NoPlan EXCEPT !.at = place, !.task = p.task, !.detached = p.detached]
End(c) == plan' = [plan EXCEPT ![c] = Gone(@, "landed")]

Planning(c, t, prior) ==
    /\ plan' = [plan EXCEPT ![c] = [NoPlan EXCEPT !.at = "asking", !.task = t, !.prior = prior]]
    /\ agent' = [Idle EXCEPT !.at = "planning", !.call = c]
    /\ UNCHANGED <<block, gateway, sweep, mishaps, struck, issued, lost, torn>>

PlannerNew(c) ==
    /\ AgentAt("idle") /\ plan[c].at = "unused"
    /\ Planning(c, c, NoSteps)

PlannerRevise(c) ==
    LET t == agent.view.task IN
    /\ AgentAt("idle") /\ plan[c].at = "unused"
    /\ agent.view.kind \in {"step", "revise", "own"}
    /\ block[t].status # "absent"
    /\ Planning(c, t, DoneSteps(block[t].steps))

\* The backend answers with steps that follow the completed ones, or fails (last = 0).
WorkerReady(c) ==
    /\ PlanAt(c, "asking")
    /\ \E last \in {0} \cup {n \in StepNo : n > Highest(plan[c].prior)} :
         plan' = [plan EXCEPT ![c].last = last,
                              ![c].at = IF ~plan[c].detached THEN "ready"
                                        ELSE IF last > 0 THEN "header" ELSE "mark"]
    /\ UNCHANGED <<block, agent, gateway, sweep, mishaps, struck, issued, lost, torn>>

\* Mutant: whether the worker is ready is not looked at under the gate.
WakeBlind(c) ==
    /\ AgentAt("planning") /\ agent.call = c /\ plan[c].at \in {"asking", "ready"}
    /\ plan' = [plan EXCEPT ![c].detached = TRUE]
    /\ agent' = [agent EXCEPT !.at = "detached"]
    /\ UNCHANGED <<block, gateway, sweep, mishaps, struck, issued, lost, torn>>

\* Mutant: the plan of a worker that was in time is landed after the call has returned.
WakeEarly(c) ==
    /\ AgentAt("planning") /\ agent.call = c
    /\ \/ /\ plan[c].at = "ready"
          /\ To(c, "header")
          /\ Return([task |-> plan[c].task, kind |-> "progress", next |-> 0])
       \/ /\ plan[c].at = "asking"
          /\ plan' = [plan EXCEPT ![c].detached = TRUE]
          /\ agent' = [agent EXCEPT !.at = "detached"]
    /\ UNCHANGED <<block, gateway, sweep, mishaps, struck, issued, lost, torn>>

\* join() returns: the caller lands a plan that is ready, or detaches.
Wake(c) ==
    /\ AgentAt("planning") /\ agent.call = c
    /\ \/ /\ plan[c].at = "ready" /\ plan[c].last > 0
          /\ To(c, "header")
          /\ agent' = [agent EXCEPT !.at = "landing"]
       \/ /\ plan[c].at = "ready" /\ plan[c].last = 0
          /\ End(c)
          /\ Return(NoView)
       \/ /\ plan[c].at = "asking"
          /\ plan' = [plan EXCEPT ![c].detached = TRUE]
          /\ agent' = [agent EXCEPT !.at = "detached"]
    /\ UNCHANGED <<block, gateway, sweep, mishaps, struck, issued, lost, torn>>

\* The caller, detached, writes that planning is in progress.
ProgressRead ==
    /\ AgentAt("detached")
    /\ agent' = [agent EXCEPT !.at = "progress", !.copy = block[plan[agent.call].task].steps]
    /\ UNCHANGED <<block, plan, gateway, sweep, mishaps, struck, issued, lost, torn>>

ProgressWrite ==
    LET t == plan[agent.call].task IN
    /\ AgentAt("progress")
    /\ Return([task |-> t, kind |-> "progress", next |-> 0])
    /\ \/ Replace(t, agent.copy, "open", "progress", 0) /\ UNCHANGED mishaps
       \/ Mishap /\ UNCHANGED <<block, torn>>
    /\ UNCHANGED <<plan, gateway, sweep, struck, issued, lost>>

-----------------------------------------------------------------------------
(* Landing a plan: by the caller in time, by the worker once detached. *)

NewSteps(c) ==
    [n \in StepNo |-> IF n > Highest(plan[c].prior) /\ n <= plan[c].last
                      THEN [state |-> "pending", stamp |-> "none"] ELSE plan[c].prior[n]]

FirstNew(c) == Highest(plan[c].prior) + 1

\* The call is over; a caller that landed the plan itself returns its outcome.
Landed(c, view) ==
    /\ End(c)
    /\ IF plan[c].detached THEN UNCHANGED agent ELSE Return(view)

HeaderRead(c) ==
    /\ PlanAt(c, "header")
    /\ plan' = [plan EXCEPT ![c].at = "replace", ![c].copy = block[plan[c].task].steps]
    /\ UNCHANGED <<block, agent, gateway, sweep, mishaps, struck, issued, lost, torn>>

\* A checkpoint that fails says so in its result, which goes unread.
HeaderWrite(c) ==
    /\ PlanAt(c, "replace")
    /\ To(c, "steps")
    /\ \/ Replace(plan[c].task, plan[c].copy, "open", "step", FirstNew(c)) /\ UNCHANGED mishaps
       \/ Mishap /\ UNCHANGED <<block, torn>>
    /\ UNCHANGED <<agent, gateway, sweep, struck, issued, lost>>

Forget(history, t) == {h \in history : h[1] # t}

\* Mutant: a revision stores the new steps only.
StepsWriteNewOnly(c) ==
    LET t == plan[c].task IN
    /\ PlanAt(c, "steps")
    /\ block' = IF block[t].status = "absent" THEN block
                ELSE [block EXCEPT ![t].steps = [n \in StepNo |-> IF plan[c].prior[n] = NoStep
                                                                  THEN NewSteps(c)[n] ELSE NoStep]]
    /\ issued' = Forget(issued, t) /\ lost' = Forget(lost, t)
    /\ Tear(t, DoneSteps(block[t].steps) # plan[c].prior)
    /\ Landed(c, [task |-> t, kind |-> "step", next |-> FirstNew(c)])
    /\ UNCHANGED <<gateway, sweep, mishaps, struck>>

\* The second write of a landing; without a row it updates nothing, and says nothing.
StepsWrite(c) ==
    LET t == plan[c].task IN
    /\ PlanAt(c, "steps")
    /\ block' = IF block[t].status = "absent" THEN block
                ELSE [block EXCEPT ![t].steps = NewSteps(c)]
    /\ issued' = Forget(issued, t) /\ lost' = Forget(lost, t)
    /\ Tear(t, DoneSteps(block[t].steps) # plan[c].prior)
    /\ Landed(c, [task |-> t, kind |-> "step", next |-> FirstNew(c)])
    /\ UNCHANGED <<gateway, sweep, mishaps, struck>>

StepsFail(c) ==
    /\ PlanAt(c, "steps") /\ Mishap
    /\ Tear(plan[c].task, TRUE)
    /\ IF plan[c].detached THEN To(c, "mark") /\ UNCHANGED agent ELSE Landed(c, NoView)
    /\ UNCHANGED <<block, gateway, sweep, struck, issued, lost>>

\* _planner_mark_detached_failed, by a detached worker without a usable plan.
MarkRead(c) ==
    /\ PlanAt(c, "mark")
    /\ plan' = [plan EXCEPT ![c].at = "remark", ![c].copy = block[plan[c].task].steps]
    /\ UNCHANGED <<block, agent, gateway, sweep, mishaps, struck, issued, lost, torn>>

MarkWrite(c) ==
    /\ PlanAt(c, "remark")
    /\ End(c)
    /\ \/ Replace(plan[c].task, plan[c].copy, "open", "unavailable", 0) /\ UNCHANGED mishaps
       \/ Mishap /\ UNCHANGED <<block, torn>>
    /\ UNCHANGED <<agent, gateway, sweep, struck, issued, lost>>

-----------------------------------------------------------------------------
(* The agent's other calls: plan_step_done, task_resume and task_checkpoint. *)

\* plan_step_done goes on from here if the step is in the ledger and not struck.
StrikeRead ==
    LET t == agent.view.task  n == agent.view.next IN
    /\ AgentAt("idle") /\ n # 0
    /\ block[t].steps[n].state \in {"pending", "failed"}
    /\ agent' = [agent EXCEPT !.at = "strike", !.task = t, !.next = n, !.copy = block[t].steps]
    /\ UNCHANGED <<block, plan, gateway, sweep, mishaps, struck, issued, lost, torn>>

\* Mutant: the prompt after a step that failed is the one of the next pending step.
AfterStrikeRegardless(failed, steps) ==
    IF InState(steps, "pending") # {} THEN "step" ELSE "complete"

AfterStrike(failed, steps) ==
    IF failed THEN "revise" ELSE IF InState(steps, "pending") # {} THEN "step" ELSE "complete"

StrikeWrite(failed) ==
    LET t     == agent.task
        n     == agent.next
        steps == [agent.copy EXCEPT ![n].state = IF failed THEN "failed" ELSE "done"]
        kind  == AfterStrike(failed, steps)
        next  == IF kind = "step" THEN FirstPending(steps) ELSE 0
    IN
    /\ AgentAt("strike")
    /\ \/ /\ block' = [block EXCEPT ![t].steps = steps, ![t].kind = kind, ![t].next = next,
                                    ![t].status = IF kind = "complete" THEN "closed" ELSE "open"]
          /\ Tear(t, agent.copy # block[t].steps)
          /\ struck' = IF failed THEN struck ELSE struck \cup {<<t, n>>}
          /\ issued' = issued \ {<<t, n>>} /\ lost' = lost \ {<<t, n>>}
          /\ Return([task |-> t, kind |-> kind, next |-> next])
          /\ UNCHANGED mishaps
       \/ /\ Mishap
          /\ Return(agent.view)
          /\ UNCHANGED <<block, torn, struck, issued, lost>>
    /\ UNCHANGED <<plan, gateway, sweep>>

\* A step that was interrupted is announced instead of being stamped again.
NeedsStamp(b) ==
    LET n == FirstPending(b.steps) IN
    b.status = "open" /\ n # 0 /\ b.steps[n].stamp # "interrupted"

ResumeRead(t) ==
    /\ AgentAt("idle") /\ block[t].status # "absent"
    /\ LET view == [task |-> t, kind |-> block[t].kind, next |-> block[t].next] IN
       IF NeedsStamp(block[t])
       THEN agent' = [Idle EXCEPT !.at = "resume", !.task = t, !.next = FirstPending(block[t].steps),
                                  !.view = view]
       ELSE Return(view)
    /\ UNCHANGED <<block, plan, gateway, sweep, mishaps, struck, issued, lost, torn>>

StampRead ==
    /\ AgentAt("resume")
    /\ agent' = [agent EXCEPT !.at = "stamp", !.copy = block[agent.task].steps]
    /\ UNCHANGED <<block, plan, gateway, sweep, mishaps, struck, issued, lost, torn>>

\* _set_step_in_progress stamps the step, if it is still there; then task_resume answers.
StampWrite ==
    LET t == agent.task  n == agent.next IN
    /\ AgentAt("stamp")
    /\ Return(agent.view)
    /\ \/ /\ agent.copy[n].state # "absent"
          /\ block' = [block EXCEPT ![t].steps = [agent.copy EXCEPT ![n].stamp = "issued"]]
          /\ Tear(t, agent.copy # block[t].steps)
          /\ issued' = issued \cup {<<t, n>>}
          /\ UNCHANGED mishaps
       \/ agent.copy[n].state = "absent" /\ UNCHANGED <<block, torn, issued, mishaps>>
       \/ Mishap /\ UNCHANGED <<block, torn, issued>>
    /\ UNCHANGED <<plan, gateway, sweep, struck, lost>>

CheckpointRead ==
    LET t == agent.view.task IN
    /\ AgentAt("idle") /\ t # NoCall
    /\ agent' = [agent EXCEPT !.at = "checkpoint", !.task = t, !.copy = block[t].steps]
    /\ UNCHANGED <<block, plan, gateway, sweep, mishaps, struck, issued, lost, torn>>

\* A checkpoint of the agent's own: work to go on with (the step it holds), or the end of it
\* ("done" or "abandoned").
CheckpointWrite(status) ==
    LET next == IF status = "open" THEN agent.view.next ELSE 0 IN
    /\ AgentAt("checkpoint")
    /\ \/ Replace(agent.task, agent.copy, status, "own", next) /\ UNCHANGED mishaps
       \/ Mishap /\ UNCHANGED <<block, torn>>
    /\ Return(IF status = "open" THEN agent.view ELSE NoView)
    /\ UNCHANGED <<plan, gateway, sweep, struck, issued, lost>>

\* Context handoff: the session ends, and a fresh one knows nothing.
Handoff ==
    /\ AgentAt("idle") /\ agent.view # NoView
    /\ Return(NoView)
    /\ UNCHANGED <<block, plan, gateway, sweep, mishaps, struck, issued, lost, torn>>

-----------------------------------------------------------------------------
(* Death and startup of processes. *)

MidLanding(t) == \E c \in Call : plan[c].task = t /\ plan[c].at = "steps"

\* The threads die where they are, between the two writes of a landing too.
Crash ==
    /\ gateway \in {"up", "booting"} /\ Mishap
    /\ gateway' = "down"
    /\ plan' = [c \in Call |-> IF plan[c].at \in {"unused", "landed"} THEN plan[c]
                               ELSE Gone(plan[c], "dead")]
    /\ agent' = Idle
    /\ sweep' = [sweep EXCEPT !["gateway"] = NoSweep]
    /\ lost' = lost \cup issued /\ issued' = {}
    /\ torn' = torn \cup {t \in Call : MidLanding(t)}
    /\ UNCHANGED <<block, struck>>

\* mark_interrupted_on_startup reads all blocks; stamps are older than the process.
Sweep(s) ==
    LET todo == {t \in Call : Stamped(block[t].steps) # {}} IN
    sweep' = [sweep EXCEPT ![s] = [copy |-> [t \in Call |-> IF t \in todo THEN block[t].steps
                                                            ELSE NoSteps],
                                   todo |-> todo, missed |-> {}]]

\* Mutant: the gateway serves before the sweep is through.
BootServing ==
    /\ gateway = "down"
    /\ Sweep("gateway")
    /\ gateway' = "up"
    /\ UNCHANGED <<block, plan, agent, mishaps, struck, issued, lost, torn>>

Boot ==
    /\ gateway = "down"
    /\ Sweep("gateway")
    /\ gateway' = "booting"
    /\ UNCHANGED <<block, plan, agent, mishaps, struck, issued, lost, torn>>

\* dream_apply.py and the indexers construct Tools() beside the gateway.
HelperStarts ==
    /\ Mishap
    /\ Sweep("helper")
    /\ UNCHANGED <<block, plan, agent, gateway, struck, issued, lost, torn>>

Interrupted(steps) ==
    [n \in StepNo |-> IF n \in Stamped(steps) THEN [steps[n] EXCEPT !.stamp = "interrupted"]
                      ELSE steps[n]]

SweepWrite(s, t) ==
    /\ t \in sweep[s].todo
    /\ sweep' = [sweep EXCEPT ![s].copy[t] = NoSteps, ![s].todo = @ \ {t}]
    /\ block' = [block EXCEPT ![t].steps = Interrupted(sweep[s].copy[t])]
    /\ Tear(t, sweep[s].copy[t] # block[t].steps)
    /\ UNCHANGED <<plan, agent, gateway, mishaps, struck, issued, lost>>

\* An error ends a sweep where it is: it is logged, and the process starts all the same.
SweepFail(s) ==
    /\ sweep[s].todo # {} /\ Mishap
    /\ sweep' = [sweep EXCEPT ![s] = [NoSweep EXCEPT !.missed = sweep[s].todo]]
    /\ UNCHANGED <<block, plan, agent, gateway, struck, issued, lost, torn>>

BootDone ==
    /\ gateway = "booting" /\ sweep["gateway"].todo = {}
    /\ gateway' = "up"
    /\ UNCHANGED <<block, plan, agent, sweep, mishaps, struck, issued, lost, torn>>

-----------------------------------------------------------------------------
PlanStep(c) ==
    \/ WorkerReady(c) \/ Wake(c)
    \/ HeaderRead(c) \/ HeaderWrite(c) \/ StepsWrite(c) \/ StepsFail(c)
    \/ MarkRead(c) \/ MarkWrite(c)

AgentStep ==
    \/ \E c \in Call : PlannerNew(c) \/ PlannerRevise(c) \/ ResumeRead(c)
    \/ StrikeRead \/ CheckpointRead \/ Handoff
    \/ \E failed \in BOOLEAN : StrikeWrite(failed)
    \/ StampRead \/ StampWrite
    \/ \E status \in {"open", "closed"} : CheckpointWrite(status)

ProcessStep ==
    \/ Crash \/ Boot \/ BootDone \/ HelperStarts
    \/ \E s \in Sweeper : SweepFail(s) \/ \E t \in Call : SweepWrite(s, t)

LedgerNext ==
    \/ \E c \in Call : PlanStep(c)
    \/ ProgressRead \/ ProgressWrite
    \/ AgentStep
    \/ ProcessStep

LedgerSpec == LedgerInit /\ [][LedgerNext]_ledgerVars

-----------------------------------------------------------------------------
(* Properties. *)

Steps == [StepNo -> [state : {"absent", "pending", "done", "failed"},
                     stamp : {"none", "issued", "interrupted"}]]
Kinds == {"none", "step", "revise", "complete", "progress", "unavailable", "own"}
Views == [task : Call \cup {NoCall}, kind : Kinds, next : 0..MaxStep]

\* Every variable has its type.
LedgerTypeOK ==
    /\ block \in [Call -> [status : {"absent", "open", "closed"}, kind : Kinds,
                           next : 0..MaxStep, steps : Steps]]
    /\ plan \in [Call -> [at : {"unused", "asking", "ready", "header", "replace", "steps", "mark",
                                "remark", "landed", "dead"},
                          task : Call \cup {NoCall}, prior : Steps, last : 0..MaxStep,
                          detached : BOOLEAN, copy : Steps]]
    /\ agent \in [at : {"idle", "planning", "landing", "detached", "progress", "strike", "resume",
                        "stamp", "checkpoint"},
                  call : Call \cup {NoCall}, task : Call \cup {NoCall}, next : 0..MaxStep,
                  copy : Steps, view : Views]
    /\ gateway \in {"up", "down", "booting"}
    /\ sweep \in [Sweeper -> [copy : [Call -> Steps], todo : SUBSET Call, missed : SUBSET Call]]
    /\ mishaps \in 0..MaxMishaps
    /\ \A history \in {struck, issued, lost} : history \subseteq Call \X StepNo
    /\ torn \subseteq Call

\* A block loses an update, or shows the text of one plan over the steps of another, only after
\* a plan of it was detached, or a process died, a write failed or a second process came up.
TornOnlyByRaceOrFault ==
    \A t \in torn :
        \/ \E c \in Call : plan[c].task = t /\ plan[c].detached
        \/ mishaps > 0

\* A strike that plan_step_done has acknowledged is in the ledger for ever, through revisions,
\* checkpoints, restarts and failures, unless an outdated copy was written over it.
StruckStaysStruck ==
    \A h \in struck : h[1] \in torn \/ block[h[1]].steps[h[2]].state = "done"

\* plan_step_done closes a block only when each of its steps is done: never past a step that
\* failed, whatever was revised, resumed or restarted in between.
ClosedMeansAllDone ==
    \A t \in Call : block[t].kind = "complete" /\ t \notin torn
                        => InState(block[t].steps, "done") = {n \in StepNo : block[t].steps[n] # NoStep}

\* A step whose prompt task_resume had given out when a gateway died is announced as interrupted
\* by every later task_resume, until it is struck or planned anew; but for the blocks that the sweep
\* of the gateway now up missed because it failed: the next gateway's finds them again.
AnnouncedAfterCrash ==
    gateway = "up" =>
        \A h \in lost : \/ h[1] \in torn \cup sweep["gateway"].missed
                        \/ block[h[1]].steps[h[2]].stamp = "interrupted"

\* A plan is landed by one thread and never by none: by the caller while it waits for it, by the
\* worker once the caller has detached, in every interleaving of the two.
OneLander ==
    \A c \in Call :
        /\ plan[c].at = "ready" => agent.at = "planning" /\ agent.call = c
        /\ plan[c].at \in {"header", "replace", "steps", "mark", "remark"}
              => (plan[c].detached <=> ~(agent.at = "landing" /\ agent.call = c))
        /\ agent.at = "planning" /\ agent.call = c => plan[c].at \in {"asking", "ready"}
        /\ agent.at = "landing" /\ agent.call = c => plan[c].at \in {"header", "replace", "steps"}

=============================================================================
