-------------------------- MODULE PlanLedger_proofs --------------------------
(***************************************************************************)
(* Proofs about PlanLedger, for any number of calls and steps and of       *)
(* crashes, helpers and failed writes: one thread lands a plan, an         *)
(* acknowledged strike stays, a step that was in flight when a gateway     *)
(* died is announced, a block is complete only when all of its steps are   *)
(* done, and no block is torn without one of the reasons the model names.  *)
(***************************************************************************)
EXTENDS PlanLedger, WellFoundedInduction, TLAPS

----------------------------------------------------------------------------
(* The inductive invariants. *)

BlockRecord == [status : {"absent", "open", "closed"}, kind : Kinds, next : 0..MaxStep,
                steps : Steps]
PlanRecord  == [at : {"unused", "asking", "ready", "header", "replace", "steps", "mark", "remark",
                      "landed", "dead"},
                task : Call \cup {NoCall}, prior : Steps, last : 0..MaxStep,
                detached : BOOLEAN, copy : Steps]
AgentRecord == [at : {"idle", "planning", "landing", "detached", "progress", "strike", "resume",
                      "stamp", "checkpoint"},
                call : Call \cup {NoCall}, task : Call \cup {NoCall}, next : 0..MaxStep,
                copy : Steps, view : Views]
SweepRecord == [copy : [Call -> Steps], todo : SUBSET Call, missed : SUBSET Call]

ViewOK(view) == view = NoView \/ view.task \in Call

\* Who is at work has a block, and a plan that is being landed goes beyond what was done.
AgentInv ==
    /\ agent.at \in {"planning", "landing", "detached", "progress"} =>
          agent.call \in Call /\ plan[agent.call].at # "unused"
    /\ agent.at \in {"strike", "resume", "stamp", "checkpoint"} => agent.task \in Call
    /\ agent.at \in {"strike", "resume", "stamp"} => agent.next \in StepNo
    /\ ViewOK(agent.view)

PlanOK(c) == /\ plan[c].at # "unused" => plan[c].task \in Call
             /\ plan[c].at = "ready" => plan[c].last = 0 \/ plan[c].last > Highest(plan[c].prior)
             /\ plan[c].at \in {"header", "replace", "steps"} => plan[c].last > Highest(plan[c].prior)

TypeInv == LedgerTypeOK /\ AgentInv /\ \A c \in Call : PlanOK(c)

----------------------------------------------------------------------------
(* Numbers and steps. *)

LEMMA LeastNatural ==
    ASSUME NEW S \in SUBSET Nat, S # {}
    PROVE  \E x \in S : \A y \in S : x =< y
<1> DEFINE R == {ss \in Nat \X Nat : ss[1] < ss[2]}
<1>1. IsWellFoundedOn(R, Nat)
  BY NatLessThanWellFounded DEF OpToRel
<1>2. PICK x \in S : \A y \in S : ~(<<y, x>> \in R)
  <2> HIDE DEF R
  <2> QED BY <1>1, WFMin
<1>3. \A y \in S : y \in Nat /\ x \in Nat
  OBVIOUS
<1>4. \A y \in S : ~(y < x)
  BY <1>2, <1>3
<1> QED BY <1>3, <1>4

LEMMA MinFact ==
    ASSUME NEW S \in SUBSET Nat, S # {}
    PROVE  Min(S) \in S
BY LeastNatural DEF Min

LEMMA MaxFact ==
    ASSUME NEW m \in Nat, NEW S \in SUBSET (0..m), S # {}
    PROVE  Max(S) \in S /\ \A y \in S : y =< Max(S)
<1> DEFINE T == {m - y : y \in S}
<1>1. \A y \in S : y \in Int /\ m - y \in Nat
  OBVIOUS
<1>2. T \in SUBSET Nat /\ T # {}
  BY <1>1
<1>3. PICK u \in T : \A v \in T : u =< v
  BY <1>2, LeastNatural
<1>4. PICK x \in S : u = m - x
  BY <1>3
<1>5. ASSUME NEW y \in S
      PROVE  x >= y
  <2>1. m - x =< m - y
    BY <1>3, <1>4
  <2> QED BY <1>1, <1>4, <2>1
<1> QED BY <1>5 DEF Max

LEMMA HighestFact ==
    ASSUME NEW steps \in Steps
    PROVE  /\ Highest(steps) \in 0..MaxStep
           /\ \A n \in StepNo : steps[n].state # "absent" => n =< Highest(steps)
<1> DEFINE S == {n \in StepNo : steps[n].state # "absent"} \cup {0}
<1>1. S \in SUBSET (0..MaxStep) /\ S # {} /\ MaxStep \in Nat
  BY LedgerAssumption DEF StepNo
<1>2. Highest(steps) = Max(S)
  BY DEF Highest
<1> HIDE DEF S
<1>3. Max(S) \in S /\ \A y \in S : y =< Max(S)
  BY <1>1, MaxFact
<1> QED BY <1>1, <1>2, <1>3 DEF S

LEMMA FirstPendingFact ==
    ASSUME NEW steps \in Steps
    PROVE  FirstPending(steps) \in 0..MaxStep
<1> DEFINE S == InState(steps, "pending")
<1>1. S \in SUBSET StepNo /\ S \in SUBSET Nat /\ MaxStep \in Nat
  BY LedgerAssumption DEF InState, StepNo
<1>2. FirstPending(steps) = IF S = {} THEN 0 ELSE Min(S)
  BY DEF FirstPending
<1> HIDE DEF S
<1>3. S # {} => Min(S) \in S
  BY <1>1, MinFact
<1>4. CASE S = {}
  BY <1>1, <1>2, <1>4
<1>5. CASE S # {}
  <2>1. Min(S) \in 1..MaxStep
    BY <1>1, <1>3, <1>5 DEF StepNo
  <2> QED BY <1>2, <1>5, <2>1
<1> QED BY <1>4, <1>5

LEMMA StepsTyped ==
    /\ NoSteps \in Steps
    /\ \A steps \in Steps : DoneSteps(steps) \in Steps /\ Interrupted(steps) \in Steps
BY DEF NoSteps, NoStep, Steps, DoneSteps, Interrupted, Stamped

LEMMA ChangedTyped ==
    ASSUME NEW steps \in Steps, NEW n \in StepNo
    PROVE  /\ \A state \in {"absent", "pending", "done", "failed"} :
                  [steps EXCEPT ![n].state = state] \in Steps
           /\ \A stamp \in {"none", "issued", "interrupted"} :
                  [steps EXCEPT ![n].stamp = stamp] \in Steps
BY DEF Steps

LEMMA NewStepsTyped ==
    ASSUME TypeInv, NEW c \in Call
    PROVE  NewSteps(c) \in Steps
BY DEF TypeInv, LedgerTypeOK, NewSteps, Steps

LEMMA Typed ==
    ASSUME TypeInv
    PROVE  /\ block \in [Call -> BlockRecord] /\ plan \in [Call -> PlanRecord]
           /\ agent \in AgentRecord /\ gateway \in {"up", "down", "booting"}
           /\ sweep \in [Sweeper -> SweepRecord] /\ mishaps \in 0..MaxMishaps
           /\ struck \subseteq Call \X StepNo /\ issued \subseteq Call \X StepNo
           /\ lost \subseteq Call \X StepNo /\ torn \subseteq Call
BY DEF TypeInv, LedgerTypeOK, BlockRecord, PlanRecord, AgentRecord, SweepRecord

LEMMA InitialsTyped ==
    /\ NoBlock \in BlockRecord /\ NoPlan \in PlanRecord /\ Idle \in AgentRecord
    /\ NoSweep \in SweepRecord /\ NoView \in Views
    /\ Idle.at = "idle" /\ Idle.view = NoView /\ Idle.task = NoCall
<1>1. 0 \in 0..MaxStep
  BY LedgerAssumption
<1>2. NoView \in Views
  BY <1>1 DEF NoView, Views, Kinds
<1> QED BY <1>1, <1>2, StepsTyped DEF NoBlock, NoPlan, Idle, NoSweep, BlockRecord, PlanRecord,
           AgentRecord, SweepRecord, Kinds

----------------------------------------------------------------------------
(* What the actions do to a plan, the agent and a block, field by field. *)

OnlyPlan(c) ==
    /\ plan' \in [Call -> PlanRecord]
    /\ \A d \in Call : d # c => plan'[d] = plan[d]

OnlyBlock(t) ==
    /\ block' \in [Call -> BlockRecord]
    /\ \A u \in Call : u # t => block'[u] = block[u]

LEMMA ToEffect ==
    ASSUME TypeInv, NEW c \in Call, NEW place \in {"header", "steps", "mark"}, To(c, place)
    PROVE  /\ OnlyPlan(c) /\ plan'[c].at = place /\ plan'[c].task = plan[c].task
           /\ plan'[c].prior = plan[c].prior /\ plan'[c].last = plan[c].last
           /\ plan'[c].detached = plan[c].detached /\ plan'[c].copy = plan[c].copy
BY Typed DEF To, OnlyPlan, PlanRecord

LEMMA EndEffect ==
    ASSUME TypeInv, NEW c \in Call, End(c)
    PROVE  /\ OnlyPlan(c) /\ plan'[c].at = "landed" /\ plan'[c].task = plan[c].task
           /\ plan'[c].detached = plan[c].detached
<1> DEFINE gone == Gone(plan[c], "landed")
<1>1. plan \in [Call -> PlanRecord]
  BY Typed
<1>2. plan' = [plan EXCEPT ![c] = gone]
  BY <1>1 DEF End
<1>3. /\ gone \in PlanRecord /\ gone.at = "landed" /\ gone.task = plan[c].task
      /\ gone.detached = plan[c].detached
  BY <1>1, InitialsTyped DEF Gone, NoPlan, PlanRecord
<1> HIDE DEF gone
<1> QED BY <1>1, <1>2, <1>3 DEF OnlyPlan

LEMMA ReturnEffect ==
    ASSUME NEW view \in Views, Return(view)
    PROVE  agent' \in AgentRecord /\ agent'.at = "idle" /\ agent'.view = view
<1>1. Idle \in AgentRecord /\ Idle.at = "idle"
  BY InitialsTyped
<1>2. agent' = [Idle EXCEPT !.view = view]
  BY DEF Return
<1> QED BY <1>1, <1>2 DEF AgentRecord

\* A checkpoint writes back the steps it has read.
LEMMA ReplaceEffect ==
    ASSUME TypeInv, NEW t \in Call, NEW copy \in Steps, NEW status \in {"open", "closed"},
           NEW kind \in Kinds, NEW next \in 0..MaxStep, Replace(t, copy, status, kind, next)
    PROVE  /\ OnlyBlock(t) /\ block'[t].steps = copy
           /\ torn \subseteq torn' /\ torn' \subseteq torn \cup {t}
           /\ t \in torn' <=> t \in torn \/ block[t].steps # copy
<1> DEFINE row == [status |-> status, kind |-> kind, next |-> next, steps |-> copy]
<1>1. row \in BlockRecord /\ row.steps = copy /\ block \in [Call -> BlockRecord]
  BY Typed DEF BlockRecord
<1>2. block' = [block EXCEPT ![t] = row]
  BY DEF Replace
<1> HIDE DEF row
<1>3. OnlyBlock(t) /\ block'[t].steps = copy
  BY <1>1, <1>2 DEF OnlyBlock
<1> QED BY <1>3 DEF Replace, Tear

\* A write of steps alone.
LEMMA StepsEffect ==
    ASSUME TypeInv, NEW t \in Call, NEW steps \in Steps,
           block' = [block EXCEPT ![t].steps = steps]
    PROVE  OnlyBlock(t) /\ block'[t].steps = steps
<1>1. block \in [Call -> BlockRecord]
  BY Typed
<1>2. [block[t] EXCEPT !.steps = steps] \in BlockRecord
  BY <1>1 DEF BlockRecord
<1>3. [block[t] EXCEPT !.steps = steps].steps = steps
  BY <1>1 DEF BlockRecord
<1> QED BY <1>1, <1>2, <1>3 DEF OnlyBlock

LEMMA PlanningEffect ==
    ASSUME TypeInv, NEW c \in Call, NEW t \in Call, NEW prior \in Steps, Planning(c, t, prior)
    PROVE  /\ OnlyPlan(c) /\ plan'[c].at = "asking" /\ plan'[c].task = t /\ plan'[c].prior = prior
           /\ plan'[c].detached = FALSE
           /\ agent' \in AgentRecord /\ agent'.at = "planning" /\ agent'.call = c
           /\ agent'.view = NoView
           /\ UNCHANGED <<block, gateway, sweep, mishaps, struck, issued, lost, torn>>
<1> DEFINE new == [NoPlan EXCEPT !.at = "asking", !.task = t, !.prior = prior]
           busy == [Idle EXCEPT !.at = "planning", !.call = c]
<1>1. /\ new \in PlanRecord /\ new.at = "asking" /\ new.task = t /\ new.prior = prior
      /\ new.detached = FALSE
  BY InitialsTyped DEF NoPlan, PlanRecord
<1>2. busy \in AgentRecord /\ busy.at = "planning" /\ busy.call = c /\ busy.view = NoView
  BY InitialsTyped DEF Idle, AgentRecord
<1>3. plan' = [plan EXCEPT ![c] = new] /\ agent' = busy /\ plan \in [Call -> PlanRecord]
  BY Typed DEF Planning
<1> HIDE DEF new, busy
<1>4. OnlyPlan(c) /\ plan'[c] = new
  BY <1>1, <1>3 DEF OnlyPlan
<1> QED BY <1>1, <1>2, <1>3, <1>4 DEF Planning

\* The agent reads a block: it keeps its view, or drops it.
LEMMA AgentMoves ==
    ASSUME TypeInv,
           NEW at \in {"progress", "strike", "stamp", "checkpoint", "landing", "detached"},
           NEW task \in Call \cup {NoCall}, NEW next \in 0..MaxStep, NEW copy \in Steps,
           \/ agent' = [agent EXCEPT !.at = at]
           \/ agent' = [agent EXCEPT !.at = at, !.copy = copy]
           \/ agent' = [agent EXCEPT !.at = at, !.task = task, !.copy = copy]
           \/ agent' = [agent EXCEPT !.at = at, !.task = task, !.next = next, !.copy = copy]
    PROVE  /\ agent' \in AgentRecord /\ agent'.at = at /\ agent'.call = agent.call
           /\ agent'.view = agent.view
<1>1. agent \in AgentRecord
  BY Typed
<1> QED BY <1>1 DEF AgentRecord

LEMMA TearEffect ==
    ASSUME NEW t, NEW condition, Tear(t, condition)
    PROVE  /\ torn \subseteq torn' /\ torn' \subseteq torn \cup {t}
           /\ condition => t \in torn'
BY DEF Tear

AgentRests == agent' \in AgentRecord /\ agent'.at = "idle" /\ ViewOK(agent'.view)

LEMMA LandedEffect ==
    ASSUME TypeInv, NEW c \in Call, NEW view \in Views, ViewOK(view), Landed(c, view)
    PROVE  /\ OnlyPlan(c) /\ plan'[c].at = "landed" /\ plan'[c].task = plan[c].task
           /\ plan'[c].detached = plan[c].detached
           /\ \/ plan[c].detached /\ agent' = agent
              \/ ~plan[c].detached /\ AgentRests
BY EndEffect, ReturnEffect DEF Landed, AgentRests

LEMMA FirstNewFact ==
    ASSUME TypeInv, NEW c \in Call, plan[c].at \in {"header", "replace", "steps"}
    PROVE  /\ FirstNew(c) \in 1..MaxStep
           /\ [task |-> plan[c].task, kind |-> "step", next |-> FirstNew(c)] \in Views
           /\ plan[c].task \in Call
<1>1. plan[c] \in PlanRecord /\ plan[c].last > Highest(plan[c].prior) /\ plan[c].task \in Call
  BY Typed DEF TypeInv, PlanOK
<1>2. Highest(plan[c].prior) \in 0..MaxStep /\ plan[c].last \in 0..MaxStep /\ MaxStep \in Nat
  BY <1>1, HighestFact, LedgerAssumption DEF PlanRecord
<1>3. FirstNew(c) \in 1..MaxStep
  BY <1>1, <1>2 DEF FirstNew
<1> QED BY <1>1, <1>2, <1>3 DEF Views, Kinds

----------------------------------------------------------------------------
(* The steps of a planner() call. *)

LEMMA WorkerReadyEffect ==
    ASSUME TypeInv, NEW c \in Call, WorkerReady(c)
    PROVE  /\ OnlyPlan(c) /\ plan[c].at = "asking" /\ plan'[c].task = plan[c].task
           /\ plan'[c].prior = plan[c].prior /\ plan'[c].detached = plan[c].detached
           /\ \/ plan'[c].at = "ready" /\ ~plan[c].detached
              \/ plan'[c].at \in {"header", "mark"} /\ plan[c].detached
           /\ PlanOK(c)'
           /\ UNCHANGED <<block, agent, gateway, sweep, mishaps, struck, issued, lost, torn>>
<1>1. plan \in [Call -> PlanRecord] /\ plan[c].at = "asking" /\ plan[c].task \in Call
      /\ UNCHANGED <<block, agent, gateway, sweep, mishaps, struck, issued, lost, torn>>
  BY Typed DEF WorkerReady, PlanAt, TypeInv, PlanOK
<1>2. PICK last \in {0} \cup {n \in StepNo : n > Highest(plan[c].prior)} :
          plan' = [plan EXCEPT ![c].last = last,
                               ![c].at = IF ~plan[c].detached THEN "ready"
                                         ELSE IF last > 0 THEN "header" ELSE "mark"]
  BY DEF WorkerReady
<1> DEFINE at == IF ~plan[c].detached THEN "ready" ELSE IF last > 0 THEN "header" ELSE "mark"
           new == [plan[c] EXCEPT !.last = last, !.at = at]
<1>3. last \in 0..MaxStep /\ (last = 0 \/ last > Highest(plan[c].prior))
  BY <1>2, LedgerAssumption DEF StepNo
<1>4. /\ new \in PlanRecord /\ new.at = at /\ new.last = last /\ new.task = plan[c].task
      /\ new.prior = plan[c].prior /\ new.detached = plan[c].detached
  BY <1>1, <1>3 DEF PlanRecord
<1>5. plan' = [plan EXCEPT ![c] = new]
  BY <1>1, <1>2
<1> HIDE DEF new
<1>6. OnlyPlan(c) /\ plan'[c] = new
  BY <1>1, <1>4, <1>5 DEF OnlyPlan
<1>7. at = "header" => last > Highest(plan[c].prior)
  <2>1. at = "header" => last # 0
    BY <1>3
  <2> QED BY <1>3, <2>1
<1>8. plan[c].detached \in BOOLEAN
  BY <1>1 DEF PlanRecord
<1>9. PlanOK(c)'
  BY <1>1, <1>3, <1>4, <1>6, <1>7, <1>8 DEF PlanOK
<1> QED BY <1>1, <1>4, <1>6, <1>8, <1>9

LEMMA DetachedTyped ==
    ASSUME NEW row \in PlanRecord
    PROVE  LET new == [row EXCEPT !.detached = TRUE] IN
           /\ new \in PlanRecord /\ new.at = row.at /\ new.task = row.task
           /\ new.prior = row.prior /\ new.detached
<1>1. ASSUME NEW flag \in BOOLEAN
      PROVE  LET new == [row EXCEPT !.detached = flag] IN
             /\ new \in PlanRecord /\ new.at = row.at /\ new.task = row.task
             /\ new.prior = row.prior /\ new.detached = flag
  BY DEF PlanRecord
<1> QED BY <1>1

LEMMA WakeEffect ==
    ASSUME TypeInv, NEW c \in Call, Wake(c)
    PROVE  /\ agent.at = "planning" /\ agent.call = c
           /\ OnlyPlan(c) /\ plan'[c].task = plan[c].task
           /\ \/ /\ plan[c].at = "ready" /\ plan[c].last > 0 /\ plan'[c].at = "header"
                 /\ plan'[c].prior = plan[c].prior /\ plan'[c].last = plan[c].last
                 /\ plan'[c].detached = plan[c].detached
                 /\ agent' \in AgentRecord /\ agent'.at = "landing" /\ agent'.call = c
                 /\ agent'.view = agent.view
              \/ /\ plan[c].at = "ready" /\ plan'[c].at = "landed" /\ AgentRests
                 /\ plan'[c].detached = plan[c].detached
              \/ /\ plan[c].at = "asking" /\ plan'[c].at = "asking" /\ plan'[c].detached
                 /\ plan'[c].prior = plan[c].prior
                 /\ agent' \in AgentRecord /\ agent'.at = "detached" /\ agent'.call = c
                 /\ agent'.view = agent.view
           /\ UNCHANGED <<block, gateway, sweep, mishaps, struck, issued, lost, torn>>
<1>1. /\ agent.at = "planning" /\ agent.call = c /\ plan \in [Call -> PlanRecord]
      /\ agent \in AgentRecord
      /\ UNCHANGED <<block, gateway, sweep, mishaps, struck, issued, lost, torn>>
  BY Typed DEF Wake, AgentAt
<1>2. NoSteps \in Steps /\ 0 \in 0..MaxStep
  BY StepsTyped, LedgerAssumption
<1>3. CASE /\ plan[c].at = "ready" /\ plan[c].last > 0 /\ To(c, "header")
           /\ agent' = [agent EXCEPT !.at = "landing"]
  BY <1>1, <1>2, <1>3, ToEffect, AgentMoves
<1>4. CASE plan[c].at = "ready" /\ End(c) /\ Return(NoView)
  BY <1>1, <1>4, EndEffect, ReturnEffect, InitialsTyped DEF AgentRests, ViewOK
<1>5. CASE /\ plan[c].at = "asking" /\ plan' = [plan EXCEPT ![c].detached = TRUE]
           /\ agent' = [agent EXCEPT !.at = "detached"]
  <2> DEFINE new == [plan[c] EXCEPT !.detached = TRUE]
  <2>1. plan[c] \in PlanRecord
    BY <1>1
  <2>2. /\ new \in PlanRecord /\ new.at = plan[c].at /\ new.task = plan[c].task
        /\ new.prior = plan[c].prior /\ new.detached
    BY <2>1, DetachedTyped
  <2>4. plan' = [plan EXCEPT ![c] = new]
    BY <1>1, <1>5
  <2> HIDE DEF new
  <2>5. OnlyPlan(c) /\ plan'[c] = new
    BY <1>1, <2>2, <2>4 DEF OnlyPlan
  <2> QED BY <1>1, <1>2, <1>5, <2>2, <2>5, AgentMoves
<1> QED BY <1>3, <1>4, <1>5 DEF Wake

\* HeaderRead and MarkRead copy the steps.
LEMMA PlanReads ==
    ASSUME TypeInv, NEW c \in Call, HeaderRead(c) \/ MarkRead(c)
    PROVE  /\ OnlyPlan(c) /\ plan'[c].task = plan[c].task /\ plan'[c].prior = plan[c].prior
           /\ plan'[c].last = plan[c].last /\ plan'[c].detached = plan[c].detached
           /\ plan'[c].copy = block[plan[c].task].steps
           /\ \/ plan[c].at = "header" /\ plan'[c].at = "replace"
              \/ plan[c].at = "mark" /\ plan'[c].at = "remark"
           /\ UNCHANGED <<block, agent, gateway, sweep, mishaps, struck, issued, lost, torn>>
<1>1. PICK at \in {"replace", "remark"} :
          /\ plan' = [plan EXCEPT ![c].at = at, ![c].copy = block[plan[c].task].steps]
          /\ plan[c].at = (IF at = "replace" THEN "header" ELSE "mark")
          /\ UNCHANGED <<block, agent, gateway, sweep, mishaps, struck, issued, lost, torn>>
  BY DEF HeaderRead, MarkRead, PlanAt
<1> DEFINE copy == block[plan[c].task].steps
           new == [plan[c] EXCEPT !.at = at, !.copy = copy]
<1>2. plan \in [Call -> PlanRecord] /\ copy \in Steps
  <2>1. plan[c].task \in Call
    BY <1>1 DEF TypeInv, PlanOK
  <2> QED BY <2>1, Typed DEF BlockRecord
<1>3. /\ new \in PlanRecord /\ new.at = at /\ new.task = plan[c].task
      /\ new.prior = plan[c].prior /\ new.last = plan[c].last
      /\ new.detached = plan[c].detached /\ new.copy = copy
  <2> HIDE DEF copy
  <2> QED BY <1>1, <1>2 DEF PlanRecord
<1>4. plan' = [plan EXCEPT ![c] = new]
  BY <1>1, <1>2
<1> HIDE DEF new, copy
<1>5. OnlyPlan(c) /\ plan'[c] = new
  BY <1>2, <1>3, <1>4 DEF OnlyPlan
<1> QED BY <1>1, <1>3, <1>5 DEF copy

\* A checkpoint, or one that fails.
Saves(t, copy) ==
    /\ mishaps' \in 0..MaxMishaps
    /\ torn \subseteq torn' /\ torn' \subseteq torn \cup {t}
    /\ \/ mishaps' = mishaps /\ OnlyBlock(t) /\ block'[t].steps = copy
          /\ (t \in torn' <=> t \in torn \/ block[t].steps # copy)
       \/ mishaps' = mishaps + 1 /\ UNCHANGED <<block, torn>>

LEMMA MishapEffect ==
    ASSUME TypeInv, Mishap
    PROVE  mishaps' = mishaps + 1 /\ mishaps' \in 0..MaxMishaps
BY Typed, LedgerAssumption DEF Mishap

LEMMA SavesEffect ==
    ASSUME TypeInv, NEW t \in Call, NEW copy \in Steps, NEW status \in {"open", "closed"},
           NEW kind \in Kinds, NEW next \in 0..MaxStep,
           \/ Replace(t, copy, status, kind, next) /\ UNCHANGED mishaps
           \/ Mishap /\ UNCHANGED <<block, torn>>
    PROVE  Saves(t, copy)
<1>1. CASE Replace(t, copy, status, kind, next) /\ UNCHANGED mishaps
  <2>1. mishaps' \in 0..MaxMishaps
    BY <1>1, Typed
  <2> QED BY <1>1, <2>1, ReplaceEffect DEF Saves
<1>2. CASE Mishap /\ UNCHANGED <<block, torn>>
  BY <1>2, MishapEffect DEF Saves
<1> QED BY <1>1, <1>2

LEMMA HeaderWriteEffect ==
    ASSUME TypeInv, NEW c \in Call, HeaderWrite(c)
    PROVE  /\ plan[c].at = "replace" /\ OnlyPlan(c) /\ plan'[c].at = "steps"
           /\ plan'[c].task = plan[c].task /\ plan'[c].prior = plan[c].prior
           /\ plan'[c].last = plan[c].last /\ plan'[c].detached = plan[c].detached
           /\ plan[c].task \in Call /\ Saves(plan[c].task, plan[c].copy)
           /\ UNCHANGED <<agent, gateway, sweep, struck, issued, lost>>
<1>1. /\ plan[c].at = "replace" /\ To(c, "steps")
      /\ UNCHANGED <<agent, gateway, sweep, struck, issued, lost>>
  BY DEF HeaderWrite, PlanAt
<1>2. plan[c].task \in Call /\ plan[c].copy \in Steps /\ FirstNew(c) \in 0..MaxStep
  <2>1. plan[c].copy \in Steps
    BY Typed DEF PlanRecord
  <2>2. plan[c].task \in Call /\ FirstNew(c) \in 1..MaxStep
    BY <1>1, FirstNewFact
  <2> QED BY <2>1, <2>2
<1>3. "step" \in Kinds
  BY DEF Kinds
<1>4. Saves(plan[c].task, plan[c].copy)
  BY <1>2, <1>3, SavesEffect DEF HeaderWrite
<1> QED BY <1>1, <1>2, <1>4, ToEffect

\* A plan is landed over what it was made from, or the block is torn.
LandsOn(c, t) ==
    /\ plan[c].at = "steps" /\ plan[c].task = t
    /\ t \in torn' <=> t \in torn \/ DoneSteps(block[t].steps) # plan[c].prior
    /\ block'[t].steps \in {block[t].steps, NewSteps(c)}
    /\ issued' = Forget(issued, t) /\ lost' = Forget(lost, t) /\ struck' = struck

LEMMA StepsWriteEffect ==
    ASSUME TypeInv, NEW c \in Call, StepsWrite(c)
    PROVE  /\ plan[c].at = "steps" /\ plan[c].task \in Call
           /\ OnlyPlan(c) /\ plan'[c].at = "landed" /\ plan'[c].task = plan[c].task
           /\ plan'[c].detached = plan[c].detached
           /\ \/ plan[c].detached /\ agent' = agent
              \/ ~plan[c].detached /\ AgentRests
           /\ OnlyBlock(plan[c].task) /\ LandsOn(c, plan[c].task)
           /\ torn \subseteq torn' /\ torn' \subseteq torn \cup {plan[c].task}
           /\ UNCHANGED <<gateway, sweep, mishaps, struck>>
<1> DEFINE t == plan[c].task
           view == [task |-> t, kind |-> "step", next |-> FirstNew(c)]
<1>1. plan[c].at = "steps" /\ UNCHANGED <<gateway, sweep, mishaps, struck>>
  BY DEF StepsWrite, PlanAt
<1>2. t \in Call /\ view \in Views
  BY <1>1, FirstNewFact
<1>3. ViewOK(view)
  BY <1>2 DEF ViewOK
<1>4. Landed(c, view)
  BY DEF StepsWrite
<1>5. /\ OnlyPlan(c) /\ plan'[c].at = "landed" /\ plan'[c].task = t
      /\ plan'[c].detached = plan[c].detached
      /\ \/ plan[c].detached /\ agent' = agent
         \/ ~plan[c].detached /\ AgentRests
  <2> HIDE DEF view
  <2> QED BY <1>2, <1>3, <1>4, LandedEffect
<1>6. OnlyBlock(t) /\ block'[t].steps \in {block[t].steps, NewSteps(c)}
  <2>1. CASE block[t].status = "absent"
    <3>1. block' = block
      BY <2>1 DEF StepsWrite
    <3> QED BY <3>1, Typed DEF OnlyBlock
  <2>2. CASE block[t].status # "absent"
    <3>1. block' = [block EXCEPT ![t].steps = NewSteps(c)]
      BY <2>2 DEF StepsWrite
    <3> QED BY <1>2, <3>1, NewStepsTyped, StepsEffect
  <2> QED BY <2>1, <2>2
<1>7. Tear(t, DoneSteps(block[t].steps) # plan[c].prior)
      /\ issued' = Forget(issued, t) /\ lost' = Forget(lost, t)
  BY DEF StepsWrite
<1>8. /\ torn \subseteq torn' /\ torn' \subseteq torn \cup {t}
      /\ t \in torn' <=> t \in torn \/ DoneSteps(block[t].steps) # plan[c].prior
  BY <1>7 DEF Tear
<1> QED BY <1>1, <1>2, <1>5, <1>6, <1>7, <1>8 DEF LandsOn

LEMMA StepsFailEffect ==
    ASSUME TypeInv, NEW c \in Call, StepsFail(c)
    PROVE  /\ plan[c].at = "steps" /\ plan[c].task \in Call
           /\ OnlyPlan(c) /\ plan'[c].task = plan[c].task /\ plan'[c].detached = plan[c].detached
           /\ \/ plan[c].detached /\ agent' = agent /\ plan'[c].at = "mark"
              \/ ~plan[c].detached /\ AgentRests /\ plan'[c].at = "landed"
           /\ mishaps' = mishaps + 1 /\ mishaps' \in 0..MaxMishaps
           /\ torn' = torn \cup {plan[c].task}
           /\ UNCHANGED <<block, gateway, sweep, struck, issued, lost>>
<1>1. /\ plan[c].at = "steps" /\ Mishap /\ Tear(plan[c].task, TRUE)
      /\ UNCHANGED <<block, gateway, sweep, struck, issued, lost>>
  BY DEF StepsFail, PlanAt
<1>2. plan[c].task \in Call
  BY <1>1, FirstNewFact
<1>3. torn' = torn \cup {plan[c].task}
  BY <1>1 DEF Tear
<1>4. CASE plan[c].detached
  <2>1. To(c, "mark") /\ UNCHANGED agent
    BY <1>4 DEF StepsFail
  <2> QED BY <1>1, <1>2, <1>3, <1>4, <2>1, ToEffect, MishapEffect
<1>5. CASE ~plan[c].detached
  <2>1. Landed(c, NoView)
    BY <1>5 DEF StepsFail
  <2>2. NoView \in Views /\ ViewOK(NoView)
    BY InitialsTyped DEF ViewOK
  <2> QED BY <1>1, <1>2, <1>3, <1>5, <2>1, <2>2, LandedEffect, MishapEffect
<1> QED BY <1>4, <1>5

LEMMA MarkWriteEffect ==
    ASSUME TypeInv, NEW c \in Call, MarkWrite(c)
    PROVE  /\ plan[c].at = "remark" /\ OnlyPlan(c) /\ plan'[c].at = "landed"
           /\ plan'[c].task = plan[c].task /\ plan'[c].detached = plan[c].detached
           /\ plan[c].task \in Call /\ Saves(plan[c].task, plan[c].copy)
           /\ UNCHANGED <<agent, gateway, sweep, struck, issued, lost>>
<1>1. plan[c].at = "remark" /\ End(c) /\ UNCHANGED <<agent, gateway, sweep, struck, issued, lost>>
  BY DEF MarkWrite, PlanAt
<1>2. plan[c].task \in Call /\ plan[c].copy \in Steps /\ 0 \in 0..MaxStep /\ "unavailable" \in Kinds
  BY <1>1, Typed, LedgerAssumption DEF PlanRecord, TypeInv, PlanOK, Kinds
<1>3. Saves(plan[c].task, plan[c].copy)
  BY <1>2, SavesEffect DEF MarkWrite
<1> QED BY <1>1, <1>2, <1>3, EndEffect

----------------------------------------------------------------------------
(* The steps of the agent. *)

LEMMA AgentTyped ==
    ASSUME TypeInv
    PROVE  /\ agent \in AgentRecord /\ agent.view \in Views /\ ViewOK(agent.view)
           /\ agent.view.next \in 0..MaxStep /\ agent.copy \in Steps
           /\ \A t \in Call : block[t].steps \in Steps /\ block[t].kind \in Kinds
                              /\ block[t].next \in 0..MaxStep
BY Typed DEF AgentRecord, BlockRecord, TypeInv, AgentInv, Views

\* PlannerNew and PlannerRevise start a plan of a block, with its completed steps.
Starts(c, t) ==
    /\ agent.at = "idle" /\ plan[c].at = "unused"
    /\ OnlyPlan(c) /\ plan'[c].at = "asking" /\ plan'[c].task = t
    /\ plan'[c].detached = FALSE
    /\ \/ t = c /\ plan'[c].prior = NoSteps
       \/ t = agent.view.task /\ plan'[c].prior = DoneSteps(block[t].steps)
    /\ agent' \in AgentRecord /\ agent'.at = "planning" /\ agent'.call = c
    /\ agent'.view = NoView
    /\ UNCHANGED <<block, gateway, sweep, mishaps, struck, issued, lost, torn>>

LEMMA PlannerEffect ==
    ASSUME TypeInv, NEW c \in Call, PlannerNew(c) \/ PlannerRevise(c)
    PROVE  \E t \in Call : Starts(c, t)
<1>1. CASE PlannerNew(c)
  BY <1>1, PlanningEffect, StepsTyped DEF Starts, PlannerNew, AgentAt
<1>2. CASE PlannerRevise(c)
  <2> DEFINE t == agent.view.task
             prior == DoneSteps(block[t].steps)
  <2>1. t \in Call
    BY <1>2, AgentTyped DEF PlannerRevise, ViewOK, NoView
  <2>2. prior \in Steps
    BY <2>1, AgentTyped, StepsTyped
  <2>3. agent.at = "idle" /\ plan[c].at = "unused" /\ Planning(c, t, prior)
    BY <1>2 DEF PlannerRevise, AgentAt
  <2> HIDE DEF t, prior
  <2>4. /\ OnlyPlan(c) /\ plan'[c].at = "asking" /\ plan'[c].task = t
        /\ plan'[c].prior = prior /\ plan'[c].detached = FALSE
        /\ agent' \in AgentRecord /\ agent'.at = "planning" /\ agent'.call = c
        /\ agent'.view = NoView
        /\ UNCHANGED <<block, gateway, sweep, mishaps, struck, issued, lost, torn>>
    BY <2>1, <2>2, <2>3, PlanningEffect
  <2> QED BY <2>1, <2>3, <2>4 DEF t, prior, Starts
<1> QED BY <1>1, <1>2

\* The reading half of a call: what the agent goes on with.
LEMMA ResumeReadEffect ==
    ASSUME TypeInv, NEW t \in Call, ResumeRead(t)
    PROVE  /\ agent.at = "idle"
           /\ \/ AgentRests
              \/ /\ agent' \in AgentRecord /\ agent'.at = "resume" /\ agent'.task = t
                 /\ agent'.next \in StepNo /\ ViewOK(agent'.view)
                 /\ block[t].steps[agent'.next].stamp # "interrupted"
           /\ UNCHANGED <<block, plan, gateway, sweep, mishaps, struck, issued, lost, torn>>
<1> DEFINE view == [task |-> t, kind |-> block[t].kind, next |-> block[t].next]
           next == FirstPending(block[t].steps)
<1>1. agent.at = "idle" /\ UNCHANGED <<block, plan, gateway, sweep, mishaps, struck, issued, lost, torn>>
  BY DEF ResumeRead, AgentAt
<1>2. view \in Views /\ ViewOK(view)
  BY AgentTyped DEF Views, ViewOK
<1>3. CASE NeedsStamp(block[t])
  <2>1. agent' = [Idle EXCEPT !.at = "resume", !.task = t, !.next = next, !.view = view]
    BY <1>3 DEF ResumeRead
  <2>2. next \in 0..MaxStep
    BY AgentTyped, FirstPendingFact
  <2>3. next # 0 /\ block[t].steps[next].stamp # "interrupted"
    BY <1>3 DEF NeedsStamp
  <2> HIDE DEF next, view
  <2>4. next \in StepNo
    BY <2>2, <2>3, LedgerAssumption DEF StepNo
  <2>5. /\ agent' \in AgentRecord /\ agent'.at = "resume" /\ agent'.task = t /\ agent'.next = next
        /\ agent'.view = view
    BY <1>2, <2>1, <2>2, InitialsTyped DEF AgentRecord
  <2> QED BY <1>1, <1>2, <2>3, <2>4, <2>5
<1>4. CASE ~NeedsStamp(block[t])
  <2>1. Return(view)
    BY <1>4 DEF ResumeRead
  <2> HIDE DEF view
  <2> QED BY <1>1, <1>2, <2>1, ReturnEffect DEF AgentRests
<1> QED BY <1>3, <1>4

LEMMA StrikeReadEffect ==
    ASSUME TypeInv, StrikeRead
    PROVE  /\ agent.at = "idle" /\ agent' \in AgentRecord /\ agent'.at = "strike"
           /\ agent'.task \in Call /\ agent'.next \in StepNo /\ agent'.view = agent.view
           /\ agent'.task = agent.view.task
           /\ agent'.copy = block[agent'.task].steps
           /\ agent'.copy[agent'.next].state \in {"pending", "failed"}
           /\ UNCHANGED <<block, plan, gateway, sweep, mishaps, struck, issued, lost, torn>>
<1> DEFINE t == agent.view.task
           n == agent.view.next
           copy == block[t].steps
<1>1. agent' = [agent EXCEPT !.at = "strike", !.task = t, !.next = n, !.copy = copy]
  BY DEF StrikeRead
<1>2. /\ agent.at = "idle" /\ n # 0 /\ copy[n].state \in {"pending", "failed"}
      /\ UNCHANGED <<block, plan, gateway, sweep, mishaps, struck, issued, lost, torn>>
  BY DEF StrikeRead, AgentAt
<1>3. t \in Call
  BY <1>2, AgentTyped DEF ViewOK, NoView
<1>4. n \in 0..MaxStep /\ copy \in Steps /\ agent \in AgentRecord
  BY <1>3, AgentTyped
<1> HIDE DEF t, n, copy
<1>5. n \in StepNo
  BY <1>2, <1>4, LedgerAssumption DEF StepNo
<1>6. /\ agent' \in AgentRecord /\ agent'.at = "strike" /\ agent'.task = t /\ agent'.next = n
      /\ agent'.copy = copy /\ agent'.view = agent.view
  BY <1>1, <1>3, <1>4 DEF AgentRecord
<1> QED BY <1>2, <1>3, <1>5, <1>6 DEF copy, t

LEMMA StampReadEffect ==
    ASSUME TypeInv, StampRead
    PROVE  /\ agent.at = "resume" /\ agent' \in AgentRecord /\ agent'.at = "stamp"
           /\ agent'.task = agent.task /\ agent'.next = agent.next /\ agent'.view = agent.view
           /\ agent.task \in Call /\ agent.next \in StepNo
           /\ agent'.copy = block[agent.task].steps
           /\ UNCHANGED <<block, plan, gateway, sweep, mishaps, struck, issued, lost, torn>>
<1> DEFINE copy == block[agent.task].steps
<1>1. /\ agent.at = "resume" /\ agent' = [agent EXCEPT !.at = "stamp", !.copy = copy]
      /\ UNCHANGED <<block, plan, gateway, sweep, mishaps, struck, issued, lost, torn>>
  BY DEF StampRead, AgentAt
<1>2. agent.task \in Call /\ agent.next \in StepNo
  BY <1>1 DEF TypeInv, AgentInv
<1>3. copy \in Steps /\ agent \in AgentRecord
  BY <1>2, AgentTyped
<1> HIDE DEF copy
<1>4. /\ agent' \in AgentRecord /\ agent'.at = "stamp" /\ agent'.task = agent.task
      /\ agent'.next = agent.next /\ agent'.copy = copy /\ agent'.view = agent.view
  BY <1>1, <1>3 DEF AgentRecord
<1> QED BY <1>1, <1>2, <1>4 DEF copy

LEMMA CheckpointReadEffect ==
    ASSUME TypeInv, CheckpointRead
    PROVE  /\ agent.at = "idle" /\ agent' \in AgentRecord /\ agent'.at = "checkpoint"
           /\ agent'.task \in Call /\ agent'.view = agent.view
           /\ agent'.task = agent.view.task
           /\ agent'.copy = block[agent'.task].steps
           /\ UNCHANGED <<block, plan, gateway, sweep, mishaps, struck, issued, lost, torn>>
<1> DEFINE t == agent.view.task
           copy == block[t].steps
<1>1. /\ agent.at = "idle" /\ t # NoCall
      /\ agent' = [agent EXCEPT !.at = "checkpoint", !.task = t, !.copy = copy]
      /\ UNCHANGED <<block, plan, gateway, sweep, mishaps, struck, issued, lost, torn>>
  BY DEF CheckpointRead, AgentAt
<1>2. t \in Call
  BY <1>1, AgentTyped DEF ViewOK, NoView
<1>3. copy \in Steps /\ agent \in AgentRecord
  BY <1>2, AgentTyped
<1> HIDE DEF t, copy
<1>4. /\ agent' \in AgentRecord /\ agent'.at = "checkpoint" /\ agent'.task = t
      /\ agent'.copy = copy /\ agent'.view = agent.view
  BY <1>1, <1>2, <1>3 DEF AgentRecord
<1> QED BY <1>1, <1>2, <1>4 DEF copy, t

LEMMA ProgressReadEffect ==
    ASSUME TypeInv, ProgressRead
    PROVE  /\ agent.at = "detached" /\ agent' \in AgentRecord /\ agent'.at = "progress"
           /\ agent'.call = agent.call /\ agent'.view = agent.view
           /\ UNCHANGED <<block, plan, gateway, sweep, mishaps, struck, issued, lost, torn>>
<1> DEFINE copy == block[plan[agent.call].task].steps
<1>1. /\ agent.at = "detached" /\ agent' = [agent EXCEPT !.at = "progress", !.copy = copy]
      /\ UNCHANGED <<block, plan, gateway, sweep, mishaps, struck, issued, lost, torn>>
  BY DEF ProgressRead, AgentAt
<1>2. agent.call \in Call /\ plan[agent.call].task \in Call
  BY <1>1 DEF TypeInv, AgentInv, PlanOK
<1>3. copy \in Steps /\ agent \in AgentRecord
  BY <1>2, AgentTyped
<1> HIDE DEF copy
<1> QED BY <1>1, <1>3 DEF AgentRecord

LEMMA HandoffEffect ==
    ASSUME TypeInv, Handoff
    PROVE  /\ agent.at = "idle" /\ AgentRests
           /\ UNCHANGED <<block, plan, gateway, sweep, mishaps, struck, issued, lost, torn>>
BY ReturnEffect, InitialsTyped DEF Handoff, AgentAt, AgentRests, ViewOK

\* The writing half: the agent's own checkpoint, and the one of a call that detached.
LEMMA CheckpointWriteEffect ==
    ASSUME TypeInv, NEW status \in {"open", "closed"}, CheckpointWrite(status)
    PROVE  /\ agent.at = "checkpoint" /\ AgentRests
           /\ agent.task \in Call /\ Saves(agent.task, agent.copy)
           /\ UNCHANGED <<plan, gateway, sweep, struck, issued, lost>>
<1> DEFINE next == IF status = "open" THEN agent.view.next ELSE 0
<1>1. agent.at = "checkpoint" /\ UNCHANGED <<plan, gateway, sweep, struck, issued, lost>>
  BY DEF CheckpointWrite, AgentAt
<1>2. /\ agent.task \in Call /\ agent.copy \in Steps /\ "own" \in Kinds
      /\ agent.view.next \in 0..MaxStep /\ 0 \in 0..MaxStep
  BY <1>1, AgentTyped, LedgerAssumption DEF TypeInv, AgentInv, Kinds
<1>3. next \in 0..MaxStep
  BY <1>2
<1>4. \/ Replace(agent.task, agent.copy, status, "own", next) /\ UNCHANGED mishaps
      \/ Mishap /\ UNCHANGED <<block, torn>>
  BY DEF CheckpointWrite
<1>5. Return(IF status = "open" THEN agent.view ELSE NoView)
  BY DEF CheckpointWrite
<1> HIDE DEF next
<1>6. Saves(agent.task, agent.copy)
  BY <1>2, <1>3, <1>4, SavesEffect
<1>7. AgentRests
  <2>1. /\ agent.view \in Views /\ ViewOK(agent.view) /\ NoView \in Views /\ ViewOK(NoView)
    BY AgentTyped, InitialsTyped DEF ViewOK
  <2>2. CASE status = "open"
    BY <1>5, <2>1, <2>2, ReturnEffect DEF AgentRests
  <2>3. CASE status # "open"
    BY <1>5, <2>1, <2>3, ReturnEffect DEF AgentRests
  <2> QED BY <2>2, <2>3
<1> QED BY <1>1, <1>2, <1>6, <1>7

LEMMA ProgressWriteEffect ==
    ASSUME TypeInv, ProgressWrite
    PROVE  /\ agent.at = "progress" /\ AgentRests /\ agent.call \in Call
           /\ plan[agent.call].task \in Call /\ Saves(plan[agent.call].task, agent.copy)
           /\ UNCHANGED <<plan, gateway, sweep, struck, issued, lost>>
<1> DEFINE t == plan[agent.call].task
           view == [task |-> t, kind |-> "progress", next |-> 0]
<1>1. agent.at = "progress" /\ Return(view) /\ UNCHANGED <<plan, gateway, sweep, struck, issued, lost>>
  BY DEF ProgressWrite, AgentAt
<1>2. \/ Replace(t, agent.copy, "open", "progress", 0) /\ UNCHANGED mishaps
      \/ Mishap /\ UNCHANGED <<block, torn>>
  BY DEF ProgressWrite
<1>3. agent.call \in Call /\ t \in Call
  BY <1>1 DEF TypeInv, AgentInv, PlanOK
<1>4. agent.copy \in Steps /\ "progress" \in Kinds /\ 0 \in 0..MaxStep
  BY AgentTyped, LedgerAssumption DEF Kinds
<1>5. view \in Views /\ ViewOK(view)
  BY <1>3, <1>4 DEF Views, ViewOK
<1> HIDE DEF view, t
<1>6. Saves(t, agent.copy)
  BY <1>2, <1>3, <1>4, SavesEffect
<1>7. AgentRests
  BY <1>1, <1>5, ReturnEffect DEF AgentRests
<1> QED BY <1>1, <1>3, <1>6, <1>7 DEF t

LEMMA StrikeWriteEffect ==
    ASSUME TypeInv, NEW failed \in BOOLEAN, StrikeWrite(failed)
    PROVE  LET t == agent.task  n == agent.next IN
           /\ agent.at = "strike" /\ AgentRests /\ t \in Call /\ n \in StepNo
           /\ UNCHANGED <<plan, gateway, sweep>>
           /\ torn \subseteq torn' /\ torn' \subseteq torn \cup {t} /\ mishaps' \in 0..MaxMishaps
           /\ \/ mishaps' = mishaps + 1 /\ UNCHANGED <<block, torn, struck, issued, lost>>
              \/ /\ mishaps' = mishaps /\ OnlyBlock(t)
                 /\ block'[t].steps = [agent.copy EXCEPT ![n].state =
                                           IF failed THEN "failed" ELSE "done"]
                 /\ t \in torn' <=> t \in torn \/ agent.copy # block[t].steps
                 /\ struck' = IF failed THEN struck ELSE struck \cup {<<t, n>>}
                 /\ issued' = issued \ {<<t, n>>} /\ lost' = lost \ {<<t, n>>}
<1> DEFINE t == agent.task
           n == agent.next
           steps == [agent.copy EXCEPT ![n].state = IF failed THEN "failed" ELSE "done"]
           kind  == AfterStrike(failed, steps)
           next  == IF kind = "step" THEN FirstPending(steps) ELSE 0
           status == IF kind = "complete" THEN "closed" ELSE "open"
           view == [task |-> t, kind |-> kind, next |-> next]
           row == [block[t] EXCEPT !.steps = steps, !.kind = kind, !.next = next, !.status = status]
<1>1. agent.at = "strike" /\ UNCHANGED <<plan, gateway, sweep>>
  BY DEF StrikeWrite, AgentAt
<1>2. t \in Call /\ n \in StepNo /\ agent.copy \in Steps
  BY <1>1, AgentTyped DEF TypeInv, AgentInv
<1>3. steps \in Steps
  BY <1>2, ChangedTyped
<1>4. kind \in Kinds /\ status \in {"open", "closed"}
  BY DEF AfterStrike, Kinds
<1>5. FirstPending(steps) \in 0..MaxStep /\ 0 \in 0..MaxStep
  <2> HIDE DEF steps
  <2> QED BY <1>3, FirstPendingFact, LedgerAssumption
<1>6. next \in 0..MaxStep
  BY <1>5
<1>7. CASE /\ block' = [block EXCEPT ![t].steps = steps, ![t].kind = kind, ![t].next = next,
                                     ![t].status = status]
           /\ Tear(t, agent.copy # block[t].steps)
           /\ struck' = (IF failed THEN struck ELSE struck \cup {<<t, n>>})
           /\ issued' = issued \ {<<t, n>>} /\ lost' = lost \ {<<t, n>>}
           /\ Return(view) /\ UNCHANGED mishaps
  <2>1. block \in [Call -> BlockRecord] /\ block[t] \in BlockRecord
    BY <1>2, Typed
  <2>2. block' = [block EXCEPT ![t] = row]
    <3> HIDE DEF steps, kind, next, status
    <3> QED BY <1>7, <2>1
  <2> HIDE DEF kind, next, status
  <2>3. row \in BlockRecord /\ row.steps = steps
    <3> HIDE DEF steps
    <3> QED BY <1>3, <1>4, <1>6, <2>1 DEF BlockRecord
  <2> HIDE DEF row
  <2>4. OnlyBlock(t) /\ block'[t].steps = steps
    BY <2>1, <2>2, <2>3, <1>2 DEF OnlyBlock
  <2>5. view \in Views /\ ViewOK(view)
    BY <1>2, <1>4, <1>6 DEF Views, ViewOK
  <2>6. AgentRests
    <3> HIDE DEF view
    <3> QED BY <1>7, <2>5, ReturnEffect DEF AgentRests
  <2>7. mishaps' \in 0..MaxMishaps /\ mishaps' = mishaps
    BY <1>7, Typed
  <2>8. /\ torn \subseteq torn' /\ torn' \subseteq torn \cup {t}
        /\ (t \in torn' <=> t \in torn \/ agent.copy # block[t].steps)
    BY <1>7 DEF Tear
  <2> QED BY <1>1, <1>2, <1>7, <2>4, <2>6, <2>7, <2>8
<1>8. CASE /\ Mishap /\ Return(agent.view) /\ UNCHANGED <<block, torn, struck, issued, lost>>
  <2>1. AgentRests
    BY <1>8, AgentTyped, ReturnEffect DEF AgentRests
  <2> HIDE DEF steps
  <2> QED BY <1>1, <1>2, <1>8, <2>1, MishapEffect
<1>9. \/ /\ block' = [block EXCEPT ![t].steps = steps, ![t].kind = kind, ![t].next = next,
                                   ![t].status = status]
         /\ Tear(t, agent.copy # block[t].steps)
         /\ struck' = (IF failed THEN struck ELSE struck \cup {<<t, n>>})
         /\ issued' = issued \ {<<t, n>>} /\ lost' = lost \ {<<t, n>>}
         /\ Return(view) /\ UNCHANGED mishaps
      \/ /\ Mishap /\ Return(agent.view) /\ UNCHANGED <<block, torn, struck, issued, lost>>
  BY DEF StrikeWrite
<1> QED BY <1>7, <1>8, <1>9

LEMMA StampWriteEffect ==
    ASSUME TypeInv, StampWrite
    PROVE  LET t == agent.task  n == agent.next IN
           /\ agent.at = "stamp" /\ AgentRests /\ t \in Call /\ n \in StepNo
           /\ UNCHANGED <<plan, gateway, sweep, struck, lost>>
           /\ torn \subseteq torn' /\ torn' \subseteq torn \cup {t} /\ mishaps' \in 0..MaxMishaps
           /\ \/ mishaps' \in {mishaps, mishaps + 1} /\ UNCHANGED <<block, torn, issued>>
              \/ /\ mishaps' = mishaps /\ OnlyBlock(t)
                 /\ block'[t].steps = [agent.copy EXCEPT ![n].stamp = "issued"]
                 /\ t \in torn' <=> t \in torn \/ agent.copy # block[t].steps
                 /\ issued' = issued \cup {<<t, n>>}
<1> DEFINE t == agent.task
           n == agent.next
           steps == [agent.copy EXCEPT ![n].stamp = "issued"]
<1>1. agent.at = "stamp" /\ Return(agent.view) /\ UNCHANGED <<plan, gateway, sweep, struck, lost>>
  BY DEF StampWrite, AgentAt
<1>2. t \in Call /\ n \in StepNo /\ agent.copy \in Steps
  BY <1>1, AgentTyped DEF TypeInv, AgentInv
<1>3. steps \in Steps
  BY <1>2, ChangedTyped
<1>4. AgentRests
  BY <1>1, AgentTyped, ReturnEffect DEF AgentRests
<1>5. mishaps \in 0..MaxMishaps
  BY Typed
<1>6. CASE /\ block' = [block EXCEPT ![t].steps = steps] /\ Tear(t, agent.copy # block[t].steps)
           /\ issued' = issued \cup {<<t, n>>} /\ UNCHANGED mishaps
  <2>1. OnlyBlock(t) /\ block'[t].steps = steps
    <3> HIDE DEF steps
    <3> QED BY <1>2, <1>3, <1>6, StepsEffect
  <2>2. /\ torn \subseteq torn' /\ torn' \subseteq torn \cup {t}
        /\ (t \in torn' <=> t \in torn \/ agent.copy # block[t].steps)
    BY <1>6 DEF Tear
  <2> QED BY <1>1, <1>2, <1>4, <1>5, <1>6, <2>1, <2>2
<1>7. CASE (UNCHANGED mishaps \/ Mishap) /\ UNCHANGED <<block, torn, issued>>
  <2> HIDE DEF steps
  <2> QED BY <1>1, <1>2, <1>4, <1>5, <1>7, MishapEffect
<1>8. \/ /\ block' = [block EXCEPT ![t].steps = steps] /\ Tear(t, agent.copy # block[t].steps)
         /\ issued' = issued \cup {<<t, n>>} /\ UNCHANGED mishaps
      \/ (UNCHANGED mishaps \/ Mishap) /\ UNCHANGED <<block, torn, issued>>
  BY DEF StampWrite
<1> QED BY <1>6, <1>7, <1>8

----------------------------------------------------------------------------
(* Death and startup. *)

LEMMA CrashEffect ==
    ASSUME TypeInv, Crash
    PROVE  /\ plan' \in [Call -> PlanRecord] /\ sweep' \in [Sweeper -> SweepRecord]
           /\ \A c \in Call : /\ plan'[c].at \in {"unused", "landed", "dead"}
                              /\ plan'[c].at = "unused" <=> plan[c].at = "unused"
                              /\ plan'[c].task = plan[c].task
                              /\ plan'[c].detached = plan[c].detached
           /\ agent' = Idle /\ gateway' = "down"
           /\ mishaps' = mishaps + 1 /\ mishaps' \in 0..MaxMishaps
           /\ lost' = lost \cup issued /\ issued' = {}
           /\ torn \subseteq torn' /\ torn' \subseteq Call
           /\ UNCHANGED <<block, struck>>
<1>1. plan \in [Call -> PlanRecord] /\ sweep \in [Sweeper -> SweepRecord] /\ torn \subseteq Call
  BY Typed
<1>2. plan' = [c \in Call |-> IF plan[c].at \in {"unused", "landed"} THEN plan[c]
                              ELSE Gone(plan[c], "dead")]
  BY DEF Crash
<1>3. \A row \in PlanRecord : LET gone == Gone(row, "dead") IN
          gone \in PlanRecord /\ gone.at = "dead" /\ gone.task = row.task /\ gone.detached = row.detached
  BY InitialsTyped DEF Gone, NoPlan, PlanRecord
<1>4. plan' \in [Call -> PlanRecord]
  BY <1>1, <1>2, <1>3
<1>5. ASSUME NEW c \in Call
      PROVE  /\ plan'[c].at \in {"unused", "landed", "dead"}
             /\ plan'[c].at = "unused" <=> plan[c].at = "unused"
             /\ plan'[c].task = plan[c].task /\ plan'[c].detached = plan[c].detached
  BY <1>1, <1>2, <1>3
<1>6. sweep' \in [Sweeper -> SweepRecord]
  BY <1>1, InitialsTyped DEF Crash
<1>7. Mishap
  BY DEF Crash
<1> QED BY <1>1, <1>4, <1>5, <1>6, <1>7, MishapEffect DEF Crash

LEMMA SweepEffect ==
    ASSUME TypeInv, NEW s \in Sweeper, Sweep(s)
    PROVE  /\ sweep' \in [Sweeper -> SweepRecord]
           /\ \A r \in Sweeper : r # s => sweep'[r] = sweep[r]
           /\ sweep'[s].todo = {t \in Call : Stamped(block[t].steps) # {}}
<1> DEFINE todo == {t \in Call : Stamped(block[t].steps) # {}}
           copy == [t \in Call |-> IF t \in todo THEN block[t].steps ELSE NoSteps]
           row == [copy |-> copy, todo |-> todo, missed |-> {}]
<1>1. copy \in [Call -> Steps]
  BY AgentTyped, StepsTyped
<1>2. sweep' = [sweep EXCEPT ![s] = row] /\ sweep \in [Sweeper -> SweepRecord]
  BY Typed DEF Sweep
<1>3. row \in SweepRecord /\ row.todo = todo
  <2> HIDE DEF copy
  <2> QED BY <1>1 DEF SweepRecord
<1> HIDE DEF row
<1> QED BY <1>2, <1>3

LEMMA SweepWriteEffect ==
    ASSUME TypeInv, NEW s \in Sweeper, NEW t \in Call, SweepWrite(s, t)
    PROVE  /\ OnlyBlock(t) /\ block'[t].steps = Interrupted(sweep[s].copy[t])
           /\ torn \subseteq torn' /\ torn' \subseteq torn \cup {t}
           /\ t \in torn' \/ sweep[s].copy[t] = block[t].steps
           /\ sweep' \in [Sweeper -> SweepRecord] /\ t \in sweep[s].todo
           /\ \A r \in Sweeper : r # s => sweep'[r] = sweep[r]
           /\ sweep'[s].todo = sweep[s].todo \ {t} /\ sweep'[s].missed = sweep[s].missed
           /\ UNCHANGED <<plan, agent, gateway, mishaps, struck, issued, lost>>
<1> DEFINE copy == [sweep[s].copy EXCEPT ![t] = NoSteps]
           row == [sweep[s] EXCEPT !.copy = copy, !.todo = sweep[s].todo \ {t}]
<1>1. /\ sweep \in [Sweeper -> SweepRecord] /\ sweep[s].copy \in [Call -> Steps]
      /\ sweep[s].todo \subseteq Call /\ sweep[s].missed \subseteq Call /\ sweep[s] \in SweepRecord
  BY Typed DEF SweepRecord
<1>2. /\ row \in SweepRecord
      /\ row.todo = sweep[s].todo \ {t} /\ row.missed = sweep[s].missed
  <2>1. copy \in [Call -> Steps] /\ sweep[s].todo \ {t} \in SUBSET Call
    BY <1>1, StepsTyped
  <2> HIDE DEF copy
  <2> QED BY <1>1, <2>1, Zenon DEF SweepRecord
<1>4. sweep' = [sweep EXCEPT ![s] = row] /\ t \in sweep[s].todo
      /\ UNCHANGED <<plan, agent, gateway, mishaps, struck, issued, lost>>
  BY DEF SweepWrite
<1> HIDE DEF row
<1>5. Interrupted(sweep[s].copy[t]) \in Steps
  BY <1>1, StepsTyped
<1>6. block' = [block EXCEPT ![t].steps = Interrupted(sweep[s].copy[t])]
  BY DEF SweepWrite
<1>7. OnlyBlock(t) /\ block'[t].steps = Interrupted(sweep[s].copy[t])
  BY <1>5, <1>6, StepsEffect
<1>8. /\ torn \subseteq torn' /\ torn' \subseteq torn \cup {t}
      /\ t \in torn' \/ sweep[s].copy[t] = block[t].steps
  BY DEF SweepWrite, Tear
<1>9. /\ sweep' \in [Sweeper -> SweepRecord] /\ sweep'[s] = row
      /\ \A r \in Sweeper : r # s => sweep'[r] = sweep[r]
  BY <1>1, <1>2, <1>4
<1> QED BY <1>2, <1>4, <1>7, <1>8, <1>9

LEMMA SweepFailEffect ==
    ASSUME TypeInv, NEW s \in Sweeper, SweepFail(s)
    PROVE  /\ sweep' \in [Sweeper -> SweepRecord]
           /\ \A r \in Sweeper : r # s => sweep'[r] = sweep[r]
           /\ sweep'[s].missed = sweep[s].todo
           /\ mishaps' = mishaps + 1 /\ mishaps' \in 0..MaxMishaps
           /\ UNCHANGED <<block, plan, agent, gateway, struck, issued, lost, torn>>
<1> DEFINE row == [NoSweep EXCEPT !.missed = sweep[s].todo]
<1>1. sweep \in [Sweeper -> SweepRecord] /\ sweep[s].todo \subseteq Call
  BY Typed DEF SweepRecord
<1>2. row \in SweepRecord /\ row.missed = sweep[s].todo
  BY <1>1, InitialsTyped DEF SweepRecord, NoSweep
<1>3. sweep' = [sweep EXCEPT ![s] = row] /\ Mishap
  BY DEF SweepFail
<1> HIDE DEF row
<1> QED BY <1>1, <1>2, <1>3, MishapEffect DEF SweepFail

----------------------------------------------------------------------------
(* The type invariant. *)

LEMMA TypeFromParts ==
    ASSUME block' \in [Call -> BlockRecord], plan' \in [Call -> PlanRecord],
           agent' \in AgentRecord, gateway' \in {"up", "down", "booting"},
           sweep' \in [Sweeper -> SweepRecord], mishaps' \in 0..MaxMishaps,
           struck' \subseteq Call \X StepNo, issued' \subseteq Call \X StepNo,
           lost' \subseteq Call \X StepNo, torn' \subseteq Call
    PROVE  LedgerTypeOK'
BY DEF LedgerTypeOK, BlockRecord, PlanRecord, AgentRecord, SweepRecord

LEMMA IdleAgent ==
    ASSUME AgentRests
    PROVE  AgentInv'
BY DEF AgentRests, AgentInv

LEMMA AgentKept ==
    ASSUME TypeInv, agent' = agent,
           \A c \in Call : plan[c].at # "unused" => plan'[c].at # "unused"
    PROVE  AgentInv'
BY DEF TypeInv, AgentInv

LEMMA PlansKept ==
    ASSUME TypeInv, plan' = plan
    PROVE  \A c \in Call : PlanOK(c)'
BY DEF TypeInv, PlanOK

LEMMA PlanMoved ==
    ASSUME TypeInv, NEW c \in Call, OnlyPlan(c), PlanOK(c)'
    PROVE  \A d \in Call : PlanOK(d)'
<1>1. ASSUME NEW d \in Call, d # c
      PROVE  PlanOK(d)'
  BY <1>1 DEF OnlyPlan, TypeInv, PlanOK
<1> QED BY <1>1

LEMMA OnlyPlanKeeps ==
    ASSUME NEW c \in Call, OnlyPlan(c), plan'[c].at # "unused"
    PROVE  \A d \in Call : plan[d].at # "unused" => plan'[d].at # "unused"
BY DEF OnlyPlan

LEMMA SavesTyped ==
    ASSUME TypeInv, NEW t \in Call, NEW copy \in Steps, Saves(t, copy)
    PROVE  /\ block' \in [Call -> BlockRecord] /\ mishaps' \in 0..MaxMishaps /\ torn' \subseteq Call
BY Typed DEF Saves, OnlyBlock

LEMMA PlanTypeStep ==
    ASSUME TypeInv, NEW c \in Call, PlanStep(c)
    PROVE  TypeInv'
<1>0. plan[c].at # "unused" => plan[c].task \in Call
  BY DEF TypeInv, PlanOK
<1>1. CASE WorkerReady(c)
  <2>1. plan'[c].at # "unused" /\ agent' = agent
    BY <1>1, WorkerReadyEffect
  <2>2. LedgerTypeOK'
    BY <1>1, WorkerReadyEffect, Typed, TypeFromParts DEF OnlyPlan
  <2>3. AgentInv'
    BY <1>1, <2>1, WorkerReadyEffect, OnlyPlanKeeps, AgentKept
  <2>4. \A d \in Call : PlanOK(d)'
    BY <1>1, WorkerReadyEffect, PlanMoved
  <2> QED BY <2>2, <2>3, <2>4 DEF TypeInv
<1>2. CASE Wake(c)
  <2>1. /\ OnlyPlan(c) /\ plan'[c].task = plan[c].task /\ plan'[c].at # "unused"
        /\ plan[c].at \in {"ready", "asking"} /\ plan'[c].at \in {"header", "landed", "asking"}
        /\ UNCHANGED <<block, gateway, sweep, mishaps, struck, issued, lost, torn>>
        /\ agent' \in AgentRecord
    BY <1>2, WakeEffect DEF AgentRests
  <2>2. LedgerTypeOK'
    BY <2>1, Typed, TypeFromParts DEF OnlyPlan
  <2>3. AgentInv'
    <3>1. CASE AgentRests
      BY <3>1, IdleAgent
    <3>2. CASE ~AgentRests
      <4>1. agent'.at \in {"landing", "detached"} /\ agent'.call = c /\ agent'.view = agent.view
        BY <1>2, <3>2, WakeEffect
      <4>2. ViewOK(agent.view)
        BY AgentTyped
      <4> QED BY <2>1, <4>1, <4>2 DEF AgentInv
    <3> QED BY <3>1, <3>2
  <2>4. PlanOK(c)'
    <3>1. plan'[c].at = "header" => plan'[c].last > Highest(plan'[c].prior)
      <4>1. SUFFICES ASSUME plan'[c].at = "header"
                     PROVE  plan'[c].last > Highest(plan'[c].prior)
        OBVIOUS
      <4>2. /\ plan[c].at = "ready" /\ plan[c].last > 0
            /\ plan'[c].prior = plan[c].prior /\ plan'[c].last = plan[c].last
        BY <1>2, <4>1, WakeEffect
      <4>3. plan[c].last = 0 \/ plan[c].last > Highest(plan[c].prior)
        BY <4>2 DEF TypeInv, PlanOK
      <4> QED BY <4>2, <4>3
    <3> QED BY <1>0, <2>1, <3>1 DEF PlanOK
  <2> QED BY <2>1, <2>2, <2>3, <2>4, PlanMoved DEF TypeInv
<1>3. CASE HeaderRead(c) \/ MarkRead(c)
  <2>1. /\ OnlyPlan(c) /\ plan'[c].task = plan[c].task /\ plan'[c].prior = plan[c].prior
        /\ plan'[c].last = plan[c].last
        /\ \/ plan[c].at = "header" /\ plan'[c].at = "replace"
           \/ plan[c].at = "mark" /\ plan'[c].at = "remark"
        /\ UNCHANGED <<block, agent, gateway, sweep, mishaps, struck, issued, lost, torn>>
    BY <1>3, PlanReads
  <2>2. LedgerTypeOK'
    BY <2>1, Typed, TypeFromParts DEF OnlyPlan
  <2>3. AgentInv'
    BY <2>1, OnlyPlanKeeps, AgentKept
  <2>4. PlanOK(c)'
    BY <2>1 DEF TypeInv, PlanOK
  <2> QED BY <2>1, <2>2, <2>3, <2>4, PlanMoved DEF TypeInv
<1>4. CASE HeaderWrite(c)
  <2>1. /\ plan[c].at = "replace" /\ OnlyPlan(c) /\ plan'[c].at = "steps"
        /\ plan'[c].task = plan[c].task /\ plan'[c].prior = plan[c].prior
        /\ plan'[c].last = plan[c].last
        /\ plan[c].task \in Call /\ Saves(plan[c].task, plan[c].copy)
        /\ UNCHANGED <<agent, gateway, sweep, struck, issued, lost>>
    BY <1>4, HeaderWriteEffect
  <2>2. plan[c].copy \in Steps
    BY Typed DEF PlanRecord
  <2>3. LedgerTypeOK'
    BY <2>1, <2>2, SavesTyped, Typed, TypeFromParts DEF OnlyPlan
  <2>4. AgentInv'
    BY <2>1, OnlyPlanKeeps, AgentKept
  <2>5. PlanOK(c)'
    BY <2>1 DEF TypeInv, PlanOK
  <2> QED BY <2>1, <2>3, <2>4, <2>5, PlanMoved DEF TypeInv
<1>5. CASE StepsWrite(c)
  <2> DEFINE t == plan[c].task
  <2>1. /\ t \in Call /\ OnlyPlan(c) /\ plan'[c].at = "landed" /\ plan'[c].task = t
        /\ agent' = agent \/ AgentRests
        /\ OnlyBlock(t) /\ LandsOn(c, t) /\ torn' \subseteq torn \cup {t}
        /\ UNCHANGED <<gateway, sweep, mishaps, struck>>
    BY <1>5, StepsWriteEffect
  <2>2. issued' \subseteq issued /\ lost' \subseteq lost
    BY <2>1 DEF LandsOn, Forget
  <2>3. agent' \in AgentRecord
    BY <2>1, Typed DEF AgentRests
  <2>4. LedgerTypeOK'
    BY <2>1, <2>2, <2>3, Typed, TypeFromParts DEF OnlyPlan, OnlyBlock
  <2>5. AgentInv'
    BY <2>1, OnlyPlanKeeps, AgentKept, IdleAgent
  <2>6. PlanOK(c)'
    BY <2>1 DEF PlanOK
  <2> QED BY <2>1, <2>4, <2>5, <2>6, PlanMoved DEF TypeInv
<1>6. CASE StepsFail(c)
  <2> DEFINE t == plan[c].task
  <2>1. /\ t \in Call /\ OnlyPlan(c) /\ plan'[c].at \in {"mark", "landed"} /\ plan'[c].task = t
        /\ agent' = agent \/ AgentRests
        /\ mishaps' \in 0..MaxMishaps /\ torn' = torn \cup {t}
        /\ UNCHANGED <<block, gateway, sweep, struck, issued, lost>>
    BY <1>6, StepsFailEffect
  <2>2. agent' \in AgentRecord
    BY <2>1, Typed DEF AgentRests
  <2>3. LedgerTypeOK'
    BY <2>1, <2>2, Typed, TypeFromParts DEF OnlyPlan
  <2>4. AgentInv'
    BY <2>1, OnlyPlanKeeps, AgentKept, IdleAgent
  <2>5. PlanOK(c)'
    BY <2>1 DEF PlanOK
  <2> QED BY <2>1, <2>3, <2>4, <2>5, PlanMoved DEF TypeInv
<1>7. CASE MarkWrite(c)
  <2>1. /\ OnlyPlan(c) /\ plan'[c].at = "landed" /\ plan'[c].task = plan[c].task
        /\ plan[c].task \in Call /\ Saves(plan[c].task, plan[c].copy)
        /\ UNCHANGED <<agent, gateway, sweep, struck, issued, lost>>
    BY <1>7, MarkWriteEffect
  <2>2. plan[c].copy \in Steps
    BY Typed DEF PlanRecord
  <2>3. LedgerTypeOK'
    BY <2>1, <2>2, SavesTyped, Typed, TypeFromParts DEF OnlyPlan
  <2>4. AgentInv'
    BY <2>1, OnlyPlanKeeps, AgentKept
  <2>5. PlanOK(c)'
    BY <2>1 DEF PlanOK
  <2> QED BY <2>1, <2>3, <2>4, <2>5, PlanMoved DEF TypeInv
<1> QED BY <1>1, <1>2, <1>3, <1>4, <1>5, <1>6, <1>7 DEF PlanStep

\* A step of the agent leaves the plans alone, except for one that starts.
LEMMA AgentTypeStep ==
    ASSUME TypeInv, AgentStep \/ ProgressRead \/ ProgressWrite
    PROVE  TypeInv'
<1>1. CASE \E c \in Call : PlannerNew(c) \/ PlannerRevise(c)
  <2>1. PICK c \in Call : PlannerNew(c) \/ PlannerRevise(c)
    BY <1>1
  <2>2. PICK t \in Call :
           /\ OnlyPlan(c) /\ plan'[c].at = "asking" /\ plan'[c].task = t
           /\ agent' \in AgentRecord /\ agent'.at = "planning" /\ agent'.call = c
           /\ agent'.view = NoView
           /\ UNCHANGED <<block, gateway, sweep, mishaps, struck, issued, lost, torn>>
    BY <2>1, PlannerEffect DEF Starts
  <2>3. LedgerTypeOK'
    BY <2>2, Typed, TypeFromParts DEF OnlyPlan
  <2>4. AgentInv'
    BY <2>2 DEF AgentInv, ViewOK
  <2>5. PlanOK(c)'
    BY <2>2 DEF PlanOK
  <2> QED BY <2>2, <2>3, <2>4, <2>5, PlanMoved DEF TypeInv
<1>2. CASE \/ \E c \in Call : ResumeRead(c)
           \/ StrikeRead \/ CheckpointRead \/ Handoff \/ StampRead \/ ProgressRead
  <2>1. /\ agent' \in AgentRecord
        /\ UNCHANGED <<block, plan, gateway, sweep, mishaps, struck, issued, lost, torn>>
    BY <1>2, ResumeReadEffect, StrikeReadEffect, CheckpointReadEffect, HandoffEffect,
       StampReadEffect, ProgressReadEffect DEF AgentRests
  <2>2. LedgerTypeOK'
    BY <2>1, Typed, TypeFromParts
  <2>3. AgentInv'
    <3>1. CASE \E c \in Call : ResumeRead(c)
      <4>1. PICK c \in Call : ResumeRead(c)
        BY <3>1
      <4> QED BY <4>1, ResumeReadEffect, IdleAgent DEF AgentInv
    <3>2. CASE StrikeRead
      BY <3>2, StrikeReadEffect, AgentTyped DEF AgentInv
    <3>3. CASE CheckpointRead
      BY <3>3, CheckpointReadEffect, AgentTyped DEF AgentInv
    <3>4. CASE Handoff
      BY <3>4, HandoffEffect, IdleAgent
    <3>5. CASE StampRead
      BY <3>5, StampReadEffect, AgentTyped DEF AgentInv
    <3>6. CASE ProgressRead
      <4>1. /\ agent.at = "detached" /\ agent'.at = "progress" /\ agent'.call = agent.call
            /\ agent'.view = agent.view /\ plan' = plan
        BY <3>6, ProgressReadEffect
      <4>2. agent.call \in Call /\ plan[agent.call].at # "unused" /\ ViewOK(agent.view)
        BY <4>1 DEF TypeInv, AgentInv
      <4> QED BY <4>1, <4>2 DEF AgentInv
    <3> QED BY <1>2, <3>1, <3>2, <3>3, <3>4, <3>5, <3>6
  <2> QED BY <2>1, <2>2, <2>3, PlansKept DEF TypeInv
<1>3. CASE \/ ProgressWrite \/ \E failed \in BOOLEAN : StrikeWrite(failed)
           \/ StampWrite \/ \E status \in {"open", "closed"} : CheckpointWrite(status)
  <2>0. agent.copy \in Steps
    BY AgentTyped
  <2>1. AgentRests /\ UNCHANGED <<plan, gateway, sweep>>
    BY <1>3, ProgressWriteEffect, StrikeWriteEffect, StampWriteEffect, CheckpointWriteEffect
  <2>2. /\ block' \in [Call -> BlockRecord] /\ mishaps' \in 0..MaxMishaps /\ torn' \subseteq Call
        /\ struck' \subseteq Call \X StepNo /\ issued' \subseteq Call \X StepNo
        /\ lost' \subseteq Call \X StepNo
    <3>1. CASE ProgressWrite
      BY <2>0, <3>1, ProgressWriteEffect, SavesTyped, Typed
    <3>2. CASE \E failed \in BOOLEAN : StrikeWrite(failed)
      <4>1. PICK failed \in BOOLEAN : StrikeWrite(failed)
        BY <3>2
      <4>2. block' \in [Call -> BlockRecord] /\ mishaps' \in 0..MaxMishaps /\ torn' \subseteq Call
        BY <4>1, StrikeWriteEffect, Typed DEF OnlyBlock
      <4>3. /\ struck' \subseteq Call \X StepNo /\ issued' \subseteq issued /\ lost' \subseteq lost
        <5> DEFINE h == <<agent.task, agent.next>>
        <5>1. /\ h \in Call \X StepNo
              /\ struck' \in {struck, struck \cup {h}}
              /\ issued' \in {issued, issued \ {h}} /\ lost' \in {lost, lost \ {h}}
          BY <4>1, StrikeWriteEffect
        <5> HIDE DEF h
        <5> QED BY <5>1, Typed
      <4> QED BY <4>2, <4>3, Typed
    <3>3. CASE StampWrite
      BY <3>3, StampWriteEffect, Typed DEF OnlyBlock
    <3>4. CASE \E status \in {"open", "closed"} : CheckpointWrite(status)
      BY <2>0, <3>4, CheckpointWriteEffect, SavesTyped, Typed
    <3> QED BY <1>3, <3>1, <3>2, <3>3, <3>4
  <2>3. LedgerTypeOK'
    BY <2>1, <2>2, Typed, TypeFromParts DEF AgentRests
  <2> QED BY <2>1, <2>3, IdleAgent, PlansKept DEF TypeInv
<1> QED BY <1>1, <1>2, <1>3 DEF AgentStep

LEMMA ProcessTypeStep ==
    ASSUME TypeInv, ProcessStep
    PROVE  TypeInv'
<1>1. CASE Crash
  <2>1. LedgerTypeOK'
    BY <1>1, CrashEffect, Typed, InitialsTyped, TypeFromParts
  <2>2. AgentInv'
    BY <1>1, CrashEffect, InitialsTyped DEF AgentInv, ViewOK
  <2>3. ASSUME NEW c \in Call
        PROVE  PlanOK(c)'
    BY <1>1, CrashEffect DEF TypeInv, PlanOK
  <2> QED BY <2>1, <2>2, <2>3 DEF TypeInv
<1>2. CASE \/ Boot \/ BootDone \/ HelperStarts
           \/ \E s \in Sweeper : SweepFail(s) \/ \E t \in Call : SweepWrite(s, t)
  <2>1. plan' = plan /\ agent' = agent
    BY <1>2 DEF Boot, BootDone, HelperStarts, SweepFail, SweepWrite
  <2>2. "gateway" \in Sweeper /\ "helper" \in Sweeper
    BY DEF Sweeper
  <2>3. LedgerTypeOK'
    <3>1. CASE Boot
      <4>1. sweep' \in [Sweeper -> SweepRecord]
        BY <3>1, <2>2, SweepEffect DEF Boot
      <4> QED BY <3>1, <4>1, Typed, TypeFromParts DEF Boot
    <3>2. CASE BootDone
      BY <3>2, Typed, TypeFromParts DEF BootDone
    <3>3. CASE HelperStarts
      <4>1. sweep' \in [Sweeper -> SweepRecord] /\ mishaps' \in 0..MaxMishaps
        BY <3>3, <2>2, SweepEffect, MishapEffect DEF HelperStarts
      <4> QED BY <3>3, <4>1, Typed, TypeFromParts DEF HelperStarts
    <3>4. CASE \E s \in Sweeper, t \in Call : SweepWrite(s, t)
      <4>1. PICK s \in Sweeper, t \in Call : SweepWrite(s, t)
        BY <3>4
      <4> QED BY <4>1, SweepWriteEffect, Typed, TypeFromParts DEF OnlyBlock
    <3>5. CASE \E s \in Sweeper : SweepFail(s)
      BY <3>5, SweepFailEffect, Typed, TypeFromParts
    <3> QED BY <1>2, <3>1, <3>2, <3>3, <3>4, <3>5
  <2> QED BY <2>1, <2>3, AgentKept, PlansKept DEF TypeInv
<1> QED BY <1>1, <1>2 DEF ProcessStep

LEMMA TypeStep == TypeInv /\ [LedgerNext]_ledgerVars => TypeInv'
<1> SUFFICES ASSUME TypeInv, [LedgerNext]_ledgerVars
             PROVE  TypeInv'
  OBVIOUS
<1>1. CASE UNCHANGED ledgerVars
  <2>1. LedgerTypeOK'
    BY <1>1, Typed, TypeFromParts DEF ledgerVars
  <2> QED BY <1>1, <2>1, AgentKept, PlansKept DEF ledgerVars, TypeInv
<1> QED BY <1>1, PlanTypeStep, AgentTypeStep, ProcessTypeStep DEF LedgerNext

LEMMA TypeInit == LedgerInit => TypeInv
<1> SUFFICES ASSUME LedgerInit
             PROVE  TypeInv
  OBVIOUS
<1>1. /\ block \in [Call -> BlockRecord] /\ plan \in [Call -> PlanRecord]
      /\ agent \in AgentRecord /\ gateway = "up" /\ sweep \in [Sweeper -> SweepRecord]
      /\ mishaps \in 0..MaxMishaps /\ struck = {} /\ issued = {} /\ lost = {} /\ torn = {}
      /\ agent.at = "idle" /\ agent.view = NoView
      /\ \A c \in Call : plan[c].at = "unused"
  <2>1. NoPlan.at = "unused" /\ 0 \in 0..MaxMishaps
    BY LedgerAssumption DEF NoPlan
  <2> QED BY <2>1, InitialsTyped DEF LedgerInit
<1>2. LedgerTypeOK
  BY <1>1 DEF LedgerTypeOK, BlockRecord, PlanRecord, AgentRecord, SweepRecord
<1> QED BY <1>1, <1>2 DEF TypeInv, AgentInv, ViewOK, PlanOK

\* The variables have their types, in every state.
THEOREM TypeCorrect == LedgerSpec => []LedgerTypeOK
<1>1. TypeInv => LedgerTypeOK
  BY DEF TypeInv
<1> QED BY TypeInit, TypeStep, <1>1, PTL DEF LedgerSpec

----------------------------------------------------------------------------
(* The hand-off. *)

\* Whose call the agent waits in, or lands itself; and what has its own thread for that.
Hand(c) ==
    LET waits == agent.at = "planning" /\ agent.call = c
        lands == agent.at = "landing" /\ agent.call = c
    IN
    /\ plan[c].at = "asking" => (plan[c].detached <=> ~waits)
    /\ plan[c].at = "ready" => ~plan[c].detached /\ waits
    /\ plan[c].at \in {"header", "replace", "steps", "mark", "remark"} => (plan[c].detached <=> ~lands)
    /\ waits => plan[c].at \in {"asking", "ready"}
    /\ lands => plan[c].at \in {"header", "replace", "steps"}

HandInv == \A c \in Call : Hand(c)

LEMMA DetachedFlag ==
    ASSUME TypeInv, NEW c \in Call
    PROVE  plan[c].detached \in BOOLEAN
BY Typed DEF PlanRecord

\* What is neither waited for nor landed by the agent stays so when its plan does not move.
LEMMA HandKept ==
    ASSUME HandInv, NEW c \in Call, plan'[c] = plan[c],
           agent' = agent \/ /\ ~(agent.at \in {"planning", "landing"} /\ agent.call = c)
                             /\ ~(agent'.at \in {"planning", "landing"} /\ agent'.call = c)
    PROVE  Hand(c)'
BY DEF HandInv, Hand

LEMMA HandPlanStep ==
    ASSUME TypeInv, TypeInv', HandInv, NEW c \in Call, PlanStep(c)
    PROVE  HandInv'
<1>0. /\ plan[c].detached \in BOOLEAN /\ Hand(c)
  BY DetachedFlag DEF HandInv
<1>a. ASSUME OnlyPlan(c), Hand(c)',
             agent' = agent \/ /\ agent.at \in {"planning", "landing"} /\ agent.call = c
                               /\ agent'.at \in {"planning", "landing"} => agent'.call = c
      PROVE  HandInv'
  <2>1. ASSUME NEW d \in Call, d # c
        PROVE  Hand(d)'
    BY <1>a, <2>1, HandKept DEF OnlyPlan
  <2> QED BY <1>a, <2>1 DEF HandInv
<1>1. CASE WorkerReady(c)
  <2>1. /\ OnlyPlan(c) /\ plan[c].at = "asking" /\ plan'[c].detached = plan[c].detached
        /\ \/ plan'[c].at = "ready" /\ ~plan[c].detached
           \/ plan'[c].at \in {"header", "mark"} /\ plan[c].detached
        /\ agent' = agent
    BY <1>1, WorkerReadyEffect
  <2>2. Hand(c)'
    BY <1>0, <2>1 DEF Hand
  <2> QED BY <1>a, <2>1, <2>2
<1>2. CASE Wake(c)
  <2>1. /\ agent.at = "planning" /\ agent.call = c /\ OnlyPlan(c)
        /\ \/ /\ plan[c].at = "ready" /\ plan'[c].at = "header"
              /\ plan'[c].detached = plan[c].detached
              /\ agent'.at = "landing" /\ agent'.call = c
           \/ /\ plan[c].at = "ready" /\ plan'[c].at = "landed" /\ agent'.at = "idle"
           \/ /\ plan[c].at = "asking" /\ plan'[c].at = "asking" /\ plan'[c].detached
              /\ agent'.at = "detached"
    BY <1>2, WakeEffect DEF AgentRests
  <2>2. Hand(c)'
    BY <1>0, <2>1 DEF Hand
  <2> QED BY <1>a, <2>1, <2>2
<1>3. CASE HeaderRead(c) \/ MarkRead(c)
  <2>1. /\ OnlyPlan(c) /\ plan'[c].detached = plan[c].detached
        /\ \/ plan[c].at = "header" /\ plan'[c].at = "replace"
           \/ plan[c].at = "mark" /\ plan'[c].at = "remark"
        /\ agent' = agent
    BY <1>3, PlanReads
  <2>2. Hand(c)'
    BY <1>0, <2>1 DEF Hand
  <2> QED BY <1>a, <2>1, <2>2
<1>4. CASE HeaderWrite(c)
  <2>1. /\ OnlyPlan(c) /\ plan'[c].detached = plan[c].detached
        /\ plan[c].at = "replace" /\ plan'[c].at = "steps" /\ agent' = agent
    BY <1>4, HeaderWriteEffect
  <2>2. Hand(c)'
    BY <1>0, <2>1 DEF Hand
  <2> QED BY <1>a, <2>1, <2>2
<1>5. CASE StepsWrite(c) \/ StepsFail(c)
  <2>1. /\ plan[c].at = "steps" /\ OnlyPlan(c) /\ plan'[c].detached = plan[c].detached
        /\ \/ plan[c].detached /\ agent' = agent /\ plan'[c].at \in {"landed", "mark"}
           \/ ~plan[c].detached /\ agent'.at = "idle" /\ plan'[c].at = "landed"
    BY <1>5, StepsWriteEffect, StepsFailEffect DEF AgentRests
  <2>2. ~plan[c].detached => agent.at = "landing" /\ agent.call = c
    BY <1>0, <2>1 DEF Hand
  <2>3. Hand(c)'
    BY <1>0, <2>1 DEF Hand
  <2> QED BY <1>a, <2>1, <2>2, <2>3
<1>6. CASE MarkWrite(c)
  <2>1. /\ plan[c].at = "remark" /\ OnlyPlan(c) /\ plan'[c].at = "landed" /\ agent' = agent
    BY <1>6, MarkWriteEffect
  <2>2. Hand(c)'
    BY <1>0, <2>1 DEF Hand
  <2> QED BY <1>a, <2>1, <2>2
<1> QED BY <1>1, <1>2, <1>3, <1>4, <1>5, <1>6 DEF PlanStep

LEMMA HandStep == TypeInv /\ TypeInv' /\ HandInv /\ [LedgerNext]_ledgerVars => HandInv'
<1> SUFFICES ASSUME TypeInv, TypeInv', HandInv, [LedgerNext]_ledgerVars
             PROVE  HandInv'
  OBVIOUS
<1>1. CASE \E c \in Call : PlanStep(c)
  BY <1>1, HandPlanStep
<1>2. CASE \E c \in Call : PlannerNew(c) \/ PlannerRevise(c)
  <2>1. PICK c \in Call : PlannerNew(c) \/ PlannerRevise(c)
    BY <1>2
  <2>2. /\ agent.at = "idle" /\ OnlyPlan(c) /\ plan'[c].at = "asking"
        /\ plan'[c].detached = FALSE /\ agent'.at = "planning" /\ agent'.call = c
    BY <2>1, PlannerEffect DEF Starts
  <2>3. Hand(c)'
    BY <2>2 DEF Hand
  <2>4. ASSUME NEW d \in Call, d # c
        PROVE  Hand(d)'
    BY <2>2, <2>4, HandKept DEF OnlyPlan
  <2> QED BY <2>3, <2>4 DEF HandInv
<1>3. CASE Crash
  <2>1. /\ \A c \in Call : plan'[c].at \in {"unused", "landed", "dead"}
        /\ agent'.at = "idle"
    BY <1>3, CrashEffect, InitialsTyped
  <2> QED BY <2>1 DEF HandInv, Hand
<1>4. CASE \/ ProgressRead \/ ProgressWrite \/ UNCHANGED ledgerVars
           \/ \E c \in Call : ResumeRead(c)
           \/ StrikeRead \/ CheckpointRead \/ Handoff \/ StampRead \/ StampWrite
           \/ \E failed \in BOOLEAN : StrikeWrite(failed)
           \/ \E status \in {"open", "closed"} : CheckpointWrite(status)
           \/ Boot \/ BootDone \/ HelperStarts
           \/ \E s \in Sweeper : SweepFail(s) \/ \E t \in Call : SweepWrite(s, t)
  <2>1. /\ plan' = plan
        /\ agent' = agent \/ /\ agent.at \notin {"planning", "landing"}
                             /\ agent'.at \notin {"planning", "landing"}
    <3>1. CASE \/ UNCHANGED ledgerVars \/ Boot \/ BootDone \/ HelperStarts
               \/ \E s \in Sweeper : SweepFail(s) \/ \E t \in Call : SweepWrite(s, t)
      BY <3>1 DEF ledgerVars, Boot, BootDone, HelperStarts, SweepFail, SweepWrite
    <3>2. CASE \/ ProgressRead \/ \E c \in Call : ResumeRead(c)
               \/ StrikeRead \/ CheckpointRead \/ Handoff \/ StampRead
      BY <3>2, ProgressReadEffect, ResumeReadEffect, StrikeReadEffect, CheckpointReadEffect,
         HandoffEffect, StampReadEffect DEF AgentRests
    <3>3. CASE \/ ProgressWrite \/ StampWrite
               \/ \E failed \in BOOLEAN : StrikeWrite(failed)
               \/ \E status \in {"open", "closed"} : CheckpointWrite(status)
      BY <3>3, ProgressWriteEffect, StampWriteEffect, StrikeWriteEffect, CheckpointWriteEffect
         DEF AgentRests
    <3> QED BY <1>4, <3>1, <3>2, <3>3
  <2>2. ASSUME NEW c \in Call
        PROVE  Hand(c)'
    BY <2>1, HandKept
  <2> QED BY <2>2 DEF HandInv
<1> QED BY <1>1, <1>2, <1>3, <1>4 DEF LedgerNext, AgentStep, ProcessStep

\* A plan is landed by one thread and never by none, in every interleaving of the planner()
\* call and its worker.
THEOREM LandedByOne == LedgerSpec => []OneLander
<1>1. LedgerInit => HandInv
  <2>1. NoPlan.at = "unused" /\ Idle.at = "idle"
    BY DEF NoPlan, Idle
  <2> QED BY <2>1 DEF LedgerInit, HandInv, Hand
<1>2. HandInv => OneLander
  BY DEF HandInv, Hand, OneLander
<1>3. TypeInv /\ HandInv /\ [LedgerNext]_ledgerVars => TypeInv' /\ HandInv'
  BY TypeStep, HandStep
<1> QED BY TypeInit, <1>1, <1>2, <1>3, PTL DEF LedgerSpec

----------------------------------------------------------------------------
(* What happens to the steps in the ledger. *)

\* A step that writes back what is there, or tears the block.
Quiet ==
    /\ torn \subseteq torn'
    /\ \A t \in Call : t \in torn' \/ block'[t].steps = block[t].steps
    /\ UNCHANGED <<gateway, sweep, struck, issued, lost>>

\* What the agent has in hand comes from the reading half of a call.
HandsEmpty == agent' = agent \/ agent'.at \notin {"strike", "resume", "stamp"}

LEMMA SavesQuiet ==
    ASSUME TypeInv, NEW t \in Call, NEW copy \in Steps, Saves(t, copy),
           UNCHANGED <<gateway, sweep, struck, issued, lost>>
    PROVE  Quiet
BY DEF Saves, OnlyBlock, Quiet

LEMMA StillQuiet ==
    ASSUME UNCHANGED <<block, gateway, sweep, struck, issued, lost>>, torn \subseteq torn'
    PROVE  Quiet
BY DEF Quiet

LEMMA QuietPlan ==
    ASSUME TypeInv, NEW c \in Call, PlanStep(c), ~StepsWrite(c)
    PROVE  Quiet /\ HandsEmpty
<1>1. CASE WorkerReady(c) \/ HeaderRead(c) \/ MarkRead(c)
  BY <1>1, WorkerReadyEffect, PlanReads, StillQuiet DEF HandsEmpty
<1>2. CASE Wake(c)
  BY <1>2, WakeEffect, StillQuiet DEF HandsEmpty, AgentRests
<1>3. CASE StepsFail(c)
  BY <1>3, StepsFailEffect, StillQuiet DEF HandsEmpty, AgentRests
<1>4. CASE HeaderWrite(c) \/ MarkWrite(c)
  <2>1. plan[c].copy \in Steps
    BY Typed DEF PlanRecord
  <2> QED BY <1>4, <2>1, HeaderWriteEffect, MarkWriteEffect, SavesQuiet DEF HandsEmpty
<1> QED BY <1>1, <1>2, <1>3, <1>4 DEF PlanStep

Reads == StrikeRead \/ StampRead \/ \E t \in Call : ResumeRead(t)

LEMMA QuietReads ==
    ASSUME TypeInv, Reads
    PROVE  Quiet
BY StrikeReadEffect, StampReadEffect, ResumeReadEffect, StillQuiet DEF Reads

Others ==
    \/ UNCHANGED ledgerVars
    \/ \E c \in Call : PlanStep(c) /\ ~StepsWrite(c)
    \/ \E c \in Call : PlannerNew(c) \/ PlannerRevise(c)
    \/ CheckpointRead \/ Handoff \/ ProgressRead \/ ProgressWrite
    \/ \E status \in {"open", "closed"} : CheckpointWrite(status)

LEMMA QuietOthers ==
    ASSUME TypeInv, Others
    PROVE  Quiet /\ HandsEmpty
<1>1. CASE UNCHANGED ledgerVars
  BY <1>1, StillQuiet DEF ledgerVars, HandsEmpty
<1>2. CASE \E c \in Call : PlanStep(c) /\ ~StepsWrite(c)
  BY <1>2, QuietPlan
<1>3. CASE \E c \in Call : PlannerNew(c) \/ PlannerRevise(c)
  BY <1>3, PlannerEffect, StillQuiet DEF Starts, HandsEmpty
<1>4. CASE CheckpointRead \/ Handoff \/ ProgressRead
  BY <1>4, CheckpointReadEffect, HandoffEffect, ProgressReadEffect, StillQuiet
     DEF HandsEmpty, AgentRests
<1>5. CASE ProgressWrite \/ \E status \in {"open", "closed"} : CheckpointWrite(status)
  BY <1>5, AgentTyped, ProgressWriteEffect, CheckpointWriteEffect, SavesQuiet
     DEF HandsEmpty, AgentRests
<1> QED BY <1>1, <1>2, <1>3, <1>4, <1>5 DEF Others

Startup == Boot \/ BootDone \/ HelperStarts \/ \E s \in Sweeper : SweepFail(s)

LEMMA NextCases ==
    ASSUME [LedgerNext]_ledgerVars
    PROVE  \/ Others \/ Reads \/ Startup \/ Crash \/ StampWrite
           \/ \E c \in Call : StepsWrite(c)
           \/ \E failed \in BOOLEAN : StrikeWrite(failed)
           \/ \E s \in Sweeper, t \in Call : SweepWrite(s, t)
BY DEF LedgerNext, AgentStep, ProcessStep, Others, Reads, Startup

\* Steps that were done when a plan was made are in what it lands.
LEMMA NewStepsKeep ==
    ASSUME TypeInv, NEW c \in Call, NEW n \in StepNo, plan[c].prior[n].state # "absent"
    PROVE  NewSteps(c)[n] = plan[c].prior[n]
<1>1. plan[c].prior \in Steps
  BY Typed DEF PlanRecord
<1>2. n =< Highest(plan[c].prior) /\ Highest(plan[c].prior) \in 0..MaxStep
  BY <1>1, HighestFact
<1>3. ~(n > Highest(plan[c].prior))
  BY <1>2, LedgerAssumption DEF StepNo
<1> QED BY <1>3 DEF NewSteps

LEMMA LandsKeeps ==
    ASSUME TypeInv, NEW c \in Call, NEW t \in Call, LandsOn(c, t), NEW n \in StepNo,
           block[t].steps[n].state = "done"
    PROVE  t \in torn' \/ block'[t].steps[n].state = "done"
<1> SUFFICES ASSUME t \notin torn'
             PROVE  block'[t].steps[n].state = "done"
  OBVIOUS
<1>1. DoneSteps(block[t].steps) = plan[c].prior /\ block'[t].steps \in {block[t].steps, NewSteps(c)}
  BY DEF LandsOn
<1>2. plan[c].prior[n] = block[t].steps[n]
  BY <1>1 DEF DoneSteps
<1>3. NewSteps(c)[n] = block[t].steps[n]
  BY <1>2, NewStepsKeep
<1> QED BY <1>1, <1>3

----------------------------------------------------------------------------
(* Acknowledged strikes. *)

StruckInv ==
    /\ StruckStaysStruck
    /\ agent.at = "strike" => agent.copy[agent.next].state \in {"pending", "failed"}

\* Whatever keeps the steps that are done, or tears the block, keeps the strikes.
LEMMA StruckKept ==
    ASSUME TypeInv, StruckStaysStruck, struck' = struck, torn \subseteq torn',
           \A t \in Call : \A n \in StepNo :
              block[t].steps[n].state = "done" => t \in torn' \/ block'[t].steps[n].state = "done"
    PROVE  StruckStaysStruck'
<1>1. ASSUME NEW h \in struck
      PROVE  h[1] \in torn' \/ block'[h[1]].steps[h[2]].state = "done"
  <2>1. h[1] \in Call /\ h[2] \in StepNo
    BY Typed
  <2> QED BY <2>1 DEF StruckStaysStruck
<1> QED BY <1>1 DEF StruckStaysStruck

LEMMA StruckStep == TypeInv /\ StruckInv /\ [LedgerNext]_ledgerVars => StruckInv'
<1> SUFFICES ASSUME TypeInv, StruckInv, [LedgerNext]_ledgerVars
             PROVE  StruckInv'
  OBVIOUS
<1>0. StruckStaysStruck
  BY DEF StruckInv
<1>1. CASE Others
  <2>1. Quiet /\ HandsEmpty
    BY <1>1, QuietOthers
  <2>2. StruckStaysStruck'
    BY <1>0, <2>1, StruckKept DEF Quiet
  <2> QED BY <2>1, <2>2 DEF StruckInv, HandsEmpty
<1>2. CASE Reads
  <2>1. Quiet
    BY <1>2, QuietReads
  <2>2. StruckStaysStruck'
    BY <1>0, <2>1, StruckKept DEF Quiet
  <2>3. agent'.at = "strike" => agent'.copy[agent'.next].state \in {"pending", "failed"}
    BY <1>2, StrikeReadEffect, StampReadEffect, ResumeReadEffect DEF Reads, AgentRests
  <2> QED BY <2>2, <2>3 DEF StruckInv
<1>3. CASE Startup
  <2>1. UNCHANGED <<block, agent, struck, torn>>
    BY <1>3 DEF Startup, Boot, BootDone, HelperStarts, SweepFail
  <2> QED BY <2>1 DEF StruckInv, StruckStaysStruck
<1>4. CASE Crash
  <2>1. UNCHANGED <<block, struck>> /\ torn \subseteq torn' /\ agent'.at = "idle"
    BY <1>4, CrashEffect, InitialsTyped
  <2>2. StruckStaysStruck'
    BY <1>0, <2>1, StruckKept
  <2> QED BY <2>1, <2>2 DEF StruckInv
<1>5. CASE StampWrite
  <2> DEFINE t == agent.task
             n == agent.next
  <2>1. /\ agent'.at = "idle" /\ t \in Call /\ n \in StepNo /\ struck' = struck
        /\ torn \subseteq torn'
        /\ \/ UNCHANGED block
           \/ /\ OnlyBlock(t) /\ block'[t].steps = [agent.copy EXCEPT ![n].stamp = "issued"]
              /\ t \in torn' \/ agent.copy = block[t].steps
    BY <1>5, StampWriteEffect DEF AgentRests
  <2>2. \A m \in StepNo : [agent.copy EXCEPT ![n].stamp = "issued"][m].state = agent.copy[m].state
    <3>1. agent.copy \in Steps
      BY AgentTyped
    <3> HIDE DEF n
    <3> QED BY <2>1, <3>1 DEF Steps
  <2> HIDE DEF t, n
  <2>3. StruckStaysStruck'
    BY <1>0, <2>1, <2>2, StruckKept DEF OnlyBlock
  <2> QED BY <2>1, <2>3 DEF StruckInv
<1>6. CASE \E c \in Call : StepsWrite(c)
  <2>1. PICK c \in Call : StepsWrite(c)
    BY <1>6
  <2>2. /\ plan[c].task \in Call /\ OnlyBlock(plan[c].task) /\ LandsOn(c, plan[c].task)
        /\ torn \subseteq torn' /\ struck' = struck /\ (agent' = agent \/ AgentRests)
    BY <2>1, StepsWriteEffect
  <2>3. ASSUME NEW t \in Call, NEW n \in StepNo, block[t].steps[n].state = "done"
        PROVE  t \in torn' \/ block'[t].steps[n].state = "done"
    <3>1. CASE t = plan[c].task
      BY <2>2, <2>3, <3>1, LandsKeeps
    <3>2. CASE t # plan[c].task
      BY <2>2, <2>3, <3>2 DEF OnlyBlock
    <3> QED BY <3>1, <3>2
  <2>4. StruckStaysStruck'
    BY <1>0, <2>2, <2>3, StruckKept
  <2> QED BY <2>2, <2>4 DEF StruckInv, AgentRests
<1>7. CASE \E failed \in BOOLEAN : StrikeWrite(failed)
  <2>1. PICK failed \in BOOLEAN : StrikeWrite(failed)
    BY <1>7
  <2> DEFINE t == agent.task
             n == agent.next
             state == IF failed THEN "failed" ELSE "done"
             steps == [agent.copy EXCEPT ![n].state = state]
  <2>2. /\ agent.at = "strike" /\ agent'.at = "idle" /\ t \in Call /\ n \in StepNo
        /\ torn \subseteq torn'
        /\ \/ UNCHANGED <<block, struck>>
           \/ /\ OnlyBlock(t) /\ block'[t].steps = steps
              /\ t \in torn' \/ agent.copy = block[t].steps
              /\ struck' = IF failed THEN struck ELSE struck \cup {<<t, n>>}
    BY <2>1, StrikeWriteEffect DEF AgentRests
  <2>3. agent.copy[n].state \in {"pending", "failed"}
    BY <2>2 DEF StruckInv
  <2>4. steps[n].state = state /\ \A m \in StepNo : m # n => steps[m] = agent.copy[m]
    <3>1. agent.copy \in Steps
      BY AgentTyped
    <3> HIDE DEF n, state
    <3> QED BY <2>2, <3>1 DEF Steps
  <2> HIDE DEF t, n, steps
  <2>5. ASSUME NEW h \in struck'
        PROVE  h[1] \in torn' \/ block'[h[1]].steps[h[2]].state = "done"
    <3>1. CASE h \in struck
      <4>1. h[1] \in Call /\ h[2] \in StepNo /\ (h[1] \in torn \/ block[h[1]].steps[h[2]].state = "done")
        BY <1>0, <3>1, Typed DEF StruckStaysStruck
      <4> QED BY <2>2, <2>3, <2>4, <4>1 DEF OnlyBlock
    <3>2. CASE h \notin struck
      <4>1. h = <<t, n>> /\ ~failed /\ block'[t].steps = steps
        BY <2>2, <2>5, <3>2
      <4> QED BY <2>4, <4>1
    <3> QED BY <3>1, <3>2
  <2> QED BY <2>2, <2>5 DEF StruckInv, StruckStaysStruck
<1>8. CASE \E s \in Sweeper, t \in Call : SweepWrite(s, t)
  <2>1. PICK s \in Sweeper, t \in Call : SweepWrite(s, t)
    BY <1>8
  <2>2. /\ OnlyBlock(t) /\ block'[t].steps = Interrupted(sweep[s].copy[t])
        /\ torn \subseteq torn' /\ (t \in torn' \/ sweep[s].copy[t] = block[t].steps)
        /\ struck' = struck /\ agent' = agent
    BY <2>1, SweepWriteEffect
  <2>3. \A steps \in Steps : \A m \in StepNo : Interrupted(steps)[m].state = steps[m].state
    BY DEF Steps, Interrupted
  <2>4. block[t].steps \in Steps
    BY AgentTyped
  <2>5. StruckStaysStruck'
    BY <1>0, <2>2, <2>3, <2>4, StruckKept DEF OnlyBlock
  <2> QED BY <2>2, <2>5 DEF StruckInv
<1> QED BY <1>1, <1>2, <1>3, <1>4, <1>5, <1>6, <1>7, <1>8, NextCases

\* An acknowledged strike stays in the ledger, unless an outdated copy is written over it.
THEOREM StrikesStay == LedgerSpec => []StruckStaysStruck
<1>1. LedgerInit => StruckInv
  <2>1. Idle.at = "idle"
    BY InitialsTyped
  <2> QED BY <2>1 DEF LedgerInit, StruckInv, StruckStaysStruck
<1>2. StruckInv => StruckStaysStruck
  BY DEF StruckInv
<1>3. TypeInv /\ StruckInv /\ [LedgerNext]_ledgerVars => TypeInv' /\ StruckInv'
  BY TypeStep, StruckStep
<1> QED BY TypeInit, <1>1, <1>2, <1>3, PTL DEF LedgerSpec

----------------------------------------------------------------------------
(* Steps that were in flight when a gateway died. *)

StampOf(h) == block[h[1]].steps[h[2]].stamp

Missed == sweep["gateway"].missed

\* What was given out is stamped; what was lost is announced once the sweep is through, unless it
\* failed; and the agent is not about to stamp such a step again.
LostInv ==
    /\ \A h \in issued \cup lost : h[1] \in torn \/ StampOf(h) # "none"
    /\ gateway # "down" =>
          \A h \in lost : \/ h[1] \in torn \cup Missed
                          \/ StampOf(h) = "interrupted"
                          \/ gateway = "booting" /\ h[1] \in sweep["gateway"].todo
    /\ agent.at \in {"resume", "stamp"} =>
          /\ gateway = "up"
          /\ agent.task \in torn \cup Missed \/ <<agent.task, agent.next>> \notin lost

\* A sweep that still has something to write has not failed.
SweepInv == sweep["gateway"].todo # {} => Missed = {}

LEMMA SweepStep == TypeInv /\ SweepInv /\ [LedgerNext]_ledgerVars => SweepInv'
<1> SUFFICES ASSUME TypeInv, SweepInv, [LedgerNext]_ledgerVars
             PROVE  SweepInv'
  OBVIOUS
<1>0. "gateway" \in Sweeper /\ "helper" \in Sweeper /\ "gateway" # "helper"
  BY DEF Sweeper
<1>1. CASE sweep' = sweep
  BY <1>1 DEF SweepInv, Missed
<1>2. CASE Others \/ Reads
  BY <1>1, <1>2, QuietOthers, QuietReads DEF Quiet
<1>3. CASE Boot
  BY <1>0, <1>3 DEF Boot, Sweep, SweepInv, Missed, TypeInv, LedgerTypeOK
<1>4. CASE HelperStarts \/ SweepFail("helper")
  BY <1>0, <1>4, SweepEffect, SweepFailEffect DEF HelperStarts, SweepInv, Missed
<1>5. CASE SweepFail("gateway") \/ Crash
  BY <1>0, <1>5 DEF SweepFail, Crash, NoSweep, SweepInv, Missed, TypeInv, LedgerTypeOK
<1>6. CASE BootDone
  BY <1>1, <1>6 DEF BootDone
<1>7. CASE \E s \in Sweeper, t \in Call : SweepWrite(s, t)
  BY <1>0, <1>7, SweepWriteEffect DEF SweepInv, Missed
<1>8. CASE StampWrite \/ (\E c \in Call : StepsWrite(c)) \/ \E failed \in BOOLEAN : StrikeWrite(failed)
  BY <1>1, <1>8, StampWriteEffect, StrikeWriteEffect DEF StepsWrite
<1> QED BY <1>2, <1>3, <1>4, <1>5, <1>6, <1>7, <1>8, NextCases DEF Startup, Sweeper

\* The third conjunct, when the steps in flight can only become fewer.
LEMMA HandsKept ==
    ASSUME LostInv, torn \subseteq torn', lost' \subseteq lost, HandsEmpty, gateway' = gateway,
           Missed' = Missed
    PROVE  agent'.at \in {"resume", "stamp"} =>
              /\ gateway' = "up"
              /\ agent'.task \in torn' \cup Missed' \/ <<agent'.task, agent'.next>> \notin lost'
BY DEF LostInv, HandsEmpty

\* The first two, when no stamp changes but in a block that is torn.
LEMMA StampsKept ==
    ASSUME TypeInv, LostInv, torn \subseteq torn', issued' \subseteq issued, lost' \subseteq lost,
           UNCHANGED <<gateway, sweep>>,
           \A h \in issued' \cup lost' : h[1] \in torn' \/ StampOf(h)' = StampOf(h)
    PROVE  /\ Missed' = Missed
           /\ \A h \in issued' \cup lost' : h[1] \in torn' \/ StampOf(h)' # "none"
           /\ gateway' # "down" =>
                 \A h \in lost' : \/ h[1] \in torn' \cup Missed'
                                  \/ StampOf(h)' = "interrupted"
                                  \/ gateway' = "booting" /\ h[1] \in sweep'["gateway"].todo
BY DEF LostInv, Missed

LEMMA QuietStamps ==
    ASSUME TypeInv, Quiet
    PROVE  \A h \in issued' \cup lost' : h[1] \in torn' \/ StampOf(h)' = StampOf(h)
<1>1. ASSUME NEW h \in issued \cup lost
      PROVE  h[1] \in torn' \/ StampOf(h)' = StampOf(h)
  <2>1. h[1] \in Call
    BY Typed
  <2> QED BY <2>1 DEF Quiet, StampOf
<1> QED BY <1>1 DEF Quiet

LEMMA LostStep == TypeInv /\ SweepInv /\ LostInv /\ [LedgerNext]_ledgerVars => LostInv'
<1> SUFFICES ASSUME TypeInv, SweepInv, LostInv, [LedgerNext]_ledgerVars
             PROVE  LostInv'
  OBVIOUS
<1>0. \A h \in issued \cup lost : h[1] \in Call /\ h[2] \in StepNo
  BY Typed
<1>1. CASE Others
  <2>1. Quiet /\ HandsEmpty
    BY <1>1, QuietOthers
  <2>2. /\ torn \subseteq torn' /\ issued' \subseteq issued /\ lost' \subseteq lost
        /\ UNCHANGED <<gateway, sweep>>
    BY <2>1 DEF Quiet
  <2> QED BY <2>1, <2>2, QuietStamps, StampsKept, HandsKept DEF LostInv
<1>2. CASE Reads
  <2>1. Quiet /\ UNCHANGED <<block, torn, lost>>
    BY <1>2, QuietReads, StrikeReadEffect, StampReadEffect, ResumeReadEffect DEF Reads
  <2>2. /\ torn \subseteq torn' /\ issued' \subseteq issued /\ lost' \subseteq lost
        /\ UNCHANGED <<gateway, sweep>>
    BY <2>1 DEF Quiet
  <2>3. agent'.at \in {"resume", "stamp"} =>
           /\ gateway' = "up"
           /\ agent'.task \in torn' \cup Missed' \/ <<agent'.task, agent'.next>> \notin lost'
    <3>0. Missed' = Missed /\ gateway' = gateway
      BY <2>2 DEF Missed
    <3>1. CASE StrikeRead
      BY <3>1, StrikeReadEffect
    <3>2. CASE StampRead
      BY <2>1, <3>0, <3>2, StampReadEffect DEF LostInv
    <3>3. CASE \E t \in Call : ResumeRead(t)
      <4>1. PICK t \in Call : ResumeRead(t)
        BY <3>3
      <4>2. gateway = "up"
        BY <4>1 DEF ResumeRead, AgentAt, Serving
      <4>3. CASE AgentRests
        BY <4>3 DEF AgentRests
      <4>4. CASE ~AgentRests
        <5>1. agent'.task = t /\ StampOf(<<t, agent'.next>>) # "interrupted"
          BY <4>1, <4>4, ResumeReadEffect DEF StampOf
        <5>2. t \in torn \cup Missed \/ <<t, agent'.next>> \notin lost
          BY <4>2, <5>1 DEF LostInv
        <5> QED BY <2>1, <3>0, <4>2, <5>1, <5>2
      <4> QED BY <4>3, <4>4
    <3> QED BY <1>2, <3>1, <3>2, <3>3 DEF Reads
  <2> QED BY <2>1, <2>2, <2>3, QuietStamps, StampsKept DEF LostInv
<1>3. CASE Startup
  <2>1. UNCHANGED <<block, agent, issued, lost, torn>>
    BY <1>3 DEF Startup, Boot, BootDone, HelperStarts, SweepFail
  <2>2. \A h \in issued \cup lost : h[1] \in torn \/ StampOf(h) # "none"
    BY DEF LostInv
  <2>3. \A h \in issued \cup lost : StampOf(h)' = StampOf(h)
    BY <2>1 DEF StampOf
  <2>4. "gateway" \in Sweeper /\ "helper" \in Sweeper /\ "gateway" # "helper"
    BY DEF Sweeper
  <2>5. gateway' # "down" =>
           \A h \in lost : \/ h[1] \in torn \cup Missed'
                           \/ StampOf(h) = "interrupted"
                           \/ gateway' = "booting" /\ h[1] \in sweep'["gateway"].todo
    <3>1. CASE Boot
      <4>1. /\ gateway' = "booting"
            /\ sweep'["gateway"].todo = {t \in Call : Stamped(block[t].steps) # {}}
        BY <3>1, <2>4, SweepEffect DEF Boot
      <4>2. ASSUME NEW h \in lost
            PROVE  h[1] \in torn \/ h[1] \in sweep'["gateway"].todo
        BY <1>0, <2>2, <4>1, <4>2 DEF StampOf, Stamped
      <4> QED BY <4>1, <4>2
    <3>2. CASE BootDone
      BY <3>2 DEF BootDone, LostInv, Missed
    <3>3. CASE HelperStarts \/ SweepFail("helper")
      <4>1. gateway' = gateway /\ sweep'["gateway"] = sweep["gateway"]
        BY <3>3, <2>4, SweepEffect, SweepFailEffect DEF HelperStarts
      <4> QED BY <4>1 DEF LostInv, Missed
    <3>4. CASE SweepFail("gateway")
      <4>1. gateway' = gateway /\ Missed' = sweep["gateway"].todo
        BY <3>4, <2>4, SweepFailEffect DEF Missed
      <4>2. Missed = {}
        <5>1. sweep["gateway"].todo # {}
          BY <3>4 DEF SweepFail
        <5> QED BY <5>1 DEF SweepInv
      <4> QED BY <4>1, <4>2 DEF LostInv
    <3> QED BY <1>3, <3>1, <3>2, <3>3, <3>4 DEF Startup, Sweeper
  <2>6. agent.at \in {"resume", "stamp"} =>
           /\ gateway' = "up"
           /\ (agent.task \in torn \cup Missed' \/ <<agent.task, agent.next>> \notin lost)
    <3>1. CASE Boot \/ BootDone
      <4>1. gateway # "up"
        BY <3>1 DEF Boot, BootDone
      <4> QED BY <4>1 DEF LostInv
    <3>2. CASE HelperStarts \/ SweepFail("helper")
      <4>1. gateway' = gateway /\ sweep'["gateway"] = sweep["gateway"]
        BY <3>2, <2>4, SweepEffect, SweepFailEffect DEF HelperStarts
      <4> QED BY <4>1 DEF LostInv, Missed
    <3>3. CASE SweepFail("gateway")
      <4>1. gateway' = gateway /\ sweep["gateway"].todo # {}
        BY <3>3, SweepFailEffect DEF SweepFail
      <4>2. Missed = {}
        BY <4>1 DEF SweepInv
      <4> QED BY <4>1, <4>2 DEF LostInv
    <3> QED BY <1>3, <3>1, <3>2, <3>3 DEF Startup, Sweeper
  <2> QED BY <2>1, <2>2, <2>3, <2>5, <2>6 DEF LostInv
<1>4. CASE Crash
  <2>1. /\ UNCHANGED block /\ torn \subseteq torn' /\ agent'.at = "idle" /\ gateway' = "down"
        /\ issued' \cup lost' = issued \cup lost
    BY <1>4, CrashEffect, InitialsTyped
  <2>2. \A h : StampOf(h)' = StampOf(h)
    BY <2>1 DEF StampOf
  <2> QED BY <2>1, <2>2 DEF LostInv
<1>5. CASE StampWrite
  <2> DEFINE t == agent.task
             n == agent.next
             steps == [agent.copy EXCEPT ![n].stamp = "issued"]
  <2>1. /\ agent.at = "stamp" /\ agent'.at = "idle" /\ t \in Call /\ n \in StepNo
        /\ lost' = lost /\ torn \subseteq torn' /\ UNCHANGED <<gateway, sweep>>
        /\ \/ UNCHANGED <<block, issued>>
           \/ /\ OnlyBlock(t) /\ block'[t].steps = steps
              /\ t \in torn' \/ agent.copy = block[t].steps
              /\ issued' = issued \cup {<<t, n>>}
    BY <1>5, StampWriteEffect DEF AgentRests
  <2>2. steps[n].stamp = "issued" /\ \A m \in StepNo : m # n => steps[m] = agent.copy[m]
    <3>1. agent.copy \in Steps
      BY AgentTyped
    <3> HIDE DEF n
    <3> QED BY <2>1, <3>1 DEF Steps
  <2>3. t \in torn \cup Missed \/ <<t, n>> \notin lost
    BY <2>1 DEF LostInv
  <2> HIDE DEF t, n, steps
  <2>4. ASSUME NEW h \in issued \cup lost, h # <<t, n>>
        PROVE  h[1] \in torn' \/ StampOf(h)' = StampOf(h)
    <3>1. h[1] \in Call /\ h[2] \in StepNo /\ h = <<h[1], h[2]>>
      BY Typed
    <3>2. CASE h[1] = t
      BY <2>1, <2>2, <2>4, <3>1, <3>2 DEF StampOf
    <3>3. CASE h[1] # t
      BY <2>1, <3>1, <3>3 DEF StampOf, OnlyBlock
    <3> QED BY <3>2, <3>3
  <2>5. ASSUME NEW h \in issued' \cup lost'
        PROVE  h[1] \in torn' \/ StampOf(h)' # "none"
    <3>1. CASE h = <<t, n>>
      <4>1. CASE UNCHANGED <<block, issued>>
        BY <2>1, <2>5, <4>1 DEF LostInv, StampOf
      <4>2. CASE block'[t].steps = steps
        BY <2>2, <3>1, <4>2 DEF StampOf
      <4> QED BY <2>1, <4>1, <4>2
    <3>2. CASE h # <<t, n>>
      <4>1. h \in issued \cup lost
        BY <2>1, <2>5, <3>2
      <4>2. h[1] \in torn \/ StampOf(h) # "none"
        BY <4>1 DEF LostInv
      <4> QED BY <2>1, <2>4, <3>2, <4>1, <4>2
    <3> QED BY <3>1, <3>2
  <2>6. ASSUME gateway' # "down", NEW h \in lost'
        PROVE  \/ h[1] \in torn' \cup Missed' \/ StampOf(h)' = "interrupted"
               \/ gateway' = "booting" /\ h[1] \in sweep'["gateway"].todo
    <3>1. h \in lost /\ gateway # "down"
      BY <2>1, <2>6
    <3>2. \/ h[1] \in torn \cup Missed \/ StampOf(h) = "interrupted"
          \/ gateway = "booting" /\ h[1] \in sweep["gateway"].todo
      BY <3>1 DEF LostInv
    <3>0. Missed' = Missed
      BY <2>1 DEF Missed
    <3>3. CASE h = <<t, n>>
      BY <2>1, <2>3, <3>0, <3>1, <3>3
    <3>4. CASE h # <<t, n>>
      BY <2>1, <2>4, <3>0, <3>1, <3>2, <3>4
    <3> QED BY <3>3, <3>4
  <2> QED BY <2>1, <2>5, <2>6 DEF LostInv
<1>6. CASE \E c \in Call : StepsWrite(c)
  <2>1. PICK c \in Call : StepsWrite(c)
    BY <1>6
  <2>2. /\ OnlyBlock(plan[c].task) /\ torn \subseteq torn' /\ (agent' = agent \/ AgentRests)
    BY <2>1, StepsWriteEffect
  <2>3. HandsEmpty
    BY <2>2 DEF HandsEmpty, AgentRests
  <2>4. /\ UNCHANGED <<gateway, sweep>> /\ torn \subseteq torn'
        /\ issued' = Forget(issued, plan[c].task) /\ lost' = Forget(lost, plan[c].task)
    BY <2>1, StepsWriteEffect DEF LandsOn
  <2>5. issued' \subseteq issued /\ lost' \subseteq lost
        /\ \A h \in issued' \cup lost' : h[1] \in Call /\ h[1] # plan[c].task
    BY <1>0, <2>4 DEF Forget
  <2>6. \A h \in issued' \cup lost' : StampOf(h)' = StampOf(h)
    <3>1. OnlyBlock(plan[c].task)
      BY <2>1, StepsWriteEffect
    <3> QED BY <2>5, <3>1 DEF OnlyBlock, StampOf
  <2> QED BY <2>3, <2>4, <2>5, <2>6, StampsKept, HandsKept DEF LostInv
<1>7. CASE \E failed \in BOOLEAN : StrikeWrite(failed)
  <2>1. PICK failed \in BOOLEAN : StrikeWrite(failed)
    BY <1>7
  <2> DEFINE t == agent.task
             n == agent.next
             state == IF failed THEN "failed" ELSE "done"
             steps == [agent.copy EXCEPT ![n].state = state]
             h0 == <<t, n>>
  <2>2. /\ agent'.at = "idle" /\ t \in Call /\ n \in StepNo
        /\ torn \subseteq torn' /\ UNCHANGED <<gateway, sweep>>
        /\ \/ UNCHANGED <<block, issued, lost>>
           \/ /\ OnlyBlock(t) /\ block'[t].steps = steps
              /\ t \in torn' \/ agent.copy = block[t].steps
              /\ issued' = issued \ {h0} /\ lost' = lost \ {h0}
    BY <2>1, StrikeWriteEffect DEF AgentRests
  <2>3. \A m \in StepNo : steps[m].stamp = agent.copy[m].stamp
    <3>1. agent.copy \in Steps
      BY AgentTyped
    <3> HIDE DEF n, state
    <3> QED BY <2>2, <3>1 DEF Steps
  <2> HIDE DEF t, n, steps, h0
  <2>4. issued' \subseteq issued /\ lost' \subseteq lost
    BY <2>2
  <2>5. ASSUME NEW h \in issued' \cup lost'
        PROVE  h[1] \in torn' \/ StampOf(h)' = StampOf(h)
    <3>1. h[1] \in Call /\ h[2] \in StepNo
      BY <1>0, <2>4, <2>5
    <3> QED BY <2>2, <2>3, <3>1 DEF StampOf, OnlyBlock
  <2>6. HandsEmpty
    BY <2>2 DEF HandsEmpty
  <2> QED BY <2>2, <2>4, <2>5, <2>6, StampsKept, HandsKept DEF LostInv
<1>8. CASE \E s \in Sweeper, t \in Call : SweepWrite(s, t)
  <2>1. PICK s \in Sweeper, t \in Call : SweepWrite(s, t)
    BY <1>8
  <2>2. /\ OnlyBlock(t) /\ block'[t].steps = Interrupted(sweep[s].copy[t])
        /\ torn \subseteq torn' /\ (t \in torn' \/ sweep[s].copy[t] = block[t].steps)
        /\ \A r \in Sweeper : r # s => sweep'[r] = sweep[r]
        /\ sweep'[s].todo = sweep[s].todo \ {t} /\ sweep'[s].missed = sweep[s].missed
        /\ UNCHANGED <<agent, gateway, issued, lost>>
    BY <2>1, SweepWriteEffect
  <2>3. \A m \in StepNo : sweep[s].copy[t][m].stamp # "none" =>
           Interrupted(sweep[s].copy[t])[m].stamp = "interrupted"
    <3>1. sweep[s].copy[t] \in Steps
      BY Typed DEF SweepRecord
    <3> QED BY <3>1 DEF Steps, Interrupted, Stamped
  <2>4. ASSUME NEW h \in issued \cup lost
        PROVE  \/ h[1] \in torn'
               \/ h[1] = t /\ StampOf(h)' = "interrupted"
               \/ h[1] # t /\ StampOf(h)' = StampOf(h)
    <3>1. h[1] \in torn \/ StampOf(h) # "none"
      BY DEF LostInv
    <3>2. CASE h[1] = t
      BY <1>0, <2>2, <2>3, <3>1, <3>2 DEF StampOf
    <3>3. CASE h[1] # t
      BY <1>0, <2>2, <3>3 DEF StampOf, OnlyBlock
    <3> QED BY <3>2, <3>3
  <2>5. \A h \in issued' \cup lost' : h[1] \in torn' \/ StampOf(h)' # "none"
    BY <2>2, <2>4 DEF LostInv
  <2>6. \A u : u \in sweep["gateway"].todo /\ u # t => u \in sweep'["gateway"].todo
    BY <2>2 DEF Sweeper
  <2>9. Missed' = Missed
    BY <2>2 DEF Sweeper, Missed
  <2>7. ASSUME gateway' # "down", NEW h \in lost'
        PROVE  \/ h[1] \in torn' \cup Missed' \/ StampOf(h)' = "interrupted"
               \/ gateway' = "booting" /\ h[1] \in sweep'["gateway"].todo
    <3>1. h \in lost /\ gateway # "down"
      BY <2>2, <2>7
    <3>2. \/ h[1] \in torn \cup Missed \/ StampOf(h) = "interrupted"
          \/ gateway = "booting" /\ h[1] \in sweep["gateway"].todo
      BY <3>1 DEF LostInv
    <3> QED BY <2>2, <2>4, <2>6, <2>9, <3>1, <3>2
  <2>8. HandsEmpty
    BY <2>2 DEF HandsEmpty
  <2> QED BY <2>2, <2>5, <2>7, <2>8, <2>9, HandsKept DEF LostInv
<1> QED BY <1>1, <1>2, <1>3, <1>4, <1>5, <1>6, <1>7, <1>8, NextCases

\* A step that was in flight when a gateway died is announced as interrupted by every
\* task_resume of a later one, until it is struck or planned anew; a failing sweep excuses only the
\* blocks it did not come to, and only while its gateway is up.
THEOREM LostIsAnnounced == LedgerSpec => []AnnouncedAfterCrash
<1>1. LedgerInit => LostInv /\ SweepInv
  <2>1. Idle.at = "idle" /\ NoSweep.todo = {} /\ "gateway" \in Sweeper
    BY InitialsTyped DEF NoSweep, Sweeper
  <2> QED BY <2>1 DEF LedgerInit, LostInv, SweepInv
<1>2. LostInv => AnnouncedAfterCrash
  BY DEF LostInv, StampOf, Missed, AnnouncedAfterCrash
<1>3. TypeInv /\ SweepInv /\ LostInv /\ [LedgerNext]_ledgerVars => TypeInv' /\ SweepInv' /\ LostInv'
  BY TypeStep, SweepStep, LostStep
<1> QED BY TypeInit, <1>1, <1>2, <1>3, PTL DEF LedgerSpec

----------------------------------------------------------------------------
(* As long as nothing has failed and nobody else has come up. *)

Begun(t) == plan[t].at # "unused"

\* Only what was planned is in the ledger, in a call, or in the agent's view.
BegunInv ==
    /\ \A t \in Call : ~Begun(t) => block[t] = NoBlock /\ plan[t].detached = FALSE
    /\ \A c \in Call : Begun(c) => Begun(plan[c].task)
    /\ agent.at \in {"strike", "resume", "stamp", "checkpoint"} => Begun(agent.task)
    /\ agent.view.task \in Call => Begun(agent.view.task)

Active(c) == plan[c].at \in {"asking", "ready", "header", "replace", "steps"}

\* No copy of a block is outdated.
Fresh(t) ==
    /\ t \notin torn
    /\ agent.at \in {"strike", "stamp", "checkpoint"} /\ agent.task = t => agent.copy = block[t].steps
    /\ \A c \in Call : plan[c].task = t /\ Active(c) =>
          /\ plan[c].prior = DoneSteps(block[t].steps)
          /\ plan[c].at = "replace" => plan[c].copy = block[t].steps

NeverDetached(t) == \A c \in Call : plan[c].task = t => ~plan[c].detached

FreshInv ==
    /\ gateway = "up" /\ \A s \in Sweeper : sweep[s].todo = {}
    /\ agent.at \in {"detached", "progress"} => plan[agent.call].detached
    /\ \A t \in Call : NeverDetached(t) => Fresh(t)

CalmInv == mishaps = 0 => BegunInv /\ FreshInv

LEMMA ReturnedView ==
    ASSUME NEW view, Return(view)
    PROVE  agent'.view = view
BY DEF Return, Idle

\* A step touches only what was begun before, or begins it.
Begins ==
    /\ \A t \in Call : Begun(t) => plan'[t].at # "unused"
    /\ \A t \in Call : block'[t] = block[t] \/ Begun(t)
    /\ \A c \in Call : \/ plan'[c] = plan[c]
                       \/ Begun(c) /\ plan'[c].task = plan[c].task
                       \/ plan'[c].at # "unused" /\ plan'[plan'[c].task].at # "unused"
    /\ agent'.at \in {"strike", "resume", "stamp", "checkpoint"} =>
          \/ agent.at \in {"strike", "resume", "stamp", "checkpoint"} /\ agent'.task = agent.task
          \/ agent'.task \in Call /\ Begun(agent'.task)
    /\ agent'.view.task \in Call => agent'.view.task = agent.view.task \/ Begun(agent'.view.task)

LEMMA BeginsKeeps ==
    ASSUME TypeInv, TypeInv', BegunInv, Begins
    PROVE  BegunInv'
<1>1. \A c \in Call : Begun(c) => plan[c].task \in Call
  BY DEF TypeInv, PlanOK, Begun
<1>2. \A t \in Call : ~Begun(t)' => block'[t] = NoBlock /\ plan'[t].detached = FALSE
  BY DEF Begins, BegunInv, Begun
<1>3. \A c \in Call : Begun(c)' => plan'[plan'[c].task].at # "unused"
  BY <1>1 DEF Begins, BegunInv, Begun
<1>4. agent'.at \in {"strike", "resume", "stamp", "checkpoint"} => plan'[agent'.task].at # "unused"
  <2>1. agent.at \in {"strike", "resume", "stamp", "checkpoint"} => agent.task \in Call
    BY DEF TypeInv, AgentInv
  <2> QED BY <2>1 DEF Begins, BegunInv, Begun
<1>5. agent'.view.task \in Call => plan'[agent'.view.task].at # "unused"
  BY DEF Begins, BegunInv, Begun
<1> QED BY <1>2, <1>3, <1>4, <1>5 DEF BegunInv, Begun

LEMMA PlanBegins ==
    ASSUME TypeInv, BegunInv, NEW c \in Call, PlanStep(c)
    PROVE  Begins
<1>1. Begun(c) /\ plan[c].task \in Call /\ Begun(plan[c].task)
  <2>1. Begun(c)
    <3>1. CASE Wake(c)
      BY <3>1, WakeEffect DEF Begun
    <3>2. CASE ~Wake(c)
      BY <3>2 DEF PlanStep, WorkerReady, HeaderRead, HeaderWrite, StepsWrite, StepsFail, MarkRead,
                  MarkWrite, PlanAt, Begun
    <3> QED BY <3>1, <3>2
  <2> QED BY <2>1 DEF BegunInv, TypeInv, PlanOK, Begun
<1>2. OnlyPlan(c) /\ plan'[c].task = plan[c].task /\ plan'[c].at # "unused"
  BY WorkerReadyEffect, WakeEffect, PlanReads, HeaderWriteEffect, StepsWriteEffect,
     StepsFailEffect, MarkWriteEffect DEF PlanStep
<1>3. \A t \in Call : block'[t] = block[t] \/ Begun(t)
  <2>1. CASE WorkerReady(c) \/ Wake(c) \/ HeaderRead(c) \/ MarkRead(c) \/ StepsFail(c)
    <3>1. block' = block
      BY <2>1, WorkerReadyEffect, WakeEffect, PlanReads, StepsFailEffect
    <3> QED BY <3>1
  <2>2. CASE HeaderWrite(c) \/ MarkWrite(c)
    BY <1>1, <2>2, HeaderWriteEffect, MarkWriteEffect DEF Saves, OnlyBlock
  <2>3. CASE StepsWrite(c)
    BY <1>1, <2>3, StepsWriteEffect DEF OnlyBlock
  <2> QED BY <2>1, <2>2, <2>3 DEF PlanStep
<1>4. /\ agent' = agent \/ agent'.at \notin {"strike", "resume", "stamp", "checkpoint"}
      /\ agent'.view.task \in {agent.view.task, NoCall, plan[c].task}
  <2>1. NoView.task = NoCall
    BY DEF NoView
  <2>2. CASE WorkerReady(c) \/ HeaderRead(c) \/ MarkRead(c) \/ HeaderWrite(c) \/ MarkWrite(c)
    BY <2>2, WorkerReadyEffect, PlanReads, HeaderWriteEffect, MarkWriteEffect
  <2>3. CASE Wake(c)
    <3>1. CASE Return(NoView)
      BY <2>1, <2>3, <3>1, ReturnedView, WakeEffect DEF AgentRests
    <3>2. CASE ~Return(NoView)
      <4>1. agent'.at \in {"landing", "detached", "idle"}
        BY <2>3, WakeEffect DEF AgentRests
      <4>2. \/ agent' = [agent EXCEPT !.at = "landing"] \/ agent' = [agent EXCEPT !.at = "detached"]
        BY <2>3, <3>2 DEF Wake
      <4>3. agent \in AgentRecord
        BY Typed
      <4>4. agent'.view = agent.view
        BY <4>2, <4>3 DEF AgentRecord
      <4> QED BY <4>1, <4>4
    <3> QED BY <3>1, <3>2
  <2>4. CASE StepsWrite(c)
    <3>1. agent' = agent \/ Return([task |-> plan[c].task, kind |-> "step", next |-> FirstNew(c)])
      BY <2>4 DEF StepsWrite, Landed
    <3>2. agent' = agent \/ AgentRests
      BY <2>4, StepsWriteEffect
    <3> QED BY <3>1, <3>2, ReturnedView DEF AgentRests
  <2>5. CASE StepsFail(c)
    <3>1. agent' = agent \/ Return(NoView)
      BY <2>5 DEF StepsFail, Landed
    <3>2. agent' = agent \/ AgentRests
      BY <2>5, StepsFailEffect
    <3> QED BY <2>1, <3>1, <3>2, ReturnedView DEF AgentRests
  <2> QED BY <2>2, <2>3, <2>4, <2>5 DEF PlanStep
<1> QED BY <1>1, <1>2, <1>3, <1>4, LedgerAssumption DEF Begins, OnlyPlan, Begun

LEMMA AgentBegins ==
    ASSUME TypeInv, BegunInv,
           AgentStep \/ ProgressRead \/ ProgressWrite \/ UNCHANGED ledgerVars
    PROVE  Begins
<1>0. NoCall \notin Call /\ NoView.task = NoCall
  BY LedgerAssumption DEF NoView
<1>1. CASE UNCHANGED ledgerVars
  BY <1>1 DEF ledgerVars, Begins, Begun
<1>2. CASE \E c \in Call : PlannerNew(c) \/ PlannerRevise(c)
  <2>1. PICK c \in Call : PlannerNew(c) \/ PlannerRevise(c)
    BY <1>2
  <2>a. PICK t \in Call : Starts(c, t)
    BY <2>1, PlannerEffect
  <2>2. /\ plan[c].at = "unused" /\ OnlyPlan(c) /\ plan'[c].at = "asking" /\ plan'[c].task = t
        /\ t = c \/ t = agent.view.task
        /\ agent'.at = "planning" /\ agent'.view = NoView /\ block' = block
    BY <2>a DEF Starts
  <2>3. \A d \in Call : Begun(d) => plan'[d].at # "unused"
    BY <2>2 DEF OnlyPlan, Begun
  <2>4. plan'[t].at # "unused"
    BY <2>2, <2>3 DEF BegunInv
  <2> QED BY <1>0, <2>2, <2>3, <2>4 DEF Begins, OnlyPlan
<1>3. CASE \E t \in Call : ResumeRead(t)
  <2>1. PICK t \in Call : ResumeRead(t)
    BY <1>3
  <2>2. UNCHANGED <<block, plan>> /\ (agent'.at = "idle" \/ (agent'.at = "resume" /\ agent'.task = t))
    <3>1. UNCHANGED <<block, plan>>
      BY <2>1 DEF ResumeRead
    <3>2. AgentRests \/ (agent'.at = "resume" /\ agent'.task = t)
      BY <2>1, ResumeReadEffect
    <3> QED BY <3>1, <3>2 DEF AgentRests
  <2>3. Begun(t)
    <3>1. block[t].status # "absent"
      BY <2>1 DEF ResumeRead
    <3> QED BY <3>1 DEF BegunInv, NoBlock
  <2>4. agent'.view.task = t
    <3> DEFINE view == [task |-> t, kind |-> block[t].kind, next |-> block[t].next]
    <3>1. view.task = t
      OBVIOUS
    <3>2. agent' = [Idle EXCEPT !.view = view]
          \/ \E next : agent' = [Idle EXCEPT !.at = "resume", !.task = t, !.next = next, !.view = view]
      BY <2>1 DEF ResumeRead, Return
    <3> HIDE DEF view
    <3>3. agent'.view = view
      BY <3>2 DEF Idle
    <3> QED BY <3>1, <3>3
  <2> QED BY <2>2, <2>3, <2>4 DEF Begins, Begun
<1>4. CASE StrikeRead \/ CheckpointRead \/ StampRead \/ ProgressRead
  <2>1. /\ UNCHANGED <<block, plan>> /\ agent'.view = agent.view
        /\ \/ agent'.at = "progress"
           \/ agent'.task = agent.view.task /\ agent'.task \in Call
           \/ agent.at = "resume" /\ agent'.task = agent.task
    BY <1>4, StrikeReadEffect, CheckpointReadEffect, StampReadEffect, ProgressReadEffect
  <2> QED BY <2>1 DEF Begins, BegunInv, Begun
<1>5. CASE Handoff \/ (\E failed \in BOOLEAN : StrikeWrite(failed)) \/ StampWrite
           \/ ProgressWrite \/ \E status \in {"open", "closed"} : CheckpointWrite(status)
  <2>1. agent'.at = "idle" /\ plan' = plan
    BY <1>5, HandoffEffect, StrikeWriteEffect, StampWriteEffect, ProgressWriteEffect,
       CheckpointWriteEffect DEF AgentRests
  <2>2. \A t \in Call : block'[t] = block[t] \/ Begun(t)
    <3>1. CASE Handoff
      BY <3>1, HandoffEffect
    <3>2. CASE (\E failed \in BOOLEAN : StrikeWrite(failed)) \/ StampWrite
      <4>1. /\ agent.at \in {"strike", "stamp"} /\ agent.task \in Call
            /\ block' = block \/ OnlyBlock(agent.task)
        BY <3>2, StrikeWriteEffect, StampWriteEffect
      <4> QED BY <4>1 DEF BegunInv, OnlyBlock
    <3>3. CASE \E status \in {"open", "closed"} : CheckpointWrite(status)
      <4>1. agent.at = "checkpoint" /\ agent.task \in Call /\ Saves(agent.task, agent.copy)
        BY <3>3, CheckpointWriteEffect
      <4> QED BY <4>1 DEF BegunInv, Saves, OnlyBlock
    <3>4. CASE ProgressWrite
      <4>1. /\ agent.at = "progress" /\ agent.call \in Call /\ plan[agent.call].task \in Call
            /\ Saves(plan[agent.call].task, agent.copy)
        BY <3>4, ProgressWriteEffect
      <4>2. Begun(plan[agent.call].task)
        BY <4>1 DEF TypeInv, AgentInv, BegunInv, Begun
      <4> QED BY <4>1, <4>2 DEF Saves, OnlyBlock
    <3> QED BY <1>5, <3>1, <3>2, <3>3, <3>4
  <2>3. agent'.view.task \in Call => agent'.view.task = agent.view.task \/ Begun(agent'.view.task)
    <3>1. CASE Handoff \/ StampWrite \/ \E status \in {"open", "closed"} : CheckpointWrite(status)
      <4>1. Return(NoView) \/ Return(agent.view)
        BY <3>1 DEF Handoff, StampWrite, CheckpointWrite
      <4> QED BY <1>0, <4>1, ReturnedView
    <3>2. CASE \E failed \in BOOLEAN : StrikeWrite(failed)
      <4>1. PICK failed \in BOOLEAN : StrikeWrite(failed)
        BY <3>2
      <4> DEFINE steps == [agent.copy EXCEPT ![agent.next].state = IF failed THEN "failed" ELSE "done"]
                 kind == AfterStrike(failed, steps)
                 next == IF kind = "step" THEN FirstPending(steps) ELSE 0
                 view == [task |-> agent.task, kind |-> kind, next |-> next]
      <4>2. Return(agent.view) \/ Return(view)
        BY <4>1 DEF StrikeWrite
      <4>a. view.task = agent.task
        OBVIOUS
      <4> HIDE DEF view
      <4>3. agent'.view = agent.view \/ agent'.view.task = agent.task
        BY <4>2, <4>a, ReturnedView
      <4>4. agent.at = "strike"
        BY <4>1, StrikeWriteEffect
      <4> QED BY <4>3, <4>4 DEF BegunInv
    <3>3. CASE ProgressWrite
      <4>1. agent.at = "progress" /\ agent.call \in Call
        BY <3>3, ProgressWriteEffect
      <4>2. Return([task |-> plan[agent.call].task, kind |-> "progress", next |-> 0])
        BY <3>3 DEF ProgressWrite
      <4>3. agent'.view.task = plan[agent.call].task
        BY <4>2, ReturnedView
      <4> QED BY <4>1, <4>3 DEF TypeInv, AgentInv, BegunInv, Begun
    <3> QED BY <1>5, <3>1, <3>2, <3>3
  <2> QED BY <2>1, <2>2, <2>3 DEF Begins, Begun
<1> QED BY <1>1, <1>2, <1>3, <1>4, <1>5 DEF AgentStep

LEMMA MishapsGrow ==
    ASSUME TypeInv, [LedgerNext]_ledgerVars
    PROVE  mishaps \in Nat /\ mishaps' \in {mishaps, mishaps + 1}
<1>0. mishaps \in Nat
  BY Typed, LedgerAssumption
<1>1. CASE UNCHANGED ledgerVars
  BY <1>0, <1>1 DEF ledgerVars
<1>2. ASSUME NEW c \in Call, PlanStep(c)
      PROVE  mishaps' \in {mishaps, mishaps + 1}
  <2>1. CASE WorkerReady(c) \/ Wake(c) \/ HeaderRead(c) \/ MarkRead(c) \/ StepsWrite(c)
    BY <2>1 DEF WorkerReady, Wake, HeaderRead, MarkRead, StepsWrite
  <2>2. CASE HeaderWrite(c) \/ MarkWrite(c) \/ StepsFail(c)
    BY <2>2 DEF HeaderWrite, MarkWrite, StepsFail, Mishap
  <2> QED BY <1>2, <2>1, <2>2 DEF PlanStep
<1>3. CASE AgentStep \/ ProgressRead \/ ProgressWrite
  <2>1. CASE \E c \in Call : PlannerNew(c) \/ PlannerRevise(c) \/ ResumeRead(c)
    BY <1>0, <2>1 DEF PlannerNew, PlannerRevise, Planning, ResumeRead
  <2>2. CASE StrikeRead \/ CheckpointRead \/ Handoff \/ StampRead \/ ProgressRead
    BY <1>0, <2>2 DEF StrikeRead, CheckpointRead, Handoff, StampRead, ProgressRead
  <2>3. CASE \E failed \in BOOLEAN : StrikeWrite(failed)
    BY <1>0, <2>3, StrikeWriteEffect
  <2>4. CASE StampWrite \/ ProgressWrite \/ \E status \in {"open", "closed"} : CheckpointWrite(status)
    BY <1>0, <2>4 DEF StampWrite, ProgressWrite, CheckpointWrite, Mishap
  <2> QED BY <1>3, <2>1, <2>2, <2>3, <2>4 DEF AgentStep
<1>4. CASE ProcessStep
  BY <1>0, <1>4 DEF ProcessStep, Crash, Boot, BootDone, HelperStarts, SweepFail, SweepWrite, Mishap
<1> QED BY <1>0, <1>1, <1>2, <1>3, <1>4 DEF LedgerNext

\* In a calm step only the agent and the plans are at work, and no write fails.
LEMMA CalmCases ==
    ASSUME TypeInv, CalmInv, [LedgerNext]_ledgerVars, mishaps' = 0
    PROVE  /\ mishaps = 0 /\ BegunInv /\ FreshInv
           /\ \/ \E c \in Call : PlanStep(c) /\ ~StepsFail(c)
              \/ AgentStep \/ ProgressRead \/ ProgressWrite \/ UNCHANGED ledgerVars
<1>1. mishaps = 0
  BY MishapsGrow
<1>2. BegunInv /\ FreshInv
  BY <1>1 DEF CalmInv
<1>3. ~Mishap
  BY <1>1 DEF Mishap
<1>4. ~ProcessStep
  BY <1>2, <1>3 DEF FreshInv, ProcessStep, Crash, Boot, BootDone, HelperStarts, SweepFail, SweepWrite
<1>5. \A c \in Call : ~StepsFail(c)
  BY <1>3 DEF StepsFail
<1> QED BY <1>1, <1>2, <1>4, <1>5 DEF LedgerNext

LEMMA ActiveFact ==
    ASSUME TypeInv, HandInv, NEW c \in Call, ~plan[c].detached,
           plan[c].at \in {"asking", "ready", "header", "replace", "steps", "mark", "remark"}
    PROVE  Active(c) /\ agent.at \in {"planning", "landing"} /\ agent.call = c
BY DetachedFlag DEF HandInv, Hand, Active

\* A step of a plan stays with its call and its block.
LEMMA PlanStays ==
    ASSUME TypeInv, NEW c \in Call, PlanStep(c), mishaps = 0, mishaps' = 0
    PROVE  LET u == plan[c].task IN
           /\ u \in Call /\ OnlyPlan(c) /\ plan'[c].task = u /\ plan[c].at # "unused"
           /\ plan[c].detached => plan'[c].detached
           /\ \A t \in Call : t # u => block'[t] = block[t]
           /\ torn' \subseteq torn \cup {u}
           /\ UNCHANGED <<gateway, sweep>>
           /\ \/ agent' = agent
              \/ agent'.at \in {"idle", "landing"}
              \/ agent'.at = "detached" /\ agent'.call = c /\ plan'[c].detached
<1> DEFINE u == plan[c].task
<1>1. CASE WorkerReady(c)
  <2>1. plan[c].at = "asking" /\ u \in Call
    BY <1>1, WorkerReadyEffect DEF TypeInv, PlanOK
  <2> QED BY <1>1, <2>1, WorkerReadyEffect
<1>2. CASE Wake(c)
  <2>1. plan[c].at \in {"asking", "ready"}
    BY <1>2, WakeEffect
  <2>2. u \in Call
    BY <2>1 DEF TypeInv, PlanOK
  <2> QED BY <1>2, <2>1, <2>2, WakeEffect DEF AgentRests
<1>3. CASE HeaderRead(c) \/ MarkRead(c)
  <2>1. plan[c].at \in {"header", "mark"}
    BY <1>3, PlanReads
  <2>2. u \in Call
    BY <2>1 DEF TypeInv, PlanOK
  <2> QED BY <1>3, <2>1, <2>2, PlanReads
<1>4. CASE HeaderWrite(c) \/ MarkWrite(c)
  BY <1>4, HeaderWriteEffect, MarkWriteEffect DEF Saves, OnlyBlock
<1>5. CASE StepsWrite(c)
  BY <1>5, StepsWriteEffect DEF OnlyBlock, AgentRests
<1>6. CASE StepsFail(c)
  BY <1>6, StepsFailEffect
<1> QED BY <1>1, <1>2, <1>3, <1>4, <1>5, <1>6 DEF PlanStep

\* While its caller waits for it or lands it, a plan finds the block it was made from.
LEMMA PlanFresh ==
    ASSUME TypeInv, HandInv, NEW c \in Call, PlanStep(c), mishaps = 0, mishaps' = 0,
           Fresh(plan[c].task), ~plan'[c].detached
    PROVE  LET u == plan[c].task IN
           /\ u \notin torn'
           /\ plan'[c].at \in {"asking", "ready", "header", "replace", "steps"} =>
                 /\ plan'[c].prior = DoneSteps(block'[u].steps)
                 /\ plan'[c].at = "replace" => plan'[c].copy = block'[u].steps
<1> DEFINE u == plan[c].task
<1>1. u \in Call /\ (plan[c].detached => plan'[c].detached)
  BY PlanStays
<1>2. ~plan[c].detached
  BY <1>1
<1>3. plan[c].at \in {"asking", "ready", "header", "replace", "steps", "mark", "remark"} =>
         /\ plan[c].at \notin {"mark", "remark"}
         /\ plan[c].prior = DoneSteps(block[u].steps)
         /\ plan[c].at = "replace" => plan[c].copy = block[u].steps
  BY <1>2, ActiveFact DEF Fresh, Active
<1>4. u \notin torn
  BY DEF Fresh
<1>5. CASE WorkerReady(c)
  <2>1. /\ plan[c].at = "asking" /\ plan'[c].prior = plan[c].prior
        /\ UNCHANGED <<block, torn>> /\ plan'[c].at # "replace"
    BY <1>5, WorkerReadyEffect
  <2> QED BY <1>3, <1>4, <2>1
<1>6. CASE Wake(c)
  <2>1. /\ plan[c].at = "ready" /\ plan'[c].at \in {"header", "landed"}
        /\ plan'[c].at = "header" => plan'[c].prior = plan[c].prior
        /\ UNCHANGED <<block, torn>>
    BY <1>6, WakeEffect
  <2> QED BY <1>3, <1>4, <2>1
<1>7. CASE HeaderRead(c) \/ MarkRead(c)
  <2>1. /\ plan[c].at \in {"header", "mark"} /\ plan'[c].prior = plan[c].prior
        /\ plan'[c].copy = block[u].steps /\ UNCHANGED <<block, torn>>
    BY <1>7, PlanReads
  <2> QED BY <1>3, <1>4, <2>1
<1>8. CASE HeaderWrite(c)
  <2>1. /\ plan[c].at = "replace" /\ plan'[c].at = "steps" /\ plan'[c].prior = plan[c].prior
        /\ Saves(u, plan[c].copy)
    BY <1>8, HeaderWriteEffect
  <2>2. block'[u].steps = plan[c].copy /\ (u \in torn' <=> u \in torn \/ block[u].steps # plan[c].copy)
    BY <2>1 DEF Saves
  <2> QED BY <1>3, <1>4, <2>1, <2>2
<1>9. CASE StepsWrite(c)
  <2>1. plan[c].at = "steps" /\ plan'[c].at = "landed" /\ LandsOn(c, u)
    BY <1>9, StepsWriteEffect
  <2> QED BY <1>3, <1>4, <2>1 DEF LandsOn
<1>10. CASE StepsFail(c)
  BY <1>10, StepsFailEffect
<1>11. CASE MarkWrite(c)
  <2>1. plan[c].at = "remark"
    BY <1>11, MarkWriteEffect
  <2> QED BY <1>3, <2>1
<1> QED BY <1>5, <1>6, <1>7, <1>8, <1>9, <1>10, <1>11 DEF PlanStep

LEMMA FreshPlanStep ==
    ASSUME TypeInv, HandInv, FreshInv, NEW c \in Call, PlanStep(c), mishaps = 0, mishaps' = 0
    PROVE  FreshInv'
<1> DEFINE u == plan[c].task
<1>1. /\ u \in Call /\ OnlyPlan(c) /\ plan'[c].task = u /\ plan[c].at # "unused"
      /\ plan[c].detached => plan'[c].detached
      /\ \A t \in Call : t # u => block'[t] = block[t]
      /\ torn' \subseteq torn \cup {u}
      /\ UNCHANGED <<gateway, sweep>>
      /\ \/ agent' = agent
         \/ agent'.at \in {"idle", "landing"}
         \/ agent'.at = "detached" /\ agent'.call = c /\ plan'[c].detached
  BY PlanStays
<1> HIDE DEF u
<1>2. gateway' = "up" /\ \A s \in Sweeper : sweep'[s].todo = {}
  BY <1>1 DEF FreshInv
<1>3. agent'.at \in {"detached", "progress"} => plan'[agent'.call].detached
  <2>1. agent.at \in {"detached", "progress"} => agent.call \in Call /\ plan[agent.call].detached
    BY DEF TypeInv, AgentInv, FreshInv
  <2> QED BY <1>1, <2>1 DEF OnlyPlan
<1>4. ASSUME NEW t \in Call, \A d \in Call : plan'[d].task = t => ~plan'[d].detached
      PROVE  Fresh(t)'
  <2>1. NeverDetached(t)
    BY <1>1, <1>4 DEF NeverDetached, OnlyPlan, u
  <2>2. Fresh(t)
    BY <2>1 DEF FreshInv
  <2>3. CASE t # u
    <3>1. \A d \in Call : plan'[d].task = t => plan'[d] = plan[d]
      BY <1>1, <2>3 DEF OnlyPlan
    <3> QED BY <1>1, <2>2, <2>3, <3>1 DEF Fresh, Active
  <2>4. CASE t = u
    <3>1. Fresh(plan[c].task) /\ ~plan'[c].detached
      BY <1>1, <1>4, <2>2, <2>4 DEF u
    <3>2. /\ t \notin torn'
          /\ plan'[c].at \in {"asking", "ready", "header", "replace", "steps"} =>
                /\ plan'[c].prior = DoneSteps(block'[t].steps)
                /\ plan'[c].at = "replace" => plan'[c].copy = block'[t].steps
      BY <2>4, <3>1, PlanFresh DEF u
    <3>3. ~plan[c].detached
      BY <1>1, <3>1
    <3>4. \/ agent.at \in {"planning", "landing"} /\ agent.call = c
          \/ plan[c].at \in {"landed", "dead"}
      BY <1>1, <3>3, ActiveFact, Typed DEF PlanRecord
    <3>5. plan[c].at \notin {"landed", "dead"}
      BY WorkerReadyEffect, WakeEffect, PlanReads, HeaderWriteEffect, StepsWriteEffect,
         StepsFailEffect, MarkWriteEffect DEF PlanStep
    <3>6. agent.at \in {"planning", "landing"} /\ agent.call = c
      BY <3>4, <3>5
    <3>7. agent'.at \notin {"strike", "stamp", "checkpoint"}
      BY <1>1, <3>6
    <3>8. ASSUME NEW d \in Call, d # c, plan'[d].task = t, Active(d)'
          PROVE  FALSE
      <4>1. plan'[d] = plan[d] /\ ~plan[d].detached /\ Active(d)
        BY <1>1, <1>4, <3>8 DEF OnlyPlan, Active
      <4>2. agent.call = d
        BY <4>1, ActiveFact DEF Active
      <4> QED BY <3>6, <3>8, <4>2
    <3>9. ASSUME NEW d \in Call, plan'[d].task = t, Active(d)'
          PROVE  /\ plan'[d].prior = DoneSteps(block'[t].steps)
                 /\ plan'[d].at = "replace" => plan'[d].copy = block'[t].steps
      <4>1. d = c
        BY <3>8, <3>9
      <4> QED BY <3>2, <3>9, <4>1 DEF Active
    <3> QED BY <3>2, <3>7, <3>9 DEF Fresh
  <2> QED BY <2>3, <2>4
<1> QED BY <1>2, <1>3, <1>4 DEF FreshInv, NeverDetached

\* A write of the agent to a block, from the copy it has read.
LEMMA AgentWrites ==
    ASSUME TypeInv, mishaps = 0, mishaps' = 0,
           \/ \E failed \in BOOLEAN : StrikeWrite(failed)
           \/ StampWrite
           \/ \E status \in {"open", "closed"} : CheckpointWrite(status)
    PROVE  /\ agent.at \in {"strike", "stamp", "checkpoint"} /\ agent.task \in Call
           /\ agent'.at = "idle" /\ UNCHANGED <<plan, gateway, sweep>>
           /\ \A t \in Call : t # agent.task => block'[t] = block[t]
           /\ torn' \subseteq torn \cup {agent.task}
           /\ agent.task \in torn' =>
                 agent.task \in torn \/ agent.copy # block[agent.task].steps
<1>1. CASE \E failed \in BOOLEAN : StrikeWrite(failed)
  <2>1. PICK failed \in BOOLEAN : StrikeWrite(failed)
    BY <1>1
  <2>2. /\ agent.at = "strike" /\ agent.task \in Call /\ agent'.at = "idle"
        /\ UNCHANGED <<plan, gateway, sweep>> /\ torn' \subseteq torn \cup {agent.task}
    BY <2>1, StrikeWriteEffect DEF AgentRests
  <2>3. \/ UNCHANGED <<block, torn>>
        \/ /\ OnlyBlock(agent.task)
           /\ agent.task \in torn' <=> agent.task \in torn \/ agent.copy # block[agent.task].steps
    <3> DEFINE copy == agent.copy
               t == agent.task
               n == agent.next
               steps == [copy EXCEPT ![n].state = IF failed THEN "failed" ELSE "done"]
               h == <<t, n>>
    <3>1. \/ UNCHANGED <<block, torn, struck, issued, lost>>
          \/ /\ OnlyBlock(t) /\ block'[t].steps = steps
             /\ t \in torn' <=> t \in torn \/ copy # block[t].steps
             /\ struck' = IF failed THEN struck ELSE struck \cup {h}
             /\ issued' = issued \ {h} /\ lost' = lost \ {h}
      BY <2>1, StrikeWriteEffect
    <3> HIDE DEF steps, h
    <3> QED BY <3>1
  <2> QED BY <2>2, <2>3 DEF OnlyBlock
<1>2. CASE StampWrite
  <2>1. /\ agent.at = "stamp" /\ agent.task \in Call /\ agent'.at = "idle"
        /\ UNCHANGED <<plan, gateway, sweep>> /\ torn' \subseteq torn \cup {agent.task}
    BY <1>2, StampWriteEffect DEF AgentRests
  <2>2. \/ UNCHANGED <<block, torn>>
        \/ /\ OnlyBlock(agent.task)
           /\ agent.task \in torn' <=> agent.task \in torn \/ agent.copy # block[agent.task].steps
    BY <1>2, StampWriteEffect
  <2> QED BY <2>1, <2>2 DEF OnlyBlock
<1>3. CASE \E status \in {"open", "closed"} : CheckpointWrite(status)
  <2>1. /\ agent.at = "checkpoint" /\ agent.task \in Call /\ agent'.at = "idle"
        /\ UNCHANGED <<plan, gateway, sweep>> /\ Saves(agent.task, agent.copy)
    BY <1>3, CheckpointWriteEffect DEF AgentRests
  <2> QED BY <2>1 DEF Saves, OnlyBlock
<1> QED BY <1>1, <1>2, <1>3

LEMMA FreshAgentStep ==
    ASSUME TypeInv, HandInv, BegunInv, FreshInv, mishaps = 0, mishaps' = 0,
           AgentStep \/ ProgressRead \/ ProgressWrite \/ UNCHANGED ledgerVars
    PROVE  FreshInv'
<1>1. CASE UNCHANGED ledgerVars
  BY <1>1 DEF ledgerVars, FreshInv, NeverDetached, Fresh, Active
<1>2. CASE \E c \in Call : PlannerNew(c) \/ PlannerRevise(c)
  <2>1. PICK c \in Call : PlannerNew(c) \/ PlannerRevise(c)
    BY <1>2
  <2>2. PICK t \in Call : Starts(c, t)
    BY <2>1, PlannerEffect
  <2>3. plan[c].at = "unused" /\ block[c] = NoBlock /\ ~plan[c].detached
    BY <2>2 DEF Starts, BegunInv, Begun
  <2>4. plan'[c].prior = DoneSteps(block[t].steps)
    <3>1. DoneSteps(NoSteps) = NoSteps
      BY DEF DoneSteps, NoSteps, NoStep
    <3> QED BY <2>2, <2>3, <3>1 DEF Starts, NoBlock
  <2>5. ASSUME NEW u \in Call, \A d \in Call : plan'[d].task = u => ~plan'[d].detached
        PROVE  Fresh(u)'
    <3>1. NeverDetached(u)
      BY <2>2, <2>3, <2>5 DEF Starts, OnlyPlan, NeverDetached
    <3>2. Fresh(u)
      BY <3>1 DEF FreshInv
    <3>3. /\ UNCHANGED <<block, torn>> /\ agent'.at = "planning"
          /\ plan'[c].at = "asking" /\ plan'[c].task = t
      BY <2>2 DEF Starts
    <3>4. ASSUME NEW d \in Call, plan'[d].task = u, Active(d)'
          PROVE  /\ plan'[d].prior = DoneSteps(block'[u].steps)
                 /\ plan'[d].at = "replace" => plan'[d].copy = block'[u].steps
      <4>1. CASE d = c
        BY <2>4, <3>3, <3>4, <4>1
      <4>2. CASE d # c
        BY <2>2, <3>2, <3>3, <3>4, <4>2 DEF Starts, OnlyPlan, Fresh, Active
      <4> QED BY <4>1, <4>2
    <3> QED BY <3>2, <3>3, <3>4 DEF Fresh
  <2> QED BY <2>2, <2>5 DEF Starts, FreshInv, NeverDetached
<1>3. CASE \/ \E c \in Call : ResumeRead(c)
           \/ StrikeRead \/ CheckpointRead \/ Handoff \/ StampRead \/ ProgressRead
  <2>1. /\ UNCHANGED <<block, plan, gateway, sweep, torn>>
        /\ agent'.at \in {"strike", "stamp", "checkpoint"} => agent'.copy = block[agent'.task].steps
        /\ agent'.at \in {"detached", "progress"} => agent.at = "detached" /\ agent'.call = agent.call
    BY <1>3, ResumeReadEffect, StrikeReadEffect, CheckpointReadEffect, HandoffEffect,
       StampReadEffect, ProgressReadEffect DEF AgentRests
  <2>2. ASSUME NEW t \in Call, NeverDetached(t)'
        PROVE  Fresh(t)'
    <3>1. Fresh(t)
      BY <2>1, <2>2 DEF NeverDetached, FreshInv
    <3> QED BY <2>1, <3>1 DEF Fresh, Active
  <2> QED BY <2>1, <2>2 DEF FreshInv
<1>4. CASE \/ \E failed \in BOOLEAN : StrikeWrite(failed)
           \/ StampWrite
           \/ \E status \in {"open", "closed"} : CheckpointWrite(status)
  <2> DEFINE w == agent.task
  <2>1. /\ agent.at \in {"strike", "stamp", "checkpoint"} /\ w \in Call
        /\ agent'.at = "idle" /\ UNCHANGED <<plan, gateway, sweep>>
        /\ \A t \in Call : t # w => block'[t] = block[t]
        /\ torn' \subseteq torn \cup {w}
        /\ w \in torn' => w \in torn \/ agent.copy # block[w].steps
    BY <1>4, AgentWrites
  <2>2. ASSUME NEW t \in Call, NeverDetached(t)'
        PROVE  Fresh(t)'
    <3>1. NeverDetached(t)
      BY <2>1, <2>2 DEF NeverDetached
    <3>2. Fresh(t)
      BY <3>1 DEF FreshInv
    <3>3. t \notin torn'
      BY <2>1, <3>2 DEF Fresh
    <3>4. ASSUME NEW d \in Call, plan[d].task = t, Active(d)
          PROVE  t # w
      <4>1. ~plan[d].detached
        BY <3>1, <3>4 DEF NeverDetached
      <4>2. agent.at \in {"planning", "landing"}
        BY <3>4, <4>1, ActiveFact DEF Active
      <4> QED BY <2>1, <4>2
    <3> QED BY <2>1, <3>2, <3>3, <3>4 DEF Fresh, Active
  <2> QED BY <2>1, <2>2 DEF FreshInv
<1>5. CASE ProgressWrite
  <2> DEFINE w == plan[agent.call].task
  <2>1. /\ agent.at = "progress" /\ agent.call \in Call /\ w \in Call /\ agent'.at = "idle"
        /\ Saves(w, agent.copy) /\ UNCHANGED <<plan, gateway, sweep>>
    BY <1>5, ProgressWriteEffect DEF AgentRests
  <2>2. plan[agent.call].detached
    BY <2>1 DEF FreshInv
  <2>3. ASSUME NEW t \in Call, NeverDetached(t)'
        PROVE  Fresh(t)'
    <3>1. NeverDetached(t) /\ t # w
      BY <2>1, <2>2, <2>3 DEF NeverDetached
    <3>2. Fresh(t)
      BY <3>1 DEF FreshInv
    <3>3. block'[t] = block[t] /\ torn' \subseteq torn \cup {w}
      BY <2>1, <3>1 DEF Saves, OnlyBlock
    <3> QED BY <2>1, <3>1, <3>2, <3>3 DEF Fresh, Active
  <2> QED BY <2>1, <2>3 DEF FreshInv
<1> QED BY <1>1, <1>2, <1>3, <1>4, <1>5 DEF AgentStep

LEMMA CalmStep ==
    TypeInv /\ TypeInv' /\ HandInv /\ CalmInv /\ [LedgerNext]_ledgerVars => CalmInv'
<1> SUFFICES ASSUME TypeInv, TypeInv', HandInv, CalmInv, [LedgerNext]_ledgerVars, mishaps' = 0
             PROVE  BegunInv' /\ FreshInv'
  BY DEF CalmInv
<1>1. /\ mishaps = 0 /\ BegunInv /\ FreshInv
      /\ \/ \E c \in Call : PlanStep(c) /\ ~StepsFail(c)
         \/ AgentStep \/ ProgressRead \/ ProgressWrite \/ UNCHANGED ledgerVars
  BY CalmCases
<1>2. CASE \E c \in Call : PlanStep(c) /\ ~StepsFail(c)
  BY <1>1, <1>2, PlanBegins, BeginsKeeps, FreshPlanStep
<1>3. CASE AgentStep \/ ProgressRead \/ ProgressWrite \/ UNCHANGED ledgerVars
  BY <1>1, <1>3, AgentBegins, BeginsKeeps, FreshAgentStep
<1> QED BY <1>1, <1>2, <1>3

\* A torn block has had a plan that was detached, or something failed or came up beside the
\* gateway: without these no outdated copy is ever written.
THEOREM TornForAReason == LedgerSpec => []TornOnlyByRaceOrFault
<1>1. LedgerInit => HandInv /\ CalmInv
  <2> SUFFICES ASSUME LedgerInit
               PROVE  HandInv /\ CalmInv
    OBVIOUS
  <2>1. /\ NoPlan.at = "unused" /\ NoPlan.detached = FALSE /\ Idle.at = "idle"
        /\ Idle.view.task = NoCall /\ NoSweep.todo = {} /\ NoCall \notin Call
    BY LedgerAssumption DEF NoPlan, Idle, NoView, NoSweep
  <2>2. HandInv
    BY <2>1 DEF LedgerInit, HandInv, Hand
  <2>3. BegunInv
    BY <2>1 DEF LedgerInit, BegunInv, Begun
  <2>4. FreshInv
    BY <2>1 DEF LedgerInit, FreshInv, Fresh, Active
  <2> QED BY <2>2, <2>3, <2>4 DEF CalmInv
<1>2. TypeInv /\ CalmInv => TornOnlyByRaceOrFault
  <2> SUFFICES ASSUME TypeInv, CalmInv, NEW t \in torn
               PROVE  (\E c \in Call : plan[c].task = t /\ plan[c].detached) \/ mishaps > 0
    BY DEF TornOnlyByRaceOrFault
  <2>1. t \in Call /\ (mishaps = 0 \/ mishaps > 0)
    BY Typed, LedgerAssumption
  <2> QED BY <2>1 DEF CalmInv, FreshInv, NeverDetached, Fresh
<1>3. TypeInv /\ HandInv /\ CalmInv /\ [LedgerNext]_ledgerVars => TypeInv' /\ HandInv' /\ CalmInv'
  BY TypeStep, HandStep, CalmStep
<1> QED BY TypeInit, <1>1, <1>2, <1>3, PTL DEF LedgerSpec

----------------------------------------------------------------------------
(* A plan is worked through in order. *)

Working == {"step", "revise", "own"}

Before(steps, n) == \A m \in StepNo : m < n => steps[m].state = "done"

\* The steps of a block: those that are done, at most one that has failed, those to come, none.
Lined(steps) ==
    \A n \in StepNo :
        /\ steps[n].state \in {"done", "failed"} => Before(steps, n)
        /\ steps[n].state # "absent" => \A m \in StepNo : m < n => steps[m].state # "absent"
        /\ steps[n].state = "absent" => steps[n] = NoStep

AllDone(steps) == \A n \in StepNo : steps[n].state \in {"absent", "done"}

GoesOn(steps, prior) == \E n \in StepNo : steps[n].state = "done" /\ prior[n].state # "done"

\* What a plan was made from is the beginning of the block.
Made(prior) == \A n \in StepNo : prior[n] # NoStep => prior[n].state = "done" /\ Before(prior, n)

Good(row) ==
    /\ Lined(row.steps)
    /\ Before(row.steps, row.next)
    /\ row.kind = "complete" => AllDone(row.steps) /\ GoesOn(row.steps, NoSteps)

\* The step the agent holds is the next one, and a block it works on is not complete.
Seen(row, view) ==
    /\ Before(row.steps, view.next)
    /\ view.kind \in Working => row.kind # "complete"

\* A block that is complete went on after the plan was begun, whose landing then tears it.
Planned(row, prior) ==
    /\ Made(prior)
    /\ \A n \in StepNo : prior[n].state = "done" => row.steps[n].state = "done"
    /\ row.kind = "complete" => GoesOn(row.steps, prior)

Orderly(t) ==
    /\ Good(block[t])
    /\ agent.view.task = t => Seen(block[t], agent.view)
    /\ agent.at = "strike" /\ agent.task = t => Before(block[t].steps, agent.next)
    /\ \A c \in Call : Active(c) /\ plan[c].task = t => Planned(block[t], plan[c].prior)

\* The agent's own checkpoint is of the block it works on.
CheckpointHeld == agent.at = "checkpoint" => agent.task = agent.view.task

OrderInv == CheckpointHeld /\ \A t \in Call \ torn : Orderly(t)

\* What is done stays done, and no block becomes complete.
Continues(row, new) ==
    /\ \A n \in StepNo : row.steps[n].state = "done" => new.steps[n].state = "done"
    /\ new.kind = "complete" => row.kind = "complete"

LEMMA ContinuesKeeps ==
    ASSUME NEW row, NEW new, Continues(row, new)
    PROVE  /\ \A n : Before(row.steps, n) => Before(new.steps, n)
           /\ \A view : Seen(row, view) => Seen(new, view)
           /\ \A prior : Planned(row, prior) => Planned(new, prior)
<1>1. ASSUME NEW n, Before(row.steps, n)
      PROVE  Before(new.steps, n)
  BY <1>1 DEF Continues, Before
<1>2. ASSUME NEW view, Seen(row, view)
      PROVE  Seen(new, view)
  <2>1. Before(new.steps, view.next)
    BY <1>1, <1>2 DEF Seen
  <2> QED BY <1>2, <2>1 DEF Seen, Continues
<1>3. ASSUME NEW prior, Planned(row, prior)
      PROVE  Planned(new, prior)
  BY <1>3 DEF Planned, Continues, GoesOn
<1> QED BY <1>1, <1>2, <1>3

LEMMA BeforeFirst ==
    ASSUME NEW steps
    PROVE  Before(steps, 0)
BY LedgerAssumption DEF Before, StepNo

\* Marking a step does not change what is done.
LEMMA MarkedLined ==
    ASSUME NEW steps, NEW new, Lined(steps),
           \A n \in StepNo : /\ new[n].state = steps[n].state
                             /\ steps[n].state = "absent" => new[n] = steps[n]
    PROVE  Lined(new) /\ \A n : Before(steps, n) => Before(new, n)
<1>1. \A n : Before(steps, n) => Before(new, n)
  BY DEF Before
<1> QED BY <1>1 DEF Lined

LEMMA MarkedGood ==
    ASSUME NEW row, NEW new, Good(row), new.kind = row.kind, new.next = row.next,
           \A n \in StepNo : /\ new.steps[n].state = row.steps[n].state
                             /\ row.steps[n].state = "absent" => new.steps[n] = row.steps[n]
    PROVE  Good(new) /\ Continues(row, new)
<1>1. Lined(new.steps) /\ Before(new.steps, new.next)
  BY MarkedLined DEF Good
<1>2. new.kind = "complete" => AllDone(new.steps) /\ GoesOn(new.steps, NoSteps)
  BY DEF Good, AllDone, GoesOn
<1> QED BY <1>1, <1>2 DEF Good, Continues

\* A checkpoint changes the text of a block and none of its steps.
LEMMA RewrittenGood ==
    ASSUME NEW row, NEW new, Good(row), new.steps = row.steps, new.kind # "complete",
           Before(row.steps, new.next)
    PROVE  Good(new) /\ Continues(row, new)
BY DEF Good, Continues

----------------------------------------------------------------------------
(* A step is struck. *)

LEMMA StruckLined ==
    ASSUME NEW steps \in Steps, NEW n \in StepNo, NEW state \in {"done", "failed"},
           Lined(steps), Before(steps, n), steps[n].state \in {"pending", "failed"},
           NEW new, new[n].state = state, \A m \in StepNo : m # n => new[m] = steps[m]
    PROVE  /\ Lined(new)
           /\ \A m \in StepNo : steps[m].state = "done" => new[m].state = "done"
           /\ state = "done" => \A m \in StepNo : new[m].state # "failed"
<1>1. new[n].state = state /\ \A m \in StepNo : m # n => new[m] = steps[m]
  OBVIOUS
<1>2. \A m \in StepNo : m \in Nat
  BY LedgerAssumption DEF StepNo
<1>3. ASSUME NEW m \in StepNo, m # n, steps[m].state \in {"done", "failed"}
      PROVE  m < n
  <2>1. ~(n < m)
    BY <1>3 DEF Lined, Before
  <2> QED BY <1>2, <1>3, <2>1
<1>4. ASSUME NEW m \in StepNo, steps[m].state = "done"
      PROVE  new[m].state = "done"
  BY <1>1, <1>4
<1>5. ASSUME NEW m \in StepNo, new[m].state \in {"done", "failed"}
      PROVE  Before(new, m)
  <2>1. CASE m = n
    BY <1>4, <2>1 DEF Before
  <2>2. CASE m # n
    BY <1>1, <1>4, <1>5, <2>2 DEF Lined, Before
  <2> QED BY <2>1, <2>2
<1>6. \A m \in StepNo : new[m].state # "absent" <=> steps[m].state # "absent"
  BY <1>1
<1>7. \A m \in StepNo : new[m].state = "absent" => new[m] = NoStep
  BY <1>1 DEF Lined
<1>8. Lined(new)
  BY <1>5, <1>6, <1>7 DEF Lined
<1>9. ASSUME state = "done", NEW m \in StepNo
      PROVE  new[m].state # "failed"
  <2>1. CASE m = n
    BY <1>1, <1>9, <2>1
  <2>2. CASE m # n
    BY <1>1, <1>3, <2>2 DEF Before
  <2> QED BY <2>1, <2>2
<1> QED BY <1>4, <1>8, <1>9

LEMMA FirstPendingBefore ==
    ASSUME NEW steps \in Steps, Lined(steps), \A m \in StepNo : steps[m].state # "failed"
    PROVE  Before(steps, FirstPending(steps))
<1> DEFINE S == InState(steps, "pending")
<1>1. CASE S = {}
  BY <1>1, BeforeFirst DEF FirstPending
<1>2. CASE S # {}
  <2>1. S \in SUBSET Nat /\ S \subseteq StepNo
    BY LedgerAssumption DEF InState, StepNo
  <2>2. PICK x \in S : \A y \in S : x =< y
    BY <1>2, <2>1, LeastNatural
  <2>3. FirstPending(steps) \in S /\ \A y \in S : FirstPending(steps) =< y
    <3>1. FirstPending(steps) = Min(S)
      BY <1>2 DEF FirstPending
    <3> HIDE DEF S
    <3> QED BY <2>2, <3>1 DEF Min
  <2>4. ASSUME NEW m \in StepNo, m < FirstPending(steps)
        PROVE  steps[m].state = "done"
    <3>1. m \notin S
      BY <2>1, <2>3, <2>4, LedgerAssumption DEF StepNo
    <3>2. steps[m].state # "pending"
      BY <3>1 DEF InState
    <3>3. steps[FirstPending(steps)].state = "pending" /\ FirstPending(steps) \in StepNo
      BY <2>3 DEF InState
    <3>4. steps[m].state # "absent"
      <4> HIDE DEF S
      <4> QED BY <2>4, <3>3 DEF Lined
    <3> QED BY <3>2, <3>4 DEF Steps
  <2> QED BY <2>4 DEF Before
<1> QED BY <1>1, <1>2

----------------------------------------------------------------------------
(* A plan is made from what is done, and goes on after it. *)

LEMMA DoneMade ==
    ASSUME NEW steps, Lined(steps)
    PROVE  Made(DoneSteps(steps))
BY DEF Made, DoneSteps, Lined, Before, NoStep

LEMMA NoneMade == Made(NoSteps)
BY DEF Made, NoSteps

\* A plan made from nothing, or from what is done, precedes the block it was made from.
LEMMA StartsPlanned ==
    ASSUME NEW row, Good(row)
    PROVE  /\ Planned(row, NoSteps)
           /\ row.kind # "complete" => Planned(row, DoneSteps(row.steps))
<1>1. Planned(row, NoSteps)
  BY NoneMade DEF Planned, Good, NoSteps, NoStep
<1>2. ASSUME row.kind # "complete"
      PROVE  Planned(row, DoneSteps(row.steps))
  <2>1. Made(DoneSteps(row.steps))
    BY DoneMade DEF Good
  <2> QED BY <1>2, <2>1 DEF Planned, DoneSteps, NoStep
<1> QED BY <1>1, <1>2

LEMMA HighestIsThere ==
    ASSUME NEW steps \in Steps, Highest(steps) # 0
    PROVE  Highest(steps) \in StepNo /\ steps[Highest(steps)].state # "absent"
<1> DEFINE T == {n \in StepNo : steps[n].state # "absent"}
           S == T \cup {0}
<1>1. S \in SUBSET (0..MaxStep) /\ S # {} /\ MaxStep \in Nat
  BY LedgerAssumption DEF StepNo
<1>2. Highest(steps) = Max(S)
  BY DEF Highest
<1>3. Max(S) \in S
  <2> HIDE DEF S
  <2> QED BY <1>1, MaxFact
<1>4. Highest(steps) \in T
  BY <1>2, <1>3
<1> QED BY <1>4

LEMMA MadeShape ==
    ASSUME NEW prior \in Steps, Made(prior), NEW n \in StepNo
    PROVE  /\ n =< Highest(prior) => prior[n].state = "done"
           /\ n > Highest(prior) => prior[n] = NoStep
<1>1. n \in Nat /\ n # 0 /\ Highest(prior) \in Nat
  BY HighestFact, LedgerAssumption DEF StepNo
<1>2. ASSUME n =< Highest(prior)
      PROVE  prior[n].state = "done"
  <2>1. Highest(prior) \in StepNo /\ prior[Highest(prior)].state # "absent"
    BY <1>1, <1>2, HighestIsThere
  <2>2. prior[Highest(prior)] # NoStep
    BY <2>1 DEF NoStep
  <2>3. prior[Highest(prior)].state = "done" /\ Before(prior, Highest(prior))
    BY <2>1, <2>2 DEF Made
  <2> QED BY <1>1, <1>2, <2>3 DEF Before
<1>3. ASSUME n > Highest(prior)
      PROVE  prior[n] = NoStep
  <2>1. prior[n].state = "absent"
    BY <1>1, <1>3, HighestFact
  <2> QED BY <2>1 DEF Made
<1> QED BY <1>2, <1>3

LEMMA NewStepsLined ==
    ASSUME TypeInv, NEW c \in Call, Made(plan[c].prior)
    PROVE  Lined(NewSteps(c)) /\ Before(NewSteps(c), FirstNew(c))
<1> DEFINE prior == plan[c].prior
           high == Highest(prior)
           last == plan[c].last
           new == NewSteps(c)
<1>1. prior \in Steps /\ last \in Nat /\ Made(prior)
  BY Typed, LedgerAssumption DEF PlanRecord
<1>2. high \in Nat
  <2> HIDE DEF prior
  <2> QED BY <1>1, HighestFact, LedgerAssumption
<1>3. ASSUME NEW n \in StepNo
      PROVE  /\ n \in Nat /\ n # 0
             /\ n =< high => new[n].state = "done"
             /\ n > high /\ n =< last => new[n].state = "pending"
             /\ n > high /\ n > last => new[n] = NoStep
  <2>1. n \in Nat /\ n # 0
    BY LedgerAssumption DEF StepNo
  <2>2. (n =< high => prior[n].state = "done") /\ (n > high => prior[n] = NoStep)
    <3> HIDE DEF prior
    <3> QED BY <1>1, MadeShape
  <2>3. new[n] = IF n > high /\ n =< last THEN [state |-> "pending", stamp |-> "none"] ELSE prior[n]
    BY DEF NewSteps
  <2> HIDE DEF new, high, prior, last
  <2> QED BY <1>1, <1>2, <2>1, <2>2, <2>3
<1>4. FirstNew(c) = high + 1
  BY DEF FirstNew
<1> HIDE DEF new, high, last, prior
<1>5. NoStep.state = "absent"
  BY DEF NoStep
<1>6. ASSUME NEW n \in StepNo
      PROVE  /\ new[n].state \in {"done", "failed"} => Before(new, n)
             /\ new[n].state # "absent" => \A m \in StepNo : m < n => new[m].state # "absent"
             /\ new[n].state = "absent" => new[n] = NoStep
  <2>1. CASE n =< high
    BY <1>1, <1>2, <1>3, <2>1 DEF Before
  <2>2. CASE n > high /\ n =< last
    BY <1>1, <1>2, <1>3, <2>2
  <2>3. CASE n > high /\ n > last
    BY <1>1, <1>2, <1>3, <1>5, <2>3
  <2> QED BY <1>1, <1>2, <1>3, <2>1, <2>2, <2>3
<1>7. Lined(new)
  BY <1>6 DEF Lined
<1>8. Before(new, FirstNew(c))
  BY <1>2, <1>3, <1>4 DEF Before
<1> QED BY <1>7, <1>8 DEF new

----------------------------------------------------------------------------
(* What a step may do to a block that is in order. *)

RowGoesOn(t) == Good(block[t])' /\ Continues(block[t], block'[t])

ViewFollows(t) ==
    \/ agent'.view = agent.view
    \/ agent'.view.task # t
    \/ Seen(block'[t], agent'.view)

HandFollows(t) ==
    \/ agent'.at # "strike"
    \/ agent.at = "strike" /\ agent'.task = agent.task /\ agent'.next = agent.next
    \/ agent'.task # t
    \/ Before(block'[t].steps, agent'.next)

PlansFollow(t) ==
    \A c \in Call : Active(c)' /\ plan'[c].task = t =>
        \/ Active(c) /\ plan[c].task = t /\ plan'[c].prior = plan[c].prior
        \/ Planned(block'[t], plan'[c].prior)

LEMMA OrderlyKept ==
    ASSUME NEW t \in Call, Orderly(t), RowGoesOn(t), ViewFollows(t), HandFollows(t), PlansFollow(t)
    PROVE  Orderly(t)'
<1> DEFINE row == block[t]
           new == block'[t]
<1>1. Good(new) /\ Continues(row, new)
  BY DEF RowGoesOn
<1> HIDE DEF row, new
<1>2. /\ \A n : Before(row.steps, n) => Before(new.steps, n)
      /\ \A view : Seen(row, view) => Seen(new, view)
      /\ \A prior : Planned(row, prior) => Planned(new, prior)
  BY <1>1, ContinuesKeeps
<1>3. agent'.view.task = t => Seen(new, agent'.view)
  BY <1>2 DEF ViewFollows, Orderly, row, new
<1>4. agent'.at = "strike" /\ agent'.task = t => Before(new.steps, agent'.next)
  BY <1>2 DEF HandFollows, Orderly, row, new
<1>5. \A c \in Call : Active(c)' /\ plan'[c].task = t => Planned(new, plan'[c].prior)
  BY <1>2 DEF PlansFollow, Orderly, row, new
<1> QED BY <1>1, <1>3, <1>4, <1>5 DEF Orderly, new

LEMMA RowKept ==
    ASSUME NEW t \in Call, Orderly(t), block'[t] = block[t]
    PROVE  RowGoesOn(t)
BY DEF RowGoesOn, Orderly, Continues

LEMMA RowRewritten ==
    ASSUME TypeInv, NEW t \in Call, NEW u \in Call, Orderly(t), t \notin torn',
           NEW copy \in Steps, NEW status, NEW kind, NEW next, Replace(u, copy, status, kind, next),
           kind # "complete", u = t => Before(block[t].steps, next)
    PROVE  RowGoesOn(t)
<1> DEFINE row == [status |-> status, kind |-> kind, next |-> next, steps |-> copy]
<1>1. block' = [block EXCEPT ![u] = row] /\ block \in [Call -> BlockRecord]
  BY Typed DEF Replace
<1>2. CASE u # t
  <2>1. block'[t] = block[t]
    BY <1>1, <1>2
  <2> QED BY <2>1, RowKept
<1>3. CASE u = t
  <2>1. block'[t] = row
    BY <1>1, <1>3
  <2>2. copy = block[t].steps
    BY <1>3 DEF Replace, Tear
  <2>3. row.steps = block[t].steps /\ row.kind # "complete" /\ Before(block[t].steps, row.next)
    BY <1>3, <2>2
  <2>4. Good(block[t])
    BY DEF Orderly
  <2> HIDE DEF row
  <2>5. Good(row) /\ Continues(block[t], row)
    BY <2>3, <2>4, RewrittenGood
  <2> QED BY <2>1, <2>5 DEF RowGoesOn
<1> QED BY <1>2, <1>3

LEMMA RowMarked ==
    ASSUME TypeInv, NEW t \in Call, NEW u \in Call, Orderly(t), NEW steps,
           block' = [block EXCEPT ![u].steps = steps],
           u = t => \A n \in StepNo : /\ steps[n].state = block[t].steps[n].state
                                      /\ block[t].steps[n].state = "absent"
                                            => steps[n] = block[t].steps[n]
    PROVE  RowGoesOn(t)
<1>1. block \in [Call -> BlockRecord]
  BY Typed
<1>2. CASE u # t
  <2>1. block'[t] = block[t]
    BY <1>1, <1>2
  <2> QED BY <2>1, RowKept
<1>3. CASE u = t
  <2>1. block'[t].steps = steps /\ block'[t].kind = block[t].kind /\ block'[t].next = block[t].next
    BY <1>1, <1>3 DEF BlockRecord
  <2>2. Good(block[t])
    BY DEF Orderly
  <2>3. Good(block'[t]) /\ Continues(block[t], block'[t])
    BY <1>3, <2>1, <2>2, MarkedGood
  <2> QED BY <2>3 DEF RowGoesOn
<1> QED BY <1>2, <1>3

\* The agent goes on with what it holds, or holds nothing.
Holds == agent'.view = agent.view \/ agent'.view = NoView

LEMMA HoldsFollows ==
    ASSUME NEW t \in Call, Holds
    PROVE  ViewFollows(t)
BY LedgerAssumption DEF Holds, ViewFollows, NoView

LEMMA PlansStay ==
    ASSUME NEW t \in Call, UNCHANGED plan
    PROVE  PlansFollow(t)
BY DEF PlansFollow, Active

LEMMA PlanStepFollows ==
    ASSUME TypeInv, NEW c \in Call, PlanStep(c), NEW t \in Call
    PROVE  PlansFollow(t)
<1>1. OnlyPlan(c) /\ plan'[c].task = plan[c].task
  BY WorkerReadyEffect, WakeEffect, PlanReads, HeaderWriteEffect, StepsWriteEffect,
     StepsFailEffect, MarkWriteEffect DEF PlanStep
<1>2. Active(c)' => Active(c) /\ plan'[c].prior = plan[c].prior
  <2>1. CASE WorkerReady(c)
    BY <2>1, WorkerReadyEffect DEF Active
  <2>2. CASE Wake(c)
    BY <2>2, WakeEffect DEF Active
  <2>3. CASE HeaderRead(c) \/ MarkRead(c)
    BY <2>3, PlanReads DEF Active
  <2>4. CASE HeaderWrite(c)
    BY <2>4, HeaderWriteEffect DEF Active
  <2>5. CASE StepsWrite(c) \/ StepsFail(c) \/ MarkWrite(c)
    BY <2>5, StepsWriteEffect, StepsFailEffect, MarkWriteEffect DEF Active
  <2> QED BY <2>1, <2>2, <2>3, <2>4, <2>5 DEF PlanStep
<1>3. ASSUME NEW d \in Call, d # c
      PROVE  plan'[d] = plan[d]
  BY <1>1, <1>3 DEF OnlyPlan
<1>4. ASSUME NEW d \in Call, Active(d)', plan'[d].task = t
      PROVE  Active(d) /\ plan[d].task = t /\ plan'[d].prior = plan[d].prior
  <2>1. CASE d = c
    BY <1>1, <1>2, <1>4, <2>1
  <2>2. CASE d # c
    BY <1>3, <1>4, <2>2 DEF Active
  <2> QED BY <2>1, <2>2
<1> QED BY <1>4 DEF PlansFollow

LEMMA PlanStepHolds ==
    ASSUME TypeInv, NEW c \in Call, PlanStep(c)
    PROVE  /\ agent' = agent \/ agent'.at \notin {"strike", "checkpoint"}
           /\ StepsWrite(c) \/ Holds
<1>1. CASE WorkerReady(c) \/ HeaderRead(c) \/ MarkRead(c) \/ HeaderWrite(c) \/ MarkWrite(c)
  BY <1>1, WorkerReadyEffect, PlanReads, HeaderWriteEffect, MarkWriteEffect DEF Holds
<1>2. CASE Wake(c)
  <2>1. agent'.at \in {"landing", "detached", "idle"}
    BY <1>2, WakeEffect DEF AgentRests
  <2>2. CASE Return(NoView)
    BY <2>1, <2>2, ReturnedView DEF Holds
  <2>3. CASE ~Return(NoView)
    <3>1. \/ agent' = [agent EXCEPT !.at = "landing"] \/ agent' = [agent EXCEPT !.at = "detached"]
      BY <1>2, <2>3 DEF Wake
    <3>2. agent'.view = agent.view
      BY <3>1, Typed DEF AgentRecord
    <3> QED BY <2>1, <3>2 DEF Holds
  <2> QED BY <2>2, <2>3
<1>3. CASE StepsWrite(c)
  BY <1>3, StepsWriteEffect DEF AgentRests
<1>4. CASE StepsFail(c)
  <2>1. agent' = agent \/ Return(NoView)
    BY <1>4 DEF StepsFail, Landed
  <2>2. agent' = agent \/ AgentRests
    BY <1>4, StepsFailEffect
  <2> QED BY <2>1, <2>2, ReturnedView DEF AgentRests, Holds
<1> QED BY <1>1, <1>2, <1>3, <1>4 DEF PlanStep

\* The header of a landing names the first of the new steps: all before it are done.
LEMMA HeaderBefore ==
    ASSUME TypeInv, NEW c \in Call, NEW row, row.steps \in Steps, Planned(row, plan[c].prior)
    PROVE  Before(row.steps, FirstNew(c))
<1> DEFINE prior == plan[c].prior
<1>1. prior \in Steps /\ Planned(row, prior)
  BY Typed DEF PlanRecord
<1>2. FirstNew(c) = Highest(prior) + 1
  BY DEF FirstNew
<1> HIDE DEF prior
<1>3. Highest(prior) \in Nat
  BY <1>1, HighestFact, LedgerAssumption
<1>4. ASSUME NEW m \in StepNo, m < FirstNew(c)
      PROVE  row.steps[m].state = "done"
  <2>1. m =< Highest(prior)
    BY <1>2, <1>3, <1>4, LedgerAssumption DEF StepNo
  <2>2. Made(prior)
    BY <1>1 DEF Planned
  <2>3. prior[m].state = "done"
    BY <1>1, <2>1, <2>2, MadeShape
  <2> QED BY <1>1, <2>3 DEF Planned
<1> QED BY <1>4 DEF Before

LEMMA PlanStepRow ==
    ASSUME TypeInv, NEW c \in Call, PlanStep(c), ~StepsWrite(c), NEW t \in Call, Orderly(t),
           t \notin torn'
    PROVE  RowGoesOn(t)
<1>1. CASE WorkerReady(c) \/ Wake(c) \/ HeaderRead(c) \/ MarkRead(c) \/ StepsFail(c)
  <2>1. block' = block
    BY <1>1, WorkerReadyEffect, WakeEffect, PlanReads, StepsFailEffect
  <2> QED BY <2>1, RowKept
<1>2. CASE HeaderWrite(c)
  <2> DEFINE u == plan[c].task
             next == FirstNew(c)
  <2>1. plan[c].at = "replace" /\ u \in Call /\ plan[c].copy \in Steps
    BY <1>2, HeaderWriteEffect, Typed DEF PlanRecord
  <2>2. u = t => Before(block[t].steps, next)
    <3>1. block[t].steps \in Steps
      BY AgentTyped
    <3>2. u = t => Planned(block[t], plan[c].prior)
      BY <2>1 DEF Orderly, Active
    <3> QED BY <3>1, <3>2, HeaderBefore
  <2>3. Replace(u, plan[c].copy, "open", "step", next) \/ UNCHANGED block
    BY <1>2 DEF HeaderWrite
  <2> HIDE DEF u, next
  <2> QED BY <2>1, <2>2, <2>3, RowRewritten, RowKept
<1>3. CASE MarkWrite(c)
  <2>1. plan[c].task \in Call /\ plan[c].copy \in Steps
    BY <1>3, MarkWriteEffect, Typed DEF PlanRecord
  <2>2. Replace(plan[c].task, plan[c].copy, "open", "unavailable", 0) \/ UNCHANGED block
    BY <1>3 DEF MarkWrite
  <2> QED BY <2>1, <2>2, BeforeFirst, RowRewritten, RowKept
<1> QED BY <1>1, <1>2, <1>3 DEF PlanStep

\* A landing over what the plan was made from: the block was not complete.
LEMMA LandsRow ==
    ASSUME TypeInv, NEW c \in Call, StepsWrite(c), NEW t \in Call, Orderly(t), t \notin torn'
    PROVE  RowGoesOn(t) /\ ViewFollows(t)
<1> DEFINE u == plan[c].task
           view == [task |-> u, kind |-> "step", next |-> FirstNew(c)]
<1>0. /\ plan[c].at = "steps" /\ u \in Call /\ LandsOn(c, u) /\ OnlyBlock(u)
      /\ block \in [Call -> BlockRecord] /\ \A v \in Call : block[v].steps \in Steps
  BY StepsWriteEffect, Typed, AgentTyped
<1>1. agent' = agent \/ agent'.view = view
  <2>1. agent' = agent \/ Return(view)
    BY DEF StepsWrite, Landed
  <2> HIDE DEF view
  <2> QED BY <2>1, ReturnedView
<1>2. CASE u # t
  <2>1. block'[t] = block[t]
    BY <1>0, <1>2 DEF OnlyBlock
  <2> QED BY <1>1, <1>2, <2>1, RowKept DEF ViewFollows
<1>3. CASE u = t
  <2>1. DoneSteps(block[t].steps) = plan[c].prior /\ Planned(block[t], plan[c].prior)
    BY <1>0, <1>3 DEF LandsOn, Orderly, Active
  <2>2. block[t].kind # "complete"
    BY <2>1 DEF Planned, GoesOn, DoneSteps
  <2>3. Made(plan[c].prior) /\ Good(block[t])
    BY <2>1 DEF Planned, Orderly
  <2>4. Before(block[t].steps, FirstNew(c))
    BY <1>0, <2>1, HeaderBefore
  <2>5. block' = block \/ block' = [block EXCEPT ![t].steps = NewSteps(c)]
    BY <1>3 DEF StepsWrite
  <2>6. /\ block'[t].kind = block[t].kind /\ block'[t].next = block[t].next
        /\ block'[t].steps \in {block[t].steps, NewSteps(c)}
    BY <1>0, <2>5 DEF BlockRecord
  <2>7. \A n \in StepNo : block[t].steps[n].state = "done" => block'[t].steps[n].state = "done"
    BY <1>0, <1>3, LandsKeeps
  <2>8. Lined(block'[t].steps)
    BY <2>3, <2>6, NewStepsLined DEF Good
  <2>9. Before(block'[t].steps, block'[t].next) /\ Before(block'[t].steps, FirstNew(c))
    BY <2>3, <2>4, <2>6, <2>7 DEF Good, Before
  <2>10. RowGoesOn(t)
    BY <2>2, <2>6, <2>7, <2>8, <2>9 DEF RowGoesOn, Good, Continues
  <2>11. Seen(block'[t], view)
    BY <2>2, <2>6, <2>9 DEF Seen
  <2> HIDE DEF view
  <2> QED BY <1>1, <2>10, <2>11 DEF ViewFollows
<1> QED BY <1>2, <1>3

LEMMA PlanOrder ==
    ASSUME TypeInv, NEW c \in Call, PlanStep(c), NEW t \in Call, Orderly(t), t \notin torn'
    PROVE  Orderly(t)'
<1>1. PlansFollow(t)
  BY PlanStepFollows
<1>2. HandFollows(t)
  BY PlanStepHolds DEF HandFollows
<1>3. RowGoesOn(t) /\ ViewFollows(t)
  BY LandsRow, PlanStepRow, PlanStepHolds, HoldsFollows
<1> QED BY <1>1, <1>2, <1>3, OrderlyKept

\* A plan starts from nothing, or from what is done of a block that is worked on.
LEMMA PlannerOrder ==
    ASSUME TypeInv, NEW c \in Call, PlannerNew(c) \/ PlannerRevise(c), NEW t \in Call, Orderly(t)
    PROVE  Orderly(t)'
<1>1. PICK u \in Call : Starts(c, u)
  BY PlannerEffect
<1>2. RowGoesOn(t) /\ ViewFollows(t) /\ HandFollows(t)
  <2>1. block' = block /\ agent'.view = NoView /\ agent'.at # "strike"
    BY <1>1 DEF Starts
  <2> QED BY <2>1, RowKept, HoldsFollows DEF Holds, HandFollows
<1>3. u = t => Planned(block[t], plan'[c].prior)
  <2>1. CASE plan'[c].prior = NoSteps
    BY <2>1, StartsPlanned DEF Orderly
  <2>2. CASE plan'[c].prior # NoSteps
    <3>1. u = agent.view.task /\ plan'[c].prior = DoneSteps(block[u].steps)
      BY <1>1, <2>2 DEF Starts
    <3>2. PlannerRevise(c)
      <4>1. PlannerNew(c) => plan'[c].prior = NoSteps
        BY PlanningEffect, StepsTyped DEF PlannerNew
      <4> QED BY <2>2, <4>1
    <3>3. agent.view.kind \in Working
      BY <3>2 DEF PlannerRevise, Working
    <3>4. u = t => block[t].kind # "complete"
      BY <3>1, <3>3 DEF Orderly, Seen
    <3> QED BY <3>1, <3>4, StartsPlanned DEF Orderly
  <2> QED BY <2>1, <2>2
<1>4. PlansFollow(t)
  <2>1. \A d \in Call : d # c => plan'[d] = plan[d]
    BY <1>1 DEF Starts, OnlyPlan
  <2>2. plan'[c].task = u /\ block' = block
    BY <1>1 DEF Starts
  <2> QED BY <1>3, <2>1, <2>2 DEF PlansFollow, Active
<1> QED BY <1>2, <1>4, OrderlyKept

\* The agent reads: it is shown the next step, or strikes the one it was shown.
LEMMA ReadOrder ==
    ASSUME TypeInv, NEW t \in Call, Orderly(t), UNCHANGED <<block, plan>>,
           ViewFollows(t), HandFollows(t)
    PROVE  Orderly(t)'
<1>1. RowGoesOn(t)
  BY RowKept
<1> QED BY <1>1, PlansStay, OrderlyKept

LEMMA ResumeReadOrder ==
    ASSUME TypeInv, NEW u \in Call, ResumeRead(u), NEW t \in Call, Orderly(t)
    PROVE  Orderly(t)'
<1> DEFINE view == [task |-> u, kind |-> block[u].kind, next |-> block[u].next]
<1>1. UNCHANGED <<block, plan>> /\ agent'.at \notin {"strike", "checkpoint"}
  BY ResumeReadEffect DEF AgentRests
<1>2. agent'.view = view
  <2>1. CASE NeedsStamp(block[u])
    <3> DEFINE next == FirstPending(block[u].steps)
    <3>1. agent' = [Idle EXCEPT !.at = "resume", !.task = u, !.next = next, !.view = view]
      BY <2>1 DEF ResumeRead
    <3> HIDE DEF view, next
    <3> QED BY <3>1 DEF Idle
  <2>2. CASE ~NeedsStamp(block[u])
    <3>1. Return(view)
      BY <2>2 DEF ResumeRead
    <3> HIDE DEF view
    <3> QED BY <3>1, ReturnedView
  <2> QED BY <2>1, <2>2
<1>3. view.task = u /\ view.kind = block[u].kind /\ view.next = block[u].next
  OBVIOUS
<1> HIDE DEF view
<1>4. ViewFollows(t)
  <2>1. u = t => Seen(block[t], view)
    BY <1>3 DEF Orderly, Good, Seen, Working
  <2> QED BY <1>1, <1>2, <1>3, <2>1 DEF ViewFollows
<1>5. HandFollows(t)
  BY <1>1 DEF HandFollows
<1> QED BY <1>1, <1>4, <1>5, ReadOrder

LEMMA StrikeReadOrder ==
    ASSUME TypeInv, StrikeRead, NEW t \in Call, Orderly(t)
    PROVE  Orderly(t)'
<1>1. /\ UNCHANGED <<block, plan>> /\ agent'.view = agent.view
      /\ agent'.task = agent.view.task
  BY StrikeReadEffect
<1>2. agent'.next = agent.view.next
  <2> DEFINE task == agent.view.task
             next == agent.view.next
             copy == block[task].steps
  <2>1. agent' = [agent EXCEPT !.at = "strike", !.task = task, !.next = next, !.copy = copy]
    BY DEF StrikeRead
  <2> HIDE DEF task, next, copy
  <2>2. agent'.next = next
    BY <2>1, Typed DEF AgentRecord
  <2> QED BY <2>2 DEF next
<1>3. ViewFollows(t)
  BY <1>1 DEF ViewFollows
<1>4. HandFollows(t)
  BY <1>1, <1>2 DEF HandFollows, Orderly, Seen
<1> QED BY <1>1, <1>3, <1>4, ReadOrder

LEMMA HandoffView ==
    ASSUME Handoff
    PROVE  agent'.view = NoView
BY ReturnedView DEF Handoff

LEMMA OtherReadOrder ==
    ASSUME TypeInv, StampRead \/ CheckpointRead \/ ProgressRead \/ Handoff,
           NEW t \in Call, Orderly(t)
    PROVE  Orderly(t)'
<1>1. /\ UNCHANGED <<block, plan>> /\ agent'.at # "strike"
      /\ Holds
  <2>1. CASE Handoff
    BY <2>1, HandoffEffect, HandoffView DEF AgentRests, Holds
  <2>2. CASE StampRead \/ CheckpointRead \/ ProgressRead
    BY <2>2, StampReadEffect, CheckpointReadEffect, ProgressReadEffect DEF Holds
  <2> QED BY <2>1, <2>2
<1>2. ViewFollows(t) /\ HandFollows(t)
  BY <1>1, HoldsFollows DEF HandFollows
<1> QED BY <1>1, <1>2, ReadOrder

\* The agent writes.
LEMMA ProgressWriteOrder ==
    ASSUME TypeInv, ProgressWrite, NEW t \in Call, Orderly(t), t \notin torn'
    PROVE  Orderly(t)'
<1> DEFINE u == plan[agent.call].task
           view == [task |-> u, kind |-> "progress", next |-> 0]
<1>1. UNCHANGED plan /\ agent'.at = "idle" /\ u \in Call /\ agent.copy \in Steps
  BY ProgressWriteEffect, AgentTyped DEF AgentRests
<1>2. Replace(u, agent.copy, "open", "progress", 0) \/ UNCHANGED block
  BY DEF ProgressWrite
<1>3. RowGoesOn(t)
  <2> HIDE DEF u
  <2> QED BY <1>1, <1>2, BeforeFirst, RowRewritten, RowKept
<1>4. agent'.view = view
  <2>1. Return(view)
    BY DEF ProgressWrite
  <2> HIDE DEF view
  <2> QED BY <2>1, ReturnedView
<1>5. Seen(block'[t], view)
  BY BeforeFirst DEF Seen, Working
<1> HIDE DEF view
<1>6. ViewFollows(t)
  BY <1>4, <1>5 DEF ViewFollows
<1>7. HandFollows(t)
  BY <1>1 DEF HandFollows
<1> QED BY <1>1, <1>3, <1>6, <1>7, PlansStay, OrderlyKept

LEMMA CheckpointWriteOrder ==
    ASSUME TypeInv, NEW status \in {"open", "closed"}, CheckpointWrite(status),
           agent.task = agent.view.task, NEW t \in Call, Orderly(t), t \notin torn'
    PROVE  Orderly(t)'
<1> DEFINE next == IF status = "open" THEN agent.view.next ELSE 0
<1>1. UNCHANGED plan /\ agent'.at = "idle" /\ agent.task \in Call /\ agent.copy \in Steps
  BY CheckpointWriteEffect, AgentTyped DEF AgentRests
<1>2. Replace(agent.task, agent.copy, status, "own", next) \/ UNCHANGED block
  BY DEF CheckpointWrite
<1>3. agent.task = t => Before(block[t].steps, next)
  BY BeforeFirst DEF Orderly, Seen
<1> HIDE DEF next
<1>4. RowGoesOn(t)
  BY <1>1, <1>2, <1>3, RowRewritten, RowKept
<1>5. Holds
  <2>1. Return(agent.view) \/ Return(NoView)
    BY DEF CheckpointWrite
  <2> QED BY <2>1, ReturnedView DEF Holds
<1>6. ViewFollows(t) /\ HandFollows(t)
  BY <1>1, <1>5, HoldsFollows DEF HandFollows
<1> QED BY <1>1, <1>4, <1>6, PlansStay, OrderlyKept

LEMMA StampWriteOrder ==
    ASSUME TypeInv, StampWrite, NEW t \in Call, Orderly(t), t \notin torn'
    PROVE  Orderly(t)'
<1> DEFINE u == agent.task
           n == agent.next
           copy == agent.copy
           steps == [copy EXCEPT ![n].stamp = "issued"]
<1>1. UNCHANGED plan /\ agent'.at = "idle" /\ u \in Call /\ n \in StepNo /\ copy \in Steps
  BY StampWriteEffect, AgentTyped DEF AgentRests
<1>2. \/ UNCHANGED block
      \/ /\ copy[n].state # "absent" /\ block' = [block EXCEPT ![u].steps = steps]
         /\ Tear(u, copy # block[u].steps)
  BY DEF StampWrite
<1>3. Holds
  BY ReturnedView DEF StampWrite, Holds
<1>4. RowGoesOn(t)
  <2>1. CASE UNCHANGED block
    BY <2>1, RowKept
  <2>2. CASE /\ copy[n].state # "absent" /\ block' = [block EXCEPT ![u].steps = steps]
             /\ Tear(u, copy # block[u].steps)
    <3>1. \A m \in StepNo : /\ steps[m].state = copy[m].state
                            /\ copy[m].state = "absent" => steps[m] = copy[m]
      <4> HIDE DEF copy, n
      <4> QED BY <1>1, <2>2 DEF Steps
    <3>2. u = t => copy = block[t].steps
      BY <2>2 DEF Tear
    <3> HIDE DEF u, steps, copy
    <3>3. u = t => \A m \in StepNo : /\ steps[m].state = block[t].steps[m].state
                                     /\ block[t].steps[m].state = "absent"
                                           => steps[m] = block[t].steps[m]
      BY <3>1, <3>2
    <3> QED BY <1>1, <2>2, <3>3, RowMarked
  <2> QED BY <1>2, <2>1, <2>2
<1>5. ViewFollows(t) /\ HandFollows(t)
  BY <1>1, <1>3, HoldsFollows DEF HandFollows
<1> QED BY <1>1, <1>4, <1>5, PlansStay, OrderlyKept

LEMMA SweepWriteOrder ==
    ASSUME TypeInv, NEW s \in Sweeper, NEW u \in Call, SweepWrite(s, u), NEW t \in Call, Orderly(t),
           t \notin torn'
    PROVE  Orderly(t)'
<1> DEFINE copy == sweep[s].copy[u]
           steps == Interrupted(copy)
<1>1. /\ UNCHANGED <<plan, agent>> /\ (u \in torn' \/ copy = block[u].steps)
  BY SweepWriteEffect
<1>2. block' = [block EXCEPT ![u].steps = steps]
  BY DEF SweepWrite
<1>3. ASSUME u = t
      PROVE  \A n \in StepNo : /\ steps[n].state = block[t].steps[n].state
                               /\ block[t].steps[n].state = "absent"
                                     => steps[n] = block[t].steps[n]
  <2>1. copy = block[t].steps /\ copy \in Steps /\ Lined(copy)
    BY <1>1, <1>3, AgentTyped DEF Orderly, Good
  <2> HIDE DEF copy
  <2>2. ASSUME NEW n \in StepNo
        PROVE  /\ steps[n].state = copy[n].state
               /\ copy[n].state = "absent" => steps[n] = copy[n]
    <3>1. steps[n].state = copy[n].state
      BY <2>1 DEF Steps, Interrupted
    <3>2. copy[n].state = "absent" => n \notin Stamped(copy)
      BY <2>1 DEF Lined, Stamped, NoStep
    <3> QED BY <3>1, <3>2 DEF Interrupted
  <2> QED BY <2>1, <2>2
<1> HIDE DEF steps, copy
<1>4. RowGoesOn(t)
  <2>1. u = t => \A n \in StepNo : /\ steps[n].state = block[t].steps[n].state
                                   /\ block[t].steps[n].state = "absent"
                                         => steps[n] = block[t].steps[n]
    BY <1>3
  <2> QED BY <1>2, <2>1, RowMarked
<1>5. ViewFollows(t) /\ HandFollows(t)
  BY <1>1 DEF ViewFollows, HandFollows
<1> QED BY <1>1, <1>4, <1>5, PlansStay, OrderlyKept

\* A strike: the block is complete when the last step that was open is done.
LEMMA StrikeEffectOnRow ==
    ASSUME TypeInv, NEW failed \in BOOLEAN, StrikeWrite(failed), NEW t \in Call, t = agent.task,
           t \notin torn'
    PROVE  LET n     == agent.next
               steps == [block[t].steps EXCEPT ![n].state = IF failed THEN "failed" ELSE "done"]
               kind  == AfterStrike(failed, steps)
               next  == IF kind = "step" THEN FirstPending(steps) ELSE 0
           IN
           \/ UNCHANGED block /\ agent'.view = agent.view
           \/ /\ agent.copy = block[t].steps
              /\ block'[t].steps = steps /\ block'[t].kind = kind /\ block'[t].next = next
              /\ agent'.view = [task |-> t, kind |-> kind, next |-> next]
<1> DEFINE n == agent.next
           steps == [agent.copy EXCEPT ![n].state = IF failed THEN "failed" ELSE "done"]
           kind  == AfterStrike(failed, steps)
           next  == IF kind = "step" THEN FirstPending(steps) ELSE 0
           status == IF kind = "complete" THEN "closed" ELSE "open"
           view == [task |-> t, kind |-> kind, next |-> next]
           done == [block[t].steps EXCEPT ![n].state = IF failed THEN "failed" ELSE "done"]
           kindDone == AfterStrike(failed, done)
           nextDone == IF kindDone = "step" THEN FirstPending(done) ELSE 0
<1>1. \/ /\ block' = [block EXCEPT ![t].steps = steps, ![t].kind = kind, ![t].next = next,
                                   ![t].status = status]
         /\ Tear(t, agent.copy # block[t].steps)
         /\ Return(view)
      \/ UNCHANGED block /\ Return(agent.view)
  BY DEF StrikeWrite
<1>2. agent.copy = block[t].steps =>
          steps = done /\ kind = kindDone /\ next = nextDone
  OBVIOUS
<1>3. block \in [Call -> BlockRecord]
  BY Typed
<1> HIDE DEF steps, kind, next, status, done, kindDone, nextDone
<1>4. CASE /\ block' = [block EXCEPT ![t].steps = steps, ![t].kind = kind, ![t].next = next,
                                     ![t].status = status]
           /\ Tear(t, agent.copy # block[t].steps)
           /\ Return(view)
  <2>1. agent.copy = block[t].steps
    BY <1>4 DEF Tear
  <2>2. agent'.view = view
    <3> HIDE DEF view
    <3> QED BY <1>4, ReturnedView
  <2>3. block'[t].steps = steps /\ block'[t].kind = kind /\ block'[t].next = next
    BY <1>3, <1>4 DEF BlockRecord
  <2>4. /\ block'[t].steps = done /\ block'[t].kind = kindDone /\ block'[t].next = nextDone
        /\ agent'.view = [task |-> t, kind |-> kindDone, next |-> nextDone]
    BY <1>2, <2>1, <2>2, <2>3
  <2> QED BY <2>1, <2>4 DEF done, kindDone, nextDone
<1>5. CASE UNCHANGED block /\ Return(agent.view)
  BY <1>5, ReturnedView
<1> QED BY <1>1, <1>4, <1>5

LEMMA StrikeOrder ==
    ASSUME TypeInv, StruckInv, NEW failed \in BOOLEAN, StrikeWrite(failed),
           NEW t \in Call, Orderly(t), t \notin torn'
    PROVE  Orderly(t)'
<1> DEFINE u == agent.task
           n == agent.next
           state == IF failed THEN "failed" ELSE "done"
           steps == [block[t].steps EXCEPT ![n].state = state]
           kind  == AfterStrike(failed, steps)
           next  == IF kind = "step" THEN FirstPending(steps) ELSE 0
           view  == [task |-> t, kind |-> kind, next |-> next]
<1>1. /\ agent.at = "strike" /\ agent'.at = "idle" /\ u \in Call /\ n \in StepNo
      /\ UNCHANGED plan /\ (UNCHANGED block \/ OnlyBlock(u))
  BY StrikeWriteEffect DEF AgentRests
<1>2. HandFollows(t) /\ PlansFollow(t)
  BY <1>1, PlansStay DEF HandFollows
<1>3. CASE u # t
  <2>1. block'[t] = block[t]
    BY <1>1, <1>3 DEF OnlyBlock
  <2>2. agent'.view = agent.view \/ agent'.view.task # t
    <3>1. Return(agent.view) \/ \E k, m : Return([task |-> u, kind |-> k, next |-> m])
      BY DEF StrikeWrite
    <3>2. CASE Return(agent.view)
      BY <3>2, ReturnedView
    <3>3. CASE \E k, m : Return([task |-> u, kind |-> k, next |-> m])
      <4>1. PICK k, m : Return([task |-> u, kind |-> k, next |-> m])
        BY <3>3
      <4>2. agent'.view = [task |-> u, kind |-> k, next |-> m]
        BY <4>1, ReturnedView
      <4>3. agent'.view.task = u
        BY <4>2
      <4> QED BY <1>3, <4>3
    <3> QED BY <3>1, <3>2, <3>3
  <2>3. RowGoesOn(t) /\ ViewFollows(t)
    BY <2>1, <2>2, RowKept DEF ViewFollows
  <2> QED BY <1>2, <2>3, OrderlyKept
<1>4. CASE u = t /\ UNCHANGED block /\ agent'.view = agent.view
  <2>1. RowGoesOn(t) /\ ViewFollows(t)
    BY <1>4, RowKept DEF ViewFollows
  <2> QED BY <1>2, <2>1, OrderlyKept
<1>5. CASE /\ u = t /\ agent.copy = block[t].steps
           /\ block'[t].steps = steps /\ block'[t].kind = kind /\ block'[t].next = next
           /\ agent'.view = view
  <2>1. /\ block[t].steps \in Steps /\ Lined(block[t].steps) /\ Before(block[t].steps, n)
        /\ block[t].steps[n].state \in {"pending", "failed"} /\ state \in {"done", "failed"}
        /\ \A c \in Call : Active(c) /\ plan[c].task = t => Planned(block[t], plan[c].prior)
    BY <1>1, <1>5, AgentTyped DEF Orderly, Good, StruckInv
  <2>2. /\ Lined(steps) /\ steps[n].state = state
        /\ \A m \in StepNo : block[t].steps[m].state = "done" => steps[m].state = "done"
        /\ state = "done" => \A m \in StepNo : steps[m].state # "failed"
    <3> DEFINE old == block[t].steps
    <3>1. /\ old \in Steps /\ n \in StepNo /\ state \in {"done", "failed"} /\ Lined(old)
          /\ Before(old, n) /\ old[n].state \in {"pending", "failed"}
      BY <1>1, <2>1
    <3>2. steps[n].state = state /\ \A m \in StepNo : m # n => steps[m] = old[m]
      <4> HIDE DEF n, state
      <4> QED BY <3>1 DEF Steps
    <3> HIDE DEF n, state, old, steps
    <3>3. /\ Lined(steps)
          /\ \A m \in StepNo : old[m].state = "done" => steps[m].state = "done"
          /\ state = "done" => \A m \in StepNo : steps[m].state # "failed"
      BY <3>1, <3>2, StruckLined
    <3> QED BY <3>2, <3>3 DEF old
  <2>3. steps \in Steps
    <3> HIDE DEF n
    <3> QED BY <1>1, <2>1, ChangedTyped
  <2>4. /\ failed => kind = "revise"
        /\ kind = "step" => ~failed
        /\ kind = "complete" => ~failed /\ InState(steps, "pending") = {}
        /\ kind \in {"revise", "step", "complete"}
    <3> HIDE DEF steps
    <3> QED BY DEF AfterStrike
  <2>5. ~failed <=> state = "done"
    OBVIOUS
  <2>6. next = IF kind = "step" THEN FirstPending(steps) ELSE 0
    OBVIOUS
  <2>7. view.kind = kind /\ view.next = next /\ view.task = t
    OBVIOUS
  <2> HIDE DEF steps, kind, next, state, view, n
  <2>8. Before(steps, next)
    BY <2>2, <2>3, <2>4, <2>5, <2>6, BeforeFirst, FirstPendingBefore
  <2>9. ASSUME kind = "complete"
        PROVE  /\ AllDone(steps) /\ GoesOn(steps, NoSteps)
               /\ \A c \in Call : Active(c) /\ plan[c].task = t => GoesOn(steps, plan[c].prior)
    <3>1. ~failed /\ state = "done" /\ InState(steps, "pending") = {}
      BY <2>4, <2>5, <2>9
    <3>2. \A m \in StepNo : steps[m].state \notin {"pending", "failed"}
      BY <2>2, <3>1 DEF InState
    <3>3. AllDone(steps)
      BY <2>3, <3>2 DEF AllDone, Steps
    <3>4. steps[n].state = "done" /\ NoSteps[n].state # "done"
      BY <1>1, <2>2, <3>1 DEF NoSteps, NoStep
    <3>5. ASSUME NEW c \in Call, Active(c), plan[c].task = t
          PROVE  plan[c].prior[n].state # "done"
      BY <1>1, <2>1, <3>5 DEF Planned
    <3> QED BY <1>1, <3>3, <3>4, <3>5 DEF GoesOn
  <2>10. Good(block[t])'
    BY <1>5, <2>2, <2>8, <2>9 DEF Good
  <2>11. agent'.view.task = t => Seen(block'[t], agent'.view)
    BY <1>5, <2>4, <2>7, <2>8 DEF Seen, Working
  <2>12. ASSUME NEW c \in Call, Active(c), plan[c].task = t
         PROVE  Planned(block'[t], plan[c].prior)
    BY <1>5, <2>1, <2>2, <2>9, <2>12 DEF Planned
  <2> QED BY <1>1, <2>10, <2>11, <2>12 DEF Orderly, Active
<1>6. u = t => \/ UNCHANGED block /\ agent'.view = agent.view
               \/ /\ agent.copy = block[t].steps
                  /\ block'[t].steps = steps /\ block'[t].kind = kind /\ block'[t].next = next
                  /\ agent'.view = view
  BY StrikeEffectOnRow
<1> QED BY <1>3, <1>4, <1>5, <1>6

----------------------------------------------------------------------------
(* The order is kept by every step. *)

LEMMA TornGrows ==
    ASSUME TypeInv, [LedgerNext]_ledgerVars
    PROVE  torn \subseteq torn'
<1>1. CASE Others \/ Reads
  BY <1>1, QuietOthers, QuietReads DEF Quiet
<1>2. CASE Startup
  BY <1>2 DEF Startup, Boot, BootDone, HelperStarts, SweepFail
<1>3. CASE Crash \/ StampWrite
  BY <1>3, CrashEffect, StampWriteEffect
<1>4. CASE \E c \in Call : StepsWrite(c)
  BY <1>4, StepsWriteEffect
<1>5. CASE \E failed \in BOOLEAN : StrikeWrite(failed)
  BY <1>5, StrikeWriteEffect
<1>6. CASE \E s \in Sweeper, t \in Call : SweepWrite(s, t)
  BY <1>6, SweepWriteEffect
<1> QED BY <1>1, <1>2, <1>3, <1>4, <1>5, <1>6, NextCases

\* What does not touch the plans, the blocks or the agent, and the end of all of them.
LEMMA StillOrder ==
    ASSUME TypeInv, UNCHANGED ledgerVars \/ Startup \/ Crash, NEW t \in Call, Orderly(t)
    PROVE  Orderly(t)'
<1>1. CASE UNCHANGED ledgerVars \/ Startup
  <2>1. UNCHANGED <<block, plan, agent>>
    BY <1>1 DEF ledgerVars, Startup, Boot, BootDone, HelperStarts, SweepFail
  <2> QED BY <2>1, ReadOrder DEF ViewFollows, HandFollows
<1>2. CASE Crash
  <2>1. /\ UNCHANGED block /\ agent'.view = NoView /\ agent'.at = "idle"
        /\ \A c \in Call : plan'[c].at \in {"unused", "landed", "dead"}
    BY <1>2, CrashEffect, InitialsTyped
  <2>2. RowGoesOn(t) /\ ViewFollows(t) /\ HandFollows(t) /\ PlansFollow(t)
    BY <2>1, RowKept, HoldsFollows DEF Holds, HandFollows, PlansFollow, Active
  <2> QED BY <2>2, OrderlyKept
<1> QED BY <1>1, <1>2

LEMMA CheckpointStep ==
    ASSUME TypeInv, CheckpointHeld, [LedgerNext]_ledgerVars
    PROVE  CheckpointHeld'
<1>1. CASE \E c \in Call : PlanStep(c)
  BY <1>1, PlanStepHolds DEF CheckpointHeld
<1>2. CASE CheckpointRead
  BY <1>2, CheckpointReadEffect DEF CheckpointHeld
<1>3. CASE AgentStep /\ ~CheckpointRead
  <2>1. CASE \E c \in Call : PlannerNew(c) \/ PlannerRevise(c)
    BY <2>1, PlannerEffect DEF Starts, CheckpointHeld
  <2>2. CASE \E c \in Call : ResumeRead(c)
    BY <2>2, ResumeReadEffect DEF AgentRests, CheckpointHeld
  <2>3. CASE StrikeRead \/ Handoff \/ StampRead
    BY <2>3, StrikeReadEffect, HandoffEffect, StampReadEffect DEF AgentRests, CheckpointHeld
  <2>4. CASE \E failed \in BOOLEAN : StrikeWrite(failed)
    BY <2>4, StrikeWriteEffect DEF AgentRests, CheckpointHeld
  <2>5. CASE StampWrite
    BY <2>5, StampWriteEffect DEF AgentRests, CheckpointHeld
  <2>6. CASE \E status \in {"open", "closed"} : CheckpointWrite(status)
    BY <2>6, CheckpointWriteEffect DEF AgentRests, CheckpointHeld
  <2> QED BY <1>3, <2>1, <2>2, <2>3, <2>4, <2>5, <2>6 DEF AgentStep
<1>4. CASE ProgressRead \/ ProgressWrite
  BY <1>4, ProgressReadEffect, ProgressWriteEffect DEF AgentRests, CheckpointHeld
<1>5. CASE ProcessStep \/ UNCHANGED ledgerVars
  <2>1. agent' = agent \/ agent'.at = "idle"
    BY <1>5, CrashEffect, SweepWriteEffect, InitialsTyped
       DEF ProcessStep, Boot, BootDone, HelperStarts, SweepFail, ledgerVars
  <2> QED BY <2>1 DEF CheckpointHeld
<1> QED BY <1>1, <1>2, <1>3, <1>4, <1>5 DEF LedgerNext

LEMMA OrderStep ==
    TypeInv /\ StruckInv /\ OrderInv /\ [LedgerNext]_ledgerVars => OrderInv'
<1> SUFFICES ASSUME TypeInv, StruckInv, OrderInv, [LedgerNext]_ledgerVars
             PROVE  OrderInv'
  OBVIOUS
<1>1. CheckpointHeld
  BY DEF OrderInv
<1>2. CheckpointHeld'
  BY <1>1, CheckpointStep
<1>3. ASSUME NEW t \in Call, t \notin torn'
      PROVE  Orderly(t)'
  <2>1. Orderly(t)
    BY <1>3, TornGrows DEF OrderInv
  <2>2. CASE \E c \in Call : PlanStep(c)
    BY <1>3, <2>1, <2>2, PlanOrder
  <2>3. CASE \E c \in Call : PlannerNew(c) \/ PlannerRevise(c)
    BY <2>1, <2>3, PlannerOrder
  <2>4. CASE (\E c \in Call : ResumeRead(c)) \/ StrikeRead
    BY <2>1, <2>4, ResumeReadOrder, StrikeReadOrder
  <2>5. CASE StampRead \/ CheckpointRead \/ ProgressRead \/ Handoff
    BY <2>1, <2>5, OtherReadOrder
  <2>6. CASE \E failed \in BOOLEAN : StrikeWrite(failed)
    BY <1>3, <2>1, <2>6, StrikeOrder
  <2>7. CASE StampWrite \/ ProgressWrite
    BY <1>3, <2>1, <2>7, StampWriteOrder, ProgressWriteOrder
  <2>8. CASE \E status \in {"open", "closed"} : CheckpointWrite(status)
    <3>1. PICK status \in {"open", "closed"} : CheckpointWrite(status)
      BY <2>8
    <3>2. agent.at = "checkpoint"
      BY <3>1, CheckpointWriteEffect
    <3>3. agent.task = agent.view.task
      BY <1>1, <3>2 DEF CheckpointHeld
    <3> QED BY <1>3, <2>1, <3>1, <3>3, CheckpointWriteOrder
  <2>9. CASE \E s \in Sweeper, u \in Call : SweepWrite(s, u)
    BY <1>3, <2>1, <2>9, SweepWriteOrder
  <2>10. CASE UNCHANGED ledgerVars \/ Startup \/ Crash
    BY <2>1, <2>10, StillOrder
  <2>11. \/ \E c \in Call : PlanStep(c)
         \/ \E c \in Call : PlannerNew(c) \/ PlannerRevise(c)
         \/ (\E c \in Call : ResumeRead(c)) \/ StrikeRead
         \/ StampRead \/ CheckpointRead \/ ProgressRead \/ Handoff
         \/ \E failed \in BOOLEAN : StrikeWrite(failed)
         \/ StampWrite \/ ProgressWrite
         \/ \E status \in {"open", "closed"} : CheckpointWrite(status)
         \/ \E s \in Sweeper, u \in Call : SweepWrite(s, u)
         \/ UNCHANGED ledgerVars \/ Startup \/ Crash
    BY DEF LedgerNext, AgentStep, ProcessStep, Startup
  <2> QED BY <2>2, <2>3, <2>4, <2>5, <2>6, <2>7, <2>8, <2>9, <2>10, <2>11
<1> QED BY <1>2, <1>3 DEF OrderInv

\* A block is complete only when each of its steps is done, whatever was revised, resumed,
\* restarted or checkpointed in between, unless an outdated copy was written over it.
THEOREM CompleteWhenDone == LedgerSpec => []ClosedMeansAllDone
<1>1. LedgerInit => StruckInv /\ OrderInv
  <2> SUFFICES ASSUME LedgerInit
               PROVE  StruckInv /\ OrderInv
    OBVIOUS
  <2>1. /\ Idle.at = "idle" /\ Idle.view = NoView /\ NoView.task = NoCall /\ NoCall \notin Call
        /\ NoPlan.at = "unused"
    BY InitialsTyped, LedgerAssumption DEF NoView, NoPlan
  <2>2. StruckInv
    BY <2>1 DEF LedgerInit, StruckInv, StruckStaysStruck
  <2>3. Good(NoBlock)
    <3>1. Lined(NoSteps)
      BY DEF Lined, NoSteps, NoStep
    <3>2. NoBlock.steps = NoSteps /\ NoBlock.next = 0 /\ NoBlock.kind = "none"
      BY DEF NoBlock
    <3> QED BY <3>1, <3>2, BeforeFirst DEF Good
  <2>4. \A t \in Call : Orderly(t)
    BY <2>1, <2>3 DEF LedgerInit, Orderly, Active
  <2> QED BY <2>1, <2>2, <2>4 DEF OrderInv, CheckpointHeld, LedgerInit
<1>2. TypeInv /\ OrderInv => ClosedMeansAllDone
  <2> SUFFICES ASSUME TypeInv, OrderInv, NEW t \in Call, block[t].kind = "complete", t \notin torn
               PROVE  InState(block[t].steps, "done") = {n \in StepNo : block[t].steps[n] # NoStep}
    BY DEF ClosedMeansAllDone
  <2>1. AllDone(block[t].steps) /\ Lined(block[t].steps)
    BY DEF OrderInv, Orderly, Good
  <2>2. NoStep.state = "absent"
    BY DEF NoStep
  <2>3. \A n \in StepNo : block[t].steps[n].state = "done" <=> block[t].steps[n] # NoStep
    BY <2>1, <2>2 DEF AllDone, Lined
  <2> QED BY <2>3 DEF InState
<1>3. TypeInv /\ StruckInv /\ OrderInv /\ [LedgerNext]_ledgerVars
         => TypeInv' /\ StruckInv' /\ OrderInv'
  BY TypeStep, StruckStep, OrderStep
<1> QED BY TypeInit, <1>1, <1>2, <1>3, PTL DEF LedgerSpec

=============================================================================
