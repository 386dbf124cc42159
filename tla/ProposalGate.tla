---------------------------- MODULE ProposalGate ----------------------------
(***************************************************************************)
(* The decision gate of TRAUM proposals (src/tools/dream_apply.py), with   *)
(* the callers in traum_controller.py and goethe_dashboard.html.           *)
(*                                                                         *)
(* decide_proposal reads the rows, validates them against the knowledge    *)
(* base, claims them, writes to the knowledge base and finalizes: several  *)
(* store transactions and external calls, between which other workers run  *)
(* and the process may die.  A gateway decides and sweeps under its        *)
(* _decision_lock, so it is one worker; every dream_apply process at the   *)
(* command line is another.  All proposals here come from completed        *)
(* attempts; how they got there is in TraumState.                          *)
(*                                                                         *)
(* The row of a proposal is the sequence of the states it has been in:     *)
(* its state is the last one and its revision the length, because every    *)
(* UPDATE of the state increments the revision.                            *)
(***************************************************************************)
EXTENDS Integers, Sequences, FiniteSets

CONSTANTS
    Proposal,          \* proposal ids
    Pair, NoPair,      \* pair ids of the dedup pass, and "no pair"
    PairOf,            \* the pair a proposal belongs to
    Doc, NoDoc,        \* documents of the knowledge base, and "carries no target token"
    TargetOf,          \* the document whose content a proposal was drafted against
    Graph,             \* the proposals of type "graph", whose apply writes nothing itself
    Old,               \* the proposals older than the stale cutoff
    Gateway, Cli,      \* the workers: gateways and dream_apply processes
    Runner,            \* the dream runner's processes, which only auto-project
    Crashes,           \* whether a process may die, or the store fail, in the middle of a decision
    MaxRevision        \* bound: no approval starts on a row this old

ASSUME GateAssumption ==
    /\ NoPair \notin Pair /\ PairOf \in [Proposal -> Pair \cup {NoPair}]
    /\ NoDoc \notin Doc /\ TargetOf \in [Proposal -> Doc \cup {NoDoc}]
    /\ Graph \subseteq Proposal /\ Old \subseteq Proposal
    /\ Gateway \cap Cli = {} /\ Runner \cap (Gateway \cup Cli) = {}
    /\ Crashes \in BOOLEAN /\ MaxRevision \in Nat

Worker == Gateway \cup Cli \cup Runner

RowState == {"PENDING", "DEFERRED", "APPLYING", "APPLIED", "REJECTED",
             "SYSTEM_REJECTED", "EXPIRED", "APPLY_FAILED"}
Terminal == {"APPLIED", "REJECTED", "SYSTEM_REJECTED", "EXPIRED"}

VARIABLES
    rows,      \* the states each proposal has been in, the last one current
    work,      \* what each worker is doing, in its local variables
    changed,   \* the documents that no longer reproduce the token of the drafts
    written,   \* how often a proposal was written to the knowledge base; 2 stands for more
    orphaned   \* the proposals whose claimer died or could not record its outcome (a history variable)

vars == <<rows, work, changed, written, orphaned>>

State(p)    == rows[p][Len(rows[p])]
Revision(p) == Len(rows[p])

\* _canonical_group: a proposal with the other members of its pair.
Group(p) == IF PairOf[p] = NoPair THEN {p} ELSE {q \in Proposal : PairOf[q] = PairOf[p]}

NoRevision == 0
Idle == [step |-> "idle", group |-> {}, seen |-> [p \in Proposal |-> NoRevision], todo |-> {}]

Init ==
    /\ rows = [p \in Proposal |-> <<"PENDING">>]
    /\ work = [w \in Worker |-> Idle]
    /\ changed = {}
    /\ written = [p \in Proposal |-> 0]
    /\ orphaned = {}

-----------------------------------------------------------------------------
(* Reading: the callers, and the first lines of decide_proposal. *)

Snapshot == [p \in Proposal |-> Revision(p)]

Begin(w, p, step, seen) ==
    /\ work' = [work EXCEPT ![w] =
                   [step |-> step, group |-> Group(p), todo |-> {},
                    seen |-> [q \in Proposal |-> IF q \in Group(p) THEN seen[q] ELSE NoRevision]]]
    /\ UNCHANGED <<rows, changed, written, orphaned>>

\* An approval of rows that are all APPLIED returns at once.
BeginDecision(w, p, decision, seen) ==
    /\ decision = "approve" => /\ \E q \in Group(p) : State(q) # "APPLIED"
                               /\ \A q \in Group(p) : Revision(q) < MaxRevision
    /\ Begin(w, p, IF decision = "approve" THEN "preview" ELSE decision, seen)

\* The buttons the dashboard shows beside a proposal it lists in this state.
\* Mutant: a failed apply can be deferred.
OfferedOnFailure(p, state) ==
    CASE state \in {"PENDING", "DEFERRED", "APPLY_FAILED"} -> {"approve", "reject", "defer"}
      [] OTHER -> {}
Offered(p, state) ==
    CASE state \in {"PENDING", "DEFERRED"} -> {"approve", "reject", "defer"}
      [] state = "APPLY_FAILED"            -> {"reject"} \cup (IF p \in Graph THEN {"approve"} ELSE {})
      [] OTHER                             -> {}

\* An operator decides on the row as the dashboard displayed it, perhaps long ago; the revision
\* displayed counts for that row, the current one for the other member of a pair.
GuiDecide(w, p, shown, decision) ==
    /\ w \in Gateway /\ work[w].step = "idle"
    /\ decision \in Offered(p, rows[p][shown])
    /\ BeginDecision(w, p, decision, [Snapshot EXCEPT ![p] = shown])

\* revalidate_pending, one group of the queue: the reads.
Sweep(w, p) ==
    /\ w \in Gateway /\ work[w].step = "idle"
    /\ \A q \in Group(p) : State(q) = "PENDING"
    /\ Begin(w, p, "sweep", Snapshot)

\* dream_apply main takes the proposals of a file, in whatever state they are.
Check(w, p) ==
    /\ w \in Cli /\ work[w].step = "idle"
    /\ Begin(w, p, "check", Snapshot)

\* The answer to "Apply?"; decide_proposal reads the rows afresh.
CliDecide(w, p, decision) ==
    /\ work[w].step = "ask" /\ p \in work[w].group
    /\ BeginDecision(w, p, decision, Snapshot)

\* auto_project_graph_proposals approves the graph proposals of a finished attempt.
AutoProject(w, p) ==
    /\ w \in Runner /\ work[w].step = "idle" /\ p \in Graph /\ Revision(p) = 1
    /\ BeginDecision(w, p, "approve", Snapshot)

-----------------------------------------------------------------------------
(* Validation and resolution. *)

Reproduces(p) == TargetOf[p] \notin changed

Continue(w, step) == work' = [work EXCEPT ![w].step = step]
Drop(w) == work' = [work EXCEPT ![w] = Idle]

\* validate_proposal_for_apply and the collision checks on every member: a changed target is a
\* reason to refuse, and there are others.
Validate(w, valid) ==
    LET step == work[w].step IN
    /\ step \in {"preview", "sweep", "check"}
    /\ valid => \A q \in work[w].group : Reproduces(q)
    /\ CASE step = "preview" -> Continue(w, IF valid THEN "claim" ELSE "refuse")
         [] step = "check"   -> Continue(w, IF valid THEN "ask" ELSE "checkRefuse")
         [] step = "sweep"   -> IF valid THEN Drop(w) ELSE Continue(w, "sweepRefuse")
    /\ UNCHANGED <<rows, changed, written, orphaned>>

\* A dependency is unavailable, or the operator walks away: nothing was decided.
Abandon(w) ==
    /\ work[w].step \in {"preview", "sweep", "check", "ask"}
    /\ Drop(w)
    /\ UNCHANGED <<rows, changed, written, orphaned>>

Moved(group, target) ==
    [p \in Proposal |-> IF p \in group /\ State(p) # target THEN Append(rows[p], target) ELSE rows[p]]

\* Mutant: the revisions read are not compared.
AnyRevision(p, seen) == TRUE
SameRevision(p, seen) == seen[p] \in {NoRevision, Revision(p)}

TargetState(step) == CASE step = "reject" -> "REJECTED" [] step = "defer" -> "DEFERRED"
                       [] OTHER -> "SYSTEM_REJECTED"
\* The invariant rejection of dream_apply main passes no revisions; all other callers do.
Expected(w) == IF work[w].step = "checkRefuse" THEN Idle.seen ELSE work[w].seen

\* transition_proposals; on a conflict it raises, and nothing changes.
Resolve(w) ==
    LET target == TargetState(work[w].step)
        movable(q) == \/ State(q) = target
                      \/ State(q) \notin Terminal /\ SameRevision(q, Expected(w))
    IN  /\ work[w].step \in {"reject", "defer", "refuse", "sweepRefuse", "checkRefuse"}
        /\ rows' = IF \A q \in work[w].group : movable(q) THEN Moved(work[w].group, target) ELSE rows
        /\ Drop(w)
        /\ UNCHANGED <<changed, written, orphaned>>

-----------------------------------------------------------------------------
(* Claim, apply, finalize. *)

\* Mutant: any failed apply may be claimed again.
ClaimableAfterFailure(p) == State(p) \in {"PENDING", "DEFERRED", "APPLY_FAILED"}
Claimable(p) == \/ State(p) \in {"PENDING", "DEFERRED"}
                \/ State(p) = "APPLY_FAILED" /\ p \in Graph

\* claim_proposals.  When all rows are APPLIED already it returns them like claimed ones.
Claim(w) ==
    LET group == work[w].group
        claimed == \A q \in group : Claimable(q) /\ SameRevision(q, work[w].seen)
        already == \A q \in group : State(q) = "APPLIED"
    IN  /\ work[w].step = "claim"
        /\ rows' = IF claimed THEN Moved(group, "APPLYING") ELSE rows
        /\ IF claimed \/ already
           THEN work' = [work EXCEPT ![w].step = "apply", ![w].todo = group \ Graph]
           ELSE Drop(w)
        /\ UNCHANGED <<changed, written, orphaned>>

\* apply_group, one member: a write to the knowledge base, which gives the target a new token.
Apply(w, p) ==
    /\ work[w].step = "apply" /\ p \in work[w].todo
    /\ work' = [work EXCEPT ![w].todo = @ \ {p}]
    /\ written' = [written EXCEPT ![p] = IF @ = 0 THEN 1 ELSE 2]
    /\ changed' = changed \cup ({TargetOf[p]} \ {NoDoc})
    /\ UNCHANGED <<rows, orphaned>>

\* finalize_proposals: every row is the claimer's, or has the target state already.
Finalized(w, target) ==
    LET group == work[w].group IN
    rows' = IF \A q \in group : State(q) \in {"APPLYING", target} THEN Moved(group, target) ELSE rows

\* Mutant: the exception of the apply reaches the caller without finalizing.
Rethrow(w) ==
    /\ work[w].step = "apply"
    /\ Drop(w)
    /\ UNCHANGED <<rows, changed, written, orphaned>>
\* Any exception of apply_group, also one raised after the last write.
ApplyFails(w) ==
    /\ work[w].step = "apply"
    /\ Finalized(w, "APPLY_FAILED")
    /\ Drop(w)
    /\ UNCHANGED <<changed, written, orphaned>>

\* Mutant: finalized as soon as one member is written.
ApplySucceedsEarly(w) ==
    /\ work[w].step = "apply" /\ work[w].todo # work[w].group \ Graph
    /\ Finalized(w, "APPLIED")
    /\ Drop(w)
    /\ UNCHANGED <<changed, written, orphaned>>
ApplySucceeds(w) ==
    /\ work[w].step = "apply" /\ work[w].todo = {}
    /\ Finalized(w, "APPLIED")
    /\ Drop(w)
    /\ UNCHANGED <<changed, written, orphaned>>

-----------------------------------------------------------------------------
(* The surroundings. *)

Applying(w, p) == work[w].step = "apply" /\ p \in work[w].group

\* The process dies, or a transaction of the store raises out of decide_proposal: what it had in
\* its variables is gone.
Crash(w) ==
    /\ Crashes /\ work[w].step # "idle"
    /\ orphaned' = orphaned \cup {p \in Proposal : Applying(w, p)}
    /\ Drop(w)
    /\ UNCHANGED <<rows, changed, written>>

\* Agents and operators write to the knowledge base too.
ExternalWrite(d) ==
    /\ d \notin changed /\ changed' = changed \cup {d}
    /\ UNCHANGED <<rows, work, written, orphaned>>

Open(p) == State(p) \in {"PENDING", "DEFERRED"}
ExpireStale ==
    /\ \E p \in Old : Open(p)
    /\ rows' = Moved({p \in Old : Open(p)}, "EXPIRED")
    /\ UNCHANGED <<work, changed, written, orphaned>>

\* What a decision does once it is under way.
Step(w) ==
    \/ \E valid \in BOOLEAN : Validate(w, valid)
    \/ Resolve(w)
    \/ Claim(w)
    \/ \E p \in Proposal : Apply(w, p)
    \/ ApplyFails(w)
    \/ ApplySucceeds(w)

Ask(w) ==
    \/ \E p \in Proposal : \/ \E shown \in 1..Revision(p), decision \in {"approve", "reject", "defer"} :
                                  GuiDecide(w, p, shown, decision)
                           \/ Sweep(w, p)
                           \/ Check(w, p)
                           \/ \E decision \in {"approve", "reject"} : CliDecide(w, p, decision)
                           \/ AutoProject(w, p)
    \/ Abandon(w)

Next ==
    \/ \E w \in Worker : Step(w) \/ Ask(w) \/ Crash(w)
    \/ \E d \in Doc : ExternalWrite(d)
    \/ ExpireStale

Spec == Init /\ [][Next]_vars

\* A thread inside decide_proposal runs on.
FairSpec == Spec /\ \A w \in Worker : WF_vars(Step(w))

-----------------------------------------------------------------------------
(* What the gate promises. *)

Steps == {"idle", "preview", "sweep", "check", "ask", "reject", "defer", "refuse", "sweepRefuse",
          "checkRefuse", "claim", "apply"}

\* Rows, local variables and counters are well formed.
TypeOK ==
    /\ rows \in [Proposal -> Seq(RowState)] /\ \A p \in Proposal : rows[p] # <<>>
    /\ work \in [Worker -> [step : Steps, group : SUBSET Proposal, seen : [Proposal -> Nat],
                            todo : SUBSET Proposal]]
    /\ changed \subseteq Doc
    /\ written \in [Proposal -> 0..2]
    /\ orphaned \subseteq Proposal

\* APPLIED is not said of what was not done: every member of the group was written.
AppliedWasWritten ==
    \A p \in Proposal : State(p) = "APPLIED" => \A q \in Group(p) \ Graph : written[q] > 0

\* A failed or interrupted apply is never replayed: whatever is deferred, rejected, swept or
\* approved afterwards, a proposal that may have been written partly is not written again.
FailureIsNotReplayed ==
    [][\A p \in Proposal : written'[p] # written[p] =>
          /\ \A n \in 1..Revision(p) : rows[p][n] # "APPLY_FAILED"
          /\ p \in orphaned => State(p) = "APPLIED"]_vars

\* An approval in progress keeps its rows: between the claim and the record of its outcome no
\* reject, defer, sweep or expiry decides them away.  Only the claimer moves them, or a
\* dream_apply process, whose rejections go by the rows of that moment or by no revision at all.
ApprovalKeepsItsRows ==
    [][\A p \in Proposal : State(p) = "APPLYING" /\ rows'[p] # rows[p] =>
          \E w \in Worker : work'[w] # work[w] /\ (Applying(w, p) \/ w \in Cli)]_vars

\* "A human decided between the read and the write. Their decision wins": the sweep resolves
\* only what still waits for a decision.
SweepYieldsToHumans ==
    [][\A w \in Worker : work[w].step = "sweepRefuse" /\ work'[w] # work[w] =>
          \A p \in Proposal : rows'[p] # rows[p] => State(p) = "PENDING"]_vars

\* Each step of the gate is, row by row, a step of the canonical store.
Key == <<"run", "pass", 1>>
Reason(state) == IF state \in {"SYSTEM_REJECTED", "EXPIRED"} THEN "other" ELSE "none"
Store == INSTANCE TraumState WITH
    Run <- {"run"}, Pass <- {"pass"}, Fingerprint <- Proposal, Session <- {},
    GraphFingerprint <- Graph, Source <- {"cli"}, LeaseRequest <- {}, Verdict <- {},
    Grace <- 0, StaleAge <- 0, MaxAttempts <- 1, Horizon <- 0, MaxTime <- 0,
    runs <- [r \in {"run"} |-> [state |-> "SUCCEEDED", source |-> "cli", passes |-> {"pass"},
                                deadline |-> -1, cancel |-> FALSE, archived |-> FALSE]],
    attempts <- [a \in {Key} |-> [state |-> "SUCCEEDED", lease |-> -1, error |-> "none"]],
    proposals <- [a \in {Key} |-> [p \in Proposal |->
                     [state |-> State(p), created |-> IF p \in Old THEN -1 ELSE 0,
                      reason |-> Reason(State(p))]]],
    consumed <- <<>>, now <- 0

StoreDecision ==
    \/ \E p \in Proposal :
          \/ \E target \in {"REJECTED", "DEFERRED"} : Store!TransitionProposals(Key, p, target, "none")
          \/ Store!TransitionProposals(Key, p, "SYSTEM_REJECTED", "other")
          \/ Store!ClaimProposals(Key, p)
          \/ \E succeeded \in BOOLEAN : Store!FinalizeProposals(Key, p, succeeded)
    \/ Store!ExpireStaleProposals
ImplementsStore == [][StoreDecision]_rows

\* Every claim is resolved, whatever fails in the apply, unless the claimer dies or the store does
\* not take the record of the outcome.
ClaimResolved ==
    \A p \in Proposal : State(p) = "APPLYING" ~> State(p) # "APPLYING" \/ p \in orphaned

-----------------------------------------------------------------------------
(* What documents or comments say, and the code does not do. *)

\* dream_apply.py: "Repeated calls on an APPLIED proposal are idempotent", so a proposal reaches
\* the knowledge base at most once.
WrittenAtMostOnce == \A p \in Proposal : written[p] <= 1
=============================================================================
