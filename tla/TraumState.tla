----------------------------- MODULE TraumState -----------------------------
(***************************************************************************)
(* The canonical TRAUM control-plane store (src/tools/traum_state.py).     *)
(*                                                                         *)
(* Every public method of class TraumState runs in one SQLite              *)
(* BEGIN IMMEDIATE transaction, so every method is one atomic action here. *)
(* A call that raises rolls its transaction back and a call that repeats   *)
(* what was already done changes no row: both are stuttering steps.        *)
(*                                                                         *)
(* Rows are total functions whose "ABSENT" state means "no such row".  An  *)
(* attempt is keyed by <<run, pass, attempt_no>>, its UNIQUE key, and a    *)
(* proposal by its attempt and its fingerprint, which record_proposals     *)
(* keeps unique.                                                           *)
(***************************************************************************)
EXTENDS Integers, FiniteSets

CONSTANTS
    Run,               \* run ids
    Pass,              \* dream passes (and "digest", which is one of them)
    Fingerprint,       \* semantic bodies of proposals
    Session,           \* episode session ids
    Pair, NoPair,      \* pair ids of the dedup pass, and "no pair"
    PairOf,            \* a fingerprint covers its pair_id, so it fixes it
    GraphFingerprint,  \* the fingerprints of proposals of type "graph"
    Source,            \* who creates a run
    LeaseRequest,      \* the lease lengths callers ask for (0: less than a unit), NoDeadline for none
    Verdict,           \* the outcomes workers report
    Grace,             \* DEFAULT_RECOVERY_GRACE_SECONDS
    StaleAge,          \* age at which an undecided proposal expires
    MaxAttempts,       \* bound: attempts per run and pass
    Horizon,           \* bound: no operation is started after this instant
    MaxTime            \* bound: where the clock stops

ASSUME PairAssumption   == NoPair \notin Pair /\ PairOf \in [Fingerprint -> Pair \cup {NoPair}]
ASSUME TimeAssumption   == {Grace, StaleAge, Horizon, MaxTime} \subseteq Nat
ASSUME BoundAssumption  == MaxAttempts \in Nat \ {0}
ASSUME GraphAssumption  == GraphFingerprint \subseteq Fingerprint

ControllerSource == {"gui", "scheduled", "manual"}

RunState      == {"QUEUED", "RUNNING", "SUCCEEDED", "DEGRADED", "FAILED", "BLOCKED", "CANCELLED"}
ActiveState   == {"QUEUED", "RUNNING"}
AttemptState  == {"QUEUED", "RUNNING", "SUCCEEDED", "NULL", "BLOCKED", "FAILED", "CANCELLED"}
AttemptTerminal == AttemptState \ ActiveState
Consumable    == {"SUCCEEDED", "NULL"}
ProposalState == {"STAGED", "PENDING", "DEFERRED", "APPLYING", "APPLIED", "REJECTED",
                  "SYSTEM_REJECTED", "SUPERSEDED", "EXPIRED", "APPLY_FAILED"}
ProposalTerminal == {"APPLIED", "REJECTED", "SYSTEM_REJECTED", "SUPERSEDED", "EXPIRED"}
Undecided     == {"STAGED", "PENDING", "DEFERRED"}

NoDeadline == -1
ASSUME LeaseAssumption  == LeaseRequest \subseteq Nat \cup {NoDeadline}
ASSUME VerdictAssumption == Verdict \subseteq AttemptTerminal

NoAttempt  == <<>>
Attempt    == Run \X Pass \X (1..MaxAttempts)
RunOf(a)   == a[1]
PassOf(a)  == a[2]
NoOf(a)    == a[3]

VARIABLES
    runs,       \* table runs
    attempts,   \* table attempts
    proposals,  \* table proposals
    consumed,   \* table session_consumption: the attempt that consumed, per pass and session
    now         \* the UTC clock every deadline is compared with

vars == <<runs, attempts, proposals, consumed, now>>

NoRun     == [state |-> "ABSENT", source |-> "none", passes |-> {}, deadline |-> NoDeadline,
              cancel |-> FALSE, archived |-> FALSE]
NoRow     == [state |-> "ABSENT", lease |-> NoDeadline, error |-> "none"]
NoProposal == [state |-> "ABSENT", created |-> 0, reason |-> "none"]

Init ==
    /\ runs      = [r \in Run |-> NoRun]
    /\ attempts  = [a \in Attempt |-> NoRow]
    /\ proposals = [a \in Attempt |-> [f \in Fingerprint |-> NoProposal]]
    /\ consumed  = [c \in Pass \X Session |-> NoAttempt]
    /\ now = 0

Exists(r)       == runs[r].state # "ABSENT"
ByController(r) == runs[r].source \in ControllerSource
RunActive(r)    == runs[r].state \in ActiveState
IsActive(a)     == attempts[a].state \in ActiveState
Past(deadline)  == deadline # NoDeadline /\ now > deadline

-----------------------------------------------------------------------------
(* Lease recovery: part of admission, and an operation of its own. *)

\* Mutant: only the leases of attempts count, so a queued run is never past its deadline.
DeadlinesOfAttempts(r) ==
    {attempts[a].lease : a \in {b \in Attempt : RunOf(b) = r /\ IsActive(b)}} \ {NoDeadline}
\* _effective_controller_deadline takes the minimum of these; "past the minimum" is "past some".
Deadlines(r) ==
    ({runs[r].deadline} \cup {attempts[a].lease : a \in {b \in Attempt : RunOf(b) = r /\ IsActive(b)}})
        \ {NoDeadline}
Recoverable(r) == \E d \in Deadlines(r) : now > d + Grace

Tracked(owned)       == {r \in Run \ owned : RunActive(r) /\ ~runs[r].archived}
Recovered(owned)     == {r \in Tracked(owned) : Recoverable(r)}
\* Mutant: a queued run does not count as active.
UnownedRunning(owned) == {r \in Tracked(owned) \ Recovered(owned) : runs[r].state = "RUNNING"}
UnownedActive(owned) == Tracked(owned) \ Recovered(owned)

\* A requested pass no attempt of the run exists for gets a synthetic BLOCKED attempt.  Its
\* lease is left out: no step reads the lease of a terminal attempt.
NeverStarted(a) ==
    PassOf(a) \in runs[RunOf(a)].passes /\ NoOf(a) = 1 /\ attempts[a].state = "ABSENT"
LeaseExpired(row) == [row EXCEPT !.state = "BLOCKED", !.error = "ControllerLeaseExpired"]
SystemRejected(row, reason) == [row EXCEPT !.state = "SYSTEM_REJECTED", !.reason = reason]

RecoveredRuns(owned) ==
    [r \in Run |-> IF r \in Recovered(owned) THEN [runs[r] EXCEPT !.state = "BLOCKED"] ELSE runs[r]]
RecoveredAttempts(owned) ==
    [a \in Attempt |->
        IF RunOf(a) \in Recovered(owned) /\ (IsActive(a) \/ NeverStarted(a))
        THEN LeaseExpired(attempts[a]) ELSE attempts[a]]
RecoveredProposals(owned) ==
    [a \in Attempt |-> [f \in Fingerprint |->
        IF RunOf(a) \in Recovered(owned) /\ IsActive(a) /\ proposals[a][f].state \in Undecided
        THEN SystemRejected(proposals[a][f], "other") ELSE proposals[a][f]]]

\* A controller that owns (runs the worker threads of) the runs in owned looks for expired work.
RecoverOrphaned(owned) ==
    /\ Recovered(owned) # {}
    /\ runs' = RecoveredRuns(owned)
    /\ attempts' = RecoveredAttempts(owned)
    /\ proposals' = RecoveredProposals(owned)
    /\ UNCHANGED <<consumed, now>>

\* What a controller-sourced creation or start does first, in the same transaction; the
\* conflict it raises on unowned active work rolls the recovery back too.
Admission(controller, owned) ==
    IF controller
    THEN /\ UnownedActive(owned) = {}
         /\ proposals' = RecoveredProposals(owned)
    ELSE UNCHANGED proposals
AdmittedRuns(controller, owned) == IF controller THEN RecoveredRuns(owned) ELSE runs
AdmittedAttempts(controller, owned) == IF controller THEN RecoveredAttempts(owned) ELSE attempts

-----------------------------------------------------------------------------
(* Runs and attempts. *)

Expiry(lease) == IF lease = NoDeadline THEN NoDeadline ELSE now + lease
\* Mutant: the lease of an attempt is not cut to the run's remaining budget.
FirstKnown(d, e) == IF d = NoDeadline THEN e ELSE d
Earlier(d, e) == IF d = NoDeadline \/ (e # NoDeadline /\ e < d) THEN e ELSE d

CreateRun(r, source, passes, lease) ==
    LET controller == source \in ControllerSource IN
    /\ now <= Horizon
    /\ ~Exists(r)
    /\ Admission(controller, {})
    /\ runs' = [AdmittedRuns(controller, {}) EXCEPT ![r] =
                   [NoRun EXCEPT !.state = "QUEUED", !.source = source, !.passes = passes,
                                 !.deadline = Expiry(lease)]]
    /\ attempts' = AdmittedAttempts(controller, {})
    /\ UNCHANGED <<consumed, now>>

\* attempt_no: MAX(attempt_no) + 1 over the run and the pass; numbers have no gaps.
IsNextAttempt(a) ==
    /\ attempts[a].state = "ABSENT"
    /\ \A n \in 1..(NoOf(a) - 1) : attempts[<<RunOf(a), PassOf(a), n>>].state # "ABSENT"
\* Mutant: RUNNING attempts are forgotten.
RunHasQueuedAttempt(r) == \E a \in Attempt : RunOf(a) = r /\ attempts[a].state = "QUEUED"
RunHasActiveAttempt(r) == \E a \in Attempt : RunOf(a) = r /\ IsActive(a)

\* "A human retry is a new bounded operation on the same run": a lease renews the deadline
\* of a run that is over.
StartDeadline(r, lease) ==
    IF lease # NoDeadline /\ ~RunActive(r) THEN Expiry(lease) ELSE runs[r].deadline

\* retry_of is checked and recorded, and nothing reads it: a retry is a later attempt_no.
StartAttempt(a, lease) ==
    LET r == RunOf(a)
        controller == ByController(r)
    IN  /\ now <= Horizon
        /\ Exists(r) /\ ~runs[r].archived
        /\ ~runs[r].cancel /\ runs[r].state # "CANCELLED"
        /\ IsNextAttempt(a)
        /\ Admission(controller, {r})
        /\ controller => ~RunHasActiveAttempt(r)
        /\ runs' = [AdmittedRuns(controller, {r}) EXCEPT ![r] =
                       [runs[r] EXCEPT !.state = "RUNNING", !.deadline = StartDeadline(r, lease)]]
        /\ attempts' = [AdmittedAttempts(controller, {r}) EXCEPT ![a] =
                           [state |-> "RUNNING", error |-> "none",
                            lease |-> Earlier(Expiry(lease), StartDeadline(r, lease))]]
        /\ UNCHANGED <<consumed, now>>

\* The attempt _aggregate_run looks at for its run and pass.
IsLatest(table, a) ==
    /\ table[a].state # "ABSENT"
    /\ \A b \in Attempt : /\ RunOf(b) = RunOf(a) /\ PassOf(b) = PassOf(a)
                          /\ table[b].state # "ABSENT"
                          => NoOf(b) <= NoOf(a)
LatestIn(table, r, p, states) ==
    \E a \in Attempt : RunOf(a) = r /\ PassOf(a) = p /\ IsLatest(table, a) /\ table[a].state \in states

AggregateState(table, r) ==
    LET passes == runs[r].passes
        AllLatest(states) == \A p \in passes : LatestIn(table, r, p, states)
    IN  IF \/ \E p \in Pass : LatestIn(table, r, p, ActiveState)
           \/ ~AllLatest(AttemptState)                   THEN "RUNNING"
        ELSE IF AllLatest(Consumable)                    THEN "SUCCEEDED"
        ELSE IF \E p \in passes : LatestIn(table, r, p, Consumable) THEN "DEGRADED"
        ELSE IF AllLatest({"BLOCKED"})                   THEN "BLOCKED"
        ELSE IF AllLatest({"CANCELLED"})                 THEN "CANCELLED"
        ELSE "FAILED"

FinishedProposals(a, verdict) ==
    [f \in Fingerprint |->
        LET row == proposals[a][f] IN
        IF verdict \in Consumable
        THEN IF row.state = "STAGED" THEN [row EXCEPT !.state = "PENDING"] ELSE row
        ELSE IF row.state \in Undecided THEN SystemRejected(row, "other") ELSE row]

\* Sessions already consumed keep the attempt that consumed them (INSERT OR IGNORE).
Consume(a, sessions) ==
    [c \in Pass \X Session |->
        IF c[1] = PassOf(a) /\ c[2] \in sessions /\ consumed[c] = NoAttempt THEN a ELSE consumed[c]]

\* Mutant: the last verdict wins, even over a fenced attempt.
FinishAnyAttempt(a, verdict, sessions) ==
    /\ attempts[a].state # "ABSENT"
    /\ attempts' = [attempts EXCEPT ![a] = [attempts[a] EXCEPT !.state = verdict]]
    /\ proposals' = [proposals EXCEPT ![a] = FinishedProposals(a, verdict)]
    /\ consumed' = Consume(a, sessions)
    /\ runs' = [runs EXCEPT ![RunOf(a)] =
                   [runs[RunOf(a)] EXCEPT !.state = AggregateState(attempts', RunOf(a))]]
    /\ UNCHANGED now
FinishAttempt(a, verdict, sessions) ==
    /\ IsActive(a)
    /\ verdict \in Consumable => ~Past(attempts[a].lease)
    /\ sessions # {} => verdict \in Consumable
    /\ attempts' = [attempts EXCEPT ![a] = [attempts[a] EXCEPT !.state = verdict]]
    /\ proposals' = [proposals EXCEPT ![a] = FinishedProposals(a, verdict)]
    /\ consumed' = Consume(a, sessions)
    /\ runs' = [runs EXCEPT ![RunOf(a)] =
                   [runs[RunOf(a)] EXCEPT !.state = AggregateState(attempts', RunOf(a))]]
    /\ UNCHANGED now

\* Sessions recorded after the fact, against a terminal attempt of the same outcome.
RecordConsumption(a, sessions) ==
    /\ attempts[a].state \in Consumable
    /\ consumed' = Consume(a, sessions)
    /\ UNCHANGED <<runs, attempts, proposals, now>>

EndedAttempts(r, verdict, error) ==
    [a \in Attempt |->
        IF RunOf(a) = r /\ IsActive(a)
        THEN [attempts[a] EXCEPT !.state = verdict, !.error = error] ELSE attempts[a]]

\* The controller's last word on a failed run of its own.  Neither it nor the store looks whether
\* an attempt is live: another gateway may have retried one since.
FinalizeRunFailed(r) ==
    /\ Exists(r) /\ runs[r].source = "gui"
    /\ runs' = [runs EXCEPT ![r] = [runs[r] EXCEPT !.state = "FAILED"]]
    /\ UNCHANGED <<attempts, proposals, consumed, now>>

RequestCancel(r) ==
    /\ Exists(r) /\ ~runs[r].cancel
    /\ runs' = [runs EXCEPT ![r] = [runs[r] EXCEPT !.cancel = TRUE]]
    /\ UNCHANGED <<attempts, proposals, consumed, now>>

FinalizeCancelledRun(r) ==
    /\ Exists(r)
    /\ runs' = [runs EXCEPT ![r] = [runs[r] EXCEPT !.state = "CANCELLED", !.cancel = TRUE]]
    /\ attempts' = EndedAttempts(r, "CANCELLED", "none")
    /\ UNCHANGED <<proposals, consumed, now>>

\* Mutant: the digest is not looked at.
CycleStateWithoutDigest(table, r, digestOk) ==
    LET current == IF RunHasActiveAttempt(r) THEN AggregateState(table, r) ELSE runs[r].state
    IN  IF current \in ActiveState THEN "DEGRADED" ELSE current
\* Mutant: the state of the run is recomputed from its attempts, and nothing else.
CycleStateOfAttempts(table, r, digestOk) ==
    LET current == AggregateState(table, r)
    IN  IF ~digestOk /\ current = "SUCCEEDED" THEN "DEGRADED" ELSE current
\* The end of a dream cycle: attempts left running are BLOCKED, a failed digest degrades.
CycleState(table, r, digestOk) ==
    LET current == IF RunHasActiveAttempt(r) THEN AggregateState(table, r) ELSE runs[r].state
    IN  IF ~digestOk /\ current = "SUCCEEDED" THEN "DEGRADED"
        ELSE IF current \in ActiveState THEN (IF digestOk THEN "DEGRADED" ELSE "FAILED")
        ELSE current

FinalizeCycle(r, digestOk) ==
    /\ Exists(r)
    /\ attempts' = EndedAttempts(r, "BLOCKED", "ControllerDeadline")
    /\ runs' = [runs EXCEPT ![r] = [runs[r] EXCEPT !.state = CycleState(attempts', r, digestOk)]]
    /\ UNCHANGED <<proposals, consumed, now>>

ArchiveRun(r) ==
    /\ Exists(r) /\ ~RunActive(r) /\ ~runs[r].archived
    /\ runs' = [runs EXCEPT ![r] = [runs[r] EXCEPT !.archived = TRUE]]
    /\ UNCHANGED <<attempts, proposals, consumed, now>>

-----------------------------------------------------------------------------
(* Proposals. *)

\* A row that makes an exact repeat of its fingerprint superfluous.  A system rejection counts
\* when its reason starts with malformed:, noop:, invariant: or rule: ("honoured").
HonouredState == {"STAGED", "PENDING", "DEFERRED", "APPLYING", "APPLIED", "REJECTED",
                  "SUPERSEDED", "APPLY_FAILED"}
\* Mutant: a row being applied, or refused by a human, does not count.
HonouredQueued(row) == row.state \in {"STAGED", "PENDING", "DEFERRED", "APPLIED", "SUPERSEDED"}
Honoured(row) == \/ row.state \in HonouredState
                 \/ row.state = "SYSTEM_REJECTED" /\ row.reason = "honoured"
HasPrior(f) == \E b \in Attempt : Honoured(proposals[b][f])

\* The annotations callers hand to record_proposals: nothing; malformed, redacted or rejected by
\* a rule; cut off by the token budget; and, for proposals outside pairs, superseded by a rule.
Fresh(state, reason) == [state |-> state, created |-> now, reason |-> reason]
Annotations(f) ==
    {Fresh("STAGED", "none"), Fresh("SYSTEM_REJECTED", "honoured"), Fresh("SYSTEM_REJECTED", "other")}
        \cup (IF PairOf[f] = NoPair THEN {Fresh("SUPERSEDED", "rule")} ELSE {})

PairMembers(batch, f) == {g \in DOMAIN batch : PairOf[g] = PairOf[f]}

\* Mutant: exact repeats are superseded one by one inside a pair.
StoredOneByOne(batch, f) ==
    IF batch[f].state = "STAGED" /\ HasPrior(f) THEN Fresh("SUPERSEDED", "repeat") ELSE batch[f]
\* What record_proposals stores for one item of the batch: a pair is one decision.
Stored(batch, f) ==
    LET group   == PairMembers(batch, f)
        refused == {g \in group : batch[g].state = "SYSTEM_REJECTED"}
    IN  IF batch[f].state # "STAGED" THEN batch[f]
        ELSE IF PairOf[f] = NoPair
             THEN IF HasPrior(f) THEN Fresh("SUPERSEDED", "repeat") ELSE batch[f]
        ELSE IF refused # {}
             THEN Fresh("SYSTEM_REJECTED",
                        IF \E g \in refused : batch[g].reason = "other" THEN "other" ELSE "honoured")
        ELSE IF \A g \in group : HasPrior(g) THEN Fresh("SUPERSEDED", "repeat") ELSE batch[f]

\* Callers record one batch per attempt, and both members of a pair together.
RecordProposals(a, batch) ==
    /\ attempts[a].state = "RUNNING" /\ ~Past(attempts[a].lease)
    /\ \A f \in Fingerprint : proposals[a][f].state = "ABSENT"
    /\ \A f \in DOMAIN batch, g \in Fingerprint :
           PairOf[f] # NoPair /\ PairOf[g] = PairOf[f] => g \in DOMAIN batch
    /\ proposals' = [proposals EXCEPT ![a] = [f \in Fingerprint |->
                        IF f \in DOMAIN batch THEN Stored(batch, f) ELSE proposals[a][f]]]
    /\ UNCHANGED <<runs, attempts, consumed, now>>

\* _canonical_group: the proposal, with the members of its pair in the same attempt.
DecisionGroup(a, f) ==
    IF PairOf[f] = NoPair THEN {f}
    ELSE {g \in Fingerprint : PairOf[g] = PairOf[f] /\ proposals[a][g].state # "ABSENT"}
Moved(a, group, target, reason) ==
    [f \in Fingerprint |->
        IF f \in group /\ proposals[a][f].state # target
        THEN [proposals[a][f] EXCEPT !.state = target, !.reason = reason] ELSE proposals[a][f]]

\* Mutant: a resolved proposal can be resolved again.
TransitionAnyProposals(a, f, target, reason) ==
    /\ proposals[a][f].state # "ABSENT"
    /\ proposals' = [proposals EXCEPT ![a] = Moved(a, DecisionGroup(a, f), target, reason)]
    /\ UNCHANGED <<runs, attempts, consumed, now>>
\* Reject, defer or system-reject; the revision check of the callers is in ProposalGate.
TransitionProposals(a, f, target, reason) ==
    /\ proposals[a][f].state # "ABSENT"
    /\ \A g \in DecisionGroup(a, f) :
           proposals[a][g].state = target \/ proposals[a][g].state \notin ProposalTerminal
    /\ proposals' = [proposals EXCEPT ![a] = Moved(a, DecisionGroup(a, f), target, reason)]
    /\ UNCHANGED <<runs, attempts, consumed, now>>

Claimable(a, f) == \/ proposals[a][f].state \in {"PENDING", "DEFERRED"}
                   \/ proposals[a][f].state = "APPLY_FAILED" /\ f \in GraphFingerprint

\* Mutant: the parent attempt is not looked at.
ClaimOrphanProposals(a, f) ==
    /\ proposals[a][f].state # "ABSENT"
    /\ \A g \in DecisionGroup(a, f) : Claimable(a, g)
    /\ proposals' = [proposals EXCEPT ![a] = Moved(a, DecisionGroup(a, f), "APPLYING", "none")]
    /\ UNCHANGED <<runs, attempts, consumed, now>>
ClaimProposals(a, f) ==
    /\ attempts[a].state \in Consumable
    /\ proposals[a][f].state # "ABSENT"
    /\ \A g \in DecisionGroup(a, f) : Claimable(a, g)
    /\ proposals' = [proposals EXCEPT ![a] = Moved(a, DecisionGroup(a, f), "APPLYING", "none")]
    /\ UNCHANGED <<runs, attempts, consumed, now>>

FinalizeProposals(a, f, succeeded) ==
    LET target == IF succeeded THEN "APPLIED" ELSE "APPLY_FAILED" IN
    /\ proposals[a][f].state # "ABSENT"
    /\ \A g \in DecisionGroup(a, f) : proposals[a][g].state \in {target, "APPLYING"}
    /\ proposals' = [proposals EXCEPT ![a] = Moved(a, DecisionGroup(a, f), target, "none")]
    /\ UNCHANGED <<runs, attempts, consumed, now>>

Stale(row) == row.state \in {"PENDING", "DEFERRED"} /\ row.created < now - StaleAge

ExpireStaleProposals ==
    /\ \E a \in Attempt, f \in Fingerprint : Stale(proposals[a][f])
    /\ proposals' = [a \in Attempt |-> [f \in Fingerprint |->
                        IF Stale(proposals[a][f])
                        THEN [proposals[a][f] EXCEPT !.state = "EXPIRED", !.reason = "other"]
                        ELSE proposals[a][f]]]
    /\ UNCHANGED <<runs, attempts, consumed, now>>

-----------------------------------------------------------------------------
Tick == now < MaxTime /\ now' = now + 1 /\ UNCHANGED <<runs, attempts, proposals, consumed>>

Batches == UNION {[B -> UNION {Annotations(f) : f \in B}] : B \in (SUBSET Fingerprint) \ {{}}}
LegalBatch(batch) == \A f \in DOMAIN batch : batch[f] \in Annotations(f)

RunStep ==
    \E r \in Run :
        \/ \E source \in Source, passes \in (SUBSET Pass) \ {{}}, lease \in LeaseRequest :
               CreateRun(r, source, passes, lease)
        \/ FinalizeRunFailed(r)
        \/ RequestCancel(r)
        \/ FinalizeCancelledRun(r)
        \/ \E digestOk \in BOOLEAN : FinalizeCycle(r, digestOk)
        \/ ArchiveRun(r)

AttemptStep ==
    \E a \in Attempt :
        \/ \E lease \in LeaseRequest : StartAttempt(a, lease)
        \/ \E verdict \in Verdict, sessions \in SUBSET Session : FinishAttempt(a, verdict, sessions)
        \/ \E sessions \in SUBSET Session : RecordConsumption(a, sessions)

ProposalStep ==
    \/ \E a \in {b \in Attempt : attempts[b].state = "RUNNING"} :
           \E batch \in Batches : LegalBatch(batch) /\ RecordProposals(a, batch)
    \/ \E a \in Attempt, f \in Fingerprint :
           \/ \E target \in {"REJECTED", "DEFERRED"} : TransitionProposals(a, f, target, "none")
           \/ \E reason \in {"honoured", "other"} :
                  TransitionProposals(a, f, "SYSTEM_REJECTED", reason)
           \/ ClaimProposals(a, f)
           \/ \E succeeded \in BOOLEAN : FinalizeProposals(a, f, succeeded)
    \/ ExpireStaleProposals

Next ==
    \/ RunStep
    \/ AttemptStep
    \/ ProposalStep
    \/ \E owned \in SUBSET Run : RecoverOrphaned(owned)
    \/ Tick

Spec == Init /\ [][Next]_vars

-----------------------------------------------------------------------------
(* What the store promises. *)

RunRow == [state : RunState \cup {"ABSENT"}, source : Source \cup {"none"}, passes : SUBSET Pass,
           deadline : Int, cancel : BOOLEAN, archived : BOOLEAN]
AttemptRow == [state : AttemptState \cup {"ABSENT"}, lease : Int,
               error : {"none", "ControllerLeaseExpired", "ControllerDeadline"}]
ProposalRow == [state : ProposalState \cup {"ABSENT"}, created : Int,
                reason : {"none", "honoured", "other", "repeat", "rule"}]

\* Every table holds well-formed rows.
TypeOK ==
    /\ runs \in [Run -> RunRow]
    /\ attempts \in [Attempt -> AttemptRow]
    /\ proposals \in [Attempt -> [Fingerprint -> ProposalRow]]
    /\ consumed \in [Pass \X Session -> Attempt \cup {NoAttempt}]
    /\ now \in Nat

\* At most one controller-sourced (gui, scheduled, manual) run is active, whatever gateways,
\* schedulers, retries, cancellations and recoveries do: "Only one GUI-owned TRAUM operation is
\* admitted at a time" (docs/TRAUM-OPERATOR-MANUAL.md).
OneControllerRunActive ==
    \A r, s \in Run : /\ ByController(r) /\ RunActive(r)
                      /\ ByController(s) /\ RunActive(s)
                      => r = s

\* A live attempt of a controller run is the only one of its run.  Its run is RUNNING and visible,
\* or was failed by finalize_run, which looks at no attempt: no retry, cancellation, aggregation,
\* recovery or archiving ends or hides a run around a working child.
OnlyFailureOutlived ==
    \A a, b \in Attempt :
        ByController(RunOf(a)) /\ IsActive(a) =>
            /\ RunOf(b) = RunOf(a) /\ IsActive(b) => a = b
            /\ \/ runs[RunOf(a)].state = "RUNNING" /\ ~runs[RunOf(a)].archived
               \/ runs[RunOf(a)].state = "FAILED"

\* A run reported SUCCEEDED has a latest attempt that succeeded for every pass it was asked for.
SucceededRunIsComplete ==
    \A r \in Run : runs[r].state = "SUCCEEDED" =>
        \A p \in runs[r].passes : LatestIn(attempts, r, p, Consumable)

\* A proposal reaches a human or the knowledge base only from an attempt that completed:
\* nothing an attempt staged and then failed to finish is ever pending, applied or being applied.
PublishedOnlyByCompletedAttempt ==
    \A a \in Attempt, f \in Fingerprint :
        proposals[a][f].state \in {"PENDING", "APPLYING", "APPLIED", "APPLY_FAILED"}
            => attempts[a].state \in Consumable

\* A session counts as consumed by a pass only through a completed attempt of that pass.
ConsumptionSound ==
    \A c \in Pass \X Session : consumed[c] # NoAttempt =>
        attempts[consumed[c]].state \in Consumable /\ PassOf(consumed[c]) = c[1]

\* The same content is in front of the operator, decided or applied at most once, over all runs.
OneLiveRowPerFingerprint ==
    \A f \in Fingerprint : PairOf[f] = NoPair =>
        \A a, b \in Attempt :
            /\ proposals[a][f].state \in HonouredState \ {"SUPERSEDED"}
            /\ proposals[b][f].state \in HonouredState \ {"SUPERSEDED"}
            => a = b

\* The members of a dedup pair share one fate: no split that no decision could ever claim.
PairUniform ==
    \A a \in Attempt : \A f, g \in Fingerprint :
        PairOf[f] # NoPair /\ PairOf[g] = PairOf[f] => proposals[a][f].state = proposals[a][g].state

\* A terminal attempt keeps its verdict and a consumed session its consumer: a late worker, a
\* cancellation and a recovery cannot rewrite them.
VerdictsFinal ==
    [][/\ \A a \in Attempt : attempts[a].state \in AttemptTerminal => attempts'[a] = attempts[a]
       /\ \A c \in Pass \X Session : consumed[c] # NoAttempt => consumed'[c] = consumed[c]]_vars

\* A resolved proposal stays resolved as it is.
DecisionsFinal ==
    [][\A a \in Attempt, f \in Fingerprint :
          proposals[a][f].state \in ProposalTerminal => proposals'[a][f] = proposals[a][f]]_vars

\* Recovery fences an attempt of a controller run only when that attempt's own lease and the
\* grace have passed, although it looks at the earliest deadline of the whole run.
RecoveryRespectsLease ==
    [][\A a \in Attempt :
          /\ IsActive(a) /\ ByController(RunOf(a))
          /\ attempts'[a].error = "ControllerLeaseExpired"
          => attempts[a].lease # NoDeadline /\ now > attempts[a].lease + Grace]_vars

=============================================================================
