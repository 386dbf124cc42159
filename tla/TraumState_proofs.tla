-------------------------- MODULE TraumState_proofs --------------------------
(***************************************************************************)
(* Proofs about the canonical TRAUM store, for every value of its          *)
(* constants: type correctness; what attempts, consumption and proposals   *)
(* end up as; the outcome of a run; the unity of pairs; what may be live   *)
(* beside a controller's attempt; and the leases that recovery respects.   *)
(***************************************************************************)
EXTENDS TraumState, TLAPS

\* The components of an attempt key.
LEMMA AttemptKey ==
    ASSUME NEW a \in Attempt
    PROVE  RunOf(a) \in Run /\ PassOf(a) \in Pass /\ NoOf(a) \in 1..MaxAttempts
BY DEF Attempt, RunOf, PassOf, NoOf

-----------------------------------------------------------------------------
(* Type correctness. *)

\* A system rejection of a well-formed row is one.
LEMMA SystemRejectedType ==
    ASSUME NEW row \in ProposalRow, NEW reason \in {"honoured", "other"}
    PROVE  SystemRejected(row, reason) \in ProposalRow
BY DEF SystemRejected, ProposalRow, ProposalState

\* Recovery keeps the tables well formed.
LEMMA RecoveryType ==
    ASSUME TypeOK, NEW owned \in SUBSET Run
    PROVE  /\ RecoveredRuns(owned) \in [Run -> RunRow]
           /\ RecoveredAttempts(owned) \in [Attempt -> AttemptRow]
           /\ RecoveredProposals(owned) \in [Attempt -> [Fingerprint -> ProposalRow]]
<1>1. RecoveredRuns(owned) \in [Run -> RunRow]
  BY DEF TypeOK, RecoveredRuns, RunRow, RunState
<1>2. RecoveredAttempts(owned) \in [Attempt -> AttemptRow]
  BY DEF TypeOK, RecoveredAttempts, LeaseExpired, AttemptRow, AttemptState
<1>3. RecoveredProposals(owned) \in [Attempt -> [Fingerprint -> ProposalRow]]
  <2>1. SUFFICES ASSUME NEW a \in Attempt, NEW f \in Fingerprint
                 PROVE  /\ proposals[a][f] \in ProposalRow
                        /\ SystemRejected(proposals[a][f], "other") \in ProposalRow
    BY DEF RecoveredProposals
  <2>2. proposals[a][f] \in ProposalRow
    BY DEF TypeOK
  <2> QED BY <2>2, SystemRejectedType
<1> QED BY <1>1, <1>2, <1>3

\* A derived run state is a run state.
LEMMA AggregateType ==
    ASSUME NEW table, NEW r
    PROVE  AggregateState(table, r) \in RunState
BY DEF AggregateState, RunState

\* What a move of a decision group leaves in the table.
LEMMA MovedType ==
    ASSUME TypeOK, NEW a \in Attempt, NEW group,
           NEW target \in ProposalState, NEW reason \in {"none", "honoured", "other"}
    PROVE  [proposals EXCEPT ![a] = Moved(a, group, target, reason)]
              \in [Attempt -> [Fingerprint -> ProposalRow]]
<1>1. Moved(a, group, target, reason) \in [Fingerprint -> ProposalRow]
  <2>1. SUFFICES ASSUME NEW f \in Fingerprint
                 PROVE  /\ proposals[a][f] \in ProposalRow
                        /\ [proposals[a][f] EXCEPT !.state = target, !.reason = reason] \in ProposalRow
    BY DEF Moved
  <2>2. proposals[a][f] \in ProposalRow
    BY DEF TypeOK
  <2> QED BY <2>2 DEF ProposalRow
<1>2. proposals \in [Attempt -> [Fingerprint -> ProposalRow]]
  BY DEF TypeOK
<1> QED BY <1>1, <1>2

\* A legal batch stores well-formed rows, none of which is beyond STAGED.
LEMMA StoredType ==
    ASSUME TypeOK, NEW batch \in Batches, LegalBatch(batch), NEW f \in DOMAIN batch
    PROVE  /\ f \in Fingerprint
           /\ Stored(batch, f) \in ProposalRow
           /\ Stored(batch, f).state \in {"STAGED", "SYSTEM_REJECTED", "SUPERSEDED"}
<1>1. DOMAIN batch \subseteq Fingerprint
  BY DEF Batches
<1>2. batch[f] \in Annotations(f)
  BY DEF LegalBatch
<1>3. batch[f] \in ProposalRow /\ batch[f].state \in {"STAGED", "SYSTEM_REJECTED", "SUPERSEDED"}
  BY <1>2 DEF Annotations, Fresh, ProposalRow, ProposalState, TypeOK
<1>4. \A reason \in {"repeat", "honoured", "other"}, state \in {"SUPERSEDED", "SYSTEM_REJECTED"} :
        Fresh(state, reason) \in ProposalRow /\ Fresh(state, reason).state = state
  BY DEF Fresh, ProposalRow, ProposalState, TypeOK
<1> QED BY <1>1, <1>3, <1>4 DEF Stored

LEMMA TypeInit == Init => TypeOK
BY TimeAssumption DEF Init, TypeOK, NoRun, NoRow, NoProposal, NoAttempt, NoDeadline,
                      RunRow, AttemptRow, ProposalRow, RunState, AttemptState, ProposalState

\* Lease arithmetic stays within the integers.
LEMMA LeaseType ==
    ASSUME TypeOK, NEW r \in Run, NEW lease \in LeaseRequest
    PROVE  /\ Expiry(lease) \in Int
           /\ StartDeadline(r, lease) \in Int
           /\ Earlier(Expiry(lease), StartDeadline(r, lease)) \in Int
<1>1. lease \in Int /\ now \in Int
  BY LeaseAssumption DEF TypeOK, NoDeadline
<1>2. runs[r].deadline \in Int
  BY DEF TypeOK, RunRow
<1> QED BY <1>1, <1>2 DEF Expiry, StartDeadline, Earlier, NoDeadline

LEMMA CreateRunType ==
    ASSUME TypeOK, NEW r \in Run, NEW source \in Source, NEW passes \in SUBSET Pass,
           NEW lease \in LeaseRequest, CreateRun(r, source, passes, lease)
    PROVE  TypeOK'
<1>1. AdmittedRuns(source \in ControllerSource, {}) \in [Run -> RunRow]
  BY RecoveryType DEF AdmittedRuns, TypeOK
<1>2. attempts' \in [Attempt -> AttemptRow]
  BY RecoveryType DEF AdmittedAttempts, TypeOK, CreateRun
<1>3. proposals' \in [Attempt -> [Fingerprint -> ProposalRow]]
  BY RecoveryType DEF Admission, TypeOK, CreateRun
<1>4. [NoRun EXCEPT !.state = "QUEUED", !.source = source, !.passes = passes,
                    !.deadline = Expiry(lease)] \in RunRow
  BY LeaseType DEF NoRun, RunRow, RunState
<1>5. runs' \in [Run -> RunRow]
  BY <1>1, <1>4 DEF CreateRun
<1> QED BY <1>2, <1>3, <1>5 DEF TypeOK, CreateRun

LEMMA StartAttemptType ==
    ASSUME TypeOK, NEW a \in Attempt, NEW lease \in LeaseRequest, StartAttempt(a, lease)
    PROVE  TypeOK'
<1> DEFINE r == RunOf(a)
<1>0. r \in Run
  BY AttemptKey
<1>1. /\ AdmittedRuns(ByController(r), {r}) \in [Run -> RunRow]
      /\ AdmittedAttempts(ByController(r), {r}) \in [Attempt -> AttemptRow]
      /\ proposals' \in [Attempt -> [Fingerprint -> ProposalRow]]
  BY <1>0, RecoveryType DEF AdmittedRuns, AdmittedAttempts, Admission, TypeOK, StartAttempt
<1>2. [runs[r] EXCEPT !.state = "RUNNING", !.deadline = StartDeadline(r, lease)] \in RunRow
  BY <1>0, LeaseType DEF TypeOK, RunRow, RunState
<1>3. [state |-> "RUNNING", error |-> "none",
       lease |-> Earlier(Expiry(lease), StartDeadline(r, lease))] \in AttemptRow
  BY <1>0, LeaseType DEF AttemptRow, AttemptState
<1>4. runs' \in [Run -> RunRow] /\ attempts' \in [Attempt -> AttemptRow]
  BY <1>0, <1>1, <1>2, <1>3 DEF StartAttempt
<1> QED BY <1>1, <1>4 DEF TypeOK, StartAttempt

\* A run whose state or flags change stays a run.
LEMMA RunUpdateType ==
    ASSUME TypeOK, NEW r \in Run, NEW state \in RunState,
           NEW cancel \in BOOLEAN, NEW archived \in BOOLEAN
    PROVE  /\ [runs EXCEPT ![r] = [runs[r] EXCEPT !.state = state]] \in [Run -> RunRow]
           /\ [runs EXCEPT ![r] = [runs[r] EXCEPT !.cancel = cancel]] \in [Run -> RunRow]
           /\ [runs EXCEPT ![r] = [runs[r] EXCEPT !.archived = archived]] \in [Run -> RunRow]
           /\ [runs EXCEPT ![r] = [runs[r] EXCEPT !.state = state, !.cancel = cancel]]
                 \in [Run -> RunRow]
<1>1. runs[r] \in RunRow /\ runs \in [Run -> RunRow]
  BY DEF TypeOK
<1>2. [runs[r] EXCEPT !.state = state] \in RunRow
  BY <1>1, Zenon DEF RunRow
<1>3. [runs[r] EXCEPT !.cancel = cancel] \in RunRow
  BY <1>1, Zenon DEF RunRow
<1>4. [runs[r] EXCEPT !.archived = archived] \in RunRow
  BY <1>1, Zenon DEF RunRow
<1>5. [runs[r] EXCEPT !.state = state, !.cancel = cancel] \in RunRow
  BY <1>1, Zenon DEF RunRow
<1> QED BY <1>1, <1>2, <1>3, <1>4, <1>5

LEMMA FinishAttemptType ==
    ASSUME TypeOK, NEW a \in Attempt, NEW verdict \in Verdict, NEW sessions \in SUBSET Session,
           FinishAttempt(a, verdict, sessions)
    PROVE  TypeOK'
<1>1. attempts' \in [Attempt -> AttemptRow]
  BY VerdictAssumption DEF TypeOK, FinishAttempt, AttemptRow, AttemptTerminal
<1>2. FinishedProposals(a, verdict) \in [Fingerprint -> ProposalRow]
  <2>1. SUFFICES ASSUME NEW f \in Fingerprint
                 PROVE  /\ proposals[a][f] \in ProposalRow
                        /\ [proposals[a][f] EXCEPT !.state = "PENDING"] \in ProposalRow
                        /\ SystemRejected(proposals[a][f], "other") \in ProposalRow
    BY DEF FinishedProposals
  <2>2. proposals[a][f] \in ProposalRow
    BY DEF TypeOK
  <2> QED BY <2>2, SystemRejectedType DEF ProposalRow, ProposalState
<1>3. proposals' \in [Attempt -> [Fingerprint -> ProposalRow]]
  BY <1>2 DEF TypeOK, FinishAttempt
<1>4. consumed' \in [Pass \X Session -> Attempt \cup {NoAttempt}]
  BY DEF TypeOK, FinishAttempt, Consume
<1>5. runs' \in [Run -> RunRow]
  BY AttemptKey, AggregateType, RunUpdateType DEF FinishAttempt
<1> QED BY <1>1, <1>3, <1>4, <1>5 DEF TypeOK, FinishAttempt

\* The finalizers end attempts with well-formed rows.
LEMMA EndedType ==
    ASSUME TypeOK, NEW r, NEW verdict \in AttemptState, NEW error \in {"none", "ControllerDeadline"}
    PROVE  EndedAttempts(r, verdict, error) \in [Attempt -> AttemptRow]
BY DEF TypeOK, EndedAttempts, AttemptRow

LEMMA RecordProposalsType ==
    ASSUME TypeOK, NEW a \in Attempt, NEW batch \in Batches, LegalBatch(batch),
           RecordProposals(a, batch)
    PROVE  TypeOK'
<1>1. [f \in Fingerprint |-> IF f \in DOMAIN batch THEN Stored(batch, f) ELSE proposals[a][f]]
         \in [Fingerprint -> ProposalRow]
  BY StoredType DEF TypeOK
<1>2. proposals' \in [Attempt -> [Fingerprint -> ProposalRow]]
  BY <1>1 DEF TypeOK, RecordProposals
<1> QED BY <1>2 DEF TypeOK, RecordProposals

\* Well-formed tables are inductive.
LEMMA TypeStep == TypeOK /\ [Next]_vars => TypeOK'
<1> SUFFICES ASSUME TypeOK, [Next]_vars
             PROVE  TypeOK'
  OBVIOUS
<1>1. CASE RunStep
  <2> PICK r \in Run :
        \/ \E source \in Source, passes \in (SUBSET Pass) \ {{}}, lease \in LeaseRequest :
               CreateRun(r, source, passes, lease)
        \/ FinalizeRunFailed(r)
        \/ RequestCancel(r)
        \/ FinalizeCancelledRun(r)
        \/ \E digestOk \in BOOLEAN : FinalizeCycle(r, digestOk)
        \/ ArchiveRun(r)
    BY <1>1 DEF RunStep
  <2>1. ASSUME NEW source \in Source, NEW passes \in (SUBSET Pass) \ {{}}, NEW lease \in LeaseRequest,
               CreateRun(r, source, passes, lease)
        PROVE  TypeOK'
    BY <2>1, CreateRunType
  <2>2. CASE FinalizeRunFailed(r)
    BY <2>2, RunUpdateType DEF FinalizeRunFailed, TypeOK, RunState
  <2>3. CASE RequestCancel(r)
    <3>1. runs' \in [Run -> RunRow]
      BY <2>3, RunUpdateType DEF RequestCancel, RunState
    <3> QED BY <2>3, <3>1 DEF RequestCancel, TypeOK
  <2>4. CASE FinalizeCancelledRun(r)
    <3>1. runs' \in [Run -> RunRow]
      BY <2>4, RunUpdateType DEF FinalizeCancelledRun, RunState
    <3>2. attempts' \in [Attempt -> AttemptRow]
      BY <2>4, EndedType DEF FinalizeCancelledRun, AttemptState
    <3> QED BY <2>4, <3>1, <3>2 DEF FinalizeCancelledRun, TypeOK
  <2>5. ASSUME NEW digestOk \in BOOLEAN, FinalizeCycle(r, digestOk)
        PROVE  TypeOK'
    <3>1. attempts' \in [Attempt -> AttemptRow]
      BY <2>5, EndedType DEF FinalizeCycle, AttemptState
    <3>2. CycleState(attempts', r, digestOk) \in RunState
      <4>1. runs[r].state \in RunState
        BY <2>5 DEF FinalizeCycle, Exists, TypeOK, RunRow
      <4> QED BY <4>1, AggregateType DEF CycleState, RunState
    <3>3. runs' \in [Run -> RunRow]
      BY <2>5, <3>2, RunUpdateType DEF FinalizeCycle
    <3> QED BY <2>5, <3>1, <3>3 DEF FinalizeCycle, TypeOK
  <2>6. CASE ArchiveRun(r)
    <3>1. runs' \in [Run -> RunRow]
      BY <2>6, RunUpdateType DEF ArchiveRun, RunState
    <3> QED BY <2>6, <3>1 DEF ArchiveRun, TypeOK
  <2> QED BY <2>1, <2>2, <2>3, <2>4, <2>5, <2>6
<1>2. CASE AttemptStep
  <2> PICK a \in Attempt :
        \/ \E lease \in LeaseRequest : StartAttempt(a, lease)
        \/ \E verdict \in Verdict, sessions \in SUBSET Session : FinishAttempt(a, verdict, sessions)
        \/ \E sessions \in SUBSET Session : RecordConsumption(a, sessions)
    BY <1>2 DEF AttemptStep
  <2>1. ASSUME NEW sessions \in SUBSET Session, RecordConsumption(a, sessions)
        PROVE  TypeOK'
    BY <2>1 DEF TypeOK, RecordConsumption, Consume
  <2> QED BY <2>1, StartAttemptType, FinishAttemptType
<1>3. CASE ProposalStep
  <2>1. ASSUME NEW a \in Attempt, NEW f \in Fingerprint,
               NEW target \in ProposalState, NEW reason \in {"none", "honoured", "other"},
               TransitionProposals(a, f, target, reason)
        PROVE  TypeOK'
    BY <2>1, MovedType DEF TransitionProposals, TypeOK
  <2>2. ASSUME NEW a \in Attempt, NEW f \in Fingerprint, ClaimProposals(a, f)
        PROVE  TypeOK'
    BY <2>2, MovedType DEF ClaimProposals, TypeOK, ProposalState
  <2>3. ASSUME NEW a \in Attempt, NEW f \in Fingerprint, NEW succeeded \in BOOLEAN,
               FinalizeProposals(a, f, succeeded)
        PROVE  TypeOK'
    BY <2>3, MovedType DEF FinalizeProposals, TypeOK, ProposalState
  <2>4. CASE ExpireStaleProposals
    <3>1. proposals' \in [Attempt -> [Fingerprint -> ProposalRow]]
      <4>1. SUFFICES ASSUME NEW a \in Attempt, NEW f \in Fingerprint
                     PROVE  /\ proposals[a][f] \in ProposalRow
                            /\ [proposals[a][f] EXCEPT !.state = "EXPIRED", !.reason = "other"]
                                  \in ProposalRow
        BY <2>4 DEF ExpireStaleProposals
      <4>2. proposals[a][f] \in ProposalRow
        BY DEF TypeOK
      <4> QED BY <4>2 DEF ProposalRow, ProposalState
    <3> QED BY <2>4, <3>1 DEF ExpireStaleProposals, TypeOK
  <2> QED BY <1>3, <2>1, <2>2, <2>3, <2>4, RecordProposalsType DEF ProposalStep, ProposalState
<1>4. ASSUME NEW owned \in SUBSET Run, RecoverOrphaned(owned)
      PROVE  TypeOK'
  BY <1>4, RecoveryType DEF RecoverOrphaned, TypeOK
<1>5. CASE Tick
  BY <1>5 DEF Tick, TypeOK
<1>6. CASE UNCHANGED vars
  BY <1>6 DEF vars, TypeOK
<1> QED BY <1>1, <1>2, <1>3, <1>4, <1>5, <1>6 DEF Next

\* Every table always holds well-formed rows.
THEOREM TypeCorrect == Spec => []TypeOK
BY TypeInit, TypeStep, PTL DEF Spec

-----------------------------------------------------------------------------
(* Recovery and admission.  Admission overlooks archived runs and the attempts of runs that do *)
(* not exist.                                                                                  *)

\* An archived controller run is over, and only existing runs have attempts.
AdmissionBlindSpots ==
    /\ \A r \in Run : ByController(r) /\ runs[r].archived => ~RunActive(r)
    /\ \A a \in Attempt : attempts[a].state # "ABSENT" => Exists(RunOf(a))

\* Recovery changes a run only by ending it, and leaves no live attempt in a run it ends.
LEMMA RecoveryOutcome ==
    ASSUME TypeOK, NEW owned \in SUBSET Run
    PROVE  /\ \A r \in Run :
                 /\ r \notin Recovered(owned) => RecoveredRuns(owned)[r] = runs[r]
                 /\ r \in Recovered(owned) => /\ RecoveredRuns(owned)[r].state = "BLOCKED"
                                              /\ RecoveredRuns(owned)[r].source = runs[r].source
                                              /\ RunActive(r)
           /\ \A a \in Attempt :
                 /\ RunOf(a) \notin Recovered(owned) => RecoveredAttempts(owned)[a] = attempts[a]
                 /\ RunOf(a) \in Recovered(owned) =>
                       RecoveredAttempts(owned)[a].state \notin ActiveState /\ Exists(RunOf(a))
<1>1. \A r \in Run :
         /\ r \notin Recovered(owned) => RecoveredRuns(owned)[r] = runs[r]
         /\ r \in Recovered(owned) => /\ RecoveredRuns(owned)[r].state = "BLOCKED"
                                      /\ RecoveredRuns(owned)[r].source = runs[r].source
                                      /\ RunActive(r)
  BY DEF RecoveredRuns, Recovered, Tracked, TypeOK, RunRow
<1>2. ASSUME NEW a \in Attempt, RunOf(a) \notin Recovered(owned)
      PROVE  RecoveredAttempts(owned)[a] = attempts[a]
  BY <1>2 DEF RecoveredAttempts
<1>3. ASSUME NEW a \in Attempt, RunOf(a) \in Recovered(owned)
      PROVE  /\ RecoveredAttempts(owned)[a].state \notin ActiveState
             /\ Exists(RunOf(a))
  <2>1. Exists(RunOf(a))
    BY <1>3 DEF Recovered, Tracked, RunActive, Exists, ActiveState
  <2>2. attempts[a] \in AttemptRow
    BY DEF TypeOK
  <2>3. RecoveredAttempts(owned)[a].state \notin ActiveState
    BY <1>3, <2>2 DEF RecoveredAttempts, LeaseExpired, IsActive, AttemptRow, ActiveState
  <2> QED BY <2>1, <2>3
<1> QED BY <1>1, <1>2, <1>3

\* When admission finds no unowned active run, every run outside owned that it can see is over.
LEMMA AdmissionEndsOthers ==
    ASSUME TypeOK, AdmissionBlindSpots, NEW owned \in SUBSET Run, UnownedActive(owned) = {},
           NEW r \in Run \ owned, ByController(r)
    PROVE  /\ RecoveredRuns(owned)[r].state \notin ActiveState
           /\ r \in Recovered(owned) \/ ~RunActive(r)
<1>1. CASE r \in Recovered(owned)
  BY <1>1, RecoveryOutcome DEF ActiveState
<1>2. CASE r \notin Recovered(owned)
  <2>1. r \notin Tracked(owned)
    BY <1>2 DEF UnownedActive
  <2>2. ~RunActive(r)
    BY <2>1 DEF Tracked, AdmissionBlindSpots
  <2> QED BY <1>2, <2>2, RecoveryOutcome DEF RunActive
<1> QED BY <1>1, <1>2

-----------------------------------------------------------------------------
(* Verdicts and consumption. *)

AttemptsKept ==
    \A a \in Attempt : attempts[a].state \in AttemptTerminal => attempts'[a] = attempts[a]
ConsumersKept ==
    \A c \in Pass \X Session : consumed[c] # NoAttempt => consumed'[c] = consumed[c]

\* Recovery leaves terminal attempts alone.
LEMMA RecoveryKeepsTerminal ==
    ASSUME NEW owned \in SUBSET Run, NEW a \in Attempt, attempts[a].state \in AttemptTerminal
    PROVE  RecoveredAttempts(owned)[a] = attempts[a]
BY DEF RecoveredAttempts, IsActive, NeverStarted, AttemptTerminal, AttemptState, ActiveState

\* A step either leaves an attempt as it is, or finds it absent or active.
LEMMA AttemptsStep == TypeOK /\ [Next]_vars => AttemptsKept
<1> SUFFICES ASSUME TypeOK, [Next]_vars, NEW a \in Attempt, attempts[a].state \in AttemptTerminal
             PROVE  attempts'[a] = attempts[a]
  BY DEF AttemptsKept
<1>0. attempts[a].state # "ABSENT" /\ ~IsActive(a)
  BY DEF AttemptTerminal, AttemptState, ActiveState, IsActive
<1>1. ASSUME NEW r \in Run, NEW source \in Source, NEW passes, NEW lease,
             CreateRun(r, source, passes, lease)
      PROVE  attempts'[a] = attempts[a]
  BY <1>1, RecoveryKeepsTerminal DEF CreateRun, AdmittedAttempts
<1>2. ASSUME NEW r \in Run, FinalizeRunFailed(r) \/ RequestCancel(r) \/ ArchiveRun(r)
      PROVE  attempts'[a] = attempts[a]
  BY <1>2 DEF FinalizeRunFailed, RequestCancel, ArchiveRun
<1>3. ASSUME NEW r \in Run, NEW digestOk, FinalizeCancelledRun(r) \/ FinalizeCycle(r, digestOk)
      PROVE  attempts'[a] = attempts[a]
  BY <1>0, <1>3 DEF FinalizeCancelledRun, FinalizeCycle, EndedAttempts
<1>4. ASSUME NEW b \in Attempt, NEW lease, StartAttempt(b, lease)
      PROVE  attempts'[a] = attempts[a]
  <2>1. a # b
    BY <1>0, <1>4 DEF StartAttempt, IsNextAttempt
  <2>2. AdmittedAttempts(ByController(RunOf(b)), {RunOf(b)})[a] = attempts[a]
    <3>1. RunOf(b) \in Run
      BY AttemptKey
    <3> QED BY <3>1, RecoveryKeepsTerminal DEF AdmittedAttempts
  <2>3. AdmittedAttempts(ByController(RunOf(b)), {RunOf(b)}) \in [Attempt -> AttemptRow]
    BY AttemptKey, RecoveryType DEF AdmittedAttempts, TypeOK
  <2> QED BY <1>4, <2>1, <2>2, <2>3 DEF StartAttempt
<1>5. ASSUME NEW b \in Attempt, NEW verdict, NEW sessions, FinishAttempt(b, verdict, sessions)
      PROVE  attempts'[a] = attempts[a]
  BY <1>0, <1>5 DEF FinishAttempt, TypeOK
<1>6. ASSUME NEW b \in Attempt, NEW sessions, RecordConsumption(b, sessions)
      PROVE  attempts'[a] = attempts[a]
  BY <1>6 DEF RecordConsumption
<1>7. CASE ProposalStep
  BY <1>7 DEF ProposalStep, RecordProposals, TransitionProposals, ClaimProposals,
              FinalizeProposals, ExpireStaleProposals
<1>8. ASSUME NEW owned \in SUBSET Run, RecoverOrphaned(owned)
      PROVE  attempts'[a] = attempts[a]
  BY <1>8, RecoveryKeepsTerminal DEF RecoverOrphaned
<1>9. CASE Tick \/ UNCHANGED vars
  BY <1>9 DEF Tick, vars
<1> QED BY <1>1, <1>2, <1>3, <1>4, <1>5, <1>6, <1>7, <1>8, <1>9 DEF Next, RunStep, AttemptStep

\* Only the two operations that consume change the consumption table, and they add to it.
LEMMA ConsumptionStep ==
    ASSUME TypeOK, [Next]_vars
    PROVE  \/ consumed' = consumed
           \/ \E a \in Attempt, sessions \in SUBSET Session :
                 /\ consumed' = Consume(a, sessions)
                 /\ sessions # {} => attempts'[a].state \in Consumable
<1>1. CASE RunStep
  BY <1>1 DEF RunStep, CreateRun, FinalizeRunFailed, RequestCancel, FinalizeCancelledRun,
              FinalizeCycle, ArchiveRun
<1>2. ASSUME NEW a \in Attempt, NEW verdict \in Verdict, NEW sessions \in SUBSET Session,
             FinishAttempt(a, verdict, sessions)
      PROVE  consumed' = Consume(a, sessions) /\ (sessions # {} => attempts'[a].state \in Consumable)
  BY <1>2 DEF FinishAttempt, TypeOK, AttemptRow
<1>3. ASSUME NEW a \in Attempt, NEW sessions \in SUBSET Session, RecordConsumption(a, sessions)
      PROVE  consumed' = Consume(a, sessions) /\ attempts'[a].state \in Consumable
  BY <1>3 DEF RecordConsumption
<1>4. CASE AttemptStep
  BY <1>2, <1>3, <1>4 DEF AttemptStep, StartAttempt
<1>5. CASE ProposalStep \/ Tick \/ UNCHANGED vars
  BY <1>5 DEF ProposalStep, RecordProposals, TransitionProposals, ClaimProposals,
              FinalizeProposals, ExpireStaleProposals, Tick, vars
<1>6. CASE \E owned \in SUBSET Run : RecoverOrphaned(owned)
  BY <1>6 DEF RecoverOrphaned
<1> QED BY <1>1, <1>4, <1>5, <1>6 DEF Next

LEMMA ConsumersStep == TypeOK /\ [Next]_vars => ConsumersKept
BY ConsumptionStep DEF ConsumersKept, Consume

\* A late worker, a cancellation or a recovery rewrites neither the verdict of a terminal attempt
\* nor the attempt a session was consumed by.
THEOREM FinalVerdicts == Spec => VerdictsFinal
<1>1. TypeOK /\ [Next]_vars => AttemptsKept /\ ConsumersKept
  BY AttemptsStep, ConsumersStep
<1>2. TypeOK /\ [Next]_vars
        => [/\ \A a \in Attempt : attempts[a].state \in AttemptTerminal => attempts'[a] = attempts[a]
            /\ \A c \in Pass \X Session : consumed[c] # NoAttempt => consumed'[c] = consumed[c]]_vars
  BY <1>1 DEF AttemptsKept, ConsumersKept
<1> QED BY <1>2, TypeCorrect, PTL DEF Spec, VerdictsFinal

\* Sessions are consumed only through completed attempts of the same pass.
THEOREM SoundConsumption == Spec => []ConsumptionSound
<1>1. Init => ConsumptionSound
  BY DEF Init, ConsumptionSound
<1>2. TypeOK /\ ConsumptionSound /\ [Next]_vars => ConsumptionSound'
  <2> SUFFICES ASSUME TypeOK, ConsumptionSound, [Next]_vars,
                      NEW c \in Pass \X Session, consumed'[c] # NoAttempt
               PROVE  attempts'[consumed'[c]].state \in Consumable /\ PassOf(consumed'[c]) = c[1]
    BY DEF ConsumptionSound
  <2>1. CASE consumed'[c] = consumed[c]
    <3>1. /\ consumed[c] \in Attempt
          /\ attempts[consumed[c]].state \in Consumable /\ PassOf(consumed[c]) = c[1]
      BY <2>1 DEF ConsumptionSound, TypeOK
    <3> QED BY <2>1, <3>1, AttemptsStep
            DEF AttemptsKept, Consumable, AttemptTerminal, AttemptState, ActiveState
  <2>2. CASE consumed'[c] # consumed[c]
    <3>1. PICK a \in Attempt, sessions \in SUBSET Session :
             /\ consumed' = Consume(a, sessions)
             /\ sessions # {} => attempts'[a].state \in Consumable
      BY <2>2, ConsumptionStep
    <3>2. c[1] = PassOf(a) /\ c[2] \in sessions /\ consumed'[c] = a
      BY <2>2, <3>1 DEF Consume
    <3> QED BY <3>1, <3>2
  <2> QED BY <2>1, <2>2
<1> QED BY <1>1, <1>2, TypeCorrect, PTL DEF Spec

-----------------------------------------------------------------------------
(* Proposals. *)

Appears(a, f) == proposals[a][f].state = "ABSENT" /\ proposals'[a][f].state # "ABSENT"

\* Every way a step may change the row of a proposal.
LegalMove(a, f) ==
    LET before == proposals[a][f].state
        after  == proposals'[a][f].state
    IN  \/ proposals'[a][f] = proposals[a][f]
        \/ before \in Undecided /\ after \in {"SYSTEM_REJECTED", "EXPIRED"}
        \/ before = "STAGED" /\ after = "PENDING" /\ attempts'[a].state \in Consumable
        \/ before = "ABSENT" /\ after \in {"STAGED", "SYSTEM_REJECTED", "SUPERSEDED"}
              /\ (after = "STAGED" /\ PairOf[f] = NoPair => ~HasPrior(f))
        \/ before \in ProposalState \ ProposalTerminal
              /\ after \in {"REJECTED", "DEFERRED", "SYSTEM_REJECTED"}
        \/ before \in {"PENDING", "DEFERRED", "APPLY_FAILED"} /\ after = "APPLYING"
              /\ attempts'[a].state \in Consumable
        \/ before = "APPLYING" /\ after \in {"APPLIED", "APPLY_FAILED"}

\* What recording makes of one item of a batch.
LEMMA StoredState ==
    ASSUME NEW batch \in Batches, LegalBatch(batch), NEW f \in DOMAIN batch
    PROVE  /\ Stored(batch, f).state \in {"STAGED", "SYSTEM_REJECTED", "SUPERSEDED"}
           /\ Stored(batch, f).state = "STAGED" /\ PairOf[f] = NoPair => ~HasPrior(f)
<1>1. batch[f].state \in {"STAGED", "SYSTEM_REJECTED", "SUPERSEDED"}
  BY DEF LegalBatch, Annotations, Fresh
<1>2. Fresh("SUPERSEDED", "repeat").state = "SUPERSEDED"
  BY DEF Fresh
<1>3. \A reason : Fresh("SYSTEM_REJECTED", reason).state = "SYSTEM_REJECTED"
  BY DEF Fresh
<1> QED BY <1>1, <1>2, <1>3 DEF Stored

\* A move of a decision group changes rows of the group only, and gives them the target state.
LEMMA MovedRow ==
    ASSUME TypeOK, NEW a \in Attempt, NEW f \in Fingerprint, NEW group, NEW target, NEW reason,
           Moved(a, group, target, reason)[f] # proposals[a][f]
    PROVE  f \in group /\ proposals[a][f].state # target /\ Moved(a, group, target, reason)[f].state = target
<1>1. proposals[a][f] \in ProposalRow
  BY DEF TypeOK
<1>2. [proposals[a][f] EXCEPT !.state = target, !.reason = reason].state = target
  BY <1>1, Zenon DEF ProposalRow
<1> QED BY <1>2 DEF Moved

\* The rows of a decision group exist.
LEMMA GroupExists ==
    ASSUME TypeOK, NEW a \in Attempt, NEW f \in Fingerprint, proposals[a][f].state # "ABSENT",
           NEW g \in DecisionGroup(a, f)
    PROVE  g \in Fingerprint /\ proposals[a][g].state \in ProposalState
<1>1. g \in Fingerprint /\ proposals[a][g].state # "ABSENT"
  BY DEF DecisionGroup
<1> QED BY <1>1 DEF TypeOK, ProposalRow

LEMMA DecisionMoves ==
    ASSUME TypeOK, [Next]_vars, NEW a \in Attempt, NEW f \in Fingerprint,
           \/ \E target \in {"REJECTED", "DEFERRED"} : TransitionProposals(a, f, target, "none")
           \/ \E reason \in {"honoured", "other"} :
                  TransitionProposals(a, f, "SYSTEM_REJECTED", reason)
           \/ ClaimProposals(a, f)
           \/ \E succeeded \in BOOLEAN : FinalizeProposals(a, f, succeeded)
    PROVE  \A b \in Attempt, g \in Fingerprint : LegalMove(b, g) /\ ~Appears(b, g)
<1>1. ASSUME NEW target \in {"REJECTED", "DEFERRED", "SYSTEM_REJECTED"}, NEW reason,
             TransitionProposals(a, f, target, reason),
             NEW b \in Attempt, NEW g \in Fingerprint, proposals'[b][g] # proposals[b][g]
      PROVE  LegalMove(b, g) /\ ~Appears(b, g)
  <2>1. /\ b = a /\ g \in DecisionGroup(a, f)
        /\ proposals[a][g].state # target /\ proposals'[a][g].state = target
    <3>1. b = a /\ proposals'[a][g] = Moved(a, DecisionGroup(a, f), target, reason)[g]
      BY <1>1 DEF TransitionProposals, TypeOK
    <3> QED BY <1>1, <3>1, MovedRow
  <2>2. proposals[a][g].state \in ProposalState \ ProposalTerminal
    BY <1>1, <2>1, GroupExists DEF TransitionProposals
  <2> QED BY <2>1, <2>2 DEF LegalMove, Appears, ProposalState
<1>2. ASSUME ClaimProposals(a, f),
             NEW b \in Attempt, NEW g \in Fingerprint, proposals'[b][g] # proposals[b][g]
      PROVE  LegalMove(b, g) /\ ~Appears(b, g)
  <2>1. /\ b = a /\ g \in DecisionGroup(a, f) /\ proposals'[a][g].state = "APPLYING"
    <3>1. b = a /\ proposals'[a][g] = Moved(a, DecisionGroup(a, f), "APPLYING", "none")[g]
      BY <1>2 DEF ClaimProposals, TypeOK
    <3> QED BY <1>2, <3>1, MovedRow
  <2>2. proposals[a][g].state \in {"PENDING", "DEFERRED", "APPLY_FAILED"}
    BY <1>2, <2>1 DEF ClaimProposals, Claimable
  <2>3. attempts'[a].state \in Consumable
    BY <1>2 DEF ClaimProposals
  <2> QED BY <2>1, <2>2, <2>3 DEF LegalMove, Appears
<1>3. ASSUME NEW succeeded \in BOOLEAN, FinalizeProposals(a, f, succeeded),
             NEW b \in Attempt, NEW g \in Fingerprint, proposals'[b][g] # proposals[b][g]
      PROVE  LegalMove(b, g) /\ ~Appears(b, g)
  <2> DEFINE target == IF succeeded THEN "APPLIED" ELSE "APPLY_FAILED"
  <2>1. /\ b = a /\ g \in DecisionGroup(a, f)
        /\ proposals[a][g].state # target /\ proposals'[a][g].state = target
    <3>1. b = a /\ proposals'[a][g] = Moved(a, DecisionGroup(a, f), target, "none")[g]
      BY <1>3 DEF FinalizeProposals, TypeOK
    <3> QED BY <1>3, <3>1, MovedRow
  <2>2. proposals[a][g].state = "APPLYING"
    BY <1>3, <2>1 DEF FinalizeProposals
  <2> QED BY <2>1, <2>2 DEF LegalMove, Appears
<1>4. \A b \in Attempt, g \in Fingerprint : proposals'[b][g] = proposals[b][g] =>
          LegalMove(b, g) /\ ~Appears(b, g)
  BY DEF LegalMove, Appears
<1> QED BY <1>1, <1>2, <1>3, <1>4

LEMMA RecordMoves ==
    ASSUME TypeOK, NEW a \in Attempt, NEW batch \in Batches, LegalBatch(batch),
           RecordProposals(a, batch), NEW b \in Attempt, NEW f \in Fingerprint
    PROVE  LegalMove(b, f) /\ (Appears(b, f) => b = a)
<1>1. CASE b = a /\ f \in DOMAIN batch
  <2>1. proposals'[b][f] = Stored(batch, f) /\ proposals[b][f].state = "ABSENT"
    BY <1>1 DEF RecordProposals, TypeOK
  <2> QED BY <1>1, <2>1, StoredState DEF LegalMove
<1>2. CASE ~(b = a /\ f \in DOMAIN batch)
  <2>1. proposals'[b][f] = proposals[b][f]
    BY <1>2 DEF RecordProposals, TypeOK
  <2> QED BY <2>1 DEF LegalMove, Appears
<1> QED BY <1>1, <1>2

\* Recovery only rejects what was not decided.
LEMMA RecoveryMoves ==
    ASSUME TypeOK, NEW owned, proposals' = RecoveredProposals(owned),
           NEW a \in Attempt, NEW f \in Fingerprint
    PROVE  LegalMove(a, f) /\ ~Appears(a, f)
<1>1. proposals[a][f] \in ProposalRow
  BY DEF TypeOK
<1>2. SystemRejected(proposals[a][f], "other").state = "SYSTEM_REJECTED"
  BY <1>1 DEF SystemRejected, ProposalRow
<1> QED BY <1>2 DEF RecoveredProposals, LegalMove, Appears, Undecided

LEMMA FinishMoves ==
    ASSUME TypeOK, NEW a \in Attempt, NEW verdict \in Verdict, NEW sessions,
           FinishAttempt(a, verdict, sessions), NEW b \in Attempt, NEW f \in Fingerprint
    PROVE  LegalMove(b, f) /\ ~Appears(b, f)
<1>1. CASE b = a
  <2>1. proposals'[b][f] = FinishedProposals(a, verdict)[f]
    BY <1>1 DEF FinishAttempt, TypeOK
  <2>2. proposals[a][f] \in ProposalRow /\ attempts[a] \in AttemptRow
    BY DEF TypeOK
  <2>3. attempts'[a].state = verdict
    BY <2>2 DEF FinishAttempt, TypeOK, AttemptRow
  <2>4. /\ SystemRejected(proposals[a][f], "other").state = "SYSTEM_REJECTED"
        /\ [proposals[a][f] EXCEPT !.state = "PENDING"].state = "PENDING"
    BY <2>2 DEF SystemRejected, ProposalRow
  <2> QED BY <1>1, <2>1, <2>3, <2>4 DEF FinishedProposals, LegalMove, Appears, Undecided
<1>2. CASE b # a
  BY <1>2 DEF FinishAttempt, TypeOK, LegalMove, Appears
<1> QED BY <1>1, <1>2

LEMMA ExpiryMoves ==
    ASSUME TypeOK, ExpireStaleProposals, NEW a \in Attempt, NEW f \in Fingerprint
    PROVE  LegalMove(a, f) /\ ~Appears(a, f)
<1>1. proposals[a][f] \in ProposalRow
  BY DEF TypeOK
<1>2. [proposals[a][f] EXCEPT !.state = "EXPIRED", !.reason = "other"].state = "EXPIRED"
  BY <1>1 DEF ProposalRow
<1> QED BY <1>2 DEF ExpireStaleProposals, Stale, LegalMove, Appears, Undecided

LEMMA ProposalMoves ==
    ASSUME TypeOK, [Next]_vars
    PROVE  /\ \A a \in Attempt, f \in Fingerprint : LegalMove(a, f)
           /\ \A a, b \in Attempt, f \in Fingerprint : Appears(a, f) /\ Appears(b, f) => a = b
<1>1. CASE proposals' = proposals
  BY <1>1 DEF LegalMove, Appears
<1>2. ASSUME NEW owned, proposals' = RecoveredProposals(owned)
      PROVE  \A a \in Attempt, f \in Fingerprint : LegalMove(a, f) /\ ~Appears(a, f)
  BY <1>2, RecoveryMoves
<1>3. CASE RunStep
  <2>1. ASSUME NEW r \in Run, NEW source, NEW passes, NEW lease, CreateRun(r, source, passes, lease)
        PROVE  proposals' = proposals \/ proposals' = RecoveredProposals({})
    BY <2>1 DEF CreateRun, Admission
  <2> QED BY <1>1, <1>2, <1>3, <2>1 DEF RunStep, FinalizeRunFailed, RequestCancel,
             FinalizeCancelledRun, FinalizeCycle, ArchiveRun
<1>4. CASE AttemptStep
  <2>1. ASSUME NEW a \in Attempt, NEW lease, StartAttempt(a, lease)
        PROVE  proposals' = proposals \/ proposals' = RecoveredProposals({RunOf(a)})
    BY <2>1 DEF StartAttempt, Admission
  <2>2. ASSUME NEW a \in Attempt, NEW sessions, RecordConsumption(a, sessions)
        PROVE  proposals' = proposals
    BY <2>2 DEF RecordConsumption
  <2> QED BY <1>1, <1>2, <1>4, <2>1, <2>2, FinishMoves DEF AttemptStep
<1>5. CASE ProposalStep
  BY <1>5, RecordMoves, DecisionMoves, ExpiryMoves DEF ProposalStep
<1>6. CASE \E owned \in SUBSET Run : RecoverOrphaned(owned)
  BY <1>2, <1>6 DEF RecoverOrphaned
<1>7. CASE Tick \/ UNCHANGED vars
  BY <1>1, <1>7 DEF Tick, vars
<1> QED BY <1>3, <1>4, <1>5, <1>6, <1>7 DEF Next

\* A resolved proposal keeps its resolution, against decisions, late workers and recoveries.
THEOREM FinalDecisions == Spec => DecisionsFinal
<1>1. TypeOK /\ [Next]_vars
        => [\A a \in Attempt, f \in Fingerprint :
              proposals[a][f].state \in ProposalTerminal => proposals'[a][f] = proposals[a][f]]_vars
  <2> SUFFICES ASSUME TypeOK, [Next]_vars, NEW a \in Attempt, NEW f \in Fingerprint,
                      proposals[a][f].state \in ProposalTerminal
               PROVE  proposals'[a][f] = proposals[a][f]
    OBVIOUS
  <2>1. LegalMove(a, f)
    BY ProposalMoves
  <2> QED BY <2>1 DEF LegalMove, ProposalTerminal, Undecided
<1> QED BY <1>1, TypeCorrect, PTL DEF Spec, DecisionsFinal

\* Only completed attempts publish: no fenced, failed or cancelled attempt's proposal is ever
\* pending, applied or being applied.
THEOREM SoundPublication == Spec => []PublishedOnlyByCompletedAttempt
<1>1. Init => PublishedOnlyByCompletedAttempt
  BY DEF Init, NoProposal, PublishedOnlyByCompletedAttempt
<1>2. TypeOK /\ PublishedOnlyByCompletedAttempt /\ [Next]_vars => PublishedOnlyByCompletedAttempt'
  <2> SUFFICES ASSUME TypeOK, PublishedOnlyByCompletedAttempt, [Next]_vars,
                      NEW a \in Attempt, NEW f \in Fingerprint,
                      proposals'[a][f].state \in {"PENDING", "APPLYING", "APPLIED", "APPLY_FAILED"}
               PROVE  attempts'[a].state \in Consumable
    BY DEF PublishedOnlyByCompletedAttempt
  <2>1. attempts[a].state \in Consumable => attempts'[a].state \in Consumable
    BY AttemptsStep DEF AttemptsKept, Consumable, AttemptTerminal, AttemptState, ActiveState
  <2>2. LegalMove(a, f)
    BY ProposalMoves
  <2> QED BY <2>1, <2>2 DEF LegalMove, PublishedOnlyByCompletedAttempt
<1> QED BY <1>1, <1>2, TypeCorrect, PTL DEF Spec

\* The same content never waits for a decision, is applied or was refused twice.
THEOREM NoDoubleProposal == Spec => []OneLiveRowPerFingerprint
<1> DEFINE Live == HonouredState \ {"SUPERSEDED"}
<1>1. Init => OneLiveRowPerFingerprint
  BY DEF Init, NoProposal, OneLiveRowPerFingerprint, HonouredState
<1>2. TypeOK /\ OneLiveRowPerFingerprint /\ [Next]_vars => OneLiveRowPerFingerprint'
  <2> SUFFICES ASSUME TypeOK, OneLiveRowPerFingerprint, [Next]_vars,
                      NEW f \in Fingerprint, PairOf[f] = NoPair,
                      NEW a \in Attempt, proposals'[a][f].state \in Live,
                      NEW b \in Attempt, proposals'[b][f].state \in Live
               PROVE  a = b
    BY DEF OneLiveRowPerFingerprint
  <2>1. ASSUME NEW c \in Attempt, proposals'[c][f].state \in Live
        PROVE  proposals[c][f].state \in Live \/ (Appears(c, f) /\ ~HasPrior(f))
    <3>1. LegalMove(c, f)
      BY ProposalMoves
    <3> QED BY <2>1, <3>1 DEF LegalMove, Appears, HonouredState, Undecided, ProposalState, ProposalTerminal
  <2>2. ASSUME NEW c \in Attempt, proposals[c][f].state \in Live
        PROVE  HasPrior(f)
    BY <2>2 DEF HasPrior, Honoured
  <2>3. CASE proposals[a][f].state \in Live /\ proposals[b][f].state \in Live
    BY <2>3 DEF OneLiveRowPerFingerprint
  <2>4. CASE Appears(a, f) /\ Appears(b, f)
    BY <2>4, ProposalMoves
  <2> QED BY <2>1, <2>2, <2>3, <2>4
<1> QED BY <1>1, <1>2, TypeCorrect, PTL DEF Spec

-----------------------------------------------------------------------------
(* Outcomes of runs. *)

\* The latest attempts of a run depend on the run's own attempts alone.
LEMMA SameLatest ==
    ASSUME NEW r \in Run, NEW p, NEW states,
           \A a \in Attempt : RunOf(a) = r => attempts'[a] = attempts[a]
    PROVE  LatestIn(attempts, r, p, states) => LatestIn(attempts', r, p, states)
BY DEF LatestIn, IsLatest

\* A run aggregates to SUCCEEDED only with every latest attempt completed.
LEMMA AggregateSucceeded ==
    ASSUME NEW table, NEW r \in Run, AggregateState(table, r) = "SUCCEEDED"
    PROVE  \A p \in runs[r].passes : LatestIn(table, r, p, Consumable)
BY DEF AggregateState

KeptAsItWas(r) ==
    /\ runs[r].state = "SUCCEEDED"
    /\ \A a \in Attempt : RunOf(a) = r => attempts'[a] = attempts[a]

\* A run is SUCCEEDED after a step because it was, or because its attempts add up to it.
LEMMA SucceededBecause ==
    ASSUME TypeOK, [Next]_vars, NEW r \in Run, runs'[r].state = "SUCCEEDED"
    PROVE  runs'[r].passes = runs[r].passes
           /\ (KeptAsItWas(r) \/ AggregateState(attempts', r) = "SUCCEEDED")
<1> DEFINE Goal == runs'[r].passes = runs[r].passes
                   /\ (KeptAsItWas(r) \/ AggregateState(attempts', r) = "SUCCEEDED")
<1>0. runs[r] \in RunRow
  BY DEF TypeOK
<1>1. CASE runs' = runs /\ attempts' = attempts
  BY <1>1 DEF KeptAsItWas
<1>2. ASSUME NEW owned \in SUBSET Run, runs'[r] = RecoveredRuns(owned)[r],
             \A a \in Attempt : RunOf(a) = r => attempts'[a] = RecoveredAttempts(owned)[a]
      PROVE  Goal
  <2>1. r \notin Recovered(owned)
    <3>1. SUFFICES ASSUME r \in Recovered(owned) PROVE FALSE
      OBVIOUS
    <3> QED BY <1>0, <1>2, <3>1 DEF RecoveredRuns, RunRow
  <2> QED BY <1>2, <2>1 DEF RecoveredRuns, RecoveredAttempts, KeptAsItWas
<1>3. ASSUME NEW s \in Run, NEW source \in Source, NEW passes \in SUBSET Pass, NEW lease,
             CreateRun(s, source, passes, lease)
      PROVE  Goal
  <2>1. AdmittedRuns(source \in ControllerSource, {}) \in [Run -> RunRow]
    BY RecoveryType DEF AdmittedRuns, TypeOK
  <2>2. r # s
    BY <1>3, <2>1 DEF CreateRun, NoRun
  <2>3. /\ runs'[r] = AdmittedRuns(source \in ControllerSource, {})[r]
        /\ attempts' = AdmittedAttempts(source \in ControllerSource, {})
    BY <1>3, <2>1, <2>2 DEF CreateRun
  <2>4. CASE source \in ControllerSource
    BY <1>2, <2>3, <2>4 DEF AdmittedRuns, AdmittedAttempts
  <2>5. CASE source \notin ControllerSource
    BY <2>3, <2>5 DEF AdmittedRuns, AdmittedAttempts, KeptAsItWas
  <2> QED BY <2>4, <2>5
<1>4. ASSUME NEW a \in Attempt, NEW lease, StartAttempt(a, lease)
      PROVE  Goal
  <2> DEFINE s == RunOf(a)
             controller == ByController(s)
  <2>1. /\ s \in Run
        /\ AdmittedRuns(controller, {s}) \in [Run -> RunRow]
        /\ AdmittedAttempts(controller, {s}) \in [Attempt -> AttemptRow]
        /\ runs[s] \in RunRow
    BY AttemptKey, RecoveryType DEF AdmittedRuns, AdmittedAttempts, TypeOK
  <2>2. runs' = [AdmittedRuns(controller, {s}) EXCEPT ![s] = runs'[s]] /\ runs'[s].state = "RUNNING"
    BY <1>4, <2>1, Zenon DEF StartAttempt, RunRow
  <2>3. r # s
    BY <2>2
  <2>4. /\ runs'[r] = AdmittedRuns(controller, {s})[r]
        /\ \A b \in Attempt : RunOf(b) = r => attempts'[b] = AdmittedAttempts(controller, {s})[b]
    BY <1>4, <2>1, <2>2, <2>3 DEF StartAttempt
  <2>5. CASE controller
    BY <1>2, <2>1, <2>4, <2>5 DEF AdmittedRuns, AdmittedAttempts
  <2>6. CASE ~controller
    BY <2>4, <2>6 DEF AdmittedRuns, AdmittedAttempts, KeptAsItWas
  <2> QED BY <2>5, <2>6
<1>5. ASSUME NEW a \in Attempt, NEW verdict, NEW sessions, FinishAttempt(a, verdict, sessions)
      PROVE  Goal
  <2>1. CASE r = RunOf(a)
    BY <1>0, <1>5, <2>1, Zenon DEF FinishAttempt, TypeOK, RunRow
  <2>2. CASE r # RunOf(a)
    BY <1>5, <2>2 DEF FinishAttempt, TypeOK, KeptAsItWas
  <2> QED BY <2>1, <2>2
<1>6. ASSUME NEW s \in Run, FinalizeRunFailed(s) \/ RequestCancel(s) \/ ArchiveRun(s)
      PROVE  Goal
  <2>1. attempts' = attempts
    BY <1>6 DEF FinalizeRunFailed, RequestCancel, ArchiveRun
  <2>2. runs'[r].state = runs[r].state /\ runs'[r].passes = runs[r].passes
    <3>1. CASE r # s
      BY <1>6, <3>1 DEF FinalizeRunFailed, RequestCancel, ArchiveRun, TypeOK
    <3>2. CASE r = s
      <4>1. CASE FinalizeRunFailed(s)
        BY <1>0, <3>2, <4>1, Zenon DEF FinalizeRunFailed, TypeOK, RunRow
      <4>2. CASE RequestCancel(s)
        BY <1>0, <3>2, <4>2, Zenon DEF RequestCancel, TypeOK, RunRow
      <4>3. CASE ArchiveRun(s)
        BY <1>0, <3>2, <4>3, Zenon DEF ArchiveRun, TypeOK, RunRow
      <4> QED BY <1>6, <4>1, <4>2, <4>3
    <3> QED BY <3>1, <3>2
  <2> QED BY <2>1, <2>2 DEF KeptAsItWas
<1>7. ASSUME NEW s \in Run, FinalizeCancelledRun(s)
      PROVE  Goal
  <2>1. r # s
    BY <1>0, <1>7, Zenon DEF FinalizeCancelledRun, TypeOK, RunRow
  <2> QED BY <1>7, <2>1 DEF FinalizeCancelledRun, EndedAttempts, TypeOK, KeptAsItWas
<1>8. ASSUME NEW s \in Run, NEW digestOk \in BOOLEAN, FinalizeCycle(s, digestOk)
      PROVE  Goal
  <2>1. CASE r # s
    BY <1>8, <2>1 DEF FinalizeCycle, EndedAttempts, TypeOK, KeptAsItWas
  <2>2. CASE r = s
    <3>1. runs'[r].passes = runs[r].passes /\ CycleState(attempts', r, digestOk) = "SUCCEEDED"
      BY <1>0, <1>8, <2>2, Zenon DEF FinalizeCycle, TypeOK, RunRow
    <3>2. CASE RunHasActiveAttempt(r)
      BY <3>1, <3>2 DEF CycleState
    <3>3. CASE ~RunHasActiveAttempt(r)
      <4>1. runs[r].state = "SUCCEEDED"
        BY <3>1, <3>3 DEF CycleState
      <4>2. \A a \in Attempt : RunOf(a) = r => attempts'[a] = attempts[a]
        BY <1>8, <2>2, <3>3 DEF FinalizeCycle, EndedAttempts, RunHasActiveAttempt
      <4> QED BY <3>1, <4>1, <4>2 DEF KeptAsItWas
    <3> QED BY <3>1, <3>2, <3>3
  <2> QED BY <2>1, <2>2
<1>9. ASSUME NEW owned \in SUBSET Run, RecoverOrphaned(owned)
      PROVE  Goal
  BY <1>2, <1>9 DEF RecoverOrphaned
<1>10. CASE RunStep
  BY <1>3, <1>6, <1>7, <1>8, <1>10 DEF RunStep
<1>11. CASE AttemptStep
  <2>1. ASSUME NEW a \in Attempt, NEW sessions, RecordConsumption(a, sessions)
        PROVE  Goal
    BY <1>1, <2>1 DEF RecordConsumption
  <2> QED BY <1>4, <1>5, <1>11, <2>1 DEF AttemptStep
<1>12. CASE ProposalStep \/ Tick \/ UNCHANGED vars
  BY <1>1, <1>12 DEF ProposalStep, RecordProposals, TransitionProposals, ClaimProposals,
                     FinalizeProposals, ExpireStaleProposals, Tick, vars
<1> QED BY <1>9, <1>10, <1>11, <1>12 DEF Next

\* A run that says SUCCEEDED has the latest attempt of every requested pass succeeded.
THEOREM CompleteSuccess == Spec => []SucceededRunIsComplete
<1>1. Init => SucceededRunIsComplete
  BY DEF Init, NoRun, SucceededRunIsComplete
<1>2. TypeOK /\ SucceededRunIsComplete /\ [Next]_vars => SucceededRunIsComplete'
  <2> SUFFICES ASSUME TypeOK, SucceededRunIsComplete, [Next]_vars,
                      NEW r \in Run, runs'[r].state = "SUCCEEDED", NEW p \in runs'[r].passes
               PROVE  LatestIn(attempts', r, p, Consumable)
    BY DEF SucceededRunIsComplete
  <2>1. p \in runs[r].passes /\ (KeptAsItWas(r) \/ AggregateState(attempts', r) = "SUCCEEDED")
    BY SucceededBecause
  <2>2. CASE KeptAsItWas(r)
    BY <2>1, <2>2, SameLatest DEF KeptAsItWas, SucceededRunIsComplete
  <2>3. CASE AggregateState(attempts', r) = "SUCCEEDED"
    BY <2>1, <2>3, AggregateSucceeded
  <2> QED BY <2>1, <2>2, <2>3
<1> QED BY <1>1, <1>2, TypeCorrect, PTL DEF Spec

-----------------------------------------------------------------------------
(* Pairs.  PairUniform is inductive only with one more fact: the members of a pair were       *)
(* recorded at one instant, so that no expiry splits them.                                     *)

\* Two fingerprints of the same dedup pair.
Paired(f, g) == PairOf[f] # NoPair /\ PairOf[g] = PairOf[f]

\* The members of a pair are in the same state, and as old as each other.
PairsAgree ==
    \A a \in Attempt : \A f, g \in Fingerprint : Paired(f, g) =>
        /\ proposals[a][f].state = proposals[a][g].state
        /\ proposals[a][f].created = proposals[a][g].created

\* What recording makes of the members of a pair: one state, at the present instant.
LEMMA StoredPair ==
    ASSUME TypeOK, NEW batch \in Batches, LegalBatch(batch), NEW f \in DOMAIN batch,
           NEW g \in DOMAIN batch, Paired(f, g)
    PROVE  /\ Stored(batch, f).state = Stored(batch, g).state
           /\ Stored(batch, f).created = now /\ Stored(batch, g).created = now
<1> DEFINE group   == PairMembers(batch, f)
           refused == {h \in group : batch[h].state = "SYSTEM_REJECTED"}
           Repeat  == Fresh("SUPERSEDED", "repeat")
           Refusal == Fresh("SYSTEM_REJECTED",
                            IF \E h \in refused : batch[h].reason = "other" THEN "other" ELSE "honoured")
<1>1. PairMembers(batch, g) = group /\ PairOf[f] # NoPair /\ PairOf[g] # NoPair
  BY DEF Paired, PairMembers
<1>2. f \in group /\ g \in group
  BY DEF Paired, PairMembers
<1>3. \A h \in {f, g} : /\ batch[h].state \in {"STAGED", "SYSTEM_REJECTED"}
                        /\ batch[h].created = now
  BY <1>1 DEF LegalBatch, Annotations, Fresh
<1>4. /\ Repeat.state = "SUPERSEDED" /\ Repeat.created = now
      /\ Refusal.state = "SYSTEM_REJECTED" /\ Refusal.created = now
  BY DEF Fresh
<1>5. \A h \in {f, g} : Stored(batch, h) =
          IF batch[h].state # "STAGED" THEN batch[h]
          ELSE IF refused # {} THEN Refusal
          ELSE IF \A k \in group : HasPrior(k) THEN Repeat ELSE batch[h]
  BY <1>1 DEF Stored
<1>6. \A h \in {f, g} : batch[h].state = "SYSTEM_REJECTED" => refused # {}
  BY <1>2
<1> HIDE DEF group, refused, Repeat, Refusal
<1> QED BY <1>3, <1>4, <1>5, <1>6

\* A move of a decision group keeps the instant, and gives the target state to its rows only.
LEMMA MovedFields ==
    ASSUME TypeOK, NEW a \in Attempt, NEW group, NEW target, NEW reason, NEW f \in Fingerprint
    PROVE  /\ Moved(a, group, target, reason)[f].state =
                 (IF f \in group THEN target ELSE proposals[a][f].state)
           /\ Moved(a, group, target, reason)[f].created = proposals[a][f].created
<1>1. proposals[a][f] \in ProposalRow
  BY DEF TypeOK
<1>2. /\ [proposals[a][f] EXCEPT !.state = target, !.reason = reason].state = target
      /\ [proposals[a][f] EXCEPT !.state = target, !.reason = reason].created = proposals[a][f].created
  BY <1>1, Zenon DEF ProposalRow
<1> QED BY <1>2 DEF Moved

\* Pairs move together.
LEMMA MovedPair ==
    ASSUME TypeOK, PairsAgree, NEW a \in Attempt, NEW f \in Fingerprint, NEW target, NEW reason,
           proposals[a][f].state # "ABSENT",
           proposals' = [proposals EXCEPT ![a] = Moved(a, DecisionGroup(a, f), target, reason)]
    PROVE  PairsAgree'
<1> SUFFICES ASSUME NEW b \in Attempt, NEW g \in Fingerprint, NEW h \in Fingerprint, Paired(g, h)
             PROVE  /\ proposals'[b][g].state = proposals'[b][h].state
                    /\ proposals'[b][g].created = proposals'[b][h].created
  BY DEF PairsAgree, Paired
<1>1. /\ proposals[b][g].state = proposals[b][h].state
      /\ proposals[b][g].created = proposals[b][h].created
  BY DEF PairsAgree
<1>2. CASE b # a
  BY <1>1, <1>2 DEF TypeOK
<1>3. CASE b = a
  <2>1. g \in DecisionGroup(a, f) <=> h \in DecisionGroup(a, f)
    BY <1>1, <1>3 DEF DecisionGroup, Paired
  <2>2. \A k \in Fingerprint : proposals'[a][k] = Moved(a, DecisionGroup(a, f), target, reason)[k]
    BY DEF TypeOK
  <2>3. /\ proposals'[a][g].created = proposals[a][g].created
        /\ proposals'[a][h].created = proposals[a][h].created
        /\ proposals'[a][g].state = (IF g \in DecisionGroup(a, f) THEN target ELSE proposals[a][g].state)
        /\ proposals'[a][h].state = (IF h \in DecisionGroup(a, f) THEN target ELSE proposals[a][h].state)
    BY <2>2, MovedFields
  <2> QED BY <1>1, <1>3, <2>1, <2>3
<1> QED BY <1>2, <1>3

\* Recovery rejects the undecided rows of a fenced attempt, both of a pair.
LEMMA RecoveryPair ==
    ASSUME TypeOK, PairsAgree, NEW owned, proposals' = RecoveredProposals(owned)
    PROVE  PairsAgree'
<1> SUFFICES ASSUME NEW a \in Attempt, NEW f \in Fingerprint, NEW g \in Fingerprint, Paired(f, g)
             PROVE  /\ proposals'[a][f].state = proposals'[a][g].state
                    /\ proposals'[a][f].created = proposals'[a][g].created
  BY DEF PairsAgree, Paired
<1>1. /\ proposals[a][f].state = proposals[a][g].state
      /\ proposals[a][f].created = proposals[a][g].created
  BY DEF PairsAgree
<1>2. \A h \in Fingerprint :
         /\ SystemRejected(proposals[a][h], "other").state = "SYSTEM_REJECTED"
         /\ SystemRejected(proposals[a][h], "other").created = proposals[a][h].created
  BY DEF SystemRejected, TypeOK, ProposalRow
<1> QED BY <1>1, <1>2 DEF RecoveredProposals

\* A verdict publishes or rejects both members of a pair.
LEMMA FinishPair ==
    ASSUME TypeOK, PairsAgree, NEW a \in Attempt, NEW verdict, NEW sessions,
           FinishAttempt(a, verdict, sessions)
    PROVE  PairsAgree'
<1> SUFFICES ASSUME NEW b \in Attempt, NEW f \in Fingerprint, NEW g \in Fingerprint, Paired(f, g)
             PROVE  /\ proposals'[b][f].state = proposals'[b][g].state
                    /\ proposals'[b][f].created = proposals'[b][g].created
  BY DEF PairsAgree, Paired
<1>1. /\ proposals[b][f].state = proposals[b][g].state
      /\ proposals[b][f].created = proposals[b][g].created
  BY DEF PairsAgree
<1>2. \A h \in Fingerprint :
         /\ SystemRejected(proposals[b][h], "other").state = "SYSTEM_REJECTED"
         /\ SystemRejected(proposals[b][h], "other").created = proposals[b][h].created
         /\ [proposals[b][h] EXCEPT !.state = "PENDING"].state = "PENDING"
         /\ [proposals[b][h] EXCEPT !.state = "PENDING"].created = proposals[b][h].created
  BY DEF SystemRejected, TypeOK, ProposalRow
<1>3. CASE b = a
  <2>1. \A h \in Fingerprint : proposals'[b][h] = FinishedProposals(b, verdict)[h]
    BY <1>3 DEF FinishAttempt, TypeOK
  <2>2. \A h \in Fingerprint :
           /\ proposals'[b][h].created = proposals[b][h].created
           /\ proposals'[b][h].state =
                 IF verdict \in Consumable
                 THEN IF proposals[b][h].state = "STAGED" THEN "PENDING" ELSE proposals[b][h].state
                 ELSE IF proposals[b][h].state \in Undecided THEN "SYSTEM_REJECTED"
                 ELSE proposals[b][h].state
    BY <1>2, <2>1 DEF FinishedProposals
  <2> QED BY <1>1, <2>2
<1>4. CASE b # a
  BY <1>1, <1>4 DEF FinishAttempt, TypeOK
<1> QED BY <1>3, <1>4

\* Expiry looks at the state and the age of a row, which the members of a pair share.
LEMMA ExpiryPair ==
    ASSUME TypeOK, PairsAgree, ExpireStaleProposals
    PROVE  PairsAgree'
<1> SUFFICES ASSUME NEW a \in Attempt, NEW f \in Fingerprint, NEW g \in Fingerprint, Paired(f, g)
             PROVE  /\ proposals'[a][f].state = proposals'[a][g].state
                    /\ proposals'[a][f].created = proposals'[a][g].created
  BY DEF PairsAgree, Paired
<1>1. /\ proposals[a][f].state = proposals[a][g].state
      /\ proposals[a][f].created = proposals[a][g].created
  BY DEF PairsAgree
<1>2. \A h \in Fingerprint :
         LET row == [proposals[a][h] EXCEPT !.state = "EXPIRED", !.reason = "other"] IN
         row.state = "EXPIRED" /\ row.created = proposals[a][h].created
  BY DEF TypeOK, ProposalRow
<1>3. Stale(proposals[a][f]) <=> Stale(proposals[a][g])
  BY <1>1 DEF Stale
<1> QED BY <1>1, <1>2, <1>3 DEF ExpireStaleProposals

\* Both members of a pair are recorded, or none.
LEMMA RecordPair ==
    ASSUME TypeOK, PairsAgree, NEW a \in Attempt, NEW batch \in Batches, LegalBatch(batch),
           RecordProposals(a, batch)
    PROVE  PairsAgree'
<1> SUFFICES ASSUME NEW b \in Attempt, NEW f \in Fingerprint, NEW g \in Fingerprint, Paired(f, g)
             PROVE  /\ proposals'[b][f].state = proposals'[b][g].state
                    /\ proposals'[b][f].created = proposals'[b][g].created
  BY DEF PairsAgree, Paired
<1>1. /\ proposals[b][f].state = proposals[b][g].state
      /\ proposals[b][f].created = proposals[b][g].created
  BY DEF PairsAgree
<1>2. f \in DOMAIN batch <=> g \in DOMAIN batch
  BY DEF RecordProposals, Paired
<1>3. CASE b = a /\ f \in DOMAIN batch
  <2>1. proposals'[b][f] = Stored(batch, f) /\ proposals'[b][g] = Stored(batch, g)
    BY <1>2, <1>3 DEF RecordProposals, TypeOK
  <2> QED BY <1>2, <1>3, <2>1, StoredPair
<1>4. CASE ~(b = a /\ f \in DOMAIN batch)
  <2>1. proposals'[b][f] = proposals[b][f] /\ proposals'[b][g] = proposals[b][g]
    BY <1>2, <1>4 DEF RecordProposals, TypeOK
  <2> QED BY <1>1, <2>1
<1> QED BY <1>3, <1>4

\* Pairs are created, moved and expired together.
LEMMA PairsStep == TypeOK /\ PairsAgree /\ [Next]_vars => PairsAgree'
<1> SUFFICES ASSUME TypeOK, PairsAgree, [Next]_vars PROVE PairsAgree'
  OBVIOUS
<1>1. CASE proposals' = proposals
  BY <1>1 DEF PairsAgree, Paired
<1>2. CASE RunStep
  <2>1. ASSUME NEW r \in Run, NEW source, NEW passes, NEW lease, CreateRun(r, source, passes, lease)
        PROVE  proposals' = proposals \/ proposals' = RecoveredProposals({})
    BY <2>1 DEF CreateRun, Admission
  <2> QED BY <1>1, <1>2, <2>1, RecoveryPair DEF RunStep, FinalizeRunFailed, RequestCancel,
             FinalizeCancelledRun, FinalizeCycle, ArchiveRun
<1>3. CASE AttemptStep
  <2>1. ASSUME NEW a \in Attempt, NEW lease, StartAttempt(a, lease)
        PROVE  proposals' = proposals \/ proposals' = RecoveredProposals({RunOf(a)})
    BY <2>1 DEF StartAttempt, Admission
  <2>2. ASSUME NEW a \in Attempt, NEW sessions, RecordConsumption(a, sessions)
        PROVE  proposals' = proposals
    BY <2>2 DEF RecordConsumption
  <2> QED BY <1>1, <1>3, <2>1, <2>2, RecoveryPair, FinishPair DEF AttemptStep
<1>4. CASE ProposalStep
  <2>1. ASSUME NEW a \in Attempt, NEW f \in Fingerprint, NEW target, NEW reason,
               TransitionProposals(a, f, target, reason)
        PROVE  PairsAgree'
    BY <2>1, MovedPair DEF TransitionProposals
  <2>2. ASSUME NEW a \in Attempt, NEW f \in Fingerprint, ClaimProposals(a, f)
        PROVE  PairsAgree'
    BY <2>2, MovedPair DEF ClaimProposals
  <2>3. ASSUME NEW a \in Attempt, NEW f \in Fingerprint, NEW succeeded \in BOOLEAN,
               FinalizeProposals(a, f, succeeded)
        PROVE  PairsAgree'
    BY <2>3, MovedPair DEF FinalizeProposals
  <2> QED BY <1>4, <2>1, <2>2, <2>3, RecordPair, ExpiryPair DEF ProposalStep
<1>5. CASE \E owned \in SUBSET Run : RecoverOrphaned(owned)
  BY <1>5, RecoveryPair DEF RecoverOrphaned
<1>6. CASE Tick \/ UNCHANGED vars
  BY <1>1, <1>6 DEF Tick, vars
<1> QED BY <1>2, <1>3, <1>4, <1>5, <1>6 DEF Next

\* The members of a dedup pair share one fate, through decisions, verdicts, recoveries and expiry:
\* no pair is ever split so that no decision could claim it.
THEOREM PairsStayTogether == Spec => []PairUniform
<1>1. Init => PairsAgree
  BY DEF Init, NoProposal, PairsAgree
<1>2. PairsAgree => PairUniform
  BY DEF PairsAgree, PairUniform, Paired
<1> QED BY <1>1, <1>2, PairsStep, TypeCorrect, PTL DEF Spec

-----------------------------------------------------------------------------
(* Leases.  That recovery respects the lease of a live attempt rests on two more invariants:  *)
(* a live attempt is not fenced, and its lease ends no later than its run's deadline.          *)

\* An attempt that was fenced, by recovery or by the end of its cycle, is over and not completed.
FencedIsOver ==
    \A a \in Attempt : attempts[a].error # "none" =>
        attempts[a].state \in AttemptTerminal \ Consumable

\* The lease of a live attempt of a controller run lies within the deadline of the run.
LeaseWithinRun ==
    \A a \in Attempt :
        IsActive(a) /\ ByController(RunOf(a)) /\ runs[RunOf(a)].deadline # NoDeadline =>
            attempts[a].lease # NoDeadline /\ attempts[a].lease <= runs[RunOf(a)].deadline

FencedBy(owned, a) ==
    /\ RunOf(a) \in Recovered(owned) /\ (IsActive(a) \/ NeverStarted(a))
    /\ attempts'[a].state = "BLOCKED" /\ attempts'[a].error = "ControllerLeaseExpired"

\* Every way a step may change the row of an attempt: it starts, it ends by a verdict or with its
\* run, or recovery fences it.
AttemptMove(a) ==
    \/ attempts'[a] = attempts[a]
    \/ attempts[a].state = "ABSENT" /\ attempts'[a].state = "RUNNING" /\ attempts'[a].error = "none"
    \/ IsActive(a) /\ attempts'[a].state \in AttemptTerminal /\ attempts'[a].error = attempts[a].error
    \/ /\ IsActive(a) /\ attempts'[a].state \in {"BLOCKED", "CANCELLED"}
       /\ attempts'[a].error \in {"none", "ControllerDeadline"}
    \/ \E owned \in SUBSET Run : FencedBy(owned, a)

\* Recovery fences the attempts of the runs it ends and no others.
LEMMA RecoveryMove ==
    ASSUME TypeOK, NEW owned \in SUBSET Run, NEW a \in Attempt,
           attempts'[a] = RecoveredAttempts(owned)[a]
    PROVE  AttemptMove(a)
<1>1. attempts[a] \in AttemptRow
  BY DEF TypeOK
<1>2. LeaseExpired(attempts[a]).state = "BLOCKED"
      /\ LeaseExpired(attempts[a]).error = "ControllerLeaseExpired"
  BY <1>1 DEF LeaseExpired, AttemptRow
<1>3. CASE RunOf(a) \in Recovered(owned) /\ (IsActive(a) \/ NeverStarted(a))
  <2>1. FencedBy(owned, a)
    BY <1>2, <1>3 DEF RecoveredAttempts, FencedBy
  <2> QED BY <2>1 DEF AttemptMove
<1>4. CASE ~(RunOf(a) \in Recovered(owned) /\ (IsActive(a) \/ NeverStarted(a)))
  BY <1>4 DEF RecoveredAttempts, AttemptMove
<1> QED BY <1>3, <1>4

LEMMA EndedMove ==
    ASSUME TypeOK, NEW r, NEW verdict \in {"BLOCKED", "CANCELLED"},
           NEW error \in {"none", "ControllerDeadline"},
           attempts' = EndedAttempts(r, verdict, error), NEW a \in Attempt
    PROVE  AttemptMove(a)
<1>1. attempts[a] \in AttemptRow
  BY DEF TypeOK
<1>2. LET row == [attempts[a] EXCEPT !.state = verdict, !.error = error] IN
      row.state = verdict /\ row.error = error
  BY <1>1 DEF AttemptRow
<1> QED BY <1>2 DEF EndedAttempts, AttemptMove

\* An attempt starts, gets a verdict, is fenced or cancelled with its run, or stays as it is.
LEMMA AttemptMoves ==
    ASSUME TypeOK, [Next]_vars, NEW a \in Attempt
    PROVE  AttemptMove(a)
<1>0. attempts[a] \in AttemptRow
  BY DEF TypeOK
<1>1. CASE attempts' = attempts
  BY <1>1 DEF AttemptMove
<1>2. ASSUME NEW r \in Run, NEW source, NEW passes, NEW lease, CreateRun(r, source, passes, lease)
      PROVE  AttemptMove(a)
  <2>1. attempts' = attempts \/ attempts' = RecoveredAttempts({})
    BY <1>2 DEF CreateRun, AdmittedAttempts
  <2> QED BY <1>1, <2>1, RecoveryMove
<1>3. ASSUME NEW r \in Run, NEW digestOk, FinalizeCancelledRun(r) \/ FinalizeCycle(r, digestOk)
      PROVE  AttemptMove(a)
  BY <1>3, EndedMove DEF FinalizeCancelledRun, FinalizeCycle
<1>4. CASE RunStep
  BY <1>1, <1>2, <1>3, <1>4 DEF RunStep, FinalizeRunFailed, RequestCancel, ArchiveRun
<1>5. ASSUME NEW b \in Attempt, NEW lease, StartAttempt(b, lease)
      PROVE  AttemptMove(a)
  <2>1. RunOf(b) \in Run
    BY AttemptKey
  <2>2. AdmittedAttempts(ByController(RunOf(b)), {RunOf(b)}) \in [Attempt -> AttemptRow]
    BY <2>1, RecoveryType DEF AdmittedAttempts, TypeOK
  <2>3. CASE a = b
    BY <1>5, <2>2, <2>3 DEF StartAttempt, IsNextAttempt, AttemptMove
  <2>4. CASE a # b
    <3>1. attempts'[a] = attempts[a] \/ attempts'[a] = RecoveredAttempts({RunOf(b)})[a]
      BY <1>5, <2>2, <2>4 DEF StartAttempt, AdmittedAttempts
    <3> QED BY <2>1, <3>1, RecoveryMove DEF AttemptMove
  <2> QED BY <2>3, <2>4
<1>6. ASSUME NEW b \in Attempt, NEW verdict \in Verdict, NEW sessions, FinishAttempt(b, verdict, sessions)
      PROVE  AttemptMove(a)
  <2>1. CASE a = b
    <3>1. attempts'[a].state = verdict /\ attempts'[a].error = attempts[a].error /\ IsActive(a)
      BY <1>0, <1>6, <2>1 DEF FinishAttempt, TypeOK, AttemptRow
    <3> QED BY <3>1, VerdictAssumption DEF AttemptMove
  <2>2. CASE a # b
    BY <1>6, <2>2 DEF FinishAttempt, TypeOK, AttemptMove
  <2> QED BY <2>1, <2>2
<1>7. CASE AttemptStep
  BY <1>1, <1>5, <1>6, <1>7 DEF AttemptStep, RecordConsumption
<1>8. CASE \E owned \in SUBSET Run : RecoverOrphaned(owned)
  BY <1>8, RecoveryMove DEF RecoverOrphaned
<1>9. CASE ProposalStep \/ Tick \/ UNCHANGED vars
  BY <1>1, <1>9 DEF ProposalStep, RecordProposals, TransitionProposals, ClaimProposals,
                    FinalizeProposals, ExpireStaleProposals, Tick, vars
<1> QED BY <1>4, <1>7, <1>8, <1>9 DEF Next

LEMMA FencedStep == TypeOK /\ FencedIsOver /\ [Next]_vars => FencedIsOver'
<1> SUFFICES ASSUME TypeOK, FencedIsOver, [Next]_vars, NEW a \in Attempt, attempts'[a].error # "none"
             PROVE  attempts'[a].state \in AttemptTerminal \ Consumable
  BY DEF FencedIsOver
<1>1. AttemptMove(a)
  BY AttemptMoves
<1>2. IsActive(a) => attempts[a].error = "none"
  BY DEF FencedIsOver, IsActive, AttemptTerminal
<1> QED BY <1>1, <1>2
        DEF AttemptMove, FencedBy, FencedIsOver, AttemptTerminal, AttemptState, ActiveState, Consumable

\* A run stays what it was asked for, and a cancellation is never taken back.
RunStays(r) ==
    /\ runs'[r].source = runs[r].source /\ runs'[r].passes = runs[r].passes
    /\ runs'[r].state # "ABSENT" /\ (runs[r].cancel => runs'[r].cancel)

\* A run that was created keeps its source, its passes and a cancellation.
LEMMA RunKept ==
    ASSUME TypeOK, [Next]_vars, NEW r \in Run, Exists(r)
    PROVE  RunStays(r)
<1>0. runs[r] \in RunRow /\ runs[r].state \in RunState
  BY DEF TypeOK, RunRow, Exists
<1>1. ASSUME NEW owned, runs'[r] = runs[r] \/ runs'[r] = RecoveredRuns(owned)[r]
      PROVE  RunStays(r)
  <2>1. LET row == [runs[r] EXCEPT !.state = "BLOCKED"] IN
        row.passes = runs[r].passes /\ row.source = runs[r].source /\ row.cancel = runs[r].cancel
        /\ row.state = "BLOCKED"
    BY <1>0, Zenon DEF RunRow
  <2> QED BY <1>0, <1>1, <2>1 DEF RecoveredRuns, RunStays, RunState
<1>2. ASSUME NEW state \in RunState, runs'[r] = [runs[r] EXCEPT !.state = state]
      PROVE  RunStays(r)
  <2>1. /\ runs'[r].passes = runs[r].passes /\ runs'[r].source = runs[r].source
        /\ runs'[r].cancel = runs[r].cancel /\ runs'[r].state = state
    BY <1>0, <1>2, Zenon DEF RunRow
  <2> QED BY <2>1 DEF RunStays, RunState
<1>3. ASSUME NEW s \in Run, NEW source, NEW passes, NEW lease, CreateRun(s, source, passes, lease)
      PROVE  RunStays(r)
  <2>1. AdmittedRuns(source \in ControllerSource, {}) \in [Run -> RunRow] /\ r # s
    BY <1>3, RecoveryType DEF AdmittedRuns, TypeOK, CreateRun
  <2>2. runs'[r] = runs[r] \/ runs'[r] = RecoveredRuns({})[r]
    BY <1>3, <2>1 DEF CreateRun, AdmittedRuns
  <2> QED BY <1>1, <2>2
<1>4. ASSUME NEW s \in Run, NEW digestOk \in BOOLEAN,
             \/ FinalizeRunFailed(s) \/ RequestCancel(s) \/ ArchiveRun(s)
             \/ FinalizeCancelledRun(s) \/ FinalizeCycle(s, digestOk)
      PROVE  RunStays(r)
  <2>1. CASE r # s
    <3>1. runs'[r] = runs[r]
      BY <1>4, <2>1 DEF FinalizeRunFailed, RequestCancel, ArchiveRun, FinalizeCancelledRun,
                        FinalizeCycle, TypeOK
    <3> QED BY <1>1, <3>1
  <2>2. CASE r = s
    <3>1. CASE FinalizeRunFailed(s)
      BY <1>2, <2>2, <3>1 DEF FinalizeRunFailed, TypeOK, RunState
    <3>2. CASE RequestCancel(s)
      <4>1. /\ runs'[r].passes = runs[r].passes /\ runs'[r].source = runs[r].source
            /\ runs'[r].cancel /\ runs'[r].state = runs[r].state
        BY <1>0, <2>2, <3>2, Zenon DEF RequestCancel, TypeOK, RunRow
      <4> QED BY <1>0, <4>1 DEF RunStays, RunState
    <3>3. CASE ArchiveRun(s)
      <4>1. /\ runs'[r].passes = runs[r].passes /\ runs'[r].source = runs[r].source
            /\ runs'[r].cancel = runs[r].cancel /\ runs'[r].state = runs[r].state
        BY <1>0, <2>2, <3>3, Zenon DEF ArchiveRun, TypeOK, RunRow
      <4> QED BY <1>0, <4>1 DEF RunStays, RunState
    <3>4. CASE FinalizeCancelledRun(s)
      <4>1. /\ runs'[r].passes = runs[r].passes /\ runs'[r].source = runs[r].source
            /\ runs'[r].cancel /\ runs'[r].state = "CANCELLED"
        BY <1>0, <2>2, <3>4, Zenon DEF FinalizeCancelledRun, TypeOK, RunRow
      <4> QED BY <4>1 DEF RunStays
    <3>5. CASE FinalizeCycle(s, digestOk)
      <4>1. CycleState(attempts', r, digestOk) \in RunState
        BY <1>0, AggregateType DEF CycleState, RunState
      <4> QED BY <1>2, <2>2, <3>5, <4>1 DEF FinalizeCycle, TypeOK
    <3> QED BY <1>4, <3>1, <3>2, <3>3, <3>4, <3>5
  <2> QED BY <2>1, <2>2
<1>5. ASSUME NEW a \in Attempt, NEW lease \in LeaseRequest, StartAttempt(a, lease)
      PROVE  RunStays(r)
  <2>1. /\ RunOf(a) \in Run
        /\ AdmittedRuns(ByController(RunOf(a)), {RunOf(a)}) \in [Run -> RunRow]
    BY AttemptKey, RecoveryType DEF AdmittedRuns, TypeOK
  <2>2. CASE r # RunOf(a)
    <3>1. runs'[r] = runs[r] \/ runs'[r] = RecoveredRuns({RunOf(a)})[r]
      BY <1>5, <2>1, <2>2 DEF StartAttempt, AdmittedRuns
    <3> QED BY <1>1, <3>1
  <2>3. CASE r = RunOf(a)
    <3>1. runs'[r] = [runs[r] EXCEPT !.state = "RUNNING", !.deadline = StartDeadline(r, lease)]
      BY <1>5, <2>1, <2>3 DEF StartAttempt
    <3>2. /\ runs'[r].passes = runs[r].passes /\ runs'[r].source = runs[r].source
          /\ runs'[r].cancel = runs[r].cancel /\ runs'[r].state = "RUNNING"
      BY <1>0, <3>1, Zenon DEF RunRow
    <3> QED BY <3>2 DEF RunStays
  <2> QED BY <2>2, <2>3
<1>6. ASSUME NEW a \in Attempt, NEW verdict, NEW sessions, FinishAttempt(a, verdict, sessions)
      PROVE  RunStays(r)
  <2>1. CASE r # RunOf(a)
    <3>1. runs'[r] = runs[r]
      BY <1>6, <2>1 DEF FinishAttempt, TypeOK
    <3> QED BY <1>1, <3>1
  <2>2. CASE r = RunOf(a)
    BY <1>2, <1>6, <2>2, AggregateType DEF FinishAttempt, TypeOK
  <2> QED BY <2>1, <2>2
<1>7. CASE runs' = runs
  BY <1>1, <1>7
<1>8. CASE RunStep
  BY <1>3, <1>4, <1>8 DEF RunStep
<1>9. CASE AttemptStep
  BY <1>5, <1>6, <1>7, <1>9 DEF AttemptStep, RecordConsumption
<1>10. CASE \E owned \in SUBSET Run : RecoverOrphaned(owned)
  BY <1>1, <1>10 DEF RecoverOrphaned
<1>11. CASE ProposalStep \/ Tick \/ UNCHANGED vars
  BY <1>7, <1>11 DEF ProposalStep, RecordProposals, TransitionProposals, ClaimProposals,
                     FinalizeProposals, ExpireStaleProposals, Tick, vars
<1> QED BY <1>8, <1>9, <1>10, <1>11 DEF Next

\* Only the creation of a run and the start of an attempt set a deadline.
LEMMA DeadlineKept ==
    ASSUME TypeOK, [Next]_vars, NEW r \in Run,
           \A a \in Attempt, lease \in LeaseRequest : StartAttempt(a, lease) => RunOf(a) # r,
           Exists(r)
    PROVE  runs'[r].deadline = runs[r].deadline /\ runs'[r].source = runs[r].source
<1> DEFINE Goal == runs'[r].deadline = runs[r].deadline /\ runs'[r].source = runs[r].source
<1>0. runs[r] \in RunRow
  BY DEF TypeOK
<1>1. ASSUME NEW owned, runs'[r] = runs[r] \/ runs'[r] = RecoveredRuns(owned)[r]
      PROVE  Goal
  <2>1. [runs[r] EXCEPT !.state = "BLOCKED"].deadline = runs[r].deadline
        /\ [runs[r] EXCEPT !.state = "BLOCKED"].source = runs[r].source
    BY <1>0, Zenon DEF RunRow
  <2> QED BY <1>1, <2>1 DEF RecoveredRuns
<1>2. ASSUME NEW s \in Run, NEW source, NEW passes, NEW lease, CreateRun(s, source, passes, lease)
      PROVE  Goal
  <2>1. AdmittedRuns(source \in ControllerSource, {}) \in [Run -> RunRow] /\ r # s
    BY <1>2, RecoveryType DEF AdmittedRuns, TypeOK, CreateRun
  <2>2. runs'[r] = runs[r] \/ runs'[r] = RecoveredRuns({})[r]
    BY <1>2, <2>1 DEF CreateRun, AdmittedRuns
  <2> QED BY <1>1, <2>2
<1>3. ASSUME NEW s \in Run, NEW digestOk,
             \/ FinalizeRunFailed(s) \/ RequestCancel(s) \/ ArchiveRun(s)
             \/ FinalizeCancelledRun(s) \/ FinalizeCycle(s, digestOk)
      PROVE  Goal
  <2>1. CASE r # s
    BY <1>3, <2>1 DEF FinalizeRunFailed, RequestCancel, ArchiveRun, FinalizeCancelledRun,
                      FinalizeCycle, TypeOK
  <2>2. CASE r = s
    <3>1. CASE FinalizeRunFailed(s)
      BY <1>0, <2>2, <3>1, Zenon DEF FinalizeRunFailed, TypeOK, RunRow
    <3>2. CASE RequestCancel(s)
      BY <1>0, <2>2, <3>2, Zenon DEF RequestCancel, TypeOK, RunRow
    <3>3. CASE ArchiveRun(s)
      BY <1>0, <2>2, <3>3, Zenon DEF ArchiveRun, TypeOK, RunRow
    <3>4. CASE FinalizeCancelledRun(s)
      BY <1>0, <2>2, <3>4, Zenon DEF FinalizeCancelledRun, TypeOK, RunRow
    <3>5. CASE FinalizeCycle(s, digestOk)
      BY <1>0, <2>2, <3>5, Zenon DEF FinalizeCycle, TypeOK, RunRow
    <3> QED BY <1>3, <3>1, <3>2, <3>3, <3>4, <3>5
  <2> QED BY <2>1, <2>2
<1>4. ASSUME NEW a \in Attempt, NEW lease \in LeaseRequest, StartAttempt(a, lease)
      PROVE  Goal
  <2>1. /\ RunOf(a) \in Run /\ RunOf(a) # r
        /\ AdmittedRuns(ByController(RunOf(a)), {RunOf(a)}) \in [Run -> RunRow]
    BY <1>4, AttemptKey, RecoveryType DEF AdmittedRuns, TypeOK
  <2>2. runs'[r] = runs[r] \/ runs'[r] = RecoveredRuns({RunOf(a)})[r]
    BY <1>4, <2>1 DEF StartAttempt, AdmittedRuns
  <2> QED BY <1>1, <2>2
<1>5. ASSUME NEW a \in Attempt, NEW verdict, NEW sessions, FinishAttempt(a, verdict, sessions)
      PROVE  Goal
  <2>1. CASE r # RunOf(a)
    BY <1>5, <2>1 DEF FinishAttempt, TypeOK
  <2>2. CASE r = RunOf(a)
    BY <1>0, <1>5, <2>2, Zenon DEF FinishAttempt, TypeOK, RunRow
  <2> QED BY <2>1, <2>2
<1>6. CASE RunStep
  BY <1>2, <1>3, <1>6 DEF RunStep
<1>7. CASE AttemptStep
  <2>1. ASSUME NEW a \in Attempt, NEW sessions, RecordConsumption(a, sessions)
        PROVE  Goal
    BY <2>1 DEF RecordConsumption
  <2> QED BY <1>4, <1>5, <1>7, <2>1 DEF AttemptStep
<1>8. CASE \E owned \in SUBSET Run : RecoverOrphaned(owned)
  BY <1>1, <1>8 DEF RecoverOrphaned
<1>9. CASE ProposalStep \/ Tick \/ UNCHANGED vars
  BY <1>9 DEF ProposalStep, RecordProposals, TransitionProposals, ClaimProposals,
              FinalizeProposals, ExpireStaleProposals, Tick, vars
<1> QED BY <1>6, <1>7, <1>8, <1>9 DEF Next

\* A live attempt that was not started by this step was live, under the lease it has.
LEMMA LeaseKept ==
    ASSUME TypeOK, [Next]_vars, NEW a \in Attempt, IsActive(a)',
           \A lease \in LeaseRequest : ~StartAttempt(a, lease)
    PROVE  IsActive(a) /\ attempts'[a].lease = attempts[a].lease
<1>1. AttemptMove(a)
  BY AttemptMoves
<1>2. CASE attempts'[a] = attempts[a]
  BY <1>2 DEF IsActive
<1>3. CASE attempts'[a] # attempts[a]
  <2>1. attempts[a].state = "ABSENT"
    BY <1>1, <1>3 DEF AttemptMove, FencedBy, IsActive, AttemptTerminal, ActiveState
  <2>2. \A owned : RecoveredAttempts(owned)[a].state \notin ActiveState
    <3>1. attempts[a] \in AttemptRow
      BY DEF TypeOK
    <3> QED BY <2>1, <3>1 DEF RecoveredAttempts, LeaseExpired, AttemptRow, ActiveState
  <2>3. ~IsActive(a)
    BY <2>1 DEF IsActive, ActiveState
  <2>4. CASE RunStep
    <3>1. ASSUME NEW r \in Run, NEW digestOk, FinalizeCancelledRun(r) \/ FinalizeCycle(r, digestOk)
          PROVE  attempts'[a] = attempts[a]
      BY <2>3, <3>1 DEF FinalizeCancelledRun, FinalizeCycle, EndedAttempts
    <3>2. ASSUME NEW r \in Run, NEW source, NEW passes, NEW lease, CreateRun(r, source, passes, lease)
          PROVE  attempts'[a] = attempts[a] \/ attempts'[a].state \notin ActiveState
      BY <2>2, <3>2 DEF CreateRun, AdmittedAttempts
    <3> QED BY <1>3, <2>4, <3>1, <3>2
            DEF RunStep, FinalizeRunFailed, RequestCancel, ArchiveRun, IsActive
  <2>5. CASE AttemptStep
    <3>1. ASSUME NEW b \in Attempt, NEW lease \in LeaseRequest, StartAttempt(b, lease)
          PROVE  attempts'[a] = attempts[a] \/ attempts'[a].state \notin ActiveState
      <4>1. a # b
        BY <3>1
      <4>2. AdmittedAttempts(ByController(RunOf(b)), {RunOf(b)}) \in [Attempt -> AttemptRow]
        BY AttemptKey, RecoveryType DEF AdmittedAttempts, TypeOK
      <4> QED BY <2>2, <3>1, <4>1, <4>2 DEF StartAttempt, AdmittedAttempts
    <3>2. ASSUME NEW b \in Attempt, NEW verdict, NEW sessions, FinishAttempt(b, verdict, sessions)
          PROVE  attempts'[a] = attempts[a]
      BY <2>3, <3>2 DEF FinishAttempt, TypeOK
    <3> QED BY <1>3, <2>5, <3>1, <3>2 DEF AttemptStep, RecordConsumption, IsActive
  <2>6. CASE \E owned \in SUBSET Run : RecoverOrphaned(owned)
    BY <2>2, <2>6 DEF RecoverOrphaned, IsActive
  <2>7. CASE ProposalStep \/ Tick \/ UNCHANGED vars
    BY <1>3, <2>7 DEF ProposalStep, RecordProposals, TransitionProposals, ClaimProposals,
                      FinalizeProposals, ExpireStaleProposals, Tick, vars
  <2> QED BY <2>4, <2>5, <2>6, <2>7 DEF Next
<1> QED BY <1>2, <1>3

\* The lease of an attempt is cut to the deadline of its run.
LEMMA StartWithinRun ==
    ASSUME TypeOK, NEW a \in Attempt, NEW lease \in LeaseRequest, StartAttempt(a, lease),
           runs'[RunOf(a)].deadline # NoDeadline
    PROVE  attempts'[a].lease # NoDeadline /\ attempts'[a].lease <= runs'[RunOf(a)].deadline
<1> DEFINE r == RunOf(a)
           e == StartDeadline(r, lease)
<1>1. r \in Run /\ runs[r] \in RunRow
  BY AttemptKey DEF TypeOK
<1>2. e \in Int /\ Expiry(lease) \in Int
  BY <1>1, LeaseType
<1>3. attempts'[a].lease = Earlier(Expiry(lease), e)
  <2>1. AdmittedAttempts(ByController(r), {r}) \in [Attempt -> AttemptRow]
    BY <1>1, RecoveryType DEF AdmittedAttempts, TypeOK
  <2> QED BY <2>1 DEF StartAttempt
<1>4. runs'[r].deadline = e
  <2>1. AdmittedRuns(ByController(r), {r}) \in [Run -> RunRow]
    BY <1>1, RecoveryType DEF AdmittedRuns, TypeOK
  <2>2. runs'[r] = [runs[r] EXCEPT !.state = "RUNNING", !.deadline = e]
    BY <1>1, <2>1 DEF StartAttempt
  <2> HIDE DEF e
  <2> QED BY <1>1, <2>2, Zenon DEF RunRow
<1> HIDE DEF e
<1> QED BY <1>2, <1>3, <1>4 DEF Earlier, NoDeadline

\* An attempt starts only when no other of its controller run is live.
LEMMA StartsAlone ==
    ASSUME TypeOK, NEW a \in Attempt, NEW lease \in LeaseRequest, StartAttempt(a, lease),
           NEW b \in Attempt, RunOf(b) = RunOf(a), b # a, ByController(RunOf(b))'
    PROVE  ~IsActive(b)
<1>1. RunOf(a) \in Run /\ runs[RunOf(a)] \in RunRow
  BY AttemptKey DEF TypeOK
<1>2. runs'[RunOf(a)].source = runs[RunOf(a)].source
  <2>1. AdmittedRuns(ByController(RunOf(a)), {RunOf(a)}) \in [Run -> RunRow]
    BY <1>1, RecoveryType DEF AdmittedRuns, TypeOK
  <2> QED BY <1>1, <2>1, Zenon DEF StartAttempt, RunRow
<1> QED BY <1>2 DEF StartAttempt, ByController, RunHasActiveAttempt

\* Only existing runs have attempts.
AttemptsHaveRuns == \A a \in Attempt : attempts[a].state # "ABSENT" => Exists(RunOf(a))

\* An attempt that is there after a step was there, or its run was.
LEMMA AttemptGrows ==
    ASSUME TypeOK, AttemptsHaveRuns, [Next]_vars, NEW a \in Attempt, attempts'[a].state # "ABSENT"
    PROVE  Exists(RunOf(a))
<1>1. CASE attempts[a].state # "ABSENT"
  BY <1>1 DEF AttemptsHaveRuns
<1>2. CASE \E lease \in LeaseRequest : StartAttempt(a, lease)
  BY <1>2 DEF StartAttempt
<1>3. CASE attempts[a].state = "ABSENT" /\ \A lease \in LeaseRequest : ~StartAttempt(a, lease)
  <2>1. AttemptMove(a)
    BY AttemptMoves
  <2>2. ~IsActive(a) /\ ~IsActive(a)'
    BY <1>3, LeaseKept DEF IsActive, ActiveState
  <2>3. PICK owned \in SUBSET Run : FencedBy(owned, a)
    BY <1>3, <2>1, <2>2 DEF AttemptMove, IsActive, ActiveState
  <2> QED BY <2>3 DEF FencedBy, Recovered, Tracked, RunActive, ActiveState, Exists
<1> QED BY <1>1, <1>2, <1>3

LEMMA AttemptsHaveRunsStep == TypeOK /\ AttemptsHaveRuns /\ [Next]_vars => AttemptsHaveRuns'
<1> SUFFICES ASSUME TypeOK, AttemptsHaveRuns, [Next]_vars, NEW a \in Attempt,
                    attempts'[a].state # "ABSENT"
             PROVE  Exists(RunOf(a))'
  BY DEF AttemptsHaveRuns
<1>1. RunOf(a) \in Run /\ Exists(RunOf(a))
  BY AttemptKey, AttemptGrows
<1>2. RunStays(RunOf(a))
  BY <1>1, RunKept
<1> QED BY <1>2 DEF RunStays, Exists

-----------------------------------------------------------------------------
(* What may be live beside a controller's attempt.                                              *)

\* A run that is RUNNING and visible, or FAILED, and not over by anything else.
Outlived(r) ==
    \/ runs[r].state = "RUNNING" /\ ~runs[r].archived
    \/ runs[r].state = "FAILED"

\* Around the only live attempt of a run, which stays live, the run stays RUNNING and visible, or is
\* or becomes FAILED.
LEMMA OutlivedKept ==
    ASSUME TypeOK, [Next]_vars, NEW a \in Attempt, IsActive(a), IsActive(a)', Exists(RunOf(a)),
           ByController(RunOf(a)), Outlived(RunOf(a)),
           \A b \in Attempt : RunOf(b) = RunOf(a) /\ IsActive(b) => a = b
    PROVE  Outlived(RunOf(a))'
<1> DEFINE r == RunOf(a)
<1>0. /\ r \in Run /\ runs[r] \in RunRow /\ runs \in [Run -> RunRow] /\ attempts[a] \in AttemptRow
      /\ attempts \in [Attempt -> AttemptRow]
  BY AttemptKey DEF TypeOK
<1> HIDE DEF r
<1>1. ASSUME runs'[r] = runs[r] PROVE Outlived(r)'
  BY <1>1 DEF r, Outlived
<1>2. ASSUME NEW owned \in SUBSET Run, attempts'[a] = RecoveredAttempts(owned)[a]
      PROVE  RecoveredRuns(owned)[r] = runs[r]
  <2>1. r \notin Recovered(owned)
    BY <1>2, RecoveryOutcome DEF r, IsActive
  <2> QED BY <1>0, <2>1, RecoveryOutcome
<1>3. ASSUME NEW s \in Run, NEW source, NEW passes, NEW lease, CreateRun(s, source, passes, lease)
      PROVE  Outlived(r)'
  <2>1. AdmittedRuns(source \in ControllerSource, {}) \in [Run -> RunRow] /\ r # s
    BY <1>3, RecoveryType DEF r, AdmittedRuns, TypeOK, CreateRun
  <2>2. runs'[r] = AdmittedRuns(source \in ControllerSource, {})[r]
    BY <1>0, <1>3, <2>1 DEF CreateRun
  <2>3. AdmittedRuns(source \in ControllerSource, {})[r] = runs[r]
    BY <1>2, <1>3 DEF CreateRun, AdmittedRuns, AdmittedAttempts
  <2> QED BY <1>1, <2>2, <2>3
<1>4. ASSUME NEW s \in Run, NEW digestOk,
             \/ FinalizeRunFailed(s) \/ RequestCancel(s) \/ ArchiveRun(s)
             \/ FinalizeCancelledRun(s) \/ FinalizeCycle(s, digestOk)
      PROVE  Outlived(r)'
  <2>1. CASE r # s
    <3>1. runs'[r] = runs[r]
      BY <1>0, <1>4, <2>1 DEF FinalizeRunFailed, RequestCancel, ArchiveRun, FinalizeCancelledRun,
                              FinalizeCycle
    <3> QED BY <1>1, <3>1
  <2>2. CASE r = s
    <3>1. CASE FinalizeRunFailed(s)
      <4>1. runs'[r].state = "FAILED"
        BY <1>0, <2>2, <3>1, Zenon DEF FinalizeRunFailed, RunRow
      <4> QED BY <4>1 DEF r, Outlived
    <3>2. CASE RequestCancel(s)
      <4>1. runs'[r].state = runs[r].state /\ runs'[r].archived = runs[r].archived
        BY <1>0, <2>2, <3>2, Zenon DEF RequestCancel, RunRow
      <4> QED BY <4>1 DEF r, Outlived
    <3>3. CASE ArchiveRun(s)
      <4>1. runs'[r].state = runs[r].state /\ ~RunActive(r)
        BY <1>0, <2>2, <3>3, Zenon DEF ArchiveRun, RunRow
      <4> QED BY <4>1 DEF r, Outlived, RunActive, ActiveState
    <3>4. ASSUME NEW verdict \in {"CANCELLED", "BLOCKED"}, NEW error,
                 attempts' = EndedAttempts(s, verdict, error)
          PROVE  FALSE
      <4>1. attempts'[a] = [attempts[a] EXCEPT !.state = verdict, !.error = error]
        BY <2>2, <3>4 DEF r, EndedAttempts
      <4>2. attempts'[a].state = verdict
        BY <1>0, <4>1, Zenon DEF AttemptRow
      <4> QED BY <4>2 DEF IsActive, ActiveState
    <3> QED BY <1>4, <3>1, <3>2, <3>3, <3>4 DEF FinalizeCancelledRun, FinalizeCycle
  <2> QED BY <2>1, <2>2
<1>5. ASSUME NEW b \in Attempt, NEW lease \in LeaseRequest, StartAttempt(b, lease)
      PROVE  Outlived(r)'
  <2> DEFINE s == RunOf(b)
  <2>0. s \in Run /\ {s} \in SUBSET Run
    BY AttemptKey
  <2>1. /\ AdmittedRuns(ByController(s), {s}) \in [Run -> RunRow]
        /\ AdmittedAttempts(ByController(s), {s}) \in [Attempt -> AttemptRow]
    BY <2>0, RecoveryType DEF AdmittedRuns, AdmittedAttempts, TypeOK
  <2>2. r # s
    <3>1. r = s => RunHasActiveAttempt(s)
      BY DEF r, RunHasActiveAttempt
    <3> QED BY <1>5, <3>1 DEF r, StartAttempt
  <2>3. a # b
    BY <2>2 DEF r
  <2>4. /\ runs'[r] = AdmittedRuns(ByController(s), {s})[r]
        /\ attempts'[a] = AdmittedAttempts(ByController(s), {s})[a]
    BY <1>0, <1>5, <2>1, <2>2, <2>3 DEF StartAttempt
  <2>5. runs'[r] = runs[r]
    BY <1>2, <2>0, <2>4 DEF AdmittedRuns, AdmittedAttempts
  <2> QED BY <1>1, <2>5
<1>6. ASSUME NEW b \in Attempt, NEW verdict \in Verdict, NEW sessions, FinishAttempt(b, verdict, sessions)
      PROVE  Outlived(r)'
  <2>1. CASE RunOf(b) = r
    <3>1. a = b
      BY <1>6, <2>1 DEF r, FinishAttempt
    <3>2. attempts'[a].state = verdict
      BY <1>0, <1>6, <3>1, Zenon DEF FinishAttempt, AttemptRow
    <3> QED BY <3>2, VerdictAssumption DEF IsActive, AttemptTerminal
  <2>2. CASE RunOf(b) # r
    <3>1. runs'[r] = runs[r]
      BY <1>0, <1>6, <2>2 DEF FinishAttempt
    <3> QED BY <1>1, <3>1
  <2> QED BY <2>1, <2>2
<1>7. CASE RunStep
  BY <1>3, <1>4, <1>7 DEF r, RunStep
<1>8. CASE AttemptStep
  <2>1. ASSUME NEW b \in Attempt, NEW sessions, RecordConsumption(b, sessions)
        PROVE  Outlived(r)'
    BY <1>1, <2>1 DEF RecordConsumption
  <2> QED BY <1>5, <1>6, <1>8, <2>1 DEF r, AttemptStep
<1>9. CASE \E owned \in SUBSET Run : RecoverOrphaned(owned)
  BY <1>1, <1>2, <1>9 DEF r, RecoverOrphaned
<1>10. CASE ProposalStep \/ Tick \/ UNCHANGED vars
  <2>1. runs' = runs
    BY <1>10 DEF ProposalStep, RecordProposals, TransitionProposals, ClaimProposals,
                 FinalizeProposals, ExpireStaleProposals, Tick, vars
  <2> QED BY <1>1, <2>1 DEF r
<1> QED BY <1>7, <1>8, <1>9, <1>10 DEF Next, r

LiveInv == TypeOK /\ AttemptsHaveRuns /\ OnlyFailureOutlived

LEMMA LiveInit == Init => LiveInv
<1> SUFFICES ASSUME Init PROVE LiveInv
  OBVIOUS
<1>1. \A a \in Attempt : attempts[a].state = "ABSENT"
  BY DEF Init, NoRow
<1> QED BY <1>1, TypeInit DEF LiveInv, AttemptsHaveRuns, OnlyFailureOutlived, IsActive, ActiveState

\* A controller's attempt that starts is alone in its run, which is RUNNING and visible.
LEMMA StartedRuns ==
    ASSUME TypeOK, NEW a \in Attempt, NEW lease \in LeaseRequest, StartAttempt(a, lease)
    PROVE  runs'[RunOf(a)].state = "RUNNING" /\ ~runs'[RunOf(a)].archived
<1> DEFINE r == RunOf(a)
           e == StartDeadline(r, lease)
<1>1. r \in Run /\ runs[r] \in RunRow /\ AdmittedRuns(ByController(r), {r}) \in [Run -> RunRow]
  BY AttemptKey, RecoveryType DEF AdmittedRuns, TypeOK
<1>2. runs'[r] = [runs[r] EXCEPT !.state = "RUNNING", !.deadline = e] /\ ~runs[r].archived
  BY <1>1 DEF StartAttempt
<1> HIDE DEF e
<1> QED BY <1>1, <1>2, Zenon DEF RunRow

\* No two attempts of a controller run are live after a step.
LEMMA AloneAfter ==
    ASSUME LiveInv, [Next]_vars, NEW a \in Attempt, NEW b \in Attempt, ByController(RunOf(a))',
           IsActive(a)', IsActive(b)', RunOf(b) = RunOf(a)
    PROVE  a = b
<1>0. TypeOK
  BY DEF LiveInv
<1>1. ASSUME NEW c \in Attempt, \A lease \in LeaseRequest : ~StartAttempt(c, lease), IsActive(c)'
      PROVE  IsActive(c)
  BY <1>0, <1>1, LeaseKept
<1>2. ASSUME NEW lease \in LeaseRequest, StartAttempt(a, lease)
      PROVE  a = b
  <2> SUFFICES ASSUME a # b PROVE FALSE
    OBVIOUS
  <2>1. ~IsActive(b)
    BY <1>0, <1>2, StartsAlone
  <2>2. attempts[b].state = "ABSENT" /\ \E other \in LeaseRequest : StartAttempt(b, other)
    BY <1>1, <2>1 DEF StartAttempt, IsNextAttempt
  <2>3. PICK other \in LeaseRequest : StartAttempt(b, other)
    BY <2>2
  <2>4. AdmittedAttempts(ByController(RunOf(a)), {RunOf(a)}) \in [Attempt -> AttemptRow]
    BY <1>0, AttemptKey, RecoveryType DEF AdmittedAttempts, TypeOK
  <2>5. attempts'[b] = AdmittedAttempts(ByController(RunOf(a)), {RunOf(a)})[b]
    BY <1>2, <2>4 DEF StartAttempt
  <2>6. RunOf(a) \notin Recovered({RunOf(a)})
    BY DEF Recovered, Tracked
  <2>7. attempts'[b] = attempts[b]
    BY <2>5, <2>6 DEF AdmittedAttempts, RecoveredAttempts
  <2> QED BY <2>2, <2>7 DEF IsActive, ActiveState
<1>3. ASSUME NEW lease \in LeaseRequest, StartAttempt(b, lease), \A l \in LeaseRequest : ~StartAttempt(a, l)
      PROVE  a = b
  <2> SUFFICES ASSUME a # b PROVE FALSE
    OBVIOUS
  <2>1. ~IsActive(a)
    BY <1>0, <1>3, StartsAlone
  <2> QED BY <1>1, <1>3, <2>1
<1>4. CASE \A lease \in LeaseRequest : ~StartAttempt(a, lease) /\ ~StartAttempt(b, lease)
  <2>1. IsActive(a) /\ IsActive(b)
    BY <1>1, <1>4
  <2>2. RunOf(a) \in Run /\ Exists(RunOf(a))
    BY <2>1, AttemptKey DEF LiveInv, AttemptsHaveRuns, IsActive, ActiveState
  <2>3. ByController(RunOf(a))
    BY <1>0, <2>2, RunKept DEF RunStays, ByController
  <2> QED BY <2>1, <2>3 DEF LiveInv, OnlyFailureOutlived
<1> QED BY <1>2, <1>3, <1>4

LEMMA LiveStep == LiveInv /\ [Next]_vars => LiveInv'
<1> SUFFICES ASSUME LiveInv, [Next]_vars PROVE LiveInv'
  OBVIOUS
<1>0. TypeOK /\ TypeOK' /\ AttemptsHaveRuns'
  BY TypeStep, AttemptsHaveRunsStep DEF LiveInv
<1>1. ASSUME NEW a \in Attempt, ByController(RunOf(a))', IsActive(a)'
      PROVE  Outlived(RunOf(a))'
  <2>1. ASSUME NEW lease \in LeaseRequest, StartAttempt(a, lease)
        PROVE  Outlived(RunOf(a))'
    BY <1>0, <2>1, StartedRuns DEF Outlived
  <2>2. CASE \A lease \in LeaseRequest : ~StartAttempt(a, lease)
    <3>1. IsActive(a)
      BY <1>0, <1>1, <2>2, LeaseKept
    <3>2. RunOf(a) \in Run /\ Exists(RunOf(a))
      BY <3>1, AttemptKey DEF LiveInv, AttemptsHaveRuns, IsActive, ActiveState
    <3>3. ByController(RunOf(a))
      BY <1>0, <1>1, <3>2, RunKept DEF RunStays, ByController
    <3>4. Outlived(RunOf(a)) /\ \A b \in Attempt : RunOf(b) = RunOf(a) /\ IsActive(b) => a = b
      BY <3>1, <3>3 DEF LiveInv, OnlyFailureOutlived, Outlived
    <3> QED BY <1>0, <1>1, <3>1, <3>2, <3>3, <3>4, OutlivedKept
  <2> QED BY <2>1, <2>2
<1>2. OnlyFailureOutlived'
  BY <1>1, AloneAfter DEF OnlyFailureOutlived, Outlived
<1> QED BY <1>0, <1>2 DEF LiveInv

\* A live attempt of a controller run is the only one of its run, and the run is RUNNING and visible,
\* or was failed by the one call that looks at no attempt.
THEOREM LiveAttempts == Spec => []OnlyFailureOutlived
<1>1. LiveInv => OnlyFailureOutlived
  BY DEF LiveInv
<1> QED BY <1>1, LiveInit, LiveStep, PTL DEF Spec

-----------------------------------------------------------------------------
(* Leases. *)

LEMMA LeaseStep == LiveInv /\ LeaseWithinRun /\ [Next]_vars => LeaseWithinRun'
<1> SUFFICES ASSUME LiveInv, LeaseWithinRun, [Next]_vars, NEW a \in Attempt,
                    IsActive(a)', ByController(RunOf(a))', runs'[RunOf(a)].deadline # NoDeadline
             PROVE  attempts'[a].lease # NoDeadline /\ attempts'[a].lease <= runs'[RunOf(a)].deadline
  BY DEF LeaseWithinRun
<1>0. TypeOK /\ RunOf(a) \in Run
  BY AttemptKey DEF LiveInv
<1>1. CASE \E lease \in LeaseRequest : StartAttempt(a, lease)
  BY <1>0, <1>1, StartWithinRun
<1>2. CASE \A lease \in LeaseRequest : ~StartAttempt(a, lease)
  <2>1. IsActive(a) /\ attempts'[a].lease = attempts[a].lease
    BY <1>0, <1>2, LeaseKept
  <2>2. Exists(RunOf(a))
    BY <2>1 DEF LiveInv, AttemptsHaveRuns, IsActive, ActiveState
  <2>3. ASSUME NEW b \in Attempt, NEW lease \in LeaseRequest, StartAttempt(b, lease)
        PROVE  RunOf(b) # RunOf(a)
    BY <1>0, <1>2, <2>1, <2>3, StartsAlone
  <2>4. runs'[RunOf(a)].deadline = runs[RunOf(a)].deadline
        /\ runs'[RunOf(a)].source = runs[RunOf(a)].source
    BY <1>0, <2>2, <2>3, DeadlineKept
  <2> QED BY <2>1, <2>4 DEF LeaseWithinRun, ByController
<1> QED BY <1>1, <1>2

\* A run that is recoverable while an attempt of it is live has that attempt past its lease.
LEMMA RecoverablePastLease ==
    ASSUME LiveInv, LeaseWithinRun, NEW a \in Attempt, IsActive(a), ByController(RunOf(a)),
           Recoverable(RunOf(a))
    PROVE  attempts[a].lease # NoDeadline /\ now > attempts[a].lease + Grace
<1>1. PICK d \in Deadlines(RunOf(a)) : now > d + Grace
  BY DEF Recoverable
<1>2. d # NoDeadline /\ (d = runs[RunOf(a)].deadline \/ d = attempts[a].lease)
  BY DEF Deadlines, LiveInv, OnlyFailureOutlived
<1>3. /\ attempts[a].lease \in Int /\ now \in Int /\ runs[RunOf(a)].deadline \in Int
      /\ RunOf(a) \in Run
  BY AttemptKey DEF LiveInv, TypeOK, AttemptRow, RunRow
<1>4. Grace \in Int
  BY TimeAssumption
<1> QED BY <1>1, <1>2, <1>3, <1>4 DEF LeaseWithinRun

LeaseInv == LiveInv /\ FencedIsOver /\ LeaseWithinRun

\* Recovery, by itself or inside an admission, never fences a live attempt of a controller run
\* whose own lease and grace have not passed: it is the only live one of its run, and the run's own
\* deadline, which recovery also looks at, is no earlier.
THEOREM RecoveryWaits == Spec => RecoveryRespectsLease
<1>1. Init => LeaseInv
  BY LiveInit DEF Init, NoRow, LeaseInv, FencedIsOver, LeaseWithinRun, IsActive, ActiveState
<1>2. LeaseInv /\ [Next]_vars => LeaseInv'
  BY LiveStep, FencedStep, LeaseStep DEF LeaseInv, LiveInv
<1>3. LeaseInv /\ [Next]_vars
        => [\A a \in Attempt :
              /\ IsActive(a) /\ ByController(RunOf(a))
              /\ attempts'[a].error = "ControllerLeaseExpired"
              => attempts[a].lease # NoDeadline /\ now > attempts[a].lease + Grace]_vars
  <2> SUFFICES ASSUME LeaseInv, [Next]_vars, NEW a \in Attempt, IsActive(a), ByController(RunOf(a)),
                      attempts'[a].error = "ControllerLeaseExpired"
               PROVE  attempts[a].lease # NoDeadline /\ now > attempts[a].lease + Grace
    OBVIOUS
  <2>1. AttemptMove(a) /\ attempts[a].error = "none"
    BY AttemptMoves DEF LeaseInv, LiveInv, FencedIsOver, IsActive, AttemptTerminal
  <2>2. PICK owned \in SUBSET Run : RunOf(a) \in Recovered(owned)
    BY <2>1 DEF AttemptMove, FencedBy
  <2>3. Recoverable(RunOf(a))
    BY <2>2 DEF Recovered
  <2> QED BY <2>3, RecoverablePastLease DEF LeaseInv
<1> QED BY <1>1, <1>2, <1>3, PTL DEF Spec, RecoveryRespectsLease

=============================================================================
