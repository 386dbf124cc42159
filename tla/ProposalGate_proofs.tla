------------------------ MODULE ProposalGate_proofs ------------------------
(***************************************************************************)
(* Proofs about ProposalGate, for any proposals, pairs, documents and      *)
(* workers: gateways, dream_apply processes and dream runners at once.     *)
(***************************************************************************)
EXTENDS ProposalGate, TLAPS

----------------------------------------------------------------------------
(* The inductive invariants. *)

WorkRecord == [step : Steps, group : SUBSET Proposal, seen : [Proposal -> Nat],
               todo : SUBSET Proposal]

\* A worker decides one canonical group, and writes members that are no graph proposals.
GroupInv == \A w \in Worker : /\ work[w] = Idle \/ \E p \in Proposal : work[w].group = Group(p)
                              /\ work[w].todo \subseteq work[w].group \ Graph

TypeInv == TypeOK /\ GroupInv

\* What an approval has taken off its list is written.
WrittenInv ==
    /\ AppliedWasWritten
    /\ \A w \in Worker : work[w].step = "apply" =>
          \A q \in work[w].group \ (Graph \cup work[w].todo) : written[q] > 0

\* A row as the worker has read it, now or earlier.
SeenAs(w, p, states) == /\ work[w].seen[p] \in 1..Len(rows[p])
                        /\ rows[p][work[w].seen[p]] \in states

\* The decisions of gateways and runners start from a revision that waited for one.  Those of a
\* dream_apply process start from rows in any state, but it neither defers nor sweeps.
SeenOpen(w) ==
    /\ w \in Cli => work[w].step \notin {"defer", "sweep", "sweepRefuse"}
    /\ w \notin Cli =>
          /\ work[w].step \notin {"check", "ask", "checkRefuse"}
          /\ work[w].step \in {"preview", "claim", "reject", "defer", "refuse"} =>
                \E p \in work[w].group : SeenAs(w, p, {"PENDING", "DEFERRED", "APPLY_FAILED"})
          /\ work[w].step = "defer" =>
                \E p \in work[w].group : SeenAs(w, p, {"PENDING", "DEFERRED"})
          /\ work[w].step \in {"sweep", "sweepRefuse"} =>
                \A p \in work[w].group : SeenAs(w, p, {"PENDING"})

SeenInv == /\ \A p \in Proposal : rows[p][1] = "PENDING"
           /\ \A w \in Worker : SeenOpen(w)

\* Members of a pair are in one state, except that one of them may have expired.
UniformInv ==
    \A p, q \in Proposal : q \in Group(p) =>
        State(p) = State(q) \/ State(p) = "EXPIRED" \/ State(q) = "EXPIRED"

\* What a dream_apply process makes of the rows of an approval in progress.
Taken == {"REJECTED", "SYSTEM_REJECTED"}

\* An approval has claimed its rows, alone, even if they are taken from it, or all are APPLIED.
ClaimInv ==
    \A w \in Worker : work[w].step = "apply" =>
        /\ \/ \A q \in work[w].group : State(q) = "APPLYING"
           \/ \A q \in work[w].group : State(q) = "APPLIED"
           \/ \A q \in work[w].group : State(q) \in Taken
        /\ \A v \in Worker \ {w} : work[v].step = "apply" /\ work[v].group = work[w].group =>
               \A q \in work[w].group : State(q) = "APPLIED"

\* Nobody takes over from a claimer that died.
OrphanInv ==
    \A p \in orphaned : \/ State(p) = "APPLIED"
                        \/ /\ State(p) \in {"APPLYING"} \cup Taken
                           /\ \A w \in Worker : ~Applying(w, p)

\* What an approval writes has not failed before.
FreshInv ==
    \A w \in Worker : work[w].step = "apply" =>
        \A p \in work[w].group \ Graph : \A n \in 1..Len(rows[p]) : rows[p][n] # "APPLY_FAILED"

\* A failure is never undone, except for graph proposals, which write nothing.
FailedInv ==
    \A p \in Proposal \ Graph : (\E n \in 1..Len(rows[p]) : rows[p][n] = "APPLY_FAILED") =>
        State(p) \in {"APPLY_FAILED", "REJECTED", "SYSTEM_REJECTED"}

GateInv == TypeInv /\ SeenInv /\ UniformInv /\ ClaimInv /\ OrphanInv /\ FailedInv /\ FreshInv

----------------------------------------------------------------------------
(* Groups and rows. *)

LEMMA GateTyped ==
    ASSUME TypeInv
    PROVE  /\ rows \in [Proposal -> Seq(RowState)] /\ \A p \in Proposal : rows[p] # <<>>
           /\ work \in [Worker -> WorkRecord] /\ changed \subseteq Doc
           /\ written \in [Proposal -> 0..2] /\ orphaned \subseteq Proposal
BY DEF TypeInv, TypeOK, WorkRecord

\* Groups partition the proposals.
LEMMA GroupFacts ==
    ASSUME NEW p \in Proposal, NEW q \in Proposal
    PROVE  /\ p \in Group(p) /\ Group(p) \in SUBSET Proposal
           /\ q \in Group(p) => Group(q) = Group(p)
BY GateAssumption DEF Group

LEMMA RowFacts ==
    ASSUME TypeInv, NEW p \in Proposal
    PROVE  /\ Len(rows[p]) \in Nat \ {0} /\ State(p) \in RowState
           /\ State(p) = rows[p][Revision(p)] /\ Revision(p) \in Nat \ {0}
<1>1. rows[p] \in Seq(RowState) /\ rows[p] # <<>>
  BY GateTyped
<1>2. Len(rows[p]) \in Nat \ {0}
  BY <1>1
<1>3. rows[p][Len(rows[p])] \in RowState
  BY <1>1, <1>2
<1> QED BY <1>2, <1>3 DEF State, Revision

LEMMA WorkGroup ==
    ASSUME TypeInv, NEW w \in Worker, work[w].step # "idle"
    PROVE  /\ work[w].group \in SUBSET Proposal /\ work[w].group # {}
           /\ \A p \in work[w].group : Group(p) = work[w].group
<1>1. work[w] # Idle
  BY DEF Idle
<1>2. PICK p \in Proposal : work[w].group = Group(p)
  BY <1>1 DEF TypeInv, GroupInv
<1> QED BY <1>2, GroupFacts

\* What a transition does to the rows: each member of the group that is not in the target state
\* gets it as its next one.
RowsMove(group, target) ==
    /\ rows' \in [Proposal -> Seq(RowState)] /\ \A p \in Proposal : rows'[p] # <<>>
    /\ \A p \in Proposal :
          /\ Len(rows[p]) <= Len(rows'[p]) /\ Len(rows'[p]) \in Nat
          /\ \A n \in 1..Len(rows[p]) : rows'[p][n] = rows[p][n]
          /\ \A n \in 1..Len(rows'[p]) : n \in 1..Len(rows[p]) \/ rows'[p][n] = target
          /\ p \in group => State(p)' = target
          /\ p \notin group \/ State(p) = target => rows'[p] = rows[p]

LEMMA MoveEffect ==
    ASSUME TypeInv, NEW group \in SUBSET Proposal, NEW target \in RowState,
           rows' = Moved(group, target)
    PROVE  RowsMove(group, target)
<1>1. ASSUME NEW p \in Proposal
      PROVE  rows[p] \in Seq(RowState) /\ rows[p] # <<>> /\ Len(rows[p]) \in Nat \ {0}
  BY GateTyped, RowFacts
<1>2. ASSUME NEW p \in Proposal
      PROVE  /\ Append(rows[p], target) \in Seq(RowState) /\ Append(rows[p], target) # <<>>
             /\ Len(Append(rows[p], target)) = Len(rows[p]) + 1
             /\ \A n \in 1..Len(rows[p]) : Append(rows[p], target)[n] = rows[p][n]
             /\ Append(rows[p], target)[Len(rows[p]) + 1] = target
  BY <1>1
<1>3. \A p \in Proposal :
          rows'[p] = IF p \in group /\ State(p) # target THEN Append(rows[p], target) ELSE rows[p]
  BY DEF Moved
<1>4. rows' = [p \in Proposal |->
          IF p \in group /\ State(p) # target THEN Append(rows[p], target) ELSE rows[p]]
  BY DEF Moved
<1>5. rows' \in [Proposal -> Seq(RowState)] /\ \A p \in Proposal : rows'[p] # <<>>
  BY <1>1, <1>2, <1>3, <1>4
<1>6. ASSUME NEW p \in Proposal
      PROVE  /\ Len(rows[p]) <= Len(rows'[p]) /\ Len(rows'[p]) \in Nat
             /\ \A n \in 1..Len(rows[p]) : rows'[p][n] = rows[p][n]
             /\ \A n \in 1..Len(rows'[p]) : n \in 1..Len(rows[p]) \/ rows'[p][n] = target
             /\ p \in group => State(p)' = target
             /\ p \notin group \/ State(p) = target => rows'[p] = rows[p]
  <2>1. CASE p \in group /\ State(p) # target
    <3>1. rows'[p] = Append(rows[p], target)
      BY <1>3, <2>1
    <3>2. Len(rows'[p]) = Len(rows[p]) + 1 /\ rows'[p][Len(rows'[p])] = target
      BY <1>2, <3>1
    <3>3. \A n \in 1..Len(rows'[p]) : n \in 1..Len(rows[p]) \/ n = Len(rows'[p])
      BY <1>1, <3>2
    <3> QED BY <1>1, <1>2, <2>1, <3>1, <3>2, <3>3 DEF State
  <2>2. CASE ~(p \in group /\ State(p) # target)
    <3>1. rows'[p] = rows[p]
      BY <1>3, <2>2
    <3> QED BY <1>1, <2>2, <3>1 DEF State
  <2> QED BY <2>1, <2>2
<1> QED BY <1>5, <1>6 DEF RowsMove

----------------------------------------------------------------------------
(* What the actions do to a worker, field by field. *)

OnlyWork(w) ==
    /\ work' \in [Worker -> WorkRecord]
    /\ \A v \in Worker : v # w => work'[v] = work[v]

LEMMA IdleTyped == Idle \in WorkRecord /\ Idle.step = "idle" /\ Idle.group = {} /\ Idle.todo = {}
BY DEF Idle, WorkRecord, Steps, NoRevision

LEMMA DropEffect ==
    ASSUME TypeInv, NEW w \in Worker, Drop(w)
    PROVE  OnlyWork(w) /\ work'[w] = Idle
BY GateTyped, IdleTyped DEF Drop, OnlyWork

LEMMA ContinueEffect ==
    ASSUME TypeInv, NEW w \in Worker, NEW step \in Steps, Continue(w, step)
    PROVE  /\ OnlyWork(w) /\ work'[w].step = step /\ work'[w].group = work[w].group
           /\ work'[w].seen = work[w].seen /\ work'[w].todo = work[w].todo
<1>1. work \in [Worker -> WorkRecord]
  BY GateTyped
<1>2. [work[w] EXCEPT !.step = step] \in WorkRecord
  BY <1>1 DEF WorkRecord
<1>3. work' = [work EXCEPT ![w] = [work[w] EXCEPT !.step = step]]
  BY <1>1 DEF Continue
<1>4. /\ [work[w] EXCEPT !.step = step].step = step
      /\ [work[w] EXCEPT !.step = step].group = work[w].group
      /\ [work[w] EXCEPT !.step = step].seen = work[w].seen
      /\ [work[w] EXCEPT !.step = step].todo = work[w].todo
  BY <1>1 DEF WorkRecord
<1> QED BY <1>1, <1>2, <1>3, <1>4 DEF OnlyWork

LEMMA BeginEffect ==
    ASSUME TypeInv, NEW w \in Worker, NEW p \in Proposal, NEW step \in Steps,
           NEW seen \in [Proposal -> Nat], Begin(w, p, step, seen)
    PROVE  /\ OnlyWork(w) /\ work'[w].step = step /\ work'[w].group = Group(p)
           /\ work'[w].todo = {} /\ \A q \in Group(p) : work'[w].seen[q] = seen[q]
           /\ UNCHANGED <<rows, changed, written, orphaned>>
<1> DEFINE kept == [q \in Proposal |-> IF q \in Group(p) THEN seen[q] ELSE NoRevision]
           next == [step |-> step, group |-> Group(p), todo |-> {}, seen |-> kept]
<1>1. work \in [Worker -> WorkRecord] /\ Group(p) \in SUBSET Proposal
  BY GateTyped, GroupFacts
<1>2. kept \in [Proposal -> Nat] /\ \A q \in Group(p) : kept[q] = seen[q]
  BY <1>1 DEF NoRevision
<1>3. work' = [work EXCEPT ![w] = next]
  BY DEF Begin
<1> HIDE DEF kept
<1>4. next \in WorkRecord
  BY <1>1, <1>2 DEF WorkRecord
<1>5. next.step = step /\ next.group = Group(p) /\ next.todo = {} /\ next.seen = kept
  OBVIOUS
<1> HIDE DEF next
<1>6. OnlyWork(w) /\ work'[w] = next
  BY <1>1, <1>3, <1>4 DEF OnlyWork
<1> QED BY <1>2, <1>5, <1>6 DEF Begin

LEMMA SnapshotTyped ==
    ASSUME TypeInv
    PROVE  Snapshot \in [Proposal -> Nat] /\ \A p \in Proposal : Snapshot[p] = Revision(p)
BY RowFacts DEF Snapshot

LEMMA ValidateEffect ==
    ASSUME TypeInv, NEW w \in Worker, NEW valid \in BOOLEAN, Validate(w, valid)
    PROVE  /\ OnlyWork(w) /\ UNCHANGED <<rows, changed, written, orphaned>>
           /\ work[w].step \in {"preview", "sweep", "check"}
           /\ \/ work'[w] = Idle
              \/ /\ work'[w].group = work[w].group /\ work'[w].seen = work[w].seen
                 /\ work'[w].todo = work[w].todo
                 /\ \/ work[w].step = "preview" /\ work'[w].step \in {"claim", "refuse"}
                    \/ work[w].step = "check" /\ work'[w].step \in {"ask", "checkRefuse"}
                    \/ work[w].step = "sweep" /\ work'[w].step = "sweepRefuse"
<1>1. work[w].step \in {"preview", "sweep", "check"} /\ UNCHANGED <<rows, changed, written, orphaned>>
  BY DEF Validate
<1>2. CASE work[w].step = "preview"
  <2>1. PICK step \in {"claim", "refuse"} : Continue(w, step)
    BY <1>2 DEF Validate
  <2>2. step \in Steps
    BY DEF Steps
  <2> QED BY <1>1, <1>2, <2>1, <2>2, ContinueEffect
<1>3. CASE work[w].step = "check"
  <2>1. PICK step \in {"ask", "checkRefuse"} : Continue(w, step)
    BY <1>3 DEF Validate
  <2>2. step \in Steps
    BY DEF Steps
  <2> QED BY <1>1, <1>3, <2>1, <2>2, ContinueEffect
<1>4. CASE work[w].step = "sweep"
  <2>1. Drop(w) \/ Continue(w, "sweepRefuse")
    BY <1>4 DEF Validate
  <2>2. "sweepRefuse" \in Steps
    BY DEF Steps
  <2> QED BY <1>1, <1>4, <2>1, <2>2, ContinueEffect, DropEffect
<1> QED BY <1>1, <1>2, <1>3, <1>4

\* A decision that moves rows found all of them movable.
LEMMA ResolveEffect ==
    ASSUME TypeInv, NEW w \in Worker, Resolve(w)
    PROVE  /\ OnlyWork(w) /\ work'[w] = Idle /\ UNCHANGED <<changed, written, orphaned>>
           /\ work[w].step \in {"reject", "defer", "refuse", "sweepRefuse", "checkRefuse"}
           /\ TargetState(work[w].step) \in {"REJECTED", "DEFERRED", "SYSTEM_REJECTED"}
           /\ \/ rows' = rows
              \/ /\ rows' = Moved(work[w].group, TargetState(work[w].step))
                 /\ RowsMove(work[w].group, TargetState(work[w].step))
                 /\ \A q \in work[w].group : \/ State(q) = TargetState(work[w].step)
                                             \/ /\ State(q) \notin Terminal
                                                /\ SameRevision(q, Expected(w))
<1>1. TargetState(work[w].step) \in {"REJECTED", "DEFERRED", "SYSTEM_REJECTED"}
  BY DEF TargetState
<1>2. TargetState(work[w].step) \in RowState /\ work[w].group \in SUBSET Proposal
  BY <1>1, GateTyped DEF RowState, WorkRecord
<1>3. Drop(w) /\ UNCHANGED <<changed, written, orphaned>>
  BY DEF Resolve
<1>4. \/ rows' = rows
      \/ /\ rows' = Moved(work[w].group, TargetState(work[w].step))
         /\ \A q \in work[w].group : \/ State(q) = TargetState(work[w].step)
                                     \/ State(q) \notin Terminal /\ SameRevision(q, Expected(w))
  BY DEF Resolve
<1>5. work[w].step \in {"reject", "defer", "refuse", "sweepRefuse", "checkRefuse"}
  BY DEF Resolve
<1>6. OnlyWork(w) /\ work'[w] = Idle
  BY <1>3, DropEffect
<1>7. rows' = Moved(work[w].group, TargetState(work[w].step))
          => RowsMove(work[w].group, TargetState(work[w].step))
  BY <1>2, MoveEffect
<1> QED BY <1>1, <1>3, <1>4, <1>5, <1>6, <1>7

LEMMA ClaimEffect ==
    ASSUME TypeInv, NEW w \in Worker, Claim(w)
    PROVE  /\ OnlyWork(w) /\ work[w].step = "claim" /\ UNCHANGED <<changed, written, orphaned>>
           /\ \/ rows' = rows /\ work'[w] = Idle
              \/ /\ work'[w].step = "apply" /\ work'[w].group = work[w].group
                 /\ work'[w].todo = work[w].group \ Graph
                 /\ \/ rows' = rows /\ \A q \in work[w].group : State(q) = "APPLIED"
                    \/ /\ rows' = Moved(work[w].group, "APPLYING")
                       /\ RowsMove(work[w].group, "APPLYING")
                       /\ \A q \in work[w].group : Claimable(q)
<1> DEFINE next == [work[w] EXCEPT !.step = "apply", !.todo = work[w].group \ Graph]
<1>1. work \in [Worker -> WorkRecord] /\ work[w].group \in SUBSET Proposal
  BY GateTyped DEF WorkRecord
<1>2. next \in WorkRecord
  BY <1>1 DEF WorkRecord, Steps
<1>3. next.step = "apply" /\ next.group = work[w].group /\ next.todo = work[w].group \ Graph
  BY <1>1 DEF WorkRecord
<1>4. work[w].step = "claim" /\ UNCHANGED <<changed, written, orphaned>>
  BY DEF Claim
<1>5. CASE \A q \in work[w].group : Claimable(q) /\ SameRevision(q, work[w].seen)
  <2>1. rows' = Moved(work[w].group, "APPLYING")
    BY <1>5 DEF Claim
  <2>2. work' = [work EXCEPT ![w] = next]
    BY <1>1, <1>5 DEF Claim
  <2>3. RowsMove(work[w].group, "APPLYING")
    BY <1>1, <2>1, MoveEffect DEF RowState
  <2>4. OnlyWork(w) /\ work'[w] = next
    BY <1>1, <1>2, <2>2 DEF OnlyWork
  <2> QED BY <1>3, <1>4, <1>5, <2>1, <2>3, <2>4
<1>6. CASE ~(\A q \in work[w].group : Claimable(q) /\ SameRevision(q, work[w].seen))
  <2>1. rows' = rows
    BY <1>6 DEF Claim
  <2>2. CASE \A q \in work[w].group : State(q) = "APPLIED"
    <3>1. work' = [work EXCEPT ![w] = next]
      BY <1>1, <2>2 DEF Claim
    <3>2. OnlyWork(w) /\ work'[w] = next
      BY <1>1, <1>2, <3>1 DEF OnlyWork
    <3> QED BY <1>3, <1>4, <2>1, <2>2, <3>2
  <2>3. CASE ~(\A q \in work[w].group : State(q) = "APPLIED")
    <3>1. Drop(w)
      BY <1>6, <2>3 DEF Claim
    <3> QED BY <1>4, <2>1, <3>1, DropEffect
  <2> QED BY <2>2, <2>3
<1> QED BY <1>5, <1>6

LEMMA ApplyEffect ==
    ASSUME TypeInv, NEW w \in Worker, NEW p \in Proposal, Apply(w, p)
    PROVE  /\ OnlyWork(w) /\ work[w].step = "apply" /\ p \in work[w].todo
           /\ work'[w].step = "apply" /\ work'[w].group = work[w].group
           /\ work'[w].todo = work[w].todo \ {p} /\ UNCHANGED <<rows, orphaned>>
           /\ written' \in [Proposal -> 0..2] /\ written'[p] > 0
           /\ \A q \in Proposal : q # p => written'[q] = written[q]
           /\ changed' \subseteq Doc
<1> DEFINE next == [work[w] EXCEPT !.todo = work[w].todo \ {p}]
<1>1. work \in [Worker -> WorkRecord] /\ written \in [Proposal -> 0..2] /\ changed \subseteq Doc
  BY GateTyped
<1>2. next \in WorkRecord
  BY <1>1 DEF WorkRecord
<1>3. /\ next.step = work[w].step /\ next.group = work[w].group
      /\ next.todo = work[w].todo \ {p}
  BY <1>1 DEF WorkRecord
<1>4. work' = [work EXCEPT ![w] = next]
  BY <1>1 DEF Apply
<1>5. OnlyWork(w) /\ work'[w] = next
  BY <1>1, <1>2, <1>4 DEF OnlyWork
<1>6. written' = [written EXCEPT ![p] = IF written[p] = 0 THEN 1 ELSE 2]
  BY DEF Apply
<1>7. /\ written' \in [Proposal -> 0..2] /\ written'[p] > 0
      /\ \A q \in Proposal : q # p => written'[q] = written[q]
  BY <1>1, <1>6
<1>8. changed' \subseteq Doc
  <2>1. TargetOf[p] \in Doc \cup {NoDoc}
    BY GateAssumption
  <2> QED BY <1>1, <2>1 DEF Apply
<1>9. work[w].step = "apply" /\ p \in work[w].todo /\ UNCHANGED <<rows, orphaned>>
  BY DEF Apply
<1> HIDE DEF next
<1> QED BY <1>3, <1>5, <1>7, <1>8, <1>9

\* The record of an outcome: target is APPLY_FAILED or, once all is written, APPLIED.
LEMMA FinalizeEffect ==
    ASSUME TypeInv, NEW w \in Worker, ApplyFails(w) \/ ApplySucceeds(w)
    PROVE  \E target \in {"APPLIED", "APPLY_FAILED"} :
               /\ OnlyWork(w) /\ work[w].step = "apply" /\ work'[w] = Idle
               /\ UNCHANGED <<changed, written, orphaned>>
               /\ target = "APPLIED" => work[w].todo = {}
               /\ \/ rows' = rows
                  \/ /\ rows' = Moved(work[w].group, target)
                     /\ RowsMove(work[w].group, target)
                     /\ \A q \in work[w].group : State(q) \in {"APPLYING", target}
<1>1. PICK target \in {"APPLIED", "APPLY_FAILED"} :
          /\ Finalized(w, target) /\ Drop(w) /\ UNCHANGED <<changed, written, orphaned>>
          /\ work[w].step = "apply" /\ (target = "APPLIED" => work[w].todo = {})
  BY DEF ApplyFails, ApplySucceeds
<1>2. target \in RowState /\ work[w].group \in SUBSET Proposal
  BY GateTyped DEF RowState, WorkRecord
<1>3. \/ rows' = rows
      \/ /\ rows' = Moved(work[w].group, target)
         /\ \A q \in work[w].group : State(q) \in {"APPLYING", target}
  BY <1>1 DEF Finalized
<1>4. rows' = Moved(work[w].group, target) => RowsMove(work[w].group, target)
  BY <1>2, MoveEffect
<1>5. OnlyWork(w) /\ work'[w] = Idle
  BY <1>1, DropEffect
<1> QED BY <1>1, <1>3, <1>4, <1>5

LEMMA CrashEffect ==
    ASSUME TypeInv, NEW w \in Worker, Crash(w)
    PROVE  /\ OnlyWork(w) /\ work'[w] = Idle /\ UNCHANGED <<rows, changed, written>>
           /\ orphaned' = orphaned \cup {p \in Proposal : Applying(w, p)}
BY DropEffect DEF Crash

LEMMA ExpireEffect ==
    ASSUME TypeInv, ExpireStale
    PROVE  /\ UNCHANGED <<work, changed, written, orphaned>>
           /\ RowsMove({p \in Old : Open(p)}, "EXPIRED")
<1>1. {p \in Old : Open(p)} \in SUBSET Proposal /\ "EXPIRED" \in RowState
  BY GateAssumption DEF RowState
<1> QED BY <1>1, MoveEffect DEF ExpireStale

\* Callers begin with one canonical group, or end.
LEMMA AskEffect ==
    ASSUME TypeInv, NEW w \in Worker, Ask(w)
    PROVE  /\ OnlyWork(w) /\ UNCHANGED <<rows, changed, written, orphaned>>
           /\ work[w].step \in {"idle", "preview", "sweep", "check", "ask"}
           /\ \/ work'[w] = Idle
              \/ /\ work'[w].step \in {"preview", "reject", "defer", "sweep", "check"}
                 /\ work'[w].todo = {} /\ \E p \in Proposal : work'[w].group = Group(p)
<1> DEFINE Begins(p) == \E step \in {"preview", "reject", "defer", "sweep", "check"} :
                        \E seen \in [Proposal -> Nat] : Begin(w, p, step, seen)
<1>1. ASSUME NEW p \in Proposal, Begins(p)
      PROVE  /\ OnlyWork(w) /\ UNCHANGED <<rows, changed, written, orphaned>>
             /\ work'[w].step \in {"preview", "reject", "defer", "sweep", "check"}
             /\ work'[w].todo = {} /\ work'[w].group = Group(p)
  <2>1. {"preview", "reject", "defer", "sweep", "check"} \subseteq Steps
    BY DEF Steps
  <2> QED BY <1>1, <2>1, BeginEffect
<1>2. Snapshot \in [Proposal -> Nat]
  BY SnapshotTyped
<1>3. ASSUME NEW p \in Proposal, NEW shown \in 1..Revision(p),
             NEW decision \in {"approve", "reject", "defer"}, GuiDecide(w, p, shown, decision)
      PROVE  Begins(p) /\ work[w].step = "idle"
  <2>1. [Snapshot EXCEPT ![p] = shown] \in [Proposal -> Nat]
    BY <1>2, RowFacts
  <2> QED BY <1>3, <2>1 DEF GuiDecide, BeginDecision
<1>4. ASSUME NEW p \in Proposal, Sweep(w, p) \/ Check(w, p)
      PROVE  Begins(p) /\ work[w].step = "idle"
  BY <1>2, <1>4 DEF Sweep, Check
<1>5. ASSUME NEW p \in Proposal, NEW decision \in {"approve", "reject"}, CliDecide(w, p, decision)
      PROVE  Begins(p) /\ work[w].step = "ask"
  BY <1>2, <1>5 DEF CliDecide, BeginDecision
<1>6. ASSUME NEW p \in Proposal, AutoProject(w, p)
      PROVE  Begins(p) /\ work[w].step = "idle"
  BY <1>2, <1>6 DEF AutoProject, BeginDecision
<1>7. CASE Abandon(w)
  BY <1>7, DropEffect DEF Abandon
<1> HIDE DEF Begins
<1>8. Abandon(w) \/ \E p \in Proposal : Begins(p) /\ work[w].step \in {"idle", "ask"}
  BY <1>3, <1>4, <1>5, <1>6 DEF Ask
<1> QED BY <1>1, <1>7, <1>8

----------------------------------------------------------------------------
(* Types. *)

LEMMA WorkStepTyped ==
    ASSUME TypeInv, NEW w \in Worker, OnlyWork(w),
           rows' \in [Proposal -> Seq(RowState)], \A p \in Proposal : rows'[p] # <<>>,
           written' \in [Proposal -> 0..2], changed' \subseteq Doc, orphaned' \subseteq Proposal,
           work'[w] = Idle \/ \E p \in Proposal : work'[w].group = Group(p),
           work'[w].todo \subseteq work'[w].group \ Graph
    PROVE  TypeInv'
<1>1. TypeOK'
  BY DEF TypeOK, OnlyWork, WorkRecord
<1>2. \A v \in Worker : v # w => work'[v] = work[v]
  BY DEF OnlyWork
<1>3. GroupInv'
  BY <1>2 DEF TypeInv, GroupInv
<1> QED BY <1>1, <1>3 DEF TypeInv

LEMMA TypeStep ==
    ASSUME TypeInv, [Next]_vars
    PROVE  TypeInv'
<1>0. /\ rows \in [Proposal -> Seq(RowState)] /\ (\A p \in Proposal : rows[p] # <<>>)
      /\ written \in [Proposal -> 0..2] /\ changed \subseteq Doc /\ orphaned \subseteq Proposal
  BY GateTyped
<1>1. \A w \in Worker : /\ work[w] = Idle \/ \E p \in Proposal : work[w].group = Group(p)
                        /\ work[w].todo \subseteq work[w].group \ Graph
  BY DEF TypeInv, GroupInv
<1>2. Idle.todo \subseteq Idle.group \ Graph
  BY IdleTyped
<1>3. ASSUME NEW w \in Worker, NEW valid \in BOOLEAN, Validate(w, valid)
      PROVE  TypeInv'
  <2>1. \/ work'[w] = Idle
        \/ /\ work'[w].group = work[w].group /\ work'[w].todo = work[w].todo
           /\ work[w] # Idle
    BY <1>3, ValidateEffect, IdleTyped
  <2> QED BY <1>0, <1>1, <1>2, <1>3, <2>1, ValidateEffect, WorkStepTyped
<1>4. ASSUME NEW w \in Worker, Resolve(w)
      PROVE  TypeInv'
  <2>1. rows' \in [Proposal -> Seq(RowState)] /\ \A p \in Proposal : rows'[p] # <<>>
    BY <1>0, <1>4, ResolveEffect DEF RowsMove
  <2> QED BY <1>0, <1>2, <1>4, <2>1, ResolveEffect, WorkStepTyped
<1>5. ASSUME NEW w \in Worker, Claim(w)
      PROVE  TypeInv'
  <2>1. rows' \in [Proposal -> Seq(RowState)] /\ \A p \in Proposal : rows'[p] # <<>>
    BY <1>0, <1>5, ClaimEffect DEF RowsMove
  <2>2. work[w] # Idle
    BY <1>5, ClaimEffect, IdleTyped
  <2> QED BY <1>0, <1>1, <1>2, <1>5, <2>1, <2>2, ClaimEffect, WorkStepTyped
<1>6. ASSUME NEW w \in Worker, NEW p \in Proposal, Apply(w, p)
      PROVE  TypeInv'
  <2>1. work[w] # Idle
    BY <1>6, ApplyEffect, IdleTyped
  <2> QED BY <1>0, <1>1, <1>6, <2>1, ApplyEffect, WorkStepTyped
<1>7. ASSUME NEW w \in Worker, ApplyFails(w) \/ ApplySucceeds(w)
      PROVE  TypeInv'
  <2>1. rows' \in [Proposal -> Seq(RowState)] /\ \A p \in Proposal : rows'[p] # <<>>
    BY <1>0, <1>7, FinalizeEffect DEF RowsMove
  <2>2. OnlyWork(w) /\ work'[w] = Idle /\ UNCHANGED <<changed, written, orphaned>>
    BY <1>7, FinalizeEffect
  <2> QED BY <1>0, <1>2, <2>1, <2>2, WorkStepTyped
<1>8. ASSUME NEW w \in Worker, Ask(w)
      PROVE  TypeInv'
  BY <1>0, <1>2, <1>8, AskEffect, WorkStepTyped
<1>9. ASSUME NEW w \in Worker, Crash(w)
      PROVE  TypeInv'
  BY <1>0, <1>2, <1>9, CrashEffect, WorkStepTyped
<1>10. ASSUME NEW d \in Doc, ExternalWrite(d)
       PROVE  TypeInv'
  <2>1. UNCHANGED <<rows, work, written, orphaned>> /\ changed' \subseteq Doc
    BY <1>0, <1>10 DEF ExternalWrite
  <2> QED BY <2>1 DEF TypeInv, TypeOK, GroupInv
<1>11. ASSUME ExpireStale
       PROVE  TypeInv'
  <2>1. UNCHANGED <<work, changed, written, orphaned>>
    BY <1>11, ExpireEffect
  <2>2. rows' \in [Proposal -> Seq(RowState)] /\ \A p \in Proposal : rows'[p] # <<>>
    BY <1>11, ExpireEffect DEF RowsMove
  <2> QED BY <2>1, <2>2 DEF TypeInv, TypeOK, GroupInv
<1>12. CASE UNCHANGED vars
  BY <1>12 DEF vars, TypeInv, TypeOK, GroupInv
<1> QED BY <1>3, <1>4, <1>5, <1>6, <1>7, <1>8, <1>9, <1>10, <1>11, <1>12 DEF Next, Step

LEMMA MoveStates ==
    ASSUME NEW group, NEW target, RowsMove(group, target)
    PROVE  \A p \in Proposal : State(p)' = IF p \in group THEN target ELSE State(p)
BY DEF RowsMove, State

----------------------------------------------------------------------------
(* APPLIED means written. *)

\* A step that writes nothing, takes nobody into an approval and makes nothing APPLIED.
LEMMA WrittenKept ==
    ASSUME TypeInv, WrittenInv, NEW w \in Worker, OnlyWork(w), UNCHANGED written,
           work'[w].step # "apply",
           \A p \in Proposal : State(p)' = "APPLIED" => State(p) = "APPLIED"
    PROVE  WrittenInv'
<1>1. \A v \in Worker : v # w => work'[v] = work[v]
  BY DEF OnlyWork
<1>2. AppliedWasWritten'
  BY DEF WrittenInv, AppliedWasWritten, Group
<1>3. ASSUME NEW v \in Worker, work'[v].step = "apply"
      PROVE  \A q \in work'[v].group \ (Graph \cup work'[v].todo) : written'[q] > 0
  BY <1>1, <1>3 DEF WrittenInv
<1> QED BY <1>2, <1>3 DEF WrittenInv

LEMMA WrittenStep ==
    ASSUME TypeInv, WrittenInv, [Next]_vars
    PROVE  WrittenInv'
<1>0. Idle.step # "apply"
  BY IdleTyped
<1>1. UNCHANGED rows => \A p \in Proposal : State(p)' = State(p)
  BY DEF State
<1>2. ASSUME NEW w \in Worker, NEW valid \in BOOLEAN, Validate(w, valid)
      PROVE  WrittenInv'
  <2>1. OnlyWork(w) /\ UNCHANGED <<rows, written>> /\ work'[w].step # "apply"
    BY <1>0, <1>2, ValidateEffect
  <2> QED BY <1>1, <2>1, WrittenKept
<1>3. ASSUME NEW w \in Worker, Resolve(w)
      PROVE  WrittenInv'
  <2>1. OnlyWork(w) /\ UNCHANGED written /\ work'[w].step # "apply"
    BY <1>0, <1>3, ResolveEffect
  <2>2. \A p \in Proposal : State(p)' = "APPLIED" => State(p) = "APPLIED"
    <3>1. CASE rows' = rows
      BY <1>1, <3>1
    <3>2. CASE RowsMove(work[w].group, TargetState(work[w].step))
      <4>1. TargetState(work[w].step) # "APPLIED"
        BY <1>3, ResolveEffect
      <4> QED BY <3>2, <4>1, MoveStates
    <3> QED BY <1>3, <3>1, <3>2, ResolveEffect
  <2> QED BY <2>1, <2>2, WrittenKept
<1>4. ASSUME NEW w \in Worker, Claim(w)
      PROVE  WrittenInv'
  <2>1. OnlyWork(w) /\ UNCHANGED written
    BY <1>4, ClaimEffect
  <2>2. \A p \in Proposal : State(p)' = "APPLIED" => State(p) = "APPLIED"
    <3>1. CASE rows' = rows
      BY <1>1, <3>1
    <3>2. CASE RowsMove(work[w].group, "APPLYING")
      BY <3>2, MoveStates
    <3> QED BY <1>4, <3>1, <3>2, ClaimEffect
  <2>3. CASE work'[w] = Idle
    BY <1>0, <2>1, <2>2, <2>3, WrittenKept
  <2>4. CASE work'[w].group = work[w].group /\ work'[w].todo = work[w].group \ Graph
    <3>1. \A v \in Worker : v # w => work'[v] = work[v]
      BY <2>1 DEF OnlyWork
    <3>2. AppliedWasWritten'
      BY <2>1, <2>2 DEF WrittenInv, AppliedWasWritten, Group
    <3>3. ASSUME NEW v \in Worker, work'[v].step = "apply"
          PROVE  \A q \in work'[v].group \ (Graph \cup work'[v].todo) : written'[q] > 0
      BY <2>1, <2>4, <3>1, <3>3 DEF WrittenInv
    <3> QED BY <3>2, <3>3 DEF WrittenInv
  <2> QED BY <1>4, <2>3, <2>4, ClaimEffect
<1>5. ASSUME NEW w \in Worker, NEW p \in Proposal, Apply(w, p)
      PROVE  WrittenInv'
  <2>1. /\ OnlyWork(w) /\ work[w].step = "apply" /\ work'[w].group = work[w].group
        /\ work'[w].todo = work[w].todo \ {p} /\ rows' = rows
        /\ written' \in [Proposal -> 0..2] /\ written'[p] > 0
        /\ \A q \in Proposal : q # p => written'[q] = written[q]
    BY <1>5, ApplyEffect
  <2>2. \A q \in Proposal : written[q] > 0 => written'[q] > 0
    BY <2>1
  <2>3. \A v \in Worker : v # w => work'[v] = work[v]
    BY <2>1 DEF OnlyWork
  <2>4. AppliedWasWritten'
    <3>1. \A q \in Proposal : State(q)' = State(q) /\ Group(q) \in SUBSET Proposal
      BY <1>1, <2>1, GroupFacts
    <3> QED BY <2>2, <3>1 DEF WrittenInv, AppliedWasWritten
  <2>5. ASSUME NEW v \in Worker, work'[v].step = "apply",
               NEW q \in work'[v].group \ (Graph \cup work'[v].todo)
        PROVE  written'[q] > 0
    <3>1. work[v].group \in SUBSET Proposal
      BY GateTyped DEF WorkRecord
    <3>2. CASE v # w
      BY <2>2, <2>3, <2>5, <3>1, <3>2 DEF WrittenInv
    <3>3. CASE v = w
      <4>1. q \in Proposal /\ (q = p \/ q \in work[w].group \ (Graph \cup work[w].todo))
        BY <2>1, <3>1, <3>3
      <4> QED BY <2>1, <2>2, <4>1 DEF WrittenInv
    <3> QED BY <3>2, <3>3
  <2> QED BY <2>4, <2>5 DEF WrittenInv
<1>6. ASSUME NEW w \in Worker, ApplyFails(w) \/ ApplySucceeds(w)
      PROVE  WrittenInv'
  <2>1. PICK target \in {"APPLIED", "APPLY_FAILED"} :
            /\ OnlyWork(w) /\ work[w].step = "apply" /\ work'[w] = Idle /\ UNCHANGED written
            /\ target = "APPLIED" => work[w].todo = {}
            /\ rows' = rows \/ RowsMove(work[w].group, target)
    BY <1>6, FinalizeEffect
  <2>2. CASE rows' = rows \/ target = "APPLY_FAILED"
    <3>1. \A p \in Proposal : State(p)' = "APPLIED" => State(p) = "APPLIED"
      BY <1>1, <2>1, <2>2, MoveStates
    <3> QED BY <1>0, <2>1, <3>1, WrittenKept
  <2>3. CASE RowsMove(work[w].group, target) /\ target = "APPLIED"
    <3>1. \A v \in Worker : v # w => work'[v] = work[v]
      BY <2>1 DEF OnlyWork
    <3>2. \A q \in work[w].group \ Graph : written[q] > 0
      BY <2>1, <2>3 DEF WrittenInv
    <3>3. \A p \in work[w].group : Group(p) = work[w].group
      BY <2>1, WorkGroup
    <3>4. AppliedWasWritten'
      <4> SUFFICES ASSUME NEW p \in Proposal, State(p)' = "APPLIED", NEW q \in Group(p) \ Graph
                   PROVE  written[q] > 0
        BY <2>1 DEF AppliedWasWritten, Group
      <4>1. CASE p \in work[w].group
        BY <3>2, <3>3, <4>1
      <4>2. CASE p \notin work[w].group
        <5>1. State(p) = "APPLIED"
          BY <2>3, <4>2, MoveStates
        <5> QED BY <5>1 DEF WrittenInv, AppliedWasWritten
      <4> QED BY <4>1, <4>2
    <3>5. ASSUME NEW v \in Worker, work'[v].step = "apply"
          PROVE  \A q \in work'[v].group \ (Graph \cup work'[v].todo) : written'[q] > 0
      BY <1>0, <2>1, <3>1, <3>5 DEF WrittenInv
    <3> QED BY <3>4, <3>5 DEF WrittenInv
  <2> QED BY <2>1, <2>2, <2>3
<1>7. ASSUME NEW w \in Worker, Ask(w)
      PROVE  WrittenInv'
  <2>1. OnlyWork(w) /\ UNCHANGED <<rows, written>> /\ work'[w].step # "apply"
    BY <1>0, <1>7, AskEffect
  <2> QED BY <1>1, <2>1, WrittenKept
<1>8. ASSUME NEW w \in Worker, Crash(w)
      PROVE  WrittenInv'
  BY <1>0, <1>1, <1>8, CrashEffect, WrittenKept
<1>9. CASE UNCHANGED <<rows, work, written>>
  BY <1>9 DEF WrittenInv, AppliedWasWritten, State, Group
<1>10. ASSUME ExpireStale
       PROVE  WrittenInv'
  <2>1. UNCHANGED <<work, written>> /\ RowsMove({p \in Old : Open(p)}, "EXPIRED")
    BY <1>10, ExpireEffect
  <2>2. \A p \in Proposal : State(p)' = "APPLIED" => State(p) = "APPLIED"
    BY <2>1, MoveStates
  <2> QED BY <2>1, <2>2 DEF WrittenInv, AppliedWasWritten, Group
<1> QED BY <1>2, <1>3, <1>4, <1>5, <1>6, <1>7, <1>8, <1>9, <1>10
        DEF Next, Step, ExternalWrite, vars

----------------------------------------------------------------------------
(* What moves rows. *)

LEMMA SameStates ==
    ASSUME UNCHANGED rows
    PROVE  \A p \in Proposal : State(p)' = State(p)
BY DEF State

\* A move of rows that are all in its target state is none.
LEMMA NoMove ==
    ASSUME TypeInv, NEW group, NEW target, RowsMove(group, target),
           \A q \in group : State(q) = target
    PROVE  rows' = rows
<1>1. \A p \in Proposal : rows'[p] = rows[p]
  BY DEF RowsMove
<1>2. rows \in [Proposal -> Seq(RowState)] /\ rows' \in [Proposal -> Seq(RowState)]
  BY GateTyped DEF RowsMove
<1> QED BY <1>1, <1>2

\* Of the group of a gateway's or runner's decision, the row that was displayed is still as it was
\* displayed, and the others are with it.
LEMMA ResolveMoves ==
    ASSUME TypeInv, SeenInv, UniformInv, NEW w \in Worker \ Cli, Resolve(w), rows' # rows
    PROVE  \E state \in {"PENDING", "DEFERRED", "APPLY_FAILED"} :
               /\ \A q \in work[w].group : State(q) = state
               /\ work[w].step = "defer" => state # "APPLY_FAILED"
               /\ work[w].step = "sweepRefuse" => state = "PENDING"
<1> DEFINE target == TargetState(work[w].step)
           G == work[w].group
<1>1. /\ work[w].step \in {"reject", "defer", "refuse", "sweepRefuse"}
      /\ target \in {"REJECTED", "DEFERRED", "SYSTEM_REJECTED"} /\ RowsMove(G, target)
      /\ \A q \in G : \/ State(q) = target
                      \/ State(q) \notin Terminal /\ SameRevision(q, Expected(w))
  <2>1. work[w].step # "checkRefuse"
    BY DEF SeenInv, SeenOpen
  <2> QED BY <2>1, ResolveEffect
<1>2. Expected(w) = work[w].seen
  BY <1>1 DEF Expected
<1>3. PICK p \in G : SeenAs(w, p, {state \in {"PENDING", "DEFERRED", "APPLY_FAILED"} :
                          /\ work[w].step = "defer" => state # "APPLY_FAILED"
                          /\ work[w].step = "sweepRefuse" => state = "PENDING"})
  <2>1. SeenOpen(w) /\ G # {}
    BY <1>1, WorkGroup DEF SeenInv
  <2> QED BY <1>1, <2>1 DEF SeenOpen, SeenAs
<1>4. p \in Proposal /\ Group(p) = G /\ G \in SUBSET Proposal
  BY <1>1, WorkGroup
<1>5. \A q \in G : State(q) # "EXPIRED"
  BY <1>1 DEF Terminal
<1>6. \A q \in G : State(q) = State(p)
  BY <1>3, <1>4, <1>5 DEF UniformInv
<1>7. State(p) # target
  BY <1>1, <1>6, NoMove
<1>8. work[w].seen[p] = Revision(p)
  <2>1. SameRevision(p, work[w].seen)
    BY <1>1, <1>2, <1>3, <1>7
  <2>2. work[w].seen[p] # NoRevision
    BY <1>3, <1>4, RowFacts DEF SeenAs, NoRevision
  <2> QED BY <2>1, <2>2 DEF SameRevision
<1>9. State(p) \in {state \in {"PENDING", "DEFERRED", "APPLY_FAILED"} :
                        /\ work[w].step = "defer" => state # "APPLY_FAILED"
                        /\ work[w].step = "sweepRefuse" => state = "PENDING"}
  BY <1>3, <1>8 DEF SeenAs, State, Revision
<1> QED BY <1>6, <1>9

LEMMA FinalizeMoves ==
    ASSUME TypeInv, ClaimInv, NEW w \in Worker, NEW target \in {"APPLIED", "APPLY_FAILED"},
           work[w].step = "apply", RowsMove(work[w].group, target), rows' # rows,
           \A q \in work[w].group : State(q) \in {"APPLYING", target}
    PROVE  \A q \in work[w].group : State(q) = "APPLYING"
<1>1. CASE \A q \in work[w].group : State(q) = "APPLIED"
  <2>1. \A q \in work[w].group : State(q) = target
    BY <1>1
  <2> QED BY <2>1, NoMove
<1>2. work[w].group # {}
  BY WorkGroup
<1> QED BY <1>1, <1>2 DEF ClaimInv, Taken

----------------------------------------------------------------------------
(* Rows are read as they were once. *)

Grown == \A p \in Proposal : /\ Len(rows[p]) <= Len(rows'[p]) /\ Len(rows'[p]) \in Nat
                             /\ \A n \in 1..Len(rows[p]) : rows'[p][n] = rows[p][n]

LEMMA GrownByStep ==
    ASSUME TypeInv, UNCHANGED rows \/ \E group, target : RowsMove(group, target)
    PROVE  Grown
<1>1. CASE UNCHANGED rows
  BY <1>1, RowFacts DEF Grown
<1>2. CASE \E group, target : RowsMove(group, target)
  BY <1>2 DEF Grown, RowsMove
<1> QED BY <1>1, <1>2

LEMMA SeenAsKept ==
    ASSUME TypeInv, Grown, NEW w \in Worker, NEW p \in Proposal, NEW states, SeenAs(w, p, states),
           work'[w].seen[p] = work[w].seen[p]
    PROVE  SeenAs(w, p, states)'
<1>1. Len(rows[p]) \in Nat
  BY RowFacts
<1> QED BY <1>1 DEF SeenAs, Grown

LEMMA SeenStep ==
    ASSUME TypeInv, SeenInv, Grown, NEW w \in Worker, OnlyWork(w), SeenOpen(w)'
    PROVE  SeenInv'
<1>1. ASSUME NEW p \in Proposal
      PROVE  rows'[p][1] = "PENDING"
  <2>1. 1 \in 1..Len(rows[p])
    BY RowFacts
  <2> QED BY <2>1 DEF SeenInv, Grown
<1>2. ASSUME NEW v \in Worker, v # w
      PROVE  SeenOpen(v)'
  <2>1. work'[v] = work[v] /\ SeenOpen(v) /\ work[v].group \in SUBSET Proposal
    BY <1>2, GateTyped DEF OnlyWork, SeenInv, WorkRecord
  <2>2. \A p \in work[v].group : \A states : SeenAs(v, p, states) => SeenAs(v, p, states)'
    BY <2>1, SeenAsKept
  <2> QED BY <2>1, <2>2 DEF SeenOpen
<1> QED BY <1>1, <1>2 DEF SeenInv

LEMMA RestIsOpen ==
    ASSUME NEW w \in Worker, work'[w].step \in {"idle", "apply"}
    PROVE  SeenOpen(w)'
BY DEF SeenOpen

\* The buttons of the dashboard, the sweep and the runner begin with rows that wait.
LEMMA AskSees ==
    ASSUME TypeInv, SeenInv, NEW w \in Worker, Ask(w)
    PROVE  SeenOpen(w)'
<1>1. Snapshot \in [Proposal -> Nat] /\ \A p \in Proposal : Snapshot[p] = Revision(p)
  BY SnapshotTyped
<1>2. {"preview", "reject", "defer", "sweep", "check"} \subseteq Steps
  BY DEF Steps
<1>3. ASSUME NEW p \in Proposal
      PROVE  /\ Len(rows[p]) \in Nat \ {0} /\ State(p) = rows[p][Revision(p)]
             /\ Revision(p) = Len(rows[p]) /\ p \in Group(p) /\ Group(p) \in SUBSET Proposal
  BY RowFacts, GroupFacts DEF Revision
<1>4. ASSUME NEW p \in Proposal, NEW shown \in 1..Revision(p),
             NEW decision \in {"approve", "reject", "defer"}, GuiDecide(w, p, shown, decision)
      PROVE  SeenOpen(w)'
  <2> DEFINE seen == [Snapshot EXCEPT ![p] = shown]
             step == IF decision = "approve" THEN "preview" ELSE decision
  <2>1. seen \in [Proposal -> Nat] /\ seen[p] = shown
    BY <1>1, <1>3
  <2>2. Begin(w, p, step, seen) /\ step \in {"preview", "reject", "defer"}
    BY <1>4 DEF GuiDecide, BeginDecision
  <2> HIDE DEF seen
  <2>3. /\ work'[w].step = step /\ work'[w].group = Group(p)
        /\ \A q \in Group(p) : work'[w].seen[q] = seen[q] /\ UNCHANGED rows
    BY <1>2, <2>1, <2>2, BeginEffect
  <2>4. /\ rows[p][shown] \in {"PENDING", "DEFERRED", "APPLY_FAILED"}
        /\ decision = "defer" => rows[p][shown] \in {"PENDING", "DEFERRED"}
    <3>1. decision \in Offered(p, rows[p][shown])
      BY <1>4 DEF GuiDecide
    <3>2. CASE rows[p][shown] \in {"PENDING", "DEFERRED"}
      BY <3>2
    <3>3. CASE rows[p][shown] = "APPLY_FAILED"
      <4>1. Offered(p, rows[p][shown]) \subseteq {"reject", "approve"}
        BY <3>3 DEF Offered
      <4> QED BY <3>1, <3>3, <4>1
    <3>4. CASE rows[p][shown] \notin {"PENDING", "DEFERRED", "APPLY_FAILED"}
      <4>1. Offered(p, rows[p][shown]) = {}
        BY <3>4 DEF Offered
      <4> QED BY <3>1, <4>1
    <3> QED BY <3>2, <3>3, <3>4
  <2>5. /\ SeenAs(w, p, {"PENDING", "DEFERRED", "APPLY_FAILED"})'
        /\ decision = "defer" => SeenAs(w, p, {"PENDING", "DEFERRED"})'
    BY <1>3, <2>1, <2>3, <2>4 DEF SeenAs
  <2>6. w \notin Cli
    BY <1>4, GateAssumption DEF GuiDecide
  <2> QED BY <1>3, <2>2, <2>3, <2>5, <2>6 DEF SeenOpen
<1>5. ASSUME NEW p \in Proposal, Sweep(w, p)
      PROVE  SeenOpen(w)'
  <2>1. Begin(w, p, "sweep", Snapshot) /\ \A q \in Group(p) : State(q) = "PENDING"
    BY <1>5 DEF Sweep
  <2>2. /\ work'[w].step = "sweep" /\ work'[w].group = Group(p) /\ UNCHANGED rows
        /\ \A q \in Group(p) : work'[w].seen[q] = Snapshot[q]
    BY <1>1, <1>2, <2>1, BeginEffect
  <2>3. \A q \in Group(p) : SeenAs(w, q, {"PENDING"})'
    <3> SUFFICES ASSUME NEW q \in Group(p)
                 PROVE  SeenAs(w, q, {"PENDING"})'
      OBVIOUS
    <3>1. q \in Proposal
      BY <1>3
    <3>2. work'[w].seen[q] = Len(rows[q]) /\ Len(rows[q]) \in 1..Len(rows[q])
      BY <1>1, <1>3, <2>2, <3>1
    <3>3. rows[q][Len(rows[q])] = "PENDING"
      BY <2>1 DEF State
    <3> QED BY <2>2, <3>2, <3>3 DEF SeenAs
  <2>4. w \notin Cli
    BY <1>5, GateAssumption DEF Sweep
  <2> QED BY <2>2, <2>3, <2>4 DEF SeenOpen
<1>6. ASSUME NEW p \in Proposal, AutoProject(w, p)
      PROVE  SeenOpen(w)'
  <2>1. Begin(w, p, "preview", Snapshot) /\ Revision(p) = 1
    BY <1>6 DEF AutoProject, BeginDecision
  <2>2. /\ work'[w].step = "preview" /\ work'[w].group = Group(p) /\ UNCHANGED rows
        /\ \A q \in Group(p) : work'[w].seen[q] = Snapshot[q]
    BY <1>1, <1>2, <2>1, BeginEffect
  <2>3. SeenAs(w, p, {"PENDING", "DEFERRED", "APPLY_FAILED"})'
    <3>1. work'[w].seen[p] = 1 /\ 1 \in 1..Len(rows[p])
      BY <1>1, <1>3, <2>1, <2>2
    <3>2. rows[p][1] = "PENDING"
      BY DEF SeenInv
    <3> QED BY <2>2, <3>1, <3>2 DEF SeenAs
  <2>4. w \notin Cli
    BY <1>6, GateAssumption DEF AutoProject
  <2> QED BY <1>3, <2>2, <2>3, <2>4 DEF SeenOpen
<1>7. ASSUME Abandon(w)
      PROVE  SeenOpen(w)'
  BY <1>7, DropEffect, IdleTyped, RestIsOpen DEF Abandon
<1>8. ASSUME NEW p \in Proposal, Check(w, p)
      PROVE  SeenOpen(w)'
  <2>1. w \in Cli /\ Begin(w, p, "check", Snapshot)
    BY <1>8 DEF Check
  <2>2. work'[w].step = "check"
    BY <1>1, <1>2, <2>1, BeginEffect
  <2> QED BY <2>1, <2>2 DEF SeenOpen
<1>9. ASSUME NEW p \in Proposal, NEW decision \in {"approve", "reject"}, CliDecide(w, p, decision)
      PROVE  SeenOpen(w)'
  <2> DEFINE step == IF decision = "approve" THEN "preview" ELSE decision
  <2>1. w \in Cli
    BY <1>9 DEF CliDecide, SeenInv, SeenOpen
  <2>2. Begin(w, p, step, Snapshot) /\ step \in {"preview", "reject"}
    BY <1>9 DEF CliDecide, BeginDecision
  <2>3. work'[w].step = step
    BY <1>1, <1>2, <2>2, BeginEffect
  <2> QED BY <2>1, <2>2, <2>3 DEF SeenOpen
<1> QED BY <1>4, <1>5, <1>6, <1>7, <1>8, <1>9 DEF Ask

LEMMA ValidateSees ==
    ASSUME TypeInv, SeenInv, NEW w \in Worker, NEW valid \in BOOLEAN, Validate(w, valid)
    PROVE  SeenOpen(w)'
<1>1. SeenOpen(w) /\ work[w].group \in SUBSET Proposal
  BY GateTyped DEF SeenInv, WorkRecord
<1>2. CASE work'[w] = Idle
  BY <1>2, IdleTyped, RestIsOpen
<1>3. CASE /\ work'[w].group = work[w].group /\ work'[w].seen = work[w].seen
           /\ \/ work[w].step = "preview" /\ work'[w].step \in {"claim", "refuse"}
              \/ work[w].step = "sweep" /\ work'[w].step = "sweepRefuse"
              \/ work[w].step = "check" /\ work'[w].step \in {"ask", "checkRefuse"}
  <2>1. Grown
    BY ValidateEffect, GrownByStep
  <2>2. \A p \in work[w].group : \A states : SeenAs(w, p, states) => SeenAs(w, p, states)'
    BY <1>1, <1>3, <2>1, SeenAsKept
  <2> QED BY <1>1, <1>3, <2>2 DEF SeenOpen
<1> QED BY <1>2, <1>3, ValidateEffect

----------------------------------------------------------------------------
(* How each kind of step keeps the states of the groups. *)

LEMMA UniformMoved ==
    ASSUME TypeInv, UniformInv, NEW w \in Worker, work[w].step # "idle", NEW target,
           RowsMove(work[w].group, target)
    PROVE  UniformInv'
<1>1. \A p \in work[w].group : Group(p) = work[w].group
  BY WorkGroup
<1>2. \A p \in Proposal : State(p)' = IF p \in work[w].group THEN target ELSE State(p)
  BY MoveStates
<1> SUFFICES ASSUME NEW p \in Proposal, NEW q \in Proposal, q \in Group(p)
             PROVE  State(p)' = State(q)' \/ State(p)' = "EXPIRED" \/ State(q)' = "EXPIRED"
  BY DEF UniformInv, Group
<1>3. p \in work[w].group <=> q \in work[w].group
  BY <1>1, GroupFacts
<1> QED BY <1>2, <1>3 DEF UniformInv

LEMMA UniformExpired ==
    ASSUME TypeInv, UniformInv, NEW group, RowsMove(group, "EXPIRED")
    PROVE  UniformInv'
BY MoveStates DEF UniformInv, Group

\* A failed proposal is at most rejected.
LEMMA FailedMoved ==
    ASSUME TypeInv, FailedInv, NEW group, NEW target, RowsMove(group, target),
           \/ target \in {"APPLY_FAILED", "REJECTED", "SYSTEM_REJECTED"}
           \/ \A p \in group \ Graph : State(p) \notin {"APPLY_FAILED", "REJECTED", "SYSTEM_REJECTED"}
    PROVE  FailedInv'
<1> SUFFICES ASSUME NEW p \in Proposal \ Graph, NEW n \in 1..Len(rows'[p]),
                    rows'[p][n] = "APPLY_FAILED"
             PROVE  State(p)' \in {"APPLY_FAILED", "REJECTED", "SYSTEM_REJECTED"}
  BY DEF FailedInv
<1>1. State(p)' = IF p \in group THEN target ELSE State(p)
  BY MoveStates
<1>2. CASE p \in group
  <2>1. CASE target \in {"APPLY_FAILED", "REJECTED", "SYSTEM_REJECTED"}
    BY <1>1, <1>2, <2>1
  <2>2. CASE target \notin {"APPLY_FAILED", "REJECTED", "SYSTEM_REJECTED"}
    <3>1. State(p) \notin {"APPLY_FAILED", "REJECTED", "SYSTEM_REJECTED"}
      BY <1>2, <2>2
    <3>2. \A m \in 1..Len(rows[p]) : rows[p][m] # "APPLY_FAILED"
      BY <3>1 DEF FailedInv
    <3>3. n \in 1..Len(rows[p]) \/ rows'[p][n] = target
      BY DEF RowsMove
    <3>4. n \in 1..Len(rows[p]) => rows'[p][n] = rows[p][n]
      BY DEF RowsMove
    <3> QED BY <2>2, <3>2, <3>3, <3>4
  <2> QED BY <2>1, <2>2
<1>3. CASE p \notin group
  <2>1. rows'[p] = rows[p]
    BY <1>3 DEF RowsMove
  <2> QED BY <1>1, <1>3, <2>1 DEF FailedInv
<1> QED BY <1>2, <1>3

\* A step that starts no approval, ends none and leaves claimed, taken and applied rows alone.
LEMMA ClaimsKept ==
    ASSUME TypeInv, ClaimInv, OrphanInv, UNCHANGED orphaned, work' \in [Worker -> WorkRecord],
           \A v \in Worker : work'[v].step = "apply" =>
               work[v].step = "apply" /\ work'[v].group = work[v].group,
           \A p \in Proposal : State(p) \in {"APPLYING", "APPLIED"} \cup Taken => State(p)' = State(p)
    PROVE  ClaimInv' /\ OrphanInv'
<1>1. \A v \in Worker : work[v].group \in SUBSET Proposal
  BY GateTyped DEF WorkRecord
<1>2. ASSUME NEW w \in Worker, work'[w].step = "apply"
      PROVE  /\ \/ \A q \in work'[w].group : State(q)' = "APPLYING"
                \/ \A q \in work'[w].group : State(q)' = "APPLIED"
                \/ \A q \in work'[w].group : State(q)' \in Taken
             /\ \A v \in Worker \ {w} : work'[v].step = "apply" /\ work'[v].group = work'[w].group =>
                    \A q \in work'[w].group : State(q)' = "APPLIED"
  <2>1. work[w].step = "apply" /\ work'[w].group = work[w].group
    BY <1>2
  <2>2. \/ \A q \in work[w].group : State(q) = "APPLYING"
        \/ \A q \in work[w].group : State(q) = "APPLIED"
        \/ \A q \in work[w].group : State(q) \in Taken
    BY <2>1 DEF ClaimInv
  <2>3. ASSUME NEW v \in Worker \ {w}, work'[v].step = "apply", work'[v].group = work'[w].group
        PROVE  \A q \in work[w].group : State(q) = "APPLIED"
    BY <2>1, <2>3 DEF ClaimInv
  <2> QED BY <1>1, <2>1, <2>2, <2>3
<1>3. ClaimInv'
  BY <1>2 DEF ClaimInv
<1>4. OrphanInv'
  <2> SUFFICES ASSUME NEW p \in orphaned
               PROVE  \/ State(p)' = "APPLIED"
                      \/ /\ State(p)' \in {"APPLYING"} \cup Taken
                         /\ \A w \in Worker : ~Applying(w, p)'
    BY DEF OrphanInv
  <2>1. p \in Proposal
    BY GateTyped
  <2>2. \A w \in Worker : ~Applying(w, p) => ~Applying(w, p)'
    BY DEF Applying
  <2> QED BY <2>1, <2>2 DEF OrphanInv
<1> QED BY <1>3, <1>4

LEMMA QuietKeepsClaims ==
    ASSUME TypeInv, ClaimInv, OrphanInv, UNCHANGED <<rows, orphaned>>, NEW w \in Worker, OnlyWork(w),
           work'[w].step # "apply" \/ (work[w].step = "apply" /\ work'[w].group = work[w].group)
    PROVE  ClaimInv' /\ OrphanInv'
BY SameStates, ClaimsKept DEF OnlyWork

\* A rejection takes the rows of the one approval that has claimed them, or open ones.
LEMMA TakeKeepsClaims ==
    ASSUME TypeInv, ClaimInv, OrphanInv, NEW w \in Worker, NEW target \in Taken,
           OnlyWork(w), work[w].step # "idle", work'[w] = Idle, UNCHANGED orphaned,
           RowsMove(work[w].group, target),
           \A q \in work[w].group : State(q) = target \/ State(q) \notin Terminal
    PROVE  ClaimInv' /\ OrphanInv'
<1> DEFINE G == work[w].group
<1>1. \A v \in Worker : v # w => work'[v] = work[v]
  BY DEF OnlyWork
<1>2. \A p \in Proposal : State(p)' = IF p \in G THEN target ELSE State(p)
  BY MoveStates
<1>3. work'[w].step # "apply"
  BY IdleTyped
<1>4. G # {} /\ \A q \in G : Group(q) = G
  BY WorkGroup
<1>5. \A q \in G : State(q) # "APPLIED"
  BY DEF Taken, Terminal
<1>6. ASSUME NEW v \in Worker, work'[v].step = "apply"
      PROVE  /\ v # w /\ work'[v] = work[v] /\ work[v].step = "apply"
             /\ \A q \in work[v].group : q \in Proposal
             /\ \/ work[v].group = G
                \/ \A q \in work[v].group : State(q)' = State(q)
  <2>1. v # w /\ work'[v] = work[v] /\ work[v].step = "apply"
    BY <1>1, <1>3, <1>6
  <2>2. work[v].group \in SUBSET Proposal /\ \A q \in work[v].group : Group(q) = work[v].group
    BY <2>1, WorkGroup
  <2> QED BY <1>2, <1>4, <2>1, <2>2
<1>7. ClaimInv'
  <2> SUFFICES ASSUME NEW v \in Worker, work'[v].step = "apply"
               PROVE  /\ \/ \A q \in work'[v].group : State(q)' = "APPLYING"
                         \/ \A q \in work'[v].group : State(q)' = "APPLIED"
                         \/ \A q \in work'[v].group : State(q)' \in Taken
                      /\ \A u \in Worker \ {v} :
                             work'[u].step = "apply" /\ work'[u].group = work'[v].group =>
                                 \A q \in work'[v].group : State(q)' = "APPLIED"
    BY DEF ClaimInv
  <2>1. ASSUME NEW u \in Worker \ {v}, work'[u].step = "apply", work'[u].group = work'[v].group
        PROVE  \A q \in work[v].group : State(q) = "APPLIED"
    BY <1>6, <2>1 DEF ClaimInv
  <2>2. CASE work[v].group = G
    <3>1. \A q \in work'[v].group : State(q)' \in Taken
      BY <1>2, <1>6, <2>2
    <3>2. \A u \in Worker \ {v} : ~(work'[u].step = "apply" /\ work'[u].group = work'[v].group)
      BY <1>4, <1>5, <2>1, <2>2
    <3> QED BY <3>1, <3>2
  <2>3. CASE work[v].group # G
    <3>1. \A q \in work[v].group : State(q)' = State(q)
      BY <1>6, <2>3
    <3>2. \/ \A q \in work[v].group : State(q) = "APPLYING"
          \/ \A q \in work[v].group : State(q) = "APPLIED"
          \/ \A q \in work[v].group : State(q) \in Taken
      BY <1>6 DEF ClaimInv
    <3> QED BY <1>6, <2>1, <3>1, <3>2
  <2> QED BY <2>2, <2>3
<1>8. OrphanInv'
  <2> SUFFICES ASSUME NEW p \in orphaned
               PROVE  \/ State(p)' = "APPLIED"
                      \/ /\ State(p)' \in {"APPLYING"} \cup Taken
                         /\ \A v \in Worker : ~Applying(v, p)'
    BY DEF OrphanInv
  <2>1. p \in Proposal
    BY GateTyped
  <2>2. \A v \in Worker : Applying(v, p)' => Applying(v, p)
    BY <1>6 DEF Applying
  <2> QED BY <1>2, <1>5, <2>1, <2>2 DEF OrphanInv
<1> QED BY <1>7, <1>8

\* A claim takes rows that nobody has claimed, or finds them APPLIED.
LEMMA ClaimKeepsClaims ==
    ASSUME TypeInv, ClaimInv, OrphanInv, NEW w \in Worker, Claim(w)
    PROVE  ClaimInv' /\ OrphanInv'
<1> DEFINE G == work[w].group
<1>1. OnlyWork(w) /\ work[w].step = "claim" /\ UNCHANGED orphaned
  BY ClaimEffect
<1>2. \A v \in Worker : v # w => work'[v] = work[v]
  BY <1>1 DEF OnlyWork
<1>3. CASE rows' = rows /\ work'[w] = Idle
  BY <1>1, <1>3, IdleTyped, QuietKeepsClaims
<1>4. ASSUME NEW state \in {"APPLYING", "APPLIED"},
             work'[w].step = "apply", work'[w].group = G,
             \A p \in Proposal : State(p)' = IF p \in G THEN state ELSE State(p),
             \/ \A q \in G : Claimable(q)
             \/ state = "APPLIED" /\ \A q \in G : State(q) = "APPLIED"
      PROVE  ClaimInv' /\ OrphanInv'
  <2>1. /\ \A q \in G : Group(q) = G
        /\ \A v \in Worker : work[v].step = "apply" =>
               work[v].group \in SUBSET Proposal /\ \A q \in work[v].group : Group(q) = work[v].group
    BY <1>1, WorkGroup
  <2>2. \A q \in G : Claimable(q) => State(q) \notin {"APPLYING", "APPLIED"} \cup Taken
    BY DEF Claimable, Taken
  <2>3. G \in SUBSET Proposal /\ G # {}
    BY <1>1, WorkGroup
  <2>4. ASSUME NEW v \in Worker, v # w, work[v].step = "apply"
        PROVE  work[v].group = G \/ \A q \in work[v].group : State(q)' = State(q)
    BY <1>4, <2>1, <2>4
  <2>5. ASSUME NEW v \in Worker, v # w, work[v].step = "apply", work[v].group = G
        PROVE  state = "APPLIED" /\ \A q \in G : State(q) = "APPLIED"
    <3>1. \/ \A q \in G : State(q) = "APPLYING"
          \/ \A q \in G : State(q) = "APPLIED"
          \/ \A q \in G : State(q) \in Taken
      BY <2>5 DEF ClaimInv
    <3>2. "APPLIED" \notin Taken
      BY DEF Taken
    <3> QED BY <1>4, <2>2, <2>3, <3>1, <3>2
  <2>6. ASSUME NEW v \in Worker, work'[v].step = "apply"
        PROVE  /\ \/ \A q \in work'[v].group : State(q)' = "APPLYING"
                  \/ \A q \in work'[v].group : State(q)' = "APPLIED"
                  \/ \A q \in work'[v].group : State(q)' \in Taken
               /\ \A u \in Worker \ {v} : work'[u].step = "apply" /\ work'[u].group = work'[v].group =>
                      \A q \in work'[v].group : State(q)' = "APPLIED"
    <3>1. CASE v = w
      <4>1. \A q \in G : State(q)' = state
        BY <1>4, <2>3
      <4>2. ASSUME NEW u \in Worker \ {v}, work'[u].step = "apply", work'[u].group = work'[v].group
            PROVE  state = "APPLIED"
        BY <1>2, <1>4, <2>5, <3>1, <4>2
      <4> QED BY <1>4, <3>1, <4>1, <4>2
    <3>2. CASE v # w
      <4>1. work[v].step = "apply" /\ work'[v] = work[v]
        BY <1>2, <2>6, <3>2
      <4>2. CASE work[v].group = G
        <5>1. \A q \in G : State(q)' = "APPLIED"
          BY <1>4, <2>3, <2>5, <3>2, <4>1, <4>2
        <5> QED BY <4>1, <4>2, <5>1
      <4>3. CASE work[v].group # G
        <5>1. \A q \in work[v].group : State(q)' = State(q)
          BY <2>4, <3>2, <4>1, <4>3
        <5>2. ASSUME NEW u \in Worker \ {v}, work'[u].step = "apply", work'[u].group = work'[v].group
              PROVE  \A q \in work[v].group : State(q) = "APPLIED"
          <6>1. u # w
            BY <1>4, <4>1, <4>3, <5>2
          <6> QED BY <1>2, <4>1, <5>2, <6>1 DEF ClaimInv
        <5> QED BY <4>1, <5>1, <5>2 DEF ClaimInv
      <4> QED BY <4>2, <4>3
    <3> QED BY <3>1, <3>2
  <2>7. ClaimInv'
    BY <2>6 DEF ClaimInv
  <2>8. OrphanInv'
    <3> SUFFICES ASSUME NEW p \in orphaned
                 PROVE  \/ State(p)' = "APPLIED"
                        \/ /\ State(p)' \in {"APPLYING"} \cup Taken
                           /\ \A v \in Worker : ~Applying(v, p)'
      BY <1>1 DEF OrphanInv
    <3>1. p \in Proposal /\ State(p) \in {"APPLYING", "APPLIED"} \cup Taken
      BY GateTyped DEF OrphanInv
    <3>2. CASE p \in G
      BY <1>4, <2>2, <3>1, <3>2
    <3>3. CASE p \notin G
      <4>1. \A v \in Worker : Applying(v, p)' => Applying(v, p)
        BY <1>2, <1>4, <3>3 DEF Applying
      <4> QED BY <1>4, <3>1, <3>3, <4>1 DEF OrphanInv
    <3> QED BY <3>2, <3>3
  <2> QED BY <2>7, <2>8
<1>5. CASE /\ work'[w].step = "apply" /\ work'[w].group = G
           /\ rows' = rows /\ \A q \in G : State(q) = "APPLIED"
  <2>1. \A p \in Proposal : State(p)' = IF p \in G THEN "APPLIED" ELSE State(p)
    BY <1>5, SameStates
  <2> QED BY <1>4, <1>5, <2>1
<1>6. CASE /\ work'[w].step = "apply" /\ work'[w].group = G
           /\ RowsMove(G, "APPLYING") /\ \A q \in G : Claimable(q)
  <2>1. \A p \in Proposal : State(p)' = IF p \in G THEN "APPLYING" ELSE State(p)
    BY <1>6, MoveStates
  <2> QED BY <1>4, <1>6, <2>1
<1> QED BY <1>3, <1>5, <1>6, ClaimEffect

\* The outcome is recorded by the only worker at these rows.
LEMMA FinalizeKeepsClaims ==
    ASSUME TypeInv, ClaimInv, OrphanInv, NEW w \in Worker, NEW target \in {"APPLIED", "APPLY_FAILED"},
           OnlyWork(w), work[w].step = "apply", work'[w] = Idle, UNCHANGED orphaned,
           RowsMove(work[w].group, target), \A q \in work[w].group : State(q) = "APPLYING"
    PROVE  ClaimInv' /\ OrphanInv'
<1> DEFINE G == work[w].group
<1>1. \A v \in Worker : v # w => work'[v] = work[v]
  BY DEF OnlyWork
<1>2. \A p \in Proposal : State(p)' = IF p \in G THEN target ELSE State(p)
  BY MoveStates
<1>3. work'[w].step # "apply"
  BY IdleTyped
<1>4. G # {} /\ \A q \in G : Group(q) = G
  BY WorkGroup
<1>5. ASSUME NEW v \in Worker, work'[v].step = "apply"
      PROVE  /\ v # w /\ work'[v] = work[v] /\ work[v].step = "apply"
             /\ \A q \in work[v].group : q \in Proposal /\ q \notin G /\ State(q)' = State(q)
  <2>1. v # w /\ work'[v] = work[v] /\ work[v].step = "apply"
    BY <1>1, <1>3, <1>5
  <2>2. work[v].group \in SUBSET Proposal /\ \A q \in work[v].group : Group(q) = work[v].group
    BY <2>1, WorkGroup
  <2>3. work[v].group # G
    BY <1>4, <2>1 DEF ClaimInv
  <2> QED BY <1>2, <1>4, <2>1, <2>2, <2>3
<1>6. ClaimInv'
  <2> SUFFICES ASSUME NEW v \in Worker, work'[v].step = "apply"
               PROVE  /\ \/ \A q \in work'[v].group : State(q)' = "APPLYING"
                         \/ \A q \in work'[v].group : State(q)' = "APPLIED"
                         \/ \A q \in work'[v].group : State(q)' \in Taken
                      /\ \A u \in Worker \ {v} :
                             work'[u].step = "apply" /\ work'[u].group = work'[v].group =>
                                 \A q \in work'[v].group : State(q)' = "APPLIED"
    BY DEF ClaimInv
  <2>1. \/ \A q \in work[v].group : State(q) = "APPLYING"
        \/ \A q \in work[v].group : State(q) = "APPLIED"
        \/ \A q \in work[v].group : State(q) \in Taken
    BY <1>5 DEF ClaimInv
  <2>2. ASSUME NEW u \in Worker \ {v}, work'[u].step = "apply", work'[u].group = work'[v].group
        PROVE  \A q \in work[v].group : State(q) = "APPLIED"
    BY <1>5, <2>2 DEF ClaimInv
  <2> QED BY <1>5, <2>1, <2>2
<1>7. OrphanInv'
  <2> SUFFICES ASSUME NEW p \in orphaned
               PROVE  \/ State(p)' = "APPLIED"
                      \/ /\ State(p)' \in {"APPLYING"} \cup Taken
                           /\ \A v \in Worker : ~Applying(v, p)'
    BY DEF OrphanInv
  <2>1. p \in Proposal
    BY GateTyped
  <2>2. p \notin G
    BY DEF OrphanInv, Applying
  <2>3. \A v \in Worker : Applying(v, p)' => Applying(v, p)
    BY <1>5 DEF Applying
  <2> QED BY <1>2, <2>1, <2>2, <2>3 DEF OrphanInv
<1> QED BY <1>6, <1>7

\* The rows of a claimer that dies stay APPLYING, with nobody at them.
LEMMA CrashKeepsClaims ==
    ASSUME TypeInv, ClaimInv, OrphanInv, NEW w \in Worker, Crash(w)
    PROVE  ClaimInv' /\ OrphanInv'
<1>1. /\ OnlyWork(w) /\ work'[w] = Idle /\ UNCHANGED rows
      /\ orphaned' = orphaned \cup {p \in Proposal : Applying(w, p)}
  BY CrashEffect
<1>2. work'[w].step # "apply" /\ \A v \in Worker : v # w => work'[v] = work[v]
  BY <1>1, IdleTyped DEF OnlyWork
<1>3. \A p \in Proposal : State(p)' = State(p)
  BY <1>1, SameStates
<1>4. \A v \in Worker : work[v].group \in SUBSET Proposal
  BY GateTyped DEF WorkRecord
<1>5. ClaimInv'
  <2> SUFFICES ASSUME NEW v \in Worker, work'[v].step = "apply"
               PROVE  /\ \/ \A q \in work'[v].group : State(q)' = "APPLYING"
                         \/ \A q \in work'[v].group : State(q)' = "APPLIED"
                         \/ \A q \in work'[v].group : State(q)' \in Taken
                      /\ \A u \in Worker \ {v} :
                             work'[u].step = "apply" /\ work'[u].group = work'[v].group =>
                                 \A q \in work'[v].group : State(q)' = "APPLIED"
    BY DEF ClaimInv
  <2>1. v # w /\ work'[v] = work[v] /\ \A q \in work[v].group : State(q)' = State(q)
    BY <1>2, <1>3, <1>4
  <2>2. ASSUME NEW u \in Worker \ {v}, work'[u].step = "apply", work'[u].group = work'[v].group
        PROVE  \A q \in work[v].group : State(q) = "APPLIED"
    <3>1. work'[u] = work[u]
      BY <1>2, <2>2
    <3> QED BY <2>1, <2>2, <3>1 DEF ClaimInv
  <2> QED BY <2>1, <2>2 DEF ClaimInv
<1>6. OrphanInv'
  <2> SUFFICES ASSUME NEW p \in orphaned'
               PROVE  \/ State(p)' = "APPLIED"
                      \/ /\ State(p)' \in {"APPLYING"} \cup Taken
                           /\ \A v \in Worker : ~Applying(v, p)'
    BY DEF OrphanInv
  <2>1. p \in Proposal
    BY <1>1, GateTyped
  <2>2. \A v \in Worker : Applying(v, p)' => v # w /\ Applying(v, p)
    BY <1>2 DEF Applying
  <2>3. CASE p \in orphaned
    BY <1>3, <2>1, <2>2, <2>3 DEF OrphanInv
  <2>4. CASE Applying(w, p)
    <3>1. work[w].step = "apply" /\ p \in work[w].group
      BY <2>4 DEF Applying
    <3>2. State(p) \in {"APPLYING", "APPLIED"} \cup Taken
      BY <3>1 DEF ClaimInv
    <3>3. ASSUME State(p) # "APPLIED", NEW v \in Worker, Applying(v, p)'
          PROVE  FALSE
      <4>1. v # w /\ work[v].step = "apply" /\ p \in work[v].group
        BY <2>2, <3>3 DEF Applying
      <4>2. work[v].group = work[w].group
        BY <3>1, <4>1, WorkGroup
      <4> QED BY <3>1, <3>3, <4>1, <4>2 DEF ClaimInv
    <3> QED BY <1>3, <2>1, <3>2, <3>3
  <2> QED BY <1>1, <2>3, <2>4
<1> QED BY <1>5, <1>6

----------------------------------------------------------------------------
(* The invariant is inductive. *)

LEMMA RowsRest ==
    ASSUME UniformInv, FailedInv, UNCHANGED rows
    PROVE  UniformInv' /\ FailedInv'
BY DEF UniformInv, FailedInv, State, Group

\* A step of a worker that leaves the rows alone and takes nobody into an approval.
LEMMA QuietStep ==
    ASSUME GateInv, NEW w \in Worker, OnlyWork(w), UNCHANGED <<rows, orphaned>>, SeenOpen(w)',
           work'[w].step # "apply" \/ (work[w].step = "apply" /\ work'[w].group = work[w].group)
    PROVE  SeenInv' /\ UniformInv' /\ ClaimInv' /\ OrphanInv' /\ FailedInv'
<1>1. SeenInv'
  BY GrownByStep, SeenStep DEF GateInv
<1> QED BY <1>1, RowsRest, QuietKeepsClaims DEF GateInv

LEMMA ResolveStep ==
    ASSUME GateInv, NEW w \in Worker, Resolve(w)
    PROVE  SeenInv' /\ UniformInv' /\ ClaimInv' /\ OrphanInv' /\ FailedInv'
<1> DEFINE target == TargetState(work[w].step)
           G == work[w].group
<1>1. /\ OnlyWork(w) /\ work'[w] = Idle /\ UNCHANGED orphaned
      /\ work[w].step \in {"reject", "defer", "refuse", "sweepRefuse", "checkRefuse"}
      /\ target \in {"REJECTED", "DEFERRED", "SYSTEM_REJECTED"}
      /\ \/ rows' = rows
         \/ /\ RowsMove(G, target)
            /\ \A q \in G : State(q) = target \/ State(q) \notin Terminal
  BY ResolveEffect DEF GateInv
<1>2. work'[w].step = "idle" /\ SeenOpen(w)'
  BY <1>1, IdleTyped, RestIsOpen
<1>3. CASE rows' = rows
  BY <1>1, <1>2, <1>3, QuietStep
<1>4. CASE rows' # rows /\ w \in Cli
  <2>1. RowsMove(G, target) /\ \A q \in G : State(q) = target \/ State(q) \notin Terminal
    BY <1>1, <1>4
  <2>2. target \in Taken
    <3>1. work[w].step # "defer"
      BY <1>4 DEF GateInv, SeenInv, SeenOpen
    <3> QED BY <1>1, <3>1 DEF TargetState, Taken
  <2>3. SeenInv'
    BY <1>1, <1>2, <2>1, GrownByStep, SeenStep DEF GateInv
  <2>4. UniformInv'
    BY <1>1, <2>1, UniformMoved DEF GateInv
  <2>5. FailedInv'
    BY <2>1, <2>2, FailedMoved DEF GateInv, Taken
  <2>6. ClaimInv' /\ OrphanInv'
    BY <1>1, <2>1, <2>2, TakeKeepsClaims DEF GateInv
  <2> QED BY <2>3, <2>4, <2>5, <2>6
<1>5. CASE rows' # rows /\ w \notin Cli
  <2>1. RowsMove(G, target)
    BY <1>1, <1>5
  <2>2. PICK state \in {"PENDING", "DEFERRED", "APPLY_FAILED"} :
            /\ \A q \in G : State(q) = state
            /\ work[w].step = "defer" => state # "APPLY_FAILED"
    BY <1>5, ResolveMoves DEF GateInv
  <2>3. SeenInv'
    BY <1>1, <1>2, <2>1, GrownByStep, SeenStep DEF GateInv
  <2>4. UniformInv'
    BY <1>1, <2>1, UniformMoved DEF GateInv
  <2>5. FailedInv'
    <3>1. target = "DEFERRED" => work[w].step = "defer"
      BY DEF TargetState
    <3> QED BY <1>1, <2>1, <2>2, <3>1, FailedMoved DEF GateInv
  <2>6. ClaimInv' /\ OrphanInv'
    <3>1. \A p \in Proposal : State(p) \in {"APPLYING", "APPLIED"} \cup Taken => State(p)' = State(p)
      BY <2>1, <2>2, MoveStates DEF Taken
    <3>2. \A v \in Worker : work'[v].step = "apply" =>
              work[v].step = "apply" /\ work'[v].group = work[v].group
      BY <1>1, <1>2 DEF OnlyWork
    <3>3. work' \in [Worker -> WorkRecord]
      BY <1>1 DEF OnlyWork
    <3> QED BY <1>1, <3>1, <3>2, <3>3, ClaimsKept DEF GateInv
  <2> QED BY <2>3, <2>4, <2>5, <2>6
<1> QED BY <1>3, <1>4, <1>5

LEMMA ClaimStep ==
    ASSUME GateInv, NEW w \in Worker, Claim(w)
    PROVE  SeenInv' /\ UniformInv' /\ ClaimInv' /\ OrphanInv' /\ FailedInv'
<1> DEFINE G == work[w].group
<1>1. /\ OnlyWork(w) /\ work[w].step = "claim" /\ work'[w].step \in {"idle", "apply"}
      /\ rows' = rows \/ (RowsMove(G, "APPLYING") /\ \A q \in G : Claimable(q))
  BY ClaimEffect, IdleTyped DEF GateInv
<1>2. SeenInv'
  BY <1>1, GrownByStep, RestIsOpen, SeenStep DEF GateInv
<1>3. UniformInv'
  BY <1>1, UniformMoved, RowsRest DEF GateInv
<1>4. FailedInv'
  <2>1. CASE rows' = rows
    BY <2>1, RowsRest DEF GateInv
  <2>2. CASE RowsMove(G, "APPLYING") /\ \A q \in G : Claimable(q)
    <3>1. \A p \in G \ Graph : State(p) \notin {"APPLY_FAILED", "REJECTED", "SYSTEM_REJECTED"}
      BY <2>2 DEF Claimable
    <3> QED BY <2>2, <3>1, FailedMoved DEF GateInv
  <2> QED BY <1>1, <2>1, <2>2
<1>5. ClaimInv' /\ OrphanInv'
  BY ClaimKeepsClaims DEF GateInv
<1> QED BY <1>2, <1>3, <1>4, <1>5

LEMMA FinalizeStep ==
    ASSUME GateInv, NEW w \in Worker, ApplyFails(w) \/ ApplySucceeds(w)
    PROVE  SeenInv' /\ UniformInv' /\ ClaimInv' /\ OrphanInv' /\ FailedInv'
<1> DEFINE G == work[w].group
<1>1. PICK target \in {"APPLIED", "APPLY_FAILED"} :
          /\ OnlyWork(w) /\ work[w].step = "apply" /\ work'[w] = Idle /\ UNCHANGED orphaned
          /\ rows' = rows \/ (RowsMove(G, target) /\ \A q \in G : State(q) \in {"APPLYING", target})
  BY FinalizeEffect DEF GateInv
<1>2. work'[w].step = "idle" /\ SeenOpen(w)'
  BY <1>1, IdleTyped, RestIsOpen
<1>3. CASE rows' = rows
  BY <1>1, <1>2, <1>3, QuietStep
<1>4. CASE rows' # rows
  <2>1. RowsMove(G, target) /\ \A q \in G : State(q) = "APPLYING"
    BY <1>1, <1>4, FinalizeMoves DEF GateInv
  <2>2. SeenInv'
    BY <1>1, <1>2, <2>1, GrownByStep, SeenStep DEF GateInv
  <2>3. UniformInv'
    BY <1>1, <2>1, UniformMoved DEF GateInv
  <2>4. FailedInv'
    BY <2>1, FailedMoved DEF GateInv
  <2>5. ClaimInv' /\ OrphanInv'
    BY <1>1, <2>1, FinalizeKeepsClaims DEF GateInv
  <2> QED BY <2>2, <2>3, <2>4, <2>5
<1> QED BY <1>3, <1>4

LEMMA ExpireStep ==
    ASSUME GateInv, ExpireStale
    PROVE  SeenInv' /\ UniformInv' /\ ClaimInv' /\ OrphanInv' /\ FailedInv'
<1> DEFINE stale == {p \in Old : Open(p)}
<1>1. UNCHANGED <<work, orphaned>> /\ RowsMove(stale, "EXPIRED") /\ work \in [Worker -> WorkRecord]
  BY ExpireEffect, GateTyped DEF GateInv
<1>2. SeenInv'
  <2>1. Grown
    BY <1>1, GrownByStep DEF GateInv
  <2>2. ASSUME NEW w \in Worker
        PROVE  SeenOpen(w)'
    <3>1. SeenOpen(w) /\ work[w].group \in SUBSET Proposal
      BY <1>1 DEF GateInv, SeenInv, WorkRecord
    <3>2. \A p \in work[w].group : \A states : SeenAs(w, p, states) => SeenAs(w, p, states)'
      BY <1>1, <2>1, <3>1, SeenAsKept DEF GateInv
    <3> QED BY <1>1, <3>1, <3>2 DEF SeenOpen
  <2>3. ASSUME NEW p \in Proposal
        PROVE  rows'[p][1] = "PENDING"
    <3>1. 1 \in 1..Len(rows[p])
      BY RowFacts DEF GateInv
    <3> QED BY <2>1, <3>1 DEF GateInv, SeenInv, Grown
  <2> QED BY <2>2, <2>3 DEF SeenInv
<1>3. UniformInv'
  BY <1>1, UniformExpired DEF GateInv
<1>4. FailedInv'
  <2>1. \A p \in stale \ Graph : State(p) \notin {"APPLY_FAILED", "REJECTED", "SYSTEM_REJECTED"}
    BY DEF Open
  <2> QED BY <1>1, <2>1, FailedMoved DEF GateInv
<1>5. ClaimInv' /\ OrphanInv'
  <2>1. \A p \in stale : State(p) \notin {"APPLYING", "APPLIED"} \cup Taken
    BY DEF Open, Taken
  <2>2. \A p \in Proposal : State(p) \in {"APPLYING", "APPLIED"} \cup Taken => State(p)' = State(p)
    BY <1>1, <2>1, MoveStates
  <2>3. work' \in [Worker -> WorkRecord] /\ \A v \in Worker : work'[v].step = "apply" =>
            work[v].step = "apply" /\ work'[v].group = work[v].group
    BY <1>1
  <2> QED BY <1>1, <2>2, <2>3, ClaimsKept DEF GateInv
<1> QED BY <1>2, <1>3, <1>4, <1>5

----------------------------------------------------------------------------
(* An approval starts on rows that have not failed. *)

\* No approval starts, and what moves has not failed.
LEMMA FreshKept ==
    ASSUME TypeInv, FreshInv,
           \A v \in Worker : work'[v].step = "apply" =>
               work[v].step = "apply" /\ work'[v].group = work[v].group,
           rows' = rows \/ \E group, target : target # "APPLY_FAILED" /\ RowsMove(group, target)
    PROVE  FreshInv'
<1> SUFFICES ASSUME NEW v \in Worker, work'[v].step = "apply",
                    NEW p \in work'[v].group \ Graph, NEW n \in 1..Len(rows'[p])
             PROVE  rows'[p][n] # "APPLY_FAILED"
  BY DEF FreshInv
<1>1. /\ p \in work[v].group \ Graph /\ p \in Proposal
      /\ \A m \in 1..Len(rows[p]) : rows[p][m] # "APPLY_FAILED"
  BY GateTyped DEF FreshInv, WorkRecord
<1>2. CASE rows' = rows
  BY <1>1, <1>2
<1>3. ASSUME NEW group, NEW target, target # "APPLY_FAILED", RowsMove(group, target)
      PROVE  rows'[p][n] # "APPLY_FAILED"
  BY <1>1, <1>3 DEF RowsMove
<1> QED BY <1>2, <1>3

LEMMA FreshStep ==
    ASSUME GateInv, [Next]_vars
    PROVE  FreshInv'
<1> USE DEF GateInv
<1>0. Idle.step # "apply"
  BY IdleTyped
<1>1. CASE UNCHANGED <<rows, work>>
  BY <1>1, FreshKept
<1>2. ASSUME NEW w \in Worker, NEW valid \in BOOLEAN, Validate(w, valid) PROVE FreshInv'
  BY <1>0, <1>2, ValidateEffect, FreshKept DEF OnlyWork
<1>3. ASSUME NEW w \in Worker, Resolve(w) PROVE FreshInv'
  BY <1>0, <1>3, ResolveEffect, FreshKept DEF OnlyWork
<1>4. ASSUME NEW w \in Worker, Claim(w) PROVE FreshInv'
  <2> DEFINE G == work[w].group
  <2>1. OnlyWork(w) /\ work[w].step = "claim"
    BY <1>4, ClaimEffect
  <2>2. CASE work'[w] = Idle
    BY <1>0, <1>4, <2>2, ClaimEffect, FreshKept DEF OnlyWork
  <2>3. CASE /\ work'[w].step = "apply" /\ work'[w].group = G
             /\ \/ rows' = rows /\ \A q \in G : State(q) = "APPLIED"
                \/ RowsMove(G, "APPLYING") /\ \A q \in G : Claimable(q)
    <3>1. G \in SUBSET Proposal
      BY GateTyped DEF WorkRecord
    <3>2. ASSUME NEW p \in G \ Graph, NEW n \in 1..Len(rows[p])
          PROVE  rows[p][n] # "APPLY_FAILED"
      BY <2>3, <3>1, <3>2 DEF FailedInv, Claimable
    <3>3. ASSUME NEW v \in Worker, work'[v].step = "apply", NEW p \in work'[v].group \ Graph
          PROVE  p \in Proposal /\ \A m \in 1..Len(rows[p]) : rows[p][m] # "APPLY_FAILED"
      <4>1. CASE v = w
        BY <2>3, <3>1, <3>2, <3>3, <4>1
      <4>2. CASE v # w
        <5>1. work'[v] = work[v]
          BY <2>1, <4>2 DEF OnlyWork
        <5>2. work[v].group \in SUBSET Proposal
          BY GateTyped DEF WorkRecord
        <5> QED BY <3>3, <5>1, <5>2 DEF FreshInv
      <4> QED BY <4>1, <4>2
    <3>4. ASSUME NEW v \in Worker, work'[v].step = "apply", NEW p \in work'[v].group \ Graph,
                 NEW n \in 1..Len(rows'[p])
          PROVE  rows'[p][n] # "APPLY_FAILED"
      <4>1. p \in Proposal /\ \A m \in 1..Len(rows[p]) : rows[p][m] # "APPLY_FAILED"
        BY <3>3, <3>4
      <4>2. CASE rows' = rows
        BY <4>1, <4>2
      <4>3. CASE RowsMove(G, "APPLYING")
        BY <4>1, <4>3 DEF RowsMove
      <4> QED BY <2>3, <4>2, <4>3
    <3> QED BY <3>4 DEF FreshInv
  <2> QED BY <1>4, <2>2, <2>3, ClaimEffect
<1>5. ASSUME NEW w \in Worker, NEW p \in Proposal, Apply(w, p) PROVE FreshInv'
  BY <1>5, ApplyEffect, FreshKept DEF OnlyWork
<1>6. ASSUME NEW w \in Worker, ApplyFails(w) \/ ApplySucceeds(w) PROVE FreshInv'
  <2> DEFINE G == work[w].group
  <2>1. PICK target \in {"APPLIED", "APPLY_FAILED"} :
            /\ OnlyWork(w) /\ work[w].step = "apply" /\ work'[w] = Idle
            /\ rows' = rows \/ (RowsMove(G, target) /\ \A q \in G : State(q) \in {"APPLYING", target})
    BY <1>6, FinalizeEffect
  <2>2. CASE rows' = rows
    BY <1>0, <2>1, <2>2, FreshKept DEF OnlyWork
  <2>3. CASE rows' # rows
    <3>1. RowsMove(G, target) /\ \A q \in G : State(q) = "APPLYING"
      BY <2>1, <2>3, FinalizeMoves
    <3>2. G # {} /\ \A q \in G : Group(q) = G
      BY <2>1, WorkGroup
    <3>3. ASSUME NEW v \in Worker, work'[v].step = "apply", NEW p \in work'[v].group \ Graph
          PROVE  rows'[p] = rows[p] /\ \A m \in 1..Len(rows[p]) : rows[p][m] # "APPLY_FAILED"
      <4>1. v # w /\ work'[v] = work[v] /\ work[v].step = "apply"
        BY <1>0, <2>1, <3>3 DEF OnlyWork
      <4>2. work[v].group \in SUBSET Proposal /\ \A q \in work[v].group : Group(q) = work[v].group
        BY <4>1, WorkGroup
      <4>3. work[v].group # G
        BY <2>1, <3>1, <3>2, <4>1 DEF ClaimInv
      <4>4. p \notin G
        BY <3>2, <3>3, <4>1, <4>2, <4>3
      <4>5. p \in Proposal
        BY <3>3, <4>1, <4>2
      <4> QED BY <3>1, <3>3, <4>1, <4>4, <4>5 DEF RowsMove, FreshInv
    <3> QED BY <3>3 DEF FreshInv
  <2> QED BY <2>2, <2>3
<1>7. ASSUME NEW w \in Worker, Ask(w) PROVE FreshInv'
  BY <1>0, <1>7, AskEffect, FreshKept DEF OnlyWork
<1>8. ASSUME NEW w \in Worker, Crash(w) PROVE FreshInv'
  BY <1>0, <1>8, CrashEffect, FreshKept DEF OnlyWork
<1>9. CASE ExpireStale
  BY <1>9, ExpireEffect, FreshKept
<1> QED BY <1>1, <1>2, <1>3, <1>4, <1>5, <1>6, <1>7, <1>8, <1>9
        DEF Next, Step, ExternalWrite, vars

LEMMA GateStep ==
    ASSUME GateInv, [Next]_vars
    PROVE  GateInv'
<1>1. TypeInv'
  BY TypeStep DEF GateInv
<1> SUFFICES SeenInv' /\ UniformInv' /\ ClaimInv' /\ OrphanInv' /\ FailedInv'
  BY <1>1, FreshStep DEF GateInv
<1>2. ASSUME NEW w \in Worker, NEW valid \in BOOLEAN, Validate(w, valid)
      PROVE  SeenInv' /\ UniformInv' /\ ClaimInv' /\ OrphanInv' /\ FailedInv'
  <2>1. OnlyWork(w) /\ UNCHANGED <<rows, orphaned>> /\ work'[w].step # "apply"
    BY <1>2, ValidateEffect, IdleTyped DEF GateInv
  <2>2. SeenOpen(w)'
    BY <1>2, ValidateSees DEF GateInv
  <2> QED BY <2>1, <2>2, QuietStep
<1>3. ASSUME NEW w \in Worker, NEW p \in Proposal, Apply(w, p)
      PROVE  SeenInv' /\ UniformInv' /\ ClaimInv' /\ OrphanInv' /\ FailedInv'
  <2>1. /\ OnlyWork(w) /\ UNCHANGED <<rows, orphaned>> /\ work'[w].step = "apply"
        /\ work[w].step = "apply" /\ work'[w].group = work[w].group
    BY <1>3, ApplyEffect DEF GateInv
  <2>2. SeenOpen(w)'
    BY <2>1, RestIsOpen
  <2> QED BY <2>1, <2>2, QuietStep
<1>4. ASSUME NEW w \in Worker, Ask(w)
      PROVE  SeenInv' /\ UniformInv' /\ ClaimInv' /\ OrphanInv' /\ FailedInv'
  <2>1. OnlyWork(w) /\ UNCHANGED <<rows, orphaned>> /\ work'[w].step # "apply"
    BY <1>4, AskEffect, IdleTyped DEF GateInv
  <2>2. SeenOpen(w)'
    BY <1>4, AskSees DEF GateInv
  <2> QED BY <2>1, <2>2, QuietStep
<1>5. ASSUME NEW w \in Worker, Crash(w)
      PROVE  SeenInv' /\ UniformInv' /\ ClaimInv' /\ OrphanInv' /\ FailedInv'
  <2>1. OnlyWork(w) /\ UNCHANGED rows /\ work'[w].step = "idle"
    BY <1>5, CrashEffect, IdleTyped DEF GateInv
  <2>2. SeenInv'
    BY <2>1, GrownByStep, RestIsOpen, SeenStep DEF GateInv
  <2> QED BY <1>5, <2>1, <2>2, RowsRest, CrashKeepsClaims DEF GateInv
<1>6. CASE UNCHANGED <<rows, work, orphaned>>
  BY <1>6 DEF GateInv, SeenInv, SeenOpen, SeenAs, UniformInv, ClaimInv, OrphanInv, FailedInv,
              State, Group, Applying
<1>7. ASSUME ExpireStale
      PROVE  SeenInv' /\ UniformInv' /\ ClaimInv' /\ OrphanInv' /\ FailedInv'
  BY <1>7, ExpireStep
<1> QED BY <1>2, <1>3, <1>4, <1>5, <1>6, <1>7, ResolveStep, ClaimStep, FinalizeStep
        DEF Next, Step, ExternalWrite, vars

LEMMA GateInit ==
    ASSUME Init
    PROVE  GateInv /\ WrittenInv
<1>1. /\ rows = [p \in Proposal |-> <<"PENDING">>] /\ work = [w \in Worker |-> Idle]
      /\ written = [p \in Proposal |-> 0] /\ changed = {} /\ orphaned = {}
  BY DEF Init
<1>2. \A p \in Proposal : rows[p] = <<"PENDING">> /\ State(p) = "PENDING"
  BY <1>1 DEF State
<1>3. <<"PENDING">> \in Seq(RowState) /\ <<"PENDING">> # <<>> /\ <<"PENDING">>[1] = "PENDING"
  BY DEF RowState
<1>4. \A w \in Worker : work[w] = Idle /\ work[w].step = "idle"
  BY <1>1, IdleTyped
<1>5. TypeInv
  <2>1. rows \in [Proposal -> Seq(RowState)] /\ \A p \in Proposal : rows[p] # <<>>
    BY <1>1, <1>3
  <2>2. work \in [Worker -> WorkRecord]
    BY <1>1, IdleTyped
  <2>3. written \in [Proposal -> 0..2]
    BY <1>1
  <2>4. GroupInv
    BY <1>4, IdleTyped DEF GroupInv
  <2> QED BY <1>1, <2>1, <2>2, <2>3, <2>4 DEF TypeInv, TypeOK, WorkRecord
<1>6. SeenInv
  BY <1>2, <1>3, <1>4 DEF SeenInv, SeenOpen
<1>7. UniformInv /\ ClaimInv /\ OrphanInv
  BY <1>1, <1>2, <1>4 DEF UniformInv, ClaimInv, OrphanInv, Group
<1>8. FailedInv
  <2>1. \A p \in Proposal : \A n \in 1..Len(rows[p]) : rows[p][n] # "APPLY_FAILED"
    BY <1>2
  <2> QED BY <2>1 DEF FailedInv
<1>9. WrittenInv /\ FreshInv
  BY <1>2, <1>4 DEF WrittenInv, AppliedWasWritten, FreshInv
<1> QED BY <1>5, <1>6, <1>7, <1>8, <1>9 DEF GateInv

----------------------------------------------------------------------------
(* The theorems. *)

\* TypeOK: the rows, the workers' local variables and the counters stay well formed.
THEOREM TypeCorrect == Spec => []TypeOK
<1>1. Init => TypeInv
  BY GateInit DEF GateInv
<1>2. TypeInv /\ [Next]_vars => TypeInv'
  BY TypeStep
<1>3. TypeInv => TypeOK
  BY DEF TypeInv
<1> QED BY <1>1, <1>2, <1>3, PTL DEF Spec

\* AppliedWasWritten: what is APPLIED was written, every member of its group, whoever decides.
THEOREM AppliedAlwaysWritten == Spec => []AppliedWasWritten
<1>1. Init => TypeInv /\ WrittenInv
  BY GateInit DEF GateInv
<1>2. TypeInv /\ WrittenInv /\ [Next]_vars => TypeInv' /\ WrittenInv'
  BY TypeStep, WrittenStep
<1>3. WrittenInv => AppliedWasWritten
  BY DEF WrittenInv
<1> QED BY <1>1, <1>2, <1>3, PTL DEF Spec

\* ApprovalKeepsItsRows: rows that are claimed move only with their claimer, or with a dream_apply
\* process.
THEOREM ApprovalAlwaysKeepsRows == Spec => ApprovalKeepsItsRows
<1>1. Init => GateInv
  BY GateInit
<1>2. GateInv /\ [Next]_vars => GateInv'
  BY GateStep
<1>3. ASSUME GateInv, [Next]_vars
      PROVE  [\A p \in Proposal : State(p) = "APPLYING" /\ rows'[p] # rows[p] =>
                 \E w \in Worker : work'[w] # work[w] /\ (Applying(w, p) \/ w \in Cli)]_vars
  <2> SUFFICES ASSUME NEW p \in Proposal, State(p) = "APPLYING", rows'[p] # rows[p]
               PROVE  \E w \in Worker : work'[w] # work[w] /\ (Applying(w, p) \/ w \in Cli)
    OBVIOUS
  <2> USE DEF GateInv
  <2>1. ASSUME NEW w \in Worker, Resolve(w)
        PROVE  work'[w] # work[w] /\ w \in Cli
    <3>1. /\ work[w].step # "idle" /\ work'[w] = Idle
          /\ RowsMove(work[w].group, TargetState(work[w].step))
      BY <1>3, <2>1, ResolveEffect
    <3>2. p \in work[w].group
      BY <3>1 DEF RowsMove
    <3>3. w \in Cli
      <4> SUFFICES ASSUME w \notin Cli PROVE FALSE
        OBVIOUS
      <4>1. State(p) \in {"PENDING", "DEFERRED", "APPLY_FAILED"}
        BY <1>3, <2>1, <3>2, ResolveMoves
      <4> QED BY <4>1
    <3> QED BY <3>1, <3>3, IdleTyped
  <2>2. ASSUME NEW w \in Worker, ApplyFails(w) \/ ApplySucceeds(w)
        PROVE  work'[w] # work[w] /\ Applying(w, p)
    <3>1. PICK target \in {"APPLIED", "APPLY_FAILED"} :
              work[w].step = "apply" /\ work'[w] = Idle /\ RowsMove(work[w].group, target)
      BY <1>3, <2>2, FinalizeEffect
    <3> QED BY <3>1, IdleTyped DEF RowsMove, Applying
  <2>3. ASSUME NEW w \in Worker
        PROVE  ~Claim(w)
    <3> SUFFICES ASSUME Claim(w) PROVE FALSE
      OBVIOUS
    <3>1. RowsMove(work[w].group, "APPLYING") /\ \A q \in work[w].group : Claimable(q)
      BY <1>3, ClaimEffect
    <3> QED BY <3>1 DEF RowsMove, Claimable
  <2>4. ~ExpireStale
    <3> SUFFICES ASSUME ExpireStale PROVE FALSE
      OBVIOUS
    <3>1. RowsMove({q \in Old : Open(q)}, "EXPIRED")
      BY <1>3, ExpireEffect
    <3> QED BY <3>1 DEF RowsMove, Open
  <2>5. ASSUME NEW w \in Worker, \/ Ask(w) \/ Crash(w) \/ \E q \in Proposal : Apply(w, q)
                                 \/ \E valid \in BOOLEAN : Validate(w, valid)
        PROVE  FALSE
    BY <1>3, <2>5, AskEffect, CrashEffect, ApplyEffect, ValidateEffect
  <2> QED BY <1>3, <2>1, <2>2, <2>3, <2>4, <2>5 DEF Next, Step, ExternalWrite, vars
<1> QED BY <1>1, <1>2, <1>3, PTL DEF Spec, ApprovalKeepsItsRows

\* FailureIsNotReplayed: an approval writes rows that it has claimed itself, even if they have been
\* taken from it, and a row that failed or was left by a crash can no longer be claimed.
THEOREM FailureNeverReplayed == Spec => FailureIsNotReplayed
<1>1. Init => GateInv
  BY GateInit
<1>2. GateInv /\ [Next]_vars => GateInv'
  BY GateStep
<1>3. ASSUME GateInv, [Next]_vars
      PROVE  [\A p \in Proposal : written'[p] # written[p] =>
                 /\ \A n \in 1..Revision(p) : rows[p][n] # "APPLY_FAILED"
                 /\ p \in orphaned => State(p) = "APPLIED"]_vars
  <2> SUFFICES ASSUME NEW p \in Proposal, written'[p] # written[p]
               PROVE  /\ \A n \in 1..Revision(p) : rows[p][n] # "APPLY_FAILED"
                      /\ p \in orphaned => State(p) = "APPLIED"
    OBVIOUS
  <2>1. PICK w \in Worker : \E q \in Proposal : Apply(w, q)
    <3>1. \A w \in Worker : (Resolve(w) \/ Claim(w) \/ ApplyFails(w) \/ ApplySucceeds(w)
                             \/ Crash(w) \/ \E valid \in BOOLEAN : Validate(w, valid))
                            => UNCHANGED written
      BY DEF Resolve, Claim, ApplyFails, ApplySucceeds, Crash, Validate
    <3>2. \A w \in Worker : Ask(w) => UNCHANGED written
      BY AskEffect, <1>3 DEF GateInv
    <3> QED BY <1>3, <3>1, <3>2 DEF Next, Step, ExternalWrite, ExpireStale, vars
  <2>2. PICK q \in Proposal : Apply(w, q)
    BY <2>1
  <2>3. work[w].step = "apply" /\ p \in work[w].todo
    BY <1>3, <2>2, ApplyEffect DEF GateInv
  <2>4. p \in work[w].group \ Graph
    BY <1>3, <2>3 DEF GateInv, TypeInv, GroupInv
  <2>6. \A n \in 1..Revision(p) : rows[p][n] # "APPLY_FAILED"
    BY <1>3, <2>3, <2>4 DEF GateInv, FreshInv, Revision
  <2>7. p \in orphaned => State(p) = "APPLIED"
    BY <1>3, <2>3, <2>4 DEF GateInv, OrphanInv, Applying
  <2> QED BY <2>6, <2>7
<1> QED BY <1>1, <1>2, <1>3, PTL DEF Spec, FailureIsNotReplayed

\* SweepYieldsToHumans: what the sweep resolves has waited for a decision since it was read.
THEOREM SweepAlwaysYields == Spec => SweepYieldsToHumans
<1>1. Init => GateInv
  BY GateInit
<1>2. GateInv /\ [Next]_vars => GateInv'
  BY GateStep
<1>3. ASSUME GateInv, [Next]_vars
      PROVE  [\A w \in Worker : work[w].step = "sweepRefuse" /\ work'[w] # work[w] =>
                 \A p \in Proposal : rows'[p] # rows[p] => State(p) = "PENDING"]_vars
  <2> SUFFICES ASSUME NEW w \in Worker, work[w].step = "sweepRefuse", work'[w] # work[w],
                      NEW p \in Proposal, rows'[p] # rows[p]
               PROVE  State(p) = "PENDING"
    OBVIOUS
  <2>1. Resolve(w)
    <3>1. ASSUME NEW v \in Worker, Step(v) \/ Ask(v) \/ Crash(v)
          PROVE  v = w
      <4>1. OnlyWork(v)
        BY <1>3, <3>1, ValidateEffect, ResolveEffect, ClaimEffect, ApplyEffect, FinalizeEffect,
           AskEffect, CrashEffect DEF Step, GateInv
      <4> QED BY <4>1 DEF OnlyWork
    <3>2. ~Ask(w) /\ ~Crash(w)
      BY <1>3, AskEffect, CrashEffect DEF GateInv
    <3>3. Step(w)
      BY <1>3, <3>1, <3>2 DEF Next, ExternalWrite, ExpireStale, vars
    <3> QED BY <3>3 DEF Step, Validate, Claim, Apply, ApplyFails, ApplySucceeds
  <2>2. \A q \in work[w].group : State(q) = "PENDING"
    <3>1. w \notin Cli
      BY <1>3 DEF GateInv, SeenInv, SeenOpen
    <3> QED BY <1>3, <2>1, <3>1, ResolveMoves DEF GateInv
  <2>3. p \in work[w].group
    <3>1. RowsMove(work[w].group, TargetState(work[w].step))
      BY <1>3, <2>1, ResolveEffect DEF GateInv
    <3> QED BY <3>1 DEF RowsMove
  <2> QED BY <2>2, <2>3
<1> QED BY <1>1, <1>2, <1>3, PTL DEF Spec, SweepYieldsToHumans

----------------------------------------------------------------------------
(* The gate implements the canonical store. *)

Cell(p) == [state |-> State(p), created |-> IF p \in Old THEN -1 ELSE 0, reason |-> Reason(State(p))]
Table == [a \in {Key} |-> [p \in Proposal |-> Cell(p)]]

LEMMA CellFacts ==
    ASSUME NEW p \in Proposal
    PROVE  /\ Table[Key][p] = Cell(p) /\ Cell(p).state = State(p)
           /\ Cell(p).created = (IF p \in Old THEN -1 ELSE 0) /\ Cell(p).reason = Reason(State(p))
BY DEF Table, Cell

LEMMA StoreGroup ==
    ASSUME TypeInv, NEW p \in Proposal
    PROVE  Store!DecisionGroup(Key, p) = Group(p)
<1>1. \A q \in Proposal : Table[Key][q].state # "ABSENT"
  BY CellFacts, RowFacts DEF RowState
<1> QED BY <1>1 DEF Store!DecisionGroup, Group, Table, Cell

LEMMA StoreMoved ==
    ASSUME TypeInv, NEW group, NEW target \in RowState, NEW reason, reason = Reason(target),
           RowsMove(group, target)
    PROVE  Table' = [Table EXCEPT ![Key] = Store!Moved(Key, group, target, reason)]
<1>1. \A p \in Proposal : State(p)' = IF p \in group THEN target ELSE State(p)
  BY MoveStates
<1>2. ASSUME NEW p \in Proposal
      PROVE  Cell(p)' = IF p \in group /\ State(p) # target
                        THEN [Cell(p) EXCEPT !.state = target, !.reason = reason] ELSE Cell(p)
  BY <1>1, <1>2 DEF Cell, Reason
<1>3. Store!Moved(Key, group, target, reason) =
          [p \in Proposal |-> IF p \in group /\ State(p) # target
                              THEN [Cell(p) EXCEPT !.state = target, !.reason = reason] ELSE Cell(p)]
  BY DEF Store!Moved, Cell
<1> QED BY <1>2, <1>3 DEF Table

LEMMA StoreTransition ==
    ASSUME TypeInv, NEW p \in Proposal, NEW target \in RowState, NEW reason, reason = Reason(target),
           RowsMove(Group(p), target),
           \A q \in Group(p) : State(q) = target \/ State(q) \notin Terminal
    PROVE  Store!TransitionProposals(Key, p, target, reason)
<1>1. \A q \in Proposal : Table[Key][q].state = State(q) /\ State(q) \in RowState
  BY CellFacts, RowFacts
<1>2. /\ p \in Group(p) /\ Group(p) \in SUBSET Proposal /\ Store!DecisionGroup(Key, p) = Group(p)
  BY GroupFacts, StoreGroup
<1>3. Table' = [Table EXCEPT ![Key] = Store!Moved(Key, Group(p), target, reason)]
  BY StoreMoved
<1>4. Table[Key][p].state # "ABSENT"
  BY <1>1 DEF RowState
<1>5. \A q \in Group(p) : \/ Table[Key][q].state = target
                          \/ Table[Key][q].state \notin Store!ProposalTerminal
  BY <1>1, <1>2 DEF Store!ProposalTerminal, RowState, Terminal
<1> QED BY <1>2, <1>3, <1>4, <1>5 DEF Store!TransitionProposals, Table, Cell

LEMMA StoreClaim ==
    ASSUME TypeInv, NEW p \in Proposal, RowsMove(Group(p), "APPLYING"),
           \A q \in Group(p) : Claimable(q)
    PROVE  Store!ClaimProposals(Key, p)
<1>1. \A q \in Proposal : Table[Key][q].state = State(q) /\ State(q) \in RowState
  BY CellFacts, RowFacts
<1>2. /\ p \in Group(p) /\ Group(p) \in SUBSET Proposal /\ Store!DecisionGroup(Key, p) = Group(p)
  BY GroupFacts, StoreGroup
<1>3. Table' = [Table EXCEPT ![Key] = Store!Moved(Key, Group(p), "APPLYING", "none")]
  BY StoreMoved DEF RowState, Reason
<1>4. Table[Key][p].state # "ABSENT"
  BY <1>1 DEF RowState
<1>5. \A q \in Group(p) : Store!Claimable(Key, q)
  BY <1>1, <1>2 DEF Store!Claimable, Claimable, Table, Cell
<1> QED BY <1>2, <1>3, <1>4, <1>5 DEF Store!ClaimProposals, Store!Consumable, Table, Cell

LEMMA StoreFinalize ==
    ASSUME TypeInv, NEW p \in Proposal, NEW succeeded \in BOOLEAN, NEW target,
           target = (IF succeeded THEN "APPLIED" ELSE "APPLY_FAILED"), RowsMove(Group(p), target),
           \A q \in Group(p) : State(q) \in {"APPLYING", target}
    PROVE  Store!FinalizeProposals(Key, p, succeeded)
<1>1. \A q \in Proposal : Table[Key][q].state = State(q) /\ State(q) \in RowState
  BY CellFacts, RowFacts
<1>2. /\ p \in Group(p) /\ Group(p) \in SUBSET Proposal /\ Store!DecisionGroup(Key, p) = Group(p)
  BY GroupFacts, StoreGroup
<1>3. Table' = [Table EXCEPT ![Key] = Store!Moved(Key, Group(p), target, "none")]
  BY StoreMoved DEF RowState, Reason
<1>4. Table[Key][p].state # "ABSENT"
  BY <1>1 DEF RowState
<1>5. \A q \in Group(p) : Table[Key][q].state \in {target, "APPLYING"}
  BY <1>1, <1>2
<1> QED BY <1>2, <1>3, <1>4, <1>5 DEF Store!FinalizeProposals, Table, Cell

LEMMA StoreExpire ==
    ASSUME TypeInv, ExpireStale
    PROVE  Store!ExpireStaleProposals
<1>1. \A q \in Proposal : Store!Stale(Table[Key][q]) <=> q \in Old /\ Open(q)
  BY CellFacts DEF Store!Stale, Open
<1>2. Store!Attempt = {Key}
  BY DEF Store!Attempt, Key
<1>3. RowsMove({q \in Old : Open(q)}, "EXPIRED") /\ \E q \in Proposal : q \in Old /\ Open(q)
  BY ExpireEffect, GateAssumption DEF ExpireStale
<1>4. \A q \in Proposal : State(q)' = IF q \in Old /\ Open(q) THEN "EXPIRED" ELSE State(q)
  BY <1>3, MoveStates
<1>5. ASSUME NEW q \in Proposal
      PROVE  Cell(q)' = IF q \in Old /\ Open(q)
                        THEN [Cell(q) EXCEPT !.state = "EXPIRED", !.reason = "other"] ELSE Cell(q)
  BY <1>4, <1>5 DEF Cell, Reason
<1>6. Table' = [a \in {Key} |-> [q \in Proposal |->
                   IF Store!Stale(Table[a][q])
                   THEN [Table[a][q] EXCEPT !.state = "EXPIRED", !.reason = "other"]
                   ELSE Table[a][q]]]
  BY <1>1, <1>5, CellFacts DEF Table
<1> QED BY <1>1, <1>2, <1>3, <1>6 DEF Store!ExpireStaleProposals, Table, Cell

\* ImplementsStore: whatever a step of the gate does to the rows is one operation of the store
\* on one canonical group, for every worker and crash.
THEOREM GateImplementsStore == Spec => ImplementsStore
<1>1. Init => TypeInv
  BY GateInit DEF GateInv
<1>2. TypeInv /\ [Next]_vars => TypeInv'
  BY TypeStep
<1>3. ASSUME TypeInv, [Next]_vars
      PROVE  [StoreDecision]_rows
  <2> SUFFICES ASSUME rows' # rows
               PROVE  StoreDecision
    OBVIOUS
  <2>1. ASSUME NEW w \in Worker, work[w].step # "idle"
        PROVE  \E p \in Proposal : work[w].group = Group(p)
    <3>1. work[w].group \in SUBSET Proposal /\ work[w].group # {}
          /\ \A p \in work[w].group : Group(p) = work[w].group
      BY <1>3, <2>1, WorkGroup
    <3> QED BY <3>1
  <2>2. ASSUME NEW w \in Worker, Resolve(w)
        PROVE  StoreDecision
    <3>1. PICK target \in {"REJECTED", "DEFERRED", "SYSTEM_REJECTED"} :
              /\ work[w].step # "idle" /\ RowsMove(work[w].group, target)
              /\ \A q \in work[w].group : State(q) = target \/ State(q) \notin Terminal
      BY <1>3, <2>2, ResolveEffect
    <3>2. PICK p \in Proposal : work[w].group = Group(p)
      BY <2>1, <3>1
    <3>3. target \in RowState
      BY <3>1 DEF RowState
    <3>4. Store!TransitionProposals(Key, p, target, Reason(target))
      BY <1>3, <3>1, <3>2, <3>3, StoreTransition
    <3>5. Reason(target) = IF target = "SYSTEM_REJECTED" THEN "other" ELSE "none"
      BY <3>1 DEF Reason
    <3> QED BY <3>1, <3>4, <3>5 DEF StoreDecision
  <2>3. ASSUME NEW w \in Worker, Claim(w)
        PROVE  StoreDecision
    <3>1. /\ work[w].step # "idle" /\ RowsMove(work[w].group, "APPLYING")
          /\ \A q \in work[w].group : Claimable(q)
      BY <1>3, <2>3, ClaimEffect
    <3>2. PICK p \in Proposal : work[w].group = Group(p)
      BY <2>1, <3>1
    <3>3. Store!ClaimProposals(Key, p)
      BY <1>3, <3>1, <3>2, StoreClaim
    <3> QED BY <3>3 DEF StoreDecision
  <2>4. ASSUME NEW w \in Worker, ApplyFails(w) \/ ApplySucceeds(w)
        PROVE  StoreDecision
    <3>1. PICK target \in {"APPLIED", "APPLY_FAILED"} :
              /\ work[w].step # "idle" /\ RowsMove(work[w].group, target)
              /\ \A q \in work[w].group : State(q) \in {"APPLYING", target}
      BY <1>3, <2>4, FinalizeEffect
    <3>2. PICK p \in Proposal : work[w].group = Group(p)
      BY <2>1, <3>1
    <3>3. Store!FinalizeProposals(Key, p, target = "APPLIED")
      BY <1>3, <3>1, <3>2, StoreFinalize
    <3> QED BY <3>3 DEF StoreDecision
  <2>5. ASSUME ExpireStale
        PROVE  StoreDecision
    BY <1>3, <2>5, StoreExpire DEF StoreDecision
  <2>6. \A w \in Worker : Ask(w) => UNCHANGED rows
    BY <1>3, AskEffect
  <2> QED BY <1>3, <2>2, <2>3, <2>4, <2>5, <2>6
          DEF Next, Step, Validate, Apply, Crash, ExternalWrite, vars
<1> QED BY <1>1, <1>2, <1>3, PTL DEF Spec, ImplementsStore

=============================================================================
