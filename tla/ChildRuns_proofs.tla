------------------------- MODULE ChildRuns_proofs -------------------------
(***************************************************************************)
(* Proofs about ChildRuns, for any number of threads, parents, scopes and  *)
(* rows and any caps: threads that check together exceed the child caps    *)
(* and the writer lock by one per further thread at most, and neither      *)
(* crashes nor promotions add to it.                                       *)
(***************************************************************************)
EXTENDS ChildRuns, FiniteSetTheorems, TLAPS

----------------------------------------------------------------------------
(* The inductive invariant. *)

ChildRecord == [parent : Parent \cup {NoParent}, scope : Scope \cup {NoScope},
                kind : Kind \cup {"none"}, status : Status, lock : BOOLEAN,
                result : {"none", "prompt", "output"}]

Place == {"idle", "within budget", "inserting", "cancelling", "starting", "executing",
          "promoting", "marking"}

SessionRecord == [at : Place, parent : Parent \cup {NoParent}, scope : Scope \cup {NoScope},
                  kind : Kind \cup {"none"}, lock : Lock, own : Child \cup {0},
                  todo : SUBSET Child]

\* Where a thread has a row in its hands.
Owning == {"cancelling", "starting", "executing", "marking"}

\* Rows fill the table from the front; what a thread owns or has listed is a row, and one that
\* may still be started is not cancelled, because only a required child is cancelled, by the
\* only thread that ever owns it.
RowsInv == Used = 1..Cardinality(Used)

OwnsRows(s) ==
    /\ session[s].at \in Owning => session[s].own \in Used
    /\ session[s].at = "inserting" => session[s].lock # "none"
    /\ session[s].at = "inserting" /\ session[s].lock = "refused" => session[s].kind = "required"
    /\ session[s].at = "cancelling" => child[session[s].own].kind = "required"
    /\ session[s].at \in Owning \ {"cancelling"} => child[session[s].own].status # "cancelled"
    /\ \A c \in session[s].todo :
          c \in Used /\ child[c].kind = "detached" /\ child[c].status # "cancelled"

OwnInv == \A s \in Session : OwnsRows(s)

SoleInv ==
    \A s, t \in Session :
        s # t /\ session[s].at \in Owning /\ session[t].at \in Owning /\ session[s].own = session[t].own
            => child[session[s].own].kind = "detached"

TypeInv == ChildTypeOK /\ RowsInv /\ OwnInv /\ SoleInv

\* A thread that has passed the budget and has not inserted its row yet may take the parent over
\* its caps: together with the rows there are no more of them than there is room for.
Pending(p) == {s \in Session : session[s].at \in {"within budget", "inserting"}
                               /\ session[s].parent = p}

Overshoot == Cardinality(Session) - 1

TotalRoom(p)  == Cardinality(Total(p)) + Cardinality(Pending(p)) <= TotalCap + Overshoot
ActiveRoom(p) == Cardinality(Active(p) \ rerun) + Cardinality(Pending(p)) <= ChildCap + Overshoot

TotalInv  == \A p \in Parent : TotalRoom(p)
ActiveInv == \A p \in Parent : ActiveRoom(p)

\* Threads that hold or have been promised the lock of a scope.
Bound(s, x) == \/ session[s].at = "inserting" /\ session[s].lock = "acquired" /\ session[s].scope = x
               \/ session[s].at \in {"starting", "executing", "marking"}
                  /\ child[session[s].own].scope = x

Owned(x) == {session[s].own : s \in {t \in Session : session[t].at \in Owning /\ Bound(t, x)}}

\* Every holder belongs to a thread at work; or, after a crash, none works in the scope any more
\* and the holders that are left keep everybody out.
HolderInv == \A x \in Scope :
    \/ Holders(x) \subseteq Owned(x)
    \/ Cardinality(Holders(x)) <= Cardinality(Session) /\ \A s \in Session : ~Bound(s, x)

ChildInv == TypeInv /\ TotalInv /\ ActiveInv /\ HolderInv

----------------------------------------------------------------------------
(* What the actions do to a row and to a thread, field by field. *)

OnlyRow(c) ==
    /\ child' \in [Child -> ChildRecord]
    /\ \A d \in Child : d # c => child'[d] = child[d]

OnlySession(s) ==
    /\ session' \in [Session -> SessionRecord]
    /\ \A t \in Session : t # s => session'[t] = session[t]

LEMMA ChildTyped ==
    ASSUME TypeInv
    PROVE  /\ child \in [Child -> ChildRecord] /\ session \in [Session -> SessionRecord]
           /\ rerun \subseteq Child /\ gateway \in {"up", "down"} /\ crashes \in 0..MaxCrashes
BY DEF TypeInv, ChildTypeOK, ChildRecord, SessionRecord, Place

LEMMA OwnTyped ==
    ASSUME TypeInv, NEW s \in Session, session[s].at \in Owning
    PROVE  session[s].own \in Child /\ child[session[s].own].status # "absent"
BY DEF TypeInv, OwnInv, OwnsRows, Used

LEMMA DelegateEffect ==
    ASSUME TypeInv, NEW s \in Session, NEW p \in Parent, NEW x \in Scope, NEW k \in Kind,
           Delegate(s, p, x, k)
    PROVE  /\ OnlySession(s) /\ session[s].at = "idle"
           /\ session'[s].at = "within budget" /\ session'[s].parent = p /\ session'[s].todo = {}
           /\ UNCHANGED <<child, gateway, crashes, rerun>>
<1>1. session \in [Session -> SessionRecord]
  BY ChildTyped
<1>2. [Idle EXCEPT !.at = "within budget", !.parent = p, !.scope = x, !.kind = k] \in SessionRecord
  BY DEF Idle, SessionRecord, Place, Lock
<1>3. /\ [Idle EXCEPT !.at = "within budget", !.parent = p, !.scope = x, !.kind = k].at = "within budget"
      /\ [Idle EXCEPT !.at = "within budget", !.parent = p, !.scope = x, !.kind = k].parent = p
      /\ [Idle EXCEPT !.at = "within budget", !.parent = p, !.scope = x, !.kind = k].todo = {}
  BY DEF Idle
<1> QED BY <1>1, <1>2, <1>3 DEF Delegate, OnlySession

LEMMA ReadLockEffect ==
    ASSUME TypeInv, NEW s \in Session, ReadLock(s)
    PROVE  /\ OnlySession(s) /\ session[s].at = "within budget"
           /\ session'[s] = [session[s] EXCEPT !.at = "inserting",
                                               !.lock = LockVerdict(session[s].scope, session[s].kind)]
           /\ UNCHANGED <<child, gateway, crashes, rerun>>
<1>1. session \in [Session -> SessionRecord]
  BY ChildTyped
<1>2. LockVerdict(session[s].scope, session[s].kind) \in Lock
  BY DEF LockVerdict, Lock
<1>3. [session[s] EXCEPT !.at = "inserting",
                         !.lock = LockVerdict(session[s].scope, session[s].kind)] \in SessionRecord
  BY <1>1, <1>2 DEF SessionRecord, Place
<1>4. session' = [session EXCEPT ![s] =
          [session[s] EXCEPT !.at = "inserting",
                             !.lock = LockVerdict(session[s].scope, session[s].kind)]]
  BY <1>1 DEF ReadLock, SessionRecord
<1> QED BY <1>1, <1>3, <1>4 DEF ReadLock, OnlySession

LEMMA InsertEffect ==
    ASSUME TypeInv, NEW s \in Session, Insert(s), NEW c, c = Cardinality(Used) + 1
    PROVE  /\ OnlySession(s) /\ session[s].at = "inserting"
           /\ OnlyRow(c) /\ c \in Child
           /\ child'[c].parent = session[s].parent /\ child'[c].scope = session[s].scope
           /\ child'[c].kind = session[s].kind /\ child'[c].status = "queued"
           /\ (child'[c].lock => session[s].lock = "acquired")
           /\ \/ session[s].lock = "queued" /\ session'[s] = Idle
              \/ /\ session[s].lock = "refused" /\ session'[s].at = "cancelling"
                 /\ session'[s].own = c /\ session'[s].todo = session[s].todo
              \/ /\ session[s].lock \notin {"queued", "refused"} /\ session'[s].at = "starting"
                 /\ session'[s].own = c /\ session'[s].todo = session[s].todo
           /\ UNCHANGED <<gateway, crashes, rerun>>
<1> DEFINE me == session[s]
           row == [parent |-> me.parent, scope |-> me.scope, kind |-> me.kind, status |-> "queued",
                   lock |-> me.lock = "acquired", result |-> "prompt"]
           next == [me EXCEPT !.own = c, !.at = IF me.lock = "refused" THEN "cancelling" ELSE "starting"]
<1>1. /\ session \in [Session -> SessionRecord] /\ child \in [Child -> ChildRecord]
      /\ me \in SessionRecord
  BY ChildTyped
<1>2. c \in Child /\ me.at = "inserting"
  BY DEF Insert
<1>3. (me.lock = "acquired") \in BOOLEAN
  OBVIOUS
<1>4. row \in ChildRecord
  BY <1>1, <1>3 DEF ChildRecord, SessionRecord, Status
<1>5. next \in SessionRecord
  BY <1>1, <1>2 DEF SessionRecord, Place
<1>6. Idle \in SessionRecord
  BY DEF Idle, SessionRecord, Place, Lock
<1>7. child' = [child EXCEPT ![c] = row]
  BY DEF Insert
<1>8. session' = [session EXCEPT ![s] = IF me.lock = "queued" THEN Idle ELSE next]
  BY DEF Insert
<1>9. OnlyRow(c) /\ child'[c] = row
  BY <1>1, <1>2, <1>4, <1>7 DEF OnlyRow
<1>10. OnlySession(s) /\ session'[s] = IF me.lock = "queued" THEN Idle ELSE next
  BY <1>1, <1>5, <1>6, <1>8 DEF OnlySession
<1>11. /\ next.own = c /\ next.todo = me.todo
       /\ next.at = IF me.lock = "refused" THEN "cancelling" ELSE "starting"
  BY <1>1 DEF SessionRecord
<1>12. me.lock = "queued" \/ me.lock = "refused" \/ me.lock \notin {"queued", "refused"}
  OBVIOUS
<1>13. child'[c].lock => me.lock = "acquired"
  <2>1. row.lock = (me.lock = "acquired")
    OBVIOUS
  <2>2. child'[c].lock = (me.lock = "acquired")
    BY <1>9, <2>1
  <2> QED BY <2>2
<1>14. UNCHANGED <<gateway, crashes, rerun>>
  BY DEF Insert
<1> HIDE DEF next
<1> QED BY <1>2, <1>9, <1>10, <1>11, <1>12, <1>13, <1>14

LEMMA CancelEffect ==
    ASSUME TypeInv, NEW s \in Session, CancelRefused(s)
    PROVE  /\ OnlySession(s) /\ session[s].at = "cancelling" /\ session'[s] = Idle
           /\ OnlyRow(session[s].own)
           /\ child'[session[s].own] = [child[session[s].own] EXCEPT !.status = "cancelled"]
           /\ UNCHANGED <<gateway, crashes, rerun>>
<1> DEFINE c == session[s].own
<1>1. session \in [Session -> SessionRecord] /\ child \in [Child -> ChildRecord]
  BY ChildTyped
<1>2. c \in Child /\ session[s].at = "cancelling"
  BY OwnTyped DEF CancelRefused, Owning
<1>3. child[c] \in ChildRecord /\ "cancelled" \in Status
  BY <1>1, <1>2 DEF Status
<1>4. [child[c] EXCEPT !.status = "cancelled"] \in ChildRecord
  BY <1>3 DEF ChildRecord
<1>5. child' = [child EXCEPT ![c] = [child[c] EXCEPT !.status = "cancelled"]]
  BY <1>1, <1>2 DEF CancelRefused
<1>6. Idle \in SessionRecord
  BY DEF Idle, SessionRecord, Place, Lock
<1> QED BY <1>1, <1>2, <1>4, <1>5, <1>6 DEF CancelRefused, OnlyRow, OnlySession

LEMMA StartEffect ==
    ASSUME TypeInv, NEW s \in Session, Start(s)
    PROVE  /\ OnlySession(s) /\ session[s].at = "starting"
           /\ session'[s] = [session[s] EXCEPT !.at = "executing"]
           /\ OnlyRow(session[s].own)
           /\ child'[session[s].own] = [child[session[s].own] EXCEPT !.status = "running", !.lock = TRUE]
           /\ rerun' = IF child[session[s].own].status \in {"done", "failed"}
                       THEN rerun \cup {session[s].own} ELSE rerun
           /\ UNCHANGED <<gateway, crashes>>
<1> DEFINE c == session[s].own
<1>1. session \in [Session -> SessionRecord] /\ child \in [Child -> ChildRecord]
  BY ChildTyped
<1>2. c \in Child /\ session[s].at = "starting"
  BY OwnTyped DEF Start, Owning
<1>3. child[c] \in ChildRecord /\ "running" \in Status /\ TRUE \in BOOLEAN
  BY <1>1, <1>2 DEF Status
<1>4. [child[c] EXCEPT !.status = "running", !.lock = TRUE] \in ChildRecord
  BY <1>3 DEF ChildRecord
<1>5. child' = [child EXCEPT ![c] = [child[c] EXCEPT !.status = "running", !.lock = TRUE]]
  BY <1>1, <1>2, <1>3 DEF Start, ChildRecord
<1>6. [session[s] EXCEPT !.at = "executing"] \in SessionRecord
  BY <1>1 DEF SessionRecord, Place
<1>7. session' = [session EXCEPT ![s] = [session[s] EXCEPT !.at = "executing"]]
  BY <1>1 DEF Start, Enter
<1> QED BY <1>1, <1>2, <1>4, <1>5, <1>6, <1>7 DEF Start, OnlyRow, OnlySession

LEMMA AfterTyped ==
    ASSUME NEW me \in SessionRecord
    PROVE  /\ After(me) \in SessionRecord /\ After(me).at \in {"idle", "promoting"}
           /\ After(me).todo = me.todo
<1>1. Idle \in SessionRecord /\ Idle.at = "idle" /\ Idle.todo = {}
  BY DEF Idle, SessionRecord, Place, Lock
<1>2. /\ [me EXCEPT !.at = "promoting", !.own = 0] \in SessionRecord
      /\ [me EXCEPT !.at = "promoting", !.own = 0].at = "promoting"
      /\ [me EXCEPT !.at = "promoting", !.own = 0].todo = me.todo
  BY DEF SessionRecord, Place
<1> QED BY <1>1, <1>2 DEF After

LEMMA FinishEffect ==
    ASSUME TypeInv, NEW s \in Session, NEW status \in {"done", "failed"}, Finish(s, status)
    PROVE  /\ OnlySession(s) /\ session[s].at = "executing"
           /\ session'[s].at \in {"idle", "promoting"} /\ session'[s].todo = session[s].todo
           /\ OnlyRow(session[s].own)
           /\ child'[session[s].own] = [child[session[s].own] EXCEPT !.status = status, !.lock = FALSE,
                                                                     !.result = "output"]
           /\ UNCHANGED <<gateway, crashes, rerun>>
<1> DEFINE c == session[s].own
<1>1. session \in [Session -> SessionRecord] /\ child \in [Child -> ChildRecord]
  BY ChildTyped
<1>2. c \in Child /\ session[s].at = "executing"
  BY OwnTyped DEF Finish, Owning
<1>3. child[c] \in ChildRecord /\ status \in Status /\ FALSE \in BOOLEAN
  BY <1>1, <1>2 DEF Status
<1>4. [child[c] EXCEPT !.status = status, !.lock = FALSE, !.result = "output"] \in ChildRecord
  BY <1>3 DEF ChildRecord
<1>5. child' = [child EXCEPT ![c] =
                    [child[c] EXCEPT !.status = status, !.lock = FALSE, !.result = "output"]]
  BY <1>1, <1>2, <1>3 DEF Finish, ChildRecord
<1>6. session' = [session EXCEPT ![s] = After(session[s])]
  BY DEF Finish
<1>7. /\ After(session[s]) \in SessionRecord /\ After(session[s]).at \in {"idle", "promoting"}
      /\ After(session[s]).todo = session[s].todo
  BY <1>1, AfterTyped
<1>8. UNCHANGED <<gateway, crashes, rerun>>
  BY DEF Finish
<1>9. OnlyRow(c) /\ child'[c] = [child[c] EXCEPT !.status = status, !.lock = FALSE, !.result = "output"]
  BY <1>1, <1>2, <1>4, <1>5 DEF OnlyRow
<1>10. OnlySession(s) /\ session'[s] = After(session[s])
  BY <1>1, <1>6, <1>7 DEF OnlySession
<1> QED BY <1>2, <1>7, <1>8, <1>9, <1>10

LEMMA PromoteEffect ==
    ASSUME TypeInv, NEW s \in Session, NEW p \in Parent, Promote(s, p)
    PROVE  /\ OnlySession(s) /\ session[s].at = "idle" /\ session'[s].at = "promoting"
           /\ session'[s].todo = {c \in Active(p) : child[c].status = "queued"
                                                    /\ child[c].kind = "detached"}
           /\ UNCHANGED <<child, gateway, crashes, rerun>>
<1> DEFINE todo == {c \in Active(p) : child[c].status = "queued" /\ child[c].kind = "detached"}
           next == [Idle EXCEPT !.at = "promoting", !.parent = p, !.todo = todo]
<1>1. session \in [Session -> SessionRecord]
  BY ChildTyped
<1>2. todo \in SUBSET Child
  BY DEF Active
<1> HIDE DEF todo
<1>3. next \in SessionRecord /\ next.at = "promoting" /\ next.todo = todo
  BY <1>2 DEF Idle, SessionRecord, Place, Lock
<1>4. session' = [session EXCEPT ![s] = next]
  BY DEF Promote, todo
<1> HIDE DEF next
<1> QED BY <1>1, <1>3, <1>4 DEF Promote, OnlySession, todo

LEMMA PromoteReadEffect ==
    ASSUME TypeInv, NEW s \in Session, PromoteRead(s)
    PROVE  /\ OnlySession(s) /\ session[s].at = "promoting"
           /\ session'[s].todo \subseteq session[s].todo
           /\ \/ session'[s].at \in {"idle", "promoting"}
              \/ /\ session'[s].at = "marking" /\ session'[s].own \in session[s].todo
                 /\ Holders(child[session'[s].own].scope) = {}
           /\ UNCHANGED <<child, gateway, crashes, rerun>>
<1>1. session \in [Session -> SessionRecord]
  BY ChildTyped
<1>2. PICK c \in session[s].todo :
          session' = [session EXCEPT ![s] =
              IF LockVerdict(child[c].scope, "detached") = "acquired"
              THEN [[session[s] EXCEPT !.todo = session[s].todo \ {c}] EXCEPT !.at = "marking", !.own = c]
              ELSE After([session[s] EXCEPT !.todo = session[s].todo \ {c}])]
  BY DEF PromoteRead
<1> DEFINE rest == [session[s] EXCEPT !.todo = session[s].todo \ {c}]
           mark == [rest EXCEPT !.at = "marking", !.own = c]
<1>3. c \in Child /\ session[s].todo \ {c} \in SUBSET Child
  BY <1>1 DEF SessionRecord
<1>4. rest \in SessionRecord /\ rest.todo = session[s].todo \ {c}
  BY <1>1, <1>3 DEF SessionRecord
<1> HIDE DEF rest
<1>5. mark \in SessionRecord /\ mark.at = "marking" /\ mark.own = c /\ mark.todo = rest.todo
  BY <1>3, <1>4 DEF SessionRecord, Place
<1> HIDE DEF mark
<1>6. After(rest) \in SessionRecord /\ After(rest).at \in {"idle", "promoting"} /\ After(rest).todo = rest.todo
  BY <1>4, AfterTyped
<1>7. session' = [session EXCEPT ![s] =
          IF LockVerdict(child[c].scope, "detached") = "acquired" THEN mark ELSE After(rest)]
  BY <1>2 DEF mark, rest
<1>8. UNCHANGED <<child, gateway, crashes, rerun>> /\ session[s].at = "promoting"
  BY DEF PromoteRead
<1>9. CASE LockVerdict(child[c].scope, "detached") = "acquired"
  <2>1. Holders(child[c].scope) = {}
    BY <1>9 DEF LockVerdict
  <2>2. session' = [session EXCEPT ![s] = mark]
    BY <1>7, <1>9
  <2>3. session'[s] = mark /\ OnlySession(s)
    BY <1>1, <1>5, <2>2 DEF OnlySession
  <2> QED BY <1>2, <1>4, <1>5, <1>8, <2>1, <2>3
<1>10. CASE LockVerdict(child[c].scope, "detached") # "acquired"
  <2>2. session' = [session EXCEPT ![s] = After(rest)]
    BY <1>7, <1>10
  <2>3. session'[s] = After(rest) /\ OnlySession(s)
    BY <1>1, <1>6, <2>2 DEF OnlySession
  <2> QED BY <1>4, <1>6, <1>8, <2>3
<1> QED BY <1>9, <1>10

LEMMA PromoteMarkEffect ==
    ASSUME TypeInv, NEW s \in Session, PromoteMark(s)
    PROVE  /\ OnlySession(s) /\ session[s].at = "marking"
           /\ session'[s] = [session[s] EXCEPT !.at = "starting"]
           /\ OnlyRow(session[s].own)
           /\ child'[session[s].own] = [child[session[s].own] EXCEPT !.lock = TRUE]
           /\ UNCHANGED <<gateway, crashes, rerun>>
<1> DEFINE c == session[s].own
<1>1. session \in [Session -> SessionRecord] /\ child \in [Child -> ChildRecord]
  BY ChildTyped
<1>2. c \in Child /\ session[s].at = "marking"
  BY OwnTyped DEF PromoteMark, Owning
<1>3. child[c] \in ChildRecord /\ TRUE \in BOOLEAN
  BY <1>1, <1>2
<1>4. [child[c] EXCEPT !.lock = TRUE] \in ChildRecord
  BY <1>3 DEF ChildRecord
<1>5. child' = [child EXCEPT ![c] = [child[c] EXCEPT !.lock = TRUE]]
  BY <1>1, <1>2 DEF PromoteMark
<1>6. [session[s] EXCEPT !.at = "starting"] \in SessionRecord
  BY <1>1 DEF SessionRecord, Place
<1>7. session' = [session EXCEPT ![s] = [session[s] EXCEPT !.at = "starting"]]
  BY <1>1 DEF PromoteMark, Enter
<1> QED BY <1>1, <1>2, <1>4, <1>5, <1>6, <1>7 DEF PromoteMark, OnlyRow, OnlySession

LEMMA BootEffect ==
    ASSUME TypeInv, Boot
    PROVE  /\ child' \in [Child -> ChildRecord]
           /\ \A c \in Child :
                 \/ child'[c] = child[c]
                 \/ /\ child[c].status = "running"
                    /\ child'[c] = [child[c] EXCEPT !.status = "queued", !.lock = FALSE]
           /\ gateway' \in {"up", "down"} /\ UNCHANGED <<session, crashes, rerun>>
<1>1. child \in [Child -> ChildRecord]
  BY ChildTyped
<1>2. child' = [c \in Child |->
            IF c \in Requeued THEN [child[c] EXCEPT !.status = "queued", !.lock = FALSE] ELSE child[c]]
  BY DEF Boot
<1>3. ASSUME NEW c \in Child
      PROVE  [child[c] EXCEPT !.status = "queued", !.lock = FALSE] \in ChildRecord
  <2>1. child[c] \in ChildRecord /\ "queued" \in Status /\ FALSE \in BOOLEAN
    BY <1>1, <1>3 DEF Status
  <2> QED BY <2>1 DEF ChildRecord
<1>4. child' \in [Child -> ChildRecord]
  BY <1>1, <1>2, <1>3
<1>5. \A c \in Requeued : child[c].status = "running"
  BY DEF Requeued
<1> QED BY <1>1, <1>2, <1>4, <1>5 DEF Boot

----------------------------------------------------------------------------
(* Finite sets of rows and of threads. *)

LEMMA RowSets == \A A \in SUBSET Child : IsFiniteSet(A) /\ Cardinality(A) \in Nat
<1>1. IsFiniteSet(Child)
  BY ChildAssumption, FS_Interval DEF Child
<1> QED BY <1>1, FS_Subset, FS_CardinalityType

LEMMA ThreadSets ==
    /\ Cardinality(Session) \in Nat \ {0}
    /\ \A A \in SUBSET Session :
          IsFiniteSet(A) /\ Cardinality(A) \in Nat /\ Cardinality(A) <= Cardinality(Session)
<1>1. IsFiniteSet(Session) /\ Session # {}
  BY ChildAssumption
<1>2. Cardinality(Session) \in Nat /\ Cardinality(Session) # 0
  BY <1>1, FS_EmptySet, FS_CardinalityType
<1> QED BY <1>1, <1>2, FS_Subset, FS_CardinalityType

LEMMA PairShrinks ==
    ASSUME NEW A \in SUBSET Child, NEW B \in SUBSET Session,
           NEW A2 \in SUBSET A, NEW B2 \in SUBSET B, NEW n \in Int,
           Cardinality(A) + Cardinality(B) <= n
    PROVE  Cardinality(A2) + Cardinality(B2) <= n
<1>1. IsFiniteSet(A) /\ IsFiniteSet(B)
  BY RowSets, ThreadSets
<1>2. Cardinality(A2) <= Cardinality(A) /\ Cardinality(B2) <= Cardinality(B)
  BY <1>1, FS_Subset
<1>3. A2 \in SUBSET Child /\ B2 \in SUBSET Session
  OBVIOUS
<1>4. /\ Cardinality(A) \in Nat /\ Cardinality(A2) \in Nat
      /\ Cardinality(B) \in Nat /\ Cardinality(B2) \in Nat
  BY <1>3, RowSets, ThreadSets
<1> QED BY <1>2, <1>4

\* An insertion makes one row more and one pending thread fewer.
LEMMA PairMoves ==
    ASSUME NEW A \in SUBSET Child, NEW B \in SUBSET Session, NEW c \in Child, NEW s \in B,
           NEW A2 \in SUBSET (A \cup {c}), NEW B2 \in SUBSET (B \ {s}), NEW n \in Int,
           Cardinality(A) + Cardinality(B) <= n
    PROVE  Cardinality(A2) + Cardinality(B2) <= n
<1>1. IsFiniteSet(A) /\ IsFiniteSet(B)
  BY RowSets, ThreadSets
<1>2. A2 \in SUBSET Child /\ B2 \in SUBSET Session /\ A \cup {c} \in SUBSET Child /\ B \ {s} \in SUBSET Session
  OBVIOUS
<1>3. /\ Cardinality(A) \in Nat /\ Cardinality(A2) \in Nat /\ Cardinality(A \cup {c}) \in Nat
      /\ Cardinality(B) \in Nat /\ Cardinality(B2) \in Nat /\ Cardinality(B \ {s}) \in Nat
  BY <1>2, RowSets, ThreadSets
<1>4. Cardinality(A2) <= Cardinality(A \cup {c}) /\ Cardinality(B2) <= Cardinality(B \ {s})
  BY <1>2, RowSets, ThreadSets, FS_Subset
<1>5. Cardinality(A \cup {c}) = Cardinality(A) \/ Cardinality(A \cup {c}) = Cardinality(A) + 1
  BY <1>1, FS_AddElement
<1>6. Cardinality(B \ {s}) = Cardinality(B) - 1
  BY <1>1, FS_RemoveElement
<1> QED BY <1>3, <1>4, <1>5, <1>6

LEMMA OwnedIsBounded ==
    ASSUME TypeInv, NEW x
    PROVE  Cardinality(Owned(x)) <= Cardinality(Session) /\ IsFiniteSet(Owned(x))
<1> DEFINE E == {t \in Session : session[t].at \in Owning /\ Bound(t, x)}
           f == [t \in E |-> session[t].own]
<1>1. IsFiniteSet(E) /\ Cardinality(E) \in Nat /\ Cardinality(E) <= Cardinality(Session)
  BY ThreadSets
<1>2. f \in Surjection(E, Owned(x))
  BY DEF Owned, Surjection
<1>3. IsFiniteSet(Owned(x)) /\ Cardinality(Owned(x)) <= Cardinality(E)
  BY <1>1, <1>2, FS_Surjection
<1>4. Cardinality(Owned(x)) \in Nat /\ Cardinality(Session) \in Nat
  BY <1>3, ThreadSets, FS_CardinalityType
<1> HIDE DEF E
<1> QED BY <1>1, <1>3, <1>4

LEMMA HoldersAreBounded ==
    ASSUME TypeInv, HolderInv, NEW x \in Scope
    PROVE  Cardinality(Holders(x)) <= Cardinality(Session)
<1>1. CASE Holders(x) \subseteq Owned(x)
  <2>1. Cardinality(Holders(x)) <= Cardinality(Owned(x)) /\ IsFiniteSet(Owned(x))
    BY <1>1, OwnedIsBounded, FS_Subset
  <2>2. Cardinality(Owned(x)) <= Cardinality(Session)
    BY OwnedIsBounded
  <2>3. Cardinality(Owned(x)) \in Nat /\ Cardinality(Session) \in Nat /\ Cardinality(Holders(x)) \in Nat
    <3>1. Holders(x) \in SUBSET Child
      BY DEF Holders
    <3> QED BY <2>1, <3>1, RowSets, ThreadSets, FS_CardinalityType
  <2> QED BY <2>1, <2>2, <2>3
<1> QED BY <1>1 DEF HolderInv

----------------------------------------------------------------------------
(* Ownership of rows. *)

\* No row disappears, changes its kind or is cancelled.
RowsKept ==
    \A c \in Used : /\ c \in Used' /\ child'[c].kind = child[c].kind
                    /\ child'[c].status = "cancelled" => child[c].status = "cancelled"

LEMMA OthersKeepRows ==
    ASSUME TypeInv, NEW s \in Session, OnlySession(s), RowsKept
    PROVE  \A t \in Session : t # s => OwnsRows(t)'
<1> SUFFICES ASSUME NEW t \in Session, t # s
             PROVE  OwnsRows(t)'
  OBVIOUS
<1>1. session'[t] = session[t]
  BY DEF OnlySession
<1>2. OwnsRows(t)
  BY DEF TypeInv, OwnInv
<1> QED BY <1>1, <1>2 DEF OwnsRows, RowsKept, Owning

\* A thread comes to own what is detached, what nobody owns, or nothing new.
LEMMA SoleKept ==
    ASSUME TypeInv, NEW s \in Session, OnlySession(s),
           \A c \in Used : child'[c].kind = child[c].kind,
           \/ session'[s].at \notin Owning
           \/ session[s].at \in Owning /\ session'[s].own = session[s].own
           \/ session'[s].own \in Used /\ child[session'[s].own].kind = "detached"
           \/ session'[s].own \notin Used
    PROVE  SoleInv'
<1> SUFFICES ASSUME NEW t \in Session', NEW u \in Session', t # u,
                    session'[t].at \in Owning, session'[u].at \in Owning,
                    session'[t].own = session'[u].own
             PROVE  child'[session'[t].own].kind = "detached"
  BY DEF SoleInv, Owning
<1>1. t \in Session /\ u \in Session
  OBVIOUS
<1>2. \A v \in Session : session[v].at \in Owning => session[v].own \in Used
  BY DEF TypeInv, OwnInv, OwnsRows
<1>3. \A v \in Session : v # s => session'[v] = session[v]
  BY DEF OnlySession
<1>4. \A v, w \in Session :
          v # w /\ session[v].at \in Owning /\ session[w].at \in Owning /\ session[v].own = session[w].own
              => child[session[v].own].kind = "detached"
  BY DEF TypeInv, SoleInv
<1>5. PICK v \in {t, u} : v # s
  OBVIOUS
<1>6. session'[v] = session[v] /\ session[v].own \in Used /\ session'[v].own = session'[t].own
  BY <1>1, <1>2, <1>3, <1>5
<1>7. child[session[v].own].kind = "detached"
  <2>1. CASE t # s /\ u # s
    BY <1>1, <1>3, <1>4, <1>5, <2>1
  <2>2. CASE t = s \/ u = s
    <3>1. session'[s].at \in Owning /\ session'[s].own = session[v].own
      BY <1>6, <2>2
    <3>2. CASE session[s].at \in Owning /\ session'[s].own = session[s].own
      <4>1. session[v].at \in Owning
        BY <1>5, <1>6
      <4> QED BY <1>1, <1>4, <1>5, <3>1, <3>2, <4>1
    <3> QED BY <1>6, <3>1, <3>2
  <2> QED BY <2>1, <2>2
<1> QED BY <1>6, <1>7

\* What keeps every row in the table keeps the table filled from the front.
LEMMA TableKept ==
    ASSUME TypeInv, \A c \in Child : child'[c].status = "absent" <=> child[c].status = "absent"
    PROVE  Used' = Used /\ RowsInv'
<1>1. Used' = Used
  BY DEF Used
<1> QED BY <1>1 DEF TypeInv, RowsInv

LEMMA RecordsKept ==
    ASSUME TypeInv, child' \in [Child -> ChildRecord], session' \in [Session -> SessionRecord],
           rerun' \subseteq Child, gateway' \in {"up", "down"}, crashes' \in 0..MaxCrashes
    PROVE  ChildTypeOK'
BY DEF ChildTypeOK, ChildRecord, SessionRecord, Place

\* A step of one thread that leaves the table alone.
LEMMA ThreadStep ==
    ASSUME TypeInv, NEW s \in Session, OnlySession(s), OwnsRows(s)',
           UNCHANGED <<child, gateway, crashes, rerun>>,
           \/ session'[s].at \notin Owning
           \/ child[session'[s].own].kind = "detached"
    PROVE  TypeInv'
<1>1. RowsKept /\ \A c \in Used : child'[c].kind = child[c].kind
  BY DEF RowsKept, Used
<1>2. OwnInv'
  BY <1>1, OthersKeepRows DEF OwnInv
<1>3. SoleInv'
  <2>1. session'[s].at \in Owning => session'[s].own \in Used
    BY DEF OwnsRows, Used
  <2> QED BY <1>1, <2>1, SoleKept
<1>4. RowsInv'
  BY TableKept
<1>5. ChildTypeOK'
  BY ChildTyped, RecordsKept DEF OnlySession
<1> QED BY <1>2, <1>3, <1>4, <1>5 DEF TypeInv

\* A step of one thread on its own row, which stays a row of its kind.
LEMMA RowStep ==
    ASSUME TypeInv, NEW s \in Session, OnlySession(s), OnlyRow(session[s].own),
           session[s].at \in Owning, OwnsRows(s)',
           child'[session[s].own].status \in {"running", "done", "failed", child[session[s].own].status},
           child'[session[s].own].kind = child[session[s].own].kind,
           session'[s].at \notin Owning \/ session'[s].own = session[s].own,
           rerun' \subseteq Child, UNCHANGED <<gateway, crashes>>
    PROVE  TypeInv'
<1> DEFINE c == session[s].own
<1>1. c \in Used /\ c \in Child /\ child[c].status # "absent"
  BY OwnTyped DEF Used
<1>2. \A d \in Child : d # c => child'[d] = child[d]
  BY DEF OnlyRow
<1>3. \A d \in Child : child'[d].status = "absent" <=> child[d].status = "absent"
  BY <1>1, <1>2
<1>4. Used' = Used /\ RowsInv'
  BY <1>3, TableKept
<1>5. \A d \in Used : child'[d].kind = child[d].kind
  BY <1>2 DEF Used
<1>6. RowsKept
  BY <1>2, <1>4, <1>5 DEF RowsKept, Used
<1>7. OwnInv'
  BY <1>6, OthersKeepRows DEF OwnInv
<1>8. SoleInv'
  BY <1>5, SoleKept
<1>9. ChildTypeOK'
  BY ChildTyped, RecordsKept DEF OnlySession, OnlyRow
<1> QED BY <1>4, <1>7, <1>8, <1>9 DEF TypeInv

LEMMA InsertKeepsTypes ==
    ASSUME TypeInv, NEW s \in Session, Insert(s)
    PROVE  TypeInv'
<1> DEFINE c == Cardinality(Used) + 1
<1> HIDE DEF c
<1>1. /\ OnlySession(s) /\ session[s].at = "inserting" /\ OnlyRow(c) /\ c \in Child
      /\ child'[c].kind = session[s].kind /\ child'[c].status = "queued"
      /\ \/ session[s].lock = "queued" /\ session'[s] = Idle
         \/ /\ session[s].lock = "refused" /\ session'[s].at = "cancelling"
            /\ session'[s].own = c /\ session'[s].todo = session[s].todo
         \/ /\ session[s].lock \notin {"queued", "refused"} /\ session'[s].at = "starting"
            /\ session'[s].own = c /\ session'[s].todo = session[s].todo
      /\ UNCHANGED <<gateway, crashes, rerun>>
  BY InsertEffect DEF c
<1>2. Used = 1..Cardinality(Used) /\ Cardinality(Used) \in Nat
  BY RowSets DEF TypeInv, RowsInv, Used
<1>3. c \notin Used
  BY <1>2 DEF c
<1>4. \A d \in Child : d # c => child'[d] = child[d]
  BY <1>1 DEF OnlyRow
<1>5. Used' = Used \cup {c}
  BY <1>1, <1>4 DEF Used
<1>6. RowsInv'
  <2>1. Cardinality(Used') = Cardinality(Used) + 1
    <3>1. IsFiniteSet(Used)
      BY RowSets DEF Used
    <3> QED BY <1>3, <1>5, <3>1, FS_AddElement
  <2>2. Used' = 1..(Cardinality(Used) + 1)
    BY <1>2, <1>5 DEF c
  <2> QED BY <2>1, <2>2 DEF RowsInv
<1>7. \A d \in Used : child'[d].kind = child[d].kind
  BY <1>3, <1>4 DEF Used
<1>8. RowsKept
  BY <1>3, <1>4, <1>5 DEF RowsKept, Used
<1>9. OwnsRows(s)
  BY DEF TypeInv, OwnInv
<1>10. OwnsRows(s)'
  <2>1. CASE session[s].lock = "queued" /\ session'[s] = Idle
    BY <2>1 DEF OwnsRows, Idle, Owning
  <2>2. CASE /\ session[s].lock = "refused" /\ session'[s].at = "cancelling"
             /\ session'[s].own = c /\ session'[s].todo = session[s].todo
    <3>1. session[s].kind = "required"
      BY <1>1, <1>9, <2>2 DEF OwnsRows
    <3>2. child'[c].kind = "required" /\ c \in Used'
      BY <1>1, <1>5, <3>1
    <3>3. \A d \in session[s].todo :
             d \in Used' /\ child'[d].kind = "detached" /\ child'[d].status # "cancelled"
      BY <1>8, <1>9 DEF OwnsRows, RowsKept
    <3> QED BY <2>2, <3>2, <3>3 DEF OwnsRows, Owning
  <2>3. CASE /\ session[s].lock \notin {"queued", "refused"} /\ session'[s].at = "starting"
             /\ session'[s].own = c /\ session'[s].todo = session[s].todo
    <3>1. child'[c].status # "cancelled" /\ c \in Used'
      BY <1>1, <1>5
    <3>2. \A d \in session[s].todo :
             d \in Used' /\ child'[d].kind = "detached" /\ child'[d].status # "cancelled"
      BY <1>8, <1>9 DEF OwnsRows, RowsKept
    <3> QED BY <2>3, <3>1, <3>2 DEF OwnsRows, Owning
  <2> QED BY <1>1, <2>1, <2>2, <2>3
<1>11. OwnInv'
  BY <1>1, <1>8, <1>10, OthersKeepRows DEF OwnInv
<1>12. SoleInv'
  <2>1. session'[s].at \notin Owning \/ session'[s].own \notin Used
    BY <1>1, <1>3 DEF Idle, Owning
  <2> QED BY <1>1, <1>7, <2>1, SoleKept
<1>13. ChildTypeOK'
  BY <1>1, ChildTyped, RecordsKept DEF OnlySession, OnlyRow
<1> QED BY <1>6, <1>11, <1>12, <1>13 DEF TypeInv

\* A refused child is required, so no other thread owns it or has it listed.
LEMMA CancelKeepsTypes ==
    ASSUME TypeInv, NEW s \in Session, CancelRefused(s)
    PROVE  TypeInv'
<1> DEFINE c == session[s].own
<1>1. /\ OnlySession(s) /\ session[s].at = "cancelling" /\ session'[s] = Idle /\ OnlyRow(c)
      /\ child'[c] = [child[c] EXCEPT !.status = "cancelled"]
      /\ UNCHANGED <<gateway, crashes, rerun>>
  BY CancelEffect
<1>2. c \in Used /\ c \in Child /\ child[c].kind = "required" /\ child[c] \in ChildRecord
  <2>1. OwnsRows(s)
    BY DEF TypeInv, OwnInv
  <2> QED BY <1>1, <2>1, ChildTyped, OwnTyped DEF OwnsRows, Owning
<1>3. child'[c].status = "cancelled" /\ child'[c].kind = "required"
  BY <1>1, <1>2 DEF ChildRecord
<1>4. \A d \in Child : d # c => child'[d] = child[d]
  BY <1>1 DEF OnlyRow
<1>5. Used' = Used /\ RowsInv'
  <2>1. \A d \in Child : child'[d].status = "absent" <=> child[d].status = "absent"
    BY <1>2, <1>3, <1>4 DEF Used
  <2> QED BY <2>1, TableKept
<1>6. \A d \in Used : child'[d].kind = child[d].kind
  BY <1>2, <1>3, <1>4 DEF Used
<1>7. OwnInv'
  <2>1. OwnsRows(s)'
    BY <1>1 DEF OwnsRows, Idle, Owning
  <2>2. ASSUME NEW t \in Session, t # s
        PROVE  OwnsRows(t)'
    <3>1. session'[t] = session[t]
      BY <1>1, <2>2 DEF OnlySession
    <3>2. OwnsRows(t)
      BY DEF TypeInv, OwnInv
    <3>3. session[t].at \in Owning => session[t].own # c
      BY <1>1, <1>2, <2>2 DEF TypeInv, SoleInv, Owning
    <3>4. c \notin session[t].todo
      BY <1>2, <3>2 DEF OwnsRows
    <3>5. \A d \in session[t].todo : child'[d] = child[d]
      BY <1>4, <3>2, <3>4 DEF OwnsRows, Used
    <3>6. session[t].at \in Owning => child'[session[t].own] = child[session[t].own]
      BY <1>4, <3>2, <3>3 DEF OwnsRows, Used
    <3> QED BY <1>5, <3>1, <3>2, <3>5, <3>6 DEF OwnsRows, Owning
  <2> QED BY <2>1, <2>2 DEF OwnInv
<1>8. SoleInv'
  <2>1. session'[s].at \notin Owning
    BY <1>1 DEF Idle, Owning
  <2> QED BY <1>1, <1>6, <2>1, SoleKept
<1>9. ChildTypeOK'
  BY <1>1, ChildTyped, RecordsKept DEF OnlySession, OnlyRow
<1> QED BY <1>5, <1>7, <1>8, <1>9 DEF TypeInv

LEMMA TypeStep ==
    ASSUME TypeInv, [ChildNext]_childVars
    PROVE  TypeInv'
<1>1. ASSUME NEW s \in Session, NEW p \in Parent, NEW x \in Scope, NEW k \in Kind, Delegate(s, p, x, k)
      PROVE  TypeInv'
  <2>1. /\ OnlySession(s) /\ session'[s].at = "within budget" /\ session'[s].todo = {}
        /\ UNCHANGED <<child, gateway, crashes, rerun>>
    BY <1>1, DelegateEffect
  <2>2. OwnsRows(s)' /\ session'[s].at \notin Owning
    BY <2>1 DEF OwnsRows, Owning
  <2> QED BY <2>1, <2>2, ThreadStep
<1>2. ASSUME NEW s \in Session, ReadLock(s)
      PROVE  TypeInv'
  <2>1. /\ OnlySession(s) /\ session[s].at = "within budget"
        /\ session'[s] = [session[s] EXCEPT !.at = "inserting",
                                            !.lock = LockVerdict(session[s].scope, session[s].kind)]
        /\ UNCHANGED <<child, gateway, crashes, rerun>>
    BY <1>2, ReadLockEffect
  <2>2. session[s] \in SessionRecord
    BY ChildTyped
  <2>3. /\ session'[s].at = "inserting" /\ session'[s].kind = session[s].kind
        /\ session'[s].todo = session[s].todo
        /\ session'[s].lock = LockVerdict(session[s].scope, session[s].kind)
    BY <2>1, <2>2 DEF SessionRecord
  <2>4. session'[s].lock # "none" /\ (session'[s].lock = "refused" => session'[s].kind = "required")
    BY <2>3 DEF LockVerdict
  <2>5. \A c \in session[s].todo : c \in Used' /\ child'[c].kind = "detached" /\ child'[c].status # "cancelled"
    <3>1. OwnsRows(s)
      BY DEF TypeInv, OwnInv
    <3> QED BY <2>1, <3>1 DEF OwnsRows, Used
  <2>6. OwnsRows(s)' /\ session'[s].at \notin Owning
    BY <2>3, <2>4, <2>5 DEF OwnsRows, Owning
  <2> QED BY <2>1, <2>6, ThreadStep
<1>3. ASSUME NEW s \in Session, Insert(s)
      PROVE  TypeInv'
  BY <1>3, InsertKeepsTypes
<1>4. ASSUME NEW s \in Session, CancelRefused(s)
      PROVE  TypeInv'
  BY <1>4, CancelKeepsTypes
<1>5. ASSUME NEW s \in Session, Start(s)
      PROVE  TypeInv'
  <2> DEFINE c == session[s].own
  <2>1. /\ OnlySession(s) /\ session[s].at = "starting"
        /\ session'[s] = [session[s] EXCEPT !.at = "executing"] /\ OnlyRow(c)
        /\ child'[c] = [child[c] EXCEPT !.status = "running", !.lock = TRUE]
        /\ rerun' = IF child[c].status \in {"done", "failed"} THEN rerun \cup {c} ELSE rerun
        /\ UNCHANGED <<gateway, crashes>>
    BY <1>5, StartEffect
  <2>2. c \in Child /\ c \in Used /\ session[s] \in SessionRecord /\ child[c] \in ChildRecord
    BY <2>1, ChildTyped, OwnTyped DEF Owning, Used
  <2>3. child'[c].status = "running" /\ child'[c].kind = child[c].kind
    BY <2>1, <2>2 DEF ChildRecord
  <2>4. session'[s].at = "executing" /\ session'[s].own = c /\ session'[s].todo = session[s].todo
    BY <2>1, <2>2 DEF SessionRecord
  <2>5. rerun' \subseteq Child
    BY <2>1, <2>2, ChildTyped
  <2>6. OwnsRows(s)'
    <3>1. \A d \in session[s].todo : d \in Used /\ child[d].kind = "detached" /\ child[d].status # "cancelled"
      BY DEF TypeInv, OwnInv, OwnsRows
    <3>2. \A d \in session[s].todo : d \in Used' /\ child'[d].kind = "detached" /\ child'[d].status # "cancelled"
      <4> SUFFICES ASSUME NEW d \in session[s].todo
                   PROVE  d \in Used' /\ child'[d].kind = "detached" /\ child'[d].status # "cancelled"
        OBVIOUS
      <4>1. d \in Child /\ child[d].status # "absent"
        BY <3>1 DEF Used
      <4>2. CASE d = c
        BY <2>3, <3>1, <4>1, <4>2 DEF Used
      <4>3. CASE d # c
        BY <2>1, <3>1, <4>1, <4>3 DEF Used, OnlyRow
      <4> QED BY <4>2, <4>3
    <3>3. c \in Used'
      BY <2>2, <2>3 DEF Used
    <3> QED BY <2>3, <2>4, <3>2, <3>3 DEF OwnsRows, Owning
  <2> QED BY <2>1, <2>3, <2>4, <2>5, <2>6, RowStep DEF Owning
<1>6. ASSUME NEW s \in Session, NEW status \in {"done", "failed"}, Finish(s, status)
      PROVE  TypeInv'
  <2> DEFINE c == session[s].own
  <2>1. /\ OnlySession(s) /\ session[s].at = "executing"
        /\ session'[s].at \in {"idle", "promoting"} /\ session'[s].todo = session[s].todo
        /\ OnlyRow(c)
        /\ child'[c] = [child[c] EXCEPT !.status = status, !.lock = FALSE, !.result = "output"]
        /\ UNCHANGED <<gateway, crashes, rerun>>
    BY <1>6, FinishEffect
  <2>2. c \in Child /\ c \in Used /\ child[c] \in ChildRecord
    BY <2>1, ChildTyped, OwnTyped DEF Owning, Used
  <2>3. child'[c].status = status /\ child'[c].kind = child[c].kind
    BY <2>1, <2>2 DEF ChildRecord
  <2>4. OwnsRows(s)'
    <3>1. \A d \in session[s].todo : d \in Used /\ child[d].kind = "detached" /\ child[d].status # "cancelled"
      BY DEF TypeInv, OwnInv, OwnsRows
    <3>2. \A d \in session[s].todo : d \in Used' /\ child'[d].kind = "detached" /\ child'[d].status # "cancelled"
      <4> SUFFICES ASSUME NEW d \in session[s].todo
                   PROVE  d \in Used' /\ child'[d].kind = "detached" /\ child'[d].status # "cancelled"
        OBVIOUS
      <4>1. d \in Child /\ child[d].status # "absent"
        BY <3>1 DEF Used
      <4>2. CASE d = c
        BY <2>3, <3>1, <4>1, <4>2 DEF Used
      <4>3. CASE d # c
        BY <2>1, <3>1, <4>1, <4>3 DEF Used, OnlyRow
      <4> QED BY <4>2, <4>3
    <3> QED BY <2>1, <3>2 DEF OwnsRows, Owning
  <2>5. session'[s].at \notin Owning /\ rerun' \subseteq Child
    BY <2>1, ChildTyped DEF Owning
  <2> QED BY <2>1, <2>3, <2>4, <2>5, RowStep DEF Owning
<1>7. ASSUME NEW s \in Session, NEW p \in Parent, Promote(s, p)
      PROVE  TypeInv'
  <2>1. /\ OnlySession(s) /\ session'[s].at = "promoting"
        /\ session'[s].todo = {c \in Active(p) : child[c].status = "queued" /\ child[c].kind = "detached"}
        /\ UNCHANGED <<child, gateway, crashes, rerun>>
    BY <1>7, PromoteEffect
  <2>2. \A c \in session'[s].todo : c \in Used /\ child[c].kind = "detached" /\ child[c].status # "cancelled"
    BY <2>1 DEF Active, Used
  <2>3. OwnsRows(s)' /\ session'[s].at \notin Owning
    BY <2>1, <2>2 DEF OwnsRows, Owning, Used
  <2> QED BY <2>1, <2>3, ThreadStep
<1>8. ASSUME NEW s \in Session, PromoteRead(s)
      PROVE  TypeInv'
  <2>1. /\ OnlySession(s) /\ session'[s].todo \subseteq session[s].todo
        /\ \/ session'[s].at \in {"idle", "promoting"}
           \/ session'[s].at = "marking" /\ session'[s].own \in session[s].todo
        /\ UNCHANGED <<child, gateway, crashes, rerun>>
    BY <1>8, PromoteReadEffect
  <2>2. \A c \in session[s].todo : c \in Used /\ child[c].kind = "detached" /\ child[c].status # "cancelled"
    BY DEF TypeInv, OwnInv, OwnsRows
  <2>3. OwnsRows(s)' /\ (session'[s].at \notin Owning \/ child[session'[s].own].kind = "detached")
    BY <2>1, <2>2 DEF OwnsRows, Owning, Used
  <2> QED BY <2>1, <2>3, ThreadStep
<1>9. ASSUME NEW s \in Session, PromoteMark(s)
      PROVE  TypeInv'
  <2> DEFINE c == session[s].own
  <2>1. /\ OnlySession(s) /\ session[s].at = "marking"
        /\ session'[s] = [session[s] EXCEPT !.at = "starting"] /\ OnlyRow(c)
        /\ child'[c] = [child[c] EXCEPT !.lock = TRUE]
        /\ UNCHANGED <<gateway, crashes, rerun>>
    BY <1>9, PromoteMarkEffect
  <2>2. c \in Child /\ session[s] \in SessionRecord /\ child[c] \in ChildRecord
    BY <2>1, ChildTyped, OwnTyped DEF Owning
  <2>3. child'[c].status = child[c].status /\ child'[c].kind = child[c].kind
    BY <2>1, <2>2 DEF ChildRecord
  <2>4. session'[s].at = "starting" /\ session'[s].own = c /\ session'[s].todo = session[s].todo
    BY <2>1, <2>2 DEF SessionRecord
  <2>5. \A d \in Child : child'[d].status = child[d].status /\ child'[d].kind = child[d].kind
    BY <2>1, <2>3 DEF OnlyRow
  <2>6. OwnsRows(s)'
    <3>1. OwnsRows(s) /\ session[s].at \in Owning \ {"cancelling"}
      BY <2>1 DEF TypeInv, OwnInv, Owning
    <3>2. Used' = Used
      BY <2>5 DEF Used
    <3>3. \A d \in session[s].todo : d \in Used' /\ child'[d].kind = "detached" /\ child'[d].status # "cancelled"
      BY <2>5, <3>1, <3>2 DEF OwnsRows, Used
    <3>4. c \in Used' /\ child'[c].status # "cancelled"
      BY <2>3, <3>1, <3>2 DEF OwnsRows
    <3> QED BY <2>4, <3>3, <3>4 DEF OwnsRows, Owning
  <2>7. rerun' \subseteq Child
    BY <2>1, ChildTyped
  <2> QED BY <2>1, <2>3, <2>4, <2>6, <2>7, RowStep DEF Owning
<1>10. ASSUME Crash
       PROVE  TypeInv'
  <2>1. /\ session' = [s \in Session |-> Idle] /\ gateway' = "down" /\ crashes' = crashes + 1
        /\ crashes < MaxCrashes /\ UNCHANGED <<child, rerun>>
    BY <1>10 DEF Crash
  <2>2. Idle \in SessionRecord
    BY DEF Idle, SessionRecord, Place, Lock
  <2>3. session' \in [Session -> SessionRecord] /\ \A s \in Session : session'[s] = Idle
    BY <2>1, <2>2
  <2>4. crashes' \in 0..MaxCrashes
    BY <2>1, ChildTyped, ChildAssumption
  <2>5. ChildTypeOK'
    BY <2>1, <2>3, <2>4, ChildTyped, RecordsKept
  <2>6. RowsInv'
    BY <2>1, TableKept
  <2>7. OwnInv' /\ SoleInv'
    BY <2>3 DEF OwnInv, OwnsRows, SoleInv, Owning, Idle
  <2> QED BY <2>5, <2>6, <2>7 DEF TypeInv
<1>11. ASSUME Boot
       PROVE  TypeInv'
  <2>1. /\ child' \in [Child -> ChildRecord]
        /\ \A c \in Child :
              \/ child'[c] = child[c]
              \/ /\ child[c].status = "running"
                 /\ child'[c] = [child[c] EXCEPT !.status = "queued", !.lock = FALSE]
        /\ gateway' \in {"up", "down"} /\ UNCHANGED <<session, crashes, rerun>>
    BY <1>11, BootEffect
  <2>2. \A c \in Child : /\ child'[c].kind = child[c].kind
                         /\ child'[c].status = child[c].status \/ (child[c].status = "running" /\ child'[c].status = "queued")
    <3> SUFFICES ASSUME NEW c \in Child
                 PROVE  /\ child'[c].kind = child[c].kind
                        /\ child'[c].status = child[c].status \/ (child[c].status = "running" /\ child'[c].status = "queued")
      OBVIOUS
    <3>1. child[c] \in ChildRecord
      BY ChildTyped
    <3>2. /\ [child[c] EXCEPT !.status = "queued", !.lock = FALSE].kind = child[c].kind
          /\ [child[c] EXCEPT !.status = "queued", !.lock = FALSE].status = "queued"
      BY <3>1 DEF ChildRecord
    <3> QED BY <2>1, <3>2
  <2>3. Used' = Used /\ RowsInv'
    BY <2>2, TableKept
  <2>4. OwnInv'
    <3> SUFFICES ASSUME NEW s \in Session
                 PROVE  OwnsRows(s)'
      BY DEF OwnInv
    <3>1. OwnsRows(s) /\ session'[s] = session[s]
      BY <2>1 DEF TypeInv, OwnInv
    <3>2. \A c \in Used : /\ c \in Used' /\ child'[c].kind = child[c].kind
                          /\ child'[c].status = "cancelled" => child[c].status = "cancelled"
      BY <2>2, <2>3 DEF Used
    <3> QED BY <3>1, <3>2 DEF OwnsRows, Owning
  <2>5. SoleInv'
    <3>1. \A s \in Session : session[s].at \in Owning => session[s].own \in Child
      BY OwnTyped
    <3> QED BY <2>1, <2>2, <3>1 DEF TypeInv, SoleInv
  <2>6. ChildTypeOK'
    BY <2>1, ChildTyped, RecordsKept
  <2> QED BY <2>3, <2>4, <2>5, <2>6 DEF TypeInv
<1>12. CASE UNCHANGED childVars
  <2>1. ChildTypeOK' /\ Used' = Used /\ RowsInv'
    BY <1>12 DEF childVars, TypeInv, ChildTypeOK, RowsInv, Used
  <2>2. OwnInv' /\ SoleInv'
    BY <1>12, <2>1 DEF childVars, TypeInv, OwnInv, OwnsRows, SoleInv
  <2> QED BY <2>1, <2>2 DEF TypeInv
<1> QED BY <1>1, <1>2, <1>3, <1>4, <1>5, <1>6, <1>7, <1>8, <1>9, <1>10, <1>11, <1>12
        DEF ChildNext, DelegateStep, ExecStep, PromoteStep

----------------------------------------------------------------------------
(* The caps. *)

LEMMA SetTypes ==
    \A p : /\ Total(p) \in SUBSET Child /\ Active(p) \ rerun \in SUBSET Child
           /\ Active(p) \in SUBSET Child /\ Pending(p) \in SUBSET Session
BY DEF Total, Active, Pending

LEMMA CapTypes ==
    /\ Cardinality(Session) \in Nat /\ TotalCap \in Nat /\ ChildCap \in Nat
    /\ Overshoot = Cardinality(Session) - 1
    /\ TotalCap + Overshoot \in Int /\ ChildCap + Overshoot \in Int
<1>1. Cardinality(Session) \in Nat
  BY ThreadSets
<1> QED BY <1>1, ChildAssumption DEF Overshoot

\* A step that makes no child active, except one that runs again, and lets no thread past the
\* budget.
LEMMA CountsKept ==
    ASSUME TotalInv, ActiveInv,
           \A c \in Child : /\ child'[c].parent = child[c].parent
                            /\ child'[c].status \in {"queued", "running"} /\ c \notin rerun'
                                 => child[c].status \in {"queued", "running"} /\ c \notin rerun,
           \A s \in Session : session'[s].at \in {"within budget", "inserting"}
                                 => /\ session[s].at \in {"within budget", "inserting"}
                                    /\ session'[s].parent = session[s].parent
    PROVE  TotalInv' /\ ActiveInv'
<1>1. ASSUME NEW p \in Parent
      PROVE  /\ Total(p)' \in SUBSET Total(p) /\ (Active(p) \ rerun)' \in SUBSET (Active(p) \ rerun)
             /\ Pending(p)' \in SUBSET Pending(p)
  <2>1. Total(p)' \in SUBSET Total(p)
    BY DEF Total
  <2>2. (Active(p) \ rerun)' \in SUBSET (Active(p) \ rerun)
    BY DEF Active
  <2>3. Pending(p)' \in SUBSET Pending(p)
    BY DEF Pending
  <2> QED BY <2>1, <2>2, <2>3
<1>2. TotalCap + Overshoot \in Int /\ ChildCap + Overshoot \in Int
  BY CapTypes
<1>3. TotalInv'
  <2> SUFFICES ASSUME NEW p \in Parent
               PROVE  TotalRoom(p)'
    BY DEF TotalInv
  <2>10. TotalRoom(p)' <=> Cardinality(Total(p)') + Cardinality(Pending(p)') <= TotalCap + Overshoot
    BY DEF TotalRoom, Overshoot
  <2>1. Cardinality(Total(p)) + Cardinality(Pending(p)) <= TotalCap + Overshoot
    BY DEF TotalInv, TotalRoom
  <2> QED BY <1>1, <1>2, <2>1, <2>10, SetTypes, PairShrinks
<1>4. ActiveInv'
  <2> SUFFICES ASSUME NEW p \in Parent
               PROVE  ActiveRoom(p)'
    BY DEF ActiveInv
  <2>10. ActiveRoom(p)' <=> Cardinality((Active(p) \ rerun)') + Cardinality(Pending(p)') <= ChildCap + Overshoot
    BY DEF ActiveRoom, Overshoot
  <2>1. Cardinality(Active(p) \ rerun) + Cardinality(Pending(p)) <= ChildCap + Overshoot
    BY DEF ActiveInv, ActiveRoom
  <2> QED BY <1>1, <1>2, <2>1, <2>10, SetTypes, PairShrinks
<1> QED BY <1>3, <1>4

\* Whoever passes the budget has seen room for one, and all threads together are one more than
\* the others.
LEMMA DelegateKeepsCounts ==
    ASSUME TypeInv, TotalInv, ActiveInv, NEW s \in Session, NEW p \in Parent, NEW x \in Scope,
           NEW k \in Kind, Delegate(s, p, x, k)
    PROVE  TotalInv' /\ ActiveInv'
<1>1. /\ OnlySession(s) /\ session'[s].at = "within budget" /\ session'[s].parent = p
      /\ UNCHANGED <<child, rerun>>
  BY DelegateEffect
<1>2. Cardinality(Active(p)) < ChildCap /\ Cardinality(Total(p)) < TotalCap
  BY DEF Delegate, BudgetOk
<1>3. \A q : Total(q)' = Total(q) /\ (Active(q) \ rerun)' = Active(q) \ rerun
  BY <1>1 DEF Total, Active
<1>4. \A q \in Parent : q # p => Pending(q)' \in SUBSET Pending(q)
  BY <1>1 DEF Pending, OnlySession
<1>5. Pending(p)' \in SUBSET Session
  BY DEF Pending
<1>6. Cardinality(Pending(p)') \in Nat /\ Cardinality(Pending(p)') <= Cardinality(Session)
  BY <1>5, ThreadSets
<1>7. /\ Cardinality(Total(p)) \in Nat /\ Cardinality(Active(p)) \in Nat
      /\ Cardinality(Active(p) \ rerun) \in Nat
      /\ Cardinality(Active(p) \ rerun) <= Cardinality(Active(p))
  <2>1. IsFiniteSet(Active(p)) /\ Active(p) \ rerun \in SUBSET Active(p)
    BY SetTypes, RowSets
  <2> QED BY <2>1, SetTypes, RowSets, FS_Subset
<1>8. /\ Cardinality(Session) \in Nat /\ TotalCap \in Nat /\ ChildCap \in Nat
      /\ Overshoot = Cardinality(Session) - 1
      /\ TotalCap + Overshoot \in Int /\ ChildCap + Overshoot \in Int
  BY CapTypes
<1>9. TotalInv'
  <2> SUFFICES ASSUME NEW q \in Parent
               PROVE  TotalRoom(q)'
    BY DEF TotalInv
  <2>10. TotalRoom(q)' <=> Cardinality(Total(q)') + Cardinality(Pending(q)') <= TotalCap + Overshoot
    BY DEF TotalRoom, Overshoot
  <2>1. CASE q = p
    <3>1. Total(q)' = Total(p)
      BY <1>3, <2>1
    <3>2. Cardinality(Total(q)') \in Nat /\ Cardinality(Total(q)') < TotalCap
      BY <1>2, <1>7, <1>8, <3>1
    <3>3. Cardinality(Pending(q)') \in Nat /\ Cardinality(Pending(q)') <= Cardinality(Session)
      BY <1>6, <2>1
    <3> QED BY <1>8, <2>10, <3>2, <3>3
  <2>2. CASE q # p
    <3>1. Cardinality(Total(q)) + Cardinality(Pending(q)) <= TotalCap + Overshoot
      BY DEF TotalInv, TotalRoom
    <3>2. Total(q)' \in SUBSET Total(q) /\ Pending(q)' \in SUBSET Pending(q)
      BY <1>3, <1>4, <2>2
    <3> QED BY <1>8, <2>10, <3>1, <3>2, SetTypes, PairShrinks
  <2> QED BY <2>1, <2>2
<1>10. ActiveInv'
  <2> SUFFICES ASSUME NEW q \in Parent
               PROVE  ActiveRoom(q)'
    BY DEF ActiveInv
  <2>10. ActiveRoom(q)' <=> Cardinality((Active(q) \ rerun)') + Cardinality(Pending(q)') <= ChildCap + Overshoot
    BY DEF ActiveRoom, Overshoot
  <2>1. CASE q = p
    <3>1. (Active(q) \ rerun)' = Active(p) \ rerun
      BY <1>3, <2>1
    <3>2. Cardinality((Active(q) \ rerun)') \in Nat /\ Cardinality((Active(q) \ rerun)') < ChildCap
      <4>1. Cardinality(Active(p) \ rerun) \in Nat /\ Cardinality(Active(p) \ rerun) < ChildCap
        BY <1>2, <1>7, <1>8
      <4> QED BY <3>1, <4>1
    <3>3. Cardinality(Pending(q)') \in Nat /\ Cardinality(Pending(q)') <= Cardinality(Session)
      BY <1>6, <2>1
    <3> QED BY <1>8, <2>10, <3>2, <3>3
  <2>2. CASE q # p
    <3>1. Cardinality(Active(q) \ rerun) + Cardinality(Pending(q)) <= ChildCap + Overshoot
      BY DEF ActiveInv, ActiveRoom
    <3>2. (Active(q) \ rerun)' \in SUBSET (Active(q) \ rerun) /\ Pending(q)' \in SUBSET Pending(q)
      BY <1>3, <1>4, <2>2
    <3> QED BY <1>8, <2>10, <3>1, <3>2, SetTypes, PairShrinks
  <2> QED BY <2>1, <2>2
<1> QED BY <1>9, <1>10

LEMMA InsertKeepsCounts ==
    ASSUME TypeInv, TotalInv, ActiveInv, NEW s \in Session, Insert(s)
    PROVE  TotalInv' /\ ActiveInv'
<1> DEFINE c == Cardinality(Used) + 1
<1> HIDE DEF c
<1>1. /\ OnlySession(s) /\ session[s].at = "inserting" /\ OnlyRow(c) /\ c \in Child
      /\ child'[c].parent = session[s].parent /\ rerun' = rerun
      /\ session'[s].at \notin {"within budget", "inserting"}
  <2>1. Idle.at = "idle"
    BY DEF Idle
  <2> QED BY <2>1, InsertEffect DEF c
<1>2. \A d \in Child : d # c => child'[d] = child[d]
  BY <1>1 DEF OnlyRow
<1>3. \A t \in Session : t # s => session'[t] = session[t]
  BY <1>1 DEF OnlySession
<1>4. TotalCap + Overshoot \in Int /\ ChildCap + Overshoot \in Int
  BY CapTypes
<1>5. ASSUME NEW q \in Parent, q = session[s].parent
      PROVE  /\ s \in Pending(q) /\ Pending(q)' \in SUBSET (Pending(q) \ {s})
             /\ Total(q)' \in SUBSET (Total(q) \cup {c})
             /\ (Active(q) \ rerun)' \in SUBSET ((Active(q) \ rerun) \cup {c})
  BY <1>1, <1>2, <1>3, <1>5 DEF Pending, Total, Active
<1>6. ASSUME NEW q \in Parent, q # session[s].parent
      PROVE  /\ Pending(q)' \in SUBSET Pending(q) /\ Total(q)' \in SUBSET Total(q)
             /\ (Active(q) \ rerun)' \in SUBSET (Active(q) \ rerun)
  BY <1>1, <1>2, <1>3, <1>6 DEF Pending, Total, Active
<1>7. TotalInv'
  <2> SUFFICES ASSUME NEW q \in Parent
               PROVE  TotalRoom(q)'
    BY DEF TotalInv
  <2>10. TotalRoom(q)' <=> Cardinality(Total(q)') + Cardinality(Pending(q)') <= TotalCap + Overshoot
    BY DEF TotalRoom, Overshoot
  <2>1. Cardinality(Total(q)) + Cardinality(Pending(q)) <= TotalCap + Overshoot
    BY DEF TotalInv, TotalRoom
  <2>2. CASE q = session[s].parent
    <3>1. /\ s \in Pending(q) /\ Pending(q)' \in SUBSET (Pending(q) \ {s})
          /\ Total(q)' \in SUBSET (Total(q) \cup {c})
      BY <1>5, <2>2
    <3>2. Cardinality(Total(q)') + Cardinality(Pending(q)') <= TotalCap + Overshoot
      BY <1>1, <1>4, <2>1, <3>1, SetTypes, PairMoves
    <3> QED BY <2>10, <3>2
  <2>3. CASE q # session[s].parent
    BY <1>4, <1>6, <2>1, <2>3, <2>10, SetTypes, PairShrinks
  <2> QED BY <2>2, <2>3
<1>8. ActiveInv'
  <2> SUFFICES ASSUME NEW q \in Parent
               PROVE  ActiveRoom(q)'
    BY DEF ActiveInv
  <2>10. ActiveRoom(q)' <=> Cardinality((Active(q) \ rerun)') + Cardinality(Pending(q)') <= ChildCap + Overshoot
    BY DEF ActiveRoom, Overshoot
  <2>1. Cardinality(Active(q) \ rerun) + Cardinality(Pending(q)) <= ChildCap + Overshoot
    BY DEF ActiveInv, ActiveRoom
  <2>2. CASE q = session[s].parent
    <3>1. /\ s \in Pending(q) /\ Pending(q)' \in SUBSET (Pending(q) \ {s})
          /\ (Active(q) \ rerun)' \in SUBSET ((Active(q) \ rerun) \cup {c})
      BY <1>5, <2>2
    <3>2. Cardinality((Active(q) \ rerun)') + Cardinality(Pending(q)') <= ChildCap + Overshoot
      BY <1>1, <1>4, <2>1, <3>1, SetTypes, PairMoves
    <3> QED BY <2>10, <3>2
  <2>3. CASE q # session[s].parent
    BY <1>4, <1>6, <2>1, <2>3, <2>10, SetTypes, PairShrinks
  <2> QED BY <2>2, <2>3
<1> QED BY <1>7, <1>8

\* A step of a thread, not an insertion, that keeps its row active at most as long as it was, or
\* starts it again.
LEMMA RowStepKeepsCounts ==
    ASSUME TypeInv, TotalInv, ActiveInv, NEW s \in Session, OnlySession(s), OnlyRow(session[s].own),
           session'[s].at \notin {"within budget", "inserting"},
           child'[session[s].own].parent = child[session[s].own].parent,
           rerun \subseteq rerun',
           \/ child'[session[s].own].status \notin {"queued", "running"}
           \/ child[session[s].own].status \in {"queued", "running"}
           \/ session[s].own \in rerun'
    PROVE  TotalInv' /\ ActiveInv'
<1> DEFINE c == session[s].own
<1>1. \A d \in Child : d # c => child'[d] = child[d]
  BY DEF OnlyRow
<1>2. \A d \in Child : /\ child'[d].parent = child[d].parent
                       /\ child'[d].status \in {"queued", "running"} /\ d \notin rerun'
                            => child[d].status \in {"queued", "running"} /\ d \notin rerun
  BY <1>1
<1>3. \A t \in Session : session'[t].at \in {"within budget", "inserting"}
                            => /\ session[t].at \in {"within budget", "inserting"}
                               /\ session'[t].parent = session[t].parent
  BY DEF OnlySession
<1> QED BY <1>2, <1>3, CountsKept

LEMMA CountsStep ==
    ASSUME TypeInv, TotalInv, ActiveInv, [ChildNext]_childVars
    PROVE  TotalInv' /\ ActiveInv'
<1>1. ASSUME NEW s \in Session, NEW p \in Parent, NEW x \in Scope, NEW k \in Kind, Delegate(s, p, x, k)
      PROVE  TotalInv' /\ ActiveInv'
  BY <1>1, DelegateKeepsCounts
<1>2. ASSUME NEW s \in Session, ReadLock(s)
      PROVE  TotalInv' /\ ActiveInv'
  <2>1. /\ OnlySession(s) /\ session[s].at = "within budget"
        /\ session'[s] = [session[s] EXCEPT !.at = "inserting",
                                            !.lock = LockVerdict(session[s].scope, session[s].kind)]
        /\ UNCHANGED <<child, gateway, crashes, rerun>>
    BY <1>2, ReadLockEffect
  <2>2. session[s] \in SessionRecord
    BY ChildTyped
  <2>3. session'[s].parent = session[s].parent
    BY <2>1, <2>2 DEF SessionRecord
  <2>4. \A t \in Session : t # s => session'[t] = session[t]
    BY <2>1 DEF OnlySession
  <2> QED BY <2>1, <2>3, <2>4, CountsKept
<1>3. ASSUME NEW s \in Session, Insert(s)
      PROVE  TotalInv' /\ ActiveInv'
  BY <1>3, InsertKeepsCounts
<1>4. ASSUME NEW s \in Session, CancelRefused(s)
      PROVE  TotalInv' /\ ActiveInv'
  <2> DEFINE c == session[s].own
  <2>1. /\ OnlySession(s) /\ session[s].at = "cancelling" /\ session'[s] = Idle /\ OnlyRow(c)
        /\ child'[c] = [child[c] EXCEPT !.status = "cancelled"] /\ rerun' = rerun
    BY <1>4, CancelEffect
  <2>2. child[c] \in ChildRecord
    BY <2>1, ChildTyped, OwnTyped DEF Owning
  <2>3. child'[c].status = "cancelled" /\ child'[c].parent = child[c].parent
    BY <2>1, <2>2 DEF ChildRecord
  <2>4. session'[s].at = "idle"
    BY <2>1 DEF Idle
  <2> QED BY <2>1, <2>3, <2>4, RowStepKeepsCounts
<1>5. ASSUME NEW s \in Session, Start(s)
      PROVE  TotalInv' /\ ActiveInv'
  <2> DEFINE c == session[s].own
  <2>1. /\ OnlySession(s) /\ session[s].at = "starting"
        /\ session'[s] = [session[s] EXCEPT !.at = "executing"] /\ OnlyRow(c)
        /\ child'[c] = [child[c] EXCEPT !.status = "running", !.lock = TRUE]
        /\ rerun' = IF child[c].status \in {"done", "failed"} THEN rerun \cup {c} ELSE rerun
    BY <1>5, StartEffect
  <2>2. child[c] \in ChildRecord /\ session[s] \in SessionRecord
    BY <2>1, ChildTyped, OwnTyped DEF Owning
  <2>3. child'[c].parent = child[c].parent /\ session'[s].at = "executing"
    BY <2>1, <2>2 DEF ChildRecord, SessionRecord
  <2>4. child[c].status \in {"queued", "running", "done", "failed"}
    <3>1. OwnsRows(s)
      BY DEF TypeInv, OwnInv
    <3> QED BY <2>1, <2>2, <3>1, OwnTyped DEF OwnsRows, Owning, ChildRecord, Status
  <2> QED BY <2>1, <2>3, <2>4, RowStepKeepsCounts
<1>6. ASSUME NEW s \in Session, NEW status \in {"done", "failed"}, Finish(s, status)
      PROVE  TotalInv' /\ ActiveInv'
  <2> DEFINE c == session[s].own
  <2>1. /\ OnlySession(s) /\ session[s].at = "executing" /\ session'[s].at \in {"idle", "promoting"}
        /\ OnlyRow(c) /\ rerun' = rerun
        /\ child'[c] = [child[c] EXCEPT !.status = status, !.lock = FALSE, !.result = "output"]
    BY <1>6, FinishEffect
  <2>2. child[c] \in ChildRecord
    BY <2>1, ChildTyped, OwnTyped DEF Owning
  <2>3. child'[c].status = status /\ child'[c].parent = child[c].parent
    BY <2>1, <2>2 DEF ChildRecord
  <2> QED BY <2>1, <2>3, RowStepKeepsCounts
<1>7. ASSUME NEW s \in Session, NEW p \in Parent, Promote(s, p)
      PROVE  TotalInv' /\ ActiveInv'
  <2>1. OnlySession(s) /\ session'[s].at = "promoting" /\ UNCHANGED <<child, rerun>>
    BY <1>7, PromoteEffect
  <2> QED BY <2>1, CountsKept DEF OnlySession
<1>8. ASSUME NEW s \in Session, PromoteRead(s)
      PROVE  TotalInv' /\ ActiveInv'
  <2>1. /\ OnlySession(s) /\ session'[s].at \in {"idle", "promoting", "marking"}
        /\ UNCHANGED <<child, rerun>>
    BY <1>8, PromoteReadEffect
  <2> QED BY <2>1, CountsKept DEF OnlySession
<1>9. ASSUME NEW s \in Session, PromoteMark(s)
      PROVE  TotalInv' /\ ActiveInv'
  <2> DEFINE c == session[s].own
  <2>1. /\ OnlySession(s) /\ session[s].at = "marking" /\ OnlyRow(c) /\ rerun' = rerun
        /\ session'[s] = [session[s] EXCEPT !.at = "starting"]
        /\ child'[c] = [child[c] EXCEPT !.lock = TRUE]
    BY <1>9, PromoteMarkEffect
  <2>2. child[c] \in ChildRecord /\ session[s] \in SessionRecord
    BY <2>1, ChildTyped, OwnTyped DEF Owning
  <2>3. /\ child'[c].status = child[c].status /\ child'[c].parent = child[c].parent
        /\ session'[s].at = "starting"
    BY <2>1, <2>2 DEF ChildRecord, SessionRecord
  <2> QED BY <2>1, <2>3, RowStepKeepsCounts
<1>10. ASSUME Crash
       PROVE  TotalInv' /\ ActiveInv'
  <2>1. \A s \in Session : session'[s].at = "idle"
    BY <1>10 DEF Crash, Idle
  <2>2. UNCHANGED <<child, rerun>>
    BY <1>10 DEF Crash
  <2> QED BY <2>1, <2>2, CountsKept
<1>11. ASSUME Boot
       PROVE  TotalInv' /\ ActiveInv'
  <2>1. /\ \A c \in Child :
              \/ child'[c] = child[c]
              \/ /\ child[c].status = "running"
                 /\ child'[c] = [child[c] EXCEPT !.status = "queued", !.lock = FALSE]
        /\ UNCHANGED <<session, rerun>>
    BY <1>11, BootEffect
  <2>2. \A c \in Child : [child[c] EXCEPT !.status = "queued", !.lock = FALSE].parent = child[c].parent
    BY ChildTyped DEF ChildRecord
  <2> QED BY <2>1, <2>2, CountsKept
<1>12. CASE UNCHANGED childVars
  BY <1>12, CountsKept DEF childVars
<1> QED BY <1>1, <1>2, <1>3, <1>4, <1>5, <1>6, <1>7, <1>8, <1>9, <1>10, <1>11, <1>12
        DEF ChildNext, DelegateStep, ExecStep, PromoteStep

----------------------------------------------------------------------------
(* The writer lock. *)

\* No new holder; whoever is bound was bound, and a bound owner keeps its row.
LEMMA HoldersKept ==
    ASSUME TypeInv, HolderInv, NEW x \in Scope,
           Holders(x)' \subseteq Holders(x),
           \A t \in Session : Bound(t, x)' => Bound(t, x),
           \A t \in Session : session[t].at \in Owning /\ Bound(t, x) =>
               session'[t].at \in Owning /\ Bound(t, x)' /\ session'[t].own = session[t].own
    PROVE  \/ (Holders(x) \subseteq Owned(x))'
           \/ Cardinality(Holders(x)') <= Cardinality(Session) /\ \A s \in Session : ~Bound(s, x)'
<1>1. CASE Holders(x) \subseteq Owned(x)
  <2>1. Owned(x) \subseteq Owned(x)'
    BY DEF Owned
  <2> QED BY <1>1, <2>1
<1>2. CASE Cardinality(Holders(x)) <= Cardinality(Session) /\ \A s \in Session : ~Bound(s, x)
  <2>1. Holders(x) \in SUBSET Child /\ Holders(x)' \in SUBSET Holders(x) /\ Holders(x)' \in SUBSET Child
    BY DEF Holders
  <2>2. Cardinality(Holders(x)') <= Cardinality(Holders(x))
    BY <2>1, RowSets, FS_Subset
  <2>3. /\ Cardinality(Holders(x)) \in Nat /\ Cardinality(Holders(x)') \in Nat
        /\ Cardinality(Session) \in Nat
    BY <2>1, RowSets, ThreadSets
  <2> QED BY <1>2, <2>2, <2>3
<1> QED BY <1>1, <1>2 DEF HolderInv

\* A step of one thread that leaves the table alone and does not give it a lock.
LEMMA ThreadStepKeepsHolders ==
    ASSUME TypeInv, HolderInv, NEW s \in Session, OnlySession(s), UNCHANGED child,
           session[s].at \in {"idle", "within budget", "promoting"},
           \/ session'[s].at \in {"idle", "within budget", "promoting"}
           \/ session'[s].at = "inserting" /\ session'[s].lock # "acquired"
    PROVE  HolderInv'
<1> SUFFICES ASSUME NEW x \in Scope
             PROVE  \/ (Holders(x) \subseteq Owned(x))'
                    \/ Cardinality(Holders(x)') <= Cardinality(Session) /\ \A t \in Session : ~Bound(t, x)'
  BY DEF HolderInv
<1>1. Holders(x)' \subseteq Holders(x)
  BY DEF Holders
<1>2. \A t \in Session : t # s => session'[t] = session[t]
  BY DEF OnlySession
<1>3. ~Bound(s, x) /\ ~Bound(s, x)'
  BY DEF Bound
<1>4. \A t \in Session : t # s => (Bound(t, x)' <=> Bound(t, x))
  BY <1>2 DEF Bound
<1> QED BY <1>1, <1>2, <1>3, <1>4, HoldersKept

\* A thread that is given a lock has seen that there is no holder.
LEMMA LockGiven ==
    ASSUME TypeInv, HolderInv, NEW s \in Session, OnlySession(s), UNCHANGED child,
           session[s].at \in {"within budget", "promoting"}, NEW y,
           Holders(y) = {}, \A x : Bound(s, x)' => x = y
    PROVE  HolderInv'
<1> SUFFICES ASSUME NEW x \in Scope
             PROVE  \/ (Holders(x) \subseteq Owned(x))'
                    \/ Cardinality(Holders(x)') <= Cardinality(Session) /\ \A t \in Session : ~Bound(t, x)'
  BY DEF HolderInv
<1>1. Holders(x)' = Holders(x)
  BY DEF Holders
<1>2. CASE x = y
  BY <1>1, <1>2
<1>3. CASE x # y
  <2>1. \A t \in Session : t # s => session'[t] = session[t]
    BY DEF OnlySession
  <2>2. ~Bound(s, x) /\ ~Bound(s, x)'
    BY <1>3 DEF Bound
  <2>3. \A t \in Session : t # s => (Bound(t, x)' <=> Bound(t, x))
    BY <2>1 DEF Bound
  <2> QED BY <1>1, <2>1, <2>2, <2>3, HoldersKept
<1> QED BY <1>2, <1>3

\* A thread that starts its row, or marks it, is bound to its scope and keeps it.
LEMMA RowStepKeepsHolders ==
    ASSUME TypeInv, HolderInv, NEW s \in Session, OnlySession(s), OnlyRow(session[s].own),
           session[s].at \in {"starting", "marking"}, session'[s].at \in {"executing", "starting"},
           session'[s].own = session[s].own,
           child'[session[s].own].scope = child[session[s].own].scope
    PROVE  HolderInv'
<1> DEFINE c == session[s].own
<1> SUFFICES ASSUME NEW x \in Scope
             PROVE  \/ (Holders(x) \subseteq Owned(x))'
                    \/ Cardinality(Holders(x)') <= Cardinality(Session) /\ \A t \in Session : ~Bound(t, x)'
  BY DEF HolderInv
<1>1. \A t \in Session : t # s => session'[t] = session[t]
  BY DEF OnlySession
<1>2. \A d \in Child : d # c => child'[d] = child[d]
  BY DEF OnlyRow
<1>3. \A t \in Session : session[t].at \in Owning => session[t].own \in Child
  BY OwnTyped
<1>4. \A d \in Child : child'[d].scope = child[d].scope
  BY <1>2
<1>5. \A t \in Session : Bound(t, x)' <=> Bound(t, x)
  <2>1. Bound(s, x)' <=> Bound(s, x)
    BY DEF Bound
  <2>2. \A t \in Session : t # s => (Bound(t, x)' <=> Bound(t, x))
    BY <1>1, <1>3, <1>4 DEF Bound, Owning
  <2> QED BY <2>1, <2>2
<1>6. session[s].at \in Owning /\ session'[s].at \in Owning
  BY DEF Owning
<1>7. CASE child[c].scope = x
  <2>1. Bound(s, x)
    BY <1>7 DEF Bound
  <2>2. Holders(x) \subseteq Owned(x)
    BY <2>1 DEF HolderInv
  <2>3. Owned(x)' = Owned(x)
    BY <1>1, <1>5, <1>6 DEF Owned
  <2>4. Holders(x)' \subseteq Holders(x) \cup {c}
    BY <1>2 DEF Holders
  <2>5. c \in Owned(x)
    BY <1>6, <2>1 DEF Owned
  <2> QED BY <2>2, <2>3, <2>4, <2>5
<1>8. CASE child[c].scope # x
  <2>1. Holders(x)' \subseteq Holders(x)
    BY <1>2, <1>4, <1>8 DEF Holders
  <2> QED BY <1>1, <1>5, <1>6, <2>1, HoldersKept
<1> QED BY <1>7, <1>8

LEMMA InsertKeepsHolders ==
    ASSUME TypeInv, HolderInv, NEW s \in Session, Insert(s)
    PROVE  HolderInv'
<1> DEFINE c == Cardinality(Used) + 1
<1> HIDE DEF c
<1>1. /\ OnlySession(s) /\ session[s].at = "inserting" /\ OnlyRow(c) /\ c \in Child
      /\ child'[c].scope = session[s].scope
      /\ child'[c].lock => session[s].lock = "acquired"
      /\ \/ session[s].lock = "queued" /\ session'[s] = Idle
         \/ session[s].lock = "refused" /\ session'[s].at = "cancelling"
         \/ /\ session[s].lock \notin {"queued", "refused"} /\ session'[s].at = "starting"
            /\ session'[s].own = c
  BY InsertEffect DEF c
<1>2. c \notin Used
  <2>1. Used = 1..Cardinality(Used) /\ Cardinality(Used) \in Nat
    BY RowSets DEF TypeInv, RowsInv, Used
  <2> QED BY <2>1 DEF c
<1>3. \A t \in Session : t # s => session'[t] = session[t]
  BY <1>1 DEF OnlySession
<1>4. \A d \in Child : d # c => child'[d] = child[d]
  BY <1>1 DEF OnlyRow
<1>5. \A t \in Session : session[t].at \in Owning => session[t].own \in Child /\ session[t].own # c
  BY <1>2, OwnTyped DEF Used
<1> SUFFICES ASSUME NEW x \in Scope
             PROVE  \/ (Holders(x) \subseteq Owned(x))'
                    \/ Cardinality(Holders(x)') <= Cardinality(Session) /\ \A t \in Session : ~Bound(t, x)'
  BY DEF HolderInv
<1>6. \A t \in Session : t # s => (Bound(t, x)' <=> Bound(t, x))
  BY <1>3, <1>4, <1>5 DEF Bound, Owning
<1>7. session[s].at \notin Owning
  BY <1>1 DEF Owning
<1>8. CASE session[s].lock = "acquired" /\ session[s].scope = x
  <2>1. Bound(s, x) /\ session'[s].at = "starting" /\ session'[s].own = c
    BY <1>1, <1>8 DEF Bound
  <2>2. Holders(x) \subseteq Owned(x)
    BY <2>1 DEF HolderInv
  <2>3. Owned(x) \subseteq Owned(x)'
    BY <1>3, <1>6, <1>7 DEF Owned
  <2>4. Holders(x)' \subseteq Holders(x) \cup {c}
    BY <1>4 DEF Holders
  <2>5. c \in Owned(x)'
    <3>1. Bound(s, x)' /\ session'[s].at \in Owning
      BY <1>1, <1>8, <2>1 DEF Bound, Owning
    <3> QED BY <2>1, <3>1 DEF Owned
  <2> QED BY <2>2, <2>3, <2>4, <2>5
<1>9. CASE session[s].lock # "acquired" \/ session[s].scope # x
  <2>1. Holders(x)' \subseteq Holders(x)
    BY <1>1, <1>4, <1>9 DEF Holders
  <2>2. Bound(s, x)' => Bound(s, x)
    <3>1. session'[s].at = "starting" => session[s].lock \notin {"queued", "refused"} /\ session'[s].own = c
      BY <1>1 DEF Idle
    <3>2. session'[s].at \in {"idle", "cancelling", "starting"}
      BY <1>1 DEF Idle
    <3>3. session[s].lock \in Lock
      BY ChildTyped DEF SessionRecord
    <3>4. session[s].lock # "none"
      BY <1>1 DEF TypeInv, OwnInv, OwnsRows
    <3> QED BY <1>1, <1>9, <3>1, <3>2, <3>3, <3>4 DEF Bound, Lock
  <2> QED BY <1>3, <1>6, <1>7, <2>1, <2>2, HoldersKept
<1> QED BY <1>8, <1>9

LEMMA FinishKeepsHolders ==
    ASSUME TypeInv, HolderInv, NEW s \in Session, NEW status \in {"done", "failed"}, Finish(s, status)
    PROVE  HolderInv'
<1> DEFINE c == session[s].own
<1>1. /\ OnlySession(s) /\ session[s].at = "executing" /\ session'[s].at \in {"idle", "promoting"}
      /\ OnlyRow(c)
      /\ child'[c] = [child[c] EXCEPT !.status = status, !.lock = FALSE, !.result = "output"]
  BY FinishEffect
<1>2. c \in Child /\ child[c] \in ChildRecord
  BY <1>1, ChildTyped, OwnTyped DEF Owning
<1>3. child'[c].status = status /\ child'[c].scope = child[c].scope
  BY <1>1, <1>2 DEF ChildRecord
<1>4. \A t \in Session : t # s => session'[t] = session[t]
  BY <1>1 DEF OnlySession
<1>5. \A d \in Child : d # c => child'[d] = child[d]
  BY <1>1 DEF OnlyRow
<1>6. \A d \in Child : child'[d].scope = child[d].scope
  BY <1>3, <1>5
<1>7. \A t \in Session : session[t].at \in Owning => session[t].own \in Child
  BY OwnTyped
<1> SUFFICES ASSUME NEW x \in Scope
             PROVE  \/ (Holders(x) \subseteq Owned(x))'
                    \/ Cardinality(Holders(x)') <= Cardinality(Session) /\ \A t \in Session : ~Bound(t, x)'
  BY DEF HolderInv
<1>8. Holders(x)' \subseteq Holders(x) \ {c}
  BY <1>3, <1>5 DEF Holders
<1>9. ~Bound(s, x)'
  BY <1>1 DEF Bound
<1>10. \A t \in Session : t # s => (Bound(t, x)' <=> Bound(t, x))
  BY <1>4, <1>6, <1>7 DEF Bound, Owning
<1>11. CASE Holders(x) \subseteq Owned(x)
  <2>1. Owned(x) \ {c} \subseteq Owned(x)'
    BY <1>4, <1>10 DEF Owned
  <2> QED BY <1>8, <1>11, <2>1
<1>12. CASE \A t \in Session : ~Bound(t, x)
  <2>1. \A t \in Session : Bound(t, x)' => Bound(t, x)
    BY <1>9, <1>10
  <2>2. Holders(x)' \subseteq Holders(x)
    BY <1>8
  <2> QED BY <1>12, <2>1, <2>2, HoldersKept
<1> QED BY <1>11, <1>12 DEF HolderInv

LEMMA CancelKeepsHolders ==
    ASSUME TypeInv, HolderInv, NEW s \in Session, CancelRefused(s)
    PROVE  HolderInv'
<1> DEFINE c == session[s].own
<1>1. /\ OnlySession(s) /\ session[s].at = "cancelling" /\ session'[s] = Idle /\ OnlyRow(c)
      /\ child'[c] = [child[c] EXCEPT !.status = "cancelled"]
  BY CancelEffect
<1>2. c \in Child /\ child[c] \in ChildRecord
  BY <1>1, ChildTyped, OwnTyped DEF Owning
<1>3. child'[c].status = "cancelled" /\ child'[c].scope = child[c].scope
  BY <1>1, <1>2 DEF ChildRecord
<1>4. \A t \in Session : t # s => session'[t] = session[t]
  BY <1>1 DEF OnlySession
<1>5. \A d \in Child : d # c => child'[d] = child[d]
  BY <1>1 DEF OnlyRow
<1>6. \A d \in Child : child'[d].scope = child[d].scope
  BY <1>3, <1>5
<1>7. \A t \in Session : session[t].at \in Owning => session[t].own \in Child
  BY OwnTyped
<1> SUFFICES ASSUME NEW x \in Scope
             PROVE  \/ (Holders(x) \subseteq Owned(x))'
                    \/ Cardinality(Holders(x)') <= Cardinality(Session) /\ \A t \in Session : ~Bound(t, x)'
  BY DEF HolderInv
<1>8. Holders(x)' \subseteq Holders(x)
  BY <1>3, <1>5 DEF Holders
<1>9. ~Bound(s, x) /\ ~Bound(s, x)'
  BY <1>1 DEF Bound, Idle
<1>10. \A t \in Session : t # s => (Bound(t, x)' <=> Bound(t, x))
  BY <1>4, <1>6, <1>7 DEF Bound, Owning
<1> QED BY <1>4, <1>8, <1>9, <1>10, HoldersKept

\* The requeue releases locks and gives none.
LEMMA BootKeepsHolders ==
    ASSUME TypeInv, HolderInv, Boot
    PROVE  HolderInv'
<1>1. /\ \A c \in Child :
            \/ child'[c] = child[c]
            \/ /\ child[c].status = "running"
               /\ child'[c] = [child[c] EXCEPT !.status = "queued", !.lock = FALSE]
      /\ session' = session
  BY BootEffect
<1>2. \A c \in Child : /\ [child[c] EXCEPT !.status = "queued", !.lock = FALSE].scope = child[c].scope
                       /\ ~[child[c] EXCEPT !.status = "queued", !.lock = FALSE].lock
  BY ChildTyped DEF ChildRecord
<1>3. \A c \in Child : child'[c].scope = child[c].scope /\ (child'[c] = child[c] \/ ~child'[c].lock)
  <2> SUFFICES ASSUME NEW c \in Child
               PROVE  child'[c].scope = child[c].scope /\ (child'[c] = child[c] \/ ~child'[c].lock)
    OBVIOUS
  <2>1. CASE child'[c] = child[c]
    BY <2>1
  <2>2. CASE child'[c] = [child[c] EXCEPT !.status = "queued", !.lock = FALSE]
    BY <1>2, <2>2
  <2> QED BY <1>1, <2>1, <2>2
<1>4. \A t \in Session : session[t].at \in Owning => session[t].own \in Child
  BY OwnTyped
<1> SUFFICES ASSUME NEW x \in Scope
             PROVE  \/ (Holders(x) \subseteq Owned(x))'
                    \/ Cardinality(Holders(x)') <= Cardinality(Session) /\ \A t \in Session : ~Bound(t, x)'
  BY DEF HolderInv
<1>5. Holders(x)' \subseteq Holders(x)
  BY <1>3 DEF Holders
<1>6. \A t \in Session : Bound(t, x)' <=> Bound(t, x)
  BY <1>1, <1>3, <1>4 DEF Bound, Owning
<1> QED BY <1>1, <1>5, <1>6, HoldersKept

LEMMA HolderStep ==
    ASSUME TypeInv, HolderInv, [ChildNext]_childVars
    PROVE  HolderInv'
<1>1. ASSUME NEW s \in Session, NEW p \in Parent, NEW x \in Scope, NEW k \in Kind, Delegate(s, p, x, k)
      PROVE  HolderInv'
  BY <1>1, DelegateEffect, ThreadStepKeepsHolders
<1>2. ASSUME NEW s \in Session, ReadLock(s)
      PROVE  HolderInv'
  <2> DEFINE y == session[s].scope
  <2>1. /\ OnlySession(s) /\ session[s].at = "within budget"
        /\ session'[s] = [session[s] EXCEPT !.at = "inserting",
                                            !.lock = LockVerdict(session[s].scope, session[s].kind)]
        /\ UNCHANGED child
    BY <1>2, ReadLockEffect
  <2>2. session[s] \in SessionRecord
    BY ChildTyped
  <2>3. /\ session'[s].at = "inserting" /\ session'[s].scope = y
        /\ session'[s].lock = LockVerdict(session[s].scope, session[s].kind)
    BY <2>1, <2>2 DEF SessionRecord
  <2>4. CASE Holders(y) = {}
    <3>1. \A x : Bound(s, x)' => x = y
      BY <2>3 DEF Bound
    <3> QED BY <2>1, <2>4, <3>1, LockGiven
  <2>5. CASE Holders(y) # {}
    <3>1. session'[s].lock # "acquired"
      BY <2>3, <2>5 DEF LockVerdict
    <3> QED BY <2>1, <2>3, <3>1, ThreadStepKeepsHolders
  <2> QED BY <2>4, <2>5
<1>3. ASSUME NEW s \in Session, Insert(s)
      PROVE  HolderInv'
  BY <1>3, InsertKeepsHolders
<1>4. ASSUME NEW s \in Session, CancelRefused(s)
      PROVE  HolderInv'
  BY <1>4, CancelKeepsHolders
<1>5. ASSUME NEW s \in Session, Start(s)
      PROVE  HolderInv'
  <2> DEFINE c == session[s].own
  <2>1. /\ OnlySession(s) /\ session[s].at = "starting"
        /\ session'[s] = [session[s] EXCEPT !.at = "executing"] /\ OnlyRow(c)
        /\ child'[c] = [child[c] EXCEPT !.status = "running", !.lock = TRUE]
    BY <1>5, StartEffect
  <2>2. child[c] \in ChildRecord /\ session[s] \in SessionRecord
    BY <2>1, ChildTyped, OwnTyped DEF Owning
  <2>3. child'[c].scope = child[c].scope /\ session'[s].at = "executing" /\ session'[s].own = c
    BY <2>1, <2>2 DEF ChildRecord, SessionRecord
  <2> QED BY <2>1, <2>3, RowStepKeepsHolders
<1>6. ASSUME NEW s \in Session, NEW status \in {"done", "failed"}, Finish(s, status)
      PROVE  HolderInv'
  BY <1>6, FinishKeepsHolders
<1>7. ASSUME NEW s \in Session, NEW p \in Parent, Promote(s, p)
      PROVE  HolderInv'
  BY <1>7, PromoteEffect, ThreadStepKeepsHolders
<1>8. ASSUME NEW s \in Session, PromoteRead(s)
      PROVE  HolderInv'
  <2> DEFINE y == child[session'[s].own].scope
  <2>1. /\ OnlySession(s) /\ session[s].at = "promoting" /\ UNCHANGED child
        /\ \/ session'[s].at \in {"idle", "promoting"}
           \/ session'[s].at = "marking" /\ Holders(y) = {}
    BY <1>8, PromoteReadEffect
  <2>2. CASE session'[s].at \in {"idle", "promoting"}
    BY <2>1, <2>2, ThreadStepKeepsHolders
  <2>3. CASE session'[s].at = "marking" /\ Holders(y) = {}
    <3>1. \A x : Bound(s, x)' => x = y
      BY <2>1, <2>3 DEF Bound
    <3> QED BY <2>1, <2>3, <3>1, LockGiven
  <2> QED BY <2>1, <2>2, <2>3
<1>9. ASSUME NEW s \in Session, PromoteMark(s)
      PROVE  HolderInv'
  <2> DEFINE c == session[s].own
  <2>1. /\ OnlySession(s) /\ session[s].at = "marking" /\ OnlyRow(c)
        /\ session'[s] = [session[s] EXCEPT !.at = "starting"]
        /\ child'[c] = [child[c] EXCEPT !.lock = TRUE]
    BY <1>9, PromoteMarkEffect
  <2>2. child[c] \in ChildRecord /\ session[s] \in SessionRecord
    BY <2>1, ChildTyped, OwnTyped DEF Owning
  <2>3. child'[c].scope = child[c].scope /\ session'[s].at = "starting" /\ session'[s].own = c
    BY <2>1, <2>2 DEF ChildRecord, SessionRecord
  <2> QED BY <2>1, <2>3, RowStepKeepsHolders
<1>10. ASSUME Crash
       PROVE  HolderInv'
  <2>1. child' = child /\ \A s \in Session : session'[s].at = "idle"
    BY <1>10 DEF Crash, Idle
  <2>2. \A x : \A s \in Session : ~Bound(s, x)'
    BY <2>1 DEF Bound
  <2>3. \A x \in Scope : Cardinality(Holders(x)') <= Cardinality(Session)
    <3>1. \A x : Holders(x)' = Holders(x)
      BY <2>1 DEF Holders
    <3> QED BY <3>1, HoldersAreBounded
  <2> QED BY <2>2, <2>3 DEF HolderInv
<1>11. ASSUME Boot
       PROVE  HolderInv'
  BY <1>11, BootKeepsHolders
<1>12. CASE UNCHANGED childVars
  BY <1>12 DEF childVars, HolderInv, Holders, Owned, Bound
<1> QED BY <1>1, <1>2, <1>3, <1>4, <1>5, <1>6, <1>7, <1>8, <1>9, <1>10, <1>11, <1>12
        DEF ChildNext, DelegateStep, ExecStep, PromoteStep

----------------------------------------------------------------------------
(* The theorems. *)

LEMMA InitHolds == ASSUME ChildInit PROVE ChildInv
<1>1. /\ child = [c \in Child |-> NoChild] /\ session = [s \in Session |-> Idle]
      /\ gateway = "up" /\ crashes = 0 /\ rerun = {}
  BY DEF ChildInit
<1>2. NoChild \in ChildRecord
  <2>1. FALSE \in BOOLEAN
    OBVIOUS
  <2> QED BY <2>1 DEF NoChild, ChildRecord, Status
<1>3. Idle \in SessionRecord
  BY DEF Idle, SessionRecord, Place, Lock
<1>4. child \in [Child -> ChildRecord] /\ session \in [Session -> SessionRecord]
  BY <1>1, <1>2, <1>3
<1>5. ChildTypeOK
  <2>1. gateway \in {"up", "down"} /\ crashes \in 0..MaxCrashes /\ rerun \subseteq Child
    BY <1>1, ChildAssumption
  <2>2. child \in [Child -> ChildRecord] /\ session \in [Session -> SessionRecord]
    BY <1>4
  <2> QED BY <2>1, <2>2 DEF ChildTypeOK, ChildRecord, SessionRecord, Place
<1>6. Used = {}
  BY <1>1 DEF Used, NoChild
<1>7. RowsInv
  <2>1. Cardinality(Used) = 0
    BY <1>6, FS_EmptySet
  <2> QED BY <1>6, <2>1 DEF RowsInv
<1>8. \A s \in Session : session[s].at = "idle" /\ session[s].todo = {}
  BY <1>1 DEF Idle
<1>9. OwnInv /\ SoleInv
  BY <1>8 DEF OwnInv, OwnsRows, SoleInv, Owning
<1>10. TypeInv
  BY <1>5, <1>7, <1>9 DEF TypeInv
<1>11. \A p \in Parent : Total(p) = {} /\ Active(p) \ rerun = {} /\ Pending(p) = {}
  BY <1>1, <1>8, ChildAssumption DEF Total, Active, Pending, NoChild
<1>12. TotalInv /\ ActiveInv
  <2>1. Cardinality({}) = 0 /\ Overshoot \in Nat
    BY ThreadSets, FS_EmptySet DEF Overshoot
  <2>2. ASSUME NEW p \in Parent
        PROVE  TotalRoom(p) /\ ActiveRoom(p)
    <3>1. /\ Cardinality(Total(p)) = 0 /\ Cardinality(Active(p) \ rerun) = 0
          /\ Cardinality(Pending(p)) = 0
      BY <1>11, <2>1
    <3>2. 0 + 0 <= TotalCap + Overshoot /\ 0 + 0 <= ChildCap + Overshoot
      BY <2>1, ChildAssumption
    <3> QED BY <3>1, <3>2 DEF TotalRoom, ActiveRoom
  <2> QED BY <2>2 DEF TotalInv, ActiveInv
<1>13. HolderInv
  <2>1. \A x \in Scope : Holders(x) = {}
    BY <1>1 DEF Holders, NoChild
  <2> QED BY <2>1 DEF HolderInv
<1> QED BY <1>10, <1>12, <1>13 DEF ChildInv

THEOREM Inductive == ChildSpec => []ChildInv
<1>1. ChildInit => ChildInv
  BY InitHolds
<1>2. ChildInv /\ [ChildNext]_childVars => ChildInv'
  BY TypeStep, CountsStep, HolderStep DEF ChildInv
<1> QED BY <1>1, <1>2, PTL DEF ChildSpec

\* The table and the threads keep their types; rows fill the table from the front; and a child
\* that may still be started is never a cancelled one (child_runs, delegate_child).
THEOREM TypeCorrect == ChildSpec => [](ChildTypeOK /\ OwnInv)
<1>1. ChildInv => ChildTypeOK /\ OwnInv
  BY DEF ChildInv, TypeInv
<1> QED BY <1>1, Inductive, PTL

\* However many threads delegate and promote, and whatever crashes: children exceed CHILD_CAP
\* and CHILD_TOTAL_CAP, and holders of a scope one, by one per further thread at most
\* (_child_budget_ok, _acquire_writer_lock).
THEOREM CapsHold == ChildSpec => []CapOvershootBounded
<1>1. ChildInv => CapOvershootBounded
  <2> SUFFICES ASSUME ChildInv
               PROVE  CapOvershootBounded
    OBVIOUS
  <2>1. \A p \in Parent : /\ Cardinality(Active(p) \ rerun) <= ChildCap + Overshoot
                          /\ Cardinality(Total(p)) <= TotalCap + Overshoot
    <3> SUFFICES ASSUME NEW p \in Parent
                 PROVE  /\ Cardinality(Active(p) \ rerun) <= ChildCap + Overshoot
                        /\ Cardinality(Total(p)) <= TotalCap + Overshoot
      OBVIOUS
    <3>1. TotalRoom(p) /\ ActiveRoom(p)
      BY DEF ChildInv, TotalInv, ActiveInv
    <3>2. /\ Cardinality(Total(p)) \in Nat /\ Cardinality(Active(p) \ rerun) \in Nat
          /\ Cardinality(Pending(p)) \in Nat
      BY SetTypes, RowSets, ThreadSets
    <3>3. TotalCap + Overshoot \in Int /\ ChildCap + Overshoot \in Int
      BY CapTypes
    <3> QED BY <3>1, <3>2, <3>3 DEF TotalRoom, ActiveRoom
  <2>2. \A x \in Scope : Cardinality(Holders(x)) <= 1 + Overshoot
    <3>1. 1 + Overshoot = Cardinality(Session)
      BY CapTypes
    <3> QED BY <3>1, HoldersAreBounded DEF ChildInv
  <2> QED BY <2>1, <2>2 DEF CapOvershootBounded, Overshoot
<1> QED BY <1>1, Inductive, PTL

=============================================================================
