----------------------------- MODULE ChildRuns -----------------------------
(***************************************************************************)
(* Child runs of a plan (src/tools/goethe_planner.py): the child_runs      *)
(* table, delegate_child() and what it calls, the promotion of queued      *)
(* children, and the requeue that every starting Tools() performs.         *)
(*                                                                         *)
(* The gateway runs tool calls in threads, so several sessions delegate at *)
(* once.  A delegation reads the budget in one connection, the writer lock *)
(* in a second, and inserts its row in a third; the row is its own lock    *)
(* while it is queued or running with writer_lock set.                     *)
(*                                                                         *)
(* writer_lock is NULL or the row's own scope, so it is a Boolean here.    *)
(* A row's result is the prompt until the child's output replaces it;      *)
(* delegate_child() refuses an empty prompt.                               *)
(***************************************************************************)
EXTENDS Naturals, FiniteSets

CONSTANTS
    Session,    \* threads of the gateway
    Parent,     \* plan tasks that children are delegated under
    Scope,      \* writer-lock scopes
    NoScope,    \* not a scope
    NoParent,   \* not a parent
    ChildCap,   \* valve CHILD_CAP
    TotalCap,   \* valve CHILD_TOTAL_CAP
    MaxChild,   \* bound: rows of child_runs
    MaxCrashes  \* bound: deaths of the gateway

ASSUME ChildAssumption ==
    /\ IsFiniteSet(Session) /\ Session # {}
    /\ NoScope \notin Scope /\ NoParent \notin Parent
    /\ ChildCap \in Nat /\ TotalCap \in Nat
    /\ MaxChild \in Nat /\ MaxCrashes \in Nat

VARIABLES
    child,     \* the child_runs table, in the order of insertion
    session,   \* the call each thread is in
    gateway,   \* "up" or "down"
    crashes,   \* deaths of the gateway so far
    rerun      \* history: children that were started when they had already finished

childVars == <<child, session, gateway, crashes, rerun>>

Child  == 1..MaxChild
Kind   == {"required", "detached"}
Status == {"absent", "queued", "running", "done", "failed", "cancelled"}
Lock   == {"none", "acquired", "queued", "refused"}

NoChild == [parent |-> NoParent, scope |-> NoScope, kind |-> "none",
            status |-> "absent", lock |-> FALSE, result |-> "none"]
Idle    == [at |-> "idle", parent |-> NoParent, scope |-> NoScope, kind |-> "none",
            lock |-> "none", own |-> 0, todo |-> {}]

ChildInit ==
    /\ child = [c \in Child |-> NoChild]
    /\ session = [s \in Session |-> Idle]
    /\ gateway = "up"
    /\ crashes = 0
    /\ rerun = {}

----------------------------------------------------------------------------
Used       == {c \in Child : child[c].status # "absent"}
Active(p)  == {c \in Child : child[c].parent = p /\ child[c].status \in {"queued", "running"}}
Total(p)   == {c \in Child : child[c].parent = p}
Holders(x) == {c \in Child : child[c].scope = x /\ child[c].status \in {"queued", "running"} /\ child[c].lock}

\* Mutant: the cap is compared with >, not >=.
BudgetOkLoose(p) ==
    /\ ChildCap > 0 /\ TotalCap > 0
    /\ Cardinality(Active(p)) <= ChildCap
    /\ Cardinality(Total(p)) <= TotalCap

\* _child_budget_ok: the counts of one parent, whatever the kind.
BudgetOk(p) ==
    /\ ChildCap > 0 /\ TotalCap > 0
    /\ Cardinality(Active(p)) < ChildCap
    /\ Cardinality(Total(p)) < TotalCap

\* _acquire_writer_lock: a read, which reserves nothing.
LockVerdict(x, kind) ==
    IF Holders(x) = {} THEN "acquired"
    ELSE IF kind = "required" THEN "refused" ELSE "queued"

Enter(s, at) == session' = [session EXCEPT ![s].at = at]

\* delegate_child up to the budget; a call refused here changes nothing.
Delegate(s, p, x, kind) ==
    /\ gateway = "up" /\ session[s].at = "idle"
    /\ Cardinality(Used) < MaxChild
    /\ BudgetOk(p)
    /\ session' = [session EXCEPT ![s] = [Idle EXCEPT !.at = "within budget", !.parent = p,
                                                      !.scope = x, !.kind = kind]]
    /\ UNCHANGED <<child, gateway, crashes, rerun>>

ReadLock(s) ==
    /\ session[s].at = "within budget"
    /\ session' = [session EXCEPT ![s].at = "inserting",
                                  ![s].lock = LockVerdict(session[s].scope, session[s].kind)]
    /\ UNCHANGED <<child, gateway, crashes, rerun>>

\* The row is inserted whatever the lock said: a refused one is cancelled next, an acquired
\* one is executed next, and a queued one is left.
Insert(s) ==
    LET me == session[s]
        c  == Cardinality(Used) + 1
    IN  /\ me.at = "inserting"
        /\ c \in Child
        /\ child' = [child EXCEPT ![c] =
                [parent |-> me.parent, scope |-> me.scope, kind |-> me.kind, status |-> "queued",
                 lock |-> me.lock = "acquired", result |-> "prompt"]]
        /\ session' = [session EXCEPT ![s] =
                IF me.lock = "queued" THEN Idle
                ELSE [me EXCEPT !.own = c, !.at = IF me.lock = "refused" THEN "cancelling" ELSE "starting"]]
        /\ UNCHANGED <<gateway, crashes, rerun>>

CancelRefused(s) ==
    /\ session[s].at = "cancelling"
    /\ child' = [child EXCEPT ![session[s].own].status = "cancelled"]
    /\ session' = [session EXCEPT ![s] = Idle]
    /\ UNCHANGED <<gateway, crashes, rerun>>

\* _exec_child marks its row running, whatever state it is in, and takes the lock.
Start(s) ==
    LET c == session[s].own IN
    /\ session[s].at = "starting"
    /\ child' = [child EXCEPT ![c].status = "running", ![c].lock = TRUE]
    /\ rerun' = IF child[c].status \in {"done", "failed"} THEN rerun \cup {c} ELSE rerun
    /\ Enter(s, "executing")
    /\ UNCHANGED <<gateway, crashes>>

\* A delegation returns; a promotion goes on with its list.
After(me) == IF me.todo = {} THEN Idle ELSE [me EXCEPT !.at = "promoting", !.own = 0]

\* The child answers, or the node or the local server cannot be reached.
Finish(s, status) ==
    /\ session[s].at = "executing"
    /\ child' = [child EXCEPT ![session[s].own].status = status, ![session[s].own].lock = FALSE,
                              ![session[s].own].result = "output"]
    /\ session' = [session EXCEPT ![s] = After(session[s])]
    /\ UNCHANGED <<gateway, crashes, rerun>>

\* _promote_queued_children lists what is queued, and later looks at nothing but the lock.
Promote(s, p) ==
    LET todo == {c \in Active(p) : child[c].status = "queued" /\ child[c].kind = "detached"} IN
    /\ gateway = "up" /\ session[s].at = "idle"
    /\ todo # {}
    /\ session' = [session EXCEPT ![s] = [Idle EXCEPT !.at = "promoting", !.parent = p, !.todo = todo]]
    /\ UNCHANGED <<child, gateway, crashes, rerun>>

\* The lock of the next listed child (created has whole seconds and child_id is random, so the
\* order is any).
PromoteRead(s) ==
    LET me == session[s] IN
    /\ me.at = "promoting"
    /\ \E c \in me.todo :
          LET rest == [me EXCEPT !.todo = me.todo \ {c}] IN
          session' = [session EXCEPT ![s] =
              IF LockVerdict(child[c].scope, "detached") = "acquired"
              THEN [rest EXCEPT !.at = "marking", !.own = c]
              ELSE After(rest)]
    /\ UNCHANGED <<child, gateway, crashes, rerun>>

PromoteMark(s) ==
    /\ session[s].at = "marking"
    /\ child' = [child EXCEPT ![session[s].own].lock = TRUE]
    /\ Enter(s, "starting")
    /\ UNCHANGED <<gateway, crashes, rerun>>

----------------------------------------------------------------------------
Crash ==
    /\ gateway = "up" /\ crashes < MaxCrashes
    /\ gateway' = "down"
    /\ crashes' = crashes + 1
    /\ session' = [s \in Session |-> Idle]
    /\ UNCHANGED <<child, rerun>>

\* requeue_interrupted_children: what was running without a result.
Requeued == {c \in Child : child[c].status = "running" /\ child[c].result = "none"}

Boot ==
    /\ gateway = "down"
    /\ gateway' = "up"
    /\ child' = [c \in Child |->
            IF c \in Requeued THEN [child[c] EXCEPT !.status = "queued", !.lock = FALSE] ELSE child[c]]
    /\ UNCHANGED <<session, crashes, rerun>>

----------------------------------------------------------------------------
DelegateStep == \E s \in Session : \/ \E p \in Parent, x \in Scope, k \in Kind : Delegate(s, p, x, k)
                                   \/ ReadLock(s) \/ Insert(s) \/ CancelRefused(s)
ExecStep     == \E s \in Session : Start(s) \/ \E status \in {"done", "failed"} : Finish(s, status)
PromoteStep  == \E s \in Session : (\E p \in Parent : Promote(s, p)) \/ PromoteRead(s) \/ PromoteMark(s)

ChildNext == DelegateStep \/ ExecStep \/ PromoteStep \/ Crash \/ Boot
ChildSpec == ChildInit /\ [][ChildNext]_childVars

----------------------------------------------------------------------------
ChildTypeOK ==
    /\ child \in [Child -> [parent : Parent \cup {NoParent}, scope : Scope \cup {NoScope},
                            kind : Kind \cup {"none"}, status : Status, lock : BOOLEAN,
                            result : {"none", "prompt", "output"}]]
    /\ session \in [Session -> [at : {"idle", "within budget", "inserting", "cancelling", "starting",
                                      "executing", "promoting", "marking"},
                                parent : Parent \cup {NoParent}, scope : Scope \cup {NoScope},
                                kind : Kind \cup {"none"}, lock : Lock, own : Child \cup {0},
                                todo : SUBSET Child]]
    /\ gateway \in {"up", "down"}
    /\ crashes \in 0..MaxCrashes
    /\ rerun \subseteq Child

\* A check and the insertion it allows are apart, so sessions can pass the check together: a
\* parent's queued and running children exceed CHILD_CAP, its rows CHILD_TOTAL_CAP and the
\* holders of a scope one, by at most one per further session; whoever checks after an insertion
\* is refused or waits, and crashes do not add up.  (_child_budget_ok and _acquire_writer_lock;
\* the rows a promotion starts a second time are seen by no budget.)
CapOvershootBounded ==
    LET overshoot == Cardinality(Session) - 1 IN
    /\ \A p \in Parent : /\ Cardinality(Active(p) \ rerun) <= ChildCap + overshoot
                         /\ Cardinality(Total(p)) <= TotalCap + overshoot
    /\ \A x \in Scope : Cardinality(Holders(x)) <= 1 + overshoot
=============================================================================
