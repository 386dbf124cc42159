----------------------------- MODULE DreamCycle -----------------------------
(***************************************************************************)
(* Dream cycles (src/tools/run-dream-cycle.sh) over the store of           *)
(* TraumState: a script takes one run through the passes, each in a        *)
(* dream_runner.py process that it bounds with timeout(1).                 *)
(*                                                                         *)
(* A runner enlists an attempt, takes the dream lock, selects sessions,    *)
(* stages proposals, publishes and releases the lock.  Killed at its       *)
(* budget it leaves both behind as they are.  The lock is a file: creating *)
(* it and writing the pid into it are two steps, and so are judging it     *)
(* stale and removing it.  A script is known by its run id; one that is    *)
(* killed outright is one that takes no more steps.                        *)
(***************************************************************************)
EXTENDS TraumState, Sequences

CONSTANTS
    Cycle,         \* the cycles, each the run id of its script
    Passes,        \* the passes of a cycle, in order
    Budget,        \* GOETHE_DREAM_CYCLE_MAX_SECONDS
    PassFloor,     \* PASS_FLOOR_SECONDS
    Guarded,       \* whether the recent-session guard is on
    Signals,       \* whether scripts are sent signals (TERM or INT)
    LastCycle      \* bound: no cycle is started after this instant

ASSUME CycleAssumption ==
    /\ Cycle \subseteq Run /\ Passes \in Seq(Pass) /\ Passes # <<>>
    /\ {Budget, PassFloor} \subseteq Nat \ {0} /\ LastCycle \in Nat
    /\ {Guarded, Signals} \subseteq BOOLEAN
\* What runners ask of the store is among what the store is asked: their runs are "manual", a
\* lease is a share of the budget, and any verdict is possible.
ASSUME ClientAssumption ==
    "manual" \in Source /\ 1..Budget \subseteq LeaseRequest /\ Verdict = AttemptTerminal

VARIABLES
    script,   \* the script of each cycle
    runner,   \* the runner each script has started, which outlives it
    lock      \* the lock file: whose it is, and whether the pid is in it

cycleVars == <<script, runner, lock>>
dreamVars == <<vars, cycleVars>>

NoPid    == <<>>
NoLock   == [owner |-> NoPid, written |-> FALSE]
NoRunner == [step |-> "none", attempt |-> NoAttempt, budget |-> 0, until |-> 0, selected |-> {},
             second |-> FALSE]

CycleInit ==
    /\ Init
    /\ script = [c \in Cycle |-> [step |-> "idle", index |-> 1, deadline |-> 0,
                                  digestOk |-> FALSE, signal |-> FALSE,
                                  finalized |-> FALSE]]   \* whether a finalizer went through
    /\ runner = [c \in Cycle |-> NoRunner]
    /\ lock = NoLock

At(c, step)       == runner[c].step = step
RunnerTo(c, step) == runner' = [runner EXCEPT ![c].step = step]
ToRelease(c)      == runner' = [runner EXCEPT ![c].step = "release", ![c].selected = {}]
ScriptAt(c, step) == script[c].step = step /\ ~script[c].signal
ScriptTo(c, step) == script' = [script EXCEPT ![c].step = step]
Closed(c, step)   == script' = [script EXCEPT ![c].step = step, ![c].finalized = TRUE]

-----------------------------------------------------------------------------
(* The script. *)

Start(c) ==
    /\ ScriptAt(c, "idle") /\ now <= LastCycle
    /\ script' = [script EXCEPT ![c].step = "pass", ![c].deadline = now + Budget]
    /\ UNCHANGED <<vars, runner, lock>>

Remaining(c) == script[c].deadline - now

\* A share of what remains, not less than the floor while there is as much.
PassBudget(remaining, left) ==
    LET share == remaining \div left IN
    IF share >= PassFloor THEN share ELSE IF remaining > PassFloor THEN PassFloor ELSE remaining

StartRunner(c) ==
    LET budget == PassBudget(Remaining(c), Len(Passes) - script[c].index + 1) IN
    /\ ScriptAt(c, "pass") /\ script[c].index <= Len(Passes) /\ Remaining(c) > 0
    /\ runner' = [runner EXCEPT ![c] = [NoRunner EXCEPT !.step = "boot", !.budget = budget,
                                                        !.until = now + budget]]
    /\ ScriptTo(c, "wait")
    /\ UNCHANGED <<vars, lock>>

PassesOver(c) ==
    /\ ScriptAt(c, "pass") /\ (script[c].index > Len(Passes) \/ Remaining(c) <= 0)
    /\ ScriptTo(c, "digest")
    /\ UNCHANGED <<vars, runner, lock>>

RunDigest(c, ok) ==
    /\ ScriptAt(c, "digest") /\ (ok => Remaining(c) > 0)
    /\ script' = [script EXCEPT ![c].step = "finalize", ![c].digestOk = ok]
    /\ UNCHANGED <<vars, runner, lock>>

\* The commands of the store that follow may fail, a missing run being one reason: the script counts
\* a failure, and goes on.
FinalizeScript(c) ==
    /\ ScriptAt(c, "finalize")
    /\ \/ FinalizeCycle(c, script[c].digestOk) /\ Closed(c, "expire")
       \/ UNCHANGED vars /\ ScriptTo(c, "expire")
    /\ UNCHANGED <<runner, lock>>

Expire(c) ==
    /\ ScriptAt(c, "expire")
    /\ ExpireStaleProposals \/ UNCHANGED vars
    /\ ScriptTo(c, "done")
    /\ UNCHANGED <<runner, lock>>

\* TERM or INT: bash runs the trap once the command in the foreground is through.
Signal(c) ==
    /\ Signals /\ ~script[c].signal
    /\ script[c].step \notin {"idle", "done"}
    /\ script' = [script EXCEPT ![c].signal = TRUE]
    /\ UNCHANGED <<vars, runner, lock>>

FinalizeSignal(c) ==
    /\ script[c].signal /\ script[c].step \notin {"wait", "done"}
    /\ \/ FinalizeCancelledRun(c) /\ Closed(c, "done")
       \/ UNCHANGED vars /\ ScriptTo(c, "done")
    /\ UNCHANGED <<runner, lock>>

-----------------------------------------------------------------------------
(* The runner: main of dream_runner.py, up to the lock. *)

PassOfRunner(c) == Passes[script[c].index]
Pid(c) == <<c, script[c].index>>
Alive(pid) == pid # NoPid /\ ~At(pid[1], "none") /\ Pid(pid[1]) = pid

\* The process is gone, and a script that waits for it goes on to the next pass.
Exit(c) ==
    /\ runner' = [runner EXCEPT ![c] = NoRunner]
    /\ script' = IF script[c].step = "wait"
                 THEN [script EXCEPT ![c].step = "pass", ![c].index = @ + 1] ELSE script

\* finish_attempt where an exception is swallowed, or changes nothing that follows.
TryFinish(c, verdict) ==
    IF IsActive(runner[c].attempt) THEN FinishAttempt(runner[c].attempt, verdict, {})
    ELSE UNCHANGED vars

\* The first runner of a cycle creates the run; its config, hence the lease, is its own.
Boot(c) ==
    /\ At(c, "boot")
    /\ IF Exists(c) THEN UNCHANGED vars
       ELSE CreateRun(c, "manual", {Passes[i] : i \in 1..Len(Passes)}, runner[c].budget)
    /\ RunnerTo(c, "enlist")
    /\ UNCHANGED <<script, lock>>

Enlist(c) ==
    /\ At(c, "enlist")
    /\ \E a \in Attempt :
          /\ RunOf(a) = c /\ PassOf(a) = PassOfRunner(c)
          /\ StartAttempt(a, runner[c].budget)
          /\ runner' = [runner EXCEPT ![c].step = "guard", ![c].attempt = a]
    /\ UNCHANGED <<script, lock>>

\* create_run or start_attempt raises, outside every handler.
RunnerRefused(c) ==
    /\ \/ At(c, "boot") /\ ~Exists(c) /\ UnownedActive({}) # {}
       \/ /\ At(c, "enlist")
          /\ \/ runs[c].archived \/ runs[c].cancel \/ runs[c].state = "CANCELLED"
             \/ UnownedActive({c}) # {} \/ RunHasActiveAttempt(c)
    /\ Exit(c)
    /\ UNCHANGED <<vars, lock>>

\* The recent-session guard, after the waiting it does.
Guard(c) ==
    /\ At(c, "guard")
    /\ \/ RunnerTo(c, "lock") /\ UNCHANGED <<vars, script>>
       \/ Guarded /\ TryFinish(c, "BLOCKED") /\ Exit(c)
    /\ UNCHANGED lock

-----------------------------------------------------------------------------
(* acquire_lock and release_lock. *)

\* os.open with O_CREAT|O_EXCL: the file is there, and empty.
CreateLock(c) ==
    /\ At(c, "lock") /\ lock = NoLock
    /\ lock' = [owner |-> Pid(c), written |-> FALSE]
    /\ RunnerTo(c, "write")
    /\ UNCHANGED <<vars, script>>

\* The descriptor may by now belong to a file that was removed.
WriteLock(c) ==
    /\ At(c, "write")
    /\ lock' = IF lock.owner = Pid(c) THEN [lock EXCEPT !.written = TRUE] ELSE lock
    /\ RunnerTo(c, "check")
    /\ UNCHANGED <<vars, script>>

LockExists(c) ==
    /\ At(c, "lock") /\ lock # NoLock
    /\ RunnerTo(c, "look")
    /\ UNCHANGED <<vars, script, lock>>

\* Mutant: a file that holds a pid is never stale.
StaleIfEmpty(file) == ~file.written
\* A file that vanished or holds no pid is stale.  Its age, four hours at the least, is left
\* out: no runner lives that long.
StaleLock(file) == ~file.written \/ ~Alive(file.owner)

Look(c) ==
    /\ At(c, "look")
    /\ RunnerTo(c, IF StaleLock(lock) THEN "reclaim" ELSE "held")
    /\ UNCHANGED <<vars, script, lock>>

\* Remove whatever is there now, and try once more.
Reclaim(c) ==
    /\ At(c, "reclaim")
    /\ lock' = NoLock
    /\ runner' = [runner EXCEPT ![c].second = TRUE,
                                ![c].step = IF runner[c].second THEN "held" ELSE "lock"]
    /\ UNCHANGED <<vars, script>>

Held(c) ==
    /\ At(c, "held")
    /\ TryFinish(c, "BLOCKED")
    /\ Exit(c)
    /\ UNCHANGED lock

Release(c) ==
    /\ At(c, "release")
    /\ IF lock.owner = Pid(c) /\ lock.written THEN RunnerTo(c, "unlink") /\ UNCHANGED script
       ELSE Exit(c)
    /\ UNCHANGED <<vars, lock>>

Unlink(c) ==
    /\ At(c, "unlink")
    /\ lock' = NoLock
    /\ Exit(c)
    /\ UNCHANGED vars

-----------------------------------------------------------------------------
(* The work, under the lock. *)

\* The cancellation check, then select_undreamed_sessions.
Select(c) ==
    /\ At(c, "check")
    /\ IF runs[c].cancel
       THEN TryFinish(c, "CANCELLED") /\ ToRelease(c)
       ELSE /\ UNCHANGED vars
            /\ runner' = [runner EXCEPT ![c].step = "work", ![c].selected =
                             {s \in Session : consumed[<<PassOfRunner(c), s>>] = NoAttempt}]
    /\ UNCHANGED <<script, lock>>

\* A dependency is unavailable.
Blocked(c) ==
    /\ At(c, "work")
    /\ TryFinish(c, "BLOCKED")
    /\ ToRelease(c)
    /\ UNCHANGED <<script, lock>>

\* The drafts of a pass; out of budget it records them as rejected and will consume nothing.
Drafts(fingerprints, truncated) ==
    [f \in fingerprints |-> IF truncated THEN Fresh("SYSTEM_REJECTED", "other")
                            ELSE Fresh("STAGED", "none")]
Staged(c, truncated) ==
    runner' = [runner EXCEPT ![c].step = "staged",
                             ![c].selected = IF truncated THEN {} ELSE @]

\* Mutant: proposals are recorded for an attempt in any state.
StageAnyhow(c, fingerprints, truncated) ==
    /\ At(c, "work")
    /\ proposals' = [proposals EXCEPT ![runner[c].attempt] = [f \in Fingerprint |->
                        IF f \in fingerprints
                        THEN Stored(Drafts(fingerprints, truncated), f) ELSE @[f]]]
    /\ Staged(c, truncated)
    /\ UNCHANGED <<runs, attempts, consumed, now, script, lock>>
Stage(c, fingerprints, truncated) ==
    /\ At(c, "work")
    /\ RecordProposals(runner[c].attempt, Drafts(fingerprints, truncated))
    /\ Staged(c, truncated)
    /\ UNCHANGED <<script, lock>>

\* Publication, after a last look at the cancellation.
Publish(c, verdict) ==
    /\ At(c, "staged") /\ (runs[c].cancel <=> verdict = "CANCELLED")
    /\ FinishAttempt(runner[c].attempt, verdict,
                     IF verdict \in Consumable THEN runner[c].selected ELSE {})
    /\ ToRelease(c)
    /\ UNCHANGED <<script, lock>>

\* An exception: a call of the store is refused, or anything else goes wrong.
Raise(c) ==
    /\ runner[c].step \in {"work", "staged"}
    /\ RunnerTo(c, "fail")
    /\ UNCHANGED <<vars, script, lock>>

RunnerFails(c) ==
    /\ At(c, "fail")
    /\ TryFinish(c, "FAILED")
    /\ ToRelease(c)
    /\ UNCHANGED <<script, lock>>

\* timeout(1): the process dies where it stands.
Kill(c) ==
    /\ ~At(c, "none") /\ now >= runner[c].until
    /\ Exit(c)
    /\ UNCHANGED <<vars, lock>>

-----------------------------------------------------------------------------
(* The surroundings. *)

\* A gateway is asked for its runs, none of which it owns.
GatewayRecovers == RecoverOrphaned({}) /\ UNCHANGED cycleVars

\* traum_state.py cancel-run, by hand.
OperatorCancel(r) == ~runs[r].cancel /\ FinalizeCancelledRun(r) /\ UNCHANGED cycleVars

\* No runner outlives its budget, but for the ten seconds of --kill-after.
CycleClock ==
    /\ \A c \in Cycle : ~At(c, "none") => now < runner[c].until
    /\ Tick
    /\ UNCHANGED cycleVars

ScriptStep(c) ==
    \/ StartRunner(c)
    \/ PassesOver(c)
    \/ \E ok \in BOOLEAN : RunDigest(c, ok)
    \/ FinalizeScript(c)
    \/ Expire(c)
    \/ FinalizeSignal(c)

RunnerStep(c) ==
    \/ Boot(c) \/ Enlist(c) \/ RunnerRefused(c) \/ Guard(c)
    \/ CreateLock(c) \/ WriteLock(c) \/ LockExists(c) \/ Look(c) \/ Reclaim(c) \/ Held(c)
    \/ Select(c) \/ Blocked(c)
    \/ \E fingerprints \in SUBSET Fingerprint, truncated \in BOOLEAN :
           Stage(c, fingerprints, truncated)
    \/ \E verdict \in Consumable \cup {"CANCELLED"} : Publish(c, verdict)
    \/ Raise(c) \/ RunnerFails(c)
    \/ Release(c) \/ Unlink(c)

CycleNext ==
    \/ \E c \in Cycle : \/ Start(c) \/ ScriptStep(c) \/ Signal(c)
                        \/ RunnerStep(c) \/ Kill(c)
    \/ \E r \in Run : OperatorCancel(r)
    \/ GatewayRecovers
    \/ CycleClock

CycleSpec == CycleInit /\ [][CycleNext]_dreamVars

\* timeout(1) ends a runner that is over its budget, the clock advances, and a gateway is polled.
\* Scripts and runners may stop anywhere.
FairCycleSpec ==
    /\ CycleSpec
    /\ WF_dreamVars(CycleClock) /\ WF_dreamVars(GatewayRecovers)
    /\ \A c \in Cycle : WF_dreamVars(Kill(c))

-----------------------------------------------------------------------------
(* What a cycle promises. *)

ScriptPlace == {"idle", "pass", "wait", "digest", "finalize", "expire", "done"}
RunnerPlace == {"none", "boot", "enlist", "guard", "lock", "write", "look", "reclaim", "held",
                "check", "work", "staged", "fail", "release", "unlink"}

\* Scripts, runners and the lock file are well formed, over a well-formed store.
DreamTypeOK ==
    /\ TypeOK
    /\ script \in [Cycle -> [step : ScriptPlace, index : 1..(Len(Passes) + 1), deadline : Nat,
                             digestOk : BOOLEAN, signal : BOOLEAN, finalized : BOOLEAN]]
    /\ runner \in [Cycle -> [step : RunnerPlace, attempt : Attempt \cup {NoAttempt}, budget : Nat,
                             until : Nat, selected : SUBSET Session, second : BOOLEAN]]
    /\ lock \in [owner : (Cycle \X (1..Len(Passes))) \cup {NoPid}, written : BOOLEAN]

\* From its finalizer on, or the command that cancels it on a signal, the run of a cycle is over and
\* no attempt of it is live, whatever passes were killed, refused or never started.  A script
\* whose every such command failed may leave its run active: that is for recovery (CycleIsSettled).
FinishedCycleIsOver ==
    \A c \in Cycle : script[c].finalized => ~RunActive(c) /\ ~RunHasActiveAttempt(c)

\* A cycle that ends SUCCEEDED has completed every pass, and its digest too unless its finalizer,
\* which is what looks at the digest, failed.
SuccessMeansWholeCycle ==
    \A c \in Cycle : script[c].step = "done" /\ runs[c].state = "SUCCEEDED" =>
        /\ script[c].finalized => script[c].digestOk
        /\ \A i \in 1..Len(Passes) : LatestIn(attempts, c, Passes[i], Consumable)

\* "A late worker cannot publish proposals or a successful result after its lease/parent state
\* has been fenced" (docs/TRAUM-OPERATOR-MANUAL.md): a runner that works on after recovery
\* leaves neither an undecided proposal nor a consumed session.
FencedWorkIsSilent ==
    \A a \in Attempt : attempts[a].error = "ControllerLeaseExpired" =>
        /\ \A f \in Fingerprint :
               proposals[a][f].state \in {"ABSENT", "SYSTEM_REJECTED", "SUPERSEDED"}
        /\ \A s \in Session : consumed[<<PassOf(a), s>>] # a

\* A cycle that runs alone is never turned away by the lock, although each pass that was killed
\* left its file behind.
AloneIsNeverLockedOut ==
    \A c \in Cycle : (\A d \in Cycle \ {c} : script[d].step = "idle") => ~At(c, "held")

\* However its script and its runners end, the run of a cycle does not stay active: recovery
\* fences it, and no runner that is left revives it for good.
CycleIsSettled == \A c \in Cycle : <>[](~RunActive(c))

=============================================================================
