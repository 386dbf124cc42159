------------------------- MODULE TraumClients_proofs -------------------------
(***************************************************************************)
(* Proofs about the two clients of the store, for every value of the       *)
(* constants.  Dream cycles: scripts, runners and the lock file are well   *)
(* formed; a cycle that is through is over, and a successful one whole;    *)
(* fenced work is silent; a cycle that runs alone is not locked out.  The  *)
(* controller of the gateways: its workers are well formed, at most one of *)
(* its runs is active, and the loser of a race leaves the winner's attempt *)
(* and run alone.  Both are shown to implement the store's specification,  *)
(* so that what is proved of the store holds in their company too.         *)
(***************************************************************************)
EXTENDS DreamCycle, TraumController, TraumState_proofs, WellFoundedInduction

-----------------------------------------------------------------------------
(* Rows of the cycle's own state, and what the small steps make of them. *)

ScriptRow == [step : ScriptPlace, index : 1..(Len(Passes) + 1), deadline : Nat,
              digestOk : BOOLEAN, signal : BOOLEAN, finalized : BOOLEAN]
RunnerRow == [step : RunnerPlace, attempt : Attempt \cup {NoAttempt}, budget : Nat,
              until : Nat, selected : SUBSET Session, second : BOOLEAN]
LockFile  == [owner : (Cycle \X (1..Len(Passes))) \cup {NoPid}, written : BOOLEAN]

CycleRows == script \in [Cycle -> ScriptRow] /\ runner \in [Cycle -> RunnerRow] /\ lock \in LockFile

\* The passes are a nonempty sequence of passes.
LEMMA PassesType ==
    /\ Len(Passes) \in Nat \ {0}
    /\ \A i \in 1..Len(Passes) : Passes[i] \in Pass
BY CycleAssumption

LEMMA NoRunnerType ==
    /\ NoRunner \in RunnerRow /\ NoRunner.step = "none" /\ NoRunner.attempt = NoAttempt
    /\ NoRunner.second = FALSE
BY DEF NoRunner, RunnerRow, RunnerPlace

\* Only one field of a script's row changes at a time, but for its start and its return from a
\* runner.
LEMMA ScriptFields ==
    ASSUME NEW row \in ScriptRow, NEW step \in ScriptPlace, NEW flag \in BOOLEAN, NEW deadline \in Nat,
           NEW index \in 1..(Len(Passes) + 1)
    PROVE  /\ LET new == [row EXCEPT !.step = step] IN
                 /\ new \in ScriptRow /\ new.step = step /\ new.index = row.index
                 /\ new.deadline = row.deadline /\ new.digestOk = row.digestOk /\ new.signal = row.signal
                 /\ new.finalized = row.finalized
           /\ LET new == [row EXCEPT !.step = step, !.deadline = deadline] IN
                 /\ new \in ScriptRow /\ new.step = step /\ new.index = row.index
                 /\ new.deadline = deadline /\ new.digestOk = row.digestOk /\ new.signal = row.signal
                 /\ new.finalized = row.finalized
           /\ LET new == [row EXCEPT !.step = step, !.digestOk = flag] IN
                 /\ new \in ScriptRow /\ new.step = step /\ new.index = row.index
                 /\ new.deadline = row.deadline /\ new.digestOk = flag /\ new.signal = row.signal
                 /\ new.finalized = row.finalized
           /\ LET new == [row EXCEPT !.signal = flag] IN
                 /\ new \in ScriptRow /\ new.step = row.step /\ new.index = row.index
                 /\ new.deadline = row.deadline /\ new.digestOk = row.digestOk /\ new.signal = flag
                 /\ new.finalized = row.finalized
           /\ LET new == [row EXCEPT !.step = step, !.index = index] IN
                 /\ new \in ScriptRow /\ new.step = step /\ new.index = index
                 /\ new.deadline = row.deadline /\ new.digestOk = row.digestOk /\ new.signal = row.signal
                 /\ new.finalized = row.finalized
           /\ LET new == [row EXCEPT !.step = step, !.finalized = TRUE] IN
                 /\ new \in ScriptRow /\ new.step = step /\ new.index = row.index
                 /\ new.deadline = row.deadline /\ new.digestOk = row.digestOk
                 /\ new.finalized = TRUE
BY Zenon DEF ScriptRow

LEMMA RunnerFields ==
    ASSUME NEW row \in RunnerRow, NEW step \in RunnerPlace, NEW attempt \in Attempt \cup {NoAttempt},
           NEW selected \in SUBSET Session, NEW flag \in BOOLEAN, NEW budget \in Nat, NEW until \in Nat
    PROVE  /\ LET new == [row EXCEPT !.step = step] IN
                 /\ new \in RunnerRow /\ new.step = step /\ new.attempt = row.attempt
                 /\ new.budget = row.budget /\ new.second = row.second
           /\ LET new == [row EXCEPT !.step = step, !.attempt = attempt] IN
                 /\ new \in RunnerRow /\ new.step = step /\ new.attempt = attempt
                 /\ new.budget = row.budget /\ new.second = row.second
           /\ LET new == [row EXCEPT !.step = step, !.selected = selected] IN
                 /\ new \in RunnerRow /\ new.step = step /\ new.attempt = row.attempt
                 /\ new.budget = row.budget /\ new.second = row.second
           /\ LET new == [row EXCEPT !.second = flag, !.step = step] IN
                 /\ new \in RunnerRow /\ new.step = step /\ new.attempt = row.attempt
                 /\ new.budget = row.budget /\ new.second = flag
           /\ LET new == [row EXCEPT !.step = step, !.budget = budget, !.until = until] IN
                 /\ new \in RunnerRow /\ new.step = step /\ new.attempt = row.attempt
                 /\ new.budget = budget /\ new.second = row.second
BY Zenon DEF RunnerRow

-----------------------------------------------------------------------------
(* What each action does to the cycle's own state. *)

\* The script of c moves; no runner and not the lock.
ScriptMoves(c, step) ==
    /\ script' \in [Cycle -> ScriptRow] /\ \A d \in Cycle \ {c} : script'[d] = script[d]
    /\ script'[c].step = step /\ script'[c].index = script[c].index
    /\ UNCHANGED <<runner, lock>>
\* The runner of c goes to a step; no script.
RunnerMoves(c, step) ==
    /\ runner' \in [Cycle -> RunnerRow] /\ \A d \in Cycle \ {c} : runner'[d] = runner[d]
    /\ runner'[c].step = step /\ step # "none"
    /\ runner'[c].budget = runner[c].budget
    /\ UNCHANGED script
SameAttempt(c) == runner'[c].attempt = runner[c].attempt
\* The runner of c is gone, and its script goes on.
RunnerGone(c) ==
    /\ runner' \in [Cycle -> RunnerRow] /\ \A d \in Cycle \ {c} : runner'[d] = runner[d]
    /\ runner'[c] = NoRunner
    /\ script' \in [Cycle -> ScriptRow] /\ \A d \in Cycle \ {c} : script'[d] = script[d]
    /\ script'[c].step = "pass" /\ script'[c].index = script[c].index + 1
    /\ script'[c].deadline = script[c].deadline /\ script'[c].finalized = script[c].finalized

LEMMA ScriptToEffect ==
    ASSUME CycleRows, NEW c \in Cycle, NEW step \in ScriptPlace, ScriptTo(c, step)
    PROVE  /\ script' \in [Cycle -> ScriptRow] /\ \A d \in Cycle \ {c} : script'[d] = script[d]
           /\ script'[c].step = step /\ script'[c].index = script[c].index
           /\ script'[c].deadline = script[c].deadline /\ script'[c].digestOk = script[c].digestOk
           /\ script'[c].finalized = script[c].finalized
<1>1. script[c] \in ScriptRow /\ script \in [Cycle -> ScriptRow]
  BY DEF CycleRows
<1>2. script' = [script EXCEPT ![c] = [script[c] EXCEPT !.step = step]]
  BY DEF ScriptTo
<1>3. script'[c] = [script[c] EXCEPT !.step = step]
  BY <1>1, <1>2
<1>4. /\ [script[c] EXCEPT !.step = step] \in ScriptRow
      /\ [script[c] EXCEPT !.step = step].step = step
      /\ [script[c] EXCEPT !.step = step].index = script[c].index
      /\ [script[c] EXCEPT !.step = step].deadline = script[c].deadline
      /\ [script[c] EXCEPT !.step = step].digestOk = script[c].digestOk
      /\ [script[c] EXCEPT !.step = step].finalized = script[c].finalized
  BY <1>1, Zenon DEF ScriptRow
<1> QED BY <1>1, <1>2, <1>3, <1>4

LEMMA GotoEffect ==
    ASSUME CycleRows, NEW c \in Cycle, NEW step \in RunnerPlace \ {"none"},
           RunnerTo(c, step), UNCHANGED script
    PROVE  RunnerMoves(c, step) /\ SameAttempt(c) /\ runner'[c].second = runner[c].second
<1>1. runner[c] \in RunnerRow /\ runner \in [Cycle -> RunnerRow]
  BY DEF CycleRows
<1> DEFINE new == [runner[c] EXCEPT !.step = step]
<1>2. runner' = [runner EXCEPT ![c] = new]
  BY DEF RunnerTo
<1>3. /\ new \in RunnerRow /\ new.step = step /\ new.attempt = runner[c].attempt
      /\ new.budget = runner[c].budget /\ new.second = runner[c].second
  BY <1>1, Zenon DEF RunnerRow
<1> HIDE DEF new
<1> QED BY <1>1, <1>2, <1>3 DEF RunnerMoves, SameAttempt

LEMMA ToReleaseEffect ==
    ASSUME CycleRows, NEW c \in Cycle, ToRelease(c), UNCHANGED script
    PROVE  RunnerMoves(c, "release") /\ SameAttempt(c)
<1>1. runner[c] \in RunnerRow /\ runner \in [Cycle -> RunnerRow]
  BY DEF CycleRows
<1> DEFINE new == [runner[c] EXCEPT !.step = "release", !.selected = {}]
<1>2. runner' = [runner EXCEPT ![c] = new]
  BY DEF ToRelease
<1>3. /\ new \in RunnerRow /\ new.step = "release" /\ new.attempt = runner[c].attempt
      /\ new.budget = runner[c].budget
  BY <1>1, Zenon DEF RunnerRow, RunnerPlace
<1> HIDE DEF new
<1> QED BY <1>1, <1>2, <1>3 DEF RunnerMoves, SameAttempt

-----------------------------------------------------------------------------
(* Type correctness, with how runners and scripts go together. *)

\* A script waits exactly while its runner is there, for a pass it has; only a script that was started
\* gets a signal; a runner's budget is a share of the cycle's; and the attempt a runner holds, from
\* its enlisting on, is one of its own run.
RunnerFollowsScript ==
    \A c \in Cycle :
        /\ At(c, "none") <=> script[c].step # "wait"
        /\ script[c].step = "wait" => script[c].index <= Len(Passes)
        /\ script[c].signal => script[c].step # "idle"
        /\ script[c].step # "idle" => script[c].deadline <= now + Budget
        /\ ~At(c, "none") => runner[c].budget \in 1..Budget
        /\ runner[c].attempt # NoAttempt => RunOf(runner[c].attempt) = c
        /\ runner[c].step \notin {"none", "boot", "enlist"} => runner[c].attempt # NoAttempt

CycleInv == DreamTypeOK /\ RunnerFollowsScript

LEMMA CycleInvParts == CycleInv <=> TypeOK /\ CycleRows /\ RunnerFollowsScript
BY DEF CycleInv, DreamTypeOK, CycleRows, ScriptRow, RunnerRow, LockFile

\* A runner that is there has a pass, a budget and, once enlisted, an attempt.
LEMMA RunnerThere ==
    ASSUME CycleInv, NEW c \in Cycle, ~At(c, "none")
    PROVE  /\ script[c].step = "wait" /\ script[c].index \in 1..Len(Passes)
           /\ PassOfRunner(c) \in Pass /\ Pid(c) \in Cycle \X (1..Len(Passes))
           /\ runner[c].budget \in 1..Budget
           /\ runner[c].step \notin {"boot", "enlist"} =>
                 runner[c].attempt \in Attempt /\ RunOf(runner[c].attempt) = c
<1>1. script[c] \in ScriptRow /\ runner[c] \in RunnerRow
  BY CycleInvParts DEF CycleRows
<1>2. script[c].step = "wait" /\ script[c].index <= Len(Passes) /\ runner[c].budget \in 1..Budget
  BY DEF CycleInv, RunnerFollowsScript
<1>3. script[c].index \in 1..Len(Passes)
  BY <1>1, <1>2, PassesType DEF ScriptRow
<1>4. PassOfRunner(c) \in Pass /\ Pid(c) \in Cycle \X (1..Len(Passes))
  BY <1>3, PassesType DEF PassOfRunner, Pid
<1>5. runner[c].step \notin {"boot", "enlist"} =>
          runner[c].attempt \in Attempt /\ RunOf(runner[c].attempt) = c
  BY <1>1 DEF CycleInv, RunnerFollowsScript, At, RunnerRow
<1> QED BY <1>2, <1>3, <1>4, <1>5

LEMMA ExitEffect ==
    ASSUME CycleInv, NEW c \in Cycle, ~At(c, "none"), Exit(c)
    PROVE  RunnerGone(c)
<1>1. /\ script[c] \in ScriptRow /\ script \in [Cycle -> ScriptRow] /\ runner \in [Cycle -> RunnerRow]
      /\ script[c].step = "wait" /\ script[c].index \in 1..Len(Passes)
  BY CycleInvParts, RunnerThere DEF CycleRows
<1> DEFINE new == [script[c] EXCEPT !.step = "pass", !.index = script[c].index + 1]
<1>2. script' = [script EXCEPT ![c] = new] /\ runner' = [runner EXCEPT ![c] = NoRunner]
  BY <1>1 DEF Exit
<1>3. /\ script[c].index + 1 \in 1..(Len(Passes) + 1) /\ "pass" \in ScriptPlace
  BY <1>1, PassesType DEF ScriptPlace
<1>4. /\ new \in ScriptRow /\ new.step = "pass" /\ new.index = script[c].index + 1
      /\ new.deadline = script[c].deadline /\ new.finalized = script[c].finalized
  BY <1>1, <1>3, Zenon DEF ScriptRow
<1> HIDE DEF new
<1> QED BY <1>1, <1>2, <1>4, NoRunnerType DEF RunnerGone

\* What a step of the runner of c does to runners and scripts: it moves on, keeping its attempt or
\* finding one of its run, or it is gone.
RunnerAdvances(c) ==
    \E step \in RunnerPlace :
        /\ RunnerMoves(c, step)
        /\ \/ SameAttempt(c)
           \/ runner'[c].attempt \in Attempt /\ RunOf(runner'[c].attempt) = c
        /\ step \in {"boot", "enlist"} \/ runner'[c].attempt # NoAttempt

LEMMA MovesOn ==
    ASSUME CycleInv, NEW c \in Cycle, NEW step \in RunnerPlace,
           RunnerMoves(c, step), SameAttempt(c), step = "enlist" \/ runner[c].attempt # NoAttempt
    PROVE  RunnerAdvances(c)
BY DEF RunnerAdvances, SameAttempt

LEMMA GoesOn ==
    ASSUME CycleInv, NEW c \in Cycle, NEW step \in RunnerPlace \ {"none"},
           RunnerTo(c, step), UNCHANGED script,
           runner[c].step \notin {"none", "boot", "enlist"} \/ step = "enlist"
    PROVE  RunnerAdvances(c)
<1>1. RunnerMoves(c, step) /\ SameAttempt(c)
  BY CycleInvParts, GotoEffect
<1>2. step = "enlist" \/ runner[c].attempt # NoAttempt
  BY DEF CycleInv, RunnerFollowsScript
<1> QED BY <1>1, <1>2, MovesOn

LEMMA GoesToRelease ==
    ASSUME CycleInv, NEW c \in Cycle, ToRelease(c), UNCHANGED script,
           runner[c].step \notin {"none", "boot", "enlist"}
    PROVE  RunnerAdvances(c)
<1>1. RunnerMoves(c, "release") /\ SameAttempt(c) /\ "release" \in RunnerPlace
  BY CycleInvParts, ToReleaseEffect DEF RunnerPlace
<1>2. runner[c].attempt # NoAttempt
  BY DEF CycleInv, RunnerFollowsScript
<1> QED BY <1>1, <1>2, MovesOn

LEMMA EnlistEffect ==
    ASSUME CycleInv, NEW c \in Cycle, Enlist(c)
    PROVE  RunnerAdvances(c) /\ runner'[c].step = "guard" /\ runner'[c].second = runner[c].second
<1>1. PICK a \in Attempt :
         RunOf(a) = c /\ runner' = [runner EXCEPT ![c].step = "guard", ![c].attempt = a]
  BY DEF Enlist
<1>2. runner[c] \in RunnerRow /\ runner \in [Cycle -> RunnerRow]
  BY CycleInvParts DEF CycleRows
<1> DEFINE new == [runner[c] EXCEPT !.step = "guard", !.attempt = a]
<1>3. runner' = [runner EXCEPT ![c] = new]
  BY <1>1
<1>4. /\ new \in RunnerRow /\ new.step = "guard" /\ new.attempt = a
      /\ new.budget = runner[c].budget /\ new.second = runner[c].second /\ "guard" \in RunnerPlace
  BY <1>2, Zenon DEF RunnerRow, RunnerPlace
<1>5. a # NoAttempt
  BY DEF Attempt, NoAttempt
<1> HIDE DEF new
<1>6. /\ RunnerMoves(c, "guard") /\ runner'[c].attempt = a
      /\ runner'[c].step = "guard" /\ runner'[c].second = runner[c].second
  BY <1>2, <1>3, <1>4 DEF RunnerMoves, Enlist
<1> QED BY <1>1, <1>4, <1>5, <1>6 DEF RunnerAdvances

LEMMA ReclaimEffect ==
    ASSUME CycleInv, NEW c \in Cycle, Reclaim(c)
    PROVE  /\ RunnerMoves(c, IF runner[c].second THEN "held" ELSE "lock") /\ SameAttempt(c)
           /\ runner'[c].second = TRUE
<1> DEFINE step == IF runner[c].second THEN "held" ELSE "lock"
           new  == [runner[c] EXCEPT !.second = TRUE, !.step = step]
<1>2. runner[c] \in RunnerRow /\ runner \in [Cycle -> RunnerRow]
  BY CycleInvParts DEF CycleRows
<1>3. runner' = [runner EXCEPT ![c] = new]
  BY DEF Reclaim
<1>4. step \in RunnerPlace \ {"none"}
  BY DEF RunnerPlace
<1> HIDE DEF step
<1>5. /\ new \in RunnerRow /\ new.step = step /\ new.attempt = runner[c].attempt
      /\ new.budget = runner[c].budget /\ new.second = TRUE
  BY <1>2, <1>4, Zenon DEF RunnerRow
<1> HIDE DEF new
<1>6. RunnerMoves(c, step) /\ SameAttempt(c) /\ runner'[c].second = TRUE
  BY <1>2, <1>3, <1>4, <1>5 DEF RunnerMoves, SameAttempt, Reclaim
<1> QED BY <1>6 DEF step

LEMMA SelectEffect ==
    ASSUME CycleInv, NEW c \in Cycle, Select(c)
    PROVE  RunnerAdvances(c) /\ runner'[c].step \in {"work", "release"}
<1>0. runner[c].step = "check" /\ UNCHANGED script
  BY DEF Select, At
<1>1. CASE ToRelease(c)
  BY <1>0, <1>1, GoesToRelease, CycleInvParts, ToReleaseEffect DEF RunnerMoves
<1>2. CASE ~ToRelease(c)
  <2> DEFINE chosen == {s \in Session : consumed[<<PassOfRunner(c), s>>] = NoAttempt}
             new == [runner[c] EXCEPT !.step = "work", !.selected = chosen]
  <2>1. runner[c] \in RunnerRow /\ runner \in [Cycle -> RunnerRow]
    BY CycleInvParts DEF CycleRows
  <2>2. runner' = [runner EXCEPT ![c] = new]
    BY <1>2 DEF Select
  <2>3. chosen \in SUBSET Session /\ "work" \in RunnerPlace
    BY DEF RunnerPlace
  <2> HIDE DEF chosen
  <2>4. /\ new \in RunnerRow /\ new.step = "work" /\ new.attempt = runner[c].attempt
        /\ new.budget = runner[c].budget
    BY <2>1, <2>3, Zenon DEF RunnerRow
  <2> HIDE DEF new
  <2>5. RunnerMoves(c, "work") /\ SameAttempt(c)
    BY <1>0, <2>1, <2>2, <2>4 DEF RunnerMoves, SameAttempt
  <2>6. runner[c].attempt # NoAttempt
    BY <1>0 DEF CycleInv, RunnerFollowsScript
  <2> QED BY <2>3, <2>5, <2>6, MovesOn DEF RunnerMoves
<1> QED BY <1>1, <1>2

LEMMA StageEffect ==
    ASSUME CycleInv, NEW c \in Cycle, NEW fingerprints, NEW truncated \in BOOLEAN,
           Stage(c, fingerprints, truncated)
    PROVE  RunnerAdvances(c) /\ runner'[c].step = "staged"
<1>0. runner[c].step = "work" /\ UNCHANGED script
  BY DEF Stage, At
<1> DEFINE chosen == IF truncated THEN {} ELSE runner[c].selected
           new == [runner[c] EXCEPT !.step = "staged", !.selected = chosen]
<1>1. runner[c] \in RunnerRow /\ runner \in [Cycle -> RunnerRow]
  BY CycleInvParts DEF CycleRows
<1>2. runner' = [runner EXCEPT ![c] = new]
  BY DEF Stage, Staged
<1>3. chosen \in SUBSET Session /\ "staged" \in RunnerPlace
  BY <1>1 DEF RunnerPlace, RunnerRow
<1> HIDE DEF chosen
<1>4. /\ new \in RunnerRow /\ new.step = "staged" /\ new.attempt = runner[c].attempt
      /\ new.budget = runner[c].budget
  BY <1>1, <1>3, Zenon DEF RunnerRow
<1> HIDE DEF new
<1>5. RunnerMoves(c, "staged") /\ SameAttempt(c)
  BY <1>0, <1>1, <1>2, <1>4 DEF RunnerMoves, SameAttempt
<1>6. runner[c].attempt # NoAttempt
  BY <1>0 DEF CycleInv, RunnerFollowsScript
<1> QED BY <1>3, <1>5, <1>6, MovesOn DEF RunnerMoves

\* Every step of the runner of c moves it on or ends it.
LEMMA RunnerEffect ==
    ASSUME CycleInv, NEW c \in Cycle, RunnerStep(c) \/ Kill(c)
    PROVE  ~At(c, "none") /\ (RunnerAdvances(c) \/ RunnerGone(c))
<1> USE DEF At
<1>1. CASE Boot(c)
  BY <1>1, GoesOn DEF Boot, RunnerPlace
<1>2. CASE Enlist(c)
  BY <1>2, EnlistEffect DEF Enlist
<1>3. CASE RunnerRefused(c)
  BY <1>3, ExitEffect DEF RunnerRefused
<1>4. CASE Guard(c)
  BY <1>4, GoesOn, ExitEffect DEF Guard, RunnerPlace
<1>5. CASE CreateLock(c) \/ LockExists(c) \/ WriteLock(c)
  BY <1>5, GoesOn DEF CreateLock, LockExists, WriteLock, RunnerPlace
<1>6. CASE Look(c)
  BY <1>6, GoesOn DEF Look, RunnerPlace
<1>7. CASE Reclaim(c)
  <2>1. runner[c].step = "reclaim"
    BY <1>7 DEF Reclaim
  <2>2. runner[c].attempt # NoAttempt
    BY <2>1 DEF CycleInv, RunnerFollowsScript
  <2> QED BY <1>7, <2>1, <2>2, ReclaimEffect, MovesOn DEF RunnerPlace
<1>8. CASE Held(c) \/ Unlink(c)
  BY <1>8, ExitEffect DEF Held, Unlink
<1>9. CASE Select(c)
  BY <1>9, SelectEffect DEF Select
<1>10. CASE Blocked(c) \/ RunnerFails(c)
  BY <1>10, GoesToRelease DEF Blocked, RunnerFails
<1>11. ASSUME NEW fingerprints, NEW truncated \in BOOLEAN, Stage(c, fingerprints, truncated)
       PROVE  ~At(c, "none") /\ RunnerAdvances(c)
  BY <1>11, StageEffect DEF Stage
<1>12. ASSUME NEW verdict, Publish(c, verdict)
       PROVE  ~At(c, "none") /\ RunnerAdvances(c)
  BY <1>12, GoesToRelease DEF Publish
<1>13. CASE Raise(c)
  BY <1>13, GoesOn DEF Raise, RunnerPlace
<1>14. CASE Release(c)
  <2>1. runner[c].step = "release"
    BY <1>14 DEF Release
  <2>2. CASE RunnerTo(c, "unlink") /\ UNCHANGED script
    BY <2>1, <2>2, GoesOn DEF RunnerPlace
  <2>3. CASE Exit(c)
    BY <2>1, <2>3, ExitEffect
  <2> QED BY <1>14, <2>1, <2>2, <2>3 DEF Release
<1>15. CASE Kill(c)
  BY <1>15, ExitEffect DEF Kill
<1> QED BY <1>1, <1>2, <1>3, <1>4, <1>5, <1>6, <1>7, <1>8, <1>9, <1>10, <1>11, <1>12, <1>13,
           <1>14, <1>15 DEF RunnerStep

\* Every step keeps the lock file well formed.
LEMMA LockTyped ==
    ASSUME CycleInv, [CycleNext]_dreamVars
    PROVE  lock' \in LockFile
<1>0. lock \in LockFile
  BY CycleInvParts DEF CycleRows
<1>1. CASE lock' = lock
  BY <1>0, <1>1
<1>2. CASE lock' = NoLock
  BY <1>2 DEF NoLock, LockFile
<1>3. ASSUME NEW c \in Cycle, CreateLock(c)
      PROVE  lock' \in LockFile
  <2>1. Pid(c) \in Cycle \X (1..Len(Passes))
    BY <1>3, RunnerThere DEF CreateLock, At
  <2> QED BY <1>3, <2>1 DEF CreateLock, LockFile
<1>4. ASSUME NEW c \in Cycle, WriteLock(c)
      PROVE  lock' \in LockFile
  BY <1>0, <1>4 DEF WriteLock, LockFile
<1>5. ASSUME NEW c \in Cycle, RunnerStep(c)
      PROVE  lock' = lock \/ lock' = NoLock \/ CreateLock(c) \/ WriteLock(c)
  BY <1>5 DEF RunnerStep, Boot, Enlist, RunnerRefused, Guard, LockExists, Look, Reclaim, Held,
      Select,
              Blocked, Stage, Publish, Raise, RunnerFails, Release, Unlink
<1>6. ASSUME NEW c \in Cycle, Start(c) \/ ScriptStep(c) \/ Signal(c) \/ Kill(c)
      PROVE  lock' = lock
  BY <1>6 DEF Start, ScriptStep, StartRunner, PassesOver, RunDigest, FinalizeScript, Expire,
      FinalizeSignal,
              Signal, Kill
<1>7. CASE (\E r \in Run : OperatorCancel(r)) \/ GatewayRecovers \/ CycleClock \/ UNCHANGED dreamVars
  BY <1>1, <1>7 DEF OperatorCancel, GatewayRecovers, CycleClock, cycleVars, dreamVars
<1> QED BY <1>1, <1>2, <1>3, <1>4, <1>5, <1>6, <1>7 DEF CycleNext

\* A runner's budget is a positive share of what remains of the cycle's.
LEMMA BudgetInRange ==
    ASSUME NEW remaining \in 1..Budget, NEW left \in Nat \ {0}
    PROVE  PassBudget(remaining, left) \in 1..Budget
<1>1. Budget \in Nat /\ PassFloor \in Nat \ {0}
  BY CycleAssumption
<1>2. remaining \div left \in Int /\ remaining \div left <= remaining
  BY <1>1
<1> QED BY <1>1, <1>2 DEF PassBudget

\* Starting a runner: the script waits, and the runner boots with a budget.
LEMMA StartRunnerEffect ==
    ASSUME CycleInv, NEW c \in Cycle, StartRunner(c)
    PROVE  /\ script' \in [Cycle -> ScriptRow] /\ \A d \in Cycle \ {c} : script'[d] = script[d]
           /\ script'[c].step = "wait" /\ script'[c].index = script[c].index
           /\ script'[c].deadline = script[c].deadline /\ script[c].index <= Len(Passes)
           /\ script[c].step = "pass" /\ script'[c].finalized = script[c].finalized
           /\ runner' \in [Cycle -> RunnerRow] /\ \A d \in Cycle \ {c} : runner'[d] = runner[d]
           /\ runner'[c].step = "boot" /\ runner'[c].attempt = NoAttempt /\ runner'[c].second = FALSE
           /\ runner'[c].budget \in 1..Budget
<1> DEFINE budget == PassBudget(Remaining(c), Len(Passes) - script[c].index + 1)
           new == [NoRunner EXCEPT !.step = "boot", !.budget = budget, !.until = now + budget]
<1>1. /\ script[c] \in ScriptRow /\ script \in [Cycle -> ScriptRow] /\ runner \in [Cycle -> RunnerRow]
      /\ now \in Nat /\ CycleRows
  BY CycleInvParts DEF CycleRows, TypeOK
<1>2. /\ script[c].step = "pass" /\ script[c].index <= Len(Passes) /\ Remaining(c) > 0
      /\ runner' = [runner EXCEPT ![c] = new] /\ ScriptTo(c, "wait")
  BY DEF StartRunner, ScriptAt
<1>3. script[c].deadline <= now + Budget
  BY <1>2 DEF CycleInv, RunnerFollowsScript
<1>4. budget \in 1..Budget
  <2>1. Remaining(c) \in 1..Budget
    BY <1>1, <1>2, <1>3, CycleAssumption DEF Remaining, ScriptRow
  <2>2. Len(Passes) - script[c].index + 1 \in Nat \ {0}
    BY <1>1, <1>2, PassesType DEF ScriptRow
  <2> QED BY <2>1, <2>2, BudgetInRange
<1> HIDE DEF budget
<1>5. budget \in Nat /\ now + budget \in Nat
  BY <1>1, <1>4, CycleAssumption
<1>6. /\ new \in RunnerRow /\ new.step = "boot" /\ new.attempt = NoAttempt
      /\ new.budget = budget /\ new.second = FALSE
  <2>1. "boot" \in RunnerPlace
    BY DEF RunnerPlace
  <2> QED BY <1>5, <2>1, NoRunnerType, Zenon DEF RunnerRow
<1> HIDE DEF new
<1>7. /\ runner' \in [Cycle -> RunnerRow] /\ runner'[c] = new
      /\ \A d \in Cycle \ {c} : runner'[d] = runner[d]
  BY <1>1, <1>2, <1>6
<1>8. "wait" \in ScriptPlace
  BY DEF ScriptPlace
<1>9. /\ script' \in [Cycle -> ScriptRow] /\ \A d \in Cycle \ {c} : script'[d] = script[d]
      /\ script'[c].step = "wait" /\ script'[c].index = script[c].index
      /\ script'[c].deadline = script[c].deadline /\ script'[c].finalized = script[c].finalized
  BY <1>1, <1>2, <1>8, ScriptToEffect
<1> QED BY <1>2, <1>4, <1>6, <1>7, <1>9

\* The step a script goes to, by itself.
ScriptTarget(c, step) ==
    \/ Start(c) /\ step = "pass"
    \/ PassesOver(c) /\ step = "digest"
    \/ (\E ok \in BOOLEAN : RunDigest(c, ok)) /\ step = "finalize"
    \/ FinalizeScript(c) /\ step = "expire"
    \/ (Expire(c) \/ FinalizeSignal(c)) /\ step = "done"
    \/ Signal(c) /\ step = script[c].step

\* A finalizing command of the script of c goes through.
Finalizes(c) ==
    \/ FinalizeScript(c) /\ FinalizeCycle(c, script[c].digestOk)
    \/ FinalizeSignal(c) /\ FinalizeCancelledRun(c)

\* What a finalizing command that goes through does to the script.
LEMMA ClosedEffect ==
    ASSUME CycleRows, NEW c \in Cycle, NEW step \in ScriptPlace, Closed(c, step)
    PROVE  /\ script' \in [Cycle -> ScriptRow] /\ \A d \in Cycle \ {c} : script'[d] = script[d]
           /\ script'[c].step = step /\ script'[c].index = script[c].index
           /\ script'[c].deadline = script[c].deadline /\ script'[c].digestOk = script[c].digestOk
           /\ script'[c].finalized
<1>1. script[c] \in ScriptRow /\ script \in [Cycle -> ScriptRow]
  BY DEF CycleRows
<1> DEFINE new == [script[c] EXCEPT !.step = step, !.finalized = TRUE]
<1>2. script' = [script EXCEPT ![c] = new]
  BY DEF Closed
<1>3. /\ new \in ScriptRow /\ new.step = step /\ new.index = script[c].index
      /\ new.deadline = script[c].deadline /\ new.digestOk = script[c].digestOk
      /\ new.finalized = TRUE
  BY <1>1, Zenon DEF ScriptRow
<1> HIDE DEF new
<1> QED BY <1>1, <1>2, <1>3

\* Every step of a script but the start of a runner moves it alone, within its deadline; only the
\* digest sets its outcome, and only a finalizing command that goes through marks it so.
LEMMA ScriptEffect ==
    ASSUME CycleInv, NEW c \in Cycle, NEW step, ScriptTarget(c, step)
    PROVE  /\ ScriptMoves(c, step)
           /\ script'[c].deadline = script[c].deadline \/ script'[c].deadline = now + Budget
           /\ step # "finalize" => script'[c].digestOk = script[c].digestOk
           /\ step # "idle"
           /\ (step = "wait") <=> (script[c].step = "wait")
           /\ script[c].step = "idle" => script'[c].deadline = now + Budget
           /\ script'[c].finalized = script[c].finalized \/ (step \in {"expire", "done"} /\ Finalizes(c))
<1>1. /\ script[c] \in ScriptRow /\ script \in [Cycle -> ScriptRow] /\ runner \in [Cycle -> RunnerRow]
      /\ now \in Nat /\ CycleRows
  BY CycleInvParts DEF CycleRows, TypeOK
<1>2. {"pass", "digest", "finalize", "expire", "done"} \subseteq ScriptPlace
  BY DEF ScriptPlace
<1>3. CASE Start(c) /\ step = "pass"
  <2> DEFINE new == [script[c] EXCEPT !.step = "pass", !.deadline = now + Budget]
  <2>1. script' = [script EXCEPT ![c] = new] /\ script[c].step = "idle" /\ UNCHANGED <<runner, lock>>
    BY <1>3 DEF Start, ScriptAt
  <2>2. now + Budget \in Nat
    BY <1>1, CycleAssumption
  <2>3. /\ new \in ScriptRow /\ new.step = "pass" /\ new.index = script[c].index
        /\ new.deadline = now + Budget /\ new.digestOk = script[c].digestOk
        /\ new.finalized = script[c].finalized
    BY <1>1, <1>2, <2>2, Zenon DEF ScriptRow
  <2> HIDE DEF new
  <2> QED BY <1>1, <1>3, <2>1, <2>3 DEF ScriptMoves
<1>4. CASE (\E ok \in BOOLEAN : RunDigest(c, ok)) /\ step = "finalize"
  <2> PICK ok \in BOOLEAN : RunDigest(c, ok)
    BY <1>4
  <2> DEFINE new == [script[c] EXCEPT !.step = "finalize", !.digestOk = ok]
  <2>1. script' = [script EXCEPT ![c] = new] /\ script[c].step = "digest" /\ UNCHANGED <<runner, lock>>
    BY DEF RunDigest, ScriptAt
  <2>2. /\ new \in ScriptRow /\ new.step = "finalize" /\ new.index = script[c].index
        /\ new.deadline = script[c].deadline /\ new.finalized = script[c].finalized
    BY <1>1, <1>2, Zenon DEF ScriptRow
  <2> HIDE DEF new
  <2> QED BY <1>1, <1>4, <2>1, <2>2 DEF ScriptMoves
<1>5. CASE Signal(c) /\ step = script[c].step
  <2> DEFINE new == [script[c] EXCEPT !.signal = TRUE]
  <2>1. script' = [script EXCEPT ![c] = new] /\ script[c].step # "idle" /\ UNCHANGED <<runner, lock>>
    BY <1>5 DEF Signal
  <2>2. /\ new \in ScriptRow /\ new.step = script[c].step /\ new.index = script[c].index
        /\ new.deadline = script[c].deadline /\ new.digestOk = script[c].digestOk
        /\ new.finalized = script[c].finalized
    BY <1>1, Zenon DEF ScriptRow
  <2> HIDE DEF new
  <2> QED BY <1>1, <1>5, <2>1, <2>2 DEF ScriptMoves
<1>6. ASSUME step \in {"digest", "expire", "done"}, UNCHANGED <<runner, lock>>,
             script[c].step \notin {"idle", "wait"},
             ScriptTo(c, step) \/ (step # "digest" /\ Closed(c, step) /\ Finalizes(c))
      PROVE  /\ ScriptMoves(c, step)
             /\ script'[c].deadline = script[c].deadline /\ script'[c].digestOk = script[c].digestOk
             /\ script'[c].finalized = script[c].finalized \/ (step \in {"expire", "done"} /\ Finalizes(c))
             /\ script[c].step # "idle" /\ script[c].step # "wait"
  BY <1>1, <1>2, <1>6, ScriptToEffect, ClosedEffect DEF ScriptMoves
<1>7. CASE PassesOver(c) /\ step = "digest"
  BY <1>6, <1>7 DEF PassesOver, ScriptAt
<1>8. CASE FinalizeScript(c) /\ step = "expire"
  <2>1. ScriptTo(c, step) \/ (Closed(c, step) /\ Finalizes(c))
    BY <1>8 DEF FinalizeScript, Finalizes
  <2> QED BY <1>6, <1>8, <2>1 DEF FinalizeScript, ScriptAt
<1>9. CASE Expire(c) /\ step = "done"
  BY <1>6, <1>9 DEF Expire, ScriptAt
<1>10. CASE FinalizeSignal(c) /\ step = "done"
  <2>1. script[c].step # "idle"
    BY <1>10 DEF FinalizeSignal, CycleInv, RunnerFollowsScript
  <2>2. ScriptTo(c, step) \/ (Closed(c, step) /\ Finalizes(c))
    BY <1>10 DEF FinalizeSignal, Finalizes
  <2> QED BY <1>6, <1>10, <2>1, <2>2 DEF FinalizeSignal
<1> QED BY <1>3, <1>4, <1>5, <1>7, <1>8, <1>9, <1>10 DEF ScriptTarget

\* What the step of the cycle does to the cycle's own state, whoever takes it.
LEMMA CycleEffect ==
    ASSUME CycleInv, [CycleNext]_dreamVars
    PROVE  \/ UNCHANGED <<script, runner>>
           \/ \E c \in Cycle, step \in ScriptPlace : ScriptTarget(c, step)
           \/ \E c \in Cycle : StartRunner(c)
           \/ \E c \in Cycle : (RunnerStep(c) \/ Kill(c)) /\ (RunnerAdvances(c) \/ RunnerGone(c))
<1>1. ASSUME NEW c \in Cycle, Start(c) \/ ScriptStep(c) \/ Signal(c)
      PROVE  StartRunner(c) \/ \E step \in ScriptPlace : ScriptTarget(c, step)
  <2>1. script[c].step \in ScriptPlace
    BY CycleInvParts DEF CycleRows, ScriptRow
  <2> QED BY <1>1, <2>1 DEF ScriptStep, ScriptTarget, ScriptPlace
<1>2. ASSUME NEW c \in Cycle, RunnerStep(c) \/ Kill(c)
      PROVE  RunnerAdvances(c) \/ RunnerGone(c)
  BY <1>2, RunnerEffect
<1>3. CASE (\E r \in Run : OperatorCancel(r)) \/ GatewayRecovers \/ CycleClock \/ UNCHANGED dreamVars
  BY <1>3 DEF OperatorCancel, GatewayRecovers, CycleClock, cycleVars, dreamVars
<1> QED BY <1>1, <1>2, <1>3 DEF CycleNext

\* Time does not run backwards.
LEMMA ClockForward ==
    ASSUME CycleInv, [CycleNext]_dreamVars
    PROVE  now' = now \/ now' = now + 1
<1>1. ASSUME NEW a, NEW verdict, NEW sessions,
             FinishAttempt(a, verdict, sessions) \/ UNCHANGED vars
      PROVE  now' = now
  BY <1>1 DEF FinishAttempt, vars
<1>2. ASSUME NEW c, TryFinish(c, "BLOCKED") \/ TryFinish(c, "FAILED") \/ TryFinish(c, "CANCELLED")
      PROVE  now' = now
  BY <1>1, <1>2 DEF TryFinish
<1>3. ASSUME NEW c \in Cycle, Start(c) \/ ScriptStep(c) \/ Signal(c) \/ Kill(c)
      PROVE  now' = now
  BY <1>3 DEF Start, ScriptStep, StartRunner, PassesOver, RunDigest, FinalizeScript, FinalizeCycle,
      Expire,
              ExpireStaleProposals, FinalizeSignal, FinalizeCancelledRun, Signal, Kill, vars
<1>4. ASSUME NEW c \in Cycle, RunnerStep(c)
      PROVE  now' = now
  <2>1. CASE Boot(c) \/ Enlist(c) \/ RunnerRefused(c) \/ CreateLock(c) \/ WriteLock(c) \/ LockExists(c)
             \/ Look(c) \/ Reclaim(c) \/ Raise(c) \/ Release(c) \/ Unlink(c)
    BY <2>1 DEF Boot, CreateRun, Enlist, StartAttempt, RunnerRefused, CreateLock, WriteLock,
        LockExists, Look,
                Reclaim, Raise, Release, Unlink, vars
  <2>2. CASE Guard(c) \/ Held(c) \/ Blocked(c) \/ RunnerFails(c) \/ Select(c)
    BY <1>2, <2>2 DEF Guard, Held, Blocked, RunnerFails, Select, vars
  <2>3. ASSUME NEW fingerprints, NEW truncated, Stage(c, fingerprints, truncated)
        PROVE  now' = now
    BY <2>3 DEF Stage, RecordProposals
  <2>4. ASSUME NEW verdict, Publish(c, verdict)
        PROVE  now' = now
    BY <1>1, <2>4 DEF Publish
  <2> QED BY <1>4, <2>1, <2>2, <2>3, <2>4 DEF RunnerStep
<1>5. CASE (\E r \in Run : OperatorCancel(r)) \/ GatewayRecovers \/ CycleClock \/ UNCHANGED dreamVars
  BY <1>5 DEF OperatorCancel, FinalizeCancelledRun, GatewayRecovers, RecoverOrphaned, CycleClock,
      Tick, dreamVars, vars
<1> QED BY <1>3, <1>4, <1>5 DEF CycleNext

LEMMA RowsStep ==
    ASSUME CycleInv, [CycleNext]_dreamVars
    PROVE  CycleRows'
<1>1. CycleRows
  BY CycleInvParts
<1>2. lock' \in LockFile
  BY LockTyped
<1>3. CASE UNCHANGED <<script, runner>>
  BY <1>1, <1>2, <1>3 DEF CycleRows
<1>4. ASSUME NEW c \in Cycle, NEW step, ScriptTarget(c, step)
      PROVE  script' \in [Cycle -> ScriptRow] /\ runner' \in [Cycle -> RunnerRow]
  BY <1>1, <1>4, ScriptEffect DEF ScriptMoves, CycleRows
<1>5. ASSUME NEW c \in Cycle, StartRunner(c)
      PROVE  script' \in [Cycle -> ScriptRow] /\ runner' \in [Cycle -> RunnerRow]
  BY <1>5, StartRunnerEffect
<1>6. ASSUME NEW c \in Cycle, RunnerAdvances(c) \/ RunnerGone(c)
      PROVE  script' \in [Cycle -> ScriptRow] /\ runner' \in [Cycle -> RunnerRow]
  BY <1>1, <1>6 DEF RunnerAdvances, RunnerMoves, RunnerGone, CycleRows
<1>7. script' \in [Cycle -> ScriptRow] /\ runner' \in [Cycle -> RunnerRow]
  BY <1>1, <1>3, <1>4, <1>5, <1>6, CycleEffect DEF CycleRows
<1> QED BY <1>2, <1>7 DEF CycleRows

LEMMA FollowsStep ==
    ASSUME CycleInv, [CycleNext]_dreamVars
    PROVE  RunnerFollowsScript'
<1> DEFINE Follows(c) ==
        /\ At(c, "none") <=> script[c].step # "wait"
        /\ script[c].step = "wait" => script[c].index <= Len(Passes)
        /\ script[c].signal => script[c].step # "idle"
        /\ script[c].step # "idle" => script[c].deadline <= now + Budget
        /\ ~At(c, "none") => runner[c].budget \in 1..Budget
        /\ runner[c].attempt # NoAttempt => RunOf(runner[c].attempt) = c
        /\ runner[c].step \notin {"none", "boot", "enlist"} => runner[c].attempt # NoAttempt
<1>1. CycleRows /\ CycleRows' /\ now \in Nat /\ now' \in Nat /\ now' >= now
  BY CycleInvParts, RowsStep, ClockForward DEF TypeOK
<1>2. \A c \in Cycle : Follows(c)
  BY DEF CycleInv, RunnerFollowsScript
<1>3. ASSUME NEW c \in Cycle, UNCHANGED <<script[c], runner[c]>>
      PROVE  Follows(c)'
  <2>1. script[c].deadline \in Nat
    BY <1>1 DEF CycleRows, ScriptRow
  <2> QED BY <1>1, <1>2, <1>3, <2>1, CycleAssumption DEF At
<1>4. ASSUME NEW c \in Cycle, NEW step, ScriptTarget(c, step)
      PROVE  Follows(c)'
  <2>1. /\ script'[c].step = step /\ script'[c].index = script[c].index /\ step # "idle"
        /\ script'[c].deadline = script[c].deadline \/ script'[c].deadline = now + Budget
        /\ (step = "wait") <=> (script[c].step = "wait")
        /\ script[c].step = "idle" => script'[c].deadline = now + Budget
        /\ runner'[c] = runner[c]
    BY <1>4, ScriptEffect DEF ScriptMoves
  <2>2. script[c].deadline \in Nat
    BY <1>1 DEF CycleRows, ScriptRow
  <2>3. script'[c].deadline <= now' + Budget
    BY <1>1, <1>2, <2>1, <2>2, CycleAssumption
  <2> QED BY <1>2, <2>1, <2>3 DEF At
<1>5. ASSUME NEW c \in Cycle, StartRunner(c)
      PROVE  Follows(c)'
  <2>1. /\ script'[c].step = "wait" /\ script'[c].index = script[c].index
        /\ script'[c].deadline = script[c].deadline /\ script[c].index <= Len(Passes)
        /\ script[c].step = "pass"
        /\ runner'[c].step = "boot" /\ runner'[c].attempt = NoAttempt
        /\ runner'[c].budget \in 1..Budget
    BY <1>5, StartRunnerEffect
  <2>2. script[c].deadline \in Nat
    BY <1>1 DEF CycleRows, ScriptRow
  <2>3. script'[c].deadline <= now' + Budget
    BY <1>1, <1>2, <2>1, <2>2, CycleAssumption
  <2> QED BY <2>1, <2>3 DEF At
<1>6. ASSUME NEW c \in Cycle, RunnerStep(c) \/ Kill(c), RunnerAdvances(c)
      PROVE  Follows(c)'
  <2>1. ~At(c, "none") /\ script[c].step = "wait" /\ script[c].deadline \in Nat
    BY <1>1, <1>6, RunnerEffect, RunnerThere DEF CycleRows, ScriptRow
  <2>2. PICK step \in RunnerPlace :
        /\ RunnerMoves(c, step)
        /\ \/ SameAttempt(c)
           \/ runner'[c].attempt \in Attempt /\ RunOf(runner'[c].attempt) = c
        /\ step \in {"boot", "enlist"} \/ runner'[c].attempt # NoAttempt
    BY <1>6 DEF RunnerAdvances
  <2> QED BY <1>1, <1>2, <2>1, <2>2, CycleAssumption DEF At, RunnerMoves, SameAttempt
<1>7. ASSUME NEW c \in Cycle, RunnerStep(c) \/ Kill(c), RunnerGone(c)
      PROVE  Follows(c)'
  <2>1. ~At(c, "none") /\ script[c].step = "wait" /\ script[c].deadline \in Nat
    BY <1>1, <1>7, RunnerEffect, RunnerThere DEF CycleRows, ScriptRow
  <2> QED BY <1>1, <1>2, <1>7, <2>1, NoRunnerType, CycleAssumption DEF At, RunnerGone
<1>8. ASSUME NEW c \in Cycle, NEW d \in Cycle \ {c},
             \/ \E step : ScriptTarget(c, step)
             \/ StartRunner(c)
             \/ RunnerAdvances(c) \/ RunnerGone(c)
      PROVE  UNCHANGED <<script[d], runner[d]>>
  BY <1>8, ScriptEffect, StartRunnerEffect
     DEF ScriptMoves, RunnerAdvances, RunnerMoves, RunnerGone
<1> HIDE DEF Follows
<1>9. \A c \in Cycle : Follows(c)'
  BY <1>3, <1>4, <1>5, <1>6, <1>7, <1>8, CycleEffect
<1> QED BY <1>9 DEF RunnerFollowsScript, Follows

-----------------------------------------------------------------------------
(* A cycle is a client of the store: each of its steps is a step of the store or none.  *)

PassSet == {Passes[i] : i \in 1..Len(Passes)}

\* What the runner of c may do to the store.
RunnerWork(c) ==
    \/ \E lease \in 1..Budget : CreateRun(c, "manual", PassSet, lease)
    \/ \E a \in Attempt, lease \in 1..Budget : RunOf(a) = c /\ StartAttempt(a, lease)
    \/ \E a \in Attempt, verdict \in AttemptTerminal, sessions \in SUBSET Session :
           RunOf(a) = c /\ FinishAttempt(a, verdict, sessions)
    \/ \E a \in Attempt, fingerprints \in SUBSET Fingerprint, truncated \in BOOLEAN :
           RunOf(a) = c /\ RecordProposals(a, Drafts(fingerprints, truncated))

\* What any step may do to it: a runner that is there works, a script finalizes its cycle, or the
\* surroundings move.
StoreStep ==
    \/ \E c \in Cycle : ~At(c, "none") /\ RunnerWork(c)
    \/ \E c \in Cycle : /\ script[c].step = "finalize" /\ Exists(c)
                        /\ FinalizeCycle(c, script[c].digestOk)
    \/ \E r \in Run : FinalizeCancelledRun(r)
    \/ ExpireStaleProposals
    \/ RecoverOrphaned({})
    \/ Tick
    \/ UNCHANGED vars

LEMMA TryFinishWork ==
    ASSUME CycleInv, NEW c \in Cycle, runner[c].step \notin {"none", "boot", "enlist"},
           NEW verdict \in AttemptTerminal, TryFinish(c, verdict)
    PROVE  RunnerWork(c) \/ UNCHANGED vars
<1>1. runner[c].attempt \in Attempt /\ RunOf(runner[c].attempt) = c
  BY RunnerThere DEF At
<1> QED BY <1>1 DEF TryFinish, RunnerWork

LEMMA RunnerStepWork ==
    ASSUME CycleInv, NEW c \in Cycle, RunnerStep(c) \/ Kill(c)
    PROVE  ~At(c, "none") /\ (RunnerWork(c) \/ UNCHANGED vars)
<1>0. ~At(c, "none") /\ runner[c].budget \in 1..Budget
  BY RunnerEffect, RunnerThere
<1>1. {"BLOCKED", "FAILED", "CANCELLED", "SUCCEEDED", "NULL"} \subseteq AttemptTerminal
  BY DEF AttemptTerminal, AttemptState, ActiveState
<1>2. CASE Boot(c)
  BY <1>0, <1>2 DEF Boot, RunnerWork, PassSet
<1>3. CASE Enlist(c)
  BY <1>0, <1>3 DEF Enlist, RunnerWork
<1>4. CASE Guard(c)
  BY <1>1, <1>4, TryFinishWork DEF Guard, At
<1>5. CASE Held(c)
  BY <1>1, <1>5, TryFinishWork DEF Held, At
<1>6. CASE Select(c)
  BY <1>1, <1>6, TryFinishWork DEF Select, At
<1>7. CASE Blocked(c)
  BY <1>1, <1>7, TryFinishWork DEF Blocked, At
<1>8. CASE RunnerFails(c)
  BY <1>1, <1>8, TryFinishWork DEF RunnerFails, At
<1>9. ASSUME NEW fingerprints \in SUBSET Fingerprint, NEW truncated \in BOOLEAN,
             Stage(c, fingerprints, truncated)
      PROVE  RunnerWork(c)
  <2>1. runner[c].attempt \in Attempt /\ RunOf(runner[c].attempt) = c
    BY <1>9, RunnerThere DEF At, Stage
  <2> QED BY <1>9, <2>1 DEF Stage, RunnerWork
<1>10. ASSUME NEW verdict \in Consumable \cup {"CANCELLED"}, Publish(c, verdict)
       PROVE  RunnerWork(c)
  <2>1. runner[c].attempt \in Attempt /\ RunOf(runner[c].attempt) = c
    BY <1>10, RunnerThere DEF At, Publish
  <2>2. runner[c].selected \in SUBSET Session
    BY CycleInvParts DEF CycleRows, RunnerRow
  <2>3. (IF verdict \in Consumable THEN runner[c].selected ELSE {}) \in SUBSET Session
    BY <2>2
  <2>4. verdict \in AttemptTerminal
    BY <1>1 DEF Consumable
  <2> QED BY <1>10, <2>1, <2>3, <2>4 DEF Publish, RunnerWork
<1>11. CASE RunnerRefused(c) \/ CreateLock(c) \/ WriteLock(c) \/ LockExists(c) \/ Look(c) \/ Reclaim(c)
            \/ Raise(c) \/ Release(c) \/ Unlink(c) \/ Kill(c)
  BY <1>0, <1>11 DEF RunnerRefused, CreateLock, WriteLock, LockExists, Look, Reclaim, Raise,
      Release, Unlink,
                     Kill
<1>12. RunnerWork(c) \/ UNCHANGED vars
  <2>1. CASE \E fingerprints \in SUBSET Fingerprint, truncated \in BOOLEAN :
                 Stage(c, fingerprints, truncated)
    BY <1>9, <2>1
  <2>2. CASE \E verdict \in Consumable \cup {"CANCELLED"} : Publish(c, verdict)
    BY <1>10, <2>2
  <2> QED BY <1>2, <1>3, <1>4, <1>5, <1>6, <1>7, <1>8, <1>11, <2>1, <2>2 DEF RunnerStep
<1> QED BY <1>0, <1>12

LEMMA StoreSteps ==
    ASSUME CycleInv, [CycleNext]_dreamVars
    PROVE  StoreStep
<1>1. ASSUME NEW c \in Cycle, RunnerStep(c) \/ Kill(c)
      PROVE  StoreStep
  BY <1>1, RunnerStepWork DEF StoreStep
<1>2. ASSUME NEW c \in Cycle, Start(c) \/ ScriptStep(c) \/ Signal(c)
      PROVE  StoreStep
  <2>1. c \in Run
    BY CycleAssumption
  <2>2. CASE FinalizeScript(c)
    BY <2>2 DEF FinalizeScript, FinalizeCycle, ScriptAt, StoreStep
  <2>3. CASE Expire(c)
    BY <2>3 DEF Expire, StoreStep
  <2>4. CASE FinalizeSignal(c)
    BY <2>1, <2>4 DEF FinalizeSignal, StoreStep
  <2>5. CASE \/ Start(c) \/ StartRunner(c) \/ PassesOver(c) \/ Signal(c)
             \/ \E ok \in BOOLEAN : RunDigest(c, ok)
    BY <2>5 DEF Start, StartRunner, PassesOver, RunDigest, Signal, StoreStep
  <2> QED BY <1>2, <2>2, <2>3, <2>4, <2>5 DEF ScriptStep
<1>3. CASE (\E r \in Run : OperatorCancel(r)) \/ GatewayRecovers \/ CycleClock \/ UNCHANGED dreamVars
  BY <1>3 DEF OperatorCancel, GatewayRecovers, CycleClock, dreamVars, StoreStep
<1> QED BY <1>1, <1>2, <1>3 DEF CycleNext

\* The drafts of a pass are a legal batch, unless there are none.
LEMMA DraftsLegal ==
    ASSUME NEW fingerprints \in SUBSET Fingerprint, NEW truncated \in BOOLEAN
    PROVE  /\ DOMAIN Drafts(fingerprints, truncated) = fingerprints
           /\ LegalBatch(Drafts(fingerprints, truncated))
           /\ fingerprints # {} => Drafts(fingerprints, truncated) \in Batches
<1> DEFINE batch == Drafts(fingerprints, truncated)
           allowed == UNION {Annotations(f) : f \in fingerprints}
<1>1. DOMAIN batch = fingerprints
  BY DEF Drafts
<1>2. \A f \in fingerprints : batch[f] \in Annotations(f)
  BY DEF Drafts, Annotations
<1>3. batch \in [fingerprints -> allowed]
  <2>1. \A f \in fingerprints : batch[f] \in allowed
    BY <1>2
  <2>2. batch = [f \in fingerprints |-> batch[f]]
    BY DEF Drafts
  <2> HIDE DEF batch, allowed
  <2> QED BY <2>1, <2>2
<1>4. ASSUME fingerprints # {} PROVE batch \in Batches
  <2>1. fingerprints \in (SUBSET Fingerprint) \ {{}}
    BY <1>4
  <2> HIDE DEF batch
  <2> QED BY <1>3, <2>1 DEF Batches
<1> QED BY <1>1, <1>2, <1>4 DEF LegalBatch

LEMMA RunnerWorkIsStoreStep ==
    ASSUME CycleInv, NEW c \in Cycle, RunnerWork(c)
    PROVE  [Next]_vars
<1>0. /\ TypeOK /\ c \in Run /\ 1..Budget \subseteq LeaseRequest
      /\ Verdict = AttemptTerminal /\ "manual" \in Source
  BY CycleInvParts, CycleAssumption, ClientAssumption
<1>1. PassSet \in (SUBSET Pass) \ {{}}
  <2>1. 1 \in 1..Len(Passes)
    BY PassesType
  <2>2. Passes[1] \in PassSet
    BY <2>1 DEF PassSet
  <2>3. PassSet \subseteq Pass
    BY PassesType DEF PassSet
  <2> QED BY <2>2, <2>3
<1>2. ASSUME NEW lease \in 1..Budget, CreateRun(c, "manual", PassSet, lease)
      PROVE  Next
  BY <1>0, <1>1, <1>2 DEF Next, RunStep
<1>3. ASSUME NEW a \in Attempt, NEW lease \in 1..Budget, StartAttempt(a, lease)
      PROVE  Next
  BY <1>0, <1>3 DEF Next, AttemptStep
<1>4. ASSUME NEW a \in Attempt, NEW verdict \in AttemptTerminal, NEW sessions \in SUBSET Session,
             FinishAttempt(a, verdict, sessions)
      PROVE  Next
  BY <1>0, <1>4 DEF Next, AttemptStep
<1>5. ASSUME NEW a \in Attempt, NEW fingerprints \in SUBSET Fingerprint, NEW truncated \in BOOLEAN,
             RecordProposals(a, Drafts(fingerprints, truncated))
      PROVE  [Next]_vars
  <2>1. CASE fingerprints = {}
    <3>1. DOMAIN Drafts(fingerprints, truncated) = {}
      BY <2>1, DraftsLegal
    <3>2. proposals \in [Attempt -> [Fingerprint -> ProposalRow]]
      BY <1>0 DEF TypeOK
    <3>3. proposals' = [proposals EXCEPT ![a] = [f \in Fingerprint |-> proposals[a][f]]]
      BY <1>5, <3>1 DEF RecordProposals
    <3>4. [f \in Fingerprint |-> proposals[a][f]] = proposals[a]
      BY <3>2
    <3>5. proposals' = proposals
      BY <3>2, <3>3, <3>4
    <3> QED BY <1>5, <3>5 DEF RecordProposals, vars
  <2>2. CASE fingerprints # {}
    <3>1. a \in {b \in Attempt : attempts[b].state = "RUNNING"}
      BY <1>5 DEF RecordProposals
    <3> QED BY <1>5, <2>2, <3>1, DraftsLegal DEF Next, ProposalStep
  <2> QED BY <2>1, <2>2
<1> QED BY <1>2, <1>3, <1>4, <1>5 DEF RunnerWork

\* Each step of a cycle, a runner or recovery is a step of the store or leaves it alone.
LEMMA StoreStepIsNext == CycleInv /\ [CycleNext]_dreamVars => [Next]_vars
<1> SUFFICES ASSUME CycleInv, [CycleNext]_dreamVars PROVE [Next]_vars
  OBVIOUS
<1>1. StoreStep
  BY StoreSteps
<1>2. ASSUME NEW c \in Cycle, script[c].step = "finalize", FinalizeCycle(c, script[c].digestOk)
      PROVE  Next
  <2>1. script[c].digestOk \in BOOLEAN /\ c \in Run
    BY CycleInvParts, CycleAssumption DEF CycleRows, ScriptRow
  <2> QED BY <1>2, <2>1 DEF Next, RunStep
<1>3. ASSUME NEW r \in Run, FinalizeCancelledRun(r)
      PROVE  Next
  BY <1>3 DEF Next, RunStep
<1>4. CASE ExpireStaleProposals \/ RecoverOrphaned({}) \/ Tick
  BY <1>4 DEF Next, ProposalStep
<1> QED BY <1>1, <1>2, <1>3, <1>4, RunnerWorkIsStoreStep DEF StoreStep

\* The invariant of scripts, runners and lock is inductive.
LEMMA CycleStep == CycleInv /\ [CycleNext]_dreamVars => CycleInv'
<1> SUFFICES ASSUME CycleInv, [CycleNext]_dreamVars PROVE CycleInv'
  OBVIOUS
<1>1. TypeOK'
  BY StoreStepIsNext, TypeStep, CycleInvParts
<1>2. CycleRows' /\ RunnerFollowsScript'
  BY RowsStep, FollowsStep
<1> QED BY <1>1, <1>2 DEF CycleInv, DreamTypeOK, CycleRows, ScriptRow, RunnerRow, LockFile

LEMMA CycleInvInit == CycleInit => CycleInv
<1> SUFFICES ASSUME CycleInit PROVE CycleInv
  OBVIOUS
<1>1. TypeOK
  BY TypeInit DEF CycleInit
<1>2. CycleRows
  BY NoRunnerType, PassesType DEF CycleInit, CycleRows, ScriptRow, ScriptPlace, NoLock, LockFile
<1>3. RunnerFollowsScript
  BY NoRunnerType DEF CycleInit, RunnerFollowsScript, At
<1> QED BY <1>1, <1>2, <1>3, CycleInvParts

LEMMA CycleAlways == CycleSpec => []CycleInv
BY CycleInvInit, CycleStep, PTL DEF CycleSpec

\* Scripts, runners and the lock file are always well formed, over a well-formed store.
THEOREM CycleTypeCorrect == CycleSpec => []DreamTypeOK
<1>1. CycleInv => DreamTypeOK
  BY DEF CycleInv
<1> QED BY <1>1, CycleAlways, PTL

\* A dream cycle is a client of the store: whatever scripts, runners, timeouts and signals do, the
\* store takes only steps its own specification allows, so that all it promises holds for cycles.
THEOREM CycleUsesStore == CycleSpec => Spec
<1>1. CycleInit => Init
  BY DEF CycleInit
<1> QED BY <1>1, StoreStepIsNext, CycleAlways, PTL DEF CycleSpec, Spec

-----------------------------------------------------------------------------
(* Fenced work is silent.  The invariant says of every attempt what its proposals may be while *)
(* it is not completed: no operator decides about a draft, so it is staged or resolved at once. *)

\* Nothing is drafted before the attempt starts, drafts are at most staged until it is completed, and
\* none is staged once it is fenced.
Silent(a, f) ==
    /\ attempts[a].state = "ABSENT" => proposals[a][f].state = "ABSENT"
    /\ attempts[a].state \notin Consumable =>
           proposals[a][f].state \in {"ABSENT", "STAGED", "SYSTEM_REJECTED", "SUPERSEDED"}
    /\ attempts[a].error = "ControllerLeaseExpired" => proposals[a][f].state # "STAGED"
SilentInv == FencedIsOver /\ ConsumptionSound /\ \A a \in Attempt, f \in Fingerprint : Silent(a, f)

\* Recovery fences an attempt and rejects what it had staged, or leaves both alone.
LEMMA RecoverySilent ==
    ASSUME TypeOK, SilentInv, NEW owned \in SUBSET Run, NEW a \in Attempt, NEW f \in Fingerprint,
           \/ /\ attempts'[a] = RecoveredAttempts(owned)[a]
              /\ proposals'[a][f] = RecoveredProposals(owned)[a][f]
           \/ attempts'[a] = attempts[a] /\ proposals'[a][f] = proposals[a][f]
    PROVE  Silent(a, f)'
<1>0. attempts[a] \in AttemptRow /\ proposals[a][f] \in ProposalRow /\ Silent(a, f)
  BY DEF TypeOK, SilentInv
<1>1. /\ LeaseExpired(attempts[a]).state = "BLOCKED"
      /\ LeaseExpired(attempts[a]).error = "ControllerLeaseExpired"
      /\ SystemRejected(proposals[a][f], "other").state = "SYSTEM_REJECTED"
  BY <1>0 DEF LeaseExpired, SystemRejected, AttemptRow, ProposalRow
<1>2. CASE attempts'[a] = attempts[a] /\ proposals'[a][f] = proposals[a][f]
  BY <1>0, <1>2 DEF Silent
<1>3. CASE /\ attempts'[a] = RecoveredAttempts(owned)[a]
           /\ proposals'[a][f] = RecoveredProposals(owned)[a][f]
  <2>1. CASE RunOf(a) \in Recovered(owned) /\ IsActive(a)
    <3>1. attempts'[a] = LeaseExpired(attempts[a])
      BY <1>3, <2>1 DEF RecoveredAttempts
    <3>2. proposals'[a][f].state =
             IF proposals[a][f].state \in Undecided THEN "SYSTEM_REJECTED" ELSE proposals[a][f].state
      BY <1>1, <1>3, <2>1 DEF RecoveredProposals
    <3>3. attempts[a].state \notin Consumable
      BY <2>1 DEF IsActive, ActiveState, Consumable
    <3> QED BY <1>0, <1>1, <3>1, <3>2, <3>3 DEF Silent, Undecided
  <2>2. CASE ~IsActive(a) /\ NeverStarted(a)
    <3>1. attempts'[a] = attempts[a] \/ attempts'[a] = LeaseExpired(attempts[a])
      BY <1>3 DEF RecoveredAttempts
    <3>2. proposals'[a][f] = proposals[a][f] /\ proposals[a][f].state = "ABSENT"
      BY <1>0, <1>3, <2>2 DEF RecoveredProposals, NeverStarted, Silent
    <3> QED BY <3>1, <3>2 DEF Silent
  <2>3. CASE RunOf(a) \notin Recovered(owned) \/ (~IsActive(a) /\ ~NeverStarted(a))
    <3>1. attempts'[a] = attempts[a] /\ proposals'[a][f] = proposals[a][f]
      BY <1>3, <2>3 DEF RecoveredAttempts, RecoveredProposals
    <3> QED BY <1>0, <3>1 DEF Silent
  <2> QED BY <2>1, <2>2, <2>3
<1> QED BY <1>2, <1>3

\* A new run disturbs attempts only through the recovery its admission makes.
LEMMA CreateSilent ==
    ASSUME TypeOK, SilentInv, NEW r \in Run, NEW source, NEW passes, NEW lease,
           CreateRun(r, source, passes, lease), NEW a \in Attempt, NEW f \in Fingerprint
    PROVE  Silent(a, f)'
<1>1. CASE source \in ControllerSource
  BY <1>1, RecoverySilent DEF CreateRun, Admission, AdmittedAttempts
<1>2. CASE source \notin ControllerSource
  BY <1>2, RecoverySilent DEF CreateRun, Admission, AdmittedAttempts
<1> QED BY <1>1, <1>2

\* An attempt that starts has no drafts; the others change only through recovery.
LEMMA StartSilent ==
    ASSUME TypeOK, SilentInv, NEW b \in Attempt, NEW lease, StartAttempt(b, lease),
           NEW a \in Attempt, NEW f \in Fingerprint
    PROVE  Silent(a, f)'
<1> DEFINE r == RunOf(b)
<1>1. /\ r \in Run /\ r \notin Recovered({r})
      /\ AdmittedAttempts(ByController(r), {r}) \in [Attempt -> AttemptRow]
  <2>1. r \in Run
    BY AttemptKey
  <2> QED BY <2>1, RecoveryType DEF AdmittedAttempts, TypeOK, Recovered, Tracked
<1>2. CASE a = b
  <2>1. attempts'[a].state = "RUNNING" /\ attempts'[a].error = "none" /\ attempts[a].state = "ABSENT"
    BY <1>1, <1>2 DEF StartAttempt, IsNextAttempt
  <2>2. proposals'[a][f] = proposals[a][f]
    BY <1>1, <1>2 DEF StartAttempt, Admission, RecoveredProposals
  <2>3. proposals[a][f].state = "ABSENT"
    BY <2>1 DEF SilentInv, Silent
  <2> QED BY <2>1, <2>2, <2>3 DEF Silent
<1>3. CASE a # b
  <2>1. attempts'[a] = AdmittedAttempts(ByController(r), {r})[a]
    BY <1>1, <1>3 DEF StartAttempt
  <2>2. CASE ByController(r)
    BY <1>1, <2>1, <2>2, RecoverySilent DEF StartAttempt, Admission, AdmittedAttempts
  <2>3. CASE ~ByController(r)
    BY <1>1, <2>1, <2>3, RecoverySilent DEF StartAttempt, Admission, AdmittedAttempts
  <2> QED BY <2>2, <2>3
<1> QED BY <1>2, <1>3

\* A verdict decides all that is staged, and only a completed attempt has rows left to decide.
LEMMA FinishSilent ==
    ASSUME TypeOK, SilentInv, NEW b \in Attempt, NEW verdict \in AttemptTerminal, NEW sessions,
           FinishAttempt(b, verdict, sessions), NEW a \in Attempt, NEW f \in Fingerprint
    PROVE  Silent(a, f)'
<1>0. attempts[a] \in AttemptRow /\ proposals[a][f] \in ProposalRow /\ Silent(a, f)
  BY DEF TypeOK, SilentInv
<1>1. CASE a = b
  <2>1. attempts'[a].state = verdict /\ attempts'[a].error = attempts[a].error
    BY <1>0, <1>1 DEF FinishAttempt, TypeOK, AttemptRow
  <2>2. attempts[a].state \in ActiveState /\ attempts[a].error = "none"
    BY <1>1 DEF FinishAttempt, IsActive, SilentInv, FencedIsOver, AttemptTerminal
  <2>3. proposals'[a][f] = FinishedProposals(a, verdict)[f]
    BY <1>1 DEF FinishAttempt, TypeOK
  <2>4. verdict \notin Consumable =>
           proposals'[a][f].state =
             IF proposals[a][f].state \in Undecided THEN "SYSTEM_REJECTED" ELSE proposals[a][f].state
    <3>1. SystemRejected(proposals[a][f], "other").state = "SYSTEM_REJECTED"
      BY <1>0 DEF SystemRejected, ProposalRow
    <3> QED BY <2>3, <3>1 DEF FinishedProposals
  <2> QED BY <1>0, <2>1, <2>2, <2>4
          DEF Silent, Undecided, ActiveState, Consumable, AttemptTerminal, AttemptState
<1>2. CASE a # b
  BY <1>0, <1>2 DEF FinishAttempt, TypeOK, Silent
<1> QED BY <1>1, <1>2

\* Drafts are staged only under a live attempt.
LEMMA RecordSilent ==
    ASSUME TypeOK, SilentInv, NEW b \in Attempt, NEW fingerprints \in SUBSET Fingerprint,
           NEW truncated \in BOOLEAN, RecordProposals(b, Drafts(fingerprints, truncated)),
           NEW a \in Attempt, NEW f \in Fingerprint
    PROVE  Silent(a, f)'
<1> DEFINE batch == Drafts(fingerprints, truncated)
<1>0. Silent(a, f) /\ attempts'[a] = attempts[a]
  BY DEF SilentInv, RecordProposals
<1>1. CASE a = b /\ f \in fingerprints
  <2>1. DOMAIN batch = fingerprints /\ LegalBatch(batch) /\ batch \in Batches
    BY <1>1, DraftsLegal
  <2>2. proposals'[a][f] = Stored(batch, f)
    BY <1>1, <2>1 DEF RecordProposals, TypeOK
  <2>3. Stored(batch, f).state \in {"STAGED", "SYSTEM_REJECTED", "SUPERSEDED"}
    BY <1>1, <2>1, StoredState
  <2>4. attempts[a].state = "RUNNING"
    BY <1>1 DEF RecordProposals
  <2>5. attempts[a].error = "none"
    BY <2>4 DEF SilentInv, FencedIsOver, AttemptTerminal, ActiveState
  <2> QED BY <1>0, <2>2, <2>3, <2>4, <2>5 DEF Silent
<1>2. CASE ~(a = b /\ f \in fingerprints)
  <2>1. proposals'[a][f] = proposals[a][f]
    BY <1>2, DraftsLegal DEF RecordProposals, TypeOK
  <2> QED BY <1>0, <2>1 DEF Silent
<1> QED BY <1>1, <1>2

\* The finalizers leave rows staged, but fence nothing.
LEMMA EndedSilent ==
    ASSUME TypeOK, SilentInv, NEW r, NEW verdict \in {"BLOCKED", "CANCELLED"},
           NEW error \in {"none", "ControllerDeadline"},
           attempts' = EndedAttempts(r, verdict, error), proposals' = proposals,
           NEW a \in Attempt, NEW f \in Fingerprint
    PROVE  Silent(a, f)'
<1>0. attempts[a] \in AttemptRow /\ Silent(a, f)
  BY DEF TypeOK, SilentInv
<1>1. CASE IsActive(a) /\ RunOf(a) = r
  <2>1. attempts'[a].state = verdict /\ attempts'[a].error = error
    BY <1>0, <1>1 DEF EndedAttempts, AttemptRow
  <2> QED BY <1>0, <1>1, <2>1 DEF Silent, IsActive, ActiveState, Consumable
<1>2. CASE ~(IsActive(a) /\ RunOf(a) = r)
  BY <1>0, <1>2 DEF EndedAttempts, Silent
<1> QED BY <1>1, <1>2

\* Expiry decides rows and stages none.
LEMMA ExpireSilent ==
    ASSUME TypeOK, SilentInv, ExpireStaleProposals, NEW a \in Attempt, NEW f \in Fingerprint
    PROVE  Silent(a, f)'
<1>0. Silent(a, f) /\ proposals[a][f] \in ProposalRow /\ attempts' = attempts
  BY DEF SilentInv, TypeOK, ExpireStaleProposals
<1>1. CASE Stale(proposals[a][f])
  <2>1. attempts[a].state \in Consumable
    BY <1>0, <1>1 DEF Silent, Stale
  <2>2. proposals'[a][f].state = "EXPIRED"
    BY <1>0, <1>1 DEF ExpireStaleProposals, ProposalRow
  <2> QED BY <1>0, <2>1, <2>2 DEF Silent, Consumable
<1>2. CASE ~Stale(proposals[a][f])
  BY <1>0, <1>2 DEF ExpireStaleProposals, Silent
<1> QED BY <1>1, <1>2

LEMMA SilentStep == CycleInv /\ SilentInv /\ [CycleNext]_dreamVars /\ ConsumptionSound' => SilentInv'
<1> SUFFICES ASSUME CycleInv, SilentInv, [CycleNext]_dreamVars, ConsumptionSound' PROVE SilentInv'
  OBVIOUS
<1>0. TypeOK /\ [Next]_vars /\ StoreStep
  BY CycleInvParts, StoreStepIsNext, StoreSteps
<1>1. FencedIsOver'
  BY <1>0, FencedStep DEF SilentInv
<1> SUFFICES ASSUME NEW a \in Attempt, NEW f \in Fingerprint PROVE Silent(a, f)'
  BY <1>1 DEF SilentInv
<1>2. ASSUME NEW c \in Cycle, RunnerWork(c)
      PROVE  Silent(a, f)'
  <2>1. c \in Run
    BY CycleAssumption
  <2> QED BY <1>0, <1>2, <2>1, CreateSilent, StartSilent, FinishSilent, RecordSilent DEF RunnerWork
<1>3. ASSUME NEW r, FinalizeCancelledRun(r)
      PROVE  Silent(a, f)'
  <2>1. attempts' = EndedAttempts(r, "CANCELLED", "none") /\ proposals' = proposals
    BY <1>3 DEF FinalizeCancelledRun
  <2> QED BY <1>0, <2>1, EndedSilent
<1>4. ASSUME NEW r, NEW digestOk, FinalizeCycle(r, digestOk)
      PROVE  Silent(a, f)'
  <2>1. attempts' = EndedAttempts(r, "BLOCKED", "ControllerDeadline") /\ proposals' = proposals
    BY <1>4 DEF FinalizeCycle
  <2> QED BY <1>0, <2>1, EndedSilent
<1>5. CASE ExpireStaleProposals
  BY <1>0, <1>5, ExpireSilent
<1>6. CASE RecoverOrphaned({})
  <2>1. attempts' = RecoveredAttempts({}) /\ proposals' = RecoveredProposals({})
    BY <1>6 DEF RecoverOrphaned
  <2>2. attempts'[a] = RecoveredAttempts({})[a] /\ proposals'[a][f] = RecoveredProposals({})[a][f]
    BY <2>1
  <2>3. {} \in SUBSET Run
    OBVIOUS
  <2> QED BY <1>0, <2>2, <2>3, RecoverySilent
<1>7. CASE Tick \/ UNCHANGED vars
  <2>1. attempts' = attempts /\ proposals' = proposals
    BY <1>7 DEF Tick, vars
  <2> QED BY <2>1 DEF SilentInv, Silent
<1> QED BY <1>0, <1>1, <1>2, <1>3, <1>4, <1>5, <1>6, <1>7 DEF StoreStep

\* A worker that goes on after its attempt was fenced leaves neither an undecided proposal nor a
\* consumed session: "A late worker cannot publish proposals or a successful result".
THEOREM LateWorkersAreSilent == CycleSpec => []FencedWorkIsSilent
<1>1. CycleInit => SilentInv
  BY DEF CycleInit, Init, NoRow, NoProposal, SilentInv, FencedIsOver, ConsumptionSound, Silent
<1>2. SilentInv => FencedWorkIsSilent
  <2> SUFFICES ASSUME SilentInv, NEW a \in Attempt, attempts[a].error = "ControllerLeaseExpired"
               PROVE  /\ \A f \in Fingerprint :
                             proposals[a][f].state \in {"ABSENT", "SYSTEM_REJECTED", "SUPERSEDED"}
                      /\ \A s \in Session : consumed[<<PassOf(a), s>>] # a
    BY DEF FencedWorkIsSilent
  <2>1. attempts[a].state \notin Consumable
    BY DEF SilentInv, FencedIsOver
  <2>2. a # NoAttempt /\ PassOf(a) \in Pass
    <3>1. PassOf(a) \in Pass
      BY AttemptKey
    <3>2. a # NoAttempt
      BY DEF Attempt, NoAttempt
    <3> QED BY <3>1, <3>2
  <2>3. ASSUME NEW f \in Fingerprint
        PROVE  proposals[a][f].state \in {"ABSENT", "SYSTEM_REJECTED", "SUPERSEDED"}
    BY <2>1 DEF SilentInv, Silent
  <2>4. ASSUME NEW s \in Session, consumed[<<PassOf(a), s>>] = a
        PROVE  FALSE
    <3>1. <<PassOf(a), s>> \in Pass \X Session
      BY <2>2
    <3>2. attempts[consumed[<<PassOf(a), s>>]].state \in Consumable
      BY <2>2, <2>4, <3>1 DEF SilentInv, ConsumptionSound
    <3> QED BY <2>1, <2>4, <3>2
  <2> QED BY <2>3, <2>4
<1>3. CycleSpec => []ConsumptionSound
  BY CycleUsesStore, SoundConsumption, PTL
<1> QED BY <1>1, <1>2, <1>3, SilentStep, CycleAlways, PTL DEF CycleSpec

-----------------------------------------------------------------------------
(* A cycle that is through is over, and a successful one is whole.  What runs and attempts of a *)
(* cycle become is traced through the steps cycles make of the store.                           *)

RunsHavePasses   == \A c \in Cycle : Exists(c) => runs[c].passes = PassSet
\* From its finalizing on a cycle is over, and successful only with its digest; no runner follows.
OverFromFinalize ==
    \A c \in Cycle : script[c].finalized =>
        /\ script[c].step \in {"expire", "done"}
        /\ ~RunActive(c) /\ ~RunHasActiveAttempt(c)
        /\ runs[c].state = "SUCCEEDED" => script[c].digestOk
OverInv == AttemptsHaveRuns /\ RunsHavePasses /\ OverFromFinalize

\* Recovery does not touch a run that is not active.
LEMMA RecoverySpares ==
    ASSUME NEW owned \in SUBSET Run, NEW r \in Run, ~RunActive(r)
    PROVE  /\ RecoveredRuns(owned)[r] = runs[r]
           /\ \A a \in Attempt : RunOf(a) = r => RecoveredAttempts(owned)[a] = attempts[a]
<1>1. r \notin Recovered(owned)
  BY DEF Recovered, Tracked
<1> QED BY <1>1 DEF RecoveredRuns, RecoveredAttempts

\* What a step leaves of a run it is not about: its row and its attempts as they are, or as
\* recovery leaves them.
SetAside(r) ==
    \E owned \in SUBSET Run :
        /\ runs'[r] = runs[r] \/ runs'[r] = RecoveredRuns(owned)[r]
        /\ \A a \in Attempt : RunOf(a) = r =>
               attempts'[a] = attempts[a] \/ attempts'[a] = RecoveredAttempts(owned)[a]

\* What a runner does concerns another cycle's run only through recovery.
LEMMA OthersSetAside ==
    ASSUME TypeOK, NEW r \in Run, NEW c \in Run, c # r, RunnerWork(c)
    PROVE  SetAside(r)
<1>0. {} \in SUBSET Run /\ {c} \in SUBSET Run
  OBVIOUS
<1>1. ASSUME NEW lease, CreateRun(c, "manual", PassSet, lease)
      PROVE  SetAside(r)
  <2>1. AdmittedRuns("manual" \in ControllerSource, {}) \in [Run -> RunRow]
    BY RecoveryType DEF AdmittedRuns, TypeOK
  <2>2. runs'[r] = AdmittedRuns("manual" \in ControllerSource, {})[r]
    BY <1>1, <2>1 DEF CreateRun
  <2>3. attempts' = AdmittedAttempts("manual" \in ControllerSource, {})
    BY <1>1 DEF CreateRun
  <2> QED BY <1>0, <2>2, <2>3 DEF AdmittedRuns, AdmittedAttempts, SetAside
<1>2. ASSUME NEW b \in Attempt, RunOf(b) = c, NEW lease, StartAttempt(b, lease)
      PROVE  SetAside(r)
  <2>1. /\ AdmittedRuns(ByController(c), {c}) \in [Run -> RunRow]
        /\ AdmittedAttempts(ByController(c), {c}) \in [Attempt -> AttemptRow]
    BY RecoveryType DEF AdmittedRuns, AdmittedAttempts, TypeOK
  <2>2. runs'[r] = AdmittedRuns(ByController(c), {c})[r]
    BY <1>2, <2>1 DEF StartAttempt
  <2>3. \A a \in Attempt : RunOf(a) = r => attempts'[a] = AdmittedAttempts(ByController(c), {c})[a]
    BY <1>2, <2>1 DEF StartAttempt
  <2> QED BY <1>0, <2>2, <2>3 DEF AdmittedRuns, AdmittedAttempts, SetAside
<1>3. ASSUME NEW b \in Attempt, RunOf(b) = c, NEW verdict, NEW sessions,
             FinishAttempt(b, verdict, sessions)
      PROVE  SetAside(r)
  <2>1. runs'[r] = runs[r] /\ \A a \in Attempt : RunOf(a) = r => attempts'[a] = attempts[a]
    BY <1>3 DEF FinishAttempt, TypeOK
  <2> QED BY <1>0, <2>1 DEF SetAside
<1>4. ASSUME NEW b, NEW batch, RecordProposals(b, batch)
      PROVE  SetAside(r)
  BY <1>0, <1>4 DEF RecordProposals, SetAside
<1> QED BY <1>1, <1>2, <1>3, <1>4 DEF RunnerWork

\* The end of a run, by a finalizer or a cancellation.
LEMMA CycleFinalized ==
    ASSUME TypeOK, NEW c \in Run, NEW digestOk \in BOOLEAN, FinalizeCycle(c, digestOk)
    PROVE  /\ ~RunActive(c)' /\ ~RunHasActiveAttempt(c)'
           /\ runs'[c].state = "SUCCEEDED" => digestOk
           /\ Exists(c) /\ Exists(c)' /\ runs'[c].passes = runs[c].passes
<1>0. runs[c] \in RunRow /\ Exists(c)
  BY DEF TypeOK, FinalizeCycle
<1> DEFINE state == CycleState(attempts', c, digestOk)
<1>1. state \in RunState /\ state \notin ActiveState /\ (state = "SUCCEEDED" => digestOk)
  BY <1>0, AggregateType DEF CycleState, RunRow, RunState, ActiveState, Exists
<1>2. runs'[c] = [runs[c] EXCEPT !.state = state]
  BY DEF FinalizeCycle, TypeOK
<1> HIDE DEF state
<1>3. runs'[c].state = state /\ runs'[c].passes = runs[c].passes
  BY <1>0, <1>2, Zenon DEF RunRow
<1>4. ASSUME NEW a \in Attempt, RunOf(a) = c
      PROVE  attempts'[a].state \notin ActiveState
  <2>1. attempts[a] \in AttemptRow
    BY DEF TypeOK
  <2>2. attempts'[a] = EndedAttempts(c, "BLOCKED", "ControllerDeadline")[a]
    BY DEF FinalizeCycle
  <2>3. IsActive(a) => attempts'[a].state = "BLOCKED"
    BY <1>4, <2>1, <2>2 DEF EndedAttempts, AttemptRow
  <2> QED BY <2>2, <2>3 DEF EndedAttempts, IsActive, ActiveState
<1> QED BY <1>0, <1>1, <1>3, <1>4 DEF RunActive, RunHasActiveAttempt, IsActive, Exists, RunState

\* A cancelled run is over with all its attempts.
LEMMA CycleCancelled ==
    ASSUME TypeOK, NEW c \in Run, FinalizeCancelledRun(c)
    PROVE  /\ ~RunActive(c)' /\ ~RunHasActiveAttempt(c)' /\ runs'[c].state = "CANCELLED"
           /\ Exists(c) /\ Exists(c)' /\ runs'[c].passes = runs[c].passes
<1>0. runs[c] \in RunRow /\ Exists(c)
  BY DEF TypeOK, FinalizeCancelledRun
<1>1. runs'[c] = [runs[c] EXCEPT !.state = "CANCELLED", !.cancel = TRUE]
  BY DEF FinalizeCancelledRun, TypeOK
<1>2. runs'[c].state = "CANCELLED" /\ runs'[c].passes = runs[c].passes
  BY <1>0, <1>1, Zenon DEF RunRow
<1>3. ASSUME NEW a \in Attempt, RunOf(a) = c
      PROVE  attempts'[a].state \notin ActiveState
  <2>1. attempts[a] \in AttemptRow
    BY DEF TypeOK
  <2>2. attempts'[a] = EndedAttempts(c, "CANCELLED", "none")[a]
    BY DEF FinalizeCancelledRun
  <2>3. IsActive(a) => attempts'[a].state = "CANCELLED"
    BY <1>3, <2>1, <2>2 DEF EndedAttempts, AttemptRow
  <2> QED BY <2>2, <2>3 DEF EndedAttempts, IsActive, ActiveState
<1> QED BY <1>0, <1>2, <1>3 DEF RunActive, RunHasActiveAttempt, IsActive, Exists, ActiveState

\* Whatever a step does, it is about the run of one cycle at most, or cancels one run.
LEMMA StepAbout ==
    ASSUME TypeOK, StoreStep, NEW r \in Run
    PROVE  \/ SetAside(r)
           \/ r \in Cycle /\ ~At(r, "none") /\ RunnerWork(r)
           \/ r \in Cycle /\ script[r].step = "finalize" /\ FinalizeCycle(r, script[r].digestOk)
           \/ FinalizeCancelledRun(r)
<1>0. {} \in SUBSET Run /\ Cycle \subseteq Run
  BY CycleAssumption
<1>1. ASSUME NEW c \in Cycle, ~At(c, "none"), RunnerWork(c)
      PROVE  SetAside(r) \/ (r \in Cycle /\ ~At(r, "none") /\ RunnerWork(r))
  BY <1>0, <1>1, OthersSetAside
<1>2. ASSUME NEW c \in Cycle, script[c].step = "finalize", FinalizeCycle(c, script[c].digestOk)
      PROVE  SetAside(r) \/ (/\ r \in Cycle /\ script[r].step = "finalize"
                             /\ FinalizeCycle(r, script[r].digestOk))
  <2>1. CASE c # r
    <3>1. runs'[r] = runs[r] /\ \A a \in Attempt : RunOf(a) = r => attempts'[a] = attempts[a]
      BY <1>2, <2>1 DEF FinalizeCycle, EndedAttempts, TypeOK
    <3> QED BY <1>0, <3>1 DEF SetAside
  <2> QED BY <1>2, <2>1
<1>3. ASSUME NEW s \in Run, FinalizeCancelledRun(s)
      PROVE  SetAside(r) \/ FinalizeCancelledRun(r)
  <2>1. CASE s # r
    <3>1. runs'[r] = runs[r] /\ \A a \in Attempt : RunOf(a) = r => attempts'[a] = attempts[a]
      BY <1>3, <2>1 DEF FinalizeCancelledRun, EndedAttempts, TypeOK
    <3> QED BY <1>0, <3>1 DEF SetAside
  <2> QED BY <1>3, <2>1
<1>4. CASE ExpireStaleProposals \/ Tick \/ UNCHANGED vars
  <2>1. runs' = runs /\ attempts' = attempts
    BY <1>4 DEF ExpireStaleProposals, Tick, vars
  <2> QED BY <1>0, <2>1 DEF SetAside
<1>5. CASE RecoverOrphaned({})
  <2>1. runs' = RecoveredRuns({}) /\ attempts' = RecoveredAttempts({})
    BY <1>5 DEF RecoverOrphaned
  <2> QED BY <1>0, <2>1 DEF SetAside
<1> QED BY <1>1, <1>2, <1>3, <1>4, <1>5 DEF StoreStep

\* A step keeps the passes of a run, and a run once there; a runner creates its run with the passes
\* of its cycle.
LEMMA RunsStay ==
    ASSUME TypeOK, AttemptsHaveRuns, StoreStep, NEW r \in Run
    PROVE  \/ Exists(r)' /\ Exists(r) /\ runs'[r].passes = runs[r].passes
           \/ runs'[r] = runs[r]
           \/ ~Exists(r) /\ (r \in Cycle => runs'[r].passes = PassSet)
<1> DEFINE Kept == Exists(r)' /\ Exists(r) /\ runs'[r].passes = runs[r].passes
           New  == ~Exists(r) /\ (r \in Cycle => runs'[r].passes = PassSet)
<1>0. runs[r] \in RunRow
  BY DEF TypeOK
<1>1. CASE SetAside(r)
  <2> PICK owned \in SUBSET Run : runs'[r] = runs[r] \/ runs'[r] = RecoveredRuns(owned)[r]
    BY <1>1 DEF SetAside
  <2>1. CASE r \in Recovered(owned) /\ runs'[r] # runs[r]
    <3>1. runs'[r] = [runs[r] EXCEPT !.state = "BLOCKED"] /\ Exists(r)
      BY <2>1 DEF RecoveredRuns, Recovered, Tracked, RunActive, ActiveState, Exists
    <3>2. runs'[r].state = "BLOCKED" /\ runs'[r].passes = runs[r].passes
      BY <1>0, <3>1, Zenon DEF RunRow
    <3> QED BY <3>1, <3>2 DEF Exists
  <2>2. CASE r \notin Recovered(owned)
    BY <2>2 DEF RecoveredRuns
  <2> QED BY <2>1, <2>2
<1>2. ASSUME NEW lease, CreateRun(r, "manual", PassSet, lease)
      PROVE  New
  <2> DEFINE row == [NoRun EXCEPT !.state = "QUEUED", !.source = "manual", !.passes = PassSet,
                                  !.deadline = Expiry(lease)]
  <2>1. AdmittedRuns("manual" \in ControllerSource, {}) \in [Run -> RunRow]
    BY RecoveryType DEF AdmittedRuns, TypeOK
  <2>2. row.passes = PassSet
    BY DEF NoRun
  <2> HIDE DEF row
  <2>3. runs'[r] = row
    BY <1>2, <2>1 DEF CreateRun, row
  <2> QED BY <1>2, <2>2, <2>3 DEF CreateRun
<1>3. ASSUME NEW a \in Attempt, RunOf(a) = r, NEW lease, StartAttempt(a, lease)
      PROVE  Kept
  <2> DEFINE deadline == StartDeadline(r, lease)
  <2>1. AdmittedRuns(ByController(r), {r}) \in [Run -> RunRow]
    BY RecoveryType DEF AdmittedRuns, TypeOK
  <2>2. runs'[r] = [runs[r] EXCEPT !.state = "RUNNING", !.deadline = deadline] /\ Exists(r)
    BY <1>3, <2>1 DEF StartAttempt
  <2> HIDE DEF deadline
  <2>3. runs'[r].state = "RUNNING" /\ runs'[r].passes = runs[r].passes
    BY <1>0, <2>2, Zenon DEF RunRow
  <2> QED BY <2>2, <2>3 DEF Exists
<1>4. ASSUME NEW a \in Attempt, RunOf(a) = r, NEW verdict, NEW sessions,
             FinishAttempt(a, verdict, sessions)
      PROVE  Kept
  <2> DEFINE state == AggregateState(attempts', r)
  <2>1. runs'[r] = [runs[r] EXCEPT !.state = state]
    BY <1>4 DEF FinishAttempt, TypeOK
  <2>2. state # "ABSENT"
    BY AggregateType DEF RunState
  <2> HIDE DEF state
  <2>3. runs'[r].state = state /\ runs'[r].passes = runs[r].passes
    BY <1>0, <2>1, Zenon DEF RunRow
  <2>4. Exists(r)
    BY <1>4 DEF FinishAttempt, IsActive, ActiveState, AttemptsHaveRuns
  <2> QED BY <2>2, <2>3, <2>4 DEF Exists
<1>5. ASSUME NEW a, NEW batch, RecordProposals(a, batch)
      PROVE  runs' = runs
  BY <1>5 DEF RecordProposals
<1>6. CASE RunnerWork(r)
  BY <1>2, <1>3, <1>4, <1>5, <1>6 DEF RunnerWork
<1>7. CASE r \in Cycle /\ FinalizeCycle(r, script[r].digestOk)
  <2>1. runs'[r] = [runs[r] EXCEPT !.state = CycleState(attempts', r, script[r].digestOk)] /\ Exists(r)
    BY <1>7 DEF FinalizeCycle, TypeOK
  <2> DEFINE state == CycleState(attempts', r, script[r].digestOk)
  <2>2. state # "ABSENT"
    BY <1>0, <2>1, AggregateType DEF CycleState, RunState, Exists
  <2> HIDE DEF state
  <2>3. runs'[r].state = state /\ runs'[r].passes = runs[r].passes
    BY <1>0, <2>1, Zenon DEF RunRow, state
  <2> QED BY <2>1, <2>2, <2>3 DEF Exists
<1>8. CASE FinalizeCancelledRun(r)
  BY <1>8, CycleCancelled
<1> QED BY <1>1, <1>6, <1>7, <1>8, StepAbout

\* An attempt that is there after a step was there, or its run was.
LEMMA AttemptsGrow ==
    ASSUME TypeOK, AttemptsHaveRuns, StoreStep, NEW a \in Attempt, attempts'[a].state # "ABSENT"
    PROVE  Exists(RunOf(a))
<1> DEFINE r == RunOf(a)
<1>0. r \in Run
  BY AttemptKey
<1>1. CASE attempts[a].state # "ABSENT"
  BY <1>1 DEF AttemptsHaveRuns
<1>2. ASSUME attempts[a].state = "ABSENT", SetAside(r)
      PROVE  Exists(r)
  <2> PICK owned \in SUBSET Run :
         attempts'[a] = attempts[a] \/ attempts'[a] = RecoveredAttempts(owned)[a]
    BY <1>2 DEF SetAside
  <2>1. attempts'[a] = RecoveredAttempts(owned)[a] /\ attempts'[a] # attempts[a]
    BY <1>2
  <2>2. r \in Recovered(owned)
    BY <2>1 DEF RecoveredAttempts
  <2> QED BY <2>2 DEF Recovered, Tracked, RunActive, ActiveState, Exists
<1>3. ASSUME attempts[a].state = "ABSENT", RunnerWork(r)
      PROVE  Exists(r)
  <2>1. ASSUME NEW lease, CreateRun(r, "manual", PassSet, lease)
        PROVE  Exists(r)
    <3>1. attempts'[a] = RecoveredAttempts({})[a] /\ attempts'[a] # attempts[a]
      BY <1>3, <2>1 DEF CreateRun, AdmittedAttempts
    <3>2. r \in Recovered({})
      BY <3>1 DEF RecoveredAttempts
    <3> QED BY <3>2 DEF Recovered, Tracked, RunActive, ActiveState, Exists
  <2>2. ASSUME NEW b \in Attempt, RunOf(b) = r, NEW lease, StartAttempt(b, lease)
        PROVE  Exists(r)
    BY <2>2 DEF StartAttempt
  <2>3. ASSUME NEW b \in Attempt, RunOf(b) = r, NEW verdict, NEW sessions,
               FinishAttempt(b, verdict, sessions)
        PROVE  Exists(r)
    BY <2>3 DEF FinishAttempt, IsActive, ActiveState, AttemptsHaveRuns
  <2>4. ASSUME NEW b, NEW batch, RecordProposals(b, batch)
        PROVE  FALSE
    BY <1>3, <2>4 DEF RecordProposals
  <2> QED BY <1>3, <2>1, <2>2, <2>3, <2>4 DEF RunnerWork
<1>4. CASE FinalizeCycle(r, script[r].digestOk) \/ FinalizeCancelledRun(r)
  BY <1>4 DEF FinalizeCycle, FinalizeCancelledRun
<1> QED BY <1>0, <1>1, <1>2, <1>3, <1>4, StepAbout

\* A script is finalized only by a command that goes through, which it runs from its last places or
\* goes to one with; it stays there, and keeps its outcome.
LEMMA ScriptEnds ==
    ASSUME CycleInv, [CycleNext]_dreamVars, NEW c \in Cycle, script'[c].finalized,
           script[c].finalized => script[c].step \in {"expire", "done"}
    PROVE  /\ script'[c].digestOk = script[c].digestOk
           /\ script'[c].step \in {"expire", "done"}
           /\ script[c].finalized \/ FinalizeCycle(c, script[c].digestOk) \/ FinalizeCancelledRun(c)
<1>1. ASSUME NEW d \in Cycle, NEW step \in ScriptPlace, ScriptTarget(d, step)
      PROVE  /\ script'[c].digestOk = script[c].digestOk
             /\ script'[c].step \in {"expire", "done"}
             /\ script[c].finalized \/ FinalizeCycle(c, script[c].digestOk) \/ FinalizeCancelledRun(c)
  <2>1. CASE d # c
    <3>1. script'[c] = script[c]
      BY <1>1, <2>1, ScriptEffect DEF ScriptMoves
    <3> QED BY <3>1
  <2>2. CASE d = c
    <3>1. /\ script'[c].step = step /\ (step # "finalize" => script'[c].digestOk = script[c].digestOk)
          /\ script'[c].finalized = script[c].finalized \/ (step \in {"expire", "done"} /\ Finalizes(c))
      BY <1>1, <2>2, ScriptEffect DEF ScriptMoves
    <3>2. CASE step \in {"expire", "done"} /\ Finalizes(c)
      BY <3>1, <3>2 DEF Finalizes
    <3>3. CASE script[c].finalized
      <4>1. script[c].step \in {"expire", "done"}
        BY <3>3
      <4>2. step \in {"expire", "done"}
        BY <1>1, <2>2, <4>1 DEF ScriptTarget, Start, PassesOver, RunDigest, ScriptAt
      <4> QED BY <3>1, <3>3, <4>2
    <3> QED BY <1>1, <2>2, <3>1, <3>2, <3>3
  <2> QED BY <2>1, <2>2
<1>2. ASSUME NEW d \in Cycle, StartRunner(d)
      PROVE  script[c].finalized /\ script'[c] = script[c]
  <2>1. script[d].step = "pass" /\ script'[d].finalized = script[d].finalized
        /\ (d # c => script'[c] = script[c])
    BY <1>2, StartRunnerEffect
  <2> QED BY <2>1
<1>3. ASSUME NEW d \in Cycle, RunnerStep(d) \/ Kill(d), RunnerAdvances(d) \/ RunnerGone(d)
      PROVE  script[c].finalized /\ script'[c] = script[c]
  <2>1. script[d].step = "wait"
    BY <1>3, RunnerEffect, RunnerThere
  <2>2. CASE RunnerAdvances(d)
    BY <2>2 DEF RunnerAdvances, RunnerMoves
  <2>3. CASE RunnerGone(d)
    <3>1. d # c
      BY <2>1, <2>3 DEF RunnerGone
    <3> QED BY <2>3, <3>1 DEF RunnerGone
  <2> QED BY <1>3, <2>2, <2>3
<1>4. CASE UNCHANGED <<script, runner>>
  BY <1>4
<1> QED BY <1>1, <1>2, <1>3, <1>4, CycleEffect

LEMMA OverStep == CycleInv /\ OverInv /\ [CycleNext]_dreamVars => OverInv'
<1> SUFFICES ASSUME CycleInv, OverInv, [CycleNext]_dreamVars PROVE OverInv'
  OBVIOUS
<1>0. TypeOK /\ CycleRows /\ StoreStep /\ Cycle \subseteq Run /\ AttemptsHaveRuns
  BY CycleInvParts, StoreSteps, CycleAssumption DEF OverInv
<1>1. AttemptsHaveRuns'
  <2> SUFFICES ASSUME NEW a \in Attempt, attempts'[a].state # "ABSENT" PROVE Exists(RunOf(a))'
    BY DEF AttemptsHaveRuns
  <2>1. Exists(RunOf(a)) /\ RunOf(a) \in Run
    BY <1>0, AttemptsGrow, AttemptKey
  <2> QED BY <1>0, <2>1, RunsStay DEF Exists
<1>2. RunsHavePasses'
  <2> SUFFICES ASSUME NEW c \in Cycle, Exists(c)' PROVE runs'[c].passes = PassSet
    BY DEF RunsHavePasses, PassSet
  <2>1. c \in Run
    BY <1>0
  <2> QED BY <1>0, <2>1, RunsStay DEF OverInv, RunsHavePasses, Exists
<1>3. ASSUME NEW c \in Cycle, script'[c].finalized
      PROVE  /\ script'[c].step \in {"expire", "done"}
             /\ ~RunActive(c)' /\ ~RunHasActiveAttempt(c)'
             /\ runs'[c].state = "SUCCEEDED" => script'[c].digestOk
  <2>0. c \in Run /\ script[c].digestOk \in BOOLEAN
    BY <1>0 DEF CycleRows, ScriptRow
  <2>1. /\ script'[c].digestOk = script[c].digestOk /\ script'[c].step \in {"expire", "done"}
        /\ script[c].finalized \/ FinalizeCycle(c, script[c].digestOk) \/ FinalizeCancelledRun(c)
    BY <1>3, ScriptEnds DEF OverInv, OverFromFinalize
  <2>2. CASE FinalizeCancelledRun(c)
    BY <1>0, <2>0, <2>1, <2>2, CycleCancelled
  <2>3. CASE FinalizeCycle(c, script[c].digestOk)
    BY <1>0, <2>0, <2>1, <2>3, CycleFinalized
  <2>4. CASE script[c].finalized /\ ~FinalizeCancelledRun(c)
    <3>1. /\ script[c].step \in {"expire", "done"} /\ ~RunActive(c) /\ ~RunHasActiveAttempt(c)
          /\ runs[c].state = "SUCCEEDED" => script[c].digestOk
      BY <2>4 DEF OverInv, OverFromFinalize
    <3>2. At(c, "none")
      BY <3>1 DEF CycleInv, RunnerFollowsScript
    <3>3. SetAside(c)
      BY <1>0, <2>0, <2>4, <3>1, <3>2, StepAbout
    <3>4. runs'[c] = runs[c] /\ \A a \in Attempt : RunOf(a) = c => attempts'[a] = attempts[a]
      BY <2>0, <3>1, <3>3, RecoverySpares DEF SetAside
    <3> QED BY <2>1, <3>1, <3>4 DEF RunActive, RunHasActiveAttempt, IsActive
  <2> QED BY <2>1, <2>2, <2>3, <2>4
<1> QED BY <1>1, <1>2, <1>3 DEF OverInv, OverFromFinalize

LEMMA OverAlways == CycleSpec => []OverInv
<1>1. CycleInit => OverInv
  <2> SUFFICES ASSUME CycleInit PROVE OverInv
    OBVIOUS
  <2>1. \A c \in Cycle : ~Exists(c) /\ ~script[c].finalized
    BY CycleAssumption DEF CycleInit, Init, NoRun, Exists
  <2>2. \A a \in Attempt : attempts[a].state = "ABSENT"
    BY DEF CycleInit, Init, NoRow
  <2> QED BY <2>1, <2>2 DEF OverInv, AttemptsHaveRuns, RunsHavePasses, OverFromFinalize
<1> QED BY <1>1, OverStep, CycleAlways, PTL DEF CycleSpec

\* From the finalizing command of a cycle that went through on, nothing of the cycle is live.
THEOREM FinishedCyclesAreOver == CycleSpec => []FinishedCycleIsOver
<1>1. OverInv => FinishedCycleIsOver
  BY DEF OverInv, OverFromFinalize, FinishedCycleIsOver
<1> QED BY <1>1, OverAlways, PTL

\* A cycle that is through reports success only if the latest attempt of each of its passes succeeded,
\* and, if it was finalized, its digest too.
THEOREM SuccessIsWhole == CycleSpec => []SuccessMeansWholeCycle
<1>1. CycleInv /\ OverInv /\ SucceededRunIsComplete => SuccessMeansWholeCycle
  <2> SUFFICES ASSUME CycleInv, OverInv, SucceededRunIsComplete, NEW c \in Cycle,
                      script[c].step = "done", runs[c].state = "SUCCEEDED"
               PROVE  /\ script[c].finalized => script[c].digestOk
                      /\ \A i \in 1..Len(Passes) : LatestIn(attempts, c, Passes[i], Consumable)
    BY DEF SuccessMeansWholeCycle
  <2>1. (script[c].finalized => script[c].digestOk) /\ c \in Run
    BY CycleAssumption DEF OverInv, OverFromFinalize
  <2>2. runs[c].passes = PassSet
    BY DEF OverInv, RunsHavePasses, Exists
  <2> QED BY <2>1, <2>2 DEF SucceededRunIsComplete, PassSet
<1>2. CycleSpec => []SucceededRunIsComplete
  BY CycleUsesStore, CompleteSuccess, PTL
<1> QED BY <1>1, <1>2, CycleAlways, OverAlways, PTL

-----------------------------------------------------------------------------
(* The lock.  A runner that is alone is turned away only by a file of an earlier pass of its own *)
(* cycle that it takes for a live one, or by a second loss of the race for the file.             *)

\* Where a runner does not have the lock yet.
BeforeLock == {"boot", "enlist", "guard", "lock", "look", "reclaim", "held"}

\* The file is never of a later pass than its cycle is at; if it is of this one, its runner is there
\* and has gone past the lock.
Behind(c, i) ==
    /\ i <= script[c].index
    /\ i = script[c].index => ~At(c, "none") /\ runner[c].step \notin BeforeLock
LockBehind == \A c \in Cycle, i \in 1..Len(Passes) : lock.owner = <<c, i>> => Behind(c, i)

\* A runner tries for the second time only after a reclaim; when it is alone the file it removed
\* stays away until it creates its own.
SecondAfterReclaim ==
    \A c \in Cycle : runner[c].step \in {"none", "boot", "enlist", "guard"} => ~runner[c].second
Alone(c) == \A d \in Cycle \ {c} : script[d].step = "idle"
Unhindered(c) ==
    /\ ~At(c, "held")
    /\ runner[c].second /\ runner[c].step \in {"lock", "look", "reclaim"} =>
           At(c, "lock") /\ lock = NoLock
AloneInv ==
    /\ LockBehind /\ SecondAfterReclaim
    /\ \A c \in Cycle : Alone(c) => Unhindered(c)

\* A runner that has gone past the lock does not come back before it.
LEMMA NoWayBack ==
    ASSUME CycleInv, NEW c \in Cycle, RunnerStep(c) \/ Kill(c), runner[c].step \notin BeforeLock
    PROVE  runner'[c].step \notin BeforeLock
<1> USE DEF At
<1>0. CycleRows
  BY CycleInvParts
<1>1. ASSUME Exit(c), runner[c].step # "none"
      PROVE  runner'[c].step \notin BeforeLock
  BY <1>1, ExitEffect, NoRunnerType DEF RunnerGone, BeforeLock
<1>2. ASSUME ToRelease(c), UNCHANGED script
      PROVE  runner'[c].step \notin BeforeLock
  BY <1>0, <1>2, ToReleaseEffect DEF RunnerMoves, BeforeLock
<1>3. ASSUME NEW step \in {"check", "fail", "unlink"}, RunnerTo(c, step), UNCHANGED script
      PROVE  runner'[c].step \notin BeforeLock
  BY <1>0, <1>3, GotoEffect DEF RunnerMoves, BeforeLock, RunnerPlace
<1>4. CASE Boot(c) \/ Enlist(c) \/ Guard(c) \/ CreateLock(c) \/ LockExists(c) \/ Look(c) \/ Reclaim(c)
           \/ Held(c) \/ RunnerRefused(c)
  BY <1>4 DEF Boot, Enlist, Guard, CreateLock, LockExists, Look, Reclaim, Held, RunnerRefused,
      BeforeLock
<1>5. CASE WriteLock(c) \/ Raise(c)
  BY <1>3, <1>5 DEF WriteLock, Raise
<1>6. CASE Select(c)
  BY <1>6, SelectEffect DEF BeforeLock
<1>7. CASE Blocked(c) \/ RunnerFails(c) \/ \E verdict \in Consumable \cup {"CANCELLED"} : Publish(c, verdict)
  BY <1>2, <1>7 DEF Blocked, RunnerFails, Publish
<1>8. CASE \E fingerprints \in SUBSET Fingerprint, truncated \in BOOLEAN :
               Stage(c, fingerprints, truncated)
  BY <1>8, StageEffect DEF BeforeLock
<1>9. CASE Release(c)
  BY <1>1, <1>3, <1>9 DEF Release
<1>10. CASE Unlink(c) \/ Kill(c)
  BY <1>1, <1>10 DEF Unlink, Kill
<1> QED BY <1>4, <1>5, <1>6, <1>7, <1>8, <1>9, <1>10 DEF RunnerStep

\* Only runners touch the lock file, and only its creation gives it a new owner.
LEMMA LockOwner ==
    ASSUME CycleInv, [CycleNext]_dreamVars
    PROVE  /\ lock' = lock \/ \E c \in Cycle : RunnerStep(c)
           /\ lock'.owner = lock.owner \/ lock' = NoLock \/ \E c \in Cycle : CreateLock(c)
<1>0. lock \in LockFile
  BY CycleInvParts DEF CycleRows
<1>1. ASSUME NEW c \in Cycle, RunnerStep(c)
      PROVE  lock' = lock \/ lock' = NoLock \/ CreateLock(c) \/ WriteLock(c)
  BY <1>1 DEF RunnerStep, Boot, Enlist, RunnerRefused, Guard, LockExists, Look, Reclaim, Held,
      Select,
              Blocked, Stage, Publish, Raise, RunnerFails, Release, Unlink
<1>2. ASSUME NEW c \in Cycle, WriteLock(c)
      PROVE  lock'.owner = lock.owner
  BY <1>0, <1>2 DEF WriteLock, LockFile
<1>3. ASSUME NEW c \in Cycle, Start(c) \/ ScriptStep(c) \/ Signal(c) \/ Kill(c)
      PROVE  lock' = lock
  BY <1>3 DEF Start, ScriptStep, StartRunner, PassesOver, RunDigest, FinalizeScript, Expire,
      FinalizeSignal,
              Signal, Kill
<1>4. CASE (\E r \in Run : OperatorCancel(r)) \/ GatewayRecovers \/ CycleClock \/ UNCHANGED dreamVars
  BY <1>4 DEF OperatorCancel, GatewayRecovers, CycleClock, cycleVars, dreamVars
<1> QED BY <1>1, <1>2, <1>3, <1>4 DEF CycleNext

\* A cycle that another cycle's step is about stays as it is.
LEMMA OthersStay ==
    ASSUME CycleInv, NEW c \in Cycle, NEW d \in Cycle, c # d,
           \/ \E step : ScriptTarget(c, step)
           \/ StartRunner(c) \/ RunnerAdvances(c) \/ RunnerGone(c)
    PROVE  script'[d] = script[d] /\ runner'[d] = runner[d]
BY ScriptEffect, StartRunnerEffect DEF ScriptMoves, RunnerAdvances, RunnerMoves, RunnerGone

\* A cycle never falls back behind a runner that has been past the lock.
LEMMA BehindStep ==
    ASSUME CycleInv, [CycleNext]_dreamVars, NEW c \in Cycle, NEW i \in 1..Len(Passes), Behind(c, i)
    PROVE  Behind(c, i)'
<1>0. script[c].index \in Nat /\ (At(c, "none") <=> script[c].step # "wait")
  BY CycleInvParts, PassesType DEF CycleRows, ScriptRow, RunnerFollowsScript
<1>1. CASE script'[c] = script[c] /\ runner'[c] = runner[c]
  BY <1>1 DEF Behind, At
<1>2. ASSUME NEW step, ScriptTarget(c, step)
      PROVE  Behind(c, i)'
  BY <1>2, ScriptEffect DEF ScriptMoves, Behind, At
<1>3. CASE StartRunner(c)
  <2>1. script'[c].index = script[c].index /\ script[c].step = "pass"
    BY <1>3, StartRunnerEffect
  <2> QED BY <1>0, <2>1 DEF Behind
<1>4. CASE RunnerGone(c)
  <2>1. script'[c].index = script[c].index + 1
    BY <1>4 DEF RunnerGone
  <2> QED BY <1>0, <2>1 DEF Behind
<1>5. CASE (RunnerStep(c) \/ Kill(c)) /\ RunnerAdvances(c)
  <2>1. script' = script /\ runner'[c].step # "none"
    BY <1>5 DEF RunnerAdvances, RunnerMoves
  <2> QED BY <1>5, <2>1, NoWayBack DEF Behind, At
<1> QED BY <1>1, <1>2, <1>3, <1>4, <1>5, CycleEffect, OthersStay

LEMMA LockBehindStep == CycleInv /\ LockBehind /\ [CycleNext]_dreamVars => LockBehind'
<1> SUFFICES ASSUME CycleInv, LockBehind, [CycleNext]_dreamVars,
                    NEW c \in Cycle, NEW i \in 1..Len(Passes), lock'.owner = <<c, i>>
             PROVE  Behind(c, i)'
  BY DEF LockBehind
<1>1. CASE lock'.owner = lock.owner
  BY <1>1, BehindStep DEF LockBehind
<1>2. CASE lock' = NoLock
  BY <1>2 DEF NoLock, NoPid
<1>3. ASSUME NEW d \in Cycle, CreateLock(d)
      PROVE  Behind(c, i)'
  <2>1. lock'.owner = <<d, script[d].index>> /\ RunnerTo(d, "write") /\ script' = script
    BY <1>3 DEF CreateLock, Pid
  <2>2. d = c /\ script[c].index = i
    BY <2>1
  <2>3. runner'[c].step = "write"
    BY <2>1, <2>2, CycleInvParts, GotoEffect DEF RunnerMoves, RunnerPlace
  <2> QED BY <2>1, <2>2, <2>3 DEF Behind, At, BeforeLock
<1> QED BY <1>1, <1>2, <1>3, LockOwner

\* A runner that is before the lock takes any file for a stale one when no other cycle has a runner.
LEMMA AloneSeesStale ==
    ASSUME CycleInv, LockBehind, NEW c \in Cycle, Alone(c), runner[c].step \in BeforeLock
    PROVE  StaleLock(lock)
<1>1. lock \in LockFile
  BY CycleInvParts DEF CycleRows
<1>2. CASE lock.owner = NoPid
  BY <1>2 DEF StaleLock, Alive
<1>3. CASE lock.owner # NoPid
  <2>1. PICK d \in Cycle, i \in 1..Len(Passes) : lock.owner = <<d, i>>
    BY <1>1, <1>3 DEF LockFile
  <2>2. Behind(d, i)
    BY <2>1 DEF LockBehind
  <2>3. CASE d # c
    <3>1. script[d].step = "idle"
      BY <2>3 DEF Alone
    <3>2. At(d, "none")
      BY <3>1 DEF CycleInv, RunnerFollowsScript
    <3> QED BY <2>1, <3>2 DEF StaleLock, Alive
  <2>4. CASE d = c
    <3>1. i # script[c].index
      BY <2>2, <2>4 DEF Behind
    <3> QED BY <2>1, <2>4, <3>1 DEF StaleLock, Alive, Pid
  <2> QED BY <2>3, <2>4
<1> QED BY <1>2, <1>3

\* What a runner that tries for the lock does next, with what it remembers of its tries.
Trying(c) ==
    LET next == runner'[c].step IN
    \/ /\ runner'[c].second = runner[c].second /\ lock' = lock
       /\ \/ At(c, "boot") /\ next = "enlist"
          \/ At(c, "enlist") /\ next = "guard"
          \/ At(c, "guard") /\ next = "lock"
          \/ At(c, "lock") /\ next = "look" /\ lock # NoLock
          \/ At(c, "look") /\ next = "reclaim" /\ StaleLock(lock)
          \/ At(c, "look") /\ next = "held" /\ ~StaleLock(lock)
    \/ At(c, "lock") /\ next = "write"
    \/ At(c, "reclaim") /\ ~runner[c].second /\ next = "lock" /\ lock' = NoLock
    \/ At(c, "reclaim") /\ runner[c].second /\ next = "held"

\* A runner before the lock tries on, gets past it or is gone.
LEMMA BeforeLockSteps ==
    ASSUME CycleInv, NEW c \in Cycle, RunnerStep(c) \/ Kill(c), runner[c].step \in BeforeLock
    PROVE  Trying(c) \/ RunnerGone(c)
<1> USE DEF At
<1>0. CycleRows /\ ~At(c, "none") /\ runner[c].second \in BOOLEAN
  BY CycleInvParts DEF CycleRows, RunnerRow, BeforeLock
<1>1. ASSUME Exit(c) PROVE RunnerGone(c)
  BY <1>0, <1>1, ExitEffect
<1>2. ASSUME NEW step \in {"enlist", "lock", "write", "look", "reclaim", "held"}, RunnerTo(c, step),
             UNCHANGED script
      PROVE  runner'[c].step = step /\ runner'[c].second = runner[c].second
  BY <1>0, <1>2, GotoEffect DEF RunnerMoves, RunnerPlace
<1>3. CASE Boot(c)
  BY <1>2, <1>3 DEF Boot, Trying
<1>4. CASE Enlist(c)
  <2>1. At(c, "enlist") /\ lock' = lock
    BY <1>4 DEF Enlist
  <2> QED BY <1>4, <2>1, EnlistEffect DEF Trying
<1>5. CASE Guard(c)
  BY <1>1, <1>2, <1>5 DEF Guard, Trying
<1>6. CASE CreateLock(c)
  BY <1>2, <1>6 DEF CreateLock, Trying
<1>7. CASE LockExists(c)
  BY <1>2, <1>7 DEF LockExists, Trying
<1>8. CASE Look(c)
  <2>1. At(c, "look") /\ lock' = lock /\ script' = script
    BY <1>8 DEF Look
  <2>2. CASE StaleLock(lock)
    <3>1. RunnerTo(c, "reclaim")
      BY <1>8, <2>2 DEF Look
    <3> QED BY <1>2, <2>1, <2>2, <3>1 DEF Trying
  <2>3. CASE ~StaleLock(lock)
    <3>1. RunnerTo(c, "held")
      BY <1>8, <2>3 DEF Look
    <3> QED BY <1>2, <2>1, <2>3, <3>1 DEF Trying
  <2> QED BY <2>2, <2>3
<1>9. CASE Reclaim(c)
  <2>1. At(c, "reclaim") /\ lock' = NoLock
    BY <1>9 DEF Reclaim
  <2>2. runner'[c].step = (IF runner[c].second THEN "held" ELSE "lock")
    BY <1>9, ReclaimEffect DEF RunnerMoves
  <2> QED BY <2>1, <2>2 DEF Trying
<1>10. CASE Held(c) \/ RunnerRefused(c) \/ Kill(c)
  BY <1>1, <1>10 DEF Held, RunnerRefused, Kill
<1>11. CASE \/ WriteLock(c) \/ Select(c) \/ Blocked(c) \/ Raise(c) \/ RunnerFails(c) \/ Release(c) \/ Unlink(c)
            \/ \E verdict \in Consumable \cup {"CANCELLED"} : Publish(c, verdict)
            \/ \E fingerprints \in SUBSET Fingerprint, truncated \in BOOLEAN :
                   Stage(c, fingerprints, truncated)
  BY <1>11 DEF WriteLock, Select, Blocked, Raise, RunnerFails, Release, Unlink, Publish, Stage,
      BeforeLock
<1> QED BY <1>3, <1>4, <1>5, <1>6, <1>7, <1>8, <1>9, <1>10, <1>11 DEF RunnerStep

LEMMA SecondStep == CycleInv /\ SecondAfterReclaim /\ [CycleNext]_dreamVars => SecondAfterReclaim'
<1> SUFFICES ASSUME CycleInv, SecondAfterReclaim, [CycleNext]_dreamVars, NEW c \in Cycle,
                    runner'[c].step \in {"none", "boot", "enlist", "guard"}
             PROVE  ~runner'[c].second
  BY DEF SecondAfterReclaim
<1>1. CASE runner'[c] = runner[c]
  BY <1>1 DEF SecondAfterReclaim
<1>2. CASE StartRunner(c)
  BY <1>2, StartRunnerEffect
<1>3. CASE RunnerGone(c)
  BY <1>3, NoRunnerType DEF RunnerGone
<1>4. CASE (RunnerStep(c) \/ Kill(c)) /\ RunnerAdvances(c)
  <2>1. runner'[c].step # "none"
    BY <1>4 DEF RunnerAdvances, RunnerMoves
  <2>2. runner[c].step \in BeforeLock
    BY <1>4, <2>1, NoWayBack DEF BeforeLock
  <2>3. CASE Trying(c)
    BY <2>3 DEF Trying, SecondAfterReclaim, At
  <2> QED BY <1>3, <1>4, <2>2, <2>3, BeforeLockSteps
<1>5. ASSUME NEW step, ScriptTarget(c, step)
      PROVE  runner'[c] = runner[c]
  BY <1>5, ScriptEffect DEF ScriptMoves
<1> QED BY <1>1, <1>2, <1>3, <1>4, <1>5, CycleEffect, OthersStay

\* No script returns to the start, so that a cycle that is alone was alone.
LEMMA AloneBefore ==
    ASSUME CycleInv, [CycleNext]_dreamVars, NEW c \in Cycle, Alone(c)'
    PROVE  Alone(c)
<1> SUFFICES ASSUME NEW d \in Cycle \ {c}, script[d].step # "idle" PROVE script'[d].step # "idle"
  BY DEF Alone
<1>1. CASE script'[d] = script[d]
  BY <1>1
<1>2. ASSUME NEW step, ScriptTarget(d, step)
      PROVE  script'[d].step # "idle"
  BY <1>2, ScriptEffect DEF ScriptMoves
<1>3. CASE StartRunner(d) \/ RunnerGone(d)
  BY <1>3, StartRunnerEffect DEF RunnerGone
<1>4. CASE RunnerAdvances(d)
  BY <1>4 DEF RunnerAdvances, RunnerMoves
<1> QED BY <1>1, <1>2, <1>3, <1>4, CycleEffect, OthersStay

LEMMA AloneStep == CycleInv /\ AloneInv /\ [CycleNext]_dreamVars => AloneInv'
<1> SUFFICES ASSUME CycleInv, AloneInv, [CycleNext]_dreamVars PROVE AloneInv'
  OBVIOUS
<1>1. LockBehind' /\ SecondAfterReclaim'
  BY LockBehindStep, SecondStep DEF AloneInv
<1>2. ASSUME NEW c \in Cycle, Alone(c)'
      PROVE  Unhindered(c)'
  <2>1. Alone(c) /\ Unhindered(c) /\ SecondAfterReclaim /\ LockBehind
    BY <1>2, AloneBefore DEF AloneInv
  <2>2. ASSUME NEW d \in Cycle, RunnerStep(d) \/ Kill(d)
        PROVE  d = c
    <3>1. ~At(d, "none")
      BY <2>2, RunnerEffect
    <3> QED BY <2>1, <3>1 DEF Alone, CycleInv, RunnerFollowsScript
  <2>3. CASE RunnerStep(c) \/ Kill(c)
    <3>1. CASE runner[c].step \notin BeforeLock
      BY <2>3, <3>1, NoWayBack DEF Unhindered, At, BeforeLock
    <3>2. CASE RunnerGone(c)
      BY <3>2, NoRunnerType DEF RunnerGone, Unhindered, At
    <3>3. CASE runner[c].step \in BeforeLock /\ Trying(c)
      <4>1. StaleLock(lock)
        BY <2>1, <3>3, AloneSeesStale
      <4> QED BY <2>1, <3>3, <4>1 DEF Trying, Unhindered, At, SecondAfterReclaim
    <3> QED BY <2>3, <3>1, <3>2, <3>3, BeforeLockSteps
  <2>4. CASE lock' = lock /\ runner'[c] = runner[c]
    BY <2>1, <2>4 DEF Unhindered, At
  <2>5. CASE StartRunner(c)
    BY <2>5, StartRunnerEffect DEF Unhindered, At
  <2>6. ASSUME ~(RunnerStep(c) \/ Kill(c)), ~StartRunner(c)
        PROVE  lock' = lock /\ runner'[c] = runner[c]
    <3>1. lock' = lock
      BY <2>2, <2>6, LockOwner
    <3>2. ASSUME NEW step, ScriptTarget(c, step)
          PROVE  runner'[c] = runner[c]
      BY <3>2, ScriptEffect DEF ScriptMoves
    <3> QED BY <2>2, <2>6, <3>1, <3>2, CycleEffect, OthersStay
  <2> QED BY <2>3, <2>4, <2>5, <2>6
<1> QED BY <1>1, <1>2 DEF AloneInv

\* A cycle that has the machine to itself gets the lock in each of its passes, whatever the killed
\* runners of its earlier passes left behind.
THEOREM NoLockOutAlone == CycleSpec => []AloneIsNeverLockedOut
<1>1. CycleInit => AloneInv
  <2> SUFFICES ASSUME CycleInit PROVE AloneInv
    OBVIOUS
  <2>1. \A c \in Cycle : runner[c].step = "none" /\ runner[c].second = FALSE
    BY NoRunnerType DEF CycleInit
  <2>2. lock.owner = NoPid
    BY DEF CycleInit, NoLock
  <2> QED BY <2>1, <2>2
          DEF AloneInv, LockBehind, SecondAfterReclaim, Unhindered, At, NoPid
<1>2. AloneInv => AloneIsNeverLockedOut
  BY DEF AloneInv, Alone, Unhindered, AloneIsNeverLockedOut
<1> QED BY <1>1, <1>2, AloneStep, CycleAlways, PTL DEF CycleSpec

-----------------------------------------------------------------------------
(* The controller.  Rows of the workers, and what the steps make of them. *)

Said == AttemptTerminal \cup {"none", "timeout"}
WorkerRow == [step : Steps, run : Run \cup {NoRunId}, todo : Seq(Pass), skip : SUBSET Pass,
              standard : BOOLEAN, created : BOOLEAN, cancel : BOOLEAN, failing : BOOLEAN,
              deadline : Nat, attempt : Attempt \cup {NoAttempt}, verdict : Said]
WorkerRows == worker \in [Gateway -> WorkerRow] /\ runners \subseteq Attempt /\ lost \subseteq Run

\* What a worker keeps from its launch to its end, but for a cancellation.
Carries(new, row) ==
    /\ new.run = row.run /\ new.created = row.created /\ new.deadline = row.deadline
    /\ new.cancel = row.cancel

\* The dream passes are several, the first among them, and the digest is none of them.
LEMMA DreamPassesType ==
    /\ DreamPasses \in Seq(Pass) /\ DreamPasses # <<>> /\ Len(DreamPasses) \in Nat
    /\ Digest \in Pass /\ Head(DreamPasses) \in Pass
    /\ \A i \in 1..Len(DreamPasses) : DreamPasses[i] \in Pass /\ DreamPasses[i] # Digest
    /\ Head(DreamPasses) = DreamPasses[1] /\ Len(DreamPasses) > 1
<1>1. /\ DreamPasses \in Seq(Pass \ {Digest}) /\ Len(DreamPasses) \in Nat /\ Len(DreamPasses) > 1
      /\ Digest \in Pass
  BY ControllerAssumption
<1>2. \A i \in 1..Len(DreamPasses) : DreamPasses[i] \in Pass \ {Digest}
  BY <1>1
<1>3. DreamPasses \in Seq(Pass)
  BY <1>1
<1>4. 1 \in 1..Len(DreamPasses) /\ DreamPasses # <<>>
  BY <1>1
<1>5. Head(DreamPasses) = DreamPasses[1]
  BY <1>1, <1>4
<1> QED BY <1>1, <1>2, <1>3, <1>4, <1>5

\* A gateway without a worker holds nothing.
LEMMA IdleRow ==
    /\ Idle \in WorkerRow /\ Idle.step = "idle" /\ Idle.attempt = NoAttempt /\ ~Idle.cancel
    /\ ~Idle.failing /\ ~Idle.created
BY DEF Idle, WorkerRow, Steps, Said, NoRunId, NoAttempt

\* A worker is launched at the loop with its passes and the whole budget.
LEMMA LaunchedRow ==
    ASSUME NEW r \in Run, NEW passes \in Seq(Pass), NEW created \in BOOLEAN, TypeOK
    PROVE  LET new == Launched(r, passes, created) IN
              /\ new \in WorkerRow /\ new.step = "loop" /\ new.run = r /\ new.todo = passes
              /\ new.created = created /\ new.deadline = now + Lease /\ new.attempt = NoAttempt
              /\ ~new.cancel /\ ~new.failing
<1> DEFINE standard == Len(passes) > 1
           deadline == now + Lease
<1>1. standard \in BOOLEAN /\ deadline \in Nat
  BY ControllerAssumption DEF TypeOK
<1>2. Launched(r, passes, created) =
        [Idle EXCEPT !.step = "loop", !.run = r, !.todo = passes, !.standard = standard,
                     !.created = created, !.deadline = deadline]
  BY DEF Launched
<1>3. "loop" \in Steps
  BY DEF Steps
<1> HIDE DEF standard, deadline
<1>4. Launched(r, passes, created) \in WorkerRow
  BY <1>1, <1>2, <1>3, IdleRow, Zenon DEF WorkerRow
<1>5. LET new == Launched(r, passes, created) IN
         /\ new.step = "loop" /\ new.run = r /\ new.todo = passes
         /\ new.created = created /\ new.deadline = deadline /\ new.attempt = NoAttempt
         /\ ~new.cancel /\ ~new.failing
  BY <1>2, IdleRow, Zenon DEF WorkerRow
<1> USE DEF deadline
<1> QED BY <1>4, <1>5

\* A row of which only the step changes.
LEMMA StepUpdate ==
    ASSUME NEW row \in WorkerRow, NEW step \in Steps
    PROVE  LET new == [row EXCEPT !.step = step] IN
              /\ new \in WorkerRow /\ Carries(new, row) /\ new.step = step
              /\ new.todo = row.todo /\ new.skip = row.skip /\ new.failing = row.failing
              /\ new.attempt = row.attempt /\ new.verdict = row.verdict
BY DEF WorkerRow, Carries

\* Only the worker of g moves, and becomes new.
Becomes(g, new) ==
    /\ worker' = [worker EXCEPT ![g] = new]
    /\ worker' \in [Gateway -> WorkerRow]
    /\ worker'[g] = new
    /\ \A h \in Gateway \ {g} : worker'[h] = worker[h]

LEMMA BecomesRow ==
    ASSUME WorkerRows, NEW g \in Gateway, NEW new \in WorkerRow, worker' = [worker EXCEPT ![g] = new]
    PROVE  Becomes(g, new)
BY DEF WorkerRows, Becomes

\* What the steps of a worker rest on, in its own row.
Consistent(w) ==
    /\ w.step = "idle" => w = Idle
    /\ w.step = "start" => w.todo # <<>>
    /\ w.step \in {"child", "record", "finish", "next", "unstartedFinish"} => w.attempt # NoAttempt
    /\ w.step = "record" => w.verdict \in ChildVerdict \cup {"timeout", "FAILED"}
    /\ w.step = "finish" => w.verdict \in Verdict
    /\ w.step \in {"unstarted", "unstartedFinish"} => w.verdict \in {"BLOCKED", "FAILED"}
    /\ w.step \in {"missing", "finalize"} \/ w.failing => w.created

\* What a row tells of the store: the run is there, its attempt is an attempt of this run, and a
\* cancellation the worker was told of is recorded.
Grounded(g) ==
    LET w == worker[g] IN
    /\ Live(g) => w.run \in Run /\ Exists(w.run) /\ w.deadline <= now + Lease
    /\ w.attempt # NoAttempt => attempts[w.attempt].state # "ABSENT" /\ RunOf(w.attempt) = w.run
    /\ w.cancel => runs[w.run].cancel

HasPass(r, p) ==
    \E a \in Attempt : RunOf(a) = r /\ PassOf(a) = p /\ attempts[a].state # "ABSENT"
Covered(r) == \A p \in runs[r].passes : HasPass(r, p)

\* Filling up a failed run, a worker knows what is there, and finalizes the run with every
\* requested pass there.
Filling(g) ==
    LET w == worker[g] IN
    /\ w.failing /\ w.step \in {"unstarted", "unstartedFinish"} =>
          runs[w.run].passes \subseteq Elements(w.todo) /\ \A p \in w.skip : HasPass(w.run, p)
    /\ w.step = "finalize" => Covered(w.run)

InHand(g) == Consistent(worker[g]) /\ Grounded(g) /\ Filling(g)
HandInv == WorkerRows /\ \A g \in Gateway : InHand(g)

-----------------------------------------------------------------------------
(* What no step of the store takes away. *)

\* The store's clock does not run back.
LEMMA StoreForward ==
    ASSUME [Next]_vars, TypeOK
    PROVE  now' \in Nat /\ now \in Nat /\ now <= now'
<1>0. now \in Nat
  BY DEF TypeOK
<1>1. ASSUME NEW r, NEW source, NEW passes, NEW lease, NEW digestOk,
             \/ CreateRun(r, source, passes, lease) \/ FinalizeRunFailed(r) \/ RequestCancel(r)
             \/ FinalizeCancelledRun(r) \/ FinalizeCycle(r, digestOk) \/ ArchiveRun(r)
      PROVE  now' = now
  BY <1>1, Zenon DEF CreateRun, FinalizeRunFailed, RequestCancel, FinalizeCancelledRun,
                     FinalizeCycle, ArchiveRun
<1>2. ASSUME NEW a, NEW lease, NEW verdict, NEW sessions,
             \/ StartAttempt(a, lease) \/ FinishAttempt(a, verdict, sessions)
             \/ RecordConsumption(a, sessions)
      PROVE  now' = now
  BY <1>2, Zenon DEF StartAttempt, FinishAttempt, RecordConsumption
<1>3. CASE ProposalStep
  <2>1. now' = now
    BY <1>3, Zenon DEF ProposalStep, RecordProposals, TransitionProposals, ClaimProposals,
                       FinalizeProposals, ExpireStaleProposals
  <2> QED BY <1>0, <2>1
<1>4. CASE (\E owned \in SUBSET Run : RecoverOrphaned(owned)) \/ Tick \/ UNCHANGED vars
  BY <1>0, <1>4 DEF RecoverOrphaned, Tick, vars
<1>5. CASE RunStep
  <2>1. now' = now
    BY <1>1, <1>5 DEF RunStep
  <2> QED BY <1>0, <2>1
<1>6. CASE AttemptStep
  <2>1. now' = now
    BY <1>2, <1>6 DEF AttemptStep
  <2> QED BY <1>0, <2>1
<1> QED BY <1>3, <1>4, <1>5, <1>6 DEF Next

\* An attempt that is there stays.
LEMMA RowKept ==
    ASSUME TypeOK, [Next]_vars, NEW a \in Attempt, attempts[a].state # "ABSENT"
    PROVE  attempts'[a].state # "ABSENT"
<1>1. AttemptMove(a)
  BY AttemptMoves
<1> QED BY <1>1 DEF AttemptMove, FencedBy, AttemptTerminal, AttemptState, ActiveState

LEMMA PassKept ==
    ASSUME TypeOK, [Next]_vars, NEW r, NEW p, HasPass(r, p)
    PROVE  HasPass(r, p)'
BY RowKept DEF HasPass

LEMMA CoveredKept ==
    ASSUME TypeOK, [Next]_vars, NEW r \in Run, Exists(r), Covered(r)
    PROVE  Covered(r)'
<1>1. runs'[r].passes = runs[r].passes
  BY RunKept DEF RunStays
<1> QED BY <1>1, PassKept DEF Covered

\* A worker that keeps what it carries and its attempt stays grounded.
LEMMA GroundKept ==
    ASSUME TypeOK, TypeOK', [Next]_vars, WorkerRows, NEW g \in Gateway, InHand(g),
           Carries(worker'[g], worker[g]), worker'[g].attempt = worker[g].attempt, Live(g)
    PROVE  Grounded(g)'
<1>1. worker[g].run \in Run /\ worker[g] \in WorkerRow
  BY DEF InHand, Grounded, WorkerRows
<1> PICK r \in Run, a \in Attempt \cup {NoAttempt}, d \in Nat, cancel \in BOOLEAN :
        /\ worker[g].run = r /\ worker[g].attempt = a /\ worker[g].deadline = d
        /\ worker[g].cancel = cancel
  BY <1>1 DEF WorkerRow
<1>2. /\ Exists(r) /\ d <= now + Lease /\ (cancel => runs[r].cancel)
      /\ a # NoAttempt => attempts[a].state # "ABSENT" /\ RunOf(a) = r
  BY DEF InHand, Grounded
<1>3. Exists(r)' /\ (cancel => runs'[r].cancel)
  BY <1>2, RunKept DEF RunStays, Exists
<1>4. d <= now' + Lease
  BY <1>2, StoreForward, ControllerAssumption
<1>5. a # NoAttempt => attempts'[a].state # "ABSENT" /\ RunOf(a) = r
  BY <1>2, RowKept
<1>6. /\ worker'[g].run = r /\ worker'[g].deadline = d /\ worker'[g].cancel = cancel
      /\ worker'[g].attempt = a
  BY DEF Carries
<1> QED BY <1>3, <1>4, <1>5, <1>6 DEF Grounded, Exists

\* Whoever is not in the middle of filling up stays so.
LEMMA NotFilling ==
    ASSUME NEW g \in Gateway, worker'[g].step \notin {"unstarted", "unstartedFinish", "finalize"}
    PROVE  Filling(g)'
BY DEF Filling

\* What a filling worker has found stays there while its list does not change.
LEMMA FillingKept ==
    ASSUME TypeOK, [Next]_vars, WorkerRows, NEW g \in Gateway, InHand(g), Live(g),
           Carries(worker'[g], worker[g]), worker'[g].failing = worker[g].failing,
           worker'[g].todo = worker[g].todo, worker'[g].skip = worker[g].skip,
           worker'[g].step \in {"unstarted", "unstartedFinish"} =>
               worker[g].step \in {"unstarted", "unstartedFinish"},
           worker'[g].step = "finalize" => worker[g].step = "finalize"
    PROVE  Filling(g)'
<1>1. worker[g].run \in Run /\ worker[g] \in WorkerRow
  BY DEF InHand, Grounded, WorkerRows
<1> PICK r \in Run, todo \in Seq(Pass), skip \in SUBSET Pass :
        worker[g].run = r /\ worker[g].todo = todo /\ worker[g].skip = skip
  BY <1>1 DEF WorkerRow
<1>2. Exists(r) /\ worker'[g].run = r /\ worker'[g].todo = todo /\ worker'[g].skip = skip
  BY DEF InHand, Grounded, Carries
<1>3. runs'[r].passes = runs[r].passes
  BY <1>2, RunKept DEF RunStays
<1>4. worker'[g].step = "finalize" => Covered(r)'
  BY <1>2, CoveredKept DEF InHand, Filling
<1>5. \A p : HasPass(r, p) => HasPass(r, p)'
  BY PassKept
<1>6. worker'[g].failing /\ worker'[g].step \in {"unstarted", "unstartedFinish"} =>
        runs'[r].passes \subseteq Elements(todo) /\ \A p \in skip : HasPass(r, p)'
  <2>1. worker[g].failing /\ worker[g].step \in {"unstarted", "unstartedFinish"} =>
          runs[r].passes \subseteq Elements(todo) /\ \A p \in skip : HasPass(r, p)
    BY DEF InHand, Filling
  <2> QED BY <1>3, <1>5, <2>1
<1> QED BY <1>2, <1>4, <1>6 DEF Filling, Covered, HasPass, Elements

\* A worker that does not move keeps what it has in hand.
LEMMA StillInHand ==
    ASSUME TypeOK, TypeOK', [Next]_vars, WorkerRows, NEW g \in Gateway, InHand(g),
           worker'[g] = worker[g]
    PROVE  InHand(g)'
<1>1. Consistent(worker[g])'
  BY DEF InHand, Consistent
<1>2. CASE Live(g)
  <2>1. Carries(worker'[g], worker[g])
    BY DEF Carries
  <2>2. Grounded(g)'
    BY <1>2, <2>1, GroundKept
  <2>3. Filling(g)'
    BY <1>2, <2>1, FillingKept
  <2> QED BY <1>1, <2>2, <2>3 DEF InHand
<1>3. CASE ~Live(g)
  <2>1. worker'[g] = Idle
    BY <1>3 DEF InHand, Consistent, Live
  <2> QED BY <1>1, <2>1, IdleRow DEF InHand, Grounded, Filling, Live
<1> QED BY <1>2, <1>3
-----------------------------------------------------------------------------
(* What each step of a worker leaves it with. *)

Stepping(g) == TypeOK /\ TypeOK' /\ [Next]_vars /\ WorkerRows /\ InHand(g)

\* A worker keeps its attempt, is rid of it, or has just started it.
AttemptFresh(g) ==
    \/ worker'[g].attempt \in {worker[g].attempt, NoAttempt}
    \/ worker'[g].attempt \in Attempt /\ attempts[worker'[g].attempt].state = "ABSENT"
Moves(g) ==
    /\ worker' \in [Gateway -> WorkerRow]
    /\ \A h \in Gateway \ {g} : worker'[h] = worker[h]
    /\ InHand(g)' /\ AttemptFresh(g)

\* A worker that goes on with its attempt.
LEMMA GoesOnWith ==
    ASSUME NEW g \in Gateway, Stepping(g), NEW new \in WorkerRow, Becomes(g, new),
           Carries(new, worker[g]), new.attempt = worker[g].attempt, Live(g), Consistent(new),
           new.step \in {"unstarted", "unstartedFinish", "finalize"} => Filling(g)'
    PROVE  Moves(g)
<1>1. worker'[g] = new
  BY DEF Becomes
<1>2. Consistent(worker[g])'
  BY <1>1 DEF Consistent
<1>3. Grounded(g)'
  BY <1>1, GroundKept DEF Stepping
<1>4. Filling(g)'
  BY <1>1, NotFilling
<1> QED BY <1>1, <1>2, <1>3, <1>4 DEF Moves, Becomes, InHand, AttemptFresh

\* A worker that only goes to another step.
LEMMA GoesTo ==
    ASSUME NEW g \in Gateway, Stepping(g), NEW step \in Steps \ {"idle"}, Goto(g, step), Live(g),
           step = "start" => worker[g].todo # <<>>,
           step \in {"child", "record", "finish", "next", "unstartedFinish"} =>
               worker[g].attempt # NoAttempt,
           step \notin {"record", "finish", "unstartedFinish"},
           step = "unstarted" => worker[g].step = "unstartedFinish",
           step = "missing" \/ step = "finalize" => worker[g].created,
           step = "finalize" => Filling(g)'
    PROVE  Moves(g)
<1> DEFINE new == [worker[g] EXCEPT !.step = step]
<1>0. worker[g] \in WorkerRow /\ worker \in [Gateway -> WorkerRow]
  BY DEF Stepping, WorkerRows
<1>1. /\ new \in WorkerRow /\ Carries(new, worker[g]) /\ new.step = step
      /\ new.todo = worker[g].todo /\ new.skip = worker[g].skip /\ new.failing = worker[g].failing
      /\ new.attempt = worker[g].attempt /\ new.verdict = worker[g].verdict
  BY <1>0, StepUpdate
<1>2. worker' = [worker EXCEPT ![g] = new]
  BY <1>0 DEF Goto
<1>3. Becomes(g, new)
  BY <1>1, <1>2, BecomesRow DEF Stepping
<1>4. worker'[g] = new
  BY <1>3 DEF Becomes
<1> HIDE DEF new
<1>5. Consistent(new)
  BY <1>1 DEF Consistent, Stepping, InHand, Carries
<1>6. step = "unstarted" => Filling(g)'
  BY <1>1, <1>4, FillingKept DEF Stepping
<1> QED BY <1>1, <1>3, <1>5, <1>6, GoesOnWith

\* A worker that turns to attempts without a child.
LEMMA GoesUnstarted ==
    ASSUME NEW g \in Gateway, Stepping(g), NEW passes \in Seq(Pass), NEW verdict \in {"BLOCKED", "FAILED"},
           NEW failing \in BOOLEAN, Unstarted(g, passes, verdict, failing), Live(g), UNCHANGED vars,
           failing = TRUE => /\ worker[g].created
                             /\ runs[worker[g].run].passes \subseteq Elements(passes)
    PROVE  Moves(g)
<1> DEFINE skip == {p \in Pass : \E a \in Attempt :
                       RunOf(a) = worker[g].run /\ PassOf(a) = p /\ attempts[a].state # "ABSENT"}
           new == [worker[g] EXCEPT !.step = "unstarted", !.todo = passes, !.verdict = verdict,
                                    !.failing = failing, !.skip = skip]
<1>0. worker[g] \in WorkerRow /\ worker \in [Gateway -> WorkerRow]
  BY DEF Stepping, WorkerRows
<1>1. skip \in SUBSET Pass /\ \A p \in skip : HasPass(worker[g].run, p)
  BY DEF HasPass
<1>2. worker' = [worker EXCEPT ![g] = new]
  BY <1>0 DEF Unstarted
<1>3. "unstarted" \in Steps /\ verdict \in Said
  BY DEF Steps, Said, AttemptTerminal, AttemptState, ActiveState
<1> HIDE DEF skip
<1>4. /\ new \in WorkerRow /\ Carries(new, worker[g]) /\ new.step = "unstarted"
      /\ new.todo = passes /\ new.skip = skip /\ new.failing = failing
      /\ new.attempt = worker[g].attempt /\ new.verdict = verdict
  BY <1>0, <1>1, <1>3, Zenon DEF WorkerRow, Carries
<1>5. Becomes(g, new)
  BY <1>2, <1>4, BecomesRow DEF Stepping
<1>6. worker'[g] = new
  BY <1>5 DEF Becomes
<1> HIDE DEF new
<1>7. Consistent(new)
  BY <1>4 DEF Consistent, Carries
<1>8. Filling(g)'
  <2>1. runs' = runs /\ attempts' = attempts
    BY DEF vars
  <2>2. worker'[g].run = worker[g].run
    BY <1>4, <1>6 DEF Carries
  <2> QED BY <1>1, <1>4, <1>6, <2>1, <2>2 DEF Filling, HasPass, Elements
<1> QED BY <1>4, <1>5, <1>7, <1>8, GoesOnWith

\* A worker that takes up an attempt it has just started.
LEMMA TakesUp ==
    ASSUME NEW g \in Gateway, Stepping(g), NEW new \in WorkerRow, Becomes(g, new),
           Carries(new, worker[g]), NEW a \in Attempt, new.attempt = a, RunOf(a) = worker[g].run,
           attempts[a].state = "ABSENT", attempts'[a].state # "ABSENT", Live(g), Consistent(new),
           new.step \in {"unstarted", "unstartedFinish", "finalize"} => Filling(g)'
    PROVE  Moves(g)
<1>0. worker'[g] = new
  BY DEF Becomes
<1>1. worker[g].run \in Run /\ worker[g] \in WorkerRow
  BY DEF Stepping, InHand, Grounded, WorkerRows
<1> PICK r \in Run, d \in Nat, cancel \in BOOLEAN :
        worker[g].run = r /\ worker[g].deadline = d /\ worker[g].cancel = cancel
  BY <1>1 DEF WorkerRow
<1>2. Exists(r) /\ d <= now + Lease /\ (cancel => runs[r].cancel)
  BY DEF Stepping, InHand, Grounded
<1>3. Exists(r)' /\ (cancel => runs'[r].cancel)
  BY <1>2, RunKept DEF RunStays, Exists, Stepping
<1>4. d <= now' + Lease
  BY <1>2, StoreForward, ControllerAssumption DEF Stepping
<1>5. /\ worker'[g].run = r /\ worker'[g].deadline = d /\ worker'[g].cancel = cancel
      /\ worker'[g].attempt = a
  BY <1>0 DEF Carries
<1>6. Grounded(g)'
  BY <1>3, <1>4, <1>5 DEF Grounded, Exists
<1>7. Consistent(worker[g])'
  BY <1>0 DEF Consistent
<1>8. Filling(g)'
  BY <1>0, NotFilling
<1> QED BY <1>5, <1>6, <1>7, <1>8 DEF Moves, Becomes, InHand, AttemptFresh

\* Only an attempt that is not there yet is started.
LEMMA StartedRow ==
    ASSUME TypeOK, NEW a \in Attempt, NEW lease, StartAttempt(a, lease)
    PROVE  attempts[a].state = "ABSENT" /\ attempts'[a].state = "RUNNING"
<1>1. AdmittedAttempts(ByController(RunOf(a)), {RunOf(a)}) \in [Attempt -> AttemptRow]
  BY AttemptKey, RecoveryType DEF AdmittedAttempts, TypeOK
<1> QED BY <1>1 DEF StartAttempt, IsNextAttempt

\* The passes a run was created for.
StandardPasses == Elements(DreamPasses) \cup {Digest}
ControllerRuns ==
    \A r \in Run : Exists(r) => /\ runs[r].source = "gui"
                                /\ runs[r].passes \in {StandardPasses, {Head(DreamPasses)}}

\* The list of requested passes names every pass of the run.
LEMMA RequestedPasses ==
    ASSUME ControllerRuns, NEW r \in Run, Exists(r)
    PROVE  Requested(r) \in Seq(Pass) /\ runs[r].passes \subseteq Elements(Requested(r))
<1> DEFINE all == Append(DreamPasses, Digest)
           one == <<Head(DreamPasses)>>
<1>1. one \in Seq(Pass) /\ Elements(one) = {Head(DreamPasses)}
  BY DreamPassesType DEF Elements
<1>2. all \in Seq(Pass) /\ Len(all) = Len(DreamPasses) + 1 /\ all[Len(DreamPasses) + 1] = Digest
  BY DreamPassesType
<1>3. \A i \in 1..Len(DreamPasses) : all[i] = DreamPasses[i] /\ i \in 1..Len(all)
  BY DreamPassesType
<1>4. Len(DreamPasses) + 1 \in 1..Len(all)
  BY <1>2, DreamPassesType
<1> HIDE DEF all
<1>5. StandardPasses \subseteq Elements(all)
  BY <1>2, <1>3, <1>4 DEF StandardPasses, Elements
<1>6. runs[r].passes = {Head(DreamPasses)} \/ runs[r].passes = StandardPasses
  BY DEF ControllerRuns
<1> HIDE DEF one
<1>7. Requested(r) = IF runs[r].passes = {Head(DreamPasses)} THEN one ELSE all
  BY DEF Requested, one, all
<1> QED BY <1>1, <1>2, <1>5, <1>6, <1>7

\* One lemma per step of a worker: its new row is consistent, grounded, and fills up what it must.
LEMMA LoopMoves ==
    ASSUME NEW g \in Gateway, Stepping(g), Loop(g)
    PROVE  Moves(g)
<1> DEFINE w == worker[g]
<1>0. /\ w \in WorkerRow /\ worker \in [Gateway -> WorkerRow] /\ w.todo \in Seq(Pass)
      /\ w.step = "loop" /\ Live(g) /\ UNCHANGED vars
  BY DEF Stepping, WorkerRows, WorkerRow, Loop, Live
<1>1. CASE Goto(g, "final")
  BY <1>0, <1>1, GoesTo DEF Steps
<1>2. CASE Goto(g, "start") /\ w.todo # <<>>
  BY <1>0, <1>2, GoesTo DEF Steps
<1>3. CASE Unstarted(g, w.todo, "BLOCKED", FALSE)
  BY <1>0, <1>3, GoesUnstarted
<1>4. CASE Unstarted(g, <<Digest>>, "BLOCKED", FALSE)
  <2>1. <<Digest>> \in Seq(Pass)
    BY DreamPassesType
  <2> QED BY <1>0, <1>4, <2>1, GoesUnstarted
<1>5. CASE worker' = [worker EXCEPT ![g].step = "start", ![g].todo = <<Digest>>, ![g].standard = FALSE]
  <2> DEFINE todo == <<Digest>>
             new == [w EXCEPT !.step = "start", !.todo = todo, !.standard = FALSE]
  <2>1. todo \in Seq(Pass) /\ todo # <<>> /\ "start" \in Steps
    BY DreamPassesType DEF Steps
  <2>2. worker' = [worker EXCEPT ![g] = new]
    BY <1>0, <1>5
  <2> HIDE DEF todo
  <2>3. /\ new \in WorkerRow /\ Carries(new, w) /\ new.step = "start" /\ new.todo = todo
        /\ new.attempt = w.attempt /\ new.failing = w.failing
    BY <1>0, <2>1, Zenon DEF WorkerRow, Carries
  <2>4. Becomes(g, new)
    BY <2>2, <2>3, BecomesRow DEF Stepping
  <2> HIDE DEF new
  <2>5. Consistent(new)
    BY <2>1, <2>3 DEF Consistent, Stepping, InHand, Carries
  <2> QED BY <1>0, <2>3, <2>4, <2>5, GoesOnWith
<1> QED BY <1>0, <1>1, <1>2, <1>3, <1>4, <1>5 DEF Loop

LEMMA StartPassMoves ==
    ASSUME NEW g \in Gateway, Stepping(g), NEW spawned \in BOOLEAN, StartPass(g, spawned)
    PROVE  Moves(g)
<1> DEFINE w == worker[g]
<1>0. /\ w \in WorkerRow /\ worker \in [Gateway -> WorkerRow] /\ w.todo \in Seq(Pass)
      /\ w.step = "start" /\ Live(g) /\ w.todo # <<>>
  BY DEF Stepping, WorkerRows, WorkerRow, StartPass, Live, InHand, Consistent
<1> DEFINE step == IF spawned THEN "child" ELSE "record"
           verdict == IF spawned THEN "none" ELSE "FAILED"
<1> PICK a \in Attempt :
      /\ RunOf(a) = w.run /\ StartAttempt(a, LeaseFor(g, PassOf(a)))
      /\ worker' = [worker EXCEPT ![g].attempt = a, ![g].todo = Tail(w.todo), ![g].step = step,
                                  ![g].verdict = verdict]
  BY DEF StartPass
<1> DEFINE todo == Tail(w.todo)
           new == [w EXCEPT !.attempt = a, !.todo = todo, !.step = step, !.verdict = verdict]
<1>1. /\ todo \in Seq(Pass) /\ step \in {"child", "record"} /\ verdict \in Said
      /\ step = "record" => verdict = "FAILED"
  BY <1>0 DEF Said, AttemptTerminal, AttemptState, ActiveState
<1>2. worker' = [worker EXCEPT ![g] = new]
  BY <1>0
<1>3. step \in Steps
  BY <1>1 DEF Steps
<1> HIDE DEF todo, step, verdict
<1>4. /\ new \in WorkerRow /\ Carries(new, w) /\ new.step = step /\ new.attempt = a
      /\ new.verdict = verdict /\ new.failing = w.failing
  BY <1>0, <1>1, <1>3, Zenon DEF WorkerRow, Carries
<1>5. Becomes(g, new)
  BY <1>2, <1>4, BecomesRow DEF Stepping
<1>6. a # NoAttempt
  BY DEF Attempt, NoAttempt
<1> HIDE DEF new
<1>7. Consistent(new)
  BY <1>1, <1>4, <1>6 DEF Consistent, Stepping, InHand, Carries
<1>8. attempts[a].state = "ABSENT" /\ attempts'[a].state # "ABSENT"
  BY StartedRow DEF Stepping
<1> QED BY <1>0, <1>1, <1>4, <1>5, <1>7, <1>8, TakesUp

\* The null attempt is no attempt.
LEMMA AttemptIsOne ==
    ASSUME NEW a \in Attempt
    PROVE  a # NoAttempt
<1>1. a = <<a[1], a[2], a[3]>>
  BY DEF Attempt
<1> QED BY <1>1 DEF NoAttempt

LEMMA VerdictMoves ==
    ASSUME NEW g \in Gateway, Stepping(g), Record(g)
    PROVE  Moves(g)
<1> DEFINE w == worker[g]
<1>0. /\ w \in WorkerRow /\ worker \in [Gateway -> WorkerRow] /\ Live(g) /\ UNCHANGED vars
      /\ w.attempt \in Attempt /\ attempts[w.attempt].state # "ABSENT" /\ w.attempt # NoAttempt
      /\ w.verdict \in ChildVerdict \cup {"timeout", "FAILED"}
  BY DEF Stepping, WorkerRows, WorkerRow, Record, Live, InHand, Consistent, Grounded
<1>1. Outcome(g) \in Verdict
  BY <1>0, StoreAssumption DEF Outcome
<1>2. ~IsActive(w.attempt) => attempts[w.attempt].state \in AttemptTerminal
  <2>1. attempts[w.attempt] \in AttemptRow
    BY <1>0 DEF Stepping, TypeOK
  <2> QED BY <1>0, <2>1 DEF IsActive, AttemptTerminal, AttemptRow
<1>3. \E step \in {"finish", "next"}, verdict \in Said :
         /\ worker' = [worker EXCEPT ![g].step = step, ![g].verdict = verdict]
         /\ step = "finish" => verdict \in Verdict
  <2>1. CASE PassOf(w.attempt) = Digest \/ IsActive(w.attempt)
    <3>1. worker' = [worker EXCEPT ![g].step = "finish", ![g].verdict = Outcome(g)]
      BY <2>1 DEF Record
    <3> QED BY <1>1, <3>1, VerdictAssumption DEF Said
  <2>2. CASE ~(PassOf(w.attempt) = Digest \/ IsActive(w.attempt))
    <3>1. worker' = [worker EXCEPT ![g].step = "next", ![g].verdict = attempts[w.attempt].state]
      BY <2>2 DEF Record
    <3> QED BY <1>2, <2>2, <3>1 DEF Said
  <2> QED BY <2>1, <2>2
<1> PICK step \in {"finish", "next"}, verdict \in Said :
         /\ worker' = [worker EXCEPT ![g].step = step, ![g].verdict = verdict]
         /\ step = "finish" => verdict \in Verdict
  BY <1>3
<1> DEFINE new == [w EXCEPT !.step = step, !.verdict = verdict]
<1>4. step \in Steps
  BY DEF Steps
<1>5. /\ new \in WorkerRow /\ Carries(new, w) /\ new.step = step /\ new.verdict = verdict
      /\ new.attempt = w.attempt /\ new.failing = w.failing
  BY <1>0, <1>4, Zenon DEF WorkerRow, Carries
<1>6. worker' = [worker EXCEPT ![g] = new]
  BY <1>0
<1>7. Becomes(g, new)
  BY <1>5, <1>6, BecomesRow DEF Stepping
<1> HIDE DEF new
<1>8. Consistent(new)
  BY <1>0, <1>5 DEF Consistent, Stepping, InHand, Carries
<1> QED BY <1>0, <1>5, <1>7, <1>8, GoesOnWith

LEMMA AfterMoves ==
    ASSUME NEW g \in Gateway, Stepping(g), After(g)
    PROVE  Moves(g)
<1> DEFINE w == worker[g]
           passes == IF w.standard THEN Append(w.todo, Digest) ELSE w.todo
<1>0. w \in WorkerRow /\ w.todo \in Seq(Pass) /\ Live(g) /\ UNCHANGED vars
  BY DEF Stepping, WorkerRows, WorkerRow, After, Live
<1>1. passes \in Seq(Pass)
  BY <1>0, DreamPassesType
<1>2. CASE Unstarted(g, passes, "BLOCKED", FALSE)
  BY <1>0, <1>1, <1>2, GoesUnstarted
<1>3. CASE Goto(g, "loop")
  BY <1>0, <1>3, GoesTo DEF Steps
<1> QED BY <1>2, <1>3 DEF After

LEMMA StartUnstartedMoves ==
    ASSUME NEW g \in Gateway, Stepping(g), StartUnstarted(g)
    PROVE  Moves(g)
<1> DEFINE w == worker[g]
<1>0. /\ w \in WorkerRow /\ worker \in [Gateway -> WorkerRow] /\ w.skip \in SUBSET Pass
      /\ w.step = "unstarted" /\ Live(g) /\ w.run \in Run /\ Exists(w.run) /\ w.todo \in Seq(Pass)
  BY DEF Stepping, WorkerRows, WorkerRow, StartUnstarted, Live, InHand, Grounded
<1> PICK i \in 1..Len(w.todo), a \in Attempt :
      /\ RunOf(a) = w.run /\ StartAttempt(a, LeaseFor(g, PassOf(a)))
      /\ worker' = [worker EXCEPT ![g].attempt = a, ![g].step = "unstartedFinish",
                                  ![g].skip = @ \cup {PassOf(a)}]
  BY DEF StartUnstarted
<1> DEFINE skip == w.skip \cup {PassOf(a)}
           new == [w EXCEPT !.attempt = a, !.step = "unstartedFinish", !.skip = skip]
<1>1. skip \in SUBSET Pass
  BY <1>0, AttemptKey
<1>2. worker' = [worker EXCEPT ![g] = new]
  BY <1>0
<1>3. "unstartedFinish" \in Steps
  BY DEF Steps
<1> HIDE DEF skip
<1>4. /\ new \in WorkerRow /\ Carries(new, w) /\ new.step = "unstartedFinish" /\ new.attempt = a
      /\ new.verdict = w.verdict /\ new.failing = w.failing /\ new.skip = skip /\ new.todo = w.todo
  BY <1>0, <1>1, <1>3, Zenon DEF WorkerRow, Carries
<1>5. Becomes(g, new)
  BY <1>2, <1>4, BecomesRow DEF Stepping
<1>6. a # NoAttempt
  BY AttemptIsOne
<1>7. worker'[g] = new
  BY <1>5 DEF Becomes
<1> HIDE DEF new
<1>8. Consistent(new)
  BY <1>0, <1>4, <1>6 DEF Consistent, Stepping, InHand, Carries
<1>9. attempts[a].state = "ABSENT" /\ attempts'[a].state # "ABSENT"
  BY StartedRow DEF Stepping
<1>10. Filling(g)'
  <2> PICK r \in Run, old \in SUBSET Pass, todo \in Seq(Pass) :
        w.run = r /\ w.skip = old /\ w.todo = todo
    BY <1>0
  <2>1. Exists(r) /\ worker'[g].run = r /\ worker'[g].todo = todo
        /\ worker'[g].skip = old \cup {PassOf(a)}
    BY <1>0, <1>4, <1>7 DEF Carries, skip
  <2>2. runs'[r].passes = runs[r].passes
    BY <2>1, RunKept DEF RunStays, Stepping
  <2>3. HasPass(r, PassOf(a))'
    BY <1>9 DEF HasPass
  <2>4. \A p : HasPass(r, p) => HasPass(r, p)'
    BY PassKept DEF Stepping
  <2>5. w.failing => /\ runs'[r].passes \subseteq Elements(todo)
                     /\ \A p \in old \cup {PassOf(a)} : HasPass(r, p)'
    BY <1>0, <2>2, <2>3, <2>4 DEF Stepping, InHand, Filling
  <2>6. worker'[g].step = "unstartedFinish" /\ worker'[g].failing = w.failing
    BY <1>4, <1>7
  <2> HIDE DEF w
  <2> QED BY <2>1, <2>5, <2>6 DEF Filling, HasPass, Elements
<1> QED BY <1>0, <1>4, <1>5, <1>8, <1>9, <1>10, TakesUp

LEMMA FinishUnstartedMoves ==
    ASSUME NEW g \in Gateway, Stepping(g), FinishUnstarted(g)
    PROVE  Moves(g)
<1>0. worker[g].step = "unstartedFinish" /\ Live(g)
  BY DEF FinishUnstarted, Live
<1>1. CASE Goto(g, "unstarted")
  BY <1>0, <1>1, GoesTo DEF Steps
<1>2. CASE Goto(g, "final") \/ Goto(g, "fail")
  BY <1>0, <1>2, GoesTo DEF Steps
<1> QED BY <1>1, <1>2 DEF FinishUnstarted

LEMMA UnstartedDoneMoves ==
    ASSUME NEW g \in Gateway, Stepping(g), UnstartedDone(g)
    PROVE  Moves(g)
<1> DEFINE w == worker[g]
<1>0. /\ w.step = "unstarted" /\ Live(g) /\ w.run \in Run /\ Exists(w.run)
      /\ Elements(w.todo) \subseteq w.skip /\ w \in WorkerRow /\ UNCHANGED vars
  BY DEF UnstartedDone, Live, Stepping, InHand, Grounded, WorkerRows
<1>1. CASE Goto(g, "final")
  BY <1>0, <1>1, GoesTo DEF Steps
<1>2. CASE w.failing /\ Goto(g, "finalize")
  <2> PICK r \in Run : w.run = r
    BY <1>0
  <2>1. Covered(r)
    BY <1>0, <1>2 DEF Stepping, InHand, Filling, Covered
  <2>2. Covered(r)'
    BY <1>0, <2>1, CoveredKept DEF Stepping
  <2>3. worker' = [worker EXCEPT ![g] = [worker[g] EXCEPT !.step = "finalize"]]
    BY <1>2 DEF Goto
  <2>4. worker'[g].step = "finalize" /\ worker'[g].run = r
    BY <1>0, <2>3, StepUpdate DEF Stepping, WorkerRows, Steps, Carries
  <2>5. Filling(g)'
    BY <2>2, <2>4 DEF Filling, Covered, HasPass
  <2>6. w.created
    BY <1>2 DEF Stepping, InHand, Consistent
  <2> QED BY <1>0, <1>2, <2>5, <2>6, GoesTo DEF Steps
<1> QED BY <1>1, <1>2 DEF UnstartedDone

LEMMA FailMoves ==
    ASSUME NEW g \in Gateway, Stepping(g), Fail(g)
    PROVE  Moves(g)
<1>0. worker[g].step = "fail" /\ Live(g)
  BY DEF Fail, Live
<1>1. CASE worker[g].created /\ Goto(g, "missing")
  BY <1>0, <1>1, GoesTo DEF Steps
<1>2. CASE Goto(g, "final")
  BY <1>0, <1>2, GoesTo DEF Steps
<1> QED BY <1>1, <1>2 DEF Fail

LEMMA MissingMoves ==
    ASSUME NEW g \in Gateway, Stepping(g), ControllerRuns, Missing(g)
    PROVE  Moves(g)
<1>0. /\ worker[g].step = "missing" /\ Live(g) /\ UNCHANGED vars /\ worker[g].created
      /\ worker[g].run \in Run /\ Exists(worker[g].run)
  BY DEF Missing, Live, Stepping, InHand, Consistent, Grounded
<1>1. /\ Requested(worker[g].run) \in Seq(Pass)
      /\ runs[worker[g].run].passes \subseteq Elements(Requested(worker[g].run))
  BY <1>0, RequestedPasses
<1>2. Unstarted(g, Requested(worker[g].run), "FAILED", TRUE)
  BY DEF Missing
<1> QED BY <1>0, <1>1, <1>2, GoesUnstarted

\* Steps that change nothing of the row but its place.
LEMMA PlainMoves ==
    ASSUME NEW g \in Gateway, Stepping(g),
           \/ SkipDigest(g) \/ StartRefused(g) \/ Finish(g) \/ UnstartedRefused(g)
           \/ Finalize(g) \/ Final(g) \/ Error(g)
    PROVE  Moves(g)
<1>1. CASE SkipDigest(g) \/ StartRefused(g) \/ UnstartedRefused(g) \/ Finalize(g) \/ Final(g) \/ Error(g)
  <2>1. Goto(g, "final") \/ Goto(g, "fail") \/ Goto(g, "pop")
    BY <1>1 DEF SkipDigest, StartRefused, UnstartedRefused, Finalize, Final, Error
  <2>2. Live(g)
    BY <1>1 DEF SkipDigest, StartRefused, UnstartedRefused, Finalize, Final, Error, Live
  <2> QED BY <2>1, <2>2, GoesTo DEF Steps
<1>2. CASE Finish(g)
  <2>1. Goto(g, "next") \/ Goto(g, "fail")
    BY <1>2 DEF Finish
  <2>2. Live(g) /\ worker[g].attempt # NoAttempt
    BY <1>2 DEF Finish, Live, Stepping, InHand, Consistent
  <2> QED BY <2>1, <2>2, GoesTo DEF Steps
<1> QED BY <1>1, <1>2

\* A worker that is gone.
LEMMA GoneMoves ==
    ASSUME NEW g \in Gateway, Stepping(g), worker' = [worker EXCEPT ![g] = Idle]
    PROVE  Moves(g)
<1>1. Becomes(g, Idle)
  BY IdleRow, BecomesRow DEF Stepping
<1>2. worker'[g] = Idle
  BY <1>1 DEF Becomes
<1>3. InHand(g)'
  BY <1>2, IdleRow DEF InHand, Consistent, Grounded, Filling, Live
<1> QED BY <1>1, <1>2, <1>3, IdleRow DEF Moves, Becomes, AttemptFresh

\* A worker that is launched on a run there is.
LEMMA LaunchMoves ==
    ASSUME NEW g \in Gateway, Stepping(g), NEW r \in Run, NEW passes \in Seq(Pass),
           NEW created \in BOOLEAN, Exists(r)', now' = now,
           worker' = [worker EXCEPT ![g] = Launched(r, passes, created)]
    PROVE  Moves(g)
<1> DEFINE new == Launched(r, passes, created)
<1>1. /\ new \in WorkerRow /\ new.step = "loop" /\ new.run = r /\ new.deadline = now + Lease
      /\ new.attempt = NoAttempt /\ ~new.cancel /\ ~new.failing
  BY LaunchedRow DEF Stepping
<1>2. Becomes(g, new)
  BY <1>1, BecomesRow DEF Stepping
<1>3. worker'[g] = new
  BY <1>2 DEF Becomes
<1> HIDE DEF new
<1>4. Consistent(worker[g])' /\ Filling(g)'
  BY <1>1, <1>3 DEF Consistent, Filling
<1>5. now + Lease <= now' + Lease
  BY ControllerAssumption DEF Stepping, TypeOK
<1>6. Grounded(g)'
  BY <1>1, <1>3, <1>5 DEF Grounded, Live, Exists
<1> QED BY <1>1, <1>2, <1>3, <1>4, <1>6 DEF Moves, Becomes, InHand, AttemptFresh
-----------------------------------------------------------------------------
(* What a gateway asks of the store. *)

\* The whole of what an action of the gateway g may be.
GatewayAction(g) ==
    \/ \E r \in Run, passes \in {DreamPasses, <<Head(DreamPasses)>>} : StartRun(g, r, passes)
    \/ \E a \in Attempt : Retry(g, a)
    \/ Cancel(g) \/ Recover(g) \/ WorkerStep(g) \/ Error(g) \/ Crash(g)

\* The operations of the store that a worker of g performs, or that launch or cancel it.
Work(g) ==
    \/ UNCHANGED vars
    \/ \E r \in Run, passes \in {StandardPasses, {Head(DreamPasses)}} : CreateRun(r, "gui", passes, Lease)
    \/ UnownedActive({}) = {} /\ RecoverOrphaned({})
    \/ \E a \in Attempt, lease \in LeaseRequest : RunOf(a) = worker[g].run /\ StartAttempt(a, lease)
    \/ worker[g].attempt \in Attempt /\ \E v \in Verdict : FinishAttempt(worker[g].attempt, v, {})
    \/ /\ worker[g].run \in Run
       /\ \/ worker[g].created /\ Covered(worker[g].run) /\ FinalizeRunFailed(worker[g].run)
          \/ runs[worker[g].run].cancel /\ FinalizeCancelledRun(worker[g].run)
          \/ RequestCancel(worker[g].run)

Operation ==
    \/ UNCHANGED vars \/ Tick
    \/ \E r \in Run, passes \in {StandardPasses, {Head(DreamPasses)}} : CreateRun(r, "gui", passes, Lease)
    \/ \E owned \in SUBSET Run : RecoverOrphaned(owned)
    \/ \E a \in Attempt, lease \in LeaseRequest : StartAttempt(a, lease)
    \/ \E a \in Attempt, v \in Verdict : FinishAttempt(a, v, {})
    \/ \E r \in Run : \/ Covered(r) /\ FinalizeRunFailed(r)
                      \/ FinalizeCancelledRun(r) \/ RequestCancel(r) \/ ArchiveRun(r)

\* The passes of a new run are those of a standard run or the first alone.
LEMMA PassSets ==
    /\ StandardPasses \in (SUBSET Pass) \ {{}} /\ {Head(DreamPasses)} \in (SUBSET Pass) \ {{}}
    /\ \A passes \in {DreamPasses, <<Head(DreamPasses)>>} :
          /\ passes \in Seq(Pass)
          /\ Elements(passes) \cup (IF passes = DreamPasses THEN {Digest} ELSE {})
                \in {StandardPasses, {Head(DreamPasses)}}
<1>1. <<Head(DreamPasses)>> \in Seq(Pass) /\ Elements(<<Head(DreamPasses)>>) = {Head(DreamPasses)}
  BY DreamPassesType DEF Elements
<1>2. DreamPasses # <<Head(DreamPasses)>>
  BY DreamPassesType
<1>3. StandardPasses \in (SUBSET Pass) \ {{}}
  BY DreamPassesType DEF StandardPasses, Elements
<1> QED BY <1>1, <1>2, <1>3, DreamPassesType DEF StandardPasses

\* The operations the controller uses are steps of the store.
LEMMA OperationIsNext == Operation => [Next]_vars
<1>1. /\ "gui" \in Source /\ Lease \in LeaseRequest /\ {} \in SUBSET Session
  BY StoreAssumption, ControllerAssumption
<1>2. ASSUME NEW r \in Run, NEW passes \in {StandardPasses, {Head(DreamPasses)}},
             CreateRun(r, "gui", passes, Lease)
      PROVE  RunStep
  BY <1>1, <1>2, PassSets DEF RunStep
<1>3. ASSUME NEW a \in Attempt, NEW v \in Verdict, FinishAttempt(a, v, {})
      PROVE  AttemptStep
  BY <1>1, <1>3 DEF AttemptStep
<1>4. ASSUME NEW a \in Attempt, NEW lease \in LeaseRequest, StartAttempt(a, lease)
      PROVE  AttemptStep
  BY <1>4 DEF AttemptStep
<1>5. ASSUME NEW r \in Run,
             FinalizeRunFailed(r) \/ FinalizeCancelledRun(r) \/ RequestCancel(r) \/ ArchiveRun(r)
      PROVE  RunStep
  BY <1>5 DEF RunStep
<1> QED BY <1>2, <1>3, <1>4, <1>5 DEF Operation, Next

\* A lease a worker asks for is within its budget, or none.
LEMMA LeaseAsked ==
    ASSUME TypeOK, WorkerRows, NEW g \in Gateway, InHand(g), Live(g), NEW p
    PROVE  LeaseFor(g, p) \in LeaseRequest
<1>1. /\ worker[g].deadline \in Nat /\ now \in Nat /\ worker[g].deadline <= now + Lease
      /\ Lease \in Nat
  BY ControllerAssumption DEF WorkerRows, WorkerRow, TypeOK, InHand, Grounded
<1>2. (0..Lease) \cup {NoDeadline} \subseteq LeaseRequest
  BY StoreAssumption
<1>3. ~Late(g) => worker[g].deadline - now \in 0..Lease
  BY <1>1 DEF Late
<1>4. 0 \in 0..Lease
  BY <1>1
<1> QED BY <1>2, <1>3, <1>4 DEF LeaseFor

\* What a gateway does, but for recovering, is work on its own run and attempt.
LEMMA WorkOf ==
    ASSUME TypeOK, WorkerRows, NEW g \in Gateway, InHand(g), GatewayAction(g), ~Recover(g)
    PROVE  Work(g)
<1> DEFINE w == worker[g]
<1>0. w \in WorkerRow /\ (Live(g) => w.run \in Run)
  BY DEF WorkerRows, InHand, Grounded
<1>1. CASE UNCHANGED vars
  BY <1>1 DEF Work
<1>2. ASSUME NEW r \in Run, NEW passes \in {DreamPasses, <<Head(DreamPasses)>>}, StartRun(g, r, passes)
      PROVE  Work(g)
  <2> DEFINE set == Elements(passes) \cup (IF passes = DreamPasses THEN {Digest} ELSE {})
  <2>1. set \in {StandardPasses, {Head(DreamPasses)}}
    BY PassSets
  <2>2. CreateRun(r, "gui", set, Lease)
    BY <1>2 DEF StartRun
  <2> HIDE DEF set
  <2> QED BY <2>1, <2>2 DEF Work
<1>3. ASSUME NEW a \in Attempt, Retry(g, a)
      PROVE  Work(g)
  BY <1>3 DEF Retry, Work
<1>4. CASE Cancel(g)
  BY <1>0, <1>4 DEF Cancel, Work
<1>5. ASSUME NEW spawned \in BOOLEAN, StartPass(g, spawned)
      PROVE  Work(g)
  <2>1. Live(g)
    BY <1>5 DEF StartPass, Live
  <2> QED BY <1>5, <2>1, LeaseAsked DEF StartPass, Work
<1>6. CASE StartUnstarted(g)
  <2>1. Live(g)
    BY <1>6 DEF StartUnstarted, Live
  <2> QED BY <1>6, <2>1, LeaseAsked DEF StartUnstarted, Work
<1>7. ASSUME Finish(g) \/ FinishUnstarted(g) \/ Fail(g)
      PROVE  Work(g)
  <2>1. CASE UNCHANGED vars
    BY <2>1 DEF Work
  <2>2. CASE ~UNCHANGED vars
    <3>1. \E v \in Verdict : w.attempt # NoAttempt /\ FinishAttempt(w.attempt, v, {})
      BY <1>7, <2>2, StoreAssumption
         DEF Finish, FinishUnstarted, Fail, InHand, Consistent
    <3>2. w.attempt \in Attempt
      BY <1>0, <3>1 DEF WorkerRow
    <3> QED BY <3>1, <3>2 DEF Work
  <2> QED BY <2>1, <2>2
<1>8. CASE Finalize(g)
  <2>1. Live(g) /\ w.created /\ Covered(w.run)
    BY <1>8 DEF Finalize, Live, InHand, Consistent, Filling
  <2> QED BY <1>0, <1>8, <2>1 DEF Finalize, Work
<1>9. CASE Final(g)
  <2>1. CASE CancelSeen(g)
    <3>1. Live(g) /\ runs[w.run].cancel
      BY <1>9, <2>1 DEF Final, Live, CancelSeen, InHand, Grounded
    <3> QED BY <1>0, <1>9, <2>1, <3>1 DEF Final, Work
  <2>2. CASE ~CancelSeen(g)
    BY <1>1, <1>9, <2>2 DEF Final
  <2> QED BY <2>1, <2>2
<1>10. CASE \/ Loop(g) \/ SkipDigest(g) \/ StartRefused(g) \/ Record(g) \/ After(g)
            \/ UnstartedRefused(g) \/ UnstartedDone(g) \/ Missing(g) \/ Pop(g) \/ Error(g) \/ Crash(g)
  BY <1>1, <1>10 DEF Loop, SkipDigest, StartRefused, Record, After, UnstartedRefused,
                     UnstartedDone, Missing, Pop, Error, Crash
<1> QED BY <1>2, <1>3, <1>4, <1>5, <1>6, <1>7, <1>8, <1>9, <1>10 DEF GatewayAction, WorkerStep

LEMMA WorkIsOperation ==
    ASSUME NEW g \in Gateway, Work(g)
    PROVE  Operation
BY DEF Work, Operation

\* The runs a gateway recovers around are runs.
LEMMA OwnedRuns ==
    ASSUME WorkerRows, NEW g \in Gateway, InHand(g), Recover(g)
    PROVE  \E owned \in SUBSET Run : RecoverOrphaned(owned)
<1>1. Owned(g) \in SUBSET Run
  BY DEF Owned, InHand, Grounded
<1> QED BY <1>1 DEF Recover

\* Each step of the composed system is an operation of the store or leaves it alone.
LEMMA ControllerOperation == TypeOK /\ HandInv /\ [ControllerNext]_allVars => Operation
<1> SUFFICES ASSUME TypeOK, HandInv, [ControllerNext]_allVars PROVE Operation
  OBVIOUS
<1>1. ASSUME NEW g \in Gateway, GatewayAction(g)
      PROVE  Operation
  <2>1. CASE Recover(g)
    BY <2>1, OwnedRuns DEF HandInv, Operation
  <2>2. CASE ~Recover(g)
    BY <1>1, <2>2, WorkOf, WorkIsOperation DEF HandInv
  <2> QED BY <2>1, <2>2
<1>2. ASSUME NEW r \in Run, Archive(r)
      PROVE  Operation
  BY <1>2 DEF Archive, Operation
<1>3. ASSUME NEW a \in Attempt, NEW verdict \in ChildVerdict, RunnerFinish(a, verdict)
      PROVE  Operation
  BY <1>3, StoreAssumption DEF RunnerFinish, Operation
<1>4. ASSUME NEW a \in Attempt, NEW code, ChildExit(a, code)
      PROVE  Operation
  BY <1>4 DEF ChildExit, Operation
<1>5. CASE Clock \/ UNCHANGED allVars
  BY <1>5 DEF Clock, allVars, Operation
<1> QED BY <1>1, <1>2, <1>3, <1>4, <1>5 DEF ControllerNext, GatewayAction

\* A cancellation is recorded in the row and in the run, now or earlier.
LEMMA CancelMoves ==
    ASSUME NEW g \in Gateway, Stepping(g), Cancel(g)
    PROVE  Moves(g)
<1> DEFINE new == [worker[g] EXCEPT !.cancel = TRUE]
<1>0. /\ worker[g] \in WorkerRow /\ worker \in [Gateway -> WorkerRow] /\ Live(g)
      /\ worker[g].run \in Run
  BY DEF Stepping, WorkerRows, Cancel, InHand, Grounded
<1> PICK r \in Run, a \in Attempt \cup {NoAttempt}, d \in Nat :
        worker[g].run = r /\ worker[g].attempt = a /\ worker[g].deadline = d
  BY <1>0 DEF WorkerRow
<1>1. /\ new \in WorkerRow /\ new.run = r /\ new.created = worker[g].created
      /\ new.deadline = d /\ new.cancel = TRUE /\ new.step = worker[g].step
      /\ new.todo = worker[g].todo /\ new.skip = worker[g].skip /\ new.failing = worker[g].failing
      /\ new.attempt = a /\ new.verdict = worker[g].verdict
  BY <1>0, Zenon DEF WorkerRow
<1>2. worker' = [worker EXCEPT ![g] = new]
  BY <1>0 DEF Cancel
<1>3. Becomes(g, new)
  BY <1>1, <1>2, BecomesRow DEF Stepping
<1>4. worker'[g] = new
  BY <1>3 DEF Becomes
<1>5. runs'[r].cancel
  <2>1. CASE runs[r].cancel
    BY <1>0, <2>1, RunKept DEF RunStays, Stepping, InHand, Grounded
  <2>2. CASE ~runs[r].cancel
    <3>1. RequestCancel(r)
      BY <2>2 DEF Cancel
    <3>2. runs[r] \in RunRow /\ runs \in [Run -> RunRow]
      BY DEF Stepping, TypeOK
    <3>3. runs' = [runs EXCEPT ![r] = [runs[r] EXCEPT !.cancel = TRUE]]
      BY <3>1 DEF RequestCancel
    <3>4. runs'[r] = [runs[r] EXCEPT !.cancel = TRUE]
      BY <3>2, <3>3
    <3> QED BY <3>2, <3>4, Zenon DEF RunRow
  <2> QED BY <2>1, <2>2
<1> HIDE DEF new
<1>6. Consistent(new)
  BY <1>0, <1>1 DEF Consistent, Stepping, InHand, Live
<1>7. Consistent(worker[g])'
  BY <1>4, <1>6 DEF Consistent
<1>8. Exists(r)' /\ d <= now' + Lease
      /\ (a # NoAttempt => attempts'[a].state # "ABSENT" /\ RunOf(a) = r)
  <2>1. /\ Exists(r) /\ d <= now + Lease
        /\ a # NoAttempt => attempts[a].state # "ABSENT" /\ RunOf(a) = r
    BY <1>0 DEF Stepping, InHand, Grounded
  <2>2. Exists(r)'
    BY <2>1, RunKept DEF RunStays, Exists, Stepping
  <2>3. a # NoAttempt => attempts'[a].state # "ABSENT"
    BY <2>1, RowKept DEF Stepping
  <2> QED BY <2>1, <2>2, <2>3, StoreForward, ControllerAssumption DEF Stepping
<1>9. Grounded(g)'
  BY <1>1, <1>4, <1>5, <1>8 DEF Grounded, Exists
<1>10. Filling(g)'
  <2> PICK todo \in Seq(Pass), skip \in SUBSET Pass :
         worker[g].todo = todo /\ worker[g].skip = skip
    BY <1>0 DEF WorkerRow
  <2>1. runs'[r].passes = runs[r].passes
    BY <1>0, RunKept DEF RunStays, Stepping, InHand, Grounded
  <2>2. \A p : HasPass(r, p) => HasPass(r, p)'
    BY PassKept DEF Stepping
  <2>3. worker[g].step = "finalize" => \A p \in runs'[r].passes : HasPass(r, p)'
    BY <2>1, <2>2 DEF Stepping, InHand, Filling, Covered
  <2>4. worker[g].failing /\ worker[g].step \in {"unstarted", "unstartedFinish"} =>
          runs'[r].passes \subseteq Elements(todo) /\ \A p \in skip : HasPass(r, p)'
    BY <2>1, <2>2 DEF Stepping, InHand, Filling
  <2>5. /\ worker'[g].run = r /\ worker'[g].todo = todo /\ worker'[g].skip = skip
        /\ worker'[g].step = worker[g].step /\ worker'[g].failing = worker[g].failing
    BY <1>1, <1>4
  <2> QED BY <2>3, <2>4, <2>5 DEF Filling, Covered, HasPass, Elements
<1> QED BY <1>1, <1>3, <1>4, <1>7, <1>9, <1>10 DEF Moves, Becomes, InHand, AttemptFresh

\* Every action of a gateway moves its own worker, and no other.
LEMMA ActionMoves ==
    ASSUME NEW g \in Gateway, Stepping(g), ControllerRuns, AdmissionBlindSpots, GatewayAction(g)
    PROVE  Moves(g)
<1>1. ASSUME NEW r \in Run, NEW passes \in {DreamPasses, <<Head(DreamPasses)>>}, StartRun(g, r, passes)
      PROVE  Moves(g)
  <2> DEFINE set == Elements(passes) \cup (IF passes = DreamPasses THEN {Digest} ELSE {})
  <2>1. CreateRun(r, "gui", set, Lease) /\ worker' = [worker EXCEPT ![g] = Launched(r, passes, TRUE)]
    BY <1>1 DEF StartRun
  <2> HIDE DEF set
  <2>2. Exists(r)' /\ now' = now
    <3>1. AdmittedRuns("gui" \in ControllerSource, {}) \in [Run -> RunRow]
      BY RecoveryType DEF AdmittedRuns, TypeOK, Stepping
    <3>2. [NoRun EXCEPT !.state = "QUEUED", !.source = "gui", !.passes = set,
                        !.deadline = Expiry(Lease)].state = "QUEUED"
      BY Zenon DEF NoRun
    <3> QED BY <2>1, <3>1, <3>2, Zenon DEF CreateRun, Exists
  <2>3. passes \in Seq(Pass)
    BY PassSets
  <2> QED BY <2>1, <2>2, <2>3, LaunchMoves
<1>2. ASSUME NEW a \in Attempt, Retry(g, a)
      PROVE  Moves(g)
  <2> DEFINE passes == <<PassOf(a)>>
  <2>1. RunOf(a) \in Run /\ passes \in Seq(Pass)
    BY AttemptKey
  <2>2. worker' = [worker EXCEPT ![g] = Launched(RunOf(a), passes, FALSE)]
        /\ attempts[a].state # "ABSENT"
    BY <1>2 DEF Retry
  <2>3. Work(g) /\ (UNCHANGED vars \/ RecoverOrphaned({}))
    BY <1>2 DEF Retry, Work
  <2>4. now' = now
    BY <2>3, Zenon DEF RecoverOrphaned, vars
  <2> HIDE DEF passes
  <2>5. CASE Exists(RunOf(a))
    <3>1. Exists(RunOf(a))'
      BY <2>1, <2>5, RunKept DEF RunStays, Exists, Stepping
    <3> QED BY <2>1, <2>2, <2>4, <3>1, LaunchMoves
  <2> QED BY <2>2, <2>5 DEF AdmissionBlindSpots
<1>3. CASE Recover(g)
  <2>1. worker' = worker
    BY <1>3 DEF Recover, gwVars
  <2>2. InHand(g)'
    BY <2>1, StillInHand DEF Stepping
  <2> QED BY <2>1, <2>2 DEF Moves, AttemptFresh, Stepping, WorkerRows
<1>4. CASE Pop(g) \/ Crash(g)
  BY <1>4, GoneMoves DEF Pop, Crash
<1> QED BY <1>1, <1>2, <1>3, <1>4, CancelMoves, LoopMoves, StartPassMoves, VerdictMoves, AfterMoves,
           StartUnstartedMoves, FinishUnstartedMoves, UnstartedDoneMoves, FailMoves, MissingMoves,
           PlainMoves
        DEF GatewayAction, WorkerStep
\* The worker of a gateway whose child ends reads its exit code.
LEMMA ExitMoves ==
    ASSUME TypeOK, TypeOK', [Next]_vars, HandInv, NEW a \in Attempt,
           NEW code \in ChildVerdict \cup {"timeout"}, ChildExit(a, code)
    PROVE  /\ worker' \in [Gateway -> WorkerRow]
           /\ \A g \in Gateway : InHand(g)' /\ worker'[g].attempt = worker[g].attempt
<1>1. code \in Said
  BY StoreAssumption, VerdictAssumption DEF Said
<1>2. ASSUME NEW g \in Gateway
      PROVE  worker'[g] \in WorkerRow /\ InHand(g)' /\ worker'[g].attempt = worker[g].attempt
  <2>0. worker[g] \in WorkerRow /\ InHand(g) /\ WorkerRows
    BY DEF HandInv, WorkerRows
  <2>1. CASE worker'[g] = worker[g]
    BY <2>0, <2>1, StillInHand
  <2>2. CASE worker[g].step = "child" /\ worker'[g] = [worker[g] EXCEPT !.step = "record", !.verdict = code]
    <3> DEFINE new == [worker[g] EXCEPT !.step = "record", !.verdict = code]
    <3>1. "record" \in Steps
      BY DEF Steps
    <3>2. /\ new \in WorkerRow /\ Carries(new, worker[g]) /\ new.step = "record"
          /\ new.attempt = worker[g].attempt /\ new.verdict = code /\ new.failing = worker[g].failing
      BY <1>1, <2>0, <3>1, Zenon DEF WorkerRow, Carries
    <3>3. worker'[g] = new
      BY <2>2
    <3> HIDE DEF new
    <3>4. Consistent(worker[g])'
      BY <2>0, <2>2, <3>2, <3>3 DEF Consistent, InHand, Carries
    <3>5. Grounded(g)'
      BY <2>0, <2>2, <3>2, <3>3, GroundKept DEF Live
    <3>6. Filling(g)'
      BY <3>2, <3>3, NotFilling
    <3> QED BY <3>2, <3>3, <3>4, <3>5, <3>6 DEF InHand
  <2> QED BY <2>1, <2>2 DEF ChildExit
<1>3. worker' = [g \in Gateway |-> worker'[g]]
  BY DEF ChildExit
<1> QED BY <1>2, <1>3

\* Which attempts the runners work on, and which runs are lost.
LEMMA HistoryType ==
    ASSUME WorkerRows, \A g \in Gateway : InHand(g), [ControllerNext]_allVars
    PROVE  runners' \subseteq Attempt /\ lost' \subseteq Run
<1>1. ASSUME NEW g \in Gateway, NEW spawned \in BOOLEAN, StartPass(g, spawned)
      PROVE  runners' \subseteq Attempt /\ lost' \subseteq Run
  BY <1>1 DEF StartPass, WorkerRows
<1>2. ASSUME NEW g \in Gateway, Crash(g)
      PROVE  runners' \subseteq Attempt /\ lost' \subseteq Run
  <2>1. worker[g].run \in Run
    BY <1>2 DEF Crash, InHand, Grounded
  <2> QED BY <1>2, <2>1 DEF Crash, WorkerRows
<1>3. ASSUME NEW a, NEW code, ChildExit(a, code)
      PROVE  runners' \subseteq Attempt /\ lost' \subseteq Run
  BY <1>3 DEF ChildExit, WorkerRows
<1>4. ASSUME NEW g \in Gateway, NEW r, NEW passes, NEW a,
             \/ StartRun(g, r, passes) \/ Retry(g, a) \/ Cancel(g) \/ Recover(g) \/ Error(g)
             \/ Loop(g) \/ SkipDigest(g) \/ StartRefused(g) \/ Record(g) \/ Finish(g) \/ After(g)
             \/ StartUnstarted(g) \/ FinishUnstarted(g) \/ UnstartedRefused(g) \/ UnstartedDone(g)
             \/ Fail(g) \/ Missing(g) \/ Finalize(g) \/ Final(g) \/ Pop(g)
      PROVE  UNCHANGED <<runners, lost>>
  BY <1>4, Zenon DEF StartRun, Retry, Cancel, Recover, Error, Loop, SkipDigest, StartRefused, Record,
              Finish, After, StartUnstarted, FinishUnstarted, UnstartedRefused, UnstartedDone,
              Fail, Missing, Finalize, Final, Pop, gwVars
<1>5. ASSUME NEW r, NEW a, NEW verdict,
             Archive(r) \/ RunnerFinish(a, verdict) \/ Clock \/ UNCHANGED allVars
      PROVE  UNCHANGED <<runners, lost>>
  BY <1>5 DEF Archive, RunnerFinish, Clock, allVars, gwVars
<1>6. CASE UNCHANGED <<runners, lost>>
  BY <1>6 DEF WorkerRows
<1> QED BY <1>1, <1>2, <1>3, <1>4, <1>5, <1>6 DEF ControllerNext, WorkerStep

\* No two workers have one attempt.
OwnWork ==
    \A g, h \in Gateway :
        worker[g].attempt = worker[h].attempt /\ worker[g].attempt # NoAttempt => g = h

\* The workers' part of the invariant is kept, given the store's.
LEMMA HandStep ==
    ASSUME TypeOK, TypeOK', [Next]_vars, HandInv, OwnWork, ControllerRuns, AdmissionBlindSpots,
           [ControllerNext]_allVars
    PROVE  HandInv' /\ OwnWork'
<1>0. WorkerRows /\ \A g \in Gateway : InHand(g) /\ Stepping(g)
  BY DEF HandInv, Stepping
<1>1. runners' \subseteq Attempt /\ lost' \subseteq Run
  BY <1>0, HistoryType
<1>2. CASE worker' = worker
  <2>1. \A g \in Gateway : InHand(g)'
    BY <1>0, <1>2, StillInHand
  <2>2. worker' \in [Gateway -> WorkerRow]
    BY <1>0, <1>2 DEF WorkerRows
  <2> QED BY <1>1, <1>2, <2>1, <2>2 DEF HandInv, WorkerRows, OwnWork
<1>3. ASSUME NEW g \in Gateway, GatewayAction(g)
      PROVE  HandInv' /\ OwnWork'
  <2>1. Moves(g)
    BY <1>0, <1>3, ActionMoves
  <2>2. \A h \in Gateway : InHand(h)'
    BY <1>0, <2>1, StillInHand DEF Moves
  <2>3. HandInv'
    BY <1>1, <2>1, <2>2 DEF HandInv, WorkerRows, Moves
  <2>4. ASSUME NEW h \in Gateway \ {g}, worker'[g].attempt = worker'[h].attempt,
               worker'[g].attempt # NoAttempt
        PROVE  FALSE
    <3>1. worker'[h] = worker[h]
      BY <2>1 DEF Moves
    <3>2. CASE worker'[g].attempt = worker[g].attempt
      BY <2>4, <3>1, <3>2 DEF OwnWork
    <3>3. CASE attempts[worker'[g].attempt].state = "ABSENT"
      <4>1. attempts[worker[h].attempt].state # "ABSENT"
        BY <1>0, <2>4, <3>1 DEF InHand, Grounded
      <4> QED BY <2>4, <3>1, <3>3, <4>1
    <3> QED BY <2>1, <2>4, <3>2, <3>3 DEF Moves, AttemptFresh
  <2>5. OwnWork'
    <3> SUFFICES ASSUME NEW h \in Gateway, NEW k \in Gateway, h # k,
                        worker'[h].attempt = worker'[k].attempt, worker'[h].attempt # NoAttempt
                 PROVE  FALSE
      BY DEF OwnWork
    <3>1. CASE h = g \/ k = g
      BY <2>4, <3>1
    <3>2. CASE h # g /\ k # g
      BY <2>1, <3>2 DEF Moves, OwnWork
    <3> QED BY <3>1, <3>2
  <2> QED BY <2>3, <2>5
<1>4. ASSUME NEW a \in Attempt, NEW code \in ChildVerdict \cup {"timeout"}, ChildExit(a, code)
      PROVE  HandInv' /\ OwnWork'
  <2>1. /\ worker' \in [Gateway -> WorkerRow]
        /\ \A g \in Gateway : InHand(g)' /\ worker'[g].attempt = worker[g].attempt
    BY <1>4, ExitMoves
  <2> QED BY <1>1, <2>1 DEF HandInv, WorkerRows, OwnWork
<1>5. ASSUME NEW r, NEW a, NEW verdict,
             Archive(r) \/ RunnerFinish(a, verdict) \/ Clock \/ UNCHANGED allVars
      PROVE  worker' = worker
  BY <1>5 DEF Archive, RunnerFinish, Clock, allVars, gwVars
<1> QED BY <1>2, <1>3, <1>4, <1>5 DEF ControllerNext, GatewayAction
-----------------------------------------------------------------------------
(* What the controller's operations keep of the store.                                          *)

\* One attempt of a run is live at a time.
Sole == \A a, b \in Attempt : IsActive(a) /\ IsActive(b) /\ RunOf(a) = RunOf(b) => a = b
\* A run that is over with an attempt still live has every pass it was asked for.
Leftover == \A a \in Attempt : IsActive(a) /\ ~RunActive(RunOf(a)) => Covered(RunOf(a))

StoreInv ==
    /\ TypeOK /\ ControllerRuns /\ AdmissionBlindSpots /\ Sole /\ Leftover
    /\ OneControllerRunActive

\* An existing run has a state, and is a controller's.
LEMMA ActiveIsControllers ==
    ASSUME ControllerRuns, NEW r \in Run, Exists(r)
    PROVE  ByController(r)
BY DEF ControllerRuns, ByController, ControllerSource

\* A step that starts nothing: no run or attempt becomes live, and a run is over around a live
\* attempt only with every pass it was asked for.
LEMMA QuietStore ==
    ASSUME StoreInv, TypeOK', [Next]_vars,
           \A r \in Run : /\ Exists(r)' => Exists(r)
                          /\ RunActive(r)' => RunActive(r) /\ runs'[r].archived = runs[r].archived,
           \A a \in Attempt :
              /\ IsActive(a)' => /\ IsActive(a)
                                 /\ RunActive(RunOf(a)) => RunActive(RunOf(a))' \/ Covered(RunOf(a))
              /\ attempts'[a].state # "ABSENT" => Exists(RunOf(a))
    PROVE  StoreInv'
<1>1. ASSUME NEW r \in Run, Exists(r)
      PROVE  RunStays(r)
  BY <1>1, RunKept DEF StoreInv
<1>2. ControllerRuns'
  BY <1>1 DEF StoreInv, ControllerRuns, RunStays
<1>3. ASSUME NEW r \in Run, RunActive(r)'
      PROVE  /\ Exists(r) /\ RunActive(r) /\ runs'[r].source = runs[r].source
             /\ runs'[r].archived = runs[r].archived
  <2>1. RunActive(r) /\ Exists(r)
    BY <1>3 DEF RunActive, Exists, ActiveState
  <2> QED BY <1>1, <1>3, <2>1 DEF RunStays
<1>4. AdmissionBlindSpots'
  <2>1. ASSUME NEW r \in Run, ByController(r)', runs'[r].archived, RunActive(r)'
        PROVE  FALSE
    BY <1>3, <2>1 DEF StoreInv, AdmissionBlindSpots, ByController
  <2>2. ASSUME NEW a \in Attempt, attempts'[a].state # "ABSENT"
        PROVE  Exists(RunOf(a))'
    BY <1>1, <2>2, AttemptKey DEF RunStays, Exists
  <2> QED BY <2>1, <2>2 DEF AdmissionBlindSpots
<1>5. OneControllerRunActive'
  BY <1>3 DEF StoreInv, OneControllerRunActive, ByController
<1>6. Sole'
  BY DEF StoreInv, Sole
<1>7. Leftover'
  <2> SUFFICES ASSUME NEW a \in Attempt, IsActive(a)', ~RunActive(RunOf(a))'
               PROVE  Covered(RunOf(a))'
    BY DEF Leftover
  <2> PICK r \in Run : RunOf(a) = r
    BY AttemptKey
  <2>1. IsActive(a) /\ Exists(r)
    BY DEF StoreInv, AdmissionBlindSpots, IsActive, ActiveState
  <2>2. Covered(r)
    BY <2>1 DEF StoreInv, Leftover
  <2>3. Covered(r)'
    BY <2>1, <2>2, CoveredKept DEF StoreInv
  <2> QED BY <2>3
<1> QED BY <1>2, <1>4, <1>5, <1>6, <1>7 DEF StoreInv

\* Recovery, whoever asks for it.
LEMMA RecoverStore ==
    ASSUME StoreInv, TypeOK', [Next]_vars, NEW owned \in SUBSET Run, RecoverOrphaned(owned)
    PROVE  StoreInv'
<1>0. TypeOK /\ runs' = RecoveredRuns(owned) /\ attempts' = RecoveredAttempts(owned)
  BY DEF StoreInv, RecoverOrphaned
<1>1. ASSUME NEW r \in Run
      PROVE  /\ Exists(r)' => Exists(r)
             /\ RunActive(r)' => RunActive(r) /\ runs'[r].archived = runs[r].archived
  BY <1>0, RecoveryOutcome DEF Exists, RunActive, ActiveState
<1>2. ASSUME NEW a \in Attempt
      PROVE  /\ IsActive(a)' => /\ IsActive(a)
                                /\ RunActive(RunOf(a)) => RunActive(RunOf(a))' \/ Covered(RunOf(a))
             /\ attempts'[a].state # "ABSENT" => Exists(RunOf(a))
  <2>1. RunOf(a) \in Run
    BY AttemptKey
  <2>2. CASE RunOf(a) \in Recovered(owned)
    BY <1>0, <2>2, RecoveryOutcome DEF IsActive
  <2>3. CASE RunOf(a) \notin Recovered(owned)
    BY <1>0, <2>1, <2>3, RecoveryOutcome DEF IsActive, RunActive, StoreInv, AdmissionBlindSpots
  <2> QED BY <2>2, <2>3
<1> QED BY <1>1, <1>2, QuietStore

\* A bounded set of numbers has a greatest member.
LEMMA GreatestOf ==
    ASSUME NEW N \in Nat, NEW S \in SUBSET (1..N), S # {}
    PROVE  \E n \in S : \A m \in S : m <= n
<1> DEFINE T == {k \in Nat : N - k \in S}
           R == {ss \in Nat \X Nat : ss[1] < ss[2]}
<1>1. \A m \in S : m \in Nat /\ N - m \in T /\ N - m \in Nat
  OBVIOUS
<1>2. T # {} /\ T \in SUBSET Nat
  BY <1>1
<1>3. IsWellFoundedOn(R, Nat)
  BY NatLessThanWellFounded DEF OpToRel
<1>4. PICK x \in T : \A y \in T : ~(<<y, x>> \in R)
  <2> HIDE DEF R, T
  <2> QED BY <1>2, <1>3, WFMin
<1>5. N - x \in S /\ x \in Nat
  OBVIOUS
<1>6. ASSUME NEW m \in S
      PROVE  m <= N - x
  <2>1. ~(N - m < x) /\ m \in Nat
    BY <1>1, <1>4, <1>5
  <2> QED BY <1>5, <2>1
<1> QED BY <1>5, <1>6

\* The latest attempt of a pass there is.
LEMMA LatestExists ==
    ASSUME NEW r \in Run, NEW p \in Pass, NEW table,
           \E a \in Attempt : RunOf(a) = r /\ PassOf(a) = p /\ table[a].state # "ABSENT"
    PROVE  \E a \in Attempt : RunOf(a) = r /\ PassOf(a) = p /\ IsLatest(table, a)
<1> DEFINE S == {n \in 1..MaxAttempts : table[<<r, p, n>>].state # "ABSENT"}
<1>0. MaxAttempts \in Nat
  BY BoundAssumption
<1>1. \A a \in Attempt : RunOf(a) = r /\ PassOf(a) = p => a = <<r, p, NoOf(a)>> /\ NoOf(a) \in 1..MaxAttempts
  BY DEF Attempt, RunOf, PassOf, NoOf
<1>2. \A n \in 1..MaxAttempts : /\ <<r, p, n>> \in Attempt /\ RunOf(<<r, p, n>>) = r
                                /\ PassOf(<<r, p, n>>) = p /\ NoOf(<<r, p, n>>) = n
  BY DEF Attempt, RunOf, PassOf, NoOf
<1>3. S # {} /\ S \in SUBSET (1..MaxAttempts)
  BY <1>1
<1>4. PICK n \in S : \A m \in S : m <= n
  <2> HIDE DEF S
  <2> QED BY <1>0, <1>3, GreatestOf
<1>5. IsLatest(table, <<r, p, n>>)
  <2> SUFFICES ASSUME NEW b \in Attempt, RunOf(b) = r, PassOf(b) = p, table[b].state # "ABSENT"
               PROVE  NoOf(b) <= n
    BY <1>2 DEF IsLatest
  <2>1. NoOf(b) \in S
    BY <1>1
  <2> QED BY <1>4, <2>1
<1> QED BY <1>2, <1>5

\* Once every pass asked for has an attempt and none is live, the outcome is an end.
LEMMA CoveredEnds ==
    ASSUME NEW r \in Run, NEW table, runs[r].passes \in SUBSET Pass,
           \A a \in Attempt : RunOf(a) = r =>
               table[a].state \in AttemptState \cup {"ABSENT"} /\ table[a].state \notin ActiveState,
           \A p \in runs[r].passes :
               \E a \in Attempt : RunOf(a) = r /\ PassOf(a) = p /\ table[a].state # "ABSENT"
    PROVE  AggregateState(table, r) \notin ActiveState
<1>1. ASSUME NEW p \in Pass
      PROVE  ~LatestIn(table, r, p, ActiveState)
  BY DEF LatestIn
<1>2. ASSUME NEW p \in runs[r].passes
      PROVE  LatestIn(table, r, p, AttemptState)
  <2>1. PICK a \in Attempt : RunOf(a) = r /\ PassOf(a) = p /\ IsLatest(table, a)
    BY LatestExists
  <2>2. table[a].state \in AttemptState
    BY <2>1 DEF IsLatest
  <2> QED BY <2>1, <2>2 DEF LatestIn
<1> QED BY <1>1, <1>2 DEF AggregateState, ActiveState

\* A verdict.
LEMMA FinishStore ==
    ASSUME StoreInv, TypeOK', [Next]_vars, NEW a \in Attempt, NEW v \in Verdict, FinishAttempt(a, v, {})
    PROVE  StoreInv'
<1> DEFINE r == RunOf(a)
           state == AggregateState(attempts', r)
<1>0. /\ r \in Run /\ IsActive(a) /\ TypeOK /\ v \in AttemptTerminal /\ attempts[a] \in AttemptRow
      /\ runs[r] \in RunRow /\ runs \in [Run -> RunRow] /\ attempts \in [Attempt -> AttemptRow]
  BY AttemptKey, VerdictAssumption DEF StoreInv, FinishAttempt, TypeOK
<1>1. Exists(r)
  BY <1>0 DEF StoreInv, AdmissionBlindSpots, IsActive, ActiveState
<1>2. \A b \in Attempt \ {a} : attempts'[b] = attempts[b]
  BY <1>0 DEF FinishAttempt
<1>3. attempts'[a].state = v
  <2>1. attempts'[a] = [attempts[a] EXCEPT !.state = v]
    BY <1>0 DEF FinishAttempt
  <2> QED BY <1>0, <2>1, Zenon DEF AttemptRow
<1>4. \A s \in Run \ {r} : runs'[s] = runs[s]
  BY <1>0 DEF FinishAttempt
<1>5. runs'[r].state = state /\ runs'[r].archived = runs[r].archived
  <2>1. runs'[r] = [runs[r] EXCEPT !.state = state]
    BY <1>0 DEF FinishAttempt
  <2> HIDE DEF state
  <2> QED BY <1>0, <2>1, Zenon DEF RunRow
<1>6. \A b \in Attempt : RunOf(b) = r /\ b # a => ~IsActive(b)
  BY <1>0 DEF StoreInv, Sole
<1>7. state \in ActiveState => RunActive(r)
  <2> SUFFICES ASSUME ~RunActive(r) PROVE state \notin ActiveState
    OBVIOUS
  <2>1. Covered(r)
    BY <1>0 DEF StoreInv, Leftover
  <2>2. \A b \in Attempt : RunOf(b) = r =>
          attempts'[b].state \in AttemptState \cup {"ABSENT"} /\ attempts'[b].state \notin ActiveState
    BY <1>0, <1>2, <1>3, <1>6 DEF IsActive, AttemptTerminal, TypeOK, AttemptRow
  <2>3. \A p \in runs[r].passes :
          \E b \in Attempt : RunOf(b) = r /\ PassOf(b) = p /\ attempts'[b].state # "ABSENT"
    BY <1>0, <2>1, RowKept DEF Covered, HasPass
  <2>4. runs[r].passes \in SUBSET Pass
    BY <1>0 DEF RunRow
  <2> QED BY <1>0, <2>2, <2>3, <2>4, CoveredEnds
<1>8. ASSUME NEW s \in Run
      PROVE  /\ Exists(s)' => Exists(s)
             /\ RunActive(s)' => RunActive(s) /\ runs'[s].archived = runs[s].archived
  <2> HIDE DEF r, state
  <2>1. CASE s = r
    BY <1>1, <1>5, <1>7, <2>1 DEF RunActive
  <2>2. CASE s # r
    BY <1>4, <2>2 DEF RunActive, Exists
  <2> QED BY <2>1, <2>2
<1>9. ASSUME NEW b \in Attempt
      PROVE  /\ IsActive(b)' => /\ IsActive(b)
                                /\ RunActive(RunOf(b)) => RunActive(RunOf(b))' \/ Covered(RunOf(b))
             /\ attempts'[b].state # "ABSENT" => Exists(RunOf(b))
  <2>1. CASE b = a
    BY <1>0, <1>1, <1>3, <2>1 DEF IsActive, AttemptTerminal
  <2>2. CASE b # a
    <3>1. attempts'[b] = attempts[b] /\ RunOf(b) \in Run
      BY <1>2, <2>2, AttemptKey
    <3>2. IsActive(b) => RunOf(b) # r
      BY <1>6, <2>2
    <3> QED BY <1>4, <3>1, <3>2 DEF IsActive, RunActive, StoreInv, AdmissionBlindSpots
  <2> QED BY <2>1, <2>2
<1> QED BY <1>8, <1>9, QuietStore

\* The ends of runs, their cancellation and archiving.
LEMMA EndStore ==
    ASSUME StoreInv, TypeOK', [Next]_vars, NEW r \in Run,
           \/ Covered(r) /\ FinalizeRunFailed(r)
           \/ FinalizeCancelledRun(r) \/ RequestCancel(r) \/ ArchiveRun(r)
    PROVE  StoreInv'
<1>0. /\ Exists(r) /\ TypeOK /\ runs[r] \in RunRow /\ runs \in [Run -> RunRow]
      /\ attempts \in [Attempt -> AttemptRow]
  BY DEF StoreInv, FinalizeRunFailed, FinalizeCancelledRun, RequestCancel, ArchiveRun, TypeOK
<1>1. \A s \in Run \ {r} : runs'[s] = runs[s]
  BY <1>0 DEF FinalizeRunFailed, FinalizeCancelledRun, RequestCancel, ArchiveRun
<1>2. \/ runs'[r].state \in {"FAILED", "CANCELLED"}
      \/ runs'[r].state = runs[r].state /\ runs'[r].archived = runs[r].archived
      \/ ~RunActive(r) /\ runs'[r].state = runs[r].state
  <2>1. CASE FinalizeRunFailed(r)
    <3>1. runs'[r] = [runs[r] EXCEPT !.state = "FAILED"]
      BY <1>0, <2>1 DEF FinalizeRunFailed
    <3>2. runs'[r].state = "FAILED"
      BY <1>0, <3>1, Zenon DEF RunRow
    <3> QED BY <3>2
  <2>2. CASE FinalizeCancelledRun(r)
    <3>1. runs'[r] = [runs[r] EXCEPT !.state = "CANCELLED", !.cancel = TRUE]
      BY <1>0, <2>2 DEF FinalizeCancelledRun
    <3>2. runs'[r].state = "CANCELLED"
      BY <1>0, <3>1, Zenon DEF RunRow
    <3> QED BY <3>2
  <2>3. CASE RequestCancel(r)
    <3>1. runs'[r] = [runs[r] EXCEPT !.cancel = TRUE]
      BY <1>0, <2>3 DEF RequestCancel
    <3>2. runs'[r].state = runs[r].state /\ runs'[r].archived = runs[r].archived
      BY <1>0, <3>1, Zenon DEF RunRow
    <3> QED BY <3>2
  <2>4. CASE ArchiveRun(r)
    <3>1. runs'[r] = [runs[r] EXCEPT !.archived = TRUE] /\ ~RunActive(r)
      BY <1>0, <2>4 DEF ArchiveRun
    <3>2. runs'[r].state = runs[r].state
      BY <1>0, <3>1, Zenon DEF RunRow
    <3> QED BY <3>1, <3>2
  <2> QED BY <2>1, <2>2, <2>3, <2>4
<1>3. \/ FinalizeCancelledRun(r)
      \/ attempts' = attempts /\ (Covered(r) \/ runs'[r].state = runs[r].state)
  <2>1. CASE RequestCancel(r)
    <3>1. runs'[r] = [runs[r] EXCEPT !.cancel = TRUE]
      BY <1>0, <2>1 DEF RequestCancel
    <3>2. runs'[r].state = runs[r].state
      BY <1>0, <3>1, Zenon DEF RunRow
    <3> QED BY <2>1, <3>2 DEF RequestCancel
  <2>2. CASE ArchiveRun(r)
    <3>1. runs'[r] = [runs[r] EXCEPT !.archived = TRUE]
      BY <1>0, <2>2 DEF ArchiveRun
    <3>2. runs'[r].state = runs[r].state
      BY <1>0, <3>1, Zenon DEF RunRow
    <3> QED BY <2>2, <3>2 DEF ArchiveRun
  <2>3. CASE Covered(r) /\ FinalizeRunFailed(r)
    BY <2>3 DEF FinalizeRunFailed
  <2> QED BY <2>1, <2>2, <2>3
<1>4. ASSUME NEW a \in Attempt
      PROVE  /\ IsActive(a)' => /\ IsActive(a)
                                /\ RunActive(RunOf(a)) => RunActive(RunOf(a))' \/ Covered(RunOf(a))
             /\ attempts'[a].state # "ABSENT" => Exists(RunOf(a))
  <2>0. RunOf(a) \in Run /\ attempts[a] \in AttemptRow
    BY <1>0, AttemptKey
  <2>1. CASE FinalizeCancelledRun(r) /\ RunOf(a) = r /\ IsActive(a)
    <3>1. attempts'[a] = [attempts[a] EXCEPT !.state = "CANCELLED", !.error = "none"]
      BY <2>1 DEF FinalizeCancelledRun, EndedAttempts
    <3>2. attempts'[a].state = "CANCELLED"
      BY <2>0, <3>1, Zenon DEF AttemptRow
    <3> QED BY <1>0, <2>1, <3>2 DEF IsActive, ActiveState
  <2>2. CASE ~(FinalizeCancelledRun(r) /\ RunOf(a) = r /\ IsActive(a))
    <3>1. attempts'[a] = attempts[a]
      BY <1>3, <2>2 DEF FinalizeCancelledRun, EndedAttempts
    <3>2. attempts[a].state # "ABSENT" => Exists(RunOf(a))
      BY DEF StoreInv, AdmissionBlindSpots
    <3>3. IsActive(a) /\ RunActive(RunOf(a)) => RunActive(RunOf(a))' \/ Covered(RunOf(a))
      BY <1>1, <1>3, <2>0, <2>2 DEF RunActive
    <3> QED BY <3>1, <3>2, <3>3 DEF IsActive
  <2> QED BY <2>1, <2>2
<1>5. ASSUME NEW s \in Run
      PROVE  /\ Exists(s)' => Exists(s)
             /\ RunActive(s)' => RunActive(s) /\ runs'[s].archived = runs[s].archived
  BY <1>0, <1>1, <1>2 DEF Exists, RunActive, ActiveState
<1> QED BY <1>4, <1>5, QuietStore

\* An admitted operation on the run r, which leaves r active and every other run over.
LEMMA AdmitStore ==
    ASSUME StoreInv, TypeOK', [Next]_vars, NEW r \in Run, NEW owned \in SUBSET {r},
           UnownedActive(owned) = {},
           \A s \in Run \ {r} : runs'[s] = RecoveredRuns(owned)[s],
           runs'[r].state \in ActiveState, runs'[r].source = "gui", ~runs'[r].archived,
           runs'[r].passes \in {StandardPasses, {Head(DreamPasses)}},
           \A b \in Attempt : RunOf(b) # r => attempts'[b] = RecoveredAttempts(owned)[b],
           \A b, c \in Attempt : RunOf(b) = r /\ RunOf(c) = r /\ IsActive(b)' /\ IsActive(c)' => b = c
    PROVE  StoreInv'
<1>0. TypeOK /\ owned \in SUBSET Run /\ ControllerRuns /\ AdmissionBlindSpots
  BY DEF StoreInv
<1>1. ASSUME NEW s \in Run \ {r}
      PROVE  /\ Exists(s)' => Exists(s)
             /\ ~RunActive(s)'
             /\ Exists(s) => s \in Recovered(owned) \/ ~RunActive(s)
  <2>1. CASE Exists(s)
    <3>1. ByController(s) /\ s \in Run \ owned
      BY <1>0, <2>1, ActiveIsControllers
    <3>2. /\ RecoveredRuns(owned)[s].state \notin ActiveState
          /\ s \in Recovered(owned) \/ ~RunActive(s)
      BY <1>0, <3>1, AdmissionEndsOthers
    <3> QED BY <2>1, <3>2 DEF RunActive
  <2>2. CASE ~Exists(s)
    <3>1. s \notin Recovered(owned)
      BY <2>2 DEF Recovered, Tracked, RunActive, Exists, ActiveState
    <3>2. runs'[s] = runs[s]
      BY <1>0, <3>1, RecoveryOutcome
    <3> QED BY <2>2, <3>2 DEF Exists, RunActive, ActiveState
  <2> QED BY <2>1, <2>2
<1>2. ASSUME NEW s \in Run, Exists(s)
      PROVE  RunStays(s)
  BY <1>0, <1>2, RunKept
<1>3. ControllerRuns'
  <2> SUFFICES ASSUME NEW s \in Run, Exists(s)'
               PROVE  /\ runs'[s].source = "gui"
                      /\ runs'[s].passes \in {StandardPasses, {Head(DreamPasses)}}
    BY DEF ControllerRuns
  <2>1. CASE s # r
    BY <1>0, <1>1, <1>2, <2>1 DEF ControllerRuns, RunStays
  <2> QED BY <2>1
<1>4. AdmissionBlindSpots'
  <2>1. \A s \in Run : ByController(s)' /\ runs'[s].archived => ~RunActive(s)'
    BY <1>1
  <2>2. ASSUME NEW b \in Attempt, attempts'[b].state # "ABSENT"
        PROVE  Exists(RunOf(b))'
    <3>0. RunOf(b) \in Run
      BY AttemptKey
    <3>1. CASE RunOf(b) = r
      BY <3>1 DEF Exists, ActiveState
    <3>2. CASE RunOf(b) # r
      <4>1. Exists(RunOf(b))
        BY <1>0, <2>2, <3>2, RecoveryOutcome DEF AdmissionBlindSpots
      <4> QED BY <1>2, <3>0, <4>1 DEF RunStays, Exists
    <3> QED BY <3>1, <3>2
  <2> QED BY <2>1, <2>2 DEF AdmissionBlindSpots
<1>5. OneControllerRunActive'
  BY <1>1 DEF OneControllerRunActive
<1>6. ASSUME NEW b \in Attempt, RunOf(b) # r, IsActive(b)'
      PROVE  IsActive(b) /\ RunOf(b) \notin Recovered(owned)
  BY <1>0, <1>6, RecoveryOutcome DEF IsActive
<1>7. Sole'
  <2> SUFFICES ASSUME NEW b \in Attempt, NEW c \in Attempt, IsActive(b)', IsActive(c)', RunOf(b) = RunOf(c)
               PROVE  b = c
    BY DEF Sole
  <2> QED BY <1>6 DEF StoreInv, Sole
<1>8. Leftover'
  <2> SUFFICES ASSUME NEW b \in Attempt, IsActive(b)', ~RunActive(RunOf(b))'
               PROVE  Covered(RunOf(b))'
    BY DEF Leftover
  <2> PICK s \in Run : RunOf(b) = s
    BY AttemptKey
  <2>1. s # r
    BY DEF RunActive
  <2>2. IsActive(b) /\ s \notin Recovered(owned)
    BY <1>6, <2>1
  <2>3. Exists(s)
    BY <1>0, <2>2 DEF AdmissionBlindSpots, IsActive, ActiveState
  <2>4. ~RunActive(s)
    BY <1>1, <2>1, <2>2, <2>3
  <2>5. Covered(s)
    BY <2>2, <2>4 DEF StoreInv, Leftover
  <2>6. Covered(s)'
    BY <1>0, <2>3, <2>5, CoveredKept
  <2> QED BY <2>6
<1> QED BY <1>3, <1>4, <1>5, <1>7, <1>8 DEF StoreInv

\* A run is created when no other is active, and without attempts.
LEMMA CreateStore ==
    ASSUME StoreInv, TypeOK', [Next]_vars, NEW r \in Run,
           NEW passes \in {StandardPasses, {Head(DreamPasses)}}, CreateRun(r, "gui", passes, Lease)
    PROVE  StoreInv'
<1> DEFINE row == [NoRun EXCEPT !.state = "QUEUED", !.source = "gui", !.passes = passes,
                                !.deadline = Expiry(Lease)]
<1>0. TypeOK /\ "gui" \in ControllerSource /\ {} \in SUBSET {r} /\ {} \in SUBSET Run
  BY DEF StoreInv, ControllerSource
<1>1. /\ UnownedActive({}) = {} /\ ~Exists(r) /\ attempts' = RecoveredAttempts({})
      /\ runs' = [RecoveredRuns({}) EXCEPT ![r] = row]
  BY <1>0 DEF CreateRun, Admission, AdmittedRuns, AdmittedAttempts
<1>2. RecoveredRuns({}) \in [Run -> RunRow]
  BY <1>0, RecoveryType
<1>3. row.state = "QUEUED" /\ row.source = "gui" /\ row.passes = passes /\ ~row.archived
  BY Zenon DEF NoRun
<1> HIDE DEF row
<1>4. runs'[r] = row /\ \A s \in Run \ {r} : runs'[s] = RecoveredRuns({})[s]
  BY <1>1, <1>2
<1>5. \A b \in Attempt : RunOf(b) = r => ~IsActive(b)'
  <2> SUFFICES ASSUME NEW b \in Attempt, RunOf(b) = r PROVE ~IsActive(b)'
    OBVIOUS
  <2>1. attempts[b].state = "ABSENT"
    BY <1>1 DEF StoreInv, AdmissionBlindSpots
  <2>2. r \notin Recovered({})
    BY <1>1 DEF Recovered, Tracked, RunActive, Exists, ActiveState
  <2>3. attempts'[b] = attempts[b]
    BY <1>0, <1>1, <2>2, RecoveryOutcome
  <2> QED BY <2>1, <2>3 DEF IsActive, ActiveState
<1>6. runs'[r].state \in ActiveState
  BY <1>3, <1>4 DEF ActiveState
<1> QED BY <1>0, <1>1, <1>3, <1>4, <1>5, <1>6, AdmitStore

\* An attempt starts where none of its run is live and no other run is active.
LEMMA StartStore ==
    ASSUME StoreInv, TypeOK', [Next]_vars, NEW a \in Attempt, NEW lease, StartAttempt(a, lease)
    PROVE  StoreInv'
<1> DEFINE r == RunOf(a)
           row == [runs[r] EXCEPT !.state = "RUNNING", !.deadline = StartDeadline(r, lease)]
<1>0. TypeOK /\ r \in Run /\ {r} \in SUBSET {r} /\ {r} \in SUBSET Run /\ Exists(r) /\ runs[r] \in RunRow
  BY AttemptKey DEF StoreInv, StartAttempt, TypeOK
<1>1. ByController(r)
  BY <1>0, ActiveIsControllers DEF StoreInv
<1>2. /\ RecoveredRuns({r}) \in [Run -> RunRow]
      /\ RecoveredAttempts({r}) \in [Attempt -> AttemptRow]
  BY <1>0, RecoveryType
<1>3. /\ UnownedActive({r}) = {} /\ ~runs[r].archived /\ ~RunHasActiveAttempt(r)
      /\ runs' = [RecoveredRuns({r}) EXCEPT ![r] = row]
  BY <1>1 DEF StartAttempt, Admission, AdmittedRuns
<1>4. \A b \in Attempt \ {a} : attempts'[b] = RecoveredAttempts({r})[b]
  BY <1>1, <1>2 DEF StartAttempt, AdmittedAttempts
<1>5. /\ row.state = "RUNNING" /\ row.source = runs[r].source /\ row.passes = runs[r].passes
      /\ row.archived = runs[r].archived
  BY <1>0, Zenon DEF RunRow
<1> HIDE DEF row
<1>6. runs'[r] = row /\ \A s \in Run \ {r} : runs'[s] = RecoveredRuns({r})[s]
  BY <1>0, <1>2, <1>3
<1>7. \A b \in Attempt : RunOf(b) = r /\ b # a => ~IsActive(b)'
  <2> SUFFICES ASSUME NEW b \in Attempt, RunOf(b) = r, b # a PROVE ~IsActive(b)'
    OBVIOUS
  <2>1. r \notin Recovered({r})
    BY DEF Recovered, Tracked
  <2>2. attempts'[b] = attempts[b]
    BY <1>0, <1>4, <2>1, RecoveryOutcome
  <2> QED BY <1>3, <2>2 DEF IsActive, RunHasActiveAttempt
<1>8. runs'[r].state \in ActiveState
  BY <1>5, <1>6 DEF ActiveState
<1>9. runs[r].source = "gui" /\ runs[r].passes \in {StandardPasses, {Head(DreamPasses)}}
  BY <1>0 DEF StoreInv, ControllerRuns
<1> HIDE DEF r
<1> QED BY <1>0, <1>3, <1>4, <1>5, <1>6, <1>7, <1>8, <1>9, AdmitStore DEF r

\* The store's part of the invariant is kept by every operation the controller uses.
LEMMA StoreInvStep == StoreInv /\ Operation => StoreInv'
<1> SUFFICES ASSUME StoreInv, Operation PROVE StoreInv'
  OBVIOUS
<1>1. [Next]_vars /\ TypeOK /\ TypeOK'
  BY OperationIsNext, TypeStep DEF StoreInv
<1>2. CASE UNCHANGED <<runs, attempts>>
  <2>1. ControllerRuns' /\ AdmissionBlindSpots'
    BY <1>2 DEF StoreInv, ControllerRuns, AdmissionBlindSpots, Exists, ByController, RunActive
  <2>2. Sole' /\ OneControllerRunActive'
    BY <1>2 DEF StoreInv, Sole, OneControllerRunActive, IsActive, ByController, RunActive
  <2>3. Leftover'
    BY <1>2 DEF StoreInv, Leftover, IsActive, RunActive, Covered, HasPass
  <2> QED BY <1>1, <2>1, <2>2, <2>3 DEF StoreInv
<1>3. CASE Tick \/ UNCHANGED vars
  BY <1>2, <1>3 DEF Tick, vars
<1> QED BY <1>1, <1>3, CreateStore, StartStore, RecoverStore, FinishStore, EndStore DEF Operation

-----------------------------------------------------------------------------
(* The controller's invariant, and what follows from it. *)

ControllerInv == StoreInv /\ HandInv /\ OwnWork

LEMMA ControllerInvInit == ControllerInit => ControllerInv
<1> SUFFICES ASSUME ControllerInit PROVE ControllerInv
  OBVIOUS
<1>1. Init /\ TypeOK
  BY TypeInit DEF ControllerInit
<1>2. \A r \in Run : runs[r].state = "ABSENT"
  BY <1>1 DEF Init, NoRun
<1>3. \A a \in Attempt : attempts[a].state = "ABSENT"
  BY <1>1 DEF Init, NoRow
<1>4. StoreInv
  BY <1>1, <1>2, <1>3 DEF StoreInv, ControllerRuns, AdmissionBlindSpots, Sole, Leftover,
     OneControllerRunActive, Exists, RunActive, IsActive, ActiveState
<1>5. worker \in [Gateway -> WorkerRow] /\ \A g \in Gateway : worker[g] = Idle
  BY IdleRow DEF ControllerInit
<1>6. \A g \in Gateway : InHand(g)
  BY <1>5, IdleRow DEF InHand, Consistent, Grounded, Filling, Live
<1>7. WorkerRows
  BY <1>5 DEF WorkerRows, ControllerInit
<1>8. OwnWork
  BY <1>5, IdleRow DEF OwnWork
<1> QED BY <1>4, <1>6, <1>7, <1>8 DEF ControllerInv, HandInv

LEMMA ControllerInvStep == ControllerInv /\ [ControllerNext]_allVars => ControllerInv' /\ [Next]_vars
<1> SUFFICES ASSUME ControllerInv, [ControllerNext]_allVars PROVE ControllerInv' /\ [Next]_vars
  OBVIOUS
<1>1. Operation
  BY ControllerOperation DEF ControllerInv, StoreInv
<1>2. [Next]_vars /\ StoreInv'
  BY <1>1, OperationIsNext, StoreInvStep DEF ControllerInv
<1>3. TypeOK /\ TypeOK' /\ ControllerRuns /\ AdmissionBlindSpots
  BY <1>2 DEF ControllerInv, StoreInv
<1>4. HandInv' /\ OwnWork'
  BY <1>2, <1>3, HandStep DEF ControllerInv
<1> QED BY <1>2, <1>4 DEF ControllerInv

LEMMA ControllerAlways == ControllerSpec => []ControllerInv
BY ControllerInvInit, ControllerInvStep, PTL DEF ControllerSpec

\* Over a well-formed store the workers' local variables, the runners and the lost runs are always
\* well formed.
THEOREM ControllerTypeCorrect == ControllerSpec => []ControllerTypeOK
<1>1. ControllerInv => ControllerTypeOK
  BY DEF ControllerInv, StoreInv, HandInv, WorkerRows, WorkerRow, Said, ControllerTypeOK
<1> QED BY <1>1, ControllerAlways, PTL

\* Gateways are clients of the store: whatever operators, workers, runners, failures and crashes do,
\* the store takes only steps its own specification allows.
THEOREM ControllerUsesStore == ControllerSpec => Spec
<1>1. ControllerInit => Init
  BY DEF ControllerInit
<1> QED BY <1>1, ControllerInvStep, ControllerAlways, PTL DEF ControllerSpec, Spec

\* At most one run is active, whatever gateways do, although a failing worker finalizes its run
\* without a look at its attempts: what the worker did before leaves no pass to be started.
THEOREM OneRunAtATime == ControllerSpec => []OneControllerRunActive
<1>1. ControllerInv => OneControllerRunActive
  BY DEF ControllerInv, StoreInv
<1> QED BY <1>1, ControllerAlways, PTL
\* Recovery that does not fence an attempt leaves it, and if it is live its run, alone.
LEMMA RecoverySparesUnfenced ==
    ASSUME TypeOK, NEW owned \in SUBSET Run, NEW a \in Attempt, attempts[a].state # "ABSENT",
           RecoveredAttempts(owned)[a].error # "ControllerLeaseExpired"
    PROVE  /\ RecoveredAttempts(owned)[a] = attempts[a]
           /\ IsActive(a) => RecoveredRuns(owned)[RunOf(a)] = runs[RunOf(a)]
<1>0. RunOf(a) \in Run /\ attempts[a] \in AttemptRow
  BY AttemptKey DEF TypeOK
<1>1. LeaseExpired(attempts[a]).error = "ControllerLeaseExpired"
  BY <1>0, Zenon DEF LeaseExpired, AttemptRow
<1>2. IsActive(a) => RunOf(a) \notin Recovered(owned)
  BY <1>1 DEF RecoveredAttempts
<1>3. CASE IsActive(a)
  BY <1>0, <1>2, <1>3, RecoveryOutcome
<1>4. CASE ~IsActive(a)
  BY <1>4 DEF RecoveredAttempts, NeverStarted
<1> QED BY <1>3, <1>4

\* What a worker does spares the attempt, and unless it created it the run, of another.
LEMMA WorkSpares ==
    ASSUME ControllerInv, NEW g \in Gateway, NEW h \in Gateway, g # h, Work(h), [Next]_vars,
           Live(g), NEW a \in Attempt, worker[g].attempt = a, NEW r \in Run, worker[g].run = r,
           ~runs[r].cancel, attempts'[a].error # "ControllerLeaseExpired"
    PROVE  /\ attempts'[a] = attempts[a]
           /\ IsActive(a) /\ ~worker[h].created => runs'[r].state = runs[r].state
<1> DEFINE Goal == /\ attempts'[a] = attempts[a]
                   /\ IsActive(a) /\ ~worker[h].created => runs'[r].state = runs[r].state
<1>0. /\ TypeOK /\ Exists(r) /\ attempts[a].state # "ABSENT" /\ RunOf(a) = r /\ a # NoAttempt
      /\ runs \in [Run -> RunRow] /\ attempts \in [Attempt -> AttemptRow] /\ {} \in SUBSET Run
  BY AttemptIsOne DEF ControllerInv, StoreInv, HandInv, InHand, Grounded, TypeOK
<1>1. CASE UNCHANGED vars
  BY <1>1 DEF vars
<1>2. ASSUME NEW s \in Run, NEW passes, CreateRun(s, "gui", passes, Lease)
      PROVE  Goal
  <2>1. /\ ~Exists(s) /\ attempts' = RecoveredAttempts({})
    BY <1>2 DEF CreateRun, AdmittedAttempts, ControllerSource
  <2>2. runs'[r] = RecoveredRuns({})[r]
    <3>1. RecoveredRuns({}) \in [Run -> RunRow] /\ r # s
      BY <1>0, <2>1, RecoveryType
    <3>2. "gui" \in ControllerSource
      BY DEF ControllerSource
    <3> QED BY <1>2, <3>1, <3>2 DEF CreateRun, AdmittedRuns
  <2> QED BY <1>0, <2>1, <2>2, RecoverySparesUnfenced
<1>3. CASE RecoverOrphaned({})
  BY <1>0, <1>3, RecoverySparesUnfenced DEF RecoverOrphaned
<1>4. ASSUME NEW b \in Attempt, NEW lease, StartAttempt(b, lease)
      PROVE  Goal
  <2> DEFINE s == RunOf(b)
  <2>1. s \in Run /\ {s} \in SUBSET Run /\ Exists(s)
    BY <1>4, AttemptKey DEF StartAttempt
  <2>2. ByController(s) /\ ~RunHasActiveAttempt(s) /\ a # b
    <3>1. ByController(s)
      BY <2>1, ActiveIsControllers DEF ControllerInv, StoreInv
    <3> QED BY <1>0, <1>4, <3>1 DEF StartAttempt, IsNextAttempt
  <2>3. RecoveredRuns({s}) \in [Run -> RunRow] /\ RecoveredAttempts({s}) \in [Attempt -> AttemptRow]
    BY <1>0, <2>1, RecoveryType
  <2>4. attempts'[a] = RecoveredAttempts({s})[a]
    BY <1>4, <2>2, <2>3 DEF StartAttempt, AdmittedAttempts
  <2>5. r # s => runs'[r] = RecoveredRuns({s})[r]
    BY <1>4, <2>2, <2>3 DEF StartAttempt, AdmittedRuns
  <2>6. IsActive(a) => r # s
    BY <1>0, <2>2 DEF RunHasActiveAttempt
  <2> QED BY <1>0, <2>1, <2>4, <2>5, <2>6, RecoverySparesUnfenced
<1>5. ASSUME NEW b \in Attempt, b = worker[h].attempt, NEW v, FinishAttempt(b, v, {})
      PROVE  Goal
  <2>1. a # b
    BY <1>0, <1>5 DEF ControllerInv, OwnWork
  <2>2. attempts'[a] = attempts[a]
    BY <1>0, <1>5, <2>1 DEF FinishAttempt
  <2>3. IsActive(a) => RunOf(b) # r
    BY <1>0, <1>5, <2>1 DEF ControllerInv, StoreInv, Sole, FinishAttempt
  <2>4. RunOf(b) # r => runs'[r] = runs[r]
    BY <1>0, <1>5 DEF FinishAttempt
  <2> QED BY <2>2, <2>3, <2>4
<1>6. ASSUME NEW s \in Run, worker[h].created, FinalizeRunFailed(s)
      PROVE  Goal
  BY <1>6 DEF FinalizeRunFailed
<1>7. ASSUME NEW s \in Run, runs[s].cancel, FinalizeCancelledRun(s)
      PROVE  Goal
  <2>1. r # s
    BY <1>7
  <2>2. attempts'[a] = attempts[a]
    BY <1>0, <1>7, <2>1 DEF FinalizeCancelledRun, EndedAttempts
  <2>3. runs'[r] = runs[r]
    BY <1>0, <1>7, <2>1 DEF FinalizeCancelledRun
  <2> QED BY <2>2, <2>3
<1>8. ASSUME NEW s \in Run, RequestCancel(s)
      PROVE  Goal
  <2>1. attempts' = attempts /\ runs' = [runs EXCEPT ![s] = [runs[s] EXCEPT !.cancel = TRUE]]
    BY <1>8 DEF RequestCancel
  <2>2. [runs[s] EXCEPT !.cancel = TRUE].state = runs[s].state
    BY <1>0, Zenon DEF RunRow
  <2>3. runs'[r].state = runs[r].state
    BY <1>0, <2>1, <2>2
  <2> QED BY <2>1, <2>3
<1> QED BY <1>1, <1>2, <1>3, <1>4, <1>5, <1>6, <1>7, <1>8 DEF Work

\* A gateway that loses a race ends neither the attempt another one works on nor, unless it created
\* it, the run, whatever requests, failures and crashes come in between.
THEOREM LosersSpareWinners == ControllerSpec => LoserSparesWinner
<1>1. ControllerInv /\ [ControllerNext]_allVars
        => [\A g, h \in Gateway :
              LET a == worker[g].attempt  r == worker[g].run IN
              /\ g # h /\ worker'[h] # worker[h]
              /\ Live(g) /\ a # NoAttempt /\ ~runs[r].cancel /\ Unfenced(a)
              => /\ attempts'[a] = attempts[a]
                 /\ IsActive(a) /\ ~worker[h].created => runs'[r].state = runs[r].state]_allVars
  <2> SUFFICES ASSUME ControllerInv, [ControllerNext]_allVars, NEW g \in Gateway, NEW h \in Gateway,
                      g # h, worker'[h] # worker[h], Live(g), worker[g].attempt # NoAttempt,
                      ~runs[worker[g].run].cancel, Unfenced(worker[g].attempt)
               PROVE  /\ attempts'[worker[g].attempt] = attempts[worker[g].attempt]
                      /\ IsActive(worker[g].attempt) /\ ~worker[h].created =>
                            runs'[worker[g].run].state = runs[worker[g].run].state
    OBVIOUS
  <2>0. /\ [Next]_vars /\ TypeOK /\ TypeOK' /\ WorkerRows /\ ControllerRuns /\ AdmissionBlindSpots
        /\ \A k \in Gateway : InHand(k) /\ Stepping(k)
    BY ControllerInvStep DEF ControllerInv, StoreInv, HandInv, Stepping
  <2>1. worker[g].attempt \in Attempt /\ worker[g].run \in Run
    BY <2>0 DEF WorkerRows, WorkerRow, InHand, Grounded
  <2>2. CASE Work(h)
    BY <2>0, <2>1, <2>2, WorkSpares DEF Unfenced
  <2>3. ASSUME NEW k \in Gateway, GatewayAction(k)
        PROVE  Work(h)
    <3>1. h = k
      BY <2>0, <2>3, ActionMoves DEF Moves
    <3>2. ~Recover(k)
      BY <3>1 DEF Recover, gwVars
    <3> QED BY <2>0, <2>3, <3>1, <3>2, WorkOf
  <2>4. ASSUME NEW a, NEW code, ChildExit(a, code)
        PROVE  Work(h)
    BY <2>4 DEF ChildExit, Work
  <2>5. ASSUME NEW s, NEW a, NEW verdict,
               Archive(s) \/ RunnerFinish(a, verdict) \/ Clock \/ UNCHANGED allVars
        PROVE  worker' = worker
    BY <2>5 DEF Archive, RunnerFinish, Clock, allVars, gwVars
  <2> QED BY <2>2, <2>3, <2>4, <2>5 DEF ControllerNext, GatewayAction
<1> QED BY <1>1, ControllerAlways, PTL DEF ControllerSpec, LoserSparesWinner

=============================================================================
