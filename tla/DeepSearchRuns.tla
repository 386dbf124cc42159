--------------------------- MODULE DeepSearchRuns ---------------------------
(***************************************************************************)
(* Topics and passes of the deep-search dashboard: the files that the      *)
(* gateway (src/tools/goethe_ui.py) and the workers it spawns              *)
(* (src/tools/deep_search_worker.py) share without a lock.                 *)
(*                                                                         *)
(* A request runs in a thread of its own; a pass runs in a process that    *)
(* outlives the gateway.  A file is read in one step and replaced in a     *)
(* later one.  A worker writes its state.json under a lock of its own,     *)
(* which its signal handler takes too; the writes of its heartbeat thread  *)
(* and of the engine's transitions repeat the status and change nothing    *)
(* that is modelled.  The search engine is reduced to its verdict.         *)
(***************************************************************************)
EXTENDS Naturals, FiniteSets, Sequences

CONSTANTS
    Thread,     \* threads of the gateway that serve a request
    Topic,
    Run,        \* ids of passes, each given once; bounds their number
    NoTopic,    \* not a topic
    NoRun,      \* not a run
    GlobalCap,  \* passes active at once; 2 in the code
    MaxMishaps  \* bound: signals, kills, deaths of the gateway and failing edits

ASSUME DeepSearchAssumption ==
    /\ IsFiniteSet(Thread) /\ IsFiniteSet(Run) /\ Thread \cap Run = {}
    /\ NoTopic \notin Topic /\ NoRun \notin Run
    /\ GlobalCap \in Nat \ {0} /\ MaxMishaps \in Nat

VARIABLES
    dossiers,   \* the topics that have a topics/<id>.json
    passes,     \* the passes each dossier lists
    listed,     \* the topics in topics.json
    status,     \* the status in runs/<id>/state.json, "none" without the file
    removed,    \* runs whose directory was deleted with their topic
    call,       \* what each thread of the gateway is doing
    worker,     \* the process of each run
    mishaps,    \* signals, kills, deaths and failing edits so far
    lapses,     \* history: requests for a pass that could not see one already begun
    late,       \* history: runs that were over when the gateway wrote their first status
    disturbed   \* history: an edit of the topics met another one, or was cut short

deepVars == <<dossiers, passes, listed, status, removed, call, worker, mishaps, lapses, late, disturbed>>

Served    == [at |-> "idle", topic |-> NoTopic, run |-> NoRun, passes |-> {}, listed |-> {}]
NoWorker  == [at |-> "none", topic |-> NoTopic, verdict |-> "FAILED", passes |-> {}, listed |-> {}]

DeepInit ==
    /\ dossiers = {} /\ listed = {} /\ passes = [t \in Topic |-> {}]
    /\ status = [r \in Run |-> "none"]
    /\ removed = {}
    /\ call = [g \in Thread |-> Served]
    /\ worker = [r \in Run |-> NoWorker]
    /\ mishaps = 0 /\ lapses = 0
    /\ late = {} /\ disturbed = FALSE

-----------------------------------------------------------------------------
(* Edits of the topics: from the first read to the last write. *)

GatewayEdits == {"create", "createIndex", "createList", "check", "clear", "unlink", "unlist", "dropList"}
WorkerEdits  == {"touchWrite", "touchIndex", "touchList", "mergeWrite", "mergeIndex", "mergeList"}
Editing == {g \in Thread : call[g].at \in GatewayEdits} \cup {r \in Run : worker[r].at \in WorkerEdits}
BeginEdit == disturbed' = (disturbed \/ Editing # {})
CutShort(actors) == disturbed' = (disturbed \/ Editing \cap actors # {})

At(g, step)     == call[g].at = step
Go(g, step)     == call' = [call EXCEPT ![g].at = step, ![g].passes = {}, ![g].listed = {}]
Answer(g)       == call' = [call EXCEPT ![g] = Served]
RunsUnchanged   == UNCHANGED <<status, removed, worker, mishaps, lapses, late>>

\* _deep_search_create_topic
CreateCheck(g, t) ==
    /\ At(g, "idle") /\ t \notin dossiers
    /\ call' = [call EXCEPT ![g].at = "create", ![g].topic = t]
    /\ BeginEdit
    /\ UNCHANGED <<dossiers, passes, listed>> /\ RunsUnchanged

CreateWrite(g) ==
    /\ At(g, "create") /\ Go(g, "createIndex")
    /\ dossiers' = dossiers \cup {call[g].topic}
    /\ passes' = [passes EXCEPT ![call[g].topic] = {}]
    /\ UNCHANGED <<listed, disturbed>> /\ RunsUnchanged

CreateRead(g) ==
    /\ At(g, "createIndex")
    /\ call' = [call EXCEPT ![g].at = "createList", ![g].listed = listed]
    /\ UNCHANGED <<dossiers, passes, listed, disturbed>> /\ RunsUnchanged

CreateList(g) ==
    /\ At(g, "createList") /\ Answer(g)
    /\ listed' = call[g].listed \cup {call[g].topic}
    /\ UNCHANGED <<dossiers, passes, disturbed>> /\ RunsUnchanged

\* _deep_search_active_runs: whatever has become of the worker.
Active == {r \in Run : status[r] = "RUNNING"}
ActiveIn(t) == {r \in Active : worker[r].topic = t}

\* _deep_search_delete_topic: the passes listed in the dossier are read first.
DeleteRead(g, t) ==
    /\ At(g, "idle") /\ t \in dossiers
    /\ call' = [call EXCEPT ![g].at = "check", ![g].topic = t, ![g].passes = passes[t]]
    /\ BeginEdit
    /\ UNCHANGED <<dossiers, passes, listed>> /\ RunsUnchanged

DeleteCheck(g) ==
    /\ At(g, "check")
    /\ IF ActiveIn(call[g].topic) = {} THEN call' = [call EXCEPT ![g].at = "clear"] ELSE Answer(g)
    /\ UNCHANGED <<dossiers, passes, listed, disturbed>> /\ RunsUnchanged

\* A listed run has a directory whose state.json names this topic.
ListedRuns(g) == call[g].passes \ removed

DeleteRuns(g) ==
    /\ At(g, "clear") /\ Go(g, "unlink")
    /\ removed' = removed \cup ListedRuns(g)
    /\ status' = [r \in Run |-> IF r \in ListedRuns(g) THEN "none" ELSE status[r]]
    /\ UNCHANGED <<dossiers, passes, listed, worker, mishaps, lapses, late, disturbed>>

\* os.remove raises if another request has removed the dossier.
DeleteDossier(g) ==
    /\ At(g, "unlink")
    /\ IF call[g].topic \in dossiers THEN Go(g, "unlist") ELSE Answer(g)
    /\ dossiers' = dossiers \ {call[g].topic}
    /\ passes' = [passes EXCEPT ![call[g].topic] = {}]
    /\ UNCHANGED <<listed, disturbed>> /\ RunsUnchanged

DeleteReadIndex(g) ==
    /\ At(g, "unlist")
    /\ call' = [call EXCEPT ![g].at = "dropList", ![g].listed = listed]
    /\ UNCHANGED <<dossiers, passes, listed, disturbed>> /\ RunsUnchanged

DeleteList(g) ==
    /\ At(g, "dropList") /\ Answer(g)
    /\ listed' = call[g].listed \ {call[g].topic}
    /\ UNCHANGED <<dossiers, passes, disturbed>> /\ RunsUnchanged

-----------------------------------------------------------------------------
(* Starting a pass: _deep_search_spawn_pass. *)

\* Passes that have been granted, or whose worker lives, and that have no status yet.
Unseen == {g \in Thread : call[g].at \in {"spawn", "stamp"}} \cup {r \in Run : worker[r].at = "boot"}

\* Mutant: the topic may have an active pass.
HasRoomAnywhere(t) == Cardinality(Active) < GlobalCap
HasRoom(t) == Cardinality(Active) < GlobalCap /\ ActiveIn(t) = {}

\* Bound: the ids of Run; every request that is granted has one.
IdLeft == Cardinality({g \in Thread : At(g, "spawn")}) < Cardinality({r \in Run : worker[r].at = "none"})

SpawnCheck(g, t) ==
    /\ At(g, "idle") /\ t \in dossiers /\ HasRoom(t) /\ IdLeft
    /\ call' = [call EXCEPT ![g].at = "spawn", ![g].topic = t]
    /\ lapses' = IF Unseen = {} THEN lapses ELSE lapses + 1
    /\ UNCHANGED <<dossiers, passes, listed, status, removed, worker, mishaps, late, disturbed>>

Spawn(g, r) ==
    /\ At(g, "spawn") /\ worker[r].at = "none"
    /\ call' = [call EXCEPT ![g].at = "stamp", ![g].run = r]
    /\ worker' = [worker EXCEPT ![r].at = "boot", ![r].topic = call[g].topic]
    /\ UNCHANGED <<dossiers, passes, listed, status, removed, mishaps, lapses, late, disturbed>>

\* The gateway writes the first status too, without knowing how far the worker is.
Stamp(g) ==
    LET r == call[g].run IN
    /\ At(g, "stamp") /\ Answer(g)
    /\ status' = [status EXCEPT ![r] = IF r \in removed THEN "none" ELSE "RUNNING"]
    /\ late' = IF status[r] \in {"DONE", "FAILED"} \/ r \in removed THEN late \cup {r} ELSE late
    /\ UNCHANGED <<dossiers, passes, listed, removed, worker, mishaps, lapses, disturbed>>

-----------------------------------------------------------------------------
(* The worker: main of deep_search_worker.py. *)

On(r, step) == worker[r].at = step
\* What the worker has read is dropped with the step that used it.
Turn(r, step) == worker' = [worker EXCEPT ![r].at = step, ![r].passes = {}, ![r].listed = {}]
FilesUnchanged == UNCHANGED <<dossiers, passes, listed, removed, call, mishaps, lapses, late>>

\* _write into the run's directory, if that is still there.
Write(r, value) == status' = IF r \in removed THEN status ELSE [status EXCEPT ![r] = value]

\* RunState.__init__ writes QUEUED, which counts as active; then the signals are handled.
Boot(r) ==
    /\ On(r, "boot") /\ Turn(r, "status") /\ Write(r, "RUNNING")
    /\ FilesUnchanged /\ UNCHANGED disturbed

\* Where the main thread writes state.json, each time under the lock; in a search, at every
\* transition of the engine.
Locked == {"status", "engine", "final", "error"}
Report(r) ==
    /\ \/ On(r, "status") /\ Turn(r, "touch") /\ Write(r, "RUNNING")
       \/ On(r, "final")  /\ Turn(r, "merge") /\ Write(r, worker[r].verdict)
       \/ On(r, "error")  /\ Turn(r, "exit")  /\ Write(r, worker[r].verdict)
    /\ FilesUnchanged /\ UNCHANGED disturbed

\* _touch_topic_status: "researching", in the dossier and in the index.
TouchRead(r) ==
    LET t == worker[r].topic IN
    /\ On(r, "touch")
    /\ IF t \in dossiers
       THEN /\ worker' = [worker EXCEPT ![r].at = "touchWrite", ![r].passes = passes[t]]
            /\ BeginEdit
       ELSE Turn(r, "engine") /\ UNCHANGED disturbed
    /\ UNCHANGED status /\ FilesUnchanged

TouchWrite(r) ==
    /\ On(r, "touchWrite") /\ Turn(r, "touchIndex")
    /\ dossiers' = dossiers \cup {worker[r].topic}
    /\ passes' = [passes EXCEPT ![worker[r].topic] = worker[r].passes]
    /\ UNCHANGED <<listed, status, removed, call, mishaps, lapses, late, disturbed>>

TouchReadIndex(r) ==
    /\ On(r, "touchIndex")
    /\ IF worker[r].topic \in listed
       THEN worker' = [worker EXCEPT ![r].at = "touchList", ![r].listed = listed]
       ELSE Turn(r, "engine")
    /\ UNCHANGED status /\ FilesUnchanged /\ UNCHANGED disturbed

TouchList(r) ==
    /\ On(r, "touchList") /\ Turn(r, "engine")
    /\ listed' = worker[r].listed
    /\ UNCHANGED <<dossiers, passes, status, removed, call, mishaps, lapses, late, disturbed>>

\* The engine returns a verdict, or raises, which is a failure too.
EngineEnds(r) ==
    /\ On(r, "engine")
    /\ \E verdict \in {"DONE", "FAILED"} :
           worker' = [worker EXCEPT ![r].at = "final", ![r].verdict = verdict]
    /\ UNCHANGED status /\ FilesUnchanged /\ UNCHANGED disturbed

\* Mutant: a dossier that has gone is begun again.
MergeReadAny(r) ==
    /\ On(r, "merge")
    /\ worker' = [worker EXCEPT ![r].at = "mergeWrite", ![r].passes = passes[worker[r].topic]]
    /\ BeginEdit
    /\ UNCHANGED status /\ FilesUnchanged

\* _update_topic: the pass is appended.  If the dossier has gone, the error is recorded.
MergeRead(r) ==
    LET t == worker[r].topic IN
    /\ On(r, "merge")
    /\ IF t \in dossiers
       THEN /\ worker' = [worker EXCEPT ![r].at = "mergeWrite", ![r].passes = passes[t]]
            /\ BeginEdit
       ELSE Turn(r, "error") /\ UNCHANGED disturbed
    /\ UNCHANGED status /\ FilesUnchanged

MergeWrite(r) ==
    /\ On(r, "mergeWrite") /\ Turn(r, "mergeIndex")
    /\ dossiers' = dossiers \cup {worker[r].topic}
    /\ passes' = [passes EXCEPT ![worker[r].topic] = worker[r].passes \cup {r}]
    /\ UNCHANGED <<listed, status, removed, call, mishaps, lapses, late, disturbed>>

MergeReadIndex(r) ==
    /\ On(r, "mergeIndex")
    /\ worker' = [worker EXCEPT ![r].at = "mergeList", ![r].listed = listed]
    /\ UNCHANGED status /\ FilesUnchanged /\ UNCHANGED disturbed

MergeList(r) ==
    /\ On(r, "mergeList") /\ Turn(r, "done")
    /\ listed' = worker[r].listed
    /\ UNCHANGED <<dossiers, passes, status, removed, call, mishaps, lapses, late, disturbed>>

-----------------------------------------------------------------------------
(* Errors, signals and deaths. *)

Gone  == {"none", "exit", "done", "dead", "stuck"}
Alive(r) == worker[r].at \notin Gone
Mishap == mishaps < MaxMishaps /\ mishaps' = mishaps + 1

\* A file of the topics cannot be read or replaced: the request is answered with the error, and
\* what its edit has written so far stays.  (The directories of a topic go in one step.)
EditFails(g) ==
    /\ call[g].at \in GatewayEdits
    /\ Mishap /\ Answer(g) /\ CutShort({g})
    /\ UNCHANGED <<dossiers, passes, listed, status, removed, worker, lapses, late>>

\* The same in a worker: it goes on without the first edit, and records the failure of the last.
UpdateFails(r) ==
    /\ \/ worker[r].at \in {"touch", "touchWrite", "touchIndex", "touchList"} /\ Turn(r, "engine")
       \/ worker[r].at \in {"merge", "mergeWrite", "mergeIndex", "mergeList"} /\ Turn(r, "error")
    /\ Mishap /\ CutShort({r})
    /\ UNCHANGED <<dossiers, passes, listed, status, removed, call, lapses, late>>

\* Mutant: the handler leaves without a last write.
LastWriteNone(r) == UNCHANGED status
\* What the handler _term writes, whatever the run has reported before.
LastWrite(r) == Write(r, "FAILED")

\* SIGTERM or SIGINT.  The handler runs in the main thread and takes the lock, for which it
\* waits for ever if the main thread holds it.
Signal(r) ==
    /\ Alive(r) /\ ~On(r, "boot") /\ Mishap
    /\ \/ Turn(r, "exit") /\ LastWrite(r)
       \/ worker[r].at \in Locked /\ Turn(r, "stuck") /\ UNCHANGED status
    /\ CutShort({r})
    /\ UNCHANGED <<dossiers, passes, listed, removed, call, lapses, late>>

\* SIGKILL, out of memory, or an error that nothing catches.
Kill(r) ==
    /\ Alive(r) \/ On(r, "stuck")
    /\ Mishap /\ Turn(r, "dead") /\ CutShort({r})
    /\ UNCHANGED <<dossiers, passes, listed, status, removed, call, lapses, late>>

\* The gateway dies and is started again; the workers go on.
GatewayCrash ==
    /\ \E g \in Thread : ~At(g, "idle")
    /\ Mishap /\ CutShort(Thread)
    /\ call' = [g \in Thread |-> Served]
    /\ UNCHANGED <<dossiers, passes, listed, status, removed, worker, lapses, late>>

-----------------------------------------------------------------------------
Request(g) ==
    \/ \E t \in Topic : CreateCheck(g, t) \/ DeleteRead(g, t) \/ SpawnCheck(g, t)
    \/ CreateWrite(g) \/ CreateRead(g) \/ CreateList(g)
    \/ DeleteCheck(g) \/ DeleteRuns(g) \/ DeleteDossier(g) \/ DeleteReadIndex(g) \/ DeleteList(g)
    \/ \E r \in Run : Spawn(g, r)
    \/ Stamp(g)

Work(r) ==
    \/ Boot(r) \/ Report(r) \/ EngineEnds(r)
    \/ TouchRead(r) \/ TouchWrite(r) \/ TouchReadIndex(r) \/ TouchList(r)
    \/ MergeRead(r) \/ MergeWrite(r) \/ MergeReadIndex(r) \/ MergeList(r)

DeepNext ==
    \/ \E g \in Thread : Request(g) \/ EditFails(g)
    \/ \E r \in Run : Work(r) \/ UpdateFails(r) \/ Signal(r) \/ Kill(r)
    \/ GatewayCrash

DeepSpec == DeepInit /\ [][DeepNext]_deepVars

-----------------------------------------------------------------------------
VerdictKind == {"DONE", "FAILED"}
CallStep   == GatewayEdits \cup {"idle", "spawn", "stamp"}
WorkerStep == WorkerEdits \cup Locked \cup Gone \cup {"boot", "touch", "merge"}
CallRecord   == [at : CallStep, topic : Topic \cup {NoTopic}, run : Run \cup {NoRun},
                 passes : SUBSET Run, listed : SUBSET Topic]
WorkerRecord == [at : WorkerStep, topic : Topic \cup {NoTopic}, verdict : VerdictKind,
                 passes : SUBSET Run, listed : SUBSET Topic]

\* Every variable keeps its type.
DeepTypeOK ==
    /\ dossiers \subseteq Topic /\ passes \in [Topic -> SUBSET Run] /\ listed \subseteq Topic
    /\ status \in [Run -> {"none", "RUNNING", "DONE", "FAILED"}]
    /\ removed \subseteq Run /\ late \subseteq Run
    /\ call \in [Thread -> CallRecord] /\ worker \in [Run -> WorkerRecord]
    /\ mishaps \in Nat /\ lapses \in Nat /\ disturbed \in BOOLEAN

Searching(r) == Alive(r) /\ worker[r].at \notin {"merge", "mergeWrite", "mergeIndex", "mergeList", "error"}

\* "One active run per topic": the passes of one topic that are searching exceed one at most by
\* the requests that looked while a pass already granted had no status yet; a worker that
\* reports an end has ended its search.  (_deep_search_spawn_pass.)
OneSearchPerTopic ==
    \A t \in Topic : Cardinality({r \in Run : Searching(r) /\ worker[r].topic = t}) <= 1 + lapses

\* A topic that nobody edits is in the index exactly if it has a dossier, and its dossier lists
\* every pass whose worker ended, unless an edit met another one or was cut short: every refusal,
\* error or late worker leaves them in step.  (The "single writer" of deep_search_worker.py.)
TopicsAgree ==
    ~disturbed /\ Editing = {} =>
        /\ \A t \in Topic : t \in listed <=> t \in dossiers
        /\ \A r \in Run : On(r, "done") => r \in passes[worker[r].topic] \cup removed

\* A worker that has left by itself or on a signal has reported the end of its pass, unless the
\* gateway wrote the first status last or the pass was deleted.  (main, _term.)
EndIsReported ==
    \A r \in Run : worker[r].at \in {"exit", "done"} =>
        status[r] \in {"DONE", "FAILED"} \/ r \in late \cup removed
=============================================================================
