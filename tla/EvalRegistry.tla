---------------------------- MODULE EvalRegistry ----------------------------
(***************************************************************************)
(* One A/B evaluation in the offline registry                              *)
(* (src/tools/traum_eval_registry.py): the captures of conditions A and B, *)
(* the learning window between them, the trials, and the analysis.         *)
(*                                                                         *)
(* Nothing is locked.  A call loads state.json, adds to it what the        *)
(* manifests on disk say, copies its input, writes a manifest, and writes  *)
(* its copy of state.json back, each file atomically; a call may be killed *)
(* between any two of these, and other processes make calls meanwhile, for *)
(* the same slot too: "raced" remembers the slots for which two calls were *)
(* between their check and their write at once.                            *)
(*                                                                         *)
(* A call freezes several files.  One of them stands for all: the          *)
(* documents of a condition and the metrics of a trial, the ones that are  *)
(* not pinned by the plan.  The plan and its pins never change and are     *)
(* left out.                                                               *)
(***************************************************************************)
EXTENDS Naturals, FiniteSets

CONSTANTS
    Process,     \* command lines and workers that call the registry
    Seed,        \* trial_seeds of the plan
    Bytes,       \* contents an exported file can have
    NoBytes,     \* no file
    Never,       \* no time
    MinElapsed,  \* min_elapsed_seconds of the plan
    Inputs,      \* the contents each input can be exported with
    MaxTime,     \* bound: the clock
    MaxCrashes   \* bound: calls that are killed

ASSUME RegistryAssumption ==
    /\ NoBytes \notin Bytes /\ Never \notin Nat
    /\ MinElapsed \in Nat /\ MaxTime \in Nat /\ MaxCrashes \in Nat

Condition == {"A", "B"}
Capture   == {[kind |-> "capture", of |-> c] : c \in Condition}
Trial     == {[kind |-> "trial", of |-> c, seed |-> s] : c \in Condition, s \in Seed}
Slot      == Capture \cup Trial
Window    == [kind |-> "window"]
Analysis  == [kind |-> "analysis"]
Op        == Slot \cup {Window, Analysis}
CaptureOf(c) == [kind |-> "capture", of |-> c]

ASSUME InputsAssumption == Inputs \in [Slot -> SUBSET Bytes]

VARIABLES
    source,    \* the inputs in the sandboxes, by slot
    artifact,  \* the frozen copies, by slot
    manifest,  \* the manifests, by slot
    summary,   \* the analysis summary
    stateFile, \* state.json
    call,      \* the call each process is in
    now,
    crashes,
    acked,     \* history: the operations of which a call saved its state
    raced      \* history: the operations that two calls passed the check of before either wrote

evalVars == <<source, artifact, manifest, summary, stateFile, call, now, crashes, acked, raced>>

NoManifest == [bytes |-> NoBytes, signed |-> NoBytes, at |-> Never]
Nothing    == [s \in Slot |-> NoBytes]
NoSummary  == [at |-> Never, of |-> Nothing]
NewState   == [refs |-> {}, opened |-> FALSE, summary |-> NoSummary]
Idle       == [at |-> "idle", op |-> Window, stamp |-> 0, copied |-> NoBytes, signed |-> NoBytes,
               found |-> Nothing, st |-> NewState]

EvalInit ==
    /\ source = Nothing
    /\ artifact = Nothing
    /\ manifest = [s \in Slot |-> NoManifest]
    /\ summary = NoSummary
    /\ stateFile = NewState
    /\ call = [p \in Process |-> Idle]
    /\ now = 0
    /\ crashes = 0
    /\ acked = {}
    /\ raced = {}

----------------------------------------------------------------------------
Done(s) == manifest[s].bytes # NoBytes

\* Mutant: trials are not looked for on disk.
ReconcileCaptures(st) ==
    [st EXCEPT !.refs = st.refs \cup {s \in Capture : Done(s)},
               !.summary = IF summary # NoSummary THEN summary ELSE st.summary]

\* _reconcile_state: what the manifests and the summary on disk say; the window has neither.
Reconcile(st) ==
    [st EXCEPT !.refs = st.refs \cup {s \in Slot : Done(s)},
               !.summary = IF summary # NoSummary THEN summary ELSE st.summary]

\* _verified_manifest.
Verified(s) == artifact[s] = manifest[s].bytes

\* A state that _reconcile_state does not raise on.
Loads(st) ==
    /\ \A s \in Slot : Done(s) => Verified(s)
    /\ st.summary \in {NoSummary, summary}

\* What status reports.
View == Reconcile(stateFile)

\* Mutant: the window is counted from the moment it is asked for.
ElapsedFromRequest(t) == t >= MinElapsed

\* open_condition_b and _capture_condition: the interval since A was captured.
Elapsed(t) == Done(CaptureOf("A")) /\ t >= manifest[CaptureOf("A")].at + MinElapsed

\* The gates of the stages, on the state that was loaded.
Admitted(op, st) ==
    /\ op \in {Window, CaptureOf("B")} => CaptureOf("A") \in st.refs /\ Elapsed(now)
    /\ op = CaptureOf("B") => st.opened
    /\ op \in Trial => CaptureOf(op.of) \in st.refs /\ (op.of = "B" => st.opened)
    /\ op = Analysis => Slot \subseteq st.refs

\* Between the check and the write.
Writing == {"copying", "describing", "summarizing"}

\* A call passes its check; another one may have, and have written nothing yet.
Pass(p) ==
    raced' = raced \cup {op \in {call[p].op} :
                           \E q \in Process \ {p} : call[q].op = op /\ call[q].at \in Writing}

Go(p, at) == call' = [call EXCEPT ![p].at = at]
Abort(p)  == call' = [call EXCEPT ![p] = Idle]

\* A call starts: it takes the time, loads and reconciles the state and passes its gates.
Begin(p, op) ==
    /\ call[p].at = "idle"
    /\ op \in Slot => source[op] # NoBytes
    /\ Loads(stateFile)
    /\ Admitted(op, View)
    /\ call' = [call EXCEPT ![p] = [Idle EXCEPT !.at = "admitted", !.op = op, !.stamp = now, !.st = View]]
    /\ UNCHANGED <<source, artifact, manifest, summary, stateFile, now, crashes, acked, raced>>

\* open_condition_b: the window is opened once, and its only record is state.json.
OpenWindow(p) ==
    /\ call[p].at = "admitted" /\ call[p].op = Window
    /\ IF call[p].st.opened
       THEN Abort(p) /\ acked' = acked \cup {Window}
       ELSE call' = [call EXCEPT ![p].at = "saving", ![p].st.opened = TRUE] /\ UNCHANGED acked
    /\ UNCHANGED <<source, artifact, manifest, summary, stateFile, now, crashes, raced>>

\* _copy_stable looks whether its copy exists: an equal one is kept, another one is a conflict.
\* A trial remembers the input it was checked with.
Look(p, s) ==
    LET signed == IF s \in Trial THEN source[s] ELSE NoBytes IN
    IF artifact[s] \notin {NoBytes, source[s]} THEN Abort(p) /\ UNCHANGED raced
    ELSE /\ call' = [call EXCEPT ![p].at = IF artifact[s] = NoBytes THEN "copying" ELSE "describing",
                                 ![p].signed = signed,
                                 ![p].copied = artifact[s]]
         /\ Pass(p)

\* What an input is compared with when its slot is done.
Recorded(s) == IF s \in Trial THEN manifest[s].signed ELSE manifest[s].bytes

\* Mutant: what is done already is frozen again if the input is the same.
CheckRepeats(p) ==
    LET s == call[p].op IN
    /\ call[p].at = "admitted" /\ s \in Slot
    /\ IF Done(s) /\ source[s] # Recorded(s) THEN Abort(p) /\ UNCHANGED raced ELSE Look(p, s)
    /\ UNCHANGED <<source, artifact, manifest, summary, stateFile, now, crashes, acked>>

\* A Condition B that cannot be told from A.
SameAsA(s) ==
    /\ s = CaptureOf("B")
    /\ ~Verified(CaptureOf("A")) \/ source[s] = manifest[CaptureOf("A")].bytes

\* What is done already is compared with the input; a Condition B equal to A is refused.
Check(p) ==
    LET s == call[p].op IN
    /\ call[p].at = "admitted" /\ s \in Slot
    /\ \/ /\ Done(s)
          /\ IF Verified(s) /\ source[s] = Recorded(s) THEN Go(p, "reconciling") ELSE Abort(p)
          /\ UNCHANGED raced
       \/ ~Done(s) /\ SameAsA(s) /\ Abort(p) /\ UNCHANGED raced
       \/ ~Done(s) /\ ~SameAsA(s) /\ Look(p, s)
    /\ UNCHANGED <<source, artifact, manifest, summary, stateFile, now, crashes, acked>>

\* Mutant: the manifest is written first.
CopyLate(p) ==
    LET s == call[p].op IN
    /\ call[p].at = "copying"
    /\ manifest' = [manifest EXCEPT ![s] = [NoManifest EXCEPT !.bytes = source[s], !.at = call[p].stamp]]
    /\ Go(p, "reconciling")
    /\ UNCHANGED <<source, artifact, summary, stateFile, now, crashes, acked, raced>>

\* The copy is put in place, over one that another call may have made since.
Copy(p) ==
    LET s == call[p].op IN
    /\ call[p].at = "copying"
    /\ artifact' = [artifact EXCEPT ![s] = source[s]]
    /\ call' = [call EXCEPT ![p].at = "describing", ![p].copied = source[s]]
    /\ UNCHANGED <<source, manifest, summary, stateFile, now, crashes, acked, raced>>

\* The manifest describes the copy that was made (nothing reads the time of a trial).
Describe(p) ==
    LET s == call[p].op IN
    /\ call[p].at = "describing"
    /\ manifest' = [manifest EXCEPT ![s] = 
            [bytes |-> call[p].copied, signed |-> call[p].signed,
             at |-> IF s \in Capture THEN call[p].stamp ELSE Never]]
    /\ Go(p, "reconciling")
    /\ UNCHANGED <<source, artifact, summary, stateFile, now, crashes, acked, raced>>

\* Mutant: the recheck of the corpora is left to the capture.
ComparableTrusting == \A s \in Slot : Done(s)

\* _analysis_corpus_delta: A and B are not the same corpus.
Comparable ==
    /\ \A s \in Slot : Done(s) /\ Verified(s)
    /\ manifest[CaptureOf("A")].bytes # manifest[CaptureOf("B")].bytes

Frozen == [s \in Slot |-> manifest[s].bytes]

\* analyze_evaluation: another summary than the one on disk is a conflict, but for its time.
Analyze(p) ==
    /\ call[p].at = "admitted" /\ call[p].op = Analysis
    /\ \/ /\ Comparable /\ summary = NoSummary
          /\ call' = [call EXCEPT ![p].at = "summarizing", ![p].found = Frozen]
          /\ Pass(p)
       \/ /\ summary # NoSummary \/ ~Comparable
          /\ IF Comparable /\ summary.of = Frozen THEN Go(p, "reconciling") ELSE Abort(p)
          /\ UNCHANGED raced
    /\ UNCHANGED <<source, artifact, manifest, summary, stateFile, now, crashes, acked>>

Summarize(p) ==
    /\ call[p].at = "summarizing"
    /\ summary' = [at |-> call[p].stamp, of |-> call[p].found]
    /\ Go(p, "reconciling")
    /\ UNCHANGED <<source, artifact, manifest, stateFile, now, crashes, acked, raced>>

\* The call reconciles the state it loaded when it began, not the one on disk now, and raises
\* on what another call replaced.
Refresh(p) ==
    /\ call[p].at = "reconciling"
    /\ IF Loads(call[p].st)
       THEN call' = [call EXCEPT ![p].at = "saving", ![p].st = Reconcile(call[p].st)]
       ELSE Abort(p)
    /\ UNCHANGED <<source, artifact, manifest, summary, stateFile, now, crashes, acked, raced>>

\* _write_state; the registry index and the status that follow only read.
Save(p) ==
    /\ call[p].at = "saving"
    /\ stateFile' = call[p].st
    /\ acked' = acked \cup {call[p].op}
    /\ Abort(p)
    /\ UNCHANGED <<source, artifact, manifest, summary, now, crashes, raced>>

----------------------------------------------------------------------------
\* The sandbox exports an input, or exports it again with other contents.
Export(s, b) ==
    /\ source[s] # b
    /\ b \in Inputs[s]
    /\ s \in Trial => Done(CaptureOf(s.of))
    /\ source' = [source EXCEPT ![s] = b]
    /\ UNCHANGED <<artifact, manifest, summary, stateFile, call, now, crashes, acked, raced>>

Tick ==
    /\ now < MaxTime
    /\ now' = now + 1
    /\ UNCHANGED <<source, artifact, manifest, summary, stateFile, call, crashes, acked, raced>>

Kill(p) ==
    /\ call[p].at # "idle" /\ crashes < MaxCrashes
    /\ crashes' = crashes + 1
    /\ Abort(p)
    /\ UNCHANGED <<source, artifact, manifest, summary, stateFile, now, acked, raced>>

Work(p) ==
    \/ OpenWindow(p)
    \/ Check(p) \/ Copy(p) \/ Describe(p)
    \/ Analyze(p) \/ Summarize(p)
    \/ Refresh(p) \/ Save(p)

EvalNext ==
    \/ \E p \in Process, op \in Op : Begin(p, op)
    \/ \E p \in Process : Work(p) \/ Kill(p)
    \/ \E s \in Slot, b \in Bytes : Export(s, b)
    \/ Tick

EvalSpec == EvalInit /\ [][EvalNext]_evalVars

----------------------------------------------------------------------------
\* The records, for the type invariant.
ManifestRecord == [bytes : Bytes \cup {NoBytes}, signed : Bytes \cup {NoBytes}, at : Nat \cup {Never}]
SummaryRecord  == [at : Nat \cup {Never}, of : [Slot -> Bytes \cup {NoBytes}]]
StateRecord    == [refs : SUBSET Slot, opened : BOOLEAN, summary : SummaryRecord]
CallRecord     == [at : {"idle", "admitted", "copying", "describing", "summarizing", "reconciling",
                        "saving"},
                  op : Op, stamp : Nat, copied : Bytes \cup {NoBytes},
                  signed : Bytes \cup {NoBytes}, found : [Slot -> Bytes \cup {NoBytes}],
                  st : StateRecord]

\* Every file and every call in progress is well formed.
EvalTypeOK ==
    /\ source \in [Slot -> Bytes \cup {NoBytes}]
    /\ artifact \in [Slot -> Bytes \cup {NoBytes}]
    /\ manifest \in [Slot -> ManifestRecord]
    /\ summary \in SummaryRecord
    /\ stateFile \in StateRecord
    /\ call \in [Process -> CallRecord]
    /\ now \in Nat /\ crashes \in Nat
    /\ acked \subseteq Op /\ raced \subseteq Op

\* An acknowledged capture, trial or analysis stays in what a call makes of the files it loads,
\* whatever older copies of state.json are written over it, whoever is killed and whichever calls
\* race.  (_reconcile_state; the window, which has no manifest, is not covered.)
AcknowledgedStays ==
    /\ acked \cap Slot \subseteq View.refs
    /\ Analysis \in acked => View.summary # NoSummary

\* A manifest describes a file that is there as described, from the moment it appears, and
\* state.json never disagrees with the summary; only two calls that passed the check of one slot
\* before either wrote can break this, and only for that slot.  (_capture_condition,
\* record_trial and analyze_evaluation, killed anywhere and repeated; _verified_manifest.)
ManifestsHold ==
    /\ \A s \in Slot \ raced : Done(s) => Verified(s)
    /\ Analysis \notin raced => stateFile.summary \in {NoSummary, summary}

\* Condition B was frozen at least the minimum interval after Condition A, also when captures of
\* B race; only racing captures of A can break this, by a later A put in the place of the first.
\* (open_condition_b, _capture_condition, the captures' stamps.)
WindowElapsed ==
    Done(CaptureOf("B")) /\ CaptureOf("A") \notin raced =>
        /\ Done(CaptureOf("A"))
        /\ manifest[CaptureOf("B")].at >= manifest[CaptureOf("A")].at + MinElapsed

\* What was analyzed are two different corpora, whichever calls race, and the captures and trials
\* that are on disk, but for those whose own calls raced.  (analyze_evaluation,
\* _analysis_corpus_delta; also when an input is exported again between the check of a capture
\* and its copy.)
AnalysisSound ==
    summary # NoSummary =>
        /\ \A s \in Slot \ raced : summary.of[s] = manifest[s].bytes
        /\ summary.of[CaptureOf("A")] # summary.of[CaptureOf("B")]

\* A manifest or a summary on disk is replaced by nothing but a call that passed its check
\* together with the one that wrote it, whatever is exported again and repeated after it.
\* (_capture_condition, record_trial, analyze_evaluation.)
FrozenIsFinal ==
    [][/\ \A s \in Slot \ raced : Done(s) => manifest'[s] = manifest[s]
       /\ summary # NoSummary /\ Analysis \notin raced => summary' = summary]_evalVars
=============================================================================
