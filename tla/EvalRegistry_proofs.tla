------------------------ MODULE EvalRegistry_proofs ------------------------
(***************************************************************************)
(* Proofs about EvalRegistry: its type invariant, that what is frozen is   *)
(* final and described as it is but for the slots on which calls raced,    *)
(* that nothing acknowledged is lost, and that only an elapsed window with *)
(* two different corpora is analyzed, for any number of processes, seeds,  *)
(* contents, crashes and any clock.                                        *)
(***************************************************************************)
EXTENDS EvalRegistry, TLAPS

----------------------------------------------------------------------------
(* The operations are distinct. *)

LEMMA OpFacts ==
    /\ CaptureOf("A") \in Capture /\ CaptureOf("B") \in Capture
    /\ CaptureOf("A") # CaptureOf("B")
    /\ Capture \subseteq Slot /\ Trial \subseteq Slot
    /\ Slot \subseteq Op /\ Window \in Op /\ Analysis \in Op
    /\ Window \notin Slot /\ Analysis \notin Slot /\ Window # Analysis
<1>1. CaptureOf("A") \in Capture /\ CaptureOf("B") \in Capture
  BY DEF CaptureOf, Capture, Condition
<1>2. CaptureOf("A") # CaptureOf("B")
  <2>1. CaptureOf("A").of = "A" /\ CaptureOf("B").of = "B"
    BY DEF CaptureOf
  <2> QED BY <2>1
<1>3. \A s \in Slot : s.kind \in {"capture", "trial"}
  BY DEF Slot, Capture, Trial
<1>4. Window.kind = "window" /\ Analysis.kind = "analysis"
  BY DEF Window, Analysis
<1> QED BY <1>1, <1>2, <1>3, <1>4 DEF Slot, Op

----------------------------------------------------------------------------
(* The inductive invariant. *)

\* Two calls are between the check and the write of one operation only if it has raced.
OneWriter ==
    \A p, q \in Process :
        p # q /\ call[p].at \in Writing /\ call[q].at \in Writing /\ call[p].op = call[q].op =>
            call[p].op \in raced

\* Only calls for a slot copy and describe, and only an analysis writes a summary.
SlotCalls ==
    \A p \in Process : /\ call[p].at \in {"copying", "describing"} => call[p].op \in Slot
                       /\ call[p].at = "summarizing" => call[p].op = Analysis

\* What was found of a set of captures and trials: two different corpora, and what is on disk.
FoundInv(found) ==
    /\ found[CaptureOf("A")] # found[CaptureOf("B")]
    /\ \A s \in Slot : found[s] # NoBytes
    /\ \A s \in Slot \ raced : found[s] = manifest[s].bytes

\* Condition B may be captured at t, as far as A's capture has not raced.
BMayBe(t) == CaptureOf("A") \in raced \/ Elapsed(t)

\* A copy of the summary's record is right, as far as analyses have not raced.
KnownSummary(sum) == Analysis \in raced \/ sum \in {NoSummary, summary}

\* What a call knows at each of its steps.
CallInv(p) ==
    /\ call[p].at = "admitted" /\ call[p].op \in Slot => source[call[p].op] # NoBytes
    /\ call[p].at = "copying" => source[call[p].op] # NoBytes
    /\ call[p].at \in {"copying", "describing"} => call[p].op \in raced \/ ~Done(call[p].op)
    /\ call[p].at = "describing" =>
          /\ call[p].copied # NoBytes
          /\ call[p].op \in raced \/ artifact[call[p].op] = call[p].copied
    /\ call[p].at = "summarizing" =>
          /\ Analysis \in raced \/ summary = NoSummary
          /\ FoundInv(call[p].found)
    /\ call[p].at \in {"reconciling", "saving"} =>
          /\ call[p].op \in Slot => Done(call[p].op)
          /\ call[p].op = Analysis => summary # NoSummary
    /\ call[p].at # "idle" /\ call[p].op = CaptureOf("B") => BMayBe(call[p].stamp)
    /\ KnownSummary(call[p].st.summary)

CallsInv == \A p \in Process : CallInv(p)

\* What is on disk.
DiskInv ==
    /\ \A s \in Slot \ raced : Done(s) => Verified(s)
    /\ KnownSummary(stateFile.summary)
    /\ Done(CaptureOf("B")) => BMayBe(manifest[CaptureOf("B")].at)
    /\ summary # NoSummary => FoundInv(summary.of)
    /\ \A s \in acked \cap Slot : Done(s)
    /\ Analysis \in acked => summary # NoSummary

TypeInv == EvalTypeOK /\ SlotCalls

EvalInv == TypeInv /\ OneWriter /\ DiskInv /\ CallsInv

----------------------------------------------------------------------------
(* Type correctness. *)

LEMMA InitialRecords ==
    NewState \in StateRecord /\ Idle \in CallRecord /\ NoSummary \in SummaryRecord
    /\ NoManifest \in ManifestRecord /\ Nothing \in [Slot -> Bytes \cup {NoBytes}]
BY OpFacts DEF NewState, StateRecord, Idle, CallRecord, NoSummary, Nothing, SummaryRecord,
    NoManifest, ManifestRecord

LEMMA InitType == EvalInit => EvalTypeOK
BY InitialRecords DEF EvalInit, EvalTypeOK

LEMMA ReconcileType ==
    ASSUME EvalTypeOK, NEW st \in StateRecord
    PROVE  /\ Reconcile(st) \in StateRecord
           /\ Reconcile(st).summary = IF summary # NoSummary THEN summary ELSE st.summary
           /\ Reconcile(st).refs = st.refs \cup {s \in Slot : Done(s)}
BY DEF EvalTypeOK, StateRecord, Reconcile

LEMMA CallFields ==
    ASSUME EvalTypeOK, NEW p \in Process
    PROVE  /\ call[p] \in CallRecord
           /\ call[p].op \in Op /\ call[p].stamp \in Nat
           /\ call[p].copied \in Bytes \cup {NoBytes} /\ call[p].signed \in Bytes \cup {NoBytes}
           /\ call[p].st \in StateRecord /\ call[p].st.summary \in SummaryRecord
           /\ call[p].found \in [Slot -> Bytes \cup {NoBytes}]
BY DEF EvalTypeOK, CallRecord, StateRecord

\* Every change of one call by EXCEPT keeps its type.
LEMMA GoType ==
    ASSUME EvalTypeOK, NEW p \in Process,
           NEW at \in {"idle", "admitted", "copying", "describing", "summarizing", "reconciling",
                       "saving"}
    PROVE  Go(p, at) => call' \in [Process -> CallRecord]
BY CallFields DEF Go, EvalTypeOK, CallRecord

LEMMA AbortType ==
    ASSUME EvalTypeOK, NEW p \in Process
    PROVE  Abort(p) => call' \in [Process -> CallRecord]
BY InitialRecords DEF Abort, EvalTypeOK

LEMMA PassType ==
    ASSUME EvalTypeOK, NEW p \in Process, Pass(p)
    PROVE  raced' \subseteq Op /\ raced \subseteq raced'
BY CallFields DEF Pass, EvalTypeOK

LEMMA LookType ==
    ASSUME EvalTypeOK, NEW p \in Process, NEW s \in Slot, Look(p, s)
    PROVE  call' \in [Process -> CallRecord] /\ raced' \subseteq Op /\ raced \subseteq raced'
<1>1. source[s] \in Bytes \cup {NoBytes} /\ artifact[s] \in Bytes \cup {NoBytes}
  BY DEF EvalTypeOK
<1>2. CASE artifact[s] \notin {NoBytes, source[s]}
  BY <1>2, AbortType DEF Look, EvalTypeOK
<1>3. CASE artifact[s] \in {NoBytes, source[s]}
  <2> DEFINE at == IF artifact[s] = NoBytes THEN "copying" ELSE "describing"
             signed == IF s \in Trial THEN source[s] ELSE NoBytes
             c == [call[p] EXCEPT !.at = at, !.signed = signed, !.copied = artifact[s]]
  <2>1. c \in CallRecord
    <3>1. signed \in Bytes \cup {NoBytes}
      BY <1>1
    <3>2. at \in {"copying", "describing"}
      OBVIOUS
    <3> HIDE DEF signed, at
    <3> QED BY <1>1, <3>1, <3>2, CallFields DEF CallRecord
  <2>2. call' = [call EXCEPT ![p] = c] /\ Pass(p)
    BY <1>3 DEF Look
  <2> HIDE DEF c
  <2> QED BY <2>1, <2>2, PassType DEF EvalTypeOK
<1> QED BY <1>2, <1>3

LEMMA BeginType ==
    ASSUME EvalTypeOK, NEW p \in Process, NEW op \in Op, Begin(p, op)
    PROVE  EvalTypeOK'
<1>1. View \in StateRecord
  BY ReconcileType DEF View, EvalTypeOK
<1>2. [Idle EXCEPT !.at = "admitted", !.op = op, !.stamp = now, !.st = View] \in CallRecord
  BY <1>1, InitialRecords DEF CallRecord, EvalTypeOK
<1> QED BY <1>2 DEF Begin, EvalTypeOK

LEMMA WorkType ==
    ASSUME EvalTypeOK, SlotCalls, NEW p \in Process, Work(p)
    PROVE  EvalTypeOK'
<1>1. CASE OpenWindow(p)
  <2>1. call' \in [Process -> CallRecord]
    <3>1. CASE call[p].st.opened
      BY <1>1, <3>1, AbortType DEF OpenWindow
    <3>2. CASE ~call[p].st.opened
      <4>1. [call[p].st EXCEPT !.opened = TRUE] \in StateRecord
        BY CallFields DEF StateRecord
      <4>2. [call[p] EXCEPT !.at = "saving", !.st = [call[p].st EXCEPT !.opened = TRUE]] \in CallRecord
        BY <4>1, CallFields DEF CallRecord
      <4> QED BY <1>1, <3>2, <4>2 DEF OpenWindow, EvalTypeOK, CallRecord
    <3> QED BY <3>1, <3>2
  <2>2. acked' \subseteq Op
    BY <1>1, OpFacts DEF OpenWindow, EvalTypeOK
  <2> QED BY <1>1, <2>1, <2>2 DEF OpenWindow, EvalTypeOK
<1>2. CASE Check(p)
  <2>1. call[p].op \in Slot /\ UNCHANGED <<source, artifact, manifest, summary, stateFile, now, crashes, acked>>
    BY <1>2 DEF Check
  <2>2. call' \in [Process -> CallRecord] /\ raced' \subseteq Op
    BY <1>2, <2>1, GoType, AbortType, LookType DEF Check, EvalTypeOK
  <2> QED BY <2>1, <2>2 DEF EvalTypeOK
<1>3. CASE Copy(p)
  <2>1. source[call[p].op] \in Bytes \cup {NoBytes}
    BY <1>3 DEF Copy, SlotCalls, EvalTypeOK
  <2>2. artifact' \in [Slot -> Bytes \cup {NoBytes}]
    BY <1>3, <2>1 DEF Copy, EvalTypeOK
  <2>3. call' \in [Process -> CallRecord]
    <3>1. [call[p] EXCEPT !.at = "describing", !.copied = source[call[p].op]] \in CallRecord
      BY <2>1, CallFields DEF CallRecord
    <3> QED BY <1>3, <3>1 DEF Copy, EvalTypeOK
  <2> QED BY <1>3, <2>2, <2>3 DEF Copy, EvalTypeOK
<1>4. CASE Describe(p)
  <2>1. manifest' \in [Slot -> ManifestRecord]
    BY <1>4, CallFields DEF Describe, EvalTypeOK, ManifestRecord
  <2>2. call' \in [Process -> CallRecord]
    BY <1>4, GoType DEF Describe
  <2> QED BY <1>4, <2>1, <2>2 DEF Describe, EvalTypeOK
<1>5. CASE Analyze(p)
  <2>1. UNCHANGED <<source, artifact, manifest, summary, stateFile, now, crashes, acked>>
    BY <1>5 DEF Analyze
  <2>2. Frozen \in [Slot -> Bytes \cup {NoBytes}]
    BY DEF Frozen, EvalTypeOK, ManifestRecord
  <2>3. [call[p] EXCEPT !.at = "summarizing", !.found = Frozen] \in CallRecord
    BY <2>2, CallFields DEF CallRecord
  <2>4. call' \in [Process -> CallRecord] /\ raced' \subseteq Op
    BY <1>5, <2>3, GoType, AbortType, PassType DEF Analyze, EvalTypeOK
  <2> QED BY <2>1, <2>4 DEF EvalTypeOK
<1>6. CASE Summarize(p)
  <2>1. summary' \in SummaryRecord
    BY <1>6, CallFields DEF Summarize, SummaryRecord
  <2> QED BY <1>6, <2>1, GoType DEF Summarize, EvalTypeOK
<1>7. CASE Refresh(p)
  <2>1. Reconcile(call[p].st) \in StateRecord
    BY CallFields, ReconcileType
  <2>2. call' \in [Process -> CallRecord]
    BY <1>7, <2>1, CallFields, AbortType DEF Refresh, EvalTypeOK, CallRecord
  <2> QED BY <1>7, <2>2 DEF Refresh, EvalTypeOK
<1>8. CASE Save(p)
  BY <1>8, CallFields, AbortType DEF Save, EvalTypeOK
<1> QED BY <1>1, <1>2, <1>3, <1>4, <1>5, <1>6, <1>7, <1>8 DEF Work

\* How a step changes the call of its process, field by field; the other calls stay.
LEMMA GoEffect ==
    ASSUME EvalTypeOK, NEW p \in Process, NEW at, Go(p, at)
    PROVE  /\ \A q \in Process : q # p => call'[q] = call[q]
           /\ call'[p].at = at /\ call'[p].op = call[p].op /\ call'[p].stamp = call[p].stamp
           /\ call'[p].copied = call[p].copied /\ call'[p].st = call[p].st
           /\ call'[p].found = call[p].found
BY CallFields DEF Go, EvalTypeOK, CallRecord

LEMMA AbortEffect ==
    ASSUME EvalTypeOK, NEW p \in Process, Abort(p)
    PROVE  (\A q \in Process : q # p => call'[q] = call[q]) /\ call'[p] = Idle
BY DEF Abort, EvalTypeOK

LEMMA LookEffect ==
    ASSUME EvalTypeOK, NEW p \in Process, NEW s \in Slot, Look(p, s)
    PROVE  /\ \A q \in Process : q # p => call'[q] = call[q]
           /\ \/ call'[p] = Idle /\ UNCHANGED raced
              \/ /\ artifact[s] \in {NoBytes, source[s]} /\ Pass(p)
                 /\ call'[p].at = IF artifact[s] = NoBytes THEN "copying" ELSE "describing"
                 /\ call'[p].op = call[p].op /\ call'[p].stamp = call[p].stamp
                 /\ call'[p].copied = artifact[s] /\ call'[p].st = call[p].st
BY CallFields, AbortEffect DEF Look, EvalTypeOK, CallRecord

LEMMA BeginEffect ==
    ASSUME EvalTypeOK, NEW p \in Process, NEW op \in Op, Begin(p, op)
    PROVE  /\ \A q \in Process : q # p => call'[q] = call[q]
           /\ call'[p].at = "admitted" /\ call'[p].op = op /\ call'[p].stamp = now
           /\ call'[p].st = View
BY DEF Begin, EvalTypeOK, Idle

LEMMA OpenEffect ==
    ASSUME EvalTypeOK, NEW p \in Process, OpenWindow(p)
    PROVE  /\ \A q \in Process : q # p => call'[q] = call[q]
           /\ \/ call'[p] = Idle
              \/ /\ call'[p].at = "saving" /\ call'[p].op = Window
                 /\ call'[p].st.summary = call[p].st.summary
BY CallFields, AbortEffect DEF OpenWindow, EvalTypeOK, CallRecord, StateRecord

LEMMA CopyEffect ==
    ASSUME EvalTypeOK, NEW p \in Process, Copy(p)
    PROVE  /\ \A q \in Process : q # p => call'[q] = call[q]
           /\ call'[p].at = "describing" /\ call'[p].op = call[p].op
           /\ call'[p].stamp = call[p].stamp
           /\ call'[p].copied = source[call[p].op] /\ call'[p].st = call[p].st
BY CallFields DEF Copy, EvalTypeOK, CallRecord

LEMMA RefreshEffect ==
    ASSUME EvalTypeOK, NEW p \in Process, Refresh(p)
    PROVE  /\ \A q \in Process : q # p => call'[q] = call[q]
           /\ \/ Abort(p) /\ call'[p] = Idle
              \/ /\ call'[p].at = "saving" /\ call'[p].op = call[p].op
                 /\ call'[p].stamp = call[p].stamp
                 /\ call'[p].st = Reconcile(call[p].st)
BY CallFields, AbortEffect DEF Refresh, EvalTypeOK, CallRecord

LEMMA AnalyzeEffect ==
    ASSUME EvalTypeOK, NEW p \in Process, Analyze(p)
    PROVE  /\ \A q \in Process : q # p => call'[q] = call[q]
           /\ \/ Abort(p) /\ call'[p] = Idle /\ UNCHANGED raced
              \/ /\ call'[p].op = Analysis /\ call'[p].st = call[p].st
                 /\ \/ call'[p].at = "reconciling" /\ UNCHANGED raced /\ summary # NoSummary
                    \/ /\ call'[p].at = "summarizing" /\ Pass(p)
                       /\ summary = NoSummary /\ Comparable /\ call'[p].found = Frozen
<1>1. CASE Abort(p) /\ UNCHANGED raced
  BY <1>1, AbortEffect
<1>2. CASE Comparable /\ summary.of = Frozen /\ Go(p, "reconciling") /\ UNCHANGED raced
           /\ summary # NoSummary
  BY <1>2, GoEffect DEF Analyze
<1>3. CASE Comparable /\ summary = NoSummary /\ Pass(p)
           /\ call' = [call EXCEPT ![p].at = "summarizing", ![p].found = Frozen]
  BY <1>3, CallFields DEF Analyze, EvalTypeOK, CallRecord
<1> QED BY <1>1, <1>2, <1>3 DEF Analyze

LEMMA TypeStep == TypeInv /\ [EvalNext]_evalVars => EvalTypeOK'
<1> SUFFICES ASSUME EvalTypeOK, SlotCalls, [EvalNext]_evalVars PROVE EvalTypeOK'
  BY DEF TypeInv
<1>1. ASSUME NEW p \in Process, NEW op \in Op, Begin(p, op) PROVE EvalTypeOK'
  BY <1>1, BeginType
<1>2. ASSUME NEW p \in Process, Work(p) PROVE EvalTypeOK'
  BY <1>2, WorkType
<1>3. ASSUME NEW p \in Process, Kill(p) PROVE EvalTypeOK'
  BY <1>3, AbortType DEF Kill, EvalTypeOK
<1>4. ASSUME NEW s \in Slot, NEW b \in Bytes, Export(s, b) PROVE EvalTypeOK'
  BY <1>4 DEF Export, EvalTypeOK
<1>5. CASE Tick
  BY <1>5 DEF Tick, EvalTypeOK
<1>6. CASE UNCHANGED evalVars
  BY <1>6 DEF evalVars, EvalTypeOK
<1> QED BY <1>1, <1>2, <1>3, <1>4, <1>5, <1>6 DEF EvalNext

LEMMA SlotCallsStep == TypeInv /\ [EvalNext]_evalVars => SlotCalls'
<1> SUFFICES ASSUME EvalTypeOK, SlotCalls, [EvalNext]_evalVars PROVE SlotCalls'
  BY DEF TypeInv
<1> DEFINE Others(p) == \A q \in Process : q # p => call'[q] = call[q]
           Fits(p)   == /\ call'[p].at \in {"copying", "describing"} => call'[p].op \in Slot
                        /\ call'[p].at = "summarizing" => call'[p].op = Analysis
<1>1. ASSUME NEW p \in Process, Others(p), Fits(p) PROVE SlotCalls'
  BY <1>1 DEF SlotCalls
<1>2. Idle.at = "idle"
  BY DEF Idle
<1>3. ASSUME NEW p \in Process, NEW op \in Op, Begin(p, op) PROVE SlotCalls'
  BY <1>1, <1>3, BeginEffect
<1>4. ASSUME NEW p \in Process, Work(p) PROVE SlotCalls'
  <2>1. CASE OpenWindow(p)
    BY <1>1, <1>2, <2>1, OpenEffect
  <2>2. CASE Check(p)
    BY <1>1, <1>2, <2>2, GoEffect, AbortEffect, LookEffect DEF Check
  <2>3. CASE Copy(p)
    BY <1>1, <2>3, CopyEffect DEF Copy, SlotCalls
  <2>4. CASE Describe(p)
    <3>1. Go(p, "reconciling")
      BY <2>4 DEF Describe
    <3> QED BY <1>1, <3>1, GoEffect
  <2>5. CASE Analyze(p)
    BY <1>1, <1>2, <2>5, AnalyzeEffect
  <2>6. CASE Summarize(p)
    <3>1. Go(p, "reconciling")
      BY <2>6 DEF Summarize
    <3> QED BY <1>1, <3>1, GoEffect
  <2>7. CASE Refresh(p)
    BY <1>1, <1>2, <2>7, RefreshEffect
  <2>8. CASE Save(p)
    BY <1>1, <1>2, <2>8, AbortEffect DEF Save
  <2> QED BY <1>4, <2>1, <2>2, <2>3, <2>4, <2>5, <2>6, <2>7, <2>8 DEF Work
<1>5. ASSUME NEW p \in Process, Kill(p) PROVE SlotCalls'
  BY <1>1, <1>2, <1>5, AbortEffect DEF Kill
<1>6. CASE UNCHANGED call
  BY <1>6 DEF SlotCalls
<1> QED BY <1>3, <1>4, <1>5, <1>6 DEF EvalNext, evalVars, Export, Tick

LEMMA InitTypeInv == EvalInit => TypeInv
BY InitType DEF TypeInv, EvalInit, SlotCalls, Idle

\* Every variable keeps its type, for any number of processes and seeds.
THEOREM TypeCorrect == EvalSpec => []EvalTypeOK
<1>1. TypeInv /\ [EvalNext]_evalVars => TypeInv'
  BY TypeStep, SlotCallsStep DEF TypeInv
<1>2. TypeInv => EvalTypeOK
  BY DEF TypeInv
<1> QED BY InitTypeInv, <1>1, <1>2, PTL DEF EvalSpec

----------------------------------------------------------------------------
(* The step of the invariant. *)

\* A step that spoils nothing a call knows leaves the call of another process right.
LEMMA OthersKeep ==
    ASSUME EvalInv, NEW q \in Process, call'[q] = call[q], raced \subseteq raced',
           \A s \in Slot : Done(s) => Done(s)',
           \A s \in Slot \ raced' : Done(s) => manifest'[s] = manifest[s],
           \A s \in Slot : source[s] # NoBytes => source'[s] # NoBytes,
           call[q].at \in {"copying", "describing"} =>
               \/ call[q].op \in raced'
               \/ /\ artifact'[call[q].op] = artifact[call[q].op]
                  /\ manifest'[call[q].op] = manifest[call[q].op],
           summary # NoSummary => summary' # NoSummary,
           \/ summary' = summary
           \/ Analysis \in raced'
           \/ summary = NoSummary /\ call[q].at # "summarizing"
    PROVE  CallInv(q)'
<1>1. CallInv(q)
  BY DEF EvalInv, CallsInv
<1>2. (call[q].at = "admitted" /\ call[q].op \in Slot => source[call[q].op] # NoBytes)'
  BY <1>1 DEF CallInv
<1>3. call[q].at \in {"copying", "describing"} => call[q].op \in Slot
  BY DEF EvalInv, TypeInv, SlotCalls
<1>4. (call[q].at = "copying" => source[call[q].op] # NoBytes)'
  BY <1>1, <1>3 DEF CallInv
<1>5. (call[q].at \in {"copying", "describing"} => call[q].op \in raced \/ ~Done(call[q].op))'
  BY <1>1 DEF CallInv, Done
<1>6. (call[q].at = "describing" =>
          /\ call[q].copied # NoBytes
          /\ call[q].op \in raced \/ artifact[call[q].op] = call[q].copied)'
  BY <1>1 DEF CallInv
<1>7. (call[q].at = "summarizing" =>
          /\ Analysis \in raced \/ summary = NoSummary
          /\ FoundInv(call[q].found))'
  <2> SUFFICES ASSUME call[q].at = "summarizing"
               PROVE  /\ Analysis \in raced' \/ summary' = NoSummary
                      /\ FoundInv(call[q].found)'
    BY DEF NoSummary, Nothing
  <2>1. Analysis \in raced \/ summary = NoSummary
    BY <1>1 DEF CallInv
  <2>2. FoundInv(call[q].found)
    BY <1>1 DEF CallInv
  <2>3. \A s \in Slot \ raced' : manifest'[s].bytes = manifest[s].bytes
    BY <2>2 DEF FoundInv, Done
  <2> QED BY <2>1, <2>2, <2>3 DEF FoundInv
<1>8. (call[q].at \in {"reconciling", "saving"} =>
          /\ call[q].op \in Slot => Done(call[q].op)
          /\ call[q].op = Analysis => summary # NoSummary)'
  BY <1>1 DEF CallInv, NoSummary, Nothing
<1>9. (call[q].at # "idle" /\ call[q].op = CaptureOf("B") => BMayBe(call[q].stamp))'
  BY <1>1, OpFacts DEF CallInv, BMayBe, Elapsed
<1>10. KnownSummary(call[q].st.summary)'
  BY <1>1 DEF CallInv, KnownSummary, NoSummary, Nothing
<1> QED BY <1>2, <1>4, <1>5, <1>6, <1>7, <1>8, <1>9, <1>10 DEF CallInv

\* A step that leaves the frozen files alone keeps what is on disk right.
LEMMA DiskKeeps ==
    ASSUME EvalInv, UNCHANGED <<artifact, manifest, summary>>, raced \subseteq raced',
           KnownSummary(stateFile'.summary),
           \A s \in acked' \cap Slot : Done(s),
           Analysis \in acked' => summary # NoSummary
    PROVE  DiskInv'
<1>1. DiskInv
  BY DEF EvalInv
<1>2. \A s \in Slot : Done(s)' = Done(s) /\ Verified(s)' = Verified(s)
  BY DEF Done, Verified
<1>3. KnownSummary(stateFile.summary)'
  BY DEF KnownSummary, NoSummary, Nothing
<1>4. summary # NoSummary => FoundInv(summary.of)'
  BY <1>1 DEF DiskInv, FoundInv
<1>5. (Done(CaptureOf("B")) => BMayBe(manifest[CaptureOf("B")].at))'
  BY <1>1, <1>2, OpFacts DEF DiskInv, BMayBe, Elapsed
<1> QED BY <1>1, <1>2, <1>3, <1>4, <1>5 DEF DiskInv, NoSummary, Nothing

\* A call that does not begin to write keeps the writers apart.
LEMMA WriterKeeps ==
    ASSUME EvalInv, NEW p \in Process, raced \subseteq raced',
           \A q \in Process : q # p => call'[q] = call[q],
           \/ call'[p].at \notin Writing
           \/ call'[p].op = call[p].op /\ call[p].at \in Writing
    PROVE  OneWriter'
BY DEF EvalInv, OneWriter, Writing

\* A call that begins to write does, too.
LEMMA WriterPasses ==
    ASSUME EvalInv, NEW p \in Process, Pass(p), call'[p].op = call[p].op,
           \A q \in Process : q # p => call'[q] = call[q]
    PROVE  OneWriter'
<1>1. raced \subseteq raced'
  BY DEF Pass
<1>2. ASSUME NEW q \in Process, q # p, call[q].at \in Writing, call[q].op = call[p].op
      PROVE  call[p].op \in raced'
  BY <1>2 DEF Pass
<1>3. \A q, r \in Process :
          q # r /\ call[q].at \in Writing /\ call[r].at \in Writing /\ call[q].op = call[r].op =>
              call[q].op \in raced
  BY DEF EvalInv, OneWriter
<1> QED BY <1>1, <1>2, <1>3 DEF OneWriter, Writing

LEMMA IdleFacts == Idle.at = "idle" /\ Idle.op = Window /\ Idle.st.summary = NoSummary
BY DEF Idle, NewState

\* A call that ends is right.
LEMMA IdleIsRight ==
    ASSUME EvalInv, NEW p \in Process, call'[p] = Idle
    PROVE  CallInv(p)'
<1>1. call'[p].at = "idle" /\ call'[p].op = Window /\ call'[p].st.summary = NoSummary
  BY IdleFacts
<1> QED BY <1>1, OpFacts DEF CallInv, KnownSummary, NoSummary, Nothing

\* A step of one call that touches neither the inputs nor the frozen files.
LEMMA QuietStep ==
    ASSUME EvalInv, NEW p \in Process, CallInv(p)', raced \subseteq raced',
           \A q \in Process : q # p => call'[q] = call[q],
           UNCHANGED <<source, artifact, manifest, summary>>
    PROVE  CallsInv'
<1>1. \A s \in Slot : Done(s) => Done(s)'
  BY DEF Done
<1>2. ASSUME NEW q \in Process, q # p PROVE CallInv(q)'
  BY <1>1, <1>2, OthersKeep
<1> QED BY <1>2 DEF CallsInv

LEMMA BeginStep ==
    ASSUME EvalInv, NEW p \in Process, NEW op \in Op, Begin(p, op)
    PROVE  OneWriter' /\ DiskInv' /\ CallsInv'
<1> USE DEF EvalInv, TypeInv
<1>1. UNCHANGED <<source, artifact, manifest, summary, stateFile, acked, now, raced>>
  BY DEF Begin
<1>2. /\ call'[p].at = "admitted" /\ call'[p].op = op /\ call'[p].stamp = now
      /\ call'[p].st = View
      /\ \A q \in Process : q # p => call'[q] = call[q]
  BY BeginEffect
<1>3. OneWriter'
  BY <1>1, <1>2, WriterKeeps DEF Writing
<1>4. DiskInv'
  BY <1>1, DiskKeeps DEF DiskInv
<1>5. CallInv(p)'
  <2>1. KnownSummary(View.summary)
    <3>1. stateFile \in StateRecord
      BY DEF EvalTypeOK
    <3>2. View.summary \in {stateFile.summary, summary}
      BY <3>1, ReconcileType DEF View
    <3> QED BY <3>2 DEF DiskInv, KnownSummary
  <2>2. KnownSummary(call[p].st.summary)'
    BY <1>1, <1>2, <2>1 DEF KnownSummary, NoSummary, Nothing
  <2>3. op = CaptureOf("B") => Elapsed(now)
    BY DEF Begin, Admitted
  <2>4. (call[p].op = CaptureOf("B") => BMayBe(call[p].stamp))'
    BY <1>1, <1>2, <2>3 DEF BMayBe, Elapsed, Done
  <2>5. op \in Slot => source[op] # NoBytes
    BY DEF Begin
  <2> QED BY <1>1, <1>2, <2>2, <2>4, <2>5 DEF CallInv
<1>6. CallsInv'
  BY <1>1, <1>2, <1>5, QuietStep
<1> QED BY <1>3, <1>4, <1>6

LEMMA EndStep ==
    ASSUME EvalInv, NEW p \in Process, Abort(p),
           UNCHANGED <<source, artifact, manifest, summary, raced>>,
           KnownSummary(stateFile'.summary),
           \A s \in acked' \cap Slot : Done(s),
           Analysis \in acked' => summary # NoSummary
    PROVE  OneWriter' /\ DiskInv' /\ CallsInv'
<1>1. (\A q \in Process : q # p => call'[q] = call[q]) /\ call'[p] = Idle
  BY AbortEffect DEF EvalInv, TypeInv
<1>2. OneWriter'
  BY <1>1, IdleFacts, WriterKeeps DEF Writing
<1>3. DiskInv'
  BY DiskKeeps
<1>4. CallsInv'
  BY <1>1, IdleIsRight, QuietStep
<1> QED BY <1>2, <1>3, <1>4

\* The conditions of the lemma above hold of a call that ends without a trace.
LEMMA LeaveStep ==
    ASSUME EvalInv, NEW p \in Process, Abort(p),
           UNCHANGED <<source, artifact, manifest, summary, stateFile, acked, raced>>
    PROVE  OneWriter' /\ DiskInv' /\ CallsInv'
BY EndStep DEF EvalInv, DiskInv

\* A call goes on without having written anything.
LEMMA MoveStep ==
    ASSUME EvalInv, NEW p \in Process, OneWriter', CallInv(p)', raced \subseteq raced',
           \A q \in Process : q # p => call'[q] = call[q],
           UNCHANGED <<source, artifact, manifest, summary, stateFile, acked>>
    PROVE  OneWriter' /\ DiskInv' /\ CallsInv'
<1>1. DiskInv'
  BY DiskKeeps DEF EvalInv, DiskInv
<1>2. CallsInv'
  BY QuietStep
<1> QED BY <1>1, <1>2

LEMMA OpenWindowStep ==
    ASSUME EvalInv, NEW p \in Process, OpenWindow(p)
    PROVE  OneWriter' /\ DiskInv' /\ CallsInv'
<1> USE DEF EvalInv, TypeInv
<1>1. UNCHANGED <<source, artifact, manifest, summary, stateFile, raced>>
  BY DEF OpenWindow
<1>2. CASE call[p].st.opened
  <2>1. Abort(p) /\ acked' = acked \cup {Window}
    BY <1>2 DEF OpenWindow
  <2>2. /\ \A s \in acked' \cap Slot : Done(s)
        /\ Analysis \in acked' => summary # NoSummary
    BY <2>1, OpFacts DEF DiskInv
  <2>3. KnownSummary(stateFile'.summary)
    BY <1>1 DEF DiskInv
  <2> QED BY <1>1, <2>1, <2>2, <2>3, EndStep
<1>3. CASE ~call[p].st.opened
  <2>1. acked' = acked /\ call[p].at = "admitted" /\ call[p].op = Window
    BY <1>3 DEF OpenWindow
  <2>2. /\ call'[p].at = "saving" /\ call'[p].op = Window
        /\ call'[p].st.summary = call[p].st.summary
        /\ \A q \in Process : q # p => call'[q] = call[q]
    BY <1>3, CallFields DEF OpenWindow, EvalTypeOK, CallRecord, StateRecord
  <2>3. KnownSummary(call[p].st.summary)'
    BY <1>1, <2>2 DEF CallsInv, CallInv, KnownSummary, NoSummary, Nothing
  <2>4. CallInv(p)'
    BY <2>2, <2>3, OpFacts DEF CallInv
  <2>5. OneWriter'
    BY <1>1, <2>2, WriterKeeps DEF Writing
  <2> QED BY <1>1, <2>1, <2>2, <2>4, <2>5, MoveStep
<1> QED BY <1>2, <1>3

LEMMA CheckStep ==
    ASSUME EvalInv, NEW p \in Process, Check(p)
    PROVE  OneWriter' /\ DiskInv' /\ CallsInv'
<1> USE DEF EvalInv, TypeInv
<1> DEFINE s == call[p].op
<1>1. /\ UNCHANGED <<source, artifact, manifest, summary, stateFile, acked>>
      /\ call[p].at = "admitted" /\ s \in Slot
  BY DEF Check
<1>2. CallInv(p)
  BY DEF CallsInv
<1>3. s = CaptureOf("B") => BMayBe(call[p].stamp)
  BY <1>1, <1>2 DEF CallInv
<1>4. CASE Abort(p) /\ UNCHANGED raced
  BY <1>1, <1>4, LeaveStep
<1>5. CASE Done(s) /\ Go(p, "reconciling") /\ UNCHANGED raced
  <2>1. /\ call'[p].at = "reconciling" /\ call'[p].op = s /\ call'[p].stamp = call[p].stamp
        /\ call'[p].st = call[p].st
        /\ \A q \in Process : q # p => call'[q] = call[q]
    BY <1>5, GoEffect
  <2>2. Done(call[p].op)'
    BY <1>1, <1>5, <2>1 DEF Done
  <2>3. (call[p].op = CaptureOf("B") => BMayBe(call[p].stamp))'
    BY <1>1, <1>3, <1>5, <2>1 DEF BMayBe, Elapsed, Done
  <2>4. KnownSummary(call[p].st.summary)'
    BY <1>1, <1>2, <1>5, <2>1 DEF CallInv, KnownSummary, NoSummary, Nothing
  <2>5. CallInv(p)'
    BY <1>1, <2>1, <2>2, <2>3, <2>4, OpFacts DEF CallInv
  <2>6. OneWriter'
    BY <1>5, <2>1, WriterKeeps DEF Writing
  <2> QED BY <1>1, <1>5, <2>1, <2>5, <2>6, MoveStep
<1>6. CASE ~Done(s) /\ Look(p, s) /\ call'[p] # Idle
  <2>1. /\ artifact[s] \in {NoBytes, source[s]} /\ Pass(p)
        /\ call'[p].at = IF artifact[s] = NoBytes THEN "copying" ELSE "describing"
        /\ call'[p].op = s /\ call'[p].stamp = call[p].stamp
        /\ call'[p].copied = artifact[s] /\ call'[p].st = call[p].st
        /\ \A q \in Process : q # p => call'[q] = call[q]
    BY <1>1, <1>6, LookEffect
  <2>2. raced \subseteq raced'
    BY <2>1, PassType
  <2>3. ~Done(call[p].op)'
    BY <1>1, <1>6, <2>1 DEF Done
  <2>4. source[s] # NoBytes
    BY <1>1, <1>2 DEF CallInv
  <2>5. (call[p].op = CaptureOf("B") => BMayBe(call[p].stamp))'
    BY <1>1, <1>3, <2>1, <2>2 DEF BMayBe, Elapsed, Done
  <2>6. KnownSummary(call[p].st.summary)'
    BY <1>1, <1>2, <2>1, <2>2 DEF CallInv, KnownSummary, NoSummary, Nothing
  <2>7. CallInv(p)'
    BY <1>1, <2>1, <2>3, <2>4, <2>5, <2>6 DEF CallInv
  <2>8. OneWriter'
    BY <2>1, WriterPasses
  <2> QED BY <1>1, <2>1, <2>2, <2>7, <2>8, MoveStep
<1>7. CASE ~Done(s) /\ Look(p, s) /\ call'[p] = Idle
  <2>1. (\A q \in Process : q # p => call'[q] = call[q]) /\ raced \subseteq raced'
    BY <1>1, <1>7, LookEffect, LookType
  <2>2. CallInv(p)'
    BY <1>7, IdleIsRight
  <2>3. OneWriter'
    BY <1>7, <2>1, IdleFacts, WriterKeeps DEF Writing
  <2> QED BY <1>1, <2>1, <2>2, <2>3, MoveStep
<1> QED BY <1>4, <1>5, <1>6, <1>7 DEF Check

LEMMA CopyStep ==
    ASSUME EvalInv, NEW p \in Process, Copy(p)
    PROVE  OneWriter' /\ DiskInv' /\ CallsInv'
<1> USE DEF EvalInv, TypeInv
<1> DEFINE s == call[p].op
<1>1. /\ UNCHANGED <<source, manifest, summary, stateFile, acked, raced>>
      /\ call[p].at = "copying" /\ s \in Slot
      /\ artifact' = [artifact EXCEPT ![s] = source[s]]
  BY DEF Copy, SlotCalls
<1>2. CallInv(p) /\ source[s] # NoBytes /\ (s \in raced \/ ~Done(s))
  BY <1>1 DEF CallsInv, CallInv
<1>3. /\ \A q \in Process : q # p => call'[q] = call[q]
      /\ call'[p].at = "describing" /\ call'[p].op = s /\ call'[p].stamp = call[p].stamp
      /\ call'[p].copied = source[s] /\ call'[p].st = call[p].st
  BY CopyEffect
<1>4. artifact'[s] = source[s] /\ \A t \in Slot : t # s => artifact'[t] = artifact[t]
  BY <1>1 DEF EvalTypeOK
<1>5. OneWriter'
  BY <1>1, <1>3, WriterKeeps DEF Writing
<1>6. \A t \in Slot : Done(t)' = Done(t)
  BY <1>1 DEF Done
<1>7. DiskInv'
  <2>1. (\A t \in Slot \ raced : Done(t) => Verified(t))'
    BY <1>1, <1>2, <1>4, <1>6 DEF DiskInv, Verified
  <2>2. KnownSummary(stateFile.summary)'
    BY <1>1 DEF DiskInv, KnownSummary, NoSummary, Nothing
  <2>3. (Done(CaptureOf("B")) => BMayBe(manifest[CaptureOf("B")].at))'
    BY <1>1, <1>6, OpFacts DEF DiskInv, BMayBe, Elapsed
  <2>4. (summary # NoSummary => FoundInv(summary.of))'
    BY <1>1 DEF DiskInv, FoundInv, NoSummary, Nothing
  <2> QED BY <1>1, <1>6, <2>1, <2>2, <2>3, <2>4 DEF DiskInv, NoSummary, Nothing
<1>8. CallInv(p)'
  <2>1. (call[p].op = CaptureOf("B") => BMayBe(call[p].stamp))'
    BY <1>1, <1>2, <1>3, <1>6, OpFacts DEF CallInv, BMayBe, Elapsed
  <2>2. KnownSummary(call[p].st.summary)'
    BY <1>1, <1>2, <1>3 DEF CallInv, KnownSummary, NoSummary, Nothing
  <2>3. call'[p].op \in raced' \/ ~Done(call[p].op)'
    BY <1>1, <1>2, <1>3 DEF Done
  <2> QED BY <1>2, <1>3, <1>4, <2>1, <2>2, <2>3 DEF CallInv
<1>9. ASSUME NEW q \in Process, q # p PROVE CallInv(q)'
  <2>1. call[q].at \in {"copying", "describing"} => call[q].op \in raced \/ call[q].op # s
    BY <1>1, <1>9 DEF OneWriter, Writing
  <2>2. call[q].at \in {"copying", "describing"} =>
            \/ call[q].op \in raced'
            \/ /\ artifact'[call[q].op] = artifact[call[q].op]
               /\ manifest'[call[q].op] = manifest[call[q].op]
    BY <1>1, <1>4, <2>1 DEF SlotCalls
  <2> QED BY <1>1, <1>3, <1>6, <1>9, <2>2, OthersKeep
<1> QED BY <1>5, <1>7, <1>8, <1>9 DEF CallsInv

LEMMA DescribeStep ==
    ASSUME EvalInv, NEW p \in Process, Describe(p)
    PROVE  /\ OneWriter' /\ DiskInv' /\ CallsInv'
           /\ \A s \in Slot \ raced : Done(s) => manifest'[s] = manifest[s]
<1> USE DEF EvalInv, TypeInv
<1> DEFINE s == call[p].op
<1>1. /\ UNCHANGED <<source, artifact, summary, stateFile, acked, raced>>
      /\ call[p].at = "describing" /\ s \in Slot
      /\ manifest' = [manifest EXCEPT ![s] =
             [bytes |-> call[p].copied, signed |-> call[p].signed,
              at |-> IF s \in Capture THEN call[p].stamp ELSE Never]]
      /\ Go(p, "reconciling")
  BY DEF Describe, SlotCalls
<1>2. /\ s \in raced \/ ~Done(s)
      /\ call[p].copied # NoBytes /\ (s \in raced \/ artifact[s] = call[p].copied)
      /\ CallInv(p)
  BY <1>1 DEF CallsInv, CallInv
<1>3. /\ \A q \in Process : q # p => call'[q] = call[q]
      /\ call'[p].at = "reconciling" /\ call'[p].op = s /\ call'[p].stamp = call[p].stamp
      /\ call'[p].st = call[p].st
  BY <1>1, GoEffect
<1>4. /\ manifest'[s].bytes = call[p].copied
      /\ s \in Capture => manifest'[s].at = call[p].stamp
      /\ \A t \in Slot : t # s => manifest'[t] = manifest[t]
  BY <1>1 DEF EvalTypeOK
<1>5. \A t \in Slot \ raced : Done(t) => manifest'[t] = manifest[t]
  BY <1>2, <1>4
<1>6. manifest'[s].bytes # NoBytes /\ \A t \in Slot : (Done(t) => Done(t)') /\ (t # s => Done(t)' = Done(t))
  BY <1>2, <1>4 DEF Done
<1>7. OneWriter'
  BY <1>1, <1>3, WriterKeeps DEF Writing
<1>8. ASSUME NEW t, BMayBe(t) PROVE BMayBe(t)'
  BY <1>1, <1>5, <1>6, <1>8, OpFacts DEF BMayBe, Elapsed
<1>9. ASSUME NEW f, FoundInv(f) PROVE FoundInv(f)'
  <2>1. \A t \in Slot \ raced : manifest'[t].bytes = manifest[t].bytes
    BY <1>5, <1>9 DEF FoundInv, Done
  <2> QED BY <1>1, <1>9, <2>1 DEF FoundInv
<1>10. DiskInv'
  <2>1. (\A t \in Slot \ raced : Done(t) => Verified(t))'
    <3> SUFFICES ASSUME NEW t \in Slot, t \notin raced, Done(t)'
                 PROVE  Verified(t)'
      BY <1>1
    <3>1. CASE t = s
      BY <1>1, <1>2, <1>4, <3>1 DEF Verified
    <3>2. CASE t # s
      BY <1>1, <1>4, <1>6, <3>2 DEF DiskInv, Verified
    <3> QED BY <3>1, <3>2
  <2>2. KnownSummary(stateFile.summary)'
    BY <1>1 DEF DiskInv, KnownSummary, NoSummary, Nothing
  <2>3. (Done(CaptureOf("B")) => BMayBe(manifest[CaptureOf("B")].at))'
    <3> SUFFICES ASSUME Done(CaptureOf("B"))'
                 PROVE  BMayBe(manifest[CaptureOf("B")].at)'
      OBVIOUS
    <3>1. \E t : t = manifest'[CaptureOf("B")].at /\ BMayBe(t)
      <4>1. CASE s = CaptureOf("B")
        BY <1>1, <1>2, <1>4, <4>1, OpFacts DEF CallInv
      <4>2. CASE s # CaptureOf("B")
        BY <1>4, <1>6, <4>2, OpFacts DEF DiskInv
      <4> QED BY <4>1, <4>2
    <3>2. PICK t : t = manifest'[CaptureOf("B")].at /\ BMayBe(t)
      BY <3>1
    <3>3. BMayBe(t)'
      BY <1>8, <3>2
    <3> QED BY <3>2, <3>3 DEF BMayBe, Elapsed
  <2>4. (summary # NoSummary => FoundInv(summary.of))'
    BY <1>1, <1>9 DEF DiskInv, FoundInv, NoSummary, Nothing
  <2>5. (\A t \in acked \cap Slot : Done(t))'
    BY <1>1, <1>6 DEF DiskInv
  <2>6. (Analysis \in acked => summary # NoSummary)'
    BY <1>1 DEF DiskInv, NoSummary, Nothing
  <2> QED BY <2>1, <2>2, <2>3, <2>4, <2>5, <2>6 DEF DiskInv
<1>11. CallInv(p)'
  <2>1. (call[p].op = CaptureOf("B") => BMayBe(call[p].stamp))'
    BY <1>1, <1>2, <1>3, <1>5, <1>6, OpFacts DEF CallInv, BMayBe, Elapsed
  <2>2. KnownSummary(call[p].st.summary)'
    BY <1>1, <1>2, <1>3 DEF CallInv, KnownSummary, NoSummary, Nothing
  <2>3. Done(call[p].op)'
    BY <1>3, <1>6 DEF Done
  <2> QED BY <1>1, <1>3, <2>1, <2>2, <2>3, OpFacts DEF CallInv
<1>12. ASSUME NEW q \in Process, q # p PROVE CallInv(q)'
  <2>1. call[q].at \in {"copying", "describing"} => call[q].op \in raced \/ call[q].op # s
    BY <1>1, <1>12 DEF OneWriter, Writing
  <2>2. call[q].at \in {"copying", "describing"} =>
            \/ call[q].op \in raced'
            \/ /\ artifact'[call[q].op] = artifact[call[q].op]
               /\ manifest'[call[q].op] = manifest[call[q].op]
    BY <1>1, <1>4, <2>1 DEF SlotCalls
  <2> QED BY <1>1, <1>3, <1>5, <1>6, <1>12, <2>2, OthersKeep
<1> QED BY <1>5, <1>7, <1>10, <1>11, <1>12 DEF CallsInv

LEMMA AnalyzeStep ==
    ASSUME EvalInv, NEW p \in Process, Analyze(p)
    PROVE  OneWriter' /\ DiskInv' /\ CallsInv'
<1> USE DEF EvalInv, TypeInv
<1>1. /\ UNCHANGED <<source, artifact, manifest, summary, stateFile, acked>>
      /\ call[p].at = "admitted" /\ call[p].op = Analysis
  BY DEF Analyze
<1>2. CASE Abort(p) /\ UNCHANGED raced
  BY <1>1, <1>2, LeaveStep
<1>3. CASE ~(Abort(p) /\ UNCHANGED raced)
  <2>1. /\ \A q \in Process : q # p => call'[q] = call[q]
        /\ call'[p].op = Analysis /\ call'[p].st = call[p].st
        /\ \/ call'[p].at = "reconciling" /\ UNCHANGED raced /\ summary # NoSummary
           \/ /\ call'[p].at = "summarizing" /\ Pass(p)
              /\ summary = NoSummary /\ Comparable /\ call'[p].found = Frozen
    BY <1>3, AnalyzeEffect
  <2>2. raced \subseteq raced'
    BY <2>1, PassType
  <2>3. KnownSummary(call[p].st.summary)'
    BY <1>1, <2>1, <2>2 DEF CallsInv, CallInv, KnownSummary, NoSummary, Nothing
  <2>4. call'[p].at = "summarizing" => FoundInv(call[p].found)'
    <3> SUFFICES ASSUME call'[p].at = "summarizing" PROVE FoundInv(call[p].found)'
      OBVIOUS
    <3>1. Comparable /\ call'[p].found = Frozen
      BY <2>1
    <3>2. \A s \in Slot : call'[p].found[s] = manifest[s].bytes
      BY <3>1 DEF Frozen
    <3> QED BY <1>1, <3>1, <3>2, OpFacts DEF FoundInv, Comparable, Done
  <2>5. CallInv(p)'
    BY <1>1, <2>1, <2>3, <2>4, OpFacts DEF CallInv, NoSummary, Nothing
  <2>6. OneWriter'
    <3>1. CASE call'[p].at = "reconciling"
      BY <2>1, <2>2, <3>1, WriterKeeps DEF Writing
    <3>2. CASE Pass(p)
      BY <1>1, <2>1, <3>2, WriterPasses
    <3> QED BY <2>1, <3>1, <3>2
  <2> QED BY <1>1, <2>1, <2>2, <2>5, <2>6, MoveStep
<1> QED BY <1>2, <1>3

LEMMA SummarizeStep ==
    ASSUME EvalInv, NEW p \in Process, Summarize(p)
    PROVE  /\ OneWriter' /\ DiskInv' /\ CallsInv'
           /\ Analysis \in raced \/ summary = NoSummary
<1> USE DEF EvalInv, TypeInv
<1>1. /\ UNCHANGED <<source, artifact, manifest, stateFile, acked, raced>>
      /\ call[p].at = "summarizing" /\ call[p].op = Analysis
      /\ summary' = [at |-> call[p].stamp, of |-> call[p].found]
      /\ Go(p, "reconciling")
  BY DEF Summarize, SlotCalls
<1>2. CallInv(p) /\ FoundInv(call[p].found) /\ (Analysis \in raced \/ summary = NoSummary)
  BY <1>1 DEF CallsInv, CallInv
<1>3. /\ \A q \in Process : q # p => call'[q] = call[q]
      /\ call'[p].at = "reconciling" /\ call'[p].op = Analysis
      /\ call'[p].st = call[p].st
  BY <1>1, GoEffect
<1>4. summary' # NoSummary
  <2>1. summary'.at \in Nat /\ NoSummary.at = Never
    BY <1>1, CallFields DEF NoSummary
  <2> QED BY <2>1, RegistryAssumption
<1>5. OneWriter'
  BY <1>1, <1>3, WriterKeeps DEF Writing
<1>6. \A t \in Slot : Done(t)' = Done(t)
  BY <1>1 DEF Done
<1>7. DiskInv'
  <2>1. (\A t \in Slot \ raced : Done(t) => Verified(t))'
    BY <1>1, <1>6 DEF DiskInv, Verified
  <2>2. KnownSummary(stateFile.summary)'
    BY <1>1, <1>2 DEF DiskInv, KnownSummary, NoSummary, Nothing
  <2>3. (Done(CaptureOf("B")) => BMayBe(manifest[CaptureOf("B")].at))'
    BY <1>1, <1>6, OpFacts DEF DiskInv, BMayBe, Elapsed
  <2>4. FoundInv(summary.of)'
    BY <1>1, <1>2 DEF FoundInv
  <2> QED BY <1>1, <1>4, <1>6, <2>1, <2>2, <2>3, <2>4 DEF DiskInv, NoSummary, Nothing
<1>8. CallInv(p)'
  <2>1. KnownSummary(call[p].st.summary)'
    BY <1>1, <1>2, <1>3 DEF CallInv, KnownSummary, NoSummary, Nothing
  <2> QED BY <1>3, <1>4, <2>1, OpFacts DEF CallInv, NoSummary, Nothing
<1>9. ASSUME NEW q \in Process, q # p PROVE CallInv(q)'
  <2>1. call[q].at = "summarizing" => Analysis \in raced
    BY <1>1, <1>9 DEF OneWriter, Writing, SlotCalls
  <2> QED BY <1>1, <1>2, <1>3, <1>4, <1>6, <1>9, <2>1, OthersKeep
<1> QED BY <1>2, <1>5, <1>7, <1>8, <1>9 DEF CallsInv

LEMMA RefreshStep ==
    ASSUME EvalInv, NEW p \in Process, Refresh(p)
    PROVE  OneWriter' /\ DiskInv' /\ CallsInv'
<1> USE DEF EvalInv, TypeInv
<1>1. /\ UNCHANGED <<source, artifact, manifest, summary, stateFile, acked, raced>>
      /\ call[p].at = "reconciling"
  BY DEF Refresh
<1>2. CallInv(p)
  BY DEF CallsInv
<1>3. CASE Abort(p)
  BY <1>1, <1>3, LeaveStep
<1>4. CASE ~Abort(p)
  <2>1. /\ \A q \in Process : q # p => call'[q] = call[q]
        /\ call'[p].at = "saving" /\ call'[p].op = call[p].op
        /\ call'[p].stamp = call[p].stamp
        /\ call'[p].st = Reconcile(call[p].st)
    BY <1>4, RefreshEffect
  <2>2. Reconcile(call[p].st).summary \in {call[p].st.summary, summary}
    BY CallFields, ReconcileType
  <2>3. KnownSummary(call[p].st.summary)'
    BY <1>1, <1>2, <2>1, <2>2 DEF CallInv, KnownSummary, NoSummary, Nothing
  <2>4. (call[p].op = CaptureOf("B") => BMayBe(call[p].stamp))'
    BY <1>1, <1>2, <2>1 DEF CallInv, BMayBe, Elapsed, Done
  <2>5. (call[p].op \in Slot => Done(call[p].op))'
    BY <1>1, <1>2, <2>1 DEF CallInv, Done
  <2>6. CallInv(p)'
    BY <1>1, <1>2, <2>1, <2>3, <2>4, <2>5 DEF CallInv, NoSummary, Nothing
  <2>7. OneWriter'
    BY <1>1, <2>1, WriterKeeps DEF Writing
  <2> QED BY <1>1, <2>1, <2>6, <2>7, MoveStep
<1> QED BY <1>3, <1>4

LEMMA SaveStep ==
    ASSUME EvalInv, NEW p \in Process, Save(p)
    PROVE  OneWriter' /\ DiskInv' /\ CallsInv'
<1> USE DEF EvalInv, TypeInv
<1>1. /\ UNCHANGED <<source, artifact, manifest, summary, raced>>
      /\ call[p].at = "saving" /\ Abort(p)
      /\ stateFile' = call[p].st /\ acked' = acked \cup {call[p].op}
  BY DEF Save
<1>2. CallInv(p)
  BY DEF CallsInv
<1>3. KnownSummary(stateFile'.summary)
  BY <1>1, <1>2 DEF CallInv
<1>4. /\ \A s \in acked' \cap Slot : Done(s)
      /\ Analysis \in acked' => summary # NoSummary
  BY <1>1, <1>2 DEF CallInv, DiskInv
<1> QED BY <1>1, <1>3, <1>4, EndStep

LEMMA ExportStep ==
    ASSUME EvalInv, NEW s \in Slot, NEW b \in Bytes, Export(s, b)
    PROVE  OneWriter' /\ DiskInv' /\ CallsInv'
<1> USE DEF EvalInv, TypeInv
<1>1. /\ UNCHANGED <<artifact, manifest, summary, stateFile, call, acked, raced>>
      /\ source' = [source EXCEPT ![s] = b]
  BY DEF Export
<1>2. \A t \in Slot : /\ source[t] # NoBytes => source'[t] # NoBytes
                      /\ Done(t) => Done(t)'
  BY <1>1, RegistryAssumption DEF EvalTypeOK, Done
<1>3. CallsInv'
  <2>1. ASSUME NEW q \in Process PROVE CallInv(q)'
    BY <1>1, <1>2, OthersKeep
  <2> QED BY <2>1 DEF CallsInv
<1>4. DiskInv'
  BY <1>1, DiskKeeps DEF DiskInv
<1> QED BY <1>1, <1>3, <1>4 DEF OneWriter

\* Time passes, or nothing happens.
LEMMA RestStep ==
    ASSUME EvalInv,
           UNCHANGED <<source, artifact, manifest, summary, stateFile, call, acked, raced>>
    PROVE  OneWriter' /\ DiskInv' /\ CallsInv'
<1> USE DEF EvalInv, TypeInv
<1>1. CallsInv'
  <2>1. \A s \in Slot : Done(s) => Done(s)'
    BY DEF Done
  <2>2. ASSUME NEW q \in Process PROVE CallInv(q)'
    BY <2>1, OthersKeep
  <2> QED BY <2>2 DEF CallsInv
<1>2. DiskInv'
  BY DiskKeeps DEF DiskInv
<1> QED BY <1>1, <1>2 DEF OneWriter

LEMMA InvStep == EvalInv /\ [EvalNext]_evalVars => EvalInv'
<1> SUFFICES ASSUME EvalInv, [EvalNext]_evalVars
             PROVE  OneWriter' /\ DiskInv' /\ CallsInv'
  BY TypeStep, SlotCallsStep DEF EvalInv, TypeInv
<1>1. ASSUME NEW p \in Process, NEW op \in Op, Begin(p, op)
      PROVE  OneWriter' /\ DiskInv' /\ CallsInv'
  BY <1>1, BeginStep
<1>2. ASSUME NEW p \in Process, Work(p)
      PROVE  OneWriter' /\ DiskInv' /\ CallsInv'
  BY <1>2, OpenWindowStep, CheckStep, CopyStep, DescribeStep, AnalyzeStep, SummarizeStep,
     RefreshStep, SaveStep DEF Work
<1>3. ASSUME NEW p \in Process, Kill(p)
      PROVE  OneWriter' /\ DiskInv' /\ CallsInv'
  BY <1>3, LeaveStep DEF Kill
<1>4. ASSUME NEW s \in Slot, NEW b \in Bytes, Export(s, b)
      PROVE  OneWriter' /\ DiskInv' /\ CallsInv'
  BY <1>4, ExportStep
<1>5. CASE Tick
  BY <1>5, RestStep DEF Tick
<1>6. CASE UNCHANGED evalVars
  BY <1>6, RestStep DEF evalVars
<1> QED BY <1>1, <1>2, <1>3, <1>4, <1>5, <1>6 DEF EvalNext

LEMMA InitInv == EvalInit => EvalInv
<1> SUFFICES ASSUME EvalInit PROVE EvalInv
  OBVIOUS
<1>1. \A s \in Slot : ~Done(s)
  BY DEF EvalInit, Done, NoManifest
<1>2. OneWriter /\ CallsInv
  BY IdleFacts, OpFacts DEF EvalInit, OneWriter, Writing, CallsInv, CallInv, KnownSummary
<1>3. DiskInv
  BY <1>1, OpFacts DEF EvalInit, DiskInv, NewState, KnownSummary
<1> QED BY <1>2, <1>3, InitTypeInv DEF EvalInv

LEMMA Invariant == EvalSpec => []EvalInv
<1>1. EvalInv /\ [EvalNext]_evalVars => EvalInv'
  BY InvStep
<1> QED BY <1>1, InitInv, PTL DEF EvalSpec

----------------------------------------------------------------------------
(* What follows from it. *)

\* A manifest describes a file that is there as described, whoever is killed between the copy and
\* the manifest; a load raises only after calls raced on a slot.  (_capture_condition,
\* record_trial, _verified_manifest.)
THEOREM ManifestsAlwaysHold == EvalSpec => []ManifestsHold
<1>1. EvalInv => ManifestsHold
  BY DEF EvalInv, DiskInv, ManifestsHold, KnownSummary
<1> QED BY <1>1, Invariant, PTL

\* Condition B is never frozen before the learning interval is over, by whichever of several
\* calls, and whatever copy of state.json it loaded, unless captures of A raced.
\* (open_condition_b, _capture_condition.)
THEOREM WindowAlwaysElapsed == EvalSpec => []WindowElapsed
<1>1. EvalInv => WindowElapsed
  BY DEF EvalInv, DiskInv, WindowElapsed, BMayBe, Elapsed
<1> QED BY <1>1, Invariant, PTL

\* What is analyzed are two different corpora, whatever races, and what is frozen.
\* (analyze_evaluation, _analysis_corpus_delta.)
THEOREM AnalysisAlwaysSound == EvalSpec => []AnalysisSound
<1>1. EvalInv => AnalysisSound
  BY OpFacts DEF EvalInv, DiskInv, AnalysisSound, FoundInv
<1> QED BY <1>1, Invariant, PTL

\* What was acknowledged stays in what a call makes of the files, although state.json is written
\* back from old copies of it.  (_reconcile_state, _write_state.)
THEOREM AcknowledgedAlwaysStays == EvalSpec => []AcknowledgedStays
<1>1. EvalInv => AcknowledgedStays
  <2> SUFFICES ASSUME EvalInv PROVE AcknowledgedStays
    OBVIOUS
  <2>1. stateFile \in StateRecord
    BY DEF EvalInv, TypeInv, EvalTypeOK
  <2>2. /\ View.refs = stateFile.refs \cup {s \in Slot : Done(s)}
        /\ summary # NoSummary => View.summary = summary
    BY <2>1, ReconcileType DEF EvalInv, TypeInv, View
  <2> QED BY <2>2 DEF EvalInv, DiskInv, AcknowledgedStays
<1> QED BY <1>1, Invariant, PTL

LEMMA FinalStep ==
    ASSUME EvalInv, EvalNext
    PROVE  /\ \A s \in Slot \ raced : Done(s) => manifest'[s] = manifest[s]
           /\ summary # NoSummary /\ Analysis \notin raced => summary' = summary
<1>1. ASSUME NEW p \in Process, Work(p)
      PROVE  /\ \A s \in Slot \ raced : Done(s) => manifest'[s] = manifest[s]
             /\ summary # NoSummary /\ Analysis \notin raced => summary' = summary
  <2>1. CASE Describe(p)
    BY <2>1, DescribeStep DEF Describe
  <2>2. CASE Summarize(p)
    BY <2>2, SummarizeStep DEF Summarize
  <2> QED BY <1>1, <2>1, <2>2 DEF Work, OpenWindow, Check, Copy, Analyze, Refresh, Save
<1> QED BY <1>1 DEF EvalNext, Begin, Kill, Export, Tick

\* A manifest or a summary on disk is never replaced, but by a call that raced with the one that
\* wrote it.  (_capture_condition, record_trial, analyze_evaluation.)
THEOREM FrozenAlwaysFinal == EvalSpec => FrozenIsFinal
<1> DEFINE Final == /\ \A s \in Slot \ raced : Done(s) => manifest'[s] = manifest[s]
                    /\ summary # NoSummary /\ Analysis \notin raced => summary' = summary
<1>1. EvalInv /\ [EvalNext]_evalVars => [Final]_evalVars
  BY FinalStep
<1>2. [][Final]_evalVars => FrozenIsFinal
  BY PTL DEF FrozenIsFinal
<1> HIDE DEF Final
<1> QED BY <1>1, <1>2, Invariant, PTL DEF EvalSpec
=============================================================================
