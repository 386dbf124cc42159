----------------------- MODULE DeepSearchRuns_proofs -----------------------
(***************************************************************************)
(* Proofs about DeepSearchRuns, for any number of threads, topics, passes  *)
(* and mishaps and any cap: its type invariant, that a worker which leaves *)
(* has reported, that topics disagree only after edits that met or were    *)
(* cut short, and that the searches of a topic exceed one by no more than  *)
(* the requests that could not see another.                                *)
(***************************************************************************)
EXTENDS DeepSearchRuns, FiniteSetTheorems, TLAPS

-----------------------------------------------------------------------------
(* The inductive invariants. *)

\* A request knows its topic, and its run once it has started one; a worker knows its topic.
Named ==
    /\ \A g \in Thread : /\ call[g].at # "idle" => call[g].topic \in Topic
                         /\ call[g].at = "stamp" => call[g].run \in Run
    /\ \A r \in Run : worker[r].at # "none" => worker[r].topic \in Topic

TypeInv == DeepTypeOK /\ Named

\* A worker that has reported the end of its search.
Over(r) ==
    worker[r].at \in {"merge", "mergeWrite", "mergeIndex", "mergeList", "error", "exit", "done"}

Reported == \A r \in Run : Over(r) => status[r] \in {"DONE", "FAILED"} \/ r \in late \cup removed

\* At most one actor edits the topics.
OneEditor ==
    /\ \A g, h \in Thread : call[g].at \in GatewayEdits /\ call[h].at \in GatewayEdits => g = h
    /\ \A r, s \in Run : worker[r].at \in WorkerEdits /\ worker[s].at \in WorkerEdits => r = s
    /\ \A g \in Thread, r \in Run : call[g].at \in GatewayEdits => worker[r].at \notin WorkerEdits

\* What an editing request has found, and what it has done so far.
CallStage(g) ==
    LET t == call[g].topic IN
    /\ call[g].at = "create" => t \notin dossiers
    /\ call[g].at \in {"createIndex", "createList"} => t \in dossiers /\ t \notin listed
    /\ call[g].at \in {"check", "clear"} => t \in dossiers /\ call[g].passes = passes[t]
    /\ call[g].at = "unlink" => t \in dossiers /\ passes[t] \subseteq removed
    /\ call[g].at \in {"unlist", "dropList"} => t \notin dossiers /\ t \in listed
    /\ call[g].at \in {"createList", "dropList"} => call[g].listed = listed

WorkerStage(r) ==
    LET t == worker[r].topic IN
    /\ worker[r].at \in {"touchWrite", "mergeWrite"} =>
          t \in dossiers /\ worker[r].passes = passes[t]
    /\ worker[r].at \in {"touchList", "mergeList"} => worker[r].listed = listed
    /\ worker[r].at \in {"mergeIndex", "mergeList", "done"} => r \in passes[t] \cup removed

\* Index and dossier differ only while a request is between the two.
Agree(t) == t \in listed <=> t \in dossiers
Between(g, t) ==
    call[g].topic = t /\ call[g].at \in {"createIndex", "createList", "unlist", "dropList"}

InStep ==
    /\ OneEditor
    /\ \A g \in Thread : CallStage(g)
    /\ \A r \in Run : WorkerStage(r)
    /\ \A t \in Topic : Agree(t) \/ \E g \in Thread : Between(g, t)

Emptied == \A t \in Topic : t \notin dossiers => passes[t] = {}

EditInv == Emptied /\ (~disturbed => InStep)

\* A pass that a dossier, or a copy of one, lists was written there by its worker.
Merging == {"mergeIndex", "mergeList", "error"} \cup Gone
Merged(r) == worker[r].at \in Merging \ {"none"}
Listed ==
    /\ \A t \in Topic : \A r \in passes[t] : Merged(r)
    /\ \A g \in Thread : \A r \in call[g].passes : Merged(r)
    /\ \A s \in Run : \A r \in worker[s].passes : Merged(r)
    /\ \A r \in removed : Merged(r)

\* A worker that searches has a status by which it is seen.
Seen == \A r \in Run : Searching(r) /\ worker[r].at # "boot" => status[r] = "RUNNING"

\* The passes of a topic that search or are about to.
Claims(t) == {g \in Thread : call[g].at = "spawn" /\ call[g].topic = t}
                \cup {r \in Run : Searching(r) /\ worker[r].topic = t}

Counted == \A t \in Topic : Cardinality(Claims(t)) <= 1 + lapses

ClaimInv == Listed /\ Seen /\ Counted

-----------------------------------------------------------------------------
(* Type correctness. *)

LEMMA CallFields ==
    ASSUME DeepTypeOK, NEW g \in Thread
    PROVE  /\ call[g] \in CallRecord /\ call[g].at \in CallStep
           /\ call[g].topic \in Topic \cup {NoTopic} /\ call[g].run \in Run \cup {NoRun}
           /\ call[g].passes \in SUBSET Run /\ call[g].listed \in SUBSET Topic
BY DEF DeepTypeOK, CallRecord

LEMMA WorkerFields ==
    ASSUME DeepTypeOK, NEW r \in Run
    PROVE  /\ worker[r] \in WorkerRecord /\ worker[r].at \in WorkerStep
           /\ worker[r].topic \in Topic \cup {NoTopic} /\ worker[r].verdict \in VerdictKind
           /\ worker[r].passes \in SUBSET Run /\ worker[r].listed \in SUBSET Topic
BY DEF DeepTypeOK, WorkerRecord

LEMMA TableFields ==
    ASSUME DeepTypeOK
    PROVE  listed \in SUBSET Topic /\ \A t \in Topic : passes[t] \in SUBSET Run
BY DEF DeepTypeOK

LEMMA Places ==
    /\ "create" \in CallStep /\ "createIndex" \in CallStep /\ "createList" \in CallStep
    /\ "check" \in CallStep /\ "clear" \in CallStep /\ "unlink" \in CallStep
    /\ "unlist" \in CallStep /\ "dropList" \in CallStep /\ "idle" \in CallStep
    /\ "spawn" \in CallStep /\ "stamp" \in CallStep
    /\ "touchWrite" \in WorkerStep /\ "touchIndex" \in WorkerStep /\ "touchList" \in WorkerStep
    /\ "mergeWrite" \in WorkerStep /\ "mergeIndex" \in WorkerStep /\ "mergeList" \in WorkerStep
    /\ "status" \in WorkerStep /\ "engine" \in WorkerStep /\ "final" \in WorkerStep
    /\ "error" \in WorkerStep /\ "none" \in WorkerStep /\ "exit" \in WorkerStep
    /\ "done" \in WorkerStep /\ "dead" \in WorkerStep /\ "stuck" \in WorkerStep
    /\ "boot" \in WorkerStep /\ "touch" \in WorkerStep /\ "merge" \in WorkerStep
BY DEF CallStep, WorkerStep, GatewayEdits, WorkerEdits, Locked, Gone

\* The steps of a thread and of a worker, whatever they read.
LEMMA GoType ==
    ASSUME DeepTypeOK, NEW g \in Thread, NEW step \in CallStep, Go(g, step)
    PROVE  /\ call' \in [Thread -> CallRecord]
           /\ \A h \in Thread \ {g} : call'[h] = call[h]
           /\ call'[g].at = step /\ call'[g].topic = call[g].topic /\ call'[g].run = call[g].run
           /\ call'[g].passes = {} /\ call'[g].listed = {}
BY CallFields DEF Go, DeepTypeOK, CallRecord

LEMMA AnswerType ==
    ASSUME DeepTypeOK, NEW g \in Thread, Answer(g)
    PROVE  /\ call' \in [Thread -> CallRecord]
           /\ \A h \in Thread \ {g} : call'[h] = call[h]
           /\ call'[g] = Served /\ call'[g].at = "idle" /\ call'[g].passes = {}
BY Places DEF Answer, DeepTypeOK, CallRecord, Served

LEMMA TurnType ==
    ASSUME DeepTypeOK, NEW r \in Run, NEW step \in WorkerStep, Turn(r, step)
    PROVE  /\ worker' \in [Run -> WorkerRecord]
           /\ \A s \in Run \ {r} : worker'[s] = worker[s]
           /\ worker'[r].at = step /\ worker'[r].topic = worker[r].topic
           /\ worker'[r].verdict = worker[r].verdict
           /\ worker'[r].passes = {} /\ worker'[r].listed = {}
<1>1. [worker[r] EXCEPT !.at = step, !.passes = {}, !.listed = {}] \in WorkerRecord
  BY WorkerFields DEF WorkerRecord
<1> QED BY <1>1, WorkerFields DEF Turn, DeepTypeOK

\* A worker that keeps what it has just read.
LEMMA ReadType ==
    ASSUME DeepTypeOK, NEW r \in Run, NEW step \in WorkerStep
    PROVE  /\ \A copy \in SUBSET Run :
                  [worker[r] EXCEPT !.at = step, !.passes = copy] \in WorkerRecord
           /\ \A copy \in SUBSET Topic :
                  [worker[r] EXCEPT !.at = step, !.listed = copy] \in WorkerRecord
           /\ \A verdict \in VerdictKind :
                  [worker[r] EXCEPT !.at = step, !.verdict = verdict] \in WorkerRecord
           /\ \A t \in Topic : [worker[r] EXCEPT !.at = step, !.topic = t] \in WorkerRecord
<1>1. worker[r] \in WorkerRecord
  BY WorkerFields
<1> QED BY <1>1 DEF WorkerRecord

LEMMA InitType == DeepInit => TypeInv
<1>1. Served \in CallRecord
  BY Places DEF Served, CallRecord
<1>2. NoWorker \in WorkerRecord
  BY Places DEF NoWorker, WorkerRecord, VerdictKind
<1>3. Served.at = "idle" /\ NoWorker.at = "none"
  BY DEF Served, NoWorker
<1>4. DeepInit => DeepTypeOK
  <2> SUFFICES ASSUME DeepInit PROVE DeepTypeOK
    OBVIOUS
  <2>1. status \in [Run -> {"none", "RUNNING", "DONE", "FAILED"}] /\ disturbed \in BOOLEAN
    BY DEF DeepInit
  <2>2. dossiers \subseteq Topic /\ listed \subseteq Topic /\ removed \subseteq Run /\ late \subseteq Run
    BY DEF DeepInit
  <2>3. call \in [Thread -> CallRecord] /\ worker \in [Run -> WorkerRecord]
    BY <1>1, <1>2 DEF DeepInit
  <2>4. passes \in [Topic -> SUBSET Run] /\ mishaps \in Nat /\ lapses \in Nat
    BY DEF DeepInit
  <2> QED BY <2>1, <2>2, <2>3, <2>4 DEF DeepTypeOK
<1>5. DeepInit => Named
  BY <1>3 DEF DeepInit, Named
<1> QED BY <1>4, <1>5 DEF TypeInv

\* A request that has read something, and a worker that has.
LEMMA RequestType ==
    ASSUME TypeInv, NEW g \in Thread, Request(g)
    PROVE  TypeInv'
<1> USE DEF TypeInv
<1>1. ASSUME NEW t \in Topic, CreateCheck(g, t) PROVE TypeInv'
  <2>1. [call[g] EXCEPT !.at = "create", !.topic = t] \in CallRecord
    BY <1>1, CallFields, Places DEF CallRecord, CreateCheck
  <2>2. call' \in [Thread -> CallRecord] /\ \A h \in Thread \ {g} : call'[h] = call[h]
    BY <1>1, <2>1 DEF CreateCheck, DeepTypeOK
  <2>3. call'[g] = [call[g] EXCEPT !.at = "create", !.topic = t]
    BY <1>1, CallFields DEF CreateCheck, DeepTypeOK
  <2> QED BY <1>1, <2>1, <2>2, <2>3, CallFields
             DEF CreateCheck, RunsUnchanged, BeginEdit, DeepTypeOK, Named, At
<1>2. CASE CreateWrite(g)
  BY <1>2, GoType, CallFields, Places DEF CreateWrite, RunsUnchanged, DeepTypeOK, Named, At
<1>3. CASE CreateRead(g)
  <2>1. [call[g] EXCEPT !.at = "createList", !.listed = listed] \in CallRecord
    BY <1>3, CallFields, Places, TableFields DEF CallRecord, CreateRead
  <2>2. call' \in [Thread -> CallRecord] /\ \A h \in Thread \ {g} : call'[h] = call[h]
    BY <1>3, <2>1 DEF CreateRead, DeepTypeOK
  <2>3. call'[g] = [call[g] EXCEPT !.at = "createList", !.listed = listed]
    BY <1>3, CallFields DEF CreateRead, DeepTypeOK
  <2> QED BY <1>3, <2>1, <2>2, <2>3, CallFields DEF CreateRead, RunsUnchanged, DeepTypeOK, Named, At
<1>4. CASE CreateList(g)
  BY <1>4, AnswerType, CallFields, Places DEF CreateList, RunsUnchanged, DeepTypeOK, Named, At
<1>5. ASSUME NEW t \in Topic, DeleteRead(g, t) PROVE TypeInv'
  <2>1. [call[g] EXCEPT !.at = "check", !.topic = t, !.passes = passes[t]] \in CallRecord
    BY <1>5, CallFields, Places, TableFields DEF CallRecord, DeleteRead
  <2>2. call' \in [Thread -> CallRecord] /\ \A h \in Thread \ {g} : call'[h] = call[h]
    BY <1>5, <2>1 DEF DeleteRead, DeepTypeOK
  <2>3. call'[g] = [call[g] EXCEPT !.at = "check", !.topic = t, !.passes = passes[t]]
    BY <1>5, CallFields DEF DeleteRead, DeepTypeOK
  <2> QED BY <1>5, <2>1, <2>2, <2>3, CallFields
             DEF DeleteRead, RunsUnchanged, BeginEdit, DeepTypeOK, Named, At
<1>6. CASE DeleteCheck(g)
  BY <1>6, AnswerType, CallFields, Places
     DEF DeleteCheck, RunsUnchanged, DeepTypeOK, CallRecord, Named, At
<1>7. CASE DeleteRuns(g)
  BY <1>7, GoType, CallFields, Places DEF DeleteRuns, ListedRuns, DeepTypeOK, Named, At
<1>8. CASE DeleteDossier(g)
  BY <1>8, GoType, AnswerType, CallFields, Places
     DEF DeleteDossier, RunsUnchanged, DeepTypeOK, Named, At
<1>9. CASE DeleteReadIndex(g)
  <2>1. [call[g] EXCEPT !.at = "dropList", !.listed = listed] \in CallRecord
    BY <1>9, CallFields, Places, TableFields DEF CallRecord, DeleteReadIndex
  <2>2. call' \in [Thread -> CallRecord] /\ \A h \in Thread \ {g} : call'[h] = call[h]
    BY <1>9, <2>1 DEF DeleteReadIndex, DeepTypeOK
  <2>3. call'[g] = [call[g] EXCEPT !.at = "dropList", !.listed = listed]
    BY <1>9, CallFields DEF DeleteReadIndex, DeepTypeOK
  <2> QED BY <1>9, <2>1, <2>2, <2>3, CallFields
             DEF DeleteReadIndex, RunsUnchanged, DeepTypeOK, Named, At
<1>10. CASE DeleteList(g)
  BY <1>10, AnswerType, CallFields, Places DEF DeleteList, RunsUnchanged, DeepTypeOK, Named, At
<1>11. ASSUME NEW t \in Topic, SpawnCheck(g, t) PROVE TypeInv'
  <2>1. [call[g] EXCEPT !.at = "spawn", !.topic = t] \in CallRecord
    BY <1>11, CallFields, Places DEF CallRecord, SpawnCheck
  <2>2. call' \in [Thread -> CallRecord] /\ \A h \in Thread \ {g} : call'[h] = call[h]
    BY <1>11, <2>1 DEF SpawnCheck, DeepTypeOK
  <2>3. call'[g] = [call[g] EXCEPT !.at = "spawn", !.topic = t]
    BY <1>11, CallFields DEF SpawnCheck, DeepTypeOK
  <2> QED BY <1>11, <2>1, <2>2, <2>3, CallFields DEF SpawnCheck, DeepTypeOK, Named, At
<1>12. ASSUME NEW r \in Run, Spawn(g, r) PROVE TypeInv'
  <2>1. [call[g] EXCEPT !.at = "stamp", !.run = r] \in CallRecord
    BY CallFields, Places DEF CallRecord
  <2>2. [worker[r] EXCEPT !.at = "boot", !.topic = call[g].topic] \in WorkerRecord
    BY <1>12, CallFields, ReadType, Places DEF Spawn, Named, At
  <2>3. call' \in [Thread -> CallRecord] /\ \A h \in Thread \ {g} : call'[h] = call[h]
    BY <1>12, <2>1 DEF Spawn, DeepTypeOK
  <2>4. call'[g] = [call[g] EXCEPT !.at = "stamp", !.run = r]
    BY <1>12, CallFields DEF Spawn, DeepTypeOK
  <2>5. worker' \in [Run -> WorkerRecord] /\ \A s \in Run \ {r} : worker'[s] = worker[s]
    BY <1>12, <2>2 DEF Spawn, DeepTypeOK
  <2>6. worker'[r] = [worker[r] EXCEPT !.at = "boot", !.topic = call[g].topic]
    BY <1>12, WorkerFields DEF Spawn, DeepTypeOK
  <2> QED BY <1>12, <2>3, <2>4, <2>5, <2>6, CallFields, WorkerFields
             DEF Spawn, DeepTypeOK, Named, At
<1>13. CASE Stamp(g)
  BY <1>13, AnswerType, CallFields, Places DEF Stamp, DeepTypeOK, Named, At
<1> QED BY <1>1, <1>2, <1>3, <1>4, <1>5, <1>6, <1>7, <1>8, <1>9, <1>10, <1>11, <1>12, <1>13
           DEF Request

LEMMA WriteType ==
    ASSUME DeepTypeOK, NEW r \in Run, NEW value \in {"RUNNING", "DONE", "FAILED"}, Write(r, value)
    PROVE  /\ status' \in [Run -> {"none", "RUNNING", "DONE", "FAILED"}]
           /\ \A s \in Run \ {r} : status'[s] = status[s]
           /\ r \notin removed => status'[r] = value
BY DEF Write, DeepTypeOK

LEMMA WorkType ==
    ASSUME TypeInv, NEW r \in Run, Work(r)
    PROVE  TypeInv'
<1> USE DEF TypeInv
<1>1. CASE Boot(r)
  BY <1>1, TurnType, WriteType, WorkerFields, Places DEF Boot, FilesUnchanged, DeepTypeOK, Named, On
<1>2. CASE Report(r)
  <2>1. worker[r].verdict \in {"RUNNING", "DONE", "FAILED"}
    BY WorkerFields DEF VerdictKind
  <2>2. worker' \in [Run -> WorkerRecord] /\ status' \in [Run -> {"none", "RUNNING", "DONE", "FAILED"}]
    BY <1>2, <2>1, TurnType, WriteType, Places DEF Report
  <2>3. \A s \in Run : worker'[s].topic = worker[s].topic /\ (worker[s].at = "none" => worker'[s].at = "none")
    BY <1>2, TurnType, Places DEF Report, On
  <2> QED BY <1>2, <2>2, <2>3 DEF Report, FilesUnchanged, DeepTypeOK, Named
<1>3. CASE TouchRead(r)
  <2>1. [worker[r] EXCEPT !.at = "touchWrite", !.passes = passes[worker[r].topic]] \in WorkerRecord
    BY <1>3, ReadType, Places, TableFields DEF TouchRead, Named, On
  <2>2. worker' \in [Run -> WorkerRecord] /\ \A s \in Run \ {r} : worker'[s] = worker[s]
    BY <1>3, <2>1, TurnType, Places DEF TouchRead, DeepTypeOK
  <2>3. worker'[r].topic = worker[r].topic
    <3>1. CASE worker[r].topic \in dossiers
      <4>1. worker'[r] = [worker[r] EXCEPT !.at = "touchWrite", !.passes = passes[worker[r].topic]]
        BY <1>3, <3>1, WorkerFields DEF TouchRead, DeepTypeOK
      <4> QED BY <4>1, WorkerFields
    <3>2. CASE ~(worker[r].topic \in dossiers)
      BY <1>3, <3>2, TurnType, Places DEF TouchRead
    <3> QED BY <3>1, <3>2
  <2> QED BY <1>3, <2>2, <2>3, WorkerFields
             DEF TouchRead, FilesUnchanged, BeginEdit, DeepTypeOK, Named, On
<1>4. CASE TouchWrite(r)
  BY <1>4, TurnType, WorkerFields, Places DEF TouchWrite, DeepTypeOK, Named, On
<1>5. CASE TouchReadIndex(r)
  <2>1. [worker[r] EXCEPT !.at = "touchList", !.listed = listed] \in WorkerRecord
    BY <1>5, ReadType, Places, TableFields DEF TouchReadIndex, Named, On
  <2>2. worker' \in [Run -> WorkerRecord] /\ \A s \in Run \ {r} : worker'[s] = worker[s]
    BY <1>5, <2>1, TurnType, Places DEF TouchReadIndex, DeepTypeOK
  <2>3. worker'[r].topic = worker[r].topic
    <3>1. CASE worker[r].topic \in listed
      <4>1. worker'[r] = [worker[r] EXCEPT !.at = "touchList", !.listed = listed]
        BY <1>5, <3>1, WorkerFields DEF TouchReadIndex, DeepTypeOK
      <4> QED BY <4>1, WorkerFields
    <3>2. CASE ~(worker[r].topic \in listed)
      BY <1>5, <3>2, TurnType, Places DEF TouchReadIndex
    <3> QED BY <3>1, <3>2
  <2> QED BY <1>5, <2>2, <2>3, WorkerFields
             DEF TouchReadIndex, FilesUnchanged, DeepTypeOK, Named, On
<1>6. CASE TouchList(r)
  BY <1>6, TurnType, WorkerFields, Places DEF TouchList, DeepTypeOK, Named, On
<1>7. ASSUME NEW verdict \in VerdictKind, On(r, "engine"), EngineEnds(r),
             worker' = [worker EXCEPT ![r].at = "final", ![r].verdict = verdict]
      PROVE TypeInv'
  <2>1. [worker[r] EXCEPT !.at = "final", !.verdict = verdict] \in WorkerRecord
    BY ReadType, Places, TableFields
  <2>2. worker' \in [Run -> WorkerRecord] /\ \A s \in Run \ {r} : worker'[s] = worker[s]
    BY <1>7, <2>1 DEF EngineEnds, DeepTypeOK
  <2>3. worker'[r] = [worker[r] EXCEPT !.at = "final", !.verdict = verdict]
    BY <1>7, WorkerFields DEF EngineEnds, DeepTypeOK
  <2> QED BY <1>7, <2>1, <2>2, <2>3, WorkerFields
             DEF EngineEnds, FilesUnchanged, DeepTypeOK, Named, On
<1>8. CASE MergeRead(r)
  <2>1. [worker[r] EXCEPT !.at = "mergeWrite", !.passes = passes[worker[r].topic]] \in WorkerRecord
    BY <1>8, ReadType, Places, TableFields DEF MergeRead, Named, On
  <2>2. worker' \in [Run -> WorkerRecord] /\ \A s \in Run \ {r} : worker'[s] = worker[s]
    BY <1>8, <2>1, TurnType, Places DEF MergeRead, DeepTypeOK
  <2>3. worker'[r].topic = worker[r].topic
    <3>1. CASE worker[r].topic \in dossiers
      <4>1. worker'[r] = [worker[r] EXCEPT !.at = "mergeWrite", !.passes = passes[worker[r].topic]]
        BY <1>8, <3>1, WorkerFields DEF MergeRead, DeepTypeOK
      <4> QED BY <4>1, WorkerFields
    <3>2. CASE ~(worker[r].topic \in dossiers)
      BY <1>8, <3>2, TurnType, Places DEF MergeRead
    <3> QED BY <3>1, <3>2
  <2> QED BY <1>8, <2>2, <2>3, WorkerFields
             DEF MergeRead, FilesUnchanged, BeginEdit, DeepTypeOK, Named, On
<1>9. CASE MergeWrite(r)
  BY <1>9, TurnType, WorkerFields, Places DEF MergeWrite, DeepTypeOK, Named, On
<1>10. CASE MergeReadIndex(r)
  <2>1. [worker[r] EXCEPT !.at = "mergeList", !.listed = listed] \in WorkerRecord
    BY ReadType, Places, TableFields
  <2>2. worker' \in [Run -> WorkerRecord] /\ \A s \in Run \ {r} : worker'[s] = worker[s]
    BY <1>10, <2>1 DEF MergeReadIndex, DeepTypeOK
  <2>3. worker'[r] = [worker[r] EXCEPT !.at = "mergeList", !.listed = listed]
    BY <1>10, WorkerFields DEF MergeReadIndex, DeepTypeOK
  <2> QED BY <1>10, <2>1, <2>2, <2>3, WorkerFields
             DEF MergeReadIndex, FilesUnchanged, DeepTypeOK, Named, On
<1>11. CASE MergeList(r)
  BY <1>11, TurnType, WorkerFields, Places DEF MergeList, DeepTypeOK, Named, On
<1> QED BY <1>1, <1>2, <1>3, <1>4, <1>5, <1>6, <1>7, <1>8, <1>9, <1>10, <1>11
           DEF Work, EngineEnds, VerdictKind

LEMMA MishapType ==
    ASSUME TypeInv, \/ GatewayCrash
                    \/ \E g \in Thread : EditFails(g)
                    \/ \E r \in Run : UpdateFails(r) \/ Signal(r) \/ Kill(r)
    PROVE  TypeInv'
<1> USE DEF TypeInv
<1>1. ASSUME NEW r \in Run, Signal(r) PROVE TypeInv'
  <2>1. worker' \in [Run -> WorkerRecord] /\ status' \in [Run -> {"none", "RUNNING", "DONE", "FAILED"}]
    BY <1>1, TurnType, WriteType, Places DEF Signal, LastWrite, DeepTypeOK
  <2>2. \A s \in Run : worker'[s].topic = worker[s].topic /\ (worker[s].at = "none" => worker'[s].at = "none")
    BY <1>1, TurnType, Places DEF Signal, Alive, Gone
  <2> QED BY <1>1, <2>1, <2>2 DEF Signal, Mishap, CutShort, DeepTypeOK, Named
<1>2. ASSUME NEW r \in Run, Kill(r) PROVE TypeInv'
  <2>2. \A s \in Run : worker'[s].topic = worker[s].topic /\ (worker[s].at = "none" => worker'[s].at = "none")
    BY <1>2, TurnType, Places DEF Kill, Alive, Gone, On
  <2> QED BY <1>2, <2>2, TurnType, Places DEF Kill, Mishap, CutShort, DeepTypeOK, Named
<1>3. CASE GatewayCrash
  <2>1. Served \in CallRecord
    BY Places DEF Served, CallRecord
  <2>2. Served.at = "idle"
    BY DEF Served
  <2> QED BY <1>3, <2>1, <2>2 DEF GatewayCrash, Mishap, CutShort, DeepTypeOK, Named
<1>4. ASSUME NEW g \in Thread, EditFails(g) PROVE TypeInv'
  BY <1>4, AnswerType DEF EditFails, Mishap, CutShort, DeepTypeOK, Named
<1>5. ASSUME NEW r \in Run, UpdateFails(r) PROVE TypeInv'
  <2>2. \A s \in Run : worker'[s].topic = worker[s].topic /\ (worker[s].at = "none" => worker'[s].at = "none")
    BY <1>5, TurnType, Places DEF UpdateFails
  <2> QED BY <1>5, <2>2, TurnType, Places DEF UpdateFails, Mishap, CutShort, DeepTypeOK, Named
<1> QED BY <1>1, <1>2, <1>3, <1>4, <1>5

LEMMA StepType == TypeInv /\ [DeepNext]_deepVars => TypeInv'
<1> SUFFICES ASSUME TypeInv, [DeepNext]_deepVars PROVE TypeInv'
  OBVIOUS
<1>1. CASE UNCHANGED deepVars
  BY <1>1 DEF deepVars, TypeInv, DeepTypeOK, Named
<1> QED BY <1>1, RequestType, WorkType, MishapType DEF DeepNext

\* Every variable keeps its type, a request and a worker know their topic, and a request its run.
THEOREM TypeCorrect == DeepSpec => []TypeInv
<1> QED BY InitType, StepType, PTL DEF DeepSpec

-----------------------------------------------------------------------------
(* What the steps do to the calls and the workers, field by field. *)

OtherCalls(g)   == \A h \in Thread \ {g} : call'[h] = call[h]
OtherWorkers(r) == \A s \in Run \ {r} : worker'[s] = worker[s]

LEMMA CallReads ==
    ASSUME TypeInv, NEW g \in Thread
    PROVE  /\ \A t \in Topic : CreateCheck(g, t) =>
                 /\ OtherCalls(g) /\ call'[g].at = "create"
                 /\ call'[g].topic = t /\ call'[g].passes = call[g].passes
           /\ CreateRead(g) => /\ OtherCalls(g) /\ call'[g].at = "createList"
                               /\ call'[g].topic = call[g].topic /\ call'[g].listed = listed
                               /\ call'[g].passes = call[g].passes
           /\ \A t \in Topic : DeleteRead(g, t) =>
                 /\ OtherCalls(g) /\ call'[g].at = "check"
                 /\ call'[g].topic = t /\ call'[g].passes = passes[t]
           /\ DeleteCheck(g) /\ ActiveIn(call[g].topic) = {} =>
                 /\ OtherCalls(g) /\ call'[g].at = "clear"
                 /\ call'[g].topic = call[g].topic /\ call'[g].passes = call[g].passes
           /\ DeleteReadIndex(g) => /\ OtherCalls(g) /\ call'[g].at = "dropList"
                                    /\ call'[g].topic = call[g].topic /\ call'[g].listed = listed
                                    /\ call'[g].passes = call[g].passes
           /\ \A t \in Topic : SpawnCheck(g, t) =>
                 /\ OtherCalls(g) /\ call'[g].at = "spawn"
                 /\ call'[g].topic = t /\ call'[g].passes = call[g].passes
<1>1. call \in [Thread -> CallRecord] /\ call[g] \in CallRecord
  BY CallFields DEF TypeInv, DeepTypeOK
<1>2. ASSUME NEW t \in Topic, CreateCheck(g, t)
      PROVE  /\ OtherCalls(g) /\ call'[g].at = "create"
             /\ call'[g].topic = t /\ call'[g].passes = call[g].passes
  BY <1>1, <1>2 DEF CreateCheck, OtherCalls, CallRecord
<1>3. ASSUME CreateRead(g)
      PROVE  /\ OtherCalls(g) /\ call'[g].at = "createList"
             /\ call'[g].topic = call[g].topic /\ call'[g].listed = listed
             /\ call'[g].passes = call[g].passes
  BY <1>1, <1>3 DEF CreateRead, OtherCalls, CallRecord
<1>4. ASSUME NEW t \in Topic, DeleteRead(g, t)
      PROVE  /\ OtherCalls(g) /\ call'[g].at = "check"
             /\ call'[g].topic = t /\ call'[g].passes = passes[t]
  BY <1>1, <1>4 DEF DeleteRead, OtherCalls, CallRecord
<1>5. ASSUME DeleteCheck(g), ActiveIn(call[g].topic) = {}
      PROVE  /\ OtherCalls(g) /\ call'[g].at = "clear"
             /\ call'[g].topic = call[g].topic /\ call'[g].passes = call[g].passes
  BY <1>1, <1>5 DEF DeleteCheck, OtherCalls, CallRecord
<1>6. ASSUME DeleteReadIndex(g)
      PROVE  /\ OtherCalls(g) /\ call'[g].at = "dropList"
             /\ call'[g].topic = call[g].topic /\ call'[g].listed = listed
             /\ call'[g].passes = call[g].passes
  BY <1>1, <1>6 DEF DeleteReadIndex, OtherCalls, CallRecord
<1>7. ASSUME NEW t \in Topic, SpawnCheck(g, t)
      PROVE  /\ OtherCalls(g) /\ call'[g].at = "spawn"
             /\ call'[g].topic = t /\ call'[g].passes = call[g].passes
  BY <1>1, <1>7 DEF SpawnCheck, OtherCalls, CallRecord
<1> QED BY <1>2, <1>3, <1>4, <1>5, <1>6, <1>7

LEMMA SpawnEffect ==
    ASSUME TypeInv, NEW g \in Thread, NEW r \in Run, Spawn(g, r)
    PROVE  /\ OtherCalls(g) /\ call'[g].at = "stamp" /\ call'[g].run = r
           /\ call'[g].passes = call[g].passes
           /\ OtherWorkers(r) /\ worker'[r].at = "boot" /\ worker'[r].topic = call[g].topic
           /\ worker'[r].passes = worker[r].passes
<1>1. call \in [Thread -> CallRecord] /\ call[g] \in CallRecord
  BY CallFields DEF TypeInv, DeepTypeOK
<1>2. worker \in [Run -> WorkerRecord] /\ worker[r] \in WorkerRecord
  BY WorkerFields DEF TypeInv, DeepTypeOK
<1>3. OtherCalls(g) /\ call'[g].at = "stamp" /\ call'[g].run = r /\ call'[g].passes = call[g].passes
  BY <1>1 DEF Spawn, OtherCalls, CallRecord
<1>4. /\ OtherWorkers(r) /\ worker'[r].at = "boot" /\ worker'[r].topic = call[g].topic
      /\ worker'[r].passes = worker[r].passes
  BY <1>2 DEF Spawn, OtherWorkers, WorkerRecord
<1> QED BY <1>3, <1>4

LEMMA WorkerReads ==
    ASSUME TypeInv, NEW r \in Run
    PROVE  /\ TouchRead(r) /\ worker[r].topic \in dossiers =>
                 /\ OtherWorkers(r) /\ worker'[r].at = "touchWrite"
                 /\ worker'[r].topic = worker[r].topic /\ worker'[r].passes = passes[worker[r].topic]
           /\ TouchReadIndex(r) /\ worker[r].topic \in listed =>
                 /\ OtherWorkers(r) /\ worker'[r].at = "touchList"
                 /\ worker'[r].topic = worker[r].topic /\ worker'[r].listed = listed
                 /\ worker'[r].passes = worker[r].passes
           /\ EngineEnds(r) => /\ OtherWorkers(r) /\ worker'[r].at = "final"
                               /\ worker'[r].topic = worker[r].topic
                               /\ worker'[r].passes = worker[r].passes
           /\ MergeRead(r) /\ worker[r].topic \in dossiers =>
                 /\ OtherWorkers(r) /\ worker'[r].at = "mergeWrite"
                 /\ worker'[r].topic = worker[r].topic /\ worker'[r].passes = passes[worker[r].topic]
           /\ MergeReadIndex(r) =>
                 /\ OtherWorkers(r) /\ worker'[r].at = "mergeList"
                 /\ worker'[r].topic = worker[r].topic /\ worker'[r].listed = listed
                 /\ worker'[r].passes = worker[r].passes
<1>1. worker \in [Run -> WorkerRecord] /\ worker[r] \in WorkerRecord
  BY WorkerFields DEF TypeInv, DeepTypeOK
<1>2. ASSUME TouchRead(r), worker[r].topic \in dossiers
      PROVE  /\ OtherWorkers(r) /\ worker'[r].at = "touchWrite"
             /\ worker'[r].topic = worker[r].topic /\ worker'[r].passes = passes[worker[r].topic]
  BY <1>1, <1>2 DEF TouchRead, OtherWorkers, WorkerRecord
<1>3. ASSUME TouchReadIndex(r), worker[r].topic \in listed
      PROVE  /\ OtherWorkers(r) /\ worker'[r].at = "touchList"
             /\ worker'[r].topic = worker[r].topic /\ worker'[r].listed = listed
             /\ worker'[r].passes = worker[r].passes
  BY <1>1, <1>3 DEF TouchReadIndex, OtherWorkers, WorkerRecord
<1>4. ASSUME EngineEnds(r)
      PROVE  /\ OtherWorkers(r) /\ worker'[r].at = "final"
             /\ worker'[r].topic = worker[r].topic /\ worker'[r].passes = worker[r].passes
  BY <1>1, <1>4 DEF EngineEnds, OtherWorkers, WorkerRecord
<1>5. ASSUME MergeRead(r), worker[r].topic \in dossiers
      PROVE  /\ OtherWorkers(r) /\ worker'[r].at = "mergeWrite"
             /\ worker'[r].topic = worker[r].topic /\ worker'[r].passes = passes[worker[r].topic]
  BY <1>1, <1>5 DEF MergeRead, OtherWorkers, WorkerRecord
<1>6. ASSUME MergeReadIndex(r)
      PROVE  /\ OtherWorkers(r) /\ worker'[r].at = "mergeList"
             /\ worker'[r].topic = worker[r].topic /\ worker'[r].listed = listed
             /\ worker'[r].passes = worker[r].passes
  BY <1>1, <1>6 DEF MergeReadIndex, OtherWorkers, WorkerRecord
<1> QED BY <1>2, <1>3, <1>4, <1>5, <1>6

-----------------------------------------------------------------------------
(* A worker that leaves has reported. *)

\* A step that reports nothing and ends no worker's search.
LEMMA ReportedKept ==
    ASSUME Reported, late \subseteq late', removed \subseteq removed',
           \A r \in Run : Over(r)' => Over(r) /\ (status'[r] = status[r] \/ r \in late' \cup removed')
    PROVE  Reported'
BY DEF Reported

LEMMA ReportedStep == TypeInv /\ Reported /\ [DeepNext]_deepVars => Reported'
<1> SUFFICES ASSUME TypeInv, Reported, [DeepNext]_deepVars PROVE Reported'
  OBVIOUS
<1> USE DEF TypeInv
<1>1. CASE worker' = worker /\ status' = status /\ late' = late /\ removed' = removed
  BY <1>1 DEF Reported, Over
<1>2. ASSUME NEW g \in Thread, DeleteRuns(g) PROVE Reported'
  BY <1>2 DEF DeleteRuns, ListedRuns, Reported, Over, DeepTypeOK
<1>3. ASSUME NEW g \in Thread, NEW r \in Run, Spawn(g, r) PROVE Reported'
  <2>1. \A s \in Run : Over(s)' => Over(s)
    BY <1>3, SpawnEffect DEF OtherWorkers, Over
  <2> QED BY <1>3, <2>1, ReportedKept DEF Spawn
<1>4. ASSUME NEW g \in Thread, Stamp(g) PROVE Reported'
  <2>1. call[g].run \in Run
    BY <1>4 DEF Stamp, At, Named
  <2>2. CASE call[g].run \in removed
    BY <1>4, <2>1, <2>2 DEF Stamp, Reported, Over, DeepTypeOK
  <2>3. CASE call[g].run \notin removed
    <3>1. Over(call[g].run) => call[g].run \in late'
      BY <1>4, <2>1, <2>3 DEF Stamp, Reported
    <3> QED BY <1>4, <2>1, <3>1 DEF Stamp, Reported, Over, DeepTypeOK
  <2> QED BY <2>2, <2>3
<1>5. ASSUME NEW r \in Run, Boot(r) PROVE Reported'
  BY <1>5, TurnType, WriteType, Places, ReportedKept DEF Boot, FilesUnchanged, Over
<1>6. ASSUME NEW r \in Run, Report(r) PROVE Reported'
  <2>1. worker[r].verdict \in {"DONE", "FAILED"}
    BY WorkerFields DEF VerdictKind
  <2>2. \A s \in Run \ {r} : worker'[s] = worker[s] /\ status'[s] = status[s]
    BY <1>6, <2>1, TurnType, WriteType, Places DEF Report
  <2>3. Over(r)' => status'[r] \in {"DONE", "FAILED"} \/ r \in removed
    <3>1. CASE On(r, "status")
      BY <1>6, <3>1, TurnType, Places DEF Report, Over, On
    <3>2. CASE On(r, "final")
      BY <1>6, <2>1, <3>2, WriteType DEF Report, On
    <3>3. CASE On(r, "error")
      BY <1>6, <2>1, <3>3, WriteType DEF Report, On
    <3> QED BY <1>6, <3>1, <3>2, <3>3 DEF Report
  <2> QED BY <1>6, <2>2, <2>3 DEF Report, FilesUnchanged, Reported, Over
<1>7. ASSUME NEW r \in Run, \/ TouchRead(r) \/ TouchReadIndex(r) \/ EngineEnds(r)
                            \/ MergeRead(r) \/ MergeReadIndex(r)
      PROVE Reported'
  <2>1. \A s \in Run \ {r} : worker'[s] = worker[s]
    BY <1>7, WorkerReads, TurnType, Places
       DEF TouchRead, TouchReadIndex, MergeRead, OtherWorkers
  <2>2. Over(r)' => Over(r)
    BY <1>7, WorkerReads, TurnType, Places
       DEF TouchRead, TouchReadIndex, EngineEnds, MergeRead, MergeReadIndex, Over, On
  <2> QED BY <1>7, <2>1, <2>2, ReportedKept
          DEF TouchRead, TouchReadIndex, EngineEnds, MergeRead, MergeReadIndex, FilesUnchanged, Over
<1>8. ASSUME NEW r \in Run, TouchWrite(r) \/ TouchList(r) \/ MergeWrite(r) \/ MergeList(r)
      PROVE Reported'
  <2>1. \A s \in Run \ {r} : worker'[s] = worker[s]
    BY <1>8, TurnType, Places DEF TouchWrite, TouchList, MergeWrite, MergeList
  <2>2. Over(r)' => Over(r)
    BY <1>8, TurnType, Places DEF TouchWrite, TouchList, MergeWrite, MergeList, Over, On
  <2> QED BY <1>8, <2>1, <2>2, ReportedKept DEF TouchWrite, TouchList, MergeWrite, MergeList, Over
<1>9. ASSUME NEW r \in Run, Signal(r) PROVE Reported'
  <2>1. CASE Turn(r, "exit") /\ LastWrite(r)
    BY <1>9, <2>1, TurnType, WriteType, Places DEF Signal, LastWrite, Reported, Over
  <2>2. CASE Turn(r, "stuck") /\ UNCHANGED status
    BY <1>9, <2>2, TurnType, Places, ReportedKept DEF Signal, Over
  <2> QED BY <1>9, <2>1, <2>2 DEF Signal
<1>10. ASSUME NEW r \in Run, Kill(r) PROVE Reported'
  BY <1>10, TurnType, Places, ReportedKept DEF Kill, Over
<1>11. ASSUME NEW g \in Thread, Request(g) PROVE Reported'
  BY <1>1, <1>2, <1>3, <1>4, <1>11
     DEF Request, CreateCheck, CreateWrite, CreateRead, CreateList, DeleteRead,
     DeleteCheck, DeleteDossier, DeleteReadIndex, DeleteList, SpawnCheck, RunsUnchanged
<1>12. ASSUME NEW r \in Run, Work(r) PROVE Reported'
  BY <1>5, <1>6, <1>7, <1>8, <1>12 DEF Work
<1>13. ASSUME NEW g \in Thread, EditFails(g) PROVE Reported'
  BY <1>1, <1>13 DEF EditFails
<1>14. ASSUME NEW r \in Run, UpdateFails(r) PROVE Reported'
  BY <1>14, TurnType, Places, ReportedKept DEF UpdateFails, Over
<1> QED BY <1>1, <1>9, <1>10, <1>11, <1>12, <1>13, <1>14 DEF DeepNext, GatewayCrash, deepVars

\* Whoever has left by itself or on a signal has reported, or was overwritten, or deleted.
THEOREM AlwaysReported == DeepSpec => []EndIsReported
<1>1. DeepInit => Reported
  BY DEF DeepInit, Reported, Over, NoWorker
<1>2. Reported => EndIsReported
  BY DEF Reported, Over, EndIsReported
<1> QED BY <1>1, <1>2, TypeCorrect, ReportedStep, PTL DEF DeepSpec

-----------------------------------------------------------------------------
(* Topics disagree only after edits that met or were cut short. *)

\* A step that leaves the topics alone and begins or completes no edit.
LEMMA EditBystander ==
    ASSUME EditInv, UNCHANGED <<dossiers, passes, listed>>, removed \subseteq removed',
           ~disturbed' => ~disturbed,
           \A g \in Thread : \/ call'[g] = call[g]
                             \/ /\ call'[g].at \notin GatewayEdits
                                /\ \/ disturbed'
                                   \/ call[g].at \notin {"createIndex", "createList", "unlist", "dropList"},
           \A r \in Run : worker'[r] = worker[r] \/ worker'[r].at \notin WorkerEdits \cup {"done"}
    PROVE  EditInv'
<1>1. Emptied'
  BY DEF EditInv, Emptied
<1>2. ASSUME ~disturbed' PROVE InStep'
  <2> USE <1>2 DEF EditInv, InStep
  <2>1. OneEditor'
    BY DEF OneEditor
  <2>2. ASSUME NEW g \in Thread PROVE CallStage(g)'
    BY DEF CallStage, GatewayEdits
  <2>3. ASSUME NEW r \in Run PROVE WorkerStage(r)'
    BY DEF WorkerStage, WorkerEdits
  <2>4. ASSUME NEW t \in Topic PROVE Agree(t)' \/ \E g \in Thread : Between(g, t)'
    <3>1. CASE Agree(t)
      BY <3>1 DEF Agree
    <3>2. ASSUME NEW g \in Thread, Between(g, t) PROVE Between(g, t)'
      BY <3>2 DEF Between
    <3> QED BY <3>1, <3>2
  <2> QED BY <2>1, <2>2, <2>3, <2>4
<1> QED BY <1>1, <1>2 DEF EditInv

\* A step of the only request that edits.
LEMMA CallEditStep ==
    ASSUME TypeInv, InStep, NEW g \in Thread,
           call[g].at \in GatewayEdits \/ Editing = {},
           OtherCalls(g), worker' = worker, removed \subseteq removed',
           CallStage(g)',
           \A t \in Topic : Agree(t) \/ Between(g, t) => Agree(t)' \/ Between(g, t)',
           \A t \in Topic : passes[t] \subseteq passes'[t] \cup removed'
    PROVE  InStep'
<1>1. \A h \in Thread \ {g} : call[h].at \notin GatewayEdits
  BY DEF InStep, OneEditor, Editing
<1>2. \A r \in Run : worker[r].at \notin WorkerEdits
  BY DEF InStep, OneEditor, Editing
<1>3. OneEditor'
  BY <1>1, <1>2 DEF OneEditor, OtherCalls
<1>4. ASSUME NEW h \in Thread PROVE CallStage(h)'
  <2>1. CASE h # g
    BY <1>1, <2>1 DEF CallStage, OtherCalls, GatewayEdits
  <2> QED BY <2>1
<1>5. ASSUME NEW r \in Run PROVE WorkerStage(r)'
  <2>1. worker[r].at = "done" => worker[r].topic \in Topic
    BY DEF TypeInv, Named
  <2> QED BY <1>2, <2>1 DEF InStep, WorkerStage, WorkerEdits
<1>6. ASSUME NEW t \in Topic PROVE Agree(t)' \/ \E h \in Thread : Between(h, t)'
  <2>1. Agree(t) \/ Between(g, t)
    BY <1>1 DEF InStep, Between, GatewayEdits
  <2> QED BY <2>1
<1> QED BY <1>3, <1>4, <1>5, <1>6 DEF InStep

\* A step of the only worker that edits: it adds passes and replaces the rest by itself.
LEMMA WorkerEditStep ==
    ASSUME TypeInv, InStep, NEW r \in Run,
           worker[r].at \in WorkerEdits \/ Editing = {},
           OtherWorkers(r), UNCHANGED <<call, removed, dossiers, listed>>,
           WorkerStage(r)',
           \A t \in Topic : passes[t] \subseteq passes'[t]
    PROVE  InStep'
<1>1. \A h \in Thread : call[h].at \notin GatewayEdits
  BY DEF InStep, OneEditor, Editing
<1>2. \A s \in Run \ {r} : worker[s].at \notin WorkerEdits
  BY DEF InStep, OneEditor, Editing
<1>3. OneEditor'
  BY <1>1, <1>2 DEF OneEditor, OtherWorkers
<1>4. ASSUME NEW h \in Thread PROVE CallStage(h)'
  BY <1>1 DEF CallStage, GatewayEdits
<1>5. ASSUME NEW s \in Run PROVE WorkerStage(s)'
  <2>1. CASE s # r
    <3>1. worker[s].at = "done" => worker[s].topic \in Topic
      BY DEF TypeInv, Named
    <3> QED BY <1>2, <2>1, <3>1 DEF InStep, WorkerStage, WorkerEdits, OtherWorkers
  <2> QED BY <2>1
<1>6. ASSUME NEW t \in Topic PROVE Agree(t)' \/ \E h \in Thread : Between(h, t)'
  <2>1. Agree(t)
    BY <1>1 DEF InStep, Between, GatewayEdits
  <2> QED BY <2>1 DEF Agree
<1> QED BY <1>3, <1>4, <1>5, <1>6 DEF InStep

LEMMA EditRequest ==
    ASSUME TypeInv, EditInv, NEW g \in Thread, Request(g)
    PROVE  EditInv'
<1> USE DEF TypeInv
<1>1. ASSUME NEW t \in Topic, CreateCheck(g, t) PROVE EditInv'
  <2>1. Emptied'
    BY <1>1 DEF CreateCheck, EditInv, Emptied
  <2>2. ASSUME ~disturbed' PROVE InStep'
    <3>1. InStep /\ Editing = {}
      BY <1>1, <2>2 DEF CreateCheck, BeginEdit, EditInv
    <3>2. CallStage(g)'
      <4>1. call'[g].at = "create" /\ call'[g].topic = t
        BY <1>1, CallReads
      <4> QED BY <1>1, <4>1 DEF CreateCheck, CallStage
    <3>3. \A u \in Topic : Agree(u) \/ Between(g, u) => Agree(u)'
      BY <1>1 DEF CreateCheck, Agree, Between, At
    <3> QED BY <1>1, <3>1, <3>2, <3>3, CallReads, CallEditStep DEF CreateCheck, RunsUnchanged
  <2> QED BY <2>1, <2>2 DEF EditInv
<1>2. CASE CreateWrite(g)
  <2>1. call[g].topic \in Topic /\ call[g].at = "create"
    BY <1>2 DEF CreateWrite, At, Named
  <2>2. Emptied'
    BY <1>2, <2>1 DEF CreateWrite, EditInv, Emptied, DeepTypeOK
  <2>3. ASSUME ~disturbed' PROVE InStep'
    <3>1. InStep
      BY <1>2, <2>3 DEF CreateWrite, EditInv
    <3>2. /\ OtherCalls(g) /\ call'[g].at = "createIndex" /\ call'[g].topic = call[g].topic
      BY <1>2, GoType, Places DEF CreateWrite, OtherCalls
    <3>3. call[g].topic \notin dossiers
      BY <2>1, <3>1 DEF InStep, CallStage
    <3>4. call[g].topic \notin listed
      BY <2>1, <3>1, <3>3 DEF InStep, OneEditor, Agree, Between, GatewayEdits
    <3>5. CallStage(g)'
      BY <1>2, <3>2, <3>4 DEF CreateWrite, CallStage
    <3>6. \A u \in Topic : Agree(u) \/ Between(g, u) => Agree(u)' \/ Between(g, u)'
      BY <1>2, <2>1, <3>2 DEF CreateWrite, Agree, Between
    <3>7. \A u \in Topic : passes[u] \subseteq passes'[u]
      BY <1>2, <2>1, <3>3 DEF CreateWrite, EditInv, Emptied, DeepTypeOK
    <3> QED BY <1>2, <2>1, <3>1, <3>2, <3>5, <3>6, <3>7, CallEditStep
               DEF CreateWrite, RunsUnchanged, GatewayEdits
  <2> QED BY <2>2, <2>3 DEF EditInv
<1>3. CASE CreateRead(g) \/ DeleteReadIndex(g)
  <2>1. Emptied'
    BY <1>3 DEF CreateRead, DeleteReadIndex, EditInv, Emptied
  <2>2. ASSUME ~disturbed' PROVE InStep'
    <3>1. InStep
      BY <1>3, <2>2 DEF CreateRead, DeleteReadIndex, EditInv
    <3>2. /\ \/ call[g].at = "createIndex" /\ call'[g].at = "createList"
             \/ call[g].at = "unlist" /\ call'[g].at = "dropList"
          /\ OtherCalls(g) /\ call'[g].topic = call[g].topic /\ call'[g].listed = listed
      <4>1. CASE CreateRead(g)
        BY <4>1, CallReads DEF CreateRead, At
      <4>2. CASE DeleteReadIndex(g)
        BY <4>2, CallReads DEF DeleteReadIndex, At
      <4> QED BY <1>3, <4>1, <4>2
    <3>3. UNCHANGED <<dossiers, passes, listed, worker, removed>>
      BY <1>3 DEF CreateRead, DeleteReadIndex, RunsUnchanged
    <3>4. CallStage(g)'
      BY <3>1, <3>2, <3>3 DEF InStep, CallStage
    <3>5. \A u \in Topic : Agree(u) \/ Between(g, u) => Agree(u)' \/ Between(g, u)'
      BY <3>2, <3>3 DEF Agree, Between
    <3> QED BY <3>1, <3>2, <3>3, <3>4, <3>5, CallEditStep DEF GatewayEdits
  <2> QED BY <2>1, <2>2 DEF EditInv
<1>4. CASE CreateList(g) \/ DeleteList(g)
  <2>1. Emptied'
    BY <1>4 DEF CreateList, DeleteList, EditInv, Emptied
  <2>2. ASSUME ~disturbed' PROVE InStep'
    <3>1. InStep
      BY <1>4, <2>2 DEF CreateList, DeleteList, EditInv
    <3>2. OtherCalls(g) /\ call'[g].at = "idle" /\ call[g].at \in {"createList", "dropList"}
      BY <1>4, AnswerType DEF CreateList, DeleteList, OtherCalls, At
    <3>3. UNCHANGED <<dossiers, passes, worker, removed>>
      BY <1>4 DEF CreateList, DeleteList, RunsUnchanged
    <3>4. CallStage(g)'
      BY <3>2 DEF CallStage
    <3>5. listed' = IF call[g].topic \in dossiers THEN listed \cup {call[g].topic}
                                                  ELSE listed \ {call[g].topic}
      BY <1>4, <3>1 DEF CreateList, DeleteList, InStep, CallStage, At
    <3>6. \A u \in Topic : Agree(u) \/ Between(g, u) => Agree(u)'
      BY <3>3, <3>5 DEF Agree, Between
    <3> QED BY <3>1, <3>2, <3>3, <3>4, <3>6, CallEditStep DEF GatewayEdits
  <2> QED BY <2>1, <2>2 DEF EditInv
<1>5. ASSUME NEW t \in Topic, DeleteRead(g, t) PROVE EditInv'
  <2>1. Emptied'
    BY <1>5 DEF DeleteRead, EditInv, Emptied
  <2>2. ASSUME ~disturbed' PROVE InStep'
    <3>1. InStep /\ Editing = {}
      BY <1>5, <2>2 DEF DeleteRead, BeginEdit, EditInv
    <3>2. CallStage(g)'
      <4>1. call'[g].at = "check" /\ call'[g].topic = t /\ call'[g].passes = passes[t]
        BY <1>5, CallReads
      <4> QED BY <1>5, <4>1 DEF DeleteRead, CallStage
    <3>3. \A u \in Topic : Agree(u) \/ Between(g, u) => Agree(u)'
      BY <1>5 DEF DeleteRead, Agree, Between, At
    <3> QED BY <1>5, <3>1, <3>2, <3>3, CallReads, CallEditStep DEF DeleteRead, RunsUnchanged
  <2> QED BY <2>1, <2>2 DEF EditInv
<1>6. CASE DeleteCheck(g)
  <2>1. CASE ActiveIn(call[g].topic) = {}
    <3>1. Emptied'
      BY <1>6 DEF DeleteCheck, EditInv, Emptied
    <3>2. ASSUME ~disturbed' PROVE InStep'
      <4>1. InStep /\ call[g].at = "check"
        BY <1>6, <3>2 DEF DeleteCheck, EditInv, At
      <4>2. CallStage(g)'
        BY <1>6, <2>1, <4>1, CallReads DEF DeleteCheck, InStep, CallStage
      <4>3. \A u \in Topic : Agree(u) \/ Between(g, u) => Agree(u)'
        BY <1>6, <4>1 DEF DeleteCheck, Agree, Between
      <4> QED BY <1>6, <2>1, <4>1, <4>2, <4>3, CallReads, CallEditStep
              DEF DeleteCheck, RunsUnchanged, GatewayEdits
    <3> QED BY <3>1, <3>2 DEF EditInv
  <2>2. CASE ActiveIn(call[g].topic) # {}
    BY <1>6, <2>2, AnswerType, EditBystander DEF DeleteCheck, RunsUnchanged, GatewayEdits, At
  <2> QED BY <2>1, <2>2
<1>7. CASE DeleteRuns(g)
  <2>1. Emptied'
    BY <1>7 DEF DeleteRuns, EditInv, Emptied
  <2>2. ASSUME ~disturbed' PROVE InStep'
    <3>1. InStep /\ call[g].at = "clear"
      BY <1>7, <2>2 DEF DeleteRuns, EditInv, At
    <3>2. OtherCalls(g) /\ call'[g].at = "unlink" /\ call'[g].topic = call[g].topic
      BY <1>7, GoType, Places DEF DeleteRuns, OtherCalls
    <3>3. removed' = removed \cup call[g].passes
      BY <1>7 DEF DeleteRuns, ListedRuns
    <3>4. CallStage(g)'
      BY <1>7, <3>1, <3>2, <3>3 DEF DeleteRuns, InStep, CallStage
    <3>5. \A u \in Topic : Agree(u) \/ Between(g, u) => Agree(u)'
      BY <1>7, <3>1 DEF DeleteRuns, Agree, Between
    <3> QED BY <1>7, <3>1, <3>2, <3>3, <3>4, <3>5, CallEditStep DEF DeleteRuns, GatewayEdits
  <2> QED BY <2>1, <2>2 DEF EditInv
<1>8. CASE DeleteDossier(g)
  <2>1. call[g].topic \in Topic /\ call[g].at = "unlink"
    BY <1>8 DEF DeleteDossier, At, Named
  <2>2. Emptied'
    BY <1>8, <2>1 DEF DeleteDossier, EditInv, Emptied, DeepTypeOK
  <2>3. ASSUME ~disturbed' PROVE InStep'
    <3>1. InStep
      BY <1>8, <2>3 DEF DeleteDossier, EditInv
    <3>2. call[g].topic \in dossiers /\ passes[call[g].topic] \subseteq removed
      BY <2>1, <3>1 DEF InStep, CallStage
    <3>3. OtherCalls(g) /\ call'[g].at = "unlist" /\ call'[g].topic = call[g].topic
      BY <1>8, <3>2, GoType, Places DEF DeleteDossier, OtherCalls
    <3>4. call[g].topic \in listed
      BY <2>1, <3>1, <3>2 DEF InStep, OneEditor, Agree, Between, GatewayEdits
    <3>5. CallStage(g)'
      BY <1>8, <3>3, <3>4 DEF DeleteDossier, CallStage
    <3>6. \A u \in Topic : Agree(u) \/ Between(g, u) => Agree(u)' \/ Between(g, u)'
      BY <1>8, <2>1, <3>3 DEF DeleteDossier, Agree, Between
    <3>7. \A u \in Topic : passes[u] \subseteq passes'[u] \cup removed'
      BY <1>8, <2>1, <3>2 DEF DeleteDossier, RunsUnchanged, DeepTypeOK
    <3> QED BY <1>8, <2>1, <3>1, <3>3, <3>5, <3>6, <3>7, CallEditStep
               DEF DeleteDossier, RunsUnchanged, GatewayEdits
  <2> QED BY <2>2, <2>3 DEF EditInv
<1>9. ASSUME NEW t \in Topic, SpawnCheck(g, t) PROVE EditInv'
  <2>1. OtherCalls(g) /\ call'[g].at = "spawn" /\ call[g].at = "idle"
    BY <1>9, CallReads DEF SpawnCheck, At
  <2> QED BY <1>9, <2>1, EditBystander DEF SpawnCheck, OtherCalls, GatewayEdits
<1>10. ASSUME NEW r \in Run, Spawn(g, r) PROVE EditInv'
  <2>1. call[g].at = "spawn"
    BY <1>10 DEF Spawn, At
  <2>2. OtherCalls(g) /\ call'[g].at = "stamp" /\ OtherWorkers(r) /\ worker'[r].at = "boot"
    BY <1>10, SpawnEffect
  <2>3. UNCHANGED <<dossiers, passes, listed, removed, disturbed>>
    BY <1>10 DEF Spawn
  <2>4. ASSUME NEW h \in Thread
        PROVE  call'[h] = call[h] \/ (call'[h].at \notin GatewayEdits /\ call[h].at = "spawn")
    <3>1. CASE h = g
      BY <2>1, <2>2, <3>1 DEF GatewayEdits
    <3>2. CASE h # g
      BY <2>2, <3>2 DEF OtherCalls
    <3> QED BY <3>1, <3>2
  <2>5. \A s \in Run : worker'[s] = worker[s] \/ worker'[s].at \notin WorkerEdits \cup {"done"}
    BY <2>2 DEF OtherWorkers, WorkerEdits
  <2> QED BY <2>3, <2>4, <2>5, EditBystander
<1>11. CASE Stamp(g)
  <2>1. call[g].at = "stamp" /\ OtherCalls(g) /\ call'[g].at = "idle"
    BY <1>11, AnswerType DEF Stamp, At, OtherCalls
  <2> QED BY <1>11, <2>1, EditBystander DEF Stamp, OtherCalls, GatewayEdits
<1> QED BY <1>1, <1>2, <1>3, <1>4, <1>5, <1>6, <1>7, <1>8, <1>9, <1>10, <1>11 DEF Request

LEMMA EditWork ==
    ASSUME TypeInv, EditInv, NEW r \in Run, Work(r)
    PROVE  EditInv'
<1> USE DEF TypeInv
<1>1. CASE Boot(r) \/ Report(r) \/ EngineEnds(r)
  <2>1. OtherWorkers(r) /\ worker'[r].at \in {"status", "touch", "merge", "exit", "final"}
    BY <1>1, TurnType, WorkerReads, Places DEF Boot, Report, OtherWorkers
  <2> QED BY <1>1, <2>1, EditBystander
          DEF Boot, Report, EngineEnds, FilesUnchanged, OtherWorkers, WorkerEdits
<1>2. CASE TouchRead(r) \/ MergeRead(r)
  <2>1. CASE worker[r].topic \in dossiers
    <3>1. Emptied'
      BY <1>2 DEF TouchRead, MergeRead, FilesUnchanged, EditInv, Emptied
    <3>2. ASSUME ~disturbed' PROVE InStep'
      <4>1. InStep /\ Editing = {}
        BY <1>2, <2>1, <3>2 DEF TouchRead, MergeRead, BeginEdit, EditInv
      <4>2. /\ OtherWorkers(r) /\ worker'[r].topic = worker[r].topic
            /\ worker'[r].at \in {"touchWrite", "mergeWrite"}
            /\ worker'[r].passes = passes[worker[r].topic]
        BY <1>2, <2>1, WorkerReads
      <4>3. WorkerStage(r)'
        BY <1>2, <2>1, <4>2 DEF TouchRead, MergeRead, FilesUnchanged, WorkerStage
      <4> QED BY <1>2, <4>1, <4>2, <4>3, WorkerEditStep DEF TouchRead, MergeRead, FilesUnchanged
    <3> QED BY <3>1, <3>2 DEF EditInv
  <2>2. CASE worker[r].topic \notin dossiers
    <3>1. OtherWorkers(r) /\ worker'[r].at \in {"engine", "error"}
      BY <1>2, <2>2, TurnType, Places DEF TouchRead, MergeRead, OtherWorkers
    <3> QED BY <1>2, <2>2, <3>1, EditBystander
               DEF TouchRead, MergeRead, FilesUnchanged, OtherWorkers, WorkerEdits
  <2> QED BY <2>1, <2>2
<1>3. CASE TouchWrite(r) \/ MergeWrite(r)
  <2>1. worker[r].topic \in Topic /\ worker[r].at \in {"touchWrite", "mergeWrite"}
    BY <1>3 DEF TouchWrite, MergeWrite, On, Named
  <2>2. Emptied'
    BY <1>3, <2>1 DEF TouchWrite, MergeWrite, EditInv, Emptied, DeepTypeOK
  <2>3. ASSUME ~disturbed' PROVE InStep'
    <3>1. InStep
      BY <1>3, <2>3 DEF TouchWrite, MergeWrite, EditInv
    <3>2. worker[r].topic \in dossiers /\ worker[r].passes = passes[worker[r].topic]
      BY <2>1, <3>1 DEF InStep, WorkerStage
    <3>3. /\ OtherWorkers(r) /\ worker'[r].topic = worker[r].topic
          /\ \/ TouchWrite(r) /\ worker'[r].at = "touchIndex"
             \/ MergeWrite(r) /\ worker'[r].at = "mergeIndex"
      BY <1>3, TurnType, Places DEF TouchWrite, MergeWrite, OtherWorkers
    <3>4. UNCHANGED <<dossiers, listed, removed, call>>
      BY <1>3, <3>2 DEF TouchWrite, MergeWrite
    <3>5. \A t \in Topic : passes[t] \subseteq passes'[t]
      BY <1>3, <2>1, <3>2 DEF TouchWrite, MergeWrite, DeepTypeOK
    <3>6. MergeWrite(r) => r \in passes'[worker[r].topic]
      BY <2>1 DEF MergeWrite, DeepTypeOK
    <3>7. WorkerStage(r)'
      BY <3>3, <3>6 DEF WorkerStage
    <3> QED BY <2>1, <3>1, <3>3, <3>4, <3>5, <3>7, WorkerEditStep DEF WorkerEdits
  <2> QED BY <2>2, <2>3 DEF EditInv
<1>4. CASE TouchReadIndex(r) \/ MergeReadIndex(r)
  <2>1. CASE TouchReadIndex(r) /\ worker[r].topic \notin listed
    <3>1. OtherWorkers(r) /\ worker'[r].at = "engine"
      BY <2>1, TurnType, Places DEF TouchReadIndex, OtherWorkers
    <3> QED BY <2>1, <3>1, EditBystander
               DEF TouchReadIndex, FilesUnchanged, OtherWorkers, WorkerEdits
  <2>2. CASE MergeReadIndex(r) \/ worker[r].topic \in listed
    <3>1. Emptied'
      BY <1>4 DEF TouchReadIndex, MergeReadIndex, FilesUnchanged, EditInv, Emptied
    <3>2. ASSUME ~disturbed' PROVE InStep'
      <4>1. InStep
        BY <1>4, <3>2 DEF TouchReadIndex, MergeReadIndex, EditInv
      <4>2. /\ OtherWorkers(r) /\ worker'[r].topic = worker[r].topic /\ worker'[r].listed = listed
            /\ \/ worker[r].at = "touchIndex" /\ worker'[r].at = "touchList"
               \/ worker[r].at = "mergeIndex" /\ worker'[r].at = "mergeList"
        BY <1>4, <2>2, WorkerReads DEF TouchReadIndex, MergeReadIndex, On
      <4>3. UNCHANGED <<dossiers, passes, listed, removed, call>>
        BY <1>4 DEF TouchReadIndex, MergeReadIndex, FilesUnchanged
      <4>4. WorkerStage(r)'
        BY <4>1, <4>2, <4>3 DEF InStep, WorkerStage
      <4> QED BY <4>1, <4>2, <4>3, <4>4, WorkerEditStep DEF WorkerEdits
    <3> QED BY <3>1, <3>2 DEF EditInv
  <2> QED BY <1>4, <2>1, <2>2
<1>5. CASE TouchList(r) \/ MergeList(r)
  <2>1. Emptied'
    BY <1>5 DEF TouchList, MergeList, EditInv, Emptied
  <2>2. ASSUME ~disturbed' PROVE InStep'
    <3>1. InStep
      BY <1>5, <2>2 DEF TouchList, MergeList, EditInv
    <3>2. /\ OtherWorkers(r) /\ worker'[r].topic = worker[r].topic
          /\ \/ worker[r].at = "touchList" /\ worker'[r].at = "engine"
             \/ worker[r].at = "mergeList" /\ worker'[r].at = "done"
      BY <1>5, TurnType, Places DEF TouchList, MergeList, OtherWorkers, On
    <3>3. UNCHANGED <<dossiers, passes, listed, removed, call>>
      BY <1>5, <3>1, <3>2 DEF TouchList, MergeList, InStep, WorkerStage
    <3>4. WorkerStage(r)'
      BY <3>1, <3>2, <3>3 DEF InStep, WorkerStage
    <3> QED BY <3>1, <3>2, <3>3, <3>4, WorkerEditStep DEF WorkerEdits
  <2> QED BY <2>1, <2>2 DEF EditInv
<1> QED BY <1>1, <1>2, <1>3, <1>4, <1>5 DEF Work

LEMMA EditStep == TypeInv /\ EditInv /\ [DeepNext]_deepVars => EditInv'
<1> SUFFICES ASSUME TypeInv, EditInv, [DeepNext]_deepVars PROVE EditInv'
  OBVIOUS
<1>1. CASE UNCHANGED deepVars
  BY <1>1, EditBystander DEF deepVars
<1>2. ASSUME NEW r \in Run, Signal(r) \/ Kill(r) PROVE EditInv'
  <2>1. OtherWorkers(r) /\ worker'[r].at \in {"exit", "stuck", "dead"}
    BY <1>2, TurnType, Places DEF Signal, Kill, OtherWorkers, TypeInv
  <2>2. ~disturbed' => ~disturbed
    BY <1>2 DEF Signal, Kill, CutShort
  <2> QED BY <1>2, <2>1, <2>2, EditBystander DEF Signal, Kill, OtherWorkers, WorkerEdits
<1>3. CASE GatewayCrash
  <2>1. ~disturbed' => ~disturbed /\ \A g \in Thread : call[g].at \notin GatewayEdits
    BY <1>3 DEF GatewayCrash, CutShort, Editing
  <2>2. \A g \in Thread : call'[g].at = "idle"
    BY <1>3 DEF GatewayCrash, Served
  <2> QED BY <1>3, <2>1, <2>2, EditBystander DEF GatewayCrash, GatewayEdits
<1>4. ASSUME NEW g \in Thread, EditFails(g) PROVE EditInv'
  <2>1. \A h \in Thread \ {g} : call'[h] = call[h]
    BY <1>4, AnswerType DEF EditFails, TypeInv
  <2>2. call'[g].at = "idle"
    BY <1>4, AnswerType DEF EditFails, TypeInv
  <2>3. disturbed'
    BY <1>4 DEF EditFails, CutShort, Editing
  <2> QED BY <1>4, <2>1, <2>2, <2>3, EditBystander DEF EditFails, GatewayEdits
<1>5. ASSUME NEW r \in Run, UpdateFails(r) PROVE EditInv'
  <2>1. OtherWorkers(r) /\ worker'[r].at \in {"engine", "error"}
    BY <1>5, TurnType, Places DEF UpdateFails, OtherWorkers, TypeInv
  <2>2. ~disturbed' => ~disturbed
    BY <1>5 DEF UpdateFails, CutShort
  <2> QED BY <1>5, <2>1, <2>2, EditBystander DEF UpdateFails, OtherWorkers, WorkerEdits
<1> QED BY <1>1, <1>2, <1>3, <1>4, <1>5, EditRequest, EditWork DEF DeepNext

\* Index and dossiers are in step, and every pass that ended is listed, or edits have met or been
\* cut short.
THEOREM AlwaysInStep == DeepSpec => []TopicsAgree
<1>1. DeepInit => EditInv
  BY DEF DeepInit, EditInv, Emptied, InStep, OneEditor, CallStage, WorkerStage, Agree, Served,
         NoWorker, GatewayEdits, WorkerEdits
<1>2. EditInv => TopicsAgree
  BY DEF EditInv, InStep, WorkerStage, Agree, Between, TopicsAgree, Editing, GatewayEdits, On
<1> QED BY <1>1, <1>2, TypeCorrect, EditStep, PTL DEF DeepSpec

-----------------------------------------------------------------------------
(* The searches of a topic exceed one by no more than the requests that could not see another. *)

LEMMA ClaimsFinite == \A t : IsFiniteSet(Claims(t))
<1> SUFFICES ASSUME NEW t PROVE IsFiniteSet(Claims(t))
  OBVIOUS
<1>1. IsFiniteSet(Thread \cup Run)
  BY DeepSearchAssumption, FS_Union
<1>2. Claims(t) \in SUBSET (Thread \cup Run)
  BY DEF Claims
<1> QED BY <1>1, <1>2, FS_Subset

\* A step after which a topic has no new claims.
LEMMA CountedKept ==
    ASSUME TypeInv, Counted, lapses' = lapses, \A t \in Topic : Claims(t)' \subseteq Claims(t)
    PROVE  Counted'
<1> SUFFICES ASSUME NEW t \in Topic PROVE Cardinality(Claims(t)') <= 1 + lapses
  BY DEF Counted
<1>1. IsFiniteSet(Claims(t)) /\ Claims(t)' \in SUBSET Claims(t)
  BY ClaimsFinite
<1>2. Cardinality(Claims(t)') <= Cardinality(Claims(t))
  BY <1>1, FS_Subset
<1>3. Cardinality(Claims(t)) \in Nat /\ Cardinality(Claims(t)') \in Nat
  BY <1>1, FS_Subset, FS_CardinalityType
<1> QED BY <1>2, <1>3 DEF Counted, TypeInv, DeepTypeOK

\* A request that starts no pass.
LEMMA RequestClaims ==
    ASSUME TypeInv, ClaimInv, NEW g \in Thread,
           UNCHANGED <<status, removed, worker, lapses>>, OtherCalls(g), call'[g].at # "spawn",
           \A t \in Topic : passes'[t] = passes[t] \/ passes'[t] = {},
           \/ call'[g].passes = call[g].passes \/ call'[g].passes = {}
           \/ \E t \in Topic : call'[g].passes = passes[t]
    PROVE  ClaimInv'
<1>1. Listed'
  <2>1. \A r \in call'[g].passes : Merged(r)
    BY DEF ClaimInv, Listed
  <2>2. \A h \in Thread : \A r \in call'[h].passes : Merged(r)
    <3> SUFFICES ASSUME NEW h \in Thread PROVE \A r \in call'[h].passes : Merged(r)
      OBVIOUS
    <3>1. CASE h = g
      BY <2>1, <3>1
    <3>2. CASE h # g
      BY <3>2 DEF OtherCalls, ClaimInv, Listed
    <3> QED BY <3>1, <3>2
  <2> QED BY <2>2 DEF ClaimInv, Listed, Merged
<1>2. Seen'
  BY DEF ClaimInv, Seen, Searching, Alive
<1>3. \A t \in Topic : Claims(t)' \subseteq Claims(t)
  BY DEF Claims, Searching, Alive, OtherCalls
<1> QED BY <1>1, <1>2, <1>3, CountedKept DEF ClaimInv

\* A worker that goes on: no search begins, no merge is undone, and it is seen as before.
LEMMA WorkerClaims ==
    ASSUME TypeInv, ClaimInv, NEW r \in Run,
           UNCHANGED <<removed, call, lapses>>, OtherWorkers(r),
           worker'[r].topic = worker[r].topic,
           Searching(r)' => Searching(r) /\ worker'[r].at # "boot" /\ status'[r] = "RUNNING",
           Merged(r) => Merged(r)', \A s \in Run \ {r} : status'[s] = status[s],
           \A t \in Topic : \A s \in passes'[t] : Merged(s)',
           \/ worker'[r].passes = {} \/ worker'[r].passes = worker[r].passes
           \/ \E t \in Topic : worker'[r].passes = passes[t]
    PROVE  ClaimInv'
<1>1. \A s \in Run : Merged(s) => Merged(s)'
  BY DEF Merged, OtherWorkers
<1>2. Listed'
  <2>1. removed \subseteq Run
    BY DEF TypeInv, DeepTypeOK
  <2>2. \A g \in Thread : call[g].passes \in SUBSET Run
    BY CallFields DEF TypeInv
  <2>3. \A s \in Run : worker[s].passes \in SUBSET Run
    BY WorkerFields DEF TypeInv
  <2>4. \A t \in Topic : passes[t] \in SUBSET Run
    BY TableFields DEF TypeInv
  <2>5. \A s \in Run : \A u \in worker'[s].passes : u \in Run /\ Merged(u)
    <3> SUFFICES ASSUME NEW s \in Run PROVE \A u \in worker'[s].passes : u \in Run /\ Merged(u)
      OBVIOUS
    <3>1. CASE s = r
      BY <2>3, <2>4, <3>1 DEF ClaimInv, Listed
    <3>2. CASE s # r
      BY <2>3, <3>2 DEF OtherWorkers, ClaimInv, Listed
    <3> QED BY <3>1, <3>2
  <2>6. \A g \in Thread : \A u \in call'[g].passes : Merged(u)'
    BY <1>1, <2>2 DEF ClaimInv, Listed
  <2>7. \A u \in removed' : Merged(u)'
    BY <1>1, <2>1 DEF ClaimInv, Listed
  <2>8. \A s \in Run : \A u \in worker'[s].passes : Merged(u)'
    BY <1>1, <2>5
  <2> QED BY <2>6, <2>7, <2>8 DEF Listed
<1>3. Seen'
  <2> SUFFICES ASSUME NEW s \in Run, Searching(s)', worker'[s].at # "boot"
               PROVE  status'[s] = "RUNNING"
    BY DEF Seen
  <2>1. CASE s = r
    BY <2>1
  <2>2. CASE s # r
    BY <2>2 DEF ClaimInv, Seen, Searching, Alive, OtherWorkers
  <2> QED BY <2>1, <2>2
<1>4. ASSUME NEW t \in Topic PROVE Claims(t)' \subseteq Claims(t)
  <2>1. ASSUME NEW s \in Run, Searching(s)', worker'[s].topic = t
        PROVE  Searching(s) /\ worker[s].topic = t
    <3>1. CASE s = r
      BY <2>1, <3>1
    <3>2. CASE s # r
      BY <2>1, <3>2 DEF Searching, Alive, OtherWorkers
    <3> QED BY <3>1, <3>2
  <2> QED BY <2>1 DEF Claims
<1> QED BY <1>2, <1>3, <1>4, CountedKept DEF ClaimInv

LEMMA ClaimRequest ==
    ASSUME TypeInv, ClaimInv, NEW g \in Thread, Request(g)
    PROVE  ClaimInv'
<1> USE DEF TypeInv
<1>1. ASSUME NEW t \in Topic, CreateCheck(g, t) \/ DeleteRead(g, t) PROVE ClaimInv'
  <2>1. OtherCalls(g) /\ call'[g].at \in {"create", "check"}
    BY <1>1, CallReads
  <2>2. call'[g].passes = call[g].passes \/ call'[g].passes = passes[t]
    BY <1>1, CallReads
  <2> QED BY <1>1, <2>1, <2>2, RequestClaims DEF CreateCheck, DeleteRead, RunsUnchanged
<1>2. CASE CreateWrite(g) \/ DeleteDossier(g)
  <2>1. OtherCalls(g) /\ call'[g].at \in {"createIndex", "unlist", "idle"} /\ call'[g].passes = {}
    BY <1>2, GoType, AnswerType, Places DEF CreateWrite, DeleteDossier, OtherCalls
  <2>2. \A t \in Topic : passes'[t] = passes[t] \/ passes'[t] = {}
    BY <1>2 DEF CreateWrite, DeleteDossier, DeepTypeOK
  <2> QED BY <1>2, <2>1, <2>2, RequestClaims DEF CreateWrite, DeleteDossier, RunsUnchanged
<1>3. CASE CreateRead(g) \/ DeleteReadIndex(g)
  <2>1. OtherCalls(g) /\ call'[g].at \in {"createList", "dropList"}
    BY <1>3, CallReads
  <2>2. call'[g].passes = call[g].passes
    BY <1>3, CallReads
  <2> QED BY <1>3, <2>1, <2>2, RequestClaims DEF CreateRead, DeleteReadIndex, RunsUnchanged
<1>4. CASE CreateList(g) \/ DeleteList(g)
  <2>1. OtherCalls(g) /\ call'[g].at = "idle" /\ call'[g].passes = {}
    BY <1>4, AnswerType DEF CreateList, DeleteList, OtherCalls
  <2> QED BY <1>4, <2>1, RequestClaims DEF CreateList, DeleteList, RunsUnchanged
<1>5. CASE DeleteCheck(g)
  <2>1. /\ OtherCalls(g) /\ call'[g].at # "spawn"
        /\ call'[g].passes = call[g].passes \/ call'[g].passes = {}
    <3>1. CASE ActiveIn(call[g].topic) = {}
      BY <1>5, <3>1, CallReads
    <3>2. CASE ActiveIn(call[g].topic) # {}
      BY <1>5, <3>2, AnswerType DEF DeleteCheck, OtherCalls
    <3> QED BY <3>1, <3>2
  <2> QED BY <1>5, <2>1, RequestClaims DEF DeleteCheck, RunsUnchanged
<1>6. CASE DeleteRuns(g)
  <2>1. OtherCalls(g) /\ call'[g].at = "unlink" /\ call'[g].passes = {}
    BY <1>6, GoType, Places DEF DeleteRuns, OtherCalls
  <2>2. \A r \in ListedRuns(g) : Merged(r)
    BY DEF ListedRuns, ClaimInv, Listed
  <2>3. Listed'
    <3>1. \A h \in Thread : \A r \in call'[h].passes : Merged(r)
      BY <2>1 DEF OtherCalls, ClaimInv, Listed
    <3> QED BY <1>6, <2>2, <3>1 DEF DeleteRuns, ClaimInv, Listed, Merged
  <2>4. Seen'
    <3> SUFFICES ASSUME NEW r \in Run, Searching(r)', worker'[r].at # "boot"
                 PROVE  status'[r] = "RUNNING"
      BY DEF Seen
    <3>1. Searching(r) /\ worker[r].at # "boot"
      BY <1>6 DEF DeleteRuns, Searching, Alive
    <3>2. ~Merged(r)
      BY <3>1 DEF Searching, Alive, Merged, Merging
    <3> QED BY <1>6, <2>2, <3>1, <3>2 DEF DeleteRuns, ClaimInv, Seen
  <2>5. \A t \in Topic : Claims(t)' \subseteq Claims(t)
    BY <1>6, <2>1 DEF DeleteRuns, Claims, Searching, Alive, OtherCalls
  <2> QED BY <1>6, <2>3, <2>4, <2>5, CountedKept DEF DeleteRuns, ClaimInv
<1>7. ASSUME NEW t \in Topic, SpawnCheck(g, t) PROVE ClaimInv'
  <2>1. /\ OtherCalls(g) /\ call'[g].at = "spawn" /\ call'[g].topic = t
        /\ call'[g].passes = call[g].passes
    BY <1>7, CallReads
  <2>2. UNCHANGED <<passes, status, removed, worker>>
    BY <1>7 DEF SpawnCheck
  <2>3. Listed'
    <3>1. \A h \in Thread : call'[h].passes = call[h].passes
      BY <2>1 DEF OtherCalls
    <3> QED BY <2>2, <3>1 DEF ClaimInv, Listed, Merged
  <2>4. Seen'
    BY <2>2 DEF ClaimInv, Seen, Searching, Alive
  <2>5. ASSUME NEW u \in Topic PROVE Cardinality(Claims(u)') <= 1 + lapses'
    <3>1. IsFiniteSet(Claims(u)) /\ Cardinality(Claims(u)) \in Nat /\ lapses \in Nat
      BY ClaimsFinite, FS_CardinalityType DEF DeepTypeOK
    <3>2. lapses' = lapses \/ lapses' = lapses + 1
      BY <1>7 DEF SpawnCheck
    <3>3. Claims(u)' \subseteq Claims(u) \cup {g}
      BY <2>1, <2>2 DEF Claims, Searching, Alive, OtherCalls
    <3>4. Cardinality(Claims(u)) <= 1 + lapses
      BY DEF ClaimInv, Counted
    <3>5. CASE u # t
      <4>1. Claims(u)' \in SUBSET Claims(u)
        BY <2>1, <2>2, <3>5 DEF Claims, Searching, Alive, OtherCalls
      <4>2. Cardinality(Claims(u)') <= Cardinality(Claims(u)) /\ Cardinality(Claims(u)') \in Nat
        BY <3>1, <4>1, FS_Subset, FS_CardinalityType
      <4> QED BY <3>1, <3>2, <3>4, <4>2
    <3>6. CASE u = t /\ Unseen # {}
      <4>1. /\ IsFiniteSet(Claims(u) \cup {g})
            /\ Cardinality(Claims(u) \cup {g}) <= Cardinality(Claims(u)) + 1
        <5>1. /\ IsFiniteSet(Claims(u) \cup {g})
              /\ \/ Cardinality(Claims(u) \cup {g}) = Cardinality(Claims(u))
                 \/ Cardinality(Claims(u) \cup {g}) = Cardinality(Claims(u)) + 1
          BY <3>1, FS_AddElement
        <5> QED BY <3>1, <5>1
      <4>2. Cardinality(Claims(u)') <= Cardinality(Claims(u) \cup {g})
        BY <3>3, <4>1, FS_Subset
      <4>3. Cardinality(Claims(u)') \in Nat /\ Cardinality(Claims(u) \cup {g}) \in Nat
        BY <3>3, <4>1, FS_Subset, FS_CardinalityType
      <4>4. lapses' = lapses + 1
        BY <1>7, <3>6 DEF SpawnCheck
      <4> QED BY <3>1, <3>4, <4>1, <4>2, <4>3, <4>4
    <3>7. CASE u = t /\ Unseen = {}
      <4>1. \A r \in Run : Searching(r) => worker[r].topic # t
        BY <1>7, <3>7 DEF SpawnCheck, HasRoom, ActiveIn, Active, Unseen, ClaimInv, Seen
      <4>2. Claims(u) = {}
        BY <3>7, <4>1 DEF Claims, Unseen
      <4>3. Claims(u)' \in SUBSET {g}
        BY <3>3, <4>2
      <4>4. Cardinality(Claims(u)') <= 1 /\ Cardinality(Claims(u)') \in Nat
        <5>1. IsFiniteSet({g}) /\ Cardinality({g}) = 1
          BY FS_Singleton
        <5> QED BY <4>3, <5>1, FS_Subset, FS_CardinalityType
      <4> QED BY <3>1, <3>2, <4>4
    <3> QED BY <3>5, <3>6, <3>7
  <2>6. Counted'
    BY <2>5 DEF Counted
  <2> QED BY <2>3, <2>4, <2>6 DEF ClaimInv
<1>8. ASSUME NEW r \in Run, Spawn(g, r) PROVE ClaimInv'
  <2>1. /\ OtherCalls(g) /\ call'[g].at = "stamp" /\ call'[g].passes = call[g].passes
        /\ OtherWorkers(r) /\ worker'[r].at = "boot" /\ worker'[r].topic = call[g].topic
        /\ worker'[r].passes = worker[r].passes
    BY <1>8, SpawnEffect
  <2>2. worker[r].at = "none" /\ call[g].at = "spawn" /\ UNCHANGED <<passes, status, removed, lapses>>
    BY <1>8 DEF Spawn, At
  <2>3. \A s \in Run : Merged(s) => Merged(s)'
    BY <2>1, <2>2 DEF Merged, OtherWorkers
  <2>4. Listed'
    <3>1. \A h \in Thread : call'[h].passes \in SUBSET Run /\ \A s \in call'[h].passes : Merged(s)
      <4>1. \A h \in Thread : call'[h].passes = call[h].passes
        BY <2>1 DEF OtherCalls
      <4> QED BY <4>1, CallFields DEF ClaimInv, Listed
    <3>2. \A u \in Run : worker'[u].passes \in SUBSET Run /\ \A s \in worker'[u].passes : Merged(s)
      <4>1. \A u \in Run : worker'[u].passes = worker[u].passes
        BY <2>1 DEF OtherWorkers
      <4> QED BY <4>1, WorkerFields DEF ClaimInv, Listed
    <3>3. \A t \in Topic : passes'[t] \in SUBSET Run /\ \A s \in passes'[t] : Merged(s)
      BY <2>2, TableFields DEF ClaimInv, Listed
    <3>4. removed' \subseteq Run /\ \A s \in removed' : Merged(s)
      BY <2>2 DEF DeepTypeOK, ClaimInv, Listed
    <3> QED BY <2>3, <3>1, <3>2, <3>3, <3>4 DEF Listed
  <2>5. Seen'
    <3> SUFFICES ASSUME NEW s \in Run, Searching(s)', worker'[s].at # "boot"
                 PROVE  status'[s] = "RUNNING"
      BY DEF Seen
    <3> QED BY <2>1, <2>2 DEF ClaimInv, Seen, Searching, Alive, OtherWorkers
  <2>6. ASSUME NEW t \in Topic PROVE Cardinality(Claims(t)') <= 1 + lapses
    <3>1. IsFiniteSet(Claims(t)) /\ Cardinality(Claims(t)) \in Nat /\ lapses \in Nat
      BY ClaimsFinite, FS_CardinalityType DEF DeepTypeOK
    <3>2. Cardinality(Claims(t)) <= 1 + lapses
      BY DEF ClaimInv, Counted
    <3>3. CASE call[g].topic = t
      <4>1. g \in Claims(t)
        BY <2>2, <3>3 DEF Claims
      <4>2. Claims(t)' \in SUBSET ((Claims(t) \ {g}) \cup {r})
        <5>1. g \notin Run
          BY DeepSearchAssumption
        <5>2. \A h \in Thread : call'[h].at = "spawn" => h # g /\ call'[h] = call[h]
          BY <2>1 DEF OtherCalls
        <5>3. \A s \in Run : Searching(s)' => s = r \/ (Searching(s) /\ worker'[s] = worker[s])
          BY <2>1 DEF OtherWorkers, Searching, Alive
        <5> QED BY <5>1, <5>2, <5>3 DEF Claims
      <4>3. /\ IsFiniteSet(Claims(t) \ {g})
            /\ Cardinality(Claims(t) \ {g}) = Cardinality(Claims(t)) - 1
        BY <3>1, <4>1, FS_RemoveElement
      <4>4. Cardinality(Claims(t) \ {g}) \in Nat
        BY <4>3, FS_CardinalityType
      <4>5. /\ IsFiniteSet((Claims(t) \ {g}) \cup {r})
            /\ Cardinality((Claims(t) \ {g}) \cup {r}) <= Cardinality(Claims(t) \ {g}) + 1
        BY <4>3, <4>4, FS_AddElement
      <4>6. Cardinality((Claims(t) \ {g}) \cup {r}) \in Nat
        BY <4>5, FS_CardinalityType
      <4>7. /\ Cardinality(Claims(t)') <= Cardinality((Claims(t) \ {g}) \cup {r})
            /\ Cardinality(Claims(t)') \in Nat
        BY <4>2, <4>5, FS_Subset, FS_CardinalityType
      <4> QED BY <3>1, <3>2, <4>3, <4>4, <4>5, <4>6, <4>7
    <3>4. CASE call[g].topic # t
      <4>1. Claims(t)' \in SUBSET Claims(t)
        BY <2>1, <3>4 DEF Claims, Searching, Alive, OtherCalls, OtherWorkers
      <4>2. Cardinality(Claims(t)') <= Cardinality(Claims(t)) /\ Cardinality(Claims(t)') \in Nat
        BY <3>1, <4>1, FS_Subset, FS_CardinalityType
      <4> QED BY <3>1, <3>2, <4>2
    <3> QED BY <3>3, <3>4
  <2>7. Counted'
    BY <2>2, <2>6 DEF Counted
  <2> QED BY <2>4, <2>5, <2>7 DEF ClaimInv
<1>9. CASE Stamp(g)
  <2>1. OtherCalls(g) /\ call'[g].at = "idle" /\ call'[g].passes = {}
    BY <1>9, AnswerType DEF Stamp, OtherCalls
  <2>2. UNCHANGED <<passes, removed, worker, lapses>>
    BY <1>9 DEF Stamp
  <2>3. Listed'
    <3>1. \A h \in Thread : \A s \in call'[h].passes : Merged(s)
      BY <2>1 DEF OtherCalls, ClaimInv, Listed
    <3> QED BY <2>2, <3>1 DEF ClaimInv, Listed, Merged
  <2>4. Seen'
    <3> SUFFICES ASSUME NEW s \in Run, Searching(s)', worker'[s].at # "boot"
                 PROVE  status'[s] = "RUNNING"
      BY DEF Seen
    <3>1. Searching(s) /\ worker[s].at # "boot"
      BY <2>2 DEF Searching, Alive
    <3>2. s \notin removed
      BY <3>1 DEF ClaimInv, Listed, Searching, Alive, Merged, Merging
    <3>3. status[s] = "RUNNING"
      BY <3>1 DEF ClaimInv, Seen
    <3> QED BY <1>9, <3>2, <3>3 DEF Stamp, DeepTypeOK
  <2>5. \A t \in Topic : Claims(t)' \subseteq Claims(t)
    BY <2>1, <2>2 DEF Claims, Searching, Alive, OtherCalls
  <2> QED BY <2>2, <2>3, <2>4, <2>5, CountedKept DEF ClaimInv
<1> QED BY <1>1, <1>2, <1>3, <1>4, <1>5, <1>6, <1>7, <1>8, <1>9 DEF Request

\* A copy of the passes that a dossier lists is a set of merged passes.
LEMMA PassesMerged ==
    ASSUME TypeInv, Listed, passes' = passes, NEW r \in Run, OtherWorkers(r),
           Merged(r) => Merged(r)'
    PROVE  \A t \in Topic : \A s \in passes'[t] : Merged(s)'
<1>1. \A t \in Topic : \A s \in passes[t] : s \in Run /\ Merged(s)
  BY TableFields DEF TypeInv, Listed
<1>2. \A s \in Run : Merged(s) => Merged(s)'
  BY DEF Merged, OtherWorkers
<1> QED BY <1>1, <1>2

LEMMA ClaimWork ==
    ASSUME TypeInv, ClaimInv, NEW r \in Run, Work(r)
    PROVE  ClaimInv'
<1> USE DEF TypeInv
<1>1. Searching(r) /\ worker[r].at # "boot" => status[r] = "RUNNING"
  BY DEF ClaimInv, Seen
<1>2. Searching(r) => r \notin removed
  BY DEF ClaimInv, Listed, Searching, Alive, Merged, Merging
<1>3. CASE Boot(r) \/ Report(r)
  <2>1. OtherWorkers(r) /\ worker'[r].topic = worker[r].topic /\ worker'[r].passes = {}
    BY <1>3, TurnType, Places DEF Boot, Report, OtherWorkers
  <2>2. \/ On(r, "boot")   /\ worker'[r].at = "status" /\ Write(r, "RUNNING")
        \/ On(r, "status") /\ worker'[r].at = "touch" /\ Write(r, "RUNNING")
        \/ On(r, "final")  /\ worker'[r].at = "merge" /\ Write(r, worker[r].verdict)
        \/ On(r, "error")  /\ worker'[r].at = "exit" /\ Write(r, worker[r].verdict)
    BY <1>3, TurnType, Places DEF Boot, Report
  <2>3. \A s \in Run \ {r} : status'[s] = status[s]
    BY <2>2, WorkerFields, WriteType DEF VerdictKind
  <2>4. Searching(r)' => Searching(r) /\ worker'[r].at # "boot" /\ status'[r] = "RUNNING"
    BY <1>2, <2>2, WriteType DEF Searching, Alive, Gone, On
  <2>5. Merged(r) => Merged(r)'
    BY <2>2 DEF Merged, Merging, Gone, On
  <2>6. UNCHANGED <<passes, removed, call, lapses>>
    BY <1>3 DEF Boot, Report, FilesUnchanged
  <2>7. \A t \in Topic : \A s \in passes'[t] : Merged(s)'
    BY <2>1, <2>5, <2>6, PassesMerged DEF ClaimInv
  <2> QED BY <2>1, <2>3, <2>4, <2>5, <2>6, <2>7, WorkerClaims
<1>4. CASE TouchRead(r) \/ TouchReadIndex(r) \/ EngineEnds(r) \/ MergeRead(r) \/ MergeReadIndex(r)
  <2>1. OtherWorkers(r) /\ worker'[r].topic = worker[r].topic
    BY <1>4, WorkerReads, TurnType, Places
       DEF TouchRead, TouchReadIndex, MergeRead, OtherWorkers
  <2>2. \/ worker'[r].passes = {} \/ worker'[r].passes = worker[r].passes
        \/ \E t \in Topic : worker'[r].passes = passes[t]
    <3>1. worker[r].at \in {"touch", "merge"} => worker[r].topic \in Topic
      BY DEF Named
    <3> QED BY <1>4, <3>1, WorkerReads, TurnType, Places
            DEF TouchRead, TouchReadIndex, MergeRead, On
  <2>3. \/ /\ worker[r].at \in {"touch", "touchIndex", "engine"}
           /\ worker'[r].at \in {"touchWrite", "touchList", "engine", "final"}
        \/ worker[r].at = "merge" /\ worker'[r].at \in {"mergeWrite", "error"}
        \/ worker[r].at = "mergeIndex" /\ worker'[r].at = "mergeList"
    BY <1>4, WorkerReads, TurnType, Places
       DEF TouchRead, TouchReadIndex, EngineEnds, MergeRead, MergeReadIndex, On
  <2>4. UNCHANGED <<passes, status, removed, call, lapses>>
    BY <1>4 DEF TouchRead, TouchReadIndex, EngineEnds, MergeRead, MergeReadIndex, FilesUnchanged
  <2>5. Searching(r)' => Searching(r) /\ worker'[r].at # "boot" /\ status'[r] = "RUNNING"
    BY <1>1, <2>3, <2>4 DEF Searching, Alive, Gone
  <2>6. Merged(r) => Merged(r)'
    BY <2>3 DEF Merged, Merging, Gone
  <2>7. \A t \in Topic : \A s \in passes'[t] : Merged(s)'
    BY <2>1, <2>4, <2>6, PassesMerged DEF ClaimInv
  <2> QED BY <2>1, <2>2, <2>4, <2>5, <2>6, <2>7, WorkerClaims
<1>5. CASE TouchList(r) \/ MergeList(r)
  <2>1. OtherWorkers(r) /\ worker'[r].topic = worker[r].topic /\ worker'[r].passes = {}
    BY <1>5, TurnType, Places DEF TouchList, MergeList, OtherWorkers
  <2>2. \/ worker[r].at = "touchList" /\ worker'[r].at = "engine"
        \/ worker[r].at = "mergeList" /\ worker'[r].at = "done"
    BY <1>5, TurnType, Places DEF TouchList, MergeList, On
  <2>3. UNCHANGED <<passes, status, removed, call, lapses>>
    BY <1>5 DEF TouchList, MergeList
  <2>4. Searching(r)' => Searching(r) /\ worker'[r].at # "boot" /\ status'[r] = "RUNNING"
    BY <1>1, <2>2, <2>3 DEF Searching, Alive, Gone
  <2>5. Merged(r) => Merged(r)'
    BY <2>2 DEF Merged, Merging, Gone
  <2>6. \A t \in Topic : \A s \in passes'[t] : Merged(s)'
    BY <2>1, <2>3, <2>5, PassesMerged DEF ClaimInv
  <2> QED BY <2>1, <2>3, <2>4, <2>5, <2>6, WorkerClaims
<1>6. CASE TouchWrite(r) \/ MergeWrite(r)
  <2>1. OtherWorkers(r) /\ worker'[r].topic = worker[r].topic /\ worker'[r].passes = {}
    BY <1>6, TurnType, Places DEF TouchWrite, MergeWrite, OtherWorkers
  <2>2. \/ TouchWrite(r) /\ worker[r].at = "touchWrite" /\ worker'[r].at = "touchIndex"
        \/ MergeWrite(r) /\ worker[r].at = "mergeWrite" /\ worker'[r].at = "mergeIndex"
    BY <1>6, TurnType, Places DEF TouchWrite, MergeWrite, On
  <2>3. UNCHANGED <<status, removed, call, lapses>>
    BY <1>6 DEF TouchWrite, MergeWrite
  <2>4. Searching(r)' => Searching(r) /\ worker'[r].at # "boot" /\ status'[r] = "RUNNING"
    BY <1>1, <2>2, <2>3 DEF Searching, Alive, Gone
  <2>5. Merged(r) => Merged(r)'
    BY <2>2 DEF Merged, Merging, Gone
  <2>6. \A s \in Run : Merged(s) => Merged(s)'
    BY <2>1, <2>5 DEF Merged, OtherWorkers
  <2>7. \A s \in worker[r].passes : s \in Run /\ Merged(s)
    BY WorkerFields DEF ClaimInv, Listed
  <2>8. MergeWrite(r) => Merged(r)'
    BY <2>2, TurnType, Places DEF MergeWrite, Merged, Merging
  <2>9. \A t \in Topic : \A s \in passes'[t] : Merged(s)'
    <3> SUFFICES ASSUME NEW t \in Topic, NEW s \in passes'[t] PROVE Merged(s)'
      OBVIOUS
    <3>1. s \in passes[t] \/ s \in worker[r].passes \/ (MergeWrite(r) /\ s = r)
      <4>1. worker[r].topic \in Topic
        BY <2>2 DEF Named
      <4>2. CASE TouchWrite(r)
        BY <4>1, <4>2 DEF TouchWrite, DeepTypeOK
      <4>3. CASE MergeWrite(r)
        BY <4>1, <4>3 DEF MergeWrite, DeepTypeOK
      <4> QED BY <2>2, <4>2, <4>3
    <3>2. s \in passes[t] => s \in Run /\ Merged(s)
      BY TableFields DEF ClaimInv, Listed
    <3> QED BY <2>6, <2>7, <2>8, <3>1, <3>2
  <2> QED BY <2>1, <2>3, <2>4, <2>5, <2>9, WorkerClaims
<1> QED BY <1>3, <1>4, <1>5, <1>6 DEF Work

LEMMA ClaimStep == TypeInv /\ ClaimInv /\ [DeepNext]_deepVars => ClaimInv'
<1> SUFFICES ASSUME TypeInv, ClaimInv, [DeepNext]_deepVars PROVE ClaimInv'
  OBVIOUS
<1>1. CASE UNCHANGED deepVars
  BY <1>1 DEF deepVars, ClaimInv, Listed, Merged, Seen, Counted, Claims, Searching, Alive
<1>2. ASSUME NEW r \in Run, Signal(r) \/ Kill(r) PROVE ClaimInv'
  <2>1. /\ OtherWorkers(r) /\ worker'[r].topic = worker[r].topic /\ worker'[r].passes = {}
        /\ worker'[r].at \in {"exit", "stuck", "dead"}
    BY <1>2, TurnType, Places DEF Signal, Kill, OtherWorkers, TypeInv
  <2>2. ~Searching(r)' /\ Merged(r)'
    BY <2>1 DEF Searching, Alive, Gone, Merged, Merging
  <2>3. UNCHANGED <<passes, removed, call, lapses>>
    BY <1>2 DEF Signal, Kill
  <2>4. \A s \in Run \ {r} : status'[s] = status[s]
    BY <1>2, WriteType DEF Signal, Kill, LastWrite, TypeInv
  <2>5. \A t \in Topic : \A s \in passes'[t] : Merged(s)'
    BY <2>1, <2>2, <2>3, PassesMerged DEF ClaimInv
  <2> QED BY <2>1, <2>2, <2>3, <2>4, <2>5, WorkerClaims
<1>3. CASE GatewayCrash
  <2>1. \A g \in Thread : call'[g].at = "idle" /\ call'[g].passes = {}
    BY <1>3 DEF GatewayCrash, Served
  <2>2. UNCHANGED <<passes, status, removed, worker, lapses>>
    BY <1>3 DEF GatewayCrash
  <2>3. Listed'
    BY <2>1, <2>2 DEF ClaimInv, Listed, Merged
  <2>4. Seen'
    BY <2>2 DEF ClaimInv, Seen, Searching, Alive
  <2>5. \A t \in Topic : Claims(t)' \subseteq Claims(t)
    BY <2>1, <2>2 DEF Claims, Searching, Alive
  <2> QED BY <2>2, <2>3, <2>4, <2>5, CountedKept DEF ClaimInv
<1>4. ASSUME NEW g \in Thread, EditFails(g) PROVE ClaimInv'
  <2>1. OtherCalls(g) /\ call'[g].at = "idle" /\ call'[g].passes = {}
    BY <1>4, AnswerType DEF EditFails, OtherCalls, TypeInv
  <2> QED BY <1>4, <2>1, RequestClaims DEF EditFails
<1>5. ASSUME NEW r \in Run, UpdateFails(r) PROVE ClaimInv'
  <2>1. OtherWorkers(r) /\ worker'[r].topic = worker[r].topic /\ worker'[r].passes = {}
    BY <1>5, TurnType, Places DEF UpdateFails, OtherWorkers, TypeInv
  <2>2. \/ /\ worker[r].at \in {"touch", "touchWrite", "touchIndex", "touchList"}
           /\ worker'[r].at = "engine"
        \/ worker'[r].at = "error"
    BY <1>5, TurnType, Places DEF UpdateFails, TypeInv
  <2>3. UNCHANGED <<passes, status, removed, call, lapses>>
    BY <1>5 DEF UpdateFails
  <2>4. Searching(r)' => Searching(r) /\ worker'[r].at # "boot" /\ status'[r] = "RUNNING"
    BY <2>2, <2>3 DEF ClaimInv, Seen, Searching, Alive, Gone
  <2>5. Merged(r) => Merged(r)'
    BY <2>2 DEF Merged, Merging, Gone
  <2>6. \A t \in Topic : \A s \in passes'[t] : Merged(s)'
    BY <2>1, <2>3, <2>5, PassesMerged DEF ClaimInv
  <2> QED BY <2>1, <2>3, <2>4, <2>5, <2>6, WorkerClaims
<1> QED BY <1>1, <1>2, <1>3, <1>4, <1>5, ClaimRequest, ClaimWork DEF DeepNext

\* The passes of one topic that search exceed one by no more than the requests that could not see
\* a pass already granted.
THEOREM SearchesBounded == DeepSpec => []OneSearchPerTopic
<1>1. DeepInit => ClaimInv
  <2> SUFFICES ASSUME DeepInit PROVE ClaimInv
    OBVIOUS
  <2>1. Served.at = "idle" /\ Served.passes = {} /\ NoWorker.at = "none" /\ NoWorker.passes = {}
    BY DEF Served, NoWorker
  <2>2. Listed
    BY <2>1 DEF DeepInit, Listed
  <2>3. \A r \in Run : ~Searching(r)
    BY <2>1 DEF DeepInit, Searching, Alive, Gone
  <2>4. \A t \in Topic : Claims(t) = {}
    BY <2>1, <2>3 DEF DeepInit, Claims
  <2> QED BY <2>2, <2>3, <2>4, FS_EmptySet DEF DeepInit, ClaimInv, Seen, Counted
<1>2. TypeInv /\ ClaimInv => OneSearchPerTopic
  <2> SUFFICES ASSUME TypeInv, ClaimInv, NEW t \in Topic
               PROVE  Cardinality({r \in Run : Searching(r) /\ worker[r].topic = t}) <= 1 + lapses
    BY DEF OneSearchPerTopic
  <2>1. {r \in Run : Searching(r) /\ worker[r].topic = t} \in SUBSET Claims(t)
    BY DEF Claims
  <2>2. Cardinality(Claims(t)) <= 1 + lapses /\ lapses \in Nat
    BY DEF ClaimInv, Counted, TypeInv, DeepTypeOK
  <2>3. /\ Cardinality({r \in Run : Searching(r) /\ worker[r].topic = t}) <= Cardinality(Claims(t))
        /\ Cardinality({r \in Run : Searching(r) /\ worker[r].topic = t}) \in Nat
        /\ Cardinality(Claims(t)) \in Nat
    BY <2>1, ClaimsFinite, FS_Subset, FS_CardinalityType
  <2> QED BY <2>2, <2>3
<1> QED BY <1>1, <1>2, TypeCorrect, ClaimStep, PTL DEF DeepSpec
=============================================================================
