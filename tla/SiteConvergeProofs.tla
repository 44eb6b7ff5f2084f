-------------------------- MODULE SiteConvergeProofs --------------------------
(***************************************************************************)
(* Theorems about SiteConverge, for every site, host set and choice of     *)
(* answers, dry runs and stops.  The invariants that make its properties   *)
(* inductive are stated here.                                              *)
(***************************************************************************)
EXTENDS SiteConverge, FiniteSetTheorems, TLAPS

-----------------------------------------------------------------------------
(* Type correctness *)

LEMMA PlayType ==
    ASSUME NEW p \in DOMAIN Site
    PROVE  /\ p \in Nat
           /\ Site[p].on \subseteq AllHosts /\ Site[p].isolated \in BOOLEAN
           /\ Site[p].tasks \in Seq(TaskKinds)
<1>1. Site \in Seq(Play)
  BY SiteAssumption
<1>2. Site[p] \in Play /\ p \in Nat
  BY <1>1
<1> QED
  BY <1>2 DEF Play

LEMMA NoTaskIsNone == NoTask \notin TaskTiming
  BY DEF NoTask, TaskTiming

LEMMA ClosedType ==
    ASSUME TypeOK
    PROVE  Closed \in Seq(TaskTiming)
  BY DEF TypeOK, Closed

LEMMA CountedType ==
    ASSUME NEW t \in TaskTiming, NEW o
    PROVE  Counted(t, o) \in TaskTiming
  BY DEF Counted, OneIf, TaskTiming

\* The kind of the task under way is one of the task kinds, or the rescue's.
LEMMA KindType ==
    ASSUME TypeOK, play \in DOMAIN Site, step > 0
    PROVE  Kind \in TaskKinds \cup {"record"}
<1>1. Tasks \in Seq(TaskKinds)
  BY PlayType DEF Tasks
<1> QED
  BY <1>1 DEF Kind, TypeOK

LEMMA TypeInit == Init => TypeOK
<1> SUFFICES ASSUME Init PROVE TypeOK
  OBVIOUS
<1>1. 0 \in 0 .. Len(Site)
  BY SiteAssumption
<1>2. check \in BOOLEAN /\ cli \in BOOLEAN /\ reach \in BOOLEAN
  BY SiteAssumption DEF Init
<1>3. /\ stats \in [AllHosts -> SUBSET {"ok", "failures", "unreachable", "rescued"}]
      /\ done \in [AllHosts -> SUBSET DOMAIN Site]
  BY DEF Init
<1>4. tasks \in Seq(TaskTiming) /\ \A i \in DOMAIN hec : Batch(hec[i])
  BY DEF Init
<1> QED
  BY <1>1, <1>2, <1>3, <1>4 DEF Init, TypeOK, InProgress

\* A new batch leaves the list of batches well typed.
LEMMA PostType ==
    ASSUME TypeOK, NEW b, Batch(b), Post(b)
    PROVE  \A i \in DOMAIN hec' : Batch(hec'[i])
  BY DEF Post, TypeOK

LEMMA TypeNext == TypeOK /\ [Next]_vars => TypeOK'
<1> SUFFICES ASSUME TypeOK, [Next]_vars PROVE TypeOK'
  OBVIOUS
<1>0. CASE UNCHANGED vars
  BY <1>0 DEF vars, TypeOK, InProgress, world, executor, callback, history, Batch, AllHosts
<1>1. CASE StartPlay
  BY <1>1 DEF StartPlay, TypeOK, InProgress, world, callback, history
<1>2. CASE NextTask
  <2>1. Site[play].on \subseteq AllHosts /\ Tasks \in Seq(TaskKinds)
    BY <1>2, PlayType DEF NextTask, TypeOK, InProgress, Tasks
  <2>2. tasks' \in Seq(TaskTiming) /\ open' \in TaskTiming
    BY <1>2, ClosedType DEF NextTask, OnTaskStart, TaskRecord, TaskTiming
  <2>3. step' \in Nat /\ step' > 0 /\ waiting' \subseteq AllHosts
    BY <1>2, <2>1 DEF NextTask, TypeOK, Candidates
  <2> QED
    BY <1>2, <2>1, <2>2, <2>3, NoTaskIsNone DEF NextTask, TypeOK, InProgress, world
<1>3. ASSUME NEW h \in AllHosts, NEW o \in AllOutcomes, Report(h, o) PROVE TypeOK'
  <2>1. pc = "results" /\ play \in DOMAIN Site /\ step > 0 /\ open \in TaskTiming
    BY <1>3 DEF Report, TypeOK, InProgress
  <2>2. open' \in TaskTiming
    BY <1>3, <2>1, CountedType DEF Report
  <2>3. log' \subseteq LogEntry
    BY <1>3, <2>1, KindType DEF Report, TypeOK, LogEntry
  <2>4. unreached' \subseteq [host : AllHosts, task : Nat]
    BY <1>3, <2>1 DEF Report, Explained, TypeOK, TaskTiming
  <2>5. ASSUME NEW c \in {"ok", "failures", "unreachable", "rescued"}, Counter(h, c)
        PROVE  stats' \in [AllHosts -> SUBSET {"ok", "failures", "unreachable", "rescued"}]
    BY <2>5 DEF Counter, TypeOK
  <2>6. /\ stats' \in [AllHosts -> SUBSET {"ok", "failures", "unreachable", "rescued"}]
        /\ failed' \subseteq AllHosts /\ rescuing' \subseteq AllHosts
        /\ unreachable' \subseteq AllHosts /\ missed' \subseteq AllHosts
    BY <1>3, <2>5 DEF Report, Fails, Unreached, TypeOK
  <2>7. /\ waiting' \subseteq AllHosts /\ isolated' \subseteq AllHosts
        /\ config' \in {"none", "real", "check"}
        /\ pc' \in {"next", "results"} /\ (pc' = "next" => waiting' = {})
    BY <1>3 DEF Report, TypeOK
  <2> QED
    BY <1>3, <2>1, <2>2, <2>3, <2>4, <2>6, <2>7, NoTaskIsNone
    DEF Report, TypeOK, InProgress, world
<1>4. CASE EndPlay
  <2>1. done' \in [AllHosts -> SUBSET DOMAIN Site]
    BY <1>4 DEF EndPlay, TypeOK, InProgress
  <2> QED
    BY <1>4, <2>1 DEF EndPlay, TypeOK, InProgress, world, executor, callback
<1>5. CASE OnStats
  BY <1>5 DEF OnStats, TypeOK, InProgress, world, executor, history
<1>6. CASE Emit
  <2>1. Batch(ConvergeBatch)
    BY DEF Batch, ConvergeBatch, Processed, HostStatus, Verdicts
  <2>2. \A i \in DOMAIN hec' : Batch(hec'[i])
    BY <1>6, <2>1, PostType DEF Emit, TypeOK
  <2> QED
    BY <1>6, <2>2, ClosedType DEF Emit, TypeOK, InProgress, world, executor, history
<1>7. CASE AtExit
  <2>1. Batch(InterruptedBatch)
    BY DEF Batch, InterruptedBatch
  <2>2. \A i \in DOMAIN hec' : Batch(hec'[i])
    BY <1>7, <2>1, PostType DEF AtExit, TypeOK
  <2> QED
    BY <1>7, <2>2, ClosedType DEF AtExit, TypeOK, InProgress, world, executor, history
<1>8. CASE Interrupt \/ Kill
  BY <1>8 DEF Interrupt, Kill, TypeOK, InProgress, world, executor, callback, history
<1> QED
  BY <1>0, <1>1, <1>2, <1>3, <1>4, <1>5, <1>6, <1>7, <1>8 DEF Next, Converge, Result

\* Every variable of a run holds a value of its type, and results come in only
\* within a play and while a task is open to take them.
THEOREM TypeCorrect == Spec => []TypeOK
  BY TypeInit, TypeNext, PTL DEF Spec

-----------------------------------------------------------------------------
(* Faithful task records *)

\* The open task and the closed ones count what was logged of them, each host
\* answers a task once, and nothing is published before the end.
RecordsInv ==
    /\ IsFiniteSet(log)
    /\ \A e \in log : e.task <= started
    /\ Len(tasks) = IF open = NoTask THEN started ELSE started - 1
    /\ \A n \in DOMAIN tasks : tasks[n] = RecordOf(n)
    /\ open # NoTask => open = RecordOf(started)
    /\ pc = "results" =>
         \A e \in log : e.task = started => e.host \notin waiting
    /\ hec # <<>> => pc \in {"exit", "ended"}
    /\ TaskRecordsFaithful

\* A new result of a task adds to the counts of that task it belongs to.
LEMMA OneMoreAnswer ==
    ASSUME IsFiniteSet(log), NEW e, e \notin log, log' = log \cup {e}, NEW n, NEW os
    PROVE  Answered(n, os)' = IF e.task = n /\ e.outcome \in os
                              THEN Answered(n, os) + 1 ELSE Answered(n, os)
<1> DEFINE A == {x \in log : x.task = n /\ x.outcome \in os}
           B == {x \in log' : x.task = n /\ x.outcome \in os}
<1>1. Answered(n, os) = Cardinality(A) /\ Answered(n, os)' = Cardinality(B)
  BY DEF Answered
<1>2. A \subseteq log /\ e \notin A
  OBVIOUS
<1>3. IsFiniteSet(A)
  BY <1>2, FS_Subset
<1>4. B = IF e.task = n /\ e.outcome \in os THEN A \cup {e} ELSE A
  OBVIOUS
<1> HIDE DEF A, B
<1> QED
  BY <1>1, <1>2, <1>3, <1>4, FS_AddElement

\* A task of which nothing is logged yet counts nothing.
LEMMA NoAnswerYet ==
    ASSUME NEW n, \A e \in log : e.task # n, NEW os
    PROVE  Answered(n, os) = 0
<1>1. {e \in log : e.task = n /\ e.outcome \in os} = {}
  OBVIOUS
<1> QED
  BY <1>1, FS_EmptySet DEF Answered

\* What is published is every task that started.
LEMMA ClosedFaithful ==
    ASSUME TypeOK, RecordsInv
    PROVE  /\ Len(Closed) = started
           /\ \A n \in DOMAIN Closed : Closed[n] = RecordOf(n)
<1>1. tasks \in Seq(TaskTiming) /\ started \in Nat
  BY DEF TypeOK
<1>2. CASE open = NoTask
  BY <1>1, <1>2 DEF Closed, RecordsInv
<1>3. CASE open # NoTask
  <2>1. open \in TaskTiming /\ open = RecordOf(started) /\ Len(tasks) = started - 1
    BY <1>3 DEF RecordsInv, TypeOK
  <2>2. Closed = Append(tasks, open) /\ Len(Closed) = started
    BY <1>1, <1>3, <2>1 DEF Closed
  <2>3. ASSUME NEW n \in DOMAIN Closed PROVE Closed[n] = RecordOf(n)
    <3>1. CASE n = started
      BY <1>1, <2>1, <2>2, <3>1
    <3>2. CASE n # started
      <4>1. n \in DOMAIN tasks /\ Closed[n] = tasks[n]
        BY <1>1, <2>1, <2>2, <3>2
      <4> QED
        BY <4>1 DEF RecordsInv
    <3> QED
      BY <3>1, <3>2
  <2> QED
    BY <2>2, <2>3
<1> QED
  BY <1>2, <1>3

LEMMA RecordsInit == Init => RecordsInv
<1> SUFFICES ASSUME Init PROVE RecordsInv
  OBVIOUS
<1>1. IsFiniteSet(log)
  BY FS_EmptySet DEF Init
<1> QED
  BY <1>1 DEF Init, RecordsInv, TaskRecordsFaithful

\* Steps that leave tasks, results and published batches alone.
LEMMA RecordsKept ==
    ASSUME RecordsInv, UNCHANGED <<log, started, tasks, open, hec>>,
           pc' = "results" => pc = "results" /\ waiting' \subseteq waiting,
           hec # <<>> => pc' \in {"exit", "ended"}
    PROVE  RecordsInv'
<1>1. \A n : RecordOf(n)' = RecordOf(n)
  BY DEF RecordOf, Answered
<1> QED
  BY <1>1 DEF RecordsInv, TaskRecordsFaithful

\* Steps that end a run, whether they publish its tasks or not.
LEMMA RecordsPosted ==
    ASSUME TypeOK, RecordsInv, UNCHANGED <<log, started>>,
           pc' \in {"exit", "ended"},
           \/ UNCHANGED <<hec, tasks, open>>
           \/ /\ \E b : Post(b) /\ b.tasks = Closed
              /\ tasks' = Closed /\ open' = NoTask
    PROVE  RecordsInv'
<1>1. \A n : RecordOf(n)' = RecordOf(n)
  BY DEF RecordOf, Answered
<1>2. CASE UNCHANGED <<hec, tasks, open>>
  BY <1>1, <1>2 DEF RecordsInv, TaskRecordsFaithful
<1>3. ASSUME NEW b, Post(b), b.tasks = Closed, tasks' = Closed, open' = NoTask
      PROVE  RecordsInv'
  <2>1. Len(tasks') = started' /\ \A n \in DOMAIN tasks' : tasks'[n] = RecordOf(n)'
    BY <1>1, <1>3, ClosedFaithful
  <2>2. TaskRecordsFaithful'
    <3> SUFFICES ASSUME NEW i \in DOMAIN hec'
                 PROVE  /\ Len(hec'[i].tasks) = started'
                        /\ \A n \in DOMAIN hec'[i].tasks : hec'[i].tasks[n] = RecordOf(n)'
      BY DEF TaskRecordsFaithful
    <3>1. \/ i \in DOMAIN hec /\ hec'[i] = hec[i]
          \/ hec'[i].tasks = tasks'
      BY <1>3 DEF Post, TypeOK
    <3> QED
      BY <1>1, <2>1, <3>1 DEF RecordsInv, TaskRecordsFaithful
  <2> QED
    BY <1>3, <2>1, <2>2 DEF RecordsInv
<1> QED
  BY <1>2, <1>3

LEMMA RecordsNextTask ==
    ASSUME TypeOK, RecordsInv, NextTask
    PROVE  RecordsInv'
<1>1. started \in Nat /\ started' = started + 1 /\ log' = log /\ hec' = hec
      /\ pc = "next" /\ pc' = "results"
  BY DEF NextTask, TypeOK
<1>2. \A n : RecordOf(n)' = RecordOf(n)
  BY <1>1 DEF RecordOf, Answered
<1>3. Len(tasks') = started /\ \A n \in DOMAIN tasks' : tasks'[n] = RecordOf(n)'
  BY <1>2, ClosedFaithful DEF NextTask, OnTaskStart
<1>4. \A e \in log : e.task # started + 1
  BY <1>1 DEF RecordsInv, TypeOK, LogEntry
<1>5. RecordOf(started + 1) = TaskRecord(started + 1)
  BY <1>4, NoAnswerYet DEF RecordOf, TaskRecord
<1>6. open' = RecordOf(started)' /\ open' # NoTask
  <2>1. open' = TaskRecord(started + 1)
    BY <1>3 DEF NextTask, OnTaskStart
  <2> QED
    BY <1>1, <1>5, <2>1 DEF TaskRecord, NoTask, RecordOf, Answered
<1>7. \A e \in log : e.task <= started'
  BY <1>1 DEF RecordsInv, TypeOK, LogEntry
<1>8. hec = <<>>
  BY <1>1 DEF RecordsInv
<1> QED
  BY <1>1, <1>3, <1>4, <1>6, <1>7, <1>8 DEF RecordsInv, TaskRecordsFaithful

LEMMA RecordsReport ==
    ASSUME TypeOK, RecordsInv, NEW h \in AllHosts, NEW o \in AllOutcomes, Report(h, o)
    PROVE  RecordsInv'
<1> DEFINE e0 == [task |-> started, kind |-> Kind, host |-> h, outcome |-> o]
<1>1. /\ pc = "results" /\ h \in waiting /\ waiting' = waiting \ {h}
      /\ open \in TaskTiming /\ started \in Nat /\ IsFiniteSet(log)
      /\ log' = log \cup {e0} /\ open' = Counted(open, o)
      /\ UNCHANGED <<started, tasks, hec>>
  BY DEF Report, TypeOK, InProgress, RecordsInv
<1>2. e0 \notin log
  BY <1>1 DEF RecordsInv
<1>3. ASSUME NEW n, NEW os
      PROVE  Answered(n, os)' = IF started = n /\ o \in os
                                THEN Answered(n, os) + 1 ELSE Answered(n, os)
  <2>1. e0.task = started /\ e0.outcome = o
    OBVIOUS
  <2>2. IsFiniteSet(log) /\ e0 \notin log /\ log' = log \cup {e0}
    BY <1>1, <1>2
  <2> HIDE DEF e0
  <2> QED
    BY <2>1, <2>2, OneMoreAnswer
<1>4. ASSUME NEW n \in Nat, n # started PROVE RecordOf(n)' = RecordOf(n)
  <2>1. ASSUME NEW os PROVE Answered(n, os)' = Answered(n, os)
    BY <1>3, <1>4
  <2> QED
    BY <2>1 DEF RecordOf
<1>5. ASSUME NEW n, n = started PROVE RecordOf(n)' = Counted(RecordOf(n), o)
  <2>1. Answered(n, AllOutcomes)' = Answered(n, AllOutcomes) + 1
    BY <1>3, <1>5
  <2>2. ASSUME NEW r
        PROVE  Answered(n, {r})' = Answered(n, {r}) + OneIf(o = r)
    <3>1. Answered(n, {r}) \in Nat
      <4>1. {e \in log : e.task = n /\ e.outcome \in {r}} \subseteq log
        OBVIOUS
      <4> QED
        BY <1>1, <4>1, FS_Subset, FS_CardinalityType DEF Answered
    <3> QED
      BY <1>3, <1>5, <3>1 DEF OneIf
  <2> QED
    BY <2>1, <2>2 DEF RecordOf, Counted
<1>6. open = RecordOf(started) /\ open # NoTask /\ Len(tasks) = started - 1
  BY <1>1, NoTaskIsNone DEF RecordsInv
<1>7. open' = RecordOf(started)' /\ open' # NoTask
  <2>1. PICK n : n = started
    OBVIOUS
  <2>2. open' = RecordOf(n)'
    BY <1>1, <1>5, <1>6, <2>1
  <2> QED
    BY <1>1, <2>1, <2>2, CountedType, NoTaskIsNone
<1>8. \A n \in DOMAIN tasks' : tasks'[n] = RecordOf(n)'
  BY <1>1, <1>4, <1>6 DEF RecordsInv, TypeOK
<1>9. IsFiniteSet(log)' /\ \A e \in log' : e.task <= started'
  <2>1. IsFiniteSet(log \cup {e0})
    BY <1>1, FS_AddElement
  <2> QED
    BY <1>1, <2>1 DEF RecordsInv
<1>10. \A e \in log' : e.task = started' => e.host \notin waiting'
  BY <1>1 DEF RecordsInv
<1>11. hec = <<>>
  BY <1>1 DEF RecordsInv
<1> QED
  BY <1>1, <1>6, <1>7, <1>8, <1>9, <1>10, <1>11 DEF RecordsInv, TaskRecordsFaithful

LEMMA RecordsNext == TypeOK /\ RecordsInv /\ [Next]_vars => RecordsInv'
<1> SUFFICES ASSUME TypeOK, RecordsInv, [Next]_vars PROVE RecordsInv'
  OBVIOUS
<1>1. CASE UNCHANGED vars
  BY <1>1, RecordsKept DEF vars, history, callback, executor, RecordsInv
<1>2. CASE StartPlay \/ EndPlay \/ OnStats
  BY <1>2, RecordsKept
  DEF StartPlay, EndPlay, OnStats, history, callback, executor, RecordsInv
<1>3. CASE Interrupt \/ Kill
  BY <1>3, RecordsKept DEF Interrupt, Kill, history, callback, executor, RecordsInv
<1>4. CASE Emit
  <2>1. ConvergeBatch.tasks = Closed
    BY DEF ConvergeBatch
  <2> QED
    BY <1>4, <2>1, RecordsPosted DEF Emit, history
<1>5. CASE AtExit
  <2>1. InterruptedBatch.tasks = Closed
    BY DEF InterruptedBatch
  <2> QED
    BY <1>5, <2>1, RecordsPosted DEF AtExit, history
<1> QED
  BY <1>1, <1>2, <1>3, <1>4, <1>5, RecordsNextTask, RecordsReport
  DEF Next, Converge, Result

\* What a run publishes of its tasks is all that started, in order, with exactly
\* the results that came in, whatever the order of the answers and wherever the
\* run is stopped.
THEOREM FaithfulRecords == Spec => []TaskRecordsFaithful
<1>1. RecordsInv => TaskRecordsFaithful
  BY DEF RecordsInv
<1> QED
  BY <1>1, TypeInit, TypeNext, RecordsInit, RecordsNext, PTL DEF Spec

-----------------------------------------------------------------------------
(* Unreachable hosts are explained *)

LostWhere == {[host |-> e.host, task |-> e.task] : e \in {e \in log : e.outcome = "unreachable"}}

\* The callback's set is what was logged, also while the run is going on.
ExplainedInv == unreached = LostWhere /\ UnreachableExplained

LEMMA ExplainedInit == Init => ExplainedInv
  BY DEF Init, ExplainedInv, LostWhere, UnreachableExplained

\* Steps that add no result, whether they publish or not.
LEMMA ExplainedKept ==
    ASSUME ExplainedInv, TypeOK, UNCHANGED <<log, unreached>>,
           hec' = hec \/ \E b : Post(b) /\ b.unreached = unreached
    PROVE  ExplainedInv'
<1>1. LostWhere' = LostWhere
  BY DEF LostWhere
<1>2. ASSUME NEW i \in DOMAIN hec' PROVE hec'[i].unreached = LostWhere
  BY DEF ExplainedInv, UnreachableExplained, LostWhere, Post
<1> QED
  BY <1>1, <1>2 DEF ExplainedInv, UnreachableExplained, LostWhere

LEMMA ExplainedReport ==
    ASSUME ExplainedInv, TypeOK, RecordsInv,
           NEW h \in AllHosts, NEW o \in AllOutcomes, Report(h, o)
    PROVE  ExplainedInv'
<1> DEFINE e0 == [task |-> started, kind |-> Kind, host |-> h, outcome |-> o]
<1>1. pc = "results" /\ hec' = hec /\ log' = log \cup {e0} /\ unreached' = Explained(h, o)
  BY DEF Report
<1>2. hec' = <<>> /\ open.task = started
  BY <1>1 DEF RecordsInv, RecordOf, TypeOK, InProgress
<1>3. LostWhere' = IF o = "unreachable"
                   THEN LostWhere \cup {[host |-> h, task |-> started]} ELSE LostWhere
  <2>1. {e \in log' : e.outcome = "unreachable"}
        = IF o = "unreachable" THEN {e \in log : e.outcome = "unreachable"} \cup {e0}
                               ELSE {e \in log : e.outcome = "unreachable"}
    BY <1>1
  <2>2. e0.host = h /\ e0.task = started
    OBVIOUS
  <2> HIDE DEF e0
  <2> QED
    BY <2>1, <2>2 DEF LostWhere
<1> QED
  BY <1>1, <1>2, <1>3 DEF ExplainedInv, Explained, UnreachableExplained

LEMMA ExplainedNext == TypeOK /\ RecordsInv /\ ExplainedInv /\ [Next]_vars => ExplainedInv'
<1> SUFFICES ASSUME TypeOK, RecordsInv, ExplainedInv, [Next]_vars PROVE ExplainedInv'
  OBVIOUS
<1>1. CASE UNCHANGED vars
  BY <1>1, ExplainedKept DEF vars, callback, history
<1>2. CASE StartPlay \/ NextTask \/ EndPlay \/ OnStats \/ Interrupt \/ Kill
  BY <1>2, ExplainedKept
  DEF StartPlay, NextTask, EndPlay, OnStats, Interrupt, Kill, callback, history
<1>3. CASE Emit
  <2>1. ConvergeBatch.unreached = unreached
    BY DEF ConvergeBatch
  <2> QED
    BY <1>3, <2>1, ExplainedKept DEF Emit, history
<1>4. CASE AtExit
  <2>1. InterruptedBatch.unreached = unreached
    BY DEF InterruptedBatch
  <2> QED
    BY <1>4, <2>1, ExplainedKept DEF AtExit, history
<1> QED
  BY <1>1, <1>2, <1>3, <1>4, ExplainedReport DEF Next, Converge, Result

\* Every published batch explains exactly the hosts that were unreachable, each
\* with the task it was lost in, also those gather.yml rescued.
THEOREM LostHostsExplained == Spec => []UnreachableExplained
<1>1. ExplainedInv => UnreachableExplained
  BY DEF ExplainedInv
<1> QED
  BY <1>1, TypeInit, TypeNext, RecordsInit, RecordsNext, ExplainedInit, ExplainedNext, PTL
  DEF Spec

-----------------------------------------------------------------------------
(* One report *)

\* on_stats claims the report before anything is posted, and the exit hook
\* finds the claim.
ReportInv ==
    /\ cli => check
    /\ config = "real" => ~check
    /\ emitted => pc \in {"emit", "exit", "ended"}
    /\ pc = "emit" => emitted
    /\ pc \notin {"exit", "ended"} => hec = <<>> /\ ending = "normal"
    /\ pc = "exit" /\ ~emitted => hec = <<>> /\ ending = "interrupt"
    /\ pc = "exit" => ending # "kill"
    /\ pc = "exit" /\ reach /\ config = "real" /\ ending = "normal" =>
         Len(hec) = 1 /\ hec[1].kind = "converge"
    /\ ReportedOnce

LEMMA ReportInit == Init => ReportInv
  BY SiteAssumption DEF Init, ReportInv, ReportedOnce

LEMMA ReportNext == TypeOK /\ ReportInv /\ [Next]_vars => ReportInv'
<1> SUFFICES ASSUME TypeOK, ReportInv, [Next]_vars PROVE ReportInv'
  OBVIOUS
<1> USE DEF ReportInv
<1>1. CASE UNCHANGED vars
  BY <1>1 DEF vars, world, callback, history, ReportedOnce
<1>2. CASE StartPlay \/ NextTask \/ EndPlay
  BY <1>2 DEF StartPlay, NextTask, EndPlay, world, callback, history, ReportedOnce
<1>3. ASSUME NEW h \in AllHosts, NEW o \in AllOutcomes, Report(h, o) PROVE ReportInv'
  BY <1>3 DEF Report, world, ReportedOnce
<1>4. CASE OnStats
  BY <1>4 DEF OnStats, world, ReportedOnce
<1>5. CASE Emit
  <2>1. hec = <<>> /\ emitted /\ ending = "normal" /\ pc' = "exit"
        /\ UNCHANGED <<check, cli, reach, config, emitted, ending>>
    BY <1>5 DEF Emit, world
  <2>2. ConvergeBatch.kind = "converge"
    BY DEF ConvergeBatch
  <2>3. Len(hec') <= 1 /\ (hec' # hec => Len(hec') = 1 /\ hec'[1] = ConvergeBatch)
    BY <1>5, <2>1 DEF Emit, Post
  <2>4. reach /\ config = "real" => Len(hec') = 1 /\ hec'[1].kind = "converge"
    BY <1>5, <2>1, <2>2 DEF Emit, Post, IsCheckMode, TypeOK
  <2> QED
    BY <2>1, <2>3, <2>4 DEF ReportedOnce
<1>6. CASE AtExit
  <2>1. pc' = "ended" /\ UNCHANGED <<check, cli, reach, config, emitted, ending>>
        /\ ending # "kill"
    BY <1>6 DEF AtExit, world
  <2>2. CASE emitted
    <3>1. hec' = hec
      BY <1>6, <2>2 DEF AtExit
    <3> QED
      BY <1>6, <2>1, <2>2, <3>1 DEF AtExit, ReportedOnce, TypeOK
  <2>3. CASE ~emitted
    <3>1. hec = <<>> /\ ending = "interrupt"
      BY <1>6, <2>3 DEF AtExit
    <3>2. Len(hec') <= 1
      BY <1>6, <3>1 DEF AtExit, Post
    <3>3. InterruptedBatch.kind = "interrupted"
      BY DEF InterruptedBatch
    <3>4. reach /\ config = "real" => Len(hec') = 1 /\ hec'[1].kind = "interrupted"
      BY <1>6, <2>3, <3>1, <3>3 DEF AtExit, Post, IsCheckMode, TypeOK
    <3> QED
      BY <2>1, <3>1, <3>2, <3>4 DEF ReportedOnce
  <2> QED
    BY <2>2, <2>3 DEF TypeOK
<1>7. CASE Interrupt \/ Kill
  BY <1>7 DEF Interrupt, Kill, world, callback, history, ReportedOnce
<1> QED
  BY <1>1, <1>2, <1>3, <1>4, <1>5, <1>6, <1>7 DEF Next, Converge, Result

\* A run that got as far as its configuration reports itself once, and as what it
\* was: on_stats and the exit hook never both publish.
THEOREM OneReport == Spec => []ReportedOnce
<1>1. ReportInv => ReportedOnce
  BY DEF ReportInv
<1> QED
  BY <1>1, TypeInit, TypeNext, ReportInit, ReportNext, PTL DEF Spec

-----------------------------------------------------------------------------
(* Isolated failures surface *)

\* site.yml ends with the play of the final gate.
GateAtEnd ==
    /\ Site # <<>>
    /\ Site[Len(Site)] = [on |-> {Control}, isolated |-> FALSE, tasks |-> <<"gate">>]

\* In the last play nothing is rescued, and once its task has its answer the
\* gate has failed if there is anything to surface.
GateInv ==
    /\ rescuing # {} => play \in DOMAIN Site /\ Site[play].isolated
    /\ play = Len(Site) /\ pc \in {"next", "results"} =>
         /\ waiting \subseteq {Control} /\ step <= 1
         /\ step = 1 /\ Control \notin waiting \cup failed => isolated = {}
    /\ \/ pc \in {"stats", "emit"}
       \/ pc \in {"exit", "ended"} /\ ending = "normal"
       => (failed \cup unreachable = {} => isolated = {})
    /\ pc \in {"play", "next", "results", "stats", "emit"} => ending = "normal"

LEMMA GateInit == Init => GateInv
  BY DEF Init, GateInv

\* The last play has one host, one task and no rescue.
LEMMA LastPlay ==
    ASSUME TypeOK, GateInv, GateAtEnd, play = Len(Site)
    PROVE  /\ play \in DOMAIN Site /\ ~Site[play].isolated /\ rescuing = {}
           /\ Site[play].on = {Control} /\ Len(Tasks) = 1 /\ Tasks[1] = "gate"
<1>1. play \in DOMAIN Site
  <2>1. Site \in Seq(Play) /\ Site # <<>>
    BY SiteAssumption DEF GateAtEnd
  <2> QED
    BY <2>1
<1> QED
  BY <1>1 DEF GateAtEnd, GateInv, Tasks

LEMMA GateReport ==
    ASSUME TypeOK, GateInv, GateAtEnd,
           NEW h \in AllHosts, NEW o \in AllOutcomes, Report(h, o)
    PROVE  GateInv'
<1>1. pc = "results" /\ play \in DOMAIN Site /\ step \in Nat /\ step > 0
      /\ h \in waiting /\ ending = "normal" /\ waiting' = waiting \ {h}
      /\ pc' \in {"next", "results"} /\ UNCHANGED <<play, step, ending>>
  BY DEF Report, TypeOK, InProgress, GateInv
<1>2. rescuing' # {} => Site[play].isolated
  BY <1>1 DEF Report, Fails, GateInv
<1>3. CASE play = Len(Site)
  <2>1. ~Site[play].isolated /\ Len(Tasks) = 1 /\ Tasks[1] = "gate"
    BY <1>3, LastPlay
  <2>2. h = Control /\ step = 1 /\ Kind = "gate"
    BY <1>1, <1>3, <2>1 DEF GateInv, Kind
  <2>3. isolated' = isolated /\ o \in IF isolated # {} THEN {"failed"} ELSE {"skipped"}
    BY <2>2 DEF Report, Possible
  <2>4. isolated' # {} => Control \in failed'
    BY <2>1, <2>2, <2>3 DEF Report, Fails
  <2> QED
    BY <1>1, <1>2, <2>2, <2>4, <1>3 DEF GateInv
<1>4. CASE play # Len(Site)
  BY <1>1, <1>2, <1>4 DEF GateInv
<1> QED
  BY <1>3, <1>4

LEMMA GateEndPlay ==
    ASSUME TypeOK, GateInv, GateAtEnd, EndPlay
    PROVE  GateInv'
<1>1. pc = "next" /\ play \in DOMAIN Site /\ waiting = {} /\ step \in Nat
      /\ ~TaskIsLeft /\ UNCHANGED <<executor, ending>> /\ pc' \in {"play", "stats"}
      /\ (pc' = "stats" => Broken \/ play = Len(Site))
  BY DEF EndPlay, TypeOK, InProgress
<1>2. ASSUME failed \cup unreachable = {}, pc' = "stats" PROVE isolated = {}
  <2>1. play = Len(Site)
    BY <1>1, <1>2 DEF Broken
  <2>2. Candidates = {Control} /\ Len(Tasks) = 1
    BY <1>2, <2>1, LastPlay DEF Candidates
  <2>3. step = 1
    BY <1>1, <2>1, <2>2 DEF TaskIsLeft, GateInv
  <2> QED
    BY <1>1, <1>2, <2>1, <2>3 DEF GateInv
<1> QED
  BY <1>1, <1>2 DEF GateInv, executor

LEMMA GateNext == TypeOK /\ GateInv /\ GateAtEnd /\ [Next]_vars => GateInv'
<1> SUFFICES ASSUME TypeOK, GateInv, GateAtEnd, [Next]_vars PROVE GateInv'
  OBVIOUS
<1>1. CASE UNCHANGED vars
  BY <1>1 DEF vars, executor, GateInv
<1>2. CASE StartPlay
  BY <1>2 DEF StartPlay, TypeOK, InProgress, GateInv
<1>3. CASE NextTask
  <2>1. pc = "next" /\ pc' = "results"
        /\ UNCHANGED <<play, rescuing, failed, unreachable, isolated, ending>>
    BY <1>3 DEF NextTask
  <2>2. CASE play = Len(Site)
    <3>1. rescuing = {} /\ Len(Tasks) = 1 /\ Site[play].on = {Control}
      BY <2>2, LastPlay
    <3>2. step \in Nat /\ step < 1 /\ step' = step + 1
          /\ waiting' = Candidates /\ Candidates # {}
      BY <1>3, <3>1 DEF NextTask, TaskIsLeft, RescueIsLeft, TypeOK
    <3>3. waiting' = {Control}
      BY <3>1, <3>2 DEF Candidates
    <3> QED
      BY <2>1, <2>2, <3>2, <3>3 DEF GateInv
  <2>3. CASE play # Len(Site)
    BY <2>1, <2>3 DEF GateInv
  <2> QED
    BY <2>2, <2>3
<1>4. CASE OnStats
  BY <1>4 DEF OnStats, executor, GateInv
<1>5. CASE Emit
  BY <1>5 DEF Emit, executor, GateInv
<1>6. CASE AtExit
  BY <1>6 DEF AtExit, executor, GateInv
<1>7. CASE Interrupt \/ Kill
  BY <1>7 DEF Interrupt, Kill, executor, GateInv
<1> QED
  BY <1>1, <1>2, <1>3, <1>4, <1>5, <1>6, <1>7, GateReport, GateEndPlay
  DEF Next, Converge, Result

\* At the end of a site that ends with its gate, exit code 0 means that no host
\* has recorded an isolated failure.
THEOREM FailuresSurface ==
    ASSUME GateAtEnd
    PROVE  Spec => []IsolatedFailuresSurface
<1>1. GateInv => IsolatedFailuresSurface
  BY DEF GateInv, IsolatedFailuresSurface
<1>2. TypeOK /\ GateInv /\ [Next]_vars => GateInv'
  BY GateNext
<1> QED
  BY <1>1, <1>2, TypeInit, TypeNext, GateInit, PTL DEF Spec

-----------------------------------------------------------------------------
(* Isolation *)

\* gather.yml ends with the task that fails the hosts it could not reach.
GatherVerifies ==
    \A p \in DOMAIN Site : \A i \in DOMAIN Site[p].tasks :
      Site[p].tasks[i] = "gather" =>
        Site[p].isolated /\ i < Len(Site[p].tasks) /\ Site[p].tasks[i + 1] = "verify"

\* Who waits, who is in the rescue, and the hosts gather.yml missed: those of the
\* task before verify, those verify has not failed yet, and those in the rescue.
MissedInv ==
    pc \in {"next", "results", "stats"} =>
      /\ play \in DOMAIN Site /\ step <= Len(Tasks) + 1
      /\ waiting \cup rescuing \subseteq Site[play].on
      /\ (waiting \cup rescuing) \cap (failed \cup unreachable) = {}
      /\ IF step > Len(Tasks) THEN waiting \subseteq rescuing
                              ELSE waiting \cap rescuing = {}
      /\ missed # {} => Site[play].isolated
      /\ missed \cap unreachable = {}
      /\ \A h \in missed \ rescuing :
           /\ h \in Site[play].on \ failed
           /\ step > 0
           /\ Kind = "gather" \/ (Kind = "verify" /\ h \in waiting)

\* In an isolated play nobody drops out by failing.
IsolationInv ==
    /\ MissedInv
    /\ pc \in {"next", "results", "stats"} /\ Site[play].isolated => failed \subseteq lost
    /\ IsolationHolds

LEMMA IsolationInit == Init => IsolationInv
  BY DEF Init, IsolationInv, MissedInv, IsolationHolds

LEMMA MissedNextTask ==
    ASSUME TypeOK, MissedInv, GatherVerifies, NextTask
    PROVE  MissedInv'
<1>1. pc = "next" /\ play \in DOMAIN Site /\ step \in Nat /\ waiting = {}
      /\ UNCHANGED <<play, rescuing, missed, failed, unreachable>>
  BY DEF NextTask, TypeOK, InProgress
<1>2. Tasks \in Seq(TaskKinds) /\ Tasks' = Tasks
  BY <1>1, PlayType DEF Tasks
<1>3. rescuing \subseteq Site[play].on /\ rescuing \cap (failed \cup unreachable) = {}
      /\ (missed # {} => Site[play].isolated) /\ missed \cap unreachable = {}
  BY <1>1 DEF MissedInv
<1>4. ASSUME NEW h \in missed \ rescuing
      PROVE  /\ h \in Candidates /\ step > 0 /\ step < Len(Tasks)
             /\ Tasks[step + 1] = "verify"
  <2>1. h \in Site[play].on \ failed /\ step > 0 /\ Kind = "gather"
    BY <1>1, <1>4 DEF MissedInv
  <2>2. h \in Candidates
    BY <1>3, <1>4, <2>1 DEF Candidates
  <2>3. step <= Len(Tasks) /\ Tasks[step] = "gather"
    BY <2>1 DEF Kind
  <2> QED
    BY <1>1, <1>2, <2>1, <2>2, <2>3 DEF GatherVerifies, Tasks
<1>5. CASE TaskIsLeft /\ step' = step + 1 /\ waiting' = Candidates
  <2>1. step' \in Nat /\ step' <= Len(Tasks) /\ step' > 0
    BY <1>1, <1>2, <1>5 DEF TaskIsLeft
  <2>2. \A h \in missed \ rescuing : Kind' = "verify" /\ h \in waiting'
    BY <1>2, <1>4, <1>5, <2>1 DEF Kind
  <2>3. \A h \in missed \ rescuing : h \in Site[play].on \ failed
    BY <1>1 DEF MissedInv
  <2>4. waiting' \subseteq Site[play].on /\ waiting' \cap (failed \cup unreachable) = {}
        /\ waiting' \cap rescuing = {}
    BY <1>5 DEF Candidates
  <2> QED
    BY <1>1, <1>2, <1>3, <2>1, <2>2, <2>3, <2>4 DEF MissedInv
<1>6. CASE RescueIsLeft /\ step' = Len(Tasks) + 1 /\ waiting' = rescuing
  <2>1. missed \ rescuing = {}
    BY <1>4, <1>6 DEF RescueIsLeft, TaskIsLeft
  <2>2. Len(Tasks) \in Nat
    BY <1>2
  <2> QED
    BY <1>1, <1>2, <1>3, <1>6, <2>1, <2>2 DEF MissedInv
<1> QED
  BY <1>5, <1>6 DEF NextTask

LEMMA MissedReport ==
    ASSUME TypeOK, MissedInv, GatherVerifies,
           NEW h \in AllHosts, NEW o \in AllOutcomes, Report(h, o)
    PROVE  MissedInv'
<1>1. pc = "results" /\ play \in DOMAIN Site /\ step \in Nat /\ step > 0
      /\ h \in waiting /\ waiting' = waiting \ {h} /\ UNCHANGED <<play, step>>
      /\ o \in Possible(h)
  BY DEF Report, TypeOK, InProgress
<1>2. Tasks' = Tasks /\ Kind' = Kind
  BY <1>1 DEF Tasks, Kind
<1>3. h \in Site[play].on \ (failed \cup unreachable)
  BY <1>1 DEF MissedInv
<1>4. Kind = "gather" => Site[play].isolated
  BY <1>1, PlayType DEF Kind, GatherVerifies, Tasks
<1>5. h \in missed \ rescuing => Kind \in {"gather", "verify"}
  BY <1>1 DEF MissedInv
<1>6. CASE o = "failed" /\ Fails(h) /\ UNCHANGED <<unreachable, missed>>
  <2>1. step <= Len(Tasks)
    BY <1>1, <1>6 DEF Possible, Kind
  <2>2. CASE rescuing' = rescuing \cup {h} /\ UNCHANGED failed
    BY <1>1, <1>2, <1>3, <1>6, <2>1, <2>2 DEF MissedInv
  <2>3. CASE ~Site[play].isolated /\ failed' = failed \cup {h} /\ UNCHANGED rescuing
    <3>1. missed = {}
      BY <1>1, <2>3 DEF MissedInv
    <3> QED
      BY <1>1, <1>2, <1>3, <1>6, <2>1, <2>3, <3>1 DEF MissedInv
  <2> QED
    BY <1>6, <2>2, <2>3 DEF Fails
<1>7. CASE o = "unreachable" /\ Unreached(h) /\ UNCHANGED <<failed, rescuing>>
  <2>1. step <= Len(Tasks) /\ Kind # "verify"
    BY <1>1, <1>7 DEF Possible, Kind
  <2>2. h \notin rescuing
    BY <1>1, <2>1 DEF MissedInv
  <2>3. CASE Kind = "gather"
    <3>1. missed' = missed \cup {h} /\ UNCHANGED unreachable
      BY <1>7, <2>3 DEF Unreached
    <3> QED
      BY <1>1, <1>2, <1>3, <1>4, <1>7, <2>1, <2>2, <2>3, <3>1 DEF MissedInv
  <2>4. CASE Kind # "gather"
    <3>1. h \notin missed
      BY <1>5, <2>1, <2>2, <2>4
    <3>2. missed' = missed /\ unreachable' \subseteq unreachable \cup {h}
      BY <1>7, <2>4 DEF Unreached
    <3>3. \A g \in missed \ rescuing : g \in waiting => g \in waiting'
      BY <1>1, <3>1
    <3> QED
      BY <1>1, <1>2, <1>7, <2>1, <2>2, <3>1, <3>2, <3>3 DEF MissedInv
  <2> QED
    BY <2>3, <2>4
<1>8. CASE UNCHANGED <<failed, rescuing, unreachable, missed>> /\ o \notin {"failed", "unreachable"}
  <2>1. Kind = "verify" => h \notin missed
    BY <1>1, <1>8 DEF Possible
  <2> QED
    BY <1>1, <1>2, <1>8, <2>1 DEF MissedInv
<1> QED
  BY <1>6, <1>7, <1>8 DEF Report

LEMMA IsolationEndPlay ==
    ASSUME TypeOK, IsolationInv, EndPlay
    PROVE  IsolationInv'
<1>1. pc = "next" /\ play \in DOMAIN Site /\ pc' \in {"play", "stats"}
      /\ UNCHANGED executor /\ (pc' = "stats" => Broken \/ play = Len(Site))
  BY DEF EndPlay, TypeOK, InProgress
<1>2. MissedInv'
  BY <1>1 DEF IsolationInv, MissedInv, executor, Tasks, Kind
<1>3. ASSUME pc' = "stats", play < Len(Site), Site[play].isolated
      PROVE  Site[play].on \subseteq unreachable /\ missed \cap unreachable = {}
  <2>1. (failed \cup unreachable) \ lost = Site[play].on
    BY <1>1, <1>3, SiteAssumption DEF Broken
  <2>2. failed \subseteq lost /\ missed \cap unreachable = {}
    BY <1>1, <1>3 DEF IsolationInv, MissedInv
  <2> QED
    BY <2>1, <2>2
<1> QED
  BY <1>1, <1>2, <1>3 DEF IsolationInv, IsolationHolds, executor

LEMMA IsolationNext ==
    TypeOK /\ IsolationInv /\ GatherVerifies /\ [Next]_vars => IsolationInv'
<1> SUFFICES ASSUME TypeOK, IsolationInv, GatherVerifies, [Next]_vars PROVE IsolationInv'
  OBVIOUS
<1>1. CASE UNCHANGED vars
  BY <1>1 DEF vars, executor, IsolationInv, MissedInv, IsolationHolds, Tasks, Kind
<1>2. CASE StartPlay
  <2>1. play' \in DOMAIN Site /\ waiting' = {} /\ step' = 0 /\ rescuing' = {}
        /\ missed' = {} /\ pc' = "next" /\ failed' \subseteq lost'
    BY <1>2, SiteAssumption DEF StartPlay, TypeOK, InProgress
  <2>2. Tasks' \in Seq(TaskKinds)
    BY <2>1, PlayType DEF Tasks
  <2>3. MissedInv'
    BY <2>1, <2>2 DEF MissedInv
  <2> QED
    BY <2>1, <2>3 DEF IsolationInv, IsolationHolds
<1>3. CASE NextTask
  BY <1>3, MissedNextTask DEF NextTask, IsolationInv, IsolationHolds
<1>4. ASSUME NEW h \in AllHosts, NEW o \in AllOutcomes, Report(h, o) PROVE IsolationInv'
  <2>1. MissedInv'
    BY <1>4, MissedReport DEF IsolationInv
  <2>2. pc = "results" /\ pc' # "stats" /\ UNCHANGED <<play, lost>>
        /\ (Site[play].isolated => failed' = failed)
    BY <1>4 DEF Report, Fails
  <2> QED
    BY <2>1, <2>2 DEF IsolationInv, IsolationHolds
<1>5. CASE OnStats \/ Emit \/ AtExit \/ Interrupt \/ Kill
  <2>1. pc' \in {"emit", "exit", "ended"}
    BY <1>5 DEF OnStats, Emit, AtExit, Interrupt, Kill
  <2> QED
    BY <2>1 DEF IsolationInv, MissedInv, IsolationHolds
<1> QED
  BY <1>1, <1>2, <1>3, <1>4, <1>5, IsolationEndPlay DEF Next, Converge, Result

\* When gather.yml is used as it is written, an isolated play ends the run early
\* only if each of its hosts became unreachable after gather.yml had passed.
THEOREM Isolation ==
    ASSUME GatherVerifies
    PROVE  Spec => []IsolationHolds
<1>1. IsolationInv => IsolationHolds
  BY DEF IsolationInv
<1>2. TypeOK /\ IsolationInv /\ [Next]_vars => IsolationInv'
  BY IsolationNext
<1> QED
  BY <1>1, <1>2, TypeInit, TypeNext, IsolationInit, PTL DEF Spec

-----------------------------------------------------------------------------
(* A published success is clean *)

Clean(h) == stats[h] \cap {"failures", "unreachable", "rescued"} = {}

\* Nothing that was logged of h speaks against it, or only what gather.yml is
\* about to fail it for.
NothingAgainst(h, miss) ==
    \A e \in log : e.host = h =>
      /\ e.outcome # "failed"
      /\ e.outcome = "unreachable" =>
           e.kind = "away" \/ (e.kind = "gather" /\ h \in miss)

WentThrough(h, plays) == \A p \in plays : h \in Site[p].on => p \in done[h]

\* The counters of a host are clean only while its log is and it takes all of its
\* plays, up to the one under way.
CleanInv ==
    /\ \A h \in AllHosts : Clean(h) =>
         /\ h \notin failed \cup unreachable \cup rescuing \cup isolated
         /\ pc \in {"next", "results"} =>
              NothingAgainst(h, missed) /\ WentThrough(h, 1 .. (play - 1))
         /\ pc \in {"play", "stats", "emit"} =>
              NothingAgainst(h, {}) /\ WentThrough(h, 1 .. play)
    /\ \A h \in AllHosts : Fresh(h) =>
         ~check /\ Clean(h) /\ NothingAgainst(h, {}) /\ WentThrough(h, 1 .. play)
    /\ SuccessIsClean

LEMMA CleanInit == Init => CleanInv
<1> SUFFICES ASSUME Init PROVE CleanInv
  OBVIOUS
<1>1. \A h : ~Fresh(h)
  BY DEF Init, Fresh
<1>2. \A h, m : NothingAgainst(h, m) /\ WentThrough(h, 1 .. play)
  BY DEF Init, NothingAgainst, WentThrough
<1> QED
  BY <1>1, <1>2 DEF Init, CleanInv, SuccessIsClean

\* Steps that add no result and finish no play.
LEMMA CleanKept ==
    ASSUME TypeOK, CleanInv,
           UNCHANGED <<check, play, failed, unreachable, isolated, stats, hec, log, done>>,
           pc' \in {"next", "results"} => pc \in {"next", "results"},
           pc' \in {"play", "stats", "emit"} => pc \in {"play", "stats", "emit"},
           UNCHANGED <<rescuing, missed>>
    PROVE  CleanInv'
<1>1. \A h \in AllHosts :
        /\ Fresh(h)' = Fresh(h) /\ Clean(h)' = Clean(h)
        /\ \A m : NothingAgainst(h, m)' = NothingAgainst(h, m)
        /\ \A ps : WentThrough(h, ps)' = WentThrough(h, ps)
  BY DEF Fresh, Clean, NothingAgainst, WentThrough
<1>2. SuccessIsClean'
  BY <1>1 DEF CleanInv, SuccessIsClean
<1> QED
  BY <1>1, <1>2 DEF CleanInv

LEMMA CleanStartPlay ==
    ASSUME TypeOK, CleanInv, ReportInv, StartPlay
    PROVE  CleanInv'
<1>1. pc = "play" /\ pc' = "next" /\ play \in Nat /\ play' = play + 1
      /\ rescuing' = {} /\ missed' = {} /\ hec' = <<>>
      /\ UNCHANGED <<check, failed, unreachable, isolated, stats, log, done>>
  BY DEF StartPlay, TypeOK, ReportInv, world, history
<1>2. \A h \in AllHosts : ~Fresh(h)'
  BY <1>1 DEF Fresh
<1>3. ASSUME NEW h \in AllHosts, Clean(h)'
      PROVE  /\ (h \notin failed \cup unreachable \cup rescuing \cup isolated)'
             /\ NothingAgainst(h, missed)' /\ WentThrough(h, 1 .. (play - 1))'
  <2>1. Clean(h)
    BY <1>1, <1>3 DEF Clean
  <2>2. h \notin failed \cup unreachable \cup isolated
        /\ NothingAgainst(h, {}) /\ WentThrough(h, 1 .. play)
    BY <1>1, <2>1 DEF CleanInv
  <2>3. 1 .. (play' - 1) = 1 .. play
    BY <1>1
  <2> QED
    BY <1>1, <2>2, <2>3 DEF NothingAgainst, WentThrough
<1>4. SuccessIsClean'
  BY <1>2 DEF SuccessIsClean
<1> QED
  BY <1>1, <1>2, <1>3, <1>4 DEF CleanInv

LEMMA CleanReport ==
    ASSUME TypeOK, CleanInv, ReportInv,
           NEW h \in AllHosts, NEW o \in AllOutcomes, Report(h, o),
           MissedInv
    PROVE  CleanInv'
<1> DEFINE e0 == [task |-> started, kind |-> Kind, host |-> h, outcome |-> o]
<1>1. pc = "results" /\ pc' \in {"next", "results"} /\ hec' = <<>>
      /\ log' = log \cup {e0} /\ UNCHANGED <<check, play, done>>
      /\ step \in Nat /\ step > 0 /\ h \in waiting /\ o \in Possible(h)
  BY DEF Report, TypeOK, InProgress, ReportInv, world
<1>2. \A g \in AllHosts : ~Fresh(g)'
  BY <1>1 DEF Fresh
<1>3. \E c \in {"ok", "failures", "unreachable", "rescued"} : Counter(h, c)
  BY DEF Report, Fails, Unreached
<1>4. ASSUME NEW g \in AllHosts, Clean(g)' PROVE Clean(g)
  BY <1>3, <1>4 DEF Clean, Counter, TypeOK
<1>5. ASSUME NEW g \in AllHosts, Clean(g)', g # h
      PROVE  /\ (g \notin failed \cup unreachable \cup rescuing \cup isolated)'
             /\ NothingAgainst(g, missed)' /\ WentThrough(g, 1 .. (play - 1))'
  <2>1. /\ g \notin failed \cup unreachable \cup rescuing \cup isolated
        /\ NothingAgainst(g, missed) /\ WentThrough(g, 1 .. (play - 1))
    BY <1>1, <1>4, <1>5 DEF CleanInv
  <2>2. /\ failed' \subseteq failed \cup {h} /\ unreachable' \subseteq unreachable \cup {h}
        /\ rescuing' \subseteq rescuing \cup {h} /\ isolated' \subseteq isolated \cup {h}
        /\ missed \subseteq missed'
    BY DEF Report, Fails, Unreached
  <2> QED
    BY <1>1, <1>5, <2>1, <2>2 DEF NothingAgainst, WentThrough
<1>6. ASSUME Clean(h)'
      PROVE  /\ (h \notin failed \cup unreachable \cup rescuing \cup isolated)'
             /\ NothingAgainst(h, missed)' /\ WentThrough(h, 1 .. (play - 1))'
  <2>1. /\ h \notin failed \cup unreachable \cup rescuing \cup isolated
        /\ NothingAgainst(h, missed) /\ WentThrough(h, 1 .. (play - 1))
    BY <1>1, <1>4, <1>6 DEF CleanInv
  <2>2. ASSUME NEW c \in {"failures", "unreachable", "rescued"} PROVE ~Counter(h, c)
    BY <1>6, <2>2 DEF Clean, Counter, TypeOK
  <2>3. o # "failed" /\ UNCHANGED <<failed, rescuing>>
    BY <2>2 DEF Report, Fails
  <2>4. unreachable' = unreachable /\ (o = "unreachable" => Kind \in {"gather", "away"})
        /\ (o = "unreachable" /\ Kind = "gather" => h \in missed') /\ missed \subseteq missed'
    BY <2>2, <2>3 DEF Report, Unreached
  <2>5. step <= Len(Tasks)
    BY <1>1, <2>1 DEF MissedInv
  <2>6. Tasks \in Seq(TaskKinds)
    BY <1>1, PlayType DEF TypeOK, InProgress, Tasks
  <2>7. Kind # "record"
    BY <1>1, <2>5, <2>6 DEF Kind, TaskKinds
  <2>8. isolated' = isolated
    BY <2>7 DEF Report
  <2> QED
    BY <1>1, <2>1, <2>3, <2>4, <2>8 DEF NothingAgainst, WentThrough
<1>7. SuccessIsClean'
  BY <1>2 DEF SuccessIsClean
<1> QED
  BY <1>1, <1>2, <1>5, <1>6, <1>7 DEF CleanInv

LEMMA CleanEndPlay ==
    ASSUME TypeOK, CleanInv, ReportInv, MissedInv, GatherVerifies, EndPlay
    PROVE  CleanInv'
<1>1. pc = "next" /\ play \in DOMAIN Site /\ step \in Nat /\ waiting = {} /\ hec' = <<>>
      /\ ~TaskIsLeft /\ pc' \in {"play", "stats"} /\ UNCHANGED <<check, executor, log>>
  BY DEF EndPlay, TypeOK, InProgress, ReportInv, world
<1>2. \A h \in AllHosts : ~Fresh(h)'
  BY <1>1 DEF Fresh
<1>3. ASSUME NEW h \in AllHosts, Clean(h)'
      PROVE  /\ (h \notin failed \cup unreachable \cup rescuing \cup isolated)'
             /\ NothingAgainst(h, {})' /\ WentThrough(h, 1 .. play)'
  <2>1. /\ h \notin failed \cup unreachable \cup rescuing \cup isolated
        /\ NothingAgainst(h, missed) /\ WentThrough(h, 1 .. (play - 1))
    BY <1>1, <1>3 DEF CleanInv, Clean, executor
  <2>2. h \in Site[play].on => h \in Candidates
    BY <2>1 DEF Candidates
  <2>3. h \notin missed
    <3> SUFFICES ASSUME h \in missed PROVE FALSE
      OBVIOUS
    <3>1. h \in Site[play].on /\ step > 0 /\ Kind = "gather"
      BY <1>1, <2>1 DEF MissedInv
    <3>2. Tasks \in Seq(TaskKinds)
      BY <1>1, PlayType DEF Tasks
    <3>3. step <= Len(Tasks) /\ Tasks[step] = "gather"
      BY <3>1 DEF Kind
    <3>4. step < Len(Tasks)
      BY <1>1, <3>1, <3>2, <3>3 DEF GatherVerifies, Tasks
    <3> QED
      BY <1>1, <2>2, <3>1, <3>4 DEF TaskIsLeft
  <2>4. /\ done[h] \subseteq done'[h]
        /\ h \in Site[play].on => play \in done'[h]
    BY <2>2 DEF EndPlay
  <2>5. \A p \in 1 .. play : p = play \/ p \in 1 .. (play - 1)
    BY <1>1 DEF TypeOK
  <2> QED
    BY <1>1, <2>1, <2>3, <2>4, <2>5 DEF NothingAgainst, WentThrough, executor
<1>4. SuccessIsClean'
  BY <1>2 DEF SuccessIsClean
<1> QED
  BY <1>1, <1>2, <1>3, <1>4 DEF CleanInv

\* Steps of the end that may publish.
LEMMA CleanPosted ==
    ASSUME TypeOK, CleanInv,
           UNCHANGED <<check, play, failed, unreachable, rescuing, isolated, stats, log, done>>,
           pc' \in {"exit", "ended"},
           \A h \in AllHosts : Fresh(h)' => Fresh(h) \/ (pc = "emit" /\ ~check /\ Clean(h))
    PROVE  CleanInv'
<1>1. \A h \in AllHosts :
        /\ Clean(h)' = Clean(h)
        /\ \A m : NothingAgainst(h, m)' = NothingAgainst(h, m)
        /\ \A ps : WentThrough(h, ps)' = WentThrough(h, ps)
  BY DEF Clean, NothingAgainst, WentThrough
<1>2. ASSUME NEW h \in AllHosts, Fresh(h)'
      PROVE  ~check /\ Clean(h) /\ NothingAgainst(h, {}) /\ WentThrough(h, 1 .. play)
  BY <1>2 DEF CleanInv
<1>3. ASSUME NEW h \in AllHosts, Clean(h)
      PROVE  h \notin failed \cup unreachable \cup rescuing \cup isolated
  BY <1>3 DEF CleanInv
<1>4. SuccessIsClean'
  <2>1. DOMAIN Site = 1 .. Len(Site)
    BY SiteAssumption
  <2> QED
    BY <1>2, <1>3, <2>1 DEF SuccessIsClean, NothingAgainst, WentThrough
<1> QED
  BY <1>1, <1>2, <1>3, <1>4 DEF CleanInv

LEMMA CleanNext ==
    TypeOK /\ CleanInv /\ ReportInv /\ MissedInv /\ GatherVerifies /\ [Next]_vars => CleanInv'
<1> SUFFICES ASSUME TypeOK, CleanInv, ReportInv, MissedInv, GatherVerifies, [Next]_vars
             PROVE  CleanInv'
  OBVIOUS
<1>1. CASE UNCHANGED vars
  BY <1>1, CleanKept DEF vars, world, executor, history
<1>2. CASE NextTask \/ OnStats
  BY <1>2, CleanKept DEF NextTask, OnStats, world, executor, history
<1>3. CASE Interrupt \/ Kill
  BY <1>3, CleanKept DEF Interrupt, Kill, world, executor, history
<1>4. CASE Emit
  <2>1. /\ UNCHANGED <<check, play, failed, unreachable, rescuing, isolated, stats, log, done>>
        /\ pc = "emit" /\ pc' = "exit" /\ hec = <<>>
    BY <1>4 DEF Emit, ReportInv, world, executor, history
  <2>2. hec' = <<>> \/ (hec' = <<ConvergeBatch>> /\ config \notin {"none", "check"})
    BY <1>4, <2>1 DEF Emit, Post, IsCheckMode
  <2>3. ASSUME NEW h \in AllHosts, Fresh(h)' PROVE ~check /\ Clean(h)
    <3>1. hec' = <<ConvergeBatch>> /\ config = "real"
      BY <2>2, <2>3 DEF Fresh, TypeOK
    <3>2. h \in DOMAIN ConvergeBatch.status /\ ConvergeBatch.status[h] = "success"
      BY <2>3, <3>1 DEF Fresh
    <3> QED
      BY <3>1, <3>2 DEF ConvergeBatch, HostStatus, Clean, ReportInv
  <2> QED
    BY <2>1, <2>3, CleanPosted
<1>5. CASE AtExit
  <2>1. /\ UNCHANGED <<check, play, failed, unreachable, rescuing, isolated, stats, log, done>>
        /\ pc' = "ended"
    BY <1>5 DEF AtExit, world, executor, history
  <2>2. hec' = hec \/ hec' = <<InterruptedBatch>>
    BY <1>5 DEF AtExit, Post, ReportInv
  <2>3. ASSUME NEW h \in AllHosts, Fresh(h)' PROVE Fresh(h)
    BY <2>2, <2>3 DEF Fresh, InterruptedBatch
  <2> QED
    BY <2>1, <2>3, CleanPosted
<1> QED
  BY <1>1, <1>2, <1>3, <1>4, <1>5, CleanStartPlay, CleanReport, CleanEndPlay
  DEF Next, Converge, Result

\* A host is published as converged only by a real run with nothing against it,
\* and, once the run has taken every play, only if it went through all of its own.
THEOREM CleanSuccess ==
    ASSUME GatherVerifies
    PROVE  Spec => []SuccessIsClean
<1>1. CleanInv => SuccessIsClean
  BY DEF CleanInv
<1>2. TypeOK /\ CleanInv /\ ReportInv /\ IsolationInv /\ [Next]_vars => CleanInv'
  BY CleanNext DEF IsolationInv
<1>3. TypeOK /\ IsolationInv /\ [Next]_vars => IsolationInv'
  BY IsolationNext
<1> QED
  BY <1>1, <1>2, <1>3, TypeInit, TypeNext, ReportInit, ReportNext, IsolationInit,
     CleanInit, PTL DEF Spec

=============================================================================
