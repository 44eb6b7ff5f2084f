----------------------------- MODULE SiteConverge -----------------------------
(***************************************************************************)
(* One run of playbooks/site.yml and what it reports: Ansible takes the    *)
(* plays in order, some isolate their failures with block/rescue           *)
(* (playbooks/tasks/record_isolated_failure.yml, gather.yml), budget gates *)
(* and a final gate stand between them, and the callback plugin            *)
(* converge_telemetry counts every result and posts one batch of events at *)
(* the end of the run, or from its exit hook when the run is interrupted.  *)
(***************************************************************************)
EXTENDS Naturals, Sequences, FiniteSets

CONSTANTS
    Hosts,     \* managed hosts, the published roster
    Control,   \* localhost
    Site,      \* the plays of site.yml, in order
    Outcomes,  \* what an ordinary task may answer
    Checks,    \* whether the run may be a dry run
    Stops      \* how the run may be stopped

AllHosts == Hosts \cup {Control}
AllOutcomes == {"ok", "changed", "skipped", "ignored", "failed", "unreachable"}

\* Tasks told apart by what the plays do with their results: publish is the
\* set_stats of the telemetry configuration; gather and verify are gather.yml;
\* budget and gate end the run; away runs under ignore_unreachable, and local
\* on the controller in the host's name.
TaskKinds == {"work", "publish", "gather", "verify", "budget", "gate", "away", "local"}

Play == [on : SUBSET AllHosts, isolated : BOOLEAN, tasks : Seq(TaskKinds)]

ASSUME SiteAssumption ==
    /\ Control \notin Hosts
    /\ Site \in Seq(Play)
    /\ Outcomes \subseteq AllOutcomes
    /\ Checks \subseteq BOOLEAN
    /\ Stops \subseteq {"interrupt", "kill"}

VARIABLES
    pc,          \* what the process does next
    check,       \* whether this is a dry run (ansible_check_mode)
    cli,         \* whether --check was given on the command line
    reach,       \* whether Splunk HEC can be reached
    play,        \* the play under way
    step,        \* its task under way, behind the last one for the rescue
    waiting,     \* hosts whose result of the task is outstanding
    rescuing,    \* hosts whose block failed in this play
    missed,      \* hosts gather.yml found unreachable in this play
    lost,        \* hosts failed or unreachable before this play
    failed,      \* hosts that failed, left out from then on
    unreachable, \* hosts that were unreachable, left out from then on
    isolated,    \* hosts with a recorded site_isolated_failures
    stats,       \* per host, the counters of the run summary that are not 0
    config,      \* callback: self._config, and the check_mode in it
    open,        \* callback: self._open, the task under way
    tasks,       \* callback: self._tasks, the tasks closed so far
    unreached,   \* callback: self._unreachable
    emitted,     \* callback: self._emitted
    hec,         \* batches that arrived at HEC
    started,     \* history: how many tasks have been started
    log,         \* history: every result of every task
    done,        \* history: per host, the plays it went through to the end
    ending       \* history: how the run ended

executor == <<play, step, waiting, rescuing, missed, lost, failed, unreachable,
              isolated, stats>>
callback == <<config, open, tasks, unreached, emitted>>
world == <<check, cli, reach>>
history == <<started, log, done>>
vars == <<pc, world, executor, callback, hec, history, ending>>

-----------------------------------------------------------------------------
(* The callback plugin *)

NoTask == [task |-> 0]

\* One task's timing record: how many hosts answered, and how.
TaskTiming == [task : Nat, hosts : Nat, changed : Nat, failed : Nat, unreachable : Nat]
TaskRecord(n) == [task |-> n, hosts |-> 0, changed |-> 0, failed |-> 0, unreachable |-> 0]

\* Mutant of Closed: no look at whether a task is open.
ClosedAlways == Append(tasks, open)

\* _close_open_task()
Closed == IF open = NoTask THEN tasks ELSE Append(tasks, open)

\* v2_playbook_on_task_start(): a task is closed when the next one starts.
OnTaskStart ==
    /\ tasks' = Closed
    /\ open' = TaskRecord(Len(tasks') + 1)

OneIf(b) == IF b THEN 1 ELSE 0

\* Mutant of Counted: an unreachable host counts as failed.
CountedAsFailed(t, o) ==
    [task |-> t.task, hosts |-> t.hosts + 1,
     changed |-> t.changed + OneIf(o = "changed"),
     failed |-> t.failed + OneIf(o \in {"failed", "unreachable"}),
     unreachable |-> t.unreachable]

\* _count() as v2_runner_on_ok, _failed, _unreachable and _skipped call it.
Counted(t, o) ==
    [task |-> t.task, hosts |-> t.hosts + 1,
     changed |-> t.changed + OneIf(o = "changed"),
     failed |-> t.failed + OneIf(o = "failed"),
     unreachable |-> t.unreachable + OneIf(o = "unreachable")]

\* Mutant of Explained: only what drops out of the run is kept.
ExplainedLost(h, o) ==
    IF o = "unreachable" /\ h \in unreachable'
    THEN unreached \cup {[host |-> h, task |-> open.task]} ELSE unreached

\* v2_runner_on_unreachable() keeps the host and the task under way.
Explained(h, o) ==
    IF o = "unreachable"
    THEN unreached \cup {[host |-> h, task |-> open.task]} ELSE unreached

\* is_check_mode(): either signal is enough.
IsCheckMode == config = "check" \/ cli

\* Mutant of HostStatus: a rescued host passes.
HostStatusRescued(h) ==
    IF stats[h] \cap {"failures", "unreachable"} = {} THEN "success" ELSE "failed"

\* host_status()
HostStatus(h) ==
    IF stats[h] \cap {"failures", "unreachable", "rescued"} = {}
    THEN "success" ELSE "failed"

\* stats.processed
Processed == {h \in AllHosts : stats[h] # {}}

\* build_events, build_task_events, build_unreachable_events.
ConvergeBatch ==
    [kind |-> "converge", status |-> [h \in Processed |-> HostStatus(h)],
     tasks |-> Closed, unreached |-> unreached]

\* The exit hook's batch holds no per-host event.
InterruptedBatch ==
    [kind |-> "interrupted", status |-> [h \in {} |-> "failed"],
     tasks |-> Closed, unreached |-> unreached]

\* _post(): what does not arrive is not sent again.
Post(batch) == hec' = IF reach THEN Append(hec, batch) ELSE hec

-----------------------------------------------------------------------------
(* The executor *)

Init ==
    /\ pc = "play"
    /\ check \in Checks /\ cli \in {c \in BOOLEAN : c => check}
    /\ reach \in BOOLEAN
    /\ play = 0 /\ step = 0 /\ waiting = {} /\ rescuing = {} /\ missed = {}
    /\ lost = {} /\ failed = {} /\ unreachable = {} /\ isolated = {}
    /\ stats = [h \in AllHosts |-> {}]
    /\ config = "none" /\ open = NoTask /\ tasks = <<>> /\ unreached = {}
    /\ emitted = FALSE
    /\ hec = <<>>
    /\ started = 0 /\ log = {} /\ done = [h \in AllHosts |-> {}] /\ ending = "normal"

Tasks == Site[play].tasks

StartPlay ==
    /\ pc = "play" /\ play < Len(Site)
    /\ play' = play + 1
    /\ step' = 0 /\ rescuing' = {} /\ missed' = {}
    /\ lost' = failed \cup unreachable
    /\ pc' = "next"
    /\ UNCHANGED <<world, waiting, failed, unreachable, isolated, stats, callback,
                   hec, history, ending>>

\* The hosts of the play that still take its tasks.
Candidates == Site[play].on \ (failed \cup unreachable \cup rescuing)

TaskIsLeft == step < Len(Tasks) /\ Candidates # {}
RescueIsLeft == ~TaskIsLeft /\ step <= Len(Tasks) /\ rescuing # {}

\* All hosts take the next task together; those whose block failed wait for the
\* others and run the rescue.
NextTask ==
    /\ pc = "next"
    /\ \/ TaskIsLeft /\ step' = step + 1 /\ waiting' = Candidates
       \/ RescueIsLeft /\ step' = Len(Tasks) + 1 /\ waiting' = rescuing
    /\ OnTaskStart
    /\ started' = started + 1
    /\ pc' = "results"
    /\ UNCHANGED <<world, play, rescuing, missed, lost, failed, unreachable,
                   isolated, stats, config, unreached, emitted, hec, log, done,
                   ending>>

Kind == IF step <= Len(Tasks) THEN Tasks[step] ELSE "record"

\* Mutant of Possible: the gate looks at the controller's own facts only.
PossibleOwnFacts(h) ==
    CASE Kind = "gather" -> Outcomes \cap {"ok", "failed", "unreachable"}
      [] Kind = "verify" -> IF h \in missed THEN {"failed"} ELSE {"skipped"}
      [] Kind = "gate" -> IF h \in isolated THEN {"failed"} ELSE {"skipped"}
      [] Kind \in {"publish", "budget", "local"} -> {"ok", "failed"}
      [] Kind = "record" -> {"ok"}
      [] OTHER -> Outcomes

\* What host h may answer: verify fails where gather found the host missing,
\* the gate fails when any host recorded a failure.
Possible(h) ==
    CASE Kind = "gather" -> Outcomes \cap {"ok", "failed", "unreachable"}
      [] Kind = "verify" -> IF h \in missed THEN {"failed"} ELSE {"skipped"}
      [] Kind = "gate" -> IF isolated # {} THEN {"failed"} ELSE {"skipped"}
      [] Kind \in {"publish", "budget", "local"} -> {"ok", "failed"}
      [] Kind = "record" -> {"ok"}
      [] OTHER -> Outcomes

Counter(h, c) == stats' = [stats EXCEPT ![h] = @ \cup {c}]

\* Mutant of Fails: the block has no rescue.
FailsUnrescued(h) ==
    /\ Counter(h, "failures")
    /\ failed' = failed \cup {h}
    /\ UNCHANGED rescuing

\* A failed task: rescued in the block of an isolated play, final elsewhere.
Fails(h) ==
    \/ /\ Site[play].isolated
       /\ Counter(h, "rescued")
       /\ rescuing' = rescuing \cup {h}
       /\ UNCHANGED failed
    \/ /\ ~Site[play].isolated
       /\ Counter(h, "failures")
       /\ failed' = failed \cup {h}
       /\ UNCHANGED rescuing

\* An unreachable host leaves the run, unless ignore_unreachable is set.
Unreached(h) ==
    \/ /\ Kind \in {"gather", "away"}
       /\ Counter(h, "ok")
       /\ missed' = IF Kind = "gather" THEN missed \cup {h} ELSE missed
       /\ UNCHANGED unreachable
    \/ /\ Kind \notin {"gather", "away"}
       /\ Counter(h, "unreachable")
       /\ unreachable' = unreachable \cup {h}
       /\ UNCHANGED missed

\* The result of one host, in the executor and in the callback.
Report(h, o) ==
    /\ pc = "results" /\ h \in waiting /\ o \in Possible(h)
    /\ waiting' = waiting \ {h}
    /\ pc' = IF waiting = {h} THEN "next" ELSE "results"
    /\ \/ o = "failed" /\ Fails(h) /\ UNCHANGED <<unreachable, missed>>
       \/ o = "unreachable" /\ Unreached(h) /\ UNCHANGED <<failed, rescuing>>
       \/ /\ o \notin {"failed", "unreachable"}
          /\ Counter(h, "ok")
          /\ UNCHANGED <<failed, rescuing, unreachable, missed>>
    /\ isolated' = IF Kind = "record" THEN isolated \cup {h} ELSE isolated
    /\ config' = IF Kind = "publish" /\ o = "ok"
                 THEN (IF check THEN "check" ELSE "real") ELSE config
    /\ open' = Counted(open, o)
    /\ unreached' = Explained(h, o)
    /\ log' = log \cup {[task |-> started, kind |-> Kind, host |-> h, outcome |-> o]}
    /\ UNCHANGED <<world, play, step, lost, tasks, emitted, hec, started, done, ending>>

Result == \E h \in AllHosts, o \in AllOutcomes : Report(h, o)

\* Ansible breaks off the playbook when a play lost every host it was to run on.
Broken == Site[play].on # {} /\ (failed \cup unreachable) \ lost = Site[play].on

EndPlay ==
    /\ pc = "next" /\ ~TaskIsLeft /\ ~RescueIsLeft
    /\ pc' = IF Broken \/ play = Len(Site) THEN "stats" ELSE "play"
    /\ done' = [h \in AllHosts |-> IF h \in Candidates THEN done[h] \cup {play} ELSE done[h]]
    /\ UNCHANGED <<world, executor, callback, hec, started, log, ending>>

-----------------------------------------------------------------------------
(* The end of the run *)

\* Mutant of OnStats: _emitted is set after the post.
OnStatsLate ==
    /\ pc = "stats"
    /\ pc' = "emit"
    /\ UNCHANGED <<world, executor, callback, hec, history, ending>>

\* v2_playbook_on_stats() claims the report before it makes it.
OnStats ==
    /\ pc = "stats"
    /\ emitted' = TRUE
    /\ pc' = "emit"
    /\ UNCHANGED <<world, executor, config, open, tasks, unreached, hec, history, ending>>

\* _emit(): nothing without configuration or in check mode.
Emit ==
    /\ pc = "emit"
    /\ \/ /\ config # "none" /\ ~IsCheckMode
          /\ Post(ConvergeBatch)
          /\ tasks' = Closed /\ open' = NoTask
       \/ /\ config = "none" \/ IsCheckMode
          /\ UNCHANGED <<hec, tasks, open>>
    /\ pc' = "exit"
    /\ UNCHANGED <<world, executor, config, unreached, emitted, history, ending>>

\* _on_interpreter_exit()
AtExit ==
    /\ pc = "exit"
    /\ \/ /\ ~emitted /\ config # "none" /\ ~IsCheckMode
          /\ Post(InterruptedBatch)
          /\ tasks' = Closed /\ open' = NoTask
       \/ /\ emitted \/ config = "none" \/ IsCheckMode
          /\ UNCHANGED <<hec, tasks, open>>
    /\ pc' = "ended"
    /\ UNCHANGED <<world, executor, config, unreached, emitted, history, ending>>

\* Ctrl-C or a bail-out runs the exit hook, SIGKILL does not.
Interrupt ==
    /\ "interrupt" \in Stops /\ pc \notin {"exit", "ended"}
    /\ pc' = "exit" /\ ending' = "interrupt"
    /\ UNCHANGED <<world, executor, callback, hec, history>>

Kill ==
    /\ "kill" \in Stops /\ pc # "ended"
    /\ pc' = "ended" /\ ending' = "kill"
    /\ UNCHANGED <<world, executor, callback, hec, history>>

Converge == StartPlay \/ NextTask \/ Result \/ EndPlay \/ OnStats \/ Emit \/ AtExit

Next == Converge \/ Interrupt \/ Kill

Spec == Init /\ [][Next]_vars

-----------------------------------------------------------------------------
(* Properties *)

LogEntry == [task : Nat, kind : TaskKinds \cup {"record"}, host : AllHosts,
             outcome : AllOutcomes]
Verdicts == {"success", "failed"}
Batch(b) ==
    /\ b.kind \in {"converge", "interrupted"}
    /\ DOMAIN b.status \subseteq AllHosts
    /\ \A h \in DOMAIN b.status : b.status[h] \in Verdicts

\* The executor is in a play, and a task is open while its results come in.
InProgress ==
    /\ pc \in {"next", "results"} => play \in DOMAIN Site
    /\ pc = "results" => step > 0 /\ open # NoTask
    /\ pc \in {"play", "next"} => waiting = {}

\* Every variable holds a value of its type.
TypeOK ==
    /\ pc \in {"play", "next", "results", "stats", "emit", "exit", "ended"}
    /\ check \in BOOLEAN /\ cli \in BOOLEAN /\ reach \in BOOLEAN
    /\ play \in 0 .. Len(Site) /\ step \in Nat
    /\ waiting \subseteq AllHosts /\ rescuing \subseteq AllHosts
    /\ missed \subseteq AllHosts /\ lost \subseteq AllHosts
    /\ failed \subseteq AllHosts /\ unreachable \subseteq AllHosts
    /\ isolated \subseteq AllHosts
    /\ stats \in [AllHosts -> SUBSET {"ok", "failures", "unreachable", "rescued"}]
    /\ config \in {"none", "real", "check"} /\ emitted \in BOOLEAN
    /\ open \in TaskTiming \cup {NoTask} /\ tasks \in Seq(TaskTiming)
    /\ unreached \subseteq [host : AllHosts, task : Nat]
    /\ \A i \in DOMAIN hec : Batch(hec[i])
    /\ started \in Nat /\ log \subseteq LogEntry
    /\ done \in [AllHosts -> SUBSET DOMAIN Site]
    /\ ending \in {"normal", "interrupt", "kill"}
    /\ InProgress

Fresh(h) == \E i \in DOMAIN hec : h \in DOMAIN hec[i].status /\ hec[i].status[h] = "success"

\* A host is published as converged only by a real run in which no task failed
\* on it, rescued or not, and none lost it (host_status, is_check_mode); and
\* when the run went through all plays, it went through all of its own.
SuccessIsClean ==
    \A h \in AllHosts : Fresh(h) =>
      /\ ~check /\ h \notin isolated
      /\ \A e \in log : e.host = h =>
           /\ e.outcome # "failed"
           /\ e.outcome = "unreachable" => e.kind = "away"
      /\ play = Len(Site) => \A p \in DOMAIN Site : h \in Site[p].on => p \in done[h]

\* Every run that is not a dry run, got as far as its configuration and is not
\* killed or interrupted in the very act reports itself once, as what it was:
\* never as interrupted on top of a real end of run (_emitted).
ReportedOnce ==
    /\ Len(hec) <= 1
    /\ pc = "ended" /\ reach /\ config = "real" /\ ending # "kill"
         /\ ~(emitted /\ ending = "interrupt") =>
       /\ Len(hec) = 1
       /\ hec[1].kind = IF ending = "interrupt" THEN "interrupted" ELSE "converge"

Answered(n, os) == Cardinality({e \in log : e.task = n /\ e.outcome \in os})

RecordOf(n) ==
    [task |-> n, hosts |-> Answered(n, AllOutcomes),
     changed |-> Answered(n, {"changed"}), failed |-> Answered(n, {"failed"}),
     unreachable |-> Answered(n, {"unreachable"})]

\* The published task records are all tasks that started, in order, the last one
\* included, and each counts exactly the results of its own task, whichever task
\* the run was stopped in.
TaskRecordsFaithful ==
    \A i \in DOMAIN hec :
      /\ Len(hec[i].tasks) = started
      /\ \A n \in DOMAIN hec[i].tasks : hec[i].tasks[n] = RecordOf(n)

\* Every host that could not be reached is published with the task it was lost
\* in, also where the summary has forgotten it because gather.yml rescued it.
UnreachableExplained ==
    \A i \in DOMAIN hec :
      hec[i].unreached =
        {[host |-> e.host, task |-> e.task] : e \in {e \in log : e.outcome = "unreachable"}}

\* A run that ends with exit code 0 has no isolated failure on any host: the
\* final gate sees what every host recorded.
IsolatedFailuresSurface ==
    pc = "ended" /\ ending = "normal" /\ failed \cup unreachable = {} => isolated = {}

\* Failing tasks never make an isolated play break off the run, and neither does
\* a host gather.yml finds unreachable: it takes every host of the play going
\* away after that.
IsolationHolds ==
    pc = "stats" /\ play < Len(Site) /\ Site[play].isolated =>
      /\ Site[play].on \subseteq unreachable
      /\ missed \cap unreachable = {}
=============================================================================
