-------------------------- MODULE NautobotPipeline --------------------------
(***************************************************************************)
(* How inventory reaches the consumers: a converge writes the seed bundle,  *)
(* reconciles the export schedule and runs run_seed_jobs.py, which enqueues *)
(* the seed jobs one by one to a Celery worker with two slots and polls     *)
(* each result until a deadline. Ingest jobs load the bundle and write      *)
(* their rows; the export job reads the rows, part after part, and uploads  *)
(* the artifact unless its ordering guard refuses. The scheduler and people *)
(* enqueue jobs of their own, a job that timed out goes on in the worker,   *)
(* and jobs fail or are lost at any point.                                  *)
(*                                                                          *)
(* Rows are abstracted to the version of the bundle they came from, and to  *)
(* whether some of them were left out. The devices, racks and interfaces of *)
(* an export are one part of it. A job loads its bundle once here: the node *)
(* and guest jobs read the file again for their addresses. What the         *)
(* hardware and drive jobs write is refined in NautobotHardware.            *)
(***************************************************************************)
EXTENDS Naturals, Sequences, FiniteSets

CONSTANTS
    Supplies,      \* for each converge, the sets of jobs the controller may have rows for
    RunExport,     \* NAUTOBOT_RUN_EXPORT
    ByHand,        \* the jobs that people may start in the Nautobot UI
    MaxConverges,  \* bound on converges
    MaxBusy,       \* bound on jobs in the worker when a converge begins or somebody
                   \* else starts a job
    MaxUpsets      \* bound on rows left out, failed and lost jobs, jobs that cannot be
                   \* enqueued, runs that are not the runner's, and changes of the schedule

-----------------------------------------------------------------------------
SliceJobs == {"nodes", "addresses", "dcim", "vms", "drives"}
IngestJobs == SliceJobs \cup {"vlans", "hardware"}
Jobs == IngestJobs \cup {"onboarding", "export"}

\* What the guard takes for an ingest. Mutant: it does not know the node job.
IngestWithoutNodes == {"vms", "vlans", "addresses", "dcim", "hardware", "drives"}
IngestModules == {"vms", "nodes", "vlans", "addresses", "dcim", "hardware", "drives"}

ASSUME PipelineAssumption ==
    /\ Supplies \in [1 .. MaxConverges -> SUBSET SUBSET IngestJobs]
    /\ RunExport \in BOOLEAN /\ ByHand \subseteq Jobs
    /\ MaxConverges \in Nat /\ MaxBusy \in Nat /\ MaxUpsets \in Nat

VARIABLES
    bundles,   \* the bundles written so far: the jobs each has rows for
    db,        \* version of each job's rows in Nautobot; 0 is none
    partial,   \* what is incomplete: rows left out or misfiled, addresses not bound
    lastDone,  \* date of the last successful export and ingest
    queue,     \* enqueued jobs that no slot has taken
    slots,     \* what each slot of the worker is doing
    artifact,  \* the published versions
    schedule,  \* the ScheduledJob of the export
    enabled,   \* jobs that are enabled in Nautobot
    runner,    \* what run_seed_jobs.py does next
    todo,      \* jobs it has still to run
    good,      \* no job of this run has failed
    polled,    \* status of the result it polls
    upsets,    \* disturbances so far
    alone,     \* history: no job was active when the converge began
    calm,      \* history: alone, and since then no fault and no foreign run
    untouched, \* history: nobody turned the schedule off since the converge
    blurred,   \* history: an ingest wrote during an export, or wrote and failed
    skipped    \* history: what a job left out since the converge, and only logged

dbVars == <<db, partial, lastDone, artifact>>
runnerVars == <<runner, todo, good, polled>>
history == <<alone, calm, untouched, blurred, skipped>>
vars == <<bundles, dbVars, queue, slots, schedule, enabled, runnerVars, upsets, history>>

-----------------------------------------------------------------------------
\* The parts build_export reads, in its order, each with the jobs whose rows are in
\* it: the Devices are those of three jobs. Modules and drives are not exported.
Parts == <<{"vlans"}, {"addresses"}, {"dcim", "nodes", "hardware"}, {"vms"}>>
Published == IngestJobs \ {"drives"}

\* What a job makes: its rows and, for nodes and guests, their primary addresses.
Made(j) ==
    CASE j = "nodes" -> {"nodes", "node addresses"}
      [] j = "vms"   -> {"vms", "vm addresses"}
      [] OTHER       -> {j}
Items == IngestJobs \cup {"node addresses", "vm addresses"}

\* The rows it takes to make it.
Needs(i) ==
    CASE i \in {"addresses", "vm addresses"} -> {"vlans"}
      [] i = "node addresses" -> {"addresses"}
      [] i = "hardware"       -> {"dcim", "nodes"}
      [] i = "drives"         -> {"nodes"}
      [] OTHER                -> {}
Under(i) == Needs(i) \cup UNION {Needs(n) : n \in Needs(i)}

\* One disturbance more, within the bound.
Upset == upsets < MaxUpsets /\ upsets' = upsets + 1

Slots == 1 .. 2
Idle == [at |-> "idle"]
Queued == [job : Jobs, mine : BOOLEAN]
NoDoc == [p \in Published |-> 0]

\* `mine`: the runner polls this result. `at`: the next step of the job. `got`: the
\* bundle an ingest loaded, or the number of parts an export has read.
Task(q, at, got) == [job |-> q.job, mine |-> q.mine, at |-> at, got |-> got, doc |-> NoDoc]
Active == {s \in Slots : slots[s] # Idle}
Exporting == {s \in Active : slots[s].job = "export"}
Writing == {s \in Active : slots[s].job \in IngestJobs /\ slots[s].at = "finish"}

Current == Len(bundles)
Rows(v) == IF v = 0 THEN {} ELSE bundles[v]

\* The jobs of a run: a slice job without rows is dropped before the loop.
Supplied(j, rows) == IF j \in rows THEN <<j>> ELSE <<>>
Gated(rows) ==
    <<"vlans">> \o Supplied("addresses", rows) \o Supplied("dcim", rows)
    \o Supplied("nodes", rows) \o Supplied("vms", rows) \o <<"hardware", "onboarding">>
    \o (IF RunExport THEN <<"export">> ELSE <<>>) \o Supplied("drives", rows)

\* Mutants of SeedJobs: the export comes first; the drives come first.
Without(seq, job) == SelectSeq(seq, LAMBDA j : j # job)
ExportFirst(rows) == <<"export">> \o Without(Gated(rows), "export")
DrivesFirst(rows) == Supplied("drives", rows) \o Without(Gated(rows), "drives")
SeedJobs(rows) == Gated(rows)

Init ==
    /\ bundles = <<>>
    /\ db = [j \in IngestJobs |-> 0] /\ partial = {}
    /\ lastDone = [export |-> 0, ingest |-> 0]
    /\ queue = <<>> /\ slots = [s \in Slots |-> Idle]
    /\ artifact = NoDoc
    /\ schedule = "absent" /\ enabled = {}
    /\ runner = "idle" /\ todo = <<>> /\ good = TRUE /\ polled = "none"
    /\ upsets = 0
    /\ alone = TRUE /\ calm = TRUE /\ untouched = TRUE /\ blurred = FALSE
    /\ skipped = {}

-----------------------------------------------------------------------------
\* The converge.

\* schedule_export.py turns on a schedule that was there and off.
Reconciled(s) == "on"

\* The role writes the bundle, reconciles the schedule and starts the runner.
Converge ==
    /\ runner \in {"idle", "done"}
    /\ Current < MaxConverges /\ Len(queue) + Cardinality(Active) <= MaxBusy
    /\ \E rows \in Supplies[Current + 1] :
         /\ bundles' = Append(bundles, rows)
         /\ todo' = SeedJobs(rows)
    /\ schedule' = Reconciled(schedule)
    /\ enabled' = enabled \cup {"export"}
    /\ runner' = "next" /\ good' = TRUE
    /\ alone' = (queue = <<>> /\ Active = {})
    /\ calm' = alone'
    /\ untouched' = TRUE /\ skipped' = {}
    /\ UNCHANGED <<dbVars, queue, slots, polled, upsets, blurred>>

Enqueue ==
    /\ runner = "next" /\ todo # <<>>
    /\ enabled' = enabled \cup {Head(todo)}
    /\ queue' = Append(queue, [job |-> Head(todo), mine |-> TRUE])
    /\ runner' = "poll" /\ polled' = "PENDING"
    /\ UNCHANGED <<bundles, dbVars, slots, schedule, todo, good, upsets, history>>

NextJob(ok) ==
    /\ good' = (good /\ ok)
    /\ todo' = Tail(todo)
    /\ runner' = "next" /\ polled' = "none"

\* The job is not registered, or enqueue_job raises.
CannotEnqueue ==
    /\ runner = "next" /\ todo # <<>>
    /\ Upset
    /\ NextJob(FALSE)
    /\ calm' = FALSE
    /\ UNCHANGED <<bundles, dbVars, queue, slots, schedule, enabled,
                   alone, untouched, blurred, skipped>>

JobDone ==
    /\ runner = "poll" /\ polled \in {"SUCCESS", "FAILURE"}
    /\ NextJob(polled = "SUCCESS")
    /\ UNCHANGED <<bundles, dbVars, queue, slots, schedule, enabled, upsets, history>>

Unpolled(q) == [i \in DOMAIN q |-> [q[i] EXCEPT !.mine = FALSE]]

\* The deadline passes, whatever the worker does with the job: it stays where it
\* is, and nobody polls it any more. Mutant: the deadline runs from the start of
\* the job.
TimeOutStarted ==
    /\ runner = "poll" /\ polled = "STARTED"
    /\ NextJob(FALSE)
    /\ queue' = Unpolled(queue)
    /\ slots' = [s \in Slots |-> IF s \in Active THEN [slots[s] EXCEPT !.mine = FALSE] ELSE Idle]
    /\ calm' = FALSE
    /\ UNCHANGED <<bundles, dbVars, schedule, enabled, upsets, alone, untouched, blurred, skipped>>
TimeOut ==
    /\ runner = "poll"
    /\ NextJob(FALSE)
    /\ queue' = Unpolled(queue)
    /\ slots' = [s \in Slots |-> IF s \in Active THEN [slots[s] EXCEPT !.mine = FALSE] ELSE Idle]
    /\ calm' = FALSE
    /\ UNCHANGED <<bundles, dbVars, schedule, enabled, upsets, alone, untouched, blurred, skipped>>

Exit ==
    /\ runner = "next" /\ todo = <<>>
    /\ runner' = "done"
    /\ UNCHANGED <<bundles, dbVars, queue, slots, schedule, enabled, todo, good, polled,
                   upsets, history>>

-----------------------------------------------------------------------------
\* Celery, the scheduler and people.

Foreign(j) ==
    /\ Upset /\ Len(queue) + Cardinality(Active) <= MaxBusy
    /\ queue' = Append(queue, [job |-> j, mine |-> FALSE])
    /\ calm' = FALSE
    /\ UNCHANGED <<bundles, dbVars, slots, schedule, enabled, runnerVars,
                   alone, untouched, blurred, skipped>>

Beat == schedule = "on" /\ Foreign("export")
RunFromUI == \E j \in enabled \cap ByHand : Foreign(j)

TurnOff ==
    /\ schedule = "on"
    /\ Upset
    /\ schedule' = "off"
    /\ untouched' = FALSE
    /\ UNCHANGED <<bundles, dbVars, queue, slots, enabled, runnerVars, alone, calm,
                   blurred, skipped>>

FirstIdle(s) == slots[s] = Idle /\ \A t \in 1 .. s - 1 : slots[t] # Idle

\* An idle slot takes the oldest job and does its first step.
Takes(s, j) == queue # <<>> /\ FirstIdle(s) /\ Head(queue).job = j

Begin(s, at, got) ==
    /\ queue' = Tail(queue)
    /\ slots' = [slots EXCEPT ![s] = Task(Head(queue), at, got)]
    /\ polled' = IF Head(queue).mine THEN "STARTED" ELSE polled
    /\ UNCHANGED <<bundles, dbVars, schedule, enabled, runner, todo, good, upsets, history>>

\* The first step is to refuse. Mutant: the status is not one the runner knows.
DeclineRaised ==
    /\ queue' = Tail(queue)
    /\ polled' = IF Head(queue).mine THEN "ERRORED" ELSE polled
    /\ UNCHANGED <<bundles, dbVars, slots, schedule, enabled, runner, todo, good, upsets, history>>
Decline ==
    /\ queue' = Tail(queue)
    /\ polled' = IF Head(queue).mine THEN "FAILURE" ELSE polled
    /\ UNCHANGED <<bundles, dbVars, slots, schedule, enabled, runner, todo, good, upsets, history>>

\* A job ends; the runner sees the status of the result it polls.
End(s, status) ==
    /\ slots' = [slots EXCEPT ![s] = Idle]
    /\ polled' = IF slots[s].mine THEN status ELSE polled
    /\ UNCHANGED <<bundles, queue, schedule, enabled, runner, todo, good>>

Goto(s, at) ==
    /\ slots' = [slots EXCEPT ![s].at = at]
    /\ UNCHANGED <<bundles, queue, schedule, enabled, runnerVars>>

\* A job fails at any point: a write that raises, a row that does not load, a
\* check after the write, an upload that is refused, a revoked task.
Fail(s) ==
    /\ s \in Active
    /\ Upset
    /\ End(s, "FAILURE")
    /\ calm' = FALSE
    /\ blurred' = (blurred \/ s \in Writing)
    /\ UNCHANGED <<dbVars, alone, untouched, skipped>>

\* The worker is restarted: the result of the job stays STARTED for ever.
Lose(s) ==
    /\ s \in Active
    /\ Upset
    /\ End(s, "STARTED")
    /\ calm' = FALSE
    /\ blurred' = (blurred \/ s \in Writing)
    /\ UNCHANGED <<dbVars, alone, untouched, skipped>>

-----------------------------------------------------------------------------
\* The ingest jobs.

\* The drive job deletes what is not in its slice, and so refuses an empty one.
\* Mutant: it does not.
RefusesNone(j, v) == FALSE
Refuses(j, v) == j = "drives" /\ j \notin Rows(v)

\* Without rows the other jobs have nothing to write.
Load(s) == \E j \in IngestJobs :
    /\ Takes(s, j) /\ ~Refuses(j, Current)
    /\ Begin(s, IF j \in Rows(Current) \/ j = "drives" THEN "write" ELSE "finish", Current)
RefuseEmpty(s) == \E j \in IngestJobs : Takes(s, j) /\ Refuses(j, Current) /\ Decline

\* "Configure Device Onboarding Targets": nothing of it is ingested or exported.
Onboard(s) == Takes(s, "onboarding") /\ Begin(s, "finish", 0)

\* The rows a job leaves: only the drive job can leave none.
Written(j, v) == IF j \in Rows(v) THEN v ELSE 0

\* All it needs is there, in the version it comes with: then nothing is missed.
\* Otherwise some may be, for nodes and prefixes are made by other jobs and people too.
Attached(i, v) == \A n \in Needs(i) : n \in Rows(v) /\ db[n] >= v /\ n \notin partial

\* Job j leaves the rows of bundle v, except what it missed.
Lands(j, v, missed) ==
    /\ db' = [db EXCEPT ![j] = Written(j, v)]
    /\ partial' = (partial \ Made(j)) \cup missed

Loaded(s) == s \in Active /\ slots[s].at = "write"

\* What has no parent is logged, skipped or filed as a spare, and the job succeeds.
\* A drive of a node that is no Device is not even counted.
Write(s) ==
    /\ Loaded(s)
    /\ LET j == slots[s].job
           v == slots[s].got IN
       \E missed \in SUBSET {i \in Made(j) : ~Attached(i, v)} : Lands(j, v, missed)
    /\ blurred' = (blurred \/ Exporting # {})
    /\ Goto(s, "finish")
    /\ UNCHANGED <<lastDone, artifact, upsets, alone, calm, untouched, skipped>>

\* A row that the job cannot use, or whose creation raises: nautobot_ssot logs it,
\* and the job succeeds.
Skip(s) ==
    /\ Loaded(s)
    /\ Upset
    /\ \E missed \in SUBSET Made(slots[s].job) \ {{}} :
         /\ Lands(slots[s].job, slots[s].got, missed)
         /\ skipped' = skipped \cup missed
    /\ calm' = FALSE
    /\ blurred' = (blurred \/ Exporting # {})
    /\ Goto(s, "finish")
    /\ UNCHANGED <<lastDone, artifact, alone, untouched>>

\* Two jobs look at what they wrote. The drives are fewer than were loaded:
CountDrives(s) ==
    /\ Loaded(s) /\ slots[s].job = "drives"
    /\ Upset
    /\ Lands("drives", slots[s].got, {"drives"})
    /\ skipped' = skipped \cup {"drives"}
    /\ End(s, "FAILURE")
    /\ calm' = FALSE /\ blurred' = TRUE
    /\ UNCHANGED <<lastDone, artifact, alone, untouched>>

\* or no node at all has an address.
NoneBound(s) ==
    /\ Loaded(s) /\ slots[s].job = "nodes"
    /\ ~Attached("node addresses", slots[s].got)
    /\ Lands("nodes", slots[s].got, {"node addresses"})
    /\ End(s, "FAILURE")
    /\ blurred' = TRUE
    /\ UNCHANGED <<lastDone, artifact, upsets, alone, calm, untouched, skipped>>

\* date_done of a success, as far as it matters: which kind's is the later one.
Stamp(kind) == [k \in {"export", "ingest"} |-> IF k = kind THEN 2 ELSE IF lastDone[k] = 0 THEN 0 ELSE 1]

JobEnd(s) ==
    /\ s \in Active \ Exporting /\ slots[s].at = "finish"
    /\ lastDone' = IF slots[s].job \in IngestModules THEN Stamp("ingest") ELSE lastDone
    /\ End(s, "SUCCESS")
    /\ UNCHANGED <<db, partial, artifact, upsets, history>>

-----------------------------------------------------------------------------
\* The export job.

\* _assert_ingest_ordering.
GuardPasses == lastDone.export = 0 \/ lastDone.ingest > lastDone.export

Guard(s) == Takes(s, "export") /\ GuardPasses /\ Begin(s, "read", 0)
Refuse(s) == Takes(s, "export") /\ ~GuardPasses /\ Decline

\* build_export, one part at a time; `got` counts the parts read.
ReadPart(s) ==
    /\ s \in Exporting /\ slots[s].at = "read"
    /\ LET n == slots[s].got + 1 IN
       slots' = [slots EXCEPT ![s].doc = [p \in Published |-> IF p \in Parts[n] THEN db[p] ELSE @[p]],
                              ![s].got = n,
                              ![s].at = IF n = Len(Parts) THEN "upload" ELSE "read"]
    /\ UNCHANGED <<bundles, queue, schedule, enabled, runnerVars, dbVars, upsets, history>>

Upload(s) ==
    /\ s \in Exporting /\ slots[s].at = "upload"
    /\ artifact' = slots[s].doc
    /\ Goto(s, "finish")
    /\ UNCHANGED <<db, partial, lastDone, upsets, history>>

ExportEnd(s) ==
    /\ s \in Exporting /\ slots[s].at = "finish"
    /\ lastDone' = Stamp("export")
    /\ End(s, "SUCCESS")
    /\ UNCHANGED <<db, partial, artifact, upsets, history>>

-----------------------------------------------------------------------------
Runner == Enqueue \/ JobDone \/ TimeOut \/ Exit
Writes(s) == Write(s) \/ Skip(s) \/ CountDrives(s) \/ NoneBound(s)
Ingest(s) == Load(s) \/ RefuseEmpty(s) \/ Writes(s) \/ Onboard(s) \/ JobEnd(s)
Export(s) == Guard(s) \/ Refuse(s) \/ ReadPart(s) \/ Upload(s) \/ ExportEnd(s)
Outside == Beat \/ RunFromUI \/ TurnOff \/ CannotEnqueue

Next ==
    \/ Converge
    \/ Runner
    \/ Outside
    \/ \E s \in Slots : Ingest(s) \/ Export(s) \/ Fail(s) \/ Lose(s)

\* The runner is a loop with a deadline; of the worker nothing is assumed.
Spec == Init /\ [][Next]_vars /\ WF_vars(Runner)

-----------------------------------------------------------------------------
Tasks == [job : Jobs, mine : BOOLEAN, at : {"write", "read", "upload", "finish"},
          got : Nat, doc : [Published -> 0 .. MaxConverges]]

TypeOK ==
    /\ bundles \in Seq(SUBSET IngestJobs) /\ Len(bundles) <= MaxConverges
    /\ db \in [IngestJobs -> 0 .. MaxConverges] /\ partial \subseteq Items
    /\ lastDone \in [export : Nat, ingest : Nat]
    /\ queue \in Seq(Queued)
    /\ slots \in [Slots -> Tasks \cup {Idle}]
    /\ artifact \in [Published -> 0 .. MaxConverges]
    /\ schedule \in {"absent", "on", "off"} /\ enabled \subseteq Jobs
    /\ runner \in {"idle", "next", "poll", "done"}
    /\ todo \in Seq(Jobs) /\ good \in BOOLEAN
    /\ polled \in {"none", "PENDING", "STARTED", "SUCCESS", "FAILURE"}
    /\ upsets \in 0 .. MaxUpsets
    /\ alone \in BOOLEAN /\ calm \in BOOLEAN /\ untouched \in BOOLEAN /\ blurred \in BOOLEAN
    /\ skipped \subseteq Items

\* At most one result is polled, and it is that of the job at the head of the
\* list: a job that timed out never answers for the next one.
OneAnswer ==
    /\ \A s \in Active : slots[s].mine => runner = "poll" /\ slots[s].job = Head(todo)
    /\ \A i \in DOMAIN queue : queue[i].mine => runner = "poll" /\ queue[i].job = Head(todo)
    /\ Cardinality({s \in Active : slots[s].mine}) + Cardinality({i \in DOMAIN queue : queue[i].mine}) <= 1

\* It was left out and logged, or builds on what was or on what the bundle has not.
Excused(i) == i \in skipped \/ \E n \in Under(i) : n \in skipped \/ n \notin Rows(Current)

\* Exit code 0 of a converge that began with an idle worker means that every job
\* wrote this bundle's rows, also when other runs of the same jobs got in between,
\* and that nothing is missing but what a job left out with no more than a log
\* line, or what builds on rows that this bundle lacks or that were left out.
ZeroMeansSeeded ==
    runner = "done" /\ good /\ alone =>
        \A j \in Rows(Current) : db[j] = Current /\ \A i \in Made(j) \cap partial : Excused(i)

\* A converge that nothing disturbed publishes what it has just ingested and
\* succeeds, with a partial bundle too, provided that nodes come with addresses.
ConvergePublishes ==
    runner = "done" /\ calm =>
        /\ ("nodes" \in Rows(Current) => {"vlans", "addresses"} \subseteq Rows(Current)) => good
        /\ RunExport => \A p \in Published : artifact[p] = db[p]

\* After the converge the export is scheduled until somebody turns it off,
\* also when it was off before.
ScheduleOn == Current > 0 /\ untouched => schedule = "on"

\* Rows of a job are kept when a bundle does not supply them.
Retained == [][\A j \in IngestJobs : db[j] # 0 => db'[j] # 0]_vars

\* The guard refuses only what is already published, provided that no ingest
\* wrote during an export or failed after writing, and that none is about to end.
GuardSound ==
    [][\A s \in Slots : Refuse(s) /\ ~blurred /\ Writing = {} =>
          \A p \in Published : artifact[p] = db[p]]_vars

\* What the guard's docstring says instead: without a successful ingest since
\* the last export nothing new can have arrived. No other job is active here.
NothingNewWhenRefused ==
    [][\A s \in Slots : Refuse(s) /\ Active = {} =>
          \A p \in Published : artifact[p] = db[p]]_vars

\* run_seed_jobs.py ends, also when the worker is dead and every job of the list
\* misses its deadline.
RunnerEnds == []<>(runner \in {"idle", "done"})
=============================================================================
