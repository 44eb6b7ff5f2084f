# Verification of ansible-proxmox-apps

TLA+ models of the parts of this repository that keep state of their own and
meet concurrency, failure or time:

- the ntfy-Zammad alert bridge (`NtfyZammadBridge`, against the abstract
  `AlertQueue`);
- a run of `site.yml` with the telemetry it publishes (`SiteConverge`);
- the Nautobot pipeline: seed runner, worker, ingest jobs, export and its
  ordering guard (`NautobotPipeline`);
- the two ingest jobs that rename and delete, hardware and drives
  (`NautobotHardware`);
- the Homarr converger (`Homarr`);
- the choice of Molecule scenarios for a change (`MoleculeSelection`).

TLC checks them on small instances. TLAPS proves every safety property that a
passing run checks, and the refinement, for every value of the constants; only
liveness is left to TLC alone.

    tlc -workers 2 -config bridge_faults.cfg   MCNtfyZammadBridge.tla
    tlc -workers 2 -config converge_site.cfg   MCSiteConverge.tla
    tlc -workers 2 -config pipeline_seed.cfg   MCNautobotPipeline.tla
    tlc -workers 2 -config hardware_rows.cfg   MCNautobotHardware.tla
    tlc -workers 2 -config homarr_converge.cfg MCHomarr.tla
    tlc -workers 2 -config molecule_select.cfg MCMoleculeSelection.tla
    tlapm NtfyZammadBridgeProofs.tla     # and the other *Proofs.tla

`PROJECT.json` lists the components, the runs, the definitions with the source
lines they translate, the hazards, the findings and the theorems.

## 1. Inventory

The repository is mostly declarative: about 60 roles that each render the
configuration of one service. The program logic is in a few places.

| Component | State it keeps | Operations | What is hard about it | What makes it correct |
|---|---|---|---|---|
| **Alert bridge** `roles/ntfy_docker/files/ntfy-zammad.py`, `ntfy_zammad_repeat.py`, `ntfy_zammad_spool.py` | state directory: `spool/*.json`, `repeat-state.json`, `failures`; tickets, states, tags and articles in Zammad | one process per ntfy message: replay the spool, find the ticket, append, close, reopen or create, tag it, remember the article; on failure spool, count, page | check-then-act over HTTP next to operators; outages, answers lost after the change was applied; crashes between any two file operations; ordering of replayed and new messages | one active ticket per alert; the ticket agrees with the alert; nothing lost, nothing out of order; other people's tickets left alone; one page per outage |
| **site.yml run** `playbooks/site.yml`, `playbooks/site/`, `tasks/gather.yml`, `tasks/record_isolated_failure.yml` | per host: failed, unreachable, `site_isolated_failures`; Ansible's counters | plays in order, block/rescue isolation, `gather.yml` under `ignore_unreachable`, budget gates, final gate | a host failing in the middle of an isolated play; unreachable is not failed; hosts answering in any order; a run cut short | isolated failures neither spread nor vanish |
| **Converge telemetry** `callback_plugins/converge_telemetry.py`, `module_utils/converge_telemetry_events.py` | open task, closed tasks, unreachable results, captured configuration, `_emitted` | callbacks for task start, result and stats; exit hook; HEC post | interrupts and kills anywhere, dry runs recognised by two signals, results that arrive around a task's end | a published success means the host converged; one report per run; faithful records |
| **Nautobot seed runner** `roles/nautobot/files/run_seed_jobs.py` | list of jobs, the job results in the database | slice gate, enqueue, poll, time out, go on | a job that timed out still runs in the worker while the next one starts | a job that needs an earlier one runs after it, or the run fails |
| **Nautobot ingest jobs** `jobs/ssot_*.py`, `device_onboarding_setup.py` | devices, IPs, VLANs, Modules, drives in the database | load, diff, create, update; the hardware job renames and deletes Modules and bays, the drive sync deletes items | partial bundles, empty slices, runs that die between two writes, people who edit the same objects | rows of an absent slice are kept; units and drives are what tables and nodes say; what people recorded stays |
| **Nautobot export** `jobs/export_nautobot.py`, `schedule_export.py` | job results, the artifact in S3 | ordering guard, read, validate, publish | an ingest that ends while an export reads | what an ingest wrote is published eventually |
| **Homarr converger** `roles/homarr/files/homarr_api.py`, `homarr_boards.py`, `homarr_trpc.py` | the onboarding step, keys, apps, integrations and boards in Homarr; the key in a file and in OpenBao | probe the key, onboard or log in, mint, sync | every call refused, or applied with its answer lost; two versions of the onboarding; guests rebuilt under a stored key | the specification is reached; a second run changes nothing; no more apps of a URL than services; keys do not pile up |
| **Molecule selection** `.github/scripts/select-molecule-scenarios.py` | none; reads the tree and the list of changed paths | choose all, smoke, or the closure over role references | references in cycles; roles and scenarios that are gone or moved | no scenario a change concerns is left out |
| **Apex health** `technitium-apex-health.sh.j2` | the apex A records | probe, read, add, delete | each call fails on its own and unnoticed | the apex never becomes empty; dead nodes leave it |
| **Git mirror sync** `git-mirror-sync.sh.j2` | mirrored repositories, metrics | list, clone or update, prune, publish metrics | killed clones, partial listings, prune | no mirror of a listed repository is removed; success means complete |
| **Service deadman** `service-deadman-validate.sh.j2` | `.down` marker per service | probe, page, remind, recover | a publish that landed and was not recorded | one page per breach, one recovery, in order; feeds the bridge |
| **Hatchet kill test** `playbooks/hatchet-killtest.yml` | power state of two guests, a deadline | stop, poll the survivor, always restore | the deadline runs out before the restore | the target is up again, whatever failed |
| **Ingress drill** `scripts/ingress-failover-drill.sh`, `roles/keepalived` | VIP holder, Traefik up or down | stop, watch, restore | the trap is cleared before the last check | Traefik runs everywhere afterwards |
| **Key rotation** `playbooks/rotate-key.yml` | a secret and its metadata | read, write, stamp, read back | another writer between read and write | siblings kept, old value never reported as new |
| ntfy canary and unit-failure hooks | none | publish one message | - | messages of the bridge |
| Cribl pack sync, guest OS upgrades, object storage IAM, PostgreSQL, Zammad bootstrap, agent sandbox, GitHub runners, Healthchecks and PBS reports, inventory loading, tooling, CI | mostly none between runs | one batch each | little that interleaves in this code | see the notes in `PROJECT.json` |

How they interact:

    deadman, unit-failure, canary --publish--> ntfy --one hook run per message--> bridge --HTTP--> Zammad <--operators
                                                 ^------ bridge's own self-alert ------'
    site.yml --configures every host, results--> telemetry callback --one batch--> Splunk HEC (freshness alerts)
    site.yml --seed bundle--> Nautobot seed jobs --database--> export job --S3--> inventory --> next site.yml
    site.yml --specification, stored key--> Homarr converger --HTTP--> Homarr;  its key --> OpenBao --> next site.yml
    pull request --changed paths--> molecule selection --matrix--> Molecule jobs

## 2. Plan

In order of what a fault would cost and how far a test would be from finding it:

1. `NtfyZammadBridge` with the abstract queue `AlertQueue`, `NtfyZammadBridgeProofs`
   (the queue) and, on top of it, `NtfyZammadTicketProofs` (the tickets) - **done**.
2. `SiteConverge` and `SiteConvergeProofs` - **done**, with every safety property of
   `converge_site` proved.
3. `NautobotPipeline` and `NautobotPipelineProofs`: the jobs as wholes - **done**.
4. `NautobotHardware`, `NautobotHardwareProofs` and, on top of it,
   `NautobotInventoryProofs`: the rows of the two jobs that rename and delete - **done**.
5. `Homarr` and `HomarrProofs` - **done**.
6. `MoleculeSelection` and `MoleculeSelectionProofs` - **done**.
7. `ApexHealth` and `GitMirrorSync`: two scripts over a remote service with each
   call failing by itself; "never empty" and "never prunes what is listed".
8. `ServiceDeadman`, composed with the bridge's ticket rule: an alert that fires or
   recovers ends up in the ticket although publishes are lost and repeated.
9. `KeyRotation` and `HatchetKillTest`: check-and-set against a second writer, and
   always-restore under one deadline.

Modules 3 and 4 are two views of one database: the pipeline says which job runs
when and reduces its rows to the bundle they came from; the hardware module takes
one job at a time and looks at its rows.

## 3. The alert bridge: `NtfyZammadBridge`, `AlertQueue`

### State and steps

| Code | Model |
|---|---|
| Zammad tickets with key, state, tag, articles | `tickets` |
| how Zammad answers | `mode`: `up`; `down` (not applied); `lossy` (applied, answer lost); `reject` (4xx); `garbled` (applied, no JSON) |
| `time.time()`, Zammad's `close_at` | `clock`, `closedAt` |
| messages ntfy delivers, self-alerts under way | `next`, `alerts` |
| the hook process | `pc`, `cur` (its message), `job` (the one `handle()` works on), `existing`, `newState`, `now`, `err` |
| `spool/*.json` | `spool`, files written or only created (`ok`) |
| `repeat-state.json` | `repeat` |
| `failures` | `failures` |

A run of the hook is cut at every HTTP call and every change of the state
directory; whatever it does in memory between two of those is one action:

    Deliver/DeliverSelfAlert -> replay --ReplayNext--> search ... done --Finish--> replay
                                replay --HandleCurrent--> search ... done --Finish--> idle
      search -> (searchClosed) -> decide -> done                      resolved and nothing active, or suppressed
                                         -> checkTag -> put|create     close, or reopen in the window
                                         -> put -> remember -> done    append
                                         -> create -> addTag -> remember -> done
      any call may fail -> failed -> (spoolWrite -> trim) -> record -> (publish) -> idle

Operators (`Operator`) take, close, park, release, reopen and untag tickets,
`ModeChange` starts and ends outages, `Crash` kills the hook between any two
steps; each can come between any two steps of a run. The hook is started once at
a time: the ntfy CLI runs the command and waits (`ntfy-zammad.py:102-106`).

Assumptions about what is outside `src/`: Zammad's search sees a ticket as soon
as it was created, `close_at` is the time of the last close; spool file names
order by delivery (the clock does not step back between two failures); messages
below the priority filter of `client.yml.j2` never start the hook.

### Runs

| Run | Question | Bounds |
|---|---|---|
| `bridge_faults` | Do outages and lost answers leave a ticket wrong or lose messages? `TypeOK`, `TicketReflectsAlert`, `NoMessageLost` | 2 alerts, 3 messages, clock 0..2; a spooled message, its replay next to a second and third, and reopening in and after the window all happen |
| `bridge_crash` | Do crashes, rejections, a full spool and operators break order or uniqueness? `AtMostOneActive`, `ArticlesInOrder`, `HandledInOrder` (implements `AlertQueue`) | 1 alert, 3 messages, spool of 1, clock 0..1, operators who close tickets |
| `bridge_owned` | Does the hook ever close or reopen a ticket that is not its own? `OnlyOwnedChangeState` | a ticket found in Zammad, tagged or not, denied or not; 2 messages; all operator moves but untagging |
| `bridge_quiet` | Are suppressed repeats reported? `SuppressedAreReported` | 4 messages, 2 fingerprints, interval 2, clock 0..4 |
| `bridge_page` | Does a long outage page once, and is the spool emptied after it? `OneAlertPerOutage`, `DrainsWhenUp` | 6 messages, threshold 2, spool of 1 |
| `bad_block` | a disagreement, see section 10 | 1 alert, 3 messages, crashes |

No run stops on its own except when the message bound is reached, so deadlock is
not checked. `MaxTickets` is never reached before `MaxMsgs`: each message
creates one ticket at most, plus one already there.

Properties hold under the conditions their comments name. `AtMostOneActive` needs
operators who do not bring back closed or pending tickets: a parked ticket is in
neither search, the next firing opens a second one, and releasing the first
leaves both. `TicketReflectsAlert` needs that nobody else moves tickets, and
`SuppressedAreReported` that no ticket is closed by hand.

**Fairness.** `WF_vars(Run)`: every HTTP call has a timeout of 30 s
(`ntfy-zammad.py:97`) and every file operation returns, so a started run takes
its next step. Nothing is assumed of ntfy, Zammad or the operators: `DrainsWhenUp`
says what happens *if* Zammad stays up, and only once a next message has started
a run, as nothing else replays the spool.

### Proofs (`NtfyZammadBridgeProofs`)

For every value of the constants that meets `BridgeAssumption` (naturals,
subsets of the known modes and moves) and `PreexistingAssumption`:

- `TypeCorrect`: `Spec => []TypeOK`. `InHand` is the part that is not just types:
  the ticket a step writes to exists and belongs to the message in hand.
- `OneActive`: `AtMostOneActive` always holds when operators neither release nor
  reopen. It is not inductive; `OneActiveInv` adds that from the search that
  finds nothing active up to the creation or the reopening, nothing active
  appears, and that a PUT that reopens works on a ticket found closed.
  `OperatorShrinks` shows the remaining operator moves never add an active ticket.
- `DecidedOwn`: whatever operators do, the hook changes the state of no ticket but
  the one it read as its own (tagged, not denied) when it decided to, one call before.
  `OnlyOwned`: `OnlyOwnedChangeState`, that the ticket still carries the tag when Zammad
  applies the change, under the hypothesis that nobody removes tags: the API has no
  conditional PUT, so a tag withdrawn between the two calls comes too late. Through
  `OwnedInv`, the tag that `CheckTag` read is still there at the PUT.
- `OrderedHandling`: `Spec => HandledInOrder`, the refinement of `AlertQueue`,
  through `QueueInv`: the spool lies strictly between the last handled message and
  the one in hand, holds each once, and a replay works on the oldest.
- `NothingLost`: `NoMessageLost` under `Gentle`, the setting of `bridge_faults`
  for every value of the constants: Zammad is up, down or loses answers, nothing kills the
  hook, the spool has room for every message and the failure count stays below
  the threshold (a self-alert is never spooled, so it may be lost). The invariant
  `LossInv` says that a run fails only on what is worth spooling and does not end
  before its message is in the spool; that `spool_message()` then drops nothing is
  `NothingTrimmed`, a counting argument over the message numbers.

### Proofs (`NtfyZammadTicketProofs`)

What the bridge leaves in Zammad. Each theorem has as hypotheses what its run has
in its bounds, on the kinds of faults and moves only, never on how many:

| Theorem | Hypotheses | Invariant and why it is needed |
|---|---|---|
| `ArticlesOrdered`: `ArticlesInOrder` | `EarlierArticles`: articles of tickets that were there before are older than every message | `ArticlesInv`: no article is newer than a message in the spool or in hand, so an appended one is the newest or a repetition of it. With the spool's order (`QueueInv`) this holds under every fault, crash and move. It is about order only: nothing deduplicates, and a message whose PUT was applied without an answer is told again by its replay |
| `OnePage`: `OneAlertPerOutage` | `Outages`: Zammad is up, down or loses answers, no kills; the spool holds at least one message | `PageInv`: from the self-alert on the count stays at the threshold, because something waits in the spool and the run for the self-alert itself replays that first, until a message gets through. `TrimKeepsOne`: the limit never empties the spool |
| `TicketsAgree`: `TicketReflectsAlert` | `Gentle`; operators only take or untag | `ReflectInv`: `Settled`, what is neither in hand nor in the spool is as its last message left it, and `WorkInv`, each step of `handle()` brings the ticket nearer to what the message asks, whatever an operator did since the search |
| `SuppressedReported`: `SuppressedAreReported` | `Clean`: a call that fails was not applied, no kills; operators only take or untag; no article that was there reports repeats (`NothingReported`) | `HushInv`: suppressed repeats are those reported by articles plus those counted, except between the PUT and `remember_article()`; and they are counted only while the key has an active ticket that will report them |

`SuppressedAreReported` adds up articles over all tickets of a key with a recursive
function. The library's induction cannot be instantiated here, so its lemmas
(`SumExists`, `TotalIsSum`, `SumsAgree`, `TotalPlus`...) argue by the smallest
counterexample: `SmallestNumber` says that a nonempty set of numbers has a least
element, which the well-foundedness of `<` gives as a fact. The pack lemmas of
section 7 do the same.

Only model-checked: `DrainsWhenUp`, as liveness is out of reach of the prover.

## 4. The site run and its telemetry: `SiteConverge`

### State and steps

The executor and the callback plugin are one module because they share every
result. `Site` is the list of plays, a play its hosts, whether it is isolated and
its tasks; `MCSiteConverge` gives one play of every form `site.yml` has. Tasks are
told apart by what is done with their results: `publish` (the `set_stats` that
turns telemetry on), `gather` and `verify` (`gather.yml`), `budget` and `gate`
(the ends of a run), `away` (under `ignore_unreachable`), `local` (on the
controller, in a host's name) and `work`, any other.

| Code | Model |
|---|---|
| Ansible's linear strategy | `StartPlay`, `NextTask` (all hosts of a play take a task together), `Report` (results in any order), `EndPlay` |
| block/rescue with `record_isolated_failure.yml` | `Fails`, `rescuing`, `isolated`; the rescue is the step behind the last task |
| `gather.yml` | `Unreached` with `missed`, then `verify` |
| counters of the run summary | `stats` |
| `v2_playbook_on_task_start`, `_count`, `v2_runner_on_*` | `OnTaskStart`, `Counted`, `Explained`, in the same step as the executor's |
| `v2_playbook_on_stats`, `_emit`, `_on_interpreter_exit` | `OnStats`, `Emit`, `AtExit` |
| Ctrl-C, bail-out; SIGKILL | `Interrupt`, `Kill`, between any two steps |

Ansible itself is not in `src/`; its rules are taken as documented: a host that
failed or was unreachable takes no further task; a rescued failure counts as
`rescued` only; rescue does not catch unreachable; a result under
`ignore_unreachable` counts as `ok`; a play that loses all its hosts ends the
run, through `on_stats`. Handlers are tasks; a play with `serial` is the same
play for each batch; a plugin without token or switched off posts nothing and is
the case without configuration.

### Runs

`converge_site` runs a site of six plays over two hosts and the controller with
every answer, dry runs by either signal, HEC up or down, interrupts and kills:

- `SuccessIsClean`: a published success had no failed task (rescued or not), no
  unreachable one outside `ignore_unreachable`, was no dry run, and went through
  all its plays if the run went through all.
- `ReportedOnce`: one batch per run, of the right kind.
- `TaskRecordsFaithful`: the published records are exactly the tasks started and
  the results logged, also of the task an interrupt came into.
- `UnreachableExplained`: every unreachable result is published with its task.
- `IsolatedFailuresSurface`: exit code 0 means nothing was rescued.
- `IsolationHolds`: the end of a run in an isolated play is never due to failures.

Two hosts show what one does to the other; six plays are one of each form and a
play behind each. No
liveness is claimed: whether a run ends is up to the modules it calls. A run
stops at its end, so deadlock is not checked.

### Proofs (`SiteConvergeProofs`)

For every site, every set of hosts and every choice of answers, dry runs and stops
that meets `SiteAssumption` (the plays are well formed, the controller is not a
managed host). None of the properties is inductive; each has an invariant of its
own, checked with TLC before it was proved:

- `TypeCorrect`: `Spec => []TypeOK`, with `InProgress` (results come in only within a
  play and while the callback has a task open).
- `FaithfulRecords`: `TaskRecordsFaithful`, through `RecordsInv`: the open task counts
  exactly the results logged of the task under way, a host that still owes its
  answer is not among them, and nothing is published before the end.
- `LostHostsExplained`: `UnreachableExplained`, through `ExplainedInv` and the task
  number `RecordsInv` knows of the open task.
- `OneReport`: `ReportedOnce`, through `ReportInv`: the claim (`_emitted`) is made
  before anything is published, and the exit hook without a claim means that nothing
  was.
- `FailuresSurface`: `IsolatedFailuresSurface` under `GateAtEnd`, that the last play is
  the final gate's, as in `site.yml`. `GateInv` says that the gate's answer is still
  true when the run ends.
- `Isolation`: `IsolationHolds` under `GatherVerifies`, that `gather.yml` is used as it is
  written (inside a block with a rescue, its looking task followed by the one that
  fails the missed hosts). `MissedInv` follows a missed host to its rescue, and the
  rest of `IsolationInv` says that no failure is final in an isolated play.
- `CleanSuccess`: `SuccessIsClean` under `GatherVerifies`, through `CleanInv`: clean
  counters imply a clean log and all plays up to the one under way, except for a host
  `gather.yml` missed and has not failed yet.

`GateAtEnd` and `GatherVerifies` are assumptions of those theorems only and both hold of `SmallSite`
in `MCSiteConverge`, the site of `converge_site`.

## 5. The Nautobot pipeline: `NautobotPipeline`

### State and steps

| Code | Model |
|---|---|
| the seed bundle on the guest, rewritten by every converge | `bundles`, the jobs each has rows for |
| rows in Nautobot | `db`, per job the version of the bundle its rows came from; `partial`, of what some is missing: rows left out or filed as spares, addresses not bound |
| `JobResult` dates | `lastDone` |
| Celery queue, `--concurrency 2` | `queue`, `slots` |
| the document in S3 | `artifact`, the version of each job's rows in it |
| `ScheduledJob`, `enabled` on the Job | `schedule`, `enabled` |
| `run_seed_jobs.py` | `runner`, `todo`, `good`, `polled` |

A converge writes the bundle, turns the schedule on and starts the runner
(`Converge`). The runner enqueues one job (`Enqueue`; `CannotEnqueue` when it is not
registered or the call raises), polls it (`JobDone`) or gives it up at the deadline
(`TimeOut`), and goes on; a job it gave up stays where it is. A slot begins a job, which
loads the bundle *then* (`Load`), writes, and ends (`JobEnd`). `Needs` says on whose rows a
job's rows build. What does not find its parent is skipped or filed as a spare and the
job succeeds (`Write`); the same goes for a row that does not fit or whose creation raises
(`Skip`). Only two jobs look at what they wrote: the drive job counts the drives it
*loaded*, and a drive of a node that is no Device is not loaded (`CountDrives`), and the
node job fails when no node at all got an address (`NoneBound`). The drive job and the
export can refuse to start (`RefuseEmpty`, `Refuse`). An export passes the guard (`Guard`),
reads part after part (`ReadPart`; the Devices of three jobs are one part), uploads
(`Upload`) and ends (`ExportEnd`) in steps of their own, so that another slot's ingest
falls between any two. The scheduler (`Beat`) and people (`RunFromUI`, `TurnOff`) add
jobs; `Fail` and `Lose` end a job at any point.

### Runs

`pipeline_seed`: two converges whose bundles have nodes and drives, drives of nodes
they do not have, or nothing; a job carried over from the converge before; a disturbance
(rows left out, a job that fails, is lost or cannot be enqueued, a foreign run, a schedule
turned off) on top of deadlines that pass without bound; 2.13 million states. A job that
times out next to a foreign export, a stale job that writes over newer rows and a worker
that answers nothing at all are within these bounds.

- `ZeroMeansSeeded`: exit code 0 of a converge that began with an idle worker means
  that every job of the bundle wrote its rows. What is missing nevertheless was left out
  with no more than a log line, or builds on rows that were left out so or that the
  bundle lacks (`Excused`). That much can be missing is a finding of section 10; the
  property says that nothing else can: an order of the list that runs a job before
  what it needs, or a time-out that is not counted, violates it.
- `ConvergePublishes`: an undisturbed converge succeeds, also with a partial bundle
  provided that nodes come with prefixes and addresses, and publishes what it ingested.
- `Retained`: rows of an absent slice are kept.
- `GuardSound`: what the ordering guard refuses is published already, unless an
  ingest and an export overlapped or an ingest failed after it wrote.
- `RunnerEnds`: the runner ends. Deadlines are no disturbance and are not bounded, so
  this includes the run in which the worker is dead and every job of the list, one
  after the other, is given up.

`bad_export` is in section 10. The system stops when the bounds are used up, so
deadlock is not checked.

**Fairness.** `WF_vars(Runner)` only: the runner's loop sleeps and looks at its
deadline. Nothing is assumed of the worker, the scheduler or people.

### Proofs (`NautobotPipelineProofs`)

For every set of supplies and every bound: `TypeCorrect`; `RowsRetained`
(`Retained`, from the type invariant: what a job writes is never version 0);
`GuardIsSound` (`GuardSound`, through an invariant that relates the two dates the
guard compares with the published parts, and says that an export under way has read
what is still in the database); and two facts that
have no run of their own: `ScheduleKept` (after a converge the export is scheduled
until somebody turns it off) and `SingleAnswer` (at most one result is polled, that
of the head of the list). On these rest

- `ExitZero` (`ZeroMeansSeeded`). `ListInv`: the list of jobs is in order of
  dependence and has everything expected that ranks behind one of its jobs, whatever
  slices the bundle has. `SeedInv`: in a converge
  that found the worker idle, every job writes this bundle, whoever started it, and
  of what the jobs that are done make nothing is missing but what is excused. `NeedsDone`
  joins the two: what a job needs is behind it.
- `Publishes` (`ConvergePublishes`). `CalmInv`: without disturbances the only task
  there is is the runner's own, the export comes after an ingest by the dates the
  guard reads, and only nodes without addresses fail.

Only model-checked: `RunnerEnds`, which is liveness.

## 6. Hardware and drives: `NautobotHardware`

### State and steps

`tables` (rows with host, quantity and what they fill in) and `gathered` (what the
nodes report of their drives) are the inputs; `devices`, `modules`, `bays` and
`items` the database. A Module has an asset tag, a bay or the shelf, and the facts
known of it: fields with a value or blank, some written with the Module (the serial)
and the others after it (the purchase). Asset tags are `hw_id`, `hw_id#n`, or text that
only begins with `hw_id`.

    hardware: StartHardware -> TakeRow -> RenameLegacy -> DropSurplus* -> SurplusDone
                 -> (SeatUnit -> UpsertUnit -> RecordPurchase -> SweepUnit* -> UnitDone)*
                 -> SweepRow* -> RowDone -> next row ... FinishHardware
              withheld row: TakeRow -> (DeleteWithheld -> DeleteBay)* -> WithheldDone
    drives:   RefuseDrives | StartDrives -> CreateDrive* , DeleteDrive* -> PostRun

`Die` ends a run between any two writes, a creation can be dropped by
`nautobot_ssot` (logged, and the run goes on), tables and slices change between runs,
and people add Devices, Modules, bays and items and record what an audit found, be it
blank in the tables or at odds with them.
The order of rows, units and differences is open.

### Run

`hardware_rows`: one row of drives, two chassis, one node that reports one drive
in either of two ways or not at all, quantities 1 and 2, one field of two values, two
changes from outside; 5.06 million states. A row in a chassis that reports nothing is
treated as any other row, so one row shows both treatments; quantities 1 and 2 are the
boundary at which the tag changes its form; two values are a cell and an audit that
contradict each other. Fields do not touch each other, so one is enough; that it may as
well be written with the Module is covered by the proofs, which take any `Serials`.

- `UnitsMatchTables`: after a complete run the Modules and their bays are those of
  the tables, whatever earlier runs left. Rows that are withheld are `OneHome`'s; of bays
  left behind it speaks for rows seated in a chassis and while no run has died (section 10
  says what stays otherwise).
- `OneHome`: a drive is not both a Module and a discovered item of its chassis.
- `AuditSurvives`: what a person recorded outlives blank cells, changes of quantity
  and moves, until the row itself gives another value or is withheld.
- `DriveSuccessIsComplete`: SUCCESS means that the discovered items are exactly the
  drives loaded.
- `HandMadeKept`: neither job touches what people made.
- `RerunChangesNothing`: once both jobs saw the present inputs, a rerun writes nothing.

No liveness is claimed: jobs run when they are enqueued. Left out: circuits,
device rows, dry runs, the fallback of statuses, the parsing of procurement cells.

### Proofs (`NautobotHardwareProofs`)

For every set of rows, chassis, drives, fields and values (`HardwareAssumption`; nodes and
reports are finite, which the counting needs): `TypeCorrect`; `PeoplesWorkKept`
(`HandMadeKept`); `NoCollisions` (`NeverCollides`, that asset tags and the Modules in
bays are unique, is not checked by a run: its inductive form `UniqueInv` adds that
a row whose units are being written has no other Modules, and `NamesOK` of the type
invariant that a bay is named after its Module or the first unit's other tag);
`SuccessIsComplete` (`DriveSuccessIsComplete`: no discovered item is unknown to both
sides while differences are applied, and `CountIsEnough`, that as many items as
loaded drives, all of them loaded drives, are all of them). `HardwareAssumption` also
says that the shelf, the place of units without a chassis, is no chassis.

### Proofs (`NautobotInventoryProofs`)

On top of those, without further hypotheses:

- `RecordsSurvive` (`AuditSurvives`), through `FirstInv`: a row never has Modules
  under both forms of the first unit's tag (`OneForm`), so the rename to the form the
  quantity asks for cannot collide; once it happened the first unit is one of those
  the run keeps (`Chosen`), and what a person recorded is known of a Module under
  either form, except what the row in hand has since given (`Remembered`). Withholding the row
  deletes the Module and ends the record.
- `InventoryMatches` (`UnitsMatchTables`) and `DrivesHaveOneHome` (`OneHome`), through
  `PlaceInv`: while a run of the hardware job is at row after row, each row it is done
  with is as the tables say (`RowOK`), and so are the units of the row in hand it is
  done with (`UnitsOK`); `HandOK` says that the tags collected for the row are exactly
  those not to be kept, and `IdleOK` that a second run has nothing to withdraw. A
  change of tables, drives or Devices ends the claim until the next complete run.
  `Touches`: a step writes Modules and bays of the row in hand only. That no bay is
  left behind while no run has died is `BayInv`: a bay named after a later unit has
  that unit's Module, or the run in hand still knows it (`NamedBays`, `OneBay`,
  `OldTags`).
- `RerunsAreIdle` (`RerunChangesNothing`, an action property), from `PlaceInv`, which
  leaves a rerun's steps nothing to rename, delete or move, and `DrivesInv`, which says
  that the last drive sync found what it loaded, so that its differences are empty.

## 7. The Homarr converger: `Homarr`

### State and steps

| Code | Model |
|---|---|
| Homarr: onboarding step, claim (2.x), admin and its name, keys, apps, integration, board | `step`, `claimed`, `user`, `keys`, `analytics`, `apps`, `integration`, `board`, `settings` |
| the two places of the key | `file`, `bao` |
| what the converge is given | `spec` |
| the process | `pc`, `run`, `outcome` |

`Start`, `Probe` (which key works), then for a key that does not: `ReadStep`, the walk
through the onboarding of 1.x or the claim and setup of 2.x, `Login`, `ResetPassword` and
`LoginAgain` (or the refusals `NobodyToReset` and `LoginStillFails`), `Mint`, `WriteFile`;
then `DisableAnalytics`, `SyncIntegration`, `ListApps`, which reads the apps once, `SyncApp`
per service against that list, the board (`AddTile` on 1.x, `CreateBoard`, `SaveBoard`,
`SetBoard` on 2.x) and `Publish` of the key, unless `homarr_publish_credentials` is off.
Each call can be refused (`Die` before the step) or applied with its answer lost (`Then`,
after it); both end the run, as a killed process does. Between and during runs people
rearrange boards and change the admin's password or name, the guest is rebuilt, the
specification changes, claims expire.

A catalog gives a URL and a title to each of its services, and two services may have the
same URL: ingress rows can share a host and differ by `path_prefix`
(`roles/traefik/tasks/routes.yml:24`), which the catalog's URL ignores
(`roles/dashboard_catalog/tasks/main.yml:52`). A board is the set of apps on it; a second
tile of one app, which 1.x does not exclude, is not told apart.

### Run

`homarr_converge`: three catalogs (one service; the same with another title next to a
second of that title; two services of one URL), two wanted integrations, keys published or
not, three keys, two changes and one fault; 8.16 million states. One integration and one board
stand for all: they are handled one after the other by the same code. The system stops
when the bounds are used up.

- `AppsPerUrl`: a URL has no more apps than some catalog has services there, although
  `app.create` always inserts: one, if services have URLs of their own.
- `SpecIsApplied`: after an undisturbed run Homarr is what was declared and the stored
  key works. Titles of services that share a URL are exempted, and so is a changed
  kind of integration.
- `RerunChangesNothing`: the next run changes nothing, with the exemptions its comment
  names: shared URLs, a changed kind, a stale key in OpenBao that is not replaced.
- `KeysAreFew`: one key, and one more per fault and per stale key handed in.
- `OnlyFaultsFail`: without a fault a run fails only if it began in the middle of an
  onboarding (somebody else's, or one that an earlier run left half done), or if no user
  has the managed name.
- `BoxesFit`: `pack()` overlaps no widgets and none leaves the columns, for every
  list of up to three boxes of 1..4 by 1..2 in 1..3 columns.

Assumed: `user.initUser` of 1.x moves the onboarding on by itself; converges do not
overlap, and people do not edit apps. No liveness is claimed: every call times out and the
walk is bounded by the steps, but `Die` may come at any of them.

### Proofs (`HomarrProofs`)

`TypeCorrect`; `AppsAreBounded` (`AppsPerUrl`, through `FoundOK`: while a run is at its rows,
each app of a URL was listed before the first of them or belongs to a row it is done with,
and rows insert only at URLs of which none was listed);
`FewKeys` (`KeysAreFew`, through `KeyInv`: from the moment the key at hand is found
wanting, Homarr holds one key less than faults and stale keys account for); `UndisturbedRunsSucceed`
(`OnlyFaultsFail`, through `FailInv`: an undisturbed run finds the onboarding
unclaimed and without a user, or finished, and refuses a login only if the admin was
renamed). From these

- `WhatIsApplied` (`SpecIsApplied`), through `StageInv`: what a run has established
  when it is at a step, split into what holds whatever people do to the board
  meanwhile (key, apps, integration) and what needs an undisturbed run (the board).
- `RerunsAreIdle` (`RerunChangesNothing`), through `StillInv`: the run after an
  undisturbed one never leaves the path of an accepted key, and finds each thing as
  `StageInv` says it was left.
- `BoardsFit` (`BoxesFit`) for every list of boxes, also empty ones, and any number
  of columns. `Standing` is the loop's invariant: each earlier box is above the shelf,
  or on it and left of the cursor; `Apart`, that a box is right of every earlier one
  or below it, follows step by step, and `PackFits` turns that into cells.

`HomarrAssumption` says of the wanted integrations that they have a kind and a URL and
that no kind is that of a missing row, and of the layouts that sizes and columns are
numbers; `Layouts` are constants because what is packed depends on the catalog's names
and groups, which the other properties do not tell apart. Nothing of this module is
only model-checked.

## 8. Molecule selection: `MoleculeSelection`

A tree is what the script reads of the repository: role directories and the roles
their files name, scenarios, the roles they name and the scenarios whose playbooks
they run. The author edits, deletes and moves; `Select` starts the script on a push, a
promotion or a pull request; `RunAll`, `RunSmoke`, `RunUnrecognised`, `RunChanged` are
its early answers in their order; `StartMapping`, `ReadScenario`, `ReadRole`, `Mapped`
are the closure's loops with the work list in any order; `RunConcerned` emits.

`molecule_select`: three roles in a chain or a cycle of references, three scenarios of
which one runs another's playbooks, two edits with merges between them; 806
thousand states.

- `ClosureIsExact`: a mapped scenario has exactly the roles reachable from those it
  names - the least set closed under references, stated without the work list.
- `NothingMissed`: a scenario left out is unchanged, exercises no changed role, and
  has not stopped exercising one, except for what section 10 says of renames.

Proved for every set of roles and every reference graph, cyclic or not,
(`MoleculeSelectionProofs`): `TypeCorrect`; `ExactClosure` (through the invariant
that roles read so far have their references among those found, and that all found
are in every closed set); `NoneMissed`; and `AlwaysRunnable` (`Runnable`: scenarios named
exist and the smoke scenario is among them), which has no run of its own. That the
loop ends is not stated; it reads every role once. References by name are
over-approximated as the script does; the escaping of outputs, the self-check and a
failing `git diff`, which ends the job without an answer, are left out.

## 9. Mutants and reach of the prover

Every property of a passing run has a mutant, an operator next to the definition
it changes (`Mutant of ...`): a swallowed error, a dropped guard, a missing
reset, a swapped order. With it in place TLC finds the property violated.

Liveness under fairness and ENABLED are out of the prover's reach: `DrainsWhenUp` and
`RunnerEnds` stay with TLC. Every other property of a passing run is stated by a
theorem. The two properties that section 10 refutes have none, of course.

## 10. Findings

Each is a run that states what a comment or docstring says and that TLC refutes:

- `bad_block`: a spool file created and not yet written when the hook was killed
  raises `ValueError` outside the `try` in every later run.
- `bad_export`: an ingest that ends while an export runs, or fails after it wrote,
  leaves rows that the ordering guard then refuses to publish, although its docstring
  says that nothing new can have arrived.

Seen in the models and left without a run of their own.

Bridge: a run for the self-alert resets the failure count without having called
Zammad, so an outage of 4xx answers pages again; a replay that fails with an error
`is_transient()` does not know ends the run and the message it was started for is not
spooled; a parked ticket is found by neither search, the next firing opens a second
one; spool file names order by the wall clock, so a clock stepped back reorders a replay
(not modelled); the suppressed count is dropped when the next article opens a new
ticket; a ticket whose `tags/add` failed is never closed and gets its message twice; a
recovery for a closed ticket leaves no article although the docstring says it does.

Site run: a host that goes away inside a one-host isolated play, after `gather.yml`
looked, ends the whole run; when a budget gate ends the run, hosts whose own plays did
not run are published as success; so is a powered-off guest under
`ignore_unreachable` with `--tags vdi`.

Pipeline: a scheduled export that ends between the last ingest and the converge's own
export makes that one refuse and the converge fail; a job of an earlier converge that
timed out can write older rows over newer ones after exit code 0; exit code 0 with rows
missing, as `nautobot_ssot` logs what it could not create and reports SUCCESS
(`ssot_drives.py:303-311` says so), and drives of unknown nodes or guests without a parent
are skipped and not counted, while `run_seed_jobs.py:122-125` says the converge must not be
green when the database was not seeded; of two overlapping
exports the later upload can be the older document; a drive sync after the export lets
the guard pass the next time although nothing published changed; hardware whose
prerequisite timed out is filed as spare.

Hardware: a unit that moves to the shelf leaves its last bay behind; a row moved to a
chassis that reports its drives keeps its old Module, so the drive is recorded twice; a run that died after it deleted a surplus Module leaves that
bay for ever; the drives of a node that is missing from a slice with other nodes are
deleted.

Homarr: with a stale key in OpenBao the good key in the file is never read and every
run mints another, although `roles/homarr/defaults/main/02-app.yml:44-47` and
`homarr_api.py:234-238` say the file is the fallback; any HTTP error on the probe counts
as a rejection; `integration.update` does not send the kind, so a changed kind is
reported as changed in every run; with `homarr_publish_credentials` off a stale key in
OpenBao is never replaced and makes every run mint another; two services of one URL get an
app each in one run, and from then on rename one of them back and forth; once the admin was
renamed every run that has to log in fails; a 2.x onboarding left half done is completed by no
later converge; apps of removed services stay.

Molecule: `git diff --name-only` lists a rename by its new path, so the role or
scenario that lost the file is not seen; a change in a scenario whose playbooks
another runs does not select the other; a change of the harness reduces a change of
roles to the smoke scenario until promotion. In this repository `ci-gate.yml:278` runs the script with `--self-check`
and a test loads it; whatever runs its selection is outside.

## 11. Not modelled

The components marked `not_modelled` in `PROJECT.json`, each with its reason; those of
section 2 items 7-9 are next. Of the ones modelled: texts, payload layouts, HTTP
headers, knowledge base links, the per-role work of `site.yml` (one outcome per task),
the layout of the exported document, and the rows of the additive ingest jobs (nodes,
addresses, racks, virtual machines, cabling, onboarding), which `NautobotPipeline` has
as one write per job: they create and update by natural key and delete nothing.
