----------------------- MODULE NautobotPipelineProofs -----------------------
(***************************************************************************)
(* Theorems about NautobotPipeline, for every set of bundles the           *)
(* controller may write and any number of converges and disturbances.      *)
(***************************************************************************)
EXTENDS NautobotPipeline, FiniteSetTheorems, TLAPS

-----------------------------------------------------------------------------
(* Type correctness *)

LEMMA PartsFacts ==
    /\ Len(Parts) = 4
    /\ \A p \in Published : \E n \in 1 .. 4 : p \in Parts[n]
    /\ Published \subseteq IngestJobs
<1>1. /\ Parts[1] = {"vlans"} /\ Parts[2] = {"addresses"}
      /\ Parts[3] = {"dcim", "nodes", "hardware"} /\ Parts[4] = {"vms"}
  BY DEF Parts
<1>2. ASSUME NEW p \in Published PROVE p \in Parts[1] \cup Parts[2] \cup Parts[3] \cup Parts[4]
  BY <1>1 DEF Published, IngestJobs, SliceJobs
<1>3. \A p \in Published : \E n \in 1 .. 4 : p \in Parts[n]
  BY <1>2
<1> QED
  BY <1>3 DEF Published, Parts

LEMMA NoDocType == NoDoc \in [Published -> 0 .. MaxConverges]
BY PipelineAssumption DEF NoDoc

LEMMA IdleIsNoTask == Idle \notin Tasks
BY DEF Idle, Tasks

LEMMA JobKinds ==
    /\ IngestJobs \subseteq Jobs /\ "export" \in Jobs /\ "onboarding" \in Jobs
    /\ "export" \notin IngestJobs /\ "onboarding" \notin IngestJobs
    /\ "drives" \in IngestJobs /\ "nodes" \in IngestJobs
    /\ SliceJobs \cup {"vlans", "hardware"} \subseteq IngestJobs
    /\ IngestModules = IngestJobs
BY DEF Jobs, IngestJobs, SliceJobs, IngestModules

LEMMA SeedJobsType ==
    ASSUME NEW rows
    PROVE  SeedJobs(rows) \in Seq(Jobs)
<1>1. ASSUME NEW j \in Jobs PROVE Supplied(j, rows) \in Seq(Jobs)
  BY DEF Supplied
<1>2. /\ "vlans" \in Jobs /\ "hardware" \in Jobs /\ "onboarding" \in Jobs /\ "export" \in Jobs
      /\ "addresses" \in Jobs /\ "dcim" \in Jobs /\ "nodes" \in Jobs /\ "vms" \in Jobs
      /\ "drives" \in Jobs
  BY DEF Jobs, IngestJobs, SliceJobs
<1> HIDE DEF Jobs
<1>3. <<"vlans">> \in Seq(Jobs) /\ <<"hardware", "onboarding">> \in Seq(Jobs)
  BY <1>2
<1>4. (IF RunExport THEN <<"export">> ELSE <<>>) \in Seq(Jobs)
  BY <1>2
<1>5. ASSUME NEW a \in Seq(Jobs), NEW b \in Seq(Jobs) PROVE a \o b \in Seq(Jobs)
  OBVIOUS
<1>6. /\ Supplied("addresses", rows) \in Seq(Jobs) /\ Supplied("dcim", rows) \in Seq(Jobs)
      /\ Supplied("nodes", rows) \in Seq(Jobs) /\ Supplied("vms", rows) \in Seq(Jobs)
      /\ Supplied("drives", rows) \in Seq(Jobs)
  BY <1>1, <1>2
<1> QED
  BY <1>3, <1>4, <1>5, <1>6, Zenon DEF SeedJobs, Gated

\* What is true of a running job besides its type: only an ingest writes, and from
\* a bundle that has rows for it; an export that is not reading any more has read
\* all parts.
Sane(t) ==
    /\ t.at = "write" => t.job \in IngestJobs /\ t.got \in 1 .. Current /\ t.job \in Rows(t.got)
    /\ t.at \in {"read", "upload"} => t.job = "export"
    /\ t.at = "read" => t.got \in 0 .. 3
    /\ t.job = "export" /\ t.at # "read" => t.got = 4

InSlots == \A s \in Slots : slots[s] # Idle => Sane(slots[s])

\* The runner polls for the job at the head of its list.
Polling == runner = "poll" => todo # <<>>

TypeInv == TypeOK /\ InSlots /\ Polling

LEMMA TypeInit == Init => TypeInv
<1> SUFFICES ASSUME Init PROVE TypeInv
  OBVIOUS
<1>1. /\ bundles \in Seq(SUBSET IngestJobs) /\ Len(bundles) <= MaxConverges
      /\ upsets \in 0 .. MaxUpsets
  BY PipelineAssumption DEF Init
<1>2. /\ db \in [IngestJobs -> 0 .. MaxConverges] /\ lastDone \in [export : Nat, ingest : Nat]
      /\ artifact \in [Published -> 0 .. MaxConverges]
  BY PipelineAssumption, NoDocType DEF Init
<1>3. queue \in Seq(Queued) /\ todo \in Seq(Jobs)
  BY DEF Init
<1>4. slots \in [Slots -> Tasks \cup {Idle}] /\ InSlots
  BY DEF Init, InSlots
<1> QED
  BY <1>1, <1>2, <1>3, <1>4 DEF Init, TypeInv, TypeOK, Polling

\* Bundles are only added: what a running job knows of its own stays true.
LEMMA SaneKept ==
    ASSUME TypeInv, slots' = slots,
           bundles' = bundles \/ \E rows \in SUBSET IngestJobs : bundles' = Append(bundles, rows)
    PROVE  InSlots'
<1>1. ASSUME NEW s \in Slots, slots[s] # Idle PROVE Sane(slots[s])'
  <2>1. Sane(slots[s]) /\ slots[s] \in Tasks
    BY <1>1 DEF TypeInv, InSlots, TypeOK
  <2>2. Len(bundles') \in Nat /\ Len(bundles) <= Len(bundles') /\ Len(bundles) \in Nat
    BY DEF TypeInv, TypeOK
  <2>3. ASSUME NEW v \in 0 .. Len(bundles) PROVE Rows(v)' = Rows(v)
    <3>1. v # 0 => bundles'[v] = bundles[v]
      BY DEF TypeInv, TypeOK
    <3> QED
      BY <3>1 DEF Rows
  <2> QED
    BY <2>1, <2>2, <2>3 DEF Sane, Current
<1> QED
  BY <1>1 DEF InSlots

LEMMA UpsetType ==
    ASSUME TypeOK, Upset
    PROVE  upsets' \in 0 .. MaxUpsets
BY PipelineAssumption DEF TypeOK, Upset

LEMMA ConvergeType == TypeInv /\ Converge => TypeInv'
<1> SUFFICES ASSUME TypeInv, Converge PROVE TypeInv'
  OBVIOUS
<1>1. PICK rows \in SUBSET IngestJobs : bundles' = Append(bundles, rows) /\ todo' = SeedJobs(rows)
  <2>1. PICK rows \in Supplies[Current + 1] : bundles' = Append(bundles, rows) /\ todo' = SeedJobs(rows)
    BY DEF Converge
  <2>2. Current + 1 \in 1 .. MaxConverges
    BY PipelineAssumption DEF Converge, TypeInv, TypeOK, Current
  <2>3. rows \in SUBSET IngestJobs
    BY <2>1, <2>2, PipelineAssumption
  <2> QED
    BY <2>1, <2>3
<1>2. bundles' \in Seq(SUBSET IngestJobs) /\ Len(bundles') <= MaxConverges
  BY <1>1, PipelineAssumption DEF Converge, Current, TypeInv, TypeOK
<1>3. todo' \in Seq(Jobs)
  BY <1>1, SeedJobsType
<1>4. InSlots'
  BY <1>1, SaneKept DEF Converge
<1>5. /\ alone' \in BOOLEAN /\ calm' \in BOOLEAN /\ schedule' = "on" /\ enabled' \subseteq Jobs
      /\ skipped' \subseteq Items
  BY JobKinds DEF Converge, Reconciled, TypeInv, TypeOK
<1> QED
  BY <1>2, <1>3, <1>4, <1>5 DEF Converge, TypeInv, TypeOK, Polling, dbVars

\* A list of jobs that is not empty.
LEMMA HeadTail ==
    ASSUME NEW S, NEW q \in Seq(S), q # <<>>
    PROVE  Head(q) \in S /\ Tail(q) \in Seq(S)
OBVIOUS

LEMMA UnpolledType ==
    ASSUME NEW q \in Seq(Queued)
    PROVE  Unpolled(q) \in Seq(Queued) /\ DOMAIN Unpolled(q) = DOMAIN q
<1>1. ASSUME NEW i \in DOMAIN q PROVE [q[i] EXCEPT !.mine = FALSE] \in Queued
  <2>1. q[i] \in Queued
    OBVIOUS
  <2> QED
    BY <2>1 DEF Queued
<1> QED
  BY <1>1 DEF Unpolled

LEMMA RunnerType ==
    TypeInv /\ (Enqueue \/ CannotEnqueue \/ JobDone \/ TimeOut \/ Exit) => TypeInv'
<1> SUFFICES ASSUME TypeInv, Enqueue \/ CannotEnqueue \/ JobDone \/ TimeOut \/ Exit PROVE TypeInv'
  OBVIOUS
<1> USE DEF TypeInv, TypeOK, Polling, dbVars, runnerVars, history
<1>1. CASE Enqueue
  <2>1. Head(todo) \in Jobs
    BY <1>1, HeadTail DEF Enqueue
  <2>2. queue' \in Seq(Queued) /\ enabled' \subseteq Jobs
    BY <1>1, <2>1 DEF Enqueue, Queued
  <2>3. InSlots'
    BY <1>1, SaneKept DEF Enqueue
  <2> QED
    BY <1>1, <2>2, <2>3 DEF Enqueue
<1>2. CASE CannotEnqueue
  <2>1. Tail(todo) \in Seq(Jobs) /\ upsets' \in 0 .. MaxUpsets
    BY <1>2, HeadTail, UpsetType DEF CannotEnqueue
  <2>2. InSlots'
    BY <1>2, SaneKept DEF CannotEnqueue
  <2> QED
    BY <1>2, <2>1, <2>2 DEF CannotEnqueue, NextJob
<1>3. CASE JobDone
  <2>1. InSlots' /\ Tail(todo) \in Seq(Jobs)
    BY <1>3, SaneKept, HeadTail DEF JobDone
  <2> QED
    BY <1>3, <2>1 DEF JobDone, NextJob
<1>4. CASE Exit
  <2>1. InSlots'
    BY <1>4, SaneKept DEF Exit
  <2> QED
    BY <1>4, <2>1 DEF Exit
<1>5. CASE TimeOut
  <2>1. Tail(todo) \in Seq(Jobs) /\ queue' \in Seq(Queued)
    BY <1>5, HeadTail, UnpolledType DEF TimeOut
  <2>2. slots' = [s \in Slots |-> IF slots[s] # Idle THEN [slots[s] EXCEPT !.mine = FALSE] ELSE Idle]
    BY <1>5 DEF TimeOut, Active
  <2>3. ASSUME NEW s \in Slots
        PROVE  slots'[s] \in Tasks \cup {Idle} /\ (slots[s] # Idle => Sane(slots[s]))'
    <3>1. CASE slots[s] = Idle
      BY <2>2, <3>1
    <3>2. CASE slots[s] # Idle
      <4>1. slots[s] \in Tasks /\ Sane(slots[s])
        BY <3>2 DEF InSlots
      <4>2. /\ slots'[s] \in Tasks /\ slots'[s].job = slots[s].job
            /\ slots'[s].at = slots[s].at /\ slots'[s].got = slots[s].got
        BY <2>2, <3>2, <4>1 DEF Tasks
      <4> QED
        BY <1>5, <4>1, <4>2 DEF TimeOut, Sane, Current, Rows
    <3> QED
      BY <3>1, <3>2
  <2>4. slots' \in [Slots -> Tasks \cup {Idle}] /\ InSlots'
    BY <2>2, <2>3 DEF InSlots
  <2> QED
    BY <1>5, <2>1, <2>4 DEF TimeOut, NextJob
<1> QED
  BY <1>1, <1>2, <1>3, <1>4, <1>5

\* One slot changes.
LEMMA SlotSet ==
    ASSUME TypeInv, bundles' = bundles, NEW s \in Slots, NEW v \in Tasks \cup {Idle},
           v # Idle => Sane(v), slots' = [slots EXCEPT ![s] = v]
    PROVE  slots' \in [Slots -> Tasks \cup {Idle}] /\ InSlots'
<1>1. slots' \in [Slots -> Tasks \cup {Idle}]
  BY DEF TypeInv, TypeOK
<1>2. ASSUME NEW t \in Slots, slots'[t] # Idle PROVE Sane(slots[t])'
  <2>1. CASE t = s
    BY <1>2, <2>1 DEF TypeInv, TypeOK, Sane, Current, Rows
  <2>2. CASE t # s
    BY <1>2, <2>2 DEF TypeInv, TypeOK, InSlots, Sane, Current, Rows
  <2> QED
    BY <2>1, <2>2
<1> QED
  BY <1>1, <1>2 DEF InSlots

LEMMA TaskType ==
    ASSUME NEW q \in Queued, NEW at \in {"write", "read", "upload", "finish"}, NEW got \in Nat
    PROVE  Task(q, at, got) \in Tasks
BY NoDocType DEF Task, Tasks, Queued

LEMMA BeginType ==
    ASSUME TypeInv, NEW s \in Slots, NEW at \in {"write", "read", "finish"}, NEW got \in Nat,
           queue # <<>>, Begin(s, at, got), Sane(Task(Head(queue), at, got))
    PROVE  TypeInv'
<1>1. Head(queue) \in Queued /\ Tail(queue) \in Seq(Queued)
  BY HeadTail DEF TypeInv, TypeOK
<1>2. Task(Head(queue), at, got) \in Tasks
  BY <1>1, TaskType
<1>3. slots' \in [Slots -> Tasks \cup {Idle}] /\ InSlots'
  BY <1>2, SlotSet DEF Begin
<1> QED
  BY <1>1, <1>3 DEF Begin, TypeInv, TypeOK, Polling, dbVars, history

LEMMA DeclineType ==
    ASSUME TypeInv, queue # <<>>, Decline
    PROVE  TypeInv'
<1>1. Tail(queue) \in Seq(Queued)
  BY HeadTail DEF TypeInv, TypeOK
<1>2. InSlots'
  BY SaneKept DEF Decline
<1> QED
  BY <1>1, <1>2 DEF Decline, TypeInv, TypeOK, Polling, dbVars, history

\* A job ends, with or without a trace in the dates.
LEMMA EndType ==
    ASSUME TypeInv, NEW s \in Slots, NEW status \in {"STARTED", "SUCCESS", "FAILURE"}, End(s, status),
           UNCHANGED artifact, lastDone' \in [export : Nat, ingest : Nat],
           db' \in [IngestJobs -> 0 .. MaxConverges], partial' \subseteq Items,
           upsets' \in 0 .. MaxUpsets, skipped' \subseteq Items,
           alone' \in BOOLEAN, calm' \in BOOLEAN, untouched' \in BOOLEAN, blurred' \in BOOLEAN
    PROVE  TypeInv'
<1>1. slots' \in [Slots -> Tasks \cup {Idle}] /\ InSlots'
  BY SlotSet DEF End
<1> QED
  BY <1>1 DEF End, TypeInv, TypeOK, Polling

LEMMA StampType ==
    ASSUME NEW kind \in {"export", "ingest"}
    PROVE  Stamp(kind) \in [export : Nat, ingest : Nat]
BY DEF Stamp

LEMMA OutsideType == TypeInv /\ (Beat \/ RunFromUI \/ TurnOff) => TypeInv'
<1> SUFFICES ASSUME TypeInv, Beat \/ RunFromUI \/ TurnOff PROVE TypeInv'
  OBVIOUS
<1> USE DEF TypeInv, TypeOK, Polling, dbVars, runnerVars, history
<1>1. ASSUME NEW j \in Jobs, Foreign(j) PROVE TypeInv'
  <2>1. queue' \in Seq(Queued) /\ upsets' \in 0 .. MaxUpsets
    BY <1>1, UpsetType DEF Foreign, Queued
  <2>2. InSlots'
    BY <1>1, SaneKept DEF Foreign
  <2> QED
    BY <1>1, <2>1, <2>2 DEF Foreign
<1>2. CASE Beat
  BY <1>1, <1>2, JobKinds DEF Beat
<1>3. CASE RunFromUI
  BY <1>1, <1>3 DEF RunFromUI
<1>4. CASE TurnOff
  <2>1. InSlots' /\ upsets' \in 0 .. MaxUpsets
    BY <1>4, SaneKept, UpsetType DEF TurnOff
  <2> QED
    BY <1>4, <2>1 DEF TurnOff
<1> QED
  BY <1>2, <1>3, <1>4

LEMMA FailType ==
    ASSUME TypeInv, NEW s \in Slots, Fail(s) \/ Lose(s)
    PROVE  TypeInv'
<1>1. /\ upsets' \in 0 .. MaxUpsets /\ UNCHANGED <<db, partial, artifact, lastDone, alone, untouched, skipped>>
      /\ calm' = FALSE /\ blurred' \in BOOLEAN /\ \E status \in {"STARTED", "FAILURE"} : End(s, status)
  BY UpsetType DEF Fail, Lose, dbVars, TypeInv, TypeOK
<1> QED
  BY <1>1, EndType DEF TypeInv, TypeOK

\* What a job makes is among the items.
LEMMA MadeFacts ==
    ASSUME NEW j \in IngestJobs
    PROVE  j \in Made(j) /\ Made(j) \subseteq Items
BY DEF Made, Items, IngestJobs, SliceJobs

\* What the steps that write have in common.
LEMMA WritesFacts ==
    ASSUME TypeInv, NEW s \in Slots, Writes(s)
    PROVE  /\ s \in Active /\ slots[s] \in Tasks /\ slots[s].at = "write"
           /\ slots[s].job \in IngestJobs /\ slots[s].got \in 1 .. Current
           /\ slots[s].got \in 1 .. MaxConverges /\ slots[s].job \in Rows(slots[s].got)
           /\ \E missed \in SUBSET Made(slots[s].job) :
                /\ Lands(slots[s].job, slots[s].got, missed)
                /\ \A i \in missed : ~Attached(i, slots[s].got) \/ i \in skipped'
           /\ skipped \subseteq skipped'
           /\ db' = [db EXCEPT ![slots[s].job] = slots[s].got]
           /\ db' \in [IngestJobs -> 0 .. MaxConverges] /\ partial' \subseteq Items
           /\ UNCHANGED <<bundles, lastDone, artifact, queue, schedule, enabled, runner, todo, good,
                          alone, untouched>>
           /\ skipped' \subseteq Items /\ upsets' \in 0 .. MaxUpsets
           /\ calm' \in BOOLEAN /\ blurred' \in BOOLEAN
<1> DEFINE t == slots[s]
<1>1. s \in Active /\ t \in Tasks /\ t.at = "write" /\ Sane(t)
  BY DEF Writes, Write, Skip, CountDrives, NoneBound, Loaded, Active, TypeInv, TypeOK, InSlots
<1>2. t.job \in IngestJobs /\ t.got \in 1 .. Current /\ t.job \in Rows(t.got)
  BY <1>1 DEF Sane
<1>3. t.got \in 1 .. MaxConverges /\ t.got \in 0 .. MaxConverges /\ Written(t.job, t.got) = t.got
  BY <1>2, PipelineAssumption DEF TypeInv, TypeOK, Current, Written
<1>4. "drives" \in Made("drives") /\ "node addresses" \in Made("nodes")
  BY DEF Made
<1>5. /\ \E missed \in SUBSET Made(t.job) :
           /\ Lands(t.job, t.got, missed)
           /\ \A i \in missed : ~Attached(i, t.got) \/ i \in skipped'
      /\ skipped' = skipped \/ \E missed \in SUBSET Made(t.job) : skipped' = skipped \cup missed
  <2>1. CASE Write(s)
    BY <2>1 DEF Write
  <2>2. CASE Skip(s)
    BY <2>2 DEF Skip
  <2>3. CASE CountDrives(s)
    BY <2>3, <1>4 DEF CountDrives
  <2>4. CASE NoneBound(s)
    <3>1. /\ t.job = "nodes" /\ Lands("nodes", t.got, {"node addresses"})
          /\ ~Attached("node addresses", t.got) /\ skipped' = skipped
      BY <2>4 DEF NoneBound
    <3> HIDE DEF t
    <3>2. {"node addresses"} \in SUBSET Made(t.job)
      BY <1>4, <3>1
    <3> QED
      BY <3>1, <3>2
  <2> QED
    BY <2>1, <2>2, <2>3, <2>4 DEF Writes
<1>6. db' = [db EXCEPT ![t.job] = t.got]
  BY <1>3, <1>5 DEF Lands
<1>7. partial \subseteq Items /\ skipped \subseteq Items /\ db \in [IngestJobs -> 0 .. MaxConverges]
  BY DEF TypeInv, TypeOK
<1>8. Made(t.job) \subseteq Items
  BY <1>2, MadeFacts
<1>9. /\ db' \in [IngestJobs -> 0 .. MaxConverges] /\ partial' \subseteq Items /\ skipped' \subseteq Items
  <2> HIDE DEF t
  <2> QED
    BY <1>2, <1>3, <1>5, <1>6, <1>7, <1>8 DEF Lands
<1>10. /\ UNCHANGED <<bundles, lastDone, artifact, queue, schedule, enabled, runner, todo, good, alone,
                      untouched>>
       /\ calm' \in BOOLEAN /\ blurred' \in BOOLEAN
  BY DEF Writes, Write, Skip, CountDrives, NoneBound, Goto, End, runnerVars, TypeInv, TypeOK
<1>11. upsets' \in 0 .. MaxUpsets
  BY UpsetType DEF Writes, Write, Skip, CountDrives, NoneBound, TypeInv, TypeOK
<1> HIDE DEF t
<1> QED
  BY <1>1, <1>2, <1>3, <1>5, <1>6, <1>9, <1>10, <1>11 DEF t

LEMMA IngestType ==
    ASSUME TypeInv, NEW s \in Slots, Ingest(s)
    PROVE  TypeInv'
<1>1. CASE Load(s)
  <2>1. PICK j \in IngestJobs :
          /\ Takes(s, j) /\ ~Refuses(j, Current)
          /\ Begin(s, IF j \in Rows(Current) \/ j = "drives" THEN "write" ELSE "finish", Current)
    BY <1>1 DEF Load
  <2>2. Current \in Nat
    BY DEF TypeInv, TypeOK, Current
  <2>3. CASE j \in Rows(Current)
    <3>1. Current \in 1 .. Current /\ Begin(s, "write", Current)
      BY <2>1, <2>2, <2>3 DEF Rows
    <3>2. Sane(Task(Head(queue), "write", Current))
      BY <2>1, <2>3, <3>1, JobKinds DEF Takes, Task, Sane
    <3> QED
      BY <2>1, <2>2, <3>1, <3>2, BeginType DEF Takes
  <2>4. CASE j \notin Rows(Current)
    <3>1. Begin(s, "finish", Current)
      BY <2>1, <2>4 DEF Refuses
    <3>2. Sane(Task(Head(queue), "finish", Current))
      BY <2>1, JobKinds DEF Takes, Task, Sane
    <3> QED
      BY <2>1, <2>2, <3>1, <3>2, BeginType DEF Takes
  <2> QED
    BY <2>3, <2>4
<1>2. CASE RefuseEmpty(s)
  BY <1>2, DeclineType DEF RefuseEmpty, Takes
<1>3. CASE Onboard(s)
  <2>1. Sane(Task(Head(queue), "finish", 0))
    BY <1>3 DEF Onboard, Takes, Task, Sane
  <2> QED
    BY <1>3, <2>1, BeginType DEF Onboard, Takes
<1>4. CASE Write(s) \/ Skip(s)
  <2> DEFINE t == slots[s]
             v == [t EXCEPT !.at = "finish"]
  <2>1. Writes(s)
    BY <1>4 DEF Writes
  <2>2. t \in Tasks /\ t.at = "write" /\ t.job \in IngestJobs
    BY <2>1, WritesFacts
  <2>3. v \in Tasks /\ Sane(v)
    BY <2>2, JobKinds DEF Tasks, Sane
  <2>4. slots' = [slots EXCEPT ![s] = v] /\ bundles' = bundles /\ polled' = polled
    BY <1>4 DEF Write, Skip, Goto, runnerVars
  <2>5. slots' \in [Slots -> Tasks \cup {Idle}] /\ InSlots'
    BY <2>3, <2>4, SlotSet
  <2> QED
    BY <2>1, <2>4, <2>5, WritesFacts DEF TypeInv, TypeOK, Polling
<1>5. CASE CountDrives(s) \/ NoneBound(s)
  <2>1. Writes(s) /\ End(s, "FAILURE")
    BY <1>5 DEF Writes, CountDrives, NoneBound
  <2>2. alone' \in BOOLEAN /\ untouched' \in BOOLEAN /\ lastDone' \in [export : Nat, ingest : Nat]
    BY <2>1, WritesFacts DEF TypeInv, TypeOK
  <2> QED
    BY <2>1, <2>2, WritesFacts, EndType
<1>6. CASE JobEnd(s)
  <2>1. lastDone' \in [export : Nat, ingest : Nat]
    BY <1>6, StampType DEF JobEnd, TypeInv, TypeOK
  <2> QED
    BY <1>6, <2>1, EndType DEF JobEnd, history, TypeInv, TypeOK
<1> QED
  BY <1>1, <1>2, <1>3, <1>4, <1>5, <1>6 DEF Ingest, Writes

\* Where an export is, and what it does to its slot.
LEMMA Reads ==
    ASSUME TypeInv, NEW s \in Slots, ReadPart(s)
    PROVE  /\ slots[s] \in Tasks /\ slots[s].got \in 0 .. 3 /\ slots[s].job = "export"
           /\ \E v \in Tasks :
                /\ slots' = [slots EXCEPT ![s] = v]
                /\ v.job = "export" /\ v.mine = slots[s].mine /\ v.got = slots[s].got + 1
                /\ v.at = (IF v.got = 4 THEN "upload" ELSE "read")
                /\ \A p \in Published : v.doc[p] = IF p \in Parts[v.got] THEN db[p] ELSE slots[s].doc[p]
<1> DEFINE t == slots[s]
           n == t.got + 1
           doc == [p \in Published |-> IF p \in Parts[n] THEN db[p] ELSE t.doc[p]]
           at == IF n = Len(Parts) THEN "upload" ELSE "read"
           v == [t EXCEPT !.doc = doc, !.got = n, !.at = at]
<1>1. t \in Tasks /\ t.got \in 0 .. 3 /\ t.job = "export"
  <2>0. slots \in [Slots -> Tasks \cup {Idle}] /\ InSlots
    BY DEF TypeInv, TypeOK
  <2>1. t # Idle /\ t.job = "export" /\ t.at = "read"
    BY DEF ReadPart, Exporting, Active
  <2>2. Sane(t) /\ slots[s] \in Tasks \cup {Idle}
    BY <2>0, <2>1 DEF InSlots
  <2> HIDE DEF t
  <2>3. t.got \in 0 .. 3
    BY <2>1, <2>2 DEF Sane
  <2> QED
    BY <2>1, <2>2, <2>3 DEF t
<1>2. doc \in [Published -> 0 .. MaxConverges]
  <2>1. db \in [IngestJobs -> 0 .. MaxConverges] /\ Published \subseteq IngestJobs
    BY PartsFacts DEF TypeInv, TypeOK
  <2>2. t.doc \in [Published -> 0 .. MaxConverges]
    BY <1>1 DEF Tasks
  <2> QED
    BY <2>1, <2>2
<1>3. slots' = [slots EXCEPT ![s] = v]
  BY DEF ReadPart
<1>4. n \in Nat /\ at \in {"read", "upload"} /\ at = (IF n = 4 THEN "upload" ELSE "read")
  BY <1>1, PartsFacts
<1>5. \A p \in Published : doc[p] = IF p \in Parts[n] THEN db[p] ELSE t.doc[p]
  OBVIOUS
<1>6. n = t.got + 1
  OBVIOUS
<1> HIDE DEF doc, at, n
<1>7. v \in Tasks /\ v.job = t.job /\ v.mine = t.mine /\ v.got = n /\ v.at = at /\ v.doc = doc
  BY <1>1, <1>2, <1>4 DEF Tasks
<1> HIDE DEF v, t
<1>8. \A p \in Published : v.doc[p] = IF p \in Parts[v.got] THEN db[p] ELSE t.doc[p]
  BY <1>5, <1>7
<1>9. v.job = "export" /\ v.mine = t.mine /\ v.got = t.got + 1 /\ v.at = (IF v.got = 4 THEN "upload" ELSE "read")
  BY <1>1, <1>4, <1>6, <1>7
<1> QED
  BY <1>1, <1>3, <1>7, <1>8, <1>9 DEF t

LEMMA ExportType ==
    ASSUME TypeInv, NEW s \in Slots, Export(s)
    PROVE  TypeInv'
<1>1. CASE Guard(s)
  <2>1. Sane(Task(Head(queue), "read", 0))
    BY <1>1 DEF Guard, Takes, Task, Sane
  <2> QED
    BY <1>1, <2>1, BeginType DEF Guard, Takes
<1>2. CASE Refuse(s)
  BY <1>2, DeclineType DEF Refuse, Takes
<1>3. CASE ReadPart(s)
  <2>1. PICK v \in Tasks :
          /\ slots' = [slots EXCEPT ![s] = v]
          /\ v.job = "export" /\ v.got = slots[s].got + 1
          /\ v.at = (IF v.got = 4 THEN "upload" ELSE "read")
    BY <1>3, Reads
  <2>2. slots[s].got \in 0 .. 3
    BY <1>3, Reads
  <2>3. Sane(v)
    BY <2>1, <2>2 DEF Sane
  <2>4. slots' \in [Slots -> Tasks \cup {Idle}] /\ InSlots'
    BY <1>3, <2>1, <2>3, SlotSet DEF ReadPart
  <2>5. UNCHANGED <<bundles, queue, schedule, enabled, runnerVars, dbVars, upsets, history>>
    BY <1>3 DEF ReadPart
  <2> QED
    BY <2>4, <2>5 DEF TypeInv, TypeOK, Polling, runnerVars, dbVars, history
<1>4. CASE Upload(s)
  <2> DEFINE t == slots[s]
  <2>1. t \in Tasks /\ Sane(t) /\ t.at = "upload"
    BY <1>4 DEF Upload, Exporting, Active, TypeInv, TypeOK, InSlots
  <2>2. [t EXCEPT !.at = "finish"] \in Tasks /\ Sane([t EXCEPT !.at = "finish"])
    BY <2>1 DEF Tasks, Sane
  <2>3. slots' = [slots EXCEPT ![s] = [t EXCEPT !.at = "finish"]] /\ bundles' = bundles
    BY <1>4 DEF Upload, Goto
  <2>4. slots' \in [Slots -> Tasks \cup {Idle}] /\ InSlots'
    BY <2>2, <2>3, SlotSet
  <2>5. artifact' \in [Published -> 0 .. MaxConverges]
    BY <1>4, <2>1 DEF Upload, Tasks
  <2> QED
    BY <1>4, <2>4, <2>5 DEF Upload, Goto, TypeInv, TypeOK, Polling, runnerVars, history
<1>5. CASE ExportEnd(s)
  <2>1. lastDone' \in [export : Nat, ingest : Nat]
    BY <1>5, StampType DEF ExportEnd, TypeInv
  <2> QED
    BY <1>5, <2>1, EndType DEF ExportEnd, history, TypeInv, TypeOK
<1> QED
  BY <1>1, <1>2, <1>3, <1>4, <1>5 DEF Export

LEMMA TypeNext == TypeInv /\ [Next]_vars => TypeInv'
<1> SUFFICES ASSUME TypeInv, [Next]_vars PROVE TypeInv'
  OBVIOUS
<1>1. CASE UNCHANGED vars
  <2>1. InSlots'
    BY <1>1, SaneKept DEF vars
  <2> QED
    BY <1>1, <2>1 DEF vars, dbVars, runnerVars, history, TypeInv, TypeOK, Polling
<1> QED
  BY <1>1, ConvergeType, RunnerType, OutsideType, IngestType, ExportType, FailType
  DEF Next, Runner, Outside

\* Types, and that jobs only load bundles that exist and write what they loaded.
THEOREM TypeCorrect == Spec => []TypeOK
<1>1. TypeInv => TypeOK
  BY DEF TypeInv
<1> QED
  BY <1>1, TypeInit, TypeNext, PTL DEF Spec

-----------------------------------------------------------------------------
(* Rows are retained *)

LEMMA WriteRetains ==
    ASSUME TypeInv, NEW s \in Slots, Writes(s), NEW j \in IngestJobs, db[j] # 0
    PROVE  db'[j] # 0
<1> DEFINE k == slots[s].job
           v == slots[s].got
<1>1. k \in IngestJobs /\ v \in 1 .. Current /\ db' = [db EXCEPT ![k] = v]
  BY WritesFacts
<1>2. db \in [IngestJobs -> 0 .. MaxConverges] /\ v # 0
  BY <1>1 DEF TypeInv, TypeOK, Current
<1> HIDE DEF k, v
<1> QED
  BY <1>1, <1>2

\* A job writes rows.
LEMMA OnlyWrite ==
    ASSUME [Next]_vars, ~\E s \in Slots : Writes(s)
    PROVE  UNCHANGED <<db, partial>>
BY DEF Next, Converge, Runner, Enqueue, JobDone, TimeOut, Exit, Outside, Beat, RunFromUI, Foreign,
       TurnOff, CannotEnqueue, Ingest, Load, RefuseEmpty, Onboard, JobEnd, Begin,
       Decline, Export, Guard, Refuse, ReadPart, Upload, ExportEnd, Fail, Lose, dbVars, vars

\* Whatever bundles the controller writes, and whoever runs which job, the rows
\* of a job do not vanish.
THEOREM RowsRetained == Spec => Retained
<1>1. TypeInv /\ [Next]_vars => [\A j \in IngestJobs : db[j] # 0 => db'[j] # 0]_vars
  BY WriteRetains, OnlyWrite
<1> QED
  BY <1>1, TypeInit, TypeNext, PTL DEF Spec, Retained

-----------------------------------------------------------------------------
(* The schedule *)

LEMMA ScheduleNext == TypeInv /\ ScheduleOn /\ [Next]_vars => ScheduleOn'
<1> SUFFICES ASSUME TypeInv, ScheduleOn, [Next]_vars PROVE ScheduleOn'
  OBVIOUS
<1>1. CASE Converge
  BY <1>1 DEF Converge, Reconciled, ScheduleOn
<1>2. CASE TurnOff
  BY <1>2 DEF TurnOff, ScheduleOn
<1>3. CASE ~Converge /\ ~TurnOff
  <2>1. UNCHANGED <<bundles, schedule, untouched>>
    BY <1>3 DEF Next, Runner, Enqueue, JobDone, TimeOut, Exit, Outside, Beat, RunFromUI, Foreign,
         CannotEnqueue, Ingest, Writes, Load, RefuseEmpty, Write, Skip, CountDrives, NoneBound, Onboard, JobEnd, Begin, Goto,
         End, Decline, Export, Guard, Refuse, ReadPart, Upload, ExportEnd, Fail, Lose,
         history, vars
  <2> QED
    BY <2>1 DEF ScheduleOn, Current
<1> QED
  BY <1>1, <1>2, <1>3

\* The export is scheduled after a converge until somebody turns it off, also
\* when it was off before.
THEOREM ScheduleKept == Spec => []ScheduleOn
<1>1. Init => ScheduleOn
  BY DEF Init, ScheduleOn, Current
<1> QED
  BY <1>1, TypeInit, TypeNext, ScheduleNext, PTL DEF Spec

-----------------------------------------------------------------------------
(* One answer at a time *)

\* The result that is polled belongs to a job in the queue, then to a job in a
\* slot, then to none; what the runner sees of it says which.
AnswerInv ==
    /\ \A s \in Slots : slots[s] # Idle /\ slots[s].mine =>
          runner = "poll" /\ slots[s].job = Head(todo) /\ polled = "STARTED"
    /\ \A i \in DOMAIN queue : queue[i].mine =>
          runner = "poll" /\ queue[i].job = Head(todo) /\ polled = "PENDING"
    /\ \A s, t \in Slots : slots[s] # Idle /\ slots[t] # Idle /\ slots[s].mine /\ slots[t].mine => s = t
    /\ \A i, k \in DOMAIN queue : queue[i].mine /\ queue[k].mine => i = k

LEMMA AnswerBegin ==
    ASSUME TypeInv, AnswerInv, NEW s \in Slots, NEW at, NEW got, queue # <<>>, Begin(s, at, got)
    PROVE  AnswerInv'
<1>1. /\ runner' = runner /\ todo' = todo
      /\ queue' = Tail(queue) /\ slots' = [slots EXCEPT ![s] = Task(Head(queue), at, got)]
      /\ polled' = (IF Head(queue).mine THEN "STARTED" ELSE polled)
  BY DEF Begin
<1>2. queue \in Seq(Queued) /\ 1 \in DOMAIN queue /\ Head(queue) = queue[1]
  BY DEF TypeInv, TypeOK
<1>3. \A i \in DOMAIN Tail(queue) : i + 1 \in DOMAIN queue /\ Tail(queue)[i] = queue[i + 1] /\ i + 1 # 1 /\ i \in Nat
  BY <1>2
<1>4. \A t \in Slots : t # s => slots'[t] = slots[t]
  BY <1>1 DEF TypeInv, TypeOK
<1>5. slots'[s].mine = Head(queue).mine /\ slots'[s].job = Head(queue).job
  BY <1>1 DEF Task, TypeInv, TypeOK
<1>6. CASE Head(queue).mine
  <2>1. runner = "poll" /\ polled = "PENDING" /\ Head(queue).job = Head(todo)
    BY <1>2, <1>6 DEF AnswerInv
  <2>2. \A t \in Slots : t # s => ~(slots'[t] # Idle /\ slots'[t].mine)
    BY <1>4, <2>1 DEF AnswerInv
  <2>3. \A i \in DOMAIN queue' : ~queue'[i].mine
    BY <1>1, <1>2, <1>3, <1>6 DEF AnswerInv
  <2> QED
    BY <1>1, <1>5, <1>6, <2>1, <2>2, <2>3 DEF AnswerInv
<1>7. CASE ~Head(queue).mine
  <2>1. polled' = polled /\ ~slots'[s].mine
    BY <1>1, <1>5, <1>7
  <2>2. \A i \in DOMAIN queue' : queue'[i].mine =>
          runner = "poll" /\ queue'[i].job = Head(todo) /\ polled = "PENDING"
    BY <1>1, <1>3 DEF AnswerInv
  <2>3. \A i, k \in DOMAIN queue' : queue'[i].mine /\ queue'[k].mine => i = k
    <3>1. ASSUME NEW i \in DOMAIN queue', NEW k \in DOMAIN queue', queue'[i].mine, queue'[k].mine
          PROVE  i = k
      <4>1. i + 1 = k + 1
        BY <1>1, <1>3, <3>1 DEF AnswerInv
      <4> QED
        BY <1>1, <1>3, <4>1
    <3> QED
      BY <3>1
  <2> QED
    BY <1>1, <1>4, <2>1, <2>2, <2>3 DEF AnswerInv
<1> QED
  BY <1>6, <1>7 DEF TypeInv, TypeOK, Queued

LEMMA AnswerDecline ==
    ASSUME TypeInv, AnswerInv, queue # <<>>, Decline
    PROVE  AnswerInv'
<1>1. /\ runner' = runner /\ todo' = todo /\ slots' = slots /\ queue' = Tail(queue)
      /\ polled' = (IF Head(queue).mine THEN "FAILURE" ELSE polled)
  BY DEF Decline
<1>2. queue \in Seq(Queued) /\ 1 \in DOMAIN queue /\ Head(queue) = queue[1]
  BY DEF TypeInv, TypeOK
<1>3. \A i \in DOMAIN Tail(queue) : i + 1 \in DOMAIN queue /\ Tail(queue)[i] = queue[i + 1] /\ i + 1 # 1 /\ i \in Nat
  BY <1>2
<1>4. \A i, k \in DOMAIN queue' : queue'[i].mine /\ queue'[k].mine => i = k
  <2>1. ASSUME NEW i \in DOMAIN queue', NEW k \in DOMAIN queue', queue'[i].mine, queue'[k].mine
        PROVE  i = k
    <3>1. i + 1 = k + 1
      BY <1>1, <1>3, <2>1 DEF AnswerInv
    <3> QED
      BY <1>1, <1>3, <3>1
  <2> QED
    BY <2>1
<1>5. CASE Head(queue).mine
  <2>1. \A t \in Slots : ~(slots[t] # Idle /\ slots[t].mine)
    BY <1>2, <1>5 DEF AnswerInv
  <2>2. \A i \in DOMAIN queue' : ~queue'[i].mine
    BY <1>1, <1>2, <1>3, <1>5 DEF AnswerInv
  <2> QED
    BY <1>1, <1>4, <2>1, <2>2 DEF AnswerInv
<1>6. CASE ~Head(queue).mine
  <2>1. polled' = polled
    BY <1>1, <1>6
  <2>2. \A i \in DOMAIN queue' : queue'[i].mine =>
          runner = "poll" /\ queue'[i].job = Head(todo) /\ polled = "PENDING"
    BY <1>1, <1>3 DEF AnswerInv
  <2> QED
    BY <1>1, <1>4, <2>1, <2>2 DEF AnswerInv
<1> QED
  BY <1>5, <1>6 DEF TypeInv, TypeOK, Queued

LEMMA AnswerEnd ==
    ASSUME TypeInv, AnswerInv, NEW s \in Slots, slots[s] # Idle, NEW status, End(s, status)
    PROVE  AnswerInv'
<1>1. /\ UNCHANGED <<queue, runner, todo>> /\ slots'[s] = Idle
      /\ \A t \in Slots : t # s => slots'[t] = slots[t]
      /\ polled' = (IF slots[s].mine THEN status ELSE polled)
  BY DEF End, TypeInv, TypeOK
<1>2. CASE slots[s].mine
  <2>1. polled = "STARTED" /\ \A i \in DOMAIN queue : ~queue[i].mine
    BY <1>2 DEF AnswerInv
  <2>2. \A t \in Slots : ~(slots'[t] # Idle /\ slots'[t].mine)
    BY <1>1, <1>2 DEF AnswerInv
  <2> QED
    BY <1>1, <2>1, <2>2 DEF AnswerInv
<1>3. CASE ~slots[s].mine
  BY <1>1, <1>3 DEF AnswerInv
<1> QED
  BY <1>2, <1>3

\* A slot goes on, for the same result.
LEMMA AnswerSlot ==
    ASSUME TypeInv, AnswerInv, NEW s \in Slots, slots[s] # Idle, UNCHANGED <<queue, runner, todo, polled>>,
           \A t \in Slots : t # s => slots'[t] = slots[t],
           slots'[s].job = slots[s].job, slots'[s].mine = slots[s].mine
    PROVE  AnswerInv'
<1>1. \A t \in Slots : slots'[t] # Idle /\ slots'[t].mine =>
        slots[t] # Idle /\ slots[t].mine /\ slots[t].job = slots'[t].job
  OBVIOUS
<1> QED
  BY <1>1 DEF AnswerInv

LEMMA AnswerRunner ==
    TypeInv /\ AnswerInv /\ (Converge \/ Enqueue \/ CannotEnqueue \/ JobDone \/ TimeOut \/ Exit)
        => AnswerInv'
<1> SUFFICES ASSUME TypeInv, AnswerInv, Converge \/ Enqueue \/ CannotEnqueue \/ JobDone \/ TimeOut \/ Exit
             PROVE  AnswerInv'
  OBVIOUS
<1>1. ASSUME UNCHANGED <<queue, slots>>, runner # "poll" \/ polled \in {"SUCCESS", "FAILURE"} PROVE AnswerInv'
  BY <1>1 DEF AnswerInv
<1>2. CASE Converge \/ CannotEnqueue \/ JobDone \/ Exit
  BY <1>1, <1>2 DEF Converge, CannotEnqueue, JobDone, Exit
<1>3. CASE Enqueue
  <2>1. /\ runner = "next" /\ slots' = slots /\ todo' = todo /\ runner' = "poll" /\ polled' = "PENDING"
        /\ queue \in Seq(Queued) /\ queue' = Append(queue, [job |-> Head(todo), mine |-> TRUE])
    BY <1>3 DEF Enqueue, TypeInv, TypeOK
  <2>2. /\ \A i \in DOMAIN queue : ~queue[i].mine
        /\ \A t \in Slots : ~(slots[t] # Idle /\ slots[t].mine)
    BY <2>1 DEF AnswerInv
  <2>3. \A i \in DOMAIN queue' : queue'[i].mine =>
          i = Len(queue) + 1 /\ queue'[i] = [job |-> Head(todo), mine |-> TRUE]
    BY <2>1, <2>2
  <2> QED
    BY <2>1, <2>2, <2>3 DEF AnswerInv
<1>4. CASE TimeOut
  <2>1. \A i \in DOMAIN queue' : ~queue'[i].mine
    <3>1. /\ queue' = [i \in DOMAIN queue |-> [queue[i] EXCEPT !.mine = FALSE]]
          /\ \A i \in DOMAIN queue : queue[i] \in Queued
      BY <1>4 DEF TimeOut, Unpolled, TypeInv, TypeOK
    <3> QED
      BY <3>1 DEF Queued
  <2>2. \A s \in Slots : ~(slots'[s] # Idle /\ slots'[s].mine)
    BY <1>4 DEF TimeOut, Active, TypeInv, TypeOK, Tasks
  <2> QED
    BY <2>1, <2>2 DEF AnswerInv
<1> QED
  BY <1>2, <1>3, <1>4

LEMMA AnswerNext == TypeInv /\ AnswerInv /\ [Next]_vars => AnswerInv'
<1> SUFFICES ASSUME TypeInv, AnswerInv, [Next]_vars PROVE AnswerInv'
  OBVIOUS
<1>1. ASSUME UNCHANGED <<queue, slots, runner, todo, polled>> PROVE AnswerInv'
  BY <1>1 DEF AnswerInv
<1>2. CASE UNCHANGED vars \/ TurnOff
  BY <1>1, <1>2 DEF vars, TurnOff, runnerVars
<1>3. ASSUME NEW j, Foreign(j) PROVE AnswerInv'
  <2>1. /\ UNCHANGED <<slots, runner, todo, polled>> /\ queue \in Seq(Queued)
        /\ queue' = Append(queue, [job |-> j, mine |-> FALSE])
    BY <1>3 DEF Foreign, runnerVars, TypeInv, TypeOK
  <2>2. \A i \in DOMAIN queue' : queue'[i].mine => i \in DOMAIN queue /\ queue'[i] = queue[i]
    BY <2>1
  <2> QED
    BY <2>1, <2>2 DEF AnswerInv
<1>4. ASSUME NEW s \in Slots, Ingest(s) PROVE AnswerInv'
  <2>1. CASE Load(s) \/ Onboard(s)
    BY <2>1, AnswerBegin DEF Load, Onboard, Takes
  <2>2. CASE RefuseEmpty(s)
    BY <2>2, AnswerDecline DEF RefuseEmpty, Takes
  <2>3. CASE Write(s) \/ Skip(s)
    <3>1. slots[s] # Idle /\ slots' = [slots EXCEPT ![s].at = "finish"] /\ UNCHANGED <<queue, runner, todo, polled>>
      BY <2>3 DEF Write, Skip, Loaded, Goto, runnerVars, Active
    <3>2. slots[s] \in Tasks
      BY <3>1 DEF TypeInv, TypeOK
    <3>3. /\ slots'[s].job = slots[s].job /\ slots'[s].mine = slots[s].mine
          /\ \A u \in Slots : u # s => slots'[u] = slots[u]
      BY <3>1, <3>2 DEF TypeInv, TypeOK, Tasks
    <3> QED
      BY <3>1, <3>3, AnswerSlot
  <2>4. CASE CountDrives(s) \/ NoneBound(s) \/ JobEnd(s)
    BY <2>4, AnswerEnd DEF CountDrives, NoneBound, Loaded, JobEnd, Active
  <2> QED
    BY <1>4, <2>1, <2>2, <2>3, <2>4 DEF Ingest, Writes
<1>5. ASSUME NEW s \in Slots, Export(s) PROVE AnswerInv'
  <2>1. CASE Guard(s)
    BY <2>1, AnswerBegin DEF Guard, Takes
  <2>2. CASE Refuse(s)
    BY <2>2, AnswerDecline DEF Refuse, Takes
  <2>3. CASE Upload(s)
    BY <2>3, AnswerSlot DEF Upload, Goto, runnerVars, Exporting, Active, TypeInv, TypeOK, Tasks
  <2>4. CASE ReadPart(s)
    <3>1. PICK v \in Tasks : slots' = [slots EXCEPT ![s] = v] /\ v.job = "export" /\ v.mine = slots[s].mine
      BY <2>4, Reads
    <3>2. slots[s].job = "export" /\ slots[s] # Idle
      BY <2>4 DEF ReadPart, Exporting, Active
    <3> QED
      BY <2>4, <3>1, <3>2, AnswerSlot DEF ReadPart, runnerVars, TypeInv, TypeOK
  <2>5. CASE ExportEnd(s)
    BY <2>5, AnswerEnd DEF ExportEnd, Exporting, Active
  <2> QED
    BY <1>5, <2>1, <2>2, <2>3, <2>4, <2>5 DEF Export
<1>6. ASSUME NEW s \in Slots, Fail(s) \/ Lose(s) PROVE AnswerInv'
  BY <1>6, AnswerEnd DEF Fail, Lose, Active
<1> QED
  BY <1>2, <1>3, <1>4, <1>5, <1>6, AnswerRunner DEF Next, Runner, Outside, Beat, RunFromUI

\* At most one element, so at most one is counted.
LEMMA AtMostOne ==
    ASSUME NEW S, \A x, y \in S : x = y
    PROVE  IsFiniteSet(S) /\ Cardinality(S) \in {0, 1} /\ (S = {} => Cardinality(S) = 0)
<1>1. CASE S = {}
  BY <1>1, FS_EmptySet
<1>2. CASE S # {}
  <2>1. PICK x \in S : S = {x}
    BY <1>2
  <2> QED
    BY <2>1, FS_Singleton
<1> QED
  BY <1>1, <1>2

LEMMA AnswerOne == AnswerInv => OneAnswer
<1> SUFFICES ASSUME AnswerInv PROVE OneAnswer
  OBVIOUS
<1> DEFINE S == {s \in Active : slots[s].mine}
           Q == {i \in DOMAIN queue : queue[i].mine}
<1>1. Cardinality(S) \in {0, 1} /\ (S = {} => Cardinality(S) = 0)
  BY AtMostOne DEF AnswerInv, Active
<1>2. Cardinality(Q) \in {0, 1} /\ (Q = {} => Cardinality(Q) = 0)
  BY AtMostOne DEF AnswerInv
<1>3. S = {} \/ Q = {}
  BY DEF AnswerInv, Active
<1>4. Cardinality(S) + Cardinality(Q) <= 1
  BY <1>1, <1>2, <1>3
<1> QED
  BY <1>4 DEF AnswerInv, OneAnswer, Active

\* The runner never takes the answer of one job for that of another, however
\* many of its jobs timed out and go on in the worker.
THEOREM SingleAnswer == Spec => []OneAnswer
<1>1. Init => AnswerInv
  BY DEF Init, AnswerInv
<1> QED
  BY <1>1, TypeInit, TypeNext, AnswerNext, AnswerOne, PTL DEF Spec

-----------------------------------------------------------------------------
(* What the ordering guard refuses *)

Fresh == \A p \in Published : artifact[p] = db[p]

\* An export that nothing wrote into has read what the database holds, and what
\* it has uploaded is that.
Exact(t) ==
    t.job = "export" =>
      /\ \A n \in 1 .. 4 : n <= t.got => \A p \in Published \cap Parts[n] : t.doc[p] = db[p]
      /\ t.at = "finish" => Fresh

FreshInv ==
    ~blurred =>
      /\ \A s \in Slots : slots[s] # Idle => Exact(slots[s])
      /\ Fresh \/ Writing # {} \/ lastDone.export = 0 \/ lastDone.ingest > lastDone.export

LEMMA FreshInit == Init => FreshInv
BY DEF Init, FreshInv

LEMMA FreshBegin ==
    ASSUME TypeInv, FreshInv, NEW s \in Slots, NEW at \in {"write", "read", "finish"}, NEW got \in Nat,
           slots[s] = Idle, Begin(s, at, got),
           Head(queue).job = "export" => at = "read" /\ got = 0
    PROVE  FreshInv'
<1> DEFINE t == Task(Head(queue), at, got)
<1>1. /\ slots' = [slots EXCEPT ![s] = t] /\ slots'[s] = t
      /\ UNCHANGED <<db, artifact, lastDone, blurred>>
      /\ \A u \in Slots : u # s => slots'[u] = slots[u]
  BY DEF Begin, dbVars, history, TypeInv, TypeOK
<1>2. Exact(slots[s])'
  BY <1>1 DEF Exact, Task
<1>3. \A u \in Slots : u # s => (Exact(slots[u]) => Exact(slots[u])')
  BY <1>1 DEF Exact, Fresh
<1>4. Writing \subseteq Writing'
  BY <1>1 DEF Writing, Active
<1> HIDE DEF t
<1> QED
  BY <1>1, <1>2, <1>3, <1>4 DEF FreshInv, Fresh

LEMMA FreshEnd ==
    ASSUME TypeInv, FreshInv, NEW s \in Slots, slots[s] # Idle, NEW status, End(s, status),
           ~blurred' => ~blurred /\ UNCHANGED <<db, artifact>>,
           ~blurred' => Fresh \/ Writing \ {s} # {} \/ lastDone'.export = 0 \/ lastDone'.ingest > lastDone'.export
    PROVE  FreshInv'
<1>1. /\ slots'[s] = Idle
      /\ \A u \in Slots : u # s => slots'[u] = slots[u]
  BY DEF End, TypeInv, TypeOK
<1>2. ~blurred' => \A u \in Slots : slots'[u] # Idle => slots[u] # Idle /\ (Exact(slots[u]) => Exact(slots[u])')
  BY <1>1 DEF Exact, Fresh
<1>3. Writing \ {s} \subseteq Writing'
  BY <1>1 DEF Writing, Active
<1> QED
  BY <1>2, <1>3 DEF FreshInv, Fresh

LEMMA FreshIngest ==
    ASSUME TypeInv, FreshInv, NEW s \in Slots, Ingest(s)
    PROVE  FreshInv'
<1>1. CASE Load(s)
  <2>1. PICK j \in IngestJobs, at \in {"write", "finish"} : Takes(s, j) /\ Begin(s, at, Current)
    BY <1>1 DEF Load
  <2>2. Current \in Nat /\ Head(queue).job # "export" /\ slots[s] = Idle
    BY <2>1, JobKinds DEF Takes, FirstIdle, TypeInv, TypeOK, Current
  <2> QED
    BY <2>1, <2>2, FreshBegin
<1>2. CASE Onboard(s)
  BY <1>2, FreshBegin DEF Onboard, Takes, FirstIdle
<1>3. CASE RefuseEmpty(s)
  BY <1>3 DEF RefuseEmpty, Decline, dbVars, history, FreshInv, Fresh, Exact, Writing, Active
<1>4. CASE Write(s) \/ Skip(s)
  <2>0. slots[s].job \in IngestJobs /\ slots[s] \in Tasks /\ slots[s] # Idle
    BY <1>4, WritesFacts DEF Writes, Active
  <2>1. /\ slots[s].job \in IngestJobs /\ slots[s] \in Tasks
        /\ slots'[s].job = slots[s].job /\ slots'[s].at = "finish" /\ slots'[s] # Idle
    BY <1>4, <2>0, IdleIsNoTask DEF Write, Skip, Goto, TypeInv, TypeOK, Tasks, Idle
  <2>2. s \in Writing'
    BY <2>1 DEF Writing, Active
  <2>3. ASSUME ~blurred', NEW u \in Slots, slots'[u] # Idle PROVE Exact(slots[u])'
    <3>1. Exporting = {}
      BY <1>4, <2>3 DEF Write, Skip
    <3>2. slots'[u].job # "export"
      <4>1. CASE u = s
        BY <2>1, <4>1, JobKinds
      <4>2. CASE u # s
        BY <1>4, <2>3, <3>1, <4>2 DEF Write, Skip, Goto, Exporting, Active, TypeInv, TypeOK
      <4> QED
        BY <4>1, <4>2
    <3> QED
      BY <3>2 DEF Exact
  <2> QED
    BY <2>2, <2>3 DEF FreshInv
<1>5. CASE CountDrives(s) \/ NoneBound(s)
  BY <1>5, FreshEnd DEF CountDrives, NoneBound, Loaded, Active
<1>6. CASE JobEnd(s)
  <2>1. CASE slots[s].job \in IngestJobs
    <3>1. lastDone' = Stamp("ingest")
      BY <1>6, <2>1, JobKinds DEF JobEnd
    <3>2. lastDone'.ingest > lastDone'.export
      BY <3>1 DEF Stamp
    <3> QED
      BY <1>6, <3>2, FreshEnd DEF JobEnd, history, Active
  <2>2. CASE slots[s].job \notin IngestJobs
    <3>1. lastDone' = lastDone /\ Writing \ {s} = Writing
      BY <1>6, <2>2, JobKinds DEF JobEnd, Writing
    <3> QED
      BY <1>6, <3>1, FreshEnd DEF JobEnd, history, Active, FreshInv
  <2> QED
    BY <2>1, <2>2
<1> QED
  BY <1>1, <1>2, <1>3, <1>4, <1>5, <1>6 DEF Ingest, Writes

LEMMA FreshExport ==
    ASSUME TypeInv, FreshInv, NEW s \in Slots, Export(s)
    PROVE  FreshInv'
<1>1. CASE Guard(s)
  BY <1>1, FreshBegin DEF Guard, Takes, FirstIdle
<1>2. CASE Refuse(s)
  BY <1>2 DEF Refuse, Decline, dbVars, history, FreshInv, Fresh, Exact, Writing, Active
<1>3. CASE ReadPart(s)
  <2>1. PICK v \in Tasks :
          /\ slots' = [slots EXCEPT ![s] = v]
          /\ v.job = "export" /\ v.got = slots[s].got + 1
          /\ v.at = (IF v.got = 4 THEN "upload" ELSE "read")
          /\ \A p \in Published : v.doc[p] = IF p \in Parts[v.got] THEN db[p] ELSE slots[s].doc[p]
    BY <1>3, Reads
  <2>2. /\ slots[s] \in Tasks /\ slots[s].got \in 0 .. 3 /\ slots[s].job = "export" /\ slots[s] # Idle
        /\ UNCHANGED <<db, artifact, lastDone, blurred>>
    <3>1. slots[s] \in Tasks /\ slots[s].got \in 0 .. 3 /\ slots[s].job = "export"
      BY <1>3, Reads
    <3>2. UNCHANGED <<db, artifact, lastDone, blurred>>
      BY <1>3 DEF ReadPart, dbVars, history
    <3> QED
      BY <3>1, <3>2, IdleIsNoTask
  <2>3. slots'[s] = v /\ \A u \in Slots : u # s => slots'[u] = slots[u]
    BY <2>1 DEF TypeInv, TypeOK
  <2>4. ASSUME ~blurred PROVE Exact(slots[s])'
    <3>1. ASSUME NEW n \in 1 .. 4, n <= v.got, NEW p \in Published \cap Parts[n] PROVE v.doc[p] = db[p]
      <4>1. CASE p \in Parts[v.got]
        BY <2>1, <4>1
      <4>2. CASE p \notin Parts[v.got]
        <5>1. n <= slots[s].got
          BY <2>1, <2>2, <3>1, <4>2
        <5>2. slots[s].doc[p] = db[p]
          BY <2>2, <2>4, <5>1, <3>1 DEF FreshInv, Exact
        <5> QED
          BY <2>1, <4>2, <5>2
      <4> QED
        BY <4>1, <4>2
    <3> QED
      BY <2>1, <2>2, <2>3, <3>1 DEF Exact
  <2>5. \A u \in Slots : u # s => (Exact(slots[u]) => Exact(slots[u])')
    BY <2>2, <2>3 DEF Exact, Fresh
  <2>6. Writing \subseteq Writing'
    BY <2>1, <2>2, <2>3, JobKinds DEF Writing, Active
  <2> QED
    BY <2>2, <2>3, <2>4, <2>5, <2>6 DEF FreshInv, Fresh
<1>4. CASE Upload(s)
  <2>1. /\ slots[s] \in Tasks /\ slots[s].job = "export" /\ slots[s].at = "upload" /\ slots[s].got = 4
        /\ slots[s] # Idle /\ UNCHANGED <<db, lastDone, blurred>> /\ artifact' = slots[s].doc
    BY <1>4, IdleIsNoTask DEF Upload, Exporting, Active, TypeInv, TypeOK, InSlots, Sane, history
  <2>2. /\ slots' = [slots EXCEPT ![s] = [slots[s] EXCEPT !.at = "finish"]]
        /\ \A u \in Slots : u # s => slots'[u] = slots[u]
        /\ slots'[s].job = "export" /\ slots'[s].got = 4 /\ slots'[s].doc = slots[s].doc
    BY <1>4, <2>1 DEF Upload, Goto, TypeInv, TypeOK, Tasks
  <2>3. ASSUME ~blurred PROVE Fresh' /\ \A n \in 1 .. 4 : \A p \in Published \cap Parts[n] : slots[s].doc[p] = db[p]
    <3>1. \A n \in 1 .. 4 : \A p \in Published \cap Parts[n] : slots[s].doc[p] = db[p]
      BY <2>1, <2>3 DEF FreshInv, Exact
    <3> QED
      BY <2>1, <3>1, PartsFacts DEF Fresh
  <2>4. ASSUME ~blurred, NEW u \in Slots, slots'[u] # Idle PROVE Exact(slots[u])'
    <3>1. CASE u = s
      BY <2>1, <2>2, <2>3, <2>4, <3>1 DEF Exact
    <3>2. CASE u # s
      BY <2>1, <2>2, <2>3, <2>4, <3>2 DEF Exact, FreshInv
    <3> QED
      BY <3>1, <3>2
  <2> QED
    BY <2>1, <2>3, <2>4 DEF FreshInv
<1>5. CASE ExportEnd(s)
  <2>1. ~blurred => Fresh
    BY <1>5 DEF ExportEnd, Exporting, Active, FreshInv, Exact
  <2> QED
    BY <1>5, <2>1, FreshEnd DEF ExportEnd, Exporting, Active, history
<1> QED
  BY <1>1, <1>2, <1>3, <1>4, <1>5 DEF Export

LEMMA FreshNext == TypeInv /\ FreshInv /\ [Next]_vars => FreshInv'
<1> SUFFICES ASSUME TypeInv, FreshInv, [Next]_vars PROVE FreshInv'
  OBVIOUS
<1>1. ASSUME UNCHANGED <<db, artifact, lastDone, slots, blurred>> PROVE FreshInv'
  BY <1>1 DEF FreshInv, Fresh, Exact, Writing, Active
<1>2. CASE UNCHANGED vars \/ Converge \/ Enqueue \/ JobDone \/ Exit \/ Outside
  BY <1>1, <1>2 DEF vars, Converge, Enqueue, JobDone, Exit, Outside, Beat, RunFromUI, Foreign, TurnOff,
     CannotEnqueue, dbVars, history
<1>3. CASE TimeOut
  <2>1. /\ UNCHANGED <<db, artifact, lastDone, blurred>>
        /\ \A s \in Slots : slots[s] = Idle => slots'[s] = Idle
        /\ \A s \in Slots : slots[s] # Idle => slots'[s] = [slots[s] EXCEPT !.mine = FALSE]
    BY <1>3 DEF TimeOut, Active, dbVars
  <2>2. ASSUME NEW s \in Slots, slots[s] # Idle
        PROVE  /\ slots'[s].job = slots[s].job /\ slots'[s].at = slots[s].at
               /\ slots'[s].got = slots[s].got /\ slots'[s].doc = slots[s].doc /\ slots'[s] # Idle
    <3>1. slots[s] \in Tasks
      BY <2>2 DEF TypeInv, TypeOK
    <3>2. slots'[s] \in Tasks
      BY <2>1, <2>2, <3>1 DEF Tasks
    <3> QED
      BY <2>1, <2>2, <3>1, <3>2, IdleIsNoTask DEF Tasks
  <2>3. \A s \in Slots : slots'[s] # Idle => slots[s] # Idle /\ (Exact(slots[s]) => Exact(slots[s])')
    BY <2>1, <2>2 DEF Exact, Fresh
  <2>4. Writing \subseteq Writing'
    BY <2>2 DEF Writing, Active
  <2> QED
    BY <2>1, <2>3, <2>4 DEF FreshInv, Fresh
<1>4. ASSUME NEW s \in Slots, Fail(s) \/ Lose(s) PROVE FreshInv'
  <2>1. /\ s \in Active /\ UNCHANGED <<db, artifact, lastDone>> /\ blurred' = (blurred \/ s \in Writing)
        /\ \E status : End(s, status)
    BY <1>4 DEF Fail, Lose, dbVars
  <2>2. ~blurred' => ~blurred /\ Writing \ {s} = Writing
    BY <2>1
  <2> QED
    BY <2>1, <2>2, FreshEnd DEF Active, FreshInv
<1> QED
  BY <1>2, <1>3, <1>4, FreshIngest, FreshExport DEF Next, Runner

\* The ordering guard refuses only what is already published, unless an ingest
\* wrote during an export or failed after it wrote.
THEOREM GuardIsSound == Spec => GuardSound
<1>1. FreshInv => [\A s \in Slots : Refuse(s) /\ ~blurred /\ Writing = {} =>
                      \A p \in Published : artifact[p] = db[p]]_vars
  BY DEF FreshInv, Fresh, Refuse, GuardPasses
<1> QED
  BY <1>1, TypeInit, TypeNext, FreshInit, FreshNext, PTL DEF Spec, GuardSound

-----------------------------------------------------------------------------
(* Exit code 0 means seeded *)

\* The order of the seed jobs.
Rank == [vlans |-> 1, addresses |-> 2, dcim |-> 3, nodes |-> 4, vms |-> 5, hardware |-> 6,
         onboarding |-> 7, export |-> 8, drives |-> 9]

\* The jobs the runner has no answer of yet.
InTodo(j) == \E i \in DOMAIN todo : todo[i] = j
Left(j) == InTodo(j) /\ ~(polled \in {"SUCCESS", "FAILURE"} /\ Head(todo) = j)

\* What a list must have, besides the onboarding.
Expected == Rows(Current) \cup {j \in {"export"} : RunExport}

\* What it has in any case, or with NAUTOBOT_RUN_EXPORT.
Always == {"vlans", "hardware", "onboarding", "export"}

\* The list is in order, and has all that is expected after what it still has.
ListInv ==
    /\ runner \in {"idle", "done"} => todo = <<>>
    /\ runner # "poll" => polled = "none"
    /\ \A i, k \in DOMAIN todo : i < k => Rank[todo[i]] < Rank[todo[k]]
    /\ \A j : InTodo(j) => j \in Rows(Current) \cup Always
    /\ \A j \in Expected, i \in DOMAIN todo : Rank[todo[i]] < Rank[j] => InTodo(j)
    /\ runner = "idle" <=> Current = 0

\* The parts a list of jobs is put together from.
Sorted(q, lo, hi) ==
    /\ q \in Seq(Jobs)
    /\ \A i \in DOMAIN q : lo <= Rank[q[i]] /\ Rank[q[i]] <= hi
    /\ \A i, k \in DOMAIN q : i < k => Rank[q[i]] < Rank[q[k]]
Holds(q, j) == \E i \in DOMAIN q : q[i] = j

LEMMA RankFacts ==
    /\ \A j \in Jobs : Rank[j] \in 1 .. 9
    /\ \A j, k \in Jobs : Rank[j] = Rank[k] => j = k
    /\ \A j \in IngestJobs : \A i \in Made(j) : \A n \in Needs(i) : n \in IngestJobs /\ Rank[n] < Rank[j]
    /\ \A j \in Jobs : Rank[j] <= Rank["vlans"] => j = "vlans"
    /\ \A j \in Jobs : Rank[j] >= Rank["drives"] => j = "drives"
    /\ Rank["vlans"] < Rank["export"]
<1>1. \A j \in Jobs : j \in {"vlans", "addresses", "dcim", "nodes", "vms", "hardware",
                             "onboarding", "export", "drives"}
  BY DEF Jobs, IngestJobs, SliceJobs
<1>2. /\ Rank["vlans"] = 1 /\ Rank["addresses"] = 2 /\ Rank["dcim"] = 3 /\ Rank["nodes"] = 4
      /\ Rank["vms"] = 5 /\ Rank["hardware"] = 6 /\ Rank["onboarding"] = 7
      /\ Rank["export"] = 8 /\ Rank["drives"] = 9
  BY DEF Rank
<1> HIDE DEF Jobs
<1>3. \A j \in Jobs : Rank[j] \in 1 .. 9
  BY <1>1, <1>2
<1>4. \A j, k \in Jobs : Rank[j] = Rank[k] => j = k
  BY <1>1, <1>2
<1>5. \A j \in IngestJobs : \A i \in Made(j) : \A n \in Needs(i) : n \in IngestJobs /\ Rank[n] < Rank[j]
  <2>1. ASSUME NEW j \in IngestJobs, NEW i \in Made(j)
        PROVE  \/ i = j \/ (j = "nodes" /\ i = "node addresses") \/ (j = "vms" /\ i = "vm addresses")
    BY <2>1 DEF Made
  <2>2. ASSUME NEW j \in IngestJobs, NEW n \in Needs(j) PROVE n \in IngestJobs /\ Rank[n] < Rank[j]
    <3>1. /\ Needs("vlans") = {} /\ Needs("dcim") = {} /\ Needs("nodes") = {} /\ Needs("vms") = {}
          /\ Needs("addresses") = {"vlans"} /\ Needs("hardware") = {"dcim", "nodes"}
          /\ Needs("drives") = {"nodes"}
      BY DEF Needs
    <3>2. /\ j \in {"vlans", "dcim", "nodes", "vms", "addresses", "hardware", "drives"}
          /\ "vlans" \in IngestJobs /\ "dcim" \in IngestJobs /\ "nodes" \in IngestJobs
      BY DEF IngestJobs, SliceJobs
    <3>3. \/ j = "addresses" /\ n = "vlans"
          \/ j = "hardware" /\ n \in {"dcim", "nodes"}
          \/ j = "drives" /\ n = "nodes"
      BY <2>2, <3>1, <3>2
    <3> QED
      BY <1>2, <3>2, <3>3
  <2>3. Needs("node addresses") = {"addresses"} /\ Needs("vm addresses") = {"vlans"}
    BY DEF Needs
  <2>4. "addresses" \in IngestJobs /\ "vlans" \in IngestJobs
    BY DEF IngestJobs, SliceJobs
  <2> SUFFICES ASSUME NEW j \in IngestJobs, NEW i \in Made(j), NEW n \in Needs(i)
               PROVE  n \in IngestJobs /\ Rank[n] < Rank[j]
    OBVIOUS
  <2>9. Rank["addresses"] < Rank["nodes"] /\ Rank["vlans"] < Rank["vms"]
    BY <1>2
  <2>5. CASE i = j
    BY <2>2, <2>5
  <2>6. CASE j = "nodes" /\ i = "node addresses"
    <3>1. n = "addresses"
      BY <2>3, <2>6
    <3> QED
      BY <2>4, <2>6, <2>9, <3>1, Zenon
  <2>7. CASE j = "vms" /\ i = "vm addresses"
    <3>1. n = "vlans"
      BY <2>3, <2>7
    <3> QED
      BY <2>4, <2>7, <2>9, <3>1, Zenon
  <2> QED
    BY <2>1, <2>5, <2>6, <2>7
<1> QED
  BY <1>1, <1>2, <1>3, <1>4, <1>5

LEMMA SortedCat ==
    ASSUME NEW a, NEW b, NEW l1 \in Nat, NEW h1 \in Nat, NEW l2 \in Nat, NEW h2 \in Nat,
           Sorted(a, l1, h1), Sorted(b, l2, h2), l1 <= l2, h1 < l2, h1 <= h2
    PROVE  /\ Sorted(a \o b, l1, h2)
           /\ \A j : Holds(a \o b, j) <=> Holds(a, j) \/ Holds(b, j)
<1> DEFINE c == a \o b
<1>1. a \in Seq(Jobs) /\ b \in Seq(Jobs) /\ c \in Seq(Jobs)
  BY DEF Sorted
<1>2. /\ Len(a) \in Nat /\ Len(b) \in Nat /\ DOMAIN a = 1 .. Len(a) /\ DOMAIN b = 1 .. Len(b)
      /\ DOMAIN c = 1 .. Len(a) + Len(b)
  BY <1>1
<1>3. /\ \A i \in DOMAIN a : i \in DOMAIN c /\ c[i] = a[i]
      /\ \A i \in DOMAIN b : i + Len(a) \in DOMAIN c /\ c[i + Len(a)] = b[i]
  BY <1>1, <1>2
<1>4. \A i \in DOMAIN c : i \in DOMAIN a \/ (i - Len(a) \in DOMAIN b /\ i > Len(a))
  BY <1>1, <1>2
<1>5. \A i \in DOMAIN c : IF i \in DOMAIN a THEN c[i] = a[i] ELSE c[i] = b[i - Len(a)]
  BY <1>1, <1>2, <1>4
<1>6. \A j \in Jobs : Rank[j] \in Nat
  BY RankFacts
<1>7. \A i \in DOMAIN c : c[i] \in Jobs /\ Rank[c[i]] \in Nat /\ i \in Nat
  BY <1>1, <1>2, <1>6
<1>8. \A i \in DOMAIN c : IF i \in DOMAIN a THEN l1 <= Rank[c[i]] /\ Rank[c[i]] <= h1
                          ELSE l2 <= Rank[c[i]] /\ Rank[c[i]] <= h2
  BY <1>4, <1>5 DEF Sorted
<1>9. \A i \in DOMAIN c : l1 <= Rank[c[i]] /\ Rank[c[i]] <= h2
  <2> SUFFICES ASSUME NEW i \in DOMAIN c PROVE l1 <= Rank[c[i]] /\ Rank[c[i]] <= h2
    OBVIOUS
  <2> DEFINE r == Rank[c[i]]
  <2>1. r \in Nat /\ ((l1 <= r /\ r <= h1) \/ (l2 <= r /\ r <= h2))
    BY <1>7, <1>8
  <2> HIDE DEF r
  <2>2. l1 <= r /\ r <= h2
    BY <2>1
  <2> QED
    BY <2>2 DEF r
<1>10. ASSUME NEW i \in DOMAIN c, NEW k \in DOMAIN c, i < k PROVE Rank[c[i]] < Rank[c[k]]
  <2>1. CASE i \in DOMAIN a /\ k \in DOMAIN a
    BY <1>5, <1>10, <2>1 DEF Sorted
  <2>2. CASE i \in DOMAIN a /\ k \notin DOMAIN a
    BY <1>7, <1>8, <2>2
  <2>3. CASE i \notin DOMAIN a /\ k \notin DOMAIN a
    <3>1. /\ i - Len(a) \in DOMAIN b /\ k - Len(a) \in DOMAIN b /\ i - Len(a) < k - Len(a)
          /\ c[i] = b[i - Len(a)] /\ c[k] = b[k - Len(a)]
      BY <1>2, <1>4, <1>5, <1>10, <2>3
    <3> QED
      BY <3>1 DEF Sorted
  <2>4. CASE i \notin DOMAIN a /\ k \in DOMAIN a
    BY <1>2, <1>4, <1>10, <2>4
  <2> QED
    BY <2>1, <2>2, <2>3, <2>4
<1>11. Sorted(c, l1, h2)
  BY <1>1, <1>9, <1>10 DEF Sorted
<1>12. ASSUME NEW j PROVE Holds(c, j) <=> Holds(a, j) \/ Holds(b, j)
  BY <1>3, <1>4, <1>5 DEF Holds
<1> QED
  BY <1>11, <1>12

\* A list of one job or none.
LEMMA SortedOne ==
    ASSUME NEW j \in Jobs, NEW l, NEW h, l <= Rank[j], Rank[j] <= h
    PROVE  /\ Sorted(<<>>, l, h) /\ \A k : ~Holds(<<>>, k)
           /\ Sorted(<<j>>, l, h) /\ \A k : Holds(<<j>>, k) <=> k = j
<1>1. DOMAIN <<j>> = {1} /\ <<j>>[1] = j /\ <<j>> \in Seq(Jobs)
  OBVIOUS
<1> QED
  BY <1>1 DEF Sorted, Holds

\* The jobs of a run, in order: all that the bundle has rows for.
LEMMA SeedJobsOrder ==
    ASSUME NEW rows, rows \subseteq IngestJobs
    PROVE  /\ Sorted(SeedJobs(rows), 1, 9)
           /\ \A j \in rows : Holds(SeedJobs(rows), j)
           /\ \A j : Holds(SeedJobs(rows), j) => j \in rows \cup Always
           /\ Holds(SeedJobs(rows), "vlans")
           /\ RunExport => Holds(SeedJobs(rows), "export")
<1>1. /\ Rank["vlans"] = 1 /\ Rank["addresses"] = 2 /\ Rank["dcim"] = 3 /\ Rank["nodes"] = 4
      /\ Rank["vms"] = 5 /\ Rank["hardware"] = 6 /\ Rank["onboarding"] = 7
      /\ Rank["export"] = 8 /\ Rank["drives"] = 9
  BY DEF Rank
<1>2. /\ "vlans" \in Jobs /\ "hardware" \in Jobs /\ "onboarding" \in Jobs /\ "export" \in Jobs
      /\ "addresses" \in Jobs /\ "dcim" \in Jobs /\ "nodes" \in Jobs /\ "vms" \in Jobs
      /\ "drives" \in Jobs
      /\ \A j \in rows : j \in {"vlans", "addresses", "dcim", "nodes", "vms", "hardware", "drives"}
  BY DEF Jobs, IngestJobs, SliceJobs
<1> HIDE DEF Rank, Jobs
<1>3. ASSUME NEW j \in Jobs, NEW r \in 1 .. 9, Rank[j] = r
      PROVE  /\ Sorted(Supplied(j, rows), r, r)
             /\ \A k : Holds(Supplied(j, rows), k) <=> k = j /\ j \in rows
  <2>1. r <= Rank[j] /\ Rank[j] <= r
    BY <1>3
  <2>2. /\ Sorted(<<>>, r, r) /\ \A k : ~Holds(<<>>, k)
        /\ Sorted(<<j>>, r, r) /\ \A k : Holds(<<j>>, k) <=> k = j
    BY <2>1, SortedOne
  <2> QED
    BY <2>2 DEF Supplied
<1> DEFINE s1 == <<"vlans">>
           s2 == s1 \o Supplied("addresses", rows)
           s3 == s2 \o Supplied("dcim", rows)
           s4 == s3 \o Supplied("nodes", rows)
           s5 == s4 \o Supplied("vms", rows)
           last == <<"hardware", "onboarding">>
           s6 == s5 \o last
           export == IF RunExport THEN <<"export">> ELSE <<>>
           s7 == s6 \o export
           s8 == s7 \o Supplied("drives", rows)
<1>4. Sorted(s1, 1, 1) /\ \A k : Holds(s1, k) <=> k = "vlans"
  <2>1. 1 <= Rank["vlans"] /\ Rank["vlans"] <= 1
    BY <1>1
  <2> QED
    BY <1>2, <2>1, SortedOne
<1>5. Sorted(last, 6, 7) /\ \A k : Holds(last, k) <=> k \in {"hardware", "onboarding"}
  <2>1. DOMAIN last = 1 .. 2 /\ last[1] = "hardware" /\ last[2] = "onboarding"
    OBVIOUS
  <2>2. last \in Seq(Jobs)
    BY <1>2
  <2> HIDE DEF last
  <2>3. \A i \in DOMAIN last : i = 1 \/ i = 2
    BY <2>1
  <2> QED
    BY <1>1, <2>1, <2>2, <2>3 DEF Sorted, Holds
<1>6. Sorted(export, 8, 8) /\ \A k : Holds(export, k) <=> RunExport /\ k = "export"
  <2>1. 8 <= Rank["export"] /\ Rank["export"] <= 8
    BY <1>1
  <2>2. /\ Sorted(<<>>, 8, 8) /\ \A k : ~Holds(<<>>, k)
        /\ Sorted(<<"export">>, 8, 8) /\ \A k : Holds(<<"export">>, k) <=> k = "export"
    <3>1. "export" \in Jobs
      BY <1>2
    <3> QED
      BY <2>1, <3>1, SortedOne
  <2> QED
    BY <2>2
<1>7. SeedJobs(rows) = s8
  BY DEF SeedJobs, Gated
<1> HIDE DEF s1, last, export
<1>8. Sorted(s2, 1, 2) /\ \A k : Holds(s2, k) <=> Holds(s1, k) \/ Holds(Supplied("addresses", rows), k)
  BY <1>1, <1>2, <1>3, <1>4, SortedCat
<1> HIDE DEF s2
<1>9. Sorted(s3, 1, 3) /\ \A k : Holds(s3, k) <=> Holds(s2, k) \/ Holds(Supplied("dcim", rows), k)
  BY <1>1, <1>2, <1>3, <1>8, SortedCat
<1> HIDE DEF s3
<1>10. Sorted(s4, 1, 4) /\ \A k : Holds(s4, k) <=> Holds(s3, k) \/ Holds(Supplied("nodes", rows), k)
  BY <1>1, <1>2, <1>3, <1>9, SortedCat
<1> HIDE DEF s4
<1>11. Sorted(s5, 1, 5) /\ \A k : Holds(s5, k) <=> Holds(s4, k) \/ Holds(Supplied("vms", rows), k)
  BY <1>1, <1>2, <1>3, <1>10, SortedCat
<1> HIDE DEF s5
<1>12. Sorted(s6, 1, 7) /\ \A k : Holds(s6, k) <=> Holds(s5, k) \/ Holds(last, k)
  BY <1>5, <1>11, SortedCat
<1> HIDE DEF s6
<1>13. Sorted(s7, 1, 8) /\ \A k : Holds(s7, k) <=> Holds(s6, k) \/ Holds(export, k)
  BY <1>6, <1>12, SortedCat
<1> HIDE DEF s7
<1>14. Sorted(s8, 1, 9) /\ \A k : Holds(s8, k) <=> Holds(s7, k) \/ Holds(Supplied("drives", rows), k)
  BY <1>1, <1>2, <1>3, <1>13, SortedCat
<1> HIDE DEF s8
<1>15. /\ \A k : Holds(Supplied("addresses", rows), k) <=> k = "addresses" /\ k \in rows
       /\ \A k : Holds(Supplied("dcim", rows), k) <=> k = "dcim" /\ k \in rows
       /\ \A k : Holds(Supplied("nodes", rows), k) <=> k = "nodes" /\ k \in rows
       /\ \A k : Holds(Supplied("vms", rows), k) <=> k = "vms" /\ k \in rows
       /\ \A k : Holds(Supplied("drives", rows), k) <=> k = "drives" /\ k \in rows
  BY <1>1, <1>2, <1>3
<1>16. \A k : Holds(s8, k) <=>
         \/ k \in {"vlans", "hardware", "onboarding"}
         \/ k \in {"addresses", "dcim", "nodes", "vms", "drives"} /\ k \in rows
         \/ RunExport /\ k = "export"
  BY <1>4, <1>5, <1>6, <1>8, <1>9, <1>10, <1>11, <1>12, <1>13, <1>14, <1>15
<1> QED
  BY <1>2, <1>7, <1>14, <1>16 DEF Always

\* The first of the list comes before all others, and what is expected later is
\* in the list.
LEMMA HeadFacts ==
    ASSUME TypeInv, ListInv, todo # <<>>
    PROVE  /\ Head(todo) \in Jobs /\ InTodo(Head(todo))
           /\ \A j : InTodo(j) => j \in Jobs /\ (j = Head(todo) \/ Rank[Head(todo)] < Rank[j])
           /\ \A j \in Expected : Rank[Head(todo)] < Rank[j] => InTodo(j)
<1>1. todo \in Seq(Jobs) /\ 1 \in DOMAIN todo /\ Head(todo) = todo[1] /\ todo[1] \in Jobs
  BY DEF TypeInv, TypeOK
<1>2. \A i \in DOMAIN todo : i \in Nat /\ (i = 1 \/ 1 < i) /\ todo[i] \in Jobs
  BY <1>1
<1>3. \A i \in DOMAIN todo : todo[i] = Head(todo) \/ Rank[Head(todo)] < Rank[todo[i]]
  BY <1>1, <1>2 DEF ListInv
<1>4. \A j \in Expected : Rank[Head(todo)] < Rank[j] => InTodo(j)
  BY <1>1 DEF ListInv
<1> QED
  BY <1>1, <1>2, <1>3, <1>4 DEF InTodo

\* The runner goes on to the next job: only the first is gone.
LEMMA ListTail ==
    ASSUME TypeInv, ListInv, todo # <<>>, todo' = Tail(todo), bundles' = bundles,
           runner # "idle", runner' = "next", polled' = "none"
    PROVE  ListInv' /\ \A j : InTodo(j)' <=> InTodo(j) /\ j # Head(todo)
<1>1. todo \in Seq(Jobs) /\ 1 \in DOMAIN todo /\ Head(todo) = todo[1]
  BY DEF TypeInv, TypeOK
<1>2. \A i \in DOMAIN todo' : i \in Nat /\ i + 1 \in DOMAIN todo /\ todo'[i] = todo[i + 1] /\ 1 < i + 1
  BY <1>1
<1>3. \A i \in DOMAIN todo : i \in Nat /\ (i = 1 \/ (i - 1 \in DOMAIN todo' /\ todo'[i - 1] = todo[i]))
  BY <1>1
<1>4. \A i, k \in DOMAIN todo' : i < k => Rank[todo'[i]] < Rank[todo'[k]]
  <2>1. ASSUME NEW i \in DOMAIN todo', NEW k \in DOMAIN todo', i < k
        PROVE  Rank[todo'[i]] < Rank[todo'[k]]
    <3>1. i + 1 < k + 1
      BY <1>2, <2>1
    <3> QED
      BY <1>2, <3>1 DEF ListInv
  <2> QED
    BY <2>1
<1>5. \A i \in DOMAIN todo : Rank[todo[i]] \in 1 .. 9
  BY <1>1, RankFacts
<1>6. \A i \in DOMAIN todo' : todo'[i] # Head(todo)
  <2>1. \A i \in DOMAIN todo' : Rank[todo[1]] < Rank[todo'[i]]
    BY <1>1, <1>2 DEF ListInv
  <2>2. Rank[todo[1]] \in 1 .. 9
    BY <1>1, <1>5
  <2> QED
    BY <1>1, <2>1, <2>2
<1>7. \A j : InTodo(j)' <=> InTodo(j) /\ j # Head(todo)
  <2>1. ASSUME NEW j, NEW i \in DOMAIN todo', todo'[i] = j PROVE InTodo(j) /\ j # Head(todo)
    BY <1>2, <1>6, <2>1 DEF InTodo
  <2>2. ASSUME NEW j, NEW i \in DOMAIN todo, todo[i] = j, j # Head(todo)
        PROVE  \E k \in DOMAIN todo' : todo'[k] = j
    <3>1. i # 1
      BY <1>1, <2>2
    <3> QED
      BY <1>3, <2>2, <3>1
  <2> QED
    BY <2>1, <2>2 DEF InTodo
<1>8. ASSUME NEW j \in Expected, NEW i \in DOMAIN todo', Rank[todo'[i]] < Rank[j] PROVE InTodo(j)'
  <2>1. InTodo(j)
    BY <1>2, <1>8 DEF ListInv
  <2>2. Rank[Head(todo)] < Rank[todo'[i]] /\ Rank[todo'[i]] \in 1 .. 9 /\ Rank[Head(todo)] \in 1 .. 9
    BY <1>1, <1>2, <1>5 DEF ListInv
  <2>3. j \in Jobs
    BY <1>1, <2>1 DEF InTodo
  <2>4. Rank[j] \in 1 .. 9
    BY <2>3, RankFacts
  <2>5. Rank[Head(todo)] < Rank[j]
    BY ONLY <1>8, <2>2, <2>4
  <2>6. j # Head(todo)
    BY ONLY <2>4, <2>5
  <2> QED
    BY <1>7, <2>1, <2>6
<1>9. Expected' = Expected /\ Rows(Current)' = Rows(Current) /\ Current' = Current
  BY DEF Expected, Rows, Current
<1> QED
  BY <1>4, <1>7, <1>8, <1>9 DEF ListInv

LEMMA ListFrame ==
    ASSUME ListInv, UNCHANGED <<bundles, todo>>, runner' \in {runner, "poll"}, runner = "idle" => runner' = runner,
           runner' # "poll" => polled' = polled
    PROVE  ListInv'
<1>1. Expected' = Expected /\ Rows(Current)' = Rows(Current) /\ Current' = Current
  BY DEF Expected, Rows, Current
<1> QED
  BY <1>1 DEF ListInv, InTodo

\* A converge: the bundle and the list that goes with it.
LEMMA NewBundle ==
    ASSUME TypeInv, Converge
    PROVE  /\ Current' = Current + 1 /\ Current \in Nat
           /\ Rows(Current)' \subseteq IngestJobs /\ InTodo("vlans")'
           /\ Sorted(todo', 1, 9)
           /\ \A j \in Expected' : InTodo(j)'
           /\ \A j : InTodo(j)' => j \in Rows(Current)' \cup Always
<1>1. PICK rows \in Supplies[Current + 1] : bundles' = Append(bundles, rows) /\ todo' = SeedJobs(rows)
  BY DEF Converge
<1>2. rows \subseteq IngestJobs
  <2>1. Current + 1 \in 1 .. MaxConverges
    BY PipelineAssumption DEF Converge, TypeInv, TypeOK, Current
  <2> QED
    BY <1>1, <2>1, PipelineAssumption
<1>3. /\ Sorted(todo', 1, 9)
      /\ \A j \in rows : Holds(todo', j)
      /\ \A j : Holds(todo', j) => j \in rows \cup Always
      /\ Holds(todo', "vlans")
      /\ RunExport => Holds(todo', "export")
  BY <1>1, <1>2, SeedJobsOrder
<1>4. Current' = Current + 1 /\ Current \in Nat /\ Rows(Current)' = rows
  <2>1. /\ bundles \in Seq(SUBSET IngestJobs) /\ bundles' = Append(bundles, rows)
    BY <1>1 DEF TypeInv, TypeOK
  <2>2. Len(bundles') = Len(bundles) + 1 /\ Len(bundles) \in Nat /\ bundles'[Len(bundles) + 1] = rows
    BY <2>1, <1>2
  <2> QED
    BY <2>2 DEF Current, Rows
<1>5. \A j \in Expected' : j \in rows \/ (RunExport /\ j = "export")
  BY <1>4 DEF Expected
<1> QED
  BY <1>2, <1>3, <1>4, <1>5 DEF Holds, InTodo

LEMMA ListNext == TypeInv /\ AnswerInv /\ ListInv /\ [Next]_vars => ListInv'
<1> SUFFICES ASSUME TypeInv, AnswerInv, ListInv, [Next]_vars PROVE ListInv'
  OBVIOUS
<1>1. CASE Converge
  <2>1. runner' = "next" /\ polled' = "none"
    BY <1>1 DEF Converge, ListInv
  <2>3. Current' # 0
    BY <1>1, NewBundle
  <2>2. \A i, k \in DOMAIN todo' : i < k => Rank[todo'[i]] < Rank[todo'[k]]
    BY <1>1, NewBundle DEF Sorted
  <2> QED
    BY <1>1, <2>1, <2>2, <2>3, NewBundle DEF ListInv
<1>2. CASE Enqueue \/ CannotEnqueue \/ JobDone \/ TimeOut
  BY <1>2, ListFrame, ListTail DEF Enqueue, CannotEnqueue, JobDone, TimeOut, NextJob, TypeInv, Polling
<1>3. CASE Exit
  <2>1. Rows(Current)' = Rows(Current) /\ Current' = Current /\ todo' = <<>> /\ polled' = polled
        /\ runner' = "done" /\ runner = "next"
    BY <1>3 DEF Exit, Rows, Current
  <2> QED
    BY <2>1 DEF ListInv, InTodo
<1>4. CASE UNCHANGED vars \/ Beat \/ RunFromUI \/ TurnOff
  BY <1>4, ListFrame DEF vars, Beat, RunFromUI, Foreign, TurnOff, runnerVars
<1>5. ASSUME NEW s \in Slots, Ingest(s) \/ Export(s) \/ Fail(s) \/ Lose(s) PROVE ListInv'
  <2>1. UNCHANGED <<bundles, todo, runner>>
    BY <1>5 DEF Ingest, Writes, Load, RefuseEmpty, Write, Skip, CountDrives, NoneBound, Loaded, Onboard,
         JobEnd, Begin, Goto,
         End, Decline, Export, Guard, Refuse, ReadPart, Upload, ExportEnd, Fail, Lose, runnerVars
  <2>2. ASSUME queue # <<>>, Head(queue).mine PROVE runner = "poll"
    <3>1. 1 \in DOMAIN queue /\ Head(queue) = queue[1]
      BY <2>2 DEF TypeInv, TypeOK
    <3> QED
      BY <2>2, <3>1 DEF AnswerInv
  <2>3. runner # "poll" => polled' = polled
    BY <1>5, <2>2 DEF Ingest, Writes, Load, RefuseEmpty, Write, Skip, CountDrives, NoneBound, Loaded, Onboard,
         JobEnd, Begin, Goto,
         End, Decline, Export, Guard, Refuse, ReadPart, Upload, ExportEnd, Fail, Lose, runnerVars,
         Takes, Active, Exporting, AnswerInv
  <2> QED
    BY <2>1, <2>3, ListFrame
<1> QED
  BY <1>1, <1>2, <1>3, <1>4, <1>5 DEF Next, Runner, Outside

\* Job j has written the rows of this bundle, and what is missing is excused.
Placed(j) == db[j] = Current /\ \A i \in Made(j) \cap partial : Excused(i)

\* A job of the runner that has written its rows.
Wrote(j) ==
    \E s \in Slots : slots[s] # Idle /\ slots[s].mine /\ slots[s].job = j /\ slots[s].at = "finish"

\* Of a converge that began with an idle worker, the jobs that are done have
\* left the rows of this bundle, each after what it attaches to.
SeedInv ==
    alone =>
      /\ \A s \in Slots : slots[s] # Idle /\ slots[s].at = "write" => slots[s].got = Current
      /\ good /\ polled # "FAILURE" =>
           \A j \in Rows(Current) : ~Left(j) \/ Wrote(j) => Placed(j)

LEMMA RowsType == TypeInv => Rows(Current) \subseteq IngestJobs /\ Current \in 0 .. MaxConverges
BY PipelineAssumption DEF TypeInv, TypeOK, Rows, Current

\* What one job makes no other makes, and what excuses a parent excuses a child.
LEMMA ItemFacts ==
    /\ \A j, k \in IngestJobs : j # k => Made(j) \cap Made(k) = {}
    /\ \A j \in IngestJobs : \A i \in Made(j) : \A n \in Needs(i) :
          n \in Under(i) /\ Under(n) \subseteq Under(i)
<1>1. ASSUME NEW j \in IngestJobs, NEW i \in Made(j)
      PROVE  \/ i = j \/ (j = "nodes" /\ i = "node addresses") \/ (j = "vms" /\ i = "vm addresses")
  BY <1>1 DEF Made
<1>2. "node addresses" \notin IngestJobs /\ "vm addresses" \notin IngestJobs
  BY DEF IngestJobs, SliceJobs
<1>3. \A j, k \in IngestJobs : j # k => Made(j) \cap Made(k) = {}
  BY <1>1, <1>2
<1>4. ASSUME NEW i, NEW n \in Needs(i) PROVE \A m \in Needs(n) : Needs(m) = {}
  BY <1>4 DEF Needs
<1>5. ASSUME NEW i, NEW n \in Needs(i) PROVE n \in Under(i) /\ Under(n) \subseteq Under(i)
  <2>1. Needs(n) \subseteq Under(i)
    BY <1>5 DEF Under
  <2>2. Under(n) = Needs(n)
    BY <1>4, <1>5 DEF Under
  <2> QED
    BY <1>5, <2>1, <2>2 DEF Under
<1> QED
  BY <1>3, <1>5

\* Nothing that a finished or running job needs is still to come.
LEMMA NeedsDone ==
    ASSUME TypeInv, ListInv, NEW j \in Rows(Current), ~Left(j) \/ j = Head(todo) \/ todo = <<>>,
           NEW i \in Made(j), NEW n \in Needs(i), n \in Rows(Current)
    PROVE  ~Left(n)
<1>1. j \in IngestJobs /\ n \in IngestJobs /\ Rank[n] < Rank[j] /\ j \in Jobs /\ n \in Jobs
  BY RowsType, RankFacts, JobKinds
<1>2. Rank[n] \in 1 .. 9 /\ Rank[j] \in 1 .. 9
  BY <1>1, RankFacts
<1>3. CASE todo = <<>>
  BY <1>3 DEF Left, InTodo
<1>4. CASE todo # <<>> /\ j = Head(todo)
  <2>1. ~(n = Head(todo) \/ Rank[Head(todo)] < Rank[n])
    BY <1>1, <1>2, <1>4
  <2>2. ~InTodo(n)
    BY <1>4, <2>1, HeadFacts
  <2> QED
    BY <2>2 DEF Left
<1>5. CASE todo # <<>> /\ ~InTodo(j)
  <2>1. ASSUME InTodo(n) PROVE FALSE
    <3>1. PICK k \in DOMAIN todo : todo[k] = n
      BY <2>1 DEF InTodo
    <3>2. j \in Expected /\ Rank[todo[k]] < Rank[j]
      BY <1>1, <3>1 DEF Expected
    <3> QED
      BY <1>5, <3>2 DEF ListInv
  <2> QED
    BY <2>1 DEF Left
<1> QED
  BY <1>3, <1>4, <1>5 DEF Left

\* Nothing is written.
LEMMA SeedFrame ==
    ASSUME SeedInv, UNCHANGED <<bundles, db, partial, skipped, alone>>,
           \A s \in Slots : slots'[s] # Idle /\ slots'[s].at = "write" =>
               slots'[s].got = Current \/ (slots[s] # Idle /\ slots[s].at = "write" /\ slots'[s].got = slots[s].got),
           good' /\ polled' # "FAILURE" => good /\ polled # "FAILURE",
           \A j \in Rows(Current) : good' /\ polled' # "FAILURE" /\ ~(~Left(j) \/ Wrote(j)) =>
               Left(j)' /\ ~Wrote(j)'
    PROVE  SeedInv'
<1>1. Rows(Current)' = Rows(Current) /\ Current' = Current
  BY DEF Rows, Current
<1>2. \A j : Placed(j)' <=> Placed(j)
  BY <1>1 DEF Placed, Excused
<1> HIDE DEF Placed, Left, Wrote
<1>3. alone => \A s \in Slots : slots'[s] # Idle /\ slots'[s].at = "write" => slots'[s].got = Current
  BY DEF SeedInv
<1>4. alone /\ good' /\ polled' # "FAILURE" =>
        \A j \in Rows(Current) : ~Left(j)' \/ Wrote(j)' => Placed(j)
  BY DEF SeedInv
<1> QED
  BY <1>1, <1>2, <1>3, <1>4 DEF SeedInv

LEMMA SeedRunner ==
    TypeInv /\ AnswerInv /\ ListInv /\ SeedInv /\ (Converge \/ Enqueue \/ CannotEnqueue \/ JobDone \/ TimeOut \/ Exit)
        => SeedInv'
<1> SUFFICES ASSUME TypeInv, AnswerInv, ListInv, SeedInv,
                    Converge \/ Enqueue \/ CannotEnqueue \/ JobDone \/ TimeOut \/ Exit
             PROVE  SeedInv'
  OBVIOUS
<1>1. CASE Converge
  <2>1. ASSUME alone' PROVE slots' = slots /\ \A s \in Slots : slots[s] = Idle
    BY <1>1, <2>1 DEF Converge, Active
  <2>2. polled' = "none"
    BY <1>1 DEF Converge, ListInv
  <2>3. ASSUME NEW j \in Rows(Current)' PROVE Left(j)'
    <3>1. InTodo(j)'
      BY <1>1, NewBundle DEF Expected
    <3> QED
      BY <2>2, <3>1 DEF Left
  <2> QED
    BY <2>1, <2>3 DEF SeedInv, Wrote
<1>2. CASE CannotEnqueue
  BY <1>2, SeedFrame DEF CannotEnqueue, NextJob, dbVars, TypeInv, TypeOK
<1>3. CASE TimeOut
  <2>1. /\ good' = FALSE /\ UNCHANGED <<bundles, db, partial, skipped, alone>>
        /\ slots' = [s \in Slots |-> IF s \in Active THEN [slots[s] EXCEPT !.mine = FALSE] ELSE Idle]
    BY <1>3 DEF TimeOut, NextJob, dbVars, TypeInv, TypeOK
  <2>2. ASSUME NEW s \in Slots, slots'[s] # Idle
        PROVE  slots[s] # Idle /\ slots'[s].at = slots[s].at /\ slots'[s].got = slots[s].got
    <3>1. slots[s] \in Tasks /\ slots[s] # Idle /\ slots'[s] = [slots[s] EXCEPT !.mine = FALSE]
      BY <2>1, <2>2 DEF Active, TypeInv, TypeOK
    <3> QED
      BY <3>1 DEF Tasks
  <2> QED
    BY <2>1, <2>2, SeedFrame
<1>4. CASE Enqueue
  <2>1. /\ UNCHANGED <<bundles, db, partial, skipped, alone, slots, todo, good>>
        /\ polled = "none" /\ polled' = "PENDING"
    BY <1>4 DEF Enqueue, dbVars, history, ListInv
  <2>2. \A j : (Left(j)' <=> Left(j)) /\ (Wrote(j)' <=> Wrote(j))
    BY <2>1 DEF Left, InTodo, Wrote
  <2> QED
    BY <2>1, <2>2, SeedFrame
<1>5. CASE JobDone
  <2>1. /\ UNCHANGED <<bundles, db, partial, skipped, alone, slots>> /\ todo' = Tail(todo) /\ todo # <<>>
        /\ good' = (good /\ polled = "SUCCESS") /\ polled' = "none" /\ runner = "poll" /\ runner' = "next"
        /\ polled \in {"SUCCESS", "FAILURE"}
    BY <1>5 DEF JobDone, NextJob, dbVars, history, TypeInv, Polling
  <2>2. \A j : InTodo(j)' <=> InTodo(j) /\ j # Head(todo)
    BY <2>1, ListTail
  <2>3. \A j : (Left(j)' <=> Left(j)) /\ (Wrote(j)' <=> Wrote(j))
    BY <2>1, <2>2 DEF Left, Wrote
  <2> QED
    BY <2>1, <2>3, SeedFrame
<1>6. CASE Exit
  <2>1. UNCHANGED <<bundles, db, partial, skipped, alone, slots, todo, good, polled>>
    BY <1>6 DEF Exit, dbVars, history
  <2>2. \A j : (Left(j)' <=> Left(j)) /\ (Wrote(j)' <=> Wrote(j))
    BY <2>1 DEF Left, InTodo, Wrote
  <2> QED
    BY <2>1, <2>2, SeedFrame
<1> QED
  BY <1>1, <1>2, <1>3, <1>4, <1>5, <1>6

\* A slot takes a job from the queue.
LEMMA SeedBegin ==
    ASSUME TypeInv, AnswerInv, SeedInv, NEW s \in Slots, NEW at, NEW got, queue # <<>>, slots[s] = Idle,
           Begin(s, at, got), at = "write" => got = Current, at = "finish" => Head(queue).job \notin Rows(Current)
    PROVE  SeedInv'
<1> DEFINE t == Task(Head(queue), at, got)
<1>1. /\ slots'[s] = t /\ UNCHANGED <<bundles, db, partial, skipped, alone, todo, good>>
      /\ \A u \in Slots : u # s => slots'[u] = slots[u]
      /\ polled' = (IF Head(queue).mine THEN "STARTED" ELSE polled)
  BY DEF Begin, dbVars, history, TypeInv, TypeOK
<1>2. t.job = Head(queue).job /\ t.at = at /\ t.got = got
  BY DEF Task
<1> HIDE DEF t
<1>3. 1 \in DOMAIN queue /\ Head(queue) = queue[1]
  BY DEF TypeInv, TypeOK
<1>4. Head(queue).mine => polled = "PENDING"
  BY <1>3 DEF AnswerInv
<1>5. \A j : Left(j)' <=> Left(j)
  BY <1>1, <1>4 DEF Left, InTodo
<1>6. \A j \in Rows(Current) : Wrote(j)' => Wrote(j)
  BY <1>1, <1>2 DEF Wrote
<1>7. good' /\ polled' # "FAILURE" => good /\ polled # "FAILURE"
  BY <1>1, <1>4
<1>8. \A u \in Slots : slots'[u] # Idle /\ slots'[u].at = "write" =>
        slots'[u].got = Current \/ (slots[u] # Idle /\ slots[u].at = "write" /\ slots'[u].got = slots[u].got)
  BY <1>1, <1>2
<1> QED
  BY <1>1, <1>5, <1>6, <1>7, <1>8, SeedFrame

LEMMA SeedDecline ==
    ASSUME SeedInv, Decline
    PROVE  SeedInv'
<1>1. /\ UNCHANGED <<bundles, db, partial, skipped, alone, todo, good, slots>>
      /\ polled' = "FAILURE" \/ polled' = polled
  BY DEF Decline, dbVars, history
<1>2. \A j : Wrote(j)' <=> Wrote(j)
  BY <1>1 DEF Wrote
<1>3. polled' = polled => \A j : Left(j)' <=> Left(j)
  BY <1>1 DEF Left, InTodo
<1> QED
  BY <1>1, <1>2, <1>3, SeedFrame

\* A job ends: what the runner counts as done has been written before.
LEMMA SeedEnd ==
    ASSUME TypeInv, AnswerInv, SeedInv, NEW s \in Slots, slots[s] # Idle,
           NEW status \in {"STARTED", "SUCCESS", "FAILURE"}, End(s, status),
           UNCHANGED <<db, partial, skipped, alone>>,
           status = "SUCCESS" => slots[s].at = "finish"
    PROVE  SeedInv'
<1>1. /\ slots'[s] = Idle /\ UNCHANGED <<bundles, todo, good>>
      /\ \A u \in Slots : u # s => slots'[u] = slots[u]
      /\ polled' = (IF slots[s].mine THEN status ELSE polled)
  BY DEF End, TypeInv, TypeOK
<1>2. \A j : Wrote(j)' => Wrote(j)
  BY <1>1 DEF Wrote
<1>3. slots[s].mine => polled = "STARTED" /\ slots[s].job = Head(todo)
  BY DEF AnswerInv
<1>4. \A j : Left(j) /\ ~Wrote(j) /\ polled' # "FAILURE" => Left(j)'
  <2>1. CASE polled' = polled
    BY <1>1, <2>1 DEF Left, InTodo
  <2>2. CASE slots[s].mine /\ status = "STARTED"
    BY <1>1, <2>2 DEF Left, InTodo
  <2>3. CASE slots[s].mine /\ status = "SUCCESS"
    <3>1. Wrote(Head(todo))
      BY <1>3, <2>3 DEF Wrote
    <3> HIDE DEF Wrote
    <3> QED
      BY <1>1, <3>1 DEF Left, InTodo
  <2> QED
    BY <1>1, <2>1, <2>2, <2>3
<1>5. good' /\ polled' # "FAILURE" => good /\ polled # "FAILURE"
  BY <1>1, <1>3
<1> HIDE DEF Left, Wrote
<1> QED
  BY <1>1, <1>2, <1>4, <1>5, SeedFrame

\* A job writes its rows: they are placed if it is its turn, or if it was done
\* before; the rows of the others stay.
LEMMA SeedWrite ==
    ASSUME TypeInv, AnswerInv, ListInv, SeedInv, NEW s \in Slots, Writes(s)
    PROVE  SeedInv'
<1> DEFINE t == slots[s]
<1>1. t \in Tasks /\ t # Idle /\ t.at = "write" /\ t.job \in IngestJobs /\ t.job \in Rows(t.got)
  BY WritesFacts DEF Active
<1>2. /\ db' = [db EXCEPT ![t.job] = t.got] /\ UNCHANGED <<bundles, todo, good, alone>>
      /\ skipped \subseteq skipped'
  BY WritesFacts
<1>3. /\ slots'[s] = Idle \/ (slots'[s].at = "finish" /\ slots'[s].job = t.job /\ slots'[s].mine = t.mine)
      /\ \A u \in Slots : u # s => slots'[u] = slots[u]
      /\ polled' = polled \/ polled' = "FAILURE"
  <2>1. CASE Write(s) \/ Skip(s)
    <3>1. slots' = [slots EXCEPT ![s].at = "finish"] /\ polled' = polled
      BY <2>1 DEF Write, Skip, Goto, runnerVars
    <3> QED
      BY <1>1, <3>1 DEF TypeInv, TypeOK, Tasks
  <2>2. CASE CountDrives(s) \/ NoneBound(s)
    <3>1. slots' = [slots EXCEPT ![s] = Idle] /\ polled' \in {polled, "FAILURE"}
      BY <2>2 DEF CountDrives, NoneBound, End
    <3> QED
      BY <3>1 DEF TypeInv, TypeOK
  <2> QED
    BY <2>1, <2>2 DEF Writes
<1>4. Rows(Current)' = Rows(Current) /\ Current' = Current
  BY <1>2 DEF Rows, Current
<1>5. polled' = polled => \A j : Left(j)' <=> Left(j)
  BY <1>2 DEF Left, InTodo
<1>6. \A j : Wrote(j)' => Wrote(j) \/ (t.mine /\ j = t.job)
  BY <1>3 DEF Wrote
<1>7. \A j : Wrote(j) \/ (t.mine /\ j = t.job) => j = Head(todo)
  BY <1>1 DEF Wrote, AnswerInv
<1> HIDE DEF Wrote
<1>8. ASSUME alone, good, polled' # "FAILURE", NEW j \in Rows(Current), ~Left(j)' \/ Wrote(j)'
      PROVE  Placed(j)'
  <2>0. polled' = polled /\ polled # "FAILURE"
    BY <1>3, <1>8
  <2>1. ~Left(j) \/ j = Head(todo)
    BY <1>5, <1>6, <1>7, <1>8, <2>0
  <2>2. j \in IngestJobs /\ Current \in Nat
    BY RowsType
  <2>3. PICK missed \in SUBSET Made(t.job) :
          /\ partial' = (partial \ Made(t.job)) \cup missed
          /\ \A i \in missed : ~Attached(i, t.got) \/ i \in skipped'
    BY WritesFacts DEF Lands
  <2>4. \A i : Excused(i) => Excused(i)'
    BY <1>2, <1>4 DEF Excused
  <2>5. CASE j # t.job
    <3>1. Placed(j)
      BY <1>5, <1>6, <1>8, <2>0, <2>5 DEF SeedInv
    <3>2. db'[j] = db[j]
      BY <1>2, <2>2, <2>5 DEF TypeInv, TypeOK
    <3>3. Made(j) \cap Made(t.job) = {}
      BY <1>1, <2>2, <2>5, ItemFacts
    <3>4. Made(j) \cap partial' \subseteq Made(j) \cap partial
      BY <2>3, <3>3
    <3> HIDE DEF Excused
    <3> QED
      BY <1>4, <2>4, <3>1, <3>2, <3>4 DEF Placed
  <2>6. CASE j = t.job
    <3>1. t.got = Current
      BY <1>1, <1>8 DEF SeedInv
    <3>2. ASSUME NEW i \in Made(j) \cap partial' PROVE Excused(i)'
      <4>1. i \in Made(j) /\ (~Attached(i, Current) \/ i \in skipped')
        BY <2>3, <2>6, <3>1, <3>2
      <4>2. CASE i \in skipped'
        BY <4>2 DEF Excused
      <4>3. CASE ~Attached(i, Current)
        <5>1. PICK n \in Needs(i) : ~(n \in Rows(Current) /\ db[n] >= Current /\ n \notin partial)
          BY <4>3 DEF Attached
        <5>2. n \in Under(i) /\ Under(n) \subseteq Under(i) /\ n \in IngestJobs
          BY <2>2, <4>1, ItemFacts, RankFacts
        <5>3. CASE n \notin Rows(Current)
          BY <1>4, <5>2, <5>3 DEF Excused
        <5>4. CASE n \in Rows(Current)
          <6>1. Placed(n)
            BY <1>8, <2>0, <2>1, <4>1, <5>4, NeedsDone DEF SeedInv
          <6>2. n \in partial /\ n \in Made(n)
            BY <2>2, <5>1, <5>2, <5>4, <6>1, MadeFacts DEF Placed
          <6>3. Excused(n)
            BY <6>1, <6>2 DEF Placed
          <6>4. Excused(i)
            BY <5>2, <6>3 DEF Excused
          <6> QED
            BY <2>4, <6>4
        <5> QED
          BY <5>3, <5>4
      <4> QED
        BY <4>1, <4>2, <4>3
    <3>3. db'[j] = Current
      BY <1>2, <2>2, <2>6, <3>1 DEF TypeInv, TypeOK
    <3> HIDE DEF Excused
    <3> QED
      BY <1>4, <3>2, <3>3 DEF Placed
  <2> QED
    BY <2>5, <2>6
<1>9. alone => \A u \in Slots : slots'[u] # Idle /\ slots'[u].at = "write" => slots'[u].got = Current
  BY <1>3 DEF SeedInv
<1> HIDE DEF Left, Placed
<1> QED
  BY <1>2, <1>4, <1>8, <1>9 DEF SeedInv

\* An export goes on.
LEMMA SeedExport ==
    ASSUME TypeInv, SeedInv, NEW s \in Slots, ReadPart(s) \/ Upload(s)
    PROVE  SeedInv'
<1>1. /\ UNCHANGED <<bundles, db, partial, skipped, alone, todo, good, polled>>
      /\ slots[s].job = "export"
  BY DEF ReadPart, Upload, Goto, Exporting, dbVars, runnerVars, history
<1>2. /\ slots'[s].job = "export" /\ slots'[s].at \in {"read", "upload", "finish"}
      /\ \A u \in Slots : u # s => slots'[u] = slots[u]
  <2>1. CASE ReadPart(s)
    BY <2>1, Reads DEF TypeInv, TypeOK
  <2>2. CASE Upload(s)
    BY <1>1, <2>2, IdleIsNoTask DEF Upload, Goto, Exporting, Active, TypeInv, TypeOK, Tasks
  <2> QED
    BY <2>1, <2>2
<1>3. \A j \in Rows(Current) : Wrote(j)' => Wrote(j)
  <2>1. \A j \in Rows(Current) : j # "export"
    BY RowsType, JobKinds
  <2> QED
    BY <1>2, <2>1 DEF Wrote
<1>4. \A j : Left(j)' <=> Left(j)
  BY <1>1 DEF Left, InTodo
<1> HIDE DEF Left, Wrote
<1> QED
  BY <1>1, <1>2, <1>3, <1>4, SeedFrame

LEMMA SeedNext == TypeInv /\ AnswerInv /\ ListInv /\ SeedInv /\ [Next]_vars => SeedInv'
<1> SUFFICES ASSUME TypeInv, AnswerInv, ListInv, SeedInv, [Next]_vars PROVE SeedInv'
  OBVIOUS
<1>1. CASE UNCHANGED vars \/ Beat \/ RunFromUI \/ TurnOff
  <2>1. UNCHANGED <<bundles, db, partial, skipped, alone, slots, todo, good, polled>>
    BY <1>1 DEF vars, Beat, RunFromUI, Foreign, TurnOff, runnerVars, dbVars, history
  <2> QED
    BY <2>1 DEF SeedInv, Rows, Current, Left, InTodo, Wrote, Placed, Excused
<1>2. ASSUME NEW s \in Slots, Ingest(s) PROVE SeedInv'
  <2>1. CASE Load(s)
    <3>1. PICK j \in IngestJobs :
            /\ Takes(s, j) /\ ~Refuses(j, Current)
            /\ Begin(s, IF j \in Rows(Current) \/ j = "drives" THEN "write" ELSE "finish", Current)
      BY <2>1 DEF Load
    <3>2. \E at \in {"write", "finish"} : Begin(s, at, Current) /\ (at = "finish" => j \notin Rows(Current))
      BY <3>1
    <3> QED
      BY <3>1, <3>2, SeedBegin DEF Takes, FirstIdle
  <2>2. CASE Onboard(s)
    <3>1. "onboarding" \notin Rows(Current)
      BY RowsType, JobKinds
    <3> QED
      BY <2>2, <3>1, SeedBegin DEF Onboard, Takes, FirstIdle
  <2>3. CASE RefuseEmpty(s)
    BY <2>3, SeedDecline DEF RefuseEmpty
  <2>4. CASE Writes(s)
    BY <2>4, SeedWrite
  <2>5. CASE JobEnd(s)
    BY <2>5, SeedEnd DEF JobEnd, Active, history
  <2> QED
    BY <1>2, <2>1, <2>2, <2>3, <2>4, <2>5 DEF Ingest
<1>3. ASSUME NEW s \in Slots, Export(s) PROVE SeedInv'
  <2>1. CASE Guard(s)
    BY <2>1, SeedBegin DEF Guard, Takes, FirstIdle
  <2>2. CASE Refuse(s)
    BY <2>2, SeedDecline DEF Refuse
  <2>3. CASE ReadPart(s) \/ Upload(s)
    BY <2>3, SeedExport
  <2>4. CASE ExportEnd(s)
    BY <2>4, SeedEnd DEF ExportEnd, Exporting, Active, history
  <2> QED
    BY <1>3, <2>1, <2>2, <2>3, <2>4 DEF Export
<1>4. ASSUME NEW s \in Slots, Fail(s) \/ Lose(s) PROVE SeedInv'
  BY <1>4, SeedEnd DEF Fail, Lose, Active, dbVars
<1> QED
  BY <1>1, <1>2, <1>3, <1>4, SeedRunner DEF Next, Runner, Outside

LEMMA SeedInit == Init => AnswerInv /\ ListInv /\ SeedInv
BY DEF Init, AnswerInv, ListInv, SeedInv, Expected, InTodo, Rows, Current

\* Exit code 0 of a converge that began with an idle worker means that every job of
\* the bundle wrote this bundle's rows, whoever else ran which jobs meanwhile and
\* whatever timed out in earlier converges, and that what is missing was left out by
\* a job that only logged it, or builds on rows the bundle lacks or that were left out.
THEOREM ExitZero == Spec => []ZeroMeansSeeded
<1>1. ListInv /\ SeedInv => ZeroMeansSeeded
  <2> SUFFICES ASSUME ListInv, SeedInv, runner = "done", good, alone, NEW j \in Rows(Current)
               PROVE  Placed(j)
    BY DEF ZeroMeansSeeded, Placed
  <2>1. todo = <<>> /\ polled = "none"
    BY DEF ListInv
  <2>2. ~Left(j)
    BY <2>1 DEF Left, InTodo
  <2> QED
    BY <2>1, <2>2 DEF SeedInv
<1> QED
  BY <1>1, TypeInit, TypeNext, AnswerNext, SeedInit, ListNext, SeedNext, PTL DEF Spec

-----------------------------------------------------------------------------
(* A converge that nothing disturbs *)

\* All jobs are the runner's and read what the database holds; the export finds an
\* ingest and publishes what the ingests wrote; a job fails only when nodes come
\* without the addresses they are bound to, and then it is theirs.
OwnTasks ==
    /\ \A s \in Slots : slots[s] # Idle => slots[s].mine /\ Exact(slots[s])
    /\ \A i \in DOMAIN queue : queue[i].mine
Whole == "nodes" \in Rows(Current) => {"vlans", "addresses"} \subseteq Rows(Current)
Reported ==
    /\ ~Left("vlans") /\ Left("export") => lastDone.ingest > lastDone.export
    /\ RunExport /\ ~Left("export") /\ Current > 0 => Fresh
    /\ ~good \/ polled = "FAILURE" => ~Whole
CalmInv == calm => OwnTasks /\ Reported

\* Nothing of it began before the converge or was left out.
QuietInv == calm => alone /\ skipped = {}

LEMMA QuietNext == QuietInv /\ [Next]_vars => QuietInv'
<1> SUFFICES ASSUME QuietInv, [Next]_vars PROVE QuietInv'
  OBVIOUS
<1>1. CASE Converge
  BY <1>1 DEF Converge, QuietInv
<1>2. CASE ~Converge
  <2>1. calm' = FALSE \/ UNCHANGED <<calm, alone, skipped>>
    BY <1>2 DEF Next, Runner, Enqueue, JobDone, TimeOut, Exit, Outside, Beat, RunFromUI, Foreign, TurnOff,
       CannotEnqueue, Ingest, Writes, Load, RefuseEmpty, Write, Skip, CountDrives, NoneBound, Onboard,
       JobEnd, Begin, Decline, Export, Guard, Refuse, ReadPart, Upload, ExportEnd, Fail, Lose, history, vars
  <2> QED
    BY <2>1 DEF QuietInv
<1> QED
  BY <1>1, <1>2

\* Nodes whose addresses are all there are bound.
LEMMA NodesBound ==
    ASSUME TypeInv, AnswerInv, ListInv, SeedInv, QuietInv, CalmInv, calm, NEW s \in Slots, NoneBound(s)
    PROVE  ~Whole \/ ~good
<1> SUFFICES ASSUME Whole, good PROVE FALSE
  OBVIOUS
<1>1. /\ slots[s] # Idle /\ slots[s].at = "write" /\ slots[s].job = "nodes"
      /\ slots[s].job \in Rows(slots[s].got) /\ ~Attached("node addresses", slots[s].got)
  BY WritesFacts DEF Writes, NoneBound, Active
<1>2. alone /\ skipped = {} /\ OwnTasks
  BY DEF QuietInv, CalmInv
<1>3. slots[s].got = Current
  BY <1>1, <1>2 DEF SeedInv
<1>4. "nodes" \in Rows(Current) /\ "vlans" \in Rows(Current) /\ "addresses" \in Rows(Current)
  BY <1>1, <1>3 DEF Whole
<1>5. polled = "STARTED" /\ Head(todo) = "nodes"
  BY <1>1, <1>2 DEF OwnTasks, AnswerInv
<1>6. "node addresses" \in Made("nodes") /\ Needs("node addresses") = {"addresses"}
  BY DEF Made, Needs
<1>7. ~Left("addresses")
  BY <1>4, <1>5, <1>6, NeedsDone
<1>8. Placed("addresses")
  BY <1>2, <1>4, <1>5, <1>7 DEF SeedInv
<1>9. Under("addresses") = {"vlans"} /\ "addresses" \in Made("addresses")
  BY DEF Under, Needs, Made
<1>10. ~Excused("addresses")
  BY <1>2, <1>4, <1>9 DEF Excused
<1>11. db["addresses"] = Current /\ "addresses" \notin partial /\ Current \in Nat
  BY <1>8, <1>9, <1>10, RowsType DEF Placed
<1>12. Current >= Current
  BY <1>11
<1>13. \A n \in Needs("node addresses") : n \in Rows(Current) /\ db[n] >= Current /\ n \notin partial
  <2> HIDE DEF Current
  <2> QED
    BY <1>4, <1>6, <1>11, <1>12
<1> QED
  BY <1>1, <1>3, <1>13 DEF Attached

\* What the runner waits for is the only task there is.
LEMMA OnlyTask ==
    ASSUME TypeInv, AnswerInv, ListInv, OwnTasks, Reported, NEW s \in Slots, slots[s] # Idle
    PROVE  /\ polled = "STARTED" /\ runner = "poll" /\ todo # <<>> /\ slots[s].job = Head(todo)
           /\ \A u \in Slots : u # s => slots[u] = Idle
           /\ Left(slots[s].job)
           /\ \A j : Left(j) <=> InTodo(j)
<1>1. polled = "STARTED" /\ runner = "poll" /\ slots[s].job = Head(todo) /\ todo # <<>>
  BY DEF OwnTasks, AnswerInv, TypeInv, Polling
<1>2. \A u \in Slots : u # s => slots[u] = Idle
  BY DEF OwnTasks, AnswerInv
<1>3. \A j : Left(j) <=> InTodo(j)
  BY <1>1 DEF Left
<1>4. Left(slots[s].job)
  BY <1>1, <1>3, HeadFacts
<1> QED
  BY <1>1, <1>2, <1>3, <1>4

\* So is what waits in the queue.
LEMMA OnlyQueued ==
    ASSUME TypeInv, AnswerInv, ListInv, OwnTasks, Reported, queue # <<>>
    PROVE  /\ Head(queue).mine /\ Head(queue).job = Head(todo)
           /\ polled = "PENDING" /\ runner = "poll" /\ todo # <<>>
           /\ \A i \in DOMAIN Tail(queue) : Tail(queue)[i].mine
           /\ Left(Head(todo))
           /\ \A j : Left(j) <=> InTodo(j)
<1>1. 1 \in DOMAIN queue /\ Head(queue) = queue[1]
  BY DEF TypeInv, TypeOK
<1>2. \A i \in DOMAIN Tail(queue) : i + 1 \in DOMAIN queue /\ Tail(queue)[i] = queue[i + 1]
  BY DEF TypeInv, TypeOK
<1>3. Head(queue).mine /\ \A i \in DOMAIN Tail(queue) : Tail(queue)[i].mine
  BY <1>1, <1>2 DEF OwnTasks
<1>4. /\ polled = "PENDING" /\ runner = "poll" /\ todo # <<>> /\ Head(queue).job = Head(todo)
  BY <1>1, <1>3 DEF AnswerInv, TypeInv, Polling
<1>5. \A j : Left(j) <=> InTodo(j)
  BY <1>4 DEF Left
<1>6. Left(Head(todo))
  BY <1>4, <1>5, HeadFacts
<1> QED
  BY <1>3, <1>4, <1>5, <1>6

\* What is known of the jobs before and after the one at the head of the list.
LEMMA HeadOrder ==
    ASSUME TypeInv, ListInv, todo # <<>>
    PROVE  /\ Head(todo) # "vlans" => ~InTodo("vlans")
           /\ Head(todo) \in IngestJobs /\ Head(todo) # "drives" /\ RunExport => InTodo("export")
           /\ Head(todo) = "drives" => \A j : InTodo(j) => j = "drives"
           /\ Head(todo) = "drives" => "drives" \in Rows(Current)
<1> DEFINE h == Head(todo)
<1>1. h \in Jobs /\ InTodo(h)
  BY HeadFacts
<1>2. \A j : InTodo(j) => j \in Jobs /\ (j = h \/ Rank[h] < Rank[j])
  BY HeadFacts
<1>3. \A j \in Expected : Rank[h] < Rank[j] => InTodo(j)
  BY HeadFacts
<1> HIDE DEF h
<1>4. /\ Rank["vlans"] = 1 /\ Rank["export"] = 8 /\ Rank["drives"] = 9
      /\ \A j \in Jobs : Rank[j] \in 1 .. 9
  BY RankFacts DEF Rank
<1>5. h # "vlans" => ~InTodo("vlans")
  <2>1. Rank[h] \in 1 .. 9
    BY <1>1, <1>4
  <2>2. ~(Rank[h] < Rank["vlans"])
    BY <1>4, <2>1
  <2> QED
    BY <1>2, <2>2
<1>6. ASSUME h \in IngestJobs, h # "drives", RunExport PROVE InTodo("export")
  <2>1. Rank[h] < Rank["export"]
    BY <1>6 DEF IngestJobs, SliceJobs, Rank
  <2>2. "export" \in Expected
    BY <1>6 DEF Expected
  <2> QED
    BY <1>3, <2>1, <2>2
<1>7. ASSUME h = "drives", NEW j, InTodo(j) PROVE j = "drives"
  <2>1. j \in Jobs /\ (j = h \/ Rank[h] < Rank[j])
    BY <1>2, <1>7
  <2>2. Rank[j] \in 1 .. 9
    BY <2>1, <1>4
  <2>3. ~(Rank[h] < Rank[j])
    BY <1>4, <1>7, <2>2
  <2> QED
    BY <1>7, <2>1, <2>3
<1>8. h = "drives" => "drives" \in Rows(Current)
  BY <1>1 DEF ListInv, Always
<1> QED
  BY <1>5, <1>6, <1>7, <1>8 DEF h

\* Only the runner moves, or nothing that matters.
LEMMA CalmRunner ==
    ASSUME TypeInv, AnswerInv, ListInv, CalmInv,
           Converge \/ Enqueue \/ CannotEnqueue \/ JobDone \/ TimeOut \/ Exit
    PROVE  CalmInv'
<1>1. CASE CannotEnqueue \/ TimeOut
  BY <1>1 DEF CannotEnqueue, TimeOut, CalmInv
<1>2. CASE Converge
  <2> SUFFICES ASSUME calm' PROVE OwnTasks' /\ Reported'
    BY DEF CalmInv
  <2>1. /\ slots' = slots /\ queue' = queue /\ polled' = "none" /\ good' = TRUE
        /\ queue = <<>> /\ \A s \in Slots : slots[s] = Idle
    BY <1>2 DEF Converge, Active, ListInv
  <2>2. OwnTasks'
    BY <2>1 DEF OwnTasks
  <2>3. InTodo("vlans")' /\ (RunExport => InTodo("export")')
    BY <1>2, NewBundle DEF Expected
  <2>4. Left("vlans")' /\ (RunExport => Left("export")')
    BY <2>1, <2>3 DEF Left
  <2> QED
    BY <2>1, <2>2, <2>4 DEF Reported
<1>3. ASSUME UNCHANGED <<db, lastDone, artifact, slots, bundles, calm>>,
             \A i \in DOMAIN queue' : queue'[i].mine \/ (i \in DOMAIN queue /\ queue'[i] = queue[i]),
             \A j : Left(j)' <=> Left(j),
             ~good' \/ polled' = "FAILURE" => ~good \/ polled = "FAILURE"
      PROVE  CalmInv'
  <2> SUFFICES ASSUME calm' PROVE OwnTasks' /\ Reported'
    BY DEF CalmInv
  <2>1. OwnTasks /\ Reported
    BY <1>3 DEF CalmInv
  <2>2. OwnTasks'
    BY <1>3, <2>1 DEF OwnTasks, Exact, Fresh
  <2>3. Rows(Current)' = Rows(Current) /\ Current' = Current /\ (Fresh' <=> Fresh) /\ (Whole' <=> Whole)
    BY <1>3 DEF Rows, Current, Fresh, Whole
  <2> HIDE DEF Left, Fresh, Whole
  <2>4. Reported'
    BY <1>3, <2>1, <2>3 DEF Reported
  <2> QED
    BY <2>2, <2>4
<1>4. CASE Enqueue
  <2>1. /\ UNCHANGED <<db, lastDone, artifact, slots, bundles, calm, todo, good>>
        /\ polled = "none" /\ polled' = "PENDING"
        /\ queue' = Append(queue, [job |-> Head(todo), mine |-> TRUE]) /\ queue \in Seq(Queued)
    BY <1>4 DEF Enqueue, dbVars, history, ListInv, TypeInv, TypeOK
  <2>2. \A i \in DOMAIN queue' : queue'[i].mine \/ (i \in DOMAIN queue /\ queue'[i] = queue[i])
    BY <2>1
  <2>3. \A j : Left(j)' <=> Left(j)
    BY <2>1 DEF Left, InTodo
  <2> QED
    BY <1>3, <2>1, <2>2, <2>3
<1>5. CASE JobDone
  <2>1. /\ UNCHANGED <<db, lastDone, artifact, slots, bundles, calm, queue>>
        /\ todo' = Tail(todo) /\ todo # <<>>
        /\ good' = (good /\ polled = "SUCCESS") /\ polled' = "none" /\ runner = "poll" /\ runner' = "next"
        /\ polled \in {"SUCCESS", "FAILURE"}
    BY <1>5 DEF JobDone, NextJob, dbVars, history, TypeInv, Polling
  <2>2. \A j : InTodo(j)' <=> InTodo(j) /\ j # Head(todo)
    BY <2>1, ListTail
  <2>3. \A j : Left(j)' <=> Left(j)
    BY <2>1, <2>2 DEF Left
  <2> QED
    BY <1>3, <2>1, <2>3
<1>6. CASE Exit
  <2>1. UNCHANGED <<db, lastDone, artifact, slots, bundles, calm, queue, todo, good, polled>>
    BY <1>6 DEF Exit, dbVars, history
  <2>2. \A j : Left(j)' <=> Left(j)
    BY <2>1 DEF Left, InTodo
  <2> QED
    BY <1>3, <2>1, <2>2
<1> QED
  BY <1>1, <1>2, <1>4, <1>5, <1>6

\* A slot takes the only task.
LEMMA CalmBegin ==
    ASSUME TypeInv, AnswerInv, ListInv, CalmInv, NEW s \in Slots, NEW at, NEW got, queue # <<>>,
           Begin(s, at, got), Head(queue).job = "export" => at = "read" /\ got = 0
    PROVE  CalmInv'
<1> SUFFICES ASSUME calm' PROVE OwnTasks' /\ Reported'
  BY DEF CalmInv
<1> DEFINE t == Task(Head(queue), at, got)
<1>1. /\ slots'[s] = t /\ queue' = Tail(queue)
      /\ UNCHANGED <<bundles, db, lastDone, artifact, todo, good, calm>>
      /\ \A u \in Slots : u # s => slots'[u] = slots[u]
      /\ polled' = (IF Head(queue).mine THEN "STARTED" ELSE polled)
  BY DEF Begin, dbVars, history, TypeInv, TypeOK
<1>2. /\ slots'[s].job = Head(queue).job /\ slots'[s].mine = Head(queue).mine
      /\ Exact(slots[s])'
  BY <1>1 DEF Task, Exact
<1> HIDE DEF t
<1>3. OwnTasks /\ Reported
  BY <1>1 DEF CalmInv
<1>4. Head(queue).mine /\ polled = "PENDING" /\ polled' = "STARTED" /\ \A i \in DOMAIN Tail(queue) : Tail(queue)[i].mine
  BY <1>1, <1>3, OnlyQueued
<1>5. \A u \in Slots : u # s => (Exact(slots[u]) => Exact(slots[u])')
  BY <1>1 DEF Exact, Fresh
<1>6. OwnTasks'
  BY <1>1, <1>2, <1>3, <1>4, <1>5 DEF OwnTasks
<1>7. /\ \A j : Left(j)' <=> Left(j)
      /\ Rows(Current)' = Rows(Current) /\ Current' = Current /\ (Fresh' <=> Fresh) /\ (Whole' <=> Whole)
  BY <1>1, <1>4 DEF Left, InTodo, Rows, Current, Fresh, Whole
<1> HIDE DEF Left, Fresh, Whole
<1>8. Reported'
  BY <1>1, <1>3, <1>4, <1>7 DEF Reported
<1> QED
  BY <1>6, <1>8

\* No job declines: what is in the list has rows, and the export comes after the
\* ingest of the vlans.
LEMMA CalmDecline ==
    ASSUME TypeInv, AnswerInv, ListInv, CalmInv, calm, NEW s \in Slots
    PROVE  ~RefuseEmpty(s) /\ ~Refuse(s)
<1>1. OwnTasks /\ Reported
  BY DEF CalmInv
<1>2. ASSUME RefuseEmpty(s) PROVE FALSE
  <2>1. queue # <<>> /\ Head(queue).job = "drives" /\ "drives" \notin Rows(Current)
    BY <1>2 DEF RefuseEmpty, Takes, Refuses
  <2> QED
    BY <1>1, <2>1, OnlyQueued, HeadOrder
<1>3. ASSUME Refuse(s) PROVE FALSE
  <2>1. queue # <<>> /\ Head(queue).job = "export" /\ ~GuardPasses
    BY <1>3 DEF Refuse, Takes
  <2>2. Head(todo) = "export" /\ todo # <<>> /\ Left("export") /\ \A j : Left(j) <=> InTodo(j)
    BY <1>1, <2>1, OnlyQueued
  <2>3. ~Left("vlans")
    BY <2>2, HeadOrder
  <2> QED
    BY <1>1, <2>1, <2>2, <2>3 DEF Reported, GuardPasses
<1> QED
  BY <1>2, <1>3

\* The task ends; what it leaves is for the runner to count.
LEMMA CalmEnd ==
    ASSUME TypeInv, AnswerInv, ListInv, CalmInv, calm, NEW s \in Slots, slots[s] # Idle,
           NEW status \in {"SUCCESS", "FAILURE"}, End(s, status),
           UNCHANGED <<artifact, calm>>, db' = db \/ slots[s].job = "nodes",
           \/ slots[s].job = "export" /\ slots[s].at = "finish"
           \/ slots[s].job # "export" /\ lastDone' = lastDone
           \/ slots[s].job # "export" /\ lastDone'.ingest > lastDone'.export,
           slots[s].job = "vlans" => lastDone'.ingest > lastDone'.export,
           status = "FAILURE" => ~Whole \/ ~good
    PROVE  CalmInv'
<1>1. OwnTasks /\ Reported
  BY DEF CalmInv
<1>2. /\ slots'[s] = Idle /\ UNCHANGED <<bundles, todo, good, queue>>
      /\ \A u \in Slots : u # s => slots'[u] = slots[u]
      /\ polled' = (IF slots[s].mine THEN status ELSE polled)
  BY DEF End, TypeInv, TypeOK
<1>3. /\ todo # <<>> /\ slots[s].job = Head(todo)
      /\ \A u \in Slots : u # s => slots[u] = Idle
      /\ \A j : Left(j) <=> InTodo(j)
  BY <1>1, OnlyTask
<1>4. slots[s].mine /\ Exact(slots[s])
  BY <1>1 DEF OwnTasks
<1>5. OwnTasks'
  BY <1>1, <1>2, <1>3 DEF OwnTasks
<1>6. polled' = status
  BY <1>2, <1>4
<1>7. \A j : Left(j)' <=> Left(j) /\ j # slots[s].job
  BY <1>2, <1>3, <1>6 DEF Left, InTodo
<1>8. Rows(Current)' = Rows(Current) /\ Current' = Current /\ (Whole' <=> Whole)
  BY <1>2 DEF Rows, Current, Whole
<1>9. ~Left("vlans")' /\ Left("export")' => (lastDone.ingest > lastDone.export)'
  <2> SUFFICES ASSUME ~Left("vlans")', Left("export")' PROVE lastDone'.ingest > lastDone'.export
    OBVIOUS
  <2>1. slots[s].job # "export" /\ Left("export")
    BY <1>7
  <2>2. CASE slots[s].job = "vlans"
    BY <2>2
  <2>3. CASE slots[s].job # "vlans" /\ lastDone' = lastDone
    BY <1>1, <1>7, <2>1, <2>3 DEF Reported
  <2> QED
    BY <2>1, <2>2, <2>3
<1>10. RunExport /\ ~Left("export")' /\ Current > 0 => Fresh'
  <2>1. CASE slots[s].job = "export"
    BY <1>4, <2>1 DEF Exact, Fresh
  <2>2. CASE slots[s].job # "export" /\ db' = db
    BY <1>1, <1>7, <2>2 DEF Reported, Fresh
  <2>3. CASE slots[s].job = "nodes"
    <3>1. "nodes" \in IngestJobs
      BY JobKinds
    <3>2. RunExport => Left("export")
      BY <1>3, <2>3, <3>1, HeadOrder
    <3> QED
      BY <1>7, <2>3, <3>2
  <2> QED
    BY <2>1, <2>2, <2>3
<1> HIDE DEF Left, Fresh, Whole
<1>11. ~good' \/ polled' = "FAILURE" => ~Whole'
  BY <1>1, <1>2, <1>6, <1>8 DEF Reported
<1>12. Reported'
  BY <1>8, <1>9, <1>10, <1>11 DEF Reported
<1> QED
  BY <1>5, <1>12 DEF CalmInv

\* An ingest writes when the export is still to come, or is the drives, which
\* are not published.
LEMMA CalmWrite ==
    ASSUME TypeInv, AnswerInv, ListInv, CalmInv, calm, NEW s \in Slots, Write(s)
    PROVE  CalmInv'
<1> DEFINE t == slots[s]
<1>1. OwnTasks /\ Reported
  BY DEF CalmInv
<1>2. t \in Tasks /\ t # Idle /\ t.at = "write" /\ t.job \in IngestJobs
  BY WritesFacts DEF Writes, Active
<1>3. /\ db' = [db EXCEPT ![t.job] = t.got]
      /\ UNCHANGED <<bundles, todo, good, polled, queue, lastDone, artifact, calm>>
      /\ slots' = [slots EXCEPT ![s].at = "finish"]
  BY WritesFacts DEF Writes, Write, Goto, runnerVars
<1>4. /\ slots'[s].job = t.job /\ slots'[s].mine = t.mine
      /\ \A u \in Slots : u # s => slots'[u] = slots[u]
  BY <1>2, <1>3 DEF TypeInv, TypeOK, Tasks
<1>5. /\ todo # <<>> /\ t.job = Head(todo) /\ polled = "STARTED"
      /\ \A u \in Slots : u # s => slots[u] = Idle
      /\ \A j : Left(j) <=> InTodo(j)
  BY <1>1, <1>2, OnlyTask
<1>6. OwnTasks'
  BY <1>1, <1>2, <1>3, <1>4, <1>5, JobKinds DEF OwnTasks, Exact
<1>7. \A j : Left(j)' <=> Left(j)
  BY <1>3 DEF Left, InTodo
<1>8. Current' = Current /\ (Whole' <=> Whole)
  BY <1>3 DEF Current, Rows, Whole
<1>9. RunExport /\ ~Left("export") /\ Current > 0 => Fresh'
  <2> SUFFICES ASSUME RunExport, ~Left("export"), Current > 0 PROVE Fresh'
    OBVIOUS
  <2>1. t.job = "drives"
    BY <1>2, <1>5, HeadOrder
  <2>2. \A p \in Published : p # "drives" /\ p \in IngestJobs
    BY DEF Published, IngestJobs, SliceJobs
  <2>3. \A p \in Published : db'[p] = db[p]
    BY <1>3, <2>1, <2>2 DEF TypeInv, TypeOK
  <2>4. Fresh
    BY <1>1 DEF Reported
  <2> QED
    BY <1>3, <2>3, <2>4 DEF Fresh
<1> HIDE DEF Left, Fresh, Whole
<1>10. Reported'
  BY <1>1, <1>3, <1>5, <1>7, <1>8, <1>9 DEF Reported
<1> QED
  BY <1>6, <1>10 DEF CalmInv

LEMMA CalmExport ==
    ASSUME TypeInv, AnswerInv, ListInv, CalmInv, calm, NEW s \in Slots, ReadPart(s) \/ Upload(s)
    PROVE  CalmInv'
<1>1. OwnTasks /\ Reported
  BY DEF CalmInv
<1>2. slots[s] # Idle /\ slots[s].job = "export" /\ slots[s].mine /\ Exact(slots[s]) /\ slots[s] \in Tasks
  BY <1>1 DEF ReadPart, Upload, Exporting, Active, OwnTasks, TypeInv, TypeOK
<1>3. /\ polled = "STARTED" /\ Left("export")
      /\ \A u \in Slots : u # s => slots[u] = Idle
  BY <1>1, <1>2, OnlyTask
<1>4. /\ UNCHANGED <<bundles, db, lastDone, todo, good, polled, queue, calm>>
      /\ \A u \in Slots : u # s => slots'[u] = slots[u]
  BY DEF ReadPart, Upload, Goto, dbVars, runnerVars, history, TypeInv, TypeOK
<1>5. slots'[s].mine /\ Exact(slots[s])'
  <2>1. CASE ReadPart(s)
    <3>1. PICK v \in Tasks :
            /\ slots' = [slots EXCEPT ![s] = v]
            /\ v.job = "export" /\ v.mine = slots[s].mine /\ v.got = slots[s].got + 1
            /\ v.at = (IF v.got = 4 THEN "upload" ELSE "read")
            /\ \A p \in Published : v.doc[p] = IF p \in Parts[v.got] THEN db[p] ELSE slots[s].doc[p]
      BY <2>1, Reads
    <3>2. slots[s].got \in 0 .. 3 /\ slots'[s] = v
      BY <2>1, <3>1, Reads DEF TypeInv, TypeOK
    <3>3. ASSUME NEW n \in 1 .. 4, n <= v.got, NEW p \in Published \cap Parts[n] PROVE v.doc[p] = db[p]
      <4>1. CASE p \in Parts[v.got]
        BY <3>1, <4>1
      <4>2. CASE p \notin Parts[v.got]
        <5>1. n <= slots[s].got
          BY <3>1, <3>2, <3>3, <4>2
        <5>2. slots[s].doc[p] = db[p]
          BY <1>2, <3>3, <5>1 DEF Exact
        <5> QED
          BY <3>1, <4>2, <5>2
      <4> QED
        BY <4>1, <4>2
    <3> QED
      <4>1. v.at # "finish" /\ v.mine /\ db' = db
        BY <1>2, <1>4, <3>1
      <4>2. Exact(v)'
        BY <3>3, <4>1 DEF Exact
      <4> QED
        BY <3>2, <4>1, <4>2
  <2>2. CASE Upload(s)
    <3>1. slots[s].got = 4 /\ artifact' = slots[s].doc
      BY <1>2, <2>2 DEF Upload, TypeInv, InSlots, Sane
    <3>2. /\ slots'[s].job = "export" /\ slots'[s].mine = slots[s].mine
          /\ slots'[s].got = 4 /\ slots'[s].doc = slots[s].doc
      BY <1>2, <2>2, <3>1 DEF Upload, Goto, TypeInv, TypeOK, Tasks
    <3>3. \A n \in 1 .. 4 : \A p \in Published \cap Parts[n] : slots[s].doc[p] = db[p]
      BY <1>2, <3>1 DEF Exact
    <3>4. Fresh'
      BY <1>4, <3>1, <3>3, PartsFacts DEF Fresh
    <3> QED
      BY <1>2, <1>4, <3>2, <3>3, <3>4 DEF Exact
  <2> QED
    BY <2>1, <2>2
<1>6. OwnTasks'
  BY <1>1, <1>3, <1>4, <1>5 DEF OwnTasks
<1>7. Left("export")' /\ (Left("vlans")' <=> Left("vlans"))
  BY <1>3, <1>4 DEF Left, InTodo
<1>8. Whole' <=> Whole
  BY <1>4 DEF Whole, Rows, Current
<1> HIDE DEF Left, Whole
<1>9. UNCHANGED <<lastDone, good, polled>>
  BY <1>4
<1>10. Reported'
  BY <1>1, <1>3, <1>7, <1>8, <1>9 DEF Reported
<1> QED
  BY <1>6, <1>10 DEF CalmInv

LEMMA CalmNext ==
    TypeInv /\ AnswerInv /\ ListInv /\ SeedInv /\ QuietInv /\ CalmInv /\ [Next]_vars => CalmInv'
<1> SUFFICES ASSUME TypeInv, AnswerInv, ListInv, SeedInv, QuietInv, CalmInv, [Next]_vars PROVE CalmInv'
  OBVIOUS
<1>1. CASE UNCHANGED vars \/ TurnOff
  <2>1. UNCHANGED <<bundles, dbVars, queue, slots, todo, good, polled, calm>>
    BY <1>1 DEF vars, TurnOff, runnerVars, history
  <2> QED
    BY <2>1 DEF CalmInv, OwnTasks, Reported, Exact, Fresh, Whole, Left, InTodo, Rows, Current, dbVars
<1>2. CASE Beat \/ RunFromUI
  BY <1>2 DEF Beat, RunFromUI, Foreign, CalmInv
<1>3. ASSUME NEW s \in Slots, Ingest(s) \/ Export(s) PROVE CalmInv'
  <2>0. CASE Skip(s) \/ CountDrives(s)
    BY <2>0 DEF Skip, CountDrives, CalmInv
  <2>1. calm' = calm \/ Skip(s) \/ CountDrives(s)
    BY <1>3 DEF Ingest, Writes, Load, RefuseEmpty, Write, NoneBound, Onboard, JobEnd, Begin, Decline,
         Export, Guard, Refuse, ReadPart, Upload, ExportEnd, history
  <2> SUFFICES ASSUME calm PROVE CalmInv'
    BY <2>0, <2>1 DEF CalmInv
  <2>2. CASE Load(s)
    <3>1. PICK j \in IngestJobs, at \in {"write", "finish"} : Takes(s, j) /\ Begin(s, at, Current)
      BY <2>2 DEF Load
    <3> QED
      BY <3>1, CalmBegin, JobKinds DEF Takes
  <2>3. CASE Onboard(s)
    BY <2>3, CalmBegin DEF Onboard, Takes
  <2>4. CASE Guard(s)
    BY <2>4, CalmBegin DEF Guard, Takes
  <2>5. CASE RefuseEmpty(s) \/ Refuse(s)
    BY <2>5, CalmDecline
  <2>6. CASE Write(s)
    BY <2>6, CalmWrite
  <2>7. CASE NoneBound(s)
    <3>1. /\ slots[s] # Idle /\ slots[s].job = "nodes" /\ End(s, "FAILURE")
          /\ UNCHANGED <<artifact, calm, lastDone>>
      BY <2>7 DEF NoneBound, Loaded, Active
    <3>2. ~Whole \/ ~good
      BY <2>7, NodesBound
    <3> QED
      BY <3>1, <3>2, CalmEnd
  <2>8. CASE JobEnd(s)
    <3>1. slots[s] # Idle /\ slots[s].job # "export" /\ End(s, "SUCCESS") /\ UNCHANGED <<db, artifact, calm>>
      BY <2>8 DEF JobEnd, Active, Exporting, history
    <3>2. slots[s].job \in IngestModules => lastDone'.ingest > lastDone'.export
      BY <2>8 DEF JobEnd, Stamp
    <3>3. slots[s].job \notin IngestModules => lastDone' = lastDone
      BY <2>8 DEF JobEnd
    <3>4. "vlans" \in IngestModules
      BY DEF IngestModules
    <3> QED
      BY <3>1, <3>2, <3>3, <3>4, CalmEnd
  <2>9. CASE ReadPart(s) \/ Upload(s)
    BY <2>9, CalmExport
  <2>10. CASE ExportEnd(s)
    BY <2>10, CalmEnd DEF ExportEnd, Exporting, Active, history
  <2> QED
    BY <1>3, <2>0, <2>2, <2>3, <2>4, <2>5, <2>6, <2>7, <2>8, <2>9, <2>10 DEF Ingest, Writes, Export
<1>4. ASSUME NEW s \in Slots, Fail(s) \/ Lose(s) PROVE CalmInv'
  BY <1>4 DEF Fail, Lose, CalmInv
<1> QED
  BY <1>1, <1>2, <1>3, <1>4, CalmRunner DEF Next, Runner, Outside

LEMMA CalmInit == Init => QuietInv /\ CalmInv
BY DEF Init, QuietInv, CalmInv, OwnTasks, Reported, Left, InTodo, Current

\* A converge that nothing disturbed succeeds, unless it has nodes without the
\* addresses to bind them to, and publishes what it has just ingested.
THEOREM Publishes == Spec => []ConvergePublishes
<1>1. TypeInv /\ ListInv /\ CalmInv => ConvergePublishes
  <2> SUFFICES ASSUME TypeInv, ListInv, CalmInv, runner = "done", calm
               PROVE  /\ Whole => good
                      /\ RunExport => Fresh
    BY DEF ConvergePublishes, Fresh, Whole
  <2>1. todo = <<>> /\ polled = "none" /\ Current > 0 /\ Reported
    BY RowsType DEF ListInv, CalmInv
  <2>2. ~Left("export")
    BY <2>1 DEF Left, InTodo
  <2> QED
    BY <2>1, <2>2 DEF Reported
<1> QED
  BY <1>1, TypeInit, TypeNext, AnswerNext, SeedInit, ListNext, SeedNext, QuietNext, CalmInit, CalmNext, PTL
  DEF Spec
=============================================================================
