-------------------------- MODULE NautobotHardware --------------------------
(***************************************************************************)
(* The two seed jobs that keep the physical inventory of Nautobot:         *)
(* "Seed Hardware Inventory" (ssot_hardware.py), which turns every row of   *)
(* the hardware tables into one Module per unit, in a bay of its chassis or *)
(* on a shelf, and "Sync Drive Inventory from Proxmox" (ssot_drives.py),    *)
(* which records the drives that the nodes report as discovered             *)
(* InventoryItems and deletes the ones they stopped reporting.              *)
(*                                                                          *)
(* A run writes object by object and can die between any two writes. The    *)
(* order of the rows, of the units of a row and of the elements of a diff   *)
(* is left open. Of the attributes of a Module its serial and its purchase  *)
(* are kept, which a row may leave blank and a person may record; the types *)
(* and statuses a run creates on its way are left out.                      *)
(***************************************************************************)
EXTENDS Naturals, FiniteSets

CONSTANTS
    Rows,       \* hw_id of the rows of the module table
    DriveRows,  \* the rows whose category is ssd, hdd or nvme
    Chassis,    \* names a row or a drive can give as its host
    Nodes,      \* the chassis that can report their drives
    Ids,        \* serials and WWNs
    NoId,       \* a serial or WWN that is not reported
    Reports,    \* what a node can say of a drive: its serial and its WWN
    MaxQty,     \* largest quantity of a row
    Fields,     \* what a row or a person can say of a unit
    Serials,    \* the fields that are written with the Module itself
    Values, Blank,
    MaxEdits    \* bound on changes made around the jobs

Shelf == "shelf"
Gone == "gone"

ASSUME HardwareAssumption ==
    /\ Shelf \notin Chassis
    /\ DriveRows \subseteq Rows
    /\ Nodes \subseteq Chassis
    /\ NoId \notin Ids
    /\ Serials \subseteq Fields /\ Blank \notin Values
    /\ Reports \subseteq [serial : Ids \cup {NoId}, wwn : Ids \cup {NoId}]
    /\ IsFiniteSet(Nodes) /\ IsFiniteSet(Reports)
    /\ MaxQty \in Nat \ {0}
    /\ MaxEdits \in Nat

VARIABLES
    tables,     \* the module rows on the controller
    gathered,   \* the drives slice: what the nodes reported
    devices,    \* the chassis that exist as Devices
    modules,    \* the Modules
    bays,       \* the ModuleBays of Devices
    items,      \* the InventoryItems named "Drive ..."
    pc,         \* what the running job does next
    seed,       \* the rows it loaded
    left,       \* rows it has not come to yet
    row,        \* row in hand
    seat,       \* the Device that row goes to, or Shelf
    stale,      \* bay names the row stops using
    units,      \* unit tags still to be placed
    unit,       \* unit in hand
    emptied,    \* bay of a Module just deleted
    source,     \* drives loaded into the source adapter
    creates,    \* creations of the diff still to be made
    deletes,    \* deletions of the diff still to be made
    status,     \* result of the last drive sync
    edits,
    hwSettled,  \* history: a complete hardware run saw the present state
    drSettled,  \* history: a successful drive sync saw the present state
    audited,    \* history: what a person recorded of a row's first unit and the
                \* row has not given since
    died        \* history: a run died

database == <<devices, modules, bays, items>>
tablesVars == <<tables, gathered, edits>>
jobVars == <<seed, left, row, seat, stale, units, unit, emptied>>
driveVars == <<source, creates, deletes, status>>
history == <<hwSettled, drSettled, audited, died>>
vars == <<tablesVars, database, pc, jobVars, driveVars, history>>

-----------------------------------------------------------------------------
Seats == Chassis \cup {Shelf}

\* Asset tags: hw_id is <<h, 0>>, hw_id#n is <<h, n>>, and any other text that
\* begins with hw_id is <<h, MaxQty + 1>>.
Lookalike == MaxQty + 1
Tags == Rows \X (0 .. Lookalike)

\* A module of the row: hw_id, or hw_id with a numeric suffix. The first form is
\* a mutant that asks for the prefix only.
OwnsByPrefix(h, t) == t[1] = h
Owns(h, t) == t[1] = h /\ t[2] # Lookalike

UnitTags(h, qty) == IF qty > 1 THEN {<<h, n>> : n \in 1 .. qty} ELSE {<<h, 0>>}

NoBay == <<>>
Bay == Chassis \X Tags
Record == [Fields -> Values \cup {Blank}]
Nothing == [f \in Fields |-> Blank]
Module == [tag : Tags, bay : Bay \cup {NoBay}, known : Record]
Row == [place : Seats \cup {Gone}, qty : 1 .. MaxQty, gives : Record]
NoRow == [place |-> Gone, qty |-> 1, gives |-> Nothing]
Item == [dev : Chassis, drive : Ids, discovered : BOOLEAN]
Settled == {"no", "running", "yes"}

In(m, c) == m.bay # NoBay /\ m.bay[1] = c
OwnedBy(h) == {m \in modules : Owns(h, m.tag)}
HasTag(t) == \E m \in modules : m.tag = t

\* A row goes to its chassis if that is a Device, and to its location otherwise.
\* Mutant of SeatOf: the Device is taken to exist.
AnySeat(place) == IF place \in Chassis THEN place ELSE Shelf
SeatOf(place) == IF place \in devices THEN place ELSE Shelf

\* Every unit has a bay of its own.
BayOf(c, t) == IF c = Shelf THEN NoBay ELSE <<c, t>>

\* Bays of these names, on any Device but `keep`, that hold none of the Modules.
OrphanBays(names, keep, mods) ==
    {b \in bays : b[2] \in names /\ b[1] # keep /\ \A m \in mods : m.bay # b}

\* SAS disks report the WWN as their serial; it is not taken for one.
Identity(r) == IF r.serial # NoId /\ r.serial # r.wwn THEN r.serial ELSE r.wwn

\* The drives of the slice that can be told apart and whose node is a Device.
Loaded ==
    {<<x[1], Identity(x[2])>> :
        x \in {y \in gathered : y[1] \in devices /\ Identity(y[2]) # NoId}}

Discovered == {i \in items : i.discovered}
AsItem(x) == [dev |-> x[1], drive |-> x[2], discovered |-> TRUE]
Reporting(c) == \E i \in Discovered : i.dev = c

\* A drive row in a chassis that reports its own drives gets no Module.
Withheld(h, c) == h \in DriveRows /\ c # Shelf /\ Reporting(c)

-----------------------------------------------------------------------------
TypeOK ==
    /\ tables \in [Rows -> Row]
    /\ gathered \subseteq Nodes \X Reports
    /\ devices \subseteq Chassis
    /\ modules \subseteq Module
    /\ bays \subseteq devices \X Tags
    /\ items \subseteq Item
    /\ \A i \in items : i.dev \in devices
    /\ pc \in {"idle", "rows", "withheld", "unbay", "rename", "surplus",
               "units", "upsert", "record", "sweep", "drives"}
    /\ seed \in [Rows -> Row]
    /\ left \subseteq Rows
    /\ row \in Rows
    /\ seat \in Seats
    /\ stale \subseteq Tags
    /\ units \subseteq Tags
    /\ unit \in Tags
    /\ emptied \in Bay \cup {NoBay}
    /\ source \subseteq Chassis \X Ids
    /\ creates \subseteq Chassis \X Ids
    /\ deletes \subseteq Chassis \X Ids
    /\ status \in {"none", "SUCCESS", "FAILURE"}
    /\ edits \in 0 .. MaxEdits
    /\ hwSettled \in Settled /\ drSettled \in Settled
    /\ audited \in [Rows -> Record]
    /\ died \in BOOLEAN

\* Any tables, no slice of drives yet, and a database that knows some of the
\* chassis and nothing else.
Init ==
    /\ tables \in [Rows -> Row]
    /\ gathered = {}
    /\ devices \in SUBSET Chassis
    /\ modules = {}
    /\ bays = {}
    /\ items = {}
    /\ pc = "idle"
    /\ seed = [h \in Rows |-> NoRow]
    /\ left = {}
    /\ row \in Rows
    /\ seat = Shelf
    /\ stale = {}
    /\ units = {}
    /\ unit = <<row, 0>>
    /\ emptied = NoBay
    /\ source = {}
    /\ creates = {}
    /\ deletes = {}
    /\ status = "none"
    /\ edits = 0
    /\ hwSettled = "no" /\ drSettled = "no"
    /\ audited = [h \in Rows |-> Nothing]
    /\ died = FALSE

\* What a run kept in memory is gone when it ends.
Forgotten ==
    /\ seed' = [h \in Rows |-> NoRow]
    /\ left' = {} /\ row' = row /\ seat' = Shelf /\ stale' = {}
    /\ units' = {} /\ unit' = <<row, 0>> /\ emptied' = NoBay

Running(settled) == IF settled = "yes" THEN "yes" ELSE "running"
Done(settled) == IF settled = "no" THEN "no" ELSE "yes"

-----------------------------------------------------------------------------
(* Seed Hardware Inventory: SeedHardware.run *)

\* The bundle is loaded once; without a hardware slice nothing is changed.
StartHardware ==
    /\ pc = "idle"
    /\ left' = {h \in Rows : tables[h].place # Gone}
    /\ pc' = IF left' = {} THEN "idle" ELSE "rows"
    /\ seed' = IF left' = {} THEN seed ELSE tables
    /\ hwSettled' = IF left' = {} THEN hwSettled ELSE Running(hwSettled)
    /\ UNCHANGED <<tablesVars, database, row, seat, stale, units, unit, emptied,
                   driveVars, drSettled, audited, died>>

\* Chassis and owned Modules of the row are looked up once. A row whose chassis
\* is no Device is filed at its location.
TakeRow(h) ==
    LET place == seed[h].place
        tags == UnitTags(h, seed[h].qty)
    IN  /\ pc = "rows" /\ h \in left
        /\ left' = left \ {h}
        /\ row' = h
        /\ seat' = SeatOf(place)
        /\ stale' = ({m.tag : m \in OwnedBy(h)} \cup {<<h, 0>>, <<h, 1>>}) \ tags
        /\ units' = tags
        /\ pc' = IF Withheld(h, seat') THEN "withheld" ELSE "rename"
        /\ UNCHANGED <<tablesVars, database, seed, unit, emptied, driveVars, history>>

\* Modules of a withheld row leave the bays of that chassis, then their bays go.
DeleteWithheld(m) ==
    /\ pc = "withheld" /\ m \in OwnedBy(row) /\ In(m, seat)
    /\ modules' = modules \ {m}
    /\ emptied' = m.bay
    /\ audited' = [audited EXCEPT ![row] = Nothing]
    /\ pc' = "unbay"
    /\ UNCHANGED <<tablesVars, devices, bays, items, seed, left, row, seat, stale,
                   units, unit, driveVars, hwSettled, drSettled, died>>

DeleteBay ==
    /\ pc = "unbay"
    /\ bays' = bays \ {emptied}
    /\ pc' = "withheld"
    /\ UNCHANGED <<tablesVars, devices, modules, items, jobVars, driveVars, history>>

\* Mutant of WithheldDone: the row is left out, its Modules stay.
WithheldKept ==
    /\ pc = "withheld"
    /\ pc' = "rows"
    /\ UNCHANGED <<tablesVars, database, jobVars, driveVars, history>>

WithheldDone ==
    /\ pc = "withheld"
    /\ \A m \in OwnedBy(row) : ~In(m, seat)
    /\ pc' = "rows"
    /\ UNCHANGED <<tablesVars, database, jobVars, driveVars, history>>

\* When the quantity crosses one, the first unit keeps its Module under the other
\* form of its tag. Mutant of Legacy: the Module is never found.
NoLegacy(h, qty) == {}
Legacy(h, qty) ==
    LET old == IF qty > 1 THEN <<h, 0>> ELSE <<h, 1>>
        kept == IF qty > 1 THEN <<h, 1>> ELSE <<h, 0>>
    IN  {m \in modules : m.tag = old /\ ~HasTag(kept)}

RenameLegacy ==
    /\ pc = "rename"
    /\ modules' = (modules \ Legacy(row, seed[row].qty))
                    \cup {[m EXCEPT !.tag = <<row, IF seed[row].qty > 1 THEN 1 ELSE 0>>] :
                             m \in Legacy(row, seed[row].qty)}
    /\ pc' = "surplus"
    /\ UNCHANGED <<tablesVars, devices, bays, items, jobVars, driveVars, history>>

DropSurplus(m) ==
    /\ pc = "surplus" /\ m \in OwnedBy(row) /\ m.tag \notin units
    /\ modules' = modules \ {m}
    /\ UNCHANGED <<tablesVars, devices, bays, items, pc, jobVars, driveVars, history>>

SurplusDone ==
    /\ pc = "surplus"
    /\ \A m \in OwnedBy(row) : m.tag \in units
    /\ pc' = "units"
    /\ UNCHANGED <<tablesVars, database, jobVars, driveVars, history>>

\* An installed unit gets a bay of its own, created when it is not there.
SeatUnit(t) ==
    /\ pc = "units" /\ t \in units
    /\ unit' = t
    /\ units' = units \ {t}
    /\ bays' = bays \cup ({BayOf(seat, t)} \ {NoBay})
    /\ pc' = "upsert"
    /\ UNCHANGED <<tablesVars, devices, modules, items, seed, left, row, seat, stale,
                   emptied, driveVars, history>>

\* What the row leaves blank is left as it is, anything else is the row's.
\* Mutant of Merged: the row's values replace the recorded ones.
Replaced(known, gives) == gives
Merged(known, gives) == [f \in Fields |-> IF gives[f] = Blank THEN known[f] ELSE gives[f]]
Among(gives, fields) == [f \in Fields |-> IF f \in fields THEN gives[f] ELSE Blank]
\* What a person recorded and the row now gives is the row's.
NotGiven(audit, gives) == [f \in Fields |-> IF gives[f] = Blank THEN audit[f] ELSE Blank]
TakenOver(gives) ==
    audited' = IF unit[2] \in {0, 1} THEN [audited EXCEPT ![row] = NotGiven(@, gives)] ELSE audited

\* Module.objects.update_or_create: the unit has a Module, with the serial.
UpsertUnit ==
    LET old == {m \in modules : m.tag = unit}
        known == IF old = {} THEN Nothing ELSE (CHOOSE m \in old : TRUE).known
        serial == Among(seed[row].gives, Serials)
    IN  /\ pc = "upsert"
        /\ modules' = (modules \ old)
                        \cup {[tag |-> unit, bay |-> BayOf(seat, unit), known |-> Merged(known, serial)]}
        /\ TakenOver(serial)
        /\ pc' = "record"
        /\ UNCHANGED <<tablesVars, devices, bays, items, jobVars, driveVars, hwSettled, drSettled, died>>

\* The purchase is saved after it. Only an installed unit has bays to be cleaned
\* up: a unit on the shelf leaves its last bay behind.
RecordPurchase ==
    LET purchase == Among(seed[row].gives, Fields \ Serials)
    IN  /\ pc = "record"
        /\ modules' = {IF m.tag = unit THEN [m EXCEPT !.known = Merged(@, purchase)] ELSE m : m \in modules}
        /\ TakenOver(purchase)
        /\ pc' = IF seat = Shelf THEN "units" ELSE "sweep"
        /\ UNCHANGED <<tablesVars, devices, bays, items, jobVars, driveVars, hwSettled, drSettled, died>>

\* Bays of the unit's name elsewhere are removed.
SweepUnit(b) ==
    /\ pc = "sweep" /\ b \in OrphanBays({unit}, seat, modules)
    /\ bays' = bays \ {b}
    /\ UNCHANGED <<tablesVars, devices, modules, items, pc, jobVars, driveVars, history>>

UnitDone ==
    /\ pc = "sweep" /\ OrphanBays({unit}, seat, modules) = {}
    /\ pc' = "units"
    /\ UNCHANGED <<tablesVars, database, jobVars, driveVars, history>>

\* And so are bays of the tags the row stopped using. Mutant of RowOrphans: they stay.
NoOrphans(names) == {}
RowOrphans(names) == OrphanBays(names, Shelf, modules)

SweepRow(b) ==
    /\ pc = "units" /\ units = {} /\ b \in RowOrphans(stale)
    /\ bays' = bays \ {b}
    /\ UNCHANGED <<tablesVars, devices, modules, items, pc, jobVars, driveVars, history>>

RowDone ==
    /\ pc = "units" /\ units = {} /\ RowOrphans(stale) = {}
    /\ pc' = "rows"
    /\ UNCHANGED <<tablesVars, database, jobVars, driveVars, history>>

FinishHardware ==
    /\ pc = "rows" /\ left = {}
    /\ pc' = "idle"
    /\ hwSettled' = Done(hwSettled)
    /\ Forgotten
    /\ UNCHANGED <<tablesVars, database, driveVars, drSettled, audited, died>>

-----------------------------------------------------------------------------
(* Sync Drive Inventory from Proxmox: SyncDrivesFromSeed *)

\* An empty slice is refused: this job deletes what it does not see.
RefuseDrives ==
    /\ pc = "idle" /\ gathered = {}
    /\ status' = "FAILURE"
    /\ UNCHANGED <<tablesVars, database, pc, jobVars, source, creates, deletes, history>>

\* Both sides are loaded, drives of unknown nodes left out, and compared.
StartDrives ==
    /\ pc = "idle" /\ gathered # {}
    /\ source' = Loaded
    /\ creates' = {x \in source' : AsItem(x) \notin items}
    /\ deletes' = {x \in Chassis \X Ids : AsItem(x) \in items} \ source'
    /\ status' = "none"
    /\ drSettled' = Running(drSettled)
    /\ pc' = "drives"
    /\ UNCHANGED <<tablesVars, database, jobVars, hwSettled, audited, died>>

\* A create fails when an item of that device and name is there already, or for
\* any other reason; nautobot_ssot logs that and goes on.
CreateDrive(x) ==
    /\ pc = "drives" /\ x \in creates
    /\ creates' = creates \ {x}
    /\ \/ /\ \A i \in items : <<i.dev, i.drive>> # x
          /\ items' = items \cup {AsItem(x)}
          /\ hwSettled' = "no"
       \/ UNCHANGED <<items, hwSettled>>
    /\ UNCHANGED <<tablesVars, devices, modules, bays, pc, jobVars, source, deletes,
                   status, drSettled, audited, died>>

DeleteDrive(x) ==
    /\ pc = "drives" /\ x \in deletes
    /\ deletes' = deletes \ {x}
    /\ items' = items \ {AsItem(x)}
    /\ hwSettled' = "no"
    /\ UNCHANGED <<tablesVars, devices, modules, bays, pc, jobVars, source, creates,
                   status, drSettled, audited, died>>

\* post_run counts what is there. Mutant of Counted: items of any origin.
CountedAny == Cardinality(items)
Counted == Cardinality(Discovered)

PostRun ==
    /\ pc = "drives" /\ creates = {} /\ deletes = {}
    /\ status' = IF Counted < Cardinality(source) THEN "FAILURE" ELSE "SUCCESS"
    /\ drSettled' = IF status' = "SUCCESS" THEN Done(drSettled) ELSE "no"
    /\ pc' = "idle"
    /\ UNCHANGED <<tablesVars, database, jobVars, source, creates, deletes,
                   hwSettled, audited, died>>

-----------------------------------------------------------------------------
(* Around the jobs *)

\* The worker is restarted, or a write raises.
Die ==
    /\ pc # "idle"
    /\ pc' = "idle"
    /\ hwSettled' = IF pc # "drives" /\ hwSettled = "running" THEN "no" ELSE hwSettled
    /\ drSettled' = IF pc = "drives" /\ drSettled = "running" THEN "no" ELSE drSettled
    /\ died' = TRUE
    /\ Forgotten
    /\ creates' = {} /\ deletes' = {}
    /\ UNCHANGED <<tablesVars, database, source, status, audited>>

Edit == edits < MaxEdits /\ edits' = edits + 1

\* Tables and slice are loaded once, when a run starts: a change made during the
\* run is one made after it.
EditTables ==
    /\ Edit
    /\ pc = "idle"
    /\ \E h \in Rows, r \in Row : tables' = [tables EXCEPT ![h] = r]
    /\ hwSettled' = "no"
    /\ UNCHANGED <<gathered, database, pc, jobVars, driveVars, drSettled, audited, died>>

Gather ==
    /\ Edit
    /\ pc = "idle"
    /\ gathered' \in SUBSET (Nodes \X Reports)
    /\ drSettled' = "no"
    /\ UNCHANGED <<tables, database, pc, jobVars, driveVars, hwSettled, audited, died>>

AddDevice(c) ==
    /\ Edit
    /\ c \notin devices
    /\ devices' = devices \cup {c}
    /\ hwSettled' = "no" /\ drSettled' = "no"
    /\ UNCHANGED <<tables, gathered, modules, bays, items, pc, jobVars, driveVars, audited, died>>

\* A person records something of a row's first unit, between two runs. The row may
\* say otherwise: then the next run has something to change.
First(h) == {m \in OwnedBy(h) : m.tag[2] = IF HasTag(<<h, 1>>) THEN 1 ELSE 0}
Audit(h, f, v) ==
    /\ Edit
    /\ pc = "idle" /\ First(h) # {}
    /\ modules' = (modules \ First(h))
                    \cup {[m EXCEPT !.known[f] = v] : m \in First(h)}
    /\ audited' = [audited EXCEPT ![h][f] = v]
    /\ hwSettled' = IF tables[h].gives[f] \in {Blank, v} THEN hwSettled ELSE "no"
    /\ UNCHANGED <<tables, gathered, devices, bays, items, pc, jobVars, driveVars, drSettled, died>>

\* A person adds a Module whose tag only looks like a row's, in a bay or not.
AddModule(h, b) ==
    /\ Edit
    /\ pc = "idle" /\ ~HasTag(<<h, Lookalike>>)
    /\ b # NoBay => b[1] \in devices /\ b[2] = <<h, Lookalike>>
    /\ modules' = modules \cup {[tag |-> <<h, Lookalike>>, bay |-> b, known |-> Nothing]}
    /\ bays' = IF b = NoBay THEN bays ELSE bays \cup {b}
    /\ UNCHANGED <<tables, gathered, devices, items, pc, jobVars, driveVars, history>>

\* A person enters a drive by hand; it is not marked as discovered.
AddItem(c, d) ==
    /\ Edit
    /\ pc = "idle" /\ c \in devices
    /\ \A i \in items : <<i.dev, i.drive>> # <<c, d>>
    /\ items' = items \cup {[dev |-> c, drive |-> d, discovered |-> FALSE]}
    /\ drSettled' = "no"
    /\ UNCHANGED <<tables, gathered, devices, modules, bays, pc, jobVars, driveVars,
                   hwSettled, audited, died>>

Hardware ==
    \/ StartHardware
    \/ \E h \in Rows : TakeRow(h)
    \/ \E m \in modules : DeleteWithheld(m)
    \/ DeleteBay
    \/ WithheldDone
    \/ RenameLegacy
    \/ \E m \in modules : DropSurplus(m)
    \/ SurplusDone
    \/ \E t \in units : SeatUnit(t)
    \/ UpsertUnit
    \/ RecordPurchase
    \/ \E b \in bays : SweepUnit(b)
    \/ UnitDone
    \/ \E b \in bays : SweepRow(b)
    \/ RowDone
    \/ FinishHardware

DriveSync ==
    \/ RefuseDrives
    \/ StartDrives
    \/ \E x \in creates : CreateDrive(x)
    \/ \E x \in deletes : DeleteDrive(x)
    \/ PostRun

People ==
    \/ EditTables
    \/ Gather
    \/ \E c \in Chassis : AddDevice(c)
    \/ \E h \in Rows, f \in Fields, v \in Values : Audit(h, f, v)
    \/ \E h \in Rows, b \in Bay \cup {NoBay} : AddModule(h, b)
    \/ \E c \in Chassis, d \in Ids : AddItem(c, d)

Next == Hardware \/ DriveSync \/ Die \/ People

Spec == Init /\ [][Next]_vars

-----------------------------------------------------------------------------
(* Properties *)

Seat(h) == SeatOf(tables[h].place)
Listed(h) == tables[h].place # Gone
Placed(h) == Listed(h) /\ ~Withheld(h, Seat(h))

\* Whatever the tables said before, whichever runs died and whatever people did,
\* a complete hardware run leaves one Module per unit of every row that is not
\* withheld, each in a bay of its own in the row's chassis, or on the shelf.
\* Units that moved to another chassis, were renumbered or dropped leave no empty
\* bay behind, as long as no run died half way (a surplus Module deleted by a run
\* that died is not known to the next one, so its bay stays).
UnitsMatchTables ==
    hwSettled = "yes" =>
        \A h \in Rows : Placed(h) =>
            /\ {m.tag : m \in OwnedBy(h)} = UnitTags(h, tables[h].qty)
            /\ \A m \in OwnedBy(h) : m.bay = BayOf(Seat(h), m.tag)
            /\ ~died /\ Seat(h) # Shelf =>
                 \A b \in bays : Owns(h, b[2]) => \E m \in OwnedBy(h) : m.bay = b

\* A drive is recorded in one place: a chassis that reports its drives holds no
\* Module of a drive row the tables place there.
OneHome ==
    hwSettled = "yes" =>
        \A h \in DriveRows : Listed(h) /\ Seat(h) # Shelf /\ Reporting(Seat(h)) =>
            \A m \in OwnedBy(h) : ~In(m, Seat(h))

\* The database's unique constraints are never run into: asset tags are unique and
\* a bay holds one Module.
NeverCollides ==
    \A m1, m2 \in modules :
        m1 # m2 => m1.tag # m2.tag /\ (m1.bay # NoBay => m1.bay # m2.bay)

\* What a person recorded of a row's first unit outlives blank cells, changes of
\* the quantity (the unit's tag changes, the unit stays), moves and runs that died:
\* only a value that the row itself gives takes its place.
Agrees(says, known) == \A f \in Fields : says[f] \in {Blank, known[f]}
AuditSurvives ==
    \A h \in Rows : audited[h] # Nothing => \E m \in First(h) : Agrees(audited[h], m.known)

\* After a drive sync that reports success the discovered items are exactly the
\* drives it loaded, none lost and none that left, although nautobot_ssot calls a
\* run with failed creations a success and post_run only compares two counts.
DriveSuccessIsComplete ==
    status = "SUCCESS" => Discovered = {AsItem(x) : x \in source}

\* Neither job removes or changes what people made: a Module whose tag only looks
\* like a row's, its bay, and an item that is not discovered.
HandMade ==
    << {m \in modules : m.tag[2] = Lookalike}, {b \in bays : b[2][2] = Lookalike},
       items \ Discovered >>
HandMadeKept == [][Hardware \/ DriveSync => UNCHANGED HandMade]_vars

\* Once both jobs have seen the present tables and drives, running them again
\* changes nothing.
RerunChangesNothing ==
    [][hwSettled = "yes" /\ drSettled = "yes" /\ (Hardware \/ DriveSync)
         => UNCHANGED database]_vars
=============================================================================
