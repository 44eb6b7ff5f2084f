----------------------- MODULE NautobotHardwareProofs -----------------------
(***************************************************************************)
(* Theorems about NautobotHardware, for every set of rows, chassis and      *)
(* drives, every quantity and any number of changes around the jobs.        *)
(***************************************************************************)
EXTENDS NautobotHardware, FiniteSetTheorems, FunctionTheorems, TLAPS

-----------------------------------------------------------------------------
(* Type correctness *)

Pcs == {"idle", "rows", "withheld", "unbay", "rename", "surplus", "units", "upsert", "record", "sweep",
        "drives"}
NoSeed == [h \in Rows |-> NoRow]
InUnit == {"upsert", "record", "sweep"}

\* What the controller and the Nautobot database hold.
DataOK ==
    /\ tables \in [Rows -> Row]
    /\ gathered \subseteq Nodes \X Reports
    /\ devices \subseteq Chassis
    /\ modules \subseteq Module
    /\ bays \subseteq devices \X Tags
    /\ items \subseteq Item
    /\ \A i \in items : i.dev \in devices
\* A bay is named after the Module in it; between the renaming of a unit and its
\* next write it may still have the other name of the first unit.
NamedBy(m) ==
    m.bay # NoBay =>
        \/ m.bay[2] = m.tag
        \/ {m.bay[2], m.tag} \subseteq {<<m.tag[1], 0>>, <<m.tag[1], 1>>}
NamesOK == \A m \in modules : NamedBy(m)
\* What the running job keeps. A seat that is a chassis is a Device, and the tags
\* in hand are the row's own ones.
Own(h) == {t \in Tags : Owns(h, t)}
JobOK ==
    /\ pc \in Pcs
    /\ seed \in [Rows -> Row]
    /\ left \subseteq Rows /\ row \in Rows
    /\ seat \in devices \cup {Shelf}
    /\ stale \subseteq Own(row)
    /\ pc \in {"idle", "drives"} => units = {}
    /\ units \subseteq UnitTags(row, seed[row].qty)
    /\ unit \in Tags /\ (pc \in InUnit => unit \in UnitTags(row, seed[row].qty))
    /\ pc = "sweep" => seat # Shelf
    /\ emptied \in Bay \cup {NoBay}
    /\ pc = "unbay" => emptied # NoBay /\ emptied[2] \in Own(row)
DriveOK ==
    /\ source \subseteq devices \X Ids /\ creates \subseteq devices \X Ids
    /\ deletes \subseteq Chassis \X Ids
    /\ status \in {"none", "SUCCESS", "FAILURE"}
HistoryOK ==
    /\ edits \in 0 .. MaxEdits
    /\ hwSettled \in Settled /\ drSettled \in Settled
    /\ audited \in [Rows -> Record]
    /\ died \in BOOLEAN

TypeInv == DataOK /\ NamesOK /\ JobOK /\ DriveOK /\ HistoryOK

LEMMA NoSeedType == NoSeed \in [Rows -> Row]
<1>1. Nothing \in Record
  BY DEF Nothing, Record
<1> QED
  BY <1>1, HardwareAssumption DEF NoSeed, NoRow, Row

\* What becomes of the values of a unit when a row gives some.
LEMMA Merging ==
    ASSUME NEW known \in Record, NEW gives \in Record, NEW says \in Record
    PROVE  /\ Merged(known, gives) \in Record /\ NotGiven(says, gives) \in Record
           /\ Agrees(gives, Merged(known, gives))
           /\ Agrees(says, known) => Agrees(NotGiven(says, gives), Merged(known, gives))
           /\ Agrees(gives, known) => Merged(known, gives) = known
           /\ says = Nothing => NotGiven(says, gives) = Nothing
<1>1. Merged(known, gives) \in Record /\ NotGiven(says, gives) \in Record
  BY DEF Merged, NotGiven, Record
<1>2. Agrees(gives, Merged(known, gives))
  BY DEF Merged, Agrees
<1>3. ASSUME Agrees(says, known) PROVE Agrees(NotGiven(says, gives), Merged(known, gives))
  BY <1>3 DEF Merged, NotGiven, Agrees
<1>4. ASSUME Agrees(gives, known) PROVE Merged(known, gives) = known
  <2>1. \A f \in Fields : Merged(known, gives)[f] = known[f]
    BY <1>4 DEF Merged, Agrees
  <2>2. Merged(known, gives) = [f \in Fields |-> Merged(known, gives)[f]] /\ known = [f \in Fields |-> known[f]]
    BY DEF Merged, Record
  <2> QED
    BY <2>1, <2>2
<1>5. ASSUME says = Nothing PROVE NotGiven(says, gives) = Nothing
  BY <1>5 DEF NotGiven, Nothing
<1> QED
  BY <1>1, <1>2, <1>3, <1>4, <1>5

\* A row's values are given in two parts, one with the Module and one after it.
LEMMA Parting ==
    ASSUME NEW gives \in Record, NEW known \in Record
    PROVE  /\ \A fields : Among(gives, fields) \in Record
           /\ \A fields : Agrees(gives, known) => Agrees(Among(gives, fields), known)
           /\ Agrees(Among(gives, Serials), known) =>
                Agrees(gives, Merged(known, Among(gives, Fields \ Serials)))
<1>1. ASSUME NEW fields
      PROVE  Among(gives, fields) \in Record /\ (Agrees(gives, known) => Agrees(Among(gives, fields), known))
  <2>1. Among(gives, fields) \in Record
    BY DEF Among, Record
  <2>2. ASSUME Agrees(gives, known) PROVE Agrees(Among(gives, fields), known)
    BY <2>2 DEF Among, Agrees
  <2> QED
    BY <2>1, <2>2
<1>2. ASSUME Agrees(Among(gives, Serials), known)
      PROVE  Agrees(gives, Merged(known, Among(gives, Fields \ Serials)))
  BY <1>2 DEF Among, Agrees, Merged
<1> QED
  BY <1>1, <1>2

LEMMA TagTypes ==
    ASSUME NEW h \in Rows
    PROVE  /\ \A n \in 0 .. MaxQty : <<h, n>> \in Tags /\ Owns(h, <<h, n>>)
           /\ <<h, Lookalike>> \in Tags
           /\ \A qty \in 1 .. MaxQty : UnitTags(h, qty) \subseteq Own(h)
           /\ {<<h, 0>>, <<h, 1>>} \subseteq Own(h) /\ <<h, Lookalike>> \notin Own(h)
<1>1. MaxQty \in Nat /\ MaxQty >= 1
  BY HardwareAssumption
<1>2. ASSUME NEW n \in 0 .. MaxQty PROVE <<h, n>> \in Tags /\ Owns(h, <<h, n>>)
  <2>1. n \in 0 .. Lookalike /\ n # Lookalike
    BY <1>1 DEF Lookalike
  <2> QED
    BY <2>1 DEF Tags, Owns
<1>3. <<h, Lookalike>> \in Tags
  <2>1. Lookalike \in 0 .. Lookalike
    BY <1>1 DEF Lookalike
  <2> QED
    BY <2>1 DEF Tags
<1>4. ASSUME NEW qty \in 1 .. MaxQty PROVE UnitTags(h, qty) \subseteq Own(h)
  <2>1. 1 .. qty \subseteq 0 .. MaxQty /\ 0 \in 0 .. MaxQty
    BY <1>1
  <2> QED
    BY <1>2, <2>1 DEF UnitTags, Own
<1>5. {<<h, 0>>, <<h, 1>>} \subseteq Own(h) /\ <<h, Lookalike>> \notin Own(h)
  <2>1. 0 \in 0 .. MaxQty /\ 1 \in 0 .. MaxQty
    BY <1>1
  <2> QED
    BY <1>2, <2>1 DEF Own, Owns
<1> QED
  BY <1>2, <1>3, <1>4, <1>5

LEMMA InvIsTyped == TypeInv => TypeOK
<1> SUFFICES ASSUME TypeInv PROVE TypeOK
  OBVIOUS
<1>1. seat \in Seats /\ pc \in Pcs
  BY DEF TypeInv, DataOK, JobOK, Seats
<1>2. source \subseteq Chassis \X Ids /\ creates \subseteq Chassis \X Ids
  BY DEF TypeInv, DataOK, DriveOK
<1>3. stale \subseteq Tags /\ units \subseteq Tags
  <2>1. seed[row].qty \in 1 .. MaxQty /\ row \in Rows
    BY DEF TypeInv, JobOK, Row
  <2>2. UnitTags(row, seed[row].qty) \subseteq Own(row)
    BY <2>1, TagTypes
  <2> QED
    BY <2>2 DEF TypeInv, JobOK, Own
<1> QED
  BY <1>1, <1>2, <1>3 DEF TypeInv, DataOK, JobOK, DriveOK, HistoryOK, TypeOK, Pcs

LEMMA BayTypes ==
    ASSUME NEW c \in Chassis \cup {Shelf}, NEW t \in Tags
    PROVE  BayOf(c, t) \in Bay \cup {NoBay}
BY DEF BayOf, Bay

\* A bay and a Module are what their fields say.
LEMMA ModuleFields ==
    ASSUME NEW m \in Module
    PROVE  m.tag \in Tags /\ m.bay \in Bay \cup {NoBay} /\ m.known \in Record
BY DEF Module

\* What a person changes: one value of a Module, and of what is remembered of it.
Noted(m, f, v) == [m EXCEPT !.known[f] = v]
LEMMA Noting ==
    ASSUME NEW m \in Module, NEW f \in Fields, NEW v \in Values
    PROVE  /\ Noted(m, f, v) \in Module /\ Noted(m, f, v).tag = m.tag /\ Noted(m, f, v).bay = m.bay
           /\ Noted(m, f, v).known = [m.known EXCEPT ![f] = v]
<1> DEFINE k == [m.known EXCEPT ![f] = v]
<1>1. k \in Record
  BY ModuleFields DEF Record
<1>2. Noted(m, f, v) = [m EXCEPT !.known = k]
  BY DEF Noted
<1> HIDE DEF k
<1>3. Noted(m, f, v) \in Module /\ Noted(m, f, v).tag = m.tag /\ Noted(m, f, v).bay = m.bay /\ Noted(m, f, v).known = k
  BY <1>1, <1>2 DEF Module
<1> QED
  BY <1>3 DEF k

LEMMA Auditing ==
    ASSUME NEW h \in Rows, NEW f \in Fields, NEW v \in Values, Audit(h, f, v)
    PROVE  /\ modules' = (modules \ First(h)) \cup {Noted(m, f, v) : m \in First(h)} /\ First(h) \subseteq modules
           /\ First(h) # {} /\ pc = "idle" /\ pc' = "idle"
BY DEF Audit, Noted, First, OwnedBy

LEMMA SeatTypes ==
    ASSUME DataOK, NEW r \in Row
    PROVE  SeatOf(r.place) \in devices \cup {Shelf}
BY DEF SeatOf

LEMMA LoadedTypes ==
    ASSUME DataOK
    PROVE  Loaded \subseteq devices \X Ids
<1>1. ASSUME NEW x \in gathered, x[1] \in devices, Identity(x[2]) # NoId
      PROVE  <<x[1], Identity(x[2])>> \in devices \X Ids
  <2>1. x[2] \in [serial : Ids \cup {NoId}, wwn : Ids \cup {NoId}]
    BY <1>1, HardwareAssumption DEF DataOK
  <2> QED
    BY <1>1, <2>1 DEF Identity
<1> QED
  BY <1>1 DEF Loaded

LEMMA TypeInit == Init => TypeInv
<1> SUFFICES ASSUME Init PROVE TypeInv
  OBVIOUS
<1>1. DataOK
  BY DEF Init, DataOK
<1>2. NamesOK
  BY DEF Init, NamesOK
<1>3. JobOK
  <2>1. seed \in [Rows -> Row]
    BY NoSeedType DEF Init, NoSeed
  <2>2. unit \in Tags
    <3>1. 0 \in 0 .. MaxQty
      BY HardwareAssumption
    <3> QED
      BY <3>1, TagTypes DEF Init
  <2> QED
    BY <2>1, <2>2 DEF Init, JobOK, Pcs, InUnit
<1>4. DriveOK
  BY DEF Init, DriveOK
<1>5. HistoryOK
  <2>1. edits \in 0 .. MaxEdits
    BY HardwareAssumption DEF Init
  <2>2. audited \in [Rows -> Record]
    BY DEF Init, Nothing, Record
  <2> QED
    BY <2>1, <2>2 DEF Init, HistoryOK, Settled
<1> QED
  BY <1>1, <1>2, <1>3, <1>4, <1>5 DEF TypeInv

-----------------------------------------------------------------------------
\* What the steps of the hardware job do to the Modules and the bays.

LEMMA RowQty ==
    ASSUME JobOK
    PROVE  /\ row \in Rows /\ seed[row].qty \in 1 .. MaxQty /\ seed[row].gives \in Record
           /\ UnitTags(row, seed[row].qty) \subseteq Own(row)
<1>1. row \in Rows /\ seed[row].qty \in 1 .. MaxQty /\ seed[row].gives \in Record
  BY DEF JobOK, Row
<1> QED
  BY <1>1, TagTypes

\* A renamed unit: the other form of the first unit's tag, everything else as before.
Kept(h, qty) == <<h, IF qty > 1 THEN 1 ELSE 0>>
LEMMA Renaming ==
    ASSUME DataOK, NamesOK, NEW h \in Rows, NEW qty \in 1 .. MaxQty, NEW m \in Legacy(h, qty)
    PROVE  LET r == [m EXCEPT !.tag = Kept(h, qty)] IN
           /\ m \in modules /\ m.tag \in Own(h) /\ ~HasTag(Kept(h, qty))
           /\ m.tag = <<h, IF qty > 1 THEN 0 ELSE 1>>
           /\ r \in Module /\ r.tag = Kept(h, qty) /\ r.tag \in Own(h) /\ r.bay = m.bay /\ NamedBy(r)
<1> DEFINE r == [m EXCEPT !.tag = Kept(h, qty)]
<1>1. m \in modules /\ m \in Module /\ m.tag = (<<h, IF qty > 1 THEN 0 ELSE 1>>) /\ ~HasTag(Kept(h, qty))
  BY DEF Legacy, Kept, DataOK
<1>2. Kept(h, qty) \in {<<h, 0>>, <<h, 1>>} /\ m.tag \in {<<h, 0>>, <<h, 1>>}
  BY <1>1 DEF Kept
<1>3. Kept(h, qty) \in Own(h) /\ m.tag \in Own(h)
  BY <1>2, TagTypes
<1>4. r \in Module /\ r.tag = Kept(h, qty) /\ r.bay = m.bay
  BY <1>1, <1>3 DEF Module, Own
<1>5. NamedBy(r)
  <2>1. m.tag[1] = h /\ r.tag[1] = h
    BY <1>2, <1>4
  <2>2. NamedBy(m)
    BY <1>1 DEF NamesOK
  <2> HIDE DEF r
  <2> QED
    BY <1>2, <1>4, <2>1, <2>2 DEF NamedBy
<1> QED
  BY <1>1, <1>3, <1>4, <1>5

\* The Module that is written for a unit: in its bay, with the serial, and with
\* what was known of it; and what its purchase makes of it.
Known(t) == LET old == {m \in modules : m.tag = t} IN IF old = {} THEN Nothing ELSE (CHOOSE m \in old : TRUE).known
Serial == Among(seed[row].gives, Serials)
Purchase == Among(seed[row].gives, Fields \ Serials)
Written == [tag |-> unit, bay |-> BayOf(seat, unit), known |-> Merged(Known(unit), Serial)]
Purchased(m) == IF m.tag = unit THEN [m EXCEPT !.known = Merged(@, Purchase)] ELSE m

LEMMA KnownType ==
    ASSUME DataOK, NEW t
    PROVE  Known(t) \in Record
<1> DEFINE old == {m \in modules : m.tag = t}
<1>1. CASE old = {}
  BY <1>1 DEF Known, Nothing, Record
<1>2. CASE old # {}
  <2> DEFINE c == CHOOSE m \in old : TRUE
  <2>1. c \in old
    BY <1>2
  <2>2. Known(t) = c.known
    BY <1>2 DEF Known
  <2> HIDE DEF c
  <2> QED
    BY <2>1, <2>2, ModuleFields DEF DataOK
<1> QED
  BY <1>1, <1>2

LEMMA Giving ==
    ASSUME JobOK
    PROVE  Serial \in Record /\ Purchase \in Record
BY RowQty, Parting DEF Serial, Purchase

LEMMA Writing ==
    ASSUME DataOK, JobOK
    PROVE  /\ Written \in Module /\ Written.tag = unit /\ Written.bay = BayOf(seat, unit) /\ NamedBy(Written)
           /\ Written.known = Merged(Known(unit), Serial)
<1>1. unit \in Tags /\ BayOf(seat, unit) \in Bay \cup {NoBay}
  BY BayTypes DEF DataOK, JobOK
<1>2. Merged(Known(unit), Serial) \in Record
  BY KnownType, Giving, Merging
<1>3. /\ Written \in Module /\ Written.tag = unit /\ Written.bay = BayOf(seat, unit)
      /\ Written.known = Merged(Known(unit), Serial)
  BY <1>1, <1>2 DEF Written, Module
<1>4. Written.bay # NoBay => Written.bay[2] = Written.tag
  BY <1>3 DEF BayOf
<1> QED
  BY <1>3, <1>4 DEF NamedBy

LEMMA Upserting ==
    ASSUME UpsertUnit
    PROVE  modules' = {m \in modules : m.tag # unit} \cup {Written} /\ bays' = bays
BY DEF UpsertUnit, Written, Known, Serial

LEMMA Purchasing ==
    ASSUME DataOK, JobOK, RecordPurchase
    PROVE  /\ modules' = {Purchased(m) : m \in modules} /\ bays' = bays
           /\ \A m \in modules : /\ Purchased(m) \in Module /\ Purchased(m).tag = m.tag /\ Purchased(m).bay = m.bay
                                 /\ m.tag # unit => Purchased(m) = m
                                 /\ m.tag = unit => Purchased(m).known = Merged(m.known, Purchase)
<1>1. modules' = {Purchased(m) : m \in modules} /\ bays' = bays
  BY DEF RecordPurchase, Purchased, Purchase
<1>2. ASSUME NEW m \in modules
      PROVE  /\ Purchased(m) \in Module /\ Purchased(m).tag = m.tag /\ Purchased(m).bay = m.bay
             /\ m.tag # unit => Purchased(m) = m
             /\ m.tag = unit => Purchased(m).known = Merged(m.known, Purchase)
  <2> DEFINE k == Merged(m.known, Purchase)
  <2>1. m \in Module /\ k \in Record
    BY Giving, Merging, ModuleFields DEF DataOK
  <2>2. Purchased(m) = IF m.tag = unit THEN [m EXCEPT !.known = k] ELSE m
    BY DEF Purchased
  <2> HIDE DEF k
  <2>3. /\ Purchased(m) \in Module /\ Purchased(m).tag = m.tag /\ Purchased(m).bay = m.bay
        /\ m.tag # unit => Purchased(m) = m
        /\ m.tag = unit => Purchased(m).known = k
    BY <2>1, <2>2 DEF Module
  <2> QED
    BY <2>3 DEF k
<1> QED
  BY <1>1, <1>2

\* What the two writes of a unit leave as it is: every other Module.
LEMMA WritingOne ==
    ASSUME DataOK, JobOK, UpsertUnit \/ RecordPurchase
    PROVE  /\ \A m \in (modules \ modules') \cup (modules' \ modules) : m.tag = unit
           /\ \A m \in modules' : m.tag # unit => m \in modules
           /\ bays' = bays
<1>1. CASE UpsertUnit
  BY <1>1, Upserting, Writing
<1>2. CASE RecordPurchase
  <2>1. /\ modules' = {Purchased(m) : m \in modules} /\ bays' = bays
        /\ \A m \in modules : Purchased(m).tag = m.tag /\ (m.tag # unit => Purchased(m) = m)
    BY <1>2, Purchasing
  <2> QED
    BY <2>1
<1> QED
  BY <1>1, <1>2

LEMMA NamesNext == TypeInv /\ [Next]_vars => NamesOK' /\ modules' \subseteq Module
<1> SUFFICES ASSUME TypeInv, [Next]_vars PROVE NamesOK' /\ modules' \subseteq Module
  OBVIOUS
<1>0. DataOK /\ NamesOK /\ JobOK /\ modules \subseteq Module
  BY DEF TypeInv, DataOK
<1>1. CASE modules' \subseteq modules
  BY <1>0, <1>1 DEF NamesOK, NamedBy
<1>2. CASE StartHardware \/ (\E h \in Rows : TakeRow(h)) \/ (\E m \in modules : DeleteWithheld(m) \/ DropSurplus(m))
           \/ DeleteBay \/ WithheldDone \/ SurplusDone \/ (\E t \in units : SeatUnit(t))
           \/ (\E b \in bays : SweepUnit(b) \/ SweepRow(b)) \/ UnitDone \/ RowDone \/ FinishHardware \/ DriveSync \/ Die \/ EditTables \/ Gather \/ (\E c \in Chassis : AddDevice(c))
           \/ (\E c \in Chassis, d \in Ids : AddItem(c, d)) \/ UNCHANGED vars
  <2>1. modules' \subseteq modules
    BY <1>2 DEF StartHardware, TakeRow, DeleteWithheld, DropSurplus, DeleteBay, WithheldDone, SurplusDone, SeatUnit,
       SweepUnit, UnitDone, SweepRow, RowDone, FinishHardware, DriveSync, RefuseDrives, StartDrives, CreateDrive, DeleteDrive, PostRun, Die,
       EditTables, Gather, AddDevice, AddItem, database, vars
  <2> QED
    BY <1>1, <2>1
<1>3. CASE RenameLegacy
  <2> DEFINE qty == seed[row].qty
  <2>1. ASSUME NEW m \in modules', m \notin modules PROVE m \in Module /\ NamedBy(m)
    <3>1. PICK old \in Legacy(row, qty) : m = [old EXCEPT !.tag = Kept(row, qty)]
      BY <1>3, <2>1 DEF RenameLegacy, Kept
    <3> QED
      BY <1>0, <3>1, RowQty, Renaming
  <2> QED
    BY <1>0, <2>1 DEF NamesOK, NamedBy
<1>4. CASE UpsertUnit
  BY <1>0, <1>4, Upserting, Writing DEF NamesOK, NamedBy
<1>7. CASE RecordPurchase
  <2>1. ASSUME NEW m \in modules' PROVE m \in Module /\ NamedBy(m)
    <3>1. PICK old \in modules : m = Purchased(old)
      BY <1>0, <1>7, Purchasing
    <3>2. m \in Module /\ m.tag = old.tag /\ m.bay = old.bay
      BY <1>0, <1>7, <3>1, Purchasing
    <3> QED
      BY <1>0, <3>2 DEF NamesOK, NamedBy
  <2> QED
    BY <2>1 DEF NamesOK, NamedBy
<1>5. ASSUME NEW h \in Rows, NEW f \in Fields, NEW v \in Values, Audit(h, f, v) PROVE NamesOK' /\ modules' \subseteq Module
  <2>1. ASSUME NEW m \in modules', m \notin modules PROVE m \in Module /\ NamedBy(m)
    <3>1. PICK old \in modules : m = Noted(old, f, v)
      BY <1>5, <2>1, Auditing
    <3>2. m \in Module /\ m.tag = old.tag /\ m.bay = old.bay
      BY <1>0, <3>1, Noting
    <3> QED
      BY <1>0, <3>2 DEF NamesOK, NamedBy
  <2> QED
    BY <1>0, <2>1 DEF NamesOK, NamedBy
<1>6. ASSUME NEW h \in Rows, NEW b \in Bay \cup {NoBay}, AddModule(h, b) PROVE NamesOK' /\ modules' \subseteq Module
  <2> DEFINE new == [tag |-> <<h, Lookalike>>, bay |-> b, known |-> Nothing]
  <2>1. modules' = modules \cup {new} /\ (b # NoBay => b[2] = <<h, Lookalike>>)
    BY <1>6 DEF AddModule
  <2>2. new \in Module /\ NamedBy(new)
    <3>1. Nothing \in Record
      BY DEF Nothing, Record
    <3> QED
      BY <2>1, <3>1, TagTypes DEF Module, NamedBy
  <2> HIDE DEF new
  <2> QED
    BY <1>0, <2>1, <2>2 DEF NamesOK, NamedBy
<1> QED
  BY <1>2, <1>3, <1>4, <1>5, <1>6, <1>7 DEF Next, Hardware, People

LEMMA DataNext == TypeInv /\ [Next]_vars => DataOK'
<1> SUFFICES ASSUME TypeInv, [Next]_vars PROVE DataOK'
  OBVIOUS
<1>0. DataOK /\ JobOK /\ DriveOK
  BY DEF TypeInv
<1>a. modules' \subseteq Module
  BY NamesNext
<1>1. CASE UNCHANGED <<tables, gathered, devices, items>> /\ bays' \subseteq bays
  BY <1>0, <1>1, <1>a DEF DataOK
<1>2. CASE StartHardware \/ (\E h \in Rows : TakeRow(h)) \/ (\E m \in modules : DeleteWithheld(m) \/ DropSurplus(m))
           \/ DeleteBay \/ WithheldDone \/ RenameLegacy \/ SurplusDone \/ UpsertUnit \/ RecordPurchase
           \/ (\E b \in bays : SweepUnit(b) \/ SweepRow(b)) \/ UnitDone \/ RowDone
           \/ FinishHardware \/ Die \/ RefuseDrives \/ StartDrives \/ PostRun
           \/ (\E h \in Rows, f \in Fields, v \in Values : Audit(h, f, v)) \/ UNCHANGED vars
  <2>1. UNCHANGED <<tables, gathered, devices, items>>
    BY <1>2 DEF StartHardware, TakeRow, DeleteWithheld, DropSurplus, DeleteBay, WithheldDone, RenameLegacy,
       SurplusDone, UpsertUnit, RecordPurchase, SweepUnit, UnitDone, SweepRow, RowDone, FinishHardware, Die, RefuseDrives, StartDrives, PostRun, Audit, tablesVars,
       database, vars
  <2>2. bays' \subseteq bays
    BY <1>2 DEF StartHardware, TakeRow, DeleteWithheld, DropSurplus, DeleteBay, WithheldDone, RenameLegacy,
       SurplusDone, UpsertUnit, RecordPurchase, SweepUnit, UnitDone, SweepRow, RowDone, FinishHardware, Die, RefuseDrives, StartDrives, PostRun, Audit, tablesVars,
       database, vars
  <2> QED
    BY <1>1, <2>1, <2>2
<1>3. ASSUME NEW t \in units, SeatUnit(t) PROVE DataOK'
  <2>1. bays' = bays \cup ({BayOf(seat, t)} \ {NoBay}) /\ UNCHANGED <<tables, gathered, devices, items>>
    BY <1>3 DEF SeatUnit, tablesVars
  <2>2. t \in Tags /\ seat \in devices \cup {Shelf}
    BY <1>0, RowQty DEF JobOK, Own
  <2>3. {BayOf(seat, t)} \ {NoBay} \subseteq devices \X Tags
    BY <2>2 DEF BayOf
  <2> QED
    BY <1>0, <1>a, <2>1, <2>3 DEF DataOK
<1>4. ASSUME NEW x \in creates, CreateDrive(x) PROVE DataOK'
  <2>1. AsItem(x) \in Item /\ AsItem(x).dev \in devices
    BY <1>0 DEF DriveOK, DataOK, AsItem, Item
  <2>2. items' \subseteq items \cup {AsItem(x)} /\ UNCHANGED <<tables, gathered, devices, bays>>
    BY <1>4 DEF CreateDrive, tablesVars
  <2> QED
    BY <1>0, <1>a, <2>1, <2>2 DEF DataOK
<1>5. ASSUME NEW x \in deletes, DeleteDrive(x) PROVE DataOK'
  BY <1>0, <1>5, <1>a DEF DeleteDrive, tablesVars, DataOK
<1>6. CASE EditTables
  <2>1. tables' \in [Rows -> Row] /\ UNCHANGED <<gathered, devices, bays, items>>
    BY <1>0, <1>6 DEF EditTables, database, DataOK
  <2> QED
    BY <1>0, <1>a, <2>1 DEF DataOK
<1>7. CASE Gather
  BY <1>0, <1>7, <1>a DEF Gather, database, DataOK
<1>8. ASSUME NEW c \in Chassis, AddDevice(c) PROVE DataOK'
  BY <1>0, <1>8, <1>a DEF AddDevice, DataOK
<1>9. ASSUME NEW h \in Rows, NEW b \in Bay \cup {NoBay}, AddModule(h, b) PROVE DataOK'
  <2>1. bays' \in {bays, bays \cup {b}} /\ (b # NoBay => b[1] \in devices) /\ (b = NoBay => bays' = bays)
    BY <1>9 DEF AddModule
  <2>2. bays' \subseteq devices \X Tags
    BY <1>0, <2>1 DEF DataOK, Bay
  <2> QED
    BY <1>0, <1>9, <1>a, <2>2 DEF AddModule, DataOK
<1>10. ASSUME NEW c \in Chassis, NEW d \in Ids, AddItem(c, d) PROVE DataOK'
  <2> DEFINE new == [dev |-> c, drive |-> d, discovered |-> FALSE]
  <2>1. new \in Item /\ new.dev = c
    BY DEF Item
  <2>2. items' = items \cup {new} /\ c \in devices /\ UNCHANGED <<tables, gathered, devices, bays>>
    BY <1>10 DEF AddItem
  <2> HIDE DEF new
  <2> QED
    BY <1>0, <1>a, <2>1, <2>2 DEF DataOK
<1> QED
  BY <1>2, <1>3, <1>4, <1>5, <1>6, <1>7, <1>8, <1>9, <1>10 DEF Next, Hardware, DriveSync, People

LEMMA JobNext == TypeInv /\ [Next]_vars => JobOK'
<1> SUFFICES ASSUME TypeInv, [Next]_vars PROVE JobOK'
  OBVIOUS
<1>0. JobOK /\ DataOK /\ NamesOK
  BY DEF TypeInv
<1>1. CASE /\ devices \subseteq devices' /\ UNCHANGED jobVars /\ pc' \in Pcs
           /\ (pc' \in {"idle", "drives"} => units = {}) /\ (pc' \in InUnit => pc \in InUnit) /\ pc' # "unbay"
           /\ (pc' = "sweep" => seat # Shelf)
  BY <1>0, <1>1 DEF JobOK, jobVars
<1>2. CASE StartHardware
  <2>1. /\ devices' = devices /\ pc = "idle" /\ pc' \in {"idle", "rows"} /\ left' \subseteq Rows
        /\ seed' \in {seed, tables} /\ UNCHANGED <<row, seat, stale, units, unit, emptied>>
    BY <1>2 DEF StartHardware, database
  <2> QED
    BY <1>0, <2>1 DEF JobOK, DataOK, Pcs, InUnit
<1>3. ASSUME NEW h \in Rows, TakeRow(h) PROVE JobOK'
  <2>1. seed[h] \in Row /\ seed[h].qty \in 1 .. MaxQty
    BY <1>0 DEF JobOK, Row
  <2>2. /\ row' = h /\ seat' = SeatOf(seed[h].place) /\ units' = UnitTags(h, seed[h].qty)
        /\ stale' \subseteq {m.tag : m \in OwnedBy(h)} \cup {<<h, 0>>, <<h, 1>>}
        /\ pc' \in {"withheld", "rename"} /\ left' \subseteq left
        /\ UNCHANGED <<devices, seed, unit, emptied>>
    BY <1>3 DEF TakeRow, database
  <2>3. stale' \subseteq Own(h)
    <3>1. \A m \in OwnedBy(h) : m.tag \in Own(h)
      BY <1>0, ModuleFields DEF OwnedBy, Own, DataOK
    <3>2. {<<h, 0>>, <<h, 1>>} \subseteq Own(h)
      BY TagTypes
    <3> QED
      BY <2>2, <3>1, <3>2
  <2>4. seat' \in devices \cup {Shelf}
    BY <1>0, <2>1, <2>2, SeatTypes
  <2> QED
    BY <1>0, <2>2, <2>3, <2>4 DEF JobOK, Pcs, InUnit
<1>4. ASSUME NEW m \in modules, DeleteWithheld(m) PROVE JobOK'
  <2>1. m \in OwnedBy(row) /\ m.bay # NoBay /\ m \in Module /\ NamedBy(m)
    BY <1>0, <1>4 DEF DeleteWithheld, In, DataOK, NamesOK
  <2>2. m.bay \in Bay /\ m.tag \in Own(row)
    BY <2>1, ModuleFields DEF OwnedBy, Own
  <2>3. m.tag[1] = row
    BY <2>2 DEF Own, Owns
  <2>4. m.bay[2] \in Own(row)
    BY <1>0, <2>1, <2>2, <2>3, TagTypes DEF NamedBy, JobOK
  <2> QED
    BY <1>0, <1>4, <2>1, <2>2, <2>4 DEF DeleteWithheld, JobOK, Pcs, InUnit
<1>5. ASSUME NEW t \in units, SeatUnit(t) PROVE JobOK'
  <2>1. t \in Tags
    BY <1>0, RowQty DEF JobOK, Own
  <2> QED
    BY <1>0, <1>5, <2>1 DEF SeatUnit, JobOK, Pcs, InUnit
<1>6. CASE DeleteBay \/ WithheldDone \/ RenameLegacy \/ (\E m \in modules : DropSurplus(m)) \/ SurplusDone \/ UpsertUnit
           \/ RecordPurchase \/ (\E b \in bays : SweepUnit(b) \/ SweepRow(b)) \/ UnitDone \/ RowDone
  <2>1. /\ UNCHANGED <<devices, jobVars>> /\ pc' \in {"withheld", "rows", "surplus", "units", "record", "sweep"}
        /\ pc' \in InUnit => pc \in InUnit
    BY <1>6 DEF DeleteBay, WithheldDone, RenameLegacy, DropSurplus, SurplusDone, UpsertUnit, RecordPurchase, SweepUnit, UnitDone,
       SweepRow, RowDone, database, InUnit
  <2>2. pc' = "sweep" => seat # Shelf
    <3>1. CASE RecordPurchase
      BY <3>1 DEF RecordPurchase
    <3>2. CASE pc' = pc
      BY <1>0, <3>2 DEF JobOK
    <3>3. CASE DeleteBay \/ WithheldDone \/ RenameLegacy \/ SurplusDone \/ UpsertUnit \/ UnitDone \/ RowDone
      BY <3>3 DEF DeleteBay, WithheldDone, RenameLegacy, SurplusDone, UpsertUnit, UnitDone, RowDone
    <3>4. (\E m \in modules : DropSurplus(m)) \/ (\E b \in bays : SweepUnit(b) \/ SweepRow(b)) => pc' = pc
      BY DEF DropSurplus, SweepUnit, SweepRow
    <3> QED
      BY <1>6, <3>1, <3>2, <3>3, <3>4
  <2> QED
    BY <1>1, <2>1, <2>2 DEF Pcs
<1>7. CASE FinishHardware \/ Die
  <2>1. /\ devices' = devices /\ pc' = "idle" /\ seed' = NoSeed /\ left' = {} /\ row' = row /\ seat' = Shelf
        /\ stale' = {} /\ units' = {} /\ unit' = <<row, 0>> /\ emptied' = NoBay
    BY <1>7 DEF FinishHardware, Die, Forgotten, NoSeed, database
  <2>2. <<row, 0>> \in Tags
    BY <1>0, TagTypes DEF JobOK, Own
  <2> QED
    BY <1>0, <2>1, <2>2, NoSeedType DEF JobOK, Pcs, InUnit
<1>8. CASE DriveSync
  <2>1. UNCHANGED <<devices, jobVars>> /\ pc \in {"idle", "drives"} /\ pc' \in {"idle", "drives"}
    BY <1>8 DEF DriveSync, RefuseDrives, StartDrives, CreateDrive, DeleteDrive, PostRun, database
  <2> QED
    BY <1>0, <1>1, <2>1 DEF JobOK, Pcs, InUnit
<1>9. CASE People
  <2>1. devices \subseteq devices' /\ UNCHANGED jobVars /\ pc' = pc
    BY <1>9 DEF People, EditTables, Gather, AddDevice, Audit, AddModule, AddItem, database
  <2> QED
    BY <1>0, <2>1 DEF JobOK, jobVars
<1>10. CASE UNCHANGED vars
  BY <1>0, <1>10 DEF vars, database, jobVars, JobOK
<1> QED
  BY <1>2, <1>3, <1>4, <1>5, <1>6, <1>7, <1>8, <1>9, <1>10 DEF Next, Hardware

LEMMA DriveNext == TypeInv /\ [Next]_vars => DriveOK'
<1> SUFFICES ASSUME TypeInv, [Next]_vars PROVE DriveOK'
  OBVIOUS
<1>0. DriveOK /\ DataOK
  BY DEF TypeInv
<1>1. CASE /\ devices \subseteq devices' /\ source' = source /\ creates' \subseteq creates /\ deletes' \subseteq deletes
           /\ status' \in {status, "SUCCESS", "FAILURE"}
  BY <1>0, <1>1 DEF DriveOK
<1>2. CASE Hardware \/ Die \/ RefuseDrives \/ (\E x \in creates : CreateDrive(x)) \/ (\E x \in deletes : DeleteDrive(x))
           \/ PostRun \/ People \/ UNCHANGED vars
  <2>1. devices \subseteq devices' /\ source' = source
    BY <1>2 DEF Hardware, StartHardware, TakeRow, DeleteWithheld, DeleteBay, WithheldDone, RenameLegacy, DropSurplus,
       SurplusDone, SeatUnit, UpsertUnit, RecordPurchase, SweepUnit, UnitDone, SweepRow, RowDone, FinishHardware, Die, RefuseDrives, CreateDrive, DeleteDrive,
       PostRun, People, EditTables, Gather, AddDevice, Audit, AddModule, AddItem, database, driveVars, vars
  <2>2. creates' \subseteq creates /\ deletes' \subseteq deletes /\ status' \in {status, "SUCCESS", "FAILURE"}
    BY <1>2 DEF Hardware, StartHardware, TakeRow, DeleteWithheld, DeleteBay, WithheldDone, RenameLegacy, DropSurplus,
       SurplusDone, SeatUnit, UpsertUnit, RecordPurchase, SweepUnit, UnitDone, SweepRow, RowDone, FinishHardware, Die, RefuseDrives, CreateDrive, DeleteDrive,
       PostRun, People, EditTables, Gather, AddDevice, Audit, AddModule, AddItem, database, driveVars, vars
  <2> QED
    BY <1>1, <2>1, <2>2
<1>3. CASE StartDrives
  <2>1. /\ devices' = devices /\ source' = Loaded /\ creates' \subseteq source' /\ deletes' \subseteq Chassis \X Ids
        /\ status' = "none"
    BY <1>3 DEF StartDrives, database
  <2> QED
    BY <1>0, <2>1, LoadedTypes DEF DriveOK
<1> QED
  BY <1>2, <1>3 DEF Next, DriveSync

LEMMA HistoryNext == TypeInv /\ [Next]_vars => HistoryOK'
<1> SUFFICES ASSUME TypeInv, [Next]_vars PROVE HistoryOK'
  OBVIOUS
<1>0. HistoryOK /\ row \in Rows
  BY DEF TypeInv, JobOK
<1>a. {Running(hwSettled), Done(hwSettled), Running(drSettled), Done(drSettled)} \subseteq Settled
  BY <1>0 DEF HistoryOK, Running, Done, Settled
<1>1. CASE edits' = edits /\ UNCHANGED history
  BY <1>0, <1>1 DEF history, HistoryOK
<1>2. CASE (\E h \in Rows : TakeRow(h)) \/ DeleteBay \/ WithheldDone \/ RenameLegacy \/ (\E m \in modules : DropSurplus(m))
           \/ SurplusDone \/ (\E t \in units : SeatUnit(t))
           \/ (\E b \in bays : SweepUnit(b) \/ SweepRow(b)) \/ UnitDone \/ RowDone \/ RefuseDrives \/ UNCHANGED vars
  BY <1>1, <1>2 DEF TakeRow, DeleteBay, WithheldDone, RenameLegacy, DropSurplus, SurplusDone, SeatUnit,
     SweepUnit, UnitDone, SweepRow, RowDone, RefuseDrives, tablesVars, vars
<1>3. ASSUME NEW m \in modules, DeleteWithheld(m) PROVE HistoryOK'
  <2>1. Nothing \in Record
    BY DEF Nothing, Record
  <2> QED
    BY <1>0, <1>3, <2>1 DEF DeleteWithheld, tablesVars, HistoryOK
<1>6. ASSUME NEW gives \in Record, TakenOver(gives), UNCHANGED <<edits, hwSettled, drSettled, died>> PROVE HistoryOK'
  <2>1. NotGiven(audited[row], gives) \in Record
    BY <1>0, Merging DEF HistoryOK
  <2>2. audited' = audited \/ audited' = [audited EXCEPT ![row] = NotGiven(audited[row], gives)]
    BY <1>6 DEF TakenOver
  <2> QED
    BY <1>0, <1>6, <2>1, <2>2 DEF HistoryOK
<1>7. CASE UpsertUnit \/ RecordPurchase
  <2>1. UNCHANGED <<edits, hwSettled, drSettled, died>> /\ (TakenOver(Serial) \/ TakenOver(Purchase))
    BY <1>7 DEF UpsertUnit, RecordPurchase, Serial, Purchase, tablesVars
  <2>2. JobOK
    BY DEF TypeInv
  <2> QED
    BY <1>6, <2>1, <2>2, Giving
<1>4. CASE StartHardware \/ FinishHardware \/ StartDrives \/ (\E x \in creates : CreateDrive(x))
           \/ (\E x \in deletes : DeleteDrive(x)) \/ PostRun \/ Die
  <2>1. edits' = edits /\ audited' = audited /\ died' \in {died, TRUE}
    BY <1>4 DEF StartHardware, FinishHardware, StartDrives, CreateDrive, DeleteDrive, PostRun, Die, tablesVars
  <2>2. hwSettled' \in {hwSettled, Running(hwSettled), Done(hwSettled), "no"}
    BY <1>4 DEF StartHardware, FinishHardware, StartDrives, CreateDrive, DeleteDrive, PostRun, Die
  <2>3. drSettled' \in {drSettled, Running(drSettled), Done(drSettled), "no"}
    BY <1>4 DEF StartHardware, FinishHardware, StartDrives, CreateDrive, DeleteDrive, PostRun, Die
  <2> QED
    BY <1>0, <1>a, <2>1, <2>2, <2>3 DEF HistoryOK, Settled
<1>5. CASE People
  <2>1. Edit /\ hwSettled' \in {hwSettled, "no"} /\ drSettled' \in {drSettled, "no"} /\ died' = died
    BY <1>5 DEF People, EditTables, Gather, AddDevice, Audit, AddModule, AddItem, history
  <2>2. edits' \in 0 .. MaxEdits
    BY <1>0, <2>1, HardwareAssumption DEF Edit, HistoryOK
  <2>3. audited' \in [Rows -> Record]
    <3>1. CASE audited' = audited
      BY <1>0, <3>1 DEF HistoryOK
    <3>2. ASSUME NEW h \in Rows, NEW f \in Fields, NEW v \in Values, Audit(h, f, v)
          PROVE  audited' \in [Rows -> Record]
      <4> DEFINE k == [audited[h] EXCEPT ![f] = v]
      <4>1. k \in Record
        BY <1>0 DEF HistoryOK, Record
      <4>2. audited' = [audited EXCEPT ![h] = k]
        BY <3>2 DEF Audit
      <4> HIDE DEF k
      <4> QED
        BY <1>0, <4>1, <4>2 DEF HistoryOK
    <3> QED
      BY <1>5, <3>1, <3>2 DEF People, EditTables, Gather, AddDevice, AddModule, AddItem, history
  <2> QED
    BY <1>0, <2>1, <2>2, <2>3 DEF HistoryOK, Settled
<1> QED
  BY <1>2, <1>3, <1>4, <1>5, <1>7 DEF Next, Hardware, DriveSync

LEMMA TypeNext == TypeInv /\ [Next]_vars => TypeInv'
BY NamesNext, DataNext, JobNext, DriveNext, HistoryNext DEF TypeInv

\* The inventory and the job keep their types: every bay and every item belongs to
\* a Device, and what the job has in hand are tags of the row it is at.
THEOREM TypeCorrect == Spec => []TypeOK
BY TypeInit, TypeNext, InvIsTyped, PTL DEF Spec

-----------------------------------------------------------------------------
(* What people made *)

LEMMA HandMadeStep ==
    ASSUME TypeInv, Hardware \/ DriveSync
    PROVE  UNCHANGED HandMade
<1>0. DataOK /\ JobOK /\ NamesOK /\ row \in Rows
  BY DEF TypeInv, JobOK
<1>a. \A t \in Own(row) : t[2] # Lookalike
  BY DEF Own, Owns
<1>1. ASSUME \A m \in (modules \ modules') \cup (modules' \ modules) : m.tag[2] # Lookalike,
             \A b \in (bays \ bays') \cup (bays' \ bays) : b[2][2] # Lookalike,
             \A i \in (items \ items') \cup (items' \ items) : i.discovered
      PROVE  UNCHANGED HandMade
  BY <1>1 DEF HandMade, Discovered
<1>2. CASE UNCHANGED database
  BY <1>2 DEF database, HandMade, Discovered
<1>3. CASE StartHardware \/ (\E h \in Rows : TakeRow(h)) \/ WithheldDone \/ SurplusDone \/ FinishHardware
           \/ UnitDone \/ RowDone \/ RefuseDrives \/ StartDrives \/ PostRun
  BY <1>2, <1>3 DEF StartHardware, TakeRow, WithheldDone, SurplusDone, UnitDone, RowDone, FinishHardware, RefuseDrives, StartDrives, PostRun
<1>4. ASSUME NEW m \in modules, DeleteWithheld(m) \/ DropSurplus(m) PROVE UNCHANGED HandMade
  <2>1. m.tag[2] # Lookalike /\ modules' = modules \ {m} /\ UNCHANGED <<bays, items>>
    BY <1>4 DEF DeleteWithheld, DropSurplus, OwnedBy, Owns
  <2> QED
    BY <1>1, <2>1
<1>5. CASE DeleteBay
  <2>1. bays' = bays \ {emptied} /\ emptied[2][2] # Lookalike /\ UNCHANGED <<modules, items>>
    BY <1>0, <1>5, <1>a DEF DeleteBay, JobOK
  <2> QED
    BY <1>1, <2>1
<1>6. CASE RenameLegacy
  <2> DEFINE qty == seed[row].qty
  <2>1. \A m \in modules \ modules' : m.tag \in Own(row)
    BY <1>0, <1>6, RowQty, Renaming DEF RenameLegacy
  <2>2. \A m \in modules' \ modules : m.tag \in Own(row)
    <3>1. ASSUME NEW m \in modules' \ modules PROVE \E old \in Legacy(row, qty) : m = [old EXCEPT !.tag = Kept(row, qty)]
      BY <1>6 DEF RenameLegacy, Kept
    <3> QED
      BY <1>0, <3>1, RowQty, Renaming
  <2>3. UNCHANGED <<bays, items>>
    BY <1>6 DEF RenameLegacy
  <2> QED
    BY <1>1, <1>a, <2>1, <2>2, <2>3
<1>7. ASSUME NEW t \in units, SeatUnit(t) PROVE UNCHANGED HandMade
  <2>1. t \in Own(row)
    BY <1>0, RowQty DEF JobOK
  <2>2. bays' = bays \cup ({BayOf(seat, t)} \ {NoBay}) /\ UNCHANGED <<modules, items>>
    BY <1>7 DEF SeatUnit
  <2>3. BayOf(seat, t) # NoBay => BayOf(seat, t)[2] = t
    BY DEF BayOf
  <2> QED
    BY <1>1, <1>a, <2>1, <2>2, <2>3
<1>8. CASE UpsertUnit \/ RecordPurchase
  <2>1. unit \in Own(row)
    BY <1>0, <1>8, RowQty DEF UpsertUnit, RecordPurchase, JobOK, InUnit
  <2>2. items' = items
    BY <1>8 DEF UpsertUnit, RecordPurchase
  <2>3. bays' = bays /\ \A m \in (modules \ modules') \cup (modules' \ modules) : m.tag = unit
    BY <1>0, <1>8, WritingOne
  <2> QED
    BY <1>1, <1>a, <2>1, <2>2, <2>3
<1>9. ASSUME NEW b \in bays, SweepUnit(b) \/ SweepRow(b) PROVE UNCHANGED HandMade
  <2>1. bays' = bays \ {b} /\ UNCHANGED <<modules, items>>
    BY <1>9 DEF SweepUnit, SweepRow
  <2>2. b[2] \in Own(row)
    BY <1>0, <1>9, RowQty DEF SweepUnit, SweepRow, RowOrphans, OrphanBays, JobOK, InUnit
  <2> QED
    BY <1>1, <1>a, <2>1, <2>2
<1>10. ASSUME NEW x, CreateDrive(x) \/ DeleteDrive(x) PROVE UNCHANGED HandMade
  <2>1. items' \in {items, items \cup {AsItem(x)}, items \ {AsItem(x)}} /\ UNCHANGED <<modules, bays>>
    BY <1>10 DEF CreateDrive, DeleteDrive
  <2>2. AsItem(x).discovered = TRUE
    BY DEF AsItem
  <2> QED
    BY <1>1, <2>1, <2>2
<1> QED
  BY <1>3, <1>4, <1>5, <1>6, <1>7, <1>8, <1>9, <1>10 DEF Hardware, DriveSync

\* Neither job removes or changes what people made: a Module whose asset tag only
\* begins like a row's (ssot_hardware.py matches the numeric suffix), its bay, or
\* an item without the discovered flag, whichever run died before.
THEOREM PeoplesWorkKept == Spec => HandMadeKept
<1>1. TypeInv /\ [Next]_vars => [Hardware \/ DriveSync => UNCHANGED HandMade]_vars
  BY HandMadeStep
<1> QED
  BY <1>1, TypeInit, TypeNext, PTL DEF Spec, HandMadeKept

-----------------------------------------------------------------------------
(* Tags and bays are unique *)

\* While the units of a row are written, the row has no other Modules, also none
\* whose bay still has the name of the unit that is written; and a unit that was
\* written has its Module in the bay it is to have.
UniqueInv ==
    /\ NeverCollides
    /\ pc \in {"record", "sweep"} => \E m \in modules : m.tag = unit /\ m.bay = BayOf(seat, unit)
    /\ pc \in {"units"} \cup InUnit => \A m \in OwnedBy(row) : m.tag \in UnitTags(row, seed[row].qty)

LEMMA UnitNames ==
    ASSUME NEW h \in Rows, NEW qty \in 1 .. MaxQty,
           NEW t \in UnitTags(h, qty), NEW u \in UnitTags(h, qty),
           {t, u} \subseteq {<<h, 0>>, <<h, 1>>}
    PROVE  t = u
<1>1. CASE qty > 1
  BY <1>1 DEF UnitTags
<1>2. CASE ~(qty > 1)
  BY <1>2 DEF UnitTags
<1> QED
  BY <1>1, <1>2

LEMMA UniqueNext == TypeInv /\ UniqueInv /\ [Next]_vars => UniqueInv'
<1> SUFFICES ASSUME TypeInv, UniqueInv, [Next]_vars PROVE UniqueInv'
  OBVIOUS
<1>0. DataOK /\ JobOK /\ NamesOK /\ row \in Rows
  BY DEF TypeInv, JobOK
<1>1. CASE /\ modules' \subseteq modules
           /\ pc' \in {"units"} \cup InUnit => pc \in {"units"} \cup InUnit /\ UNCHANGED <<row, seed>>
           /\ pc' \in {"record", "sweep"} => pc \in {"record", "sweep"} /\ UNCHANGED <<modules, unit, seat>>
  BY <1>1 DEF UniqueInv, NeverCollides, OwnedBy, BayOf
<1>2. CASE StartHardware \/ (\E h \in Rows : TakeRow(h)) \/ (\E m \in modules : DeleteWithheld(m) \/ DropSurplus(m))
           \/ DeleteBay \/ WithheldDone \/ (\E t \in units : SeatUnit(t))
           \/ (\E b \in bays : SweepUnit(b) \/ SweepRow(b)) \/ UnitDone \/ RowDone
           \/ FinishHardware \/ DriveSync \/ Die \/ EditTables \/ Gather \/ (\E c \in Chassis : AddDevice(c))
           \/ (\E c \in Chassis, d \in Ids : AddItem(c, d)) \/ UNCHANGED vars
  <2>1. modules' \subseteq modules
    BY <1>2 DEF StartHardware, TakeRow, DeleteWithheld, DropSurplus, DeleteBay, WithheldDone, SeatUnit,
       SweepUnit, UnitDone, SweepRow, RowDone, FinishHardware, DriveSync, RefuseDrives, StartDrives, CreateDrive, DeleteDrive, PostRun, Die,
       EditTables, Gather, AddDevice, AddItem, database, vars
  <2>2. /\ pc' \in {"units"} \cup InUnit => pc \in {"units"} \cup InUnit /\ UNCHANGED <<row, seed>>
        /\ pc' \in {"record", "sweep"} => pc \in {"record", "sweep"} /\ UNCHANGED <<modules, unit, seat>>
    BY <1>2 DEF StartHardware, TakeRow, DeleteWithheld, DropSurplus, DeleteBay, WithheldDone, SeatUnit,
       SweepUnit, UnitDone, SweepRow, RowDone, FinishHardware, DriveSync, RefuseDrives, StartDrives, CreateDrive, DeleteDrive, PostRun, Die,
       EditTables, Gather, AddDevice, AddItem, jobVars, database, vars, InUnit
  <2> QED
    BY <1>1, <2>1, <2>2
<1>3. CASE SurplusDone
  <2>1. /\ UNCHANGED <<modules, row, seed>> /\ \A m \in OwnedBy(row) : m.tag \in UnitTags(row, seed[row].qty)
        /\ pc' = "units"
    BY <1>0, <1>3 DEF SurplusDone, database, jobVars, JobOK
  <2> QED
    BY <2>1 DEF UniqueInv, NeverCollides, OwnedBy
<1>4. CASE RenameLegacy
  <2> DEFINE qty == seed[row].qty
             named == {[m EXCEPT !.tag = Kept(row, qty)] : m \in Legacy(row, qty)}
  <2>1. modules' = (modules \ Legacy(row, qty)) \cup named /\ pc' = "surplus"
    BY <1>4 DEF RenameLegacy, Kept
  <2>2. \A x, y \in Legacy(row, qty) : x = y
    BY DEF UniqueInv, NeverCollides, Legacy
  <2>3. qty \in 1 .. MaxQty
    BY <1>0, RowQty
  <2> HIDE DEF qty
  <2>4. ASSUME NEW r \in named
        PROVE  \A m \in modules \ Legacy(row, qty) : m.tag # r.tag /\ (m.bay # NoBay => m.bay # r.bay)
    <3>1. PICK old \in Legacy(row, qty) : r = [old EXCEPT !.tag = Kept(row, qty)]
      OBVIOUS
    <3>2. old \in modules /\ ~HasTag(Kept(row, qty)) /\ r.tag = Kept(row, qty) /\ r.bay = old.bay
      BY <1>0, <2>3, <3>1, Renaming
    <3> QED
      BY <3>2 DEF HasTag, UniqueInv, NeverCollides
  <2>5. \A r, q \in named : r = q
    BY <2>2
  <2>6. NeverCollides'
    <3> HIDE DEF named
    <3> QED
      BY <2>1, <2>4, <2>5 DEF UniqueInv, NeverCollides
  <2> QED
    BY <2>1, <2>6 DEF UniqueInv, InUnit
<1>5. CASE UpsertUnit
  <2>1. unit \in UnitTags(row, seed[row].qty) /\ unit \in Own(row) /\ pc = "upsert"
    BY <1>0, <1>5, RowQty DEF UpsertUnit, JobOK, InUnit
  <2>2. modules' = {m \in modules : m.tag # unit} \cup {Written} /\ Written.tag = unit /\ Written.bay = BayOf(seat, unit)
    BY <1>0, <1>5, Upserting, Writing
  <2>3. ASSUME NEW m \in modules, m.tag # unit, m.bay # NoBay, m.bay = Written.bay PROVE FALSE
    <3>1. m.bay[2] = unit
      BY <2>2, <2>3 DEF BayOf
    <3>2. {unit, m.tag} \subseteq {<<m.tag[1], 0>>, <<m.tag[1], 1>>}
      BY <1>0, <2>3, <3>1 DEF NamesOK, NamedBy
    <3>3. unit[1] = row /\ unit[1] = m.tag[1]
      BY <2>1, <3>2 DEF Own, Owns
    <3>4. m \in OwnedBy(row)
      <4>1. m.tag \in {<<row, 0>>, <<row, 1>>}
        BY <3>2, <3>3
      <4>2. m.tag \in Own(row)
        BY <1>0, <4>1, TagTypes
      <4> QED
        BY <2>3, <4>2 DEF OwnedBy, Own
    <3>5. m.tag \in UnitTags(row, seed[row].qty)
      BY <2>1, <3>4 DEF UniqueInv, InUnit
    <3>6. {unit, m.tag} \subseteq {<<row, 0>>, <<row, 1>>}
      BY <3>2, <3>3
    <3>7. seed[row].qty \in 1 .. MaxQty
      BY <1>0, RowQty
    <3>8. unit = m.tag
      BY <1>0, <2>1, <3>5, <3>6, <3>7, UnitNames
    <3> QED
      BY <2>3, <3>8
  <2>4. NeverCollides'
    BY <2>2, <2>3 DEF UniqueInv, NeverCollides
  <2>5. UNCHANGED <<row, seed, unit, seat>>
    BY <1>5 DEF UpsertUnit, jobVars
  <2>6. \E m \in modules' : m.tag = unit /\ m.bay = BayOf(seat, unit)'
    BY <2>2, <2>5 DEF BayOf
  <2> QED
    BY <2>1, <2>2, <2>4, <2>5, <2>6 DEF UniqueInv, OwnedBy, InUnit
<1>8. CASE RecordPurchase
  <2>1. \A n \in modules' : \E m \in modules : n.tag = m.tag /\ n.bay = m.bay /\ n = Purchased(m)
    BY <1>0, <1>8, Purchasing
  <2>2. \A m \in modules : \E n \in modules' : n.tag = m.tag /\ n.bay = m.bay
    BY <1>0, <1>8, Purchasing
  <2>3. pc = "record" /\ UNCHANGED <<row, seed, unit, seat>>
    BY <1>8 DEF RecordPurchase, jobVars
  <2>4. NeverCollides'
    BY <2>1 DEF UniqueInv, NeverCollides
  <2>5. \A m \in OwnedBy(row)' : m.tag \in UnitTags(row, seed[row].qty)
    BY <2>1, <2>3 DEF UniqueInv, OwnedBy, InUnit
  <2>6. \E m \in modules' : m.tag = unit /\ m.bay = BayOf(seat, unit)'
    <3>1. PICK m \in modules : m.tag = unit /\ m.bay = BayOf(seat, unit)
      BY <2>3 DEF UniqueInv
    <3> QED
      BY <2>2, <2>3, <3>1 DEF BayOf
  <2> QED
    BY <2>3, <2>4, <2>5, <2>6 DEF UniqueInv
<1>6. ASSUME NEW h \in Rows, NEW f \in Fields, NEW v \in Values, Audit(h, f, v) PROVE UniqueInv'
  <2> DEFINE noted(m) == IF m \in First(h) THEN Noted(m, f, v) ELSE m
  <2>1. /\ modules' = (modules \ First(h)) \cup {Noted(m, f, v) : m \in First(h)} /\ First(h) \subseteq modules
        /\ pc = "idle" /\ pc' = pc
    BY <1>6, Auditing
  <2>2. \A m \in modules : Noted(m, f, v).tag = m.tag /\ Noted(m, f, v).bay = m.bay
    BY <1>0, Noting DEF DataOK
  <2>3. ASSUME NEW n \in modules' PROVE \E m \in modules : n.tag = m.tag /\ n.bay = m.bay /\ n = noted(m)
    BY <2>1, <2>2
  <2> HIDE DEF noted
  <2>4. NeverCollides'
    BY <2>3 DEF UniqueInv, NeverCollides
  <2> QED
    BY <2>1, <2>4 DEF UniqueInv, InUnit
<1>7. ASSUME NEW h \in Rows, NEW b \in Bay \cup {NoBay}, AddModule(h, b) PROVE UniqueInv'
  <2> DEFINE new == [tag |-> <<h, Lookalike>>, bay |-> b, known |-> Nothing]
  <2>1. /\ modules' = modules \cup {new} /\ (b # NoBay => b[2] = <<h, Lookalike>>) /\ ~HasTag(<<h, Lookalike>>)
        /\ pc = "idle" /\ pc' = pc /\ new.tag = <<h, Lookalike>> /\ new.bay = b
    BY <1>7 DEF AddModule
  <2>2. ASSUME NEW m \in modules, m.bay # NoBay, m.bay = b PROVE FALSE
    <3>1. m.bay[2] = (<<h, Lookalike>>) /\ m.tag # (<<h, Lookalike>>)
      BY <2>1, <2>2 DEF HasTag
    <3>2. m.bay[2] \in {<<m.tag[1], 0>>, <<m.tag[1], 1>>}
      BY <1>0, <2>2, <3>1 DEF NamesOK, NamedBy
    <3>3. Lookalike \notin {0, 1}
      BY HardwareAssumption DEF Lookalike
    <3> QED
      BY <3>1, <3>2, <3>3
  <2> HIDE DEF new
  <2>3. NeverCollides'
    BY <2>1, <2>2 DEF UniqueInv, NeverCollides, HasTag
  <2> QED
    BY <2>1, <2>3 DEF UniqueInv, InUnit
<1> QED
  BY <1>2, <1>3, <1>4, <1>5, <1>6, <1>7, <1>8 DEF Next, Hardware, People

LEMMA UniqueInit == Init => UniqueInv
BY DEF Init, UniqueInv, NeverCollides, OwnedBy, InUnit

\* The unique constraints of asset tags and of Modules in bays are never run into,
\* whatever order the units come in, whichever run died between two writes and
\* however the quantities changed since.
THEOREM NoCollisions == Spec => []NeverCollides
<1>1. UniqueInv => NeverCollides
  BY DEF UniqueInv
<1> QED
  BY <1>1, TypeInit, TypeNext, UniqueInit, UniqueNext, PTL DEF Spec

-----------------------------------------------------------------------------
(* What a successful drive sync promises *)

\* While the differences are applied, no discovered item is one that neither
\* side of the comparison knows.
SyncInv ==
    /\ IsFiniteSet(source)
    /\ pc = "drives" => /\ status = "none" /\ creates \subseteq source
                        /\ \A i \in Discovered : \E x \in source \cup deletes : i = AsItem(x)
    /\ DriveSuccessIsComplete

LEMMA ItemIs ==
    ASSUME NEW i \in Item, i.discovered
    PROVE  <<i.dev, i.drive>> \in Chassis \X Ids /\ i = AsItem(<<i.dev, i.drive>>)
<1>1. i = [dev |-> i.dev, drive |-> i.drive, discovered |-> i.discovered] /\ i.discovered = TRUE
  BY DEF Item
<1> QED
  BY <1>1 DEF Item, AsItem

LEMMA LoadedFinite ==
    ASSUME DataOK
    PROVE  IsFiniteSet(Loaded)
<1> DEFINE told == {y \in gathered : y[1] \in devices /\ Identity(y[2]) # NoId}
           f == [y \in told |-> <<y[1], Identity(y[2])>>]
<1>1. IsFiniteSet(Nodes \X Reports)
  BY FS_Product, HardwareAssumption
<1>2. IsFiniteSet(told)
  BY <1>1, FS_Subset DEF DataOK
<1>3. f \in Surjection(told, Loaded)
  <2>1. f \in [told -> Loaded]
    BY DEF Loaded
  <2>2. \A x \in Loaded : \E y \in told : f[y] = x
    BY DEF Loaded
  <2> QED
    BY <2>1, <2>2, Fun_IsSurj
<1> QED
  BY <1>2, <1>3, FS_Surjection

\* Counting is enough: items that all come from the source and are as many as the
\* source are all of them.
LEMMA CountIsEnough ==
    ASSUME IsFiniteSet(source), \A i \in Discovered : \E x \in source : i = AsItem(x),
           ~(Cardinality(Discovered) < Cardinality(source))
    PROVE  \A x \in source : AsItem(x) \in Discovered
<1> DEFINE there == {x \in source : AsItem(x) \in Discovered}
           g == [x \in there |-> AsItem(x)]
<1>1. IsFiniteSet(there) /\ Cardinality(there) <= Cardinality(source) /\ (Cardinality(source) = Cardinality(there) => source = there)
  BY FS_Subset
<1>2. g \in Surjection(there, Discovered)
  <2>1. g \in [there -> Discovered]
    OBVIOUS
  <2>2. \A i \in Discovered : \E x \in there : g[x] = i
    OBVIOUS
  <2> QED
    BY <2>1, <2>2, Fun_IsSurj
<1>3. IsFiniteSet(Discovered) /\ Cardinality(Discovered) <= Cardinality(there)
  BY <1>1, <1>2, FS_Surjection
<1>4. Cardinality(source) \in Nat /\ Cardinality(there) \in Nat /\ Cardinality(Discovered) \in Nat
  BY <1>1, <1>3, FS_CardinalityType
<1>5. source = there
  BY <1>1, <1>3, <1>4
<1> QED
  BY <1>5

LEMMA SyncNext == TypeInv /\ SyncInv /\ [Next]_vars => SyncInv'
<1> SUFFICES ASSUME TypeInv, SyncInv, [Next]_vars PROVE SyncInv'
  OBVIOUS
<1>0. DataOK /\ DriveOK
  BY DEF TypeInv
<1>1. CASE /\ UNCHANGED <<source, status>> /\ Discovered' = Discovered
           /\ (pc' = "drives" => pc = "drives" /\ UNCHANGED <<creates, deletes>>)
  BY <1>1 DEF SyncInv, DriveSuccessIsComplete, AsItem
<1>2. CASE Hardware \/ Die \/ People \/ UNCHANGED vars
  <2>1. UNCHANGED <<source, status>>
    BY <1>2 DEF Hardware, StartHardware, TakeRow, DeleteWithheld, DeleteBay, WithheldDone, RenameLegacy, DropSurplus,
       SurplusDone, SeatUnit, UpsertUnit, RecordPurchase, SweepUnit, UnitDone, SweepRow, RowDone, FinishHardware, Die, People, EditTables, Gather, AddDevice, Audit,
       AddModule, AddItem, driveVars, vars
  <2>2. Discovered' = Discovered
    <3>1. CASE \E c \in Chassis, d \in Ids : AddItem(c, d)
      BY <3>1 DEF AddItem, Discovered
    <3>2. ASSUME ~\E c \in Chassis, d \in Ids : AddItem(c, d) PROVE items' = items
      BY <1>2, <3>2 DEF Hardware, StartHardware, TakeRow, DeleteWithheld, DeleteBay, WithheldDone, RenameLegacy,
         DropSurplus, SurplusDone, SeatUnit, UpsertUnit, RecordPurchase, SweepUnit, UnitDone, SweepRow, RowDone, FinishHardware, Die, People, EditTables, Gather,
         AddDevice, Audit, AddModule, database, vars
    <3> QED
      BY <3>1, <3>2 DEF Discovered
  <2>3. pc' = "drives" => pc = "drives" /\ UNCHANGED <<creates, deletes>>
    BY <1>2 DEF Hardware, StartHardware, TakeRow, DeleteWithheld, DeleteBay, WithheldDone, RenameLegacy, DropSurplus,
       SurplusDone, SeatUnit, UpsertUnit, RecordPurchase, SweepUnit, UnitDone, SweepRow, RowDone, FinishHardware, Die, People, EditTables, Gather, AddDevice, Audit,
       AddModule, AddItem, database, driveVars, vars
  <2> QED
    BY <1>1, <2>1, <2>2, <2>3
<1>3. CASE RefuseDrives
  BY <1>3 DEF RefuseDrives, SyncInv, DriveSuccessIsComplete, Discovered, database
<1>4. CASE StartDrives
  <2>1. /\ items' = items /\ source' = Loaded /\ status' = "none" /\ creates' \subseteq source'
        /\ deletes' = {x \in Chassis \X Ids : AsItem(x) \in items} \ source'
    BY <1>4 DEF StartDrives, database
  <2>2. IsFiniteSet(source')
    BY <1>0, <2>1, LoadedFinite
  <2>3. ASSUME NEW i \in Discovered PROVE \E x \in source' \cup deletes' : i = AsItem(x)
    <3>1. i \in items /\ i \in Item /\ i.discovered
      BY <1>0, <2>3 DEF Discovered, DataOK
    <3>2. <<i.dev, i.drive>> \in source' \cup deletes' /\ i = AsItem(<<i.dev, i.drive>>)
      BY <2>1, <3>1, ItemIs
    <3> QED
      BY <3>2
  <2> QED
    BY <2>1, <2>2, <2>3 DEF SyncInv, DriveSuccessIsComplete, Discovered
<1>5. ASSUME NEW x \in creates, CreateDrive(x) PROVE SyncInv'
  <2>1. /\ items' \subseteq items \cup {AsItem(x)} /\ creates' \subseteq creates /\ UNCHANGED <<source, deletes, status, pc>>
        /\ pc = "drives"
    BY <1>5 DEF CreateDrive
  <2>2. x \in source
    BY <1>5, <2>1 DEF SyncInv
  <2> QED
    BY <2>1, <2>2 DEF SyncInv, DriveSuccessIsComplete, Discovered
<1>6. ASSUME NEW x \in deletes, DeleteDrive(x) PROVE SyncInv'
  <2>1. /\ items' = items \ {AsItem(x)} /\ deletes' = deletes \ {x} /\ UNCHANGED <<source, creates, status, pc>>
        /\ pc = "drives"
    BY <1>6 DEF DeleteDrive
  <2>2. ASSUME NEW i \in items', i.discovered PROVE \E y \in source \cup deletes' : i = AsItem(y)
    <3>1. PICK y \in source \cup deletes : i = AsItem(y)
      BY <2>1, <2>2 DEF SyncInv, Discovered
    <3>2. y # x
      BY <2>1, <3>1
    <3> QED
      BY <2>1, <3>1, <3>2
  <2> QED
    BY <2>1, <2>2 DEF SyncInv, DriveSuccessIsComplete, Discovered
<1>7. CASE PostRun
  <2>1. /\ creates = {} /\ deletes = {} /\ pc = "drives" /\ pc' = "idle" /\ UNCHANGED <<source, items>>
        /\ status' = IF Cardinality(Discovered) < Cardinality(source) THEN "FAILURE" ELSE "SUCCESS"
    BY <1>7 DEF PostRun, Counted, database
  <2>2. \A i \in Discovered : \E x \in source : i = AsItem(x)
    BY <2>1 DEF SyncInv
  <2>3. status' = "SUCCESS" => \A x \in source : AsItem(x) \in Discovered
    BY <2>1, <2>2, CountIsEnough DEF SyncInv
  <2>4. Discovered' = Discovered
    BY <2>1 DEF Discovered
  <2> QED
    BY <2>1, <2>2, <2>3, <2>4 DEF SyncInv, DriveSuccessIsComplete, AsItem
<1> QED
  BY <1>2, <1>3, <1>4, <1>5, <1>6, <1>7 DEF Next, DriveSync

LEMMA SyncInit == Init => SyncInv
BY FS_EmptySet DEF Init, SyncInv, DriveSuccessIsComplete

\* The drive sync says SUCCESS only when exactly the drives it loaded are recorded:
\* nautobot_ssot reports a run whose creations failed as completed, and post_run's
\* count (ssot_drives.py) catches all of them, although it compares numbers only.
THEOREM SuccessIsComplete == Spec => []DriveSuccessIsComplete
<1>1. SyncInv => DriveSuccessIsComplete
  BY DEF SyncInv
<1> QED
  BY <1>1, TypeInit, TypeNext, SyncInit, SyncNext, PTL DEF Spec
=============================================================================
