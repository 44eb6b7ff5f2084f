---------------------- MODULE NautobotInventoryProofs ----------------------
(***************************************************************************)
(* What the hardware job and the drive sync promise of the inventory: the   *)
(* records of a first unit survive, a complete run matches the tables, and  *)
(* a second run of both jobs finds nothing to do. For every set of rows,    *)
(* chassis and drives, every quantity and any number of changes.            *)
(***************************************************************************)
EXTENDS NautobotHardwareProofs

-----------------------------------------------------------------------------
(* The first unit of a row *)

\* The two forms of its tag, and the tags the quantity of a row asks for.
Firsts(h) == {<<h, 0>>, <<h, 1>>}
Units(h) == UnitTags(h, seed[h].qty)

\* A row never has Modules under both forms, so that the other one can be renamed
\* to the one its quantity asks for; from then on the first unit is one of those
\* to be placed, and what a person recorded of it stays with it.
Recorded(h) == \E m \in modules : m.tag \in Firsts(h) /\ Agrees(audited[h], m.known)
OneForm == \A h \in Rows : ~(HasTag(<<h, 0>>) /\ HasTag(<<h, 1>>))
Chosen ==
    /\ pc \in {"rename", "surplus"} => units = Units(row)
    /\ pc \in {"surplus", "units"} \cup InUnit =>
         \A m \in modules : m.tag \in Firsts(row) => m.tag \in Units(row)
Remembered == \A h \in Rows : audited[h] # Nothing => Recorded(h)
FirstInv == OneForm /\ Chosen /\ Remembered

LEMMA FirstTags ==
    ASSUME NEW h \in Rows, NEW m \in Module
    PROVE  /\ m.tag \in Firsts(h) => Owns(h, m.tag) /\ m.tag[1] = h
           /\ Owns(h, m.tag) /\ m.tag[2] \in {0, 1} => m.tag \in Firsts(h)
<1>1. m.tag \in Firsts(h) => Owns(h, m.tag) /\ m.tag[1] = h
  <2>1. Firsts(h) \subseteq Own(h)
    BY TagTypes DEF Firsts
  <2> QED
    BY <2>1 DEF Own, Owns
<1>2. ASSUME Owns(h, m.tag), m.tag[2] \in {0, 1} PROVE m.tag \in Firsts(h)
  <2>1. m.tag \in Rows \X (0 .. Lookalike)
    BY ModuleFields DEF Tags
  <2>2. m.tag = <<m.tag[1], m.tag[2]>> /\ m.tag[1] = h
    BY <1>2, <2>1 DEF Owns
  <2> QED
    BY <1>2, <2>2 DEF Firsts
<1> QED
  BY <1>1, <1>2

\* Renaming leaves the row without the form its quantity does not use.
LEMMA RenamedForm ==
    ASSUME TypeInv, OneForm, RenameLegacy, NEW m \in modules', m.tag \in Firsts(row)
    PROVE  m.tag \in Units(row)
<1> DEFINE qty == seed[row].qty
           kept == Kept(row, qty)
           old == <<row, IF qty > 1 THEN 0 ELSE 1>>
<1>0. DataOK /\ NamesOK /\ JobOK /\ row \in Rows /\ qty \in 1 .. MaxQty
  BY RowQty DEF TypeInv
<1>1. kept \in Units(row) /\ Firsts(row) = {old, kept} /\ old # kept
  BY <1>0 DEF Kept, Units, UnitTags, Firsts
<1>2. SUFFICES ASSUME m.tag = old PROVE FALSE
  BY <1>1
<1>3. \A n \in Legacy(row, qty) : [n EXCEPT !.tag = kept].tag = kept
  BY <1>0, Renaming
<1>4. modules' = (modules \ Legacy(row, qty)) \cup {[n EXCEPT !.tag = kept] : n \in Legacy(row, qty)}
  BY DEF RenameLegacy, Kept
<1>5. m \in modules /\ m \notin Legacy(row, qty)
  BY <1>1, <1>2, <1>3, <1>4
<1>6. HasTag(kept)
  BY <1>2, <1>5 DEF Legacy, Kept
<1>7. HasTag(old)
  BY <1>2, <1>5 DEF HasTag
<1> QED
  BY <1>0, <1>1, <1>6, <1>7 DEF OneForm, Firsts

LEMMA ChosenNext == TypeInv /\ FirstInv /\ [Next]_vars => Chosen'
<1> SUFFICES ASSUME TypeInv, FirstInv, [Next]_vars PROVE Chosen'
  OBVIOUS
<1>0. JobOK /\ OneForm /\ Chosen
  BY DEF TypeInv, FirstInv
<1>1. CASE pc' \notin {"rename", "surplus", "units"} \cup InUnit
  BY <1>1 DEF Chosen
<1>2. CASE modules' \subseteq modules /\ UNCHANGED <<pc, units, seed, row>>
  BY <1>0, <1>2 DEF Chosen, Units
<1>a. ASSUME \A m \in modules' : \E n \in modules : n.tag = m.tag, UNCHANGED <<seed, row>>,
             pc \in {"units"} \cup InUnit, pc' \in {"units"} \cup InUnit
      PROVE  Chosen'
  BY <1>0, <1>a DEF Chosen, Units, Firsts, InUnit
<1>3. CASE StartHardware \/ (\E m \in modules : DeleteWithheld(m)) \/ DeleteBay \/ WithheldDone \/ RowDone \/ FinishHardware
           \/ DriveSync \/ Die \/ EditTables \/ Gather \/ (\E h \in Rows, f \in Fields, v \in Values : Audit(h, f, v))
           \/ (\E h \in Rows, b \in Bay \cup {NoBay} : AddModule(h, b)) \/ (\E c \in Chassis, d \in Ids : AddItem(c, d))
  <2>1. pc' \notin {"rename", "surplus", "units"} \cup InUnit
    BY <1>3 DEF StartHardware, DeleteWithheld, DeleteBay, WithheldDone, RowDone, FinishHardware, DriveSync, RefuseDrives,
       StartDrives, CreateDrive, DeleteDrive, PostRun, Die, EditTables, Gather, Audit, AddModule, AddItem, InUnit
  <2> QED
    BY <1>1, <2>1
<1>4. CASE (\E m \in modules : DropSurplus(m)) \/ (\E c \in Chassis : AddDevice(c)) \/ UNCHANGED vars
  <2>1. modules' \subseteq modules /\ UNCHANGED <<pc, units, seed, row>>
    BY <1>4 DEF DropSurplus, AddDevice, jobVars, database, vars
  <2> QED
    BY <1>2, <2>1
<1>5. ASSUME NEW h \in Rows, TakeRow(h) PROVE Chosen'
  BY <1>5 DEF TakeRow, Chosen, Units, InUnit
<1>6. CASE RenameLegacy
  <2>1. pc = "rename" /\ pc' = "surplus" /\ UNCHANGED <<units, seed, row>>
    BY <1>6 DEF RenameLegacy, jobVars
  <2>2. \A m \in modules' : m.tag \in Firsts(row) => m.tag \in Units(row)
    BY <1>0, <1>6, RenamedForm
  <2> QED
    BY <1>0, <2>1, <2>2 DEF Chosen, Units, Firsts, InUnit
<1>7. CASE SurplusDone \/ (\E t \in units : SeatUnit(t))
  <2>1. /\ UNCHANGED <<modules, seed, row>> /\ pc \in {"surplus", "units"} /\ pc' \in {"units", "upsert"}
    BY <1>7 DEF SurplusDone, SeatUnit, database, jobVars
  <2> QED
    BY <1>0, <2>1 DEF Chosen, Units, Firsts, InUnit
<1>8. CASE UpsertUnit
  <2>1. modules' = {m \in modules : m.tag # unit} \cup {Written} /\ Written.tag = unit
    BY <1>0, <1>8, Upserting, Writing DEF TypeInv
  <2>2. /\ UNCHANGED <<seed, row>> /\ pc = "upsert" /\ pc' = "record" /\ unit \in Units(row)
    BY <1>0, <1>8 DEF UpsertUnit, jobVars, JobOK, Units, InUnit
  <2> QED
    BY <1>0, <2>1, <2>2 DEF Chosen, Units, Firsts, InUnit
<1>9. CASE RecordPurchase
  <2>1. \A m \in modules' : \E n \in modules : n.tag = m.tag
    BY <1>0, <1>9, Purchasing DEF TypeInv
  <2>2. UNCHANGED <<seed, row>> /\ pc = "record" /\ pc' \in {"units", "sweep"}
    BY <1>9 DEF RecordPurchase, jobVars
  <2> QED
    BY <1>a, <2>1, <2>2 DEF InUnit
<1>10. CASE (\E b \in bays : SweepUnit(b) \/ SweepRow(b)) \/ UnitDone
  <2>1. UNCHANGED <<modules, seed, row>> /\ pc \in {"units", "sweep"} /\ pc' \in {"units", "sweep"}
    BY <1>10 DEF SweepUnit, SweepRow, UnitDone, database, jobVars
  <2> QED
    BY <1>a, <2>1 DEF InUnit
<1> QED
  BY <1>3, <1>4, <1>5, <1>6, <1>7, <1>8, <1>9, <1>10 DEF Next, Hardware, People

LEMMA OneFormNext == TypeInv /\ FirstInv /\ [Next]_vars => OneForm'
<1> SUFFICES ASSUME TypeInv, FirstInv, [Next]_vars PROVE OneForm'
  OBVIOUS
<1>0. DataOK /\ NamesOK /\ JobOK /\ OneForm /\ Chosen /\ row \in Rows
  BY DEF TypeInv, FirstInv, JobOK
<1>1. CASE \A m \in modules' : \E n \in modules : n.tag = m.tag
  BY <1>0, <1>1 DEF OneForm, HasTag
\* A step on the row in hand that leaves it with units it has by its quantity.
<1>2. ASSUME UNCHANGED <<row, seed>>, \A m \in modules' : m.tag \notin Own(row) => m \in modules,
             \A m \in modules' : m.tag \in Firsts(row) => m.tag \in Units(row)
      PROVE  OneForm'
  <2> SUFFICES ASSUME NEW h \in Rows, NEW m \in modules', NEW n \in modules', m.tag = <<h, 0>>, n.tag = <<h, 1>>
               PROVE  FALSE
    BY DEF OneForm, HasTag
  <2>1. CASE h = row
    <3>1. {<<row, 0>>, <<row, 1>>} \subseteq Units(row)
      BY <1>2, <2>1 DEF Firsts
    <3>2. <<row, 0>> = <<row, 1>>
      BY <1>0, <3>1, RowQty, UnitNames DEF Units
    <3> QED
      BY <3>2
  <2>2. CASE h # row
    <3>1. m.tag \notin Own(row) /\ n.tag \notin Own(row)
      BY <2>2 DEF Own, Owns
    <3> QED
      BY <1>0, <1>2, <3>1 DEF OneForm, HasTag
  <2> QED
    BY <2>1, <2>2
<1>3. CASE RenameLegacy
  <2>1. \A m \in modules' : m.tag \in Firsts(row) => m.tag \in Units(row)
    BY <1>0, <1>3, RenamedForm
  <2>2. ASSUME NEW m \in modules', m.tag \notin Own(row) PROVE m \in modules
    <3>1. CASE m \in modules
      BY <3>1
    <3>2. ASSUME NEW old \in Legacy(row, seed[row].qty), m = [old EXCEPT !.tag = Kept(row, seed[row].qty)] PROVE FALSE
      BY <1>0, <2>2, <3>2, RowQty, Renaming
    <3> QED
      BY <1>3, <3>1, <3>2 DEF RenameLegacy, Kept
  <2> QED
    BY <1>2, <1>3, <2>1, <2>2 DEF RenameLegacy, jobVars
<1>4. CASE UpsertUnit
  <2>1. modules' = {m \in modules : m.tag # unit} \cup {Written} /\ Written.tag = unit
    BY <1>0, <1>4, Upserting, Writing
  <2>2. UNCHANGED <<seed, row>> /\ unit \in Units(row) /\ unit \in Own(row) /\ pc = "upsert"
    BY <1>0, <1>4, RowQty DEF UpsertUnit, jobVars, JobOK, Units, InUnit
  <2>3. \A m \in modules : m.tag \in Firsts(row) => m.tag \in Units(row)
    BY <1>0, <2>2 DEF Chosen, InUnit
  <2> QED
    BY <1>2, <2>1, <2>2, <2>3
<1>5. ASSUME NEW h \in Rows, NEW f \in Fields, NEW v \in Values, Audit(h, f, v) PROVE OneForm'
  <2>1. \A m \in modules : Noted(m, f, v).tag = m.tag
    BY <1>0, Noting DEF DataOK
  <2>2. First(h) \subseteq modules /\ modules' = (modules \ First(h)) \cup {Noted(m, f, v) : m \in First(h)}
    BY <1>5, Auditing
  <2> QED
    BY <1>1, <2>1, <2>2
<1>6. ASSUME NEW h \in Rows, NEW b \in Bay \cup {NoBay}, AddModule(h, b) PROVE OneForm'
  <2> DEFINE new == [tag |-> <<h, Lookalike>>, bay |-> b, known |-> Nothing]
  <2>1. modules' = modules \cup {new} /\ new.tag = <<h, Lookalike>> /\ Lookalike \notin {0, 1}
    BY <1>6, HardwareAssumption DEF AddModule, Lookalike
  <2> HIDE DEF new
  <2>2. \A i \in Rows : new.tag # <<i, 0>> /\ new.tag # <<i, 1>>
    BY <2>1
  <2> QED
    BY <1>0, <2>1, <2>2 DEF OneForm, HasTag
<1>7. CASE StartHardware \/ (\E h \in Rows : TakeRow(h)) \/ (\E m \in modules : DeleteWithheld(m) \/ DropSurplus(m))
           \/ DeleteBay \/ WithheldDone \/ SurplusDone \/ (\E t \in units : SeatUnit(t))
           \/ (\E b \in bays : SweepUnit(b) \/ SweepRow(b)) \/ UnitDone \/ RowDone
           \/ FinishHardware \/ DriveSync \/ Die \/ EditTables \/ Gather \/ (\E c \in Chassis : AddDevice(c))
           \/ (\E c \in Chassis, d \in Ids : AddItem(c, d)) \/ UNCHANGED vars
  <2>1. modules' \subseteq modules
    BY <1>7 DEF StartHardware, TakeRow, DeleteWithheld, DropSurplus, DeleteBay, WithheldDone, SurplusDone, SeatUnit,
       SweepUnit, UnitDone, SweepRow, RowDone, FinishHardware, DriveSync, RefuseDrives, StartDrives, CreateDrive, DeleteDrive, PostRun, Die,
       EditTables, Gather, AddDevice, AddItem, database, vars
  <2> QED
    BY <1>1, <2>1
<1>8. CASE RecordPurchase
  BY <1>0, <1>1, <1>8, Purchasing
<1> QED
  BY <1>3, <1>4, <1>5, <1>6, <1>7, <1>8 DEF Next, Hardware, People

\* The Modules First looks for, in terms of the two forms.
LEMMA FirstIs ==
    ASSUME DataOK, OneForm, NEW h \in Rows, NEW m \in modules
    PROVE  m \in First(h) <=> m.tag \in Firsts(h)
<1>1. m \in Module
  BY DEF DataOK
<1>2. ASSUME m \in First(h) PROVE m.tag \in Firsts(h)
  <2>1. Owns(h, m.tag) /\ m.tag[2] \in {0, 1}
    BY <1>2 DEF First, OwnedBy
  <2> QED
    BY <1>1, <2>1, FirstTags
<1>3. ASSUME m.tag \in Firsts(h) PROVE m \in First(h)
  <2>1. m \in OwnedBy(h)
    BY <1>1, <1>3, FirstTags DEF OwnedBy
  <2>2. m.tag = <<h, 1>> => HasTag(<<h, 1>>)
    BY DEF HasTag
  <2>3. m.tag = <<h, 0>> => ~HasTag(<<h, 1>>)
    BY DEF HasTag, OneForm
  <2> QED
    BY <1>3, <2>1, <2>2, <2>3 DEF First, Firsts
<1> QED
  BY <1>2, <1>3

LEMMA UniquelyKnown ==
    ASSUME UniqueInv, NEW m \in modules
    PROVE  Known(m.tag) = m.known
<1>1. {n \in modules : n.tag = m.tag} = {m}
  BY DEF UniqueInv, NeverCollides
<1> QED
  BY <1>1 DEF Known

LEMMA RememberedNext == TypeInv /\ UniqueInv /\ FirstInv /\ [Next]_vars => Remembered'
<1> SUFFICES ASSUME TypeInv, UniqueInv, FirstInv, [Next]_vars PROVE Remembered'
  OBVIOUS
<1>0. DataOK /\ NamesOK /\ JobOK /\ OneForm /\ Chosen /\ Remembered /\ row \in Rows
  BY DEF TypeInv, FirstInv, JobOK
<1>a. \A m \in modules : m \in Module
  BY <1>0 DEF DataOK
<1>1. CASE modules \subseteq modules' /\ audited' = audited
  BY <1>0, <1>1 DEF Remembered, Recorded, Firsts
<1>2. ASSUME NEW m \in modules, DeleteWithheld(m) PROVE Remembered'
  <2>1. modules' = modules \ {m} /\ audited' = [audited EXCEPT ![row] = Nothing] /\ Owns(row, m.tag)
    BY <1>2 DEF DeleteWithheld, OwnedBy
  <2>2. audited \in [Rows -> Record]
    BY DEF TypeInv, HistoryOK
  <2>3. ASSUME NEW h \in Rows, audited'[h] # Nothing PROVE Recorded(h)'
    <3>1. h # row /\ audited'[h] = audited[h]
      BY <2>1, <2>2, <2>3
    <3>2. PICK n \in modules : n.tag \in Firsts(h) /\ Agrees(audited[h], n.known)
      BY <1>0, <2>3, <3>1 DEF Remembered, Recorded
    <3>3. n # m
      BY <1>a, <2>1, <3>1, <3>2, FirstTags DEF Owns
    <3> QED
      BY <2>1, <3>1, <3>2, <3>3 DEF Recorded, Firsts
  <2> QED
    BY <2>3 DEF Remembered
<1>3. CASE RenameLegacy
  <2> DEFINE qty == seed[row].qty
             kept == Kept(row, qty)
  <2>1. /\ modules' = (modules \ Legacy(row, qty)) \cup {[n EXCEPT !.tag = kept] : n \in Legacy(row, qty)}
        /\ audited' = audited
    BY <1>3 DEF RenameLegacy, Kept, history
  <2>2. ASSUME NEW h \in Rows, audited[h] # Nothing PROVE Recorded(h)'
    <3>1. PICK n \in modules : n.tag \in Firsts(h) /\ Agrees(audited[h], n.known)
      BY <1>0, <2>2 DEF Remembered, Recorded
    <3>2. CASE n \notin Legacy(row, qty)
      BY <2>1, <3>1, <3>2 DEF Recorded, Firsts
    <3>3. CASE n \in Legacy(row, qty)
      <4> DEFINE r == [n EXCEPT !.tag = kept]
      <4>1. n.tag \in Own(row) /\ r.tag = kept
        BY <1>0, <3>3, RowQty, Renaming
      <4>2. r.known = n.known /\ r \in modules'
        BY <1>a, <2>1, <3>3 DEF Module
      <4>3. h = row
        BY <1>a, <3>1, <4>1, FirstTags DEF Own, Owns
      <4>4. kept \in Firsts(h)
        BY <4>3 DEF Kept, Firsts
      <4> HIDE DEF r, kept
      <4> QED
        BY <2>1, <3>1, <4>1, <4>2, <4>4 DEF Recorded, Firsts
    <3> QED
      BY <3>2, <3>3
  <2> QED
    BY <2>1, <2>2 DEF Remembered
<1>4. ASSUME NEW m \in modules, DropSurplus(m) PROVE Remembered'
  <2>1. /\ modules' = modules \ {m} /\ audited' = audited /\ Owns(row, m.tag)
        /\ m.tag \notin Units(row)
    BY <1>0, <1>4 DEF DropSurplus, OwnedBy, history, Chosen
  <2>2. ASSUME NEW h \in Rows, audited[h] # Nothing PROVE Recorded(h)'
    <3>1. PICK n \in modules : n.tag \in Firsts(h) /\ Agrees(audited[h], n.known)
      BY <1>0, <2>2 DEF Remembered, Recorded
    <3>2. ASSUME n = m PROVE FALSE
      <4>1. h = row
        BY <1>a, <2>1, <3>1, <3>2, FirstTags DEF Owns
      <4> QED
        BY <1>0, <1>4, <2>1, <3>1, <3>2, <4>1 DEF DropSurplus, Chosen
    <3> QED
      BY <2>1, <3>1, <3>2 DEF Recorded, Firsts
  <2> QED
    BY <2>1, <2>2 DEF Remembered
\* One of the two writes of a unit: the values it gives are merged into what is
\* known of the unit and no longer remembered as a person's.
<1>5. ASSUME NEW gives \in Record, TakenOver(gives), pc \in InUnit, unit \in Units(row), row' = row,
             \A m \in modules : \E n \in modules' :
                 n.tag = m.tag /\ n.known = IF m.tag = unit THEN Merged(m.known, gives) ELSE m.known
      PROVE  Remembered'
  <2>1. audited \in [Rows -> Record]
    BY DEF TypeInv, HistoryOK
  <2>2. \A h \in Rows : audited'[h] = audited[h] \/ (h = row /\ unit[2] \in {0, 1} /\ audited'[h] = NotGiven(audited[h], gives))
    BY <1>0, <1>5, <2>1 DEF TakenOver
  <2>3. ASSUME NEW h \in Rows, audited'[h] # Nothing PROVE Recorded(h)'
    <3>0. audited[h] \in Record
      BY <2>1
    <3>1. audited[h] # Nothing
      BY <1>5, <2>2, <2>3, <3>0, Merging
    <3>2. PICK m \in modules : m.tag \in Firsts(h) /\ Agrees(audited[h], m.known)
      BY <1>0, <3>1 DEF Remembered, Recorded
    <3>3. PICK n \in modules' : n.tag = m.tag /\ n.known = IF m.tag = unit THEN Merged(m.known, gives) ELSE m.known
      BY <1>5
    <3>4. m.known \in Record
      BY <1>a, ModuleFields
    <3>5. CASE audited'[h] = audited[h] /\ m.tag # unit
      BY <3>2, <3>3, <3>5 DEF Recorded, Firsts
    <3>6. CASE m.tag = unit
      <4>1. unit \in Own(row) /\ unit = <<unit[1], unit[2]>>
        BY <1>0, <1>5, RowQty DEF Units, Own, Tags
      <4>2. h = row /\ unit[2] \in {0, 1}
        BY <3>2, <3>6, <4>1 DEF Firsts, Own, Owns
      <4>3. audited'[h] = NotGiven(audited[h], gives)
        BY <1>5, <2>1, <4>2 DEF TakenOver
      <4>4. Agrees(audited'[h], n.known)
        BY <1>5, <3>0, <3>2, <3>3, <3>4, <3>6, <4>3, Merging
      <4> QED
        BY <3>2, <3>3, <4>4 DEF Recorded, Firsts
    <3>7. ASSUME m.tag # unit, h = row, unit[2] \in {0, 1} PROVE FALSE
      <4>1. m.tag \in Units(row)
        BY <1>0, <1>5, <3>2, <3>7 DEF Chosen, InUnit
      <4>2. unit \in Own(row)
        BY <1>0, <1>5, RowQty DEF Units
      <4>3. unit \in Firsts(row)
        BY <3>7, <4>2 DEF Own, Owns, Tags, Firsts
      <4> QED
        BY <1>0, <1>5, <3>2, <3>7, <4>1, <4>3, RowQty, UnitNames DEF Units, Firsts
    <3> QED
      BY <2>2, <3>5, <3>6, <3>7
  <2> QED
    BY <2>3 DEF Remembered
<1>8. CASE UpsertUnit
  <2>1. /\ modules' = {m \in modules : m.tag # unit} \cup {Written} /\ Written.tag = unit
        /\ Written.known = Merged(Known(unit), Serial)
    BY <1>0, <1>8, Upserting, Writing
  <2>2. TakenOver(Serial) /\ row' = row /\ pc \in InUnit /\ unit \in Units(row) /\ Serial \in Record
    BY <1>0, <1>8, Giving DEF UpsertUnit, Serial, jobVars, JobOK, Units, InUnit
  <2>3. \A m \in modules : m.tag = unit => Known(unit) = m.known
    BY UniquelyKnown
  <2>4. ASSUME NEW m \in modules
        PROVE  \E n \in modules' : n.tag = m.tag /\ n.known = IF m.tag = unit THEN Merged(m.known, Serial) ELSE m.known
    <3>1. CASE m.tag = unit
      BY <2>1, <2>3, <3>1
    <3>2. CASE m.tag # unit
      BY <2>1, <3>2
    <3> QED
      BY <3>1, <3>2
  <2> QED
    BY <1>5, <2>2, <2>4
<1>9. CASE RecordPurchase
  <2>1. ASSUME NEW m \in modules
        PROVE  \E n \in modules' : n.tag = m.tag /\ n.known = IF m.tag = unit THEN Merged(m.known, Purchase) ELSE m.known
    BY <1>0, <1>9, Purchasing
  <2>2. TakenOver(Purchase) /\ row' = row /\ pc \in InUnit /\ unit \in Units(row) /\ Purchase \in Record
    BY <1>0, <1>9, Giving DEF RecordPurchase, Purchase, jobVars, JobOK, Units, InUnit
  <2> QED
    BY <1>5, <2>1, <2>2
<1>6. ASSUME NEW h \in Rows, NEW f \in Fields, NEW v \in Values, Audit(h, f, v) PROVE Remembered'
  <2> DEFINE says == [audited[h] EXCEPT ![f] = v]
  <2>1. /\ modules' = (modules \ First(h)) \cup {Noted(m, f, v) : m \in First(h)}
        /\ First(h) # {} /\ First(h) \subseteq modules
    BY <1>6, Auditing
  <2>2. audited \in [Rows -> Record]
    BY DEF TypeInv, HistoryOK
  <2>0. audited' = [audited EXCEPT ![h] = says]
    BY <1>6 DEF Audit
  <2>3. \A m \in modules : Noted(m, f, v).tag = m.tag /\ Noted(m, f, v).known = [m.known EXCEPT ![f] = v]
    BY <1>a, Noting
  <2>4. ASSUME NEW i \in Rows, i # h, audited[i] # Nothing PROVE Recorded(i)'
    <3>1. PICK n \in modules : n.tag \in Firsts(i) /\ Agrees(audited[i], n.known)
      BY <1>0, <2>4 DEF Remembered, Recorded
    <3>2. n \notin First(h)
      BY <1>0, <1>a, <2>4, <3>1, FirstIs, FirstTags
    <3>3. audited'[i] = audited[i] /\ n \in modules'
      BY <2>0, <2>1, <2>2, <2>4, <3>2
    <3> QED
      BY <3>1, <3>3 DEF Recorded, Firsts
  <2>5. Recorded(h)'
    <3>1. PICK n \in First(h) : Agrees(audited[h], n.known)
      <4>1. CASE audited[h] = Nothing
        <5>1. PICK n \in First(h) : TRUE
          BY <2>1
        <5>2. Agrees(Nothing, n.known)
          BY DEF Agrees, Nothing
        <5> QED
          BY <4>1, <5>2
      <4>2. CASE audited[h] # Nothing
        <5>1. PICK n \in modules : n.tag \in Firsts(h) /\ Agrees(audited[h], n.known)
          BY <1>0, <4>2 DEF Remembered, Recorded
        <5> QED
          BY <1>0, <5>1, FirstIs
      <4> QED
        BY <4>1, <4>2
    <3>2. n \in modules /\ n.tag \in Firsts(h) /\ n.known \in Record
      BY <1>0, <1>a, <2>1, <3>1, FirstIs, ModuleFields
    <3>3. Agrees(says, [n.known EXCEPT ![f] = v])
      BY <2>2, <3>1, <3>2 DEF Agrees, Record
    <3>4. audited'[h] = says
      BY <2>0, <2>2
    <3>5. Noted(n, f, v) \in modules' /\ Noted(n, f, v).tag \in Firsts(h) /\ Agrees(audited'[h], Noted(n, f, v).known)
      BY <2>1, <2>3, <3>1, <3>2, <3>3, <3>4
    <3> QED
      BY <3>5 DEF Recorded, Firsts
  <2> QED
    <3>1. \A i \in Rows : i # h => audited'[i] = audited[i]
      BY <2>0, <2>2
    <3> QED
      BY <2>4, <2>5, <3>1 DEF Remembered
<1>7. CASE StartHardware \/ (\E h \in Rows : TakeRow(h)) \/ DeleteBay \/ WithheldDone \/ SurplusDone
           \/ (\E t \in units : SeatUnit(t)) \/ (\E b \in bays : SweepUnit(b) \/ SweepRow(b)) \/ UnitDone \/ RowDone
           \/ FinishHardware \/ DriveSync \/ Die \/ EditTables \/ Gather
           \/ (\E c \in Chassis : AddDevice(c)) \/ (\E h \in Rows, b \in Bay \cup {NoBay} : AddModule(h, b))
           \/ (\E c \in Chassis, d \in Ids : AddItem(c, d)) \/ UNCHANGED vars
  <2>1. modules \subseteq modules'
    BY <1>7 DEF StartHardware, TakeRow, DeleteBay, WithheldDone, SurplusDone, SeatUnit, SweepUnit, UnitDone, SweepRow,
       RowDone, FinishHardware,
       DriveSync, RefuseDrives, StartDrives, CreateDrive, DeleteDrive, PostRun, Die, EditTables, Gather, AddDevice,
       AddModule, AddItem, database, vars
  <2>2. audited' = audited
    BY <1>7 DEF StartHardware, TakeRow, DeleteBay, WithheldDone, SurplusDone, SeatUnit, SweepUnit, UnitDone, SweepRow,
       RowDone, FinishHardware,
       DriveSync, RefuseDrives, StartDrives, CreateDrive, DeleteDrive, PostRun, Die, EditTables, Gather, AddDevice,
       AddModule, AddItem, history, vars
  <2> QED
    BY <1>1, <2>1, <2>2
<1> QED
  BY <1>2, <1>3, <1>4, <1>6, <1>7, <1>8, <1>9 DEF Next, Hardware, People

LEMMA FirstInvNext == TypeInv /\ UniqueInv /\ FirstInv /\ [Next]_vars => FirstInv'
BY ChosenNext, OneFormNext, RememberedNext DEF FirstInv

LEMMA FirstInit == Init => FirstInv
BY DEF Init, FirstInv, OneForm, Chosen, Remembered, HasTag, InUnit

LEMMA FirstInvMeans == TypeInv /\ FirstInv => AuditSurvives
<1> SUFFICES ASSUME TypeInv, FirstInv, NEW h \in Rows, audited[h] # Nothing
             PROVE  \E m \in First(h) : Agrees(audited[h], m.known)
  BY DEF AuditSurvives
<1>1. PICK m \in modules : m.tag \in Firsts(h) /\ Agrees(audited[h], m.known)
  BY DEF FirstInv, Remembered, Recorded
<1>2. m \in First(h)
  BY <1>1, FirstIs DEF TypeInv, FirstInv
<1> QED
  BY <1>1, <1>2

\* What a person records of a row's first unit is not lost: ssot_hardware.py
\* renames the Module when the quantity crosses one, merges what the row says into
\* what is known, and never has Modules under both forms of the tag, whichever run
\* died between two writes. Only a value the row itself gives takes the place of
\* what was recorded, and withholding the row, which deletes the Module, ends it.
THEOREM RecordsSurvive == Spec => []AuditSurvives
BY TypeInit, TypeNext, UniqueInit, UniqueNext, FirstInit, FirstInvNext, FirstInvMeans, PTL DEF Spec

-----------------------------------------------------------------------------
(* What a complete run of the hardware job leaves *)

\* A unit the job is through with: one Module, with all the row says of it, and
\* its bay the only one of that name.
Listing(h) == UnitTags(h, tables[h].qty)
UnitOK(h, t) ==
    /\ \E m \in modules : m.tag = t /\ m.bay = BayOf(Seat(h), t) /\ Agrees(tables[h].gives, m.known)
    /\ Seat(h) # Shelf => <<Seat(h), t>> \in bays /\ \A b \in bays : b[2] = t => b[1] = Seat(h)
\* A row the job is through with: withheld, or all its units placed and none other,
\* and no bay under the form of the first unit's tag that it does not use.
RowOK(h) ==
    IF Withheld(h, Seat(h))
    THEN \A m \in OwnedBy(h) : ~In(m, Seat(h))
    ELSE /\ \A m \in OwnedBy(h) : m.tag \in Listing(h)
         /\ \A t \in Listing(h) : UnitOK(h, t)
         /\ \A b \in bays : b[2] \notin Firsts(h) \ Listing(h)

\* Between two changes of its input the job is through with the rows it has left
\* behind, and with the units of the row in hand that it has left behind; once it
\* has completed, with all rows, also while it runs again.
RowPcs == {"withheld", "unbay", "rename", "surplus", "units"} \cup InUnit
InHand(h) == pc \in RowPcs /\ h = row
Through == Units(row) \ (units \cup (IF pc \in InUnit THEN {unit} ELSE {}))
HandOK ==
    /\ Listed(row) /\ seat = Seat(row) /\ row \notin left
    /\ Withheld(row, seat) <=> pc \in {"withheld", "unbay"}
    /\ Firsts(row) \ Units(row) \subseteq stale /\ stale \cap Units(row) = {}
UnitsOK ==
    /\ pc \in {"units"} \cup InUnit => \A t \in Through : UnitOK(row, t)
    /\ pc \in InUnit /\ seat # Shelf => <<seat, unit>> \in bays
    /\ pc = "record" => \A m \in modules : m.tag = unit => Agrees(Serial, m.known)
    /\ pc = "sweep" => \A m \in modules : m.tag = unit => Agrees(seed[row].gives, m.known)
IdleOK ==
    hwSettled = "yes" => pc # "unbay" /\ (pc # "withheld" => stale \subseteq Firsts(row))
RunOK ==
    /\ pc \in RowPcs \cup {"rows"} => seed = tables
    /\ hwSettled = "running" => pc \in RowPcs \cup {"rows"}
    /\ left \subseteq {h \in Rows : Listed(h)}
RowsOK == \A h \in Rows : Listed(h) /\ (hwSettled = "yes" \/ (h \notin left /\ ~InHand(h))) => RowOK(h)
PlaceInv ==
    hwSettled # "no" => RunOK /\ RowsOK /\ (pc \in RowPcs => HandOK /\ UnitsOK /\ IdleOK)

\* Each step of the job works on the row in hand only.
LEMMA Touches ==
    ASSUME TypeInv, Hardware
    PROVE  /\ UNCHANGED <<tables, gathered, devices, items>>
           /\ \A m \in (modules \ modules') \cup (modules' \ modules) : m.tag \in Own(row)
           /\ \A b \in (bays \ bays') \cup (bays' \ bays) : b[2] \in Own(row)
<1>0. DataOK /\ JobOK /\ NamesOK /\ row \in Rows /\ \A m \in modules : m \in Module
  BY DEF TypeInv, JobOK, DataOK
<1>a. UNCHANGED <<tables, gathered, devices, items>>
  BY DEF Hardware, StartHardware, TakeRow, DeleteWithheld, DeleteBay, WithheldDone, RenameLegacy, DropSurplus,
     SurplusDone, SeatUnit, UpsertUnit, RecordPurchase, SweepUnit, UnitDone, SweepRow, RowDone, FinishHardware,
     tablesVars, database
<1>1. CASE UNCHANGED <<modules, bays>>
  BY <1>1, <1>a
<1>2. CASE StartHardware \/ (\E h \in Rows : TakeRow(h)) \/ WithheldDone \/ SurplusDone \/ UnitDone \/ RowDone \/ FinishHardware
  BY <1>1, <1>2 DEF StartHardware, TakeRow, WithheldDone, SurplusDone, UnitDone, RowDone, FinishHardware, database
<1>3. ASSUME NEW m \in modules, DeleteWithheld(m) \/ DropSurplus(m)
      PROVE  m.tag \in Own(row) /\ modules' = modules \ {m} /\ bays' = bays
  BY <1>0, <1>3, ModuleFields DEF DeleteWithheld, DropSurplus, OwnedBy, Own
<1>4. CASE DeleteBay
  BY <1>0, <1>4, <1>a DEF DeleteBay, JobOK
<1>5. CASE RenameLegacy
  <2> DEFINE qty == seed[row].qty
  <2>1. \A m \in modules \ modules' : m.tag \in Own(row)
    BY <1>0, <1>5, RowQty, Renaming DEF RenameLegacy
  <2>2. ASSUME NEW m \in modules' \ modules PROVE m.tag \in Own(row)
    <3>1. PICK old \in Legacy(row, qty) : m = [old EXCEPT !.tag = Kept(row, qty)]
      BY <1>5 DEF RenameLegacy, Kept
    <3> QED
      BY <1>0, <3>1, RowQty, Renaming
  <2>3. bays' = bays
    BY <1>5 DEF RenameLegacy
  <2> QED
    BY <1>a, <2>1, <2>2, <2>3
<1>6. ASSUME NEW t \in units, SeatUnit(t)
      PROVE  modules' = modules /\ \A b \in (bays \ bays') \cup (bays' \ bays) : b[2] \in Own(row)
  <2>1. t \in Own(row)
    BY <1>0, RowQty DEF JobOK
  <2>2. bays' = bays \cup ({BayOf(seat, t)} \ {NoBay}) /\ modules' = modules
    BY <1>6 DEF SeatUnit
  <2>3. BayOf(seat, t) # NoBay => BayOf(seat, t)[2] = t
    BY DEF BayOf
  <2> QED
    BY <2>1, <2>2, <2>3
<1>7. CASE UpsertUnit \/ RecordPurchase
  <2>1. unit \in Own(row)
    BY <1>0, <1>7, RowQty DEF UpsertUnit, RecordPurchase, JobOK, InUnit
  <2>2. bays' = bays /\ \A m \in (modules \ modules') \cup (modules' \ modules) : m.tag = unit
    BY <1>0, <1>7, WritingOne
  <2> QED
    BY <1>a, <2>1, <2>2
<1>8. ASSUME NEW b \in bays, SweepUnit(b) \/ SweepRow(b)
      PROVE  modules' = modules /\ bays' = bays \ {b} /\ b[2] \in Own(row)
  <2>1. b[2] \in Own(row)
    BY <1>0, <1>8, RowQty DEF SweepUnit, SweepRow, RowOrphans, OrphanBays, JobOK, InUnit
  <2> QED
    BY <1>8, <2>1 DEF SweepUnit, SweepRow
<1> QED
  BY <1>a, <1>2, <1>3, <1>4, <1>5, <1>6, <1>7, <1>8 DEF Hardware

\* What keeps the job through with a row: its Modules stay where they are and its
\* bays stay, although more may become known of a unit.
LEMMA RowKept ==
    ASSUME TypeInv, NEW h \in Rows, RowOK(h), UNCHANGED <<tables, devices>>, Discovered' = Discovered,
           \A m \in modules' : Owns(h, m.tag) => \E n \in modules : n.tag = m.tag /\ n.bay = m.bay,
           \A m \in modules : Owns(h, m.tag) => \E n \in modules' : n.tag = m.tag /\ n.bay = m.bay
                                                                    /\ (Agrees(tables[h].gives, m.known) => Agrees(tables[h].gives, n.known)),
           \A b \in (bays \ bays') \cup (bays' \ bays) : b[2] \notin Own(h)
    PROVE  RowOK(h)'
<1>1. Seat(h)' = Seat(h) /\ Listing(h)' = Listing(h) /\ (Withheld(h, Seat(h))' <=> Withheld(h, Seat(h)))
  BY DEF Seat, SeatOf, Listing, Withheld, Reporting
<1>2. tables[h].qty \in 1 .. MaxQty
  BY DEF TypeInv, DataOK, Row
<1>3. Listing(h) \subseteq Own(h) /\ Firsts(h) \subseteq Own(h)
  BY <1>2, TagTypes DEF Listing, Firsts
<1>4. CASE Withheld(h, Seat(h))
  <2>1. \A m \in OwnedBy(h) : ~In(m, Seat(h))
    BY <1>4 DEF RowOK
  <2>2. \A m \in OwnedBy(h)' : ~In(m, Seat(h))
    BY <2>1 DEF OwnedBy, In
  <2> QED
    BY <1>1, <1>4, <2>2 DEF RowOK, OwnedBy, In
<1>5. CASE ~Withheld(h, Seat(h))
  <2>1. /\ \A m \in OwnedBy(h) : m.tag \in Listing(h)
        /\ \A t \in Listing(h) : UnitOK(h, t)
        /\ \A b \in bays : b[2] \notin Firsts(h) \ Listing(h)
    BY <1>5 DEF RowOK
  <2>2. \A m \in OwnedBy(h)' : m.tag \in Listing(h)
    BY <2>1 DEF OwnedBy
  <2>3. ASSUME NEW t \in Listing(h) PROVE UnitOK(h, t)'
    <3>1. t \in Own(h) /\ Owns(h, t)
      BY <1>3 DEF Own
    <3>2. PICK m \in modules : m.tag = t /\ m.bay = BayOf(Seat(h), t) /\ Agrees(tables[h].gives, m.known)
      BY <2>1 DEF UnitOK
    <3>3. PICK n \in modules' : n.tag = t /\ n.bay = m.bay /\ Agrees(tables[h].gives, n.known)
      BY <3>1, <3>2
    <3>4. \E x \in modules' : x.tag = t /\ x.bay = BayOf(Seat(h), t)' /\ Agrees(tables'[h].gives, x.known)
      BY <1>1, <3>2, <3>3 DEF BayOf
    <3>5. ASSUME Seat(h) # Shelf PROVE <<Seat(h), t>> \in bays' /\ \A b \in bays' : b[2] = t => b[1] = Seat(h)
      BY <2>1, <3>1, <3>5 DEF UnitOK
    <3> QED
      BY <1>1, <3>4, <3>5 DEF UnitOK
  <2>4. \A b \in bays' : b[2] \notin Firsts(h) \ Listing(h)
    BY <1>3, <2>1
  <2> QED
    BY <1>1, <1>5, <2>2, <2>3, <2>4 DEF RowOK, OwnedBy, Firsts
<1> QED
  BY <1>4, <1>5

\* A step of the job leaves the job through with every other row.
LEMMA OtherRows ==
    ASSUME TypeInv, Hardware, NEW h \in Rows, h # row, RowOK(h)
    PROVE  RowOK(h)'
<1>1. /\ UNCHANGED <<tables, devices, items>>
      /\ \A m \in (modules \ modules') \cup (modules' \ modules) : m.tag \in Own(row)
      /\ \A b \in (bays \ bays') \cup (bays' \ bays) : b[2] \in Own(row)
  BY Touches
<1>2. \A t \in Own(row) : ~Owns(h, t) /\ t \notin Own(h)
  BY DEF Own, Owns
<1>3. \A m \in (modules \ modules') \cup (modules' \ modules) : ~Owns(h, m.tag)
  BY <1>1, <1>2
<1>4. \A b \in (bays \ bays') \cup (bays' \ bays) : b[2] \notin Own(h)
  BY <1>1, <1>2
<1> QED
  BY <1>1, <1>3, <1>4, RowKept DEF Discovered

\* While units are placed, a bay named after one of them holds no other Module.
LEMMA BayNames ==
    ASSUME TypeInv, UniqueInv, pc \in {"units"} \cup InUnit, NEW t \in Units(row),
           NEW m \in modules, m.tag # t, m.bay # NoBay
    PROVE  m.bay[2] # t
<1> SUFFICES ASSUME m.bay[2] = t PROVE FALSE
  OBVIOUS
<1>0. DataOK /\ JobOK /\ NamesOK /\ row \in Rows /\ seed[row].qty \in 1 .. MaxQty /\ Units(row) \subseteq Own(row)
  BY RowQty DEF TypeInv, Units
<1>1. {t, m.tag} \subseteq {<<m.tag[1], 0>>, <<m.tag[1], 1>>}
  BY <1>0 DEF NamesOK, NamedBy
<1>2. t[1] = row /\ t[1] = m.tag[1]
  BY <1>0, <1>1 DEF Own, Owns
<1>3. {t, m.tag} \subseteq {<<row, 0>>, <<row, 1>>}
  BY <1>1, <1>2
<1>4. m \in OwnedBy(row)
  <2>1. m.tag \in Own(row)
    BY <1>0, <1>3, TagTypes
  <2> QED
    BY <2>1 DEF OwnedBy, Own
<1>5. m.tag \in Units(row)
  BY <1>4 DEF UniqueInv, Units
<1> QED
  BY <1>0, <1>3, <1>5, UnitNames DEF Units

\* Running again: once the job is through with all rows, none of its steps writes.
LEMMA RerunStep ==
    ASSUME TypeInv, UniqueInv, FirstInv, PlaceInv, Hardware, hwSettled = "yes"
    PROVE  UNCHANGED database
<1>0. DataOK /\ JobOK /\ NamesOK /\ row \in Rows /\ \A m \in modules : m \in Module
  BY DEF TypeInv, JobOK, DataOK
<1>1. CASE StartHardware \/ (\E h \in Rows : TakeRow(h)) \/ WithheldDone \/ SurplusDone \/ UnitDone \/ RowDone
           \/ FinishHardware
  BY <1>1 DEF StartHardware, TakeRow, WithheldDone, SurplusDone, UnitDone, RowDone, FinishHardware
<1>2. CASE pc \notin RowPcs
  <2>1. StartHardware \/ (\E h \in Rows : TakeRow(h)) \/ FinishHardware
    BY <1>2 DEF Hardware, RowPcs, InUnit, DeleteWithheld, DeleteBay, WithheldDone, RenameLegacy, DropSurplus, SurplusDone,
       SeatUnit, UpsertUnit, RecordPurchase, SweepUnit, UnitDone, SweepRow, RowDone
  <2> QED
    BY <1>1, <2>1
<1>3. CASE pc \in RowPcs
  <2>1. HandOK /\ UnitsOK /\ IdleOK /\ RowOK(row) /\ seed = tables /\ seat = Seat(row)
    BY <1>0, <1>3 DEF PlaceInv, RowsOK, RunOK, HandOK
  <2>2. Units(row) = Listing(row)
    BY <2>1 DEF Units, Listing
  <2>3. ASSUME NEW m \in modules, DeleteWithheld(m) PROVE FALSE
    <3>1. Withheld(row, Seat(row)) /\ m \in OwnedBy(row) /\ In(m, Seat(row))
      BY <2>1, <2>3 DEF DeleteWithheld, HandOK
    <3> QED
      BY <2>1, <3>1 DEF RowOK
  <2>4. ~DeleteBay
    BY <2>1 DEF DeleteBay, IdleOK
  <2>5. CASE pc \in {"rename", "surplus", "units"} \cup InUnit
    <3>1. ~Withheld(row, Seat(row))
      BY <2>1, <2>5 DEF HandOK, InUnit
    <3>2. /\ \A m \in OwnedBy(row) : m.tag \in Units(row)
          /\ \A t \in Units(row) : UnitOK(row, t)
          /\ \A b \in bays : b[2] \notin Firsts(row) \ Units(row)
      BY <2>1, <2>2, <3>1 DEF RowOK
    <3>3. CASE RenameLegacy
      <4> DEFINE qty == seed[row].qty
      <4>1. ASSUME NEW m \in Legacy(row, qty) PROVE FALSE
        <5>1. m \in OwnedBy(row) /\ m.tag = <<row, IF qty > 1 THEN 0 ELSE 1>>
          BY <1>0, <4>1, RowQty, Renaming DEF OwnedBy, Own
        <5>2. m.tag \notin Units(row)
          BY <5>1 DEF Units, UnitTags
        <5> QED
          BY <3>2, <5>1, <5>2
      <4> QED
        BY <3>3, <4>1 DEF RenameLegacy, database
    <3>4. ASSUME NEW m \in modules, DropSurplus(m) PROVE FALSE
      BY <3>2, <3>4 DEF DropSurplus, FirstInv, Chosen
    <3>5. ASSUME NEW t \in units, SeatUnit(t) PROVE UNCHANGED database
      <4>1. t \in Units(row)
        BY <1>0 DEF JobOK, Units
      <4>2. seat # Shelf => BayOf(seat, t) \in bays
        BY <2>1, <3>2, <4>1 DEF UnitOK, BayOf
      <4>3. bays' = bays \cup ({BayOf(seat, t)} \ {NoBay}) /\ UNCHANGED <<devices, modules, items>>
        BY <3>5 DEF SeatUnit
      <4>4. bays' = bays
        BY <4>2, <4>3 DEF BayOf
      <4> QED
        BY <4>3, <4>4 DEF database
    <3>6. CASE UpsertUnit
      <4>1. unit \in Units(row)
        BY <1>0, <3>6 DEF UpsertUnit, JobOK, Units, InUnit
      <4>2. PICK m \in modules : m.tag = unit /\ m.bay = BayOf(seat, unit) /\ Agrees(seed[row].gives, m.known)
        BY <2>1, <3>2, <4>1 DEF UnitOK
      <4>3. {n \in modules : n.tag = unit} = {m}
        BY <4>2 DEF UniqueInv, NeverCollides
      <4>4. Written = m
        <5>1. Written.known = m.known
          <6>1. Known(unit) = m.known
            BY <4>2, UniquelyKnown
          <6>2. m.known \in Record /\ seed[row].gives \in Record
            BY <1>0, ModuleFields, RowQty
          <6>3. Agrees(Serial, m.known) /\ Serial \in Record
            BY <4>2, <6>2, Parting DEF Serial
          <6>4. Merged(m.known, Serial) = m.known
            BY <6>2, <6>3, Merging
          <6> QED
            BY <1>0, <6>1, <6>4, Writing
        <5>2. Written \in Module /\ Written.tag = m.tag /\ Written.bay = m.bay
          BY <1>0, <4>2, Writing
        <5>3. m \in Module
          BY <1>0
        <5> QED
          BY <5>1, <5>2, <5>3 DEF Module
      <4>5. modules' = modules
        BY <3>6, <4>3, <4>4, Upserting
      <4> QED
        BY <3>6, <4>5 DEF UpsertUnit, database
    <3>7. CASE RecordPurchase
      <4>1. unit \in Units(row)
        BY <1>0, <3>7 DEF RecordPurchase, JobOK, Units, InUnit
      <4>2. PICK u \in modules : u.tag = unit /\ Agrees(seed[row].gives, u.known)
        BY <2>1, <3>2, <4>1 DEF UnitOK
      <4>3. ASSUME NEW m \in modules PROVE Purchased(m) = m
        <5>1. CASE m.tag # unit
          BY <1>0, <3>7, <5>1, Purchasing
        <5>2. CASE m.tag = unit
          <6>1. m = u
            BY <4>2, <5>2 DEF UniqueInv, NeverCollides
          <6>2. m.known \in Record /\ seed[row].gives \in Record
            BY <1>0, ModuleFields, RowQty
          <6>3. Agrees(Purchase, m.known) /\ Purchase \in Record
            BY <4>2, <6>1, <6>2, Parting DEF Purchase
          <6>4. Purchased(m).known = m.known
            BY <1>0, <3>7, <5>2, <6>2, <6>3, Merging, Purchasing
          <6>5. Purchased(m) \in Module /\ Purchased(m).tag = m.tag /\ Purchased(m).bay = m.bay
            BY <1>0, <3>7, Purchasing
          <6> QED
            BY <1>0, <6>4, <6>5 DEF Module
        <5> QED
          BY <5>1, <5>2
      <4>4. modules' = modules
        <5>1. modules' = {Purchased(m) : m \in modules}
          BY <1>0, <3>7, Purchasing
        <5> QED
          BY <4>3, <5>1
      <4> QED
        BY <3>7, <4>4 DEF RecordPurchase, database
    <3>8. ASSUME NEW b \in bays, SweepUnit(b) PROVE FALSE
      <4>1. unit \in Units(row) /\ b[2] = unit /\ b[1] # seat
        BY <1>0, <3>8 DEF SweepUnit, OrphanBays, JobOK, Units, InUnit
      <4>2. UnitOK(row, unit)
        BY <3>2, <4>1
      <4>3. seat = Shelf
        BY <2>1, <4>1, <4>2 DEF UnitOK
      <4> QED
        BY <1>0, <3>8, <4>3 DEF SweepUnit, JobOK
    <3>9. ASSUME NEW b \in bays, SweepRow(b) PROVE FALSE
      <4>1. pc = "units" /\ b[2] \in stale
        BY <3>9 DEF SweepRow, RowOrphans, OrphanBays
      <4>2. stale \subseteq Firsts(row) \ Units(row)
        BY <2>1, <4>1 DEF IdleOK, HandOK
      <4> QED
        BY <3>2, <4>1, <4>2
    <3> QED
      BY <1>1, <2>3, <2>4, <3>3, <3>4, <3>5, <3>6, <3>7, <3>8, <3>9 DEF Hardware
  <2>6. CASE pc \in {"withheld", "unbay"}
    <3>1. (\E m \in modules : DeleteWithheld(m)) \/ DeleteBay \/ WithheldDone
      BY <2>6 DEF Hardware, StartHardware, TakeRow, RenameLegacy, DropSurplus, SurplusDone, SeatUnit, UpsertUnit,
         RecordPurchase, SweepUnit, UnitDone, SweepRow, RowDone, FinishHardware
    <3> QED
      BY <1>1, <2>3, <2>4, <3>1
  <2> QED
    BY <1>3, <2>5, <2>6 DEF RowPcs
<1> QED
  BY <1>2, <1>3

LEMMA RowsKept ==
    ASSUME TypeInv, UniqueInv, FirstInv, PlaceInv, Hardware, NEW h \in Rows, RowOK(h),
           h # row \/ hwSettled = "yes"
    PROVE  RowOK(h)'
<1>1. CASE h # row
  BY <1>1, OtherRows
<1>2. CASE hwSettled = "yes"
  <2>1. UNCHANGED <<tables, devices, modules, bays, items>>
    BY <1>2, RerunStep, Touches DEF database
  <2> QED
    BY <2>1, RowKept DEF Discovered
<1> QED
  BY <1>1, <1>2

\* The placed units of the row stay placed when another one gets its bay, when
\* another one is written, and when the bays the row stopped using are swept.
LEMMA UnitKept ==
    ASSUME NEW h \in Rows, NEW t, UnitOK(h, t), UNCHANGED <<tables, devices>>,
           \A m \in modules : m.tag = t => m \in modules',
           \A b \in (bays \ bays') \cup (bays' \ bays) : b[2] # t
    PROVE  UnitOK(h, t)'
<1>1. Seat(h)' = Seat(h)
  BY DEF Seat, SeatOf
<1>2. PICK m \in modules : m.tag = t /\ m.bay = BayOf(Seat(h), t) /\ Agrees(tables[h].gives, m.known)
  BY DEF UnitOK
<1>3. \E x \in modules' : x.tag = t /\ x.bay = BayOf(Seat(h), t)' /\ Agrees(tables'[h].gives, x.known)
  BY <1>1, <1>2 DEF BayOf
<1>4. ASSUME Seat(h) # Shelf PROVE <<Seat(h), t>> \in bays' /\ \A b \in bays' : b[2] = t => b[1] = Seat(h)
  BY <1>4 DEF UnitOK
<1> QED
  BY <1>1, <1>3, <1>4 DEF UnitOK

\* A bay, and no bay.
LEMMA SeatsAreBays == \A c, t : <<c, t>> # NoBay
BY DEF NoBay

\* A unit that is installed has no bay elsewhere once they are swept.
LEMMA OnlySeat ==
    ASSUME TypeInv, UniqueInv, UnitDone, seat # Shelf, NEW b \in bays, b[2] = unit
    PROVE  b[1] = seat
<1> SUFFICES ASSUME b[1] # seat PROVE FALSE
  OBVIOUS
<1>0. DataOK /\ JobOK /\ pc = "sweep" /\ unit \in Units(row) /\ b = <<b[1], b[2]>>
  BY DEF TypeInv, DataOK, JobOK, UnitDone, Units, InUnit
<1>1. PICK m \in modules : m.bay = b
  BY DEF UnitDone, OrphanBays
<1>2. m.bay # NoBay
  <2>1. <<b[1], b[2]>> # NoBay
    BY SeatsAreBays
  <2> QED
    BY <1>0, <1>1, <2>1
<1>3. CASE m.tag = unit
  <2>1. PICK n \in modules : n.tag = unit /\ n.bay = BayOf(seat, unit)
    BY <1>0 DEF UniqueInv
  <2>2. m.bay = <<seat, unit>>
    BY <1>3, <2>1 DEF UniqueInv, NeverCollides, BayOf
  <2> QED
    BY <1>1, <2>2
<1>4. CASE m.tag # unit
  BY <1>0, <1>1, <1>2, <1>4, BayNames DEF InUnit
<1> QED
  BY <1>3, <1>4

\* The unit in hand, once the job is through with it: on the shelf when its
\* purchase is recorded, in a chassis when its other bays are swept.
LEMMA UnitPlaced ==
    ASSUME TypeInv, UniqueInv, seed = tables, HandOK, UnitsOK, (RecordPurchase /\ seat = Shelf) \/ UnitDone
    PROVE  UnitOK(row, unit)'
<1>0. DataOK /\ JobOK /\ row \in Rows /\ unit \in Units(row) /\ pc \in {"record", "sweep"} /\ seat = Seat(row)
  BY DEF TypeInv, JobOK, RecordPurchase, UnitDone, Units, HandOK, InUnit
<1>1. PICK u \in modules : u.tag = unit /\ u.bay = BayOf(seat, unit)
  BY <1>0 DEF UniqueInv
<1>2. UNCHANGED <<tables, devices, row, unit, bays>>
  BY DEF RecordPurchase, UnitDone, tablesVars, jobVars, database
<1>3. Seat(row)' = Seat(row) /\ BayOf(Seat(row), unit)' = BayOf(Seat(row), unit)
  BY <1>2 DEF Seat, SeatOf, BayOf
<1>4. \E m \in modules' : m.tag = unit /\ m.bay = BayOf(seat, unit) /\ Agrees(seed[row].gives, m.known)
  <2>1. CASE RecordPurchase
    <3>1. Purchased(u) \in modules' /\ Purchased(u).tag = unit /\ Purchased(u).bay = BayOf(seat, unit)
          /\ Purchased(u).known = Merged(u.known, Purchase)
      BY <1>0, <1>1, <2>1, Purchasing
    <3>2. Agrees(Serial, u.known) /\ u.known \in Record /\ seed[row].gives \in Record
      BY <1>0, <1>1, <2>1, ModuleFields, RowQty DEF UnitsOK, RecordPurchase, DataOK
    <3>3. Agrees(seed[row].gives, Merged(u.known, Purchase))
      BY <3>2, Parting DEF Serial, Purchase
    <3> QED
      BY <3>1, <3>3
  <2>2. CASE UnitDone
    BY <1>1, <2>2 DEF UnitDone, UnitsOK, database
  <2> QED
    BY <2>1, <2>2
<1>5. ASSUME seat # Shelf PROVE <<seat, unit>> \in bays /\ \A b \in bays : b[2] = unit => b[1] = seat
  <2>1. UnitDone
    BY <1>5
  <2>2. <<seat, unit>> \in bays
    BY <1>0, <1>5 DEF UnitsOK, InUnit
  <2> QED
    BY <1>5, <2>1, <2>2, OnlySeat
<1> QED
  BY <1>0, <1>2, <1>3, <1>4, <1>5 DEF UnitOK

\* The row is complete once its last unit is placed and its old bays are swept.
LEMMA RowComplete ==
    ASSUME TypeInv, UniqueInv, seed = tables, HandOK, UnitsOK, RowDone
    PROVE  RowOK(row)'
<1>0. DataOK /\ NamesOK /\ JobOK /\ row \in Rows /\ pc = "units" /\ units = {} /\ seat = Seat(row) /\ ~Withheld(row, Seat(row))
  BY DEF TypeInv, JobOK, RowDone, HandOK
<1>1. Units(row) = Listing(row)
  BY DEF Units, Listing
<1>2. OrphanBays(stale, Shelf, modules) = {} /\ UNCHANGED <<tables, devices, modules, bays, items, row>>
  BY DEF RowDone, RowOrphans, tablesVars, jobVars, database
<1>3. /\ \A m \in OwnedBy(row) : m.tag \in Units(row)
      /\ \A t \in Units(row) : UnitOK(row, t)
  BY <1>0 DEF UniqueInv, Units, UnitsOK, Through, InUnit
<1>4. \A t \in Units(row) : UnitOK(row, t)'
  BY <1>0, <1>2, <1>3, UnitKept
<1>5. ASSUME NEW b \in bays, b[2] \in Firsts(row) \ Units(row) PROVE b \in OrphanBays(stale, Shelf, modules)
  <2>1. b \in devices \X Tags /\ b[1] # Shelf /\ b[2] \in stale /\ b # NoBay
    BY <1>0, <1>5, HardwareAssumption DEF DataOK, HandOK, NoBay
  <2>2. ASSUME NEW m \in modules, m.bay = b PROVE FALSE
    <3>1. m \in Module /\ NamedBy(m) /\ m.bay # NoBay
      BY <1>0, <2>1, <2>2 DEF DataOK, NamesOK
    <3>2. m.tag \in Firsts(row)
      BY <1>5, <2>2, <3>1 DEF NamedBy, Firsts
    <3>3. m.tag \in Units(row)
      BY <1>0, <1>3, <3>1, <3>2, FirstTags DEF OwnedBy
    <3>4. PICK n \in modules : n.tag = m.tag /\ n.bay = BayOf(Seat(row), m.tag)
      BY <1>3, <3>3 DEF UnitOK
    <3>5. n = m
      BY <3>4 DEF UniqueInv, NeverCollides
    <3>6. b[2] = m.tag
      BY <2>2, <3>1, <3>4, <3>5 DEF BayOf
    <3> QED
      BY <1>5, <3>3, <3>6
  <2> QED
    BY <2>1, <2>2 DEF OrphanBays
<1>6. /\ Seat(row)' = Seat(row) /\ Listing(row)' = Listing(row) /\ OwnedBy(row)' = OwnedBy(row)
      /\ (Withheld(row, Seat(row))' <=> Withheld(row, Seat(row)))
  BY <1>2 DEF Seat, SeatOf, Listing, OwnedBy, Withheld, Reporting, Discovered
<1>7. \A b \in bays' : b[2] \notin Firsts(row) \ Listing(row)
  BY <1>1, <1>2, <1>5
<1>8. row' = row /\ Firsts(row)' = Firsts(row)
  BY <1>2 DEF Firsts
<1>9. \A t \in Listing(row)' : UnitOK(row, t)'
  BY <1>1, <1>4, <1>6
<1> QED
  BY <1>0, <1>1, <1>3, <1>6, <1>7, <1>8, <1>9 DEF RowOK

\* The job goes on with the row in hand.
LEMMA HandKept ==
    ASSUME TypeInv, Hardware, HandOK, UNCHANGED <<seed, left, row, seat, stale>>,
           pc' \in {"withheld", "unbay"} <=> pc \in {"withheld", "unbay"}
    PROVE  HandOK'
<1>1. UNCHANGED <<tables, devices, items>>
  BY Touches
<1>2. Seat(row)' = Seat(row) /\ (Withheld(row, seat)' <=> Withheld(row, seat)) /\ (Listed(row)' <=> Listed(row))
  BY <1>1 DEF Seat, SeatOf, Withheld, Reporting, Discovered, Listed
<1> QED
  BY <1>1, <1>2 DEF HandOK, Units, Firsts

LEMMA PlaceHardware ==
    ASSUME TypeInv, UniqueInv, FirstInv, PlaceInv, Hardware
    PROVE  PlaceInv'
<1> SUFFICES ASSUME hwSettled' # "no" PROVE RunOK' /\ RowsOK' /\ (pc' \in RowPcs => HandOK' /\ UnitsOK' /\ IdleOK')
  BY DEF PlaceInv
<1>0. /\ JobOK /\ DataOK /\ row \in Rows /\ hwSettled \in Settled
      /\ UNCHANGED <<tables, gathered, devices, items>>
  BY Touches DEF TypeInv, JobOK, HistoryOK
<1>a. \A h \in Rows : Listed(h)' <=> Listed(h)
  BY <1>0 DEF Listed
<1>1. CASE StartHardware
  <2>1. /\ pc = "idle" /\ UNCHANGED <<tables, devices, modules, bays, items>>
        /\ left' = {h \in Rows : Listed(h)} /\ pc' \in {"idle", "rows"}
        /\ (pc' = "rows" => seed' = tables /\ hwSettled' = Running(hwSettled))
        /\ (pc' = "idle" => left' = {} /\ hwSettled' = hwSettled)
    BY <1>1 DEF StartHardware, database, tablesVars, Listed
  <2>2. RunOK'
    <3>1. hwSettled' = "running" => pc' = "rows"
      BY <1>0, <2>1 DEF PlaceInv, RunOK, RowPcs, InUnit, Settled
    <3> QED
      BY <1>a, <2>1, <3>1 DEF RunOK, RowPcs, InUnit
  <2>3. RowsOK'
    <3> SUFFICES ASSUME NEW h \in Rows, Listed(h), hwSettled' = "yes" \/ h \notin left' PROVE RowOK(h)'
      BY <1>a, <2>1 DEF RowsOK, InHand, RowPcs, InUnit
    <3>1. hwSettled = "yes"
      BY <1>0, <2>1 DEF Running, Settled
    <3>2. RowOK(h)
      BY <3>1 DEF PlaceInv, RowsOK
    <3> QED
      BY <3>1, <3>2, RowsKept
  <2> QED
    BY <2>1, <2>2, <2>3 DEF RowPcs, InUnit
<1>2. CASE FinishHardware
  <2>1. pc = "rows" /\ left = {} /\ pc' = "idle" /\ left' = {} /\ hwSettled' = Done(hwSettled) /\ hwSettled # "no"
        /\ UNCHANGED <<tables, devices, modules, bays, items>>
    BY <1>2 DEF FinishHardware, Done, Forgotten, database, tablesVars
  <2>2. hwSettled' = "yes"
    BY <2>1 DEF Done
  <2>3. RunOK'
    BY <2>1, <2>2 DEF RunOK, RowPcs, InUnit
  <2>4. ASSUME NEW h \in Rows, Listed(h) PROVE RowOK(h)'
    <3>1. RowOK(h)
      BY <2>1, <2>4 DEF PlaceInv, RowsOK, InHand, RowPcs, InUnit
    <3> QED
      BY <2>1, <3>1, RowKept DEF Discovered
  <2> QED
    BY <1>a, <2>1, <2>3, <2>4 DEF RowsOK, RowPcs, InUnit
<1>3. ASSUME NEW h \in Rows, TakeRow(h) PROVE RunOK' /\ RowsOK' /\ HandOK' /\ UnitsOK' /\ IdleOK'
  <2>1. /\ pc = "rows" /\ h \in left /\ left' = left \ {h} /\ row' = h /\ seat' = SeatOf(seed[h].place)
        /\ units' = Units(h) /\ pc' = IF Withheld(h, seat') THEN "withheld" ELSE "rename"
        /\ stale' = ({m.tag : m \in OwnedBy(h)} \cup Firsts(h)) \ Units(h)
        /\ UNCHANGED <<tables, devices, modules, bays, items, seed, hwSettled>>
    BY <1>3 DEF TakeRow, Units, Firsts, database, tablesVars, history
  <2>2. seed = tables /\ left \subseteq {i \in Rows : Listed(i)} /\ RowsOK /\ RunOK /\ hwSettled # "no"
    BY <2>1 DEF PlaceInv, RunOK
  <2>3. /\ Listed(h) /\ seat' = Seat(h) /\ Seat(h)' = Seat(h)
        /\ (Withheld(h, Seat(h))' <=> Withheld(h, Seat(h)))
    BY <2>1, <2>2 DEF Seat, SeatOf, Withheld, Reporting, Discovered
  <2>4. RunOK'
    BY <1>a, <2>1, <2>2 DEF RunOK, RowPcs, InUnit
  <2>5. RowsOK'
    <3> SUFFICES ASSUME NEW i \in Rows, Listed(i), hwSettled = "yes" \/ (i \notin left' /\ ~InHand(i)') PROVE RowOK(i)'
      BY <1>a, <2>1 DEF RowsOK
    <3>1. RowOK(i)
      BY <2>1, <2>2 DEF RowsOK, InHand, RowPcs, InUnit
    <3> QED
      BY <2>1, <3>1, RowKept DEF Discovered
  <2>6. HandOK'
    <3>1. Units(row)' = Units(h) /\ Firsts(row)' = Firsts(h)
      BY <2>1 DEF Units, Firsts
    <3>2. Firsts(h) \ Units(h) \subseteq stale' /\ stale' \cap Units(h) = {}
      BY <2>1
    <3>3. Listed(row)' /\ row' \notin left' /\ seat' = Seat(row)'
      BY <1>a, <2>1, <2>3 DEF Seat, SeatOf
    <3>4. Withheld(row, seat)' <=> pc' \in {"withheld", "unbay"}
      BY <2>1, <2>3 DEF Withheld, Reporting, Discovered
    <3> QED
      BY <3>1, <3>2, <3>3, <3>4 DEF HandOK
  <2>7. UnitsOK'
    BY <2>1 DEF UnitsOK, InUnit
  <2>8. IdleOK'
    <3> SUFFICES ASSUME hwSettled = "yes", ~Withheld(h, Seat(h)) PROVE stale' \subseteq Firsts(h)
      BY <2>1, <2>3 DEF IdleOK, Firsts
    <3>1. RowOK(h)
      BY <2>2, <2>3 DEF RowsOK
    <3>2. \A m \in OwnedBy(h) : m.tag \in Units(h)
      BY <2>2, <3>1 DEF RowOK, Units, Listing
    <3> QED
      BY <2>1, <3>2
  <2> QED
    BY <2>4, <2>5, <2>6, <2>7, <2>8
\* The job goes on with the row: other rows stay as they are.
<1>4. ASSUME pc \in RowPcs, pc' \in RowPcs, UNCHANGED <<seed, left, row, seat, stale, hwSettled>>,
             pc' \in {"withheld", "unbay"} <=> pc \in {"withheld", "unbay"}
      PROVE  RunOK' /\ RowsOK' /\ HandOK' /\ (pc' # "unbay" => IdleOK')
  <2>0. RunOK /\ RowsOK /\ HandOK /\ IdleOK
    BY <1>4 DEF PlaceInv
  <2>1. RunOK'
    BY <1>0, <1>4, <1>a, <2>0 DEF RunOK
  <2>2. ASSUME NEW h \in Rows, Listed(h), hwSettled = "yes" \/ (h \notin left /\ h # row) PROVE RowOK(h)'
    <3>1. RowOK(h) /\ (h # row \/ hwSettled = "yes")
      BY <2>0, <2>2 DEF RowsOK, InHand
    <3> QED
      BY <3>1, RowsKept
  <2>3. RowsOK'
    BY <1>4, <1>a, <2>2 DEF RowsOK, InHand
  <2>4. HandOK'
    BY <1>4, <2>0, HandKept
  <2>5. pc' # "unbay" => IdleOK'
    <3> SUFFICES ASSUME pc' # "unbay" PROVE IdleOK'
      OBVIOUS
    <3>1. pc' # "withheld" => pc # "withheld"
      BY <1>4
    <3> QED
      BY <1>4, <2>0, <3>1 DEF IdleOK, Firsts
  <2> QED
    BY <2>1, <2>3, <2>4, <2>5
\* The job is through with the row.
<1>5. ASSUME pc \in RowPcs, pc' = "rows", UNCHANGED <<seed, left, row, hwSettled>>, RowOK(row)'
      PROVE  RunOK' /\ RowsOK'
  <2>0. RunOK /\ RowsOK
    BY <1>5 DEF PlaceInv
  <2>1. RunOK'
    BY <1>0, <1>5, <1>a, <2>0 DEF RunOK, RowPcs, InUnit
  <2>2. ASSUME NEW h \in Rows, h # row, Listed(h), hwSettled = "yes" \/ h \notin left PROVE RowOK(h)'
    <3>1. RowOK(h)
      BY <2>0, <2>2 DEF RowsOK, InHand
    <3> QED
      BY <2>2, <3>1, RowsKept
  <2>3. ASSUME NEW h \in Rows, h = row PROVE RowOK(h)'
    <3>1. row' = h
      BY <1>5, <2>3
    <3> QED
      BY <1>5, <3>1 DEF RowOK, Withheld, Seat, OwnedBy, Listing, Firsts, UnitOK, BayOf, SeatOf
  <2> QED
    BY <1>5, <1>a, <2>1, <2>2, <2>3 DEF RowsOK
<1>6. ASSUME pc \in RowPcs PROVE RunOK /\ RowsOK /\ HandOK /\ UnitsOK /\ IdleOK /\ hwSettled # "no" /\ seed = tables
  <2>1. hwSettled # "no"
    <3>1. ~FinishHardware /\ ~StartHardware
      BY <1>6 DEF FinishHardware, StartHardware, RowPcs, InUnit
    <3>2. hwSettled' = hwSettled
      BY <3>1 DEF Hardware, TakeRow, DeleteWithheld, DeleteBay, WithheldDone, RenameLegacy, DropSurplus, SurplusDone,
         SeatUnit, UpsertUnit, RecordPurchase, SweepUnit, UnitDone, SweepRow, RowDone, history
    <3> QED
      BY <3>2
  <2> QED
    BY <1>6, <2>1 DEF PlaceInv, RunOK
<1>7. ASSUME NEW m \in modules, DeleteWithheld(m) PROVE RunOK' /\ RowsOK' /\ HandOK' /\ UnitsOK' /\ IdleOK'
  <2>1. /\ pc = "withheld" /\ pc' = "unbay" /\ UNCHANGED <<seed, left, row, seat, stale, hwSettled>>
        /\ m \in OwnedBy(row) /\ In(m, seat)
    BY <1>7 DEF DeleteWithheld
  <2>2. RunOK' /\ RowsOK' /\ HandOK'
    BY <1>4, <2>1 DEF RowPcs, InUnit
  <2>3. IdleOK'
    <3> SUFFICES ASSUME hwSettled = "yes" PROVE FALSE
      BY <2>1 DEF IdleOK
    <3>1. RowOK(row) /\ seat = Seat(row) /\ Withheld(row, Seat(row))
      BY <1>0, <1>6, <2>1 DEF RowsOK, HandOK, RowPcs, InUnit
    <3> QED
      BY <2>1, <3>1 DEF RowOK
  <2> QED
    BY <2>1, <2>2, <2>3 DEF UnitsOK, InUnit
<1>8. CASE DeleteBay \/ RenameLegacy \/ (\E m \in modules : DropSurplus(m))
  <2>1. /\ pc \in RowPcs /\ pc' \in {"withheld", "surplus"} /\ UNCHANGED <<seed, left, row, seat, stale, hwSettled>>
        /\ (pc' \in {"withheld", "unbay"} <=> pc \in {"withheld", "unbay"})
    BY <1>8 DEF DeleteBay, RenameLegacy, DropSurplus, RowPcs, InUnit, jobVars, history
  <2>2. RunOK' /\ RowsOK' /\ HandOK' /\ IdleOK'
    BY <1>4, <2>1 DEF RowPcs, InUnit
  <2> QED
    BY <2>1, <2>2 DEF UnitsOK, InUnit
<1>9. CASE SurplusDone
  <2>1. pc = "surplus" /\ pc' = "units" /\ UNCHANGED <<seed, left, row, seat, stale, hwSettled, units>>
    BY <1>9 DEF SurplusDone, jobVars, history
  <2>2. RunOK' /\ RowsOK' /\ HandOK' /\ IdleOK'
    BY <1>4, <2>1 DEF RowPcs, InUnit
  <2>3. Through' = {}
    BY <2>1 DEF FirstInv, Chosen, Through, Units, InUnit
  <2> QED
    BY <2>1, <2>2, <2>3 DEF UnitsOK, InUnit
<1>10. ASSUME NEW t \in units, SeatUnit(t) PROVE RunOK' /\ RowsOK' /\ HandOK' /\ UnitsOK' /\ IdleOK'
  <2>1. /\ pc = "units" /\ pc' = "upsert" /\ UNCHANGED <<modules, seed, left, row, seat, stale, hwSettled>>
        /\ unit' = t /\ units' = units \ {t} /\ bays' = bays \cup ({BayOf(seat, t)} \ {NoBay})
    BY <1>10 DEF SeatUnit, history
  <2>2. RunOK' /\ RowsOK' /\ HandOK' /\ IdleOK'
    BY <1>4, <2>1 DEF RowPcs, InUnit
  <2>3. ASSUME NEW u \in Through' PROVE UnitOK(row, u)'
    <3>1. u \in Through /\ u # t
      BY <2>1, <2>3 DEF Through, Units, InUnit
    <3>2. UnitOK(row, u)
      BY <1>6, <2>1, <3>1 DEF UnitsOK, RowPcs, InUnit
    <3>3. \A b \in (bays \ bays') \cup (bays' \ bays) : b[2] # u
      BY <2>1, <3>1 DEF BayOf
    <3> QED
      BY <1>0, <2>1, <3>2, <3>3, UnitKept
  <2>4. seat' # Shelf => <<seat', unit'>> \in bays'
    BY <2>1 DEF BayOf, NoBay
  <2> QED
    BY <2>1, <2>2, <2>3, <2>4 DEF UnitsOK, InUnit
\* Another placed unit of the row, while the one in hand is written and its bays
\* are swept.
<1>e. ASSUME pc \in InUnit, pc' \in {"units"} \cup InUnit, UNCHANGED <<seed, row, units, unit>>,
             NEW u \in Through', u # unit,
             \A m \in modules : m.tag = u => m \in modules',
             \A b \in (bays \ bays') \cup (bays' \ bays) : b[2] # u
      PROVE  UnitOK(row, u)'
  <2>1. u \in Through
    BY <1>e DEF Through, Units, InUnit
  <2>2. UnitOK(row, u)
    BY <1>6, <1>e, <2>1 DEF UnitsOK, RowPcs
  <2> QED
    BY <1>0, <1>e, <2>2, UnitKept
<1>11. CASE UpsertUnit
  <2>1. /\ pc = "upsert" /\ pc' = "record" /\ UNCHANGED <<seed, left, row, seat, stale, units, unit, hwSettled>>
    BY <1>11 DEF UpsertUnit, jobVars
  <2>2. RunOK' /\ RowsOK' /\ HandOK' /\ IdleOK'
    BY <1>4, <2>1 DEF RowPcs, InUnit
  <2>3. ASSUME NEW u \in Through' PROVE UnitOK(row, u)'
    <3>1. u # unit
      BY <2>1, <2>3 DEF Through, InUnit
    <3> QED
      BY <1>0, <1>11, <1>e, <2>1, <3>1, WritingOne DEF InUnit
  <2>4. seat # Shelf => <<seat, unit>> \in bays'
    BY <1>0, <1>11, <1>6, <2>1, WritingOne DEF UnitsOK, RowPcs, InUnit
  <2>5. ASSUME NEW m \in modules', m.tag = unit PROVE Agrees(Serial, m.known)
    <3>1. m.known = Merged(Known(unit), Serial)
      BY <1>0, <1>11, <2>5, Upserting, Writing
    <3> QED
      BY <1>0, <3>1, Giving, KnownType, Merging
  <2>6. Serial' = Serial
    BY <2>1 DEF Serial
  <2> QED
    BY <2>1, <2>2, <2>3, <2>4, <2>5, <2>6 DEF UnitsOK, InUnit
<1>14. CASE RecordPurchase
  <2>1. /\ pc = "record" /\ pc' = (IF seat = Shelf THEN "units" ELSE "sweep")
        /\ UNCHANGED <<seed, left, row, seat, stale, units, unit, hwSettled>>
    BY <1>14 DEF RecordPurchase, jobVars
  <2>2. RunOK' /\ RowsOK' /\ HandOK' /\ IdleOK'
    BY <1>4, <2>1 DEF RowPcs, InUnit
  <2>3. ASSUME NEW u \in Through' PROVE UnitOK(row, u)'
    <3>1. CASE u = unit
      <4>1. seat = Shelf
        BY <2>1, <2>3, <3>1 DEF Through, InUnit
      <4> QED
        BY <1>14, <1>6, <2>1, <3>1, <4>1, UnitPlaced DEF RowPcs, InUnit
    <3>2. CASE u # unit
      BY <1>0, <1>14, <1>e, <2>1, <3>2, WritingOne DEF InUnit
    <3> QED
      BY <3>1, <3>2
  <2>4. seat # Shelf => <<seat, unit>> \in bays'
    BY <1>0, <1>14, <1>6, <2>1, WritingOne DEF UnitsOK, RowPcs, InUnit
  <2>5. ASSUME NEW m \in modules', m.tag = unit PROVE Agrees(seed[row].gives, m.known)
    <3>1. PICK n \in modules : m = Purchased(n)
      BY <1>0, <1>14, Purchasing
    <3>2. n.tag = unit /\ m.known = Merged(n.known, Purchase)
      BY <1>0, <1>14, <2>5, <3>1, Purchasing
    <3>3. Agrees(Serial, n.known) /\ n.known \in Record /\ seed[row].gives \in Record
      BY <1>0, <1>6, <2>1, <3>1, <3>2, ModuleFields, RowQty DEF UnitsOK, DataOK, RowPcs, InUnit
    <3>4. Agrees(seed[row].gives, Merged(n.known, Purchase))
      BY <3>3, Parting DEF Serial, Purchase
    <3> QED
      BY <3>2, <3>4
  <2> QED
    BY <2>1, <2>2, <2>3, <2>4, <2>5 DEF UnitsOK, InUnit
<1>15. ASSUME NEW b \in bays, SweepUnit(b) PROVE RunOK' /\ RowsOK' /\ HandOK' /\ UnitsOK' /\ IdleOK'
  <2>1. /\ pc = "sweep" /\ pc' = "sweep" /\ UNCHANGED <<modules, seed, left, row, seat, stale, units, unit, hwSettled>>
        /\ bays' = bays \ {b} /\ b[1] # seat /\ b[2] = unit
    BY <1>15 DEF SweepUnit, OrphanBays, jobVars, history
  <2>2. RunOK' /\ RowsOK' /\ HandOK' /\ IdleOK'
    BY <1>4, <2>1 DEF RowPcs, InUnit
  <2>3. ASSUME NEW u \in Through' PROVE UnitOK(row, u)'
    <3>1. u # unit
      BY <2>1, <2>3 DEF Through, InUnit
    <3> QED
      BY <1>e, <2>1, <3>1 DEF InUnit
  <2>4. seat # Shelf => <<seat, unit>> \in bays'
    BY <1>6, <2>1 DEF UnitsOK, RowPcs, InUnit
  <2>5. \A m \in modules' : m.tag = unit => Agrees(seed[row].gives, m.known)
    BY <1>6, <2>1 DEF UnitsOK, RowPcs, InUnit
  <2> QED
    BY <2>1, <2>2, <2>3, <2>4, <2>5 DEF UnitsOK, InUnit
<1>16. CASE UnitDone
  <2>1. /\ pc = "sweep" /\ pc' = "units" /\ UNCHANGED <<modules, bays, seed, left, row, seat, stale, units, unit, hwSettled>>
    BY <1>16 DEF UnitDone, jobVars, database, history
  <2>2. RunOK' /\ RowsOK' /\ HandOK' /\ IdleOK'
    BY <1>4, <2>1 DEF RowPcs, InUnit
  <2>3. ASSUME NEW u \in Through' PROVE UnitOK(row, u)'
    <3>1. CASE u = unit
      BY <1>16, <1>6, <2>1, <3>1, UnitPlaced DEF RowPcs, InUnit
    <3>2. CASE u # unit
      BY <1>e, <2>1, <3>2 DEF InUnit
    <3> QED
      BY <3>1, <3>2
  <2> QED
    BY <2>1, <2>2, <2>3 DEF UnitsOK, InUnit
<1>17. ASSUME NEW b \in bays, SweepRow(b) PROVE RunOK' /\ RowsOK' /\ HandOK' /\ UnitsOK' /\ IdleOK'
  <2>1. /\ pc = "units" /\ pc' = "units" /\ UNCHANGED <<modules, seed, left, row, seat, stale, units, unit, hwSettled>>
        /\ bays' = bays \ {b} /\ b[2] \in stale
    BY <1>17 DEF SweepRow, RowOrphans, OrphanBays, jobVars, history
  <2>2. RunOK' /\ RowsOK' /\ HandOK' /\ IdleOK'
    BY <1>4, <2>1 DEF RowPcs, InUnit
  <2>3. ASSUME NEW u \in Through' PROVE UnitOK(row, u)'
    <3>1. u \in Through /\ u \in Units(row)
      BY <2>1, <2>3 DEF Through, Units, InUnit
    <3>2. UnitOK(row, u) /\ b[2] # u
      BY <1>6, <2>1, <3>1 DEF UnitsOK, HandOK, RowPcs
    <3> QED
      BY <1>0, <2>1, <3>2, UnitKept
  <2> QED
    BY <2>1, <2>2, <2>3 DEF UnitsOK, InUnit
<1>12. CASE WithheldDone
  <2>1. /\ pc = "withheld" /\ pc' = "rows" /\ UNCHANGED <<database, seed, left, row, seat, stale, hwSettled>>
        /\ \A m \in OwnedBy(row) : ~In(m, seat)
    BY <1>12 DEF WithheldDone, jobVars, history
  <2>2. RowOK(row)
    BY <1>6, <2>1 DEF RowOK, HandOK, RowPcs, InUnit
  <2>3. RowOK(row)'
    BY <1>0, <2>1, <2>2 DEF RowOK, database, Withheld, Reporting, Discovered, Seat, OwnedBy, Listing, Firsts, UnitOK, BayOf,
       SeatOf, In
  <2> QED
    BY <1>5, <2>1, <2>3 DEF RowPcs, InUnit
<1>13. CASE RowDone
  <2>1. pc = "units" /\ pc' = "rows" /\ UNCHANGED <<seed, left, row, hwSettled>>
    BY <1>13 DEF RowDone, jobVars, history
  <2>2. RowOK(row)'
    BY <1>13, <1>6, <2>1, RowComplete DEF RowPcs, InUnit
  <2> QED
    BY <1>5, <2>1, <2>2 DEF RowPcs, InUnit
<1> QED
  <2>1. CASE WithheldDone \/ RowDone
    <3>1. pc' = "rows"
      BY <2>1 DEF WithheldDone, RowDone
    <3> QED
      BY <1>12, <1>13, <2>1, <3>1 DEF RowPcs, InUnit
  <2> QED
    BY <1>1, <1>2, <1>3, <1>7, <1>8, <1>9, <1>10, <1>11, <1>14, <1>15, <1>16, <1>17, <2>1 DEF Hardware

LEMMA PlaceNext == TypeInv /\ UniqueInv /\ FirstInv /\ PlaceInv /\ [Next]_vars => PlaceInv'
<1> SUFFICES ASSUME TypeInv, UniqueInv, FirstInv, PlaceInv, [Next]_vars, hwSettled' # "no" PROVE PlaceInv'
  BY DEF PlaceInv
<1>0. DataOK /\ JobOK /\ HistoryOK /\ row \in Rows /\ hwSettled \in Settled /\ \A m \in modules : m \in Module
  BY DEF TypeInv, DataOK, JobOK, HistoryOK
\* Between two runs, everything in its place stays there.
<1>1. ASSUME hwSettled = "yes", hwSettled' = "yes", pc \notin RowPcs \cup {"rows"}, pc' \notin RowPcs \cup {"rows"},
             UNCHANGED <<tables, left>>,
             \A h \in Rows : RowOK(h) => RowOK(h)'
      PROVE  PlaceInv'
  <2>1. RunOK /\ RowsOK
    BY <1>1 DEF PlaceInv
  <2>2. \A h \in Rows : Listed(h)' <=> Listed(h)
    BY <1>1 DEF Listed
  <2>3. RunOK'
    BY <1>1, <2>1, <2>2 DEF RunOK
  <2>4. RowsOK'
    BY <1>1, <2>1, <2>2 DEF RowsOK
  <2> QED
    BY <1>1, <2>3, <2>4 DEF PlaceInv
<1>2. ASSUME UNCHANGED <<tables, devices, modules, bays>>, Discovered' = Discovered, NEW h \in Rows, RowOK(h) PROVE RowOK(h)'
  BY <1>2, RowKept
<1>3. CASE Hardware
  BY <1>3, PlaceHardware
<1>4. CASE RefuseDrives \/ StartDrives \/ (\E x \in creates : CreateDrive(x)) \/ (\E x \in deletes : DeleteDrive(x)) \/ PostRun
           \/ Gather
  <2>1. /\ pc \in {"idle", "drives"} /\ pc' \in {"idle", "drives"} /\ hwSettled' = hwSettled
        /\ UNCHANGED <<tables, devices, modules, bays, items, left>>
    BY <1>4 DEF RefuseDrives, StartDrives, CreateDrive, DeleteDrive, PostRun, Gather, database, tablesVars, jobVars, history
  <2>2. hwSettled = "yes"
    BY <1>0, <2>1 DEF PlaceInv, RunOK, Settled, RowPcs, InUnit
  <2> QED
    BY <1>1, <1>2, <2>1, <2>2 DEF RowPcs, InUnit, Discovered
<1>5. CASE Die
  <2>1. /\ pc' = "idle" /\ left' = {} /\ UNCHANGED <<tables, devices, modules, bays, items>>
        /\ hwSettled = "yes" /\ hwSettled' = "yes"
    BY <1>0, <1>5 DEF Die, Forgotten, database, tablesVars, Settled, PlaceInv, RunOK, RowPcs, InUnit
  <2>2. \A h \in Rows : Listed(h)' <=> Listed(h)
    BY <2>1 DEF Listed
  <2>3. \A h \in Rows : RowOK(h) => RowOK(h)'
    BY <1>2, <2>1 DEF Discovered
  <2> QED
    BY <2>1, <2>2, <2>3 DEF PlaceInv, RunOK, RowsOK, RowPcs, InUnit
<1>6. CASE EditTables \/ (\E c \in Chassis : AddDevice(c))
  BY <1>6 DEF EditTables, AddDevice
<1>7. ASSUME NEW h \in Rows, NEW f \in Fields, NEW v \in Values, Audit(h, f, v) PROVE PlaceInv'
  <2>1. /\ pc = "idle" /\ pc' = "idle" /\ UNCHANGED <<tables, devices, bays, items, left>>
        /\ modules' = (modules \ First(h)) \cup {Noted(m, f, v) : m \in First(h)} /\ First(h) \subseteq modules
        /\ hwSettled' = IF tables[h].gives[f] \in {Blank, v} THEN hwSettled ELSE "no"
    BY <1>7, Auditing DEF Audit, jobVars
  <2>2. hwSettled = "yes" /\ hwSettled' = "yes" /\ tables[h].gives[f] \in {Blank, v}
    BY <1>0, <2>1 DEF PlaceInv, RunOK, Settled, RowPcs, InUnit
  <2>3. ASSUME NEW m \in modules
        PROVE  /\ Noted(m, f, v).tag = m.tag /\ Noted(m, f, v).bay = m.bay
               /\ Agrees(tables[h].gives, m.known) => Agrees(tables[h].gives, Noted(m, f, v).known)
    <3>1. m \in Module /\ m.known \in Record
      BY <1>0, ModuleFields
    <3>2. Noted(m, f, v).tag = m.tag /\ Noted(m, f, v).bay = m.bay /\ Noted(m, f, v).known = [m.known EXCEPT ![f] = v]
      BY <3>1, Noting
    <3>3. Agrees(tables[h].gives, m.known) => Agrees(tables[h].gives, [m.known EXCEPT ![f] = v])
      BY <2>2, <3>1 DEF Agrees, Record
    <3> QED
      BY <3>2, <3>3
  <2>4. \A m \in modules' : \E n \in modules : n.tag = m.tag /\ n.bay = m.bay
    BY <2>1, <2>3
  <2>5. ASSUME NEW i \in Rows, NEW m \in modules, Owns(i, m.tag)
        PROVE  \E n \in modules' : /\ n.tag = m.tag /\ n.bay = m.bay
                                   /\ Agrees(tables[i].gives, m.known) => Agrees(tables[i].gives, n.known)
    <3>1. CASE m \notin First(h)
      BY <2>1, <3>1
    <3>2. CASE m \in First(h)
      <4>1. i = h
        BY <2>5, <3>2 DEF First, OwnedBy, Owns
      <4> QED
        BY <2>1, <2>3, <3>2, <4>1
    <3> QED
      BY <3>1, <3>2
  <2>6. \A i \in Rows : RowOK(i) => RowOK(i)'
    BY <2>1, <2>4, <2>5, RowKept DEF Discovered
  <2> QED
    BY <1>1, <2>1, <2>2, <2>6 DEF RowPcs, InUnit
<1>8. ASSUME NEW h \in Rows, NEW b \in Bay \cup {NoBay}, AddModule(h, b) PROVE PlaceInv'
  <2> DEFINE new == [tag |-> <<h, Lookalike>>, bay |-> b, known |-> Nothing]
  <2>1. /\ pc = "idle" /\ pc' = "idle" /\ hwSettled' = hwSettled /\ UNCHANGED <<tables, devices, items, left>>
        /\ modules' = modules \cup {new} /\ new.tag = <<h, Lookalike>>
        /\ \A c \in (bays \ bays') \cup (bays' \ bays) : c[2] = <<h, Lookalike>>
    BY <1>8 DEF AddModule, jobVars, history
  <2>2. hwSettled = "yes"
    BY <1>0, <2>1 DEF PlaceInv, RunOK, Settled, RowPcs, InUnit
  <2> HIDE DEF new
  <2>3. \A i \in Rows : ~Owns(i, new.tag) /\ new.tag \notin Own(i)
    BY <2>1 DEF Owns, Own
  <2>4. \A i \in Rows : RowOK(i) => RowOK(i)'
    BY <2>1, <2>3, RowKept DEF Discovered
  <2> QED
    BY <1>1, <2>1, <2>2, <2>4 DEF RowPcs, InUnit
<1>9. ASSUME NEW c \in Chassis, NEW d \in Ids, AddItem(c, d) PROVE PlaceInv'
  <2>1. /\ pc = "idle" /\ pc' = "idle" /\ hwSettled' = hwSettled /\ UNCHANGED <<tables, devices, modules, bays, left>>
    BY <1>9 DEF AddItem, jobVars
  <2>2. hwSettled = "yes"
    BY <1>0, <2>1 DEF PlaceInv, RunOK, Settled, RowPcs, InUnit
  <2>3. Discovered' = Discovered
    BY <1>9 DEF AddItem, Discovered
  <2> QED
    BY <1>1, <1>2, <2>1, <2>2, <2>3 DEF RowPcs, InUnit
<1>10. CASE UNCHANGED vars
  <2>1. UNCHANGED <<tables, devices, modules, bays, items, pc, seed, left, row, seat, stale, units, unit, hwSettled>>
    BY <1>10 DEF vars, tablesVars, database, jobVars, history
  <2>2. RunOK' = RunOK /\ RowsOK' = RowsOK /\ HandOK' = HandOK /\ UnitsOK' = UnitsOK /\ IdleOK' = IdleOK
    <3>1. \A h \in Rows : RowOK(h)' <=> RowOK(h)
      BY <2>1 DEF RowOK, Withheld, Reporting, Discovered, Seat, OwnedBy, Listing, Firsts, UnitOK, BayOf, SeatOf, In
    <3>2. \A t : UnitOK(row, t)' <=> UnitOK(row, t)
      BY <2>1 DEF UnitOK, Seat, SeatOf, BayOf
    <3> QED
      BY <2>1, <3>1, <3>2 DEF RunOK, RowsOK, HandOK, UnitsOK, IdleOK, Listed, InHand, Seat, SeatOf, Withheld, Reporting,
         Discovered, Units, Firsts, Through, Serial
  <2> QED
    BY <2>1, <2>2 DEF PlaceInv
<1> QED
  BY <1>3, <1>4, <1>5, <1>6, <1>7, <1>8, <1>9, <1>10 DEF Next, DriveSync, People

LEMMA PlaceInit == Init => PlaceInv
BY DEF Init, PlaceInv

\* A drive is recorded in one place: once a run of the hardware job is complete, a
\* chassis that reports its drives holds no Module of a row of drives placed there,
\* whatever was there before (ssot_hardware.py removes them where it withholds the
\* row), and this stays so until the tables, the drives or the Devices change.
THEOREM DrivesHaveOneHome == Spec => []OneHome
<1>1. PlaceInv => OneHome
  <2> SUFFICES ASSUME PlaceInv, hwSettled = "yes", NEW h \in DriveRows, Listed(h), Seat(h) # Shelf, Reporting(Seat(h))
               PROVE  \A m \in OwnedBy(h) : ~In(m, Seat(h))
    BY DEF OneHome
  <2>1. RowOK(h) /\ Withheld(h, Seat(h))
    BY HardwareAssumption DEF PlaceInv, RowsOK, Withheld
  <2> QED
    BY <2>1 DEF RowOK
<1> QED
  BY <1>1, TypeInit, TypeNext, UniqueInit, UniqueNext, FirstInit, FirstInvNext, PlaceInit, PlaceNext, PTL DEF Spec

-----------------------------------------------------------------------------
(* The bays a row leaves *)

\* While no run died, a bay named after a later unit of a row has a Module of that
\* name, or the job is about to give it one or to remove it; and such a unit, when
\* it is installed and not in hand, has one bay.
Later == {t \in Tags : t[2] \notin {0, 1, Lookalike}}
Awaited(b) ==
    \/ pc = "unbay" /\ b = emptied
    \/ pc = "upsert" /\ b[2] = unit
    \/ pc \in {"surplus", "units"} \cup InUnit /\ b[2] \in stale
NamedBays == \A b \in bays : b[2] \in Later => HasTag(b[2]) \/ Awaited(b)
OneBay ==
    \A m \in modules, b \in bays :
        m.bay # NoBay /\ m.tag \in Later /\ b[2] = m.tag => b = m.bay \/ (pc \in InUnit /\ m.tag = unit)
OldTags == pc \in {"rename", "surplus"} => \A m \in OwnedBy(row) : m.tag \in stale \cup Units(row)
BayInv == ~died => NamedBays /\ OneBay /\ OldTags

LEMMA LaterTags ==
    \A t \in Later, h \in Rows : t \notin Firsts(h) /\ t # <<h, Lookalike>>
BY DEF Later, Firsts

LEMMA BayHardware ==
    ASSUME TypeInv, UniqueInv, FirstInv, BayInv, Hardware, ~died
    PROVE  NamedBays' /\ OneBay' /\ OldTags'
<1>0. /\ DataOK /\ NamesOK /\ JobOK /\ row \in Rows /\ NamedBays /\ OneBay /\ OldTags
      /\ \A m \in modules : m \in Module
  BY DEF TypeInv, JobOK, DataOK, BayInv
<1>1. ASSUME pc \notin {"unbay", "surplus", "units"} \cup InUnit
      PROVE  /\ \A b \in bays : b[2] \in Later => HasTag(b[2])
             /\ \A m \in modules, b \in bays : m.bay # NoBay /\ m.tag \in Later /\ b[2] = m.tag => b = m.bay
  BY <1>0, <1>1 DEF NamedBays, OneBay, Awaited, InUnit
<1>2. CASE StartHardware \/ WithheldDone \/ FinishHardware
  <2>1. pc \notin {"unbay", "surplus", "units"} \cup InUnit /\ pc' \notin {"rename", "surplus"} /\ UNCHANGED <<modules, bays>>
    BY <1>2 DEF StartHardware, WithheldDone, FinishHardware, database, InUnit
  <2> QED
    BY <1>1, <2>1 DEF NamedBays, OneBay, OldTags, HasTag, InUnit
<1>3. ASSUME NEW h \in Rows, TakeRow(h) PROVE NamedBays' /\ OneBay' /\ OldTags'
  <2>1. /\ pc = "rows" /\ row' = h /\ stale' = ({m.tag : m \in OwnedBy(h)} \cup Firsts(h)) \ Units(h)
        /\ UNCHANGED <<modules, bays, seed>>
    BY <1>3 DEF TakeRow, Units, Firsts, database
  <2>2. OldTags'
    BY <2>1 DEF OldTags, OwnedBy, Units
  <2> QED
    BY <1>1, <2>1, <2>2 DEF NamedBays, OneBay, HasTag, InUnit
<1>4. ASSUME NEW m \in modules, DeleteWithheld(m) PROVE NamedBays' /\ OneBay' /\ OldTags'
  <2>1. /\ pc = "withheld" /\ pc' = "unbay" /\ modules' = modules \ {m} /\ bays' = bays /\ emptied' = m.bay
        /\ m.bay # NoBay
    BY <1>4 DEF DeleteWithheld, In
  <2>2. ASSUME NEW b \in bays, b[2] \in Later PROVE HasTag(b[2])' \/ b = m.bay
    <3>1. PICK n \in modules : n.tag = b[2]
      BY <1>1, <2>1, <2>2 DEF HasTag, InUnit
    <3> QED
      BY <1>1, <2>1, <2>2, <3>1 DEF HasTag, InUnit
  <2> QED
    BY <1>1, <2>1, <2>2 DEF NamedBays, OneBay, OldTags, Awaited, InUnit
<1>5. CASE DeleteBay
  <2>1. pc = "unbay" /\ pc' = "withheld" /\ modules' = modules /\ bays' = bays \ {emptied}
    BY <1>5 DEF DeleteBay
  <2> QED
    BY <1>0, <2>1 DEF NamedBays, OneBay, OldTags, Awaited, HasTag, InUnit
<1>6. CASE RenameLegacy
  <2> DEFINE qty == seed[row].qty
             kept == Kept(row, qty)
  <2>1. /\ modules' = (modules \ Legacy(row, qty)) \cup {[n EXCEPT !.tag = kept] : n \in Legacy(row, qty)}
        /\ pc = "rename" /\ UNCHANGED <<bays, stale, row, seed>>
    BY <1>6 DEF RenameLegacy, Kept, jobVars
  <2>2. kept \notin Later /\ kept \in Units(row)
    BY <1>0, RowQty, LaterTags DEF Kept, Firsts, Units, UnitTags
  <2>3. ASSUME NEW n \in Legacy(row, qty)
        PROVE  n \in modules /\ n.tag \notin Later /\ [n EXCEPT !.tag = kept].tag = kept
    <3>1. n \in modules /\ n.tag = (<<row, IF qty > 1 THEN 0 ELSE 1>>) /\ [n EXCEPT !.tag = kept].tag = kept
      BY <1>0, RowQty, Renaming
    <3> QED
      BY <1>0, <3>1, LaterTags DEF Firsts
  <2>4. ASSUME NEW b \in bays, b[2] \in Later PROVE HasTag(b[2])'
    <3>1. PICK n \in modules : n.tag = b[2]
      BY <1>1, <2>1, <2>4 DEF HasTag, InUnit
    <3>2. n \in modules'
      BY <2>1, <2>3, <2>4, <3>1
    <3> QED
      BY <3>1, <3>2 DEF HasTag, InUnit
  <2>5. ASSUME NEW m \in modules' PROVE m \in modules \/ m.tag = kept
    BY <2>1, <2>3
  <2> HIDE DEF kept
  <2>6. OneBay'
    BY <1>1, <2>1, <2>2, <2>5 DEF OneBay, InUnit
  <2>7. OldTags'
    <3>1. \A m \in OwnedBy(row)' : m.tag \in stale \cup Units(row)
      BY <1>0, <2>1, <2>2, <2>5 DEF OldTags, OwnedBy
    <3> QED
      BY <2>1, <3>1 DEF OldTags, Units, OwnedBy
  <2> QED
    BY <2>1, <2>4, <2>6, <2>7 DEF NamedBays, InUnit
<1>7. ASSUME NEW m \in modules, DropSurplus(m) PROVE NamedBays' /\ OneBay' /\ OldTags'
  <2>1. /\ pc = "surplus" /\ pc' = "surplus" /\ modules' = modules \ {m} /\ UNCHANGED <<bays, stale, row, seed>>
        /\ m \in OwnedBy(row) /\ m.tag \notin units
    BY <1>7 DEF DropSurplus, jobVars
  <2>2. m.tag \in stale
    BY <1>0, <2>1 DEF OldTags, FirstInv, Chosen
  <2>3. ASSUME NEW b \in bays, b[2] \in Later PROVE HasTag(b[2])' \/ b[2] \in stale
    BY <1>0, <2>1, <2>2, <2>3 DEF NamedBays, Awaited, HasTag, InUnit
  <2>4. NamedBays'
    BY <2>1, <2>3 DEF NamedBays, Awaited, InUnit
  <2>5. OneBay' /\ OldTags'
    BY <1>0, <2>1 DEF OneBay, OldTags, OwnedBy, Units, InUnit
  <2> QED
    BY <2>4, <2>5
<1>8. CASE SurplusDone
  <2>1. pc = "surplus" /\ pc' = "units" /\ UNCHANGED <<modules, bays, stale>>
    BY <1>8 DEF SurplusDone, database, jobVars
  <2> QED
    BY <1>0, <2>1 DEF NamedBays, OneBay, OldTags, Awaited, HasTag, InUnit
<1>9. ASSUME NEW t \in units, SeatUnit(t) PROVE NamedBays' /\ OneBay' /\ OldTags'
  <2>1. /\ pc = "units" /\ pc' = "upsert" /\ unit' = t /\ bays' = bays \cup ({BayOf(seat, t)} \ {NoBay})
        /\ UNCHANGED <<modules, stale, seat>>
    BY <1>9 DEF SeatUnit
  <2>2. \A b \in bays' : b \in bays \/ (b = BayOf(seat, t) /\ b[2] = t)
    BY <2>1 DEF BayOf
  <2>3. NamedBays'
    BY <1>0, <2>1, <2>2 DEF NamedBays, Awaited, HasTag, InUnit
  <2>5. OneBay'
    BY <1>0, <2>1, <2>2 DEF OneBay, InUnit
  <2> QED
    BY <2>1, <2>3, <2>5 DEF OldTags
<1>10. CASE UpsertUnit \/ RecordPurchase
  <2>1. /\ pc \in {"upsert", "record"} /\ pc' \in {"record", "sweep", "units"} /\ (pc' = "units" => seat = Shelf)
        /\ UNCHANGED <<stale, seat, unit>> /\ (pc = "upsert" => pc' = "record")
    BY <1>10 DEF UpsertUnit, RecordPurchase, jobVars
  <2>2. /\ bays' = bays /\ \A m \in modules' : m.tag # unit => m \in modules
        /\ \A m \in (modules \ modules') \cup (modules' \ modules) : m.tag = unit
    BY <1>0, <1>10, WritingOne
  <2>3. \E m \in modules' : m.tag = unit /\ m.bay = BayOf(seat, unit)
    <3>1. CASE UpsertUnit
      BY <1>0, <3>1, Upserting, Writing
    <3>2. CASE RecordPurchase
      <4>1. PICK m \in modules : m.tag = unit /\ m.bay = BayOf(seat, unit)
        BY <3>2 DEF UniqueInv, RecordPurchase
      <4> QED
        BY <1>0, <3>2, <4>1, Purchasing
    <3> QED
      BY <1>10, <3>1, <3>2
  <2>4. \A t : HasTag(t) => HasTag(t)'
    BY <2>2, <2>3 DEF HasTag
  <2>5. NamedBays'
    <3> SUFFICES ASSUME NEW b \in bays, b[2] \in Later, ~HasTag(b[2])' PROVE Awaited(b)'
      BY <2>2 DEF NamedBays
    <3>1. Awaited(b) /\ b[2] # unit
      BY <1>0, <2>3, <2>4 DEF NamedBays, HasTag
    <3>2. b[2] \in stale
      BY <2>1, <3>1 DEF Awaited
    <3> QED
      BY <2>1, <3>2 DEF Awaited, InUnit
  <2>6. ASSUME NEW m \in modules', NEW b \in bays, m.bay # NoBay, m.tag \in Later, b[2] = m.tag,
               pc' \in InUnit => m.tag # unit
        PROVE  b = m.bay
    <3>1. CASE m.tag # unit
      BY <1>0, <2>2, <2>6, <3>1 DEF OneBay
    <3>2. CASE m.tag = unit
      <4>1. pc' = "units" /\ seat = Shelf /\ pc = "record"
        BY <2>1, <2>6, <3>2 DEF InUnit
      <4>2. PICK n \in modules : n.tag = m.tag /\ n.bay = m.bay
        BY <1>0, <1>10, <4>1, Purchasing DEF UpsertUnit
      <4>3. PICK u \in modules : u.tag = unit /\ u.bay = NoBay
        BY <4>1 DEF UniqueInv, BayOf
      <4>4. n = u
        BY <3>2, <4>2, <4>3 DEF UniqueInv, NeverCollides
      <4> QED
        BY <2>6, <4>2, <4>3, <4>4
    <3> QED
      BY <3>1, <3>2
  <2> QED
    BY <2>1, <2>2, <2>5, <2>6 DEF OneBay, OldTags, InUnit
<1>12. ASSUME NEW b \in bays, SweepUnit(b) \/ SweepRow(b) PROVE NamedBays' /\ OneBay' /\ OldTags'
  <2>1. bays' = bays \ {b} /\ UNCHANGED <<modules, pc, stale, unit>> /\ pc \in {"units", "sweep"}
    BY <1>12 DEF SweepUnit, SweepRow, jobVars
  <2> QED
    BY <1>0, <2>1 DEF NamedBays, OneBay, OldTags, Awaited, HasTag, InUnit
<1>13. CASE UnitDone
  <2>1. pc = "sweep" /\ pc' = "units" /\ UNCHANGED <<modules, bays, stale>>
    BY <1>13 DEF UnitDone, database, jobVars
  <2>2. NamedBays'
    BY <1>0, <2>1 DEF NamedBays, Awaited, HasTag, InUnit
  <2>3. ASSUME NEW m \in modules, NEW b \in bays, m.bay # NoBay, m.tag \in Later, b[2] = m.tag PROVE b = m.bay
    <3>1. CASE m.tag # unit
      BY <1>0, <2>3, <3>1 DEF OneBay
    <3>2. CASE m.tag = unit
      <4>1. PICK u \in modules : u.tag = unit /\ u.bay = BayOf(seat, unit)
        BY <2>1 DEF UniqueInv
      <4>2. m = u
        BY <3>2, <4>1 DEF UniqueInv, NeverCollides
      <4>3. seat # Shelf /\ m.bay = <<seat, unit>>
        BY <2>3, <4>1, <4>2 DEF BayOf
      <4>4. b = <<b[1], b[2]>> /\ b[1] = seat
        BY <1>0, <1>13, <2>3, <3>2, <4>3, OnlySeat DEF DataOK
      <4> QED
        BY <2>3, <3>2, <4>3, <4>4
    <3> QED
      BY <3>1, <3>2
  <2> QED
    BY <2>1, <2>2, <2>3 DEF OneBay, OldTags, InUnit
<1>11. CASE RowDone
  <2>1. pc = "units" /\ pc' = "rows" /\ UNCHANGED <<modules, bays>> /\ OrphanBays(stale, Shelf, modules) = {}
    BY <1>11 DEF RowDone, RowOrphans, database
  <2>2. ASSUME NEW b \in bays, b[2] \in Later PROVE HasTag(b[2])
    <3>1. CASE b[2] \in stale
      <4>1. b[1] # Shelf /\ b # NoBay
        BY <1>0, HardwareAssumption DEF DataOK, NoBay
      <4>2. PICK m \in modules : m.bay = b
        BY <2>1, <3>1, <4>1 DEF OrphanBays
      <4>3. b[2] = m.tag
        <5>1. NamedBy(m) /\ m.bay # NoBay
          BY <1>0, <4>1, <4>2 DEF NamesOK
        <5>2. b[2] \notin {<<m.tag[1], 0>>, <<m.tag[1], 1>>}
          BY <2>2 DEF Later
        <5> QED
          BY <4>2, <5>1, <5>2 DEF NamedBy
      <4> QED
        BY <4>3 DEF HasTag
    <3> QED
      BY <1>0, <2>1, <2>2, <3>1 DEF NamedBays, Awaited, InUnit
  <2> QED
    BY <1>0, <2>1, <2>2 DEF NamedBays, OneBay, OldTags, HasTag, InUnit
<1> QED
  BY <1>2, <1>3, <1>4, <1>5, <1>6, <1>7, <1>8, <1>9, <1>10, <1>11, <1>12, <1>13 DEF Hardware

LEMMA BayNext == TypeInv /\ UniqueInv /\ FirstInv /\ BayInv /\ [Next]_vars => BayInv'
<1> SUFFICES ASSUME TypeInv, UniqueInv, FirstInv, BayInv, [Next]_vars, ~died' PROVE NamedBays' /\ OneBay' /\ OldTags'
  BY DEF BayInv
<1>0. ~died /\ ~Die
  <2>1. died => died'
    BY DEF Next, Hardware, StartHardware, TakeRow, DeleteWithheld, DeleteBay, WithheldDone, RenameLegacy, DropSurplus,
       SurplusDone, SeatUnit, UpsertUnit, RecordPurchase, SweepUnit, UnitDone, SweepRow, RowDone, FinishHardware, DriveSync, RefuseDrives, StartDrives, CreateDrive,
       DeleteDrive, PostRun, Die, People, EditTables, Gather, AddDevice, Audit, AddModule, AddItem, history, vars
  <2> QED
    BY <2>1 DEF Die
<1>a. NamedBays /\ OneBay /\ OldTags /\ DataOK /\ \A m \in modules : m \in Module
  BY <1>0 DEF BayInv, TypeInv, DataOK
<1>1. CASE Hardware
  BY <1>0, <1>1, BayHardware
<1>2. CASE (\E c \in Chassis : AddDevice(c)) \/ UNCHANGED vars
  <2>1. UNCHANGED <<modules, bays, pc, seed, row, seat, stale, unit, emptied>>
    BY <1>2 DEF AddDevice, vars, database, jobVars
  <2> QED
    BY <1>a, <2>1 DEF NamedBays, OneBay, OldTags, Awaited, HasTag, OwnedBy, Units, BayOf, InUnit
<1>3. CASE DriveSync \/ EditTables \/ Gather \/ (\E c \in Chassis, d \in Ids : AddItem(c, d))
  <2>1. UNCHANGED <<modules, bays>> /\ pc \in {"idle", "drives"} /\ pc' \in {"idle", "drives"}
    BY <1>3 DEF DriveSync, RefuseDrives, StartDrives, CreateDrive, DeleteDrive, PostRun, EditTables, Gather, AddItem,
       database
  <2> QED
    BY <1>a, <2>1 DEF NamedBays, OneBay, OldTags, Awaited, HasTag, InUnit
<1>4. ASSUME NEW h \in Rows, NEW f \in Fields, NEW v \in Values, Audit(h, f, v) PROVE NamedBays' /\ OneBay' /\ OldTags'
  <2>1. /\ pc = "idle" /\ pc' = "idle" /\ bays' = bays
        /\ modules' = (modules \ First(h)) \cup {Noted(m, f, v) : m \in First(h)} /\ First(h) \subseteq modules
    BY <1>4, Auditing DEF Audit
  <2>2. \A m \in modules : Noted(m, f, v).tag = m.tag /\ Noted(m, f, v).bay = m.bay
    BY <1>a, Noting
  <2>3. \A m \in modules' : \E n \in modules : n.tag = m.tag /\ n.bay = m.bay
    BY <2>1, <2>2
  <2>4. \A t : HasTag(t) => HasTag(t)'
    <3> SUFFICES ASSUME NEW m \in modules PROVE \E n \in modules' : n.tag = m.tag
      BY DEF HasTag
    <3> QED
      BY <2>1, <2>2
  <2> QED
    BY <1>a, <2>1, <2>3, <2>4 DEF NamedBays, OneBay, OldTags, Awaited, InUnit
<1>5. ASSUME NEW h \in Rows, NEW b \in Bay \cup {NoBay}, AddModule(h, b) PROVE NamedBays' /\ OneBay' /\ OldTags'
  <2> DEFINE new == [tag |-> <<h, Lookalike>>, bay |-> b, known |-> Nothing]
  <2>1. /\ pc = "idle" /\ pc' = "idle" /\ modules' = modules \cup {new} /\ new.tag = <<h, Lookalike>>
        /\ \A c \in bays' : c \in bays \/ c[2] = <<h, Lookalike>>
    BY <1>5 DEF AddModule
  <2> HIDE DEF new
  <2>2. <<h, Lookalike>> \notin Later
    BY LaterTags
  <2> QED
    BY <1>a, <2>1, <2>2 DEF NamedBays, OneBay, OldTags, Awaited, HasTag, InUnit
<1> QED
  BY <1>0, <1>1, <1>2, <1>3, <1>4, <1>5 DEF Next, People

LEMMA BayInit == Init => BayInv
BY DEF Init, BayInv, NamedBays, OneBay, OldTags, InUnit

LEMMA PlacedMatches == TypeInv /\ UniqueInv /\ PlaceInv /\ BayInv => UnitsMatchTables
<1> SUFFICES ASSUME TypeInv, UniqueInv, PlaceInv, BayInv, hwSettled = "yes", NEW h \in Rows, Placed(h)
             PROVE  /\ {m.tag : m \in OwnedBy(h)} = Listing(h)
                    /\ \A m \in OwnedBy(h) : m.bay = BayOf(Seat(h), m.tag)
                    /\ ~died /\ Seat(h) # Shelf =>
                         \A b \in bays : Owns(h, b[2]) => \E m \in OwnedBy(h) : m.bay = b
  BY DEF UnitsMatchTables, Listing
<1>0. DataOK /\ JobOK /\ tables[h].qty \in 1 .. MaxQty /\ \A m \in modules : m \in Module
  BY DEF TypeInv, DataOK, Row
<1>1. RowOK(h) /\ ~Withheld(h, Seat(h)) /\ RunOK /\ (pc \in RowPcs => HandOK /\ IdleOK)
  BY DEF PlaceInv, RowsOK, Placed
<1>2. /\ \A m \in OwnedBy(h) : m.tag \in Listing(h)
      /\ \A t \in Listing(h) : UnitOK(h, t)
      /\ \A b \in bays : b[2] \notin Firsts(h) \ Listing(h)
  BY <1>1 DEF RowOK
<1>3. \A t \in Listing(h) : Owns(h, t)
  BY <1>0, TagTypes DEF Listing, Own
<1>4. ASSUME NEW t \in Listing(h) PROVE \E m \in OwnedBy(h) : m.tag = t /\ m.bay = BayOf(Seat(h), t)
  BY <1>2, <1>3 DEF UnitOK, OwnedBy
<1>5. {m.tag : m \in OwnedBy(h)} = Listing(h)
  BY <1>2, <1>4
<1>6. \A m \in OwnedBy(h) : m.bay = BayOf(Seat(h), m.tag)
  BY <1>2, <1>4 DEF UniqueInv, NeverCollides, OwnedBy
<1>7. ASSUME ~died, Seat(h) # Shelf, NEW b \in bays, Owns(h, b[2]) PROVE \E m \in OwnedBy(h) : m.bay = b
  <2>0. b = <<b[1], b[2]>> /\ b[2] \in Tags /\ b[2] \in Own(h)
    BY <1>0, <1>7 DEF DataOK, Own
  <2>1. SUFFICES b[2] \in Listing(h)
    <3>1. b[1] = Seat(h)
      BY <1>2, <1>7, <2>1 DEF UnitOK
    <3>2. BayOf(Seat(h), b[2]) = b
      BY <1>7, <2>0, <3>1 DEF BayOf
    <3> QED
      BY <1>4, <2>1, <3>2
  <2>2. CASE b[2] \in Firsts(h)
    BY <1>2, <2>2
  <2>3. CASE b[2] \notin Firsts(h)
    <3>1. b[2] \in Later
      <4>1. b[2] = <<h, b[2][2]>> /\ b[2][2] # Lookalike
        BY <1>7, <2>0 DEF Owns, Tags
      <4>2. b[2][2] \notin {0, 1}
        BY <2>3, <4>1 DEF Firsts
      <4> QED
        BY <2>0, <4>1, <4>2 DEF Later
    <3>2. CASE HasTag(b[2])
      BY <1>2, <1>7, <3>2 DEF HasTag, OwnedBy
    <3>3. CASE Awaited(b)
      <4>1. pc \in RowPcs /\ pc # "unbay" /\ (pc # "withheld" => stale \subseteq Firsts(row)) /\ seed = tables
        BY <1>1, <3>3 DEF Awaited, RowPcs, IdleOK, RunOK, InUnit
      <4>2. CASE pc = "upsert" /\ b[2] = unit
        <5>1. b[2] \in Units(row) /\ row \in Rows
          BY <1>0, <4>2 DEF JobOK, Units, InUnit
        <5>2. h = row
          BY <1>0, <1>7, <5>1, RowQty DEF Units, Own, Owns
        <5> QED
          BY <4>1, <5>1, <5>2 DEF Units, Listing
      <4>3. CASE b[2] \in stale /\ pc \in {"surplus", "units"} \cup InUnit
        <5>1. b[2] \in Firsts(row) /\ row \in Rows
          BY <1>0, <4>1, <4>3 DEF JobOK, InUnit
        <5> QED
          BY <3>1, <5>1, LaterTags
      <4> QED
        BY <3>3, <4>1, <4>2, <4>3 DEF Awaited
    <3> QED
      BY <1>0, <1>7, <3>1, <3>2, <3>3 DEF BayInv, NamedBays
  <2> QED
    BY <2>2, <2>3
<1> QED
  BY <1>5, <1>6, <1>7

\* The inventory follows the tables: a complete run of ssot_hardware.py leaves one
\* Module per unit of every row that is not withheld, each in a bay of its own in
\* the row's chassis or on the shelf, whatever was there before. For a row seated in a
\* chassis, and while no run has died, no bay of its former units is left; a unit
\* that went to the shelf leaves its last bay behind, and the theorem says nothing of it.
THEOREM InventoryMatches == Spec => []UnitsMatchTables
BY TypeInit, TypeNext, UniqueInit, UniqueNext, FirstInit, FirstInvNext, PlaceInit, PlaceNext, BayInit, BayNext,
   PlacedMatches, PTL DEF Spec

-----------------------------------------------------------------------------
(* Running both jobs again *)

\* A drive sync that found what it loaded leaves a later one nothing to do.
DrivesInv ==
    drSettled # "no" =>
        /\ pc = "drives" => source = Loaded
        /\ drSettled = "running" => pc = "drives"
        /\ drSettled = "yes" => Discovered = {AsItem(x) : x \in Loaded}
        /\ drSettled = "yes" /\ pc = "drives" => creates = {} /\ deletes = {}

LEMMA DrivesNext == TypeInv /\ SyncInv /\ DrivesInv /\ [Next]_vars => DrivesInv'
<1> SUFFICES ASSUME TypeInv, SyncInv, DrivesInv, [Next]_vars, drSettled' # "no" PROVE DrivesInv'
  BY DEF DrivesInv
<1>0. DataOK /\ drSettled \in Settled
  BY DEF TypeInv, HistoryOK
<1>1. ASSUME UNCHANGED <<devices, gathered>>, Discovered' = Discovered, drSettled' = drSettled,
             pc' = "drives" <=> pc = "drives", pc' = "drives" => UNCHANGED <<source, creates, deletes>>
      PROVE  DrivesInv'
  <2>1. Loaded' = Loaded
    BY <1>1 DEF Loaded
  <2> QED
    BY <1>1, <2>1 DEF DrivesInv, AsItem
<1>2. CASE Hardware
  <2>1. UNCHANGED <<devices, gathered, items>>
    BY <1>2, Touches
  <2>2. pc # "drives" /\ pc' # "drives" /\ drSettled' = drSettled
    BY <1>2 DEF Hardware, StartHardware, TakeRow, DeleteWithheld, DeleteBay, WithheldDone, RenameLegacy, DropSurplus,
       SurplusDone, SeatUnit, UpsertUnit, RecordPurchase, SweepUnit, UnitDone, SweepRow, RowDone, FinishHardware, history
  <2> QED
    BY <1>1, <2>1, <2>2 DEF Discovered
<1>3. CASE RefuseDrives \/ EditTables \/ (\E h \in Rows, f \in Fields, v \in Values : Audit(h, f, v))
           \/ (\E h \in Rows, b \in Bay \cup {NoBay} : AddModule(h, b)) \/ UNCHANGED vars
  <2>1. UNCHANGED <<devices, gathered, items, drSettled, pc>> /\ (pc = "drives" => UNCHANGED <<source, creates, deletes>>)
    BY <1>3 DEF RefuseDrives, EditTables, Audit, AddModule, tablesVars, database, driveVars, history, vars
  <2> QED
    BY <1>1, <2>1 DEF Discovered
<1>4. CASE Gather \/ (\E c \in Chassis : AddDevice(c)) \/ (\E c \in Chassis, d \in Ids : AddItem(c, d))
  BY <1>4 DEF Gather, AddDevice, AddItem
<1>5. CASE StartDrives
  <2>1. /\ pc = "idle" /\ pc' = "drives" /\ source' = Loaded /\ drSettled' = Running(drSettled)
        /\ creates' = {x \in source' : AsItem(x) \notin items}
        /\ deletes' = {x \in Chassis \X Ids : AsItem(x) \in items} \ source'
        /\ UNCHANGED <<devices, gathered, items>>
    BY <1>5 DEF StartDrives, tablesVars, database
  <2>2. Loaded' = Loaded /\ Discovered' = Discovered
    BY <2>1 DEF Loaded, Discovered
  <2>3. ASSUME drSettled' = "yes" PROVE Discovered = {AsItem(x) : x \in Loaded}
    BY <1>0, <2>1, <2>3 DEF Running, Settled, DrivesInv
  <2>4. ASSUME drSettled' = "yes", NEW x \in creates' PROVE FALSE
    <3>1. AsItem(x) \in Discovered
      BY <2>1, <2>3, <2>4
    <3> QED
      BY <2>1, <3>1 DEF Discovered
  <2>5. ASSUME drSettled' = "yes", NEW x \in deletes' PROVE FALSE
    <3>1. x \in Chassis \X Ids /\ AsItem(x) \in Discovered /\ x \notin Loaded
      BY <2>1 DEF Discovered, AsItem
    <3>2. PICK y \in Loaded : AsItem(x) = AsItem(y)
      BY <2>3, <2>5, <3>1
    <3>3. y \in Chassis \X Ids
      BY <1>0, <3>2, LoadedTypes DEF DataOK
    <3>4. x[1] = y[1] /\ x[2] = y[2]
      BY <3>2 DEF AsItem
    <3>5. x = y
      BY <3>1, <3>3, <3>4
    <3> QED
      BY <3>1, <3>2, <3>5
  <2> QED
    BY <2>1, <2>2, <2>3, <2>4, <2>5 DEF DrivesInv, AsItem
<1>6. ASSUME NEW x \in creates \cup deletes,
             (x \in creates /\ CreateDrive(x)) \/ (x \in deletes /\ DeleteDrive(x))
      PROVE  DrivesInv'
  <2>1. /\ pc = "drives" /\ pc' = "drives" /\ UNCHANGED <<devices, gathered, source, drSettled>>
    BY <1>6 DEF CreateDrive, DeleteDrive, tablesVars
  <2>2. drSettled = "running"
    BY <1>0, <1>6, <2>1 DEF DrivesInv, Settled
  <2>3. Loaded' = Loaded
    BY <2>1 DEF Loaded
  <2> QED
    BY <2>1, <2>2, <2>3 DEF DrivesInv
<1>7. CASE PostRun
  <2>1. /\ pc = "drives" /\ pc' = "idle" /\ creates = {} /\ deletes = {} /\ status' = "SUCCESS"
        /\ drSettled' = Done(drSettled) /\ drSettled # "no" /\ UNCHANGED <<devices, gathered, items, source>>
    BY <1>7 DEF PostRun, Done, tablesVars, database
  <2>2. Loaded' = Loaded /\ Discovered' = Discovered /\ source = Loaded
    BY <2>1 DEF Loaded, Discovered, DrivesInv
  <2>3. SyncInv'
    BY SyncNext
  <2>4. Discovered = {AsItem(x) : x \in Loaded}
    BY <2>1, <2>2, <2>3 DEF SyncInv, DriveSuccessIsComplete, AsItem
  <2> QED
    BY <2>1, <2>2, <2>4 DEF DrivesInv, Done, AsItem
<1>8. CASE Die
  <2>1. pc' = "idle" /\ UNCHANGED <<devices, gathered, items>> /\ drSettled = "yes" /\ drSettled' = "yes"
    BY <1>0, <1>8 DEF Die, tablesVars, database, Settled, DrivesInv
  <2>2. Loaded' = Loaded /\ Discovered' = Discovered
    BY <2>1 DEF Loaded, Discovered
  <2> QED
    BY <2>1, <2>2 DEF DrivesInv, AsItem
<1> QED
  BY <1>2, <1>3, <1>4, <1>5, <1>6, <1>7, <1>8 DEF Next, DriveSync, People

LEMMA DrivesInit == Init => DrivesInv
BY DEF Init, DrivesInv

\* Nothing is written twice: once the hardware job and the drive sync have each
\* completed on the present tables, drives and Devices, no step of either job
\* changes the database, whichever runs died before.
THEOREM RerunsAreIdle == Spec => RerunChangesNothing
<1>1. ASSUME TypeInv, UniqueInv, FirstInv, PlaceInv, SyncInv, DrivesInv, [Next]_vars
      PROVE  [hwSettled = "yes" /\ drSettled = "yes" /\ (Hardware \/ DriveSync) => UNCHANGED database]_vars
  <2> SUFFICES ASSUME hwSettled = "yes", drSettled = "yes", Hardware \/ DriveSync PROVE UNCHANGED database
    OBVIOUS
  <2>1. CASE Hardware
    BY <1>1, <2>1, RerunStep
  <2>2. CASE DriveSync
    <3>1. RefuseDrives \/ StartDrives \/ PostRun
      BY <1>1, <2>2 DEF DriveSync, DrivesInv, CreateDrive, DeleteDrive
    <3> QED
      BY <3>1 DEF RefuseDrives, StartDrives, PostRun
  <2> QED
    BY <2>1, <2>2
<1> QED
  BY <1>1, TypeInit, TypeNext, UniqueInit, UniqueNext, FirstInit, FirstInvNext, PlaceInit, PlaceNext, SyncInit, SyncNext,
     DrivesInit, DrivesNext, PTL DEF Spec, RerunChangesNothing
=============================================================================
