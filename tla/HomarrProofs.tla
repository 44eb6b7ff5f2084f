---------------------------- MODULE HomarrProofs ----------------------------
(***************************************************************************)
(* Theorems about Homarr, for every catalog, every set of integrations and *)
(* any number of keys, changes and faults.                                 *)
(***************************************************************************)
EXTENDS Homarr, FiniteSetTheorems, WellFoundedInduction, TLAPS

-----------------------------------------------------------------------------
(* Type correctness: what the converger does next, and what there is *)

\* Where no key was minted yet in this run; where one was written to the file.
BeforeKey == {"probe", "step", "claim", "advance", "walk", "init", "leave", "setup", "login",
              "reset", "again", "mint"}
WithKey == {"analytics", "integration", "list", "apps", "settings", "publish"}
Places == BeforeKey \cup {"file"} \cup WithKey \cup {"idle"}
Runs == [key : 0 .. MaxKeys, todo : SUBSET Names, found : SUBSET App, ids : SUBSET Nat, changed : BOOLEAN]
Rows == [kind : {w.kind : w \in Wanted}, url : {w.url : w \in Wanted}]
Boards == [apps : SUBSET Nat, widget : BOOLEAN, extra : BOOLEAN, there : BOOLEAN]
Walks == {"start", "import", "user", "group", "settings", "integrations", "finish"}
Setups == {"start", "user", "setup", "finish"}

ControlOK ==
    /\ pc \in Places /\ run \in Runs /\ outcome \in {"none", "failed", "done"}
    /\ issued \in 0 .. MaxKeys /\ edits \in 0 .. MaxEdits /\ faults \in 0 .. MaxFaults
    /\ clean \in BOOLEAN /\ settled \in BOOLEAN /\ stuck \in BOOLEAN /\ excuses \in 0 .. MaxKeys
    /\ pc \in {"walk", "leave"} => major = 1
    /\ pc \in {"claim", "advance", "setup", "settings"} => major = 2
    /\ pc \in BeforeKey => issued < MaxKeys

SetupOK ==
    /\ major \in {1, 2} /\ claimed \in BOOLEAN
    /\ step \in (IF major = 2 THEN Setups ELSE Walks)
    /\ user \in {"none", "managed", "other", "renamed"} /\ keys \subseteq 1 .. issued

RowsOK ==
    /\ analytics \in BOOLEAN /\ apps \subseteq App /\ IsFiniteSet(apps)
    /\ \A a, b \in apps : a.id = b.id => a = b
    /\ integration \in {NoRow} \cup Rows
    /\ board \in Boards /\ settings \subseteq {"public", "home"}
    /\ file \in 0 .. MaxKeys /\ bao \in 0 .. MaxKeys /\ spec \in Specs
\* What a run has left to do is in the catalog it was given.
TodoOK == run.todo \subseteq Cataloged /\ (pc = "idle" => run = NoRun)

TypeInv == ControlOK /\ SetupOK /\ RowsOK /\ TodoOK

LEMMA StepNames ==
    /\ \A s : (\E i \in DOMAIN Steps1 : s = Steps1[i]) <=> s \in Walks
    /\ \A s : (\E i \in DOMAIN Steps2 : s = Steps2[i]) <=> s \in Setups
<1>1. DOMAIN Steps1 = 1 .. 7 /\ DOMAIN Steps2 = 1 .. 4
  BY DEF Steps1, Steps2
<1>2. /\ Steps1[1] = "start" /\ Steps1[2] = "import" /\ Steps1[3] = "user" /\ Steps1[4] = "group"
      /\ Steps1[5] = "settings" /\ Steps1[6] = "integrations" /\ Steps1[7] = "finish"
      /\ Steps2[1] = "start" /\ Steps2[2] = "user" /\ Steps2[3] = "setup" /\ Steps2[4] = "finish"
  BY DEF Steps1, Steps2
<1> QED
  BY <1>1, <1>2 DEF Walks, Setups

\* The onboarding of 1.x goes through its steps one by one.
LEMMA StepOrder ==
    /\ StepAfter("start") = "import" /\ StepAfter("import") = "user"
    /\ StepAfter("user") = "group" /\ StepAfter("group") = "settings"
    /\ StepAfter("settings") = "integrations" /\ StepAfter("integrations") = "finish"
<1>1. /\ Len(Steps1) - 1 = 6
      /\ Steps1[1] = "start" /\ Steps1[2] = "import" /\ Steps1[3] = "user" /\ Steps1[4] = "group"
      /\ Steps1[5] = "settings" /\ Steps1[6] = "integrations" /\ Steps1[7] = "finish"
  BY DEF Steps1
<1>2. ASSUME NEW i \in 1 .. 6 PROVE StepAfter(Steps1[i]) = Steps1[1 + i]
  <2> DEFINE j == CHOOSE k \in 1 .. 6 : Steps1[k] = Steps1[i]
  <2>1. j \in 1 .. 6 /\ Steps1[j] = Steps1[i]
    OBVIOUS
  <2>2. j = i
    <3> HIDE DEF j
    <3> QED
      BY <1>1, <2>1
  <2>3. StepAfter(Steps1[i]) = Steps1[1 + j]
    BY <1>1 DEF StepAfter
  <2> QED
    BY <2>2, <2>3
<1> QED
  BY <1>1, <1>2

LEMMA InvIsTyped == TypeInv => TypeOK
<1> SUFFICES ASSUME TypeInv PROVE TypeOK
  OBVIOUS
<1>1. pc \in {"idle", "probe", "step", "claim", "advance", "walk", "init", "leave", "setup", "login",
              "reset", "again", "mint", "file", "analytics", "integration", "list", "apps", "settings",
              "publish"}
  BY DEF TypeInv, ControlOK, Places, BeforeKey, WithKey
<1>2. keys \subseteq 1 .. MaxKeys
  <2>1. issued \in 0 .. MaxKeys /\ MaxKeys \in Nat /\ keys \subseteq 1 .. issued
    BY HomarrAssumption DEF TypeInv, ControlOK, SetupOK
  <2> QED
    BY <2>1
<1>3. IF major = 2 THEN \E i \in DOMAIN Steps2 : step = Steps2[i]
      ELSE \E i \in DOMAIN Steps1 : step = Steps1[i]
  BY StepNames DEF TypeInv, SetupOK
<1>4. run \in [key : 0 .. MaxKeys, todo : SUBSET Names, found : SUBSET App, ids : SUBSET Nat,
               changed : BOOLEAN]
  BY DEF TypeInv, ControlOK, Runs
<1>5. /\ integration \in {NoRow} \cup [kind : {w.kind : w \in Wanted}, url : {w.url : w \in Wanted}]
      /\ board \in [apps : SUBSET Nat, widget : BOOLEAN, extra : BOOLEAN, there : BOOLEAN]
      /\ spec \in Specs
  BY DEF TypeInv, RowsOK, Rows, Boards
<1> QED
  BY <1>1, <1>2, <1>3, <1>4, <1>5 DEF TypeInv, ControlOK, SetupOK, RowsOK, TypeOK

LEMMA BoardTypes == NoBoard \in Boards /\ EmptyBoard \in Boards /\ NoRun \in Runs
<1>1. NoBoard \in Boards
  BY DEF NoBoard, Boards
<1>2. EmptyBoard \in Boards
  BY <1>1 DEF EmptyBoard, Boards
<1>3. NoRun \in Runs
  BY HomarrAssumption DEF NoRun, Runs
<1> QED
  BY <1>1, <1>2, <1>3

LEMMA CatalogedType ==
    ASSUME spec \in Specs
    PROVE  /\ Cataloged \subseteq Names /\ IsFiniteSet(Cataloged)
           /\ \A n \in Cataloged : Url(n) \in Urls /\ Title(n) \in Titles
<1>1. PICK N \in SUBSET Names : spec.apps \in [N -> [url : Urls, title : Titles]]
  BY HomarrAssumption DEF Specs
<1>2. Cataloged = N /\ \A n \in N : spec.apps[n] \in [url : Urls, title : Titles]
  BY <1>1 DEF Cataloged
<1>3. IsFiniteSet(Cataloged)
  BY <1>2, HomarrAssumption, FS_Subset
<1> QED
  BY <1>2, <1>3 DEF Url, Title

LEMMA WantedType ==
    ASSUME spec \in Specs
    PROVE  spec.want \in Rows
<1>1. spec.want \in Wanted
  BY DEF Specs
<1>2. spec.want = [kind |-> spec.want.kind, url |-> spec.want.url]
  BY <1>1, HomarrAssumption
<1> QED
  BY <1>1, <1>2 DEF Rows

LEMMA TypeInit == Init => TypeInv
<1> SUFFICES ASSUME Init PROVE TypeInv
  OBVIOUS
<1>1. ControlOK
  <2>1. 0 \in 0 .. MaxKeys /\ 0 \in 0 .. MaxEdits /\ 0 \in 0 .. MaxFaults
    BY HomarrAssumption
  <2>2. pc = "idle" /\ pc \in Places /\ pc \notin BeforeKey /\ run \in Runs
    BY BoardTypes DEF Init, Places, BeforeKey
  <2> QED
    BY <2>1, <2>2 DEF Init, ControlOK
<1>2. SetupOK
  BY DEF Init, SetupOK, Setups, Walks
<1>3. RowsOK
  BY HomarrAssumption, BoardTypes, FS_EmptySet DEF Init, RowsOK
<1>4. TodoOK
  BY DEF Init, TodoOK, NoRun
<1> QED
  BY <1>1, <1>2, <1>3, <1>4 DEF TypeInv

-----------------------------------------------------------------------------
\* How a step ends, for the variables of the process.

LEMMA FailedControl ==
    ASSUME ControlOK, NEW ok \in BOOLEAN, Failed(ok), UNCHANGED <<major, issued, edits, settled, stuck, excuses>>,
           faults' \in 0 .. MaxFaults
    PROVE  ControlOK'
BY BoardTypes DEF ControlOK, Failed, Places, BeforeKey

LEMMA ThenControl ==
    ASSUME ControlOK, NEW next \in Places, NEW r \in Runs, Then(next, r), major' = major,
           next \in {"walk", "leave"} => major = 1,
           next \in {"claim", "advance", "setup", "settings"} => major = 2,
           next \in BeforeKey => issued < MaxKeys
    PROVE  ControlOK'
<1>1. CASE pc' = next /\ run' = r /\ UNCHANGED <<outcome, faults, clean>>
  BY <1>1 DEF ControlOK, Then
<1>2. CASE faults < MaxFaults /\ faults' = faults + 1 /\ Failed(FALSE)
  <2>1. faults' \in 0 .. MaxFaults
    BY <1>2, HomarrAssumption DEF ControlOK
  <2>2. UNCHANGED <<major, issued, edits, settled, stuck, excuses>>
    BY DEF Then
  <2> QED
    BY <1>2, <2>1, <2>2, FailedControl
<1> QED
  BY <1>1, <1>2 DEF Then

LEMMA GoControl ==
    ASSUME ControlOK, NEW next \in Places, NEW r \in Runs, Go(next, r), major' = major,
           next \in {"walk", "leave"} => major = 1,
           next \in {"claim", "advance", "setup", "settings"} => major = 2,
           next \in BeforeKey => issued < MaxKeys
    PROVE  ControlOK'
BY DEF ControlOK, Go, bounds, history, Places, BeforeKey, WithKey

LEMMA PlacesHold ==
    /\ BeforeKey \cup WithKey \cup {"file", "idle"} \subseteq Places
    /\ "file" \notin BeforeKey /\ "idle" \notin BeforeKey /\ BeforeKey \cap WithKey = {}
    /\ {"probe", "step", "claim", "advance", "walk", "init", "leave", "setup", "login", "reset", "again",
        "mint"} \subseteq BeforeKey
    /\ {"analytics", "integration", "list", "apps", "settings", "publish"} \subseteq WithKey
BY DEF Places, BeforeKey, WithKey

LEMMA RunTypes ==
    ASSUME run \in Runs
    PROVE  /\ [run EXCEPT !.changed = TRUE] \in Runs /\ [run EXCEPT !.key = 0] \in Runs
           /\ \A T \in SUBSET Names, F \in SUBSET App : [run EXCEPT !.todo = T, !.found = F, !.ids = {}] \in Runs
<1>1. [run EXCEPT !.changed = TRUE] \in Runs
  BY DEF Runs
<1>2. [run EXCEPT !.key = 0] \in Runs
  <2>1. 0 \in 0 .. MaxKeys
    BY HomarrAssumption
  <2> QED
    BY <2>1 DEF Runs
<1>3. ASSUME NEW T \in SUBSET Names, NEW F \in SUBSET App PROVE [run EXCEPT !.todo = T, !.found = F, !.ids = {}] \in Runs
  <2> DEFINE r == [run EXCEPT !.todo = T]
             q == [r EXCEPT !.found = F]
  <2>1. r \in Runs
    BY DEF Runs
  <2>2. q \in Runs
    <3> HIDE DEF r
    <3> QED
      BY <2>1 DEF Runs
  <2>3. [q EXCEPT !.ids = {}] \in Runs
    <3>1. {} \in SUBSET Nat
      OBVIOUS
    <3> HIDE DEF q
    <3> QED
      BY <2>2, <3>1 DEF Runs
  <2> QED
    BY <2>3
<1> QED
  BY <1>1, <1>2, <1>3

\* What a function makes of a finite set is no larger.
LEMMA ImageBound ==
    ASSUME NEW S, IsFiniteSet(S), NEW f, DOMAIN f = S, f = [x \in S |-> f[x]]
    PROVE  IsFiniteSet({f[x] : x \in S}) /\ Cardinality({f[x] : x \in S}) <= Cardinality(S)
<1> DEFINE T == {f[x] : x \in S}
<1>1. f \in [S -> T]
  OBVIOUS
<1>2. \A t \in T : \E x \in S : f[x] = t
  OBVIOUS
<1> HIDE DEF T
<1>3. f \in Surjection(S, T)
  BY <1>1, <1>2 DEF Surjection
<1>4. IsFiniteSet(T) /\ Cardinality(T) <= Cardinality(S)
  BY <1>3, FS_Surjection
<1> QED
  BY <1>4 DEF T

\* There is a number from 1 to Cardinality(apps) + 1 that is no app's id.
LEMMA NewIdIsFree ==
    ASSUME RowsOK
    PROVE  NewId \in Nat /\ \A a \in apps : a.id # NewId
<1> DEFINE k == Cardinality(apps) + 1
           id == [a \in apps |-> a.id]
           used == {id[a] : a \in apps}
<1>1. k \in Nat /\ k = Cardinality(apps) + 1 /\ IsFiniteSet(apps)
  BY FS_CardinalityType DEF RowsOK
<1>2. \E i \in 1 .. k : \A a \in apps : a.id # i
  <2>1. SUFFICES ASSUME \A i \in 1 .. k : \E a \in apps : a.id = i PROVE FALSE
    OBVIOUS
  <2>2. 1 .. k \subseteq used
    BY <2>1
  <2>3. IsFiniteSet(used) /\ Cardinality(used) <= Cardinality(apps)
    BY <1>1, ImageBound
  <2>4. Cardinality(1 .. k) <= Cardinality(used)
    BY <2>2, <2>3, FS_Subset
  <2>5. Cardinality(1 .. k) = k
    BY <1>1, FS_Interval
  <2>6. Cardinality(used) \in Nat /\ Cardinality(apps) \in Nat
    BY <1>1, <2>3, FS_CardinalityType
  <2> QED
    BY <1>1, <2>3, <2>4, <2>5, <2>6
<1>3. NewId \in 1 .. k /\ \A a \in apps : a.id # NewId
  BY <1>2 DEF NewId
<1> QED
  BY <1>1, <1>3

LEMMA PastTypes ==
    ASSUME run \in Runs, NEW n, NEW ids \in SUBSET Nat
    PROVE  /\ Past(n, ids) \in Runs /\ PastBy(n, ids) \in Runs
           /\ Past(n, ids).key = run.key /\ PastBy(n, ids).key = run.key
           /\ Past(n, ids).todo = run.todo \ {n} /\ PastBy(n, ids).todo = run.todo \ {n}
           /\ Past(n, ids).found = run.found /\ PastBy(n, ids).found = run.found
           /\ Past(n, ids).ids = run.ids \cup ids /\ PastBy(n, ids).ids = run.ids \cup ids
           /\ Past(n, ids).changed = run.changed
<1> DEFINE past == Past(n, ids)
<1>1. /\ past \in Runs /\ past.key = run.key /\ past.todo = run.todo \ {n} /\ past.found = run.found
      /\ past.ids = run.ids \cup ids /\ past.changed = run.changed
  BY DEF Runs, Past
<1>2. PastBy(n, ids) = [past EXCEPT !.changed = TRUE]
  BY DEF PastBy
<1> HIDE DEF past
<1>3. /\ PastBy(n, ids) \in Runs /\ PastBy(n, ids).key = past.key /\ PastBy(n, ids).todo = past.todo
      /\ PastBy(n, ids).found = past.found /\ PastBy(n, ids).ids = past.ids
  BY <1>1, <1>2 DEF Runs
<1> QED
  BY <1>1, <1>3 DEF past

\* What becomes of the run when a row is synced.
LEMMA SyncAppRun ==
    ASSUME RowsOK, run \in Runs, NEW n, SyncApp(n)
    PROVE  \E ids \in SUBSET Nat : Then("apps", PastBy(n, ids)) \/ Go("apps", Past(n, ids))
<1>1. {NewId} \in SUBSET Nat
  BY NewIdIsFree
<1>2. IdsOf(Have(n)) \in SUBSET Nat
  BY DEF IdsOf, Have, Runs, App
<1> QED
  BY <1>1, <1>2 DEF SyncApp

LEMMA ControlNext == TypeInv /\ [Next]_vars => ControlOK'
<1> SUFFICES ASSUME TypeInv, [Next]_vars PROVE ControlOK'
  OBVIOUS
<1>0. ControlOK /\ run \in Runs
  BY DEF TypeInv, ControlOK
<1>a. BeforeKey \cup WithKey \cup {"file", "idle"} \subseteq Places
  BY PlacesHold
<1>1. CASE UNCHANGED vars
  BY <1>0, <1>1 DEF vars, bounds, history, ControlOK
<1>2. CASE Start
  <2>1. PICK readable \in BOOLEAN :
           /\ run' = [NoRun EXCEPT !.key = IF readable /\ bao # 0 THEN bao ELSE file]
           /\ pc' \in {"probe", "step"} /\ excuses' \in {excuses, excuses + 1} /\ (excuses' # excuses => excuses < MaxKeys)
    BY <1>2 DEF Start
  <2>2. run' \in Runs
    BY <2>1 DEF TypeInv, RowsOK, NoRun, Runs
  <2>3. excuses' \in 0 .. MaxKeys
    BY <1>0, <2>1, HomarrAssumption DEF ControlOK
  <2>4. settled' \in BOOLEAN /\ stuck' \in BOOLEAN
    BY <1>2 DEF Start
  <2> QED
    BY <1>0, <1>2, <2>1, <2>2, <2>3, <2>4 DEF Start, bounds, ControlOK, Places, BeforeKey
<1>3. CASE Probe \/ ReadStep
  <2>1. pc \in BeforeKey /\ issued < MaxKeys
    BY <1>0, <1>3 DEF Probe, ReadStep, ControlOK, BeforeKey
  <2>2. major' = major /\ major \in {1, 2}
    BY <1>3 DEF Probe, ReadStep, TypeInv, SetupOK
  <2> QED
    BY <1>0, <1>3, <2>1, <2>2, GoControl, RunTypes, PlacesHold DEF Probe, ReadStep
<1>4. CASE Claim \/ Advance
  BY <1>0, <1>4, ThenControl, PlacesHold DEF Claim, Advance, ControlOK
<1>5. CASE ClaimRefused \/ WalkedPast \/ NobodyToReset \/ LoginStillFails
  <2>1. Refused
    BY <1>5 DEF ClaimRefused, WalkedPast, NobodyToReset, LoginStillFails
  <2> QED
    BY <1>0, <2>1, FailedControl DEF Refused, bounds, ControlOK
<1>6. CASE Walk
  BY <1>0, <1>6, ThenControl, PlacesHold DEF Walk, ControlOK
<1>7. CASE Walked
  BY <1>0, <1>7, GoControl, PlacesHold DEF Walked, ControlOK
<1>8. CASE InitUser
  <2>1. major \in {1, 2} /\ major' = major /\ issued < MaxKeys
    BY <1>0, <1>8, PlacesHold DEF InitUser, ControlOK, TypeInv, SetupOK
  <2> QED
    BY <1>0, <1>8, <2>1, ThenControl, PlacesHold DEF InitUser
<1>9. CASE CompleteSetup
  BY <1>0, <1>9, ThenControl, PlacesHold DEF CompleteSetup, ControlOK
<1>10. CASE Login \/ ResetPassword \/ LoginAgain
  BY <1>0, <1>10, GoControl, PlacesHold DEF Login, ResetPassword, LoginAgain, ControlOK
<1>11. CASE Mint
  <2>1. issued < MaxKeys /\ issued' = issued + 1 /\ issued \in 0 .. MaxKeys /\ MaxKeys \in Nat
    BY <1>0, <1>11, PlacesHold, HomarrAssumption DEF Mint, ControlOK
  <2>2. [run EXCEPT !.key = issued + 1, !.changed = TRUE] \in Runs
    <3>1. issued + 1 \in 0 .. MaxKeys
      BY <2>1
    <3> QED
      BY <1>0, <3>1 DEF Runs
  <2>3. issued' \in 0 .. MaxKeys
    BY <2>1
  <2>4. CASE pc' = "file" /\ run' = [run EXCEPT !.key = issued + 1, !.changed = TRUE]
             /\ UNCHANGED <<outcome, faults, clean>>
    BY <1>0, <1>11, <2>2, <2>3, <2>4, PlacesHold DEF Mint, ControlOK
  <2>5. CASE faults < MaxFaults /\ faults' = faults + 1 /\ Failed(FALSE)
    <3>1. faults' \in 0 .. MaxFaults
      BY <1>0, <2>5, HomarrAssumption DEF ControlOK
    <3>2. run' \in Runs /\ pc' = "idle" /\ outcome' = "failed" /\ clean' \in BOOLEAN
      BY <2>5, BoardTypes DEF Failed
    <3> QED
      BY <1>0, <1>11, <2>3, <3>1, <3>2, PlacesHold DEF Mint, ControlOK
  <2> QED
    BY <1>11, <2>4, <2>5 DEF Mint
<1>12. CASE WriteFile \/ TilesDone
  BY <1>0, <1>12, GoControl, PlacesHold DEF WriteFile, TilesDone
<1>13. CASE DisableAnalytics
  BY <1>0, <1>13, GoControl, ThenControl, RunTypes, PlacesHold DEF DisableAnalytics
<1>14. CASE SyncIntegration \/ ListApps
  <2>1. CASE SyncIntegration
    BY <1>0, <2>1, GoControl, ThenControl, RunTypes, PlacesHold DEF SyncIntegration
  <2>2. CASE ListApps
    <3>1. PICK found \in SUBSET apps : Go("apps", [run EXCEPT !.todo = Cataloged, !.found = found, !.ids = {}])
      BY <2>2 DEF ListApps
    <3>2. Cataloged \in SUBSET Names /\ found \in SUBSET App
      BY CatalogedType DEF TypeInv, RowsOK
    <3>3. [run EXCEPT !.todo = Cataloged, !.found = found, !.ids = {}] \in Runs
      BY <1>0, <3>2, RunTypes
    <3> QED
      BY <1>0, <2>2, <3>1, <3>3, GoControl, PlacesHold DEF ListApps
  <2> QED
    BY <1>14, <2>1, <2>2
<1>15. ASSUME NEW n \in Names, SyncApp(n) PROVE ControlOK'
  <2>1. PICK ids \in SUBSET Nat : Then("apps", PastBy(n, ids)) \/ Go("apps", Past(n, ids))
    BY <1>0, <1>15, SyncAppRun DEF TypeInv
  <2>2. Past(n, ids) \in Runs /\ PastBy(n, ids) \in Runs /\ major' = major
    BY <1>0, <1>15, PastTypes DEF SyncApp
  <2> QED
    BY <1>0, <2>1, <2>2, GoControl, ThenControl, PlacesHold
<1>16. CASE AddTile \/ CreateBoard
  BY <1>0, <1>16, ThenControl, RunTypes, PlacesHold DEF AddTile, CreateBoard
<1>17. CASE SaveBoard \/ SetBoard
  BY <1>0, <1>17, GoControl, ThenControl, RunTypes, PlacesHold DEF SaveBoard, SetBoard, ControlOK
<1>18. CASE Publish
  BY <1>0, <1>18, BoardTypes DEF Publish, bounds, history, ControlOK, Places, BeforeKey
<1>19. CASE EditSpec \/ Rebuild \/ Rearrange \/ ChangeAdmin
  <2>1. Edit
    BY <1>19 DEF EditSpec, Rebuild, Rearrange, ChangeAdmin
  <2>2. edits' \in 0 .. MaxEdits
    BY <1>0, <2>1, HomarrAssumption DEF Edit, ControlOK
  <2> QED
    BY <1>0, <2>1, <2>2 DEF Edit, ControlOK
<1>20. CASE Expire
  BY <1>0, <1>20 DEF Expire, bounds, history, ControlOK
<1>21. CASE ProbeFails \/ LoginFails
  <2>1. faults' \in 0 .. MaxFaults
    BY <1>0, <1>21, HomarrAssumption DEF ProbeFails, LoginFails, ControlOK
  <2>2. run' \in Runs /\ issued < MaxKeys
    BY <1>0, <1>21, RunTypes, PlacesHold DEF ProbeFails, LoginFails, ControlOK
  <2> QED
    BY <1>0, <1>21, <2>1, <2>2, PlacesHold DEF ProbeFails, LoginFails, ControlOK
<1>22. CASE Die
  <2>1. faults' \in 0 .. MaxFaults
    BY <1>0, <1>22, HomarrAssumption DEF Die, ControlOK
  <2> QED
    BY <1>0, <1>22, <2>1, FailedControl DEF Die
<1> QED
  BY <1>1, <1>2, <1>3, <1>4, <1>5, <1>6, <1>7, <1>8, <1>9, <1>10, <1>11, <1>12, <1>13, <1>14, <1>15,
     <1>16, <1>17, <1>18, <1>19, <1>20, <1>21, <1>22 DEF Next, Converger, Outside

-----------------------------------------------------------------------------
LEMMA SetupNext == TypeInv /\ [Next]_vars => SetupOK'
<1> SUFFICES ASSUME TypeInv, [Next]_vars PROVE SetupOK'
  OBVIOUS
<1>0. SetupOK /\ issued \in 0 .. MaxKeys
  BY DEF TypeInv, ControlOK
<1>a. /\ {"start", "user", "setup", "finish"} \subseteq Setups
      /\ {"start", "import", "user", "group", "settings", "integrations", "finish"} \subseteq Walks
  BY DEF Setups, Walks
<1>1. CASE UNCHANGED <<major, homarr, issued>>
  BY <1>0, <1>1 DEF homarr, SetupOK
<1>2. CASE Start \/ Probe \/ ProbeFails \/ ReadStep \/ ClaimRefused \/ WalkedPast \/ Walked \/ Login \/ LoginFails
           \/ NobodyToReset \/ LoginAgain \/ LoginStillFails \/ WriteFile \/ ListApps
           \/ TilesDone \/ Publish \/ EditSpec \/ Die \/ UNCHANGED vars
  <2>1. UNCHANGED <<major, homarr, issued>>
    BY <1>2 DEF Start, Probe, ProbeFails, ReadStep, ClaimRefused, WalkedPast, Walked, Login, LoginFails, NobodyToReset,
       LoginAgain, LoginStillFails, WriteFile, ListApps, TilesDone, Publish, EditSpec, Die, Refused, Go, Edit,
       bounds, vars
  <2> QED
    BY <1>1, <2>1
<1>3. CASE Claim
  BY <1>0, <1>3 DEF Claim, Then, SetupOK
<1>4. CASE Advance
  <2>1. major = 2
    BY <1>4 DEF Advance, TypeInv, ControlOK
  <2> QED
    BY <1>0, <1>4, <1>a, <2>1 DEF Advance, Then, SetupOK
<1>5. CASE Walk
  <2>1. major = 1
    BY <1>5 DEF Walk, TypeInv, ControlOK
  <2>2. step \in Walks \ {"finish"}
    BY <1>0, <1>5, <2>1 DEF Walk, SetupOK
  <2>3. StepAfter(step) \in Walks
    BY <2>2, StepOrder DEF Walks
  <2> QED
    BY <1>0, <1>5, <2>1, <2>3 DEF Walk, Then, SetupOK
<1>6. CASE InitUser
  BY <1>0, <1>6, <1>a DEF InitUser, Then, SetupOK
<1>7. CASE CompleteSetup
  <2>1. major = 2
    BY <1>7 DEF CompleteSetup, TypeInv, ControlOK
  <2> QED
    BY <1>0, <1>7, <1>a, <2>1 DEF CompleteSetup, Then, SetupOK
<1>8. CASE ResetPassword \/ ChangeAdmin
  BY <1>0, <1>8 DEF ResetPassword, ChangeAdmin, Go, Edit, bounds, SetupOK
<1>9. CASE Mint
  <2>1. issued' = issued + 1 /\ keys' = keys \cup {issued + 1} /\ keys \subseteq 1 .. issued /\ issued \in Nat
    BY <1>0, <1>9, HomarrAssumption DEF Mint, SetupOK
  <2>2. keys' \subseteq 1 .. issued'
    BY <2>1
  <2> QED
    BY <1>0, <1>9, <2>2 DEF Mint, SetupOK
<1>10. CASE DisableAnalytics \/ SyncIntegration \/ AddTile \/ CreateBoard \/ SaveBoard \/ SetBoard
  BY <1>0, <1>10 DEF DisableAnalytics, SyncIntegration, AddTile, CreateBoard, SaveBoard, SetBoard, Go, Then, bounds,
     SetupOK
<1>11. ASSUME NEW n \in Names, SyncApp(n) PROVE SetupOK'
  BY <1>0, <1>11 DEF SyncApp, Go, Then, bounds, SetupOK
<1>12. CASE Rebuild
  BY <1>0, <1>12, <1>a DEF Rebuild, Edit, SetupOK
<1>13. CASE Rearrange \/ Expire
  BY <1>0, <1>13 DEF Rearrange, Expire, Edit, bounds, SetupOK
<1> QED
  BY <1>2, <1>3, <1>4, <1>5, <1>6, <1>7, <1>8, <1>9, <1>10, <1>11, <1>12, <1>13 DEF Next, Converger, Outside

LEMMA TodoNext == TypeInv /\ [Next]_vars => TodoOK'
<1> SUFFICES ASSUME TypeInv, [Next]_vars PROVE TodoOK'
  OBVIOUS
<1>0. TodoOK /\ run \in Runs /\ RowsOK
  BY DEF TypeInv, ControlOK
<1>a. NoRun.todo = {} /\ \A k : [NoRun EXCEPT !.key = k].todo = {}
  BY DEF NoRun
<1>b. /\ [run EXCEPT !.changed = TRUE].todo = run.todo
      /\ \A k : /\ [run EXCEPT !.key = k].todo = run.todo
                /\ [run EXCEPT !.key = k, !.changed = TRUE].todo = run.todo
  BY <1>0 DEF Runs
<1>1. CASE run'.todo \in {run.todo, {}} /\ (pc' = "idle" => run' = NoRun) /\ spec' = spec
  BY <1>0, <1>1 DEF TodoOK, Cataloged
<1>3. CASE UNCHANGED <<pc, run, spec>>
  BY <1>0, <1>3 DEF TodoOK, Cataloged
<1>4. CASE ClaimRefused \/ WalkedPast \/ NobodyToReset \/ LoginStillFails \/ Die \/ Publish
  BY <1>1, <1>4, <1>a DEF ClaimRefused, WalkedPast, NobodyToReset, LoginStillFails, Die, Publish, Refused, Failed, store
<1>5. CASE Start
  BY <1>1, <1>5, <1>a DEF Start, store
<1>6. CASE Probe \/ ProbeFails \/ LoginFails \/ Mint
  BY <1>1, <1>6, <1>a, <1>b DEF Probe, ProbeFails, LoginFails, Mint, Go, Failed, store
<1>7. CASE ReadStep \/ Login \/ ResetPassword \/ LoginAgain \/ WriteFile \/ TilesDone \/ Walked
  BY <1>0, <1>1, <1>7, <1>b DEF ReadStep, Login, ResetPassword, LoginAgain, WriteFile, TilesDone, Walked, Go, store
<1>8. CASE Claim \/ Advance \/ Walk \/ InitUser \/ CompleteSetup
  BY <1>0, <1>1, <1>8, <1>a DEF Claim, Advance, Walk, InitUser, CompleteSetup, Then, Failed, store
<1>9. CASE DisableAnalytics \/ SyncIntegration \/ AddTile \/ CreateBoard \/ SaveBoard \/ SetBoard
  <2>1. spec' = spec /\ \E next \in WithKey : \/ Go(next, run) \/ Then(next, run)
                                           \/ Then(next, [run EXCEPT !.changed = TRUE])
    BY <1>9, PlacesHold DEF DisableAnalytics, SyncIntegration, AddTile, CreateBoard, SaveBoard, SetBoard, store
  <2> QED
    BY <1>0, <1>1, <1>a, <1>b, <2>1 DEF Go, Then, Failed, WithKey
<1>10. CASE ListApps
  <2>1. PICK found \in SUBSET apps : Go("apps", [run EXCEPT !.todo = Cataloged, !.found = found, !.ids = {}])
    BY <1>10 DEF ListApps
  <2>2. Cataloged \in SUBSET Names /\ found \in SUBSET App
    BY <1>0, CatalogedType DEF RowsOK
  <2>3. [run EXCEPT !.todo = Cataloged, !.found = found, !.ids = {}].todo = Cataloged
    BY <1>0, <2>2 DEF Runs
  <2>4. spec' = spec /\ run'.todo = Cataloged /\ pc' # "idle"
    BY <1>10, <2>1, <2>3 DEF ListApps, store, Go
  <2> QED
    BY <2>4 DEF TodoOK, Cataloged
<1>11. ASSUME NEW n \in Names, SyncApp(n) PROVE TodoOK'
  <2>1. PICK ids \in SUBSET Nat : Then("apps", PastBy(n, ids)) \/ Go("apps", Past(n, ids))
    BY <1>0, <1>11, SyncAppRun
  <2>2. Past(n, ids).todo = run.todo \ {n} /\ PastBy(n, ids).todo = run.todo \ {n}
    BY <1>0, PastTypes
  <2>3. spec' = spec
    BY <1>11 DEF SyncApp, store
  <2>4. (run'.todo = run.todo \ {n} /\ pc' = "apps") \/ run' = NoRun
    BY <2>1, <2>2 DEF Go, Then, Failed
  <2> QED
    BY <1>0, <1>a, <2>3, <2>4 DEF TodoOK, Cataloged
<1>12. CASE EditSpec \/ Rebuild
  <2>1. pc = "idle" /\ UNCHANGED <<pc, run>>
    BY <1>12 DEF EditSpec, Rebuild, Edit
  <2> QED
    BY <1>0, <1>a, <2>1 DEF TodoOK, Cataloged
<1>13. CASE Rearrange \/ ChangeAdmin \/ Expire \/ UNCHANGED vars
  BY <1>3, <1>13 DEF Rearrange, ChangeAdmin, Expire, Edit, store, vars
<1> QED
  BY <1>4, <1>5, <1>6, <1>7, <1>8, <1>9, <1>10, <1>11, <1>12, <1>13 DEF Next, Converger, Outside

-----------------------------------------------------------------------------
(* How many apps a URL has *)

SyncedRows(u) == RowsAt(spec.apps, u) \ run.todo

\* An app that was listed is there, as it was listed until a row of its URL was
\* synced; and a URL for which none was listed has at most an app for each row
\* that was.
FoundOK ==
    /\ \A f \in run.found : \E a \in apps :
         a.id = f.id /\ a.href = f.href /\ (a.title = f.title \/ SyncedRows(f.href) # {})
    /\ pc = "apps" => \A u \in Urls : (\A f \in run.found : f.href # u)
                                    => Cardinality(AppsAt(u)) <= Cardinality(SyncedRows(u))
AppsInv == AppsPerUrl /\ FoundOK

LEMMA CountsAreFinite ==
    ASSUME RowsOK, NEW u
    PROVE  /\ IsFiniteSet(AppsAt(u)) /\ Cardinality(AppsAt(u)) \in Nat
           /\ \A c \in Catalogs : IsFiniteSet(RowsAt(c, u)) /\ Cardinality(RowsAt(c, u)) \in Nat
           /\ IsFiniteSet(RowsAt(spec.apps, u)) /\ Cardinality(RowsAt(spec.apps, u)) \in Nat
           /\ IsFiniteSet(SyncedRows(u)) /\ Cardinality(SyncedRows(u)) \in Nat
<1>1. IsFiniteSet(AppsAt(u))
  BY FS_Subset DEF RowsOK, AppsAt
<1>2. ASSUME NEW c \in Catalogs PROVE IsFiniteSet(RowsAt(c, u))
  <2>1. PICK N \in SUBSET Names : c \in [N -> [url : Urls, title : Titles]]
    BY HomarrAssumption
  <2>2. RowsAt(c, u) \subseteq Names
    BY <2>1 DEF RowsAt
  <2> QED
    BY <2>2, HomarrAssumption, FS_Subset
<1>3. IsFiniteSet(RowsAt(spec.apps, u))
  BY <1>2 DEF RowsOK, Specs
<1>4. IsFiniteSet(SyncedRows(u))
  BY <1>3, FS_Subset DEF SyncedRows
<1> QED
  BY <1>1, <1>2, <1>3, <1>4, FS_CardinalityType

\* app.create: one more app of that URL, with an id of its own.
LEMMA CreatedKeeps ==
    ASSUME RowsOK, NEW u \in Urls, NEW t \in Titles,
           apps' = apps \cup {[id |-> NewId, href |-> u, title |-> t]}
    PROVE  /\ apps' \subseteq App /\ IsFiniteSet(apps') /\ \A a, b \in apps' : a.id = b.id => a = b
           /\ \A v : v # u => AppsAt(v)' = AppsAt(v)
           /\ Cardinality(AppsAt(u)') <= Cardinality(AppsAt(u)) + 1
<1> DEFINE made == [id |-> NewId, href |-> u, title |-> t]
<1>1. NewId \in Nat /\ \A a \in apps : a.id # NewId
  BY NewIdIsFree
<1>2. made \in App /\ made.id = NewId /\ made.href = u
  BY <1>1 DEF App
<1> HIDE DEF made
<1>3. apps' = apps \cup {made}
  BY DEF made
<1>4. IsFiniteSet(apps')
  BY <1>3, FS_AddElement DEF RowsOK
<1>5. \A a, b \in apps' : a.id = b.id => a = b
  BY <1>1, <1>2, <1>3 DEF RowsOK
<1>6. \A v : v # u => AppsAt(v)' = AppsAt(v)
  BY <1>2, <1>3 DEF AppsAt
<1>7. Cardinality(AppsAt(u)') <= Cardinality(AppsAt(u)) + 1
  <2>1. AppsAt(u)' = AppsAt(u) \cup {made}
    BY <1>2, <1>3 DEF AppsAt
  <2>2. IsFiniteSet(AppsAt(u)) /\ Cardinality(AppsAt(u)) \in Nat
    BY CountsAreFinite
  <2> DEFINE S == AppsAt(u)
  <2>3. IsFiniteSet(S) /\ Cardinality(S) \in Nat /\ AppsAt(u)' = S \cup {made}
    BY <2>1, <2>2
  <2> HIDE DEF S
  <2>4. Cardinality(S \cup {made}) \in {Cardinality(S), Cardinality(S) + 1}
    BY <2>3, FS_AddElement
  <2>5. Cardinality(AppsAt(u)') <= Cardinality(S) + 1
    BY <2>3, <2>4
  <2> QED
    BY <2>5 DEF S
<1> QED
  BY <1>2, <1>3, <1>4, <1>5, <1>6, <1>7 DEF RowsOK

\* app.update: every app keeps its id and its URL.
LEMMA RetitledKeeps ==
    ASSUME RowsOK, NEW ids, NEW t \in Titles, apps' = Retitled(ids, t)
    PROVE  /\ apps' \subseteq App /\ IsFiniteSet(apps') /\ \A a, b \in apps' : a.id = b.id => a = b
           /\ \A a \in apps : \E b \in apps' : /\ b.id = a.id /\ b.href = a.href
                                              /\ b.title = IF a.id \in ids THEN t ELSE a.title
           /\ \A b \in apps' : \E a \in apps : b.id = a.id /\ b.href = a.href
           /\ \A v : Cardinality(AppsAt(v)') <= Cardinality(AppsAt(v))
<1> DEFINE new == [a \in apps |-> IF a.id \in ids THEN [a EXCEPT !.title = t] ELSE a]
<1>1. apps' = {new[a] : a \in apps}
  BY DEF Retitled
<1>2. ASSUME NEW a \in apps
      PROVE  /\ new[a] \in App /\ new[a].id = a.id /\ new[a].href = a.href
             /\ new[a].title = IF a.id \in ids THEN t ELSE a.title
  <2>1. a \in App
    BY DEF RowsOK
  <2> QED
    BY <2>1 DEF App
<1>3. new = [a \in apps |-> new[a]] /\ DOMAIN new = apps
  OBVIOUS
<1> HIDE DEF new
<1>4. IsFiniteSet(apps')
  BY <1>1, <1>3, ImageBound DEF RowsOK
<1>5. \A a, b \in apps' : a.id = b.id => a = b
  BY <1>1, <1>2 DEF RowsOK
<1>6. ASSUME NEW v PROVE Cardinality(AppsAt(v)') <= Cardinality(AppsAt(v))
  <2> DEFINE S == AppsAt(v)
             g == [a \in S |-> new[a]]
  <2>1. S \subseteq apps /\ IsFiniteSet(S)
    BY CountsAreFinite DEF AppsAt
  <2>2. AppsAt(v)' = {new[a] : a \in S}
    BY <1>1, <1>2 DEF AppsAt
  <2>3. AppsAt(v)' = {g[a] : a \in S}
    BY <2>2
  <2>4. g = [a \in S |-> g[a]] /\ DOMAIN g = S
    OBVIOUS
  <2> HIDE DEF g, S
  <2>5. Cardinality({g[a] : a \in S}) <= Cardinality(S)
    BY <2>1, <2>4, ImageBound
  <2> QED
    BY <2>3, <2>5 DEF S
<1> QED
  BY <1>1, <1>2, <1>4, <1>5, <1>6

\* The ways a row is synced.
LEMMA SyncAppCases ==
    ASSUME TypeInv, NEW n \in Names, SyncApp(n)
    PROVE  /\ pc = "apps" /\ n \in run.todo /\ n \in Cataloged /\ Url(n) \in Urls /\ Title(n) \in Titles
           /\ UNCHANGED <<major, step, claimed, user, keys, analytics, integration, board, settings, store>>
           /\ \/ /\ Have(n) = {} /\ Then("apps", PastBy(n, {NewId}))
                 /\ apps' = apps \cup {[id |-> NewId, href |-> Url(n), title |-> Title(n)]}
              \/ /\ Have(n) # {} /\ (\A f \in Have(n) : f.title = Title(n))
                 /\ apps' = apps /\ Go("apps", Past(n, IdsOf(Have(n))))
              \/ /\ Have(n) # {} /\ apps' = Retitled(IdsOf(Have(n)), Title(n))
                 /\ Then("apps", PastBy(n, IdsOf(Have(n))))
<1>1. n \in run.todo /\ n \in Cataloged
  BY DEF SyncApp, TypeInv, TodoOK
<1>2. Url(n) \in Urls /\ Title(n) \in Titles
  BY <1>1, CatalogedType DEF TypeInv, RowsOK
<1> QED
  BY <1>1, <1>2 DEF SyncApp

LEMMA AppsElsewhere ==
    ASSUME [Next]_vars, ~Rebuild, ~\E n \in Names : SyncApp(n)
    PROVE  apps' = apps
BY DEF Next, Outside, Start, Converger, Probe, ReadStep, Claim, ClaimRefused, Advance, Walk, Walked, WalkedPast,
   InitUser, CompleteSetup, Login, LoginFails, ResetPassword, NobodyToReset, LoginAgain, LoginStillFails, Mint,
   WriteFile, DisableAnalytics, SyncIntegration, ListApps, AddTile, TilesDone, CreateBoard, SaveBoard, SetBoard,
   Publish, EditSpec, Rearrange, ChangeAdmin, Expire, ProbeFails, Die, Refused, homarr, vars

\* One step of the apps keeps their types and the ids apart.
LEMMA AppsTyped ==
    ASSUME TypeInv, [Next]_vars
    PROVE  apps' \subseteq App /\ IsFiniteSet(apps') /\ \A a, b \in apps' : a.id = b.id => a = b
<1>1. CASE apps' = apps
  BY <1>1 DEF TypeInv, RowsOK
<1>2. CASE Rebuild
  BY <1>2, FS_EmptySet DEF Rebuild
<1>3. ASSUME NEW n \in Names, SyncApp(n)
      PROVE  apps' \subseteq App /\ IsFiniteSet(apps') /\ \A a, b \in apps' : a.id = b.id => a = b
  BY <1>1, <1>3, SyncAppCases, CreatedKeeps, RetitledKeeps DEF TypeInv
<1> QED
  BY <1>1, <1>2, <1>3, AppsElsewhere

LEMMA CountsAreFiniteNext ==
    ASSUME TypeInv, [Next]_vars, NEW u
    PROVE  Cardinality(AppsAt(u)') \in Nat
<1>1. IsFiniteSet(apps') /\ AppsAt(u)' \subseteq apps'
  BY AppsTyped DEF AppsAt
<1> QED
  BY <1>1, FS_Subset, FS_CardinalityType

LEMMA DesiredType ==
    ASSUME RowsOK, NEW ids \in SUBSET Nat
    PROVE  Desired(ids) \in Boards
<1>1. (integration.kind = spec.want.kind) \in BOOLEAN
  OBVIOUS
<1> QED
  BY <1>1 DEF Desired, Boards

LEMMA RowsNext == TypeInv /\ [Next]_vars => RowsOK'
<1> SUFFICES ASSUME TypeInv, [Next]_vars PROVE RowsOK'
  OBVIOUS
<1>0. RowsOK /\ run \in Runs /\ run.key \in 0 .. MaxKeys /\ run.ids \in SUBSET Nat
  BY DEF TypeInv, ControlOK, Runs
<1>a. apps' \subseteq App /\ IsFiniteSet(apps') /\ \A a, b \in apps' : a.id = b.id => a = b
  BY AppsTyped
<1>1. CASE UNCHANGED <<analytics, integration, board, settings, file, bao, spec>>
  BY <1>0, <1>1, <1>a DEF RowsOK
<1>2. CASE Start \/ Probe \/ ProbeFails \/ ReadStep \/ Claim \/ ClaimRefused \/ Advance \/ WalkedPast \/ Walked
           \/ InitUser \/ Login \/ LoginFails \/ ResetPassword \/ NobodyToReset \/ LoginAgain \/ LoginStillFails
           \/ Mint \/ ListApps \/ TilesDone \/ ChangeAdmin \/ Expire \/ Die
           \/ (\E n \in Names : SyncApp(n)) \/ UNCHANGED vars
  <2>1. UNCHANGED <<analytics, integration, board, settings, file, bao, spec>>
    BY <1>2 DEF Start, Probe, ProbeFails, ReadStep, Claim, ClaimRefused, Advance, WalkedPast, Walked, InitUser, Login,
       LoginFails, ResetPassword, NobodyToReset, LoginAgain, LoginStillFails, Mint, ListApps, TilesDone, ChangeAdmin,
       Expire, Die, SyncApp, Refused, homarr, store, vars
  <2> QED
    BY <1>1, <2>1
<1>3. CASE Walk \/ CompleteSetup \/ CreateBoard
  <2>1. /\ UNCHANGED <<analytics, integration, file, bao, spec>> /\ board' \in {board, EmptyBoard}
        /\ settings' \in {settings, {"home"}, {"public"}}
    BY <1>3 DEF Walk, CompleteSetup, CreateBoard, store
  <2> QED
    BY <1>0, <1>a, <2>1, BoardTypes DEF RowsOK
<1>4. CASE WriteFile
  BY <1>0, <1>4, <1>a DEF WriteFile, KeySaved, homarr, RowsOK
<1>5. CASE DisableAnalytics
  BY <1>0, <1>5, <1>a DEF DisableAnalytics, store, RowsOK
<1>6. CASE SyncIntegration
  <2>1. spec.want \in Rows
    BY <1>0, WantedType DEF RowsOK
  <2>2. integration # NoRow => [integration EXCEPT !.url = spec.want.url] \in Rows
    BY <1>0, <2>1 DEF RowsOK, Rows
  <2>3. integration' \in {NoRow} \cup Rows
    BY <1>0, <1>6, <2>1, <2>2 DEF SyncIntegration, Synced, RowsOK
  <2> QED
    BY <1>0, <1>6, <1>a, <2>3 DEF SyncIntegration, store, RowsOK
<1>7. CASE AddTile
  <2>1. PICK id \in Tiled : board' = [board EXCEPT !.apps = @ \cup {id}]
    BY <1>7 DEF AddTile
  <2>2. id \in Nat
    BY <1>0, <2>1 DEF Tiled
  <2>3. board' \in Boards
    BY <1>0, <2>1, <2>2 DEF RowsOK, Boards
  <2> QED
    BY <1>0, <1>7, <1>a, <2>3 DEF AddTile, store, RowsOK
<1>8. CASE SaveBoard
  <2>1. board' \in {board, Desired(run.ids)}
    BY <1>8 DEF SaveBoard
  <2> QED
    BY <1>0, <1>8, <1>a, <2>1, DesiredType DEF SaveBoard, store, RowsOK
<1>9. CASE SetBoard
  BY <1>0, <1>9, <1>a DEF SetBoard, store, RowsOK
<1>10. CASE Publish
  BY <1>0, <1>10, <1>a DEF Publish, homarr, RowsOK
<1>11. CASE EditSpec
  BY <1>0, <1>11, <1>a DEF EditSpec, homarr, RowsOK
<1>12. CASE Rebuild
  <2>1. 0 \in 0 .. MaxKeys
    BY HomarrAssumption
  <2> QED
    BY <1>0, <1>12, <1>a, <2>1, BoardTypes DEF Rebuild, RowsOK
<1>13. CASE Rearrange
  <2>1. [board EXCEPT !.extra = TRUE] \in Boards /\ [board EXCEPT !.apps = {}] \in Boards
    BY <1>0 DEF RowsOK, Boards
  <2>2. board' \in Boards
    BY <1>13, <2>1, BoardTypes DEF Rearrange
  <2> QED
    BY <1>0, <1>13, <1>a, <2>2 DEF Rearrange, store, RowsOK
<1> QED
  BY <1>2, <1>3, <1>4, <1>5, <1>6, <1>7, <1>8, <1>9, <1>10, <1>11, <1>12, <1>13 DEF Next, Converger, Outside

\* The run is over, or has not listed the apps, or goes on with what it listed.
LEMMA FoundFrame ==
    ASSUME TypeInv, AppsInv, apps' = apps, pc' = "apps" => pc = "apps",
           \/ run'.found = {} /\ pc' # "apps"
           \/ spec' = spec /\ run'.found = run.found /\ run'.todo = run.todo
    PROVE  AppsInv'
<1>1. \A u : AppsAt(u)' = AppsAt(u)
  BY DEF AppsAt
<1>2. AppsPerUrl'
  BY <1>1 DEF AppsInv, AppsPerUrl
<1>3. CASE run'.found = {} /\ pc' # "apps"
  BY <1>2, <1>3 DEF AppsInv, FoundOK
<1>4. CASE spec' = spec /\ run'.found = run.found /\ run'.todo = run.todo
  <2>1. \A u : SyncedRows(u)' = SyncedRows(u)
    BY <1>4 DEF SyncedRows, RowsAt
  <2>2. FoundOK'
    BY <1>1, <1>4, <2>1 DEF AppsInv, FoundOK
  <2> QED
    BY <1>2, <2>2 DEF AppsInv
<1> QED
  BY <1>3, <1>4

LEMMA FoundListed ==
    ASSUME TypeInv, AppsInv, ListApps
    PROVE  AppsInv'
<1>0. RowsOK /\ run \in Runs
  BY DEF TypeInv, ControlOK
<1>1. PICK found \in SUBSET apps : /\ \A a \in apps : \E f \in found : f.href = a.href
                                 /\ Go("apps", [run EXCEPT !.todo = Cataloged, !.found = found, !.ids = {}])
  BY DEF ListApps
<1>2. Cataloged \in SUBSET Names /\ found \in SUBSET App
  BY <1>0, CatalogedType DEF RowsOK
<1>3. [run EXCEPT !.todo = Cataloged, !.found = found, !.ids = {}].found = found
  BY <1>0, <1>2 DEF Runs
<1>4. run'.found = found /\ apps' = apps /\ spec' = spec
  BY <1>1, <1>3 DEF ListApps, Go, homarr, store
<1>5. \A u : AppsAt(u)' = AppsAt(u)
  BY <1>4 DEF AppsAt
<1>6. AppsPerUrl'
  BY <1>5 DEF AppsInv, AppsPerUrl
<1>7. ASSUME NEW u \in Urls, \A f \in run'.found : f.href # u
      PROVE  Cardinality(AppsAt(u)') <= Cardinality(SyncedRows(u)')
  <2>1. AppsAt(u)' = {}
    BY <1>1, <1>4, <1>7 DEF AppsAt
  <2>2. SyncedRows(u)' \subseteq RowsAt(spec.apps, u)
    BY <1>4 DEF SyncedRows, RowsAt
  <2>3. Cardinality(SyncedRows(u)') \in Nat
    BY <1>0, <2>2, CountsAreFinite, FS_Subset, FS_CardinalityType
  <2> QED
    BY <2>1, <2>3, FS_EmptySet
<1>8. FoundOK'
  BY <1>4, <1>7 DEF FoundOK
<1> QED
  BY <1>6, <1>8 DEF AppsInv

\* When a row is synced, its URL has one synced row more, and no other URL has.
LEMMA RowsGrow ==
    ASSUME RowsOK, NEW n \in run.todo, n \in Cataloged
    PROVE  LET rows == RowsAt(spec.apps, Url(n))
               more == rows \ (run.todo \ {n})
           IN  /\ n \in more /\ Cardinality(more) = Cardinality(SyncedRows(Url(n))) + 1
               /\ Cardinality(more) <= Cardinality(rows)
               /\ \A u : u # Url(n) => RowsAt(spec.apps, u) \ (run.todo \ {n}) = SyncedRows(u)
<1> DEFINE rows == RowsAt(spec.apps, Url(n))
           more == rows \ (run.todo \ {n})
           some == SyncedRows(Url(n))
<1>1. n \in rows /\ n \notin some
  BY DEF Cataloged, RowsAt, Url, SyncedRows
<1>2. more = some \cup {n} /\ more \subseteq rows /\ n \in more
  BY <1>1 DEF SyncedRows
<1>3. \A u : u # Url(n) => RowsAt(spec.apps, u) \ (run.todo \ {n}) = SyncedRows(u)
  BY DEF SyncedRows, RowsAt, Url
<1>4. IsFiniteSet(some) /\ IsFiniteSet(rows)
  BY CountsAreFinite
<1> HIDE DEF some, rows, more
<1>5. Cardinality(more) = Cardinality(some) + 1
  BY <1>1, <1>2, <1>4, FS_AddElement
<1>6. Cardinality(more) <= Cardinality(rows)
  BY <1>2, <1>4, FS_Subset
<1> QED
  BY <1>2, <1>3, <1>5, <1>6 DEF some, rows, more

\* No URL has more apps than before, but the one of a row for which none was
\* listed; and that one has no more than it has synced rows.
LEMMA SyncAppCounts ==
    ASSUME TypeInv, AppsInv, NEW n \in Names, SyncApp(n), NEW u, u = Url(n)
    PROVE  /\ \A v : v # u \/ Have(n) # {} => Cardinality(AppsAt(v)') <= Cardinality(AppsAt(v))
           /\ Have(n) = {} => Cardinality(AppsAt(u)') <= Cardinality(SyncedRows(u)) + 1
<1>0. RowsOK /\ [Next]_vars /\ u \in Urls /\ Title(n) \in Titles
  BY SyncAppCases DEF TypeInv, Next, Converger
<1>1. CASE Have(n) = {} /\ apps' = apps \cup {[id |-> NewId, href |-> u, title |-> Title(n)]}
  <2>1. /\ \A v : v # u => AppsAt(v)' = AppsAt(v)
        /\ Cardinality(AppsAt(u)') <= Cardinality(AppsAt(u)) + 1
    BY <1>0, <1>1, CreatedKeeps
  <2>2. Cardinality(AppsAt(u)) <= Cardinality(SyncedRows(u))
    <3>1. pc = "apps" /\ \A f \in run.found : f.href # u
      BY <1>1, SyncAppCases DEF Have, Matches
    <3> QED
      BY <1>0, <3>1 DEF AppsInv, FoundOK
  <2>3. \A v : Cardinality(AppsAt(v)) \in Nat
    BY <1>0, CountsAreFinite
  <2>4. Cardinality(AppsAt(u)') \in Nat /\ Cardinality(SyncedRows(u)) \in Nat
    BY <1>0, CountsAreFinite, CountsAreFiniteNext
  <2>5. \A v : v # u => Cardinality(AppsAt(v)') <= Cardinality(AppsAt(v))
    BY <2>1, <2>3
  <2>6. Cardinality(AppsAt(u)') <= Cardinality(SyncedRows(u)) + 1
    BY <2>1, <2>2, <2>3, <2>4
  <2> QED
    BY <1>1, <2>5, <2>6
<1>2. CASE Have(n) # {} /\ apps' = apps
  <2>1. \A v : AppsAt(v)' = AppsAt(v) /\ Cardinality(AppsAt(v)) \in Nat
    BY <1>0, <1>2, CountsAreFinite DEF AppsAt
  <2>2. \A v : Cardinality(AppsAt(v)') <= Cardinality(AppsAt(v))
    BY <2>1
  <2> QED
    BY <1>2, <2>2
<1>3. CASE Have(n) # {} /\ apps' = Retitled(IdsOf(Have(n)), Title(n))
  <2>1. \A v : Cardinality(AppsAt(v)') <= Cardinality(AppsAt(v))
    BY <1>0, <1>3, RetitledKeeps
  <2> QED
    BY <1>3, <2>1
<1> QED
  BY <1>1, <1>2, <1>3, SyncAppCases

\* What the rows that are left and the apps that are there say of a listed app.
LEMMA FoundKept ==
    ASSUME TypeInv, AppsInv, NEW n \in Names, SyncApp(n), NEW f \in run.found
    PROVE  \E a \in apps' : /\ a.id = f.id /\ a.href = f.href
                           /\ (a.title = f.title \/ RowsAt(spec.apps, f.href) \ (run.todo \ {n}) # {})
<1> DEFINE more == RowsAt(spec.apps, f.href) \ (run.todo \ {n})
<1>0. RowsOK /\ SyncedRows(f.href) \subseteq more
  BY DEF TypeInv, SyncedRows
<1>1. PICK a \in apps : a.id = f.id /\ a.href = f.href /\ (a.title = f.title \/ more # {})
  BY <1>0 DEF AppsInv, FoundOK
<1>2. CASE a \in apps'
  BY <1>1, <1>2
<1>3. CASE apps' = Retitled(IdsOf(Have(n)), Title(n))
  <2>1. PICK b \in apps' : /\ b.id = a.id /\ b.href = a.href
                           /\ b.title = IF a.id \in IdsOf(Have(n)) THEN Title(n) ELSE a.title
    BY <1>0, <1>3, SyncAppCases, RetitledKeeps
  <2>2. CASE a.id \in IdsOf(Have(n))
    <3>1. PICK g \in run.found : g.href = Url(n) /\ g.id = a.id
      BY <2>2 DEF IdsOf, Have, Matches
    <3>2. PICK c \in apps : c.id = g.id /\ c.href = g.href
      BY DEF AppsInv, FoundOK
    <3>3. f.href = Url(n)
      BY <1>0, <1>1, <3>1, <3>2 DEF RowsOK
    <3>4. n \in more
      BY <1>0, <3>3, SyncAppCases, RowsGrow
    <3> HIDE DEF more
    <3> QED
      BY <1>1, <2>1, <3>4 DEF more
  <2>3. CASE a.id \notin IdsOf(Have(n))
    BY <1>1, <2>1, <2>3
  <2> QED
    BY <2>2, <2>3
<1> QED
  BY <1>1, <1>2, <1>3, SyncAppCases

LEMMA FoundSynced ==
    ASSUME TypeInv, AppsInv, NEW n \in Names, SyncApp(n)
    PROVE  AppsInv'
<1>0. /\ RowsOK /\ run \in Runs /\ spec' = spec /\ pc = "apps" /\ n \in run.todo /\ n \in Cataloged
      /\ spec.apps \in Catalogs /\ Url(n) \in Urls /\ [Next]_vars
  BY SyncAppCases DEF TypeInv, ControlOK, RowsOK, Specs, store, Next, Converger
<1> PICK u : u = Url(n)
  OBVIOUS
<1> DEFINE more(v) == RowsAt(spec.apps, v) \ (run.todo \ {n})
<1>1. /\ n \in more(u) /\ Cardinality(more(u)) = Cardinality(SyncedRows(u)) + 1
      /\ Cardinality(more(u)) <= Cardinality(RowsAt(spec.apps, u))
      /\ \A v : v # u => more(v) = SyncedRows(v)
  BY <1>0, RowsGrow
<1>2. /\ \A v : v # u \/ Have(n) # {} => Cardinality(AppsAt(v)') <= Cardinality(AppsAt(v))
      /\ Have(n) = {} => Cardinality(AppsAt(u)') <= Cardinality(more(u))
  BY <1>1, SyncAppCounts
<1>3. \A v : /\ Cardinality(AppsAt(v)') \in Nat /\ Cardinality(AppsAt(v)) \in Nat
             /\ \A c \in Catalogs : Cardinality(RowsAt(c, v)) \in Nat
             /\ Cardinality(SyncedRows(v)) \in Nat
  BY <1>0, CountsAreFinite, CountsAreFiniteNext
<1>4. AppsPerUrl'
  <2> SUFFICES ASSUME NEW v \in Urls
               PROVE  \E c \in Catalogs : Cardinality(AppsAt(v)') <= Cardinality(RowsAt(c, v))
    BY DEF AppsPerUrl
  <2>1. CASE v # u \/ Have(n) # {}
    <3>1. PICK c \in Catalogs : Cardinality(AppsAt(v)) <= Cardinality(RowsAt(c, v))
      BY DEF AppsInv, AppsPerUrl
    <3>2. Cardinality(AppsAt(v)') <= Cardinality(AppsAt(v))
      BY <1>2, <2>1
    <3> QED
      BY <1>3, <3>1, <3>2
  <2>2. CASE v = u /\ Have(n) = {}
    <3>1. Cardinality(AppsAt(v)') <= Cardinality(RowsAt(spec.apps, v))
      BY <1>0, <1>1, <1>2, <1>3, <2>2
    <3> QED
      BY <1>0, <3>1
  <2> QED
    BY <2>1, <2>2
<1>5. CASE run' = NoRun /\ pc' = "idle"
  BY <1>4, <1>5 DEF AppsInv, FoundOK, NoRun
<1>6. CASE run'.found = run.found /\ run'.todo = run.todo \ {n}
  <2>1. \A v : SyncedRows(v)' = more(v)
    BY <1>0, <1>6 DEF SyncedRows, RowsAt
  <2>2. ASSUME NEW v \in Urls, \A f \in run.found : f.href # v
        PROVE  Cardinality(AppsAt(v)') <= Cardinality(more(v))
    <3>1. CASE v = u
      <4>1. Have(n) = {}
        BY <2>2, <3>1 DEF Have, Matches
      <4> QED
        BY <1>2, <3>1, <4>1
    <3>2. CASE v # u
      <4>1. Cardinality(AppsAt(v)) <= Cardinality(SyncedRows(v))
        BY <1>0, <2>2 DEF AppsInv, FoundOK
      <4>2. Cardinality(AppsAt(v)') <= Cardinality(AppsAt(v)) /\ more(v) = SyncedRows(v)
        BY <1>1, <1>2, <3>2
      <4> HIDE DEF more
      <4> QED
        BY <1>3, <4>1, <4>2
    <3> QED
      BY <3>1, <3>2
  <2>3. ASSUME NEW f \in run.found
        PROVE  \E a \in apps' : a.id = f.id /\ a.href = f.href /\ (a.title = f.title \/ more(f.href) # {})
    BY FoundKept
  <2> HIDE DEF more
  <2>4. FoundOK'
    BY <1>6, <2>1, <2>2, <2>3 DEF FoundOK
  <2> QED
    BY <1>4, <2>4 DEF AppsInv
<1>7. \/ run' = NoRun /\ pc' = "idle"
      \/ run'.found = run.found /\ run'.todo = run.todo \ {n}
  <2>1. PICK ids \in SUBSET Nat : Then("apps", PastBy(n, ids)) \/ Go("apps", Past(n, ids))
    BY <1>0, SyncAppRun
  <2> QED
    BY <1>0, <2>1, PastTypes DEF Then, Go, Failed
<1> QED
  BY <1>5, <1>6, <1>7

LEMMA AppsNext == TypeInv /\ AppsInv /\ [Next]_vars => AppsInv'
<1> SUFFICES ASSUME TypeInv, AppsInv, [Next]_vars PROVE AppsInv'
  OBVIOUS
<1>0. run \in Runs /\ NoRun.found = {} /\ (pc = "idle" => run = NoRun)
  BY DEF TypeInv, ControlOK, TodoOK, NoRun
<1>a. /\ [run EXCEPT !.changed = TRUE].found = run.found /\ [run EXCEPT !.changed = TRUE].todo = run.todo
      /\ \A k : /\ [run EXCEPT !.key = k].found = run.found /\ [run EXCEPT !.key = k].todo = run.todo
                /\ [run EXCEPT !.key = k, !.changed = TRUE].found = run.found
                /\ [run EXCEPT !.key = k, !.changed = TRUE].todo = run.todo
                /\ [NoRun EXCEPT !.key = k].found = {}
  BY <1>0 DEF Runs, NoRun
<1>1. CASE Rebuild
  <2>1. pc' = "idle" /\ run'.found = {} /\ apps' = {} /\ spec' = spec
    BY <1>0, <1>1 DEF Rebuild, Edit
  <2>2. spec.apps \in Catalogs /\ RowsOK
    BY DEF TypeInv, RowsOK, Specs
  <2>3. ASSUME NEW u \in Urls PROVE Cardinality(AppsAt(u)') <= Cardinality(RowsAt(spec.apps, u))
    <3>1. AppsAt(u)' = {} /\ Cardinality(RowsAt(spec.apps, u)) \in Nat
      BY <2>1, <2>2, CountsAreFinite DEF AppsAt
    <3> QED
      BY <3>1, FS_EmptySet
  <2>4. AppsPerUrl'
    BY <2>2, <2>3 DEF AppsPerUrl
  <2> QED
    BY <2>1, <2>4 DEF AppsInv, FoundOK
<1>2. CASE ListApps
  BY <1>2, FoundListed
<1>3. ASSUME NEW n \in Names, SyncApp(n) PROVE AppsInv'
  BY <1>3, FoundSynced
<1>4. CASE ~Rebuild /\ ~ListApps /\ ~\E n \in Names : SyncApp(n)
  <2>1. apps' = apps
    BY <1>4, AppsElsewhere
  <2>2. CASE Start \/ EditSpec
    BY <1>0, <1>a, <2>1, <2>2, FoundFrame DEF Start, EditSpec, Edit
  <2>3. CASE ClaimRefused \/ WalkedPast \/ NobodyToReset \/ LoginStillFails \/ Die \/ Publish
    BY <1>0, <2>1, <2>3, FoundFrame DEF ClaimRefused, WalkedPast, NobodyToReset, LoginStillFails, Die, Publish, Refused,
       Failed
  <2>4. CASE Probe \/ ProbeFails \/ LoginFails \/ Mint
    BY <1>0, <1>a, <2>1, <2>4, FoundFrame DEF Probe, ProbeFails, LoginFails, Mint, Go, Failed, store
  <2>5. CASE ReadStep \/ Login \/ ResetPassword \/ LoginAgain \/ WriteFile \/ TilesDone \/ Walked
    BY <1>a, <2>1, <2>5, FoundFrame DEF ReadStep, Login, ResetPassword, LoginAgain, WriteFile, TilesDone, Walked, Go,
       store
  <2>6. CASE Claim \/ Advance \/ Walk \/ InitUser \/ CompleteSetup
    BY <1>0, <2>1, <2>6, FoundFrame DEF Claim, Advance, Walk, InitUser, CompleteSetup, Then, Failed, store
  <2>7. CASE DisableAnalytics \/ SyncIntegration \/ AddTile \/ CreateBoard \/ SaveBoard \/ SetBoard
    <3>1. /\ spec' = spec
          /\ \E next \in WithKey : /\ next = "apps" => pc = "apps"
                                   /\ \/ Go(next, run) \/ Then(next, run)
                                      \/ Then(next, [run EXCEPT !.changed = TRUE])
      BY <2>7, PlacesHold DEF DisableAnalytics, SyncIntegration, AddTile, CreateBoard, SaveBoard, SetBoard, store
    <3>2. \/ run' = NoRun /\ pc' = "idle"
          \/ run'.found = run.found /\ run'.todo = run.todo /\ (pc' = "apps" => pc = "apps")
      BY <1>a, <3>1 DEF Go, Then, Failed
    <3> QED
      BY <1>0, <2>1, <3>1, <3>2, FoundFrame
  <2>8. CASE Rearrange \/ ChangeAdmin \/ Expire \/ UNCHANGED vars
    BY <2>1, <2>8, FoundFrame DEF Rearrange, ChangeAdmin, Expire, Edit, store, vars
  <2> QED
    BY <1>4, <2>2, <2>3, <2>4, <2>5, <2>6, <2>7, <2>8 DEF Next, Converger, Outside
<1> QED
  BY <1>1, <1>2, <1>3, <1>4

LEMMA InvInit == Init => TypeInv /\ AppsInv
<1> SUFFICES ASSUME Init PROVE TypeInv /\ AppsInv
  OBVIOUS
<1>1. TypeInv
  BY TypeInit
<1>2. RowsOK /\ spec.apps \in Catalogs
  BY <1>1 DEF TypeInv, RowsOK, Specs
<1>3. ASSUME NEW u \in Urls PROVE Cardinality(AppsAt(u)) <= Cardinality(RowsAt(spec.apps, u))
  <2>1. AppsAt(u) = {} /\ Cardinality(RowsAt(spec.apps, u)) \in Nat
    BY <1>2, CountsAreFinite DEF Init, AppsAt
  <2> QED
    BY <2>1, FS_EmptySet
<1>4. AppsPerUrl
  BY <1>2, <1>3 DEF AppsPerUrl
<1>5. FoundOK
  BY DEF Init, FoundOK, NoRun
<1> QED
  BY <1>1, <1>4, <1>5 DEF AppsInv

LEMMA InvNext == TypeInv /\ AppsInv /\ [Next]_vars => TypeInv' /\ AppsInv'
<1> SUFFICES ASSUME TypeInv, AppsInv, [Next]_vars PROVE TypeInv' /\ AppsInv'
  OBVIOUS
<1> QED
  BY ControlNext, SetupNext, RowsNext, TodoNext, AppsNext DEF TypeInv

\* The variables of Homarr, of the stores and of the process keep their types:
\* every step of the onboarding belongs to the version it is in, keys are the
\* ones that were minted, and no run goes on to mint past the bound.
THEOREM TypeCorrect == Spec => []TypeOK
<1>1. TypeInv /\ AppsInv /\ UNCHANGED vars => TypeInv' /\ AppsInv'
  BY InvNext
<1> QED
  BY InvInit, InvNext, InvIsTyped, PTL DEF Spec

\* app.create always inserts (homarr_api.py:92), and yet a URL never has more apps
\* than some catalog has rows of it, so one if its services have URLs of their
\* own: a converge that was cut short, repeated or given renamed services finds
\* the app it created by its URL, and only rows that were not yet synced when
\* Homarr listed none for their URL add one each.
THEOREM AppsAreBounded == Spec => []AppsPerUrl
<1>1. AppsInv => AppsPerUrl
  BY DEF AppsInv
<1> QED
  BY <1>1, InvInit, InvNext, PTL DEF Spec

-----------------------------------------------------------------------------
(* How many keys Homarr holds *)

\* Between the moment that the stored key is found wanting and the next key in
\* the file, Homarr holds one key less than faults and stale keys account for.
Unkeyed == \/ pc \in BeforeKey \ {"probe"}
           \/ pc = "probe" /\ run.key \notin keys
           \/ file = 0 /\ pc # "file"
KeyInv ==
    /\ Cardinality(keys) <= 1 + faults + excuses
    /\ Unkeyed => Cardinality(keys) <= faults + excuses
    /\ pc = "file" => run.key # 0

LEMMA KeyCount ==
    ASSUME TypeInv
    PROVE  /\ IsFiniteSet(keys) /\ Cardinality(keys) \in Nat /\ Cardinality(keys) <= issued
           /\ issued \in Nat /\ issued <= MaxKeys /\ faults \in Nat /\ excuses \in Nat /\ MaxKeys \in Nat
           /\ keys \subseteq 1 .. issued
<1>1. /\ issued \in Nat /\ issued <= MaxKeys /\ faults \in Nat /\ excuses \in Nat /\ MaxKeys \in Nat
      /\ keys \subseteq 1 .. issued
  BY HomarrAssumption DEF TypeInv, ControlOK, SetupOK
<1>2. IsFiniteSet(1 .. issued) /\ Cardinality(1 .. issued) = issued
  BY <1>1, FS_Interval
<1> QED
  BY <1>1, <1>2, FS_Subset, FS_CardinalityType

\* A fault accounts for whatever it leaves behind.
LEMMA KeyFault ==
    ASSUME TypeInv, KeyInv, keys' = keys, faults' = faults + 1, excuses' = excuses, pc' # "file"
    PROVE  KeyInv'
BY KeyCount DEF KeyInv, Unkeyed

LEMMA KeyQuiet ==
    ASSUME TypeInv, KeyInv, UNCHANGED <<keys, faults, excuses>>, Unkeyed' => Unkeyed, pc' # "file"
    PROVE  KeyInv'
BY DEF KeyInv

LEMMA KeyStep ==
    ASSUME TypeInv, KeyInv, UNCHANGED <<keys, file>>, pc # "file",
           NEW next \in Places \ {"file", "probe"}, NEW r, Then(next, r) \/ Go(next, r),
           next \in BeforeKey => pc \in BeforeKey \ {"probe"}
    PROVE  KeyInv'
<1>1. CASE pc' = next /\ UNCHANGED <<faults, excuses>>
  <2>1. Unkeyed' => Unkeyed
    BY <1>1 DEF Unkeyed
  <2> QED
    BY <1>1, <2>1, KeyQuiet
<1>2. CASE pc' = "idle" /\ faults' = faults + 1 /\ excuses' = excuses
  BY <1>2, KeyFault
<1> QED
  BY <1>1, <1>2 DEF Then, Go, Failed, bounds, history

LEMMA KeyNext == TypeInv /\ KeyInv /\ [Next]_vars => KeyInv'
<1> SUFFICES ASSUME TypeInv, KeyInv, [Next]_vars PROVE KeyInv'
  OBVIOUS
<1>1. CASE UNCHANGED <<keys, faults, excuses, pc, run, file>>
  BY <1>1 DEF KeyInv, Unkeyed
<1>2. CASE Start
  <2>1. PICK readable \in BOOLEAN :
          LET key == IF readable /\ bao # 0 THEN bao ELSE file IN
          /\ run' = [NoRun EXCEPT !.key = key]
          /\ pc' = IF key # 0 THEN "probe" ELSE "step"
          /\ excuses' = IF key \notin keys \cup {0} /\ excuses < MaxKeys THEN excuses + 1 ELSE excuses
    BY <1>2 DEF Start
  <2> DEFINE key == IF readable /\ bao # 0 THEN bao ELSE file
  <2>2. run'.key = key
    BY <2>1 DEF NoRun
  <2>3. UNCHANGED <<keys, faults, file>> /\ pc = "idle" /\ pc' \in {"probe", "step"}
    BY <1>2, <2>1 DEF Start, homarr, store, bounds
  <2>4. CASE key \in keys
    <3>1. key # 0
      BY <2>4, KeyCount
    <3>2. pc' = "probe" /\ excuses' = excuses
      BY <2>1, <2>4, <3>1
    <3> QED
      BY <2>2, <2>3, <2>4, <3>2, KeyQuiet DEF Unkeyed, BeforeKey
  <2>5. CASE key = 0
    <3>1. file = 0 /\ excuses' = excuses
      BY <2>1, <2>5
    <3> QED
      BY <2>3, <3>1, KeyQuiet DEF Unkeyed
  <2>6. CASE key \notin keys \cup {0}
    <3>1. Cardinality(keys) <= faults + excuses'
      BY <2>1, <2>6, KeyCount DEF KeyInv
    <3>2. excuses' \in Nat
      BY <2>1, KeyCount
    <3> QED
      BY <2>3, <3>1, <3>2, KeyCount DEF KeyInv
  <2> QED
    BY <2>4, <2>5, <2>6
<1>3. CASE Probe
  <2>1. UNCHANGED <<keys, file, faults, excuses>> /\ pc = "probe"
    BY <1>3 DEF Probe, Go, homarr, store, bounds, history
  <2>2. CASE run.key \in keys /\ pc' = "file" /\ run' = run
    <3>1. run.key # 0
      BY <2>2, KeyCount
    <3> QED
      BY <2>1, <2>2, <3>1 DEF KeyInv, Unkeyed, BeforeKey
  <2>3. CASE run.key \notin keys /\ pc' = "step"
    BY <2>1, <2>3, KeyQuiet DEF Unkeyed
  <2> QED
    BY <1>3, <2>2, <2>3 DEF Probe, Go
<1>4. CASE ProbeFails \/ LoginFails \/ Die
  BY <1>4, KeyFault DEF ProbeFails, LoginFails, Die, Failed, homarr
<1>5. CASE ReadStep \/ Login \/ ResetPassword \/ LoginAgain \/ Walked
  BY <1>5, KeyStep, PlacesHold DEF ReadStep, Login, ResetPassword, LoginAgain, Walked, homarr, store
<1>6. CASE Claim \/ Advance \/ Walk \/ InitUser \/ CompleteSetup
  BY <1>6, KeyStep, PlacesHold DEF Claim, Advance, Walk, InitUser, CompleteSetup, store
<1>7. CASE ClaimRefused \/ WalkedPast \/ NobodyToReset \/ LoginStillFails \/ Publish
  <2>1. UNCHANGED <<keys, file, faults, excuses>> /\ pc # "file" /\ pc' = "idle"
    BY <1>7 DEF ClaimRefused, WalkedPast, NobodyToReset, LoginStillFails, Publish, Refused, Failed, homarr, store, bounds, history
  <2> QED
    BY <2>1, KeyQuiet DEF Unkeyed, BeforeKey
<1>8. CASE Mint
  <2>1. /\ keys' = keys \cup {issued + 1} /\ excuses' = excuses /\ file' = file /\ pc = "mint"
        /\ \/ pc' = "file" /\ run' = [run EXCEPT !.key = issued + 1, !.changed = TRUE] /\ faults' = faults
           \/ pc' = "idle" /\ faults' = faults + 1
    BY <1>8 DEF Mint, Failed, store
  <2>2. Cardinality(keys') = Cardinality(keys) + 1
    <3>1. issued + 1 \notin keys
      BY KeyCount
    <3> QED
      BY <2>1, <3>1, KeyCount, FS_AddElement
  <2>3. Cardinality(keys) <= faults + excuses
    BY <2>1, PlacesHold DEF KeyInv, Unkeyed
  <2>4. pc' = "file" => run'.key # 0
    <3>1. run \in Runs /\ issued + 1 # 0
      BY KeyCount DEF TypeInv, ControlOK
    <3> QED
      BY <2>1, <3>1 DEF Runs
  <2> QED
    BY <2>1, <2>2, <2>3, <2>4, KeyCount DEF KeyInv, Unkeyed, BeforeKey
<1>9. CASE WriteFile
  <2>1. UNCHANGED <<keys, faults, excuses>> /\ pc = "file" /\ pc' = "analytics" /\ file' = run.key
    BY <1>9 DEF WriteFile, KeySaved, Go, homarr, bounds, history
  <2> QED
    BY <2>1 DEF KeyInv, Unkeyed, BeforeKey
<1>10. CASE DisableAnalytics \/ SyncIntegration \/ ListApps \/ AddTile \/ CreateBoard \/ SaveBoard \/ SetBoard
            \/ TilesDone
  BY <1>10, KeyStep, PlacesHold DEF DisableAnalytics, SyncIntegration, ListApps, AddTile, CreateBoard, SaveBoard,
     SetBoard, TilesDone, homarr, store
<1>11. ASSUME NEW n \in Names, SyncApp(n) PROVE KeyInv'
  <2>1. UNCHANGED <<keys, file>> /\ pc = "apps" /\ \E r : Then("apps", r) \/ Go("apps", r)
    BY <1>11 DEF SyncApp, store
  <2> QED
    BY <2>1, KeyStep, PlacesHold
<1>12. CASE Rebuild
  <2>1. keys' = {} /\ faults' = faults /\ excuses' = excuses /\ pc' = "idle"
    BY <1>12 DEF Rebuild, Edit
  <2> QED
    BY <2>1, FS_EmptySet, KeyCount DEF KeyInv
<1>13. CASE EditSpec \/ Rearrange \/ ChangeAdmin \/ Expire \/ UNCHANGED vars
  BY <1>1, <1>13 DEF EditSpec, Rearrange, ChangeAdmin, Expire, Edit, homarr, store, bounds, history, vars
<1> QED
  BY <1>2, <1>3, <1>4, <1>5, <1>6, <1>7, <1>8, <1>9, <1>10, <1>11, <1>12, <1>13 DEF Next, Converger, Outside

\* Homarr's keys never expire (homarr_api.py:280): it holds one, and at most one
\* more for every fault and for every run that was handed a key it had refused.
THEOREM FewKeys == Spec => []KeysAreFew
<1>1. Init => KeyInv
  BY FS_EmptySet DEF Init, KeyInv, Unkeyed, NoRun
<1>2. KeyInv => KeysAreFew
  BY DEF KeyInv, KeysAreFew
<1> QED
  BY <1>1, <1>2, InvInit, InvNext, KeyNext, PTL DEF Spec

-----------------------------------------------------------------------------
(* Which runs fail *)

Fresh == ~claimed /\ user = "none"

\* 1.x leaves the user step with a user only, and whoever logs in is somebody.
UserInv ==
    /\ major = 1 /\ user = "none" => step \in {"start", "import", "user"}
    /\ pc = "leave" => user # "none"
    /\ step = "finish" \/ pc \in {"setup", "login", "reset", "again"} => user # "none"

LEMMA UserNext == TypeInv /\ UserInv /\ [Next]_vars => UserInv'
<1> SUFFICES ASSUME TypeInv, UserInv, [Next]_vars PROVE UserInv'
  OBVIOUS
<1> DEFINE Entries == {"leave", "setup", "login", "reset", "again"}
<1>1. CASE UNCHANGED <<major, step, user>> /\ (pc' \notin Entries \/ pc' = pc)
  BY <1>1 DEF UserInv
<1>2. CASE Start \/ Probe \/ ProbeFails \/ Claim \/ ClaimRefused \/ WalkedPast \/ NobodyToReset \/ LoginAgain
           \/ LoginStillFails \/ WriteFile
  <2>1. UNCHANGED <<major, step, user>> /\ pc' \notin Entries
    BY <1>2 DEF Start, Probe, ProbeFails, Claim, ClaimRefused, WalkedPast, NobodyToReset, LoginAgain, LoginStillFails,
       WriteFile, Then, Go, Refused, Failed, homarr
  <2> QED
    BY <1>1, <2>1
<1>3. CASE ReadStep
  BY <1>3 DEF ReadStep, Go, homarr, UserInv
<1>4. CASE Advance
  <2>1. UNCHANGED <<major, user>> /\ pc' \notin Entries /\ major = 2 /\ (step' = "finish" => step = "finish")
    BY <1>4 DEF Advance, Then, Failed, TypeInv, ControlOK
  <2> QED
    BY <2>1 DEF UserInv
<1>5. CASE Walk
  <2>1. step' = StepAfter(step) /\ UNCHANGED <<major, user>> /\ major = 1 /\ step # "finish"
    BY <1>5 DEF Walk, TypeInv, ControlOK
  <2>2. user = "none" => step' \in {"import", "user"}
    BY <1>5, <2>1, StepOrder DEF Walk, WalkTarget, UserInv
  <2>3. pc' = pc \/ pc' = "idle"
    BY <1>5 DEF Walk, Then, Failed
  <2> QED
    BY <1>5, <2>1, <2>2, <2>3 DEF Walk, UserInv
<1>6. CASE Walked \/ Login \/ LoginFails
  <2>1. UNCHANGED <<major, step, user>>
    BY <1>6 DEF Walked, Login, LoginFails, homarr
  <2>2. pc' \in Entries => user # "none"
    BY <1>6 DEF Walked, Login, LoginFails, Go, UserInv
  <2> QED
    BY <2>1, <2>2 DEF UserInv
<1>7. CASE InitUser \/ ResetPassword
  BY <1>7 DEF InitUser, ResetPassword, UserInv
<1>8. CASE CompleteSetup
  <2>1. major = 2 /\ major' = major /\ user' = user /\ user # "none"
    BY <1>8 DEF CompleteSetup, TypeInv, ControlOK, UserInv
  <2> QED
    BY <2>1 DEF UserInv
<1>9. CASE Mint \/ Die \/ Publish
  <2>1. UNCHANGED <<major, step, user>> /\ pc' \notin Entries
    BY <1>9 DEF Mint, Die, Publish, Failed, homarr
  <2> QED
    BY <1>1, <2>1
<1>10. CASE DisableAnalytics \/ SyncIntegration \/ ListApps \/ AddTile \/ TilesDone \/ CreateBoard \/ SaveBoard \/ SetBoard
            \/ (\E n \in Names : SyncApp(n))
  <2>1. UNCHANGED <<major, step, user>>
    BY <1>10 DEF DisableAnalytics, SyncIntegration, ListApps, AddTile, TilesDone, CreateBoard, SaveBoard, SetBoard,
       SyncApp, homarr
  <2>2. \E next \in WithKey : \E r : Then(next, r) \/ Go(next, r)
    BY <1>10, PlacesHold DEF DisableAnalytics, SyncIntegration, ListApps, AddTile, TilesDone, CreateBoard, SaveBoard,
       SetBoard, SyncApp
  <2>3. pc' \notin Entries
    BY <2>2 DEF Then, Go, Failed, WithKey
  <2> QED
    BY <1>1, <2>1, <2>3
<1>11. CASE EditSpec \/ Rearrange \/ Expire \/ UNCHANGED vars
  BY <1>1, <1>11 DEF EditSpec, Rearrange, Expire, Edit, homarr, vars
<1>12. CASE Rebuild
  BY <1>12 DEF Rebuild, Edit, UserInv
<1>13. CASE ChangeAdmin
  BY <1>13 DEF ChangeAdmin, Edit, UserInv
<1> QED
  BY <1>2, <1>3, <1>4, <1>5, <1>6, <1>7, <1>8, <1>9, <1>10, <1>11, <1>12, <1>13 DEF Next, Converger, Outside

\* What an undisturbed run may count on: the password it set, and, when it did not
\* begin in the middle of somebody else's onboarding, that nobody is there yet.
FailInv ==
    /\ OnlyFaultsFail
    /\ clean /\ pc = "again" => user = "managed"
    /\ clean /\ ~stuck => /\ pc \in {"probe", "step"} /\ step # "finish" => Fresh
                          /\ pc \in {"claim", "walk"} => Fresh

LEMMA FailNext == TypeInv /\ UserInv /\ FailInv /\ [Next]_vars => FailInv'
<1> SUFFICES ASSUME TypeInv, UserInv, FailInv, [Next]_vars PROVE FailInv'
  OBVIOUS
<1>0. stuck \in BOOLEAN /\ clean \in BOOLEAN /\ major \in {1, 2} /\ user \in {"none", "managed", "other", "renamed"}
  BY DEF TypeInv, ControlOK, SetupOK
<1>1. CASE UNCHANGED <<major, step, claimed, user, stuck, pc, clean, outcome>>
  BY <1>1 DEF FailInv, OnlyFaultsFail, Fresh
<1>2. CASE Start
  <2>1. /\ outcome' = "none" /\ pc' \in {"probe", "step"} /\ UNCHANGED <<major, step, claimed, user>>
        /\ stuck' = (step # "finish" /\ (claimed \/ user # "none"))
    BY <1>2 DEF Start, homarr
  <2>2. ~stuck' /\ step # "finish" => Fresh
    BY <2>1, <1>0 DEF Fresh, TypeInv, SetupOK
  <2> QED
    BY <2>1, <2>2 DEF FailInv, OnlyFaultsFail, Fresh
\* A fault: the run is not an undisturbed one any more.
<1>3. CASE clean' = FALSE
  BY <1>3 DEF FailInv, OnlyFaultsFail
\* An answer: nothing failed.
<1>4. CASE /\ UNCHANGED <<major, stuck, clean, outcome>>
           /\ user = "renamed" => user' = user
           /\ pc' = "again" => user' = "managed"
           /\ pc' \in {"claim", "walk"} => pc \in {"step", "walk"} /\ step # "finish" /\ UNCHANGED <<claimed, user>>
           /\ pc' \notin {"probe", "step"}
  BY <1>4 DEF FailInv, OnlyFaultsFail, Fresh
<1>5. CASE Probe
  BY <1>5 DEF Probe, Go, homarr, history, FailInv, OnlyFaultsFail, Fresh
<1>6. CASE ProbeFails \/ LoginFails \/ Die
  BY <1>3, <1>6 DEF ProbeFails, LoginFails, Die, Failed
<1>7. CASE ReadStep
  BY <1>4, <1>7 DEF ReadStep, Go, homarr, history
<1>8. CASE Claim \/ Advance
  BY <1>3, <1>4, <1>8 DEF Claim, Advance, Then, Failed
<1>9. CASE Walk
  BY <1>3, <1>4, <1>9 DEF Walk, Then, Failed
<1>10. CASE Walked \/ Login \/ LoginAgain
  <2>1. UNCHANGED <<major, step, claimed, user, stuck, clean, outcome>> /\ pc' \in {"init", "login", "mint", "reset"}
    BY <1>10 DEF Walked, Login, LoginAgain, Go, homarr, history
  <2> QED
    BY <1>4, <2>1
\* Homarr or the database refuses: the run began in the middle, or nobody has the
\* managed name, or the run was disturbed.
<1>11. ASSUME Refused, ~clean \/ stuck \/ user = "renamed" PROVE FailInv'
  <2>1. UNCHANGED <<user, stuck>> /\ pc' = "idle" /\ clean' = (clean /\ TRUE)
    BY <1>11 DEF Refused, Failed, homarr
  <2> QED
    BY <1>0, <1>11, <2>1 DEF FailInv, OnlyFaultsFail
<1>12. CASE ClaimRefused
  <2>1. ~clean \/ stuck
    BY <1>0, <1>12 DEF ClaimRefused, FailInv, Fresh
  <2> QED
    BY <1>11, <1>12, <2>1 DEF ClaimRefused
<1>13. CASE WalkedPast
  <2>1. user # "none"
    BY <1>13 DEF WalkedPast, UserInv
  <2>2. ~clean \/ stuck
    BY <1>0, <1>13, <2>1 DEF WalkedPast, FailInv, Fresh
  <2> QED
    BY <1>11, <1>13, <2>2 DEF WalkedPast
<1>14. CASE NobodyToReset
  <2>1. user = "renamed"
    BY <1>0, <1>14 DEF NobodyToReset, UserInv
  <2> QED
    BY <1>11, <1>14, <2>1 DEF NobodyToReset
<1>15. CASE LoginStillFails
  <2>1. ~clean
    BY <1>15 DEF LoginStillFails, FailInv
  <2> QED
    BY <1>11, <1>15, <2>1 DEF LoginStillFails
<1>16. CASE InitUser
  <2>1. UNCHANGED <<major, stuck>> /\ user = "none" /\ user' = "managed"
    BY <1>16 DEF InitUser, Then
  <2> QED
    BY <1>3, <1>4, <1>16, <2>1 DEF InitUser, Then, Failed
<1>17. CASE CompleteSetup
  BY <1>3, <1>4, <1>17 DEF CompleteSetup, Then, Failed
<1>18. CASE ResetPassword
  BY <1>4, <1>18 DEF ResetPassword, Go, history
<1>19. CASE Mint
  BY <1>3, <1>4, <1>19 DEF Mint, Failed
<1>20. CASE WriteFile \/ TilesDone \/ ListApps
  BY <1>4, <1>20 DEF WriteFile, TilesDone, ListApps, Go, homarr, history
<1>21. CASE DisableAnalytics \/ SyncIntegration \/ AddTile \/ CreateBoard \/ SaveBoard \/ SetBoard
           \/ (\E n \in Names : SyncApp(n))
  <2>1. UNCHANGED <<major, step, user, claimed>>
    BY <1>21 DEF DisableAnalytics, SyncIntegration, AddTile, CreateBoard, SaveBoard, SetBoard, SyncApp
  <2>2. \E next \in {"integration", "list", "apps", "settings", "publish"} : \E r : Then(next, r) \/ Go(next, r)
    BY <1>21 DEF DisableAnalytics, SyncIntegration, AddTile, CreateBoard, SaveBoard, SetBoard, SyncApp
  <2> QED
    BY <1>3, <1>4, <2>1, <2>2 DEF Then, Go, Failed, history
<1>22. CASE Publish
  BY <1>22 DEF Publish, homarr, history, FailInv, OnlyFaultsFail
<1>23. CASE EditSpec \/ Rearrange \/ Rebuild \/ ChangeAdmin
  BY <1>3, <1>23 DEF EditSpec, Rearrange, Rebuild, ChangeAdmin, Edit
<1>24. CASE Expire
  BY <1>24 DEF Expire, history, FailInv, OnlyFaultsFail
<1>25. CASE UNCHANGED vars
  BY <1>1, <1>25 DEF vars, homarr, history
<1> QED
  BY <1>2, <1>5, <1>6, <1>7, <1>8, <1>9, <1>10, <1>12, <1>13, <1>14, <1>15, <1>16, <1>17, <1>18, <1>19,
     <1>20, <1>21, <1>22, <1>23, <1>24, <1>25 DEF Next, Converger, Outside

\* A converge that nothing disturbs does not fail, unless it began in the middle
\* of an onboarding that somebody else had begun, or finds no user of the managed
\* name: Homarr refuses neither the claim nor the user, the walk never passes the
\* user step, and the password that was reset is the one that logs in.
THEOREM UndisturbedRunsSucceed == Spec => []OnlyFaultsFail
<1>1. Init => UserInv /\ FailInv
  BY DEF Init, UserInv, FailInv, OnlyFaultsFail
<1>2. FailInv => OnlyFaultsFail
  BY DEF FailInv
<1> QED
  BY <1>1, <1>2, InvInit, InvNext, UserNext, FailNext, PTL DEF Spec

-----------------------------------------------------------------------------
(* What an undisturbed run leaves *)

\* A row has an app among some of them, under its title if its URL is its own.
AppOf(n, ids) == \E a \in apps : a.href = Url(n) /\ (Alone(n) => a.title = Title(n)) /\ a.id \in ids
IntegrationOK == spec.works => integration # NoRow /\ integration.url = spec.want.url
BoardOK(ids) == IF major = 2 THEN board = Desired(ids) /\ settings = {"public", "home"}
                ELSE board.there => ids \subseteq board.apps
Placed(ids) == BoardOK(ids) /\ \A n \in Cataloged : AppOf(n, ids)
Done ==
    /\ file \in keys /\ (spec.publish => bao = file) /\ ~analytics /\ IntegrationOK
    /\ \E ids \in SUBSET AppIds : Placed(ids)

\* What a run has done when it is at a step, whatever happens to the board
\* meanwhile, and what it leaves when nothing does.
StageInv ==
    /\ pc \in {"file"} \cup WithKey => run.key \in keys
    /\ pc \in WithKey => file = run.key
    /\ pc \in WithKey \ {"analytics"} => ~analytics
    /\ pc \in {"list", "apps", "settings", "publish"} => IntegrationOK
    /\ pc \in {"apps", "settings", "publish"} =>
         run.ids \subseteq AppIds /\ \A n \in Cataloged \ run.todo : AppOf(n, run.ids)
    /\ pc \in {"settings", "publish"} => run.todo = {}
    /\ pc = "settings" /\ clean => board = Desired(run.ids)
    /\ pc = "publish" /\ clean => BoardOK(run.ids)
    /\ outcome = "done" => pc = "idle"
    /\ outcome = "done" /\ clean => Done

\* Nothing was found or written yet in this run, or it is over and failed.
LEMMA StageEarly ==
    ASSUME pc' \in BeforeKey \cup {"idle"}, outcome' # "done"
    PROVE  StageInv'
BY DEF StageInv, BeforeKey, WithKey

\* What is said of apps, rows and board stays true while they do.
LEMMA SameApps ==
    ASSUME UNCHANGED <<apps, spec, integration>>
    PROVE  /\ Cataloged' = Cataloged /\ AppIds' = AppIds /\ (IntegrationOK' <=> IntegrationOK)
           /\ \A n, ids : AppOf(n, ids)' <=> AppOf(n, ids)
           /\ \A ids : Desired(ids)' = Desired(ids)
BY DEF IntegrationOK, AppOf, Cataloged, AppIds, Desired, Alone, Url, Title

LEMMA SameBoard ==
    ASSUME UNCHANGED <<major, apps, spec, integration, board, settings>>
    PROVE  \A ids : (BoardOK(ids)' <=> BoardOK(ids)) /\ (Placed(ids)' <=> Placed(ids))
<1>1. \A ids : BoardOK(ids)' <=> BoardOK(ids)
  BY DEF BoardOK, Desired
<1>2. \A ids : Placed(ids)' <=> Placed(ids)
  BY <1>1, SameApps DEF Placed
<1> QED
  BY <1>1, <1>2

LEMMA DoneFrame ==
    ASSUME UNCHANGED <<major, keys, file, bao, analytics, apps, integration, board, settings, spec>>
    PROVE  Done' <=> Done
<1>1. (IntegrationOK' <=> IntegrationOK) /\ AppIds' = AppIds
  BY SameApps
<1>2. \A ids : Placed(ids)' <=> Placed(ids)
  BY SameBoard
<1> HIDE DEF IntegrationOK, AppIds, Placed
<1> QED
  BY <1>1, <1>2 DEF Done

LEMMA StageFrame ==
    ASSUME StageInv, UNCHANGED <<pc, run, outcome, keys, file, bao, analytics, apps, integration, spec, major>>,
           clean' => clean /\ UNCHANGED <<board, settings>>
    PROVE  StageInv'
<1>1. /\ IntegrationOK' <=> IntegrationOK
      /\ Cataloged' = Cataloged /\ \A n, ids : AppOf(n, ids)' <=> AppOf(n, ids)
      /\ AppIds' = AppIds /\ \A ids : Desired(ids)' = Desired(ids)
  BY SameApps
<1>2. clean' => \A ids : BoardOK(ids)' <=> BoardOK(ids)
  BY SameBoard
<1>3. clean' => (Done' <=> Done)
  BY DoneFrame
<1> HIDE DEF IntegrationOK, AppOf, Cataloged, AppIds, Desired, BoardOK, Done
<1>4. /\ run'.ids = run.ids /\ run'.todo = run.todo /\ run'.key = run.key
  OBVIOUS
<1> QED
  BY <1>1, <1>2, <1>3, <1>4 DEF StageInv

\* The steps up to the key in the file.
LEMMA StageKey ==
    ASSUME TypeInv, StageInv,
           \/ Start \/ Probe \/ ReadStep \/ Login \/ ResetPassword \/ NobodyToReset \/ LoginAgain
           \/ LoginStillFails \/ Mint \/ WriteFile
    PROVE  StageInv'
<1>1. CASE Start
  BY <1>1, StageEarly, PlacesHold DEF Start
<1>2. pc # "idle" => outcome # "done"
  BY DEF StageInv
<1>3. CASE ReadStep \/ Login \/ ResetPassword \/ LoginAgain
  <2>1. pc' \in BeforeKey /\ pc # "idle" /\ outcome' = outcome
    BY <1>3, PlacesHold DEF ReadStep, Login, ResetPassword, LoginAgain, Go
  <2> QED
    BY <1>2, <2>1, StageEarly
<1>4. ASSUME pc' = "file", run'.key \in keys', outcome' = outcome, pc # "idle" PROVE StageInv'
  BY <1>2, <1>4 DEF StageInv, WithKey
<1>5. CASE Probe
  <2>1. outcome' = outcome /\ pc # "idle" /\ keys' = keys
    BY <1>5 DEF Probe, Go, homarr
  <2>2. CASE run.key \in keys
    BY <1>4, <1>5, <2>1, <2>2 DEF Probe, Go
  <2>3. CASE run.key \notin keys
    BY <1>2, <1>5, <2>1, <2>3, StageEarly, PlacesHold DEF Probe, Go
  <2> QED
    BY <2>2, <2>3
<1>6. CASE Mint
  <2>1. CASE pc' = "idle" /\ outcome' = "failed"
    BY <2>1, StageEarly
  <2>2. CASE pc' = "file" /\ run' = [run EXCEPT !.key = issued + 1, !.changed = TRUE] /\ outcome' = outcome
    <3>1. run'.key = issued + 1
      BY <2>2 DEF TypeInv, ControlOK, Runs
    <3> QED
      BY <1>4, <1>6, <2>2, <3>1 DEF Mint
  <2> QED
    BY <1>6, <2>1, <2>2 DEF Mint, Failed
<1>7. CASE WriteFile
  <2>1. pc = "file" /\ pc' = "analytics" /\ run' = run /\ file' = run.key /\ keys' = keys /\ outcome' = outcome
    BY <1>7 DEF WriteFile, KeySaved, Go, homarr
  <2> QED
    BY <1>2, <2>1 DEF StageInv, WithKey
<1>8. CASE NobodyToReset \/ LoginStillFails
  <2>1. pc' = "idle" /\ outcome' = "failed"
    BY <1>8 DEF NobodyToReset, LoginStillFails, Refused, Failed
  <2> QED
    BY <2>1, StageEarly
<1> QED
  BY <1>1, <1>3, <1>5, <1>6, <1>7, <1>8

\* The steps of the onboarding.
LEMMA StageSetup ==
    ASSUME StageInv,
           Claim \/ ClaimRefused \/ Advance \/ Walk \/ Walked \/ WalkedPast \/ InitUser \/ CompleteSetup
    PROVE  StageInv'
<1>1. pc # "idle" => outcome # "done"
  BY DEF StageInv
<1>2. pc # "idle" /\ (outcome' = outcome \/ outcome' = "failed")
  BY DEF Claim, ClaimRefused, Advance, Walk, Walked, WalkedPast, InitUser, CompleteSetup, Then, Go, Refused, Failed
<1>3. pc' \in BeforeKey \cup {"idle"}
  BY PlacesHold DEF Claim, ClaimRefused, Advance, Walk, Walked, WalkedPast, InitUser, CompleteSetup, Then, Go,
     Refused, Failed
<1> QED
  BY <1>1, <1>2, <1>3, StageEarly

\* A step after the key: either the run is over, or the key is where it was.
LEMMA StageOn ==
    ASSUME StageInv, pc \in WithKey, NEW next \in WithKey, NEW r, r.key = run.key, Then(next, r) \/ Go(next, r),
           UNCHANGED <<keys, file>>
    PROVE  \/ StageInv'
           \/ /\ pc' = next /\ run' = r /\ outcome' = outcome /\ clean' = clean /\ outcome # "done"
              /\ run'.key \in keys' /\ file' = run'.key
<1>1. CASE pc' = "idle" /\ outcome' = "failed"
  BY <1>1, StageEarly
<1>2. CASE pc' = next /\ run' = r /\ UNCHANGED <<outcome, clean>>
  BY <1>2 DEF StageInv, WithKey
<1> QED
  BY <1>1, <1>2 DEF Then, Go, Failed, history

LEMMA StageRows ==
    ASSUME TypeInv, StageInv, DisableAnalytics \/ SyncIntegration \/ ListApps
    PROVE  StageInv'
<1>0. run \in Runs /\ [run EXCEPT !.changed = TRUE].key = run.key
  BY DEF TypeInv, ControlOK, Runs
<1>1. CASE DisableAnalytics
  <2>1. /\ pc = "analytics" /\ analytics' = FALSE /\ UNCHANGED <<keys, file>>
        /\ \E r : r.key = run.key /\ (Then("integration", r) \/ Go("integration", r))
    BY <1>0, <1>1 DEF DisableAnalytics, store
  <2>2. \/ StageInv'
        \/ pc' = "integration" /\ outcome' # "done" /\ run'.key \in keys' /\ file' = run'.key
    BY <2>1, StageOn DEF WithKey
  <2> QED
    BY <2>1, <2>2 DEF StageInv, WithKey
<1>2. CASE SyncIntegration
  <2>1. /\ pc = "integration" /\ UNCHANGED <<keys, file, analytics, spec>>
        /\ \/ /\ spec.works /\ Drifted /\ integration' = Synced
              /\ Then("list", [run EXCEPT !.changed = TRUE])
           \/ ~(spec.works /\ Drifted) /\ integration' = integration /\ Go("list", run)
    BY <1>2 DEF SyncIntegration, store
  <2>2. \/ StageInv'
        \/ pc' = "list" /\ outcome' # "done" /\ run'.key \in keys' /\ file' = run'.key
    BY <1>0, <2>1, StageOn DEF WithKey
  <2>3. ~analytics'
    BY <2>1 DEF StageInv, WithKey
  <2>4. IntegrationOK'
    <3>1. /\ spec.want \in Wanted /\ spec.want = [kind |-> spec.want.kind, url |-> spec.want.url]
          /\ spec.want.kind # NoRow.kind
      BY HomarrAssumption DEF TypeInv, RowsOK, Specs
    <3>2. spec.want # NoRow
      BY <3>1
    <3>3. CASE ~(spec.works /\ Drifted) /\ integration' = integration
      BY <2>1, <3>2, <3>3 DEF IntegrationOK, Drifted
    <3>4. CASE integration = NoRow /\ integration' = Synced
      BY <2>1, <3>2, <3>4 DEF IntegrationOK, Synced
    <3>5. CASE integration # NoRow /\ integration' = Synced
      <4>1. integration \in Rows
        BY <3>5 DEF TypeInv, RowsOK
      <4>2. integration.kind # NoRow.kind
        BY <4>1, HomarrAssumption DEF Rows
      <4>3. integration'.url = spec.want.url /\ integration'.kind = integration.kind
        BY <3>5, <4>1 DEF Synced, Rows
      <4> QED
        BY <2>1, <4>2, <4>3 DEF IntegrationOK
    <3> QED
      BY <2>1, <3>3, <3>4, <3>5
  <2> HIDE DEF IntegrationOK
  <2> QED
    BY <2>2, <2>3, <2>4 DEF StageInv, WithKey
<1>3. CASE ListApps
  <2>1. PICK found \in SUBSET apps : Go("apps", [run EXCEPT !.todo = Cataloged, !.found = found, !.ids = {}])
    BY <1>3 DEF ListApps
  <2> DEFINE r == [run EXCEPT !.todo = Cataloged, !.found = found, !.ids = {}]
  <2>2. r.key = run.key /\ r.todo = Cataloged /\ r.ids = {}
    BY <1>0 DEF Runs
  <2>3. pc = "list" /\ UNCHANGED <<keys, file, analytics, apps, spec, integration>>
    BY <1>3 DEF ListApps, homarr, store
  <2> HIDE DEF r
  <2>4. \/ StageInv'
        \/ /\ pc' = "apps" /\ run' = r /\ outcome' # "done" /\ run'.key \in keys' /\ file' = run'.key
    BY <2>1, <2>2, <2>3, StageOn DEF WithKey, r
  <2>5. ~analytics' /\ IntegrationOK' /\ Cataloged' = Cataloged
    BY <2>3, SameApps DEF StageInv, WithKey
  <2> HIDE DEF IntegrationOK
  <2> QED
    BY <2>2, <2>4, <2>5 DEF StageInv, WithKey
<1> QED
  BY <1>1, <1>2, <1>3

\* What is known once the apps are listed.
LEMMA StageApps ==
    ASSUME StageInv, pc \in {"apps", "settings", "publish"}
    PROVE  /\ run.key \in keys /\ file = run.key /\ ~analytics /\ IntegrationOK /\ outcome # "done"
           /\ run.ids \subseteq AppIds /\ \A n \in Cataloged \ run.todo : AppOf(n, run.ids)
BY DEF StageInv, WithKey

\* No app goes away, and only those listed for the row's URL change.
LEMMA AppsStay ==
    ASSUME TypeInv, AppsInv, NEW n \in Names, SyncApp(n), NEW a \in apps
    PROVE  \E b \in apps' : /\ b.id = a.id /\ b.href = a.href
                           /\ (b.title = a.title \/ a.href = Url(n))
<1>0. RowsOK
  BY DEF TypeInv
<1>1. CASE a \in apps'
  BY <1>1
<1>2. CASE apps' = Retitled(IdsOf(Have(n)), Title(n))
  <2>1. PICK b \in apps' : /\ b.id = a.id /\ b.href = a.href
                           /\ b.title = IF a.id \in IdsOf(Have(n)) THEN Title(n) ELSE a.title
    BY <1>0, <1>2, SyncAppCases, RetitledKeeps
  <2>2. a.id \in IdsOf(Have(n)) => a.href = Url(n)
    <3>1. SUFFICES ASSUME a.id \in IdsOf(Have(n)) PROVE a.href = Url(n)
      OBVIOUS
    <3>2. PICK g \in run.found : g.href = Url(n) /\ g.id = a.id
      BY <3>1 DEF IdsOf, Have, Matches
    <3>3. PICK c \in apps : c.id = g.id /\ c.href = g.href
      BY DEF AppsInv, FoundOK
    <3> QED
      BY <1>0, <3>2, <3>3 DEF RowsOK
  <2> QED
    BY <2>1, <2>2
<1> QED
  BY <1>1, <1>2, SyncAppCases

\* The row that is synced has its app.
LEMMA RowSynced ==
    ASSUME TypeInv, AppsInv, NEW n \in Names, SyncApp(n)
    PROVE  \E ids \in SUBSET Nat :
             /\ Then("apps", PastBy(n, ids)) \/ Go("apps", Past(n, ids))
             /\ \A i \in ids : \E b \in apps' : b.id = i /\ b.href = Url(n)
             /\ \E b \in apps' : b.href = Url(n) /\ (Alone(n) => b.title = Title(n)) /\ b.id \in ids
<1>0. /\ RowsOK /\ n \in run.todo /\ n \in Cataloged /\ run \in Runs
      /\ \A a, b \in apps' : a.id = b.id => a = b
  BY SyncAppCases, AppsTyped DEF TypeInv, ControlOK, Next, Converger
<1>1. CASE Have(n) = {}
  <2> DEFINE made == [id |-> NewId, href |-> Url(n), title |-> Title(n)]
  <2>1. Then("apps", PastBy(n, {NewId})) /\ made \in apps'
    BY <1>1, SyncAppCases
  <2>2. {NewId} \in SUBSET Nat
    BY <1>0, NewIdIsFree
  <2>3. made.id = NewId /\ made.href = Url(n) /\ made.title = Title(n)
    OBVIOUS
  <2> HIDE DEF made
  <2> QED
    BY <2>1, <2>2, <2>3
<1>2. CASE Have(n) # {}
  <2> DEFINE ids == IdsOf(Have(n))
  <2>1. PICK f \in run.found : f.href = Url(n) /\ f \in Have(n)
    BY <1>2 DEF Have, Matches
  <2>2. ids \in SUBSET Nat /\ f.id \in ids
    BY <1>0, <2>1 DEF IdsOf, Have, Runs, App
  <2>3. \A i \in ids : \E b \in apps' : b.id = i /\ b.href = Url(n)
    <3> SUFFICES ASSUME NEW g \in Have(n) PROVE \E b \in apps' : b.id = g.id /\ b.href = Url(n)
      BY DEF IdsOf
    <3> QED
      BY FoundKept DEF Have, Matches
  <2>4. \/ (\A g \in Have(n) : g.title = Title(n)) /\ apps' = apps /\ Go("apps", Past(n, ids))
        \/ apps' = Retitled(ids, Title(n)) /\ Then("apps", PastBy(n, ids))
    BY <1>2, SyncAppCases
  <2> HIDE DEF ids
  <2>5. PICK a \in apps : a.id = f.id /\ a.href = f.href /\ (a.title = f.title \/ SyncedRows(f.href) # {})
    BY DEF AppsInv, FoundOK
  <2>6. CASE apps' = apps /\ \A g \in Have(n) : g.title = Title(n)
    <3>1. Alone(n) => SyncedRows(Url(n)) = {}
      BY <1>0 DEF Alone, SyncedRows, RowsAt, Cataloged, Url
    <3>2. Alone(n) => a.title = Title(n)
      BY <2>1, <2>5, <2>6, <3>1
    <3> QED
      BY <2>1, <2>2, <2>3, <2>4, <2>5, <2>6, <3>2
  <2>7. CASE apps' = Retitled(ids, Title(n))
    <3>1. PICK b \in apps' : b.id = a.id /\ b.href = a.href /\ b.title = IF a.id \in ids THEN Title(n) ELSE a.title
      BY <1>0, <2>7, SyncAppCases, RetitledKeeps
    <3>2. b.href = Url(n) /\ b.title = Title(n) /\ b.id \in ids
      BY <2>1, <2>2, <2>5, <3>1
    <3> QED
      BY <2>2, <2>3, <2>4, <3>2
  <2> QED
    BY <2>4, <2>6, <2>7
<1> QED
  BY <1>1, <1>2

LEMMA StageApp ==
    ASSUME TypeInv, AppsInv, StageInv, NEW v \in Names, SyncApp(v)
    PROVE  StageInv'
<1>0. /\ pc = "apps" /\ v \in run.todo /\ v \in Cataloged /\ run \in Runs
      /\ UNCHANGED <<keys, file, analytics, integration, spec>>
  BY SyncAppCases DEF TypeInv, ControlOK, store
<1>1. PICK ids \in SUBSET Nat :
        /\ Then("apps", PastBy(v, ids)) \/ Go("apps", Past(v, ids))
        /\ \A i \in ids : \E b \in apps' : b.id = i /\ b.href = Url(v)
        /\ \E b \in apps' : b.href = Url(v) /\ (Alone(v) => b.title = Title(v)) /\ b.id \in ids
  BY RowSynced
<1>2. /\ Past(v, ids).key = run.key /\ PastBy(v, ids).key = run.key
      /\ Past(v, ids).todo = run.todo \ {v} /\ PastBy(v, ids).todo = run.todo \ {v}
      /\ Past(v, ids).ids = run.ids \cup ids /\ PastBy(v, ids).ids = run.ids \cup ids
  BY <1>0, PastTypes
<1>3. \/ StageInv'
      \/ /\ pc' = "apps" /\ outcome' # "done" /\ run'.key \in keys' /\ file' = run'.key
         /\ run'.todo = run.todo \ {v} /\ run'.ids = run.ids \cup ids
  BY <1>0, <1>1, <1>2, StageOn DEF WithKey
<1>4. /\ ~analytics /\ IntegrationOK /\ run.ids \subseteq AppIds
      /\ \A n \in Cataloged \ run.todo : AppOf(n, run.ids)
  BY <1>0, StageApps
<1>5. /\ IntegrationOK' /\ Cataloged' = Cataloged /\ ~analytics'
      /\ \A n : Url(n)' = Url(n) /\ Title(n)' = Title(n) /\ (Alone(n)' <=> Alone(n))
  BY <1>0, <1>4 DEF IntegrationOK, Cataloged, Url, Title, Alone
<1>6. PICK all : all = run.ids \cup ids
  OBVIOUS
<1>7. ASSUME NEW i \in all PROVE i \in AppIds'
  <2>1. CASE i \in run.ids
    <3>1. PICK a \in apps, n \in Cataloged : a.id = i /\ a.href = Url(n)
      BY <1>4, <2>1 DEF AppIds
    <3>2. PICK b \in apps' : b.id = a.id /\ b.href = a.href
      BY AppsStay
    <3> QED
      BY <1>5, <3>1, <3>2 DEF AppIds
  <2>2. CASE i \in ids
    <3>1. PICK b \in apps' : b.id = i /\ b.href = Url(v)
      BY <1>1, <2>2
    <3> QED
      BY <1>0, <1>5, <3>1 DEF AppIds
  <2> QED
    BY <1>6, <1>7, <2>1, <2>2
<1>8. ASSUME NEW n \in Cataloged, n \notin run.todo \ {v} PROVE AppOf(n, all)'
  <2>1. CASE n = v
    BY <1>1, <1>5, <1>6, <2>1 DEF AppOf
  <2>2. CASE n # v
    <3>1. PICK a \in apps : a.href = Url(n) /\ (Alone(n) => a.title = Title(n)) /\ a.id \in run.ids
      BY <1>4, <1>8, <2>2 DEF AppOf
    <3>2. PICK b \in apps' : b.id = a.id /\ b.href = a.href /\ (b.title = a.title \/ a.href = Url(v))
      BY AppsStay
    <3>3. Alone(n) => Url(v) # Url(n)
      BY <1>0, <2>2 DEF Alone
    <3>4. b.href = Url(n) /\ (Alone(n) => b.title = Title(n)) /\ b.id \in all
      BY <1>6, <3>1, <3>2, <3>3
    <3> QED
      BY <1>5, <3>4 DEF AppOf
  <2> QED
    BY <2>1, <2>2
<1>9. all \subseteq AppIds' /\ \A n \in Cataloged' \ (run.todo \ {v}) : AppOf(n, all)'
  BY <1>5, <1>7, <1>8
<1> HIDE DEF AppOf, AppIds, IntegrationOK, Cataloged
<1> QED
  BY <1>3, <1>5, <1>6, <1>9 DEF StageInv, WithKey

\* The board, when all apps are there.
LEMMA StageBoard ==
    ASSUME TypeInv, StageInv, AddTile \/ TilesDone \/ CreateBoard \/ SaveBoard \/ SetBoard
    PROVE  StageInv'
<1> DEFINE r == [run EXCEPT !.changed = TRUE]
<1>0. run \in Runs /\ r.key = run.key /\ r.todo = run.todo /\ r.ids = run.ids
  BY DEF TypeInv, ControlOK, Runs
<1>1. /\ pc \in {"apps", "settings"} /\ run.todo = {}
      /\ UNCHANGED <<keys, file, analytics, integration, apps, spec, major>>
  BY DEF AddTile, TilesDone, CreateBoard, SaveBoard, SetBoard, StageInv, homarr, store
<1>2. /\ run.key \in keys /\ file = run.key /\ ~analytics /\ IntegrationOK /\ outcome # "done"
      /\ run.ids \subseteq AppIds /\ \A n \in Cataloged : AppOf(n, run.ids)
  BY <1>1, StageApps
<1>3. PICK all : all = run.ids
  OBVIOUS
<1>4. /\ ~analytics' /\ IntegrationOK' /\ Cataloged' = Cataloged /\ AppIds' = AppIds
      /\ all \subseteq AppIds' /\ (\A n \in Cataloged' : AppOf(n, all)')
      /\ Desired(all)' = Desired(all)
  BY <1>1, <1>2, <1>3, SameApps
<1> HIDE DEF IntegrationOK, AppOf, AppIds, Cataloged, Desired, r
<1>5. ASSUME pc' \in {"apps", "settings"}, run'.key \in keys', file' = run'.key, outcome' # "done",
             run'.ids = all, run'.todo = {}, pc' = "settings" /\ clean' => board' = Desired(all)'
      PROVE  StageInv'
  BY <1>4, <1>5 DEF StageInv, WithKey
<1>6. ASSUME pc' = "publish", UNCHANGED <<run, outcome, clean>>, clean => BoardOK(all)'
      PROVE  StageInv'
  <2>1. /\ run'.key \in keys' /\ file' = run'.key /\ outcome' # "done" /\ run'.ids = all /\ run'.todo = {}
    BY <1>1, <1>2, <1>3, <1>6
  <2> HIDE DEF BoardOK
  <2> QED
    BY <1>4, <1>6, <2>1 DEF StageInv, WithKey
<1>7. ASSUME NEW next \in {"apps", "settings"}, Then(next, r) \/ Go(next, r)
      PROVE  \/ StageInv'
             \/ /\ pc' = next /\ run' = r /\ outcome' # "done" /\ clean' = clean
                /\ run'.key \in keys' /\ file' = run'.key
  BY <1>0, <1>1, <1>7, StageOn DEF WithKey
<1>8. CASE AddTile \/ CreateBoard
  <2>1. Then("apps", r)
    BY <1>8 DEF AddTile, CreateBoard, r
  <2> QED
    BY <1>0, <1>1, <1>3, <1>5, <1>7, <2>1
<1>9. CASE TilesDone
  <2>1. /\ major = 1 /\ Tiled = {} /\ board' = board
        /\ pc' = "publish" /\ UNCHANGED <<run, outcome, clean>>
    BY <1>9 DEF TilesDone, Go, homarr, history
  <2>2. BoardOK(all)'
    BY <1>1, <1>3, <2>1 DEF BoardOK, Tiled
  <2> QED
    BY <1>6, <2>1, <2>2
<1>10. CASE SaveBoard
  <2>1. \/ board = Desired(run.ids) /\ board' = board /\ Go("settings", run)
        \/ board' = Desired(run.ids) /\ Then("settings", r)
    BY <1>10 DEF SaveBoard, Same, r
  <2>2. board' = Desired(all)'
    BY <1>3, <1>4, <2>1
  <2>3. CASE Go("settings", run)
    <3>1. pc' = "settings" /\ run' = run /\ outcome' = outcome
      BY <2>3 DEF Go
    <3> QED
      BY <1>1, <1>2, <1>3, <1>5, <2>2, <3>1
  <2>4. CASE Then("settings", r)
    BY <1>0, <1>1, <1>3, <1>5, <1>7, <2>2, <2>4
  <2> QED
    BY <2>1, <2>3, <2>4
<1>11. CASE SetBoard
  <2>1. /\ pc = "settings" /\ major = 2 /\ board' = board
        /\ \/ settings = {"public", "home"} /\ settings' = settings /\ Go("publish", run)
           \/ Then("settings", r)
    BY <1>11 DEF SetBoard, TypeInv, ControlOK, r
  <2>2. clean => board' = Desired(all)'
    <3>1. clean => board = Desired(run.ids)
      BY <2>1 DEF StageInv
    <3> QED
      BY <1>3, <1>4, <2>1, <3>1
  <2>3. CASE settings = {"public", "home"} /\ settings' = settings /\ Go("publish", run)
    <3>1. pc' = "publish" /\ UNCHANGED <<run, outcome, clean>>
      BY <2>3 DEF Go, history
    <3>2. clean => BoardOK(all)'
      BY <1>1, <2>1, <2>2, <2>3 DEF BoardOK
    <3> QED
      BY <1>6, <3>1, <3>2
  <2>4. CASE Then("settings", r)
    BY <1>0, <1>1, <1>3, <1>5, <1>7, <2>2, <2>4
  <2> QED
    BY <2>1, <2>3, <2>4
<1> QED
  BY <1>8, <1>9, <1>10, <1>11

\* The key goes to OpenBao, if it is published, and everything is done.
LEMMA StagePublish ==
    ASSUME StageInv, Publish
    PROVE  StageInv'
<1>1. /\ pc = "publish" /\ pc' = "idle" /\ bao' = (IF spec.publish THEN run.key ELSE bao) /\ clean' = clean
      /\ UNCHANGED <<major, keys, file, analytics, apps, integration, board, settings, spec>>
  BY DEF Publish, homarr, history
<1>2. PICK all : all = run.ids
  OBVIOUS
<1>3. /\ run.key \in keys /\ file = run.key /\ ~analytics /\ IntegrationOK /\ all \subseteq AppIds
      /\ (clean => BoardOK(all)) /\ \A n \in Cataloged : AppOf(n, all)
  BY <1>1, <1>2, StageApps DEF StageInv
<1>4. /\ (IntegrationOK' <=> IntegrationOK) /\ AppIds' = AppIds
      /\ \A ids : Placed(ids)' <=> Placed(ids)
  BY <1>1, SameApps, SameBoard
<1>5. clean => Placed(all)
  BY <1>3 DEF Placed
<1>6. clean' => Done'
  <2> HIDE DEF IntegrationOK, AppIds, Placed
  <2> QED
    BY <1>1, <1>3, <1>4, <1>5 DEF Done
<1> HIDE DEF Done
<1> QED
  BY <1>1, <1>6 DEF StageInv, WithKey

LEMMA StageNext == TypeInv /\ AppsInv /\ StageInv /\ [Next]_vars => StageInv'
<1> SUFFICES ASSUME TypeInv, AppsInv, StageInv, [Next]_vars PROVE StageInv'
  OBVIOUS
<1>1. CASE ProbeFails \/ LoginFails \/ Die
  <2>1. pc # "idle" => outcome # "done"
    BY DEF StageInv
  <2> QED
    BY <1>1, <2>1, StageEarly, PlacesHold DEF ProbeFails, LoginFails, Die, Failed
<1>2. CASE EditSpec \/ Rebuild
  BY <1>2 DEF EditSpec, Rebuild, Edit, StageInv, WithKey
<1>3. CASE Rearrange \/ ChangeAdmin \/ Expire \/ UNCHANGED vars
  BY <1>3, StageFrame DEF Rearrange, ChangeAdmin, Expire, Edit, homarr, store, history, vars
<1> QED
  BY <1>1, <1>2, <1>3, StageKey, StageSetup, StageRows, StageApp, StageBoard, StagePublish
  DEF Next, Converger, Outside

\* After a run that nothing disturbed the key in the file is one that Homarr
\* accepts, and OpenBao has the same if the role publishes it; every row of the
\* catalog has an app, under its title if no other row has its URL; the integration
\* points where it should; and the board is the declared one, with an app of every
\* row on it (or, on 1.x, has a tile for it).
THEOREM WhatIsApplied == Spec => []SpecIsApplied
<1>1. Init => StageInv
  BY DEF Init, StageInv, WithKey
<1>2. StageInv => SpecIsApplied
  <2> SUFFICES ASSUME StageInv, outcome = "done", clean PROVE SpecIsApplied
    BY DEF SpecIsApplied
  <2>1. Done
    BY DEF StageInv
  <2>2. PICK ids \in SUBSET AppIds : BoardOK(ids) /\ \A n \in Cataloged : AppOf(n, ids)
    BY <2>1 DEF Done, Placed
  <2>3. major = 2 => board.apps = ids
    BY <2>2 DEF BoardOK, Desired
  <2>4. board.there => ids \subseteq board.apps
    BY <2>2, <2>3 DEF BoardOK
  <2>5. \A n \in Cataloged : \E a \in apps :
          a.href = Url(n) /\ (Alone(n) => a.title = Title(n)) /\ (board.there => a.id \in board.apps)
    BY <2>2, <2>4 DEF AppOf
  <2>6. major = 2 => /\ board = Desired(board.apps) /\ board.apps \subseteq AppIds
                     /\ settings = {"public", "home"}
    BY <2>2, <2>3 DEF BoardOK
  <2> QED
    BY <2>1, <2>5, <2>6 DEF Done, IntegrationOK, SpecIsApplied
<1> QED
  BY <1>1, <1>2, InvInit, InvNext, StageNext, PTL DEF Spec

-----------------------------------------------------------------------------
(* What the next run changes *)

\* No key is in use that was not minted.
MintedOK == file \in 0 .. issued /\ bao \in 0 .. issued /\ run.key \in 0 .. issued

LEMMA MintedNext == TypeInv /\ MintedOK /\ [Next]_vars => MintedOK'
<1> SUFFICES ASSUME TypeInv, MintedOK, [Next]_vars PROVE MintedOK'
  OBVIOUS
<1>0. issued \in Nat /\ run \in Runs
  BY HomarrAssumption DEF TypeInv, ControlOK
<1>1. ASSUME file' \in {0, file, run.key}, bao' \in {bao, run.key}, issued' = issued,
             run'.key \in {0, run.key, file, bao}
      PROVE  MintedOK'
  BY <1>0, <1>1 DEF MintedOK
<1>2. NoRun.key = 0 /\ [run EXCEPT !.key = 0].key = 0 /\ [run EXCEPT !.changed = TRUE].key = run.key
  BY <1>0 DEF NoRun, Runs
<1>3. ASSUME NEW next, NEW r, r.key = run.key, Then(next, r) \/ Go(next, r), UNCHANGED <<file, bao>>
      PROVE  MintedOK'
  <2>1. (run' = r \/ run' = NoRun) /\ issued' = issued
    BY <1>3 DEF Then, Go, Failed, bounds
  <2> QED
    BY <1>1, <1>2, <1>3, <2>1
<1>4. CASE Start
  <2>1. PICK readable \in BOOLEAN : run' = [NoRun EXCEPT !.key = IF readable /\ bao # 0 THEN bao ELSE file]
    BY <1>4 DEF Start
  <2>2. run'.key \in {file, bao}
    BY <2>1 DEF NoRun
  <2> QED
    BY <1>1, <1>4, <2>2 DEF Start, store, bounds
<1>5. CASE Probe
  <2>1. (run' = run \/ run' = [run EXCEPT !.key = 0]) /\ UNCHANGED <<file, bao, issued>>
    BY <1>5 DEF Probe, Go, store, bounds
  <2> QED
    BY <1>1, <1>2, <2>1
<1>6. CASE ProbeFails \/ LoginFails
  BY <1>1, <1>2, <1>6 DEF ProbeFails, LoginFails, store
<1>7. CASE ReadStep \/ Claim \/ Advance \/ Walk \/ Walked \/ InitUser \/ CompleteSetup
  BY <1>2, <1>3, <1>7 DEF ReadStep, Claim, Advance, Walk, Walked, InitUser, CompleteSetup, store
<1>8. CASE Login \/ ResetPassword \/ LoginAgain \/ DisableAnalytics \/ SyncIntegration
  BY <1>2, <1>3, <1>8 DEF Login, ResetPassword, LoginAgain, DisableAnalytics, SyncIntegration, store
<1>9. CASE AddTile \/ TilesDone \/ CreateBoard \/ SaveBoard \/ SetBoard
  BY <1>2, <1>3, <1>9 DEF AddTile, TilesDone, CreateBoard, SaveBoard, SetBoard, store
<1>10. CASE ClaimRefused \/ WalkedPast \/ NobodyToReset \/ LoginStillFails \/ Die
  BY <1>1, <1>2, <1>10 DEF ClaimRefused, WalkedPast, NobodyToReset, LoginStillFails, Die, Refused, Failed, store, bounds
<1>11. CASE Mint
  <2>1. /\ issued' = issued + 1 /\ UNCHANGED <<file, bao>>
        /\ run' = [run EXCEPT !.key = issued + 1, !.changed = TRUE] \/ run' = NoRun
    BY <1>11 DEF Mint, Failed, store
  <2>2. run'.key \in {0, issued + 1}
    BY <1>0, <1>2, <2>1 DEF Runs
  <2> QED
    BY <1>0, <2>1, <2>2 DEF MintedOK
<1>12. CASE WriteFile
  BY <1>1, <1>12 DEF WriteFile, KeySaved, Go, bounds
<1>13. CASE ListApps
  <2>1. \E found \in SUBSET apps : Go("apps", [run EXCEPT !.todo = Cataloged, !.found = found, !.ids = {}])
    BY <1>13 DEF ListApps
  <2>2. \A found : [run EXCEPT !.todo = Cataloged, !.found = found, !.ids = {}].key = run.key
    BY <1>0 DEF Runs
  <2> QED
    BY <1>3, <1>13, <2>1, <2>2 DEF ListApps, store
<1>14. ASSUME NEW n \in Names, SyncApp(n) PROVE MintedOK'
  <2>1. PICK ids \in SUBSET Nat : Then("apps", PastBy(n, ids)) \/ Go("apps", Past(n, ids))
    BY <1>0, <1>14, SyncAppRun DEF TypeInv
  <2>2. PastBy(n, ids).key = run.key /\ Past(n, ids).key = run.key
    BY <1>0, PastTypes
  <2> QED
    BY <1>3, <1>14, <2>1, <2>2 DEF SyncApp, store
<1>15. CASE Publish
  BY <1>1, <1>2, <1>15 DEF Publish, bounds
<1>16. CASE EditSpec \/ Rebuild \/ Rearrange \/ ChangeAdmin \/ Expire
  BY <1>1, <1>16 DEF EditSpec, Rebuild, Rearrange, ChangeAdmin, Expire, Edit, store, bounds
<1>17. CASE UNCHANGED vars
  BY <1>1, <1>17 DEF vars, store, bounds
<1> QED
  BY <1>4, <1>5, <1>6, <1>7, <1>8, <1>9, <1>10, <1>11, <1>12, <1>13, <1>14, <1>15, <1>16, <1>17
  DEF Next, Converger, Outside

\* What a run needs to find to leave things as they are, but for the kind of the
\* integration. Such a run begins at the key and never leaves the steps that write
\* what is there already.
Quiet == Paired /\ (spec.publish \/ bao \in keys \cup {0})
StillInv ==
    settled /\ clean /\ Quiet =>
        /\ Done /\ pc \in {"idle", "probe", "file"} \cup WithKey
        /\ pc # "idle" => run.key \in keys /\ (spec.publish => run.key = file)
        /\ pc = "apps" => /\ run.found \subseteq apps
                          /\ \A a \in apps : \E f \in run.found : f.href = a.href
        /\ (spec.works => integration.kind = spec.want.kind) => ~run.changed

LEMMA QuietFrame ==
    ASSUME UNCHANGED <<keys, bao, apps, spec>>
    PROVE  (Paired' <=> Paired) /\ (Quiet' <=> Quiet)
BY DEF Quiet, Paired, AppsAt, Alone, Cataloged, Url

\* A run that is not an undisturbed one right after another promises nothing.
LEMMA StillVoid ==
    ASSUME ~(settled' /\ clean' /\ Quiet')
    PROVE  StillInv'
BY DEF StillInv

\* When every row has an app of its own, there is one choice of apps only.
LEMMA PairedIds ==
    ASSUME Paired, NEW ids \in SUBSET AppIds, \A n \in Cataloged : AppOf(n, ids)
    PROVE  ids = AppIds
<1> SUFFICES ASSUME NEW i \in AppIds PROVE i \in ids
  OBVIOUS
<1>1. PICK a \in apps, n \in Cataloged : a.id = i /\ a.href = Url(n)
  BY DEF AppIds
<1>2. PICK b \in apps : b.href = Url(n) /\ b.id \in ids
  BY DEF AppOf
<1>3. a = b
  BY <1>1, <1>2 DEF Paired, AppsAt
<1> QED
  BY <1>1, <1>2, <1>3

LEMMA DonePlaced ==
    ASSUME Done, Paired
    PROVE  Placed(AppIds)
<1>1. PICK ids \in SUBSET AppIds : Placed(ids)
  BY DEF Done
<1>2. ids = AppIds
  BY <1>1, PairedIds DEF Placed
<1> QED
  BY <1>1, <1>2

\* The run goes on with nothing to do.
LEMMA StillStep ==
    ASSUME StillInv, settled, clean, Quiet, pc # "idle", pc' \in {"file"} \cup WithKey,
           UNCHANGED <<major, keys, file, bao, analytics, apps, integration, board, settings, spec>>,
           run'.key = run.key, run'.changed = run.changed,
           pc' = "apps" => /\ run'.found \subseteq apps
                           /\ \A a \in apps : \E f \in run'.found : f.href = a.href
    PROVE  StillInv'
<1>1. Done' <=> Done
  BY DoneFrame
<1> HIDE DEF Done, Quiet
<1> QED
  BY <1>1 DEF StillInv, WithKey

\* In such a run the integration is what it should be, or it has another kind
\* and keeps it.
LEMMA StillIntegration ==
    ASSUME TypeInv, Done, spec.works, Drifted
    PROVE  integration.kind # spec.want.kind /\ Synced = integration
<1>1. /\ spec.want \in Wanted /\ spec.want = [kind |-> spec.want.kind, url |-> spec.want.url]
  BY HomarrAssumption DEF TypeInv, RowsOK, Specs
<1>2. integration # NoRow /\ integration.url = spec.want.url
  BY DEF Done, IntegrationOK
<1>3. integration \in Rows
  BY <1>2 DEF TypeInv, RowsOK
<1>4. integration = [kind |-> integration.kind, url |-> integration.url]
  BY <1>3 DEF Rows
<1>5. integration # spec.want
  BY DEF Drifted
<1> QED
  BY <1>1, <1>2, <1>3, <1>4, <1>5 DEF Synced, Rows

LEMMA StillRows ==
    ASSUME TypeInv, StillInv, settled, clean, Quiet,
           DisableAnalytics \/ SyncIntegration \/ ListApps \/ \E n \in Names : SyncApp(n)
    PROVE  StillInv'
<1>0. Done /\ run \in Runs /\ pc # "idle" /\ pc \in WithKey
  BY DEF StillInv, TypeInv, ControlOK, DisableAnalytics, SyncIntegration, ListApps, SyncApp, WithKey
<1>1. CASE DisableAnalytics
  <2>1. ~analytics
    BY <1>0 DEF Done
  <2>2. Go("integration", run) /\ analytics' = analytics
    BY <1>1, <2>1, <1>0 DEF DisableAnalytics, TypeInv, RowsOK
  <2>3. /\ pc' = "integration" /\ run' = run
        /\ UNCHANGED <<major, keys, file, bao, apps, integration, board, settings, spec>>
    BY <1>1, <2>2 DEF DisableAnalytics, Go, store
  <2> HIDE DEF Quiet
  <2> QED
    BY <1>0, <2>2, <2>3, StillStep DEF WithKey
<1>2. CASE SyncIntegration
  <2> DEFINE r == [run EXCEPT !.changed = TRUE]
  <2>1. r.key = run.key
    BY <1>0 DEF Runs
  <2>2. /\ UNCHANGED <<major, keys, file, bao, analytics, apps, board, settings, spec>>
        /\ \/ spec.works /\ Drifted /\ integration' = Synced /\ Then("list", r)
           \/ ~(spec.works /\ Drifted) /\ integration' = integration /\ Go("list", run)
    BY <1>2 DEF SyncIntegration, store
  <2> HIDE DEF r, Quiet
  <2>3. CASE Go("list", run) /\ integration' = integration
    BY <1>0, <2>2, <2>3, StillStep DEF Go, WithKey
  <2>4. CASE spec.works /\ Drifted /\ integration' = Synced /\ Then("list", r)
    <3>1. integration.kind # spec.want.kind /\ integration' = integration
      BY <1>0, <2>4, StillIntegration
    <3>2. Done'
      BY <1>0, <2>2, <3>1, DoneFrame
    <3>3. CASE pc' = "list" /\ run' = r
      <4>1. run'.key \in keys' /\ (spec'.publish => run'.key = file')
        BY <1>0, <2>1, <2>2, <3>3 DEF StillInv
      <4> HIDE DEF Done
      <4> QED
        BY <2>2, <2>4, <3>1, <3>2, <3>3, <4>1 DEF StillInv, WithKey
    <3>4. CASE clean' = FALSE
      BY <3>4, StillVoid
    <3> QED
      BY <2>4, <3>3, <3>4 DEF Then, Failed
  <2> QED
    BY <2>2, <2>3, <2>4
<1>3. CASE ListApps
  <2>1. PICK found \in SUBSET apps :
          /\ \A a \in apps : \E f \in found : f.href = a.href
          /\ Go("apps", [run EXCEPT !.todo = Cataloged, !.found = found, !.ids = {}])
    BY <1>3 DEF ListApps
  <2>2. run'.key = run.key /\ run'.changed = run.changed /\ run'.found = found /\ pc' = "apps"
    BY <1>0, <2>1 DEF Runs, Go
  <2>3. UNCHANGED <<major, keys, file, bao, analytics, apps, integration, board, settings, spec>>
    BY <1>3 DEF ListApps, homarr, store
  <2> HIDE DEF Quiet
  <2> QED
    BY <1>0, <2>1, <2>2, <2>3, StillStep DEF WithKey
<1>4. ASSUME NEW n \in Names, SyncApp(n) PROVE StillInv'
  <2>1. n \in Cataloged /\ pc = "apps"
    BY <1>4 DEF SyncApp, TypeInv, TodoOK
  <2>2. \A m \in Cataloged : AppOf(m, AppIds)
    BY <1>0, DonePlaced DEF Placed, Quiet
  <2>3. PICK a \in apps : a.href = Url(n) /\ a.title = Title(n)
    BY <2>1, <2>2 DEF AppOf, Quiet, Paired
  <2>4. run.found \subseteq apps /\ \A b \in apps : \E f \in run.found : f.href = b.href
    BY <2>1 DEF StillInv
  <2>5. \A b \in apps : b.href = Url(n) => b = a
    BY <2>1, <2>3 DEF Quiet, Paired, AppsAt
  <2>6. Have(n) = {a}
    BY <2>3, <2>4, <2>5 DEF Have, Matches
  <2>7. PICK ids \in SUBSET Nat : Go("apps", Past(n, ids)) /\ UNCHANGED apps
    <3>1. IdsOf(Have(n)) \in SUBSET Nat
      BY <2>6 DEF IdsOf, TypeInv, RowsOK, App
    <3> QED
      BY <1>4, <2>3, <2>6, <3>1 DEF SyncApp
  <2>8. UNCHANGED <<major, keys, file, bao, analytics, integration, board, settings, spec>>
    BY <1>4 DEF SyncApp, store
  <2>9. run'.key = run.key /\ run'.changed = run.changed /\ run'.found = run.found /\ pc' = "apps"
    <3>1. /\ Past(n, ids).key = run.key /\ Past(n, ids).found = run.found
          /\ Past(n, ids).changed = run.changed
      BY <1>0, PastTypes
    <3>2. run' = Past(n, ids) /\ pc' = "apps"
      BY <2>7 DEF Go
    <3> QED
      BY <3>1, <3>2
  <2> HIDE DEF Quiet
  <2> QED
    BY <1>0, <2>4, <2>7, <2>8, <2>9, StillStep DEF WithKey
<1> QED
  BY <1>1, <1>2, <1>3, <1>4

LEMMA StillBoard ==
    ASSUME TypeInv, StageInv, StillInv, settled, clean, Quiet,
           AddTile \/ TilesDone \/ CreateBoard \/ SaveBoard \/ SetBoard
    PROVE  StillInv'
<1>0. /\ pc # "idle" /\ pc \in {"apps", "settings"} /\ run.todo = {}
      /\ BoardOK(AppIds) /\ run.ids = AppIds
  <2>1. /\ pc # "idle" /\ pc \in {"apps", "settings"} /\ run.todo = {}
    BY DEF AddTile, TilesDone, CreateBoard, SaveBoard, SetBoard, StageInv
  <2>2. BoardOK(AppIds)
    BY DonePlaced DEF StillInv, Quiet, Placed
  <2>3. run.ids \subseteq AppIds /\ \A n \in Cataloged : AppOf(n, run.ids)
    BY <2>1, StageApps
  <2>4. run.ids = AppIds
    BY <2>3, PairedIds DEF Quiet
  <2> QED
    BY <2>1, <2>2, <2>4
<1>1. /\ pc = "apps" => /\ run.found \subseteq apps
                        /\ \A a \in apps : \E f \in run.found : f.href = a.href
  BY DEF StillInv
<1> HIDE DEF Quiet, AppIds
<1>2. ASSUME NEW next \in {"settings", "publish"}, Go(next, run),
             UNCHANGED <<major, keys, file, bao, analytics, apps, integration, board, settings, spec>>
      PROVE  StillInv'
  BY <1>0, <1>2, StillStep DEF Go, WithKey
<1>3. CASE AddTile
  <2>1. Tiled # {} /\ major = 1
    BY <1>3 DEF AddTile
  <2> QED
    BY <1>0, <2>1 DEF BoardOK, Tiled
<1>4. CASE CreateBoard
  BY <1>0, <1>4 DEF CreateBoard, BoardOK, Desired
<1>5. CASE TilesDone
  BY <1>2, <1>5 DEF TilesDone, homarr, store
<1>6. CASE SaveBoard
  <2>1. Same(board, Desired(run.ids))
    BY <1>0, <1>6 DEF SaveBoard, BoardOK, Same
  <2> QED
    BY <1>2, <1>6, <2>1 DEF SaveBoard, store
<1>7. CASE SetBoard
  <2>1. settings = {"public", "home"}
    BY <1>0, <1>7 DEF SetBoard, BoardOK, TypeInv, ControlOK
  <2> QED
    BY <1>2, <1>7, <2>1 DEF SetBoard, store
<1> QED
  BY <1>3, <1>4, <1>5, <1>6, <1>7

LEMMA StillStart ==
    ASSUME TypeInv, StageInv, Start
    PROVE  StillInv'
<1> SUFFICES ASSUME settled', Quiet' PROVE StillInv'
  BY StillVoid
<1>1. Done /\ UNCHANGED <<major, keys, file, bao, analytics, apps, integration, board, settings, spec>>
  BY DEF Start, StageInv, homarr, store
<1>2. Done'
  BY <1>1, DoneFrame
<1>3. file \in keys /\ (spec.publish => bao = file) /\ 0 \notin keys /\ (spec.publish \/ bao \in keys \cup {0})
  BY <1>1, KeyCount, QuietFrame DEF Done, Quiet
<1>4. PICK readable \in BOOLEAN :
        LET key == IF readable /\ bao # 0 THEN bao ELSE file IN
        /\ run' = [NoRun EXCEPT !.key = key]
        /\ pc' = IF key # 0 THEN "probe" ELSE "step"
  BY DEF Start
<1> DEFINE key == IF readable /\ bao # 0 THEN bao ELSE file
<1>5. key \in keys /\ (spec.publish => key = file)
  BY <1>3
<1>6. run'.key = key /\ run'.changed = FALSE /\ pc' = "probe"
  BY <1>3, <1>4, <1>5 DEF NoRun
<1> HIDE DEF Done, key, Quiet
<1> QED
  BY <1>1, <1>2, <1>5, <1>6 DEF StillInv, WithKey

\* What a later run needs to find, an earlier one of two cannot have missed: no
\* app goes away, and a key that was not accepted is not accepted later.
LEMMA QuietBack ==
    ASSUME TypeInv, AppsInv, MintedOK, Converger, Quiet'
    PROVE  Quiet
<1>1. CASE UNCHANGED <<keys, bao, apps, spec>>
  BY <1>1, QuietFrame
<1>2. CASE Mint
  <2>1. keys' = keys \cup {issued + 1} /\ UNCHANGED <<bao, apps, spec>>
    BY <1>2 DEF Mint, store
  <2>2. bao # issued + 1
    BY KeyCount DEF MintedOK
  <2>3. Paired' <=> Paired
    BY <2>1 DEF Paired, AppsAt, Alone, Cataloged, Url
  <2> HIDE DEF Paired
  <2> QED
    BY <2>1, <2>2, <2>3 DEF Quiet
<1>3. CASE Publish
  <2>1. /\ bao' = (IF spec.publish THEN run.key ELSE bao) /\ UNCHANGED <<keys, apps, spec>>
    BY <1>3 DEF Publish, homarr
  <2>2. Paired' <=> Paired
    BY <2>1 DEF Paired, AppsAt, Alone, Cataloged, Url
  <2> HIDE DEF Paired
  <2> QED
    BY <2>1, <2>2 DEF Quiet
<1>4. ASSUME NEW n \in Names, SyncApp(n) PROVE Quiet
  <2>1. UNCHANGED <<keys, bao, spec>> /\ RowsOK
    BY <1>4 DEF SyncApp, store, TypeInv
  <2>2. \A m : Url(m)' = Url(m) /\ (Alone(m)' <=> Alone(m))
    BY <2>1 DEF Url, Alone, Cataloged
  <2>3. Cataloged' = Cataloged
    BY <2>1 DEF Cataloged
  <2>4. Paired
    <3>1. SUFFICES ASSUME NEW m \in Cataloged, NEW a \in apps, NEW b \in apps, a.href = Url(m), b.href = Url(m)
                   PROVE  a = b
      BY <2>2, <2>3 DEF Quiet, Paired, AppsAt
    <3>2. PICK c \in apps' : c.id = a.id /\ c.href = a.href
      BY <1>4, AppsStay
    <3>3. PICK d \in apps' : d.id = b.id /\ d.href = b.href
      BY <1>4, AppsStay
    <3>4. c = d
      BY <2>2, <2>3, <3>1, <3>2, <3>3 DEF Quiet, Paired, AppsAt
    <3> QED
      BY <2>1, <3>2, <3>3, <3>4 DEF RowsOK
  <2> HIDE DEF Paired
  <2> QED
    BY <2>1, <2>4 DEF Quiet
<1>5. CASE Probe \/ ReadStep \/ Claim \/ ClaimRefused \/ Advance \/ Walk \/ Walked \/ WalkedPast \/ InitUser
           \/ CompleteSetup \/ Login \/ ResetPassword \/ NobodyToReset \/ LoginAgain \/ LoginStillFails \/ WriteFile
  BY <1>1, <1>5 DEF Probe, ReadStep, Claim, ClaimRefused, Advance, Walk, Walked, WalkedPast, InitUser,
     CompleteSetup, Login, ResetPassword, NobodyToReset, LoginAgain, LoginStillFails, WriteFile, Refused, homarr, store
<1>6. CASE DisableAnalytics \/ SyncIntegration \/ ListApps \/ AddTile \/ TilesDone \/ CreateBoard \/ SaveBoard
           \/ SetBoard
  BY <1>1, <1>6 DEF DisableAnalytics, SyncIntegration, ListApps, AddTile, TilesDone, CreateBoard, SaveBoard,
     SetBoard, homarr, store
<1> QED
  BY <1>2, <1>3, <1>4, <1>5, <1>6 DEF Converger

\* A step of the converger never makes a run undisturbed.
LEMMA CleanBack ==
    ASSUME Converger, clean \in BOOLEAN
    PROVE  settled' = settled /\ (clean' => clean)
<1>1. ASSUME NEW next, NEW r, Then(next, r) \/ Go(next, r) PROVE settled' = settled /\ (clean' => clean)
  <2>1. CASE Then(next, r)
    <3>1. settled' = settled /\ (clean' = clean \/ clean' = FALSE)
      BY <2>1 DEF Then, Failed
    <3> QED
      BY <3>1
  <2>2. CASE Go(next, r)
    BY <2>2 DEF Go, history
  <2> QED
    BY <1>1, <2>1, <2>2
<1>2. CASE Probe \/ ReadStep \/ Walked \/ Login \/ ResetPassword \/ LoginAgain \/ WriteFile \/ ListApps \/ TilesDone
  BY <1>1, <1>2 DEF Probe, ReadStep, Walked, Login, ResetPassword, LoginAgain, WriteFile, ListApps, TilesDone
<1>3. CASE Claim \/ Advance \/ Walk \/ InitUser \/ CompleteSetup \/ AddTile \/ CreateBoard
  BY <1>1, <1>3 DEF Claim, Advance, Walk, InitUser, CompleteSetup, AddTile, CreateBoard
<1>4. CASE DisableAnalytics \/ SyncIntegration \/ SaveBoard \/ SetBoard \/ \E n \in Names : SyncApp(n)
  BY <1>1, <1>4 DEF DisableAnalytics, SyncIntegration, SaveBoard, SetBoard, SyncApp
<1>5. CASE ClaimRefused \/ WalkedPast \/ NobodyToReset \/ LoginStillFails \/ Mint \/ Publish
  <2>1. settled' = settled /\ (clean' = clean \/ clean' = (clean /\ TRUE) \/ clean' = (clean /\ FALSE))
    BY <1>5 DEF ClaimRefused, WalkedPast, NobodyToReset, LoginStillFails, Mint, Publish, Refused, Failed, history
  <2> QED
    BY <2>1
<1> QED
  BY <1>2, <1>3, <1>4, <1>5 DEF Converger

LEMMA StillNext == TypeInv /\ AppsInv /\ StageInv /\ MintedOK /\ StillInv /\ [Next]_vars => StillInv'
<1> SUFFICES ASSUME TypeInv, AppsInv, StageInv, MintedOK, StillInv, [Next]_vars PROVE StillInv'
  OBVIOUS
<1>1. CASE Start
  BY <1>1, StillStart
<1>2. CASE EditSpec \/ Rebuild \/ Rearrange \/ ChangeAdmin \/ ProbeFails \/ LoginFails \/ Die
  <2>1. ~clean'
    BY <1>2 DEF EditSpec, Rebuild, Rearrange, ChangeAdmin, ProbeFails, LoginFails, Die, Edit, Failed
  <2> QED
    BY <2>1, StillVoid
<1>3. CASE Expire \/ UNCHANGED vars
  <2>1. UNCHANGED <<major, keys, file, bao, analytics, apps, integration, board, settings, spec, pc, run, clean, settled>>
    BY <1>3 DEF Expire, homarr, store, history, vars
  <2>2. (Done' <=> Done) /\ (Quiet' <=> Quiet)
    BY <2>1, DoneFrame, QuietFrame
  <2> HIDE DEF Done, Quiet
  <2> QED
    BY <2>1, <2>2 DEF StillInv
<1>4. CASE Converger /\ ~(settled /\ clean /\ Quiet)
  <2>1. ~(settled' /\ clean' /\ Quiet')
    BY <1>4, CleanBack, QuietBack DEF TypeInv, ControlOK
  <2> QED
    BY <2>1, StillVoid
<1>5. CASE settled /\ clean /\ Quiet /\ Converger
  <2>1. /\ Done /\ pc \in {"idle", "probe", "file"} \cup WithKey
        /\ pc # "idle" => run.key \in keys /\ (spec.publish => run.key = file)
    BY <1>5 DEF StillInv
  <2> HIDE DEF Quiet
  <2>2. CASE Probe
    <3>1. run.key \in keys /\ pc = "probe"
      BY <2>1, <2>2 DEF Probe
    <3> QED
      BY <1>5, <2>2, <3>1, StillStep DEF Probe, Go, homarr, store, WithKey
  <2>3. CASE WriteFile
    <3>1. /\ file' = run.key /\ pc = "file" /\ pc' = "analytics" /\ run' = run
          /\ UNCHANGED <<major, keys, bao, analytics, apps, integration, board, settings, spec>>
      BY <2>3 DEF WriteFile, KeySaved, Go, homarr
    <3>2. file' \in keys' /\ (spec'.publish => bao' = file')
      BY <2>1, <3>1 DEF Done
    <3>3. (IntegrationOK' <=> IntegrationOK) /\ AppIds' = AppIds /\ \A ids : Placed(ids)' <=> Placed(ids)
      BY <3>1, SameApps, SameBoard
    <3>4. Done'
      <4> HIDE DEF IntegrationOK, AppIds, Placed
      <4> QED
        BY <2>1, <3>1, <3>2, <3>3 DEF Done
    <3> HIDE DEF Done
    <3> QED
      BY <1>5, <2>1, <3>1, <3>4 DEF StillInv, WithKey
  <2>4. CASE Publish
    <3>1. /\ run' = NoRun /\ pc' = "idle" /\ pc = "publish"
          /\ bao' = (IF spec.publish THEN run.key ELSE bao)
          /\ UNCHANGED <<major, keys, file, analytics, apps, integration, board, settings, spec>>
      BY <2>4 DEF Publish, homarr
    <3>2. bao' = bao
      BY <2>1, <3>1 DEF Done
    <3>3. Done'
      BY <2>1, <3>1, <3>2, DoneFrame
    <3>4. ~run'.changed
      BY <3>1 DEF NoRun
    <3> HIDE DEF Done
    <3> QED
      BY <3>1, <3>3, <3>4 DEF StillInv
  <2>5. ~(ReadStep \/ Claim \/ ClaimRefused \/ Advance \/ Walk \/ Walked \/ WalkedPast \/ InitUser \/ CompleteSetup
          \/ Login \/ ResetPassword \/ NobodyToReset \/ LoginAgain \/ LoginStillFails \/ Mint)
    BY <2>1 DEF WithKey, ReadStep, Claim, ClaimRefused, Advance, Walk, Walked, WalkedPast, InitUser, CompleteSetup,
       Login, ResetPassword, NobodyToReset, LoginAgain, LoginStillFails, Mint
  <2> QED
    BY <1>5, <2>2, <2>3, <2>4, <2>5, StillRows, StillBoard DEF Converger
<1> QED
  BY <1>1, <1>2, <1>3, <1>4, <1>5 DEF Next, Outside

\* A run right after an undisturbed one finds a key that Homarr accepts, changes
\* nothing and mints nothing: unless rows share a URL, or the integration has a
\* kind that Homarr does not change, or OpenBao has a stale key that the role does
\* not replace.
THEOREM RerunsAreIdle == Spec => []RerunChangesNothing
<1>1. Init => StageInv /\ StillInv /\ MintedOK
  BY DEF Init, StageInv, StillInv, WithKey, MintedOK, NoRun
<1>2. StillInv => RerunChangesNothing
  BY DEF StillInv, RerunChangesNothing, Quiet
<1> QED
  BY <1>1, <1>2, InvInit, InvNext, StageNext, MintedNext, StillNext, PTL DEF Spec

-----------------------------------------------------------------------------
(* Packing: every list of boxes, every number of columns *)

\* A nonempty set of numbers has a smallest one.
LEMMA SmallestNumber ==
    ASSUME NEW T, T \subseteq Nat, T # {}
    PROVE  \E n \in T : \A m \in T : n <= m
<1>1. PICK n \in T : \A m \in T : <<m, n>> \notin OpToRel(<, Nat)
  BY WFMin, NatLessThanWellFounded, Zenon
<1>2. \A m \in T : ~(m < n)
  BY <1>1, Zenon DEF OpToRel
<1> QED
  BY <1>2

\* s is where pack stands after each of the first n boxes.
IsCursor(s, n, sizes, columns) ==
    s = [i \in 0 .. n |-> IF i = 0 THEN Origin ELSE Behind(s[i - 1], sizes[i], columns)]

LEMMA CursorExists ==
    ASSUME NEW sizes, NEW columns, NEW n \in Nat
    PROVE  \E s : IsCursor(s, n, sizes, columns)
<1> DEFINE Bad == {m \in 0 .. n : ~\E s : IsCursor(s, m, sizes, columns)}
<1> SUFFICES ASSUME Bad # {} PROVE FALSE
  OBVIOUS
<1>0. Bad \subseteq Nat
  OBVIOUS
<1>1. PICK m \in Bad : \A l \in Bad : m <= l
  BY <1>0, SmallestNumber
<1>2. CASE m = 0
  <2>1. IsCursor([i \in 0 .. 0 |-> Origin], 0, sizes, columns)
    BY DEF IsCursor
  <2> QED
    BY <1>1, <1>2, <2>1
<1>3. CASE m # 0
  <2>1. m \in 1 .. n /\ m - 1 \in 0 .. n /\ m - 1 \notin Bad
    BY <1>1, <1>3
  <2>2. PICK s : IsCursor(s, m - 1, sizes, columns)
    BY <2>1
  <2> DEFINE t == [i \in 0 .. m |->
                     IF i = m THEN Behind(s[m - 1], sizes[m], columns) ELSE s[i]]
             u == [i \in 0 .. m |->
                     IF i = 0 THEN Origin ELSE Behind(t[i - 1], sizes[i], columns)]
  <2>3. \A i \in 0 .. m : t[i] = u[i]
    <3> SUFFICES ASSUME NEW i \in 0 .. m PROVE t[i] = u[i]
      OBVIOUS
    <3>0. \A k \in 0 .. m - 1 :
            s[k] = IF k = 0 THEN Origin ELSE Behind(s[k - 1], sizes[k], columns)
      BY <2>2 DEF IsCursor
    <3>1. CASE i = m
      <4>1. t[i - 1] = s[m - 1]
        BY <2>1, <3>1
      <4> QED
        BY <2>1, <3>1, <4>1
    <3>2. CASE i # m /\ i # 0
      <4>1. t[i] = s[i] /\ t[i - 1] = s[i - 1] /\ i \in 0 .. m - 1
        BY <2>1, <3>2
      <4> QED
        BY <3>0, <3>2, <4>1
    <3>3. CASE i # m /\ i = 0
      BY <2>1, <3>0, <3>3
    <3> QED
      BY <3>1, <3>2, <3>3
  <2>4. t = u
    BY <2>3
  <2>5. IsCursor(t, m, sizes, columns)
    <3> HIDE DEF t
    <3> QED
      BY <2>4 DEF IsCursor
  <2> QED
    BY <1>1, <2>5
<1> QED
  BY <1>2, <1>3

\* The loop: at the origin before the first box, and then behind the last one.
LEMMA CursorSteps ==
    ASSUME NEW sizes, NEW columns, Len(sizes) \in Nat
    PROVE  /\ Cursor(sizes, columns)[0] = Origin
           /\ \A i \in 1 .. Len(sizes) : Cursor(sizes, columns)[i] =
                Behind(Cursor(sizes, columns)[i - 1], sizes[i], columns)
<1> DEFINE n == Len(sizes)
           cursor == CHOOSE s : s = [i \in 0 .. n |->
                       IF i = 0 THEN Origin ELSE Behind(s[i - 1], sizes[i], columns)]
<1>1. PICK t : IsCursor(t, n, sizes, columns)
  BY CursorExists
<1>2. cursor = [i \in 0 .. n |->
                  IF i = 0 THEN Origin ELSE Behind(cursor[i - 1], sizes[i], columns)]
  BY <1>1 DEF IsCursor
<1>3. Cursor(sizes, columns) = cursor
  BY DEF Cursor
<1> HIDE DEF cursor
<1> QED
  BY <1>2, <1>3

\* What min(width, columns) gives.
LEMMA WidthIsNat ==
    ASSUME NEW sizes \in Seq(Nat \X Nat), NEW columns \in Nat, NEW j \in 1 .. Len(sizes)
    PROVE  /\ sizes[j][1] \in Nat /\ sizes[j][2] \in Nat
           /\ MinOf(sizes[j][1], columns) \in Nat
           /\ MinOf(sizes[j][1], columns) <= columns
<1>1. sizes[j] \in Nat \X Nat
  OBVIOUS
<1>2. sizes[j][1] \in Nat /\ sizes[j][2] \in Nat
  BY <1>1
<1> QED
  BY <1>2 DEF MinOf

\* After i boxes the next one has room on the shelf, or begins a new one; each
\* earlier box lies above the shelf, or on it and left of the cursor.
Standing(c, i, sizes, columns) ==
    /\ c[i].x \in Nat /\ c[i].y \in Nat /\ c[i].shelf \in Nat /\ c[i].x <= columns
    /\ c[i].at[1] \in Nat /\ c[i].at[2] \in Nat
    /\ \A j \in 1 .. i :
         LET right == c[j].at[1] + MinOf(sizes[j][1], columns)
             below == c[j].at[2] + sizes[j][2]
         IN  /\ right <= columns
             /\ \/ below <= c[i].y
                \/ c[j].at[2] = c[i].y /\ sizes[j][2] <= c[i].shelf /\ right <= c[i].x
\* A box is right of every earlier one, or below it.
Apart(c, i, sizes, columns) ==
    \A j \in 1 .. i - 1 :
      \/ c[j].at[1] + MinOf(sizes[j][1], columns) <= c[i].at[1]
      \/ c[j].at[2] + sizes[j][2] <= c[i].at[2]

LEMMA OneBoxMore ==
    ASSUME NEW sizes \in Seq(Nat \X Nat), NEW columns \in Nat, NEW c, NEW i \in 1 .. Len(sizes),
           c[i] = Behind(c[i - 1], sizes[i], columns), Standing(c, i - 1, sizes, columns),
           \A j \in 1 .. i - 1 : c[j].at[1] \in Nat /\ c[j].at[2] \in Nat
    PROVE  Standing(c, i, sizes, columns) /\ Apart(c, i, sizes, columns)
<1> DEFINE width == MinOf(sizes[i][1], columns)
           height == sizes[i][2]
           x == c[i - 1].x
           y == c[i - 1].y
           shelf == c[i - 1].shelf
           new == Wraps(x, width, columns)
           atx == c[i].at[1]
           aty == c[i].at[2]
           nx == c[i].x
           ny == c[i].y
           nshelf == c[i].shelf
<1>1. \A j \in 1 .. Len(sizes) : /\ sizes[j][1] \in Nat /\ sizes[j][2] \in Nat
                                /\ MinOf(sizes[j][1], columns) \in Nat
                                /\ MinOf(sizes[j][1], columns) <= columns
  BY WidthIsNat
<1>2. x \in Nat /\ y \in Nat /\ shelf \in Nat /\ x <= columns
  BY DEF Standing
<1>3. /\ atx = IF new THEN 0 ELSE x
      /\ aty = IF new THEN y + shelf ELSE y
      /\ nx = (IF new THEN 0 ELSE x) + width
      /\ ny = IF new THEN y + shelf ELSE y
      /\ nshelf = IF (IF new THEN 0 ELSE shelf) > height THEN IF new THEN 0 ELSE shelf ELSE height
  BY DEF Behind, MaxOf
<1>4. width \in Nat /\ width <= columns /\ height \in Nat
  BY <1>1
<1>5. new <=> x + width > columns
  BY DEF Wraps
<1> HIDE DEF width, height, x, y, shelf, new, atx, aty, nx, ny, nshelf
<1>6. /\ nx \in Nat /\ ny \in Nat /\ nshelf \in Nat /\ nx <= columns
      /\ atx \in Nat /\ aty \in Nat /\ nshelf >= height /\ (~new => nshelf >= shelf)
      /\ atx + width <= columns /\ aty = ny /\ atx + width <= nx
  <2>1. CASE new
    BY <1>2, <1>3, <1>4, <2>1
  <2>2. CASE ~new
    BY <1>2, <1>3, <1>4, <1>5, <2>2
  <2> QED
    BY <2>1, <2>2
<1>7. ASSUME NEW j \in 1 .. i - 1
      PROVE  LET right == c[j].at[1] + MinOf(sizes[j][1], columns)
                 below == c[j].at[2] + sizes[j][2]
             IN  /\ right <= columns
                 /\ \/ below <= ny
                    \/ /\ c[j].at[2] = ny /\ sizes[j][2] <= nshelf
                       /\ right <= nx /\ right <= atx
  <2> DEFINE w == MinOf(sizes[j][1], columns)
             h == sizes[j][2]
             px == c[j].at[1]
             py == c[j].at[2]
  <2>0. j \in 1 .. Len(sizes)
    OBVIOUS
  <2>1. w \in Nat /\ h \in Nat
    BY <1>1, <2>0
  <2>2. px \in Nat /\ py \in Nat
    OBVIOUS
  <2>3. px + w <= columns /\ (py + h <= y \/ (py = y /\ h <= shelf /\ px + w <= x))
    BY DEF Standing, x, y, shelf
  <2> HIDE DEF w, h, px, py
  <2>4. CASE new
    <3>1. py + h <= y + shelf
      BY <1>2, <2>1, <2>2, <2>3
    <3> QED
      BY <1>3, <2>3, <2>4, <3>1 DEF w, h, px, py
  <2>5. CASE ~new
    <3>1. ny = y /\ atx = x /\ nx = x + width
      BY <1>3, <2>5
    <3>2. CASE py + h <= y
      BY <2>3, <3>1, <3>2 DEF w, h, px, py
    <3>3. CASE py = y /\ h <= shelf /\ px + w <= x
      <4>1. h <= nshelf /\ px + w <= nx
        BY <1>2, <1>4, <1>6, <2>1, <2>2, <2>5, <3>1, <3>3
      <4> QED
        BY <2>3, <3>1, <3>3, <4>1 DEF w, h, px, py
    <3> QED
      BY <2>3, <3>2, <3>3
  <2> QED
    BY <2>4, <2>5
<1>8. Standing(c, i, sizes, columns)
  <2>1. \A j \in 1 .. i : j \in 1 .. i - 1 \/ j = i
    OBVIOUS
  <2>2. ASSUME NEW j \in 1 .. i
        PROVE  LET right == c[j].at[1] + MinOf(sizes[j][1], columns)
                   below == c[j].at[2] + sizes[j][2]
               IN  /\ right <= columns
                   /\ \/ below <= ny
                      \/ c[j].at[2] = ny /\ sizes[j][2] <= nshelf /\ right <= nx
    <3>1. CASE j \in 1 .. i - 1
      BY <1>7, <3>1
    <3>2. CASE j = i
      <4>1. height <= nshelf
        BY <1>4, <1>6
      <4> QED
        BY <1>6, <3>2, <4>1 DEF width, height, atx, aty
    <3> QED
      BY <2>1, <3>1, <3>2
  <2> QED
    BY <1>6, <2>2 DEF Standing, nx, ny, nshelf, atx, aty
<1>9. Apart(c, i, sizes, columns)
  BY <1>6, <1>7 DEF Apart, atx, aty
<1> QED
  BY <1>8, <1>9

LEMMA AllPlaced ==
    ASSUME NEW sizes \in Seq(Nat \X Nat), NEW columns \in Nat, NEW c, c[0] = Origin,
           \A i \in 1 .. Len(sizes) : c[i] = Behind(c[i - 1], sizes[i], columns)
    PROVE  \A i \in 1 .. Len(sizes) : Standing(c, i, sizes, columns) /\ Apart(c, i, sizes, columns)
<1> DEFINE Good(i) == Standing(c, i, sizes, columns)
           Bad == {i \in 0 .. Len(sizes) : ~Good(i)}
<1>1. Good(0)
  BY DEF Standing, Origin
<1>2. ASSUME NEW i \in 1 .. Len(sizes), \A j \in 0 .. i - 1 : Good(j)
      PROVE  Good(i) /\ Apart(c, i, sizes, columns)
  <2>1. \A j \in 1 .. i - 1 : c[j].at[1] \in Nat /\ c[j].at[2] \in Nat
    BY <1>2 DEF Standing
  <2>2. i - 1 \in 0 .. i - 1
    OBVIOUS
  <2> QED
    BY <1>2, <2>1, <2>2, OneBoxMore
<1>3. Bad = {}
  <2> SUFFICES ASSUME Bad # {} PROVE FALSE
    OBVIOUS
  <2>0. Bad \subseteq Nat
    OBVIOUS
  <2>1. PICK i \in Bad : \A j \in Bad : i <= j
    BY <2>0, SmallestNumber
  <2> HIDE DEF Good
  <2>2. i \in 1 .. Len(sizes)
    BY <1>1, <2>1
  <2>3. \A j \in 0 .. i - 1 : Good(j)
    BY <2>1, <2>2
  <2> QED
    BY <1>2, <2>1, <2>2, <2>3
<1>4. \A i \in 0 .. Len(sizes) : Good(i)
  BY <1>3
<1> SUFFICES ASSUME NEW i \in 1 .. Len(sizes) PROVE Good(i) /\ Apart(c, i, sizes, columns)
  OBVIOUS
<1>5. \A j \in 0 .. i - 1 : Good(j)
  BY <1>4
<1> QED
  BY <1>2, <1>5

\* pack keeps every box inside the columns and off every other one.
LEMMA PackFits ==
    ASSUME NEW sizes \in Seq(Nat \X Nat), NEW columns \in Nat
    PROVE  FitIn(sizes, columns)
<1> DEFINE c == Cursor(sizes, columns)
           at == Pack(sizes, columns)
           cells == [i \in DOMAIN sizes |-> Cells(at[i], sizes[i], columns)]
<1>1. \A i \in 1 .. Len(sizes) : Standing(c, i, sizes, columns) /\ Apart(c, i, sizes, columns)
  <2>1. c[0] = Origin
          /\ \A i \in 1 .. Len(sizes) : c[i] = Behind(c[i - 1], sizes[i], columns)
    BY CursorSteps
  <2> HIDE DEF c
  <2> QED
    BY <2>1, AllPlaced
<1>2. DOMAIN sizes = 1 .. Len(sizes)
  OBVIOUS
<1>3. \A i \in DOMAIN sizes : at[i] = c[i].at /\ cells[i] = Cells(c[i].at, sizes[i], columns)
  BY <1>2 DEF Pack
<1> HIDE DEF c, at, cells
<1>4. ASSUME NEW i \in DOMAIN sizes
      PROVE  /\ c[i].at[1] \in Nat /\ c[i].at[2] \in Nat
             /\ c[i].at[1] + MinOf(sizes[i][1], columns) <= columns
  <2>1. i \in 1 .. Len(sizes) /\ i \in 1 .. i
    BY <1>2
  <2>2. Standing(c, i, sizes, columns)
    BY <1>1, <2>1
  <2> QED
    BY <2>1, <2>2 DEF Standing
<1>5. ASSUME NEW i \in DOMAIN sizes, NEW p \in cells[i]
      PROVE  /\ p[1] \in Int /\ p[2] \in Int /\ p[1] < columns
             /\ c[i].at[1] <= p[1] /\ p[1] < c[i].at[1] + MinOf(sizes[i][1], columns)
             /\ c[i].at[2] <= p[2] /\ p[2] < c[i].at[2] + sizes[i][2]
  <2> DEFINE w == MinOf(sizes[i][1], columns)
             h == sizes[i][2]
  <2>1. PICK k \in 0 .. w - 1, l \in 0 .. h - 1 : p = <<c[i].at[1] + k, c[i].at[2] + l>>
    BY <1>3 DEF Cells
  <2> DEFINE x == c[i].at[1]
             y == c[i].at[2]
  <2>2. x \in Nat /\ y \in Nat /\ x + w <= columns
    BY <1>4
  <2>3. w \in Nat /\ h \in Nat
    BY <1>2, WidthIsNat
  <2>4. p[1] = x + k /\ p[2] = y + l
    BY <2>1
  <2> HIDE DEF w, h, x, y
  <2>5. /\ x + k \in Int /\ y + l \in Int /\ x + k < columns
        /\ x <= x + k /\ x + k < x + w
        /\ y <= y + l /\ y + l < y + h
    BY <2>2, <2>3
  <2> QED
    BY <2>4, <2>5 DEF w, h, x, y
<1>6. ASSUME NEW i \in DOMAIN sizes, NEW j \in DOMAIN sizes, j < i
      PROVE  cells[i] \cap cells[j] = {}
  <2> SUFFICES ASSUME NEW p \in cells[i], p \in cells[j] PROVE FALSE
    OBVIOUS
  <2> DEFINE w == MinOf(sizes[j][1], columns)
             h == sizes[j][2]
             ix == c[i].at[1]
             iy == c[i].at[2]
             jx == c[j].at[1]
             jy == c[j].at[2]
             px == p[1]
             py == p[2]
  <2>1. i \in 1 .. Len(sizes) /\ j \in 1 .. i - 1 /\ j \in 1 .. Len(sizes)
    BY <1>2, <1>6
  <2>2. jx + w <= ix \/ jy + h <= iy
    BY <1>1, <2>1 DEF Apart
  <2>3. ix \in Nat /\ iy \in Nat /\ jx \in Nat /\ jy \in Nat
    BY <1>4
  <2>4. w \in Nat /\ h \in Nat
    BY <2>1, WidthIsNat
  <2>5. /\ px \in Int /\ py \in Int /\ ix <= px /\ iy <= py
        /\ px < jx + w /\ py < jy + h
    BY <1>5
  <2> HIDE DEF w, h, ix, iy, jx, jy, px, py
  <2> QED
    BY <2>2, <2>3, <2>4, <2>5
<1>7. \A i \in DOMAIN sizes : \A p \in cells[i] : p[1] < columns
  BY <1>5
<1>8. ASSUME NEW i \in DOMAIN sizes, NEW j \in DOMAIN sizes, i # j
      PROVE  cells[i] \cap cells[j] = {}
  <2>1. i < j \/ j < i
    BY <1>2, <1>8
  <2> QED
    BY <1>6, <2>1
<1> QED
  BY <1>7, <1>8 DEF FitIn, at, cells

\* Whatever the widgets and the layout, a board is saved with every widget inside
\* the columns and no two overlapping.
THEOREM BoardsFit == Spec => []BoxesFit
<1>1. BoxesFit
  BY HomarrAssumption, PackFits DEF BoxesFit, AllFit
<1> QED
  BY <1>1, PTL
=============================================================================
