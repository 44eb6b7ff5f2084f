----------------------- MODULE MoleculeSelectionProofs -----------------------
(***************************************************************************)
(* Theorems about MoleculeSelection, for every set of roles and scenarios, *)
(* every tree and any number of edits.                                     *)
(***************************************************************************)
EXTENDS MoleculeSelection, TLAPS

-----------------------------------------------------------------------------
(* Type correctness *)

LEMMA DirectType ==
    ASSUME NEW t \in Tree, NEW s \in Scenarios
    PROVE  Direct(t, s) \subseteq t.roles /\ t.roles \subseteq Roles
BY DEF Direct, Tree

LEMMA DepsType ==
    ASSUME NEW t \in Tree, NEW r
    PROVE  Deps(t, r) \subseteq t.roles /\ t.roles \subseteq Roles
BY DEF Deps, Tree

LEMMA ConcernedType ==
    ASSUME TypeOK
    PROVE  Concerned \subseteq Scenarios
BY DefaultAssumption DEF TypeOK, Concerned, Tree

LEMMA TypeInit == Init => TypeOK
<1> SUFFICES ASSUME Init PROVE TypeOK
  OBVIOUS
<1>1. base \in Tree /\ head \in Tree /\ edits \in 0..MaxEdits
  BY TreesAssumption, BoundAssumption DEF Init
<1>2. mapping \in [Scenarios -> SUBSET Roles]
  BY DEF Init
<1> QED
  BY <1>1, <1>2 DEF Init, TypeOK, Events

\* What an edit leaves alone.
LEMMA EditedType ==
    ASSUME TypeOK, Edited, head' \in Tree, roleDirs' \subseteq Roles, molDirs' \subseteq Scenarios,
           lost' \subseteq Roles, shared' \in BOOLEAN, harness' \in BOOLEAN
    PROVE  TypeOK'
BY BoundAssumption DEF TypeOK, Edited, work

LEMMA EditTypes ==
    ASSUME TypeOK
    PROVE  /\ \A r \in Roles, deps \in SUBSET Roles : EditRole(r, deps) => TypeOK'
           /\ \A r \in Roles : DeleteRole(r) => TypeOK'
           /\ \A from, to \in Roles, deps \in SUBSET Roles, all \in BOOLEAN :
                MoveFiles(from, to, deps, all) => TypeOK'
           /\ \A s, other \in Scenarios, roles \in SUBSET Roles :
                EditScenario(s, roles, other) => TypeOK'
           /\ \A s \in Scenarios : DeleteScenario(s) => TypeOK'
           /\ TouchShared \/ TouchHarness => TypeOK'
<1> USE DEF TypeOK, Tree
<1>1. ASSUME NEW r \in Roles, NEW deps \in SUBSET Roles, EditRole(r, deps) PROVE TypeOK'
  <2>1. head' \in Tree
    BY <1>1 DEF EditRole
  <2> QED
    BY <1>1, <2>1, EditedType DEF EditRole
<1>2. ASSUME NEW r \in Roles, DeleteRole(r) PROVE TypeOK'
  <2>1. head' \in Tree
    BY <1>2 DEF DeleteRole
  <2> QED
    BY <1>2, <2>1, EditedType DEF DeleteRole
<1>3. ASSUME NEW from \in Roles, NEW to \in Roles, NEW deps \in SUBSET Roles, NEW all \in BOOLEAN,
             MoveFiles(from, to, deps, all)
      PROVE  TypeOK'
  <2> DEFINE kept == IF all THEN head.roles \ {from} ELSE head.roles
             refs1 == [head.refs EXCEPT ![from] = @ \ deps]
             refs2 == [refs1 EXCEPT ![to] = @ \cup deps]
  <2>1. kept \cup {to} \in SUBSET Roles
    OBVIOUS
  <2>2. refs2 \in [Roles -> SUBSET Roles]
    <3>1. refs1 \in [Roles -> SUBSET Roles]
      OBVIOUS
    <3> HIDE DEF refs1
    <3> QED
      BY <3>1
  <2>3. head' = [head EXCEPT !.roles = kept \cup {to}, !.refs = refs2]
    BY <1>3 DEF MoveFiles
  <2>4. head' \in Tree
    <3> HIDE DEF kept, refs2
    <3> QED
      BY <2>1, <2>2, <2>3
  <2> QED
    BY <1>3, <2>4, EditedType DEF MoveFiles
<1>4. ASSUME NEW s \in Scenarios, NEW other \in Scenarios, NEW roles \in SUBSET Roles,
             EditScenario(s, roles, other)
      PROVE  TypeOK'
  <2>1. head' \in Tree
    BY <1>4 DEF EditScenario
  <2> QED
    BY <1>4, <2>1, EditedType DEF EditScenario
<1>5. ASSUME NEW s \in Scenarios, DeleteScenario(s) PROVE TypeOK'
  <2>1. head' \in Tree
    BY <1>5 DEF DeleteScenario
  <2> QED
    BY <1>5, <2>1, EditedType DEF DeleteScenario
<1>6. ASSUME TouchShared \/ TouchHarness PROVE TypeOK'
  BY <1>6, EditedType DEF TouchShared, TouchHarness
<1> QED
  BY <1>1, <1>2, <1>3, <1>4, <1>5, <1>6

LEMMA AuthorType == TypeOK /\ Author => TypeOK'
<1> SUFFICES ASSUME TypeOK, Author PROVE TypeOK'
  OBVIOUS
<1>1. CASE Merge \/ PushAgain
  BY <1>1 DEF Merge, PushAgain, TypeOK, tree, work
<1> QED
  BY <1>1, EditTypes DEF Author

LEMMA SelectorType == TypeOK /\ Selector => TypeOK'
<1> SUFFICES ASSUME TypeOK, Selector PROVE TypeOK'
  OBVIOUS
<1>1. ASSUME NEW S \in SUBSET Scenarios, Emit(S) PROVE TypeOK'
  BY <1>1 DEF Emit, TypeOK, tree, work
<1>2. head.scenarios \subseteq Scenarios
  BY DEF TypeOK, Tree
<1>3. CASE RunAll \/ RunSmoke \/ RunUnrecognised \/ RunChanged \/ RunConcerned
  <2>1. molDirs \cup {Default} \subseteq Scenarios
    BY DefaultAssumption DEF TypeOK
  <2> QED
    BY <1>1, <1>2, <1>3, <2>1, ConcernedType, DefaultAssumption
    DEF RunAll, RunSmoke, RunUnrecognised, RunChanged, RunConcerned
<1>4. CASE StartMapping
  BY <1>2, <1>4 DEF StartMapping, TypeOK, tree
<1>5. CASE Mapped
  BY <1>5, NoneAssumption DEF Mapped, TypeOK, tree
<1>6. CASE ReadScenario
  <2>1. cur' \in todo /\ cur' \in Scenarios
    BY <1>6 DEF ReadScenario, TypeOK
  <2>2. Direct(head, cur') \subseteq Roles
    BY <2>1, DirectType DEF TypeOK
  <2> QED
    BY <1>6, <2>1, <2>2 DEF ReadScenario, TypeOK, tree
<1>7. ASSUME NEW r \in Roles, ReadRole(r) PROVE TypeOK'
  <2>1. Deps(head, r) \subseteq Roles
    BY DepsType DEF TypeOK
  <2> QED
    BY <1>7, <2>1 DEF ReadRole, TypeOK, tree
<1> QED
  BY <1>3, <1>4, <1>5, <1>6, <1>7 DEF Selector

LEMMA TypeNext == TypeOK /\ [Next]_vars => TypeOK'
<1> SUFFICES ASSUME TypeOK, [Next]_vars PROVE TypeOK'
  OBVIOUS
<1>1. CASE UNCHANGED vars
  BY <1>1 DEF vars, tree, work, TypeOK
<1>2. ASSUME NEW e \in Events, Select(e) PROVE TypeOK'
  BY <1>2 DEF Select, TypeOK, tree
<1> QED
  BY <1>1, <1>2, AuthorType, SelectorType DEF Next

\* The names the selector handles are names, and its work list is part of the
\* closure it builds.
THEOREM TypeCorrect == Spec => []TypeOK
BY TypeInit, TypeNext, PTL DEF Spec

-----------------------------------------------------------------------------
(* Roles exercised: the least set that the closure has to reach *)

\* A set of roles that holds those a scenario names, and those they name, holds
\* all that the scenario exercises.
LEMMA ExercisedLeast ==
    ASSUME NEW t \in Tree, NEW s \in Scenarios, NEW R \in SUBSET t.roles,
           Direct(t, s) \subseteq R, ClosedUnder(t, R)
    PROVE  Exercised(t, s) \subseteq R
BY DEF Exercised

\* The roles a scenario exercises are such a set.
LEMMA ExercisedClosed ==
    ASSUME NEW t \in Tree, NEW s \in Scenarios
    PROVE  /\ Exercised(t, s) \subseteq t.roles
           /\ Direct(t, s) \subseteq Exercised(t, s)
           /\ ClosedUnder(t, Exercised(t, s))
<1>1. Direct(t, s) \subseteq Exercised(t, s)
  BY DirectType DEF Exercised
<1>2. ASSUME NEW r \in Exercised(t, s), NEW d \in Deps(t, r) PROVE d \in Exercised(t, s)
  <2>1. d \in t.roles
    BY <1>2, DepsType
  <2>2. ASSUME NEW R \in SUBSET t.roles, Direct(t, s) \subseteq R, ClosedUnder(t, R) PROVE d \in R
    <3>1. r \in R
      BY <1>2, <2>2 DEF Exercised
    <3> QED
      BY <1>2, <2>2, <3>1 DEF ClosedUnder
  <2> QED
    BY <2>1, <2>2 DEF Exercised
<1> QED
  BY <1>1, <1>2 DEF ClosedUnder, Exercised

-----------------------------------------------------------------------------
(* The work list *)

\* While a scenario is closed: what it exercises is never left, and every role
\* in the closure was read or is pending.
InClosure ==
    cur # None =>
      /\ pc = "mapping" /\ cur \in todo /\ cur \in head.scenarios
      /\ Direct(head, cur) \subseteq closed
      /\ closed \subseteq Exercised(head, cur)
      /\ \A r \in closed \ pending : Deps(head, r) \subseteq closed

ClosureInv ==
    /\ InClosure
    /\ pc = "mapping" => todo \subseteq head.scenarios
    /\ ClosureIsExact

LEMMA ClosureInit == Init => ClosureInv
BY DEF Init, ClosureInv, InClosure, ClosureIsExact

LEMMA ClosureRead ==
    TypeOK /\ ClosureInv /\ ReadScenario => ClosureInv'
<1> SUFFICES ASSUME TypeOK, ClosureInv, ReadScenario PROVE ClosureInv'
  OBVIOUS
<1>1. /\ cur' \in todo /\ cur' \in head.scenarios /\ cur' \in Scenarios /\ pc = "mapping"
      /\ UNCHANGED <<head, pc, todo, mapping>>
      /\ closed' = Direct(head, cur') /\ pending' = Direct(head, cur')
  BY DEF ReadScenario, ClosureInv, TypeOK, tree
<1>2. Direct(head, cur') \subseteq Exercised(head, cur')
  BY <1>1, ExercisedClosed DEF TypeOK
<1>3. InClosure'
  BY <1>1, <1>2 DEF InClosure
<1>4. ClosureIsExact'
  BY <1>1 DEF ClosureInv, ClosureIsExact, Exercised, Direct, ClosedUnder, Deps
<1> QED
  BY <1>1, <1>3, <1>4 DEF ClosureInv

LEMMA ClosureReadRole ==
    ASSUME TypeOK, ClosureInv, NEW r \in Roles, ReadRole(r)
    PROVE  ClosureInv'
<1>1. /\ cur # None /\ r \in pending /\ UNCHANGED <<head, pc, todo, cur, mapping>>
      /\ closed' = closed \cup Deps(head, r)
      /\ pending' = (pending \ {r}) \cup (Deps(head, r) \ closed)
  BY DEF ReadRole, tree
<1>2. r \in closed /\ cur \in Scenarios /\ head \in Tree
  BY <1>1 DEF TypeOK
<1>3. closed \subseteq Exercised(head, cur)
  BY <1>1 DEF ClosureInv, InClosure
<1>4. Deps(head, r) \subseteq Exercised(head, cur)
  BY <1>2, <1>3, ExercisedClosed DEF ClosedUnder
<1>5. \A q \in closed' \ pending' : Deps(head, q) \subseteq closed'
  BY <1>1 DEF ClosureInv, InClosure
<1>6. InClosure'
  <2>1. /\ pc' = "mapping" /\ cur' \in todo' /\ cur' \in head'.scenarios
        /\ Direct(head, cur) \subseteq closed'
    BY <1>1 DEF ClosureInv, InClosure
  <2> QED
    BY <1>1, <1>3, <1>4, <1>5, <2>1 DEF InClosure
<1>7. ClosureIsExact'
  BY <1>1 DEF ClosureInv, ClosureIsExact, Exercised, Direct, ClosedUnder, Deps
<1> QED
  BY <1>1, <1>6, <1>7 DEF ClosureInv

\* With nothing pending the closure is closed, so it is all the scenario exercises.
LEMMA ClosureMapped ==
    TypeOK /\ ClosureInv /\ Mapped => ClosureInv'
<1> SUFFICES ASSUME TypeOK, ClosureInv, Mapped PROVE ClosureInv'
  OBVIOUS
<1>1. /\ cur # None /\ pending = {} /\ UNCHANGED <<head, pc>>
      /\ mapping' = [mapping EXCEPT ![cur] = closed]
      /\ todo' = todo \ {cur} /\ cur' = None /\ cur \in Scenarios
  BY DEF Mapped, tree, TypeOK
<1>2. closed = Exercised(head, cur)
  <2>1. closed \subseteq Exercised(head, cur) /\ closed \subseteq head.roles
    BY <1>1, ExercisedClosed DEF ClosureInv, InClosure, TypeOK
  <2>2. ClosedUnder(head, closed) /\ Direct(head, cur) \subseteq closed
    BY <1>1 DEF ClosureInv, InClosure, ClosedUnder
  <2>3. Exercised(head, cur) \subseteq closed
    BY <1>1, <2>1, <2>2, ExercisedLeast DEF TypeOK
  <2> QED
    BY <2>1, <2>3
<1>3. ASSUME NEW s \in head.scenarios \ todo' PROVE mapping'[s] = Exercised(head, s)
  <2>1. s \in Scenarios /\ pc = "mapping"
    BY <1>1 DEF TypeOK, Tree, ClosureInv, InClosure
  <2>2. CASE s = cur
    BY <1>1, <1>2, <2>2 DEF TypeOK
  <2>3. CASE s # cur
    <3>1. mapping'[s] = mapping[s] /\ s \notin todo
      BY <1>1, <1>3, <2>1, <2>3 DEF TypeOK
    <3> QED
      BY <2>1, <3>1 DEF ClosureInv, ClosureIsExact
  <2> QED
    BY <2>2, <2>3
<1>4. ClosureIsExact'
  BY <1>1, <1>3 DEF ClosureIsExact, Exercised, Direct, ClosedUnder, Deps
<1> QED
  BY <1>1, <1>4 DEF ClosureInv, InClosure

LEMMA ClosureNext == TypeOK /\ ClosureInv /\ [Next]_vars => ClosureInv'
<1> SUFFICES ASSUME TypeOK, ClosureInv, [Next]_vars PROVE ClosureInv'
  OBVIOUS
<1> USE DEF ClosureInv
<1>1. CASE UNCHANGED vars
  BY <1>1 DEF vars, tree, work, InClosure, ClosureIsExact, Exercised, Direct, ClosedUnder, Deps
<1>2. ASSUME pc # "mapping", pc' # "mapping", cur' = cur \/ cur' = None PROVE ClosureInv'
  BY <1>2 DEF InClosure, ClosureIsExact
<1>3. CASE Author
  <2>1. pc # "mapping" /\ pc' # "mapping" /\ cur' = cur
    BY <1>3 DEF Author, EditRole, DeleteRole, MoveFiles, EditScenario, DeleteScenario,
                TouchShared, TouchHarness, Merge, PushAgain, Edited, work
  <2> QED
    BY <1>2, <2>1
<1>4. ASSUME NEW e \in Events, Select(e) PROVE ClosureInv'
  BY <1>2, <1>4 DEF Select
<1>5. CASE RunAll \/ RunSmoke \/ RunUnrecognised \/ RunChanged
  BY <1>2, <1>5 DEF RunAll, RunSmoke, RunUnrecognised, RunChanged, Narrow, Emit, work
<1>6. CASE RunConcerned
  BY <1>6 DEF RunConcerned, Emit, work, InClosure, ClosureIsExact
<1>7. CASE StartMapping
  BY <1>7 DEF StartMapping, Narrow, tree, InClosure, ClosureIsExact
<1> QED
  BY <1>1, <1>3, <1>4, <1>5, <1>6, <1>7, ClosureRead, ClosureReadRole, ClosureMapped
  DEF Next, Selector

\* The closure of a scenario is the least fixed point, in whatever order its
\* work list is emptied.
THEOREM ExactClosure == Spec => []ClosureIsExact
<1>1. ClosureInv => ClosureIsExact
  BY DEF ClosureInv
<1> QED
  BY <1>1, TypeInit, TypeNext, ClosureInit, ClosureNext, PTL DEF Spec

-----------------------------------------------------------------------------
(* What is left out *)

\* What the listing does not name is as it was.
Tracked ==
    /\ \A r \in Roles : r \notin roleDirs /\ r \notin lost =>
          (r \in base.roles <=> r \in head.roles) /\ base.refs[r] = head.refs[r]
    /\ \A s \in Scenarios : s \notin molDirs =>
          /\ s \in base.scenarios <=> s \in head.scenarios
          /\ base.uses[s] = head.uses[s] /\ base.reuses[s] = head.reuses[s]

\* An answer is all scenarios, the smoke scenario, or a narrowed selection.
Answer ==
    /\ pc = "mapping" => ~Unrecognised
    /\ pc = "done" =>
          \/ chosen = head.scenarios
          \/ harness /\ chosen = {Default}
          \/ /\ ~Unrecognised /\ molDirs \cup {Default} \subseteq chosen
             /\ chosen \subseteq head.scenarios \cup {Default}
             /\ \A s \in head.scenarios \ chosen : Exercised(head, s) \cap roleDirs = {}

LEMMA TrackedInit == Init => Tracked
BY DEF Init, Tracked

LEMMA TrackedEdit ==
    ASSUME TypeOK, Tracked
    PROVE  /\ \A r \in Roles, deps \in SUBSET Roles : EditRole(r, deps) => Tracked'
           /\ \A r \in Roles : DeleteRole(r) => Tracked'
           /\ \A from, to \in Roles, deps \in SUBSET Roles, all \in BOOLEAN :
                MoveFiles(from, to, deps, all) => Tracked'
           /\ \A s, other \in Scenarios, roles \in SUBSET Roles :
                EditScenario(s, roles, other) => Tracked'
           /\ \A s \in Scenarios : DeleteScenario(s) => Tracked'
<1> USE DEF TypeOK, Tree, Tracked, Edited
<1>1. ASSUME NEW r \in Roles, NEW deps \in SUBSET Roles, EditRole(r, deps) PROVE Tracked'
  BY <1>1 DEF EditRole
<1>2. ASSUME NEW r \in Roles, DeleteRole(r) PROVE Tracked'
  BY <1>2 DEF DeleteRole
<1>3. ASSUME NEW from \in Roles, NEW to \in Roles, NEW deps \in SUBSET Roles, NEW all \in BOOLEAN,
             MoveFiles(from, to, deps, all)
      PROVE  Tracked'
  <2>1. /\ roleDirs' = roleDirs \cup {to} /\ lost' = lost \cup {from}
        /\ UNCHANGED <<base, molDirs>>
        /\ head'.scenarios = head.scenarios /\ head'.uses = head.uses /\ head'.reuses = head.reuses
    BY <1>3 DEF MoveFiles
  <2>2. ASSUME NEW r \in Roles, r # from, r # to
        PROVE  (r \in head'.roles <=> r \in head.roles) /\ head'.refs[r] = head.refs[r]
    BY <1>3, <2>2 DEF MoveFiles
  <2> QED
    BY <2>1, <2>2
<1>4. ASSUME NEW s \in Scenarios, NEW other \in Scenarios, NEW roles \in SUBSET Roles,
             EditScenario(s, roles, other)
      PROVE  Tracked'
  BY <1>4 DEF EditScenario
<1>5. ASSUME NEW s \in Scenarios, DeleteScenario(s) PROVE Tracked'
  BY <1>5 DEF DeleteScenario
<1> QED
  BY <1>1, <1>2, <1>3, <1>4, <1>5

LEMMA TrackedNext == TypeOK /\ Tracked /\ [Next]_vars => Tracked'
<1> SUFFICES ASSUME TypeOK, Tracked, [Next]_vars PROVE Tracked'
  OBVIOUS
<1>1. ASSUME UNCHANGED <<base, head, roleDirs, molDirs, lost>> PROVE Tracked'
  BY <1>1 DEF Tracked
<1>2. CASE UNCHANGED vars
  BY <1>1, <1>2 DEF vars, tree
<1>3. ASSUME NEW e \in Events, Select(e) PROVE Tracked'
  BY <1>1, <1>3 DEF Select, tree
<1>4. CASE Selector
  BY <1>1, <1>4 DEF Selector, RunAll, RunSmoke, RunUnrecognised, RunChanged, RunConcerned, Emit,
                    StartMapping, ReadScenario, ReadRole, Mapped, tree
<1>5. CASE Merge
  BY <1>5 DEF Merge, Tracked
<1>6. CASE TouchShared \/ TouchHarness \/ PushAgain
  BY <1>1, <1>6 DEF TouchShared, TouchHarness, PushAgain, Edited, tree
<1> QED
  BY <1>2, <1>3, <1>4, <1>5, <1>6, TrackedEdit DEF Next, Author

LEMMA AnswerNext == TypeOK /\ ClosureInv /\ Answer /\ [Next]_vars => Answer'
<1> SUFFICES ASSUME TypeOK, ClosureInv, Answer, [Next]_vars PROVE Answer'
  OBVIOUS
<1>1. ASSUME pc' \notin {"mapping", "done"} PROVE Answer'
  BY <1>1 DEF Answer
<1>2. ASSUME UNCHANGED <<tree, pc, chosen>> PROVE Answer'
  BY <1>2 DEF Answer, tree, Unrecognised, Exercised, Direct, ClosedUnder, Deps
<1>3. CASE UNCHANGED vars
  BY <1>2, <1>3 DEF vars
<1>4. CASE Author
  BY <1>1, <1>4 DEF Author, EditRole, DeleteRole, MoveFiles, EditScenario, DeleteScenario,
                    TouchShared, TouchHarness, Merge, PushAgain, Edited
<1>5. ASSUME NEW e \in Events, Select(e) PROVE Answer'
  BY <1>1, <1>5 DEF Select
<1>6. CASE RunAll \/ RunUnrecognised
  BY <1>6 DEF RunAll, RunUnrecognised, Emit, Answer, tree
<1>7. CASE RunSmoke
  BY <1>7 DEF RunSmoke, Emit, Answer, tree
<1>8. CASE RunChanged
  <2>1. /\ pc' = "done" /\ chosen' = molDirs \cup {Default} /\ roleDirs = {} /\ ~Unrecognised
        /\ UNCHANGED <<head, roleDirs, molDirs, harness>>
    BY <1>8 DEF RunChanged, Narrow, Emit, tree
  <2> QED
    BY <2>1 DEF Answer, Unrecognised
<1>9. CASE StartMapping
  BY <1>9 DEF StartMapping, Narrow, Answer, Unrecognised, tree
<1>10. CASE ReadScenario \/ Mapped
  BY <1>2, <1>10 DEF ReadScenario, Mapped
<1>11. ASSUME NEW r \in Roles, ReadRole(r) PROVE Answer'
  BY <1>2, <1>11 DEF ReadRole
<1>12. CASE RunConcerned
  <2>1. /\ pc = "mapping" /\ todo = {} /\ pc' = "done" /\ chosen' = Concerned
        /\ UNCHANGED <<head, roleDirs, molDirs, harness>>
    BY <1>12 DEF RunConcerned, Emit, tree
  <2>2. ~Unrecognised
    BY <2>1 DEF Answer
  <2>3. \A s \in head.scenarios : mapping[s] = Exercised(head, s)
    BY <2>1 DEF ClosureInv, ClosureIsExact
  <2>4. \A s \in head.scenarios \ Concerned : Exercised(head, s) \cap roleDirs = {}
    BY <2>3 DEF Concerned
  <2>5. molDirs \cup {Default} \subseteq Concerned /\ Concerned \subseteq head.scenarios \cup {Default}
    BY <2>2 DEF Concerned, Unrecognised
  <2>6. \A s \in head'.scenarios \ chosen' : Exercised(head', s) \cap roleDirs' = {}
    BY <2>1, <2>4
  <2> QED
    BY <2>1, <2>2, <2>5, <2>6 DEF Answer, Unrecognised
<1> QED
  BY <1>3, <1>4, <1>5, <1>6, <1>7, <1>8, <1>9, <1>10, <1>11, <1>12 DEF Next, Selector

\* A scenario that exercises no role the listing names, whose files are as they
\* were, exercised none of them before: the roles it exercises now were closed
\* then, too.
LEMMA NothingBefore ==
    ASSUME TypeOK, Tracked, ~Unrecognised, lost = {},
           NEW s \in Scenarios, s \notin molDirs, head.reuses[s] \cap molDirs = {},
           Exercised(head, s) \cap roleDirs = {}
    PROVE  Exercised(base, s) \cap roleDirs = {}
<1> DEFINE now == Exercised(head, s)
           R == now \cap base.roles
<1>1. head \in Tree /\ base \in Tree
  BY DEF TypeOK
<1>2. /\ now \subseteq head.roles /\ now \subseteq Roles
      /\ Direct(head, s) \subseteq now /\ ClosedUnder(head, now)
  BY <1>1, ExercisedClosed DEF Tree
\* Of the roles there were, none the listing leaves out is gone.
<1>3. base.roles \subseteq head.roles
  BY <1>1 DEF Tracked, Unrecognised, Tree
<1>4. Direct(base, s) \subseteq R
  <2>1. base.uses[s] = head.uses[s] /\ base.reuses[s] = head.reuses[s]
    BY DEF Tracked
  <2>2. head.reuses[s] \subseteq Scenarios
    BY <1>1 DEF Tree
  <2>3. \A f \in head.reuses[s] : base.uses[f] = head.uses[f] /\ (f \in base.scenarios <=> f \in head.scenarios)
    BY <2>2 DEF Tracked
  <2>4. Direct(base, s) \subseteq Direct(head, s) /\ Direct(base, s) \subseteq base.roles
    BY <1>3, <2>1, <2>3 DEF Direct
  <2> QED
    BY <1>2, <2>4
<1>5. ClosedUnder(base, R)
  <2>1. ASSUME NEW r \in R, NEW d \in Deps(base, r) PROVE d \in R
    <3>1. r \in Roles /\ r \notin roleDirs
      BY <1>2
    <3>2. base.refs[r] = head.refs[r]
      BY <3>1 DEF Tracked
    <3>3. d \in Deps(head, r) /\ d \in base.roles
      BY <1>3, <2>1, <3>2 DEF Deps
    <3> QED
      BY <1>2, <3>3 DEF ClosedUnder
  <2> QED
    BY <2>1 DEF ClosedUnder
<1>6. Exercised(base, s) \subseteq R
  <2>1. R \in SUBSET base.roles
    OBVIOUS
  <2> HIDE DEF R
  <2> QED
    BY <1>1, <1>4, <1>5, <2>1, ExercisedLeast
<1> QED
  BY <1>6

LEMMA AnswerMisses == TypeOK /\ Tracked /\ Answer => NothingMissed
<1> SUFFICES ASSUME TypeOK, Tracked, Answer, NEW s \in Scenarios, LeftOut(s)
             PROVE  /\ s \notin molDirs
                    /\ Exercised(head, s) \cap roleDirs = {}
                    /\ lost = {} /\ head.reuses[s] \cap molDirs = {} =>
                         Exercised(base, s) \cap roleDirs = {}
  BY DEF NothingMissed
<1>1. /\ ~Unrecognised /\ s \notin molDirs
      /\ Exercised(head, s) \cap roleDirs = {}
  BY DEF LeftOut, Answer
<1> QED
  BY <1>1, NothingBefore

LEMMA AnswerInit == Init => Answer
BY DEF Init, Answer

\* No scenario is left out that a change concerns, as it is now or as it was.
THEOREM NoneMissed == Spec => []NothingMissed
BY AnswerMisses, TypeInit, TypeNext, ClosureInit, ClosureNext, TrackedInit, TrackedNext,
   AnswerInit, AnswerNext, PTL DEF Spec

\* With a smoke scenario in the tree something runs, and all that runs exists.
THEOREM AlwaysRunnable == Spec => []Runnable
<1>1. TypeOK /\ Answer => Runnable
  BY DEF TypeOK, Answer, Runnable, Unrecognised
<1> QED
  BY <1>1, TypeInit, TypeNext, ClosureInit, ClosureNext, AnswerInit, AnswerNext, PTL DEF Spec
=============================================================================
