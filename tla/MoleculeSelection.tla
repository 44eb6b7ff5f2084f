-------------------------- MODULE MoleculeSelection --------------------------
(***************************************************************************)
(* select-molecule-scenarios.py: which Molecule scenarios a pull request   *)
(* has to run.  A tree is what the script reads of the repository: the     *)
(* role directories and the role names their YAML mentions, the scenario   *)
(* directories, the role names those mention and the scenarios whose       *)
(* playbooks they run.  A pull request edits the tree; the selector looks  *)
(* at the paths git lists as changed and, where it narrows the matrix,     *)
(* closes the roles of every scenario over role-to-role references.        *)
(***************************************************************************)
EXTENDS Naturals, FiniteSets

CONSTANTS Roles,      \* names a role directory may have
          Scenarios,  \* names a scenario directory may have
          Default,    \* the scenario `default`
          Trees,      \* trees the first pull request may start from
          MaxEdits    \* bound: edits in one behaviour

Tree == [roles : SUBSET Roles, refs : [Roles -> SUBSET Roles],
         scenarios : SUBSET Scenarios, uses : [Scenarios -> SUBSET Roles],
         reuses : [Scenarios -> SUBSET Scenarios]]

ASSUME DefaultAssumption == Default \in Scenarios
ASSUME TreesAssumption == Trees \subseteq Tree
ASSUME BoundAssumption == MaxEdits \in Nat

Events == {"push", "promotion", "pull_request"}
None == "no scenario"
ASSUME NoneAssumption == None \notin Scenarios

VARIABLES base,       \* the tree the pull request is compared with
          head,       \* the tree of the pull request
          roleDirs,   \* names in the listed paths below roles/
          molDirs,    \* names in the listed paths below molecule/
          lost,       \* roles that lost files the listing does not show
          shared,     \* a shared input is listed
          harness,    \* a file of the CI harness is listed
          edits,      \* edits so far
          pc,         \* "editing", "start", "mapping" or "done"
          event,      \* what started the selection
          todo,       \* scenarios the mapping does not have yet
          cur,        \* the scenario being closed
          closed,     \* its roles so far
          pending,    \* those whose files were not read yet
          mapping,    \* scenario -> roles
          chosen      \* the scenarios emitted

tree == <<base, head, roleDirs, molDirs, lost, shared, harness, edits>>
work == <<todo, cur, closed, pending, mapping>>
vars == <<tree, pc, event, work, chosen>>

-----------------------------------------------------------------------------
(* What the script reads out of a tree. *)

\* The roles the files of a scenario, and the playbooks it takes from others, name.
Direct(t, s) ==
    (t.uses[s] \cup UNION {t.uses[f] : f \in t.reuses[s] \cap t.scenarios}) \cap t.roles

\* The roles the files of a role name.
Deps(t, r) == t.refs[r] \cap t.roles

-----------------------------------------------------------------------------
Init ==
    /\ base \in Trees /\ head = base
    /\ roleDirs = {} /\ molDirs = {} /\ lost = {}
    /\ shared = FALSE /\ harness = FALSE /\ edits = 0
    /\ pc = "editing" /\ event = "push"
    /\ todo = {} /\ cur = None /\ closed = {} /\ pending = {}
    /\ mapping = [s \in Scenarios |-> {}] /\ chosen = {}

(* The author of the pull request. *)
Edited ==
    /\ pc = "editing" /\ edits < MaxEdits /\ edits' = edits + 1
    /\ UNCHANGED <<base, pc, event, work, chosen>>

\* A role is added or changed; afterwards it names the roles deps.
EditRole(r, deps) ==
    /\ Edited
    /\ head' = [head EXCEPT !.roles = @ \cup {r}, !.refs[r] = deps]
    /\ roleDirs' = roleDirs \cup {r}
    /\ UNCHANGED <<molDirs, lost, shared, harness>>

DeleteRole(r) ==
    /\ Edited /\ r \in head.roles
    /\ head' = [head EXCEPT !.roles = @ \ {r}]
    /\ roleDirs' = roleDirs \cup {r}
    /\ UNCHANGED <<molDirs, lost, shared, harness>>

\* Files move from one role to another as they are.  git diff --name-only finds
\* the rename and lists the new path alone.
MoveFiles(from, to, deps, all) ==
    /\ Edited /\ from # to /\ from \in head.roles /\ deps \subseteq head.refs[from]
    /\ head' = [head EXCEPT !.roles = (IF all THEN @ \ {from} ELSE @) \cup {to},
                            !.refs[from] = @ \ deps, !.refs[to] = @ \cup deps]
    /\ roleDirs' = roleDirs \cup {to} /\ lost' = lost \cup {from}
    /\ UNCHANGED <<molDirs, shared, harness>>

\* A scenario is added or changed; it runs playbooks of at most one other.
EditScenario(s, roles, other) ==
    /\ Edited
    /\ head' = [head EXCEPT !.scenarios = @ \cup {s}, !.uses[s] = roles,
                            !.reuses[s] = {other} \ {s}]
    /\ molDirs' = molDirs \cup {s}
    /\ UNCHANGED <<roleDirs, lost, shared, harness>>

DeleteScenario(s) ==
    /\ Edited /\ s \in head.scenarios
    /\ head' = [head EXCEPT !.scenarios = @ \ {s}]
    /\ molDirs' = molDirs \cup {s}
    /\ UNCHANGED <<roleDirs, lost, shared, harness>>

TouchShared ==
    /\ Edited /\ shared' = TRUE
    /\ UNCHANGED <<head, roleDirs, molDirs, lost, harness>>

TouchHarness ==
    /\ Edited /\ harness' = TRUE
    /\ UNCHANGED <<head, roleDirs, molDirs, lost, shared>>

\* The pull request is merged; the next one is compared with the result.
Merge ==
    /\ pc = "done" /\ pc' = "editing"
    /\ base' = head /\ roleDirs' = {} /\ molDirs' = {} /\ lost' = {}
    /\ shared' = FALSE /\ harness' = FALSE
    /\ UNCHANGED <<head, edits, event, work, chosen>>

\* More commits are pushed to it.
PushAgain == pc = "done" /\ pc' = "editing" /\ UNCHANGED <<tree, event, work, chosen>>

-----------------------------------------------------------------------------
(* The selector: main() from its first line to the emit(). *)

Select(e) ==
    /\ pc = "editing" /\ pc' = "start" /\ event' = e
    /\ todo' = {} /\ cur' = None /\ closed' = {} /\ pending' = {}
    /\ mapping' = [s \in Scenarios |-> {}] /\ chosen' = {}
    /\ UNCHANGED tree

Emit(S) == pc' = "done" /\ chosen' = S /\ UNCHANGED <<tree, event, work>>

\* Not a pull request, or one into the production branch, or a shared input.
Widened == event # "pull_request" \/ shared

\* Mutant of Unrecognised: a role that is gone goes unnoticed.
UnknownScenarioOnly == ~(molDirs \subseteq head.scenarios)

\* Names below molecule/ or roles/ that are not in the tree (any more).
Unrecognised == ~(molDirs \subseteq head.scenarios) \/ ~(roleDirs \subseteq head.roles)

RunAll == pc = "start" /\ Widened /\ Emit(head.scenarios)

\* A change of the harness runs the smoke scenario, whatever else changed.
RunSmoke ==
    /\ pc = "start" /\ ~Widened /\ harness
    /\ Emit(IF Default \in head.scenarios THEN {Default} ELSE head.scenarios)

RunUnrecognised == pc = "start" /\ ~Widened /\ ~harness /\ Unrecognised /\ Emit(head.scenarios)

\* The change is narrow enough to ask which scenarios it concerns.
Narrow == pc = "start" /\ ~Widened /\ ~harness /\ ~Unrecognised

RunChanged == Narrow /\ roleDirs = {} /\ Emit(molDirs \cup {Default})

StartMapping ==
    /\ Narrow /\ roleDirs # {} /\ pc' = "mapping" /\ todo' = head.scenarios
    /\ UNCHANGED <<tree, event, cur, closed, pending, mapping, chosen>>

\* The scenarios are taken in a fixed order, that of their sorted names.
ReadScenario ==
    /\ pc = "mapping" /\ cur = None /\ todo # {}
    /\ cur' = CHOOSE s \in todo : TRUE
    /\ closed' = Direct(head, cur') /\ pending' = Direct(head, cur')
    /\ UNCHANGED <<tree, pc, event, todo, mapping, chosen>>

\* Mutants of ReadRole: the closure stops after one level; a role joins only when
\* it is read.
OneLevel(r) ==
    /\ cur # None /\ r \in pending
    /\ closed' = closed \cup Deps(head, r) /\ pending' = pending \ {r}
    /\ UNCHANGED <<tree, pc, event, todo, cur, mapping, chosen>>
QueuedOnly(r) ==
    /\ cur # None /\ r \in pending
    /\ closed' = closed \cup {r} /\ pending' = (pending \ {r}) \cup (Deps(head, r) \ closed)
    /\ UNCHANGED <<tree, pc, event, todo, cur, mapping, chosen>>

\* pending.pop(): the list was made from a set, so any role may come first.
ReadRole(r) ==
    /\ cur # None /\ r \in pending
    /\ closed' = closed \cup Deps(head, r)
    /\ pending' = (pending \ {r}) \cup (Deps(head, r) \ closed)
    /\ UNCHANGED <<tree, pc, event, todo, cur, mapping, chosen>>

Mapped ==
    /\ cur # None /\ pending = {}
    /\ mapping' = [mapping EXCEPT ![cur] = closed]
    /\ todo' = todo \ {cur} /\ cur' = None
    /\ UNCHANGED <<tree, pc, event, closed, pending, chosen>>

\* The scenarios whose roles changed or whose directory changed, and default.
Concerned == {s \in head.scenarios : mapping[s] \cap roleDirs # {}} \cup molDirs \cup {Default}

RunConcerned == pc = "mapping" /\ cur = None /\ todo = {} /\ Emit(Concerned)

-----------------------------------------------------------------------------
Author ==
    \/ \E r \in Roles, deps \in SUBSET Roles : EditRole(r, deps)
    \/ \E r \in Roles : DeleteRole(r)
    \/ \E from, to \in Roles, deps \in SUBSET Roles, all \in BOOLEAN : MoveFiles(from, to, deps, all)
    \/ \E s, other \in Scenarios, roles \in SUBSET Roles : EditScenario(s, roles, other)
    \/ \E s \in Scenarios : DeleteScenario(s)
    \/ TouchShared \/ TouchHarness \/ Merge \/ PushAgain

Selector ==
    \/ RunAll \/ RunSmoke \/ RunUnrecognised \/ RunChanged
    \/ StartMapping \/ ReadScenario \/ Mapped \/ RunConcerned
    \/ \E r \in Roles : ReadRole(r)

Next == Author \/ Selector \/ \E e \in Events : Select(e)

Spec == Init /\ [][Next]_vars

-----------------------------------------------------------------------------
(* What the selection is for, without the work list. *)

ClosedUnder(t, R) == \A r \in R : Deps(t, r) \subseteq R

\* The roles a scenario exercises: those in every set that holds the ones it
\* names and, with a role, the ones that role names.
Exercised(t, s) ==
    {r \in t.roles : \A R \in SUBSET t.roles :
                        Direct(t, s) \subseteq R /\ ClosedUnder(t, R) => r \in R}

(* Type correctness: names stay names, and the work list holds only roles that
   are already among the scenario's roles (scenario_roles). *)
TypeOK ==
    /\ base \in Tree /\ head \in Tree
    /\ roleDirs \subseteq Roles /\ molDirs \subseteq Scenarios /\ lost \subseteq Roles
    /\ shared \in BOOLEAN /\ harness \in BOOLEAN /\ edits \in 0..MaxEdits
    /\ pc \in {"editing", "start", "mapping", "done"} /\ event \in Events
    /\ todo \subseteq Scenarios /\ cur \in Scenarios \cup {None}
    /\ closed \subseteq Roles /\ pending \subseteq closed
    /\ mapping \in [Scenarios -> SUBSET Roles] /\ chosen \subseteq Scenarios

(* "The closure is iterated to a fixed point": a scenario that is mapped has
   exactly the roles it exercises, in whatever order the work list was emptied
   and whatever cycles the references have (scenario_roles). *)
ClosureIsExact ==
    pc = "mapping" => \A s \in head.scenarios \ todo : mapping[s] = Exercised(head, s)

\* A scenario left out of a narrowed selection (the harness has a path of its own).
LeftOut(s) == pc = "done" /\ ~harness /\ s \in head.scenarios \ chosen

(* A scenario is left out only if its directory and every role it exercises are
   unchanged; nor has it stopped exercising a role that changed: the roles it
   exercised before are unchanged as well, unless files were moved out of a
   role, or the change is in a scenario whose playbooks it runs (main). *)
NothingMissed ==
    \A s \in Scenarios : LeftOut(s) =>
        /\ s \notin molDirs
        /\ Exercised(head, s) \cap roleDirs = {}
        /\ lost = {} /\ head.reuses[s] \cap molDirs = {} => Exercised(base, s) \cap roleDirs = {}

(* Whatever changed, something runs, every scenario named exists and the smoke
   scenario is among them, as long as the tree has a smoke scenario (main). *)
Runnable ==
    pc = "done" /\ Default \in head.scenarios =>
        Default \in chosen /\ chosen \subseteq head.scenarios

=============================================================================
