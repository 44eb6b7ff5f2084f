------------------------------- MODULE Homarr -------------------------------
(***************************************************************************)
(* The Homarr converger (homarr_api.py, homarr_boards.py, homarr_trpc.py):  *)
(* one process per converge that finds or mints an API key, completes the   *)
(* onboarding of an empty instance, and then brings apps, integrations and  *)
(* the declared board to the specification it was given, one HTTP call at a *)
(* time. Every call can be refused, or applied with its answer lost, and    *)
(* either ends the run; the next converge begins with what is there.        *)
(*                                                                          *)
(* One integration and one board stand for many. An app is its URL and its  *)
(* title. A catalog has rows of different names; two of them may have the   *)
(* same URL. A board is the set of the apps on it. Secrets, icons and       *)
(* options of widgets are left out, and so are force_secret_sync, which     *)
(* only re-sends secrets, and the app an integration is linked to. Apart    *)
(* from the apps, which are read once, a read and the write it decides are  *)
(* one step: converges do not overlap, and people's changes during a run    *)
(* are exempted below.                                                      *)
(***************************************************************************)
EXTENDS Integers, Sequences, FiniteSets

CONSTANTS
    Names, Urls, Titles,
    Catalogs,   \* the service catalogs: a URL and a title for some Names
    Wanted,     \* the integrations that may be wanted: kind and URL
    Layouts,    \* what a board may look like: sizes of its widgets, columns
    MaxKeys,    \* bound on minted keys
    MaxEdits,   \* bound on changes from outside
    MaxFaults   \* bound on refused calls, lost answers and killed runs

NoRow == [kind |-> "none", url |-> "none"]
ASSUME HomarrAssumption ==
    /\ IsFiniteSet(Names)
    /\ Catalogs \subseteq UNION {[N -> [url : Urls, title : Titles]] : N \in SUBSET Names}
    /\ \A w \in Wanted : w = [kind |-> w.kind, url |-> w.url] /\ w.kind # NoRow.kind
    /\ \A l \in Layouts : l.sizes \in Seq(Nat \X Nat) /\ l.columns \in Nat
    /\ MaxKeys \in Nat /\ MaxEdits \in Nat /\ MaxFaults \in Nat

VARIABLES
    major,      \* version of Homarr: 1 has tiles, 2 has declared boards
    step,       \* onboarding step
    claimed,    \* 2.x: a claim on the onboarding is active
    user,       \* the admin: none, with the managed password, with another one,
                \* or renamed: no user has the managed name
    keys,       \* API keys Homarr accepts
    analytics, apps, integration, board,
    settings,   \* of the declared board: public, home
    file, bao,  \* the key in the file on the guest and in OpenBao; 0 is none
    spec,       \* what the converge is given
    pc,         \* next step of the converger
    run,        \* its variables
    outcome,    \* of the last run
    issued, edits, faults,
    clean,      \* history: no fault and no change from outside since it began
    settled,    \* history: the run began right after a clean one
    stuck,      \* history: it began with an onboarding somebody else had begun
    excuses     \* history: runs given a key Homarr does not accept, up to MaxKeys

homarr == <<step, claimed, user, keys, analytics, apps, integration, board, settings>>
store == <<file, bao, spec>>
bounds == <<issued, edits, faults>>
history == <<clean, settled, stuck, excuses>>
vars == <<major, homarr, store, pc, run, outcome, bounds, history>>

-----------------------------------------------------------------------------
Steps1 == <<"start", "import", "user", "group", "settings", "integrations", "finish">>
Steps2 == <<"start", "user", "setup", "finish">>
StepAfter(s) == Steps1[1 + CHOOSE i \in 1 .. Len(Steps1) - 1 : Steps1[i] = s]

App == [id : Nat, href : Urls, title : Titles]
NoBoard == [apps |-> {}, widget |-> FALSE, extra |-> FALSE, there |-> FALSE]
EmptyBoard == [NoBoard EXCEPT !.there = TRUE]
\* A run: its key, the rows it has yet to sync, the apps Homarr listed before the
\* first of them (one of each URL), and the apps of the rows it has synced.
NoRun == [key |-> 0, todo |-> {}, found |-> {}, ids |-> {}, changed |-> FALSE]
Specs == [apps : Catalogs, want : Wanted, works : BOOLEAN, publish : BOOLEAN]
Cataloged == DOMAIN spec.apps
Url(n) == spec.apps[n].url
Title(n) == spec.apps[n].title

\* An app is found by its URL. Mutant: by its title.
SameTitle(a, n) == a.title = Title(n)
Matches(a, n) == a.href = Url(n)
\* An id that no app has.
NewId == CHOOSE i \in 1 .. Cardinality(apps) + 1 : \A a \in apps : a.id # i

\* desired_items: the whole board; a widget without its integration is skipped.
Desired(ids) == [apps |-> ids, widget |-> integration.kind = spec.want.kind,
                 extra |-> FALSE, there |-> TRUE]

\* _canonical: equal in everything that is compared. Mutant: in the widgets only.
SameWidgets(b, c) == b.widget = c.widget /\ b.there = c.there
Same(b, c) == b = c

Init ==
    /\ major \in {1, 2}
    /\ \/ step = "start" /\ user = "none"
       \/ step = "finish" /\ user \in {"other", "renamed"}
    /\ claimed = FALSE /\ keys = {} /\ analytics = TRUE
    /\ apps = {} /\ integration = NoRow /\ settings = {}
    /\ board = (IF step = "finish" THEN EmptyBoard ELSE NoBoard)
    /\ file = 0 /\ bao = 0
    /\ spec \in Specs
    /\ pc = "idle" /\ run = NoRun /\ outcome = "none"
    /\ issued = 0 /\ edits = 0 /\ faults = 0
    /\ clean = FALSE /\ settled = FALSE /\ stuck = FALSE /\ excuses = 0

-----------------------------------------------------------------------------
\* How a step ends.

Failed(ok) == pc' = "idle" /\ run' = NoRun /\ outcome' = "failed" /\ clean' = (clean /\ ok)

\* The call is answered, or it is applied and the answer is lost.
Then(next, r) ==
    /\ \/ pc' = next /\ run' = r /\ UNCHANGED <<outcome, faults, clean>>
       \/ faults < MaxFaults /\ faults' = faults + 1 /\ Failed(FALSE)
    /\ UNCHANGED <<issued, edits, settled, stuck, excuses>>

\* No call, or one that changes nothing.
Go(next, r) ==
    /\ pc' = next /\ run' = r
    /\ UNCHANGED <<outcome, bounds, history>>

\* Homarr refuses, and rightly: HomarrError.
Refused ==
    /\ Failed(TRUE)
    /\ UNCHANGED <<major, homarr, store, bounds, settled, stuck, excuses>>

\* The call is not applied, or the process is killed before it.
Die ==
    /\ pc # "idle" /\ faults < MaxFaults
    /\ faults' = faults + 1
    /\ Failed(FALSE)
    /\ UNCHANGED <<major, homarr, store, issued, edits, settled, stuck, excuses>>

-----------------------------------------------------------------------------
\* main(): the key.

\* The spec carries the key of OpenBao, if that can be read and has one; the
\* file is read only when it carries none.
Start ==
    /\ pc = "idle" /\ issued < MaxKeys
    /\ \E readable \in BOOLEAN :
         LET key == IF readable /\ bao # 0 THEN bao ELSE file IN
         /\ run' = [NoRun EXCEPT !.key = key]
         /\ pc' = IF key # 0 THEN "probe" ELSE "step"
         /\ excuses' = IF key \notin keys \cup {0} /\ excuses < MaxKeys THEN excuses + 1 ELSE excuses
    /\ outcome' = "none" /\ clean' = TRUE
    /\ settled' = (clean /\ outcome = "done")
    /\ stuck' = (step # "finish" /\ (claimed \/ user # "none"))
    /\ UNCHANGED <<major, homarr, store, bounds>>

Probe ==
    /\ pc = "probe"
    /\ IF run.key \in keys THEN Go("file", run) ELSE Go("step", [run EXCEPT !.key = 0])
    /\ UNCHANGED <<major, homarr, store>>

\* Any error at all counts as a rejected key.
ProbeFails ==
    /\ pc = "probe" /\ faults < MaxFaults
    /\ faults' = faults + 1
    /\ pc' = "step" /\ run' = [run EXCEPT !.key = 0]
    /\ clean' = FALSE
    /\ UNCHANGED <<major, homarr, store, outcome, issued, edits, settled, stuck, excuses>>

\* Which way in is left depends on the onboarding. Mutant: it is taken as open.
OnboardAnyway ==
    /\ pc = "step"
    /\ Go(IF major = 2 THEN "claim" ELSE "walk", [run EXCEPT !.changed = TRUE])
    /\ UNCHANGED <<major, homarr, store>>
ReadStep ==
    /\ pc = "step"
    /\ IF step = "finish" THEN Go("login", run)
       ELSE Go(IF major = 2 THEN "claim" ELSE "walk", [run EXCEPT !.changed = TRUE])
    /\ UNCHANGED <<major, homarr, store>>

\* 2.x: another process' claim or an existing user makes Homarr refuse.
Claim ==
    /\ pc = "claim" /\ ~claimed /\ user = "none"
    /\ claimed' = TRUE
    /\ Then("advance", run)
    /\ UNCHANGED <<major, step, user, keys, analytics, apps, integration, board, settings, store>>
ClaimRefused == pc = "claim" /\ (claimed \/ user # "none") /\ Refused

\* Mutant: the walk of 1.x.
AdvanceWalks ==
    /\ pc = "advance"
    /\ step' = StepAfter(step)
    /\ Then("init", run)
    /\ UNCHANGED <<major, claimed, user, keys, analytics, apps, integration, board, settings, store>>
Advance ==
    /\ pc = "advance"
    /\ step' = IF step = "start" THEN "user" ELSE step
    /\ Then("init", run)
    /\ UNCHANGED <<major, claimed, user, keys, analytics, apps, integration, board, settings, store>>

\* 1.x: walk_to("user") and, once the admin is there, walk_to("finish").
WalkTarget == IF pc = "walk" THEN "user" ELSE "finish"
Walk ==
    /\ pc \in {"walk", "leave"}
    /\ step \notin {WalkTarget, "finish"}
    /\ step' = StepAfter(step)
    /\ board' = IF step' = "finish" /\ ~board.there THEN EmptyBoard ELSE board
    /\ Then(pc, run)
    /\ UNCHANGED <<major, claimed, user, keys, analytics, apps, integration, settings, store>>
Walked ==
    /\ pc \in {"walk", "leave"} /\ step = WalkTarget
    /\ Go(IF pc = "walk" THEN "init" ELSE "login", run)
    /\ UNCHANGED <<major, homarr, store>>
\* The bound on the walk.
WalkedPast == pc = "walk" /\ step = "finish" /\ Refused

InitUser ==
    /\ pc = "init" /\ step = "user" /\ user = "none"
    /\ user' = "managed"
    /\ step' = IF major = 2 THEN "setup" ELSE "group"
    /\ Then(IF major = 2 THEN "setup" ELSE "leave", run)
    /\ UNCHANGED <<major, claimed, keys, analytics, apps, integration, board, settings, store>>

CompleteSetup ==
    /\ pc = "setup"
    /\ step' = "finish" /\ claimed' = FALSE
    /\ board' = EmptyBoard /\ settings' = {"home"}
    /\ Then("login", run)
    /\ UNCHANGED <<major, user, keys, analytics, apps, integration, store>>

Login ==
    /\ pc = "login"
    /\ Go(IF user = "managed" THEN "mint" ELSE "reset", run)
    /\ UNCHANGED <<major, homarr, store>>

\* No session, for whatever reason, counts as a wrong password.
LoginFails ==
    /\ pc = "login" /\ faults < MaxFaults
    /\ faults' = faults + 1
    /\ pc' = "reset" /\ clean' = FALSE
    /\ UNCHANGED <<major, homarr, store, run, outcome, issued, edits, settled, stuck, excuses>>

\* UPDATE user ... WHERE name = the managed name.
ResetPassword ==
    /\ pc = "reset" /\ user \in {"managed", "other"}
    /\ user' = "managed"
    /\ Go("again", run)
    /\ UNCHANGED <<major, step, claimed, keys, analytics, apps, integration, board, settings, store>>
NobodyToReset == pc = "reset" /\ user \notin {"managed", "other"} /\ Refused

LoginAgain ==
    /\ pc = "again" /\ user = "managed"
    /\ Go("mint", run)
    /\ UNCHANGED <<major, homarr, store>>
LoginStillFails == pc = "again" /\ user # "managed" /\ Refused

Mint ==
    /\ pc = "mint"
    /\ keys' = keys \cup {issued + 1}
    /\ issued' = issued + 1
    /\ \/ /\ pc' = "file" /\ run' = [run EXCEPT !.key = issued + 1, !.changed = TRUE]
          /\ UNCHANGED <<outcome, faults, clean>>
       \/ faults < MaxFaults /\ faults' = faults + 1 /\ Failed(FALSE)
    /\ UNCHANGED <<major, step, claimed, user, analytics, apps, integration, board, settings,
                   store, edits, settled, stuck, excuses>>

\* The key goes to the file before anything else is called. Mutant: it does not.
KeyNotSaved == file
KeySaved == run.key
WriteFile ==
    /\ pc = "file"
    /\ file' = KeySaved
    /\ Go("analytics", run)
    /\ UNCHANGED <<major, homarr, bao, spec>>

-----------------------------------------------------------------------------
\* main(): settings, integrations, apps and the board.

DisableAnalytics ==
    /\ pc = "analytics"
    /\ analytics' = FALSE
    /\ IF analytics THEN Then("integration", [run EXCEPT !.changed = TRUE])
       ELSE Go("integration", run)
    /\ UNCHANGED <<major, step, claimed, user, keys, apps, integration, board, settings, store>>

\* integration.update does not send the kind. Mutant of Drifted: something is
\* compared that Homarr never returns.
AlwaysDrifted == TRUE
Drifted == integration # spec.want
Synced == IF integration = NoRow THEN spec.want ELSE [integration EXCEPT !.url = spec.want.url]

\* Homarr tests the connection before it stores anything; a rejection is
\* reported and the run goes on.
SyncIntegration ==
    /\ pc = "integration"
    /\ IF spec.works /\ Drifted
       THEN integration' = Synced /\ Then("list", [run EXCEPT !.changed = TRUE])
       ELSE Go("list", run) /\ UNCHANGED integration
    /\ UNCHANGED <<major, step, claimed, user, keys, analytics, apps, board, settings, store>>

\* {a["href"]: a}: of the apps of one URL the last one that is listed.
ListApps ==
    /\ pc = "list"
    /\ \E found \in SUBSET apps :
         /\ \A a \in apps : \E f \in found : f.href = a.href
         /\ \A f, g \in found : f.href = g.href => f = g
         /\ Go("apps", [run EXCEPT !.todo = Cataloged, !.found = found, !.ids = {}])
    /\ UNCHANGED <<major, homarr, store>>

\* A row is compared with the app that was listed for its URL, whatever the rows
\* before it created or renamed.
IdsOf(as) == {a.id : a \in as}
Retitled(ids, title) == {IF a.id \in ids THEN [a EXCEPT !.title = title] ELSE a : a \in apps}
Have(n) == {f \in run.found : Matches(f, n)}
Past(n, ids) == [run EXCEPT !.todo = @ \ {n}, !.ids = @ \cup ids]
PastBy(n, ids) == [Past(n, ids) EXCEPT !.changed = TRUE]
SyncApp(n) ==
    /\ pc = "apps" /\ n \in run.todo
    /\ IF Have(n) = {}
       THEN /\ apps' = apps \cup {[id |-> NewId, href |-> Url(n), title |-> Title(n)]}
            /\ Then("apps", PastBy(n, {NewId}))
       ELSE IF \A f \in Have(n) : f.title = Title(n)
       THEN Go("apps", Past(n, IdsOf(Have(n)))) /\ UNCHANGED apps
       ELSE /\ apps' = Retitled(IdsOf(Have(n)), Title(n))
            /\ Then("apps", PastBy(n, IdsOf(Have(n))))
    /\ UNCHANGED <<major, step, claimed, user, keys, analytics, integration, board, settings, store>>

\* 1.x: a tile for every app that has none; nothing is removed, and without a
\* board nothing is placed.
Tiled == IF board.there THEN run.ids \ board.apps ELSE {}
AddTile ==
    /\ pc = "apps" /\ run.todo = {} /\ major = 1
    /\ \E id \in Tiled :
         /\ board' = [board EXCEPT !.apps = @ \cup {id}]
         /\ Then("apps", [run EXCEPT !.changed = TRUE])
    /\ UNCHANGED <<major, step, claimed, user, keys, analytics, apps, integration, settings, store>>
TilesDone ==
    /\ pc = "apps" /\ run.todo = {} /\ major = 1 /\ Tiled = {}
    /\ Go("publish", run)
    /\ UNCHANGED <<major, homarr, store>>

\* 2.x: the board is created when it is not there, and saved as a whole when it
\* is not as desired.
CreateBoard ==
    /\ pc = "apps" /\ run.todo = {} /\ major = 2 /\ ~board.there
    /\ board' = EmptyBoard /\ settings' = {"public"}
    /\ Then("apps", [run EXCEPT !.changed = TRUE])
    /\ UNCHANGED <<major, step, claimed, user, keys, analytics, apps, integration, store>>

SaveBoard ==
    /\ pc = "apps" /\ run.todo = {} /\ major = 2 /\ board.there
    /\ IF Same(board, Desired(run.ids))
       THEN Go("settings", run) /\ UNCHANGED board
       ELSE board' = Desired(run.ids) /\ Then("settings", [run EXCEPT !.changed = TRUE])
    /\ UNCHANGED <<major, step, claimed, user, keys, analytics, apps, integration, settings, store>>

\* Visibility and home board, each by a call of its own.
SetBoard ==
    /\ pc = "settings"
    /\ IF settings = {"public", "home"} THEN Go("publish", run) /\ UNCHANGED settings
       ELSE \E f \in {"public", "home"} \ settings :
              /\ f = "home" => "public" \in settings
              /\ settings' = settings \cup {f}
              /\ Then("settings", [run EXCEPT !.changed = TRUE])
    /\ UNCHANGED <<major, step, claimed, user, keys, analytics, apps, integration, board, store>>

\* The role publishes the key to OpenBao, unless homarr_publish_credentials is
\* off; a refusal fails the play.
Publish ==
    /\ pc = "publish"
    /\ bao' = IF spec.publish THEN run.key ELSE bao
    /\ pc' = "idle" /\ run' = NoRun /\ outcome' = "done"
    /\ UNCHANGED <<major, homarr, file, spec, bounds, history>>

Converger ==
    \/ Probe \/ ReadStep
    \/ Claim \/ ClaimRefused \/ Advance \/ Walk \/ Walked \/ WalkedPast \/ InitUser \/ CompleteSetup
    \/ Login \/ ResetPassword \/ NobodyToReset \/ LoginAgain \/ LoginStillFails \/ Mint \/ WriteFile
    \/ DisableAnalytics \/ SyncIntegration \/ ListApps \/ (\E n \in Names : SyncApp(n))
    \/ AddTile \/ TilesDone \/ CreateBoard \/ SaveBoard \/ SetBoard \/ Publish

-----------------------------------------------------------------------------
\* Outside.

Edit ==
    /\ edits < MaxEdits
    /\ edits' = edits + 1
    /\ clean' = FALSE
    /\ UNCHANGED <<major, pc, run, outcome, issued, faults, settled, stuck, excuses>>

\* The specification of the next converge.
EditSpec ==
    /\ pc = "idle" /\ Edit
    /\ spec' \in Specs
    /\ UNCHANGED <<homarr, file, bao>>

\* The guest is rebuilt with an empty database.
Rebuild ==
    /\ pc = "idle" /\ Edit
    /\ step' = "start" /\ claimed' = FALSE /\ user' = "none" /\ keys' = {} /\ analytics' = TRUE
    /\ apps' = {} /\ integration' = NoRow /\ board' = NoBoard /\ settings' = {}
    /\ file' = 0
    /\ UNCHANGED <<bao, spec>>

\* Somebody changes the board in the UI, or the name or password of the admin.
Rearrange ==
    /\ board.there /\ Edit
    /\ \/ board' = [board EXCEPT !.extra = TRUE]
       \/ board' = [board EXCEPT !.apps = {}]
       \/ board' = NoBoard
    /\ UNCHANGED <<step, claimed, user, keys, analytics, apps, integration, settings, store>>
ChangeAdmin ==
    /\ user # "none" /\ Edit
    /\ user' \in {"other", "renamed"} \ {user}
    /\ UNCHANGED <<step, claimed, keys, analytics, apps, integration, board, settings, store>>

\* The claim of a run that is gone expires after four hours.
Expire ==
    /\ claimed /\ pc = "idle"
    /\ claimed' = FALSE
    /\ UNCHANGED <<major, step, user, keys, analytics, apps, integration, board, settings, store,
                   pc, run, outcome, bounds, history>>

Outside == EditSpec \/ Rebuild \/ Rearrange \/ ChangeAdmin \/ Expire \/ ProbeFails \/ LoginFails \/ Die

Next == Start \/ Converger \/ Outside

Spec == Init /\ [][Next]_vars

-----------------------------------------------------------------------------
TypeOK ==
    /\ major \in {1, 2} /\ claimed \in BOOLEAN
    /\ IF major = 2 THEN \E i \in DOMAIN Steps2 : step = Steps2[i]
       ELSE \E i \in DOMAIN Steps1 : step = Steps1[i]
    /\ user \in {"none", "managed", "other", "renamed"} /\ keys \subseteq 1 .. MaxKeys
    /\ analytics \in BOOLEAN /\ apps \subseteq App
    /\ integration \in {NoRow} \cup [kind : {w.kind : w \in Wanted}, url : {w.url : w \in Wanted}]
    /\ board \in [apps : SUBSET Nat, widget : BOOLEAN, extra : BOOLEAN, there : BOOLEAN]
    /\ settings \subseteq {"public", "home"}
    /\ file \in 0 .. MaxKeys /\ bao \in 0 .. MaxKeys
    /\ spec \in Specs
    /\ pc \in {"idle", "probe", "step", "claim", "advance", "walk", "init", "leave", "setup", "login",
               "reset", "again", "mint", "file", "analytics", "integration", "list", "apps", "settings",
               "publish"}
    /\ run \in [key : 0 .. MaxKeys, todo : SUBSET Names, found : SUBSET App, ids : SUBSET Nat,
               changed : BOOLEAN]
    /\ outcome \in {"none", "failed", "done"}
    /\ issued \in 0 .. MaxKeys /\ edits \in 0 .. MaxEdits /\ faults \in 0 .. MaxFaults
    /\ clean \in BOOLEAN /\ settled \in BOOLEAN /\ stuck \in BOOLEAN /\ excuses \in 0 .. MaxKeys

\* app.create always inserts, and yet a URL has no more apps than some catalog
\* has rows of it, which is one where every service has a URL of its own: not
\* after lost answers, renamed services or a run that starts over.
AppsAt(u) == {a \in apps : a.href = u}
RowsAt(c, u) == {n \in DOMAIN c : c[n].url = u}
AppsPerUrl == \A u \in Urls : \E c \in Catalogs : Cardinality(AppsAt(u)) <= Cardinality(RowsAt(c, u))

\* The row shares its URL with no other row.
Alone(n) == \A m \in Cataloged : Url(m) = Url(n) => m = n
AppIds == {a.id : a \in {b \in apps : \E n \in Cataloged : b.href = Url(n)}}

\* After an undisturbed run Homarr is what the specification says: each row has
\* an app, under its title unless another row has the same URL, and the app is on
\* the board; and the key that is stored (in both places, if the role publishes
\* it) is one Homarr accepts. What Homarr rejects, and an integration whose kind
\* changed, stay as they are.
SpecIsApplied ==
    outcome = "done" /\ clean =>
        /\ file \in keys /\ ~analytics /\ (spec.publish => bao = file)
        /\ \A n \in Cataloged : \E a \in apps :
             a.href = Url(n) /\ (Alone(n) => a.title = Title(n)) /\ (board.there => a.id \in board.apps)
        /\ spec.works => integration.url = spec.want.url
        /\ major = 2 => /\ board = Desired(board.apps) /\ board.apps \subseteq AppIds
                        /\ settings = {"public", "home"}

\* Every row has a URL, and an app, of its own.
Paired == \A n \in Cataloged : Alone(n) /\ \A a, b \in AppsAt(Url(n)) : a = b

\* A run right after an undisturbed one changes nothing and mints no key, unless
\* rows share a URL, or the kind of the integration changed, or the key in OpenBao
\* is stale and the role does not publish a better one.
RerunChangesNothing ==
    /\ settled /\ clean /\ Paired /\ (spec.publish \/ bao \in keys \cup {0})
    /\ spec.works => integration.kind = spec.want.kind
    => ~run.changed

\* Keys never expire: Homarr holds one, and at most one more for every fault and
\* for every run that was given a stale key.
KeysAreFew == Cardinality(keys) <= 1 + faults + excuses

\* Without a fault, a run fails only if it began in the middle of an onboarding,
\* or if no user has the managed name.
OnlyFaultsFail == outcome = "failed" /\ clean => stuck \/ user = "renamed"

-----------------------------------------------------------------------------
\* pack: boxes of the given sizes, each <<width, height>>, flowed into so many
\* columns.

MinOf(a, b) == IF a < b THEN a ELSE b
MaxOf(a, b) == IF a > b THEN a ELSE b

\* Mutant of Wraps: one column too late.
WrapsLate(x, width, columns) == x + width > columns + 1
Wraps(x, width, columns) == x + width > columns

\* The next box goes behind the last one, or begins a new shelf.
Behind(c, size, columns) ==
    LET width == MinOf(size[1], columns)
        new == Wraps(c.x, width, columns)
        x == IF new THEN 0 ELSE c.x
        y == IF new THEN c.y + c.shelf ELSE c.y
    IN  [at |-> <<x, y>>, x |-> x + width, y |-> y,
         shelf |-> MaxOf(IF new THEN 0 ELSE c.shelf, size[2])]
Origin == [at |-> <<0, 0>>, x |-> 0, y |-> 0, shelf |-> 0]
Cursor(sizes, columns) ==
    LET cursor[i \in 0 .. Len(sizes)] ==
            IF i = 0 THEN Origin ELSE Behind(cursor[i - 1], sizes[i], columns)
    IN  cursor
Pack(sizes, columns) == [i \in 1 .. Len(sizes) |-> Cursor(sizes, columns)[i].at]

Cells(at, size, columns) ==
    {<<at[1] + i, at[2] + j>> : i \in 0 .. MinOf(size[1], columns) - 1, j \in 0 .. size[2] - 1}

FitIn(sizes, columns) ==
    LET at == Pack(sizes, columns)
        cells == [i \in DOMAIN sizes |-> Cells(at[i], sizes[i], columns)]
    IN  /\ \A i \in DOMAIN sizes : \A c \in cells[i] : c[1] < columns
        /\ \A i, j \in DOMAIN sizes : i # j => cells[i] \cap cells[j] = {}
AllFit == \A l \in Layouts : FitIn(l.sizes, l.columns)

\* A board is saved with every widget inside the columns of its layout and no two
\* overlapping, also when a widget is wider than the layout.
BoxesFit == pc = "settings" => AllFit
=============================================================================
