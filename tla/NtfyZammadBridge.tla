--------------------------- MODULE NtfyZammadBridge ---------------------------
(***************************************************************************)
(* The alert bridge of roles/ntfy_docker/files: the ntfy CLI runs the hook *)
(* ntfy-zammad.py once per message, one message at a time, and the hook    *)
(* opens, updates, reopens and closes Zammad tickets over HTTP.  A run is  *)
(* cut at every HTTP call and at every change of the state directory, so   *)
(* that operators working in Zammad, outages, lost answers and crashes     *)
(* interleave with it.                                                     *)
(***************************************************************************)
EXTENDS Integers, Sequences, FiniteSets

CONSTANTS
    Keys,        \* correlation keys, "fk:ntfy:<topic>:<title>"
    Sevs,        \* what else the alert fingerprint holds: other tags, priority
    Interval,    \* NTFY_ZAMMAD_REPEAT_INTERVAL_SECONDS
    Window,      \* REOPEN_WINDOW_SECONDS
    Threshold,   \* NTFY_ZAMMAD_FAILURE_THRESHOLD
    SpoolMax,    \* SPOOL_MAX
    Denylist,    \* numbers of the tickets the bridge must never close
    Preexisting, \* possible tickets (at most one) found in Zammad at the start
    Modes,       \* how Zammad may answer, see mode
    HumanMoves,  \* what operators may do in Zammad, see Operator
    CanCrash,    \* whether the hook may be killed between two steps
    MaxMsgs,     \* bound: messages delivered
    MaxTickets,  \* bound: tickets
    MaxTime      \* bound: clock

AllModes == {"up", "down", "lossy", "reject", "garbled"}
AllMoves == {"take", "close", "pend", "release", "reopen", "untag"}

ASSUME BridgeAssumption ==
    /\ Interval \in Nat /\ Window \in Nat /\ Threshold \in Nat
    /\ SpoolMax \in Nat
    /\ Denylist \subseteq Nat
    /\ Modes \subseteq AllModes /\ "up" \in Modes
    /\ HumanMoves \subseteq AllMoves
    /\ CanCrash \in BOOLEAN
    /\ MaxMsgs \in Nat /\ MaxTickets \in Nat /\ MaxTime \in Nat

VARIABLES
    tickets,     \* Zammad: the tickets, by number
    mode,        \* Zammad: how the next call fares
    clock,       \* wall clock, shared by the hook and Zammad
    next,        \* ntfy: number of the next message
    alerts,      \* ntfy: self-alerts published and not yet delivered
    pc,          \* hook: what it does next
    cur,         \* hook: the message it was started for
    job,         \* hook: the message handle() works on, cur or a spooled one
    existing,    \* hook: the ticket find_ticket() returned
    newState,    \* hook: the state its PUT sets, "keep" for none
    now,         \* hook: time.time() taken after the search
    err,         \* hook: the class of the exception that ends the run
    spool,       \* state dir: spool/*.json
    repeat,      \* state dir: repeat-state.json
    failures,    \* state dir: failures, consecutive failed runs
    hushed,      \* history: firings suppressed so far, by key
    handled,     \* history: number of the last message handle() returned for
    last,        \* history: the message handle() last returned for, by key
    paged        \* history: self-alerts since handle() last got through to Zammad

zammad == <<tickets, mode, clock>>
ntfy == <<next, alerts>>
hook == <<pc, cur, job, existing, newState, now, err>>
stateDir == <<spool, repeat, failures>>
history == <<hushed, handled, last, paged>>
vars == <<zammad, ntfy, hook, stateDir, history>>

-----------------------------------------------------------------------------
(* Data *)

\* current_message(): skip is the tag no-zammad, resolved the two recovery tags.
Message == [id : Nat, key : Keys, resolved : BOOLEAN, sev : Sevs, skip : BOOLEAN]
NoMsg == [id |-> 0]

\* alert_state(): the fingerprint that tells a repeat from a change.
AlertState == [resolved : BOOLEAN, sev : Sevs]
AlertStateOf(m) == [resolved |-> m.resolved, sev |-> m.sev]

\* One entry of repeat-state.json, or none for the key.
NoRecord == [at |-> 0, count |-> 0]
Record == [state : AlertState, at : Nat, count : Nat] \cup {NoRecord}

\* note(): the message, its fingerprint, the hook's clock and the number of
\* suppressed repeats the text reports.
Article == [id : Nat, state : AlertState, at : Nat, count : Nat]

Active == {"new", "open", "reopened"}
TicketStates == Active \cup {"closed", "pending"}
Ticket == [key : Keys, state : TicketStates, managed : BOOLEAN,
           closedAt : Nat, log : Seq(Article)]

\* A spooled message; ok is FALSE while its file is created but not written.
SpoolFile == [msg : Message, ok : BOOLEAN]
FileOf(m) == [msg |-> m, ok |-> TRUE]

\* sorted(os.listdir(d)): names start with time_ns(), so oldest is smallest.
Oldest == CHOOSE f \in spool : \A g \in spool : f.msg.id <= g.msg.id

\* What spool_message() keeps: names[:max(0, len(names) - max_files)] go.
Newest(files) ==
    {f \in files : Cardinality({g \in files : g.msg.id > f.msg.id}) < SpoolMax}

TicketIds == 1 .. Len(tickets)
WithKey(k, states) ==
    {i \in TicketIds : tickets[i].key = k /\ tickets[i].state \in states}

NoTicket == [id |-> 0, closed |-> FALSE, closedAt |-> 0]
Existing == [id : Nat, closed : BOOLEAN, closedAt : Nat]

\* The steps inside handle(), and all steps of a run.
HandleSteps == {"search", "searchClosed", "decide", "checkTag", "put", "create",
                "addTag", "remember", "done"}
Steps == HandleSteps \cup {"idle", "replay", "failed", "spoolWrite", "trim",
                           "record", "publish"}

\* What an earlier run or an operator may have left in Zammad.
ASSUME PreexistingAssumption == Preexisting \subseteq Ticket

-----------------------------------------------------------------------------
(* One HTTP call.  up: answered.  down: not applied, connection error or    *)
(* 5xx.  lossy: applied, the answer lost (timeout, reset, 5xx).  reject:     *)
(* not applied, 4xx.  garbled: applied, the answer is no JSON (ValueError). *)

Applied == mode \in {"up", "lossy", "garbled"}

\* Mutant of Failure: a timeout is not worth spooling.
FailureTimeoutFatal == CASE mode = "reject" -> "rejected"
                         [] mode = "down" -> "transient"
                         [] OTHER -> "fatal"

\* is_transient() and the class of the exception otherwise.
Failure == CASE mode = "reject" -> "rejected"
             [] mode = "garbled" -> "fatal"
             [] OTHER -> "transient"

Replaying == job # cur

\* zammad_call() returns and the hook goes on at step s, or it raises: out of
\* the run, unless replay_spool() catches a 4xx and drops the spooled message.
Answered(s) ==
    \/ /\ mode = "up"
       /\ pc' = s
       /\ UNCHANGED <<job, err, spool>>
    \/ /\ mode = "reject" /\ Replaying
       /\ spool' = spool \ {FileOf(job)}
       /\ pc' = "replay"
       /\ job' = NoMsg
       /\ UNCHANGED err
    \/ /\ mode # "up" /\ ~(mode = "reject" /\ Replaying)
       /\ pc' = "failed"
       /\ err' = Failure
       /\ UNCHANGED <<job, spool>>

\* The process ends and the CLI waits for the next message.
Exit ==
    /\ pc' = "idle"
    /\ cur' = NoMsg /\ job' = NoMsg /\ existing' = NoTicket
    /\ newState' = "keep" /\ now' = 0 /\ err' = "none"

-----------------------------------------------------------------------------
(* Initial states *)

Init ==
    /\ tickets \in {<<>>} \cup {<<t>> : t \in Preexisting}
    /\ mode = "up" /\ clock = 0
    /\ next = 1 /\ alerts = 0
    /\ pc = "idle" /\ cur = NoMsg /\ job = NoMsg
    /\ existing = NoTicket /\ newState = "keep" /\ now = 0 /\ err = "none"
    /\ spool = {}
    /\ repeat = [k \in Keys |-> NoRecord]
    /\ failures = 0
    /\ hushed = [k \in Keys |-> 0] /\ handled = 0
    /\ last = [k \in Keys |-> NoMsg] /\ paged = 0

-----------------------------------------------------------------------------
(* The run of one hook process *)

\* The CLI starts the hook for the next message that passes client.yml's if:.
Start(m) ==
    /\ pc = "idle" /\ next <= MaxMsgs
    /\ cur' = m
    /\ next' = next + 1
    /\ pc' = "replay"
    /\ UNCHANGED <<zammad, job, existing, newState, now, err, stateDir, history>>

Deliver ==
    /\ \E k \in Keys, r \in BOOLEAN, s \in Sevs :
         Start([id |-> next, key |-> k, resolved |-> r, sev |-> s, skip |-> FALSE])
    /\ UNCHANGED alerts

\* The bridge's own alert comes back through the keystone topic.
DeliverSelfAlert ==
    /\ alerts > 0
    /\ \E k \in Keys, s \in Sevs :
         Start([id |-> next, key |-> k, resolved |-> FALSE, sev |-> s, skip |-> TRUE])
    /\ alerts' = alerts - 1

\* replay_spool() takes the oldest file; one that is no JSON raises ValueError.
ReplayNext ==
    /\ pc = "replay" /\ spool # {}
    /\ \/ /\ Oldest.ok
          /\ job' = Oldest.msg
          /\ pc' = "search"
          /\ UNCHANGED err
       \/ /\ ~Oldest.ok
          /\ pc' = "failed"
          /\ err' = "fatal"
          /\ UNCHANGED job
    /\ UNCHANGED <<zammad, ntfy, cur, existing, newState, now, stateDir, history>>

\* Mutant of HandleCurrent: the new message does not wait for the replay.
HandleCurrentFirst ==
    /\ pc = "replay"
    /\ job' = cur
    /\ pc' = IF cur.skip THEN "done" ELSE "search"
    /\ UNCHANGED <<zammad, ntfy, cur, existing, newState, now, err, stateDir, history>>

\* The spool is empty: handle(_msg), which returns at once for no-zammad.
HandleCurrent ==
    /\ pc = "replay" /\ spool = {}
    /\ job' = cur
    /\ pc' = IF cur.skip THEN "done" ELSE "search"
    /\ UNCHANGED <<zammad, ntfy, cur, existing, newState, now, err, stateDir, history>>

\* Mutant of SearchActive: OPEN_STATES instead of ACTIVE_STATES.
SearchOpenOnly ==
    /\ pc = "search"
    /\ IF WithKey(job.key, {"new", "open"}) = {}
       THEN existing' = NoTicket /\ Answered("searchClosed")
       ELSE /\ \E i \in WithKey(job.key, {"new", "open"}) :
                 existing' = [id |-> i, closed |-> FALSE, closedAt |-> 0]
            /\ Answered("decide")
    /\ UNCHANGED <<zammad, ntfy, cur, newState, now, repeat, failures, history>>

\* find_ticket(): any ticket of the key in an active state, in search order.
SearchActive ==
    /\ pc = "search"
    /\ IF WithKey(job.key, Active) = {}
       THEN existing' = NoTicket /\ Answered("searchClosed")
       ELSE /\ \E i \in WithKey(job.key, Active) :
                 existing' = [id |-> i, closed |-> FALSE, closedAt |-> 0]
            /\ Answered("decide")
    /\ UNCHANGED <<zammad, ntfy, cur, newState, now, repeat, failures, history>>

\* find_ticket(): otherwise the closed ticket of the key that closed last.
SearchClosed ==
    /\ pc = "searchClosed"
    /\ IF WithKey(job.key, {"closed"}) = {}
       THEN existing' = NoTicket
       ELSE \E i \in WithKey(job.key, {"closed"}) :
              /\ \A j \in WithKey(job.key, {"closed"}) :
                   tickets[j].closedAt <= tickets[i].closedAt
              /\ existing' = [id |-> i, closed |-> TRUE,
                              closedAt |-> tickets[i].closedAt]
    /\ Answered("decide")
    /\ UNCHANGED <<zammad, ntfy, cur, newState, now, repeat, failures, history>>

Found == existing.id # 0
InWindow == clock - existing.closedAt \in 0 .. Window
IsRepeat ==
    /\ repeat[job.key] # NoRecord
    /\ repeat[job.key].state = AlertStateOf(job)
    /\ clock - repeat[job.key].at < Interval

\* Mutant of Suppress: counts down.
SuppressDown ==
    /\ repeat' = [repeat EXCEPT ![job.key].count = @ - 1]
    /\ hushed' = [hushed EXCEPT ![job.key] = @ + 1]

\* suppress_repeat(): count the repeat, write repeat-state.json atomically.
Suppress ==
    /\ repeat' = [repeat EXCEPT ![job.key].count = @ + 1]
    /\ hushed' = [hushed EXCEPT ![job.key] = @ + 1]

\* load_repeat_record(), time.time() and the branches of handle_existing().
Decide ==
    /\ pc = "decide"
    /\ now' = clock
    /\ \/ /\ job.resolved /\ (existing.closed \/ ~Found)
          /\ pc' = "done"
          /\ UNCHANGED <<newState, repeat, hushed>>
       \/ /\ \/ job.resolved /\ Found /\ ~existing.closed
             \/ ~job.resolved /\ existing.closed /\ InWindow
          /\ pc' = "checkTag"
          /\ UNCHANGED <<newState, repeat, hushed>>
       \/ /\ ~job.resolved
          /\ ~Found \/ (existing.closed /\ ~InWindow)
          /\ pc' = "create"
          /\ UNCHANGED <<newState, repeat, hushed>>
       \/ /\ ~job.resolved /\ Found /\ ~existing.closed /\ IsRepeat
          /\ Suppress
          /\ pc' = "done"
          /\ UNCHANGED newState
       \/ /\ ~job.resolved /\ Found /\ ~existing.closed /\ ~IsRepeat
          /\ newState' = "keep"
          /\ pc' = "put"
          /\ UNCHANGED <<repeat, hushed>>
    /\ UNCHANGED <<zammad, ntfy, cur, job, existing, err, spool, failures,
                   handled, last, paged>>

\* Mutant of Owned: the tag alone decides.
OwnedIfTagged(i) == tickets[i].managed

\* bridge_opened_ticket(): not denied (known from the search), and tagged.
Owned(i) == i \notin Denylist /\ tickets[i].managed

CheckTag ==
    /\ pc = "checkTag"
    /\ \/ /\ Owned(existing.id)
          /\ newState' = IF existing.closed THEN "reopened" ELSE "closed"
          /\ Answered("put")
       \/ /\ ~Owned(existing.id)
          /\ newState' = "keep"
          /\ \/ existing.id \in Denylist /\ UNCHANGED <<job, err, spool>>
                /\ pc' = IF existing.closed THEN "create" ELSE "put"
             \/ existing.id \notin Denylist
                /\ Answered(IF existing.closed THEN "create" ELSE "put")
    /\ UNCHANGED <<zammad, ntfy, cur, existing, now, repeat, failures, history>>

Note(count) ==
    [id |-> job.id, state |-> AlertStateOf(job), at |-> now, count |-> count]

\* Mutant of Updated: the state is left out of the PUT.
UpdatedArticleOnly(t, s) ==
    [t EXCEPT !.log = Append(@, Note(repeat[job.key].count))]

\* What Zammad makes of a PUT that adds an article and sets state s.
Updated(t, s) ==
    [t EXCEPT !.log = Append(@, Note(repeat[job.key].count)),
              !.state = IF s = "keep" THEN @ ELSE s,
              !.closedAt = IF s = "closed" /\ t.state # "closed" THEN clock ELSE @]

PutTicket ==
    /\ pc = "put"
    /\ tickets' = IF Applied
                  THEN [tickets EXCEPT ![existing.id] = Updated(@, newState)]
                  ELSE tickets
    /\ Answered("remember")
    /\ UNCHANGED <<mode, clock, ntfy, cur, existing, newState, now, repeat,
                   failures, history>>

\* users/me and POST tickets; the opening article reports no count.
CreateTicket ==
    /\ pc = "create" /\ Len(tickets) < MaxTickets
    /\ IF Applied
       THEN /\ tickets' = Append(tickets,
                 [key |-> job.key, state |-> "new", managed |-> FALSE,
                  closedAt |-> 0, log |-> <<Note(0)>>])
            /\ existing' = [id |-> Len(tickets) + 1, closed |-> FALSE, closedAt |-> 0]
       ELSE UNCHANGED <<tickets, existing>>
    /\ Answered("addTag")
    /\ UNCHANGED <<mode, clock, ntfy, cur, newState, now, repeat, failures, history>>

\* POST tags/add on the ticket just created.
AddTag ==
    /\ pc = "addTag"
    /\ tickets' = IF Applied
                  THEN [tickets EXCEPT ![existing.id].managed = TRUE]
                  ELSE tickets
    /\ Answered("remember")
    /\ UNCHANGED <<mode, clock, ntfy, cur, existing, newState, now, repeat,
                   failures, history>>

\* Mutant of RememberArticle: the suppressed count is not reset.
RememberKeepsCount ==
    /\ pc = "remember"
    /\ repeat' = [repeat EXCEPT ![job.key] =
                    [state |-> AlertStateOf(job), at |-> now, count |-> @.count]]
    /\ pc' = "done"
    /\ UNCHANGED <<zammad, ntfy, cur, job, existing, newState, now, err, spool,
                   failures, history>>

\* remember_article(): the article's time, no repeats yet.
RememberArticle ==
    /\ pc = "remember"
    /\ repeat' = [repeat EXCEPT ![job.key] =
                    [state |-> AlertStateOf(job), at |-> now, count |-> 0]]
    /\ pc' = "done"
    /\ UNCHANGED <<zammad, ntfy, cur, job, existing, newState, now, err, spool,
                   failures, history>>

\* Mutant of Finish: the replayed file stays in the spool.
FinishKeepsFile ==
    /\ pc = "done"
    /\ handled' = job.id
    /\ IF job.skip
       THEN UNCHANGED <<last, paged>>
       ELSE last' = [last EXCEPT ![job.key] = job] /\ paged' = 0
    /\ \/ /\ Replaying
          /\ pc' = "replay"
          /\ job' = NoMsg /\ existing' = NoTicket
          /\ newState' = "keep" /\ now' = 0
          /\ UNCHANGED <<cur, err, failures>>
       \/ /\ ~Replaying
          /\ failures' = 0
          /\ Exit
    /\ UNCHANGED <<zammad, ntfy, spool, repeat, hushed>>

\* handle() returned: os.remove() a spooled file and go on with the next, or
\* clear_failures() and exit 0.
Finish ==
    /\ pc = "done"
    /\ handled' = job.id
    /\ IF job.skip
       THEN UNCHANGED <<last, paged>>
       ELSE last' = [last EXCEPT ![job.key] = job] /\ paged' = 0
    /\ \/ /\ Replaying
          /\ spool' = spool \ {FileOf(job)}
          /\ pc' = "replay"
          /\ job' = NoMsg /\ existing' = NoTicket
          /\ newState' = "keep" /\ now' = 0
          /\ UNCHANGED <<cur, err, failures>>
       \/ /\ ~Replaying
          /\ failures' = 0
          /\ Exit
          /\ UNCHANGED spool
    /\ UNCHANGED <<zammad, ntfy, repeat, hushed>>

-----------------------------------------------------------------------------
(* The run that failed *)

\* spool_message() of a transient failure creates the file, else nothing.
SpoolOpen ==
    /\ pc = "failed"
    /\ \/ /\ err = "transient" /\ ~cur.skip
          /\ spool' = spool \cup {[msg |-> cur, ok |-> FALSE]}
          /\ pc' = "spoolWrite"
       \/ /\ err # "transient" \/ cur.skip
          /\ pc' = "record"
          /\ UNCHANGED spool
    /\ UNCHANGED <<zammad, ntfy, cur, job, existing, newState, now, err, repeat,
                   failures, history>>

SpoolWrite ==
    /\ pc = "spoolWrite"
    /\ spool' = (spool \ {[msg |-> cur, ok |-> FALSE]}) \cup {FileOf(cur)}
    /\ pc' = "trim"
    /\ UNCHANGED <<zammad, ntfy, cur, job, existing, newState, now, err, repeat,
                   failures, history>>

SpoolTrim ==
    /\ pc = "trim"
    /\ spool' = Newest(spool)
    /\ pc' = "record"
    /\ UNCHANGED <<zammad, ntfy, cur, job, existing, newState, now, err, repeat,
                   failures, history>>

\* Mutant of RecordFailure: pages on every failure past the threshold.
RecordFailurePagesAgain ==
    /\ pc = "record"
    /\ failures' = failures + 1
    /\ IF failures + 1 >= Threshold
       THEN pc' = "publish" /\ UNCHANGED <<cur, job, existing, newState, now, err>>
       ELSE Exit
    /\ UNCHANGED <<zammad, ntfy, spool, repeat, history>>

\* record_failure(): count, then page keystone exactly at the threshold.
RecordFailure ==
    /\ pc = "record"
    /\ failures' = failures + 1
    /\ IF failures + 1 = Threshold
       THEN pc' = "publish" /\ UNCHANGED <<cur, job, existing, newState, now, err>>
       ELSE Exit
    /\ UNCHANGED <<zammad, ntfy, spool, repeat, history>>

\* publish_self_alert(); a failure to publish is swallowed.
PublishSelfAlert ==
    /\ pc = "publish"
    /\ alerts' \in {alerts, alerts + 1}
    /\ paged' = paged + 1
    /\ Exit
    /\ UNCHANGED <<zammad, next, stateDir, hushed, handled, last>>

-----------------------------------------------------------------------------
(* The rest of the world *)

\* The hook is killed, and systemd starts the CLI again.  The failures file is
\* truncated before it is rewritten, and reads as 0 then.
Crash ==
    /\ CanCrash /\ pc # "idle"
    /\ failures' \in IF pc = "record" THEN {failures, 0} ELSE {failures}
    /\ Exit
    /\ UNCHANGED <<zammad, ntfy, spool, repeat, history>>

ModeChange ==
    /\ mode' \in Modes \ {mode}
    /\ UNCHANGED <<tickets, clock, ntfy, hook, stateDir, history>>

Tick ==
    /\ clock < MaxTime
    /\ clock' = clock + 1
    /\ UNCHANGED <<tickets, mode, ntfy, hook, stateDir, history>>

\* An operator works on a ticket in Zammad's own interface.
Moved(move, t) ==
    CASE move = "take" -> [t EXCEPT !.state = "open"]
      [] move = "close" -> [t EXCEPT !.state = "closed", !.closedAt = clock]
      [] move = "pend" -> [t EXCEPT !.state = "pending"]
      [] move = "release" -> [t EXCEPT !.state = "open"]
      [] move = "reopen" -> [t EXCEPT !.state = "open"]
      [] OTHER -> [t EXCEPT !.managed = FALSE]

MayMove(move, t) ==
    CASE move = "take" -> t.state = "new"
      [] move = "close" -> t.state # "closed"
      [] move = "pend" -> t.state \in Active
      [] move = "release" -> t.state = "pending"
      [] move = "reopen" -> t.state = "closed"
      [] OTHER -> t.managed

Operator ==
    /\ \E move \in HumanMoves, i \in TicketIds :
         /\ MayMove(move, tickets[i])
         /\ tickets' = [tickets EXCEPT ![i] = Moved(move, @)]
    /\ UNCHANGED <<mode, clock, ntfy, hook, stateDir, history>>

Run ==
    \/ ReplayNext \/ HandleCurrent \/ SearchActive \/ SearchClosed \/ Decide
    \/ CheckTag \/ PutTicket \/ CreateTicket \/ AddTag \/ RememberArticle
    \/ Finish \/ SpoolOpen \/ SpoolWrite \/ SpoolTrim \/ RecordFailure
    \/ PublishSelfAlert

World == Deliver \/ DeliverSelfAlert \/ Crash \/ ModeChange \/ Tick \/ Operator

Next == Run \/ World

\* Every HTTP call of the hook has a timeout: a run that started goes on.
Spec == Init /\ [][Next]_vars /\ WF_vars(Run)

-----------------------------------------------------------------------------
(* Properties *)

ZammadType == tickets \in Seq(Ticket) /\ mode \in Modes /\ clock \in Nat

NtfyType == next \in Nat \ {0} /\ alerts \in Nat

HookType ==
    /\ pc \in Steps
    /\ cur \in Message \cup {NoMsg} /\ job \in Message \cup {NoMsg}
    /\ existing \in Existing
    /\ newState \in {"keep", "closed", "reopened"} /\ now \in Nat
    /\ err \in {"none", "transient", "rejected", "fatal"}

StateDirType ==
    /\ spool \in SUBSET SpoolFile
    /\ repeat \in [Keys -> Record]
    /\ failures \in Nat

HistoryType ==
    /\ hushed \in [Keys -> Nat] /\ handled \in Nat
    /\ last \in [Keys -> Message \cup {NoMsg}] /\ paged \in Nat

\* The hook has its message while it runs and a job while it handles one, and
\* the ticket it works on exists and is the job's.
InHand ==
    /\ (pc = "idle") = (cur = NoMsg)
    /\ pc \in HandleSteps => job # NoMsg
    /\ existing.id <= Len(tickets)
    /\ existing.closed => Found
    /\ pc \in {"checkTag", "put", "addTag"} => Found
    /\ pc \in {"decide", "checkTag", "put"} /\ Found =>
         tickets[existing.id].key = job.key

\* Every variable holds a value of its type, and the hook the message and the
\* ticket its next step needs.
TypeOK ==
    ZammadType /\ NtfyType /\ HookType /\ StateDirType /\ HistoryType /\ InHand

\* find_ticket(), then create or reopen, is check-then-act over HTTP with
\* operators in between (ntfy-zammad.py:102-106); it still never leaves two
\* active tickets for one correlation key, unless an operator himself brings
\* back a closed or pending ticket.
AtMostOneActive ==
    \A k \in Keys : \A i, j \in WithKey(k, Active) : i = j

NoActive(k) == WithKey(k, Active) = {}

\* Why that holds: from the search that finds no active ticket up to the
\* creation or the reopening, none appears; AtMostOneActive made inductive.
OneActiveInv ==
    /\ AtMostOneActive
    /\ pc = "searchClosed" => NoActive(job.key)
    /\ pc \in {"decide", "checkTag", "put", "create"}
         /\ (~Found \/ existing.closed) => NoActive(job.key)
    /\ pc = "put" /\ newState = "reopened" => existing.closed
    /\ pc = "create" => ~Found \/ existing.closed

\* bridge_opened_ticket() is read before the PUT that relies on it: the bridge
\* closes or reopens only tickets that carry its tag and are not denied, for
\* as long as nobody removes tags.
OnlyOwnedChangeState ==
    [][\A i \in TicketIds :
         hook' # hook /\ tickets'[i].state # tickets[i].state =>
           i \notin Denylist /\ tickets[i].managed]_vars

\* And when somebody does remove a tag between the read and the PUT: the hook
\* changes the state of no ticket but the one it found tagged when it decided to,
\* in the call before, and never of a denied one.
DecidedOnOwn ==
    [][/\ hook' # hook /\ pc' = "put" /\ newState' # "keep" => Owned(existing'.id)
       /\ \A i \in TicketIds :
            hook' # hook /\ tickets'[i].state # tickets[i].state =>
              pc = "put" /\ newState # "keep" /\ i = existing.id /\ i \notin Denylist]_vars

\* Why those hold: the ticket a PUT is about to close or reopen is not denied, and it
\* is still tagged if nobody removes tags.
NotDeniedInv == pc = "put" /\ newState # "keep" => existing.id \notin Denylist
OwnedInv ==
    pc = "put" /\ newState # "keep" =>
      existing.id \notin Denylist /\ tickets[existing.id].managed

Waits(k) == \E f \in spool : f.msg.key = k

\* What the tickets of key k must be like after message m.
Agrees(k, m) ==
    IF m.resolved
    THEN \A i \in WithKey(k, Active) : ~Owned(i)
    ELSE WithKey(k, Active) # {}

\* Between runs, with nothing of key k left in the spool, the ticket agrees
\* with the last message handled: an alert that fires has an active ticket, one
\* that recovered has no active ticket that is the bridge's own.  Holds through
\* outages and lost answers while nobody else moves tickets.
TicketReflectsAlert ==
    pc = "idle" => \A k \in Keys : ~Waits(k) /\ last[k] # NoMsg => Agrees(k, last[k])

\* Nothing of key k is in the spool or in hand since its last message was handled.
Quiet(k) == last[k] # NoMsg /\ ~Waits(k) /\ (cur # NoMsg => cur.key # k)

Settled == \A k \in Keys : Quiet(k) => Agrees(k, last[k])

\* The steps of handle() bring the ticket of the job into the state it asks for.
WorkInv ==
    /\ pc \in {"decide", "checkTag", "put"} /\ Found /\ ~existing.closed =>
         tickets[existing.id].state \in Active
    /\ pc = "checkTag" => job.resolved # existing.closed
    /\ pc = "put" =>
         IF job.resolved
         THEN /\ ~existing.closed /\ newState # "reopened"
              /\ newState = "keep" => ~Owned(existing.id)
         ELSE /\ newState # "closed"
              /\ existing.closed => newState = "reopened"
    /\ pc \in {"create", "addTag"} => ~job.resolved
    /\ pc = "addTag" => tickets[existing.id].key = job.key
    /\ pc \in {"addTag", "remember", "done"} => Agrees(job.key, job)

\* Why TicketReflectsAlert holds: what is not in hand stays as it was left.
ReflectInv == Settled /\ WorkInv

\* The articles of a ticket stand in the order in which ntfy delivered the
\* messages, whatever was spooled, replayed, or applied twice in between.
ArticlesInOrder ==
    \A i \in TicketIds :
      \A a, b \in DOMAIN tickets[i].log :
        a < b => tickets[i].log[a].id <= tickets[i].log[b].id

\* Why that holds: no article is newer than a message that is in the spool or in
\* hand.
ArticlesInv ==
    /\ ArticlesInOrder
    /\ \A i \in TicketIds : \A a \in DOMAIN tickets[i].log :
         /\ tickets[i].log[a].id < next
         /\ cur # NoMsg => tickets[i].log[a].id <= cur.id
         /\ \A f \in spool : tickets[i].log[a].id <= f.msg.id

\* The spool and the hook implement AlertQueue: the messages that wait are
\* those in the spool and the one in hand.
Waiting == {f.msg.id : f \in spool} \cup (IF cur = NoMsg THEN {} ELSE {cur.id})

Queue == INSTANCE AlertQueue WITH Numbers <- 1 .. MaxMsgs, waiting <- Waiting

HandledInOrder == Queue!Spec

\* Why that holds: the spool holds messages that came after the last one handled
\* and before the one in hand, each once, and what is replayed is the oldest.
QueueInv ==
    /\ handled < next
    /\ cur # NoMsg => handled < cur.id /\ cur.id < next
    /\ \A f \in spool : handled < f.msg.id /\ f.msg.id < next
    /\ \A f, g \in spool : f.msg.id = g.msg.id => f = g
    /\ pc \in HandleSteps \cup {"replay", "failed"} =>
         \A f \in spool : f.msg.id < cur.id
    /\ pc = "spoolWrite" =>
         \A f \in spool : f.msg.id = cur.id => f = [msg |-> cur, ok |-> FALSE]
    /\ pc \in HandleSteps =>
         IF Replaying
         THEN FileOf(job) \in spool /\ \A f \in spool : job.id <= f.msg.id
         ELSE spool = {}

\* Through outages and lost answers every message delivered has been handled
\* or is in the spool or in hand (with a spool that never overflows, no 4xx and
\* no self-alert).
NoMessageLost ==
    \A n \in 1 .. (next - 1) :
      n > handled => \/ \E f \in spool : f.msg.id = n
                     \/ cur.id = n

\* Why that holds: a run fails only on what is worth spooling, it does not end
\* before its message is in the spool, and the spool has room for all of them.
LossInv ==
    /\ NoMessageLost
    /\ next <= MaxMsgs + 1 /\ alerts = 0
    /\ failures < next /\ (pc # "idle" => failures + 1 < next)
    /\ pc # "publish"
    /\ cur # NoMsg => ~cur.skip
    /\ pc = "failed" => err = "transient"
    /\ \A f \in spool : ~f.msg.skip /\ (f.ok \/ (pc = "spoolWrite" /\ f.msg = cur))
    /\ pc \in {"trim", "record"} => \E f \in spool : f.msg = cur

\* f[1] + ... + f[n]
Total(f, n) ==
    LET sum[m \in 0 .. n] == IF m = 0 THEN 0 ELSE sum[m - 1] + f[m]
    IN sum[n]

\* The repeats that the articles of a ticket, and of a key, report.
ReportedIn(t) == Total([a \in DOMAIN t.log |-> t.log[a].count], Len(t.log))

Reported(k) ==
    Total([i \in TicketIds |->
             IF tickets[i].key = k THEN ReportedIn(tickets[i]) ELSE 0],
          Len(tickets))

\* Between runs every suppressed repeat of a key is either counted in an
\* article or still counted in the repeat record for the next one.
SuppressedAreReported ==
    pc = "idle" => \A k \in Keys : hushed[k] = Reported(k) + repeat[k].count

\* Why that holds: only between the PUT and remember_article() is a repeat in both,
\* and repeats are counted only while the key has an active ticket to report them.
Reset(k) == pc = "remember" /\ job.key = k

HushInv ==
    /\ \A k \in Keys :
         /\ hushed[k] = Reported(k) + IF Reset(k) THEN 0 ELSE repeat[k].count
         /\ repeat[k].count > 0 => Reset(k) \/ WithKey(k, Active) # {}
    /\ pc = "decide" /\ Found /\ ~existing.closed =>
         tickets[existing.id].state \in Active
    /\ pc = "addTag" => repeat[job.key].count = 0

\* The self-alert is published once per outage: not again before handle() has
\* got a message through to Zammad.
OneAlertPerOutage == paged <= 1

\* Why that holds: once the self-alert is out, the failures stay at the threshold
\* until a message is handled, for something waits in the spool until then.
PageInv ==
    /\ OneAlertPerOutage
    /\ paged > 0 => failures >= Threshold /\ spool # {}
    /\ pc = "publish" => failures >= Threshold /\ spool # {} /\ paged = 0
    /\ pc = "failed" => err = "transient" /\ (spool # {} \/ ~cur.skip)
    /\ pc \in {"spoolWrite", "trim", "record"} => spool # {}
    /\ pc = "spoolWrite" => ~cur.skip
    /\ pc \in HandleSteps \ {"done"} /\ ~Replaying => ~cur.skip
    /\ \A f \in spool : ~f.msg.skip /\ (f.ok \/ (pc = "spoolWrite" /\ f.msg = cur))

\* No file of the spool stops the replay of the files behind it.
BadPayloadNeverBlocks == pc = "failed" /\ spool # {} => Oldest.ok

\* A run that starts while Zammad is up and stays up empties the spool.
DrainsWhenUp == []((pc = "replay" /\ [](mode = "up")) => <>(spool = {}))
=============================================================================
