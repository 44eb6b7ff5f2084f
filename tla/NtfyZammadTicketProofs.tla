------------------------ MODULE NtfyZammadTicketProofs ------------------------
(***************************************************************************)
(* Theorems about what NtfyZammadBridge leaves in Zammad and about its     *)
(* self-alerts, on top of the invariants of NtfyZammadBridgeProofs.        *)
(***************************************************************************)
EXTENDS NtfyZammadBridgeProofs

-----------------------------------------------------------------------------
(* The articles of a ticket stand in order *)

\* What an earlier run left was delivered before the first message.
EarlierArticles ==
    \A t \in Preexisting : \A a \in DOMAIN t.log : t.log[a].id = 0

\* Nothing that waits becomes older.
Later ==
    /\ next <= next'
    /\ cur' # NoMsg => cur' = cur \/ cur'.id >= next
    /\ \A f \in spool' : f \in spool \/ (cur # NoMsg /\ f.msg = cur)

\* Steps that add no article.
LEMMA ArticlesKept ==
    ASSUME TypeOK, TypeOK', ArticlesInv, Later,
           \A i \in TicketIds' : i \in TicketIds /\ tickets'[i].log = tickets[i].log
    PROVE  ArticlesInv'
<1>1. /\ next \in Nat /\ next' \in Nat
      /\ cur \in Message \cup {NoMsg} /\ cur' \in Message \cup {NoMsg}
  BY DEF TypeOK, NtfyType, HookType
<1>2. cur' # NoMsg => cur'.id \in Nat
  BY <1>1 DEF Message
<1>3. \A i \in TicketIds : \A a \in DOMAIN tickets[i].log : tickets[i].log[a].id \in Nat
  <2> SUFFICES ASSUME NEW i \in TicketIds, NEW a \in DOMAIN tickets[i].log
               PROVE  tickets[i].log[a].id \in Nat
    OBVIOUS
  <2>1. tickets[i] \in Ticket
    BY DEF TypeOK, ZammadType, TicketIds
  <2>2. tickets[i].log \in Seq(Article)
    BY <2>1 DEF Ticket
  <2>3. tickets[i].log[a] \in Article
    BY <2>2
  <2> QED
    BY <2>3 DEF Article
<1>4. ArticlesInOrder'
  BY DEF ArticlesInv, ArticlesInOrder
<1> SUFFICES ASSUME NEW i \in TicketIds', NEW a \in DOMAIN tickets'[i].log
             PROVE  /\ tickets'[i].log[a].id < next'
                    /\ cur' # NoMsg => tickets'[i].log[a].id <= cur'.id
                    /\ \A f \in spool' : tickets'[i].log[a].id <= f.msg.id
  BY <1>4 DEF ArticlesInv
<1> DEFINE n == tickets[i].log[a].id
<1>5. /\ n \in Nat /\ n < next /\ (cur # NoMsg => n <= cur.id)
      /\ \A f \in spool : n <= f.msg.id
  BY <1>3 DEF ArticlesInv
<1>6. tickets'[i].log[a].id = n
  OBVIOUS
<1> HIDE DEF n
<1> QED
  BY <1>1, <1>2, <1>5, <1>6 DEF Later

\* The job is neither newer than what waits nor older than an article.
LEMMA JobIsNext ==
    ASSUME TypeOK, QueueInv, ArticlesInv, pc \in HandleSteps
    PROVE  /\ job.id \in Nat /\ job.id < next /\ job.id <= cur.id
           /\ \A f \in spool : job.id <= f.msg.id
           /\ \A i \in TicketIds : \A a \in DOMAIN tickets[i].log :
                tickets[i].log[a].id <= job.id
<1>1. job \in Message /\ cur \in Message
  BY NoMsgIsNone DEF TypeOK, HookType, InHand, HandleSteps
<1>2. job.id \in Nat /\ cur.id \in Nat /\ cur.id < next /\ next \in Nat
  BY <1>1, NoMsgIsNone DEF Message, QueueInv, TypeOK, NtfyType
<1>3. CASE Replaying
  <2>1. FileOf(job) \in spool /\ FileOf(job).msg = job
    BY <1>3 DEF QueueInv, FileOf
  <2>2. job.id < cur.id
    BY <2>1 DEF QueueInv
  <2> QED
    BY <1>2, <1>3, <2>1, <2>2 DEF QueueInv, ArticlesInv
<1>4. CASE ~Replaying
  <2>1. job = cur /\ spool = {} /\ cur # NoMsg
    BY <1>1, <1>4, NoMsgIsNone DEF QueueInv, Replaying
  <2> QED
    BY <1>2, <2>1 DEF ArticlesInv
<1> QED
  BY <1>3, <1>4

\* Steps that add an article about the job to ticket i.
LEMMA ArticleAdded ==
    ASSUME TypeOK, TypeOK', QueueInv, ArticlesInv, pc \in HandleSteps,
           UNCHANGED <<next, cur>>, spool' \subseteq spool,
           NEW i \in TicketIds', NEW log \in Seq(Article), NEW note \in Article,
           note.id = job.id,
           log = <<>> \/ (i \in TicketIds /\ log = tickets[i].log),
           tickets'[i].log = Append(log, note),
           \A j \in TicketIds' \ {i} : j \in TicketIds /\ tickets'[j].log = tickets[j].log
    PROVE  ArticlesInv'
<1>1. /\ job.id \in Nat /\ job.id < next /\ job.id <= cur.id
      /\ \A f \in spool : job.id <= f.msg.id
      /\ \A j \in TicketIds : \A a \in DOMAIN tickets[j].log :
           tickets[j].log[a].id <= job.id
  BY JobIsNext
<1>2. \A a \in DOMAIN log : a \in 1 .. Len(log) /\ log[a].id <= job.id
  BY <1>1
<1>3. \A a, b \in DOMAIN log : a < b => log[a].id <= log[b].id
  BY DEF ArticlesInv, ArticlesInOrder
<1>4. /\ DOMAIN Append(log, note) = 1 .. Len(log) + 1
      /\ \A a \in DOMAIN Append(log, note) :
           Append(log, note)[a] = IF a = Len(log) + 1 THEN note ELSE log[a]
      /\ DOMAIN log = 1 .. Len(log) /\ Len(log) \in Nat
  OBVIOUS
<1>5. \A a, b \in DOMAIN tickets'[i].log :
        a < b => tickets'[i].log[a].id <= tickets'[i].log[b].id
  <2> SUFFICES ASSUME NEW a \in 1 .. Len(log) + 1, NEW b \in 1 .. Len(log) + 1, a < b
               PROVE  Append(log, note)[a].id <= Append(log, note)[b].id
    BY <1>4
  <2>1. a \in DOMAIN log /\ Append(log, note)[a] = log[a]
    BY <1>4
  <2>2. CASE b = Len(log) + 1
    BY <1>2, <1>4, <2>1, <2>2
  <2>3. CASE b # Len(log) + 1
    BY <1>3, <1>4, <2>1, <2>3
  <2> QED
    BY <2>2, <2>3
<1>6. \A a \in DOMAIN tickets'[i].log : tickets'[i].log[a].id \in Nat /\ tickets'[i].log[a].id <= job.id
  <2> SUFFICES ASSUME NEW a \in 1 .. Len(log) + 1
               PROVE  Append(log, note)[a].id \in Nat /\ Append(log, note)[a].id <= job.id
    BY <1>4
  <2>1. Append(log, note)[a] \in Article
    OBVIOUS
  <2>2. Append(log, note)[a].id \in Nat
    BY <2>1 DEF Article
  <2> QED
    BY <1>1, <1>2, <1>4, <2>2
<1>7. ArticlesInOrder'
  BY <1>5 DEF ArticlesInv, ArticlesInOrder
<1>8. cur \in Message /\ cur.id \in Nat /\ next \in Nat
  BY NoMsgIsNone DEF TypeOK, HookType, InHand, HandleSteps, Message, NtfyType
<1>9. \A f \in spool : f.msg.id \in Nat
  BY DEF TypeOK, StateDirType, SpoolFile, Message
<1>10. \A a \in DOMAIN tickets'[i].log :
         /\ tickets'[i].log[a].id < next /\ tickets'[i].log[a].id <= cur.id
         /\ \A f \in spool : tickets'[i].log[a].id <= f.msg.id
  <2> SUFFICES ASSUME NEW n \in Nat, n <= job.id
               PROVE  n < next /\ n <= cur.id /\ \A f \in spool : n <= f.msg.id
    BY <1>6
  <2> QED
    BY <1>1, <1>8, <1>9
<1>11. \A j \in TicketIds' \ {i} : \A a \in DOMAIN tickets'[j].log :
         /\ tickets'[j].log[a].id < next /\ (cur # NoMsg => tickets'[j].log[a].id <= cur.id)
         /\ \A f \in spool : tickets'[j].log[a].id <= f.msg.id
  BY DEF ArticlesInv
<1> QED
  BY <1>7, <1>10, <1>11 DEF ArticlesInv

LEMMA ArticlesInit == EarlierArticles /\ Init => ArticlesInv
<1> SUFFICES ASSUME EarlierArticles, Init PROVE ArticlesInv
  OBVIOUS
<1>1. \A i \in TicketIds : tickets[i] \in Preexisting
  <2>1. CASE tickets = <<>>
    BY <2>1 DEF TicketIds
  <2>2. ASSUME NEW t \in Preexisting, tickets = <<t>>
        PROVE  \A i \in TicketIds : tickets[i] \in Preexisting
    BY <2>2 DEF TicketIds
  <2> QED
    BY <2>1, <2>2 DEF Init
<1>2. \A i \in TicketIds : \A a \in DOMAIN tickets[i].log : tickets[i].log[a].id = 0
  BY <1>1 DEF EarlierArticles
<1> QED
  BY <1>2 DEF Init, ArticlesInv, ArticlesInOrder

LEMMA ArticlesNext ==
    ASSUME TypeOK, TypeOK', QueueInv, ArticlesInv, [Next]_vars
    PROVE  ArticlesInv'
<1> USE DEF zammad, ntfy, hook, stateDir, history
<1>1. next \in Nat
  BY DEF TypeOK, NtfyType
\* Steps that leave the tickets alone.
<1>2. ASSUME UNCHANGED <<tickets, next>>, cur' = cur \/ cur' = NoMsg,
             \A f \in spool' : f \in spool \/ (cur # NoMsg /\ f.msg = cur)
      PROVE  ArticlesInv'
  <2>1. Later
    BY <1>1, <1>2 DEF Later
  <2> QED
    BY <1>2, <2>1, ArticlesKept DEF TicketIds
<1>3. CASE UNCHANGED vars
  BY <1>2, <1>3 DEF vars
<1>4. CASE Deliver \/ DeliverSelfAlert
  <2>1. PICK m : Start(m) /\ m.id = next
    <3>1. CASE Deliver
      <4>1. PICK k \in Keys, r \in BOOLEAN, s \in Sevs :
              Start([id |-> next, key |-> k, resolved |-> r, sev |-> s, skip |-> FALSE])
        BY <3>1 DEF Deliver
      <4> DEFINE m == [id |-> next, key |-> k, resolved |-> r, sev |-> s, skip |-> FALSE]
      <4>2. m.id = next
        OBVIOUS
      <4> HIDE DEF m
      <4> QED
        BY <4>1, <4>2 DEF m
    <3>2. CASE DeliverSelfAlert
      <4>1. PICK k \in Keys, s \in Sevs :
              Start([id |-> next, key |-> k, resolved |-> FALSE, sev |-> s, skip |-> TRUE])
        BY <3>2 DEF DeliverSelfAlert
      <4> DEFINE m == [id |-> next, key |-> k, resolved |-> FALSE, sev |-> s, skip |-> TRUE]
      <4>2. m.id = next
        OBVIOUS
      <4> HIDE DEF m
      <4> QED
        BY <4>1, <4>2 DEF m
    <3> QED
      BY <1>4, <3>1, <3>2
  <2>2. Later /\ UNCHANGED tickets
    BY <1>1, <2>1 DEF Later, Start
  <2> QED
    BY <2>2, ArticlesKept DEF TicketIds
<1>5. CASE ReplayNext \/ HandleCurrent \/ Decide \/ RememberArticle
  BY <1>2, <1>5 DEF ReplayNext, HandleCurrent, Decide, RememberArticle
<1>6. CASE SearchActive \/ SearchClosed \/ CheckTag
  <2>1. UNCHANGED <<tickets, next, cur>> /\ spool' \subseteq spool
    BY <1>6 DEF SearchActive, SearchClosed, CheckTag, Answered
  <2> QED
    BY <1>2, <2>1
<1>7. CASE PutTicket
  <2> DEFINE i == existing.id
             note == Note(repeat[job.key].count)
  <2>1. /\ UNCHANGED <<next, cur>> /\ spool' \subseteq spool /\ pc \in HandleSteps
        /\ pc = "put"
    BY <1>7 DEF PutTicket, Answered, HandleSteps
  <2>2. i \in TicketIds /\ tickets[i] \in Ticket /\ tickets \in Seq(Ticket)
    BY <2>1 DEF TypeOK, InHand, Found, HookType, Existing, ZammadType, TicketIds
  <2>3. CASE UNCHANGED tickets
    BY <1>2, <2>1, <2>3
  <2>4. CASE tickets' = [tickets EXCEPT ![i] = Updated(tickets[i], newState)]
    <3>1. note \in Article /\ note.id = job.id
      <4>1. job \in Message /\ now \in Nat
        BY <2>1 DEF TypeOK, HookType, InHand, HandleSteps
      <4>2. repeat[job.key].count \in Nat
        BY <4>1 DEF TypeOK, StateDirType, Record, NoRecord, Message
      <4> QED
        BY <4>1, <4>2 DEF Note, Article, AlertState, AlertStateOf, Message
    <3>2. tickets[i].log \in Seq(Article)
      BY <2>2 DEF Ticket
    <3>3. Updated(tickets[i], newState).log = Append(tickets[i].log, note)
      BY <2>2 DEF Updated, Ticket
    <3>4. /\ TicketIds' = TicketIds /\ tickets'[i].log = Append(tickets[i].log, note)
          /\ \A j \in TicketIds \ {i} : tickets'[j] = tickets[j]
      BY <2>2, <2>4, <3>3 DEF TicketIds
    <3> HIDE DEF note, i
    <3> QED
      BY <2>1, <2>2, <3>1, <3>2, <3>4, ArticleAdded
  <2> QED
    BY <1>7, <2>3, <2>4 DEF PutTicket
<1>8. CASE CreateTicket
  <2> DEFINE i == Len(tickets) + 1
             note == Note(0)
             new == [key |-> job.key, state |-> "new", managed |-> FALSE,
                     closedAt |-> 0, log |-> <<note>>]
  <2>1. UNCHANGED <<next, cur>> /\ spool' \subseteq spool /\ pc \in HandleSteps
    BY <1>8 DEF CreateTicket, Answered, HandleSteps
  <2>2. CASE UNCHANGED tickets
    BY <1>2, <2>1, <2>2
  <2>3. CASE tickets' = Append(tickets, new)
    <3>1. note \in Article /\ note.id = job.id
      <4>1. job \in Message /\ now \in Nat
        BY <2>1 DEF TypeOK, HookType, InHand, HandleSteps
      <4> QED
        BY <4>1 DEF Note, Article, AlertState, AlertStateOf, Message
    <3>2. new.log = Append(<<>>, note) /\ <<>> \in Seq(Article)
      OBVIOUS
    <3>3. tickets \in Seq(Ticket)
      BY DEF TypeOK, ZammadType
    <3>4. /\ TicketIds' = TicketIds \cup {i} /\ tickets'[i].log = Append(<<>>, note)
          /\ \A j \in TicketIds : j # i /\ tickets'[j] = tickets[j]
      BY <2>3, <3>2, <3>3 DEF TicketIds
    <3>5. i \in TicketIds' /\ \A j \in TicketIds' \ {i} :
                                j \in TicketIds /\ tickets'[j].log = tickets[j].log
      BY <3>4
    <3> HIDE DEF note, i
    <3> QED
      BY <2>1, <3>1, <3>2, <3>4, <3>5, ArticleAdded
  <2> QED
    BY <1>8, <2>2, <2>3 DEF CreateTicket
<1>9. CASE AddTag
  <2> DEFINE i == existing.id
  <2>1. UNCHANGED <<next, cur>> /\ spool' \subseteq spool /\ pc = "addTag"
    BY <1>9 DEF AddTag, Answered
  <2>2. i \in TicketIds /\ tickets[i] \in Ticket /\ tickets \in Seq(Ticket)
    BY <2>1 DEF TypeOK, InHand, Found, HookType, Existing, ZammadType, TicketIds
  <2>3. CASE UNCHANGED tickets
    BY <1>2, <2>1, <2>3
  <2>4. CASE tickets' = [tickets EXCEPT ![i] = [tickets[i] EXCEPT !.managed = TRUE]]
    <3>1. [tickets[i] EXCEPT !.managed = TRUE].log = tickets[i].log
      BY <2>2 DEF Ticket
    <3>2. TicketIds' = TicketIds /\ \A j \in TicketIds : tickets'[j].log = tickets[j].log
      BY <2>2, <2>4, <3>1 DEF TicketIds
    <3>3. Later
      BY <1>1, <2>1 DEF Later
    <3> QED
      BY <3>2, <3>3, ArticlesKept
  <2> QED
    BY <1>9, <2>3, <2>4 DEF AddTag
<1>10. CASE Finish
  <2>1. UNCHANGED <<tickets, next>> /\ spool' \subseteq spool /\ (cur' = cur \/ cur' = NoMsg)
    BY <1>10 DEF Finish, Exit
  <2> QED
    BY <1>2, <2>1
<1>11. CASE SpoolOpen \/ SpoolWrite \/ SpoolTrim
  <2>1. UNCHANGED <<tickets, next, cur>> /\ cur # NoMsg
    BY <1>11 DEF SpoolOpen, SpoolWrite, SpoolTrim, TypeOK, InHand
  <2>2. \A f \in spool' : f \in spool \/ f.msg = cur
    <3>1. FileOf(cur).msg = cur /\ [msg |-> cur, ok |-> FALSE].msg = cur
      BY DEF FileOf
    <3>2. CASE SpoolOpen
      BY <3>1, <3>2 DEF SpoolOpen
    <3>3. CASE SpoolWrite
      BY <3>1, <3>3 DEF SpoolWrite
    <3>4. CASE SpoolTrim
      BY <3>4 DEF SpoolTrim, Newest
    <3> QED
      BY <1>11, <3>2, <3>3, <3>4
  <2> QED
    BY <1>2, <2>1, <2>2
<1>12. CASE RecordFailure \/ PublishSelfAlert \/ Crash
  BY <1>2, <1>12 DEF RecordFailure, PublishSelfAlert, Crash, Exit
<1>13. CASE ModeChange \/ Tick
  BY <1>2, <1>13 DEF ModeChange, Tick
<1>14. CASE Operator
  <2>1. PICK move \in HumanMoves, i \in TicketIds :
          tickets' = [tickets EXCEPT ![i] = Moved(move, tickets[i])]
    BY <1>14 DEF Operator
  <2>2. tickets[i] \in Ticket /\ tickets \in Seq(Ticket)
    BY DEF TypeOK, ZammadType, TicketIds
  <2>3. Moved(move, tickets[i]).log = tickets[i].log
    BY <2>2 DEF Moved, Ticket
  <2>4. TicketIds' = TicketIds /\ \A j \in TicketIds : tickets'[j].log = tickets[j].log
    BY <2>1, <2>2, <2>3 DEF TicketIds
  <2>5. Later
    BY <1>1, <1>14 DEF Operator, Later
  <2> QED
    BY <2>4, <2>5, ArticlesKept
<1> QED
  BY <1>3, <1>4, <1>5, <1>6, <1>7, <1>8, <1>9, <1>10, <1>11, <1>12, <1>13, <1>14
  DEF Next, Run, World

\* Every ticket tells what happened in the order in which ntfy delivered it,
\* through spooling, replay, answers lost after the change was applied, crashes
\* and operators, if what was there before was older. It is about order only: a
\* message whose PUT was applied without an answer is told again by its replay.
THEOREM ArticlesOrdered == EarlierArticles => (Spec => []ArticlesInOrder)
<1> SUFFICES ASSUME EarlierArticles PROVE Spec => []ArticlesInOrder
  OBVIOUS
<1>1. Init => QueueInv /\ ArticlesInv
  BY ArticlesInit DEF Init, QueueInv, HandleSteps
<1>2. TypeOK /\ TypeOK' /\ QueueInv /\ ArticlesInv /\ [Next]_vars =>
        QueueInv' /\ ArticlesInv'
  BY QueueNext, ArticlesNext
<1>3. ArticlesInv => ArticlesInOrder
  BY DEF ArticlesInv
<1> QED
  BY <1>1, <1>2, <1>3, TypeCorrect, PTL DEF Spec

-----------------------------------------------------------------------------
(* One self-alert per outage *)

\* Zammad is up, down or loses answers, and nothing kills the hook.
Outages == Modes \subseteq {"up", "down", "lossy"} /\ ~CanCrash

\* The newest message of the spool is kept when the spool is cut to its limit.
LEMMA TrimKeepsOne ==
    ASSUME TypeOK, QueueInv, spool # {}, SpoolMax > 0
    PROVE  Newest(spool) # {}
<1> DEFINE Ages == {next - f.msg.id : f \in spool}
<1>1. next \in Nat /\ \A f \in spool : f.msg.id \in Nat /\ f.msg.id < next
  BY DEF TypeOK, NtfyType, StateDirType, SpoolFile, Message, QueueInv
<1>2. Ages \subseteq Nat /\ Ages # {}
  BY <1>1
<1>3. PICK n \in Ages : \A m \in Ages : n <= m
  BY <1>2, SmallestNumber
<1>4. PICK f \in spool : n = next - f.msg.id
  BY <1>3
<1>5. \A g \in spool : g.msg.id <= f.msg.id
  BY <1>1, <1>3, <1>4
<1>6. {g \in spool : g.msg.id > f.msg.id} = {}
  BY <1>1, <1>5
<1>7. Cardinality({g \in spool : g.msg.id > f.msg.id}) < SpoolMax
  BY <1>6, FS_EmptySet
<1> QED
  BY <1>4, <1>7 DEF Newest

LEMMA PageNext ==
    ASSUME Outages, SpoolMax > 0, TypeOK, TypeOK', QueueInv, PageInv, [Next]_vars
    PROVE  PageInv'
<1> USE DEF zammad, ntfy, hook, stateDir, history, OneAlertPerOutage
<1>1. /\ spool \in SUBSET SpoolFile /\ failures \in Nat /\ paged \in Nat
      /\ mode \in Modes /\ Threshold \in Nat
      /\ cur \in Message \cup {NoMsg} /\ (pc = "idle") = (cur = NoMsg)
      /\ pc \in HandleSteps => job \in Message
  BY BridgeAssumption
  DEF TypeOK, ZammadType, StateDirType, HookType, HistoryType, InHand
\* What is left to show of a step that touches neither spool nor counters.
<1>2. ASSUME UNCHANGED <<spool, failures, paged>>,
             pc' \notin {"publish", "failed", "spoolWrite", "trim", "record"},
             pc' \in HandleSteps \ {"done"} /\ job' = cur' => ~cur'.skip,
             pc # "spoolWrite"
      PROVE  PageInv'
  BY <1>2 DEF PageInv, Replaying
<1>3. ASSUME UNCHANGED <<spool, failures, paged, pc, cur, job, err>> PROVE PageInv'
  BY <1>3 DEF PageInv, Replaying
\* A call that returns or raises.
<1>4. ASSUME NEW s \in HandleSteps, Answered(s), pc \in HandleSteps \ {"done"},
             UNCHANGED <<cur, failures, paged>>
      PROVE  PageInv'
  <2>1. mode \in {"up", "down", "lossy"}
    BY <1>1 DEF Outages
  <2>2. /\ UNCHANGED spool
        /\ \/ pc' = s /\ job' = job
           \/ pc' = "failed" /\ err' = "transient"
    <3>1. CASE mode = "up"
      <4>1. Answered(s)
        BY <1>4
      <4> QED
        BY ONLY <3>1, <4>1 DEF Answered
    <3>2. CASE mode \in {"down", "lossy"}
      <4>1. Failure = "transient"
        BY <3>2 DEF Failure
      <4> QED
        BY <1>4, <3>2, <4>1 DEF Answered
    <3> QED
      BY <2>1, <3>1, <3>2
  <2>3. CASE pc' = s /\ job' = job
    BY <1>2, <1>4, <2>2, <2>3 DEF PageInv, HandleSteps, Replaying
  <2>4. CASE pc' = "failed" /\ err' = "transient"
    <3>1. spool # {} \/ ~cur.skip
      BY <1>4 DEF PageInv, QueueInv
    <3> QED
      BY <1>4, <2>2, <2>4, <3>1 DEF PageInv, HandleSteps
  <2> QED
    BY <2>2, <2>3, <2>4
<1>5. CASE UNCHANGED vars
  BY <1>3, <1>5 DEF vars
<1>6. CASE Deliver \/ DeliverSelfAlert
  BY <1>2, <1>6 DEF Deliver, DeliverSelfAlert, Start, HandleSteps
<1>7. CASE Crash
  BY <1>7 DEF Crash, Outages
<1>8. CASE ReplayNext
  <2>1. Oldest \in spool /\ Oldest.ok
    BY <1>1, <1>8, OldestIsOldest DEF ReplayNext, PageInv
  <2>2. job' # cur
    <3>1. Oldest.msg.id < cur.id /\ Oldest.msg.id \in Nat
      BY <1>1, <1>8, <2>1 DEF ReplayNext, QueueInv, SpoolFile, Message
    <3> QED
      BY <1>8, <2>1, <3>1 DEF ReplayNext
  <2> QED
    BY <1>2, <1>8, <2>1, <2>2 DEF ReplayNext
<1>9. CASE HandleCurrent
  BY <1>2, <1>9 DEF HandleCurrent
<1>10. CASE SearchActive \/ SearchClosed \/ PutTicket \/ CreateTicket \/ AddTag
  BY <1>4, <1>10
  DEF SearchActive, SearchClosed, PutTicket, CreateTicket, AddTag, HandleSteps
<1>11. CASE CheckTag
  <2>1. CASE UNCHANGED <<job, err, spool>> /\ pc' \in {"create", "put"}
    BY <1>2, <1>11, <2>1 DEF CheckTag, PageInv, Replaying, HandleSteps
  <2>2. ASSUME NEW s \in {"create", "put"}, Answered(s) PROVE PageInv'
    BY <1>4, <1>11, <2>2 DEF CheckTag, HandleSteps
  <2> QED
    BY <1>11, <2>1, <2>2 DEF CheckTag
<1>12. CASE Decide \/ RememberArticle
  BY <1>2, <1>12 DEF Decide, RememberArticle, PageInv, Replaying, HandleSteps
<1>13. CASE Finish
  <2>1. CASE Replaying
    <3>1. FileOf(job) \in spool /\ ~FileOf(job).msg.skip
      BY <1>13, <2>1 DEF Finish, QueueInv, HandleSteps, PageInv
    <3>2. /\ paged' = 0 /\ spool' \subseteq spool /\ pc' = "replay"
          /\ pc = "done" /\ UNCHANGED <<cur, failures>>
      BY <1>13, <2>1, <3>1 DEF Finish, FileOf
    <3> QED
      BY <3>2 DEF PageInv, HandleSteps
  <2>2. CASE ~Replaying
    <3>1. spool = {} /\ UNCHANGED spool /\ pc' = "idle" /\ paged' \in {0, paged}
      BY <1>13, <2>2 DEF Finish, QueueInv, HandleSteps, Exit
    <3>2. paged = 0
      BY <1>1, <3>1 DEF PageInv
    <3> QED
      BY <3>1, <3>2 DEF PageInv, HandleSteps
  <2> QED
    BY <2>1, <2>2
<1>14. CASE SpoolOpen
  <2>1. /\ UNCHANGED <<cur, failures, paged>> /\ pc = "failed"
        /\ \/ ~cur.skip /\ spool' = spool \cup {[msg |-> cur, ok |-> FALSE]} /\ pc' = "spoolWrite"
           \/ cur.skip /\ spool' = spool /\ spool # {} /\ pc' = "record"
    BY <1>14 DEF SpoolOpen, PageInv
  <2>2. \A f \in spool' : ~f.msg.skip /\ (f.ok \/ (pc' = "spoolWrite" /\ f.msg = cur))
    BY <2>1 DEF PageInv
  <2>3. spool' # {}
    BY <2>1
  <2> QED
    BY <2>1, <2>2, <2>3 DEF PageInv, HandleSteps
<1>15. CASE SpoolWrite
  <2> DEFINE half == [msg |-> cur, ok |-> FALSE]
  <2>1. /\ spool' = (spool \ {half}) \cup {FileOf(cur)} /\ pc' = "trim"
        /\ UNCHANGED <<cur, failures, paged>> /\ pc = "spoolWrite"
    BY <1>15 DEF SpoolWrite
  <2>2. FileOf(cur).msg = cur /\ FileOf(cur).ok
    BY DEF FileOf
  <2>3. \A f \in spool : f.msg = cur /\ ~f.ok => f = half
    BY <1>1 DEF SpoolFile
  <2> HIDE DEF half
  <2>4. ASSUME NEW f \in spool \ {half} PROVE ~f.msg.skip /\ f.ok
    <3>1. ~f.msg.skip /\ (f.ok \/ f.msg = cur)
      BY DEF PageInv
    <3> QED
      BY <2>3, <3>1
  <2>5. ~cur.skip
    BY <2>1, <1>1 DEF PageInv
  <2>6. \A f \in spool' : ~f.msg.skip /\ f.ok
    BY <2>1, <2>2, <2>4, <2>5
  <2>7. spool' # {}
    BY <2>1
  <2> QED
    BY <2>1, <2>6, <2>7 DEF PageInv, HandleSteps
<1>16. CASE SpoolTrim
  <2>1. /\ spool' \subseteq spool /\ spool' # {} /\ pc' = "record" /\ pc = "trim"
        /\ UNCHANGED <<cur, failures, paged>>
    BY <1>16, TrimKeepsOne DEF SpoolTrim, PageInv, Newest
  <2> QED
    BY <2>1 DEF PageInv, HandleSteps
<1>17. CASE RecordFailure
  <2>1. /\ pc = "record" /\ spool # {} /\ UNCHANGED <<spool, paged>>
        /\ failures' = failures + 1
    BY <1>17 DEF RecordFailure, PageInv
  <2>2. CASE failures + 1 = Threshold
    <3>1. pc' = "publish" /\ cur' = cur /\ paged = 0
      BY <1>1, <1>17, <2>2 DEF RecordFailure, PageInv
    <3> QED
      BY <1>1, <2>1, <2>2, <3>1 DEF PageInv, HandleSteps
  <2>3. CASE failures + 1 # Threshold
    <3>1. pc' = "idle"
      BY <1>17, <2>3 DEF RecordFailure, Exit
    <3> QED
      BY <1>1, <2>1, <3>1 DEF PageInv, HandleSteps
  <2> QED
    BY <2>2, <2>3
<1>18. CASE PublishSelfAlert
  BY <1>18 DEF PublishSelfAlert, PageInv, Exit, HandleSteps
<1>19. CASE ModeChange \/ Tick \/ Operator
  BY <1>3, <1>19 DEF ModeChange, Tick, Operator
<1> QED
  BY <1>5, <1>6, <1>7, <1>8, <1>9, <1>10, <1>11, <1>12, <1>13, <1>14, <1>15, <1>16,
     <1>17, <1>18, <1>19
  DEF Next, Run, World

\* While Zammad is at worst down or loses answers and nothing kills the hook, the
\* self-alert goes out once until a message has got through: its own arrival,
\* later failures and a spool that overflows never send it again.
THEOREM OnePage == Outages /\ SpoolMax > 0 => (Spec => []OneAlertPerOutage)
<1> SUFFICES ASSUME Outages, SpoolMax > 0 PROVE Spec => []OneAlertPerOutage
  OBVIOUS
<1>1. Init => QueueInv /\ PageInv
  BY DEF Init, QueueInv, PageInv, OneAlertPerOutage, HandleSteps
<1>2. TypeOK /\ TypeOK' /\ QueueInv /\ PageInv /\ [Next]_vars => QueueInv' /\ PageInv'
  BY QueueNext, PageNext
<1>3. PageInv => OneAlertPerOutage
  BY DEF PageInv
<1> QED
  BY <1>1, <1>2, <1>3, TypeCorrect, PTL DEF Spec

-----------------------------------------------------------------------------
(* The ticket agrees with the last message *)

\* Agrees(k, m) after the step.
ActiveNext(k) ==
    {i \in 1 .. Len(tickets') : tickets'[i].key = k /\ tickets'[i].state \in Active}

AgreesNext(k, m) ==
    IF m.resolved
    THEN \A i \in ActiveNext(k) : i \in Denylist \/ ~tickets'[i].managed
    ELSE ActiveNext(k) # {}

\* The active tickets of the key stay, and none of them becomes the bridge's.
Kept(k) ==
    /\ ActiveNext(k) = WithKey(k, Active)
    /\ \A i \in WithKey(k, Active) : tickets'[i].managed => tickets[i].managed

LEMMA AgreesKept ==
    ASSUME NEW k, NEW m, Kept(k), Agrees(k, m)
    PROVE  AgreesNext(k, m)
BY DEF Kept, Agrees, AgreesNext, Owned

LEMMA AgreesPrime == AgreesNext(job'.key, job') => Agrees(job.key, job)'
BY DEF AgreesNext, ActiveNext, Agrees, WithKey, TicketIds, Owned

LEMMA SettledNext ==
    ASSUME Settled, UNCHANGED last, \A k \in Keys : Quiet(k)' => Quiet(k) /\ Kept(k)
    PROVE  Settled'
<1> SUFFICES ASSUME NEW k \in Keys, Quiet(k)' PROVE Agrees(k, last[k])'
  BY DEF Settled
<1>1. Agrees(k, last[k]) /\ Kept(k)
  BY DEF Settled
<1>2. AgreesNext(k, last[k])
  BY <1>1, AgreesKept
<1> QED
  BY <1>2 DEF AgreesNext, ActiveNext, Agrees, WithKey, TicketIds, Owned

LEMMA AllKept == UNCHANGED tickets => \A k : Kept(k)
BY DEF Kept, ActiveNext, WithKey, TicketIds

LEMMA OthersKept ==
    ASSUME TypeOK, NEW i \in TicketIds, NEW t,
           tickets' = [tickets EXCEPT ![i] = t], t.key = tickets[i].key,
           NEW k, k # tickets[i].key
    PROVE  Kept(k)
<1>1. tickets \in Seq(Ticket)
  BY DEF TypeOK, ZammadType
<1>2. Len(tickets') = Len(tickets) /\ tickets'[i] = t
      /\ \A j \in TicketIds : j # i => tickets'[j] = tickets[j]
  BY <1>1 DEF TicketIds
<1> QED
  BY <1>2 DEF Kept, ActiveNext, WithKey, TicketIds

LEMMA OthersKeptByNew ==
    ASSUME TypeOK, NEW t, tickets' = Append(tickets, t), NEW k, k # t.key
    PROVE  Kept(k)
<1>1. tickets \in Seq(Ticket)
  BY DEF TypeOK, ZammadType
<1>2. Len(tickets') = Len(tickets) + 1 /\ tickets'[Len(tickets) + 1] = t
      /\ \A j \in TicketIds : tickets'[j] = tickets[j]
  BY <1>1 DEF TicketIds
<1>3. Len(tickets) \in Nat
  BY <1>1
<1> QED
  BY <1>2, <1>3 DEF Kept, ActiveNext, WithKey, TicketIds

\* Operators who take and untag tickets keep them active and own none.
LEMMA OperatorKeeps ==
    ASSUME TypeOK, HumanMoves \subseteq {"take", "untag"}, Operator
    PROVE  /\ \A k : Kept(k)
           /\ TicketIds' = TicketIds
           /\ \A i \in TicketIds :
                /\ tickets'[i].key = tickets[i].key
                /\ tickets[i].state \in Active => tickets'[i].state \in Active
                /\ tickets'[i].managed => tickets[i].managed
<1>1. PICK move \in HumanMoves, i \in TicketIds :
        /\ MayMove(move, tickets[i])
        /\ tickets' = [tickets EXCEPT ![i] = Moved(move, tickets[i])]
  BY DEF Operator
<1> DEFINE t == Moved(move, tickets[i])
<1>2. tickets \in Seq(Ticket) /\ tickets[i] \in Ticket
  BY DEF TypeOK, ZammadType, TicketIds
<1>3. t.key = tickets[i].key
  BY <1>2, MovedType DEF TypeOK
<1>4. /\ t.state \in Active <=> tickets[i].state \in Active
      /\ t.managed => tickets[i].managed
  BY <1>1, <1>2 DEF Moved, MayMove, Active, Ticket
<1> HIDE DEF t
<1>5. Len(tickets') = Len(tickets) /\ tickets'[i] = t
      /\ \A j \in TicketIds : j # i => tickets'[j] = tickets[j]
  BY <1>1, <1>2 DEF TicketIds, t
<1>6. ASSUME NEW k PROVE Kept(k)
  BY <1>3, <1>4, <1>5 DEF Kept, ActiveNext, WithKey, TicketIds
<1> QED
  BY <1>3, <1>4, <1>5, <1>6 DEF TicketIds

LEMMA ReflectNext ==
    ASSUME Gentle, HumanMoves \subseteq {"take", "untag"},
           TypeOK, TypeOK', OneActiveInv, QueueInv, LossInv, ReflectInv, [Next]_vars
    PROVE  ReflectInv'
<1> USE DEF zammad, ntfy, hook, stateDir, history, ReflectInv
<1>1. /\ spool \in SUBSET SpoolFile /\ mode \in Modes /\ tickets \in Seq(Ticket)
      /\ cur \in Message \cup {NoMsg} /\ (pc = "idle") = (cur = NoMsg)
      /\ pc \in HandleSteps => job \in Message /\ job.key \in Keys
  BY DEF TypeOK, ZammadType, StateDirType, HookType, InHand, Message
<1>2. pc \in HandleSteps => job = cur \/ (Waits(job.key) /\ FileOf(job) \in spool)
  <2>1. FileOf(job).msg = job
    BY DEF FileOf
  <2> QED
    BY <2>1 DEF QueueInv, Replaying, Waits
\* The keys that are neither in the spool nor in hand.
<1>3. ASSUME UNCHANGED <<last, spool, cur>>, pc \in HandleSteps,
             \A k \in Keys : k # job.key => Kept(k)
      PROVE  Settled'
  <2> SUFFICES ASSUME NEW k \in Keys, Quiet(k)' PROVE Quiet(k) /\ Kept(k)
    BY <1>3, SettledNext
  <2>1. Quiet(k)
    BY <1>3 DEF Quiet, Waits
  <2>2. k # job.key
    BY <1>1, <1>2, <1>3, <2>1, NoMsgIsNone DEF Quiet
  <2> QED
    BY <1>3, <2>1, <2>2
<1>4. ASSUME UNCHANGED <<last, spool, cur>>, \A k : Kept(k) PROVE Settled'
  <2>1. \A k \in Keys : Quiet(k)' => Quiet(k)
    BY <1>4 DEF Quiet, Waits
  <2> QED
    BY <1>4, <2>1, SettledNext
\* Steps after which handle() has nothing to show.
<1>5. ASSUME pc' \notin {"decide", "checkTag", "put", "create", "addTag", "remember",
                         "done"}
      PROVE  WorkInv'
  BY <1>5 DEF WorkInv
\* A call that returns or raises.
<1>6. ASSUME NEW s \in HandleSteps, Answered(s)
      PROVE  /\ UNCHANGED spool
             /\ \/ mode = "up" /\ pc' = s /\ job' = job
                \/ pc' = "failed"
  <2>1. mode \in {"up", "down", "lossy"}
    BY <1>1 DEF Gentle
  <2> QED
    BY <1>6, <2>1 DEF Answered
<1>7. CASE UNCHANGED vars \/ ModeChange \/ Tick
  <2>1. UNCHANGED <<tickets, last, spool, cur, pc, job, existing, newState>>
    BY <1>7 DEF vars, ModeChange, Tick
  <2>2. Settled'
    BY <1>4, <2>1, AllKept
  <2>3. WorkInv'
    BY <2>1 DEF WorkInv, Agrees, WithKey, TicketIds, Owned, Found
  <2> QED
    BY <2>2, <2>3
<1>8. CASE Operator
  <2>1. /\ \A k : Kept(k)
        /\ TicketIds' = TicketIds
        /\ \A i \in TicketIds :
             /\ tickets'[i].key = tickets[i].key
             /\ tickets[i].state \in Active => tickets'[i].state \in Active
             /\ tickets'[i].managed => tickets[i].managed
    BY <1>8, OperatorKeeps
  <2>2. UNCHANGED <<last, spool, cur, pc, job, existing, newState>>
    BY <1>8 DEF Operator
  <2>3. Settled'
    BY <1>4, <2>1, <2>2
  <2>4. Agrees(job.key, job) => Agrees(job.key, job)'
    BY <2>1, <2>2, AgreesKept, AgreesPrime
  <2>5. existing.id # 0 => existing.id \in TicketIds
    BY DEF TypeOK, HookType, InHand, Existing, TicketIds
  <2>6. pc \in {"checkTag", "put", "addTag"} => existing.id \in TicketIds
    BY <2>5 DEF TypeOK, InHand, Found
  <2>7. WorkInv'
    BY <2>1, <2>2, <2>4, <2>5, <2>6 DEF WorkInv, Owned, Found
  <2> QED
    BY <2>3, <2>7
<1>9. CASE Deliver \/ DeliverSelfAlert \/ Crash \/ PublishSelfAlert
  <2>1. /\ UNCHANGED <<tickets, last, spool>> /\ cur = NoMsg /\ pc' = "replay"
    BY <1>1, <1>9 DEF Deliver, DeliverSelfAlert, Crash, PublishSelfAlert, Start, Gentle,
       LossInv
  <2>2. \A k \in Keys : Quiet(k)' => Quiet(k)
    BY <2>1 DEF Quiet, Waits
  <2> QED
    BY <1>5, <2>1, <2>2, AllKept, SettledNext
<1>10. CASE ReplayNext \/ HandleCurrent
  <2>1. UNCHANGED <<tickets, last, spool, cur>>
    BY <1>10 DEF ReplayNext, HandleCurrent
  <2>2. pc' \in {"search", "failed"}
    BY <1>1, <1>10 DEF ReplayNext, HandleCurrent, LossInv
  <2> QED
    BY <1>4, <1>5, <2>1, <2>2, AllKept
<1>11. CASE SearchActive
  <2>1. UNCHANGED <<tickets, last, cur>> /\ pc \in HandleSteps
    BY <1>11, <1>6 DEF SearchActive, HandleSteps
  <2>2. CASE Answered("searchClosed")
    <3>1. UNCHANGED spool /\ pc' \in {"searchClosed", "failed"}
      BY <1>6, <2>2 DEF HandleSteps
    <3> QED
      BY <1>4, <1>5, <2>1, <3>1, AllKept
  <2>3. CASE Answered("decide")
              /\ \E i \in WithKey(job.key, Active) : existing'.id = i
    <3>1. UNCHANGED spool /\ pc' \in {"decide", "failed"}
      BY <1>6, <2>3 DEF HandleSteps
    <3>2. tickets'[existing'.id].state \in Active
      BY <2>1, <2>3 DEF WithKey
    <3> QED
      BY <1>4, <2>1, <3>1, <3>2, AllKept DEF WorkInv
  <2> QED
    BY <1>11, <2>2, <2>3 DEF SearchActive
<1>12. CASE SearchClosed
  <2>1. UNCHANGED <<tickets, last, cur>> /\ Answered("decide")
    BY <1>12 DEF SearchClosed
  <2>2. UNCHANGED spool /\ pc' \in {"decide", "failed"}
    BY <1>6, <2>1 DEF HandleSteps
  <2>3. existing'.closed \/ existing'.id = 0
    BY <1>12 DEF SearchClosed, NoTicket
  <2> QED
    BY <1>4, <2>1, <2>2, <2>3, AllKept DEF WorkInv, Found
<1>13. CASE Decide
  <2>1. UNCHANGED <<tickets, last, cur, spool, job, existing>> /\ pc = "decide"
    BY <1>13 DEF Decide
  <2>2. ~Found \/ existing.closed => NoActive(job.key)
    BY <2>1 DEF OneActiveInv
  <2>3. Found /\ ~existing.closed => existing.id \in WithKey(job.key, Active)
    BY <2>1 DEF WorkInv, WithKey, TicketIds, TypeOK, HookType, InHand, Existing, Found
  <2>4. pc' = "done" => Agrees(job.key, job)
    BY <1>13, <2>2, <2>3 DEF Decide, Agrees, NoActive
  <2>5. pc' = "done" => Agrees(job.key, job)'
    BY <2>1, <2>4, AllKept, AgreesKept, AgreesPrime
  <2>6. /\ pc' \in {"done", "checkTag", "create", "put"}
        /\ pc' = "checkTag" => job.resolved # existing.closed
        /\ pc' = "create" => ~job.resolved
        /\ pc' = "put" => ~job.resolved /\ ~existing.closed /\ newState' = "keep" /\ Found
    <3>1. job.resolved \in BOOLEAN /\ existing.closed \in BOOLEAN
      BY <1>1, <2>1 DEF Message, TypeOK, HookType, Existing, HandleSteps
    <3> QED
      BY <1>13, <3>1 DEF Decide
  <2>7. WorkInv'
    BY <2>1, <2>3, <2>5, <2>6 DEF WorkInv, WithKey, Found
  <2> QED
    BY <1>4, <2>1, <2>7, AllKept
<1>14. CASE CheckTag
  <2>1. UNCHANGED <<tickets, last, cur, existing>> /\ pc = "checkTag" /\ Found
    BY <1>14 DEF CheckTag, TypeOK, InHand
  <2>2. UNCHANGED spool /\ (pc' = "failed" \/ job' = job)
    BY <1>6, <1>14 DEF CheckTag, HandleSteps
  <2>3. /\ pc' \in {"put", "create", "failed"}
        /\ pc' = "create" => existing.closed
        /\ pc' = "put" => /\ newState' = "keep" => ~Owned(existing.id) /\ ~existing.closed
                          /\ newState' = "closed" => ~existing.closed
                          /\ newState' = "reopened" => existing.closed
    BY <1>6, <1>14 DEF CheckTag, HandleSteps
  <2>4. /\ job.resolved # existing.closed
        /\ job.resolved \in BOOLEAN /\ existing.closed \in BOOLEAN
    BY <1>1, <2>1 DEF WorkInv, Message, TypeOK, HookType, Existing, HandleSteps
  <2>5. newState' \in {"keep", "closed", "reopened"}
    BY DEF TypeOK, HookType
  <2>6. WorkInv'
    BY <2>1, <2>2, <2>3, <2>4, <2>5 DEF WorkInv, Found, Owned
  <2> QED
    BY <1>4, <2>1, <2>2, <2>6, AllKept
<1>15. CASE PutTicket
  <2> DEFINE i == existing.id
             t == Updated(tickets[i], newState)
  <2>1. /\ UNCHANGED <<cur, last, existing>> /\ Answered("remember") /\ pc = "put"
        /\ tickets' = IF Applied THEN [tickets EXCEPT ![i] = t] ELSE tickets
    BY <1>15 DEF PutTicket
  <2>2. i \in TicketIds /\ tickets[i] \in Ticket /\ tickets[i].key = job.key
    BY <2>1 DEF TypeOK, InHand, Found, HookType, Existing, ZammadType, TicketIds
  <2>3. UNCHANGED spool /\ (pc' = "failed" \/ (mode = "up" /\ pc' = "remember" /\ job' = job))
    BY <1>6, <2>1 DEF HandleSteps
  <2>4. /\ t.key = tickets[i].key
        /\ t.managed = tickets[i].managed
        /\ t.state = IF newState = "keep" THEN tickets[i].state ELSE newState
    BY <2>2 DEF Updated, Ticket
  <2> HIDE DEF t, i
  <2>5. \A k \in Keys : k # job.key => Kept(k)
    <3>1. CASE tickets' = [tickets EXCEPT ![i] = t]
      BY <2>2, <2>4, <3>1, OthersKept
    <3> QED
      BY <2>1, <3>1, AllKept
  <2>6. Settled'
    BY <1>3, <2>1, <2>3, <2>5 DEF HandleSteps
  <2>7. ASSUME mode = "up" PROVE AgreesNext(job.key, job)
    <3>1. /\ Len(tickets') = Len(tickets) /\ tickets'[i] = t
          /\ \A j \in TicketIds : j # i => tickets'[j] = tickets[j]
      BY <1>1, <2>1, <2>2, <2>7 DEF Applied, TicketIds
    <3>2. CASE ~job.resolved
      <4>1. t.state \in Active
        BY <2>1, <2>2, <2>4, <3>2 DEF WorkInv, Active, TypeOK, HookType, Found, TicketIds, i
      <4>2. i \in ActiveNext(job.key)
        BY <2>2, <2>4, <3>1, <4>1 DEF ActiveNext, TicketIds
      <4> QED
        BY <3>2, <4>2 DEF AgreesNext
    <3>3. CASE job.resolved
      <4>1. /\ tickets[i].state \in Active
            /\ newState = "closed" \/ (newState = "keep" /\ ~Owned(i))
        BY <2>1, <3>3 DEF WorkInv, TypeOK, HookType, InHand, i
      <4>2. WithKey(job.key, Active) \subseteq {i}
        <5>1. i \in WithKey(job.key, Active)
          BY <2>2, <4>1 DEF WithKey
        <5> QED
          BY <1>1, <2>1, <5>1 DEF OneActiveInv, AtMostOneActive, HandleSteps
      <4>3. ActiveNext(job.key) \subseteq {i}
        BY <3>1, <4>2 DEF ActiveNext, WithKey, TicketIds
      <4>4. i \in ActiveNext(job.key) => i \in Denylist \/ ~tickets'[i].managed
        BY <2>4, <3>1, <4>1 DEF ActiveNext, Active, Owned
      <4> QED
        BY <3>3, <4>3, <4>4 DEF AgreesNext
    <3> QED
      BY <3>2, <3>3
  <2>8. WorkInv'
    <3>1. CASE pc' = "failed"
      BY <1>5, <3>1
    <3>2. CASE mode = "up" /\ pc' = "remember" /\ job' = job
      BY <2>7, <3>2, AgreesPrime DEF WorkInv
    <3> QED
      BY <2>3, <3>1, <3>2
  <2> QED
    BY <2>6, <2>8
<1>16. CASE CreateTicket
  <2> DEFINE new == [key |-> job.key, state |-> "new", managed |-> FALSE,
                     closedAt |-> 0, log |-> <<Note(0)>>]
  <2>1. /\ UNCHANGED <<cur, last>> /\ Answered("addTag") /\ pc = "create"
        /\ \/ tickets' = Append(tickets, new) /\ existing'.id = Len(tickets) + 1
           \/ UNCHANGED tickets /\ mode # "up"
    BY <1>16 DEF CreateTicket, Applied
  <2>2. UNCHANGED spool /\ (pc' = "failed" \/ (mode = "up" /\ pc' = "addTag" /\ job' = job))
    BY <1>6, <2>1 DEF HandleSteps
  <2>3. new.key = job.key /\ new.state = "new"
    OBVIOUS
  <2> HIDE DEF new
  <2>4. \A k \in Keys : k # job.key => Kept(k)
    BY <2>1, <2>3, AllKept, OthersKeptByNew
  <2>5. Settled'
    BY <1>3, <2>1, <2>2, <2>4 DEF HandleSteps
  <2>6. CASE pc' = "failed"
    BY <1>5, <2>5, <2>6
  <2>7. CASE mode = "up" /\ pc' = "addTag" /\ job' = job
    <3>1. /\ Len(tickets) \in Nat /\ Len(tickets') = Len(tickets) + 1
          /\ tickets'[existing'.id] = new
      BY <1>1, <2>1, <2>7
    <3>2. ~job.resolved
      BY <2>1 DEF WorkInv
    <3>3. Len(tickets) + 1 \in ActiveNext(job.key)
      BY <2>1, <2>3, <2>7, <3>1 DEF ActiveNext, Active
    <3>4. AgreesNext(job'.key, job')
      BY <2>7, <3>2, <3>3 DEF AgreesNext
    <3>5. WorkInv'
      BY <2>3, <2>7, <3>1, <3>2, <3>4, AgreesPrime DEF WorkInv
    <3> QED
      BY <2>5, <3>5
  <2> QED
    BY <2>2, <2>6, <2>7
<1>17. CASE AddTag
  <2> DEFINE i == existing.id
             t == [tickets[i] EXCEPT !.managed = TRUE]
  <2>1. /\ UNCHANGED <<cur, last, existing>> /\ Answered("remember") /\ pc = "addTag"
        /\ tickets' = [tickets EXCEPT ![i] = t] \/ UNCHANGED tickets
    BY <1>17 DEF AddTag
  <2>2. i \in TicketIds /\ tickets[i] \in Ticket /\ tickets[i].key = job.key
    BY <2>1 DEF TypeOK, InHand, Found, HookType, Existing, ZammadType, TicketIds, WorkInv
  <2>3. UNCHANGED spool /\ (pc' = "failed" \/ (pc' = "remember" /\ job' = job))
    BY <1>6, <2>1 DEF HandleSteps
  <2>4. t.key = tickets[i].key /\ t.state = tickets[i].state
    BY <2>2 DEF Ticket
  <2> HIDE DEF t, i
  <2>5. \A k \in Keys : k # job.key => Kept(k)
    BY <2>1, <2>2, <2>4, AllKept, OthersKept
  <2>6. ActiveNext(job.key) = WithKey(job.key, Active)
    <3>1. CASE tickets' = [tickets EXCEPT ![i] = t]
      <4>1. /\ Len(tickets') = Len(tickets) /\ tickets'[i] = t
            /\ \A j \in TicketIds : j # i => tickets'[j] = tickets[j]
        BY <1>1, <2>2, <3>1 DEF TicketIds
      <4> QED
        BY <2>4, <4>1 DEF ActiveNext, WithKey, TicketIds
    <3> QED
      BY <2>1, <3>1, AllKept DEF Kept
  <2>7. AgreesNext(job.key, job)
    BY <2>1, <2>6 DEF WorkInv, Agrees, AgreesNext
  <2>8. WorkInv'
    BY <2>3, <2>7, AgreesPrime DEF WorkInv
  <2> QED
    BY <1>3, <2>1, <2>3, <2>5, <2>8 DEF HandleSteps
<1>18. CASE RememberArticle
  <2>1. /\ UNCHANGED <<tickets, last, cur, spool, job>> /\ pc = "remember" /\ pc' = "done"
    BY <1>18 DEF RememberArticle
  <2>2. Agrees(job.key, job)'
    BY <2>1, AllKept, AgreesKept, AgreesPrime DEF WorkInv
  <2> QED
    BY <1>4, <2>1, <2>2, AllKept DEF WorkInv
<1>19. CASE Finish
  <2>1. /\ UNCHANGED tickets /\ pc = "done" /\ pc' \in {"replay", "idle"}
        /\ job \in Message /\ job.key \in Keys
    BY <1>1, <1>19 DEF Finish, Exit, HandleSteps
  <2>2. ~job.skip
    <3>1. FileOf(job).msg = job
      BY DEF FileOf
    <3> QED
      BY <1>1, <1>2, <2>1, <3>1, NoMsgIsNone DEF LossInv, HandleSteps
  <2>3. last' = [last EXCEPT ![job.key] = job]
    BY <1>19, <2>2 DEF Finish
  <2>4. last \in [Keys -> Message \cup {NoMsg}]
    BY DEF TypeOK, HistoryType
  <2>5. ASSUME NEW k \in Keys, k # job.key, Quiet(k)' PROVE Quiet(k)
    <3>1. last'[k] = last[k]
      BY <2>1, <2>3, <2>4, <2>5
    <3>2. CASE Replaying
      <4>1. UNCHANGED cur /\ spool' = spool \ {FileOf(job)}
        BY <1>19, <3>2 DEF Finish
      <4> QED
        BY <2>5, <3>1, <4>1 DEF Quiet, Waits, FileOf
    <3>3. CASE ~Replaying
      <4>1. UNCHANGED spool /\ cur = job
        BY <1>19, <3>3 DEF Finish, Replaying
      <4> QED
        BY <2>5, <3>1, <4>1 DEF Quiet, Waits
    <3> QED
      BY <3>2, <3>3
  <2>6. ASSUME NEW k \in Keys, Quiet(k)' PROVE AgreesNext(k, last'[k])
    <3>1. CASE k = job.key
      <4>1. last'[k] = job
        BY <2>1, <2>3, <2>4, <3>1
      <4>2. Agrees(job.key, job)
        BY <2>1 DEF WorkInv
      <4> QED
        BY <2>1, <3>1, <4>1, <4>2, AllKept, AgreesKept
    <3>2. CASE k # job.key
      <4>1. last'[k] = last[k]
        BY <2>1, <2>3, <2>4, <3>2
      <4>2. Agrees(k, last[k])
        BY <2>5, <2>6, <3>2 DEF Settled
      <4> QED
        BY <2>1, <4>1, <4>2, AllKept, AgreesKept
    <3> QED
      BY <3>1, <3>2
  <2>7. Settled'
    BY <2>6 DEF Settled, AgreesNext, ActiveNext, Agrees, WithKey, TicketIds, Owned
  <2> QED
    BY <1>5, <2>1, <2>7
\* The run that failed.
<1>20. CASE SpoolOpen \/ SpoolWrite \/ SpoolTrim
  <2>1. /\ UNCHANGED <<tickets, last, cur>> /\ cur # NoMsg
        /\ pc' \in {"spoolWrite", "trim", "record"}
    BY <1>20 DEF SpoolOpen, SpoolWrite, SpoolTrim, TypeOK, InHand
  <2>2. \A f \in spool : f.msg.key # cur.key => f \in spool'
    <3>1. CASE SpoolOpen
      BY <3>1 DEF SpoolOpen
    <3>2. CASE SpoolWrite
      BY <3>2 DEF SpoolWrite
    <3>3. CASE SpoolTrim
      BY <3>3, NothingTrimmed DEF SpoolTrim, LossInv, Gentle
    <3> QED
      BY <1>20, <3>1, <3>2, <3>3
  <2>3. \A k \in Keys : Quiet(k)' => Quiet(k)
    BY <2>1, <2>2 DEF Quiet, Waits
  <2> QED
    BY <1>5, <2>1, <2>3, AllKept, SettledNext
<1>21. CASE RecordFailure
  <2>1. /\ UNCHANGED <<tickets, last, spool>> /\ pc' \in {"publish", "idle"}
        /\ Waits(cur.key)
    BY <1>21 DEF RecordFailure, Exit, LossInv, Waits
  <2>2. \A k \in Keys : Quiet(k)' => Quiet(k)
    BY <2>1 DEF Quiet, Waits
  <2> QED
    BY <1>5, <2>1, <2>2, AllKept, SettledNext
<1> QED
  BY <1>7, <1>8, <1>9, <1>10, <1>11, <1>12, <1>13, <1>14, <1>15, <1>16, <1>17, <1>18,
     <1>19, <1>20, <1>21
  DEF Next, Run, World

\* Through outages, lost answers, replays and operators who take or untag, a key
\* of which nothing waits has an active ticket if its last message was an alert,
\* and none of the bridge's own if it was a recovery.
THEOREM TicketsAgree ==
    Gentle /\ HumanMoves \subseteq {"take", "untag"} => (Spec => []TicketReflectsAlert)
<1> SUFFICES ASSUME Gentle, HumanMoves \subseteq {"take", "untag"}
             PROVE  Spec => []TicketReflectsAlert
  OBVIOUS
<1>1. Init => OneActiveInv /\ QueueInv /\ LossInv /\ ReflectInv
  <2>1. Init => QueueInv
    BY DEF Init, QueueInv, HandleSteps
  <2>2. Init => ReflectInv
    BY DEF Init, ReflectInv, Settled, Quiet, WorkInv
  <2> QED
    BY <2>1, <2>2, OneActiveInit, LossInit
<1>2. HumanMoves \cap {"release", "reopen"} = {}
  OBVIOUS
<1>3. TypeOK /\ TypeOK' /\ OneActiveInv /\ QueueInv /\ LossInv /\ ReflectInv
        /\ [Next]_vars => OneActiveInv' /\ QueueInv' /\ LossInv' /\ ReflectInv'
  BY <1>2, OneActiveNext, QueueNext, LossNext, ReflectNext
<1>4. TypeOK /\ ReflectInv => TicketReflectsAlert
  BY DEF TypeOK, InHand, ReflectInv, Settled, Quiet, TicketReflectsAlert
<1> QED
  BY <1>1, <1>3, <1>4, TypeCorrect, PTL DEF Spec

-----------------------------------------------------------------------------
(* Sums *)

\* s holds the partial sums of f up to n.
IsSum(s, f, n) ==
    /\ s \in [0 .. n -> Nat]
    /\ s[0] = 0
    /\ \A m \in 1 .. n : s[m] = s[m - 1] + f[m]

LEMMA SumExists ==
    ASSUME NEW n \in Nat, NEW f, \A m \in 1 .. n : f[m] \in Nat
    PROVE  \E s : IsSum(s, f, n)
<1> DEFINE Bad == {m \in 0 .. n : ~\E s : IsSum(s, f, m)}
<1>1. CASE Bad = {}
  BY <1>1
<1>2. CASE Bad # {}
  <2>0. Bad \subseteq Nat
    OBVIOUS
  <2>1. PICK m \in Bad : \A l \in Bad : m <= l
    BY <1>2, <2>0, SmallestNumber
  <2>2. CASE m = 0
    <3>1. IsSum([l \in 0 .. 0 |-> 0], f, 0)
      BY DEF IsSum
    <3> QED
      BY <2>1, <2>2, <3>1
  <2>3. CASE m # 0
    <3>1. m \in 1 .. n /\ m - 1 \in 0 .. n /\ m - 1 \notin Bad
      BY <2>1, <2>3
    <3>2. PICK s : IsSum(s, f, m - 1)
      BY <3>1
    <3> DEFINE t == [l \in 0 .. m |-> IF l = m THEN s[m - 1] + f[m] ELSE s[l]]
    <3>3. s[m - 1] + f[m] \in Nat
      BY <3>1, <3>2 DEF IsSum
    <3>4. t \in [0 .. m -> Nat] /\ t[0] = 0
      BY <3>1, <3>2, <3>3 DEF IsSum
    <3>5. \A l \in 1 .. m : t[l] = t[l - 1] + f[l]
      <4> SUFFICES ASSUME NEW l \in 1 .. m PROVE t[l] = t[l - 1] + f[l]
        OBVIOUS
      <4>1. CASE l = m
        <5>1. t[l] = s[m - 1] + f[m] /\ t[l - 1] = s[m - 1]
          BY <3>1, <4>1
        <5> QED
          BY <4>1, <5>1
      <4>2. CASE l # m
        <5>1. l \in 1 .. m - 1 /\ t[l] = s[l] /\ t[l - 1] = s[l - 1]
          BY <3>1, <4>2
        <5> QED
          BY <3>2, <5>1 DEF IsSum
      <4> QED
        BY <4>1, <4>2
    <3>6. IsSum(t, f, m)
      BY <3>4, <3>5 DEF IsSum
    <3> QED
      BY <2>1, <3>6
  <2> QED
    BY <2>2, <2>3
<1> QED
  BY <1>1, <1>2

\* Total(f, n) is the last of the partial sums.
LEMMA TotalIsSum ==
    ASSUME NEW n \in Nat, NEW f, \A m \in 1 .. n : f[m] \in Nat
    PROVE  \E s : IsSum(s, f, n) /\ Total(f, n) = s[n]
<1> DEFINE Def(s) == s = [m \in 0 .. n |-> IF m = 0 THEN 0 ELSE s[m - 1] + f[m]]
           sum == CHOOSE s : Def(s)
<1>1. PICK t : IsSum(t, f, n)
  BY SumExists
<1>2. Def(t)
  <2>1. t = [m \in 0 .. n |-> t[m]]
    BY <1>1 DEF IsSum
  <2>2. \A m \in 0 .. n : t[m] = IF m = 0 THEN 0 ELSE t[m - 1] + f[m]
    BY <1>1 DEF IsSum
  <2> QED
    BY <2>1, <2>2
<1>3. Def(sum)
  BY <1>2
<1>4. Total(f, n) = sum[n]
  BY DEF Total
<1> HIDE DEF sum
<1>5. /\ sum[0] = 0
      /\ \A m \in 1 .. n : sum[m] = sum[m - 1] + f[m]
  BY <1>3
<1> DEFINE Bad == {m \in 0 .. n : sum[m] \notin Nat}
<1>6. Bad = {}
  <2>1. SUFFICES ASSUME Bad # {} PROVE FALSE
    OBVIOUS
  <2>0. Bad \subseteq Nat
    OBVIOUS
  <2>2. PICK m \in Bad : \A l \in Bad : m <= l
    BY <2>0, <2>1, SmallestNumber
  <2>3. m \in 1 .. n /\ m - 1 \in 0 .. n /\ m - 1 \notin Bad
    BY <1>5, <2>2
  <2> QED
    BY <1>5, <2>2, <2>3
<1>7. sum \in [0 .. n -> Nat]
  BY <1>3, <1>6
<1> QED
  BY <1>4, <1>5, <1>7 DEF IsSum

\* Equal numbers have equal partial sums.
LEMMA SumsAgree ==
    ASSUME NEW n \in Nat, NEW l \in Nat, NEW j \in Nat, j <= n, j <= l,
           NEW f, NEW g, NEW s, NEW t, IsSum(s, f, n), IsSum(t, g, l),
           \A m \in 1 .. j : f[m] = g[m]
    PROVE  \A m \in 0 .. j : s[m] = t[m]
<1> DEFINE Bad == {m \in 0 .. j : s[m] # t[m]}
<1> SUFFICES ASSUME Bad # {} PROVE FALSE
  OBVIOUS
<1>0. Bad \subseteq Nat
  OBVIOUS
<1>1. PICK m \in Bad : \A k \in Bad : m <= k
  BY <1>0, SmallestNumber
<1>2. m \in 1 .. j /\ m - 1 \in 0 .. j /\ m - 1 \notin Bad
  BY <1>1 DEF IsSum
<1> QED
  BY <1>1, <1>2 DEF IsSum

LEMMA TotalType ==
    ASSUME NEW n \in Nat, NEW f, \A m \in 1 .. n : f[m] \in Nat
    PROVE  Total(f, n) \in Nat
BY TotalIsSum DEF IsSum

LEMMA TotalZero == ASSUME NEW f PROVE Total(f, 0) = 0
<1>1. PICK s : IsSum(s, f, 0) /\ Total(f, 0) = s[0]
  BY TotalIsSum
<1> QED
  BY <1>1 DEF IsSum

\* One number more.
LEMMA TotalStep ==
    ASSUME NEW n \in Nat, NEW f, NEW g, \A m \in 1 .. n + 1 : g[m] \in Nat,
           \A m \in 1 .. n : f[m] = g[m]
    PROVE  Total(g, n + 1) = Total(f, n) + g[n + 1]
<1>1. PICK s : IsSum(s, f, n) /\ Total(f, n) = s[n]
  BY TotalIsSum
<1>2. PICK t : IsSum(t, g, n + 1) /\ Total(g, n + 1) = t[n + 1]
  BY TotalIsSum
<1>3. s[n] = t[n]
  <2>1. n + 1 \in Nat /\ n <= n /\ n <= n + 1 /\ n \in 0 .. n
    OBVIOUS
  <2>2. \A m \in 0 .. n : s[m] = t[m]
    BY ONLY <1>1, <1>2, <2>1, SumsAgree, n \in Nat, \A m \in 1 .. n : f[m] = g[m]
  <2> QED
    BY <2>1, <2>2
<1> QED
  BY <1>1, <1>2, <1>3 DEF IsSum

\* One number changed.
LEMMA TotalPlus ==
    ASSUME NEW n \in Nat, NEW i \in 1 .. n, NEW f, NEW g,
           \A m \in 1 .. n : f[m] \in Nat /\ g[m] \in Nat,
           \A m \in 1 .. n : m # i => g[m] = f[m]
    PROVE  Total(g, n) = Total(f, n) + (g[i] - f[i])
<1> DEFINE d == g[i] - f[i]
<1>0. d \in Int /\ g[i] = f[i] + d
  OBVIOUS
<1> HIDE DEF d
<1>1. PICK s : IsSum(s, f, n) /\ Total(f, n) = s[n]
  BY TotalIsSum
<1>2. PICK t : IsSum(t, g, n) /\ Total(g, n) = t[n]
  BY TotalIsSum
<1>3. s[i - 1] = t[i - 1]
  BY <1>1, <1>2, SumsAgree
<1> DEFINE Bad == {m \in i .. n : t[m] # s[m] + d}
<1>4. Bad = {}
  <2>1. SUFFICES ASSUME Bad # {} PROVE FALSE
    OBVIOUS
  <2>0. Bad \subseteq Nat
    OBVIOUS
  <2>2. PICK m \in Bad : \A l \in Bad : m <= l
    BY <2>0, <2>1, SmallestNumber
  <2>3. m # i
    BY <1>0, <1>1, <1>2, <1>3, <2>2 DEF IsSum
  <2>4. m \in 1 .. n /\ m - 1 \in i .. n /\ m - 1 \notin Bad /\ m \in Nat
    BY <2>2, <2>3
  <2>5. g[m] = f[m] /\ t[m - 1] = s[m - 1] + d
    BY <2>3, <2>4
  <2>6. s[m] = s[m - 1] + f[m] /\ t[m] = t[m - 1] + g[m]
    BY <1>1, <1>2, <2>4 DEF IsSum
  <2>7. s[m - 1] \in Nat /\ f[m] \in Nat
    BY <1>1, <2>4 DEF IsSum
  <2> QED
    BY <1>0, <2>2, <2>5, <2>6, <2>7
<1> QED
  BY <1>1, <1>2, <1>4 DEF d

-----------------------------------------------------------------------------
(* Suppressed repeats are reported *)

LEMMA ReportedInType == ASSUME NEW t \in Ticket PROVE ReportedIn(t) \in Nat
<1>1. t.log \in Seq(Article)
  BY DEF Ticket
<1>2. /\ Len(t.log) \in Nat /\ DOMAIN t.log = 1 .. Len(t.log)
      /\ \A a \in 1 .. Len(t.log) : t.log[a] \in Article
  BY <1>1
<1>3. \A a \in 1 .. Len(t.log) : t.log[a].count \in Nat
  BY <1>2 DEF Article
<1> QED
  BY <1>2, <1>3, TotalType DEF ReportedIn

\* What a key's tickets report, one by one.
ReportedBy(k, i) == IF tickets[i].key = k THEN ReportedIn(tickets[i]) ELSE 0

LEMMA ReportedByType ==
    ASSUME TypeOK, NEW k, NEW i \in TicketIds PROVE ReportedBy(k, i) \in Nat
<1>1. tickets[i] \in Ticket
  BY DEF TypeOK, ZammadType, TicketIds
<1> QED
  BY <1>1, ReportedInType DEF ReportedBy

LEMMA ReportedType == ASSUME TypeOK, NEW k PROVE Reported(k) \in Nat
<1>1. Len(tickets) \in Nat
  BY DEF TypeOK, ZammadType
<1> DEFINE f == [i \in TicketIds |-> ReportedBy(k, i)]
<1>2. \A i \in 1 .. Len(tickets) : f[i] \in Nat
  BY ReportedByType DEF TicketIds
<1>3. Total(f, Len(tickets)) \in Nat
  BY <1>1, <1>2, TotalType
<1> QED
  BY <1>3 DEF Reported, ReportedBy

\* One ticket changed.
LEMMA ReportedMore ==
    ASSUME TypeOK, NEW i \in TicketIds, NEW t \in Ticket,
           tickets' = [tickets EXCEPT ![i] = t], t.key = tickets[i].key,
           NEW k
    PROVE  Reported(k)' = Reported(k)
             + IF k = t.key THEN ReportedIn(t) - ReportedIn(tickets[i]) ELSE 0
<1> DEFINE n == Len(tickets)
           f == [j \in 1 .. n |-> ReportedBy(k, j)]
           g == [j \in 1 .. n |->
                   IF tickets'[j].key = k THEN ReportedIn(tickets'[j]) ELSE 0]
<1>1. n \in Nat /\ i \in 1 .. n /\ tickets \in Seq(Ticket)
  BY DEF TypeOK, ZammadType, TicketIds
<1>2. Len(tickets') = n /\ tickets'[i] = t
      /\ \A j \in 1 .. n : j # i => tickets'[j] = tickets[j]
  BY <1>1
<1>3. \A j \in 1 .. n : f[j] \in Nat
  BY ReportedByType DEF TicketIds
<1>4. \A j \in 1 .. n : j # i => g[j] = f[j]
  BY <1>2 DEF ReportedBy
<1>5. ReportedIn(tickets[i]) \in Nat /\ ReportedIn(t) \in Nat
  BY <1>1, ReportedInType
<1>6. /\ f[i] = IF k = t.key THEN ReportedIn(tickets[i]) ELSE 0
      /\ g[i] = IF k = t.key THEN ReportedIn(t) ELSE 0
  BY <1>1, <1>2 DEF ReportedBy
<1>7. Reported(k) = Total(f, n)
  BY DEF Reported, ReportedBy, TicketIds
<1>8. Reported(k)' = Total(g, n)
  BY <1>2 DEF Reported, TicketIds
<1> HIDE DEF n, f, g
<1>9. \A j \in 1 .. n : f[j] \in Nat /\ g[j] \in Nat
  BY <1>3, <1>4, <1>5, <1>6
<1>10. Total(g, n) = Total(f, n) + (g[i] - f[i])
  BY ONLY <1>1, <1>4, <1>9, TotalPlus
<1> QED
  BY <1>5, <1>6, <1>7, <1>8, <1>10

\* A ticket more, that reports nothing.
LEMMA ReportedNew ==
    ASSUME TypeOK, NEW t, tickets' = Append(tickets, t), ReportedIn(t) = 0, NEW k
    PROVE  Reported(k)' = Reported(k)
<1> DEFINE n == Len(tickets)
           f == [j \in 1 .. n |-> ReportedBy(k, j)]
           g == [j \in 1 .. n + 1 |->
                   IF tickets'[j].key = k THEN ReportedIn(tickets'[j]) ELSE 0]
<1>1. n \in Nat /\ tickets \in Seq(Ticket)
  BY DEF TypeOK, ZammadType
<1>2. Len(tickets') = n + 1 /\ tickets'[n + 1] = t
      /\ \A j \in 1 .. n : tickets'[j] = tickets[j]
  BY <1>1
<1>3. \A j \in 1 .. n : f[j] \in Nat
  BY ReportedByType DEF TicketIds
<1>4. \A j \in 1 .. n : f[j] = g[j]
  BY <1>1, <1>2 DEF ReportedBy
<1>5. g[n + 1] = 0
  BY <1>1, <1>2
<1>6. Reported(k) = Total(f, n)
  BY DEF Reported, ReportedBy, TicketIds
<1>7. Reported(k)' = Total(g, n + 1)
  BY <1>2 DEF Reported, TicketIds
<1> HIDE DEF n, f, g
<1>8. \A j \in 1 .. n + 1 : g[j] \in Nat
  <2> SUFFICES ASSUME NEW j \in 1 .. n + 1 PROVE g[j] \in Nat
    OBVIOUS
  <2>1. j \in 1 .. n \/ j = n + 1
    BY <1>1
  <2> QED
    BY <1>3, <1>4, <1>5, <2>1
<1>9. Total(g, n + 1) = Total(f, n) + g[n + 1]
  BY <1>1, <1>4, <1>8, TotalStep
<1>10. Total(f, n) \in Nat
  BY <1>1, <1>3, TotalType
<1> QED
  BY <1>5, <1>6, <1>7, <1>9, <1>10

\* A ticket with the same articles reports the same.
LEMMA SameArticles ==
    ASSUME NEW t, NEW u, t.log = u.log PROVE ReportedIn(t) = ReportedIn(u)
BY DEF ReportedIn

\* The article of a PUT reports the repeats counted since the last one.
LEMMA UpdatedReports ==
    ASSUME TypeOK, NEW t \in Ticket, NEW s, repeat[job.key].count \in Nat
    PROVE  ReportedIn(Updated(t, s)) = ReportedIn(t) + repeat[job.key].count
<1> DEFINE c == repeat[job.key].count
           log == Append(t.log, Note(c))
           n == Len(t.log)
           f == [a \in DOMAIN t.log |-> t.log[a].count]
           g == [a \in DOMAIN log |-> log[a].count]
<1>1. t.log \in Seq(Article) /\ Updated(t, s).log = log
  BY DEF Ticket, Updated
<1>2. n \in Nat /\ DOMAIN t.log = 1 .. n /\ Len(log) = n + 1 /\ DOMAIN log = 1 .. n + 1
  BY <1>1
<1>3. log[n + 1] = Note(c) /\ \A a \in 1 .. n : log[a] = t.log[a]
  BY <1>1
<1>4. Note(c).count = c
  BY DEF Note
<1>5. \A a \in 1 .. n : f[a] \in Nat /\ f[a] = g[a]
  <2>1. \A a \in 1 .. n : t.log[a] \in Article
    BY <1>1
  <2>2. \A a \in 1 .. n : f[a] = t.log[a].count /\ f[a] \in Nat
    BY <1>2, <2>1 DEF Article
  <2>3. \A a \in 1 .. n : g[a] = t.log[a].count
    BY <1>2, <1>3
  <2> QED
    BY <2>2, <2>3
<1>6. g[n + 1] = c
  BY <1>2, <1>3, <1>4
<1>7. ReportedIn(t) = Total(f, n) /\ ReportedIn(Updated(t, s)) = Total(g, n + 1)
  BY <1>1, <1>2 DEF ReportedIn
<1> HIDE DEF n, f, g, c, log
<1>8. \A a \in 1 .. n + 1 : g[a] \in Nat
  <2> SUFFICES ASSUME NEW a \in 1 .. n + 1 PROVE g[a] \in Nat
    OBVIOUS
  <2>1. a \in 1 .. n \/ a = n + 1
    BY <1>2
  <2> QED
    BY <1>5, <1>6, <2>1 DEF c
<1> QED
  <2>1. Total(g, n + 1) = Total(f, n) + g[n + 1]
    BY ONLY <1>2, <1>5, <1>8, TotalStep
  <2> QED
    BY <1>6, <1>7, <2>1 DEF c

\* What Zammad does not answer it did not apply, and nothing kills the hook.
Clean == Modes \subseteq {"up", "down", "reject"} /\ ~CanCrash

LEMMA HushNext ==
    ASSUME Clean, HumanMoves \subseteq {"take", "untag"},
           TypeOK, TypeOK', OneActiveInv, HushInv, [Next]_vars
    PROVE  HushInv'
<1> USE DEF zammad, ntfy, hook, stateDir, history
<1>1. /\ tickets \in Seq(Ticket) /\ mode \in {"up", "down", "reject"}
      /\ repeat \in [Keys -> Record] /\ hushed \in [Keys -> Nat]
      /\ pc \in HandleSteps => job \in Message /\ job.key \in Keys
  BY DEF TypeOK, ZammadType, StateDirType, HookType, HistoryType, InHand, Message, Clean
<1>2. \A k \in Keys : repeat[k].count \in Nat /\ Reported(k) \in Nat
  BY <1>1, ReportedType DEF Record, NoRecord
\* Steps that leave counts and tickets and do not lead to or from remember.
<1>3. ASSUME UNCHANGED <<tickets, repeat, hushed>>, pc # "remember",
             pc' \notin {"remember", "decide", "addTag"}
      PROVE  HushInv'
  BY <1>3 DEF HushInv, Reset, Reported, WithKey, TicketIds
\* A call that returns or raises.
<1>4. ASSUME NEW s \in HandleSteps, Answered(s)
      PROVE  \/ mode = "up" /\ pc' = s /\ job' = job
             \/ mode # "up" /\ pc' \in {"failed", "replay"}
  BY <1>4 DEF Answered
<1>5. CASE UNCHANGED vars \/ ModeChange \/ Tick
  <2>1. UNCHANGED <<tickets, repeat, hushed, pc, job, existing>>
    BY <1>5 DEF vars, ModeChange, Tick
  <2> QED
    BY <2>1 DEF HushInv, Reset, Reported, WithKey, TicketIds, Found
<1>6. CASE Operator
  <2>1. PICK move \in HumanMoves, i \in TicketIds :
          tickets' = [tickets EXCEPT ![i] = Moved(move, tickets[i])]
    BY <1>6 DEF Operator
  <2> DEFINE t == Moved(move, tickets[i])
  <2>2. tickets[i] \in Ticket
    BY <1>1 DEF TicketIds
  <2>3. t \in Ticket /\ t.key = tickets[i].key
    BY <2>2, MovedType DEF TypeOK
  <2>4. t.log = tickets[i].log
    BY <2>2 DEF Moved, Ticket
  <2>5. ReportedIn(t) = ReportedIn(tickets[i]) /\ ReportedIn(t) \in Nat
    BY <2>2, <2>3, <2>4, SameArticles, ReportedInType
  <2>6. tickets' = [tickets EXCEPT ![i] = t]
    BY <2>1
  <2> HIDE DEF t
  <2>7. /\ \A k : Kept(k)
        /\ TicketIds' = TicketIds
        /\ \A j \in TicketIds :
             tickets[j].state \in Active => tickets'[j].state \in Active
    BY <1>6, OperatorKeeps
  <2>8. UNCHANGED <<repeat, hushed, pc, job, existing>>
    BY <1>6 DEF Operator
  <2>9. existing.id # 0 => existing.id \in TicketIds
    BY DEF TypeOK, HookType, InHand, Existing, TicketIds
  <2>10. ASSUME NEW k \in Keys
         PROVE  /\ (hushed[k] = Reported(k) + IF Reset(k) THEN 0 ELSE repeat[k].count)'
                /\ (repeat[k].count > 0 => Reset(k) \/ WithKey(k, Active) # {})'
    <3>1. Reported(k)' = Reported(k)
      <4>1. Reported(k)' = Reported(k)
              + IF k = t.key THEN ReportedIn(t) - ReportedIn(tickets[i]) ELSE 0
        BY <2>3, <2>6, ReportedMore
      <4> QED
        BY <1>2, <2>5, <4>1
    <3>2. WithKey(k, Active)' = WithKey(k, Active)
      BY <2>7 DEF Kept, ActiveNext, WithKey, TicketIds
    <3> QED
      BY <2>8, <3>1, <3>2 DEF HushInv, Reset
  <2>11. pc' = "decide" /\ Found' /\ ~existing'.closed =>
           tickets'[existing'.id].state \in Active
    BY <2>7, <2>8, <2>9 DEF HushInv, Found
  <2>12. pc' = "addTag" => repeat'[job'.key].count = 0
    BY <2>8 DEF HushInv
  <2> QED
    BY <2>10, <2>11, <2>12 DEF HushInv
<1>7. CASE Deliver \/ DeliverSelfAlert \/ ReplayNext \/ HandleCurrent
  BY <1>3, <1>7 DEF Deliver, DeliverSelfAlert, Start, ReplayNext, HandleCurrent
<1>8. CASE Crash
  BY <1>8 DEF Crash, Clean
<1>9. CASE SearchActive
  <2>1. UNCHANGED <<tickets, repeat, hushed>> /\ pc = "search"
    BY <1>9 DEF SearchActive
  <2>2. CASE Answered("searchClosed")
    BY <1>3, <1>4, <2>1, <2>2 DEF HandleSteps
  <2>3. CASE Answered("decide") /\ \E i \in WithKey(job.key, Active) : existing'.id = i
    <3>1. pc' \in {"decide", "failed", "replay"}
      BY <1>4, <2>3 DEF HandleSteps
    <3>2. tickets'[existing'.id].state \in Active
      BY <2>1, <2>3 DEF WithKey
    <3> QED
      BY <2>1, <3>1, <3>2 DEF HushInv, Reset, Reported, WithKey, TicketIds
  <2> QED
    BY <1>9, <2>2, <2>3 DEF SearchActive
<1>10. CASE SearchClosed
  <2>1. UNCHANGED <<tickets, repeat, hushed>> /\ pc = "searchClosed"
    BY <1>10 DEF SearchClosed
  <2>2. pc' \in {"decide", "failed", "replay"}
    BY <1>4, <1>10 DEF SearchClosed, HandleSteps
  <2>3. existing'.closed \/ existing'.id = 0
    BY <1>10 DEF SearchClosed, NoTicket
  <2> QED
    BY <2>1, <2>2, <2>3 DEF HushInv, Reset, Reported, WithKey, TicketIds, Found
<1>11. CASE Decide
  <2>1. CASE UNCHANGED <<repeat, hushed>>
    BY <1>3, <1>11, <2>1 DEF Decide
  <2>2. CASE Suppress /\ Found /\ ~existing.closed
    <3>1. /\ UNCHANGED tickets /\ pc = "decide" /\ pc' \notin {"remember", "decide"}
          /\ job.key \in Keys
      BY <1>1, <1>11 DEF Decide, HandleSteps
    <3>2. existing.id \in WithKey(job.key, Active)
      BY <2>2, <3>1
      DEF HushInv, WithKey, TicketIds, TypeOK, HookType, InHand, Existing, Found
    <3>3. /\ \A k \in Keys : repeat'[k].count =
                IF k = job.key THEN repeat[k].count + 1 ELSE repeat[k].count
          /\ \A k \in Keys : hushed'[k] =
                IF k = job.key THEN hushed[k] + 1 ELSE hushed[k]
      <4>1. ASSUME NEW k \in Keys, k # job.key
            PROVE  repeat'[k] = repeat[k] /\ hushed'[k] = hushed[k]
        BY <1>1, <2>2, <4>1 DEF Suppress
      <4>2. repeat'[job.key].count = repeat[job.key].count + 1
            /\ hushed'[job.key] = hushed[job.key] + 1
        <5>1. repeat' = [repeat EXCEPT ![job.key] =
                           [repeat[job.key] EXCEPT !.count = repeat[job.key].count + 1]]
          BY <2>2 DEF Suppress
        <5>2. repeat[job.key] \in Record
          BY <1>1, <3>1
        <5>3. [repeat[job.key] EXCEPT !.count = repeat[job.key].count + 1].count
                = repeat[job.key].count + 1
          BY <5>2 DEF Record, NoRecord
        <5> QED
          BY <1>1, <2>2, <3>1, <5>1, <5>3 DEF Suppress
      <4> QED
        BY <4>1, <4>2
    <3>4. \A k \in Keys : Reported(k)' = Reported(k) /\ WithKey(k, Active)' = WithKey(k, Active)
      BY <3>1 DEF Reported, WithKey, TicketIds
    <3>5. ASSUME NEW k \in Keys
          PROVE  /\ (hushed[k] = Reported(k) + IF Reset(k) THEN 0 ELSE repeat[k].count)'
                 /\ (repeat[k].count > 0 => Reset(k) \/ WithKey(k, Active) # {})'
      <4>1. ~Reset(k) /\ ~Reset(k)'
        BY <3>1 DEF Reset
      <4>2. /\ hushed[k] = Reported(k) + repeat[k].count
            /\ repeat[k].count > 0 => WithKey(k, Active) # {}
        BY <4>1 DEF HushInv
      <4>3. /\ hushed'[k] = Reported(k)' + repeat'[k].count
            /\ repeat'[k].count > 0 => WithKey(k, Active)' # {}
        BY <1>1, <1>2, <3>2, <3>3, <3>4, <4>2
      <4> QED
        BY <4>1, <4>3
    <3> QED
      BY <1>11, <3>1, <3>5 DEF HushInv, Decide
  <2> QED
    BY <1>11, <2>1, <2>2 DEF Decide
<1>12. CASE CheckTag
  <2>1. UNCHANGED <<tickets, repeat, hushed>> /\ pc = "checkTag"
    BY <1>12 DEF CheckTag
  <2>2. pc' \in {"put", "create", "failed", "replay"}
    BY <1>4, <1>12 DEF CheckTag, HandleSteps
  <2> QED
    BY <1>3, <2>1, <2>2
<1>13. CASE PutTicket
  <2> DEFINE i == existing.id
             t == Updated(tickets[i], newState)
  <2>1. /\ UNCHANGED <<repeat, hushed>> /\ Answered("remember") /\ pc = "put"
        /\ tickets' = IF mode = "up" THEN [tickets EXCEPT ![i] = t] ELSE tickets
    BY <1>1, <1>13 DEF PutTicket, Applied
  <2>2. CASE mode # "up" /\ pc' \in {"failed", "replay"}
    BY <1>3, <2>1, <2>2
  <2>3. CASE mode = "up" /\ pc' = "remember" /\ job' = job
    <3>1. i \in TicketIds /\ tickets[i] \in Ticket /\ tickets[i].key = job.key
      BY <2>1 DEF TypeOK, InHand, Found, HookType, Existing, ZammadType, TicketIds
    <3>2. job \in Message /\ job.key \in Keys
      BY <1>1, <2>1 DEF HandleSteps
    <3>3. t \in Ticket /\ t.key = job.key
      <4>1. newState \in TicketStates \cup {"keep"}
        BY DEF TypeOK, HookType, TicketStates, Active
      <4> QED
        BY <3>1, <3>2, <4>1, UpdatedType
    <3>4. repeat[job.key].count \in Nat
      BY <1>2, <3>2
    <3>5. ReportedIn(t) = ReportedIn(tickets[i]) + repeat[job.key].count
      BY <3>1, <3>4, UpdatedReports
    <3> HIDE DEF t, i
    <3>6. ASSUME NEW k \in Keys
          PROVE  Reported(k)' = Reported(k) + IF k = job.key THEN repeat[job.key].count ELSE 0
      <4>1. Reported(k)' = Reported(k)
              + IF k = t.key THEN ReportedIn(t) - ReportedIn(tickets[i]) ELSE 0
        BY <2>1, <2>3, <3>1, <3>3, ReportedMore
      <4>2. ReportedIn(tickets[i]) \in Nat
        BY <3>1, ReportedInType
      <4> QED
        BY <3>3, <3>4, <3>5, <4>1, <4>2
    <3>7. \A k \in Keys : k # job.key => Kept(k)
      BY <2>1, <2>3, <3>1, <3>3, OthersKept
    <3>8. ASSUME NEW k \in Keys
          PROVE  /\ (hushed[k] = Reported(k) + IF Reset(k) THEN 0 ELSE repeat[k].count)'
                 /\ (repeat[k].count > 0 => Reset(k) \/ WithKey(k, Active) # {})'
      <4>1. CASE k = job.key
        <5>1. hushed[k] = Reported(k) + repeat[k].count
          BY <2>1 DEF HushInv, Reset
        <5> QED
          BY <1>2, <2>1, <2>3, <3>3, <3>6, <4>1, <5>1 DEF Reset
      <4>2. CASE k # job.key
        <5>1. Reported(k)' = Reported(k)
          BY <1>2, <3>3, <3>6, <4>2
        <5>2. WithKey(k, Active)' = WithKey(k, Active)
          BY <3>7, <4>2 DEF Kept, ActiveNext, WithKey, TicketIds
        <5> QED
          BY <2>1, <2>3, <4>2, <5>1, <5>2 DEF HushInv, Reset
      <4> QED
        BY <4>1, <4>2
    <3> QED
      BY <2>3, <3>8 DEF HushInv
  <2> QED
    BY <1>4, <2>1, <2>2, <2>3 DEF HandleSteps
<1>14. CASE CreateTicket
  <2> DEFINE new == [key |-> job.key, state |-> "new", managed |-> FALSE,
                     closedAt |-> 0, log |-> <<Note(0)>>]
  <2>1. /\ UNCHANGED <<repeat, hushed>> /\ pc = "create"
        /\ \/ tickets' = Append(tickets, new)
           \/ UNCHANGED tickets /\ mode # "up"
    BY <1>14 DEF CreateTicket, Applied
  <2>2. \/ mode = "up" /\ pc' = "addTag" /\ job' = job
        \/ mode # "up" /\ pc' \in {"failed", "replay"}
    BY <1>4, <1>14 DEF CreateTicket, HandleSteps
  <2>3. CASE UNCHANGED tickets /\ mode # "up"
    BY <1>3, <2>1, <2>2, <2>3
  <2>4. CASE tickets' = Append(tickets, new)
    <3>1. ReportedIn(new) = 0
      <4> DEFINE c == [a \in DOMAIN <<Note(0)>> |-> <<Note(0)>>[a].count]
      <4>1. DOMAIN <<Note(0)>> = 1 .. 1 /\ Len(<<Note(0)>>) = 1
        OBVIOUS
      <4>2. ReportedIn(new) = Total(c, 1)
        BY <4>1 DEF ReportedIn
      <4>3. c[1] = 0
        BY <4>1 DEF Note
      <4> HIDE DEF c
      <4>4. Total(c, 0 + 1) = Total(c, 0) + c[0 + 1]
        BY <4>3, TotalStep
      <4> QED
        BY <4>2, <4>3, <4>4, TotalZero
    <3>2. ASSUME NEW k \in Keys PROVE Reported(k)' = Reported(k)
      BY <2>4, <3>1, ReportedNew
    <3>3. ASSUME NEW k \in Keys, WithKey(k, Active) # {} PROVE WithKey(k, Active)' # {}
      BY <1>1, <2>4, <3>3 DEF WithKey, TicketIds
    <3>4. repeat[job.key].count = 0
      <4>1. NoActive(job.key) /\ job.key \in Keys
        BY <1>1, <2>1 DEF OneActiveInv, HandleSteps
      <4> QED
        BY <1>2, <2>1, <4>1 DEF HushInv, Reset, NoActive
    <3> QED
      BY <2>1, <2>2, <3>2, <3>3, <3>4 DEF HushInv, Reset
  <2> QED
    BY <2>1, <2>3, <2>4
<1>15. CASE AddTag
  <2> DEFINE i == existing.id
             t == [tickets[i] EXCEPT !.managed = TRUE]
  <2>1. /\ UNCHANGED <<repeat, hushed>> /\ Answered("remember") /\ pc = "addTag"
        /\ tickets' = [tickets EXCEPT ![i] = t] \/ UNCHANGED tickets
    BY <1>15 DEF AddTag
  <2>2. i \in TicketIds /\ tickets[i] \in Ticket
    BY <2>1 DEF TypeOK, InHand, Found, HookType, Existing, ZammadType, TicketIds
  <2>3. t \in Ticket /\ t.key = tickets[i].key /\ t.state = tickets[i].state
        /\ t.log = tickets[i].log
    BY <2>2 DEF Ticket
  <2>4. ReportedIn(t) = ReportedIn(tickets[i]) /\ ReportedIn(t) \in Nat
    BY <2>2, <2>3, SameArticles, ReportedInType
  <2> HIDE DEF t, i
  <2>5. ASSUME NEW k \in Keys PROVE Reported(k)' = Reported(k)
    <3>1. CASE tickets' = [tickets EXCEPT ![i] = t]
      <4>1. Reported(k)' = Reported(k)
              + IF k = t.key THEN ReportedIn(t) - ReportedIn(tickets[i]) ELSE 0
        BY <2>2, <2>3, <3>1, ReportedMore
      <4> QED
        BY <1>2, <2>4, <4>1
    <3>2. CASE UNCHANGED tickets
      BY <3>2 DEF Reported, TicketIds
    <3> QED
      BY <2>1, <3>1, <3>2
  <2>6. ASSUME NEW k \in Keys PROVE WithKey(k, Active)' = WithKey(k, Active)
    <3>1. CASE tickets' = [tickets EXCEPT ![i] = t]
      BY <1>1, <2>2, <2>3, <3>1 DEF WithKey, TicketIds
    <3>2. CASE UNCHANGED tickets
      BY <3>2 DEF WithKey, TicketIds
    <3> QED
      BY <2>1, <3>1, <3>2
  <2>7. repeat[job.key].count = 0 /\ job.key \in Keys
    BY <1>1, <2>1 DEF HushInv, HandleSteps
  <2>8. /\ pc' \in {"remember", "failed", "replay"}
        /\ pc' = "remember" => job' = job
    BY <1>4, <2>1 DEF HandleSteps
  <2> QED
    BY <1>1, <1>2, <2>1, <2>5, <2>6, <2>7, <2>8 DEF HushInv, Reset
<1>16. CASE RememberArticle
  <2>1. /\ UNCHANGED <<tickets, hushed>> /\ pc = "remember" /\ pc' = "done"
        /\ repeat' = [repeat EXCEPT ![job.key] =
                        [state |-> AlertStateOf(job), at |-> now, count |-> 0]]
    BY <1>16 DEF RememberArticle
  <2>2. \A k \in Keys : repeat'[k].count = IF Reset(k) THEN 0 ELSE repeat[k].count
    BY <1>1, <2>1 DEF Reset
  <2>3. \A k \in Keys : Reported(k)' = Reported(k) /\ WithKey(k, Active)' = WithKey(k, Active)
    BY <2>1 DEF Reported, WithKey, TicketIds
  <2> QED
    BY <1>2, <2>1, <2>2, <2>3 DEF HushInv, Reset
<1>17. CASE Finish \/ SpoolOpen \/ SpoolWrite \/ SpoolTrim \/ RecordFailure
            \/ PublishSelfAlert
  BY <1>3, <1>17 DEF Finish, Exit, SpoolOpen, SpoolWrite, SpoolTrim, RecordFailure,
     PublishSelfAlert
<1> QED
  BY <1>5, <1>6, <1>7, <1>8, <1>9, <1>10, <1>11, <1>12, <1>13, <1>14, <1>15, <1>16,
     <1>17
  DEF Next, Run, World

\* No article that was there before reports repeats.
NothingReported == \A t \in Preexisting : ReportedIn(t) = 0

\* As long as a call that fails was not applied, every repeat the bridge kept
\* silent is reported by an article or still counted for the next one, whatever
\* the outages, replays and rejections, and though a ticket may be closed, created
\* or reopened between two articles of its key.
THEOREM SuppressedReported ==
    Clean /\ HumanMoves \subseteq {"take", "untag"} /\ NothingReported
      => (Spec => []SuppressedAreReported)
<1> SUFFICES ASSUME Clean, HumanMoves \subseteq {"take", "untag"}, NothingReported
             PROVE  Spec => []SuppressedAreReported
  OBVIOUS
<1>1. Init => OneActiveInv /\ HushInv
  <2> SUFFICES ASSUME Init PROVE HushInv
    BY OneActiveInit
  <2>1. \A k : Reported(k) = 0
    <3> SUFFICES ASSUME NEW k PROVE Reported(k) = 0
      OBVIOUS
    <3>1. CASE tickets = <<>>
      BY <3>1, TotalZero DEF Reported
    <3>2. CASE \E t \in Preexisting : tickets = <<t>>
      <4> DEFINE f == [i \in TicketIds |-> ReportedBy(k, i)]
      <4>1. TicketIds = 1 .. 1 /\ f[1] = 0 /\ Len(tickets) = 1
        BY <3>2 DEF TicketIds, ReportedBy, NothingReported
      <4>2. Reported(k) = Total(f, 1)
        BY <4>1 DEF Reported, ReportedBy
      <4> HIDE DEF f
      <4>3. Total(f, 0 + 1) = Total(f, 0) + f[0 + 1]
        BY <4>1, TotalStep
      <4> QED
        BY <4>1, <4>2, <4>3, TotalZero
    <3> QED
      BY <3>1, <3>2 DEF Init
  <2> QED
    BY <2>1 DEF Init, HushInv, Reset, NoRecord
<1>2. HumanMoves \cap {"release", "reopen"} = {}
  OBVIOUS
<1>3. TypeOK /\ TypeOK' /\ OneActiveInv /\ HushInv /\ [Next]_vars =>
        OneActiveInv' /\ HushInv'
  BY <1>2, OneActiveNext, HushNext
<1>4. HushInv => SuppressedAreReported
  BY DEF HushInv, Reset, SuppressedAreReported
<1> QED
  BY <1>1, <1>3, <1>4, TypeCorrect, PTL DEF Spec
=============================================================================
